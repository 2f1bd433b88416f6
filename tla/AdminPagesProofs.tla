-------------------------- MODULE AdminPagesProofs --------------------------
(***************************************************************************)
(* Machine-checked proofs about AdminPages, for every set of tabs,         *)
(* departments, users, workspaces, models and requests, for every          *)
(* structure that Bitrix24 may answer, and for every bound.  What a step   *)
(* of a handler does is in HandlerProofs.                                  *)
(***************************************************************************)
EXTENDS AdminPages, HandlerProofs

-----------------------------------------------------------------------------
(* Sequences of calls                                                      *)

IsList(s) == s \in Seq(Range(s))

LEMMA ListOf ==
    ASSUME NEW S, NEW s \in Seq(S)
    PROVE  IsList(s) /\ Range(s) \subseteq S
<1>1. Len(s) \in Nat /\ s \in [1..Len(s) -> S] /\ DOMAIN s = 1..Len(s)
    BY LenProperties
<1>2. s \in [1..Len(s) -> Range(s)]
    BY <1>1 DEF Range
<1>3. s \in Seq(Range(s))
    BY <1>1, <1>2, SeqDef
<1> QED BY <1>1, <1>3 DEF IsList, Range

LEMMA Appended ==
    ASSUME NEW s, IsList(s), NEW c
    PROVE  IsList(Append(s, c)) /\ Range(Append(s, c)) \subseteq Range(s) \cup {c}
<1>1. s \in Seq(Range(s) \cup {c})
    BY SeqMonotonic DEF IsList
<1>2. Append(s, c) \in Seq(Range(s) \cup {c})
    BY <1>1
<1> QED BY <1>2, ListOf

LEMMA Removed ==
    ASSUME NEW s, IsList(s), NEW k \in DOMAIN s
    PROVE  IsList(RemoveAt(s, k)) /\ Range(RemoveAt(s, k)) \subseteq Range(s)
<1>1. Len(s) \in Nat /\ DOMAIN s = 1..Len(s) /\ s \in [1..Len(s) -> Range(s)]
    BY LenProperties DEF IsList
<1>2. SubSeq(s, 1, k - 1) \in Seq(Range(s)) /\ SubSeq(s, k + 1, Len(s)) \in Seq(Range(s))
    BY <1>1, SubSeqProperties
<1>3. RemoveAt(s, k) \in Seq(Range(s))
    BY <1>2, ConcatProperties DEF RemoveAt
<1> QED BY <1>3, ListOf

LEMMA Mapped ==
    ASSUME NEW s, IsList(s), NEW t, DOMAIN t = DOMAIN s, t = [j \in DOMAIN t |-> t[j]]
    PROVE  IsList(t)
<1>1. Len(s) \in Nat /\ DOMAIN s = 1..Len(s)
    BY LenProperties DEF IsList
<1>2. t \in [1..Len(s) -> Range(t)]
    BY <1>1 DEF Range
<1> QED BY <1>1, <1>2, SeqDef DEF IsList

LEMMA RemovedAt ==
    ASSUME NEW s, IsList(s), NEW k \in DOMAIN s
    PROVE  \A i \in DOMAIN RemoveAt(s, k) :
              \E j \in DOMAIN s : /\ j # k /\ j = (IF i < k THEN i ELSE i + 1)
                                  /\ RemoveAt(s, k)[i] = s[j]
<1> DEFINE n == Len(s)
           a == SubSeq(s, 1, k - 1)
           b == SubSeq(s, k + 1, n)
<1>1. s \in Seq(Range(s)) /\ n \in Nat /\ DOMAIN s = 1..n /\ k \in 1..n
    BY LenProperties DEF IsList
<1>2. /\ a \in Seq(Range(s)) /\ Len(a) = k - 1 /\ \A i \in 1..(k - 1) : a[i] = s[i]
      /\ b \in Seq(Range(s)) /\ Len(b) = n - k /\ \A i \in 1..(n - k) : b[i] = s[k + i]
    <2>1. \A i \in 1..n : s[i] \in Range(s)
        BY <1>1 DEF Range
    <2>2. /\ a \in Seq(Range(s)) /\ Len(a) = (IF 1 <= k - 1 THEN (k - 1) - 1 + 1 ELSE 0)
          /\ \A i \in 1..((k - 1) - 1 + 1) : a[i] = s[1 + i - 1]
        BY <1>1, <2>1, SubSeqProperties
    <2>3. /\ b \in Seq(Range(s)) /\ Len(b) = (IF k + 1 <= n THEN n - (k + 1) + 1 ELSE 0)
          /\ \A i \in 1..(n - (k + 1) + 1) : b[i] = s[(k + 1) + i - 1]
        BY <1>1, <2>1, SubSeqProperties
    <2> HIDE DEF a, b, n
    <2>4. /\ Len(a) = k - 1 /\ Len(b) = n - k
          /\ \A i \in 1..(k - 1) : a[i] = s[1 + i - 1] /\ 1 + i - 1 = i
        BY <1>1, <2>2, <2>3
    <2>5. ASSUME NEW i \in 1..(n - k) PROVE b[i] = s[k + i]
        <3>1. i \in 1..(n - (k + 1) + 1) /\ (k + 1) + i - 1 = k + i
            BY <1>1, <2>5
        <3> QED BY <2>3, <3>1
    <2> QED BY <2>2, <2>3, <2>4, <2>5
<1>3. RemoveAt(s, k) = a \o b
    BY DEF RemoveAt
<1> HIDE DEF a, b
<1>4. /\ DOMAIN (a \o b) = 1..(n - 1)
      /\ \A i \in 1..(n - 1) : (a \o b)[i] = IF i <= k - 1 THEN a[i] ELSE b[i - (k - 1)]
    <2>1. a \o b \in Seq(Range(s)) /\ Len(a \o b) = Len(a) + Len(b)
          /\ \A i \in 1..(Len(a) + Len(b)) : (a \o b)[i] = IF i <= Len(a) THEN a[i] ELSE b[i - Len(a)]
        BY <1>2, ConcatProperties
    <2>2. DOMAIN (a \o b) = 1..Len(a \o b)
        BY <2>1, LenProperties
    <2>3. Len(a) + Len(b) = n - 1
        BY <1>1, <1>2
    <2> QED BY <1>2, <2>1, <2>2, <2>3
<1>5. SUFFICES ASSUME NEW i \in 1..(n - 1)
               PROVE  \E j \in DOMAIN s : /\ j # k /\ j = (IF i < k THEN i ELSE i + 1)
                                          /\ (a \o b)[i] = s[j]
    BY <1>3, <1>4
<1>6. CASE i < k
    <2>1. i \in 1..(k - 1) /\ i \in 1..n /\ i # k
        BY <1>1, <1>6
    <2>2. (a \o b)[i] = a[i] /\ a[i] = s[i]
        <3>1. i <= k - 1 /\ k - 1 \in Int
            BY <1>1, <2>1
        <3> HIDE DEF n
        <3>2. (a \o b)[i] = a[i]
            BY <1>4, <3>1
        <3>3. a[i] = s[i]
            BY <1>2, <2>1
        <3> QED BY <3>2, <3>3
    <2> QED BY <1>1, <1>6, <2>1, <2>2
<1>7. CASE ~(i < k)
    <2>1. i - (k - 1) \in 1..(n - k) /\ k + (i - (k - 1)) = i + 1 /\ i + 1 \in 1..n /\ i + 1 # k
        BY <1>1, <1>7
    <2>2. (a \o b)[i] = b[i - (k - 1)]
        <3>1. i \in 1..(n - 1) /\ ~(i <= k - 1)
            BY <1>1, <1>5, <1>7
        <3> HIDE DEF n
        <3> QED BY <1>4, <3>1
    <2> QED BY <1>1, <1>2, <1>7, <2>1, <2>2
<1> QED BY <1>6, <1>7

LEMMA AppendedAt ==
    ASSUME NEW s, IsList(s), NEW c
    PROVE  \A i \in DOMAIN Append(s, c) : \/ (i \in DOMAIN s /\ Append(s, c)[i] = s[i])
                                         \/ (i = Len(s) + 1 /\ Append(s, c)[i] = c)
<1> DEFINE S == Range(s) \cup {c}
           r == Append(s, c)
<1>1. s \in Seq(S) /\ c \in S
    BY SeqMonotonic DEF IsList
<1> HIDE DEF S
<1>2. /\ r \in Seq(S) /\ Len(r) = Len(s) + 1 /\ r[Len(s) + 1] = c
      /\ \A i \in 1..Len(s) : r[i] = s[i]
    BY <1>1, AppendProperties
<1>3. DOMAIN r = 1..Len(r) /\ DOMAIN s = 1..Len(s) /\ Len(s) \in Nat
    BY <1>1, <1>2, LenProperties
<1> HIDE DEF r
<1>4. \A i \in DOMAIN r : \/ (i \in DOMAIN s /\ r[i] = s[i])
                         \/ (i = Len(s) + 1 /\ r[i] = c)
    BY <1>2, <1>3
<1> QED BY <1>4 DEF r

-----------------------------------------------------------------------------
(* Pages and their calls                                                   *)

PageFields == {"route", "busy", "configured", "q", "due", "children", "rows", "people"}
IsPage(t, f) == f \in Page /\ Fits(t, f)
Pages(T) == DOMAIN T = Tabs /\ \A t \in Tabs : IsPage(t, T[t])

\* Which page makes which requests, in which of its functions.
Asks(route, cmd, fn) ==
    \/ /\ route = "bitrix"
       /\ \/ fn = "fetchBitrixStatus" /\ cmd \in {"load", "sync", "quiet"}
          \/ fn = "fetchBitrixSnapshot" /\ cmd \in {"load", "sync", "workspace", "debounce"}
          \/ fn = "saveBitrixWebhook" /\ cmd = "save"
          \/ fn = "disconnectBitrix" /\ cmd = "disconnect"
          \/ fn = "testBitrix" /\ cmd = "test"
          \/ fn = "syncBitrix" /\ cmd = "sync"
          \/ /\ fn \in {"createWorkspaceFromDepartment", "linkWorkspaceDepartment",
                        "unlinkWorkspaceDepartment"}
             /\ cmd = "workspace"
    \/ /\ route = "workspaces"
       /\ \/ fn = "fetchAdminWorkspaces" /\ cmd \in {"load", "apply", "unlink"}
          \/ fn = "applyWorkspaceMemberships" /\ cmd = "apply"
          \/ fn = "unlinkWorkspaceDepartment" /\ cmd = "unlink"
    \/ /\ route = "models"
       /\ \/ fn = "listAdminModels" /\ cmd \in {"load", "create", "action"}
          \/ fn = "createAdminModel" /\ cmd = "create"
          \/ fn = "actionAdminModel" /\ cmd = "action"
    \/ /\ route = "training"
       /\ \/ fn = "fetchTrainingRequests" /\ cmd \in {"load", "request", "act"}
          \/ fn = "createTrainingRequest" /\ cmd = "request"
          \/ fn \in {"submitTrainingRequest", "cancelTrainingRequest"} /\ cmd = "act"
    \/ /\ route = "review"
       /\ \/ fn = "fetchAdminTrainingRequests" /\ cmd \in {"load", "act"}
          \/ fn \in {"approveAdminTrainingRequest", "rejectAdminTrainingRequest"} /\ cmd = "act"

\* A call fits the page that made it, also if that page was left, and what is stored.
CallOf(T, o, c) ==
    /\ IsCall(c) /\ ModelCall(c) /\ TrainingCall(c) /\ Typed(o.spaces, c) /\ Applies(o, c)
    /\ c.tab \in Tabs /\ \E cmd : Asks(T[c.tab].route, cmd, c.fn) /\ c.cmd \in {cmd, "lost"}
CallsOf(T, o, C) == IsList(C) /\ \A c \in Range(C) : CallOf(T, o, c)

Bounds == clicks \in [Tabs -> Nat] /\ troubles \in Troubles

IndInv == IsStored(db) /\ Pages(tab) /\ CallsOf(tab, db.org, calls) /\ Bounds

LEMMA AskedByPages ==
    ASSUME NEW route, NEW cmd, NEW fn, Asks(route, cmd, fn)
    PROVE  /\ fn \in Fns /\ route \in Routes /\ RowsOf(fn) \subseteq LinesOf(route)
           /\ fn \in Statuses => route = "bitrix"
           /\ fn \in ModelFns <=> route = "models"
<1>1. fn \in Fns /\ route \in Routes
    BY DEF Asks, Fns, OrgFns, ModelFns, TrainingFns, Routes
<1>2. RowsOf(fn) \subseteq LinesOf(route)
    BY DEF Asks, RowsOf, LinesOf
<1>3. fn \in Statuses => route = "bitrix"
    BY DEF Asks, Statuses
<1>4. fn \in ModelFns <=> route = "models"
    BY DEF Asks, ModelFns
<1> QED BY <1>1, <1>2, <1>3, <1>4

LEMMA RoutesOnly ==
    ASSUME NEW T, NEW U, \A t \in Tabs : U[t].route = T[t].route, NEW o, NEW c, CallOf(T, o, c)
    PROVE  CallOf(U, o, c)
BY DEF CallOf

\* A page that changes, but not its route.
LEMMA OnePage ==
    ASSUME Pages(tab), NEW t \in Tabs, NEW f, IsPage(t, f), f.route = tab[t].route, tab' = [tab EXCEPT ![t] = f]
    PROVE  Pages(tab') /\ \A u \in Tabs : tab'[u].route = tab[u].route
<1>1. DOMAIN tab' = Tabs /\ \A u \in Tabs : tab'[u] = IF u = t THEN f ELSE tab[u]
    BY DEF Pages
<1> QED BY <1>1 DEF Pages

\* One field of a page changes.
AllRows == (SUBSET DeptLine) \cup (SUBSET SpaceLine) \cup (SUBSET ModelLine) \cup (SUBSET RequestLine)

LEMMA PagesAre ==
    /\ Page = [route : Routes, busy : Busy, configured : {"unknown", "no", "yes"}, q : BOOLEAN, due : BOOLEAN,
               children : BOOLEAN, people : SUBSET People, rows : AllRows]
    /\ \A route \in Routes : \A rs : rs \subseteq LinesOf(route) => rs \in AllRows
<1>1. \A route \in Routes : \A rs : rs \subseteq LinesOf(route) => rs \in AllRows
    BY DEF LinesOf, Routes, AllRows
<1> QED BY <1>1 DEF Page, AllRows

LEMMA PageBusy ==
    ASSUME NEW t, NEW f, IsPage(t, f), NEW v, v \in Busy, NEW g, g = [f EXCEPT !.busy = v]
    PROVE  IsPage(t, g) /\ g.route = f.route /\ g.busy = v
BY PagesAre DEF IsPage, Fits

LEMMA PageConfigured ==
    ASSUME NEW t, NEW f, IsPage(t, f), NEW v, v \in {"unknown", "no", "yes"}, NEW g, g = [f EXCEPT !.configured = v]
    PROVE  IsPage(t, g) /\ g.route = f.route /\ g.busy = f.busy
BY PagesAre DEF IsPage, Fits

LEMMA PageSearch ==
    ASSUME NEW t, NEW f, IsPage(t, f), NEW v, v \in BOOLEAN, NEW g, g = [f EXCEPT !.q = v]
    PROVE  IsPage(t, g) /\ g.route = f.route /\ g.busy = f.busy
BY PagesAre DEF IsPage, Fits

LEMMA PageDue ==
    ASSUME NEW t, NEW f, IsPage(t, f), NEW v, v \in BOOLEAN, v => f.route = "bitrix", NEW g, g = [f EXCEPT !.due = v]
    PROVE  IsPage(t, g) /\ g.route = f.route /\ g.busy = f.busy
BY PagesAre DEF IsPage, Fits

LEMMA PageChildren ==
    ASSUME NEW t, NEW f, IsPage(t, f), NEW v, v \in BOOLEAN, NEW g, g = [f EXCEPT !.children = v]
    PROVE  IsPage(t, g) /\ g.route = f.route /\ g.busy = f.busy
BY PagesAre DEF IsPage, Fits

LEMMA PageRows ==
    ASSUME NEW t, NEW f, IsPage(t, f), NEW v, v \subseteq LinesOf(f.route), NEW g, g = [f EXCEPT !.rows = v]
    PROVE  IsPage(t, g) /\ g.route = f.route /\ g.busy = f.busy
BY PagesAre DEF IsPage, Fits

LEMMA PagePeople ==
    ASSUME NEW t, NEW f, IsPage(t, f), NEW v, v \subseteq People, NEW g, g = [f EXCEPT !.people = v]
    PROVE  IsPage(t, g) /\ g.route = f.route /\ g.busy = f.busy
BY PagesAre DEF IsPage, Fits

\* A call that was just made.
Fresh(t, cmd, fn, c) ==
    /\ DOMAIN c = Fields /\ c.tab = t /\ c.cmd = cmd /\ c.fn = fn /\ c.at = "sent" /\ c.user = UserOf[t]
    /\ c.flag \in BOOLEAN /\ c.seen = NoStructure /\ c.links = <<>> /\ c.want = <<>> /\ c.reply = Err

\* Its arguments are what it needs.
Argued(t, c) ==
    /\ c.fn \in {"createWorkspaceFromDepartment", "linkWorkspaceDepartment"} => c.arg \in Depts
    /\ c.fn \in {"createAdminModel", "actionAdminModel"} => c.arg \in Models
    /\ c.fn = "actionAdminModel" => c.verb \in Verbs
    /\ c.fn \in TrainingFns /\ Reviews(c.verb) => UserOf[t] = Admin

LEMMA Made ==
    ASSUME NEW t, NEW cmd, NEW fn
    PROVE  Fresh(t, cmd, fn, Call(t, cmd, fn)) /\ ~Reviews(Call(t, cmd, fn).verb)
BY DEF Fresh, Call, Fields, Reviews

LEMMA WithArg ==
    ASSUME NEW t, NEW cmd, NEW fn, NEW c, Fresh(t, cmd, fn, c), NEW v, NEW e, e = [c EXCEPT !.arg = v]
    PROVE  Fresh(t, cmd, fn, e) /\ e.arg = v /\ e.verb = c.verb
BY DEF Fresh, Fields

LEMMA WithWs ==
    ASSUME NEW t, NEW cmd, NEW fn, NEW c, Fresh(t, cmd, fn, c), NEW v, NEW e, e = [c EXCEPT !.ws = v]
    PROVE  Fresh(t, cmd, fn, e) /\ e.arg = c.arg /\ e.verb = c.verb
BY DEF Fresh, Fields

LEMMA WithFlag ==
    ASSUME NEW t, NEW cmd, NEW fn, NEW c, Fresh(t, cmd, fn, c), NEW v, v \in BOOLEAN, NEW e, e = [c EXCEPT !.flag = v]
    PROVE  Fresh(t, cmd, fn, e) /\ e.arg = c.arg /\ e.verb = c.verb
BY DEF Fresh, Fields

LEMMA WithVerb ==
    ASSUME NEW t, NEW cmd, NEW fn, NEW c, Fresh(t, cmd, fn, c), NEW v, NEW e, e = [c EXCEPT !.verb = v]
    PROVE  Fresh(t, cmd, fn, e) /\ e.arg = c.arg /\ e.verb = v
BY DEF Fresh, Fields

LEMMA WithQ ==
    ASSUME NEW t, NEW cmd, NEW fn, NEW c, Fresh(t, cmd, fn, c), NEW v, NEW e, e = [c EXCEPT !.q = v]
    PROVE  Fresh(t, cmd, fn, e) /\ e.arg = c.arg /\ e.verb = c.verb
BY DEF Fresh, Fields

\* Functions with arguments that must be of a kind.
Argues(fn) == fn \in {"createWorkspaceFromDepartment", "linkWorkspaceDepartment", "createAdminModel",
                      "actionAdminModel"}

LEMMA FreshCall ==
    ASSUME NEW T, NEW o, NEW t \in Tabs, NEW cmd, NEW fn, NEW c, Fresh(t, cmd, fn, c), Argued(t, c),
           Asks(T[t].route, cmd, fn)
    PROVE  CallOf(T, o, c)
<1>1. IsCall(c)
    BY AskedByPages DEF Fresh, IsCall, Stage
<1>2. ModelCall(c) /\ TrainingCall(c)
    BY DEF Fresh, Argued, ModelCall, TrainingCall, Err, Ok
<1>3. UserOf[t] \in Users \cap (Authors \cup {Admin})
    BY WorkersAreUsers
<1>4. LinksOn(o.spaces, <<>>) /\ DOMAIN <<>> = {} /\ Range(<<>>) = {}
    BY DEF LinksOn, Range
<1>5. IsStructure(NoStructure) /\ IsReply(fn, Err)
    BY WithoutStructure, PlainReplies
<1>6. Typed(o.spaces, c)
    BY <1>3, <1>4, <1>5 DEF Typed, Fresh, Argued
<1>7. Applies(o, c)
    BY DEF Fresh, Applies
<1> QED BY <1>1, <1>2, <1>6, <1>7 DEF CallOf, Fresh

LEMMA OneCall ==
    ASSUME NEW T, NEW o, NEW C, CallsOf(T, o, C), NEW c, CallOf(T, o, c)
    PROVE  CallsOf(T, o, Append(C, c))
BY Appended DEF CallsOf

LEMMA CallGone ==
    ASSUME NEW T, NEW o, NEW C, CallsOf(T, o, C), NEW k \in DOMAIN C
    PROVE  CallsOf(T, o, RemoveAt(C, k))
BY Removed DEF CallsOf

LEMMA SameRoutes ==
    ASSUME NEW T, NEW U, \A t \in Tabs : U[t].route = T[t].route, NEW o, NEW C, CallsOf(T, o, C)
    PROVE  CallsOf(U, o, C)
BY RoutesOnly DEF CallsOf

\* What an answer changes on a page.
LEMMA Shown ==
    ASSUME NEW T, Pages(T), NEW o, NEW c, CallOf(T, o, c)
    PROVE  LET f == T[c.tab]
               g == Showing(f, c)
           IN  /\ IsPage(c.tab, g) /\ g.route = f.route
               /\ IsPage(c.tab, Freed(g, c)) /\ Freed(g, c).route = f.route
               /\ IsPage(c.tab, Freed(f, c)) /\ Freed(f, c).route = f.route
<1> DEFINE t == c.tab
           f == T[t]
           g == Showing(f, c)
<1>1. IsPage(t, f) /\ t \in Tabs /\ \E cmd : Asks(f.route, cmd, c.fn)
    BY DEF Pages, CallOf
<1>2. /\ c.reply.rows \subseteq LinesOf(f.route) /\ c.reply.people \subseteq People /\ c.reply.flag \in BOOLEAN
      /\ c.fn \in Statuses => f.route = "bitrix"
    BY <1>1, AskedByPages DEF CallOf, Typed, IsReply
<1> HIDE DEF f, t
<1>3. ASSUME NEW h, IsPage(t, h), h.route = f.route
      PROVE  IsPage(t, Freed(h, c)) /\ Freed(h, c).route = f.route
    <2>1. "no" \in Busy
        BY DEF Busy
    <2> DEFINE e == [h EXCEPT !.busy = "no"]
    <2>2. IsPage(t, e) /\ e.route = h.route
        BY <1>3, <2>1, PageBusy
    <2>3. Freed(h, c) = IF c.cmd \in Occupying THEN e ELSE h
        BY DEF Freed
    <2> HIDE DEF e
    <2> QED BY <1>3, <2>2, <2>3
<1>4. IsPage(t, g) /\ g.route = f.route
    <2>1. CASE c.cmd = "lost" \/ ~c.reply.ok
        BY <1>1, <2>1 DEF Showing
    <2>2. CASE c.cmd # "lost" /\ c.reply.ok /\ c.fn \in Lists
        <3> DEFINE one == [f EXCEPT !.rows = c.reply.rows]
                   two == [one EXCEPT !.people = c.reply.people]
        <3>1. IsPage(t, one) /\ one.route = f.route
            BY <1>1, <1>2, PageRows
        <3>2. g = two
            BY <2>2 DEF Showing, Lists, Statuses
        <3> HIDE DEF one
        <3>3. IsPage(t, two) /\ two.route = one.route
            <4>1. c.reply.people \subseteq People
                BY <1>2
            <4> QED BY <3>1, <4>1, PagePeople
        <3> QED BY <3>1, <3>2, <3>3
    <2>3. CASE c.cmd # "lost" /\ c.reply.ok /\ c.fn \in Statuses
        <3> DEFINE s == IF c.reply.flag THEN "yes" ELSE "no"
                   due == IF s = f.configured THEN f.due ELSE c.reply.flag
                   one == [f EXCEPT !.configured = s]
                   two == [one EXCEPT !.due = due]
        <3>1. IsPage(t, one) /\ one.route = f.route
            <4>1. s \in {"unknown", "no", "yes"}
                OBVIOUS
            <4> HIDE DEF s
            <4> QED BY <1>1, <4>1, PageConfigured
        <3>2. g = SetStatusOf(f, c.reply.flag)
            BY <2>3 DEF Showing, Lists, Statuses
        <3>3. g = [f EXCEPT !.configured = s, !.due = IF s = f.configured THEN @ ELSE c.reply.flag]
            BY <3>2 DEF SetStatusOf
        <3>4. f.due \in BOOLEAN /\ f.route = "bitrix"
            BY <1>1, <1>2, <2>3 DEF IsPage, Page
        <3>5. g = two
            BY <3>3
        <3>6. due \in BOOLEAN
            BY <1>2, <3>4
        <3> HIDE DEF one, due, s
        <3>7. IsPage(t, two) /\ two.route = one.route
            BY <3>1, <3>4, <3>6, PageDue
        <3> QED BY <3>1, <3>5, <3>7
    <2>4. CASE c.cmd # "lost" /\ c.reply.ok /\ c.fn \notin Lists /\ c.fn \notin Statuses
        BY <1>1, <2>4 DEF Showing
    <2> QED BY <2>1, <2>2, <2>3, <2>4
<1> HIDE DEF g
<1>5. \A h \in {f, g} : IsPage(t, Freed(h, c)) /\ Freed(h, c).route = f.route
    BY <1>1, <1>3, <1>4
<1> QED BY <1>4, <1>5 DEF f, g, t

-----------------------------------------------------------------------------
(* The first state                                                         *)

LEMMA Opened ==
    ASSUME NEW S, IsFiniteSet(S), NEW i \in 1..Cardinality(S)
    PROVE  SetToSeq(S)[i] \in S
<1>1. \E f \in [1..Cardinality(S) -> S] : IsInjective(f)
    <2>1. PICK f : f \in Bijection(1..Cardinality(S), S)
        BY FS_CardinalityType DEF ExistsBijection
    <2> QED BY <2>1 DEF Bijection, Injection, IsInjective
<1>2. SetToSeq(S) \in [1..Cardinality(S) -> S]
    BY <1>1 DEF SetToSeq
<1> QED BY <1>2

LEMMA Mounted ==
    ASSUME NEW T, Pages(T), NEW o, NEW t \in Tabs
    PROVE  CallOf(T, o, Mount(t, T[t].route)) /\ Mount(t, T[t].route).cmd = "load"
           /\ Mount(t, T[t].route).at = "sent"
<1>1. T[t].route \in Routes
    BY PagesAre DEF Pages, IsPage
<1>2. PICK fn : /\ Mount(t, T[t].route) = Call(t, "load", fn) /\ Asks(T[t].route, "load", fn)
                /\ fn \in Lists \cup Statuses
    BY <1>1 DEF Mount, Routes, Asks, Lists, Statuses
<1>3. Fresh(t, "load", fn, Call(t, "load", fn)) /\ ~Reviews(Call(t, "load", fn).verb)
    BY Made
<1>4. Argued(t, Call(t, "load", fn))
    BY <1>2, <1>3 DEF Argued, Fresh, Lists, Statuses
<1> QED BY <1>2, <1>3, <1>4, FreshCall DEF Fresh

LEMMA InitInv == Init => IndInv
<1> SUFFICES ASSUME Init PROVE IndInv
    OBVIOUS
<1>1. PICK s \in Starts :
         /\ db = s.db /\ tab = s.tab /\ clicks = s.clicks /\ troubles = s.troubles
         /\ calls = [i \in 1..Cardinality(s.opened) |->
                        Mount(SetToSeq(s.opened)[i], s.tab[SetToSeq(s.opened)[i]].route)]
    BY DEF Init
<1>2. /\ IsStored(db) /\ tab \in [Tabs -> Page] /\ s.opened \subseteq Tabs /\ \A t \in Tabs : Fits(t, tab[t])
      /\ clicks \in [Tabs -> Nat] /\ troubles \in Troubles
    BY <1>1, StartsAreStates
<1>3. Pages(tab)
    BY <1>2 DEF Pages, IsPage
<1>4. IsFiniteSet(s.opened) /\ Cardinality(s.opened) \in Nat
    BY <1>2, TabsAreFinite, FS_Subset, FS_CardinalityType
<1>5. CallsOf(tab, db.org, calls)
    <2> DEFINE n == Cardinality(s.opened)
    <2>1. DOMAIN calls = 1..n
        BY <1>1
    <2>2. \A i \in 1..n : CallOf(tab, db.org, calls[i])
        <3> TAKE i \in 1..n
        <3>1. SetToSeq(s.opened)[i] \in Tabs
            BY <1>2, <1>4, Opened
        <3>2. calls[i] = Mount(SetToSeq(s.opened)[i], tab[SetToSeq(s.opened)[i]].route)
            BY <1>1
        <3> QED BY <1>3, <3>1, <3>2, Mounted
    <2>3. calls \in [1..n -> Range(calls)]
        BY <1>1 DEF Range
    <2>4. IsList(calls)
        BY <1>4, <2>3, SeqDef DEF IsList
    <2> QED BY <2>1, <2>2, <2>4 DEF CallsOf, Range
<1> QED BY <1>2, <1>3, <1>5 DEF IndInv, Bounds

-----------------------------------------------------------------------------
(* The pages                                                               *)

\* A request without arguments.
LEMMA PlainCall ==
    ASSUME NEW T, NEW o, NEW t \in Tabs, NEW cmd, NEW fn, fn \in Lists \cup Statuses \/ ~Argues(fn),
           Asks(T[t].route, cmd, fn), NEW q, NEW d, d \in {Call(t, cmd, fn), [Call(t, cmd, fn) EXCEPT !.q = q]}
    PROVE  CallOf(T, o, d) /\ Fresh(t, cmd, fn, d)
<1> DEFINE a == Call(t, cmd, fn)
           b == [a EXCEPT !.q = q]
<1>1. Fresh(t, cmd, fn, a) /\ ~Reviews(a.verb)
    BY Made
<1> HIDE DEF a
<1>2. Fresh(t, cmd, fn, b) /\ b.verb = a.verb
    BY <1>1, WithQ
<1> HIDE DEF b
<1>3. Argued(t, a) /\ Argued(t, b)
    BY <1>1, <1>2 DEF Argued, Fresh, Lists, Statuses, Argues
<1>4. CallOf(T, o, a) /\ CallOf(T, o, b)
    BY <1>1, <1>2, <1>3, FreshCall
<1>5. d \in {a, b}
    BY DEF a, b
<1> QED BY <1>1, <1>2, <1>4, <1>5

\* What a page makes of the answer to call k: it changes to f, and makes the request d or none.
Turns(k, f, d) ==
    LET c == calls[k]
    IN  /\ tab' = [tab EXCEPT ![c.tab] = f] /\ IsPage(c.tab, f) /\ f.route = tab[c.tab].route
        /\ \/ calls' = Rest(k)
           \/ calls' = Append(Rest(k), d) /\ CallOf(tab, db.org, d) /\ d.at = "sent"
        /\ UNCHANGED <<db, clicks, troubles>>

LEMMA AnswerTurns ==
    ASSUME IndInv, NEW k \in DOMAIN calls, GoesOn(k) \/ Ends(k) \/ Fails(k)
    PROVE  \E f, d : Turns(k, f, d)
<1> DEFINE c == calls[k]
           t == c.tab
           f == tab[t]
           g == Showing(f, c)
<1>1. /\ Pages(tab) /\ CallOf(tab, db.org, c) /\ t \in Tabs
      /\ c.cmd # "lost" => Asks(f.route, c.cmd, c.fn)
    BY DEF IndInv, CallsOf, CallOf, Range
<1>2. /\ IsPage(t, g) /\ g.route = f.route
      /\ IsPage(t, Freed(g, c)) /\ Freed(g, c).route = f.route
      /\ IsPage(t, Freed(f, c)) /\ Freed(f, c).route = f.route
    BY <1>1, Shown
<1>3. CASE GoesOn(k)
    <2> DEFINE fn == Follows(c)
               d == [Call(t, c.cmd, fn) EXCEPT !.q = c.q]
    <2>1. /\ tab' = [tab EXCEPT ![t] = g] /\ calls' = Append(Rest(k), d) /\ fn # "none"
          /\ UNCHANGED <<db, clicks, troubles>>
        BY <1>3 DEF GoesOn
    <2>2. fn \in Lists \cup Statuses /\ Asks(f.route, c.cmd, fn)
        BY <1>1, <2>1 DEF Follows, OwnWrites, ReviewWrites, Asks, Lists, Statuses
    <2>3. CallOf(tab, db.org, d) /\ Fresh(t, c.cmd, fn, d)
        BY <1>1, <2>2, PlainCall
    <2> HIDE DEF d, fn, g
    <2>4. Turns(k, g, d)
        BY <1>2, <2>1, <2>3 DEF Turns, Fresh
    <2> QED BY <2>4
<1>4. CASE Ends(k)
    <2>1. /\ tab' = [tab EXCEPT ![t] = Freed(g, c)] /\ calls' = Rest(k)
          /\ UNCHANGED <<db, clicks, troubles>>
        BY <1>4 DEF Ends
    <2> HIDE DEF g
    <2>2. Turns(k, Freed(g, c), c)
        BY <1>2, <2>1 DEF Turns
    <2> QED BY <2>2
<1>5. CASE Fails(k)
    <2> DEFINE d == Call(t, "quiet", "fetchBitrixStatus")
    <2>1. /\ tab' = [tab EXCEPT ![t] = Freed(f, c)] /\ UNCHANGED <<db, clicks, troubles>>
          /\ calls' = Rest(k) \/ (c.cmd = "sync" /\ calls' = Append(Rest(k), d))
        BY <1>5 DEF Fails
    <2>2. ASSUME c.cmd = "sync" PROVE CallOf(tab, db.org, d) /\ Fresh(t, "quiet", "fetchBitrixStatus", d)
        <3>1. Asks(f.route, "quiet", "fetchBitrixStatus") /\ "fetchBitrixStatus" \in Lists \cup Statuses
            BY <1>1, <2>2 DEF Asks, Statuses
        <3> QED BY <1>1, <3>1, PlainCall
    <2> HIDE DEF d
    <2>3. Turns(k, Freed(f, c), d)
        BY <1>2, <2>1, <2>2 DEF Turns, Fresh
    <2> QED BY <2>3
<1> QED BY <1>3, <1>4, <1>5

LEMMA AnswerInv ==
    ASSUME IndInv, NEW k \in DOMAIN calls, GoesOn(k) \/ Ends(k) \/ Fails(k)
    PROVE  IndInv'
<1> DEFINE t == calls[k].tab
<1>1. PICK f, d : Turns(k, f, d)
    BY AnswerTurns
<1>2. /\ IsStored(db) /\ Pages(tab) /\ CallsOf(tab, db.org, calls) /\ Bounds /\ t \in Tabs
    BY DEF IndInv, CallsOf, CallOf, Range
<1>3. tab' = [tab EXCEPT ![t] = f] /\ IsPage(t, f) /\ f.route = tab[t].route
    BY <1>1 DEF Turns
<1> HIDE DEF t
<1>4. Pages(tab') /\ \A u \in Tabs : tab'[u].route = tab[u].route
    BY <1>2, <1>3, OnePage
<1>5. CallsOf(tab, db.org, Rest(k))
    BY <1>2, CallGone DEF Rest
<1>6. CallsOf(tab, db.org, calls')
    BY <1>1, <1>5, OneCall DEF Turns
<1>7. CallsOf(tab', db.org, calls')
    BY <1>4, <1>6, SameRoutes
<1> QED BY <1>1, <1>2, <1>4, <1>7 DEF IndInv, Bounds, Turns

\* A page sends a command.
Sends(t, busy, cmd, fn, c) ==
    /\ Fresh(t, cmd, fn, c) /\ Argued(t, c) /\ Asks(tab[t].route, cmd, fn) /\ busy \in Busy
    /\ Send(t, busy, c)

\* A form on another page is filled in.
Fills(t, f) ==
    /\ Set(t, f) /\ IsPage(t, f) /\ f.route = tab[t].route /\ f.busy = tab[t].busy

Acts(t) == \/ \E busy, cmd, fn, c : Sends(t, busy, cmd, fn, c)
           \/ \E f : Fills(t, f)

LEMMA SentInv ==
    ASSUME IndInv, NEW t \in Tabs, NEW busy, NEW cmd, NEW fn, NEW c, Sends(t, busy, cmd, fn, c)
    PROVE  /\ Pages(tab') /\ CallsOf(tab', db.org, calls')
           /\ \E f, d : /\ tab' = [tab EXCEPT ![t] = f] /\ IsPage(t, f) /\ f.route = tab[t].route /\ f.busy = busy
                       /\ calls' = Append(calls, d) /\ CallOf(tab, db.org, d) /\ Fresh(t, cmd, fn, d)
<1> DEFINE f == [tab[t] EXCEPT !.busy = busy]
           d == [c EXCEPT !.q = tab[t].q]
<1>1. IsPage(t, tab[t]) /\ Pages(tab) /\ CallsOf(tab, db.org, calls)
    BY DEF IndInv, Pages
<1>2. IsPage(t, f) /\ f.route = tab[t].route /\ f.busy = busy
    BY <1>1, PageBusy DEF Sends
<1>3. tab' = [tab EXCEPT ![t] = f] /\ calls' = Append(calls, d)
    BY DEF Sends, Send
<1>4. Fresh(t, cmd, fn, d) /\ d.arg = c.arg /\ d.verb = c.verb
    BY WithQ DEF Sends
<1> HIDE DEF f, d
<1>5. Pages(tab') /\ \A u \in Tabs : tab'[u].route = tab[u].route
    BY <1>1, <1>2, <1>3, OnePage
<1>6. Argued(t, d)
    BY <1>4 DEF Sends, Argued, Fresh
<1>7. CallOf(tab, db.org, d)
    BY <1>4, <1>6, FreshCall DEF Sends
<1>8. CallsOf(tab, db.org, calls')
    BY <1>1, <1>3, <1>7, OneCall
<1>9. CallsOf(tab', db.org, calls')
    BY <1>5, <1>8, SameRoutes
<1> QED BY <1>2, <1>3, <1>4, <1>5, <1>7, <1>9

LEMMA FilledInv ==
    ASSUME IndInv, NEW t \in Tabs, NEW f, Fills(t, f)
    PROVE  Pages(tab') /\ CallsOf(tab', db.org, calls')
<1>1. tab' = [tab EXCEPT ![t] = f] /\ calls' = calls /\ Pages(tab) /\ CallsOf(tab, db.org, calls)
      /\ IsPage(t, f) /\ f.route = tab[t].route
    BY DEF Set, Fills, IndInv
<1>2. Pages(tab') /\ \A u \in Tabs : tab'[u].route = tab[u].route
    BY <1>1, OnePage
<1> QED BY <1>1, <1>2, SameRoutes

\* A command that is sent; b: what the page shows meanwhile.
LEMMA Sending ==
    ASSUME NEW t \in Tabs, NEW b, NEW cmd, NEW fn, NEW c, Fresh(t, cmd, fn, c), Argued(t, c),
           Asks(tab[t].route, cmd, fn), b \in Busy, Send(t, b, c)
    PROVE  Acts(t)
<1>1. Sends(t, b, cmd, fn, c)
    BY DEF Sends
<1> QED BY <1>1 DEF Acts

LEMMA PageOf ==
    ASSUME IndInv, NEW t \in Tabs
    PROVE  IsPage(t, tab[t]) /\ tab[t].busy \in Busy /\ tab[t].rows \subseteq LinesOf(tab[t].route)
           /\ tab[t].q \in BOOLEAN /\ tab[t].children \in BOOLEAN
BY PagesAre DEF IndInv, Pages, IsPage, Fits

LEMMA BitrixCommands ==
    ASSUME IndInv, NEW t \in Tabs, Save(t) \/ DisconnectBitrix(t) \/ TestBitrix(t) \/ SyncNow(t) \/ Apply(t)
    PROVE  Acts(t)
<1>1. ASSUME NEW b \in Busy, NEW cmd, NEW fn, ~Argues(fn), Asks(tab[t].route, cmd, fn),
             tab[t].route # "models", Send(t, b, Call(t, cmd, fn))
      PROVE  Acts(t)
    <2>1. PICK c : c = Call(t, cmd, fn)
        OBVIOUS
    <2>2. Fresh(t, cmd, fn, c) /\ ~Reviews(c.verb)
        BY <2>1, Made
    <2>3. Argued(t, c)
        BY <1>1, <2>2 DEF Argued, Argues, Fresh
    <2>4. Send(t, b, c)
        BY <1>1, <2>1 DEF Send
    <2> QED BY <1>1, <2>2, <2>3, <2>4, Sending
<1>2. CASE Save(t)
    <2>1. tab[t].route = "bitrix" /\ Send(t, "save", Call(t, "save", "saveBitrixWebhook"))
        BY <1>2 DEF Save, ConnectionCommands
    <2> QED BY <1>1, <2>1 DEF Asks, Argues, Busy
<1>3. CASE DisconnectBitrix(t)
    <2>1. tab[t].route = "bitrix" /\ Send(t, "disconnect", Call(t, "disconnect", "disconnectBitrix"))
        BY <1>3 DEF DisconnectBitrix, ConnectionCommands
    <2> QED BY <1>1, <2>1 DEF Asks, Argues, Busy
<1>4. CASE TestBitrix(t)
    <2>1. tab[t].route = "bitrix" /\ Send(t, "test", Call(t, "test", "testBitrix"))
        BY <1>4 DEF TestBitrix, SyncCommands
    <2> QED BY <1>1, <2>1 DEF Asks, Argues, Busy
<1>5. CASE SyncNow(t)
    <2>1. tab[t].route = "bitrix" /\ Send(t, "sync", Call(t, "sync", "syncBitrix"))
        BY <1>5 DEF SyncNow, SyncCommands
    <2> QED BY <1>1, <2>1 DEF Asks, Argues, Busy
<1>6. CASE Apply(t)
    <2>1. tab[t].route = "workspaces" /\ Send(t, "yes", Call(t, "apply", "applyWorkspaceMemberships"))
        BY <1>6 DEF Apply, ApplyOffered
    <2> QED BY <1>1, <2>1 DEF Asks, Argues, Busy
<1> QED BY <1>2, <1>3, <1>4, <1>5, <1>6

LEMMA RowCommands ==
    ASSUME IndInv, NEW t \in Tabs, tab[t].route = "bitrix", NEW row \in tab[t].rows,
           CreateWorkspace(t, row) \/ StopIncludingChildren(t, row) \/ Unlink(t, row)
    PROVE  Acts(t)
<1>1. row.dept \in Depts /\ tab[t].children \in BOOLEAN
    BY PageOf DEF LinesOf, DeptLine
<1>2. ASSUME NEW fn, Asks("bitrix", "workspace", fn), fn # "fetchBitrixSnapshot", NEW c,
             Fresh(t, "workspace", fn, c), c.arg = row.dept, Send(t, "workspace", c)
      PROVE  Acts(t)
    <2>1. Argued(t, c)
        BY <1>1, <1>2 DEF Argued, Fresh, TrainingFns, Asks
    <2>2. "workspace" \in Busy
        BY DEF Busy
    <2> QED BY <1>2, <2>1, <2>2, Sending
<1>3. PICK a : a = row.dept
    OBVIOUS
<1>4. CASE CreateWorkspace(t, row)
    <2> DEFINE fn == "createWorkspaceFromDepartment"
    <2>1. PICK b : b = [Call(t, "workspace", fn) EXCEPT !.arg = a]
        OBVIOUS
    <2>2. PICK c : c = [b EXCEPT !.flag = tab[t].children]
        OBVIOUS
    <2>3. Fresh(t, "workspace", fn, b) /\ b.arg = a
        BY <2>1, Made, WithArg
    <2>4. Fresh(t, "workspace", fn, c) /\ c.arg = b.arg
        BY <1>1, <2>3, <2>2, WithFlag
    <2>5. Send(t, "workspace", c)
        BY <1>3, <1>4, <2>1, <2>2 DEF CreateWorkspace, Send
    <2> QED BY <1>2, <1>3, <2>3, <2>4, <2>5 DEF Asks
<1>5. ASSUME NEW fn \in {"linkWorkspaceDepartment", "unlinkWorkspaceDepartment"},
             Send(t, "workspace", [Call(t, "workspace", fn) EXCEPT !.arg = row.dept, !.ws = row.ws])
      PROVE  Acts(t)
    <2>1. PICK b : b = [Call(t, "workspace", fn) EXCEPT !.arg = a]
        OBVIOUS
    <2>2. PICK c : c = [b EXCEPT !.ws = row.ws]
        OBVIOUS
    <2>3. Fresh(t, "workspace", fn, b) /\ b.arg = a
        BY <2>1, Made, WithArg
    <2>4. Fresh(t, "workspace", fn, c) /\ c.arg = b.arg
        BY <2>3, <2>2, WithWs
    <2>5. Send(t, "workspace", c)
        BY <1>3, <1>5, <2>1, <2>2 DEF Send
    <2> QED BY <1>2, <1>3, <1>5, <2>3, <2>4, <2>5 DEF Asks
<1> QED BY <1>4, <1>5 DEF StopIncludingChildren, Unlink

LEMMA UnlinkCommand ==
    ASSUME IndInv, NEW t \in Tabs, UnlinkDept(t)
    PROVE  Acts(t)
<1> DEFINE fn == "unlinkWorkspaceDepartment"
<1>1. PICK x \in UnlinkOffered(tab[t]) :
         Send(t, tab[t].busy, [Call(t, "unlink", fn) EXCEPT !.arg = x[2], !.ws = x[1].ws])
    BY DEF UnlinkDept
<1>2. tab[t].route = "workspaces"
    BY DEF UnlinkOffered
<1>3. PICK a, b, c : /\ b = tab[t].busy /\ a = [Call(t, "unlink", fn) EXCEPT !.arg = x[2]]
                     /\ c = [a EXCEPT !.ws = x[1].ws]
    OBVIOUS
<1>4. Fresh(t, "unlink", fn, a)
    BY <1>3, Made, WithArg
<1>5. Fresh(t, "unlink", fn, c)
    BY <1>3, <1>4, WithWs
<1>6. Send(t, b, c)
    BY <1>1, <1>3 DEF Send
<1>7. Argued(t, c) /\ Asks("workspaces", "unlink", fn) /\ b \in Busy
    BY <1>3, <1>5, PageOf DEF Argued, Fresh, TrainingFns, Asks
<1> QED BY <1>2, <1>5, <1>6, <1>7, Sending

LEMMA TrainingCommands ==
    ASSUME IndInv, NEW t \in Tabs, NEW row, NEW verb,
           OnCreateRequest(t) \/ Change(t, row, verb) \/ Review(t, row, verb)
    PROVE  Acts(t)
<1>1. ASSUME NEW fn \in TrainingFns, Asks(tab[t].route, "act", fn), tab[t].route # "models",
             Reviews(verb) => UserOf[t] = Admin,
             Send(t, tab[t].busy, [Call(t, "act", fn) EXCEPT !.arg = row.id, !.verb = verb])
      PROVE  Acts(t)
    <2>1. PICK a, b : b = tab[t].busy /\ a = [Call(t, "act", fn) EXCEPT !.arg = row.id]
        OBVIOUS
    <2>2. PICK c : c = [a EXCEPT !.verb = verb]
        OBVIOUS
    <2>3. Fresh(t, "act", fn, a)
        BY <2>1, Made, WithArg
    <2>4. Fresh(t, "act", fn, c) /\ c.verb = verb
        BY <2>3, <2>2, WithVerb
    <2>5. Send(t, b, c)
        BY <1>1, <2>1, <2>2 DEF Send
    <2>6. Argued(t, c) /\ b \in Busy
        BY <1>1, <2>1, <2>4, PageOf DEF Argued, Fresh, TrainingFns
    <2> QED BY <1>1, <2>4, <2>5, <2>6, Sending
<1>2. CASE OnCreateRequest(t)
    <2> DEFINE fn == "createTrainingRequest"
    <2>1. tab[t].route = "training" /\ Send(t, "yes", Call(t, "request", fn))
        BY <1>2 DEF OnCreateRequest, DraftOffered
    <2>2. PICK c : c = Call(t, "request", fn)
        OBVIOUS
    <2>3. Fresh(t, "request", fn, c) /\ ~Reviews(c.verb) /\ Send(t, "yes", c)
        BY <2>1, <2>2, Made
    <2>4. Argued(t, c) /\ Asks("training", "request", fn) /\ "yes" \in Busy
        BY <2>3 DEF Argued, Fresh, Asks, Busy
    <2> QED BY <2>1, <2>3, <2>4, Sending
<1>3. CASE Change(t, row, verb)
    <2>1. tab[t].route = "training" /\ verb \in {"submit", "cancel"}
        BY <1>3 DEF Change, OwnCommands
    <2>2. PICK fn \in {"submitTrainingRequest", "cancelTrainingRequest"} :
             Send(t, tab[t].busy, [Call(t, "act", fn) EXCEPT !.arg = row.id, !.verb = verb])
        BY <1>3 DEF Change
    <2>3. fn \in TrainingFns /\ Asks("training", "act", fn) /\ ~Reviews(verb)
        BY <2>1, <2>2 DEF TrainingFns, Asks, Reviews
    <2> QED BY <1>1, <2>1, <2>2, <2>3
<1>4. CASE Review(t, row, verb)
    <2>1. tab[t].route = "review"
        BY <1>4 DEF Review, ReviewCommands
    <2>2. UserOf[t] = Admin
        BY <2>1, PageOf DEF IsPage, Fits
    <2>3. PICK fn \in {"approveAdminTrainingRequest", "rejectAdminTrainingRequest"} :
             Send(t, tab[t].busy, [Call(t, "act", fn) EXCEPT !.arg = row.id, !.verb = verb])
        BY <1>4 DEF Review
    <2>4. fn \in TrainingFns /\ Asks("review", "act", fn)
        BY <2>3 DEF TrainingFns, Asks
    <2> QED BY <1>1, <2>1, <2>2, <2>3, <2>4
<1> QED BY <1>2, <1>3, <1>4

LEMMA ModelCreation ==
    ASSUME IndInv, NEW t \in Tabs, NEW m \in Models, OnCreateModel(t, m)
    PROVE  Acts(t)
<1> DEFINE fn == "createAdminModel"
<1>1. PICK c : c = [Call(t, "create", fn) EXCEPT !.arg = m]
    OBVIOUS
<1>2. tab[t].route = "models" /\ tab[t].busy = "no" /\ Send(t, "yes", c)
    BY <1>1 DEF OnCreateModel, CreateOffered
<1>3. Fresh(t, "create", fn, c) /\ c.arg = m
    BY <1>1, Made, WithArg
<1>4. Argued(t, c) /\ Asks("models", "create", fn) /\ "yes" \in Busy
    BY <1>3 DEF Argued, Fresh, TrainingFns, Asks, Busy
<1> QED BY <1>2, <1>3, <1>4, Sending

LEMMA ModelAction ==
    ASSUME IndInv, NEW t \in Tabs, NEW row \in tab[t].rows, NEW verb \in Verbs, OnAction(t, row, verb)
    PROVE  Acts(t)
<1> DEFINE fn == "actionAdminModel"
<1>1. PICK b : b = [Call(t, "action", fn) EXCEPT !.arg = row.id]
    OBVIOUS
<1>2. PICK c : c = [b EXCEPT !.verb = verb]
    OBVIOUS
<1>3. tab[t].route = "models" /\ tab[t].busy = "no" /\ Send(t, "yes", c)
    BY <1>1, <1>2 DEF OnAction, ActionsOffered, Send
<1>4. row.id \in Models
    BY <1>3, PageOf DEF LinesOf, ModelLine
<1>5. Fresh(t, "action", fn, b) /\ b.arg = row.id
    BY <1>1, Made, WithArg
<1>6. Fresh(t, "action", fn, c) /\ c.arg = row.id /\ c.verb = verb
    BY <1>5, <1>2, WithVerb
<1>7. Argued(t, c) /\ Asks("models", "action", fn) /\ "yes" \in Busy
    BY <1>4, <1>6 DEF Argued, Fresh, TrainingFns, Asks, Busy
<1> QED BY <1>3, <1>6, <1>7, Sending

LEMMA FormCommands ==
    ASSUME IndInv, NEW t \in Tabs, SetIncludeChildren(t) \/ SetUserQ(t)
    PROVE  Acts(t)
<1>1. IsPage(t, tab[t]) /\ tab[t].q \in BOOLEAN /\ tab[t].children \in BOOLEAN
    BY PageOf
<1>2. CASE SetIncludeChildren(t)
    <2>1. PICK f : f = [tab[t] EXCEPT !.children = ~@]
        OBVIOUS
    <2>2. Set(t, f)
        BY <1>2, <2>1 DEF SetIncludeChildren
    <2>3. IsPage(t, f) /\ f.route = tab[t].route /\ f.busy = tab[t].busy
        <3>1. PICK v : v = ~tab[t].children
            OBVIOUS
        <3>2. f = [tab[t] EXCEPT !.children = v] /\ v \in BOOLEAN
            BY <1>1, <2>1, <3>1
        <3> QED BY <1>1, <3>2, PageChildren
    <2>4. Fills(t, f)
        BY <2>2, <2>3 DEF Fills
    <2> QED BY <2>4 DEF Acts
<1>3. CASE SetUserQ(t)
    <2>1. PICK v, due : v = ~tab[t].q /\ due = (tab[t].configured = "yes")
        OBVIOUS
    <2>2. v \in BOOLEAN /\ due \in BOOLEAN /\ tab[t].route = "bitrix"
        BY <1>3, <2>1 DEF SetUserQ, UsersSection
    <2>3. PICK e : e = [tab[t] EXCEPT !.q = v]
        OBVIOUS
    <2>4. PICK f : f = [e EXCEPT !.due = due]
        OBVIOUS
    <2>5. Set(t, f)
        BY <1>3, <2>1, <2>3, <2>4 DEF SetUserQ
    <2>6. IsPage(t, e) /\ e.route = tab[t].route /\ e.busy = tab[t].busy
        BY <1>1, <2>2, <2>3, PageSearch
    <2>7. IsPage(t, f) /\ f.route = e.route /\ f.busy = e.busy
        BY <2>2, <2>6, <2>4, PageDue
    <2>8. Fills(t, f)
        BY <2>5, <2>6, <2>7 DEF Fills
    <2> QED BY <2>8 DEF Acts
<1> QED BY <1>2, <1>3

LEMMA ClickActs ==
    ASSUME IndInv, NEW t \in Tabs, Click(t)
    PROVE  Acts(t)
<1>1. CASE Save(t) \/ DisconnectBitrix(t) \/ TestBitrix(t) \/ SyncNow(t) \/ Apply(t)
    BY <1>1, BitrixCommands
<1>2. CASE SetIncludeChildren(t) \/ SetUserQ(t)
    BY <1>2, FormCommands
<1>3. CASE UnlinkDept(t)
    BY <1>3, UnlinkCommand
<1>4. CASE \E m \in Models : OnCreateModel(t, m)
    <2>1. PICK m \in Models : OnCreateModel(t, m)
        BY <1>4
    <2> QED BY <2>1, ModelCreation
<1>5. CASE OnCreateRequest(t)
    BY <1>5, TrainingCommands
<1>6. ASSUME NEW row \in tab[t].rows,
             CASE tab[t].route = "bitrix" ->
                    CreateWorkspace(t, row) \/ StopIncludingChildren(t, row) \/ Unlink(t, row)
               [] tab[t].route = "models" ->
                    \E verb \in {"approve", "reject", "deploy", "disable"} : OnAction(t, row, verb)
               [] tab[t].route = "training" -> \E verb \in {"submit", "cancel"} : Change(t, row, verb)
               [] tab[t].route = "review" -> \E verb \in {"approve", "reject"} : Review(t, row, verb)
               [] OTHER -> FALSE
      PROVE  Acts(t)
    <2>1. CASE tab[t].route = "bitrix"
        BY <1>6, <2>1, RowCommands
    <2>2. CASE tab[t].route = "models"
        BY <1>6, <2>2, ModelAction DEF Verbs
    <2>3. CASE tab[t].route = "training"
        BY <1>6, <2>3, TrainingCommands
    <2>4. CASE tab[t].route = "review"
        BY <1>6, <2>4, TrainingCommands
    <2> QED BY <1>6, <2>1, <2>2, <2>3, <2>4
<1> QED BY <1>1, <1>2, <1>3, <1>4, <1>5, <1>6 DEF Click

LEMMA ClickInv ==
    ASSUME IndInv, NEW t \in Tabs, Click(t)
    PROVE  IndInv'
<1>1. db' = db /\ troubles' = troubles /\ IsStored(db) /\ Bounds
    BY DEF Click, IndInv
<1>2. clicks' \in [Tabs -> Nat]
    BY <1>1 DEF Click, Bounds
<1>3. Pages(tab') /\ CallsOf(tab', db.org, calls')
    <2>1. CASE \E b, cmd, fn, c : Sends(t, b, cmd, fn, c)
        BY <2>1, SentInv
    <2>2. CASE \E f : Fills(t, f)
        BY <2>2, FilledInv
    <2> QED BY <2>1, <2>2, ClickActs DEF Acts
<1> QED BY <1>1, <1>2, <1>3 DEF IndInv, Bounds

LEMMA DebouncedSends ==
    ASSUME IndInv, NEW t \in Tabs, Debounced(t)
    PROVE  \E f, d : /\ tab' = [tab EXCEPT ![t] = f] /\ IsPage(t, f) /\ f.route = tab[t].route
                     /\ f.busy = tab[t].busy /\ calls' = Append(calls, d) /\ CallOf(tab, db.org, d)
                     /\ Fresh(t, "debounce", "fetchBitrixSnapshot", d)
<1> DEFINE fn == "fetchBitrixSnapshot"
<1>1. PICK d : d = [Call(t, "debounce", fn) EXCEPT !.q = tab[t].q]
    OBVIOUS
<1>2. PICK e : e = tab[t]
    OBVIOUS
<1>3. IsPage(t, e) /\ e.due
    BY <1>2, PageOf DEF Debounced
<1>4. PICK f : f = [e EXCEPT !.due = FALSE]
    OBVIOUS
<1>5. IsPage(t, f) /\ f.route = e.route /\ f.busy = e.busy
    BY <1>3, <1>4, PageDue
<1>6. tab' = [tab EXCEPT ![t] = f] /\ calls' = Append(calls, d)
    BY <1>1, <1>2, <1>4 DEF Debounced
<1>7. Asks(tab[t].route, "debounce", fn) /\ fn \in Lists
    BY <1>2, <1>3 DEF IsPage, Fits, Asks, Lists
<1>8. CallOf(tab, db.org, d) /\ Fresh(t, "debounce", fn, d)
    BY <1>1, <1>7, PlainCall
<1> QED BY <1>2, <1>5, <1>6, <1>8

LEMMA DebouncedInv ==
    ASSUME IndInv, NEW t \in Tabs, Debounced(t)
    PROVE  IndInv'
<1>1. PICK f, d : /\ tab' = [tab EXCEPT ![t] = f] /\ IsPage(t, f) /\ f.route = tab[t].route
                  /\ calls' = Append(calls, d) /\ CallOf(tab, db.org, d)
    BY DebouncedSends
<1>2. IsStored(db) /\ Pages(tab) /\ CallsOf(tab, db.org, calls) /\ Bounds
    BY DEF IndInv
<1>3. Pages(tab') /\ \A u \in Tabs : tab'[u].route = tab[u].route
    BY <1>1, <1>2, OnePage
<1>4. CallsOf(tab, db.org, calls')
    BY <1>1, <1>2, OneCall
<1>5. CallsOf(tab', db.org, calls')
    BY <1>3, <1>4, SameRoutes
<1>6. db' = db /\ clicks' = clicks /\ troubles' = troubles
    BY DEF Debounced
<1> QED BY <1>2, <1>3, <1>5, <1>6 DEF IndInv, Bounds

-----------------------------------------------------------------------------
(* The backend                                                             *)

\* What a step of the handler of call c makes of the tables and of its call.
Serves(c, x) ==
    /\ IsStored(x.db) /\ db.org.spaces \subseteq x.db.org.spaces
    /\ Typed(x.db.org.spaces, x.call) /\ Applies(x.db.org, x.call)
    /\ Follow(db.org, x.db.org) /\ Advances(db.registry, x.db.registry)
    /\ Stands(db.training, x.db.training, c, x.call)
    /\ Continues(c, x.call) /\ ModelCall(x.call) /\ TrainingCall(x.call)

LEMMA Unchanged ==
    /\ \A r : Advances(r, r)
    /\ \A q, c, d : Stands(q, q, c, d)
BY DEF Advances, Stands

\* A step of a handler changes one table.
LEMMA OneTable ==
    ASSUME IsStored(db), NEW v
    PROVE  /\ DOMAIN [db EXCEPT !.org = v] = Tables /\ [db EXCEPT !.org = v].org = v
           /\ [db EXCEPT !.org = v].registry = db.registry /\ [db EXCEPT !.org = v].training = db.training
           /\ DOMAIN [db EXCEPT !.registry = v] = Tables /\ [db EXCEPT !.registry = v].registry = v
           /\ [db EXCEPT !.registry = v].org = db.org /\ [db EXCEPT !.registry = v].training = db.training
           /\ DOMAIN [db EXCEPT !.training = v] = Tables /\ [db EXCEPT !.training = v].training = v
           /\ [db EXCEPT !.training = v].org = db.org /\ [db EXCEPT !.training = v].registry = db.registry
BY DEF IsStored, Tables

LEMMA OrgServes ==
    ASSUME IsStored(db), NEW c, c.fn \in OrgFns, NEW y, Step(db.org, c, y), OrgKeeps(db.org, y),
           Applies(y.db, y.call), NEW x, x.db = [db EXCEPT !.org = y.db], x.call = y.call
    PROVE  Serves(c, x)
<1>1. /\ DOMAIN x.db = Tables /\ x.db.org = y.db /\ x.db.registry = db.registry
      /\ x.db.training = db.training
    BY OneTable
<1>2. IsStored(x.db)
    BY <1>1 DEF IsStored, OrgKeeps
<1>3. x.call.fn \in OrgFns /\ Continues(c, x.call)
    BY DEF Step, Continues
<1>4. ModelCall(x.call) /\ TrainingCall(x.call)
    BY <1>3 DEF ModelCall, TrainingCall, OrgFns, ModelFns, TrainingFns
<1> QED BY <1>1, <1>2, <1>3, <1>4, Unchanged DEF Serves, Step, OrgKeeps

LEMMA Served ==
    ASSUME IsStored(db), NEW c, CallOf(tab, db.org, c), c.at # "back", NEW x \in Outcomes(c)
    PROVE  Serves(c, x)
<1>1. /\ c.fn \in Fns /\ IsCall(c) /\ ModelCall(c) /\ TrainingCall(c) /\ Typed(db.org.spaces, c)
      /\ Applies(db.org, c)
    BY DEF CallOf, IsCall
<1>2. /\ IsOrg(db.org) /\ Good(db.org) /\ db.registry \in Registries
      /\ db.training \in [Requests -> Request] /\ DOMAIN db.training = Requests
    BY OrgIsGood DEF IsStored, Registries
<1>3. CASE c.fn \in OrgFns
    <2>1. PICK y \in OrgOutcomes(db.org, c) : x = [db |-> [db EXCEPT !.org = y.db], call |-> y.call]
        BY <1>3 DEF Outcomes, OrgFns, ModelFns, TrainingFns
    <2>2. Step(db.org, c, y) /\ OrgKeeps(db.org, y) /\ Applies(y.db, y.call)
        BY <1>1, <1>2, <1>3, OrgSteps, OrgTypes, OrgApplies
    <2>3. x.db = [db EXCEPT !.org = y.db] /\ x.call = y.call
        BY <2>1
    <2> QED BY <1>3, <2>2, <2>3, OrgServes
<1>4. CASE c.fn \in ModelFns
    <2>1. PICK y \in ModelOutcomes(db.registry, c) : x = [db |-> [db EXCEPT !.registry = y.db], call |-> y.call]
        BY <1>4 DEF Outcomes, OrgFns, ModelFns, TrainingFns
    <2>2. ModelStep(db.registry, c, y) /\ Typed(db.org.spaces, y.call)
        BY <1>1, <1>2, <1>4, ModelSteps, ModelTypes
    <2>3. x.db = [db EXCEPT !.registry = y.db] /\ x.call = y.call
        BY <2>1
    <2>4. /\ DOMAIN x.db = Tables /\ x.db.org = db.org /\ x.db.registry = y.db
          /\ x.db.training = db.training
        BY <2>3, OneTable
    <2>5. IsStored(x.db)
        BY <1>2, <2>2, <2>4 DEF IsStored, ModelStep, Registries
    <2>6. x.call.fn \in ModelFns
        BY <1>4, <2>2, <2>3 DEF ModelStep, Continues
    <2>7. TrainingCall(x.call) /\ Applies(x.db.org, x.call)
        <3>1. x.call.fn \notin TrainingFns /\ ~Brings(x.call)
            BY <2>6 DEF TrainingFns, ModelFns, Brings
        <3> QED BY <3>1, NothingDue DEF TrainingCall
    <2> QED BY <1>2, <2>2, <2>3, <2>4, <2>5, <2>7, Unchanged, Reflexive DEF Serves, ModelStep
<1>5. CASE c.fn \in TrainingFns
    <2>1. PICK y \in TrainingOutcomes(db.training, c) :
             x = [db |-> [db EXCEPT !.training = y.db], call |-> y.call]
        BY <1>5 DEF Outcomes, OrgFns, ModelFns, TrainingFns
    <2>2. /\ TrainingStep(db.training, c, y) /\ y.db \in [Requests -> Request]
          /\ Typed(db.org.spaces, y.call)
        BY <1>1, <1>2, <1>5, TrainingSteps, TrainingTypes
    <2>3. x.db = [db EXCEPT !.training = y.db] /\ x.call = y.call
        BY <2>1
    <2>4. /\ DOMAIN x.db = Tables /\ x.db.org = db.org /\ x.db.registry = db.registry
          /\ x.db.training = y.db
        BY <2>3, OneTable
    <2>5. IsStored(x.db)
        BY <1>2, <2>2, <2>4 DEF IsStored, Registries
    <2>6. x.call.fn \in TrainingFns
        BY <1>5, <2>2, <2>3 DEF TrainingStep, Continues
    <2>7. ModelCall(x.call) /\ Applies(x.db.org, x.call)
        <3>1. x.call.fn \notin ModelFns /\ ~Brings(x.call)
            BY <2>6 DEF TrainingFns, ModelFns, Brings
        <3>2. ModelCall(x.call)
            BY <3>1 DEF ModelCall, ModelFns
        <3> QED BY <3>1, <3>2, NothingDue
    <2> QED BY <1>2, <2>2, <2>3, <2>4, <2>5, <2>7, Unchanged, Reflexive DEF Serves, TrainingStep
<1> QED BY <1>1, <1>3, <1>4, <1>5 DEF Fns

LEMMA Refused ==
    ASSUME IsStored(db), NEW c, CallOf(tab, db.org, c), NEW x \in Refuses(db, c)
    PROVE  Serves(c, x) /\ x.db = db /\ x.call.at = "back"
<1>1. /\ IsCall(c) /\ ModelCall(c) /\ TrainingCall(c) /\ Typed(db.org.spaces, c)
      /\ IsOrg(db.org) /\ Good(db.org)
    BY OrgIsGood DEF CallOf, IsStored
<1>2. x \in Answers(db, c, Err)
    BY DEF Refuses
<1>3. /\ x.db = db /\ Continues(c, x.call) /\ x.call.at = "back" /\ x.call.reply = Err
      /\ x.call.arg = c.arg /\ x.call.verb = c.verb
    BY <1>1, <1>2, Answered
<1>4. Err.rows = {}
    BY DEF Err, Ok
<1>5. ModelCall(x.call) /\ TrainingCall(x.call)
    BY <1>1, <1>3, <1>4 DEF ModelCall, TrainingCall, Continues
<1>6. Typed(db.org.spaces, x.call)
    BY <1>1, TypedRefusal
<1>7. Applies(db.org, x.call)
    BY <1>1, NotDone
<1> QED BY <1>1, <1>3, <1>5, <1>6, <1>7, Unchanged, Reflexive DEF Serves

LEMMA Lost ==
    ASSUME IsStored(db), NEW c, CallOf(tab, db.org, c), NEW x \in Stopped(c)
    PROVE  Serves(c, x)
<1>1. CASE c.at # "back" /\ c.fn \in OrgFns
    <2>1. PICK y \in OrgStops(db.org, c) : x = [db |-> [db EXCEPT !.org = y.db], call |-> y.call]
        BY <1>1 DEF Stopped
    <2>2. /\ IsCall(c) /\ Typed(db.org.spaces, c) /\ IsOrg(db.org) /\ Good(db.org)
        BY OrgIsGood DEF CallOf, IsStored
    <2>3. Step(db.org, c, y) /\ OrgKeeps(db.org, y) /\ Applies(y.db, y.call)
        BY <2>2, OrgStopSteps, OrgStopTypes, OrgStopApplies
    <2>4. x.db = [db EXCEPT !.org = y.db] /\ x.call = y.call
        BY <2>1
    <2> QED BY <1>1, <2>3, <2>4, OrgServes
<1>2. CASE ~(c.at # "back" /\ c.fn \in OrgFns)
    BY <1>2, Refused DEF Stopped
<1> QED BY <1>1, <1>2

\* A call whose page was left, or was told of an error.
LEMMA UnheardCall ==
    ASSUME NEW T, NEW o, NEW c, CallOf(T, o, c), NEW d, d = Unheard(c)
    PROVE  /\ CallOf(T, o, d) /\ d.fn = c.fn /\ d.at = c.at /\ d.arg = c.arg /\ d.calm = c.calm
<1>1. DOMAIN c = Fields
    BY DEF CallOf, IsCall
<1>2. /\ DOMAIN d = Fields /\ d.cmd = "lost" /\ d.tab = c.tab /\ d.fn = c.fn /\ d.at = c.at
      /\ d.user = c.user /\ d.flag = c.flag /\ d.arg = c.arg /\ d.ws = c.ws /\ d.verb = c.verb
      /\ d.was = c.was /\ d.seen = c.seen /\ d.links = c.links /\ d.want = c.want /\ d.drop = c.drop
      /\ d.calm = c.calm /\ d.reply = c.reply
    BY <1>1 DEF Unheard, Fields
<1>3. IsCall(d) /\ ModelCall(d) /\ TrainingCall(d)
    BY <1>1, <1>2 DEF CallOf, IsCall, ModelCall, TrainingCall
<1>4. Typed(o.spaces, d)
    BY <1>2 DEF CallOf, Typed
<1>5. Applies(o, d)
    BY <1>2 DEF CallOf, Applies, Brings, RowsLeft
<1> QED BY <1>2, <1>3, <1>4, <1>5 DEF CallOf

Spent(kind) == troubles[kind] > 0 /\ troubles' = [troubles EXCEPT ![kind] = @ - 1]

LEMMA SpentRest ==
    ASSUME troubles \in Troubles, NEW kind \in {"stop", "away"}, Spent(kind)
    PROVE  troubles' \in Troubles
BY DEF Troubles, Spent

\* What a page that was opened again, or was told of an error, leaves behind: its calls are
\* those that there were, unheard or not, and such as are just made or answered.
Left(C) == \A c \in Range(C) : \/ c.at \in {"sent", "back"}
                              \/ \E b \in Range(calls) : c = b \/ c = Unheard(b)

LEMMA ReopenInv ==
    ASSUME IndInv, NEW t \in Tabs, Reopen(t)
    PROVE  IndInv' /\ Left(calls')
<1> DEFINE C == [k \in DOMAIN calls |-> IF calls[k].tab = t THEN Unheard(calls[k]) ELSE calls[k]]
           d == Mount(t, tab[t].route)
           f == Blank(tab[t].route)
<1>1. IsStored(db) /\ Pages(tab) /\ CallsOf(tab, db.org, calls) /\ Bounds
    BY DEF IndInv
<1>2. /\ tab' = [tab EXCEPT ![t] = f] /\ calls' = Append(C, d) /\ UNCHANGED <<db, clicks>>
      /\ Spent("away")
    BY DEF Reopen, Spent
<1>3. DOMAIN C = DOMAIN calls /\ C = [k \in DOMAIN C |-> C[k]]
    OBVIOUS
<1>4. \A k \in DOMAIN C : CallOf(tab, db.org, C[k]) /\ (C[k] = calls[k] \/ C[k] = Unheard(calls[k]))
    BY <1>1, UnheardCall DEF CallsOf, Range
<1>5. CallOf(tab, db.org, d) /\ d.at = "sent"
    BY <1>1, Mounted
<1>6. IsPage(t, f) /\ f.route = tab[t].route
    <2>1. PICK route : route = tab[t].route
        OBVIOUS
    <2>2. route \in Routes /\ (route = "review" => UserOf[t] = Admin)
        BY <1>1, <2>1, PagesAre DEF Pages, IsPage, Fits
    <2>3. {} \in AllRows /\ "no" \in Busy
        BY DEF AllRows, Busy
    <2>4. Blank(route) \in Page
        BY <2>2, <2>3, PagesAre DEF Blank
    <2>5. Fits(t, Blank(route)) /\ Blank(route).route = route
        BY <2>2 DEF Fits, Blank
    <2> QED BY <2>1, <2>4, <2>5 DEF IsPage
<1> HIDE DEF C, d, f
<1>7. IsList(C)
    BY <1>1, <1>3, Mapped DEF CallsOf
<1>8. Range(calls') \subseteq Range(C) \cup {d} /\ IsList(calls')
    BY <1>2, <1>7, Appended
<1>9. CallsOf(tab, db.org, calls')
    BY <1>4, <1>5, <1>8 DEF CallsOf, Range
<1>10. Pages(tab') /\ \A u \in Tabs : tab'[u].route = tab[u].route
    BY <1>1, <1>2, <1>6, OnePage
<1>11. CallsOf(tab', db.org, calls')
    BY <1>9, <1>10, SameRoutes
<1>12. troubles' \in Troubles
    BY <1>1, <1>2, SpentRest DEF Bounds
<1>13. Left(calls')
    BY <1>3, <1>4, <1>5, <1>8 DEF Left, Range
<1> QED BY <1>1, <1>2, <1>10, <1>11, <1>12, <1>13 DEF IndInv, Bounds

LEMMA CutOffInv ==
    ASSUME IndInv, NEW k \in DOMAIN calls, CutOff(k)
    PROVE  IndInv' /\ Left(calls')
<1>1. PICK x \in Refuses(db, calls[k]) : calls' = Append([calls EXCEPT ![k] = x.call], Unheard(calls[k]))
    BY DEF CutOff
<1>2. IsStored(db) /\ Pages(tab) /\ CallsOf(tab, db.org, calls) /\ Bounds
    BY DEF IndInv
<1>3. \A j \in DOMAIN calls : CallOf(tab, db.org, calls[j])
    BY <1>2 DEF CallsOf, Range
<1>4. PICK c : c = calls[k]
    OBVIOUS
<1>5. CallOf(tab, db.org, c) /\ x \in Refuses(db, c)
    BY <1>3, <1>4
<1>6. Serves(c, x) /\ x.db = db /\ x.call.at = "back"
    BY <1>2, <1>5, Refused
<1>7. CallOf(tab, db.org, x.call)
    BY <1>5, <1>6 DEF Serves, CallOf, Continues
<1>8. PICK d : d = Unheard(c)
    OBVIOUS
<1>9. CallOf(tab, db.org, d)
    BY <1>5, <1>8, UnheardCall
<1>10. PICK C : C = [calls EXCEPT ![k] = x.call]
    OBVIOUS
<1>11. DOMAIN C = DOMAIN calls /\ C = [j \in DOMAIN C |-> C[j]]
    BY <1>10
<1>12. \A j \in DOMAIN C : C[j] = IF j = k THEN x.call ELSE calls[j]
    BY <1>2, <1>10 DEF CallsOf, IsList
<1>13. IsList(C)
    BY <1>2, <1>11, Mapped DEF CallsOf
<1>14. calls' = Append(C, d)
    BY <1>1, <1>4, <1>8, <1>10
<1>15. Range(calls') \subseteq Range(C) \cup {d} /\ IsList(calls')
    BY <1>13, <1>14, Appended
<1>16. CallsOf(tab, db.org, calls')
    BY <1>3, <1>7, <1>9, <1>11, <1>12, <1>15 DEF CallsOf, Range
<1>17. Left(calls')
    BY <1>4, <1>6, <1>8, <1>11, <1>12, <1>15 DEF Left, Range
<1>18. UNCHANGED <<db, tab, clicks>> /\ troubles' \in Troubles
    BY <1>2, SpentRest DEF CutOff, Spent, Bounds
<1> QED BY <1>2, <1>16, <1>17, <1>18 DEF IndInv, Bounds

\* What a step of the system may make of the tables.
DecisionStands(r) ==
    (db.training[r].status \in Decided /\ db'.training[r].status # db.training[r].status)
    => \E k \in DOMAIN calls : /\ calls[k].arg = r /\ calls[k].at = "write"
                               /\ calls[k].was \in {"draft", "submitted"}
                               /\ DOMAIN calls' = DOMAIN calls /\ calls'[k].at = "back"
Effect == /\ Kept(db.org, db'.org) /\ Advances(db.registry, db'.registry)
          /\ \A r \in Requests : DecisionStands(r)

LEMMA NoEffect ==
    ASSUME db' = db
    PROVE  Effect
BY DEF Effect, Kept, Advances, DecisionStands

\* The tables change from o to n under another call, which is no longer calm if they are
\* among those that it reads.
LEMMA Beside ==
    ASSUME NEW o, NEW n, o.spaces \subseteq n.spaces, NEW b, CallOf(tab, o, b),
           NEW v, Brings(b) /\ v => b.calm /\ Shared(n) = Shared(o),
           NEW d, d = [b EXCEPT !.calm = v]
    PROVE  /\ CallOf(tab, n, d)
           /\ d.fn = b.fn /\ d.cmd = b.cmd /\ d.at = b.at /\ d.tab = b.tab /\ d.arg = b.arg
           /\ d.calm = v
<1>1. DOMAIN b = Fields
    BY DEF CallOf, IsCall
<1>2. /\ DOMAIN d = DOMAIN b /\ d.fn = b.fn /\ d.at = b.at /\ d.tab = b.tab /\ d.cmd = b.cmd
      /\ d.arg = b.arg /\ d.verb = b.verb /\ d.was = b.was /\ d.reply = b.reply
      /\ d.calm = v /\ d.seen = b.seen /\ d.links = b.links /\ d.want = b.want /\ d.drop = b.drop
    BY <1>1 DEF Fields
<1>3. Typed(n.spaces, d)
    <2>1. Typed(o.spaces, [b EXCEPT !.calm = v])
        BY TypedLocals DEF CallOf
    <2> QED BY <2>1, MoreSpaces
<1>4. Applies(n, d)
    <2>1. CASE Brings(b) /\ v
        <3>1. Applies(o, d)
            BY <1>2, <2>1 DEF CallOf, Applies, Brings, RowsLeft
        <3>2. n.structure = o.structure /\ n.link = o.link /\ n.member = o.member
            BY <2>1 DEF Shared
        <3> QED BY <3>1, <3>2, AppliesElsewhere
    <2>2. CASE ~(Brings(b) /\ v)
        BY <1>2, <2>2 DEF Applies, Brings
    <2> QED BY <2>1, <2>2
<1>5. IsCall(d) /\ ModelCall(d) /\ TrainingCall(d)
    BY <1>2 DEF CallOf, IsCall, ModelCall, TrainingCall
<1> QED BY <1>2, <1>3, <1>4, <1>5 DEF CallOf

\* No other model has come into service beside the one that b deploys.
StillAlone(n, b) == b.calm /\ (IsDeployment(b) => Rivals(n, b) \subseteq Rivals(db.registry, b))

\* The calls after a step of the handler of call k.
LEMMA Others ==
    ASSUME IndInv, NEW k \in DOMAIN calls, NEW x, Serves(calls[k], x), Becomes(k, x)
    PROVE  /\ db' = x.db /\ DOMAIN calls' = DOMAIN calls /\ calls'[k] = x.call
           /\ calls' = [j \in DOMAIN calls' |-> calls'[j]]
           /\ \A j \in DOMAIN calls :
                 /\ CallOf(tab, db'.org, calls'[j])
                 /\ calls'[j].fn = calls[j].fn /\ calls'[j].cmd = calls[j].cmd /\ calls'[j].tab = calls[j].tab
                 /\ j # k => /\ calls'[j].at = calls[j].at /\ calls'[j].arg = calls[j].arg
                             /\ calls'[j].calm => StillAlone(x.db.registry, calls[j])
<1> DEFINE Still(b) ==
               /\ b.calm
               /\ b.fn \in {"syncBitrix", "applyWorkspaceMemberships"} => Shared(x.db.org) = Shared(db.org)
               /\ IsDeployment(b) => Rivals(x.db.registry, b) \subseteq Rivals(db.registry, b)
<1>1. /\ db' = x.db
      /\ calls' = [j \in DOMAIN calls |-> IF j = k THEN x.call
                                         ELSE [calls[j] EXCEPT !.calm = Still(calls[j])]]
    BY DEF Becomes
<1>2. \A b : /\ Brings(b) /\ Still(b) => b.calm /\ Shared(x.db.org) = Shared(db.org)
             /\ Still(b) => StillAlone(x.db.registry, b)
    BY DEF Brings, StillAlone
<1> HIDE DEF Still
<1>3. /\ DOMAIN calls' = DOMAIN calls /\ calls'[k] = x.call
      /\ calls' = [j \in DOMAIN calls' |-> calls'[j]]
      /\ \A j \in DOMAIN calls : j # k => calls'[j] = [calls[j] EXCEPT !.calm = Still(calls[j])]
    BY <1>1
<1>4. \A j \in DOMAIN calls : CallOf(tab, db.org, calls[j])
    BY DEF IndInv, CallsOf, Range
<1>5. /\ CallOf(tab, x.db.org, x.call)
      /\ x.call.fn = calls[k].fn /\ x.call.cmd = calls[k].cmd /\ x.call.tab = calls[k].tab
    BY <1>4 DEF Serves, CallOf, Continues
<1>6. ASSUME NEW j \in DOMAIN calls, j # k
      PROVE  /\ CallOf(tab, x.db.org, calls'[j])
             /\ calls'[j].fn = calls[j].fn /\ calls'[j].cmd = calls[j].cmd /\ calls'[j].tab = calls[j].tab
             /\ calls'[j].at = calls[j].at /\ calls'[j].arg = calls[j].arg
             /\ calls'[j].calm => StillAlone(x.db.registry, calls[j])
    <2>1. PICK o, n, b, v, d : /\ o = db.org /\ n = x.db.org /\ b = calls[j] /\ v = Still(b)
                               /\ d = [b EXCEPT !.calm = v]
        OBVIOUS
    <2>2. o.spaces \subseteq n.spaces /\ CallOf(tab, o, b)
        BY <1>4, <2>1 DEF Serves
    <2>3. Brings(b) /\ v => b.calm /\ Shared(n) = Shared(o)
        BY <1>2, <2>1
    <2>4. d = [b EXCEPT !.calm = v]
        BY <2>1
    <2>5. /\ CallOf(tab, n, d)
          /\ d.fn = b.fn /\ d.cmd = b.cmd /\ d.at = b.at /\ d.tab = b.tab /\ d.arg = b.arg
          /\ d.calm = v
        BY <2>2, <2>3, <2>4, Beside
    <2>6. calls'[j] = d
        BY <1>3, <1>6, <2>1
    <2>7. v => StillAlone(x.db.registry, calls[j])
        BY <1>2, <2>1
    <2> QED BY <2>1, <2>5, <2>6, <2>7
<1> QED BY <1>1, <1>3, <1>5, <1>6

LEMMA Becoming ==
    ASSUME IndInv, NEW k \in DOMAIN calls, NEW x, Serves(calls[k], x), Becomes(k, x),
           tab' = tab, clicks' = clicks, troubles' \in Troubles
    PROVE  IndInv' /\ Effect
<1>1. Pages(tab) /\ CallsOf(tab, db.org, calls) /\ Bounds
    BY DEF IndInv
<1>2. /\ db' = x.db /\ DOMAIN calls' = DOMAIN calls /\ calls'[k] = x.call
      /\ calls' = [j \in DOMAIN calls' |-> calls'[j]]
      /\ \A j \in DOMAIN calls : CallOf(tab, db'.org, calls'[j])
    BY Others
<1>3. IsList(calls')
    BY <1>1, <1>2, Mapped DEF CallsOf
<1>4. CallsOf(tab', db'.org, calls')
    BY <1>2, <1>3 DEF CallsOf, Range
<1>5. IsStored(db')
    BY <1>2 DEF Serves
<1>6. IndInv'
    BY <1>1, <1>4, <1>5 DEF IndInv, Bounds
<1>7. Effect
    <2>1. Kept(db.org, db'.org) /\ Advances(db.registry, db'.registry)
        BY <1>2 DEF Serves, Follow
    <2>2. ASSUME NEW r \in Requests PROVE DecisionStands(r)
        <3>1. Stands(db.training, db'.training, calls[k], calls'[k])
            BY <1>2 DEF Serves
        <3> QED BY <1>2, <3>1 DEF Stands, Late, DecisionStands
    <2> QED BY <2>1, <2>2 DEF Effect
<1> QED BY <1>6, <1>7

\* Every step is of one of these kinds.
LEMMA Kinds ==
    ASSUME [Next]_vars
    PROVE  \/ \E k \in DOMAIN calls : \E x \in Outcomes(calls[k]) :
                 calls[k].at # "back" /\ Becomes(k, x) /\ UNCHANGED <<tab, clicks, troubles>>
           \/ \E k \in DOMAIN calls : \E x \in Stopped(calls[k]) :
                 Becomes(k, x) /\ UNCHANGED <<tab, clicks>> /\ Spent("stop")
           \/ \E k \in DOMAIN calls : GoesOn(k) \/ Ends(k) \/ Fails(k)
           \/ \E k \in DOMAIN calls : CutOff(k)
           \/ \E t \in Tabs : Debounced(t) \/ Click(t) \/ Reopen(t)
           \/ UNCHANGED vars
<1>1. CASE \E k \in DOMAIN calls : Serve(k)
    BY <1>1 DEF Serve
<1>2. CASE \E k \in DOMAIN calls : Lose(k)
    BY <1>2 DEF Lose, Spent
<1> QED BY <1>1, <1>2 DEF Next, Working

LEMMA StepInv ==
    ASSUME IndInv, [Next]_vars
    PROVE  IndInv' /\ Effect
<1>1. ASSUME NEW k \in DOMAIN calls
      PROVE  IsStored(db) /\ CallOf(tab, db.org, calls[k]) /\ troubles \in Troubles
    BY DEF IndInv, CallsOf, Range, Bounds
<1>2. ASSUME NEW k \in DOMAIN calls, NEW x \in Outcomes(calls[k]),
             calls[k].at # "back", Becomes(k, x), UNCHANGED <<tab, clicks, troubles>>
      PROVE  IndInv' /\ Effect
    <2>1. Serves(calls[k], x)
        BY <1>1, <1>2, Served
    <2> QED BY <1>1, <1>2, <2>1, Becoming
<1>3. ASSUME NEW k \in DOMAIN calls, NEW x \in Stopped(calls[k]),
             Becomes(k, x), UNCHANGED <<tab, clicks>>, Spent("stop")
      PROVE  IndInv' /\ Effect
    <2>1. Serves(calls[k], x)
        BY <1>1, <1>3, Lost
    <2>2. troubles' \in Troubles
        BY <1>1, <1>3, SpentRest
    <2> QED BY <1>3, <2>1, <2>2, Becoming
<1>4. CASE \E k \in DOMAIN calls : GoesOn(k) \/ Ends(k) \/ Fails(k)
    BY <1>4, AnswerInv, NoEffect DEF GoesOn, Ends, Fails
<1>5. CASE \E t \in Tabs : Debounced(t) \/ Click(t) \/ Reopen(t)
    BY <1>5, DebouncedInv, ClickInv, ReopenInv, NoEffect DEF Debounced, Click, Reopen
<1>6. CASE \E k \in DOMAIN calls : CutOff(k)
    BY <1>6, CutOffInv, NoEffect DEF CutOff
<1>7. CASE UNCHANGED vars
    BY <1>7, NoEffect DEF vars, IndInv, Bounds
<1> QED BY <1>2, <1>3, <1>4, <1>5, <1>6, <1>7, Kinds

LEMMA Invariance == Spec => []IndInv
<1>1. Init => IndInv
    BY InitInv
<1>2. IndInv /\ [Next]_vars => IndInv'
    BY StepInv
<1> QED BY <1>1, <1>2, PTL DEF Spec

-----------------------------------------------------------------------------
(* The names of the models that are served                                 *)

NamesInv == IsNamed(db.registry) /\ \A c \in Range(calls) : Cleared(db.registry, c)

\* Two models come to share a name.
Sharing(m, n) == m # n /\ ShareAlias(db'.registry, m, n) /\ ~ShareAlias(db.registry, m, n)
Overlap(m, n) == \E k \in DOMAIN calls : /\ IsDeployment(calls[k]) /\ ~calls[k].calm
                                         /\ calls[k].arg \in {m, n} /\ calls'[k].at = "back"
OverlapsShare == \A m, n \in Models \ Exclusive : Sharing(m, n) => Overlap(m, n)

LEMMA JustMade ==
    ASSUME NEW r, NEW c, c.at \in {"sent", "back"}
    PROVE  Cleared(r, c)
BY DEF Cleared, IsDeployment

LEMMA InitNames == Init => NamesInv
<1> SUFFICES ASSUME Init PROVE NamesInv
    OBVIOUS
<1>1. IsNamed(db.registry)
    BY StartsAreStates DEF Init
<1>2. \A t, route : Mount(t, route).at = "sent"
    BY DEF Mount, Call
<1>3. ASSUME NEW i \in DOMAIN calls PROVE calls[i].at = "sent"
    <2>1. PICK s \in Starts : calls = [j \in 1..Cardinality(s.opened) |->
                        Mount(SetToSeq(s.opened)[j], s.tab[SetToSeq(s.opened)[j]].route)]
        BY DEF Init
    <2> QED BY <1>2, <1>3, <2>1
<1> QED BY <1>1, <1>3, JustMade DEF NamesInv, Range

\* A step of a page.
LEMMA PageNames ==
    ASSUME IndInv, NamesInv, db' = db, Left(calls')
    PROVE  NamesInv' /\ OverlapsShare
<1>1. ASSUME NEW c \in Range(calls') PROVE Cleared(db.registry, c)
    <2>1. CASE c.at \in {"sent", "back"}
        BY <2>1, JustMade
    <2>2. ASSUME NEW b \in Range(calls), c = b \/ c = Unheard(b)
          PROVE  Cleared(db.registry, c)
        <3>1. Cleared(db.registry, b) /\ CallOf(tab, db.org, b)
            BY DEF NamesInv, IndInv, CallsOf
        <3>2. c.fn = b.fn /\ c.at = b.at /\ c.arg = b.arg /\ c.calm = b.calm
            BY <2>2, <3>1, UnheardCall
        <3> QED BY <3>1, <3>2 DEF Cleared, IsDeployment, Rivals
    <2> QED BY <2>1, <2>2 DEF Left
<1> QED BY <1>1 DEF NamesInv, OverlapsShare, Sharing

LEMMA AnswerLeaves ==
    ASSUME IndInv, NEW k \in DOMAIN calls, GoesOn(k) \/ Ends(k) \/ Fails(k)
    PROVE  Left(calls')
<1>1. PICK f, d : Turns(k, f, d)
    BY AnswerTurns
<1>2. IsList(Rest(k)) /\ Range(Rest(k)) \subseteq Range(calls)
    BY Removed DEF IndInv, CallsOf, Rest
<1>3. Range(Append(Rest(k), d)) \subseteq Range(Rest(k)) \cup {d}
    BY <1>2, Appended
<1>4. \/ calls' = Rest(k)
      \/ calls' = Append(Rest(k), d) /\ d.at = "sent"
    BY <1>1 DEF Turns
<1> QED BY <1>2, <1>3, <1>4 DEF Left

LEMMA AskingLeaves ==
    ASSUME IndInv, NEW d, calls' = Append(calls, d), d.at = "sent"
    PROVE  Left(calls')
<1>1. Range(Append(calls, d)) \subseteq Range(calls) \cup {d}
    BY Appended DEF IndInv, CallsOf
<1> QED BY <1>1 DEF Left

LEMMA ClickLeaves ==
    ASSUME IndInv, NEW t \in Tabs, Click(t) \/ Debounced(t)
    PROVE  Left(calls')
<1>1. CASE \E b, cmd, fn, c : Sends(t, b, cmd, fn, c)
    BY <1>1, SentInv, AskingLeaves DEF Fresh
<1>2. CASE \E f : Fills(t, f)
    BY <1>2 DEF Fills, Set, Left
<1>3. CASE Debounced(t)
    BY <1>3, DebouncedSends, AskingLeaves DEF Fresh
<1> QED BY <1>1, <1>2, <1>3, ClickActs DEF Acts

LEMMA LeftAlone ==
    ASSUME IsStored(db), NEW c, CallOf(tab, db.org, c), c.fn \notin ModelFns, NEW x \in Outcomes(c)
    PROVE  x.db.registry = db.registry
<1>1. c.fn \in Fns
    BY DEF CallOf, IsCall
<1>2. CASE c.fn \in OrgFns
    <2>1. PICK y : x = [db |-> [db EXCEPT !.org = y.db], call |-> y.call]
        BY <1>2 DEF Outcomes, OrgFns, ModelFns, TrainingFns
    <2> QED BY <2>1, OneTable
<1>3. CASE c.fn \in TrainingFns
    <2>1. PICK y : x = [db |-> [db EXCEPT !.training = y.db], call |-> y.call]
        BY <1>3 DEF Outcomes, OrgFns, ModelFns, TrainingFns
    <2> QED BY <2>1, OneTable
<1> QED BY <1>1, <1>2, <1>3 DEF Fns

LEMMA LostLeavesAlone ==
    ASSUME IsStored(db), NEW c, CallOf(tab, db.org, c), NEW x \in Stopped(c)
    PROVE  x.db.registry = db.registry /\ (c.fn \in ModelFns => x.call.at = "back")
<1>1. IsCall(c)
    BY DEF CallOf
<1>2. CASE c.at # "back" /\ c.fn \in OrgFns
    <2>1. PICK y : x = [db |-> [db EXCEPT !.org = y.db], call |-> y.call]
        BY <1>2 DEF Stopped
    <2> QED BY <1>2, <2>1, OneTable DEF OrgFns, ModelFns
<1>3. CASE ~(c.at # "back" /\ c.fn \in OrgFns)
    <2>1. x \in Answers(db, c, Err)
        BY <1>3 DEF Stopped, Refuses
    <2> QED BY <1>1, <2>1, Answered
<1> QED BY <1>2, <1>3

\* A step of a handler, which leaves the names in order and does not share one by itself.
LEMMA ServiceNames ==
    ASSUME IndInv, NamesInv, NEW k \in DOMAIN calls, NEW x, Serves(calls[k], x), Becomes(k, x),
           IsNamed(x.db.registry), Cleared(x.db.registry, x.call),
           \A m, n \in Models \ Exclusive :
              (m # n /\ ShareAlias(x.db.registry, m, n) /\ ~ShareAlias(db.registry, m, n))
              => /\ IsDeployment(calls[k]) /\ ~calls[k].calm
                 /\ calls[k].arg \in {m, n} /\ x.call.at = "back"
    PROVE  NamesInv' /\ OverlapsShare
<1>1. /\ db' = x.db /\ DOMAIN calls' = DOMAIN calls /\ calls'[k] = x.call
      /\ \A j \in DOMAIN calls :
            /\ calls'[j].fn = calls[j].fn
            /\ j # k => /\ calls'[j].at = calls[j].at /\ calls'[j].arg = calls[j].arg
                        /\ calls'[j].calm => StillAlone(x.db.registry, calls[j])
    BY Others
<1>2. ASSUME NEW j \in DOMAIN calls, j # k
      PROVE  Cleared(x.db.registry, calls'[j])
    <2>1. PICK b, c : b = calls[j] /\ c = calls'[j]
        OBVIOUS
    <2>2. c.fn = b.fn /\ c.at = b.at /\ c.arg = b.arg /\ (c.calm => StillAlone(x.db.registry, b))
        BY <1>1, <1>2, <2>1
    <2>3. Cleared(db.registry, b)
        BY <2>1 DEF NamesInv, Range
    <2>4. Rivals(x.db.registry, c) = Rivals(x.db.registry, b) /\ (IsDeployment(c) <=> IsDeployment(b))
        BY <2>2 DEF Rivals, IsDeployment
    <2>5. Cleared(x.db.registry, c)
        BY <2>2, <2>3, <2>4 DEF Cleared, StillAlone
    <2> QED BY <2>1, <2>5
<1>3. NamesInv'
    BY <1>1, <1>2 DEF NamesInv, Range
<1>4. OverlapsShare
    BY <1>1 DEF OverlapsShare, Sharing, Overlap
<1> QED BY <1>3, <1>4

\* A step that is not of a command about models, or after which nothing is left of it.
LEMMA AsideNames ==
    ASSUME IndInv, NamesInv, NEW k \in DOMAIN calls, NEW x, Serves(calls[k], x), Becomes(k, x),
           x.db.registry = db.registry, calls[k].fn \in ModelFns => x.call.at = "back"
    PROVE  NamesInv' /\ OverlapsShare
<1>1. x.call.fn = calls[k].fn
    BY DEF Serves, Continues
<1>2. Cleared(x.db.registry, x.call)
    BY <1>1 DEF Cleared, IsDeployment, ModelFns
<1>3. IsNamed(x.db.registry)
    BY DEF NamesInv
<1> QED BY <1>2, <1>3, ServiceNames

\* A step of a command about models.
LEMMA ModelNames ==
    ASSUME IndInv, NamesInv, NEW k \in DOMAIN calls, calls[k].fn \in ModelFns, calls[k].at # "back",
           NEW x \in Outcomes(calls[k]), Serves(calls[k], x), Becomes(k, x)
    PROVE  NamesInv' /\ OverlapsShare
<1>1. PICK c : c = calls[k]
    OBVIOUS
<1>2. PICK r : r = db.registry
    OBVIOUS
<1>3. PICK y \in ModelOutcomes(r, c) : x = [db |-> [db EXCEPT !.registry = y.db], call |-> y.call]
    BY <1>1, <1>2 DEF Outcomes, OrgFns, ModelFns, TrainingFns
<1>4. x.db.registry = y.db /\ x.call = y.call
    BY <1>3, OneTable DEF IndInv
<1>5. /\ IsCall(c) /\ ModelCall(c) /\ c.fn \in ModelFns /\ c.at # "back" /\ Cleared(r, c)
      /\ IsNamed(r) /\ r \in Registries
    BY <1>1, <1>2 DEF IndInv, CallsOf, CallOf, Range, NamesInv, IsStored, Registries
<1>6. IsNamed(y.db) /\ Cleared(y.db, y.call)
    BY <1>5, CommandServes, CommandNames
<1>7. ASSUME NEW m \in Models \ Exclusive, NEW n \in Models \ Exclusive, m # n,
             ShareAlias(y.db, m, n), ~ShareAlias(r, m, n)
      PROVE  IsDeployment(c) /\ ~c.calm /\ c.arg \in {m, n} /\ y.call.at = "back"
    BY <1>5, <1>7, OverlapShares
<1> QED BY <1>1, <1>2, <1>4, <1>6, <1>7, ServiceNames

LEMMA StepNames ==
    ASSUME IndInv, NamesInv, [Next]_vars
    PROVE  NamesInv' /\ OverlapsShare
<1>1. ASSUME NEW k \in DOMAIN calls
      PROVE  IsStored(db) /\ CallOf(tab, db.org, calls[k])
    BY DEF IndInv, CallsOf, Range
<1>2. ASSUME NEW k \in DOMAIN calls, NEW x \in Outcomes(calls[k]),
             calls[k].at # "back", Becomes(k, x)
      PROVE  NamesInv' /\ OverlapsShare
    <2>1. Serves(calls[k], x)
        BY <1>1, <1>2, Served
    <2>2. CASE calls[k].fn \in ModelFns
        BY <1>2, <2>1, <2>2, ModelNames
    <2>3. CASE calls[k].fn \notin ModelFns
        <3>1. x.db.registry = db.registry
            BY <1>1, <1>2, <2>3, LeftAlone
        <3> QED BY <1>2, <2>1, <2>3, <3>1, AsideNames
    <2> QED BY <2>2, <2>3
<1>3. ASSUME NEW k \in DOMAIN calls, NEW x \in Stopped(calls[k]), Becomes(k, x)
      PROVE  NamesInv' /\ OverlapsShare
    <2>1. Serves(calls[k], x)
        BY <1>1, <1>3, Lost
    <2>2. x.db.registry = db.registry /\ (calls[k].fn \in ModelFns => x.call.at = "back")
        BY <1>1, <1>3, LostLeavesAlone
    <2> QED BY <1>3, <2>1, <2>2, AsideNames
<1>4. CASE \E k \in DOMAIN calls : GoesOn(k) \/ Ends(k) \/ Fails(k)
    BY <1>4, AnswerLeaves, PageNames DEF GoesOn, Ends, Fails
<1>5. CASE \E t \in Tabs : Debounced(t) \/ Click(t)
    BY <1>5, ClickLeaves, PageNames DEF Debounced, Click
<1>6. CASE (\E t \in Tabs : Reopen(t)) \/ (\E k \in DOMAIN calls : CutOff(k))
    BY <1>6, ReopenInv, CutOffInv, PageNames DEF Reopen, CutOff
<1>7. CASE UNCHANGED vars
    BY <1>7, PageNames DEF vars, Left
<1> QED BY <1>2, <1>3, <1>4, <1>5, <1>6, <1>7, Kinds

-----------------------------------------------------------------------------
(* The theorems                                                            *)

\* TypeOK holds for every number of tabs and of requests under way, whatever steps of
\* handlers come between one another and wherever they stop: what is stored, shown and asked
\* for stays of its kind; no link and no member is left without its workspace.
THEOREM KindsAreKept == Spec => []TypeOK
<1>1. IndInv => TypeOK
    <2> SUFFICES ASSUME IndInv PROVE TypeOK
        OBVIOUS
    <2>1. IsStored(db) /\ Pages(tab) /\ Bounds
        BY DEF IndInv
    <2>2. \A k \in DOMAIN calls : CallOf(tab, db.org, calls[k])
        BY DEF IndInv, CallsOf, Range
    <2>3. \A t \in Tabs : tab[t] \in Page
        BY <2>1 DEF Pages, IsPage
    <2>4. ASSUME NEW k \in DOMAIN calls
          PROVE  /\ calls[k].tab \in Tabs /\ calls[k].fn \in OrgFns \cup ModelFns \cup TrainingFns
                 /\ IsStructure(calls[k].seen)
        BY <2>2 DEF CallOf, IsCall, Fns, Typed
    <2> QED BY <2>1, <2>3, <2>4 DEF TypeOK, Pages, Bounds
<1> QED BY <1>1, Invariance, PTL

\* CoverageIsNearest holds for every structure that Bitrix24 may answer, also with circles and
\* with parents that are not listed, and for every set of links: the walk of
\* DepartmentCoverage stops where a department comes again and misses no ancestor before.
THEOREM CoverageIsTheNearest == Spec => []CoverageIsNearest
<1>1. IndInv => CoverageIsNearest
    <2> SUFFICES ASSUME IndInv PROVE CoverageIsNearest
        OBVIOUS
    <2>1. IsStructure(db.org.structure) /\ DOMAIN db.org.link \subseteq Depts
        BY DEF IndInv, IsStored, IsOrg
    <2>2. PICK s, link : s = db.org.structure /\ link = db.org.link
        OBVIOUS
    <2>3. \A d \in DOMAIN s.parent, w \in Workspaces :
             BelongsTo(s, link, d, w) <=> d \in DOMAIN DepartmentCoverage(s, link)
                                          /\ DepartmentCoverage(s, link)[d] = w
        BY <2>1, <2>2, CoverageIsRight
    <2> QED BY <2>2, <2>3 DEF CoverageIsNearest
<1> QED BY <1>1, Invariance, PTL

\* AppliedIsDesired holds for every structure and any number of links, members and
\* administrators: an application that reads four lists one after another and writes row by
\* row leaves the members that the lists say, unless one of them was changed meanwhile.
THEOREM ApplicationsAreRight == Spec => []AppliedIsDesired
<1>1. IndInv => AppliedIsDesired
    <2> SUFFICES ASSUME IndInv, NEW k \in DOMAIN calls, calls[k].at = "back", calls[k].reply.ok,
                        calls[k].reply.flag, calls[k].calm, Brings(calls[k]),
                        NEW w \in db.org.spaces, NEW u \in Users, ~IsLocal(db.org, <<w, u>>)
                 PROVE  /\ <<w, u>> \in DOMAIN db.org.member <=> Places(db.org, w, u) # {}
                        /\ <<w, u>> \in DOMAIN db.org.member =>
                              (db.org.member[<<w, u>>].role = "department_manager"
                               <=> \E x \in Places(db.org, w, u) : db.org.structure.head[x[2]] = x[1])
        BY DEF AppliedIsDesired, Brings, Places
    <2>1. Applies(db.org, calls[k])
        BY DEF IndInv, CallsOf, CallOf, Range
    <2>2. PICK o : o = db.org
        OBVIOUS
    <2>3. Applied(o) /\ ~IsLocal(o, <<w, u>>)
        BY <2>1, <2>2 DEF Applies
    <2> QED BY <2>2, <2>3, AppliedPlaces
<1> QED BY <1>1, Invariance, PTL

\* OnlyOverlapsShareAnAlias holds for any number of models, tabs and commands, wherever
\* handlers stop, go on unheard or are overtaken: what UndeployPurpose has cleared stays so
\* until SetDeployed, unless the deployment has seen another model come into service.
THEOREM OnlyOverlapsShare == Spec => OnlyOverlapsShareAnAlias
<1>1. Init => IndInv /\ NamesInv
    BY InitInv, InitNames
<1>2. (IndInv /\ NamesInv) /\ [Next]_vars => (IndInv /\ NamesInv)'
    BY StepInv, StepNames
<1>3. (IndInv /\ NamesInv) /\ [Next]_vars
      => [\A m, n \in Models \ Exclusive :
             (m # n /\ ShareAlias(db'.registry, m, n) /\ ~ShareAlias(db.registry, m, n))
             => \E k \in DOMAIN calls : /\ IsDeployment(calls[k]) /\ ~calls[k].calm
                                        /\ calls[k].arg \in {m, n} /\ calls'[k].at = "back"]_vars
    BY StepNames DEF OverlapsShare, Sharing, Overlap
<1> QED BY <1>1, <1>2, <1>3, PTL DEF Spec, OnlyOverlapsShareAnAlias

\* LocalMembersAreKept holds for every structure of departments and every set of links:
\* UpsertBitrixMember and DeleteBitrixMember spare the rows that Bitrix24 did not bring, and
\* a new workspace has no members that a row of its owner could replace.
THEOREM LocalMembersStay == Spec => LocalMembersAreKept
<1>1. IndInv /\ [Next]_vars
      => [\A key \in DOMAIN db.org.member :
             IsLocal(db.org, key) => key \in DOMAIN db'.org.member
                                     /\ db'.org.member[key] = db.org.member[key]]_vars
    BY StepInv DEF Effect, Kept
<1> QED BY <1>1, Invariance, PTL DEF Spec, LocalMembersAreKept

\* DecisionsStand holds for any number of authors, requests and commands: a decision is only
\* overturned by a command that had read the request before.
THEOREM DecisionsAreFinal == Spec => DecisionsStand
<1>1. IndInv /\ [Next]_vars
      => [\A r \in Requests :
            (db.training[r].status \in Decided /\ db'.training[r].status # db.training[r].status)
            => \E k \in DOMAIN calls : /\ calls[k].arg = r /\ calls[k].at = "write"
                                       /\ calls[k].was \in {"draft", "submitted"}
                                       /\ DOMAIN calls' = DOMAIN calls /\ calls'[k].at = "back"]_vars
    BY StepInv DEF Effect, DecisionStands
<1> QED BY <1>1, Invariance, PTL DEF Spec, DecisionsStand

StatusOfModels == [m \in Models |-> db.registry[m].status]

LEMMA LifecycleMove ==
    ASSUME NEW ms, NEW from, NEW to, Moved(db.registry, db'.registry, ms, from, to)
    PROVE  Lifecycle!Moves(ms, from, to)
BY DEF Moved, Lifecycle!Moves, Lifecycle!InStatus

\* ImplementsModelLifecycle holds for any number of models and administrators: whatever
\* statements of commands on the same models come between one another, each moves the
\* models as ModelLifecycle allows.
THEOREM RegistryRefines == Spec => ImplementsModelLifecycle
<1>1. Init => Lifecycle!Init
    <2> SUFFICES ASSUME Init PROVE Lifecycle!Init
        OBVIOUS
    <2>1. db.registry \in Registries
        BY InitInv DEF IndInv, IsStored, Registries
    <2> QED BY <2>1 DEF Lifecycle!Init, Registries, ModelRow, ModelStatus
<1>2. IndInv /\ [Next]_vars => [Lifecycle!Next]_StatusOfModels
    <2> SUFFICES ASSUME IndInv, [Next]_vars PROVE [Lifecycle!Next]_StatusOfModels
        OBVIOUS
    <2>1. Advances(db.registry, db'.registry)
        BY StepInv DEF Effect
    <2>2. CASE \A m \in Models : db'.registry[m].status = db.registry[m].status
        <3>1. StatusOfModels' = StatusOfModels
            BY <2>2 DEF StatusOfModels
        <3> QED BY <3>1
    <2>3. CASE \E m \in Models : \/ Moved(db.registry, db'.registry, {m}, "unregistered", "quarantine")
                                 \/ Moved(db.registry, db'.registry, {m}, "quarantine", "approved")
                                 \/ Moved(db.registry, db'.registry, {m}, "quarantine", "rejected")
                                 \/ Moved(db.registry, db'.registry, {m}, "approved", "rejected")
                                 \/ Moved(db.registry, db'.registry, {m}, "approved", "deployed")
                                 \/ Moved(db.registry, db'.registry, {m}, "deployed", "disabled")
        BY <2>3, LifecycleMove DEF Lifecycle!Next, Lifecycle!Register, Lifecycle!Approve,
           Lifecycle!Reject, Lifecycle!Deploy, Lifecycle!Disable
    <2>4. CASE \E ms \in SUBSET Models : Moved(db.registry, db'.registry, ms, "deployed", "approved")
        BY <2>4, LifecycleMove DEF Lifecycle!Next, Lifecycle!Withdraw
    <2> QED BY <2>1, <2>2, <2>3, <2>4 DEF Advances
<1> QED BY <1>1, <1>2, Invariance, PTL DEF Spec, ImplementsModelLifecycle, Lifecycle!Spec, StatusOfModels
=============================================================================
