----------------------------- MODULE AdminPages -----------------------------
(***************************************************************************)
(* Administration: the pages for Bitrix24, workspaces, models and training *)
(* requests, and the page on which users write such requests, over the     *)
(* handlers of OrgSync, ModelRegistry and TrainingRequests.                *)
(*                                                                         *)
(* A call is an asynchronous function of a page (cmd) and the request that *)
(* it waits for (fn).  A page that is left does not withdraw its requests: *)
(* they are carried out, and nobody hears the answer (cmd is "lost").      *)
(***************************************************************************)
EXTENDS OrgSync, ModelRegistry, TrainingRequests

CONSTANTS
    Tabs, UserOf,   \* and who works in a tab
    Starts          \* what is stored and shown at first; how often each tab is clicked, how
                    \* often a handler stops or a request or an answer is lost (stop), and how often
                    \* nobody waits any longer for a handler that goes on (away) (bounds)

VARIABLES db, tab, calls, clicks, troubles

vars == <<db, tab, calls, clicks, troubles>>

Routes == {"bitrix", "workspaces", "models", "training", "review"}
Busy == {"no", "save", "test", "sync", "disconnect", "workspace", "yes"}

\* configured: of the status, once it is there; q: the search is filled in; due: its timer
\* runs; children: the box for the departments below; rows, people: the lists.
Page == [route : Routes, busy : Busy, configured : {"unknown", "no", "yes"}, q : BOOLEAN, due : BOOLEAN,
         children : BOOLEAN, people : SUBSET People,
         rows : (SUBSET DeptLine) \cup (SUBSET SpaceLine) \cup (SUBSET ModelLine)
                \cup (SUBSET RequestLine)]

Blank(route) == [route |-> route, busy |-> "no", configured |-> "unknown", q |-> FALSE, due |-> FALSE,
                 children |-> TRUE, rows |-> {}, people |-> {}]

Tables == {"org", "registry", "training"}
IsStored(d) == /\ DOMAIN d = Tables /\ IsOrg(d.org)
               /\ d.registry \in [Models -> ModelRow] /\ d.training \in [Requests -> Request]

\* What a page lists; only the page for Bitrix24 has a timer, and only the administrator reviews.
LinesOf(route) == CASE route = "bitrix"     -> DeptLine
                    [] route = "workspaces" -> SpaceLine
                    [] route = "models"     -> ModelLine
                    [] route \in {"training", "review"} -> RequestLine
Fits(t, f) == /\ f.rows \subseteq LinesOf(f.route) /\ (f.due => f.route = "bitrix")
              /\ (f.route = "review" => UserOf[t] = Admin)

Troubles == [stop : Nat, away : Nat]

\* What is stored is stored by the handlers, and what a page shows it was sent.
ASSUME StartsAreStates ==
    \A s \in Starts :
        /\ IsStored(s.db) /\ s.tab \in [Tabs -> Page] /\ \A t \in Tabs : Fits(t, s.tab[t])
        /\ s.clicks \in [Tabs -> Nat] /\ s.troubles \in Troubles /\ s.opened \subseteq Tabs
        /\ IsNamed(s.db.registry)
ASSUME WorkersAreUsers == UserOf \in [Tabs -> Users \cap (Authors \cup {Admin})]
ASSUME TabsAreFinite == IsFiniteSet(Tabs)

-----------------------------------------------------------------------------
(* Calls.                                                                  *)

\* arg, ws, flag, verb: arguments; q: the search when the command began; was, seen, links, want, drop: what a handler has read;
\* calm: nothing that it relies on was changed since it began.
Call(t, cmd, fn) ==
    [tab |-> t, cmd |-> cmd, fn |-> fn, at |-> "sent", user |-> UserOf[t], arg |-> Nobody, ws |-> Nobody,
     flag |-> FALSE, q |-> FALSE, verb |-> "", was |-> "", seen |-> NoStructure, links |-> <<>>, want |-> <<>>,
     drop |-> {}, calm |-> TRUE, reply |-> Err]

\* useEffect of the page that was opened.
Mount(t, route) ==
    Call(t, "load", CASE route = "bitrix"     -> "fetchBitrixStatus"
                      [] route = "workspaces" -> "fetchAdminWorkspaces"
                      [] route = "models"     -> "listAdminModels"
                      [] route = "training"   -> "fetchTrainingRequests"
                      [] route = "review"     -> "fetchAdminTrainingRequests")

Rest(k) == RemoveAt(calls, k)

\* Whoever asked does not wait any longer.
Unheard(c) == [c EXCEPT !.cmd = "lost"]

\* setStatus, and the effect that depends on whether a webhook is there.
SetStatusOf(f, flag) ==
    LET configured == IF flag THEN "yes" ELSE "no"
    IN  [f EXCEPT !.configured = configured, !.due = IF configured = f.configured THEN @ ELSE flag]

Lists == {"fetchBitrixSnapshot", "fetchAdminWorkspaces", "listAdminModels", "fetchTrainingRequests",
          "fetchAdminTrainingRequests"}
Statuses == {"fetchBitrixStatus", "saveBitrixWebhook", "disconnectBitrix"}

\* The page with the data of an answer.
Showing(f, c) ==
    CASE c.cmd = "lost" \/ ~c.reply.ok -> f
      [] c.cmd # "lost" /\ c.reply.ok /\ c.fn \in Lists ->
           [f EXCEPT !.rows = c.reply.rows, !.people = c.reply.people]
      [] c.cmd # "lost" /\ c.reply.ok /\ c.fn \in Statuses -> SetStatusOf(f, c.reply.flag)
      [] OTHER -> f

\* Commands after which the page is free again; the others leave busy alone.
Occupying == {"save", "test", "sync", "disconnect", "workspace", "apply", "create", "action", "request"}

\* Mutant: only a command that went well frees the page.
FreedIfWell(f, c) == IF c.cmd \in Occupying /\ c.reply.ok THEN [f EXCEPT !.busy = "no"] ELSE f
Freed(f, c) == IF c.cmd \in Occupying THEN [f EXCEPT !.busy = "no"] ELSE f

OwnWrites    == {"createTrainingRequest", "submitTrainingRequest", "cancelTrainingRequest"}
ReviewWrites == {"approveAdminTrainingRequest", "rejectAdminTrainingRequest"}

\* What a function of a page asks for after fn, if that went well; what it would read for a
\* page that was left is not asked for here.
Follows(c) ==
    CASE c.cmd = "lost" -> "none"
      [] c.cmd \in {"load", "sync"} /\ c.fn = "fetchBitrixStatus" -> "fetchBitrixSnapshot"
      [] c.cmd # "lost" /\ c.fn = "syncBitrix" -> "fetchBitrixStatus"
      [] c.cmd = "workspace" /\ c.fn \notin Lists -> "fetchBitrixSnapshot"
      [] c.cmd \in {"apply", "unlink"} /\ c.fn \notin Lists -> "fetchAdminWorkspaces"
      [] c.cmd # "lost" /\ c.fn \in {"createAdminModel", "actionAdminModel"} -> "listAdminModels"
      [] c.cmd \in {"request", "act"} /\ c.fn \in OwnWrites -> "fetchTrainingRequests"
      [] c.cmd = "act" /\ c.fn \in ReviewWrites -> "fetchAdminTrainingRequests"
      [] OTHER -> "none"

Back(k) == k \in DOMAIN calls /\ calls[k].at = "back"
GoesOn(k) ==
    LET c == calls[k]
    IN  /\ Back(k) /\ c.reply.ok /\ Follows(c) # "none"
        /\ tab' = [tab EXCEPT ![c.tab] = Showing(@, c)]
        /\ calls' = Append(Rest(k), [Call(c.tab, c.cmd, Follows(c)) EXCEPT !.q = c.q])
        /\ UNCHANGED <<db, clicks, troubles>>
Ends(k) ==
    LET c == calls[k]
    IN  /\ Back(k) /\ c.reply.ok /\ Follows(c) = "none"
        /\ tab' = [tab EXCEPT ![c.tab] = Freed(Showing(@, c), c)]
        /\ calls' = Rest(k) /\ UNCHANGED <<db, clicks, troubles>>
\* A synchronization that failed still reads the status, and does not wait for it.
Fails(k) ==
    LET c == calls[k]
    IN  /\ Back(k) /\ ~c.reply.ok
        /\ tab' = [tab EXCEPT ![c.tab] = Freed(@, c)]
        /\ calls' = IF c.cmd = "sync" THEN Append(Rest(k), Call(c.tab, "quiet", "fetchBitrixStatus"))
                    ELSE Rest(k)
        /\ UNCHANGED <<db, clicks, troubles>>

-----------------------------------------------------------------------------
(* Commands.                                                               *)

Send(t, busy, c) == /\ tab' = [tab EXCEPT ![t].busy = busy]
                    /\ calls' = Append(calls, [c EXCEPT !.q = tab[t].q])
Set(t, f) == tab' = [tab EXCEPT ![t] = f] /\ UNCHANGED calls

\* The sections of AdminBitrixPage and the commands that each offers.
ConnectionCommands(f) ==
    IF f.route # "bitrix" \/ f.busy # "no" THEN {}
    ELSE {"save"} \cup (IF f.configured = "yes" THEN {"disconnect"} ELSE {})
SyncCommands(f) ==
    IF f.route = "bitrix" /\ f.busy = "no" /\ f.configured = "yes" THEN {"test", "sync"} ELSE {}
DeptCommands(f, row) ==
    IF f.route # "bitrix" \/ f.busy # "no" THEN {}
    ELSE IF row.ws = Nobody \/ row.inherited THEN {"create"}
    ELSE {"unlink"} \cup (IF row.include THEN {"stop"} ELSE {})
UsersSection(f) == f.route = "bitrix"

Save(t) == /\ "save" \in ConnectionCommands(tab[t])
           /\ Send(t, "save", Call(t, "save", "saveBitrixWebhook"))
DisconnectBitrix(t) == /\ "disconnect" \in ConnectionCommands(tab[t])
                       /\ Send(t, "disconnect", Call(t, "disconnect", "disconnectBitrix"))
TestBitrix(t) == /\ "test" \in SyncCommands(tab[t])
                 /\ Send(t, "test", Call(t, "test", "testBitrix"))
SyncNow(t) == /\ "sync" \in SyncCommands(tab[t])
              /\ Send(t, "sync", Call(t, "sync", "syncBitrix"))

\* The number of workspaces is bounded.
Room == Cardinality({k \in DOMAIN calls : /\ calls[k].fn = "createWorkspaceFromDepartment"
                                          /\ calls[k].at \in {"sent", "checked"}})
        < Cardinality(Workspaces \ db.org.spaces)
CreateWorkspace(t, row) ==
    /\ "create" \in DeptCommands(tab[t], row) /\ Room
    /\ Send(t, "workspace", [Call(t, "workspace", "createWorkspaceFromDepartment") EXCEPT
                                !.arg = row.dept, !.flag = tab[t].children])
\* These take the workspace from the row that is shown.
StopIncludingChildren(t, row) ==
    /\ "stop" \in DeptCommands(tab[t], row)
    /\ Send(t, "workspace", [Call(t, "workspace", "linkWorkspaceDepartment") EXCEPT
                                !.arg = row.dept, !.ws = row.ws])
Unlink(t, row) ==
    /\ "unlink" \in DeptCommands(tab[t], row)
    /\ Send(t, "workspace", [Call(t, "workspace", "unlinkWorkspaceDepartment") EXCEPT
                                !.arg = row.dept, !.ws = row.ws])

SetIncludeChildren(t) == /\ tab[t].route = "bitrix"
                         /\ Set(t, [tab[t] EXCEPT !.children = ~@])
SetUserQ(t) == /\ UsersSection(tab[t])
               /\ Set(t, [tab[t] EXCEPT !.q = ~@, !.due = tab[t].configured = "yes"])
Debounced(t) ==
    /\ tab[t].due
    /\ tab' = [tab EXCEPT ![t].due = FALSE]
    /\ calls' = Append(calls, [Call(t, "debounce", "fetchBitrixSnapshot") EXCEPT !.q = tab[t].q])
    /\ UNCHANGED <<db, clicks, troubles>>

\* AdminWorkspacesPage: every link has its button, also while the memberships are applied.
ApplyOffered(f)  == f.route = "workspaces" /\ f.busy = "no"
UnlinkOffered(f) == IF f.route = "workspaces" THEN {x \in f.rows \X Depts : x[2] \in x[1].depts} ELSE {}
Apply(t) == /\ ApplyOffered(tab[t])
            /\ Send(t, "yes", Call(t, "apply", "applyWorkspaceMemberships"))
UnlinkDept(t) ==
    \E x \in UnlinkOffered(tab[t]) :
        Send(t, tab[t].busy, [Call(t, "unlink", "unlinkWorkspaceDepartment") EXCEPT
                                  !.arg = x[2], !.ws = x[1].ws])

\* AdminModelsPage.
CreateOffered(f) == f.route = "models" /\ f.busy = "no"
ActionsOffered(f, row) ==
    IF f.route # "models" \/ f.busy # "no" THEN {}
    ELSE CASE row.status = "quarantine" -> {"approve", "reject"}
           [] row.status = "approved"   -> {"deploy"}
           [] row.status = "deployed"   -> {"disable"}
           [] OTHER -> {}
OnCreateModel(t, m) == /\ CreateOffered(tab[t])
                       /\ Send(t, "yes", [Call(t, "create", "createAdminModel") EXCEPT !.arg = m])
OnAction(t, row, verb) ==
    /\ verb \in ActionsOffered(tab[t], row)
    /\ Send(t, "yes", [Call(t, "action", "actionAdminModel") EXCEPT !.arg = row.id, !.verb = verb])

\* TrainingPage: a draft can be saved unless one is being saved.  The number of requests
\* is bounded.
DraftOffered(f) ==
    /\ f.route = "training" /\ f.busy = "no"
    /\ Cardinality({k \in DOMAIN calls : calls[k].fn = "createTrainingRequest" /\ calls[k].at = "sent"})
       < Cardinality({r \in Requests : db.training[r].status = "none"})
OwnCommands(f, row) ==
    IF f.route # "training" THEN {}
    ELSE CASE row.status = "draft" -> {"submit", "cancel"}
           [] row.status = "submitted" -> {"cancel"}
           [] OTHER -> {}
OnCreateRequest(t) == DraftOffered(tab[t]) /\ Send(t, "yes", Call(t, "request", "createTrainingRequest"))
Change(t, row, verb) ==
    /\ verb \in OwnCommands(tab[t], row)
    /\ Send(t, tab[t].busy,
            [Call(t, "act", IF verb = "submit" THEN "submitTrainingRequest" ELSE "cancelTrainingRequest")
             EXCEPT !.arg = row.id, !.verb = verb])

\* AdminTrainingPage.
ReviewCommands(f, row) ==
    IF f.route = "review" /\ row.status = "submitted" THEN {"approve", "reject"} ELSE {}
Review(t, row, verb) ==
    /\ verb \in ReviewCommands(tab[t], row)
    /\ Send(t, tab[t].busy,
            [Call(t, "act", IF verb = "approve" THEN "approveAdminTrainingRequest"
                            ELSE "rejectAdminTrainingRequest") EXCEPT !.arg = row.id, !.verb = verb])

Click(t) ==
    /\ clicks[t] > 0 /\ clicks' = [clicks EXCEPT ![t] = @ - 1]
    /\ UNCHANGED <<db, troubles>>
    /\ \/ Save(t) \/ DisconnectBitrix(t) \/ TestBitrix(t) \/ SyncNow(t)
       \/ SetIncludeChildren(t) \/ SetUserQ(t) \/ Apply(t) \/ UnlinkDept(t)
       \/ \E m \in Models : OnCreateModel(t, m)
       \/ OnCreateRequest(t)
       \/ \E row \in tab[t].rows :
             CASE tab[t].route = "bitrix" ->
                    CreateWorkspace(t, row) \/ StopIncludingChildren(t, row) \/ Unlink(t, row)
               [] tab[t].route = "models" ->
                    \E verb \in {"approve", "reject", "deploy", "disable"} : OnAction(t, row, verb)
               [] tab[t].route = "training" -> \E verb \in {"submit", "cancel"} : Change(t, row, verb)
               [] tab[t].route = "review" -> \E verb \in {"approve", "reject"} : Review(t, row, verb)
               [] OTHER -> FALSE

\* The page is left for another one, and opened again: what it showed, its timer and busy are
\* of the component that is gone.  (The page in between is left out; a tab keeps its route.)
Reopen(t) ==
    /\ troubles.away > 0 /\ troubles' = [troubles EXCEPT !.away = @ - 1]
    /\ tab' = [tab EXCEPT ![t] = Blank(@.route)]
    /\ calls' = Append([k \in DOMAIN calls |-> IF calls[k].tab = t THEN Unheard(calls[k]) ELSE calls[k]],
                       Mount(t, tab[t].route))
    /\ UNCHANGED <<db, clicks>>

-----------------------------------------------------------------------------
(* The backend.                                                            *)

Outcomes(c) ==
    CASE c.fn \in OrgFns ->
           {[db |-> [db EXCEPT !.org = x.db], call |-> x.call] : x \in OrgOutcomes(db.org, c)}
      [] c.fn \in ModelFns ->
           {[db |-> [db EXCEPT !.registry = x.db], call |-> x.call] : x \in ModelOutcomes(db.registry, c)}
      [] c.fn \in TrainingFns ->
           {[db |-> [db EXCEPT !.training = x.db], call |-> x.call] : x \in TrainingOutcomes(db.training, c)}
Stopped(c) ==
    IF c.at # "back" /\ c.fn \in OrgFns
    THEN {[db |-> [db EXCEPT !.org = x.db], call |-> x.call] : x \in OrgStops(db.org, c)}
    ELSE Refuses(db, c)

Shared(o) == <<o.structure, o.link, o.member>>
Becomes(k, x) ==
    LET Still(c) ==
            /\ c.calm
            /\ c.fn \in {"syncBitrix", "applyWorkspaceMemberships"} => Shared(x.db.org) = Shared(db.org)
            /\ IsDeployment(c) => Rivals(x.db.registry, c) \subseteq Rivals(db.registry, c)
    IN  /\ db' = x.db
        /\ calls' = [j \in DOMAIN calls |-> IF j = k THEN x.call
                                            ELSE [calls[j] EXCEPT !.calm = Still(calls[j])]]

Serve(k) == /\ k \in DOMAIN calls /\ calls[k].at # "back"
            /\ \E x \in Outcomes(calls[k]) : Becomes(k, x)
            /\ UNCHANGED <<tab, clicks, troubles>>

\* apiFetch throws: the request or the answer is lost, or the handler stops.
Lose(k) == /\ k \in DOMAIN calls /\ (calls[k].at = "back" => calls[k].reply.ok)
           /\ troubles.stop > 0 /\ troubles' = [troubles EXCEPT !.stop = @ - 1]
           /\ \E x \in Stopped(calls[k]) : Becomes(k, x)
           /\ UNCHANGED <<tab, clicks>>
\* apiFetch throws, but the handler goes on.
CutOff(k) == /\ k \in DOMAIN calls /\ calls[k].at # "back" /\ calls[k].cmd # "lost"
             /\ troubles.away > 0 /\ troubles' = [troubles EXCEPT !.away = @ - 1]
             /\ \E x \in Refuses(db, calls[k]) :
                   calls' = Append([calls EXCEPT ![k] = x.call], Unheard(calls[k]))
             /\ UNCHANGED <<db, tab, clicks>>

-----------------------------------------------------------------------------
(* The specification.                                                      *)

Init == \E s \in Starts :
           /\ db = s.db /\ tab = s.tab /\ clicks = s.clicks /\ troubles = s.troubles
           /\ calls = [i \in 1..Cardinality(s.opened) |->
                          LET t == SetToSeq(s.opened)[i] IN Mount(t, s.tab[t].route)]

Working == \/ \E k \in DOMAIN calls : Serve(k) \/ GoesOn(k) \/ Ends(k) \/ Fails(k)
           \/ \E t \in Tabs : Debounced(t)
Next == \/ Working
        \/ \E t \in Tabs : Click(t) \/ Reopen(t)
        \/ \E k \in DOMAIN calls : Lose(k) \/ CutOff(k)

\* A request that is under way ends, and a timer fires.
Spec == Init /\ [][Next]_vars /\ WF_vars(Working)

-----------------------------------------------------------------------------
(* Properties.                                                             *)

\* Every variable holds a value of its kind.
TypeOK ==
    /\ IsStored(db)
    /\ DOMAIN tab = Tabs /\ \A t \in Tabs : tab[t] \in Page
    /\ \A k \in DOMAIN calls : /\ calls[k].tab \in Tabs /\ calls[k].fn \in OrgFns \cup ModelFns \cup TrainingFns
                               /\ IsStructure(calls[k].seen)
    /\ clicks \in [Tabs -> Nat] /\ troubles \in Troubles

\* Whatever the structure looks like, also with circles and parents that are not listed: a
\* department belongs to the workspace it is linked to, else to that of the nearest
\* ancestor that passes its workspace on, else to none.
CoverageIsNearest ==
    LET coverage == DepartmentCoverage(db.org.structure, db.org.link)
    IN  \A d \in DOMAIN db.org.structure.parent, w \in Workspaces :
           BelongsTo(db.org.structure, db.org.link, d, w) <=> d \in DOMAIN coverage /\ coverage[d] = w

\* A member that Bitrix24 did not bring is neither changed nor removed, whatever structure
\* was read and wherever an application of the memberships fails.
LocalMembersAreKept ==
    [][\A key \in DOMAIN db.org.member :
          IsLocal(db.org, key) => key \in DOMAIN db'.org.member
                                  /\ db'.org.member[key] = db.org.member[key]]_vars

\* When an application of the memberships ends well, and nobody has changed what it is
\* made from meanwhile, the members brought by Bitrix24 are those of the structure and the
\* links, each with the role it says.
AppliedIsDesired ==
    \A k \in DOMAIN calls :
       (calls[k].at = "back" /\ calls[k].reply.ok /\ calls[k].reply.flag /\ calls[k].calm
        /\ calls[k].fn \in {"syncBitrix", "applyWorkspaceMemberships"}) =>
          LET o == db.org
              coverage == DepartmentCoverage(o.structure, o.link)
              Places(w, u) == {x \in o.structure.active \X DOMAIN coverage :
                                  /\ x[2] \in o.structure.in[x[1]]
                                  /\ coverage[x[2]] = w /\ Account[x[1]] = u}
          IN  \A w \in o.spaces, u \in Users :
                 ~IsLocal(o, <<w, u>>) =>
                    /\ <<w, u>> \in DOMAIN o.member <=> Places(w, u) # {}
                    /\ <<w, u>> \in DOMAIN o.member =>
                          (o.member[<<w, u>>].role = "department_manager"
                           <=> \E x \in Places(w, u) : o.structure.head[x[2]] = x[1])

Lifecycle == INSTANCE ModelLifecycle WITH status <- [m \in Models |-> db.registry[m].status]

\* The registry implements ModelLifecycle: administrators who act on one model at the same
\* time never bring a refused, a disabled or a model that was not reviewed into service.
ImplementsModelLifecycle == Lifecycle!Spec

\* The gateway is given two models under one name only by a deployment that overlaps with
\* another one: between its two statements another model of the purpose came into service.
\* No other order of commands, from any number of administrators, pages left while they wait,
\* or handlers stopped or cut off does it; if no model has the name of a purpose.
OnlyOverlapsShareAnAlias ==
    [][\A m, n \in Models \ Exclusive :
          (m # n /\ ShareAlias(db'.registry, m, n) /\ ~ShareAlias(db.registry, m, n))
          => \E k \in DOMAIN calls : /\ IsDeployment(calls[k]) /\ ~calls[k].calm
                                     /\ calls[k].arg \in {m, n} /\ calls'[k].at = "back"]_vars

\* The decision on a request stands, unless a command is still to be carried out that read
\* the request before it was decided.
DecisionsStand ==
    [][\A r \in Requests :
          (db.training[r].status \in Decided /\ db'.training[r].status # db.training[r].status)
          => \E k \in DOMAIN calls : /\ calls[k].arg = r /\ calls[k].at = "write"
                                     /\ calls[k].was \in {"draft", "submitted"}
                                     /\ DOMAIN calls' = DOMAIN calls /\ calls'[k].at = "back"]_vars

\* No failure leaves a page busy: there comes a time when none is and nothing is asked for.
CommandsEnd == []<>(calls = <<>> /\ \A t \in Tabs : tab[t].busy = "no")
=============================================================================
