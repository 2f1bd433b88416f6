---------------------------- MODULE PortalProofs ----------------------------
(***************************************************************************)
(* Every step of Portal keeps the invariant of PortalInvariant, and what   *)
(* follows: one verification at a time, each code sent once, blocked users *)
(* kept out, and registration as an implementation of Admission.           *)
(***************************************************************************)
EXTENDS PortalInvariant

-----------------------------------------------------------------------------
(* The backend                                                             *)

\* Another call in the place of c, as the tables of d allow it.
Like(d, c, e) ==
    /\ e \in Calls /\ e.token \in Tokens(d)
    /\ e.tab = c.tab /\ e.fn = c.fn /\ e.live = c.live /\ e.who = c.who /\ e.what = c.what
    /\ e.set = c.set /\ e.pwd = c.pwd

\* Tables with more accounts and sessions, in which nobody has used an invite meanwhile.
Gentle(d) ==
    /\ d \in Tables /\ Len(db.session) <= Len(d.session)
    /\ \A u \in Users : db.user[u].here => d.user[u].here
    /\ \A i \in Invites : /\ d.invite[i].by = db.invite[i].by
                          /\ d.invite[i].status \in {"unissued", "ACTIVE"}
                                => db.invite[i].status \in {"unissued", "ACTIVE"}

\* What a step of a handler makes of a call.
Result(c, d, e) ==
    /\ d \in Tables /\ Len(db.session) <= Len(d.session)
    /\ CallOK(d, e) /\ Like(d, c, e) /\ e.at \notin {"sent", "timer"}
    /\ \/ Gentle(d) /\ e.at \notin {"created", "consumed"}
       \/ Gentle(d) /\ e.at = "created" /\ ~db.user[c.who].here /\ d.user[c.who].here
       \/ /\ c.at = "created" /\ e.at = "consumed" /\ db.invite[c.what].status = "ACTIVE"
          /\ d.invite = [db.invite EXCEPT ![c.what] = [status |-> "USED", by |-> c.who]]
          /\ d.user = db.user

\* What the middleware and the layouts make of a request of a blocked user.
Stopped(c, e) ==
    c.token # 0 /\ c.at = "sent" /\ db.user[Owner(db, c.token)].blocked =>
        CASE c.fn = "page" -> e.to \in {"login", "register"} \/ ~c.flag
          [] c.fn \in PublicFns -> TRUE
          [] OTHER -> ~e.reply.ok /\ e.at = "back"

LEMMA TokensGrow ==
    ASSUME NEW d \in Tables, Len(db.session) <= Len(d.session), db \in Tables
    PROVE  Tokens(db) \subseteq Tokens(d)
<1>1. Len(db.session) \in Nat /\ Len(d.session) \in Nat
    BY LenProperties DEF Tables
<1> QED BY <1>1 DEF Tokens

LEMMA ResultKeepsTypes ==
    ASSUME IndInv, NEW k \in DOMAIN calls, calls[k].at \notin Waiting, NEW e, Result(calls[k], db', e),
           calls' = [calls EXCEPT ![k] = e], UNCHANGED <<jar, tab, clicks, troubles>>
    PROVE  TypesInv'
<1> DEFINE c == calls[k]
<1>1. /\ db \in Tables /\ db' \in Tables /\ Tokens(db) \subseteq Tokens(db') /\ calls \in Seq(Calls) /\ e \in Calls
    BY TokensGrow DEF Result, IndInv, TypesInv, CallOK
<1>2. calls' \in Seq(Calls) /\ DOMAIN calls' = DOMAIN calls /\ calls'[k] = e /\ \A j \in DOMAIN calls \ {k} : calls'[j] = calls[j]
    BY <1>1, OneChanged
<1>3. ASSUME NEW j \in DOMAIN calls'
      PROVE  CallOK(db', calls'[j]) /\ Fits(tab'[calls'[j].tab], calls'[j])
    <2>1. CASE j # k
        BY <1>1, <1>2, <2>1 DEF IndInv, TypesInv, CallOK
    <2>2. CASE j = k
        <3>1. Fits(tab[c.tab], c) /\ CallOK(db', e) /\ Like(db', c, e) /\ e.at # "timer" /\ c.at # "timer"
            BY DEF IndInv, TypesInv, Result, Waiting
        <3>2. Fits(tab[e.tab], e)
            BY <3>1 DEF Fits, Like
        <3> QED BY <1>2, <2>2, <3>1, <3>2
    <2> QED BY <2>1, <2>2
<1> QED BY <1>1, <1>2, <1>3 DEF IndInv, TypesInv

LEMMA ResultKeepsOtp ==
    ASSUME IndInv, NEW k \in DOMAIN calls, calls[k].at \notin Waiting, NEW e \in Calls,
           e.tab = calls[k].tab, e.fn = calls[k].fn, e.live = calls[k].live, e.at # "timer",
           calls' = [calls EXCEPT ![k] = e], tab' = tab
    PROVE  OtpInv'
<1> DEFINE c == calls[k]
<1>1. c \in Calls /\ c.at # "timer"
    BY AnsweredCall DEF Waiting
<1>2. \A t \in Tabs : (e \in Pending(t) <=> c \in Pending(t)) /\ (e \in Checks(t) <=> c \in Checks(t))
    BY <1>1 DEF Pending, Checks
<1>3. calls \in Seq(Calls)
    BY DEF IndInv, TypesInv
<1>4. DOMAIN calls' = DOMAIN calls /\ calls'[k] = e /\ \A j \in DOMAIN calls \ {k} : calls'[j] = calls[j]
    BY <1>3, OneChanged
<1>5. \A t \in Tabs, j \in DOMAIN calls : /\ calls'[j] \in Pending(t) <=> calls[j] \in Pending(t)
                                          /\ calls'[j] \in Checks(t) <=> calls[j] \in Checks(t)
    BY <1>2, <1>4
<1> QED BY <1>4, <1>5 DEF IndInv, OtpInv, Once, Pending, Checks

\* While nobody uses an invite, each of those used stays with its account.
LEMMA GentleInvites ==
    ASSUME OneInviteEach(db), NEW d, Gentle(d), db \in Tables, Nobody \notin Users
    PROVE  OneInviteEach(d)
<1>1. ASSUME NEW i \in Invites, d.invite[i].by # Nobody
      PROVE  /\ d.invite[i].status \notin {"unissued", "ACTIVE"}
             /\ d.invite[i].by # Admin /\ d.user[d.invite[i].by].here
    <2>1. db.invite[i].by = d.invite[i].by /\ db.invite[i].by \in Users
        BY <1>1 DEF Gentle, Tables, InviteRow
    <2>2. /\ db.invite[i].status \notin {"unissued", "ACTIVE"}
          /\ db.invite[i].by # Admin /\ db.user[db.invite[i].by].here
        BY <1>1, <2>1 DEF OneInviteEach
    <2> QED BY <2>1, <2>2 DEF Gentle
<1>2. \A i, j \in Invites : d.invite[i].by = d.invite[j].by /\ d.invite[i].by # Nobody => i = j
    BY DEF Gentle, OneInviteEach
<1> QED BY <1>1, <1>2 DEF OneInviteEach

LEMMA ResultKeepsAdmission ==
    ASSUME IndInv, NEW k \in DOMAIN calls, calls[k].at \notin Waiting, NEW e, Result(calls[k], db', e),
           calls' = [calls EXCEPT ![k] = e]
    PROVE  AdmissionInv'
<1> DEFINE c == calls[k]
<1>1. /\ db \in Tables /\ db' \in Tables /\ calls \in Seq(Calls) /\ e \in Calls /\ e.who = c.who /\ c \in Calls
      /\ Nobody \notin Users
    BY PeopleAreNamed DEF Result, IndInv, TypesInv, CallOK, Like
<1>2. DOMAIN calls' = DOMAIN calls /\ calls'[k] = e /\ \A j \in DOMAIN calls \ {k} : calls'[j] = calls[j]
    BY <1>1, OneChanged
<1>3. \A j \in DOMAIN calls : calls[j] \in Calls /\ (calls[j].at \in {"created", "consumed"} => calls[j].who \in Users)
    BY DEF IndInv, TypesInv, CallOK, Stage, Arguments
<1>a. e.at \in {"created", "consumed"} => e.who \in Users /\ e.who # Admin
    BY DEF Result, CallOK, Stage, Arguments
<1>4. CASE Gentle(db') /\ e.at \notin {"created", "consumed"}
    <2>1. OneInviteEach(db')
        BY <1>1, <1>4, GentleInvites DEF IndInv, AdmissionInv
    <2>2. ASSUME NEW j \in DOMAIN calls'
          PROVE  /\ calls'[j].at = "created"  => db'.user[calls'[j].who].here /\ \A i \in Invites : db'.invite[i].by # calls'[j].who
                 /\ calls'[j].at = "consumed" => \E i \in Invites : db'.invite[i].by = calls'[j].who
        BY <1>2, <1>3, <1>4 DEF IndInv, AdmissionInv, Gentle
    <2>3. \A u \in Users : Once(calls', Creating(u))
        BY <1>2, <1>4 DEF IndInv, AdmissionInv, Once, Creating
    <2> QED BY <2>1, <2>2, <2>3 DEF AdmissionInv
<1>5. CASE Gentle(db') /\ e.at = "created" /\ ~db.user[c.who].here /\ db'.user[c.who].here
    <2>1. OneInviteEach(db')
        BY <1>1, <1>5, GentleInvites DEF IndInv, AdmissionInv
    <2>2. \A i \in Invites : db'.invite[i].by # c.who
        BY <1>1, <1>5, <1>a DEF IndInv, AdmissionInv, OneInviteEach, Gentle
    <2>3. ASSUME NEW j \in DOMAIN calls'
          PROVE  /\ calls'[j].at = "created"  => db'.user[calls'[j].who].here /\ \A i \in Invites : db'.invite[i].by # calls'[j].who
                 /\ calls'[j].at = "consumed" => \E i \in Invites : db'.invite[i].by = calls'[j].who
        BY <1>1, <1>2, <1>3, <1>5, <2>2 DEF IndInv, AdmissionInv, Gentle
    <2>4. \A j \in DOMAIN calls : calls[j] \notin Creating(c.who)
        BY <1>5 DEF IndInv, AdmissionInv, Creating
    <2>5. \A u \in Users : Once(calls', Creating(u))
        BY <1>1, <1>2, <2>4 DEF IndInv, AdmissionInv, Once, Creating
    <2> QED BY <2>1, <2>3, <2>5 DEF AdmissionInv
<1>6. CASE /\ c.at = "created" /\ e.at = "consumed" /\ db.invite[c.what].status = "ACTIVE"
           /\ db'.invite = [db.invite EXCEPT ![c.what] = [status |-> "USED", by |-> c.who]]
           /\ db'.user = db.user
    <2>1. /\ c.what \in Invites /\ c.who \in Users /\ c.who # Admin
        BY <1>1, <1>6, <1>a DEF IndInv, TypesInv, CallOK, Stage, Arguments
    <2>2. /\ db.invite[c.what].by = Nobody /\ db.user[c.who].here /\ \A i \in Invites : db.invite[i].by # c.who
        BY <1>6, <2>1 DEF IndInv, AdmissionInv, OneInviteEach
    <2>3. /\ db'.invite[c.what].by = c.who /\ db'.invite[c.what].status = "USED"
          /\ \A i \in Invites \ {c.what} : db'.invite[i] = db.invite[i]
        BY <1>1, <1>6, <2>1 DEF Tables
    <2>4. OneInviteEach(db')
        BY <1>1, <1>6, <2>1, <2>2, <2>3 DEF IndInv, AdmissionInv, OneInviteEach
    <2>5. \A j \in DOMAIN calls \ {k} : calls[j].at = "created" => calls[j].who # c.who
        BY <1>1, <1>3, <1>6, <2>1 DEF IndInv, AdmissionInv, Once, Creating
    <2>6. ASSUME NEW j \in DOMAIN calls'
          PROVE  /\ calls'[j].at = "created"  => db'.user[calls'[j].who].here /\ \A i \in Invites : db'.invite[i].by # calls'[j].who
                 /\ calls'[j].at = "consumed" => \E i \in Invites : db'.invite[i].by = calls'[j].who
        <3>1. CASE j = k
            BY <1>1, <1>2, <1>6, <2>1, <2>3, <3>1
        <3>2. CASE j # k
            <4>1. calls'[j] = calls[j] /\ j \in DOMAIN calls
                BY <1>2, <3>2
            <4>2. CASE calls[j].at = "created"
                BY <1>6, <2>3, <2>5, <3>2, <4>1, <4>2 DEF IndInv, AdmissionInv
            <4>3. CASE calls[j].at = "consumed"
                BY <1>1, <1>3, <2>2, <2>3, <4>1, <4>3 DEF IndInv, AdmissionInv
            <4> QED BY <4>1, <4>2, <4>3
        <3> QED BY <3>1, <3>2
    <2>7. \A u \in Users : Once(calls', Creating(u))
        BY <1>2, <1>6 DEF IndInv, AdmissionInv, Once, Creating
    <2> QED BY <2>4, <2>6, <2>7 DEF AdmissionInv
<1> QED BY <1>4, <1>5, <1>6 DEF Result

LEMMA ResultIsGood ==
    ASSUME IndInv, NEW k \in DOMAIN calls, calls[k].at \notin Waiting, NEW e, Result(calls[k], db', e),
           Stopped(calls[k], e), calls' = [calls EXCEPT ![k] = e], UNCHANGED <<jar, tab, clicks, troubles>>
    PROVE  Good
<1>1. TypesInv' /\ AdmissionInv'
    BY ResultKeepsTypes, ResultKeepsAdmission
<1>2. OtpInv'
    BY ResultKeepsOtp DEF Result, Like
<1>3. Unsent
    BY DEF Unsent
<1>4. Barred
    BY DEF Barred, Stopped
<1> QED BY <1>1, <1>2, <1>3, <1>4 DEF Good, IndInv

-----------------------------------------------------------------------------
(* The handlers                                                            *)

\* The outcomes of one step of call c.
Fine(c, os) == \A o \in os : Result(c, o.db, o.call)

\* A request that a handler has before it.
Asked(c) == CallOK(db, c) /\ c \in Calls /\ c.at \notin Waiting /\ IndInv

LEMMA AskedTables ==
    ASSUME NEW c, Asked(c)
    PROVE  /\ db \in Tables /\ Gentle(db) /\ Like(db, c, c) /\ Len(db.session) \in Nat
           /\ db.session \in Seq(Session) /\ DOMAIN db.session = 1..Len(db.session)
<1>1. db \in Tables /\ c.token \in Tokens(db)
    BY DEF Asked, IndInv, TypesInv, CallOK
<1>2. db.session \in Seq(Session)
    BY <1>1 DEF Tables
<1>3. Len(db.session) \in Nat /\ DOMAIN db.session = 1..Len(db.session)
    BY <1>2, SeqFacts
<1> QED BY <1>1, <1>2, <1>3 DEF Gentle, Like, Asked

\* An answer, from c or from one like it.
LEMMA AnswersAreFine ==
    ASSUME NEW c, Asked(c), NEW d, Gentle(d), NEW e, Like(d, c, e), NEW r \in Replies,
           \A b : b = [e EXCEPT !.at = "back", !.reply = r] => Answered(b)
    PROVE  Fine(c, Answers(d, e, r))
<1> DEFINE b == [e EXCEPT !.at = "back", !.reply = r]
<1>1. e \in Calls /\ Arguments(c) /\ e.token \in Tokens(d)
    BY DEF Like, Asked, CallOK
<1>2. /\ b \in Calls /\ b.at = "back" /\ b.reply = r /\ b.token = e.token /\ b.tab = e.tab /\ b.fn = e.fn
      /\ b.live = e.live /\ b.who = e.who /\ b.what = e.what /\ b.set = e.set /\ b.pwd = e.pwd
    BY <1>1 DEF Calls, Places
<1>3. Answered(b)
    OBVIOUS
<1> HIDE DEF b
<1>4. Like(d, c, b) /\ Arguments(b) /\ Stage(b)
    BY <1>1, <1>2 DEF Like, Arguments, Stage
<1>5. Result(c, d, b)
    BY <1>1, <1>2, <1>3, <1>4 DEF Result, CallOK, Gentle
<1>6. Answers(d, e, r) = {[db |-> d, call |-> b]}
    BY DEF Answers, b
<1> QED BY <1>5, <1>6 DEF Fine

\* The answers that carry no rows.
LEMMA PlainReplies ==
    /\ Ok({}) \in Replies /\ Ok({}).rows = {}
    /\ \A why \in Reasons : Err(why) \in Replies /\ Err(why).rows = {} /\ ~Err(why).ok
    /\ \A u \in Users : Signed(db, u) \in Replies /\ Signed(db, u).rows = {}
    /\ \A d, u : Signed(d, u) \in Replies /\ Signed(d, u).rows = {}
    /\ \A n \in Secrets : [Ok({}) EXCEPT !.secret = n] \in Replies /\ [Ok({}) EXCEPT !.secret = n].rows = {}
    /\ \A rows \in Lines : Ok(rows) \in Replies /\ Ok(rows).rows = rows
BY RepliesAre DEF Ok, Err, Signed, Replies, Lines, Reasons

LEMMA PlainAnswers ==
    ASSUME NEW c, Asked(c), NEW d, Gentle(d), NEW e, Like(d, c, e), NEW r \in Replies, r.rows = {}
    PROVE  Fine(c, Answers(d, e, r))
<1>1. \A b : b = [e EXCEPT !.at = "back", !.reply = r] => Answered(b)
    <2> TAKE b
    <2> HAVE b = [e EXCEPT !.at = "back", !.reply = r]
    <2>1. b.reply = r
        BY DEF Like, Calls
    <2> QED BY <2>1 DEF Answered
<1> QED BY <1>1, AnswersAreFine

LEMMA RefusalsAreFine ==
    ASSUME NEW c, Asked(c), NEW why \in Reasons
    PROVE  Fine(c, Refuses(db, c, why))
BY AskedTables, PlainReplies, PlainAnswers DEF Refuses

\* The handler goes on.
LEMMA GoesIsFine ==
    ASSUME NEW c, Asked(c), NEW d, d \in Tables, Len(db.session) <= Len(d.session), NEW at \in Places \ {"sent", "timer"},
           \A b \in Calls : b.at = at /\ b.fn = c.fn /\ b.who = c.who /\ b.token = c.token => Stage(b),
           \/ Gentle(d) /\ at \notin {"created", "consumed"}
           \/ Gentle(d) /\ at = "created" /\ ~db.user[c.who].here /\ d.user[c.who].here
           \/ /\ c.at = "created" /\ at = "consumed" /\ db.invite[c.what].status = "ACTIVE"
              /\ d.invite = [db.invite EXCEPT ![c.what] = [status |-> "USED", by |-> c.who]]
              /\ d.user = db.user
    PROVE  Fine(c, Goes(d, c, at))
<1> DEFINE b == [c EXCEPT !.at = at]
<1>1. c \in Calls /\ CallOK(db, c) /\ c.token \in Tokens(d)
    BY AskedTables, TokensGrow DEF Asked, CallOK
<1>2. /\ b \in Calls /\ b.at = at /\ b.reply = c.reply /\ b.token = c.token /\ b.tab = c.tab /\ b.fn = c.fn
      /\ b.live = c.live /\ b.who = c.who /\ b.what = c.what /\ b.set = c.set /\ b.pwd = c.pwd
    BY <1>1 DEF Calls
<1> HIDE DEF b
<1>3. Like(d, c, b) /\ Arguments(b) /\ Answered(b) /\ Stage(b)
    BY <1>1, <1>2 DEF Like, Arguments, Answered, CallOK
<1>4. Result(c, d, b)
    BY <1>1, <1>2, <1>3 DEF Result, CallOK
<1>5. Goes(d, c, at) = {[db |-> d, call |-> b]}
    BY DEF Goes, b
<1> QED BY <1>4, <1>5 DEF Fine

\* A new session, with the cookie of it.
LEMMA IssueIsFine ==
    ASSUME NEW c, Asked(c), NEW d, Gentle(d), d.session = db.session, c.who \in Users
    PROVE  Fine(c, Issue(d, c, c.who))
<1> DEFINE s == [user |-> c.who, revoked |-> FALSE]
           e == [d EXCEPT !.session = Append(@, s)]
           n == Len(db.session) + 1
           a == [c EXCEPT !.token = n]
           r == Signed(d, c.who)
<1>1. /\ db \in Tables /\ Len(db.session) \in Nat /\ db.session \in Seq(Session) /\ d \in Tables /\ c \in Calls
    BY AskedTables DEF Gentle, Asked
<1>2. Append(db.session, s) \in Seq(Session) /\ Len(Append(db.session, s)) = n
    BY <1>1, AppendProperties DEF Session
<1>3. e \in Tables /\ e.session = Append(db.session, s) /\ e.user = d.user /\ e.invite = d.invite
    BY <1>1, <1>2 DEF Tables
<1> HIDE DEF e
<1>4. Gentle(e) /\ n \in Tokens(e)
    BY <1>1, <1>2, <1>3 DEF Gentle, Tokens
<1>5. /\ a \in Calls /\ a.token = n /\ a.tab = c.tab /\ a.fn = c.fn
      /\ a.live = c.live /\ a.who = c.who /\ a.what = c.what /\ a.set = c.set /\ a.pwd = c.pwd
    BY <1>1 DEF Calls
<1>6. Like(e, c, a)
    BY <1>4, <1>5 DEF Like
<1>7. r \in Replies /\ r.rows = {}
    BY PlainReplies
<1>8. [a EXCEPT !.at = "back", !.reply = r] = [c EXCEPT !.at = "back", !.reply = r, !.token = n]
    BY <1>1 DEF Calls
<1>9. Issue(d, c, c.who) = Answers(e, a, r)
    BY <1>8 DEF Issue, Answers, e
<1> HIDE DEF a, r
<1> QED BY <1>4, <1>6, <1>7, <1>9, PlainAnswers

\* Tables in which one account changes that does not go.
LEMMA UserChanged ==
    ASSUME NEW c, Asked(c), NEW u \in Users, NEW row \in UserRow, db.user[u].here => row.here
    PROVE  LET d == [db EXCEPT !.user[u] = row]
           IN  Gentle(d) /\ d \in Tables /\ d.session = db.session /\ d.user[u] = row
<1> DEFINE d == [db EXCEPT !.user[u] = row]
<1>1. db \in Tables /\ Len(db.session) \in Nat
    BY AskedTables
<1>2. d \in Tables /\ d.session = db.session /\ d.invite = db.invite /\ d.user = [db.user EXCEPT ![u] = row]
    BY <1>1 DEF Tables
<1>3. d.user[u] = row /\ \A v \in Users \ {u} : d.user[v] = db.user[v]
    BY <1>1, <1>2 DEF Tables
<1> HIDE DEF d
<1>4. Gentle(d)
    BY <1>1, <1>2, <1>3 DEF Gentle
<1> QED BY <1>2, <1>3, <1>4 DEF d

\* Who owns the session of a call.
LEMMA OwnerIs ==
    ASSUME NEW c, Asked(c), c.token # 0
    PROVE  Owner(db, c.token) \in Users /\ c.token \in DOMAIN db.session
<1>1. c.token \in DOMAIN db.session
    BY AskedTables DEF Asked, CallOK, Tokens
<1>2. db.session[c.token] \in Session
    BY <1>1, AskedTables, SeqFacts
<1> QED BY <1>1, <1>2 DEF Session, Owner

LEMMA JoinIsFine ==
    ASSUME NEW c, Asked(c), c.fn = "register"
    PROVE  /\ Fine(c, RegisterRead(db, c))
           /\ c.at = "checked" => Fine(c, CreateUser(db, c))
           /\ c.at = "created" => Fine(c, Consume(db, c))
           /\ c.at = "consumed" => Fine(c, CreateWithOwner(db, c))
<1>1. /\ c.who \in Users /\ c.what \in Invites /\ db \in Tables /\ Gentle(db) /\ c \in Calls
      /\ Len(db.session) <= Len(db.session)
    BY AskedTables DEF Asked, CallOK, Arguments
<1>2. Fine(c, RegisterRead(db, c))
    <2>1. CASE c.who # Admin
        <3>1. \A b \in Calls : b.at = "checked" /\ b.fn = c.fn /\ b.who = c.who /\ b.token = c.token => Stage(b)
            BY <2>1 DEF Stage
        <3>2. Fine(c, Goes(db, c, "checked"))
            BY <1>1, <3>1, GoesIsFine DEF Places
        <3>3. Fine(c, Refuses(db, c, "refused"))
            BY RefusalsAreFine DEF Reasons
        <3> QED BY <3>2, <3>3 DEF RegisterRead
    <2>2. CASE c.who = Admin
        <3>1. Fine(c, Refuses(db, c, "refused"))
            BY RefusalsAreFine DEF Reasons
        <3> QED BY <2>2, <3>1 DEF RegisterRead
    <2> QED BY <2>1, <2>2
<1>3. ASSUME c.at = "checked"
      PROVE  Fine(c, CreateUser(db, c))
    <2> DEFINE row == [db.user[c.who] EXCEPT !.here = TRUE]
               d == [db EXCEPT !.user[c.who] = row]
    <2>1. row \in UserRow /\ row.here
        BY <1>1 DEF Tables, UserRow
    <2>2. [db EXCEPT !.user[c.who].here = TRUE] = d
        OBVIOUS
    <2>3. Gentle(d) /\ d \in Tables /\ d.user[c.who] = row
        BY <1>1, <2>1, UserChanged
    <2>4. Fine(c, Refuses(db, c, "internal"))
        BY RefusalsAreFine DEF Reasons
    <2>5. \A b \in Calls : b.at = "created" /\ b.fn = c.fn /\ b.who = c.who /\ b.token = c.token => Stage(b)
        BY <1>3 DEF Stage, Asked, CallOK
    <2> HIDE DEF d
    <2>6. ASSUME ~db.user[c.who].here
          PROVE  Fine(c, Goes(d, c, "created"))
        BY <2>1, <2>3, <2>5, <2>6, GoesIsFine DEF Places, Gentle
    <2> QED BY <2>2, <2>4, <2>6 DEF CreateUser
<1>4. ASSUME c.at = "created"
      PROVE  Fine(c, Consume(db, c))
    <2> DEFINE d == Spent(db, c.what, c.who)
    <2>1. /\ d.invite = [db.invite EXCEPT ![c.what] = [status |-> "USED", by |-> c.who]]
          /\ d.user = db.user /\ d.session = db.session /\ d \in Tables
        BY <1>1 DEF Spent, Tables, InviteRow
    <2>2. Fine(c, Refuses(db, c, "internal"))
        BY RefusalsAreFine DEF Reasons
    <2>3. \A b \in Calls : b.at = "consumed" /\ b.fn = c.fn /\ b.who = c.who /\ b.token = c.token => Stage(b)
        BY <1>4 DEF Stage, Asked, CallOK
    <2>4. Len(db.session) <= Len(d.session)
        BY <2>1, AskedTables
    <2> HIDE DEF d
    <2>5. ASSUME db.invite[c.what].status = "ACTIVE"
          PROVE  Fine(c, Goes(d, c, "consumed"))
        BY <1>4, <2>1, <2>3, <2>4, <2>5, GoesIsFine DEF Places
    <2> QED BY <2>2, <2>5 DEF Consume, d
<1>5. ASSUME c.at = "consumed"
      PROVE  Fine(c, CreateWithOwner(db, c))
    <2> DEFINE row == [db.user[c.who] EXCEPT !.home = TRUE]
               d == [db EXCEPT !.user[c.who] = row]
    <2>1. row \in UserRow /\ row.here = db.user[c.who].here
        BY <1>1 DEF Tables, UserRow
    <2>2. [db EXCEPT !.user[c.who].home = TRUE] = d
        OBVIOUS
    <2>3. Gentle(d) /\ d.session = db.session
        <3>1. db.user[c.who].here => row.here
            BY <2>1
        <3> HIDE DEF row
        <3> QED BY <1>1, <2>1, <3>1, UserChanged
    <2> HIDE DEF d
    <2>4. Fine(c, Issue(d, c, c.who))
        BY <1>1, <2>3, IssueIsFine
    <2> QED BY <2>2, <2>4 DEF CreateWithOwner
<1> QED BY <1>2, <1>3, <1>4, <1>5

LEMMA EnterIsFine ==
    ASSUME NEW c, Asked(c), c.fn \in {"login", "otp"}
    PROVE  /\ Fine(c, LoginRead(db, c))
           /\ Fine(c, Issue(db, c, c.who))
<1>1. c.who \in Users /\ Gentle(db) /\ db \in Tables
    BY AskedTables DEF Asked, CallOK, Arguments
<1>2. Fine(c, Refuses(db, c, "invalid")) /\ Fine(c, Refuses(db, c, "totp_required"))
    BY RefusalsAreFine DEF Reasons
<1>3. Fine(c, Goes(db, c, "passed"))
    <2>1. \A b \in Calls : b.at = "passed" /\ b.fn = c.fn /\ b.who = c.who /\ b.token = c.token => Stage(b)
        BY DEF Stage
    <2>2. Len(db.session) <= Len(db.session)
        BY AskedTables
    <2> QED BY <1>1, <2>1, <2>2, GoesIsFine DEF Places
<1>4. Fine(c, LoginRead(db, c))
    BY <1>2, <1>3 DEF LoginRead
<1> QED BY <1>1, <1>4, IssueIsFine

LEMMA LeaveIsFine ==
    ASSUME NEW c, Asked(c)
    PROVE  Fine(c, Logout(db, c))
<1> DEFINE e == [c EXCEPT !.token = 0]
           d == IF c.token = 0 THEN db ELSE [db EXCEPT !.session[c.token].revoked = TRUE]
<1>1. db \in Tables /\ Gentle(db) /\ db.session \in Seq(Session) /\ Len(db.session) \in Nat /\ c \in Calls
    BY AskedTables DEF Asked
<1>2. Gentle(d)
    <2>1. CASE c.token = 0
        BY <1>1, <2>1
    <2>2. CASE c.token # 0
        <3> DEFINE row == [db.session[c.token] EXCEPT !.revoked = TRUE]
                   S == [db.session EXCEPT ![c.token] = row]
        <3>1. c.token \in DOMAIN db.session /\ db.session[c.token] \in Session
            BY <1>1, <2>2, OwnerIs, SeqFacts
        <3>2. row \in Session /\ c.token \in 1..Len(db.session)
            BY <3>1, AskedTables DEF Session
        <3>3. S \in Seq(Session) /\ Len(S) = Len(db.session)
            BY <1>1, <3>2, ExceptSeq
        <3>4. [db EXCEPT !.session[c.token].revoked = TRUE] = [db EXCEPT !.session = S]
            OBVIOUS
        <3> HIDE DEF S
        <3>5. Gentle([db EXCEPT !.session = S])
            BY <1>1, <3>3 DEF Gentle, Tables
        <3> QED BY <2>2, <3>4, <3>5
    <2> QED BY <2>1, <2>2
<1>3. e \in Calls /\ Like(d, c, e)
    <2>1. Len(d.session) \in Nat
        BY <1>2, LenProperties DEF Gentle, Tables
    <2>2. 0 \in Tokens(d)
        BY <2>1 DEF Tokens
    <2> QED BY <1>1, <2>2 DEF Like, Calls
<1> HIDE DEF d, e
<1>4. Fine(c, Answers(d, e, Ok({})))
    BY <1>2, <1>3, PlainReplies, PlainAnswers
<1> QED BY <1>4 DEF Logout, d, e

LEMMA SecondFactorIsFine ==
    ASSUME NEW c, Asked(c), c.token # 0
    PROVE  /\ c.fn = "setupTotp" => Fine(c, SetupRead(db, c))
           /\ c.fn = "confirmTotp" => Fine(c, ConfirmRead(db, c))
           /\ Fine(c, SetTotpSecret(db, c))
           /\ Fine(c, EnableTotp(db, c))
           /\ Fine(c, Me(db, c))
<1> DEFINE u == Owner(db, c.token)
<1>1. u \in Users /\ db \in Tables /\ Gentle(db) /\ Like(db, c, c) /\ Len(db.session) <= Len(db.session) /\ c \in Calls
    BY AskedTables, OwnerIs DEF Asked
<1> HIDE DEF u
<1>2. /\ Fine(c, Refuses(db, c, "invalid")) /\ Fine(c, Refuses(db, c, "internal"))
      /\ Fine(c, Refuses(db, c, "totp_already_enabled"))
    BY RefusalsAreFine DEF Reasons
<1>3. ASSUME c.fn = "setupTotp"
      PROVE  Fine(c, SetupRead(db, c))
    <2>1. \A b \in Calls : b.at = "read" /\ b.fn = c.fn /\ b.who = c.who /\ b.token = c.token => Stage(b)
        BY <1>3 DEF Stage
    <2>2. Fine(c, Goes(db, c, "read"))
        BY <1>1, <2>1, GoesIsFine DEF Places
    <2> QED BY <1>2, <2>2 DEF SetupRead
<1>4. ASSUME c.fn = "confirmTotp"
      PROVE  Fine(c, ConfirmRead(db, c))
    <2>1. \A b \in Calls : b.at = "verified" /\ b.fn = c.fn /\ b.who = c.who /\ b.token = c.token => Stage(b)
        BY <1>4 DEF Stage
    <2>2. Fine(c, Goes(db, c, "verified"))
        BY <1>1, <2>1, GoesIsFine DEF Places
    <2> QED BY <1>2, <2>2 DEF ConfirmRead
<1>5. Fine(c, SetTotpSecret(db, c))
    <2>1. CASE db.secrets = Len(CodeOf)
        BY <1>2, <2>1 DEF SetTotpSecret
    <2>2. CASE db.secrets # Len(CodeOf)
        <3> DEFINE n == db.secrets + 1
                   row == [db.user[u] EXCEPT !.secret = n, !.totp = FALSE]
                   d == [db EXCEPT !.user[u] = row, !.secrets = n]
                   r == [Ok({}) EXCEPT !.secret = n]
        <3>1. n \in Secrets
            <4>1. Len(CodeOf) \in Nat /\ db.secrets \in Secrets
                BY <1>1, CodesHaveDigits, LenProperties DEF Tables
            <4> QED BY <2>2, <4>1 DEF Secrets
        <3> HIDE DEF n
        <3>2. row \in UserRow /\ row.here = db.user[u].here
            BY <1>1, <3>1 DEF Tables, UserRow
        <3>3. d \in Tables /\ d.session = db.session /\ d.invite = db.invite /\ d.user = [db.user EXCEPT ![u] = row]
            BY <1>1, <3>1, <3>2 DEF Tables
        <3>4. d.user[u] = row /\ \A v \in Users \ {u} : d.user[v] = db.user[v]
            BY <1>1, <3>3 DEF Tables
        <3>5. SetTotpSecret(db, c) = Answers(d, c, r)
            BY <2>2 DEF SetTotpSecret, u, n
        <3> HIDE DEF d, row, r
        <3>6. Gentle(d)
            BY <1>1, <3>2, <3>3, <3>4 DEF Gentle
        <3>7. Like(d, c, c)
            BY <1>1, <3>3 DEF Like, Tokens
        <3>8. r \in Replies /\ r.rows = {}
            BY <3>1, PlainReplies DEF r
        <3> QED BY <3>5, <3>6, <3>7, <3>8, PlainAnswers
    <2> QED BY <2>1, <2>2
<1>6. Fine(c, EnableTotp(db, c))
    <2> DEFINE row == [db.user[u] EXCEPT !.totp = TRUE]
               d == [db EXCEPT !.user[u] = row]
    <2>1. row \in UserRow /\ row.here = db.user[u].here
        BY <1>1 DEF Tables, UserRow
    <2>2. EnableTotp(db, c) = Answers(d, c, Ok({}))
        BY DEF EnableTotp, u
    <2>3. Gentle(d) /\ d.session = db.session
        <3>1. db.user[u].here => row.here
            BY <2>1
        <3> HIDE DEF row
        <3> QED BY <1>1, <2>1, <3>1, UserChanged
    <2> HIDE DEF d
    <2>4. Like(d, c, c)
        BY <1>1, <2>3 DEF Like, Tokens
    <2> QED BY <2>2, <2>3, <2>4, PlainReplies, PlainAnswers
<1>7. Fine(c, Me(db, c))
    <2>1. Signed(db, u) \in Replies /\ Signed(db, u).rows = {}
        BY <1>1, PlainReplies
    <2>2. Fine(c, Answers(db, c, Signed(db, u)))
        BY <1>1, <2>1, PlainAnswers
    <2> QED BY <2>2 DEF Me, u
<1> QED BY <1>3, <1>4, <1>5, <1>6, <1>7

LEMMA ListsAreFine ==
    ASSUME NEW c, Asked(c)
    PROVE  /\ c.fn = "fetchAdminUsers" => Fine(c, ListUsers(db, c))
           /\ c.fn = "fetchAdminInvites" => Fine(c, ListInvites(db, c))
           /\ c.fn = "fetchAuthDomains" => Fine(c, Answers(db, c, Ok(db.domains)))
<1>1. db \in Tables /\ Gentle(db) /\ Like(db, c, c) /\ c \in Calls /\ Arguments(c)
    BY AskedTables DEF Asked, CallOK
<1>2. ASSUME NEW rows \in Lines,
             \/ c.fn = "fetchAdminUsers" /\ rows \subseteq UserLine
             \/ c.fn = "fetchAdminInvites" /\ rows \subseteq InviteLine
             \/ c.fn = "fetchAuthDomains" /\ rows \subseteq Domains
      PROVE  Fine(c, Answers(db, c, Ok(rows)))
    <2> DEFINE r == Ok(rows)
    <2>1. r \in Replies /\ r.rows = rows
        BY PlainReplies
    <2> HIDE DEF r
    <2>2. \A b : b = [c EXCEPT !.at = "back", !.reply = r] => Answered(b)
        <3> TAKE b
        <3> HAVE b = [c EXCEPT !.at = "back", !.reply = r]
        <3>1. b.reply = r /\ b.fn = c.fn
            BY <1>1 DEF Calls
        <3> QED BY <1>2, <2>1, <3>1 DEF Answered
    <2>3. Fine(c, Answers(db, c, r))
        BY <1>1, <2>1, <2>2, AnswersAreFine
    <2> QED BY <2>3 DEF r
<1>3. ASSUME c.fn = "fetchAdminUsers"
      PROVE  Fine(c, ListUsers(db, c))
    <2> DEFINE rows == {[who |-> u, blocked |-> db.user[u].blocked, studio |-> db.user[u].studio] :
                        u \in {v \in c.set : db.user[v].here}}
    <2>1. rows \subseteq UserLine
        BY <1>1, <1>3 DEF Tables, UserRow, UserLine, Arguments
    <2>2. ListUsers(db, c) = Answers(db, c, Ok(rows))
        BY DEF ListUsers
    <2> HIDE DEF rows
    <2>3. rows \in Lines
        BY <2>1 DEF Lines
    <2> QED BY <1>2, <1>3, <2>1, <2>2, <2>3
<1>4. ASSUME c.fn = "fetchAdminInvites"
      PROVE  Fine(c, ListInvites(db, c))
    <2> DEFINE rows == {[id |-> i, status |-> db.invite[i].status] :
                        i \in {j \in Invites : /\ db.invite[j].status \notin {"unissued", "deleted"}
                                               /\ c.set # Users => db.invite[j].by \in c.set}}
    <2>1. rows \subseteq InviteLine
        BY <1>1 DEF Tables, InviteRow, InviteLine
    <2>2. ListInvites(db, c) = Answers(db, c, Ok(rows))
        BY DEF ListInvites
    <2> HIDE DEF rows
    <2>3. rows \in Lines
        BY <2>1 DEF Lines
    <2> QED BY <1>2, <1>4, <2>1, <2>2, <2>3
<1>5. ASSUME c.fn = "fetchAuthDomains"
      PROVE  Fine(c, Answers(db, c, Ok(db.domains)))
    <2>1. db.domains \subseteq Domains /\ db.domains \in Lines
        BY <1>1 DEF Tables, Lines
    <2> QED BY <1>2, <1>5, <2>1
<1> QED BY <1>3, <1>4, <1>5

LEMMA UserCommandsAreFine ==
    ASSUME NEW c, Asked(c), c.fn \in {"setAdminUserBlocked", "setAdminUserStudioAccess"}
    PROVE  /\ c.fn = "setAdminUserBlocked" => Fine(c, SetBlocked(db, c))
           /\ Fine(c, SetStudioAccess(db, c))
           /\ Fine(c, RevokeAllForUser(db, c))
<1>1. /\ db \in Tables /\ Gentle(db) /\ Like(db, c, c) /\ c \in Calls /\ c.who \in Users /\ c.flag \in BOOLEAN
      /\ db.session \in Seq(Session) /\ Len(db.session) \in Nat /\ DOMAIN db.session = 1..Len(db.session)
    BY AskedTables DEF Asked, CallOK, Arguments, Calls
<1>2. Fine(c, Refuses(db, c, "forbidden"))
    BY RefusalsAreFine DEF Reasons
<1>3. ASSUME NEW d, Gentle(d), d.session = db.session
      PROVE  Fine(c, Answers(d, c, Ok({})))
    <2>1. Like(d, c, c)
        BY <1>1, <1>3 DEF Like, Tokens
    <2> QED BY <1>3, <2>1, PlainReplies, PlainAnswers
<1>4. ASSUME c.fn = "setAdminUserBlocked"
      PROVE  Fine(c, SetBlocked(db, c))
    <2> DEFINE row == [db.user[c.who] EXCEPT !.blocked = c.flag]
               d == [db EXCEPT !.user[c.who] = row]
    <2>1. row \in UserRow /\ (db.user[c.who].here => row.here)
        BY <1>1 DEF Tables, UserRow
    <2>2. [db EXCEPT !.user[c.who].blocked = c.flag] = d
        OBVIOUS
    <2> HIDE DEF row
    <2>3. Gentle(d) /\ d \in Tables /\ d.session = db.session /\ Len(db.session) <= Len(d.session)
        BY <1>1, <2>1, UserChanged
    <2>4. \A b \in Calls : b.at = "blocked" /\ b.fn = c.fn /\ b.who = c.who /\ b.token = c.token => Stage(b)
        BY <1>4 DEF Stage
    <2> HIDE DEF d
    <2>5. Fine(c, Goes(d, c, "blocked"))
        BY <1>1, <2>3, <2>4, GoesIsFine DEF Places
    <2>6. Fine(c, Answers(d, c, Ok({})))
        BY <1>3, <2>3
    <2> QED BY <1>1, <1>2, <2>2, <2>5, <2>6 DEF SetBlocked
<1>5. Fine(c, SetStudioAccess(db, c))
    <2> DEFINE row == [db.user[c.who] EXCEPT !.studio = c.flag]
               d == [db EXCEPT !.user[c.who] = row]
    <2>1. row \in UserRow /\ (db.user[c.who].here => row.here)
        BY <1>1 DEF Tables, UserRow
    <2>2. [db EXCEPT !.user[c.who].studio = c.flag] = d
        OBVIOUS
    <2> HIDE DEF row
    <2>3. Gentle(d) /\ d.session = db.session
        BY <1>1, <2>1, UserChanged
    <2> HIDE DEF d
    <2>4. Fine(c, Answers(d, c, Ok({})))
        BY <1>3, <2>3
    <2> QED BY <1>2, <2>2, <2>4 DEF SetStudioAccess
<1>6. Fine(c, RevokeAllForUser(db, c))
    <2> DEFINE S == [s \in DOMAIN db.session |-> IF db.session[s].user = c.who
                         THEN [db.session[s] EXCEPT !.revoked = TRUE] ELSE db.session[s]]
               d == [db EXCEPT !.session = S]
    <2>1. RevokeAllForUser(db, c) = Answers(d, c, Ok({}))
        BY DEF RevokeAllForUser
    <2>2. S \in Seq(Session) /\ Len(S) = Len(db.session)
        <3>1. \A s \in DOMAIN db.session : db.session[s] \in Session
            BY <1>1, SeqFacts
        <3>2. S \in [1..Len(db.session) -> Session]
            BY <1>1, <3>1 DEF Session
        <3>3. S \in Seq(Session)
            BY <1>1, <3>2, SeqDef
        <3>4. DOMAIN S = 1..Len(db.session)
            BY <1>1
        <3> HIDE DEF S
        <3> QED BY <1>1, <3>3, <3>4, LenProperties
    <2> HIDE DEF S
    <2>3. d \in Tables /\ d.user = db.user /\ d.invite = db.invite /\ d.session = S
        BY <1>1, <2>2 DEF Tables
    <2> HIDE DEF d
    <2>4. Gentle(d) /\ Like(d, c, c)
        BY <1>1, <2>2, <2>3 DEF Gentle, Like, Tokens
    <2> QED BY <2>1, <2>4, PlainReplies, PlainAnswers
<1> QED BY <1>4, <1>5, <1>6

LEMMA InviteCommandsAreFine ==
    ASSUME NEW c, Asked(c)
    PROVE  /\ c.fn = "verifyInvite" => Fine(c, VerifyInvite(db, c))
           /\ c.fn = "issueAdminInvites" => Fine(c, IssueInvites(db, c))
           /\ c.fn = "revokeAdminInvite" => Fine(c, RevokeInvite(db, c))
           /\ c.fn = "deleteAdminInvites" => Fine(c, DeleteInvites(db, c))
           /\ c.fn = "saveAuthDomains" => Fine(c, SetAllowedDomains(db, c))
<1>1. /\ db \in Tables /\ Gentle(db) /\ Like(db, c, c) /\ c \in Calls /\ Arguments(c) /\ Len(db.session) \in Nat
    BY AskedTables DEF Asked, CallOK
<1>2. /\ Fine(c, Refuses(db, c, "internal")) /\ Fine(c, Refuses(db, c, "not_found"))
      /\ Fine(c, Refuses(db, c, "invalid_input")) /\ Fine(c, Refuses(db, c, "invite_invalid"))
    BY RefusalsAreFine DEF Reasons
<1>3. ASSUME NEW d \in Tables, d.session = db.session, d.user = db.user,
             \A i \in Invites : /\ d.invite[i].by = db.invite[i].by
                                /\ d.invite[i].status \in {"unissued", "ACTIVE"}
                                      => db.invite[i].status \in {"unissued", "ACTIVE"}
      PROVE  Gentle(d) /\ Like(d, c, c)
    BY <1>1, <1>3 DEF Gentle, Like, Tokens
<1>4. ASSUME c.fn = "verifyInvite"
      PROVE  Fine(c, VerifyInvite(db, c))
    <2>1. Fine(c, Answers(db, c, Ok({})))
        BY <1>1, PlainReplies, PlainAnswers
    <2> QED BY <1>2, <2>1 DEF VerifyInvite
<1>5. ASSUME c.fn = "issueAdminInvites"
      PROVE  Fine(c, IssueInvites(db, c))
    <2> DEFINE free == {i \in Invites : db.invite[i].status = "unissued"}
               i == CHOOSE j \in free : TRUE
               d == [db EXCEPT !.invite[i].status = "ACTIVE"]
               r == Ok({i})
    <2>1. CASE free = {}
        BY <1>2, <2>1 DEF IssueInvites
    <2>2. CASE free # {}
        <3>1. i \in Invites /\ db.invite[i].status = "unissued"
            BY <2>2
        <3>2. IssueInvites(db, c) = Answers(d, c, r)
            BY <2>2 DEF IssueInvites
        <3> HIDE DEF i
        <3>3. d \in Tables /\ d.session = db.session /\ d.user = db.user
              /\ d.invite = [db.invite EXCEPT ![i].status = "ACTIVE"]
            BY <1>1, <3>1 DEF Tables, InviteRow
        <3>4. d.invite[i].by = db.invite[i].by /\ \A j \in Invites \ {i} : d.invite[j] = db.invite[j]
            BY <1>1, <3>1, <3>3 DEF Tables, InviteRow
        <3> HIDE DEF d
        <3>5. Gentle(d) /\ Like(d, c, c)
            <4>1. \A j \in Invites : /\ d.invite[j].by = db.invite[j].by
                                     /\ d.invite[j].status \in {"unissued", "ACTIVE"}
                                           => db.invite[j].status \in {"unissued", "ACTIVE"}
                BY <3>1, <3>4
            <4> QED BY <1>3, <3>3, <4>1
        <3>6. r \in Replies /\ r.rows = {i} /\ {i} \subseteq Invites
            BY <3>1, PlainReplies DEF Lines
        <3> HIDE DEF r
        <3>7. \A b : b = [c EXCEPT !.at = "back", !.reply = r] => Answered(b)
            <4> TAKE b
            <4> HAVE b = [c EXCEPT !.at = "back", !.reply = r]
            <4>1. b.reply = r /\ b.fn = c.fn
                BY <1>1 DEF Calls
            <4> QED BY <1>5, <3>6, <4>1 DEF Answered
        <3>8. Fine(c, Answers(d, c, r))
            BY <3>5, <3>6, <3>7, AnswersAreFine
        <3> QED BY <3>2, <3>8
    <2> QED BY <2>1, <2>2
<1>6. ASSUME c.fn = "revokeAdminInvite"
      PROVE  Fine(c, RevokeInvite(db, c))
    <2> DEFINE d == [db EXCEPT !.invite[c.what].status = "REVOKED"]
    <2>1. c.what \in Invites
        BY <1>1, <1>6 DEF Arguments
    <2>2. d \in Tables /\ d.session = db.session /\ d.user = db.user
          /\ d.invite = [db.invite EXCEPT ![c.what].status = "REVOKED"]
        BY <1>1, <2>1, SMTT(30) DEF Tables, InviteRow
    <2>3. /\ d.invite[c.what].by = db.invite[c.what].by /\ d.invite[c.what].status = "REVOKED"
          /\ \A j \in Invites \ {c.what} : d.invite[j] = db.invite[j]
        BY <1>1, <2>1, <2>2 DEF Tables, InviteRow
    <2>4. RevokeInvite(db, c) = IF db.invite[c.what].status # "ACTIVE" THEN Refuses(db, c, "not_found")
                                ELSE Answers(d, c, Ok({}))
        BY DEF RevokeInvite
    <2> HIDE DEF d
    <2>5. Gentle(d) /\ Like(d, c, c)
        <3>1. \A j \in Invites : /\ d.invite[j].by = db.invite[j].by
                                 /\ d.invite[j].status \in {"unissued", "ACTIVE"}
                                       => db.invite[j].status \in {"unissued", "ACTIVE"}
            BY <2>1, <2>3
        <3> QED BY <1>3, <2>2, <3>1
    <2>6. Fine(c, Answers(d, c, Ok({})))
        BY <2>5, PlainReplies, PlainAnswers
    <2> QED BY <1>2, <2>4, <2>6
<1>7. ASSUME c.fn = "deleteAdminInvites"
      PROVE  Fine(c, DeleteInvites(db, c))
    <2> DEFINE I == [i \in Invites |-> IF i \in c.set THEN [db.invite[i] EXCEPT !.status = "deleted"] ELSE db.invite[i]]
               d == [db EXCEPT !.invite = I]
    <2>1. I \in [Invites -> InviteRow]
        BY <1>1 DEF Tables, InviteRow
    <2>2. \A j \in Invites : /\ I[j].by = db.invite[j].by
                             /\ I[j].status \in {"unissued", "ACTIVE"}
                                   => db.invite[j].status \in {"unissued", "ACTIVE"}
        BY <1>1 DEF Tables, InviteRow
    <2>3. DeleteInvites(db, c) = IF c.set = {} THEN Refuses(db, c, "invalid_input") ELSE Answers(d, c, Ok({}))
        BY DEF DeleteInvites
    <2> HIDE DEF I
    <2>4. d \in Tables /\ d.session = db.session /\ d.user = db.user /\ d.invite = I
        BY <1>1, <2>1 DEF Tables
    <2> HIDE DEF d
    <2>5. Gentle(d) /\ Like(d, c, c)
        BY <1>3, <2>2, <2>4
    <2>6. Fine(c, Answers(d, c, Ok({})))
        BY <2>5, PlainReplies, PlainAnswers
    <2> QED BY <1>2, <2>3, <2>6
<1>8. ASSUME c.fn = "saveAuthDomains"
      PROVE  Fine(c, SetAllowedDomains(db, c))
    <2> DEFINE d == [db EXCEPT !.domains = c.set]
               r == Ok(c.set)
    <2>1. c.set \subseteq Domains
        BY <1>1, <1>8 DEF Arguments
    <2>2. SetAllowedDomains(db, c) = IF c.set = {} THEN Refuses(db, c, "invalid_input") ELSE Answers(d, c, r)
        BY DEF SetAllowedDomains
    <2>3. d \in Tables /\ d.session = db.session /\ d.user = db.user /\ d.invite = db.invite
        BY <1>1, <2>1 DEF Tables
    <2> HIDE DEF d
    <2>4. Gentle(d) /\ Like(d, c, c)
        BY <1>3, <2>3
    <2>5. r \in Replies /\ r.rows = c.set
        BY <2>1, PlainReplies DEF Lines
    <2> HIDE DEF r
    <2>6. \A b : b = [c EXCEPT !.at = "back", !.reply = r] => Answered(b)
        <3> TAKE b
        <3> HAVE b = [c EXCEPT !.at = "back", !.reply = r]
        <3>1. b.reply = r /\ b.fn = c.fn
            BY <1>1 DEF Calls
        <3> QED BY <1>8, <2>1, <2>5, <3>1 DEF Answered
    <2>7. Fine(c, Answers(d, c, r))
        BY <2>4, <2>5, <2>6, AnswersAreFine
    <2> QED BY <1>2, <2>2, <2>7
<1> QED BY <1>4, <1>5, <1>6, <1>7, <1>8

LEMMA OutcomesAreFine ==
    ASSUME NEW c, Asked(c), c.fn # "page"
    PROVE  Fine(c, Outcomes(db, c))
<1>1. /\ c \in Calls /\ Stage(c) /\ c.at \notin Waiting /\ c.fn \in PublicFns \cup AccountFns \cup AdminFns
    BY DEF Asked, CallOK, Calls, Fns
<1>2. CASE c.at = "sent"
    <2>1. Fine(c, Refuses(db, c, "unauthorized"))
        BY RefusalsAreFine DEF Reasons
    <2>2. ASSUME Admitted(db, c)
          PROVE  Fine(c, Handle(db, c))
        <3>1. c.fn \in AccountFns => c.token # 0
            BY <2>2 DEF Admitted, RequireSession, AccountFns, PublicFns, AdminFns
        <3>2. CASE c.fn \in PublicFns
            BY <3>2, JoinIsFine, EnterIsFine, LeaveIsFine, InviteCommandsAreFine DEF Handle, PublicFns
        <3>3. CASE c.fn \in AccountFns
            BY <3>1, <3>3, SecondFactorIsFine DEF Handle, AccountFns
        <3>4. CASE c.fn \in AdminFns
            BY <3>4, ListsAreFine, UserCommandsAreFine, InviteCommandsAreFine DEF Handle, AdminFns
        <3> QED BY <1>1, <3>2, <3>3, <3>4
    <2> QED BY <1>2, <2>1, <2>2 DEF Outcomes
<1>3. CASE c.at # "sent"
    <2>1. \/ c.at \in {"checked", "created", "consumed"} /\ c.fn = "register"
          \/ c.at = "passed" /\ c.fn \in {"login", "otp"}
          \/ c.at = "read" /\ c.token # 0
          \/ c.at = "verified" /\ c.token # 0
          \/ c.at = "blocked" /\ c.fn = "setAdminUserBlocked"
        BY <1>1, <1>3 DEF Stage, Waiting
    <2>2. c.at = "checked" => Outcomes(db, c) = CreateUser(db, c)
        BY DEF Outcomes
    <2>3. c.at = "created" => Outcomes(db, c) = Consume(db, c)
        BY DEF Outcomes
    <2>4. c.at = "consumed" => Outcomes(db, c) = CreateWithOwner(db, c)
        BY DEF Outcomes
    <2>5. c.at = "passed" => Outcomes(db, c) = Issue(db, c, c.who)
        BY DEF Outcomes
    <2>6. c.at = "read" => Outcomes(db, c) = SetTotpSecret(db, c)
        BY DEF Outcomes
    <2>7. c.at = "verified" => Outcomes(db, c) = EnableTotp(db, c)
        BY DEF Outcomes
    <2>8. c.at = "blocked" => Outcomes(db, c) = RevokeAllForUser(db, c)
        BY DEF Outcomes
    <2> QED BY <2>1, <2>2, <2>3, <2>4, <2>5, <2>6, <2>7, <2>8, JoinIsFine, EnterIsFine, SecondFactorIsFine,
               UserCommandsAreFine
<1> QED BY <1>2, <1>3

\* A page, whichever its layout leads to.
LEMMA ResolvedIs ==
    ASSUME NEW c, Asked(c), c.fn = "page"
    PROVE  Resolve(db, c) \in Routes
<1>1. c.to \in Routes
    BY DEF Asked, Calls
<1> QED BY <1>1 DEF Resolve, Routes, AdminRoutes, TotpPage, CabinetLayout, AdminLayout, Home

LEMMA PageIsFine ==
    ASSUME NEW c, Asked(c), c.fn = "page"
    PROVE  Fine(c, Answers(db, [c EXCEPT !.to = Resolve(db, c)], Ok({})))
<1> DEFINE e == [c EXCEPT !.to = Resolve(db, c)]
<1>1. Like(db, c, c) /\ Gentle(db) /\ Resolve(db, c) \in Routes /\ c \in Calls
    BY AskedTables, ResolvedIs DEF Asked
<1>2. Like(db, c, e)
    BY <1>1 DEF Like, Calls
<1> HIDE DEF e
<1>3. Fine(c, Answers(db, e, Ok({})))
    BY <1>1, <1>2, PlainReplies, PlainAnswers
<1> QED BY <1>3 DEF e

\* The middleware and the layouts stop a blocked user.
LEMMA OutcomesStop ==
    ASSUME NEW c, Asked(c), c.fn # "page", NEW o \in Outcomes(db, c)
    PROVE  Stopped(c, o.call)
<1> SUFFICES ASSUME c.token # 0, c.at = "sent", db.user[Owner(db, c.token)].blocked, c.fn \notin PublicFns
             PROVE  ~o.call.reply.ok /\ o.call.at = "back"
    BY DEF Stopped, Asked
<1>1. ~Admitted(db, c)
    BY DEF Admitted, RequireSession, Owner
<1>2. o.call = [c EXCEPT !.at = "back", !.reply = Err("unauthorized")]
    BY <1>1 DEF Outcomes, Refuses, Answers
<1>3. ~Err("unauthorized").ok
    BY DEF Err, Ok
<1> QED BY <1>2, <1>3 DEF Asked, Calls

LEMMA PageStops ==
    ASSUME NEW c, Asked(c), c.fn = "page", NEW o \in Answers(db, [c EXCEPT !.to = Resolve(db, c)], Ok({}))
    PROVE  Stopped(c, o.call)
<1> SUFFICES ASSUME c.token # 0, c.at = "sent", db.user[Owner(db, c.token)].blocked, c.flag,
                    c.fn \notin PublicFns
             PROVE  o.call.to \in {"login", "register"}
    BY DEF Stopped
<1>1. c \in Calls /\ c.to \in Routes
    BY DEF Asked, Calls
<1>2. o.call.to = Resolve(db, c)
    <2> DEFINE e == [c EXCEPT !.to = Resolve(db, c)]
    <2>1. e \in Calls /\ e.to = Resolve(db, c)
        BY <1>1, ResolvedIs DEF Calls
    <2> HIDE DEF e
    <2>2. o \in Answers(db, e, Ok({}))
        BY DEF e
    <2>3. o.call = [e EXCEPT !.at = "back", !.reply = Ok({})]
        BY <2>2 DEF Answers
    <2> QED BY <2>1, <2>3 DEF Calls
<1>3. ~GetMe(db, c.token).in
    BY DEF GetMe, RequireSession, Owner
<1>4. Resolve(db, c) \in {"login", "register"}
    BY <1>1, <1>3 DEF Resolve, Routes, AdminRoutes, TotpPage, CabinetLayout, AdminLayout
<1> QED BY <1>2, <1>4

LEMMA ServeIsGood ==
    ASSUME IndInv, NEW k \in DOMAIN calls, Serve(k)
    PROVE  Good
<1> DEFINE c == calls[k]
           os == IF c.fn = "page" THEN Answers(db, [c EXCEPT !.to = Resolve(db, c)], Ok({})) ELSE Outcomes(db, c)
<1>1. c.at \notin Waiting /\ UNCHANGED <<jar, tab, clicks, troubles>>
    BY DEF Serve
<1>2. PICK o \in os : db' = o.db /\ calls' = [calls EXCEPT ![k] = o.call]
    BY DEF Serve
<1>3. Asked(c)
    BY <1>1, AnsweredCall DEF Asked
<1>4. Fine(c, os) /\ Stopped(c, o.call)
    <2>1. CASE c.fn = "page"
        BY <1>2, <1>3, <2>1, PageIsFine, PageStops
    <2>2. CASE c.fn # "page"
        BY <1>2, <1>3, <2>2, OutcomesAreFine, OutcomesStop
    <2> QED BY <2>1, <2>2
<1> HIDE DEF os
<1>5. Result(c, db', o.call)
    BY <1>2, <1>4 DEF Fine
<1> QED BY <1>1, <1>2, <1>4, <1>5, ResultIsGood

\* A lost call ends with an error.
LEMMA LoseIsGood ==
    ASSUME IndInv, NEW k \in DOMAIN calls, Lose(k)
    PROVE  Good
<1> DEFINE c == calls[k]
           e == [c EXCEPT !.at = "back", !.reply = Err("error")]
<1>1. /\ calls' = [calls EXCEPT ![k] = e] /\ UNCHANGED <<db, jar, tab, clicks>> /\ c.at # "timer" /\ c.fn # "page"
      /\ troubles < MaxTroubles /\ troubles' = troubles + 1
    BY DEF Lose
<1>2. CallOK(db, c) /\ c \in Calls /\ calls \in Seq(Calls) /\ TypesInv
    BY AnsweredCall DEF IndInv, TypesInv
<1>3. Err("error") \in Replies /\ Err("error").rows = {} /\ ~Err("error").ok
    BY PlainReplies DEF Reasons
<1>4. /\ e \in Calls /\ e.at = "back" /\ e.tab = c.tab /\ e.fn = c.fn /\ e.live = c.live /\ e.token = c.token
      /\ e.who = c.who /\ e.what = c.what /\ e.set = c.set /\ e.pwd = c.pwd /\ e.reply = Err("error")
    BY <1>2, <1>3 DEF Calls, Places
<1> HIDE DEF e
<1>5. CallOK(db, e)
    BY <1>2, <1>3, <1>4 DEF CallOK, Stage, Arguments, Answered
<1>6. calls' \in Seq(Calls) /\ DOMAIN calls' = DOMAIN calls /\ calls'[k] = e /\ \A j \in DOMAIN calls \ {k} : calls'[j] = calls[j]
    BY <1>1, <1>2, <1>4, OneChanged
<1>7. TypesInv'
    <2>1. Fits(tab[e.tab], e)
        BY <1>1, <1>2, <1>4 DEF TypesInv, Fits
    <2>2. \A j \in DOMAIN calls' : CallOK(db', calls'[j]) /\ Fits(tab'[calls'[j].tab], calls'[j])
        BY <1>1, <1>2, <1>5, <1>6, <2>1 DEF TypesInv
    <2>3. troubles' \in 0..MaxTroubles
        BY <1>1, <1>2, FieldsAreFilled DEF TypesInv
    <2> QED BY <1>1, <1>2, <1>6, <2>2, <2>3 DEF TypesInv
<1>8. OtpInv'
    BY <1>1, <1>2, <1>4, <1>6 DEF IndInv, OtpInv, Once, Pending, Checks
<1>9. AdmissionInv'
    BY <1>1, <1>4, <1>6 DEF IndInv, AdmissionInv, Once, Creating
<1>10. Unsent
    BY <1>1 DEF Unsent
<1>11. Barred
    BY <1>3, <1>4, <1>1, <1>6 DEF Barred
<1> QED BY <1>7, <1>8, <1>9, <1>10, <1>11 DEF Good, IndInv

-----------------------------------------------------------------------------
(* The steps together                                                      *)

LEMMA ActIsGood ==
    ASSUME IndInv, NEW t \in Tabs, Act(t)
    PROVE  Good
<1>1. Idle
    <2>1. clicks \in [Tabs -> Nat] /\ clicks'[t] >= 0
        BY DEF IndInv, TypesInv, Act
    <2>2. clicks' = clicks \/ clicks' = [clicks EXCEPT ![t] = @ - 1]
        BY DEF Act
    <2>3. clicks' \in [Tabs -> Nat]
        BY <2>1, <2>2
    <2> QED BY <2>3 DEF Idle, Act
<1>2. PICK family \in may[t] : Does(t, family)
    BY DEF Act
<1>3. \/ \E i \in Invites : SetInvite(t, i)
      \/ CheckInvite(t)
      \/ \E u \in Users, pwd, confirm \in Typed \cup {GenerateSecurePassword} : Register(t, u, pwd, confirm)
      \/ \E u \in Users : SetEmail(t, u)
      \/ \E right \in BOOLEAN : Login(t, right)
      \/ TypeCode(t)
      \/ \E route \in Routes : Open(t, route)
      \/ HandleLogout(t)
      \/ SetQuery(t) \/ (ToggleBlock(t) \/ ToggleStudio(t))
      \/ IssueInvite(t) \/ Revoke(t) \/ (ToggleOne(t) \/ ToggleAll(t)) \/ BulkDelete(t)
      \/ EditDomains(t) \/ SaveDomains(t)
    BY <1>2 DEF Does
<1>4. CASE \E i \in Invites : SetInvite(t, i)
    BY <1>1, <1>4, SetInviteIsGood
<1>5. CASE CheckInvite(t)
    BY <1>1, <1>5, CheckInviteIsGood
<1>6. CASE \E u \in Users, pwd, confirm \in Typed \cup {GenerateSecurePassword} : Register(t, u, pwd, confirm)
    BY <1>1, <1>6, RegisterIsGood
<1>7. CASE \E u \in Users : SetEmail(t, u)
    BY <1>1, <1>7, SetEmailIsGood
<1>8. CASE \E right \in BOOLEAN : Login(t, right)
    BY <1>1, <1>8, LoginIsGood
<1>9. CASE TypeCode(t)
    BY <1>1, <1>9, TypeCodeIsGood
<1>10. CASE \E route \in Routes : Open(t, route)
    BY <1>1, <1>10, OpenIsGood
<1>11. CASE HandleLogout(t)
    BY <1>1, <1>11, HandleLogoutIsGood
<1>12. CASE SetQuery(t)
    BY <1>1, <1>12, SetQueryIsGood
<1>13. CASE ToggleBlock(t) \/ ToggleStudio(t)
    BY <1>1, <1>13, ToggleIsGood
<1>14. CASE IssueInvite(t)
    BY <1>1, <1>14, IssueInviteIsGood
<1>15. CASE Revoke(t)
    BY <1>1, <1>15, RevokeIsGood
<1>16. CASE ToggleOne(t) \/ ToggleAll(t)
    BY <1>1, <1>16, TicksAreGood
<1>17. CASE BulkDelete(t)
    BY <1>1, <1>17, BulkDeleteIsGood
<1>18. CASE EditDomains(t)
    BY <1>1, <1>18, EditDomainsIsGood
<1>19. CASE SaveDomains(t)
    BY <1>1, <1>19, SaveDomainsIsGood
<1> QED BY <1>3, <1>4, <1>5, <1>6, <1>7, <1>8, <1>9, <1>10, <1>11, <1>12, <1>13, <1>14, <1>15, <1>16,
           <1>17, <1>18, <1>19

LEMMA StepIsGood ==
    ASSUME IndInv, NEW k \in DOMAIN calls, Step(k)
    PROVE  Good
BY ServeIsGood, PageArrivesIsGood, InviteVerifiedIsGood, RegisteredIsGood, LoggedInIsGood, CodeRefusedIsGood,
   CodeAcceptedIsGood, CodeConfirmedIsGood, TimerFiresIsGood, SecretShownIsGood, LoggedOutIsGood, ListedIsGood,
   CommandFailedIsGood, ToggleDoneIsGood, IssueDoneIsGood, RevokeDoneIsGood, DeleteDoneIsGood, DomainsShownIsGood
   DEF Step

LEMMA NextIsGood ==
    ASSUME IndInv, [Next]_vars
    PROVE  IndInv' /\ Unsent /\ (Barred \/ UNCHANGED vars)
<1>1. CASE Next
    <2>1. Good
        BY <1>1, StepIsGood, DebouncedIsGood, ActIsGood, LoseIsGood DEF Next, Working
    <2> QED BY <2>1 DEF Good
<1>2. CASE UNCHANGED vars
    BY <1>2 DEF vars, Unsent, IndInv, TypesInv, OtpInv, AdmissionInv, CallOK, Fits, Once, Pending, Checks, Creating
<1> QED BY <1>1, <1>2

-----------------------------------------------------------------------------
(* The initial states                                                      *)

LEMMA Listing ==
    ASSUME NEW S, IsFiniteSet(S), NEW i \in 1..Cardinality(S)
    PROVE  SetToSeq(S)[i] \in S
<1>1. \E f \in [1..Cardinality(S) -> S] : IsInjective(f)
    <2>1. \E f \in Bijection(1..Cardinality(S), S) : TRUE
        BY FS_NatBijection, FS_CardinalityType DEF ExistsBijection
    <2>2. PICK f \in Bijection(1..Cardinality(S), S) : TRUE
        BY <2>1
    <2>3. f \in [1..Cardinality(S) -> S] /\ IsInjective(f)
        BY <2>2 DEF Bijection, Injection, IsInjective
    <2> QED BY <2>3
<1>2. SetToSeq(S) \in [1..Cardinality(S) -> S]
    BY <1>1 DEF SetToSeq
<1> QED BY <1>2

LEMMA InitIsGood ==
    ASSUME Init
    PROVE  IndInv
<1>0. PICK s \in Starts :
           /\ db = s.db /\ jar = s.jar /\ may = s.may
           /\ tab = [t \in Tabs |-> Blank(s.route[t])]
           /\ LET asking == {t \in Tabs : Mounted(t, s.route[t]) # <<>>}
              IN  calls = [i \in 1..Cardinality(asking) |->
                              LET t == SetToSeq(asking)[i] IN Mounted(t, s.route[t])[1]]
           /\ clicks = s.clicks /\ troubles = 0
    BY DEF Init
<1> DEFINE asking == {t \in Tabs : Mounted(t, s.route[t]) # <<>>}
           n == Cardinality(asking)
           who(i) == SetToSeq(asking)[i]
<1>1. /\ db \in Tables /\ OneInviteEach(db) /\ jar \in [Browsers -> Tokens(db)]
      /\ s.route \in [Tabs -> Routes] /\ clicks \in [Tabs -> Nat]
    BY <1>0, StartsAreStates
<1>2. Stored
    BY <1>1 DEF Stored
<1>3. \A t \in Tabs : s.route[t] \in Routes /\ tab[t] = Blank(s.route[t])
    BY <1>0, <1>1
<1>4. \A t \in Tabs : PageOK(tab[t]) /\ tab[t].otp = "idle"
    BY <1>3, BlankOK
<1>5. tab \in [Tabs -> Page]
    <2>1. \A t \in Tabs : Blank(s.route[t]) \in Page
        BY <1>3, BlankOK DEF PageOK
    <2> QED BY <1>0, <2>1
<1>6. n \in Nat /\ \A i \in 1..n : who(i) \in asking
    <2>1. IsFiniteSet(asking)
        BY TabsHaveBrowsers, FS_Subset
    <2> HIDE DEF asking
    <2> QED BY <2>1, Listing, FS_CardinalityType
<1>7. calls = [i \in 1..n |-> Mounted(who(i), s.route[who(i)])[1]] /\ troubles = 0
    BY <1>0
<1>8. ASSUME NEW i \in 1..n
      PROVE  /\ calls[i] \in Calls /\ CallOK(db, calls[i]) /\ Fits(tab[calls[i].tab], calls[i])
             /\ calls[i].at = "sent" /\ \A u : calls[i] \notin Pending(u)
    <2> DEFINE t == who(i)
    <2>1. t \in Tabs /\ Mounted(t, s.route[t]) # <<>>
        BY <1>6
    <2>2. calls[i] = Mounted(t, s.route[t])[1]
        BY <1>7
    <2> HIDE DEF t, who, n
    <2>3. PICK c \in Calls : /\ Mounted(t, s.route[t]) = <<c>> /\ CallOK(db, c) /\ c.tab = t /\ c.at = "sent"
                             /\ Fits(Blank(s.route[t]), c) /\ \A u : c \notin Pending(u)
        BY <1>2, <1>3, <2>1, MountedIs
    <2>4. calls[i] = c
        BY <2>2, <2>3
    <2> QED BY <1>3, <2>1, <2>3, <2>4
<1> HIDE DEF who, n, asking
<1>9. calls \in Seq(Calls) /\ DOMAIN calls = 1..n
    <2>1. calls \in [1..n -> Calls]
        BY <1>7, <1>8
    <2> QED BY <1>6, <2>1, SeqDef
<1>10. TypesInv
    BY <1>1, <1>4, <1>5, <1>7, <1>8, <1>9, FieldsAreFilled DEF TypesInv
<1>11. OtpInv
    BY <1>4, <1>8, <1>9 DEF OtpInv, Once
<1>12. AdmissionInv
    BY <1>1, <1>8, <1>9 DEF AdmissionInv, Once, Creating
<1> QED BY <1>10, <1>11, <1>12 DEF IndInv

-----------------------------------------------------------------------------
(* What the invariant says                                                 *)

LEMMA InvTypes ==
    ASSUME IndInv
    PROVE  TypeOK
<1>1. /\ db \in Tables /\ jar \in [Browsers -> Tokens(db)] /\ tab \in [Tabs -> Page]
      /\ clicks \in [Tabs -> Nat] /\ troubles \in 0..MaxTroubles
    BY DEF IndInv, TypesInv
<1>2. ASSUME NEW k \in DOMAIN calls
      PROVE  [tab |-> calls[k].tab, live |-> calls[k].live, token |-> calls[k].token, to |-> calls[k].to,
              who |-> calls[k].who, fn |-> calls[k].fn, flag |-> calls[k].flag, code |-> calls[k].code] \in CallType
    <2>1. calls[k] \in Calls /\ calls[k].token \in Tokens(db)
        BY DEF IndInv, TypesInv, CallOK
    <2> QED BY <2>1 DEF Calls, CallType, Fns
<1> QED BY <1>1, <1>2 DEF TypeOK

\* The call that waits for a verdict is the only one, and it is there exactly when the
\* form shows that it waits.
LEMMA InvVerifications ==
    ASSUME IndInv, NEW t \in Tabs
    PROVE  /\ IsFiniteSet(Verifications(t))
           /\ Cardinality(Verifications(t)) = (IF tab[t].otp = "verifying" THEN 1 ELSE 0)
<1>1. calls \in Seq(Calls) /\ calls \in [DOMAIN calls -> Calls]
    BY SeqFacts DEF IndInv, TypesInv
<1>2. \A k \in DOMAIN calls : k \in Verifications(t) <=> calls[k] \in Checks(t)
    BY <1>1 DEF Verifications, Checks
<1>3. Verifications(t) \subseteq DOMAIN calls
    BY DEF Verifications
<1>4. CASE tab[t].otp = "verifying"
    <2>1. PICK k \in DOMAIN calls : calls[k] \in Checks(t)
        BY <1>4 DEF IndInv, OtpInv
    <2>2. \A j \in DOMAIN calls : calls[j] \in Checks(t) => j = k
        BY <2>1 DEF IndInv, OtpInv, Once, Checks, Pending
    <2>3. Verifications(t) = {k}
        BY <1>2, <1>3, <2>1, <2>2
    <2> QED BY <1>4, <2>3, FS_Singleton
<1>5. CASE tab[t].otp # "verifying"
    <2>1. \A k \in DOMAIN calls : calls[k] \notin Checks(t)
        BY <1>5 DEF IndInv, TypesInv, Fits, Checks
    <2>2. Verifications(t) = {}
        BY <1>2, <1>3, <2>1
    <2> QED BY <1>5, <2>2, FS_EmptySet
<1> QED BY <1>4, <1>5

LEMMA InvPasswords ==
    ASSUME IndInv
    PROVE  OfferedPasswordsAreAccepted
<1> SUFFICES ASSUME NEW k \in DOMAIN calls, calls[k].fn = "register"
             PROVE  LET pwd == calls[k].pwd
                    IN  (pwd.units = pwd.runes => Validate(pwd)) /\ Hints(pwd).bars >= 3 /\ Hints(pwd).unmet = {}
    BY DEF OfferedPasswordsAreAccepted
<1> DEFINE pwd == calls[k].pwd
<1>1. pwd \in Password /\ CheckPasswordRules(pwd) = Rules
    BY DEF IndInv, TypesInv, CallOK, Arguments, Accepted, Calls
<1> HIDE DEF pwd
<1>2. pwd.has \subseteq Classes /\ pwd.units \in 0..20 /\ pwd.runes \in 0..20
    BY <1>1 DEF Password
<1>3. pwd.units >= 8 /\ pwd.has = Classes
    <2>1. "minLength" \notin Classes /\ "minLength" \in Rules
        BY DEF Classes, Rules
    <2>2. pwd.units >= 8
        BY <1>1, <1>2, <2>1 DEF CheckPasswordRules
    <2>3. Classes \subseteq Rules
        BY DEF Rules
    <2> QED BY <1>1, <1>2, <2>1, <2>2, <2>3 DEF CheckPasswordRules
<1>4. Cardinality(Rules) = 5
    <2> DEFINE A == {"lowercase"}
               B == A \cup {"uppercase"}
               C == B \cup {"digit"}
               D == C \cup {"special"}
               E == D \cup {"minLength"}
    <2>1. "uppercase" \notin A /\ "digit" \notin B /\ "special" \notin C /\ "minLength" \notin D
        OBVIOUS
    <2>2. E = Rules
        BY DEF Rules, Classes
    <2>3. IsFiniteSet(A) /\ Cardinality(A) = 1
        BY FS_Singleton
    <2> HIDE DEF A
    <2>4. IsFiniteSet(B) /\ Cardinality(B) = 2
        BY <2>1, <2>3, FS_AddElement
    <2> HIDE DEF B
    <2>5. IsFiniteSet(C) /\ Cardinality(C) = 3
        BY <2>1, <2>4, FS_AddElement
    <2> HIDE DEF C
    <2>6. IsFiniteSet(D) /\ Cardinality(D) = 4
        BY <2>1, <2>5, FS_AddElement
    <2> HIDE DEF D
    <2>7. IsFiniteSet(E) /\ Cardinality(E) = 5
        BY <2>1, <2>6, FS_AddElement
    <2> HIDE DEF E
    <2> QED BY <2>2, <2>7
<1>5. PasswordStrength(pwd, Rules) \in {3, 4}
    <2>1. pwd.units > 0 /\ pwd.units # 0
        BY <1>2, <1>3
    <2>2. PasswordStrength(pwd, Rules) = IF pwd.units >= 12 THEN 4 ELSE 3
        BY <1>4, <2>1 DEF PasswordStrength
    <2> QED BY <2>2
<1>6. Hints(pwd).bars >= 3 /\ Hints(pwd).unmet = {}
    BY <1>1, <1>5 DEF Hints
<1>7. pwd.units = pwd.runes => Validate(pwd)
    BY <1>3 DEF Validate
<1> QED BY <1>6, <1>7 DEF pwd

-----------------------------------------------------------------------------
(* The theorems                                                            *)

\* The invariant holds in every state, for every set of users, invites, tabs and
\* browsers and for every length of a code.
THEOREM InvHolds == Spec => []IndInv
<1>1. Init => IndInv
    BY InitIsGood
<1>2. IndInv /\ [Next]_vars => IndInv'
    BY NextIsGood
<1> QED BY <1>1, <1>2, PTL DEF Spec

\* Every variable holds a value of its kind; above all no call holds a cookie of a
\* session that does not exist.
THEOREM TypesAreKept == Spec => []TypeOK
<1>1. IndInv => TypeOK
    BY InvTypes
<1> QED BY <1>1, InvHolds, PTL

\* A form shows that a code is being verified exactly while one request for it is under
\* way.
THEOREM VerificationsAreSingle == Spec => []OneVerificationAtATime
<1>1. IndInv => OneVerificationAtATime
    BY InvVerifications DEF OneVerificationAtATime
<1> QED BY <1>1, InvHolds, PTL

\* A password that the page of the registration lets through satisfies the backend, if
\* both count its characters alike, and the hints beside the field call it good.
THEOREM PasswordsAreAccepted == Spec => []OfferedPasswordsAreAccepted
<1>1. IndInv => OfferedPasswordsAreAccepted
    BY InvPasswords
<1> QED BY <1>1, InvHolds, PTL

\* No render sends a code again: where a step adds a verification, the code was typed in
\* that step.
THEOREM CodesGoOffOnce == Spec => CodesAreSentOnce
<1>1. OneVerificationAtATime /\ OneVerificationAtATime' /\ IndInv /\ [Next]_vars =>
         [\A t \in Tabs : Cardinality(Verifications(t)') > Cardinality(Verifications(t))
                             => tab'[t].code # tab[t].code]_vars
    <2> SUFFICES ASSUME OneVerificationAtATime, OneVerificationAtATime', IndInv, [Next]_vars, NEW t \in Tabs,
                        Cardinality(Verifications(t)') > Cardinality(Verifications(t))
                 PROVE  tab'[t].code # tab[t].code
        OBVIOUS
    <2>1. Unsent
        BY NextIsGood
    <2>2. /\ Cardinality(Verifications(t)) = (IF tab[t].otp = "verifying" THEN 1 ELSE 0)
          /\ Cardinality(Verifications(t)') = (IF tab'[t].otp = "verifying" THEN 1 ELSE 0)
        BY DEF OneVerificationAtATime
    <2>3. tab'[t].otp = "verifying" /\ tab[t].otp # "verifying"
        BY <2>2
    <2> QED BY <2>1, <2>3 DEF Unsent
<1> QED BY <1>1, InvHolds, VerificationsAreSingle, PTL DEF Spec, CodesAreSentOnce

\* A user who is blocked gets no request past the middleware and no guarded page,
\* whatever cookie a late answer put back.
THEOREM BlockedStayOut == Spec => BlockedUsersAreOut
<1>1. IndInv /\ [Next]_vars =>
        [\A k \in DOMAIN calls :
          LET c == calls[k]
          IN  (/\ c.token # 0 /\ c.at = "sent" /\ db.user[Owner(db, c.token)].blocked
               /\ DOMAIN calls' = DOMAIN calls /\ calls'[k].at # "sent"
               /\ \A j \in DOMAIN calls \ {k} : calls'[j] = calls[j])
              => CASE c.fn = "page" -> calls'[k].to \in {"login", "register"} \/ ~c.flag
                   [] c.fn \in PublicFns -> TRUE
                   [] OTHER -> ~calls'[k].reply.ok /\ calls'[k].at = "back"]_vars
    BY NextIsGood DEF Barred
<1> QED BY <1>1, InvHolds, PTL DEF Spec, BlockedUsersAreOut

-----------------------------------------------------------------------------
(* Registration implements Admission                                       *)

Homes(d) == \A u \in Users : d.user[u].home = db.user[u].home

\* What the next step of call c may mean for the invites and the workspaces.
Moves(c, d) ==
    \/ d.invite = db.invite /\ Homes(d)
    \/ /\ \E i \in Invites : db.invite[i].status = "unissued" /\ d.invite = [db.invite EXCEPT ![i].status = "ACTIVE"]
       /\ Homes(d)
    \/ /\ \A i \in Invites : /\ d.invite[i].by = db.invite[i].by
                             /\ d.invite[i].status = "ACTIVE" => db.invite[i].status = "ACTIVE"
       /\ Homes(d)
    \/ /\ c.at = "created" /\ c.fn = "register" /\ db.invite[c.what].status = "ACTIVE"
       /\ d.invite = [db.invite EXCEPT ![c.what] = [status |-> "USED", by |-> c.who]] /\ Homes(d)
    \/ /\ c.at = "consumed" /\ c.fn = "register" /\ d.invite = db.invite
       /\ \A u \in Users : d.user[u].home = (db.user[u].home \/ u = c.who)

Tell(c, os) == \A o \in os : Moves(c, o.db)

LEMMA QuietTells ==
    ASSUME NEW c, NEW d, d.invite = db.invite, Homes(d)
    PROVE  /\ \A e, r : Tell(c, Answers(d, e, r))
           /\ \A e, why : Tell(c, Refuses(d, e, why))
           /\ \A e, at : Tell(c, Goes(d, e, at))
           /\ \A e, u : Tell(c, Issue(d, e, u))
<1>1. Moves(c, d)
    BY DEF Moves
<1>2. \A e, u : Moves(c, [d EXCEPT !.session = Append(@, [user |-> u, revoked |-> FALSE])])
    BY DEF Moves, Homes
<1> QED BY <1>1, <1>2 DEF Tell, Answers, Refuses, Goes, Issue

LEMMA OutcomesTell ==
    ASSUME NEW c, Asked(c), c.fn # "page"
    PROVE  Tell(c, Outcomes(db, c))
<1>1. /\ db \in Tables /\ c \in Calls /\ Arguments(c) /\ Stage(c) /\ c.at \notin Waiting
      /\ c.fn \in PublicFns \cup AccountFns \cup AdminFns
    BY AskedTables DEF Asked, CallOK, Calls, Fns
<1>2. /\ \A e, r : Tell(c, Answers(db, e, r))
      /\ \A why : Tell(c, Refuses(db, c, why))
      /\ \A at : Tell(c, Goes(db, c, at))
      /\ \A u : Tell(c, Issue(db, c, u))
    BY QuietTells DEF Homes
<1>3. CASE c.at = "sent"
    <2>1. /\ Tell(c, VerifyInvite(db, c)) /\ Tell(c, RegisterRead(db, c)) /\ Tell(c, LoginRead(db, c))
          /\ Tell(c, SetupRead(db, c)) /\ Tell(c, ConfirmRead(db, c)) /\ Tell(c, Me(db, c))
          /\ Tell(c, ListUsers(db, c)) /\ Tell(c, ListInvites(db, c)) /\ Tell(c, Answers(db, c, Ok(db.domains)))
        BY <1>2 DEF VerifyInvite, RegisterRead, LoginRead, SetupRead, ConfirmRead, Me, ListUsers, ListInvites
    <2>2. Tell(c, Logout(db, c))
        <3> DEFINE d == IF c.token = 0 THEN db ELSE [db EXCEPT !.session[c.token].revoked = TRUE]
        <3>1. d.invite = db.invite /\ Homes(d)
            BY <1>1 DEF Homes, Tables
        <3>2. Logout(db, c) = Answers(d, [c EXCEPT !.token = 0], Ok({}))
            BY DEF Logout
        <3> HIDE DEF d
        <3> QED BY <3>1, <3>2, QuietTells
    <2>3. Tell(c, SetAllowedDomains(db, c))
        <3> DEFINE d == [db EXCEPT !.domains = c.set]
        <3>1. d.invite = db.invite /\ Homes(d)
            BY <1>1 DEF Homes, Tables
        <3>2. Tell(c, Answers(d, c, Ok(c.set)))
            <4> HIDE DEF d
            <4> QED BY <3>1, QuietTells
        <3> QED BY <1>2, <3>2 DEF SetAllowedDomains
    <2>4. c.fn = "setAdminUserBlocked" => Tell(c, SetBlocked(db, c))
        <3> DEFINE d == [db EXCEPT !.user[c.who].blocked = c.flag]
        <3>1. c.fn = "setAdminUserBlocked" => d.invite = db.invite /\ Homes(d)
            BY <1>1 DEF Homes, Tables, UserRow, Arguments
        <3>2. c.fn = "setAdminUserBlocked" => Tell(c, Goes(d, c, "blocked")) /\ Tell(c, Answers(d, c, Ok({})))
            <4> HIDE DEF d
            <4> QED BY <3>1, QuietTells
        <3>3. c.flag \in BOOLEAN
            BY <1>1 DEF Calls
        <3> QED BY <1>2, <3>2, <3>3 DEF SetBlocked
    <2>5. c.fn = "setAdminUserStudioAccess" => Tell(c, SetStudioAccess(db, c))
        <3> DEFINE d == [db EXCEPT !.user[c.who].studio = c.flag]
        <3>1. c.fn = "setAdminUserStudioAccess" => d.invite = db.invite /\ Homes(d)
            BY <1>1 DEF Homes, Tables, UserRow, Arguments
        <3>2. c.fn = "setAdminUserStudioAccess" => Tell(c, Answers(d, c, Ok({})))
            <4> HIDE DEF d
            <4> QED BY <3>1, QuietTells
        <3> QED BY <1>2, <3>2 DEF SetStudioAccess
    <2>6. Tell(c, IssueInvites(db, c))
        <3> DEFINE free == {i \in Invites : db.invite[i].status = "unissued"}
                   i == CHOOSE j \in free : TRUE
                   d == [db EXCEPT !.invite[i].status = "ACTIVE"]
        <3>1. CASE free = {}
            BY <1>2, <3>1 DEF IssueInvites
        <3>2. CASE free # {}
            <4>1. i \in Invites /\ db.invite[i].status = "unissued"
                BY <3>2
            <4>2. IssueInvites(db, c) = Answers(d, c, Ok({i}))
                BY <3>2 DEF IssueInvites
            <4> HIDE DEF i
            <4>3. d.invite = [db.invite EXCEPT ![i].status = "ACTIVE"] /\ Homes(d)
                BY <1>1 DEF Homes, Tables
            <4>4. Moves(c, d)
                BY <4>1, <4>3 DEF Moves
            <4> HIDE DEF d
            <4> QED BY <4>2, <4>4 DEF Tell, Answers
        <3> QED BY <3>1, <3>2
    <2>7. c.fn = "revokeAdminInvite" => Tell(c, RevokeInvite(db, c))
        <3> SUFFICES ASSUME c.fn = "revokeAdminInvite" PROVE Tell(c, RevokeInvite(db, c))
            OBVIOUS
        <3> DEFINE d == [db EXCEPT !.invite[c.what].status = "REVOKED"]
        <3>1. /\ \A i \in Invites : /\ d.invite[i].by = db.invite[i].by
                                    /\ d.invite[i].status = "ACTIVE" => db.invite[i].status = "ACTIVE"
              /\ Homes(d)
            BY <1>1 DEF Homes, Tables, InviteRow
        <3>2. RevokeInvite(db, c) = IF db.invite[c.what].status # "ACTIVE" THEN Refuses(db, c, "not_found")
                                    ELSE Answers(d, c, Ok({}))
            BY DEF RevokeInvite
        <3> HIDE DEF d
        <3>3. Moves(c, d)
            BY <3>1 DEF Moves
        <3> QED BY <1>2, <3>2, <3>3 DEF Tell, Answers
    <2>8. Tell(c, DeleteInvites(db, c))
        <3> DEFINE d == [db EXCEPT !.invite = [i \in Invites |->
                            IF i \in c.set THEN [db.invite[i] EXCEPT !.status = "deleted"] ELSE db.invite[i]]]
        <3>1. /\ \A i \in Invites : /\ d.invite[i].by = db.invite[i].by
                                    /\ d.invite[i].status = "ACTIVE" => db.invite[i].status = "ACTIVE"
              /\ Homes(d)
            BY <1>1 DEF Homes, Tables, InviteRow
        <3>2. DeleteInvites(db, c) = IF c.set = {} THEN Refuses(db, c, "invalid_input") ELSE Answers(d, c, Ok({}))
            BY DEF DeleteInvites
        <3> HIDE DEF d
        <3>3. Moves(c, d)
            BY <3>1 DEF Moves
        <3> QED BY <1>2, <3>2, <3>3 DEF Tell, Answers
    <2>9. c.fn \in {"verifyInvite", "register", "login", "otp", "logout"} => Tell(c, Handle(db, c))
        BY <2>1, <2>2 DEF Handle
    <2>10. c.fn \in AccountFns => Tell(c, Handle(db, c))
        BY <2>1 DEF Handle, AccountFns
    <2>11. c.fn \in AdminFns => Tell(c, Handle(db, c))
        BY <2>1, <2>3, <2>4, <2>5, <2>6, <2>7, <2>8 DEF Handle, AdminFns
    <2>12. Tell(c, Handle(db, c))
        BY <1>1, <2>9, <2>10, <2>11 DEF PublicFns
    <2> QED BY <1>2, <1>3, <2>12 DEF Outcomes
<1>4. CASE c.at # "sent"
    <2>1. \/ c.at \in {"checked", "created", "consumed"} /\ c.fn = "register"
          \/ c.at = "passed"
          \/ c.at \in {"read", "verified"} /\ c.token # 0
          \/ c.at = "blocked"
        BY <1>1, <1>4 DEF Stage, Waiting
    <2>2. CASE c.at = "checked" /\ c.fn = "register"
        <3> DEFINE d == [db EXCEPT !.user[c.who].here = TRUE]
        <3>1. d.invite = db.invite /\ Homes(d)
            BY <1>1, <2>2 DEF Homes, Tables, UserRow, Arguments
        <3>2. Tell(c, Goes(d, c, "created"))
            <4> HIDE DEF d
            <4> QED BY <3>1, QuietTells
        <3>3. Outcomes(db, c) = CreateUser(db, c)
            BY <2>2 DEF Outcomes
        <3> QED BY <1>2, <3>2, <3>3 DEF CreateUser
    <2>3. CASE c.at = "created" /\ c.fn = "register"
        <3> DEFINE d == Spent(db, c.what, c.who)
        <3>1. d.invite = [db.invite EXCEPT ![c.what] = [status |-> "USED", by |-> c.who]] /\ Homes(d)
            BY <1>1 DEF Homes, Tables, Spent
        <3>2. Outcomes(db, c) = IF db.invite[c.what].status = "ACTIVE" THEN Goes(d, c, "consumed")
                                ELSE Refuses(db, c, "internal")
            BY <2>3 DEF Outcomes, Consume
        <3> HIDE DEF d
        <3>3. ASSUME db.invite[c.what].status = "ACTIVE"
              PROVE  Moves(c, d)
            BY <2>3, <3>1, <3>3 DEF Moves
        <3> QED BY <1>2, <3>2, <3>3 DEF Tell, Goes
    <2>4. CASE c.at = "consumed" /\ c.fn = "register"
        <3> DEFINE d == [db EXCEPT !.user[c.who].home = TRUE]
                   e == [d EXCEPT !.session = Append(@, [user |-> c.who, revoked |-> FALSE])]
        <3>1. d.invite = db.invite /\ (\A u \in Users : d.user[u].home = (db.user[u].home \/ u = c.who)) /\ d \in Tables
            BY <1>1, <2>4, ZenonT(60) DEF Tables, UserRow, Arguments
        <3>2. Outcomes(db, c) = Issue(d, c, c.who)
            BY <2>4 DEF Outcomes, CreateWithOwner
        <3> HIDE DEF d
        <3>3. Moves(c, e)
            BY <2>4, <3>1 DEF Moves, Tables
        <3> QED BY <3>2, <3>3 DEF Tell, Issue
    <2>5. CASE c.at = "passed"
        <3>1. Outcomes(db, c) = Issue(db, c, c.who)
            BY <2>5 DEF Outcomes
        <3> QED BY <1>2, <3>1
    <2>6. CASE c.at = "read" /\ c.token # 0
        <3> DEFINE u == Owner(db, c.token)
                   d == [db EXCEPT !.user[u] = [@ EXCEPT !.secret = db.secrets + 1, !.totp = FALSE], !.secrets = @ + 1]
        <3>1. u \in Users
            BY <2>6, OwnerIs
        <3>2. Outcomes(db, c) = SetTotpSecret(db, c)
            BY <2>6 DEF Outcomes
        <3>3. SetTotpSecret(db, c) = IF db.secrets = Len(CodeOf) THEN Refuses(db, c, "internal")
                                     ELSE Answers(d, c, [Ok({}) EXCEPT !.secret = db.secrets + 1])
            BY DEF SetTotpSecret
        <3> HIDE DEF u
        <3>4. d.invite = db.invite /\ Homes(d)
            BY <1>1, <3>1 DEF Homes, Tables, UserRow
        <3> HIDE DEF d
        <3>5. Tell(c, Answers(d, c, [Ok({}) EXCEPT !.secret = db.secrets + 1]))
            BY <3>4, QuietTells
        <3> QED BY <1>2, <3>2, <3>3, <3>5
    <2>7. CASE c.at = "verified" /\ c.token # 0
        <3> DEFINE u == Owner(db, c.token)
                   d == [db EXCEPT !.user[u].totp = TRUE]
        <3>1. u \in Users
            BY <2>7, OwnerIs
        <3>2. Outcomes(db, c) = Answers(d, c, Ok({}))
            BY <2>7 DEF Outcomes, EnableTotp
        <3> HIDE DEF u
        <3>3. d.invite = db.invite /\ Homes(d)
            BY <1>1, <3>1 DEF Homes, Tables, UserRow
        <3> HIDE DEF d
        <3> QED BY <3>2, <3>3, QuietTells
    <2>8. CASE c.at = "blocked"
        <3> DEFINE d == [db EXCEPT !.session = [s \in DOMAIN @ |-> IF @[s].user = c.who
                                       THEN [@[s] EXCEPT !.revoked = TRUE] ELSE @[s]]]
        <3>1. Outcomes(db, c) = Answers(d, c, Ok({}))
            BY <2>8 DEF Outcomes, RevokeAllForUser
        <3>2. d.invite = db.invite /\ Homes(d)
            BY <1>1 DEF Homes, Tables
        <3> HIDE DEF d
        <3> QED BY <3>1, <3>2, QuietTells
    <2> QED BY <2>1, <2>2, <2>3, <2>4, <2>5, <2>6, <2>7, <2>8
<1> QED BY <1>3, <1>4

\* Who holds a spent invite, and which are gone, in the terms of the tables.
LEMMA HoldersAre ==
    /\ \A u : u \in Admissions!Holders <=> \E i \in Invites : db.invite[i].by # Nobody /\ db.invite[i].by = u
    /\ \A i : i \in Admissions!Gone <=> i \in Invites /\ db.invite[i].by # Nobody
<1> DEFINE S == {<<db.invite[i].by, i>> : i \in {j \in Invites : db.invite[j].by # Nobody}}
<1>1. \A pair : pair \in S <=> \E i \in Invites : db.invite[i].by # Nobody /\ pair = <<db.invite[i].by, i>>
    OBVIOUS
<1>2. Admissions!Holders = {pair[1] : pair \in S} /\ Admissions!Gone = {pair[2] : pair \in S}
    BY DEF Admissions!Holders, Admissions!Gone
<1> HIDE DEF S
<1>3. ASSUME NEW i \in Invites, db.invite[i].by # Nobody
      PROVE  db.invite[i].by \in {pair[1] : pair \in S} /\ i \in {pair[2] : pair \in S}
    <2> DEFINE p == <<db.invite[i].by, i>>
    <2>1. p \in S /\ p[1] = db.invite[i].by /\ p[2] = i
        BY <1>1, <1>3
    <2> HIDE DEF p
    <2> QED BY <2>1
<1>4. \A pair \in S : \E i \in Invites : db.invite[i].by # Nobody /\ pair[1] = db.invite[i].by /\ pair[2] = i
    BY <1>1
<1> QED BY <1>2, <1>3, <1>4

LEMMA AdmissionStarts ==
    ASSUME Init
    PROVE  Admissions!Init
<1>1. PICK s \in Starts : db = s.db
    BY DEF Init
<1>2. /\ db \in Tables /\ OneInviteEach(db) /\ Nobody \notin Users
      /\ \A u \in Users \ {Admin} : db.user[u].home <=> \E i \in Invites : db.invite[i].by = u
    BY <1>1, StartsAreStates, PeopleAreNamed
<1>3. \A i \in Invites : db.invite[i].by # Nobody => db.invite[i].by \in Users \ {Admin} /\ db.invite[i].status # "ACTIVE"
    BY <1>2 DEF Tables, InviteRow, OneInviteEach
<1>4. \A i, j \in Invites : db.invite[i].by = db.invite[j].by /\ db.invite[i].by # Nobody => i = j
    BY <1>2 DEF OneInviteEach
<1> DEFINE spent == {<<db.invite[i].by, i>> : i \in {j \in Invites : db.invite[j].by # Nobody}}
<1>5. spent \in SUBSET ((Users \ {Admin}) \X Invites)
    BY <1>3
<1>6. \A x, y \in spent : x[1] = y[1] \/ x[2] = y[2] => x = y
    BY <1>4
<1>7. {i \in Invites : db.invite[i].status = "ACTIVE"} \cap Admissions!Gone = {}
    BY <1>3, HoldersAre
<1>8. {u \in Users \ {Admin} : db.user[u].home} = Admissions!Holders
    BY <1>2, <1>3, HoldersAre
<1> QED BY <1>5, <1>6, <1>7, <1>8 DEF Admissions!Init

LEMMA TablesOrServe ==
    ASSUME Next
    PROVE  db' = db \/ \E k \in DOMAIN calls : Serve(k)
<1>1. ASSUME NEW k, NEW f, NEW after, Then(k, f, after)
      PROVE  db' = db
    BY <1>1 DEF Then
<1>2. ASSUME NEW k \in DOMAIN calls, Step(k)
      PROVE  db' = db \/ Serve(k)
    BY <1>1, <1>2 DEF Step, PageArrives, InviteVerified, Registered, LoggedIn, CodeRefused, CodeAccepted, CodeConfirmed,
                      TimerFires, SecretShown, LoggedOut, Listed, CommandFailed, ToggleDone, IssueDone, RevokeDone,
                      DeleteDone, DomainsShown, Reload
<1> QED BY <1>2 DEF Next, Working, Debounced, Act, Lose

\* What a step of a handler means for Admission.
LEMMA MovesAdmit ==
    ASSUME IndInv, NEW k \in DOMAIN calls, Moves(calls[k], db'), db' \in Tables
    PROVE  Admissions!Next \/ UNCHANGED Admissions!vars
<1> DEFINE c == calls[k]
           open   == {i \in Invites : db.invite[i].status = "ACTIVE"}
           spent  == {<<db.invite[i].by, i>> : i \in {j \in Invites : db.invite[j].by # Nobody}}
           member == {u \in Users \ {Admin} : db.user[u].home}
<1>1. /\ db \in Tables /\ Nobody \notin Users
      /\ \A i \in Invites : db.invite[i].by # Nobody => /\ db.invite[i].status \notin {"unissued", "ACTIVE"}
                                                        /\ db.invite[i].by \in Users \ {Admin}
    BY PeopleAreNamed DEF IndInv, TypesInv, AdmissionInv, OneInviteEach, Tables, InviteRow
<1>2. \A i \in Admissions!Gone : i \in Invites /\ db.invite[i].by # Nobody
    BY HoldersAre
<1>3. Homes(db') => member' = member
    <2>1. ASSUME Homes(db')
          PROVE  \A u \in Users : db'.user[u].home = db.user[u].home
        BY <2>1 DEF Homes
    <2> QED BY <2>1
<1>4. (\A i \in Invites : db'.invite[i].by = db.invite[i].by) => spent' = spent
    <2>1. ASSUME \A i \in Invites : db'.invite[i].by = db.invite[i].by
          PROVE  spent' = spent
        <3>1. {j \in Invites : db'.invite[j].by # Nobody} = {j \in Invites : db.invite[j].by # Nobody}
            BY <2>1
        <3> QED BY <2>1, <3>1
    <2> QED BY <2>1
<1>10. /\ \A ts \in SUBSET Invites : Admissions!Issue(ts) \/ Admissions!Withdraw(ts) => Admissions!Next
       /\ \A p \in Users \ {Admin} : Admissions!Join(p) => Admissions!Next
       /\ \A p \in Users \ {Admin} : \A i \in Invites : Admissions!Spend(p, i) => Admissions!Next
    BY DEF Admissions!Next
<1>5. CASE db'.invite = db.invite /\ Homes(db')
    BY <1>3, <1>4, <1>5 DEF Admissions!vars
<1>6. CASE /\ \E i \in Invites : db.invite[i].status = "unissued" /\ db'.invite = [db.invite EXCEPT ![i].status = "ACTIVE"]
           /\ Homes(db')
    <2>1. PICK i \in Invites : db.invite[i].status = "unissued" /\ db'.invite = [db.invite EXCEPT ![i].status = "ACTIVE"]
        BY <1>6
    <2>2. /\ db'.invite[i].status = "ACTIVE" /\ db'.invite[i].by = db.invite[i].by
          /\ \A j \in Invites \ {i} : db'.invite[j] = db.invite[j]
        BY <1>1, <2>1 DEF Tables, InviteRow
    <2>3. member' = member /\ spent' = spent
        BY <1>3, <1>4, <1>6, <2>2
    <2>4. open' = open \cup {i}
        BY <2>2
    <2>5. {i} \cap (open \cup Admissions!Gone) = {}
        BY <1>1, <1>2, <2>1
    <2>6. Admissions!Issue({i})
        BY <2>3, <2>4, <2>5 DEF Admissions!Issue
    <2> QED BY <1>10, <2>1, <2>6
<1>7. CASE /\ \A i \in Invites : /\ db'.invite[i].by = db.invite[i].by
                                 /\ db'.invite[i].status = "ACTIVE" => db.invite[i].status = "ACTIVE"
           /\ Homes(db')
    <2>1. member' = member /\ spent' = spent
        BY <1>3, <1>4, <1>7
    <2>2. \E ts \in SUBSET Invites : open' = open \ ts
        <3>1. open' = open \ (open \ open') /\ open \ open' \in SUBSET Invites
            BY <1>7
        <3> QED BY <3>1
    <2>3. PICK ts \in SUBSET Invites : open' = open \ ts
        BY <2>2
    <2>4. Admissions!Withdraw(ts)
        BY <2>1, <2>3 DEF Admissions!Withdraw
    <2> QED BY <1>10, <2>4
<1>8. CASE /\ c.at = "created" /\ c.fn = "register" /\ db.invite[c.what].status = "ACTIVE"
           /\ db'.invite = [db.invite EXCEPT ![c.what] = [status |-> "USED", by |-> c.who]] /\ Homes(db')
    <2>0. /\ c.what \in Invites /\ c.who \in Users \ {Admin} /\ \A j \in Invites : db.invite[j].by # c.who
        BY <1>8 DEF IndInv, TypesInv, CallOK, Stage, Arguments, AdmissionInv
    <2>1. PICK p \in Users \ {Admin}, i \in Invites :
              p = c.who /\ i = c.what /\ \A j \in Invites : db.invite[j].by # p
        BY <2>0
    <2>2. db.invite[i].status = "ACTIVE" /\ db'.invite = [db.invite EXCEPT ![i] = [status |-> "USED", by |-> p]]
        BY <1>8, <2>1
    <2>3. /\ db'.invite[i].status = "USED" /\ db'.invite[i].by = p
          /\ \A j \in Invites \ {i} : db'.invite[j] = db.invite[j]
        BY <1>1, <2>1, <2>2 DEF Tables
    <2>4. i \in open /\ open' = open \ {i}
        BY <2>1, <2>2, <2>3
    <2>5. spent' = spent \cup {<<p, i>>}
        <3> DEFINE J  == {j \in Invites : db.invite[j].by # Nobody}
                   J2 == {j \in Invites : db'.invite[j].by # Nobody}
        <3>1. J2 = J \cup {i} /\ i \notin J /\ J \subseteq Invites
            BY <1>1, <2>1, <2>2, <2>3
        <3> HIDE DEF J, J2
        <3>2. {<<db'.invite[j].by, j>> : j \in J2} = {<<db.invite[j].by, j>> : j \in J} \cup {<<p, i>>}
            BY <2>3, <3>1
        <3> QED BY <3>2 DEF J, J2
    <2>6. p \notin Admissions!Holders
        BY <2>1, HoldersAre
    <2>7. member' = member
        BY <1>3, <1>8
    <2>8. Admissions!Spend(p, i)
        BY <2>4, <2>5, <2>6, <2>7 DEF Admissions!Spend
    <2> QED BY <1>10, <2>1, <2>8
<1>9. CASE /\ c.at = "consumed" /\ c.fn = "register" /\ db'.invite = db.invite
           /\ \A u \in Users : db'.user[u].home = (db.user[u].home \/ u = c.who)
    <2>0. /\ c.who \in Users \ {Admin} /\ \E j \in Invites : db.invite[j].by = c.who
        BY <1>9 DEF IndInv, TypesInv, CallOK, Stage, Arguments, AdmissionInv
    <2>1. PICK p \in Users \ {Admin} : p = c.who /\ \E j \in Invites : db.invite[j].by = p
        BY <2>0
    <2>2. \A u \in Users : db'.user[u].home = (db.user[u].home \/ u = p)
        BY <1>9, <2>1
    <2>3. p \in Admissions!Holders
        BY <1>1, <2>1, HoldersAre
    <2>4. member' = member \cup {p}
        BY <2>1, <2>2
    <2>5. open' = open /\ spent' = spent
        BY <1>4, <1>9
    <2>6. Admissions!Join(p)
        BY <2>3, <2>4, <2>5 DEF Admissions!Join
    <2> QED BY <1>10, <2>1, <2>6
<1> QED BY <1>5, <1>6, <1>7, <1>8, <1>9 DEF Moves

LEMMA AdmissionGoesOn ==
    ASSUME IndInv, IndInv', [Next]_vars
    PROVE  [Admissions!Next]_(Admissions!vars)
<1>1. CASE db' = db
    <2>1. UNCHANGED Admissions!vars
        BY <1>1 DEF Admissions!vars
    <2> QED BY <2>1
<1>2. CASE \E k \in DOMAIN calls : Serve(k)
    <2>1. PICK k \in DOMAIN calls : Serve(k)
        BY <1>2
    <2> DEFINE c == calls[k]
    <2>2. CASE c.fn = "page"
        <3>1. db' = db
            BY <2>1, <2>2 DEF Serve, Answers
        <3> QED BY <1>1, <3>1
    <2>3. CASE c.fn # "page"
        <3>1. PICK o \in Outcomes(db, c) : db' = o.db
            BY <2>1, <2>3 DEF Serve
        <3>2. Asked(c)
            BY <2>1, AnsweredCall DEF Asked, Serve
        <3>3. Moves(c, db')
            BY <2>3, <3>1, <3>2, OutcomesTell DEF Tell
        <3>4. db' \in Tables
            BY DEF IndInv, TypesInv
        <3> QED BY <3>3, <3>4, MovesAdmit
    <2> QED BY <2>2, <2>3
<1> QED BY <1>1, <1>2, TablesOrServe DEF vars

\* Registration implements Admission: an account gets a workspace only for an invite that
\* was open when it was spent, no invite makes two, and none makes its account a second.
THEOREM RegistrationAdmits == Spec => ImplementsAdmission
<1>1. Init => Admissions!Init
    BY AdmissionStarts
<1>2. IndInv /\ IndInv' /\ [Next]_vars => [Admissions!Next]_(Admissions!vars)
    BY AdmissionGoesOn
<1> QED BY <1>1, <1>2, InvHolds, PTL DEF Spec, ImplementsAdmission, Admissions!Spec
=============================================================================
