------------------------------- MODULE Portal -------------------------------
(***************************************************************************)
(* How people get in: the pages of app/auth and their forms, the pages of  *)
(* the administrator for users, invites and domains, the guards of the     *)
(* layouts and the cookie, over the handlers of Accounts.                  *)
(*                                                                         *)
(* A tab shows one page; the tabs of a browser share its cookie.  A call   *)
(* is an asynchronous function of a page and the request it waits for.     *)
(***************************************************************************)
EXTENDS Accounts

CONSTANTS
    Tabs, Browsers, Browser,  \* Browser: the one of a tab
    Typed,       \* the passwords that people type
    Sought,      \* whom the search field of the administrator's pages finds
    Starts,      \* what is stored and shown at first, what each tab is used for, and for
                 \* how many actions that send a request or open a page (bound)
    MaxTroubles  \* bound: lost requests and answers

ASSUME PeopleAreNamed == Admin \in Users /\ Nobody \notin Users \cup Invites
ASSUME TabsHaveBrowsers == IsFiniteSet(Tabs) /\ Browser \in [Tabs -> Browsers]
ASSUME CodesHaveDigits == OtpLength \in Nat \ {0} /\ CodeOf \in Seq(Codes)
ASSUME FieldsAreFilled == Typed \subseteq Password /\ Sought \subseteq Users /\ MaxTroubles \in Nat

VARIABLES db, jar, tab, calls, clicks, troubles, may

vars == <<db, jar, tab, calls, clicks, troubles, may>>

AdminRoutes == {"users", "invites", "domains"}
Routes == {"login", "register", "2fa", "cabinet"} \cup AdminRoutes

\* What is stored at first: an invite made one account, and that one has a workspace.
ASSUME StartsAreStates ==
    \A s \in Starts :
        /\ s.db \in Tables /\ OneInviteEach(s.db) /\ s.jar \in [Browsers -> Tokens(s.db)]
        /\ \A u \in Users \ {Admin} : s.db.user[u].home <=> \E i \in Invites : s.db.invite[i].by = u
        /\ s.route \in [Tabs -> Routes] /\ s.clicks \in [Tabs -> Nat]
OtpStatus == {"idle", "verifying", "success", "error"}

UserLine == [who : Users, blocked : BOOLEAN, studio : BOOLEAN]
InviteLine == [id : Invites, status : {"ACTIVE", "USED", "REVOKED"}]

\* The state of the page that is shown.  q: the search field is filled in; due: the
\* timer of the search runs; rows: the list of the page.
Page == [route : Routes, email : Users \cup {Nobody}, need : BOOLEAN, code : Codes, tried : Codes,
         otp : OtpStatus, loading : BOOLEAN, invite : Invites \cup {Nobody}, invited : BOOLEAN,
         secret : Secrets, q : BOOLEAN, due : BOOLEAN,
         rows : (SUBSET Domains) \cup (SUBSET UserLine) \cup (SUBSET InviteLine),
         ticked : SUBSET Invites, fresh : SUBSET Invites, saved : BOOLEAN]

Blank(route) ==
    [route |-> route, email |-> Nobody, need |-> FALSE, code |-> <<>>, tried |-> <<>>, otp |-> "idle",
     loading |-> route \in {"2fa", "users", "invites"}, invite |-> Nobody, invited |-> FALSE,
     secret |-> 0, q |-> FALSE, due |-> route \in {"users", "invites"}, rows |-> {},
     ticked |-> {}, fresh |-> {}, saved |-> FALSE]

-----------------------------------------------------------------------------
(* Calls.                                                                  *)

\* live: the page that made the call is still there.
New(t, fn) ==
    [tab |-> t, fn |-> fn, at |-> "sent", token |-> jar[Browser[t]], live |-> TRUE, to |-> "login",
     who |-> Nobody, what |-> Nobody, flag |-> FALSE, set |-> {}, pwd |-> NoPassword, code |-> <<>>,
     reply |-> NoReply]

\* router.push with router.refresh: a later one replaces it.
Push(t, route, cs) ==
    Append([k \in DOMAIN cs |-> [cs[k] EXCEPT !.live = @ /\ ~(cs[k].fn = "page" /\ cs[k].tab = t)]],
           [New(t, "page") EXCEPT !.to = route, !.flag = TRUE])

\* What the page shows: load() of the users and of the invites.
Found(q) == IF q THEN Sought ELSE Users
Load(t, f) == [New(t, IF f.route = "users" THEN "fetchAdminUsers" ELSE "fetchAdminInvites")
               EXCEPT !.set = Found(f.q)]

\* The effects of a page that was just mounted.
Mounted(t, route) ==
    CASE route = "2fa" -> <<New(t, "setupTotp")>>
      [] route = "domains" -> <<New(t, "fetchAuthDomains")>>
      [] OTHER -> <<>>

\* The effect of LoginForm and TotpSetupForm after each render: a full code is sent by
\* itself, once.
OtpShown(f) == f.route = "2fa" \/ (f.route = "login" /\ f.need)
LoginEffect(t, f) ==
    <<[New(t, "otp") EXCEPT !.who = f.email, !.flag = TRUE, !.code = f.code]>>
ConfirmEffect(t, f) == <<[New(t, "confirmTotp") EXCEPT !.code = f.code]>>
\* Mutant: without the ref of the code that was tried.
Untried(t, f) ==
    CASE ~OtpShown(f) \/ f.otp \in {"verifying", "success"} -> [page |-> f, calls |-> <<>>]
      [] OtpShown(f) /\ ~Full(f.code) -> [page |-> f, calls |-> <<>>]
      [] OTHER -> [page |-> [f EXCEPT !.otp = "verifying"],
                   calls |-> IF f.route = "2fa" THEN ConfirmEffect(t, f) ELSE LoginEffect(t, f)]
OtpEffect(t, f) ==
    CASE ~OtpShown(f) -> [page |-> f, calls |-> <<>>]
      [] OtpShown(f) /\ ~Full(f.code) ->
           [page |-> [f EXCEPT !.tried = <<>>, !.otp = IF @ = "error" THEN "idle" ELSE @],
            calls |-> <<>>]
      [] OtpShown(f) /\ Full(f.code) ->
           IF f.code = f.tried \/ f.otp \in {"verifying", "success"} THEN [page |-> f, calls |-> <<>>]
           ELSE [page |-> [f EXCEPT !.tried = f.code, !.otp = "verifying"],
                 calls |-> IF f.route = "2fa" THEN ConfirmEffect(t, f) ELSE LoginEffect(t, f)]

Render(t, f, cs) == /\ tab' = [tab EXCEPT ![t] = OtpEffect(t, f).page]
                    /\ calls' = cs \o OtpEffect(t, f).calls

\* The cookie that an answer sets: a new session, none after a logout, and the one of
\* the request itself from fetchMe and, by middleware.ts, with every page.
Cookie(c, old) ==
    IF \/ ~c.reply.ok \/ c.fn \notin {"login", "otp", "register", "logout", "fetchMe", "page"}
       \/ c.fn = "page" /\ c.token = 0
    THEN old ELSE c.token

\* The call ends with f on its page, if that is still there, and with further calls.
Then(k, f, after) ==
    LET c == calls[k]
    IN  /\ Render(c.tab, IF c.live THEN f ELSE tab[c.tab], after)
        /\ jar' = [jar EXCEPT ![Browser[c.tab]] = Cookie(c, @)]
        /\ UNCHANGED <<db, clicks, troubles, may>>

Rest(k) == RemoveAt(calls, k)
Back(k, fns) == k \in DOMAIN calls /\ calls[k].at = "back" /\ calls[k].fn \in fns
Ended(f) == [f EXCEPT !.loading = FALSE]
Shown(k) == tab[calls[k].tab]

-----------------------------------------------------------------------------
(* Pages and their guards.                                                 *)

Home(is) == IF "admin" \in is THEN "users" ELSE "cabinet"
RedirectAfterLogin(is) == IF "totp" \notin is THEN "2fa" ELSE Home(is)

\* getMe of lib/auth-server.ts: null without a session that the backend accepts.
GetMe(d, token) == IF RequireSession(d, token) THEN [in |-> TRUE, is |-> Signed(d, Owner(d, token)).is]
                   ELSE [in |-> FALSE, is |-> {}]

TotpPage(me)      == IF ~me.in THEN "login" ELSE IF "totp" \in me.is THEN Home(me.is) ELSE "2fa"
CabinetLayout(me) == IF ~me.in THEN "login" ELSE IF "totp" \notin me.is THEN "2fa" ELSE "cabinet"
AdminLayout(me, route) ==
    IF ~me.in THEN "login" ELSE IF "totp" \notin me.is THEN "2fa"
    ELSE IF "admin" \notin me.is THEN "cabinet" ELSE route

\* A layout that is already there is not rendered again, unless refreshed: flag.
Resolve(d, c) ==
    LET me == GetMe(d, c.token)
    IN  CASE c.to \in {"login", "register"} \/ ~c.flag -> c.to
          [] c.flag /\ c.to = "2fa"     -> TotpPage(me)
          [] c.flag /\ c.to = "cabinet" -> CabinetLayout(me)
          [] c.flag /\ c.to \in AdminRoutes -> AdminLayout(me, c.to)

\* The page arrives; the component of the same page keeps its state.
PageArrives(k) ==
    LET c == calls[k]
        gone(cs) == [j \in DOMAIN cs |-> [cs[j] EXCEPT !.live = @ /\ cs[j].tab # c.tab]]
    IN  /\ Back(k, {"page"})
        /\ IF ~c.live \/ c.to = Shown(k).route THEN Then(k, Shown(k), Rest(k))
           ELSE Then(k, Blank(c.to), gone(Rest(k)) \o Mounted(c.tab, c.to))

-----------------------------------------------------------------------------
(* Answers to the forms.                                                   *)

\* checkInvite, onSubmit of the registration and the first onSubmit of the login.
InviteVerified(k) ==
    /\ Back(k, {"verifyInvite"})
    /\ Then(k, [Ended(Shown(k)) EXCEPT !.invited = @ \/ calls[k].reply.ok], Rest(k))

Registered(k) ==
    /\ Back(k, {"register"})
    /\ Then(k, Ended(Shown(k)), IF calls[k].reply.ok THEN Push(calls[k].tab, "2fa", Rest(k)) ELSE Rest(k))

\* Mutant: without the finally.
LoggedInLoading(k) ==
    /\ Back(k, {"login"})
    /\ IF calls[k].reply.ok
       THEN Then(k, Ended(Shown(k)),
                 Push(calls[k].tab, RedirectAfterLogin(calls[k].reply.is), Rest(k)))
       ELSE Then(k, Shown(k), Rest(k))
LoggedIn(k) ==
    LET r == calls[k].reply
    IN  /\ Back(k, {"login"})
        /\ IF r.ok
           THEN Then(k, Ended(Shown(k)), Push(calls[k].tab, RedirectAfterLogin(r.is), Rest(k)))
           ELSE Then(k, [Ended(Shown(k)) EXCEPT !.need = @ \/ r.why = "totp_required"], Rest(k))

\* A confirmed code: the form shows it for a moment, or, on the page of the second
\* factor, first asks who the user is.
Goes450(k) == [calls EXCEPT ![k] = [@ EXCEPT !.at = "timer"]]
\* Mutant: the status stays as it was.
CodeRefusedVerifying(k) ==
    /\ Back(k, {"otp", "confirmTotp", "fetchMe"}) /\ ~calls[k].reply.ok
    /\ Then(k, [Shown(k) EXCEPT !.otp = IF @ = "verifying" THEN @ ELSE "error"], Rest(k))
CodeRefused(k) ==
    /\ Back(k, {"otp", "confirmTotp", "fetchMe"}) /\ ~calls[k].reply.ok
    /\ Then(k, [Shown(k) EXCEPT !.otp = "error"], Rest(k))
CodeAccepted(k) ==
    /\ Back(k, {"otp", "fetchMe"}) /\ calls[k].reply.ok
    /\ Then(k, [Shown(k) EXCEPT !.otp = "success"], Goes450(k))
CodeConfirmed(k) ==
    /\ Back(k, {"confirmTotp"}) /\ calls[k].reply.ok
    /\ Then(k, [Shown(k) EXCEPT !.otp = "success"],
               Append(Rest(k), [New(calls[k].tab, "fetchMe") EXCEPT !.live = calls[k].live]))

\* Mutant: an unmounted or a remounted form is left alone, and so is any other.
TimerStops(k) ==
    /\ k \in DOMAIN calls /\ calls[k].at = "timer"
    /\ calls' = Rest(k) /\ UNCHANGED <<db, jar, tab, clicks, troubles, may>>
\* The timer runs on although the page may have been left.
TimerFires(k) ==
    /\ k \in DOMAIN calls /\ calls[k].at = "timer"
    /\ calls' = Push(calls[k].tab, IF calls[k].fn = "otp" THEN RedirectAfterLogin(calls[k].reply.is)
                                   ELSE Home(calls[k].reply.is), Rest(k))
    /\ UNCHANGED <<db, jar, tab, clicks, troubles, may>>

SecretShown(k) ==
    /\ Back(k, {"setupTotp"})
    /\ Then(k, [Ended(Shown(k)) EXCEPT !.secret = calls[k].reply.secret], Rest(k))

LoggedOut(k) ==
    /\ Back(k, {"logout"})
    /\ Then(k, Shown(k), IF calls[k].reply.ok THEN Push(calls[k].tab, "login", Rest(k)) ELSE Rest(k))

-----------------------------------------------------------------------------
(* Answers to the pages of the administrator.                              *)

Listed(k) ==
    /\ Back(k, {"fetchAdminUsers", "fetchAdminInvites"})
    /\ Then(k, [Ended(Shown(k)) EXCEPT !.rows = IF calls[k].reply.ok THEN calls[k].reply.rows ELSE @],
            Rest(k))

\* A command was carried out: f is the page after it, which reads its list once more
\* with the search of the render the command was started in.
Reload(k, f, fn) ==
    Then(k, [f EXCEPT !.loading = TRUE],
         Append(Rest(k), [New(calls[k].tab, fn) EXCEPT !.set = calls[k].set, !.live = calls[k].live]))

Commands == {"setAdminUserBlocked", "setAdminUserStudioAccess", "issueAdminInvites",
             "revokeAdminInvite"}
CommandFailed(k) ==
    /\ Back(k, Commands \cup {"deleteAdminInvites"}) /\ ~calls[k].reply.ok
    /\ Then(k, Shown(k), Rest(k))

ToggleDone(k) == /\ Back(k, {"setAdminUserBlocked", "setAdminUserStudioAccess"})
                 /\ calls[k].reply.ok /\ Reload(k, Shown(k), "fetchAdminUsers")
IssueDone(k)  == /\ Back(k, {"issueAdminInvites"}) /\ calls[k].reply.ok
                 /\ Reload(k, [Shown(k) EXCEPT !.fresh = calls[k].reply.rows], "fetchAdminInvites")
RevokeDone(k) == /\ Back(k, {"revokeAdminInvite"}) /\ calls[k].reply.ok
                 /\ Reload(k, [Shown(k) EXCEPT !.ticked = @ \ {calls[k].what}], "fetchAdminInvites")
\* bulkDelete drops every tick, also one that was made meanwhile.
DeleteDone(k) ==
    /\ Back(k, {"deleteAdminInvites"}) /\ calls[k].reply.ok
    /\ Then(k, [Shown(k) EXCEPT !.ticked = {}, !.fresh = @ \ calls[k].set, !.loading = TRUE],
            Append(Rest(k), [New(calls[k].tab, "fetchAdminInvites") EXCEPT
                                 !.set = Found(calls[k].flag), !.live = calls[k].live]))

DomainsShown(k) ==
    /\ Back(k, {"fetchAuthDomains", "saveAuthDomains"})
    /\ Then(k, [Shown(k) EXCEPT !.rows = IF calls[k].reply.ok THEN calls[k].reply.rows ELSE @,
                                !.saved = @ \/ (calls[k].fn = "saveAuthDomains" /\ calls[k].reply.ok)],
            Rest(k))

\* The timer of the search field.
Debounced(t) ==
    /\ tab[t].due
    /\ Render(t, [tab[t] EXCEPT !.due = FALSE, !.loading = TRUE], Append(calls, Load(t, tab[t])))
    /\ UNCHANGED <<db, jar, clicks, troubles, may>>

-----------------------------------------------------------------------------
(* The backend.                                                            *)

Waiting == {"back", "timer"}
Serve(k) ==
    LET c == calls[k]
    IN  /\ k \in DOMAIN calls /\ c.at \notin Waiting
        /\ \E o \in IF c.fn = "page"
                    THEN Answers(db, [c EXCEPT !.to = Resolve(db, c)], Ok({})) ELSE Outcomes(db, c) :
              db' = o.db /\ calls' = [calls EXCEPT ![k] = o.call]
        /\ UNCHANGED <<jar, tab, clicks, troubles, may>>

\* A request or its answer is lost, or its handler stops: apiFetch throws.  A page is
\* then loaded by the browser.
Lose(k) ==
    /\ k \in DOMAIN calls /\ calls[k].at # "timer" /\ calls[k].fn # "page"
    /\ calls[k].reply.ok \/ calls[k].at # "back"
    /\ troubles < MaxTroubles /\ troubles' = troubles + 1
    /\ calls' = [calls EXCEPT ![k] = [@ EXCEPT !.at = "back", !.reply = Err("error")]]
    /\ UNCHANGED <<db, jar, tab, clicks, may>>

-----------------------------------------------------------------------------
(* What people do.                                                         *)

Set(t, f) == Render(t, f, calls)
Send(t, f, c) == Render(t, f, Append(calls, c))
On(t, routes) == tab[t].route \in routes

\* RegisterForm before an invite was accepted, and after.
SetInvite(t, i) == /\ On(t, {"register"}) /\ ~tab[t].invited /\ i # tab[t].invite
                   /\ Set(t, [tab[t] EXCEPT !.invite = i])
CheckInvite(t) ==
    /\ On(t, {"register"}) /\ ~tab[t].invited /\ ~tab[t].loading /\ tab[t].invite # Nobody
    /\ Send(t, [tab[t] EXCEPT !.loading = TRUE],
            [New(t, "verifyInvite") EXCEPT !.what = tab[t].invite])

\* canSubmit; the button that makes up a password fills in both fields.
CanSubmit(pwd, confirm) == /\ IsPasswordValid(CheckPasswordRules(pwd))
                           /\ confirm # NoPassword /\ pwd = confirm
RegisterOffered(f, pwd, confirm) ==
    f.route = "register" /\ f.invited /\ ~f.loading /\ CanSubmit(pwd, confirm)
Register(t, u, pwd, confirm) ==
    /\ RegisterOffered(tab[t], pwd, confirm) /\ ValidatePassword(pwd) = {}
    /\ Send(t, [tab[t] EXCEPT !.loading = TRUE],
            [New(t, "register") EXCEPT !.who = u, !.what = tab[t].invite, !.pwd = pwd])

LoginOffered(f) == f.route = "login" /\ ~f.need /\ ~f.loading
\* LoginForm: the address can be changed at any time.
SetEmail(t, u) == /\ On(t, {"login"}) /\ u # tab[t].email
                  /\ Set(t, [tab[t] EXCEPT !.email = u])
Login(t, right) ==
    /\ LoginOffered(tab[t]) /\ tab[t].email # Nobody
    /\ Send(t, [tab[t] EXCEPT !.loading = TRUE],
            [New(t, "login") EXCEPT !.who = tab[t].email, !.flag = right])

\* The cells of TotpSetupForm need a secret.
CellsOffered(f) == OtpShown(f) /\ ~CellsDisabled(f.otp, f.route = "2fa" /\ f.secret = 0)
TypeCode(t) ==
    /\ CellsOffered(tab[t])
    /\ \E code \in Typings(tab[t].code) \ {tab[t].code} : Set(t, [tab[t] EXCEPT !.code = code])

\* The links of LoginForm, RegisterForm, AppShell and AdminShell.
LoginLinks(f)    == IF f.route = "login" THEN {"register"} ELSE {}
RegisterLinks(f) == IF f.route = "register" /\ ~f.invited THEN {"login"} ELSE {}
AppShellLinks(f) == IF f.route = "cabinet" THEN {"users"} ELSE {}
AdminShellLinks(f) == IF f.route \in AdminRoutes THEN {"cabinet"} \cup (AdminRoutes \ {f.route}) ELSE {}
Open(t, route) ==
    LET f == tab[t]
        within == {f.route, route} \subseteq AdminRoutes
        cs == Push(t, route, calls)
    IN  /\ route \in LoginLinks(f) \cup RegisterLinks(f) \cup AppShellLinks(f) \cup AdminShellLinks(f)
        /\ Render(t, f, [cs EXCEPT ![Len(cs)] = [@ EXCEPT !.flag = ~within]])

HandleLogout(t) == On(t, AdminRoutes \cup {"cabinet"}) /\ Send(t, tab[t], New(t, "logout"))

\* The search fields.  A filter of the invites drops the ticks.
SetQuery(t) ==
    /\ On(t, {"users", "invites"})
    /\ Set(t, [tab[t] EXCEPT !.q = ~@, !.due = TRUE, !.ticked = {}])

UserRows(t)   == IF On(t, {"users"}) /\ ~tab[t].loading THEN tab[t].rows ELSE {}
InviteRows(t) == IF On(t, {"invites"}) /\ ~tab[t].loading THEN tab[t].rows ELSE {}

ToggleBlock(t) ==
    \E row \in UserRows(t) :
        /\ row.who # Admin
        /\ Send(t, tab[t], [New(t, "setAdminUserBlocked") EXCEPT
                                !.who = row.who, !.flag = ~row.blocked, !.set = Found(tab[t].q)])
ToggleStudio(t) ==
    \E row \in UserRows(t) :
        /\ row.who # Admin
        /\ Send(t, tab[t], [New(t, "setAdminUserStudioAccess") EXCEPT
                                !.who = row.who, !.flag = ~row.studio, !.set = Found(tab[t].q)])

IssueInvite(t) ==
    On(t, {"invites"}) /\ Send(t, tab[t], [New(t, "issueAdminInvites") EXCEPT !.set = Found(tab[t].q)])
Revoke(t) ==
    \E row \in InviteRows(t) :
        /\ row.status = "ACTIVE"
        /\ Send(t, tab[t], [New(t, "revokeAdminInvite") EXCEPT !.what = row.id, !.set = Found(tab[t].q)])

ToggleOne(t) ==
    \E row \in InviteRows(t) :
        Set(t, [tab[t] EXCEPT !.ticked = IF row.id \in @ THEN @ \ {row.id} ELSE @ \cup {row.id}])
\* The box in the head of the table is there also while the list is read.
ToggleAll(t) ==
    LET ids == {row.id : row \in tab[t].rows}
    IN  /\ On(t, {"invites"})
        /\ Set(t, [tab[t] EXCEPT !.ticked = IF ids # {} /\ ids \subseteq @ THEN {} ELSE ids])
DeleteOffered(f) == f.route = "invites" /\ f.ticked # {}
BulkDelete(t) ==
    /\ DeleteOffered(tab[t])
    /\ Send(t, tab[t], [New(t, "deleteAdminInvites") EXCEPT !.set = tab[t].ticked, !.flag = tab[t].q])

EditDomains(t) ==
    /\ On(t, {"domains"})
    /\ \E d \in Domains :
          Set(t, [tab[t] EXCEPT !.rows = IF d \in @ THEN @ \ {d} ELSE @ \cup {d}])
SaveDomains(t) ==
    On(t, {"domains"}) /\ Send(t, [tab[t] EXCEPT !.saved = FALSE],
                               [New(t, "saveAuthDomains") EXCEPT !.set = tab[t].rows])

-----------------------------------------------------------------------------
(* The specification.                                                      *)

Families == {"join", "enter", "code", "go", "leave", "users", "invites", "domains"}

Does(t, family) ==
    \/ family = "join" /\ \/ \E i \in Invites : SetInvite(t, i)
                          \/ CheckInvite(t)
                          \/ \E u \in Users, pwd, confirm \in Typed \cup {GenerateSecurePassword} :
                                Register(t, u, pwd, confirm)
    \/ family = "enter" /\ ((\E u \in Users : SetEmail(t, u)) \/ \E right \in BOOLEAN : Login(t, right))
    \/ family = "code" /\ TypeCode(t)
    \/ family = "go" /\ \E route \in Routes : Open(t, route)
    \/ family = "leave" /\ HandleLogout(t)
    \/ family = "users" /\ (SetQuery(t) \/ ToggleBlock(t) \/ ToggleStudio(t))
    \/ family = "invites" /\ \/ SetQuery(t) \/ IssueInvite(t) \/ Revoke(t)
                             \/ ToggleOne(t) \/ ToggleAll(t) \/ BulkDelete(t)
    \/ family = "domains" /\ (EditDomains(t) \/ SaveDomains(t))

\* Filling in a field costs nothing.
Act(t) ==
    /\ \E family \in may[t] : Does(t, family)
    /\ clicks' = IF Len(calls') > Len(calls) \/ tab'[t].q # tab[t].q
                  THEN [clicks EXCEPT ![t] = @ - 1] ELSE clicks
    /\ clicks'[t] >= 0
    /\ UNCHANGED <<db, jar, troubles, may>>

\* What pages and backend do by themselves.
Step(k) ==
    \/ Serve(k) \/ PageArrives(k) \/ InviteVerified(k) \/ Registered(k) \/ LoggedIn(k)
    \/ CodeRefused(k) \/ CodeAccepted(k) \/ CodeConfirmed(k) \/ TimerFires(k) \/ SecretShown(k)
    \/ LoggedOut(k) \/ Listed(k) \/ CommandFailed(k) \/ ToggleDone(k) \/ IssueDone(k)
    \/ RevokeDone(k) \/ DeleteDone(k) \/ DomainsShown(k)
Working == \/ \E k \in DOMAIN calls : Step(k)
           \/ \E t \in Tabs : Debounced(t)

Next == \/ Working
        \/ \E t \in Tabs : Act(t)
        \/ \E k \in DOMAIN calls : Lose(k)

Init == \E s \in Starts :
           /\ db = s.db /\ jar = s.jar /\ may = s.may
           /\ tab = [t \in Tabs |-> Blank(s.route[t])]
           /\ LET asking == {t \in Tabs : Mounted(t, s.route[t]) # <<>>}
              IN  calls = [i \in 1..Cardinality(asking) |->
                              LET t == SetToSeq(asking)[i] IN Mounted(t, s.route[t])[1]]
           /\ clicks = s.clicks /\ troubles = 0

\* A request that is under way ends, and a timer fires.
Spec == Init /\ [][Next]_vars /\ WF_vars(Working)

-----------------------------------------------------------------------------
(* Properties.                                                             *)

CallType == [tab : Tabs, live : BOOLEAN, token : Tokens(db), to : Routes, who : Users \cup {Nobody},
             fn : PublicFns \cup AccountFns \cup AdminFns \cup {"page"}, flag : BOOLEAN, code : Codes]

\* Every variable holds a value of its kind.
TypeOK ==
    /\ db \in Tables /\ jar \in [Browsers -> Tokens(db)] /\ tab \in [Tabs -> Page]
    /\ \A k \in DOMAIN calls :
         [tab |-> calls[k].tab, live |-> calls[k].live, token |-> calls[k].token, to |-> calls[k].to,
          who |-> calls[k].who, fn |-> calls[k].fn, flag |-> calls[k].flag, code |-> calls[k].code]
         \in CallType
    /\ clicks \in [Tabs -> Nat] /\ troubles \in 0..MaxTroubles

Admissions == INSTANCE Admission WITH
    People  <- Users \ {Admin},
    Tickets <- Invites,
    open    <- {i \in Invites : db.invite[i].status = "ACTIVE"},
    spent   <- {<<db.invite[i].by, i>> : i \in {j \in Invites : db.invite[j].by # Nobody}},
    member  <- {u \in Users \ {Admin} : db.user[u].home}

\* Registration implements Admission: however two registrations, a revocation and a
\* failure between their statements interleave, a workspace costs an open invite, and
\* an invite makes one workspace.
ImplementsAdmission == Admissions!Spec

Verifications(t) == {k \in DOMAIN calls : /\ calls[k].fn \in {"otp", "confirmTotp"} /\ calls[k].live
                                          /\ calls[k].at # "timer" /\ calls[k].tab = t}

\* A form shows that a code is being verified exactly while one request for it is
\* under way: it neither sends two nor waits for none.
OneVerificationAtATime ==
    \A t \in Tabs : Cardinality(Verifications(t)) = (IF tab[t].otp = "verifying" THEN 1 ELSE 0)

\* A code is sent when it is typed, never again by a render after an answer: wrong
\* codes do not use up the tries of the rate limit.
CodesAreSentOnce ==
    [][\A t \in Tabs : Cardinality(Verifications(t)') > Cardinality(Verifications(t))
                          => tab'[t].code # tab[t].code]_vars

\* Whichever way a login and a block of the same user interleave, and whatever cookie a
\* late page puts back, a request gets past the middleware and a guarded page is
\* rendered only for a user who is not blocked at that time.
BlockedUsersAreOut ==
    [][\A k \in DOMAIN calls :
          LET c == calls[k]
          IN  (/\ c.token # 0 /\ c.at = "sent" /\ db.user[Owner(db, c.token)].blocked
               /\ DOMAIN calls' = DOMAIN calls /\ calls'[k].at # "sent"
               /\ \A j \in DOMAIN calls \ {k} : calls'[j] = calls[j])
              => CASE c.fn = "page" -> calls'[k].to \in {"login", "register"} \/ ~c.flag
                   [] c.fn \in PublicFns -> TRUE
                   [] OTHER -> ~calls'[k].reply.ok /\ calls'[k].at = "back"]_vars

\* What the page lets through, the backend accepts, as far as both count the same
\* characters; and the meter calls it at least good.
OfferedPasswordsAreAccepted ==
    \A k \in DOMAIN calls : calls[k].fn = "register" =>
        LET pwd == calls[k].pwd
        IN  (pwd.units = pwd.runes => Validate(pwd)) /\ Hints(pwd).bars >= 3 /\ Hints(pwd).unmet = {}

\* No failure leaves a form or a list loading, or a code being verified: whatever has
\* happened, there comes a time when none is.  (With bounded clicks: for good.)
FormsEnd == []<>(\A t \in Tabs : ~tab[t].loading /\ tab[t].otp # "verifying")

\* No form stays at success when nobody logs out meanwhile: it leads on, unless its
\* user is blocked or, in the second tab of a setup, the secret it showed is replaced.
Stays(f, token) == /\ f.otp = "success" /\ RequireSession(db, token)
                   /\ f.route = "2fa" => f.secret = db.user[Owner(db, token)].secret
SuccessLeadsOn == [](\A k \in DOMAIN calls : calls[k].fn # "logout")
                      => []<>(\A t \in Tabs : ~Stays(tab[t], jar[Browser[t]]))
=============================================================================
