------------------------------ MODULE Accounts ------------------------------
(***************************************************************************)
(* Accounts, invites and sessions: the tables of migration 001 and the     *)
(* handlers of service/auth.go behind the middleware of httpapi/router.go. *)
(* A handler runs in the steps between which another request may be        *)
(* served: Outcomes(d, c) is what the next step of call c may make of the  *)
(* tables and of the call.                                                 *)
(***************************************************************************)
EXTENDS OtpCells, PasswordPolicy

CONSTANTS
    Users, Admin,  \* e-mail addresses, and the reserved one of the platform administrator
    Invites,
    Domains, DomainOf,  \* the domains, and that of an address
    CodeOf,        \* the one-time code of the n-th secret
    Nobody         \* null

Secrets == 0..Len(CodeOf)   \* 0: none was set up

UserRow == [here : BOOLEAN, blocked : BOOLEAN, studio : BOOLEAN, totp : BOOLEAN,
            secret : Secrets, home : BOOLEAN]
\* by is kept when a row is deleted: history.
InviteRow == [status : {"unissued", "ACTIVE", "USED", "REVOKED", "deleted"},
              by : Users \cup {Nobody}]
Session == [user : Users, revoked : BOOLEAN]
Tables == [user : [Users -> UserRow], invite : [Invites -> InviteRow],
           session : Seq(Session), secrets : Secrets, domains : SUBSET Domains]

Tokens(d) == 0..Len(d.session)   \* a session, or 0 for no cookie

\* Who used an invite has an account, and used no other.
OneInviteEach(d) ==
    /\ \A i \in Invites : LET row == d.invite[i] IN
          row.by # Nobody => /\ row.status \notin {"unissued", "ACTIVE"}
                             /\ row.by # Admin /\ d.user[row.by].here
    /\ \A i, j \in Invites : d.invite[i].by = d.invite[j].by /\ d.invite[i].by # Nobody => i = j

-----------------------------------------------------------------------------
(* Calls and the ways they go on.                                          *)

\* what, who, flag, set, pwd, code: the arguments.

\* is: what the account of the answer is; the other fields are its data.
Ok(rows)   == [ok |-> TRUE, why |-> "", is |-> {}, secret |-> 0, rows |-> rows]
Err(why)   == [Ok({}) EXCEPT !.ok = FALSE, !.why = why]
Signed(d, u) == [Ok({}) EXCEPT !.is = (IF d.user[u].totp THEN {"totp"} ELSE {})
                                      \cup (IF u = Admin THEN {"admin"} ELSE {})]
NoReply  == Err("none")

Goes(d, c, at)      == {[db |-> d, call |-> [c EXCEPT !.at = at]]}
Answers(d, c, r)    == {[db |-> d, call |-> [c EXCEPT !.at = "back", !.reply = r]]}
Refuses(d, c, why)  == Answers(d, c, Err(why))

\* issue: a session and its token, which the answer puts into the cookie jar.
Issue(d, c, u) ==
    {[db |-> [d EXCEPT !.session = Append(@, [user |-> u, revoked |-> FALSE])],
      call |-> [c EXCEPT !.at = "back", !.reply = Signed(d, u), !.token = Len(d.session) + 1]]}

Allowed(d, u) == u = Admin \/ DomainOf[u] \in d.domains

\* Mutant: the session alone decides.
RequireSessionOnly(d, token) == token # 0 /\ ~d.session[token].revoked
\* RequireSession: the account is looked at again, whatever the session says.
RequireSession(d, token) ==
    token # 0 /\ ~d.user[d.session[token].user].blocked /\ ~d.session[token].revoked
Owner(d, token) == d.session[token].user
RequireTotp(d, token)  == d.user[Owner(d, token)].totp
RequireAdmin(d, token) == Owner(d, token) = Admin

-----------------------------------------------------------------------------
(* Registration, login and logout.                                         *)

GetActiveByHash(d, i) == d.invite[i].status = "ACTIVE"
VerifyInvite(d, c) == IF GetActiveByHash(d, c.what) THEN Answers(d, c, Ok({}))
                      ELSE Refuses(d, c, "invite_invalid")

RegisterRead(d, c) ==
    LET refused == \/ c.who = Admin \/ ~Allowed(d, c.who) \/ ~Validate(c.pwd)
                   \/ ~GetActiveByHash(d, c.what) \/ d.user[c.who].here
    IN  IF refused THEN Refuses(d, c, "refused") ELSE Goes(d, c, "checked")

\* The address is unique and the invite a foreign key.
CreateUser(d, c) ==
    IF d.user[c.who].here \/ d.invite[c.what].status = "deleted" THEN Refuses(d, c, "internal")
    ELSE Goes([d EXCEPT !.user[c.who].here = TRUE], c, "created")

Spent(d, i, u) == [d EXCEPT !.invite[i] = [status |-> "USED", by |-> u]]
\* Mutant: the status is not asked for again.
ConsumeAnyway(d, c) == Goes(Spent(d, c.what, c.who), c, "consumed")
Consume(d, c) ==
    IF d.invite[c.what].status = "ACTIVE" THEN Goes(Spent(d, c.what, c.who), c, "consumed")
    ELSE Refuses(d, c, "internal")

CreateWithOwner(d, c) == Issue([d EXCEPT !.user[c.who].home = TRUE], c, c.who)

\* flag: whether the password is right; code: the one-time code or <<>>.
LoginRead(d, c) ==
    LET row == d.user[c.who]
    IN  CASE ~Allowed(d, c.who) \/ ~row.here \/ row.blocked \/ ~c.flag -> Refuses(d, c, "invalid")
          [] OTHER -> IF row.totp /\ c.code = <<>> THEN Refuses(d, c, "totp_required")
                      ELSE IF row.totp /\ c.code # CodeOf[row.secret] THEN Refuses(d, c, "invalid")
                      ELSE Goes(d, c, "passed")

\* The cookie of the answer is empty.
Logout(d, c) ==
    Answers(IF c.token = 0 THEN d ELSE [d EXCEPT !.session[c.token].revoked = TRUE],
            [c EXCEPT !.token = 0], Ok({}))

-----------------------------------------------------------------------------
(* The second factor.                                                      *)

SetupRead(d, c) ==
    IF d.user[Owner(d, c.token)].totp THEN Refuses(d, c, "totp_already_enabled")
    ELSE Goes(d, c, "read")

\* SetTotpSecret also clears totp_enabled_at.  Len(CodeOf) bounds the secrets.
SetTotpSecret(d, c) ==
    IF d.secrets = Len(CodeOf) THEN Refuses(d, c, "internal")
    ELSE Answers([d EXCEPT !.user[Owner(d, c.token)] = [@ EXCEPT !.secret = d.secrets + 1,
                                                                 !.totp = FALSE],
                           !.secrets = @ + 1],
                 c, [Ok({}) EXCEPT !.secret = d.secrets + 1])

ConfirmRead(d, c) ==
    LET row == d.user[Owner(d, c.token)]
    IN  IF row.totp \/ row.secret = 0 \/ c.code # CodeOf[row.secret] THEN Refuses(d, c, "invalid")
        ELSE Goes(d, c, "verified")

EnableTotp(d, c) == Answers([d EXCEPT !.user[Owner(d, c.token)].totp = TRUE], c, Ok({}))

Me(d, c) == Answers(d, c, Signed(d, Owner(d, c.token)))

-----------------------------------------------------------------------------
(* The administrator's requests.                                           *)

ListUsers(d, c) ==
    Answers(d, c, Ok({[who |-> u, blocked |-> d.user[u].blocked, studio |-> d.user[u].studio] :
                      u \in {v \in c.set : d.user[v].here}}))

SetBlocked(d, c) ==
    LET e == [d EXCEPT !.user[c.who].blocked = c.flag]
    IN  CASE c.who = Admin -> Refuses(d, c, "forbidden")
          [] c.who # Admin /\ c.flag  -> Goes(e, c, "blocked")
          [] c.who # Admin /\ ~c.flag -> Answers(e, c, Ok({}))

RevokeAllForUser(d, c) ==
    Answers([d EXCEPT !.session = [s \in DOMAIN @ |-> IF @[s].user = c.who
                                       THEN [@[s] EXCEPT !.revoked = TRUE] ELSE @[s]]],
            c, Ok({}))

SetStudioAccess(d, c) ==
    IF c.who = Admin THEN Refuses(d, c, "forbidden")
    ELSE Answers([d EXCEPT !.user[c.who].studio = c.flag], c, Ok({}))

\* used_email is a filter on who used the invite.
ListInvites(d, c) ==
    Answers(d, c, Ok({[id |-> i, status |-> d.invite[i].status] :
                      i \in {j \in Invites : /\ d.invite[j].status \notin {"unissued", "deleted"}
                                             /\ c.set # Users => d.invite[j].by \in c.set}}))

\* Codes are random: an id is never given out again.
IssueInvites(d, c) ==
    LET free == {i \in Invites : d.invite[i].status = "unissued"}
    IN  IF free = {} THEN Refuses(d, c, "internal")
        ELSE LET i == CHOOSE i \in free : TRUE
             IN  Answers([d EXCEPT !.invite[i].status = "ACTIVE"], c, Ok({i}))

RevokeInvite(d, c) ==
    IF d.invite[c.what].status # "ACTIVE" THEN Refuses(d, c, "not_found")
    ELSE Answers([d EXCEPT !.invite[c.what].status = "REVOKED"], c, Ok({}))

DeleteInvites(d, c) ==
    IF c.set = {} THEN Refuses(d, c, "invalid_input")
    ELSE Answers([d EXCEPT !.invite = [i \in Invites |->
                     IF i \in c.set THEN [@[i] EXCEPT !.status = "deleted"] ELSE @[i]]], c, Ok({}))

SetAllowedDomains(d, c) ==
    IF c.set = {} THEN Refuses(d, c, "invalid_input")
    ELSE Answers([d EXCEPT !.domains = c.set], c, Ok(c.set))

-----------------------------------------------------------------------------
(* Routing.                                                                *)

PublicFns  == {"verifyInvite", "register", "login", "otp", "logout"}
AccountFns == {"setupTotp", "confirmTotp", "fetchMe"}
AdminFns   == {"fetchAdminUsers", "setAdminUserBlocked", "setAdminUserStudioAccess",
               "fetchAdminInvites", "issueAdminInvites", "revokeAdminInvite",
               "deleteAdminInvites", "fetchAuthDomains", "saveAuthDomains"}

\* The first step of a handler.
Handle(d, c) ==
    CASE c.fn = "verifyInvite" -> VerifyInvite(d, c)
      [] c.fn = "register"     -> RegisterRead(d, c)
      [] c.fn \in {"login", "otp"} -> LoginRead(d, c)
      [] c.fn = "logout"       -> Logout(d, c)
      [] c.fn = "setupTotp"    -> SetupRead(d, c)
      [] c.fn = "confirmTotp"  -> ConfirmRead(d, c)
      [] c.fn = "fetchMe"      -> Me(d, c)
      [] c.fn = "fetchAdminUsers" -> ListUsers(d, c)
      [] c.fn = "setAdminUserBlocked" -> SetBlocked(d, c)
      [] c.fn = "setAdminUserStudioAccess" -> SetStudioAccess(d, c)
      [] c.fn = "fetchAdminInvites"  -> ListInvites(d, c)
      [] c.fn = "issueAdminInvites"  -> IssueInvites(d, c)
      [] c.fn = "revokeAdminInvite"  -> RevokeInvite(d, c)
      [] c.fn = "deleteAdminInvites" -> DeleteInvites(d, c)
      [] c.fn = "fetchAuthDomains"   -> Answers(d, c, Ok(d.domains))
      [] c.fn = "saveAuthDomains"    -> SetAllowedDomains(d, c)

Admitted(d, c) ==
    \/ c.fn \in PublicFns
    \/ c.fn \in AccountFns /\ RequireSession(d, c.token)
    \/ c.fn \in AdminFns /\ RequireSession(d, c.token) /\ RequireTotp(d, c.token)
                         /\ RequireAdmin(d, c.token)

Outcomes(d, c) ==
    CASE c.at = "sent"     -> IF Admitted(d, c) THEN Handle(d, c) ELSE Refuses(d, c, "unauthorized")
      [] c.at = "checked"  -> CreateUser(d, c)
      [] c.at = "created"  -> Consume(d, c)
      [] c.at = "consumed" -> CreateWithOwner(d, c)
      [] c.at = "passed"   -> Issue(d, c, c.who)
      [] c.at = "read"     -> SetTotpSecret(d, c)
      [] c.at = "verified" -> EnableTotp(d, c)
      [] c.at = "blocked"  -> RevokeAllForUser(d, c)
=============================================================================
