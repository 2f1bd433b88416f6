-------------------------- MODULE PortalInvariant --------------------------
(***************************************************************************)
(* The inductive invariant of Portal, for every set of users, invites,     *)
(* domains, tabs and browsers, every length of a code and every bound, and *)
(* that what pages and people do keeps it: every answer, the timers, the   *)
(* arrival of a page and every click.                                      *)
(***************************************************************************)
EXTENDS Portal, SequenceTheorems, FiniteSetTheorems, TLAPS

-----------------------------------------------------------------------------
(* The inductive invariant                                                 *)

Fns    == PublicFns \cup AccountFns \cup AdminFns \cup {"page"}
Places == {"sent", "back", "timer", "checked", "created", "consumed", "passed", "read", "verified",
           "blocked"}
Lines  == SUBSET (UserLine \cup InviteLine \cup Domains \cup Invites)
Reasons == {"", "none", "error", "refused", "internal", "invalid", "invite_invalid", "totp_required",
            "totp_already_enabled", "forbidden", "not_found", "invalid_input", "unauthorized"}
Replies == [ok : BOOLEAN, why : Reasons, is : SUBSET {"totp", "admin"}, secret : Secrets, rows : Lines]
Calls  == [tab : Tabs, fn : Fns, at : Places, token : Nat, live : BOOLEAN, to : Routes,
           who : Users \cup {Nobody}, what : Invites \cup {Nobody}, flag : BOOLEAN,
           set : SUBSET (Users \cup Invites \cup Domains), pwd : Password, code : Codes, reply : Replies]

\* Where a handler can stand, or the page with its timer.
Stage(c) ==
    \/ c.at \in {"sent", "back"}
    \/ c.at = "timer" /\ c.fn \in {"otp", "fetchMe"}
    \/ c.at \in {"checked", "created", "consumed"} /\ c.fn = "register" /\ c.who # Admin
    \/ c.at = "passed" /\ c.fn \in {"login", "otp"}
    \/ c.at = "read" /\ c.fn = "setupTotp" /\ c.token # 0
    \/ c.at = "verified" /\ c.fn = "confirmTotp" /\ c.token # 0
    \/ c.at = "blocked" /\ c.fn = "setAdminUserBlocked"

Accepted(pwd) == CheckPasswordRules(pwd) = Rules

\* The arguments of a call.
Arguments(c) ==
    /\ c.fn \in {"register", "login", "otp", "setAdminUserBlocked", "setAdminUserStudioAccess"} => c.who \in Users
    /\ c.fn \in {"verifyInvite", "register", "revokeAdminInvite"} => c.what \in Invites
    /\ c.fn \in {"fetchAdminUsers", "setAdminUserBlocked", "setAdminUserStudioAccess", "fetchAdminInvites",
                "issueAdminInvites", "revokeAdminInvite"} => c.set \subseteq Users
    /\ c.fn = "deleteAdminInvites" => c.set \subseteq Invites
    /\ c.fn = "saveAuthDomains" => c.set \subseteq Domains
    /\ c.fn = "register" => Accepted(c.pwd)

\* The rows of its answer.
Answered(c) ==
    /\ c.fn = "fetchAdminUsers" => c.reply.rows \subseteq UserLine
    /\ c.fn = "fetchAdminInvites" => c.reply.rows \subseteq InviteLine
    /\ c.fn \in {"fetchAuthDomains", "saveAuthDomains"} => c.reply.rows \subseteq Domains
    /\ c.fn = "issueAdminInvites" => c.reply.rows \subseteq Invites

CallOK(d, c) == c \in Calls /\ c.token \in Tokens(d) /\ Stage(c) /\ Arguments(c) /\ Answered(c)

\* The page a call is made from.
From(fn, route) ==
    /\ fn \in {"verifyInvite", "register"} => route = "register"
    /\ fn \in {"login", "otp"} => route = "login"
    /\ fn \in AccountFns => route = "2fa"
    /\ fn \in {"fetchAdminUsers", "setAdminUserBlocked", "setAdminUserStudioAccess"} => route = "users"
    /\ fn \in {"fetchAdminInvites", "issueAdminInvites", "revokeAdminInvite", "deleteAdminInvites"}
          => route = "invites"
    /\ fn \in {"fetchAuthDomains", "saveAuthDomains"} => route = "domains"

\* A call that is live is of the page that is shown.
Fits(f, c) == c.live =>
    /\ From(c.fn, f.route)
    /\ c.fn = "login" => f.email \in Users
    /\ c.fn = "verifyInvite" => f.invite \in Invites
    /\ c.fn \in {"otp", "confirmTotp"} /\ c.at # "timer" => f.otp = "verifying"
    /\ c.fn = "fetchMe" /\ c.at # "timer" => f.otp = "success"

\* What the fields of a page say of each other: a full code was tried, and only a full one.
PageOK(f) ==
    /\ f \in Page
    /\ f.due => f.route \in {"users", "invites"}
    /\ f.route = "users" => f.rows \subseteq UserLine
    /\ f.route = "invites" => f.rows \subseteq InviteLine
    /\ f.route = "domains" => f.rows \subseteq Domains
    /\ f.route = "register" /\ f.invited => f.invite \in Invites
    /\ f.need => f.route = "login" /\ f.email \in Users
    /\ ~OtpShown(f) => f.code = <<>>
    /\ f.tried = IF Full(f.code) THEN f.code ELSE <<>>
    /\ f.otp # "idle" => Full(f.code)

\* The calls by which tab t waits for a verdict on a code, and for who the user is.
Checks(t)   == {c \in Calls : c.fn \in {"otp", "confirmTotp"} /\ c.live /\ c.at # "timer" /\ c.tab = t}
Pending(t)  == {c \in Calls : c.fn \in {"otp", "confirmTotp", "fetchMe"} /\ c.live /\ c.at # "timer" /\ c.tab = t}
Creating(u) == {c \in Calls : c.at = "created" /\ c.who = u}

Once(C, S) == \A j, k \in DOMAIN C : C[j] \in S /\ C[k] \in S => j = k

TypesInv == /\ db \in Tables /\ jar \in [Browsers -> Tokens(db)] /\ tab \in [Tabs -> Page]
            /\ \A t \in Tabs : PageOK(tab[t])
            /\ calls \in Seq(Calls)
            /\ \A k \in DOMAIN calls : CallOK(db, calls[k]) /\ Fits(tab[calls[k].tab], calls[k])
            /\ clicks \in [Tabs -> Nat] /\ troubles \in 0..MaxTroubles

OtpInv == /\ \A t \in Tabs : Once(calls, Pending(t))
          /\ \A t \in Tabs : tab[t].otp = "verifying" => \E k \in DOMAIN calls : calls[k] \in Checks(t)

AdmissionInv ==
    /\ OneInviteEach(db)
    /\ \A k \in DOMAIN calls : LET c == calls[k] IN
          /\ c.at = "created"  => db.user[c.who].here /\ \A i \in Invites : db.invite[i].by # c.who
          /\ c.at = "consumed" => \E i \in Invites : db.invite[i].by = c.who
    /\ \A u \in Users : Once(calls, Creating(u))

IndInv == TypesInv /\ OtpInv /\ AdmissionInv

-----------------------------------------------------------------------------
(* Sequences of calls                                                      *)

Dead(c) == [c EXCEPT !.live = FALSE]
Left(c, L) == IF c \in L THEN Dead(c) ELSE c

\* D has the calls of C but those at R, those of L no longer live, and new ones of N.
Follows(C, D, R, L, N) ==
    \E g \in [DOMAIN D -> Nat] :
        /\ \A j \in DOMAIN D : \/ g[j] = 0 /\ D[j] \in N
                               \/ /\ g[j] \in DOMAIN C \ R
                                  /\ D[j] = Left(C[g[j]], L)
        /\ \A i, j \in DOMAIN D : g[i] = g[j] /\ g[i] # 0 => i = j
        /\ \A i \in DOMAIN C \ R : \E j \in DOMAIN D : g[j] = i

LEMMA SeqFacts ==
    ASSUME NEW S, NEW s \in Seq(S)
    PROVE  Len(s) \in Nat /\ DOMAIN s = 1..Len(s) /\ s \in [1..Len(s) -> S]
BY LenProperties

LEMMA NoneRemoved ==
    ASSUME NEW C \in Seq(Calls), NEW N
    PROVE  Follows(C, C, {}, {}, N)
<1> DEFINE g == [j \in DOMAIN C |-> j]
<1>1. DOMAIN C = 1..Len(C) /\ Len(C) \in Nat
    BY SeqFacts
<1>2. g \in [DOMAIN C -> Nat]
    BY <1>1
<1> QED BY <1>1, <1>2 DEF Follows, Left

LEMMA OneRemoved ==
    ASSUME NEW C \in Seq(Calls), NEW k \in DOMAIN C, NEW N
    PROVE  RemoveAt(C, k) \in Seq(Calls) /\ Follows(C, RemoveAt(C, k), {k}, {}, N)
<1> DEFINE D == RemoveAt(C, k)
           g == [j \in DOMAIN D |-> IF j < k THEN j ELSE j + 1]
<1>1. Len(C) \in Nat /\ DOMAIN C = 1..Len(C) /\ C \in [1..Len(C) -> Calls]
    BY SeqFacts
<1>2. k \in 1..Len(C)
    BY <1>1
<1>3. /\ SubSeq(C, 1, k - 1) \in Seq(Calls) /\ Len(SubSeq(C, 1, k - 1)) = k - 1
      /\ \A j \in 1..(k - 1) : SubSeq(C, 1, k - 1)[j] = C[j]
    <2>1. \A j \in 1..(k - 1) : C[j] \in Calls
        BY <1>1, <1>2
    <2> QED BY <1>1, <1>2, <2>1, SubSeqProperties
<1>4. /\ SubSeq(C, k + 1, Len(C)) \in Seq(Calls) /\ Len(SubSeq(C, k + 1, Len(C))) = Len(C) - k
      /\ \A j \in 1..(Len(C) - k) : SubSeq(C, k + 1, Len(C))[j] = C[k + j]
    <2>1. \A j \in (k + 1)..Len(C) : C[j] \in Calls
        BY <1>1, <1>2
    <2> QED BY <1>1, <1>2, <2>1, SubSeqProperties, SMTT(30)
<1>5. /\ D \in Seq(Calls) /\ Len(D) = Len(C) - 1
      /\ \A j \in 1..(Len(C) - 1) : D[j] = IF j < k THEN C[j] ELSE C[j + 1]
    <2> DEFINE a == SubSeq(C, 1, k - 1)
               b == SubSeq(C, k + 1, Len(C))
    <2>1. D = a \o b
        BY DEF RemoveAt
    <2>2. /\ a \in Seq(Calls) /\ Len(a) = k - 1 /\ \A j \in 1..(k - 1) : a[j] = C[j]
          /\ b \in Seq(Calls) /\ Len(b) = Len(C) - k /\ \A j \in 1..(Len(C) - k) : b[j] = C[k + j]
        BY <1>3, <1>4
    <2> HIDE DEF a, b, D
    <2>3. /\ a \o b \in Seq(Calls) /\ Len(a \o b) = Len(a) + Len(b)
          /\ \A j \in 1..Len(a) + Len(b) : (a \o b)[j] = IF j <= Len(a) THEN a[j] ELSE b[j - Len(a)]
        BY <2>2, ConcatProperties
    <2>4. ASSUME NEW j \in 1..(Len(C) - 1), j < k
          PROVE  D[j] = C[j]
        BY <1>1, <1>2, <2>1, <2>2, <2>3, <2>4
    <2>5. ASSUME NEW j \in 1..(Len(C) - 1), ~(j < k)
          PROVE  D[j] = C[j + 1]
        <3>1. j \in 1..Len(a) + Len(b) /\ ~(j <= Len(a)) /\ j - Len(a) \in 1..(Len(C) - k)
            BY <1>1, <1>2, <2>2, <2>5
        <3>2. k + (j - Len(a)) = j + 1
            BY <1>1, <1>2, <2>2, <2>5
        <3> QED BY <2>1, <2>2, <2>3, <3>1, <3>2
    <2> QED BY <1>1, <1>2, <2>1, <2>2, <2>3, <2>4, <2>5
<1>6. DOMAIN D = 1..(Len(C) - 1)
    BY <1>5, SeqFacts
<1> HIDE DEF D
<1>7. g \in [DOMAIN D -> Nat]
    BY <1>1, <1>2, <1>6
<1>8. \A j \in DOMAIN D : g[j] \in DOMAIN C \ {k} /\ D[j] = C[g[j]]
    BY <1>1, <1>2, <1>5, <1>6
<1>9. \A i, j \in DOMAIN D : g[i] = g[j] => i = j
    BY <1>2, <1>6
<1>10. \A i \in DOMAIN C \ {k} : \E j \in DOMAIN D : g[j] = i
    <2> TAKE i \in DOMAIN C \ {k}
    <2>1. CASE i < k
        <3>1. i \in DOMAIN D /\ g[i] = i
            BY <1>1, <1>2, <1>6, <2>1
        <3> QED BY <3>1
    <2>2. CASE i > k
        <3>1. i - 1 \in DOMAIN D /\ g[i - 1] = i
            BY <1>1, <1>2, <1>6, <2>2
        <3> QED BY <3>1
    <2> QED BY <1>1, <1>2, <2>1, <2>2
<1> HIDE DEF g
<1>11. Follows(C, D, {k}, {}, N)
    BY <1>7, <1>8, <1>9, <1>10 DEF Follows, Left
<1> QED BY <1>5, <1>11 DEF D

LEMMA OneAdded ==
    ASSUME NEW C \in Seq(Calls), NEW D \in Seq(Calls), NEW R, NEW L, NEW N, Follows(C, D, R, L, N),
           NEW c \in Calls, c \in N
    PROVE  Append(D, c) \in Seq(Calls) /\ Follows(C, Append(D, c), R, L, N)
<1> DEFINE E == Append(D, c)
           n == Len(D) + 1
<1>1. Len(C) \in Nat /\ DOMAIN C = 1..Len(C) /\ Len(D) \in Nat /\ DOMAIN D = 1..Len(D)
    BY SeqFacts
<1>2. /\ E \in Seq(Calls) /\ DOMAIN E = 1..n /\ E[n] = c /\ \A j \in 1..Len(D) : E[j] = D[j]
    BY <1>1, AppendProperties
<1> HIDE DEF E
<1>3. PICK g \in [DOMAIN D -> Nat] :
         /\ \A j \in DOMAIN D : \/ g[j] = 0 /\ D[j] \in N
                                \/ /\ g[j] \in DOMAIN C \ R
                                   /\ D[j] = Left(C[g[j]], L)
         /\ \A i, j \in DOMAIN D : g[i] = g[j] /\ g[i] # 0 => i = j
         /\ \A i \in DOMAIN C \ R : \E j \in DOMAIN D : g[j] = i
    BY DEF Follows
<1> DEFINE h == [j \in 1..n |-> IF j = n THEN 0 ELSE g[j]]
<1>4. h \in [DOMAIN E -> Nat] /\ h[n] = 0 /\ \A j \in 1..Len(D) : h[j] = g[j]
    BY <1>1, <1>2
<1> HIDE DEF h
<1>5. \A j \in DOMAIN E : \/ h[j] = 0 /\ E[j] \in N
                          \/ /\ h[j] \in DOMAIN C \ R
                             /\ E[j] = Left(C[h[j]], L)
    BY <1>1, <1>2, <1>3, <1>4
<1>6. \A i, j \in DOMAIN E : h[i] = h[j] /\ h[i] # 0 => i = j
    BY <1>1, <1>2, <1>3, <1>4, SMTT(30)
<1>7. \A i \in DOMAIN C \ R : \E j \in DOMAIN E : h[j] = i
    BY <1>1, <1>2, <1>3, <1>4
<1>8. Follows(C, E, R, L, N)
    BY <1>4, <1>5, <1>6, <1>7 DEF Follows
<1> QED BY <1>2, <1>8 DEF E

\* Those of L become dead.
LEMMA SomeDie ==
    ASSUME NEW C \in Seq(Calls), NEW D \in Seq(Calls), NEW R, NEW L, NEW N, Follows(C, D, R, {}, {})
    PROVE  LET E == [j \in DOMAIN D |-> Left(D[j], L)]
           IN  E \in Seq(Calls) /\ Follows(C, E, R, L, N)
<1> DEFINE E == [j \in DOMAIN D |-> Left(D[j], L)]
<1>1. /\ Len(C) \in Nat /\ DOMAIN C = 1..Len(C) /\ C \in [1..Len(C) -> Calls]
      /\ Len(D) \in Nat /\ DOMAIN D = 1..Len(D) /\ D \in [1..Len(D) -> Calls]
    BY SeqFacts
<1>2. \A c \in Calls : Left(c, L) \in Calls
    BY DEF Calls, Dead, Left
<1>3. E \in Seq(Calls)
    <2>1. E \in [1..Len(D) -> Calls]
        BY <1>1, <1>2
    <2> QED BY <1>1, <2>1, SeqDef
<1>4. PICK g \in [DOMAIN D -> Nat] :
         /\ \A j \in DOMAIN D : g[j] \in DOMAIN C \ R /\ D[j] = Left(C[g[j]], {})
         /\ \A i, j \in DOMAIN D : g[i] = g[j] /\ g[i] # 0 => i = j
         /\ \A i \in DOMAIN C \ R : \E j \in DOMAIN D : g[j] = i
    BY DEF Follows
<1>5. DOMAIN E = DOMAIN D /\ \A j \in DOMAIN D : g[j] \in DOMAIN C \ R /\ E[j] = Left(C[g[j]], L)
    BY <1>4 DEF Left
<1> HIDE DEF E
<1>6. Follows(C, E, R, L, N)
    BY <1>4, <1>5 DEF Follows
<1> QED BY <1>3, <1>6 DEF E

\* The call at k is put in the place of another.
LEMMA OneChanged ==
    ASSUME NEW C \in Seq(Calls), NEW k \in DOMAIN C, NEW c \in Calls, NEW L
    PROVE  LET D == [C EXCEPT ![k] = c]
           IN  /\ D \in Seq(Calls) /\ DOMAIN D = DOMAIN C /\ D[k] = c /\ \A j \in DOMAIN C \ {k} : D[j] = C[j]
               /\ Follows(C, D, {k}, {}, {c})
<1> DEFINE D == [C EXCEPT ![k] = c]
           g == [j \in DOMAIN C |-> IF j = k THEN 0 ELSE j]
<1>1. Len(C) \in Nat /\ DOMAIN C = 1..Len(C)
    BY SeqFacts
<1>2. D \in Seq(Calls)
    BY <1>1, ExceptSeq
<1>3. DOMAIN D = DOMAIN C /\ D[k] = c /\ \A j \in DOMAIN C \ {k} : D[j] = C[j]
    OBVIOUS
<1>4. g \in [DOMAIN D -> Nat]
    BY <1>1, <1>3
<1>5. /\ \A j \in DOMAIN D : \/ g[j] = 0 /\ D[j] \in {c}
                             \/ g[j] \in DOMAIN C \ {k} /\ D[j] = Left(C[g[j]], {})
      /\ \A i, j \in DOMAIN D : g[i] = g[j] /\ g[i] # 0 => i = j
      /\ \A i \in DOMAIN C \ {k} : \E j \in DOMAIN D : g[j] = i
    BY <1>1, <1>3 DEF Left
<1> HIDE DEF D, g
<1>6. Follows(C, D, {k}, {}, {c})
    BY <1>4, <1>5 DEF Follows
<1> QED BY <1>2, <1>3, <1>6 DEF D

\* At most one of S goes on being at most one.
LEMMA StillOnce ==
    ASSUME NEW C \in Seq(Calls), NEW D \in Seq(Calls), NEW R, NEW L, NEW N, Follows(C, D, R, L, N),
           NEW S, Once(C, S), \A c \in N : c \notin S,
           \A c \in Calls : Dead(c) \in S => c \in S
    PROVE  Once(D, S)
<1>1. C \in [DOMAIN C -> Calls]
    BY SeqFacts
<1>2. PICK g \in [DOMAIN D -> Nat] :
         /\ \A j \in DOMAIN D : \/ g[j] = 0 /\ D[j] \in N
                                \/ /\ g[j] \in DOMAIN C \ R
                                   /\ D[j] = Left(C[g[j]], L)
         /\ \A i, j \in DOMAIN D : g[i] = g[j] /\ g[i] # 0 => i = j
    BY DEF Follows
<1> SUFFICES ASSUME NEW i \in DOMAIN D, NEW j \in DOMAIN D, D[i] \in S, D[j] \in S
             PROVE  i = j
    BY DEF Once
<1>3. \A m \in DOMAIN D : D[m] \in S => g[m] \in DOMAIN C /\ C[g[m]] \in S /\ g[m] # 0
    <2>1. 0 \notin DOMAIN C
        BY SeqFacts
    <2> QED BY <1>1, <1>2, <2>1 DEF Left
<1>4. g[i] = g[j]
    BY <1>3 DEF Once
<1> QED BY <1>2, <1>3, <1>4

\* The first of S.
LEMMA NowOnce ==
    ASSUME NEW C \in Seq(Calls), NEW c \in Calls, NEW S, \A k \in DOMAIN C : C[k] \notin S
    PROVE  Once(Append(C, c), S)
<1>1. Len(C) \in Nat /\ DOMAIN C = 1..Len(C)
    BY SeqFacts
<1>2. DOMAIN Append(C, c) = 1..(Len(C) + 1) /\ \A j \in 1..Len(C) : Append(C, c)[j] = C[j]
    BY <1>1, AppendProperties
<1> QED BY <1>1, <1>2 DEF Once

\* A call that is not removed and does not die is still there.
LEMMA StillThere ==
    ASSUME NEW C \in Seq(Calls), NEW D, NEW R, NEW L, NEW N, Follows(C, D, R, L, N),
           NEW k \in DOMAIN C \ R, C[k] \notin L
    PROVE  \E j \in DOMAIN D : D[j] = C[k]
<1>1. PICK g \in [DOMAIN D -> Nat] :
         /\ \A j \in DOMAIN D : \/ g[j] = 0 /\ D[j] \in N
                                \/ /\ g[j] \in DOMAIN C \ R
                                   /\ D[j] = Left(C[g[j]], L)
         /\ \A i \in DOMAIN C \ R : \E j \in DOMAIN D : g[j] = i
    BY DEF Follows
<1>2. PICK j \in DOMAIN D : g[j] = k
    BY <1>1
<1>3. k # 0
    BY SeqFacts
<1>4. D[j] = C[k]
    BY <1>1, <1>2, <1>3 DEF Left
<1> QED BY <1>4

\* Every call was there, perhaps live, or is new.
LEMMA FromWhere ==
    ASSUME NEW C \in Seq(Calls), NEW D, NEW R, NEW L, NEW N, Follows(C, D, R, L, N), NEW j \in DOMAIN D
    PROVE  \/ D[j] \in N
           \/ \E k \in DOMAIN C \ R : D[j] = Left(C[k], L)
BY DEF Follows

\* When no call at R is sent, a call cannot change from sent to something else alone.
LEMMA SentStay ==
    ASSUME NEW C \in Seq(Calls), NEW D \in Seq(Calls), NEW R, NEW L, NEW N, Follows(C, D, R, L, N),
           \A i \in R : C[i].at # "sent", DOMAIN D = DOMAIN C,
           NEW k \in DOMAIN C, C[k].at = "sent", D[k].at # "sent", \A j \in DOMAIN C \ {k} : D[j] = C[j]
    PROVE  FALSE
<1> DEFINE S == {i \in DOMAIN C : C[i].at = "sent"}
           T == {j \in DOMAIN D : D[j].at = "sent"}
<1>1. /\ Len(C) \in Nat /\ DOMAIN C = 1..Len(C) /\ C \in [1..Len(C) -> Calls]
    BY SeqFacts
<1>2. PICK g \in [DOMAIN D -> Nat] :
         /\ \A j \in DOMAIN D : \/ g[j] = 0 /\ D[j] \in N
                                \/ g[j] \in DOMAIN C \ R /\ D[j] = Left(C[g[j]], L)
         /\ \A i \in DOMAIN C \ R : \E j \in DOMAIN D : g[j] = i
    BY DEF Follows
<1>3. \A i \in S : \E j \in T : g[j] = i
    <2> TAKE i \in S
    <2>1. PICK j \in DOMAIN D : g[j] = i
        BY <1>2
    <2>2. i # 0 /\ C[i] \in Calls
        BY <1>1
    <2>3. D[j] = Left(C[i], L)
        BY <1>2, <2>1, <2>2
    <2>4. D[j].at = "sent"
        BY <2>2, <2>3 DEF Left, Dead, Calls
    <2> QED BY <2>1, <2>4
<1> DEFINE h == [i \in S |-> CHOOSE j \in T : g[j] = i]
<1>4. h \in [S -> T] /\ \A i \in S : g[h[i]] = i
    BY <1>3
<1>5. T = S \ {k} /\ k \in S
    OBVIOUS
<1>6. IsFiniteSet(S) /\ IsFiniteSet(T) /\ Cardinality(S \ {k}) = Cardinality(S) - 1
    <2>1. 1 \in Int /\ Len(C) \in Int
        BY <1>1
    <2>2. IsFiniteSet(DOMAIN C)
        BY ONLY <1>1, <2>1, FS_Interval
    <2>3. IsFiniteSet(S)
        BY <2>2, FS_Subset
    <2> HIDE DEF S, T
    <2> QED BY <1>5, <2>3, FS_RemoveElement
<1> HIDE DEF h, S, T
<1>7. Cardinality(T) < Cardinality(S)
    <2>1. Cardinality(S) \in Nat
        BY <1>6, FS_CardinalityType
    <2> QED BY <1>5, <1>6, <2>1
<1>8. \E x, y \in S : x # y /\ h[x] = h[y]
    BY <1>4, <1>6, <1>7, FS_PigeonHole
<1> QED BY <1>4, <1>8

-----------------------------------------------------------------------------
(* Pages                                                                   *)

\* The effect of a form has nothing left to do on a page as the invariant has it.
LEMMA Settled ==
    ASSUME NEW t, NEW f, PageOK(f)
    PROVE  OtpEffect(t, f) = [page |-> f, calls |-> <<>>]
<1>1. CASE ~OtpShown(f)
    BY <1>1 DEF OtpEffect
<1>2. CASE OtpShown(f) /\ ~Full(f.code)
    <2>1. f \in Page /\ f.tried = <<>> /\ f.otp = "idle"
        BY <1>2 DEF PageOK
    <2>2. [f EXCEPT !.tried = <<>>, !.otp = IF @ = "error" THEN "idle" ELSE @] = f
        BY <2>1 DEF Page
    <2> QED BY <1>2, <2>2 DEF OtpEffect
<1>3. CASE OtpShown(f) /\ Full(f.code)
    BY <1>3 DEF OtpEffect, PageOK
<1> QED BY <1>1, <1>2, <1>3

LEMMA RenderSettled ==
    ASSUME NEW t, NEW f, PageOK(f), NEW cs \in Seq(Calls), Render(t, f, cs)
    PROVE  tab' = [tab EXCEPT ![t] = f] /\ calls' = cs
<1>1. OtpEffect(t, f).page = f /\ OtpEffect(t, f).calls = <<>>
    BY Settled
<1>2. cs \o <<>> = cs
    BY ConcatEmptySeq
<1> QED BY <1>1, <1>2 DEF Render

LEMMA CodesAre ==
    /\ OtpLength \in Nat /\ OtpLength # 0
    /\ Codes = {s \in Seq(Digits) : Len(s) <= OtpLength}
<1>1. OtpLength \in Nat /\ OtpLength # 0
    BY CodesHaveDigits
<1>2. Codes = UNION {[1..m -> Digits] : m \in 0..OtpLength}
    BY DEF Codes, BoundedSeq, SeqOf
<1>3. ASSUME NEW s \in Codes
      PROVE  s \in Seq(Digits) /\ Len(s) <= OtpLength
    <2>1. PICK m \in 0..OtpLength : s \in [1..m -> Digits]
        BY <1>2
    <2>2. s \in Seq(Digits) /\ Len(s) = m
        BY <1>1, <2>1, SeqDef
    <2> QED BY <1>1, <2>1, <2>2
<1>4. ASSUME NEW s \in Seq(Digits), Len(s) <= OtpLength
      PROVE  s \in Codes
    <2>1. Len(s) \in Nat /\ s \in [1..Len(s) -> Digits]
        BY SeqFacts
    <2>2. Len(s) \in 0..OtpLength
        BY <1>1, <1>4, <2>1
    <2> QED BY <1>2, <2>1, <2>2
<1> QED BY <1>1, <1>3, <1>4

LEMMA EmptyCode == <<>> \in Codes /\ ~Full(<<>>)
BY CodesAre, EmptySeq DEF Full

\* Whatever is typed, the cells hold a code.
LEMMA SetCodeOK ==
    ASSUME NEW next \in Seq(Digits)
    PROVE  SetCode(next) \in Codes
<1> DEFINE m == Min({OtpLength, Len(next)})
<1>1. m \in 0..Len(next) /\ m <= OtpLength
    BY CodesAre, LenProperties DEF Min
<1> HIDE DEF m
<1>2. SubSeq(next, 1, m) \in Seq(Digits) /\ Len(SubSeq(next, 1, m)) = m
    <2>1. Len(next) \in Nat /\ next \in [1..Len(next) -> Digits]
        BY SeqFacts
    <2>2. \A i \in 1..m : next[i] \in Digits
        BY <1>1, <2>1
    <2> QED BY <1>1, <2>1, <2>2, SubSeqProperties
<1> QED BY <1>1, <1>2, CodesAre DEF SetCode, m

LEMMA TypingsOK ==
    ASSUME NEW value \in Codes, NEW code \in Typings(value)
    PROVE  code \in Codes
<1>1. value \in Seq(Digits) /\ Len(value) \in Nat /\ DOMAIN value = 1..Len(value) /\ value \in [1..Len(value) -> Digits]
    BY CodesAre, SeqFacts
<1>2. \A digits \in BoundedSeq(Digits, OtpLength + 1) : digits \in Seq(Digits) /\ Len(digits) \in Nat
    <2>1. OtpLength + 1 \in Nat
        BY CodesAre
    <2> QED BY <2>1, SeqDef DEF BoundedSeq, SeqOf
<1>3. ASSUME NEW k \in 1..OtpLength, k <= Len(value)
      PROVE  RemoveAt(value, k) \in Seq(Digits)
    <2>1. k \in 1..Len(value)
        BY <1>1, <1>3, CodesAre
    <2>2. SubSeq(value, 1, k - 1) \in Seq(Digits) /\ SubSeq(value, k + 1, Len(value)) \in Seq(Digits)
        BY <1>1, <2>1, SubSeqProperties
    <2> QED BY <2>2, ConcatProperties DEF RemoveAt
<1>4. CASE \E pasted \in BoundedSeq(Digits, OtpLength + 1) : code = OnPaste(value, pasted)
    BY <1>2, <1>4, SetCodeOK DEF OnPaste
<1>5. CASE \E k \in 1..OtpLength : code = OnBackspace(value, k)
    <2>1. PICK k \in 1..OtpLength : code = OnBackspace(value, k)
        BY <1>5
    <2>2. CASE k <= Len(value)
        BY <1>3, <2>1, <2>2, SetCodeOK DEF OnBackspace
    <2>3. CASE ~(k <= Len(value))
        <3> DEFINE m == Min({k - 2, Len(value)})
        <3>1. m \in Int /\ m <= Len(value)
            BY <1>1, <2>1, CodesAre DEF Min
        <3> HIDE DEF m
        <3>2. SubSeq(value, 1, m) \in Seq(Digits)
            <4>1. CASE m < 1
                BY <1>1, <3>1, <4>1, SubSeqEmpty, EmptySeq
            <4>2. CASE m >= 1
                <5>1. m \in 0..Len(value) /\ \A i \in 1..m : value[i] \in Digits
                    BY <1>1, <3>1, <4>2
                <5> QED BY <1>1, <5>1, SubSeqProperties
            <4> QED BY <3>1, <4>1, <4>2
        <3> QED BY <2>1, <2>3, <3>2, SetCodeOK DEF OnBackspace, m
    <2> QED BY <2>2, <2>3
<1>6. CASE \E k \in 1..OtpLength, digits \in BoundedSeq(Digits, OtpLength + 1) : code = OnInput(value, k, digits)
    <2>1. PICK k \in 1..OtpLength, digits \in BoundedSeq(Digits, OtpLength + 1) : code = OnInput(value, k, digits)
        BY <1>6
    <2>5. /\ digits \in Seq(Digits) /\ Len(digits) \in Nat /\ (digits = <<>> <=> Len(digits) = 0)
          /\ Len(digits) = 1 => digits[1] \in Digits
        <3>1. digits \in Seq(Digits)
            BY <1>2
        <3>2. Len(digits) \in Nat /\ digits \in [1..Len(digits) -> Digits]
            BY <3>1, SeqFacts
        <3>3. digits = <<>> <=> Len(digits) = 0
            BY <3>1, EmptySeq
        <3> QED BY <3>1, <3>2, <3>3
    <2>6. Len(digits) = 0 \/ Len(digits) = 1 \/ (Len(digits) > 1 /\ Len(digits) # 1)
        <3> DEFINE n == Len(digits)
        <3>1. n \in Nat
            BY <2>5
        <3> HIDE DEF n
        <3>2. n = 0 \/ n = 1 \/ (n > 1 /\ n # 1)
            BY <3>1
        <3> QED BY <3>2 DEF n
    <2>2. CASE digits = <<>>
        BY <1>3, <2>1, <2>2, SetCodeOK DEF OnInput
    <2>3. CASE Len(digits) > 1 /\ Len(digits) # 1
        <3>1. digits # <<>>
            BY <2>3, <2>5
        <3>3. code = SetCode(digits)
            BY <2>1, <2>3, <3>1 DEF OnInput
        <3> QED BY <2>5, <3>3, SetCodeOK
    <2>4. CASE Len(digits) = 1
        <3>1. digits # <<>> /\ ~(Len(digits) > 1) /\ digits[1] \in Digits
            BY <2>4, <2>5
        <3>2. value \o digits \in Seq(Digits)
            BY <1>1, <1>2, ConcatProperties
        <3>3. ASSUME k <= Len(value)
              PROVE  ReplaceAt(value, k, digits[1]) \in Seq(Digits)
            <4>1. k \in 1..Len(value)
                BY <1>1, <3>3, CodesAre
            <4> QED BY <1>1, <3>1, <4>1, ExceptSeq DEF ReplaceAt
        <3>4. code = SetCode(IF k <= Len(value) THEN ReplaceAt(value, k, digits[1]) ELSE value \o digits)
            BY <2>1, <2>4, <3>1 DEF OnInput
        <3> QED BY <3>2, <3>3, <3>4, SetCodeOK
    <2>7. Len(digits) = 0 => digits = <<>>
        BY <2>5
    <2> QED BY <2>2, <2>3, <2>4, <2>6, <2>7
<1> QED BY <1>4, <1>5, <1>6 DEF Typings

\* A page that was just mounted.
LEMMA BlankOK ==
    ASSUME NEW route \in Routes
    PROVE  PageOK(Blank(route)) /\ Blank(route).route = route /\ Blank(route).otp = "idle"
<1>1. Blank(route) \in Page
    <2>1. 0 \in Secrets
        <3>1. Len(CodeOf) \in Nat
            BY CodesHaveDigits, LenProperties
        <3> QED BY <3>1 DEF Secrets
    <2> QED BY <2>1, EmptyCode DEF Blank, Page, OtpStatus
<1> QED BY <1>1, EmptyCode DEF Blank, PageOK, OtpShown

-----------------------------------------------------------------------------
(* Steps that do not reach the tables                                      *)

\* Tab t goes on with page f; the calls at R end, those of L lose their page, and those
\* of N are made.
Turn(t, f, R, L, N) ==
    /\ t \in Tabs /\ PageOK(f) /\ tab' = [tab EXCEPT ![t] = f]
    /\ db' = db /\ jar' \in [Browsers -> Tokens(db)]
    /\ calls' \in Seq(Calls) /\ Follows(calls, calls', R, L, N)
    /\ R \subseteq DOMAIN calls /\ \A k \in R : calls[k].tab = t /\ calls[k].at # "sent"
    /\ \A c \in L : c.tab = t
    /\ \A c \in N : CallOK(db, c) /\ c.tab = t /\ Fits(f, c) /\ c.at \in {"sent", "timer"}
    /\ \A k \in DOMAIN calls \ R : calls[k].tab = t /\ calls[k] \notin L => Fits(f, calls[k])

LEMMA DeadIsOK ==
    ASSUME NEW c, CallOK(db, c)
    PROVE  CallOK(db, Dead(c)) /\ Dead(c).tab = c.tab /\ \A f : Fits(f, Dead(c))
<1>1. Dead(c) \in Calls /\ Dead(c).live = FALSE /\ c \in Calls
    BY DEF CallOK, Calls, Dead
<1>2. /\ Dead(c).tab = c.tab /\ Dead(c).fn = c.fn /\ Dead(c).at = c.at /\ Dead(c).token = c.token
      /\ Dead(c).who = c.who /\ Dead(c).what = c.what /\ Dead(c).set = c.set /\ Dead(c).pwd = c.pwd
      /\ Dead(c).reply = c.reply
    BY <1>1 DEF Calls, Dead
<1>3. \A f : Fits(f, Dead(c))
    BY <1>1 DEF Fits
<1>4. CallOK(db, Dead(c))
    BY <1>1, <1>2 DEF CallOK, Stage, Arguments, Answered
<1> QED BY <1>2, <1>3, <1>4

LEMMA TurnKeepsTypes ==
    ASSUME TypesInv, NEW t, NEW f, NEW R, NEW L, NEW N, Turn(t, f, R, L, N),
           clicks' \in [Tabs -> Nat], troubles' = troubles
    PROVE  TypesInv'
<1>1. db' \in Tables /\ jar' \in [Browsers -> Tokens(db')]
    BY DEF TypesInv, Turn
<1>2. tab' \in [Tabs -> Page] /\ tab'[t] = f /\ \A u \in Tabs : PageOK(tab'[u]) /\ (u # t => tab'[u] = tab[u])
    BY DEF TypesInv, Turn, PageOK
<1>3. ASSUME NEW j \in DOMAIN calls'
      PROVE  CallOK(db', calls'[j]) /\ Fits(tab'[calls'[j].tab], calls'[j])
    <2>1. CASE calls'[j] \in N
        BY <1>2, <2>1 DEF Turn
    <2>2. CASE \E k \in DOMAIN calls \ R : calls'[j] = Left(calls[k], L)
        <3>1. PICK k \in DOMAIN calls \ R : calls'[j] = Left(calls[k], L)
            BY <2>2
        <3>2. CallOK(db, calls[k]) /\ Fits(tab[calls[k].tab], calls[k])
            BY DEF TypesInv
        <3>3. CASE calls[k] \in L
            BY <3>1, <3>2, <3>3, DeadIsOK DEF Left, Turn
        <3>4. CASE calls[k] \notin L
            <4>1. calls'[j] = calls[k] /\ calls[k].tab \in Tabs
                BY <3>1, <3>2, <3>4 DEF Left, CallOK, Calls
            <4>2. CASE calls[k].tab = t
                BY <1>2, <3>2, <3>4, <4>1, <4>2 DEF Turn
            <4>3. CASE calls[k].tab # t
                BY <1>2, <3>2, <4>1, <4>3 DEF Turn
            <4> QED BY <4>2, <4>3
        <3> QED BY <3>3, <3>4
    <2> QED BY <2>1, <2>2, FromWhere DEF TypesInv, Turn
<1>4. calls' \in Seq(Calls)
    BY DEF Turn
<1> QED BY <1>1, <1>2, <1>3, <1>4 DEF TypesInv

LEMMA TurnKeepsAdmission ==
    ASSUME TypesInv, AdmissionInv, NEW t, NEW f, NEW R, NEW L, NEW N, Turn(t, f, R, L, N)
    PROVE  AdmissionInv'
<1>1. OneInviteEach(db')
    BY DEF AdmissionInv, Turn
<1>2. ASSUME NEW j \in DOMAIN calls'
      PROVE  \/ calls'[j].at \in {"sent", "timer"}
             \/ \E k \in DOMAIN calls : calls'[j].at = calls[k].at /\ calls'[j].who = calls[k].who
    <2>1. CASE calls'[j] \in N
        BY <2>1 DEF Turn
    <2>2. CASE \E k \in DOMAIN calls \ R : calls'[j] = Left(calls[k], L)
        BY <2>2 DEF Left, Dead, TypesInv, CallOK, Calls
    <2> QED BY <2>1, <2>2, FromWhere DEF TypesInv, Turn
<1>3. ASSUME NEW j \in DOMAIN calls'
      PROVE  LET c == calls'[j] IN
             /\ c.at = "created"  => db'.user[c.who].here /\ \A i \in Invites : db'.invite[i].by # c.who
             /\ c.at = "consumed" => \E i \in Invites : db'.invite[i].by = c.who
    BY <1>2, <1>3 DEF AdmissionInv, Turn
<1>4. ASSUME NEW u \in Users
      PROVE  Once(calls', Creating(u))
    <2>1. Once(calls, Creating(u)) /\ calls \in Seq(Calls) /\ calls' \in Seq(Calls) /\ Follows(calls, calls', R, L, N)
        BY DEF AdmissionInv, TypesInv, Turn
    <2>2. \A c \in N : c \notin Creating(u)
        BY DEF Turn, Creating
    <2>3. \A c \in Calls : Dead(c) \in Creating(u) => c \in Creating(u)
        BY DEF Creating, Dead, Calls
    <2> QED BY <2>1, <2>2, <2>3, StillOnce
<1> QED BY <1>1, <1>3, <1>4 DEF AdmissionInv

\* The other tabs go on waiting for their codes.
LEMMA TurnKeepsOthers ==
    ASSUME TypesInv, OtpInv, NEW t, NEW f, NEW R, NEW L, NEW N, Turn(t, f, R, L, N), NEW u \in Tabs, u # t
    PROVE  /\ Once(calls', Pending(u))
           /\ tab'[u].otp = "verifying" => \E k \in DOMAIN calls' : calls'[k] \in Checks(u)
<1>1. /\ calls \in Seq(Calls) /\ calls' \in Seq(Calls) /\ Follows(calls, calls', R, L, N) /\ tab'[u] = tab[u]
    BY DEF TypesInv, Turn
<1>2. Once(calls', Pending(u))
    <2>1. \A c \in N : c \notin Pending(u)
        BY DEF Turn, Pending
    <2>2. \A c \in Calls : Dead(c) \in Pending(u) => c \in Pending(u)
        BY DEF Pending, Dead, Calls
    <2> QED BY <1>1, <2>1, <2>2, StillOnce DEF OtpInv
<1>3. ASSUME tab'[u].otp = "verifying"
      PROVE  \E k \in DOMAIN calls' : calls'[k] \in Checks(u)
    <2>1. PICK k \in DOMAIN calls : calls[k] \in Checks(u)
        BY <1>1, <1>3 DEF OtpInv
    <2>2. k \notin R /\ calls[k] \notin L
        BY <2>1 DEF Turn, Checks
    <2> QED BY <1>1, <2>1, <2>2, StillThere
<1> QED BY <1>2, <1>3

\* So does t, when no code is sent and the call that it waits for does not end.
LEMMA TurnKeepsOtp ==
    ASSUME TypesInv, OtpInv, NEW t, NEW f, NEW R, NEW L, NEW N, Turn(t, f, R, L, N),
           \A c \in N : c \notin Pending(t),
           f.otp = "verifying" => /\ tab[t].otp = "verifying"
                                  /\ \A k \in R : calls[k] \notin Checks(t)
                                  /\ \A c \in L : c \notin Checks(t)
    PROVE  OtpInv'
<1>1. calls \in Seq(Calls) /\ calls' \in Seq(Calls) /\ Follows(calls, calls', R, L, N) /\ tab'[t] = f /\ t \in Tabs
    BY DEF TypesInv, Turn
<1>2. Once(calls', Pending(t))
    <2>1. \A c \in Calls : Dead(c) \in Pending(t) => c \in Pending(t)
        BY DEF Pending, Dead, Calls
    <2> QED BY <1>1, <2>1, StillOnce DEF OtpInv
<1>3. ASSUME tab'[t].otp = "verifying"
      PROVE  \E k \in DOMAIN calls' : calls'[k] \in Checks(t)
    <2>1. PICK k \in DOMAIN calls : calls[k] \in Checks(t)
        BY <1>1, <1>3 DEF OtpInv
    <2>2. k \notin R /\ calls[k] \notin L
        BY <1>1, <1>3, <2>1
    <2> QED BY <1>1, <2>1, <2>2, StillThere
<1>4. ASSUME NEW u \in Tabs
      PROVE  /\ Once(calls', Pending(u))
             /\ tab'[u].otp = "verifying" => \E k \in DOMAIN calls' : calls'[k] \in Checks(u)
    BY <1>2, <1>3, TurnKeepsOthers
<1> QED BY <1>4 DEF OtpInv, Pending, Checks

\* A request gets past the middleware only for a user who is not blocked: the step of
\* BlockedUsersAreOut.
Barred ==
    \A k \in DOMAIN calls :
          LET c == calls[k]
          IN  (/\ c.token # 0 /\ c.at = "sent" /\ db.user[Owner(db, c.token)].blocked
               /\ DOMAIN calls' = DOMAIN calls /\ calls'[k].at # "sent"
               /\ \A j \in DOMAIN calls \ {k} : calls'[j] = calls[j])
              => CASE c.fn = "page" -> calls'[k].to \in {"login", "register"} \/ ~c.flag
                   [] c.fn \in PublicFns -> TRUE
                   [] OTHER -> ~calls'[k].reply.ok /\ calls'[k].at = "back"

\* A code goes off only when it was typed.
Unsent == \A u \in Tabs : tab'[u].otp = "verifying" => tab[u].otp = "verifying" \/ tab'[u].code # tab[u].code

\* What a step is shown to do.
Good == IndInv' /\ Unsent /\ Barred

LEMMA TurnBars ==
    ASSUME TypesInv, NEW t, NEW f, NEW R, NEW L, NEW N, Turn(t, f, R, L, N)
    PROVE  Barred
<1> SUFFICES ASSUME NEW k \in DOMAIN calls, calls[k].at = "sent", DOMAIN calls' = DOMAIN calls,
                    calls'[k].at # "sent", \A j \in DOMAIN calls \ {k} : calls'[j] = calls[j]
             PROVE  FALSE
    BY DEF Barred
<1>1. /\ calls \in Seq(Calls) /\ calls' \in Seq(Calls) /\ Follows(calls, calls', R, L, N)
      /\ \A i \in R : calls[i].at # "sent"
    BY DEF TypesInv, Turn
<1> QED BY <1>1, SentStay

\* The page goes on as the one it was.
Kept(f, g) == /\ g.route = f.route
              /\ f.email \in Users => g.email \in Users
              /\ f.invite \in Invites => g.invite \in Invites

LEMMA StillFits ==
    ASSUME NEW f, NEW g, NEW c \in Calls, Fits(f, c), Kept(f, g), g.otp = f.otp \/ c \notin Pending(c.tab)
    PROVE  Fits(g, c)
BY DEF Fits, Kept, Pending, Calls

\* A turn in which no code is sent.
LEMMA QuietTurn ==
    ASSUME IndInv, NEW t, NEW f, NEW R, NEW L, NEW N, Turn(t, f, R, L, N),
           clicks' \in [Tabs -> Nat], troubles' = troubles,
           \A c \in N : c \notin Pending(t),
           f.otp = "verifying" => /\ tab[t].otp = "verifying"
                                  /\ \A k \in R : calls[k] \notin Checks(t)
                                  /\ \A c \in L : c \notin Checks(t)
    PROVE  Good
<1>1. TypesInv' /\ AdmissionInv' /\ OtpInv' /\ Barred
    BY TurnKeepsTypes, TurnKeepsAdmission, TurnKeepsOtp, TurnBars DEF IndInv
<1>2. Unsent
    BY DEF Unsent, Turn, IndInv, TypesInv
<1> QED BY <1>1, <1>2 DEF Good, IndInv

\* Call k is answered: its page shows f, if it is still there, and g is what is shown then.
Answer(k, f, after, g, L, N) ==
    /\ calls[k].at = "back" /\ Then(k, f, after)
    /\ after \in Seq(Calls) /\ Follows(calls, after, {k}, L, N)
    /\ g = IF calls[k].live THEN f ELSE Shown(k)
    /\ calls[k].live => PageOK(f)
    /\ \A c \in L : c.tab = calls[k].tab
    /\ \A c \in N : CallOK(db, c) /\ c.tab = calls[k].tab /\ Fits(g, c) /\ c.at \in {"sent", "timer"}

LEMMA AnswerTurns ==
    ASSUME TypesInv, NEW k \in DOMAIN calls,
           NEW f, NEW after, NEW g, NEW L, NEW N, Answer(k, f, after, g, L, N),
           \A j \in DOMAIN calls \ {k} : calls[j].tab = calls[k].tab /\ calls[j] \notin L => Fits(g, calls[j])
    PROVE  /\ Turn(calls[k].tab, g, {k}, L, N)
           /\ clicks' = clicks /\ troubles' = troubles
<1> DEFINE t == calls[k].tab
<1>1. t \in Tabs /\ calls[k].token \in Tokens(db) /\ PageOK(tab[t]) /\ Browser[t] \in Browsers
    BY TabsHaveBrowsers DEF TypesInv, CallOK, Calls
<1>2. PageOK(g) /\ after \in Seq(Calls)
    BY <1>1 DEF Shown, Answer
<1>3. Render(t, g, after) /\ jar' = [jar EXCEPT ![Browser[t]] = Cookie(calls[k], @)]
      /\ db' = db /\ clicks' = clicks /\ troubles' = troubles
    BY DEF Then, Shown, Answer
<1>4. tab' = [tab EXCEPT ![t] = g] /\ calls' = after
    BY <1>2, <1>3, RenderSettled
<1>5. jar' \in [Browsers -> Tokens(db)]
    <2>1. jar \in [Browsers -> Tokens(db)]
        BY DEF TypesInv
    <2>2. Cookie(calls[k], jar[Browser[t]]) \in Tokens(db)
        BY <1>1, <2>1 DEF Cookie
    <2> QED BY <1>3, <2>1, <2>2
<1> QED BY <1>1, <1>2, <1>3, <1>4, <1>5 DEF Turn, Answer

LEMMA AnswerIsGood ==
    ASSUME IndInv, NEW k \in DOMAIN calls,
           NEW f, NEW after, NEW g, NEW L, NEW N, Answer(k, f, after, g, L, N),
           calls[k].live =>
               /\ Kept(Shown(k), f)
               /\ \/ f.otp = Shown(k).otp /\ calls[k] \notin Pending(calls[k].tab)
                  \/ f.otp \in {"success", "error"} /\ calls[k] \in Pending(calls[k].tab),
           \A c \in L : c.fn = "page",
           \A c \in N : c \notin Pending(calls[k].tab)
    PROVE  Good
<1> DEFINE t == calls[k].tab
<1>1. t \in Tabs /\ calls[k] \in Calls /\ PageOK(Shown(k))
    BY DEF IndInv, TypesInv, CallOK, Calls, Shown
<1>6. g = IF calls[k].live THEN f ELSE Shown(k)
    BY DEF Answer
<1>2. ASSUME NEW j \in DOMAIN calls \ {k}, calls[j].tab = t
      PROVE  Fits(g, calls[j])
    <2>1. calls[j] \in Calls /\ Fits(Shown(k), calls[j])
        BY <1>2 DEF IndInv, TypesInv, CallOK, Shown
    <2>2. CASE ~calls[k].live
        BY <1>6, <2>1, <2>2
    <2>3. CASE calls[k].live /\ f.otp = Shown(k).otp
        BY <1>6, <2>1, <2>3, StillFits
    <2>4. CASE calls[k].live /\ calls[k] \in Pending(t)
        <3>1. calls[j] \notin Pending(t)
            BY <1>1, <2>4 DEF IndInv, OtpInv, Once
        <3> QED BY <1>2, <1>6, <2>1, <2>4, <3>1, StillFits
    <2> QED BY <2>2, <2>3, <2>4
<1>3. /\ Turn(t, g, {k}, L, N) /\ clicks' = clicks /\ troubles' = troubles
    <2>1. TypesInv
        BY DEF IndInv
    <2>2. \A j \in DOMAIN calls \ {k} : calls[j].tab = calls[k].tab /\ calls[j] \notin L => Fits(g, calls[j])
        BY <1>2
    <2> QED BY <2>1, <2>2, AnswerTurns
<1>4. g.otp = "verifying" => /\ tab[t].otp = "verifying"
                             /\ \A j \in {k} : calls[j] \notin Checks(t)
                             /\ \A c \in L : c \notin Checks(t)
    <2>1. \A c \in L : c \notin Checks(t)
        BY DEF Checks
    <2>2. CASE ~calls[k].live
        BY <1>6, <2>1, <2>2 DEF Checks, Shown
    <2>3. CASE calls[k].live
        BY <1>6, <2>1, <2>3 DEF Checks, Pending, Shown
    <2> QED BY <2>2, <2>3
<1>5. clicks' \in [Tabs -> Nat]
    BY <1>3 DEF IndInv, TypesInv
<1> QED BY <1>3, <1>4, <1>5, QuietTurn

-----------------------------------------------------------------------------
(* The calls that pages make                                               *)

LEMMA RepliesAre ==
    /\ 0 \in Secrets /\ NoReply \in Replies /\ NoReply.rows = {} /\ ~NoReply.ok
    /\ NoPassword \in Password
<1>1. 0 \in Secrets
    <2>1. Len(CodeOf) \in Nat
        BY CodesHaveDigits, LenProperties
    <2> QED BY <2>1 DEF Secrets
<1>2. Ok({}) \in Replies /\ Ok({}).rows = {}
    BY <1>1 DEF Ok, Replies, Reasons, Lines
<1>3. NoReply \in Replies /\ NoReply.rows = {} /\ ~NoReply.ok
    BY <1>2 DEF NoReply, Err, Replies, Reasons
<1> QED BY <1>1, <1>3 DEF NoPassword, Password

\* A call that a page of tab t makes, with the arguments that it takes.
Makes(t, fn, c) ==
    /\ c \in Calls /\ c.tab = t /\ c.fn = fn /\ c.at = "sent" /\ c.token = jar[Browser[t]]
    /\ c.reply = NoReply

\* The tables and the cookies are as they should be.
Stored == db \in Tables /\ jar \in [Browsers -> Tokens(db)]

LEMMA FirstMakes ==
    ASSUME Stored, NEW t \in Tabs, NEW fn \in Fns
    PROVE  /\ Makes(t, fn, New(t, fn)) /\ New(t, fn).live /\ New(t, fn).set = {}
           /\ New(t, fn).who = Nobody /\ New(t, fn).what = Nobody
<1>1. jar[Browser[t]] \in Nat
    <2>1. jar[Browser[t]] \in Tokens(db) /\ Len(db.session) \in Nat
        BY TabsHaveBrowsers, LenProperties DEF Stored, Tables
    <2> QED BY <2>1 DEF Tokens
<1> QED BY <1>1, RepliesAre, EmptyCode DEF Makes, New, Calls, Places, Routes

LEMMA FirstIsOK ==
    ASSUME Stored, NEW t \in Tabs, NEW fn, NEW c, Makes(t, fn, c), Arguments(c)
    PROVE  CallOK(db, c) /\ c.tab = t /\ c.at = "sent"
<1>1. jar[Browser[t]] \in Tokens(db)
    BY TabsHaveBrowsers DEF Stored
<1> QED BY <1>1, RepliesAre DEF Makes, CallOK, Stage, Answered

LEMMA NewMakes ==
    ASSUME TypesInv, NEW t \in Tabs, NEW fn \in Fns
    PROVE  /\ Makes(t, fn, New(t, fn)) /\ New(t, fn).live /\ New(t, fn).set = {}
           /\ New(t, fn).who = Nobody /\ New(t, fn).what = Nobody
<1>1. Stored
    BY DEF TypesInv, Stored
<1> QED BY <1>1, FirstMakes

LEMMA MadeIsOK ==
    ASSUME TypesInv, NEW t \in Tabs, NEW fn, NEW c, Makes(t, fn, c), Arguments(c)
    PROVE  CallOK(db, c) /\ c.tab = t /\ c.at = "sent"
<1>1. Stored
    BY DEF TypesInv, Stored
<1> QED BY <1>1, FirstIsOK

-----------------------------------------------------------------------------
(* Answers                                                                 *)

LEMMA RestOK ==
    ASSUME TypesInv, NEW k \in DOMAIN calls, NEW N
    PROVE  Rest(k) \in Seq(Calls) /\ Follows(calls, Rest(k), {k}, {}, N)
BY OneRemoved DEF TypesInv, Rest

LEMMA AnsweredCall ==
    ASSUME IndInv, NEW k \in DOMAIN calls
    PROVE  LET c == calls[k] IN
           /\ c \in Calls /\ c.tab \in Tabs /\ CallOK(db, c) /\ Fits(Shown(k), c) /\ PageOK(Shown(k))
           /\ Shown(k) = tab[c.tab]
BY DEF IndInv, TypesInv, CallOK, Calls, Shown

\* A load of a page, once its request has gone off, is no longer in the way.
LEMMA LoadingOK ==
    ASSUME NEW f, PageOK(f), NEW b \in BOOLEAN
    PROVE  /\ PageOK([f EXCEPT !.loading = b]) /\ Kept(f, [f EXCEPT !.loading = b])
           /\ [f EXCEPT !.loading = b].otp = f.otp /\ [f EXCEPT !.loading = b].route = f.route
BY DEF PageOK, Page, OtpShown, Kept

\* What a page may change without the invariant taking notice.
LEMMA OtherFields ==
    ASSUME NEW f, PageOK(f), NEW g \in Page,
           g.route = f.route, g.email = f.email, g.need = f.need, g.code = f.code, g.tried = f.tried,
           g.otp = f.otp, g.due = f.due, g.invite = f.invite, g.invited = f.invited, g.rows = f.rows
    PROVE  PageOK(g) /\ Kept(f, g) /\ g.otp = f.otp
BY DEF PageOK, OtpShown, Kept

\* An answer after which nothing is asked.
LEMMA LastAnswer ==
    ASSUME IndInv, NEW k \in DOMAIN calls, calls[k].at = "back",
           NEW f, Then(k, f, Rest(k)),
           calls[k].live =>
               /\ PageOK(f) /\ Kept(Shown(k), f)
               /\ \/ f.otp = Shown(k).otp /\ calls[k] \notin Pending(calls[k].tab)
                  \/ f.otp \in {"success", "error"} /\ calls[k] \in Pending(calls[k].tab)
    PROVE  Good
<1>1. Rest(k) \in Seq(Calls) /\ Follows(calls, Rest(k), {k}, {}, {})
    BY RestOK DEF IndInv
<1> DEFINE g == IF calls[k].live THEN f ELSE Shown(k)
<1>2. g = IF calls[k].live THEN f ELSE Shown(k)
    OBVIOUS
<1> HIDE DEF g
<1>3. Answer(k, f, Rest(k), g, {}, {})
    BY <1>1, <1>2 DEF Answer
<1> QED BY <1>3, AnswerIsGood

\* An answer that leads to another page.
Leaving(t, route, flag) == [New(t, "page") EXCEPT !.to = route, !.flag = flag]
Pages(t) == {c \in Calls : c.fn = "page" /\ c.tab = t}

LEMMA LeavingOK ==
    ASSUME TypesInv, NEW t \in Tabs, NEW route \in Routes, NEW flag \in BOOLEAN
    PROVE  LET c == Leaving(t, route, flag) IN
           /\ CallOK(db, c) /\ c \in Calls /\ c.tab = t /\ c.at = "sent" /\ c.fn = "page"
           /\ \A u : c \notin Pending(u)
           /\ \A f : PageOK(f) => Fits(f, c)
<1> DEFINE c == Leaving(t, route, flag)
<1>1. Makes(t, "page", New(t, "page"))
    BY NewMakes DEF Fns
<1>2. Makes(t, "page", c)
    BY <1>1 DEF Makes, Leaving, Calls
<1> HIDE DEF c
<1>3. Arguments(c) /\ \A u : c \notin Pending(u)
    BY <1>2 DEF Makes, Arguments, Pending
<1>4. \A f : PageOK(f) => Fits(f, c)
    BY <1>2 DEF Makes, PageOK, Page, Fits, From, PublicFns, AccountFns
<1> QED BY <1>2, <1>3, <1>4, MadeIsOK DEF Makes, c

LEMMA PushOK ==
    ASSUME TypesInv, NEW t \in Tabs, NEW route \in Routes, NEW D \in Seq(Calls), NEW R, Follows(calls, D, R, {}, {})
    PROVE  /\ Push(t, route, D) \in Seq(Calls)
           /\ Follows(calls, Push(t, route, D), R, Pages(t), {Leaving(t, route, TRUE)})
<1> DEFINE E == [j \in DOMAIN D |-> Left(D[j], Pages(t))]
<1>1. D \in [DOMAIN D -> Calls]
    BY SeqFacts
<1>2. [j \in DOMAIN D |-> [D[j] EXCEPT !.live = @ /\ ~(D[j].fn = "page" /\ D[j].tab = t)]] = E
    <2>1. ASSUME NEW j \in DOMAIN D
          PROVE  [D[j] EXCEPT !.live = @ /\ ~(D[j].fn = "page" /\ D[j].tab = t)] = Left(D[j], Pages(t))
        <3>1. D[j] \in Calls
            BY <1>1
        <3> QED BY <3>1 DEF Left, Dead, Pages, Calls
    <2> QED BY <2>1
<1>3. calls \in Seq(Calls)
    BY DEF TypesInv
<1>4. E \in Seq(Calls) /\ Follows(calls, E, R, Pages(t), {Leaving(t, route, TRUE)})
    BY <1>3, SomeDie
<1> HIDE DEF E
<1>5. Leaving(t, route, TRUE) \in Calls
    BY LeavingOK
<1>6. Push(t, route, D) = Append(E, Leaving(t, route, TRUE))
    BY <1>2 DEF Push, Leaving
<1> DEFINE c == Leaving(t, route, TRUE)
           L == Pages(t)
           N == {c}
<1>7. c \in Calls /\ c \in N /\ Follows(calls, E, R, L, N)
    BY <1>4, <1>5
<1> HIDE DEF c, L, N
<1>8. Append(E, c) \in Seq(Calls) /\ Follows(calls, Append(E, c), R, L, N)
    BY <1>3, <1>4, <1>7, OneAdded
<1> QED BY <1>6, <1>8 DEF c, L, N

LEMMA LeavingAnswer ==
    ASSUME IndInv, NEW k \in DOMAIN calls, calls[k].at = "back",
           NEW f, NEW route \in Routes, Then(k, f, Push(calls[k].tab, route, Rest(k))),
           calls[k].live => PageOK(f) /\ Kept(Shown(k), f) /\ f.otp = Shown(k).otp,
           calls[k] \notin Pending(calls[k].tab)
    PROVE  Good
<1> DEFINE t == calls[k].tab
           g == IF calls[k].live THEN f ELSE Shown(k)
           c == Leaving(t, route, TRUE)
           L == Pages(t)
           N == {c}
           after == Push(t, route, Rest(k))
<1>1. TypesInv /\ t \in Tabs /\ PageOK(Shown(k))
    BY AnsweredCall DEF IndInv
<1>2. Rest(k) \in Seq(Calls) /\ Follows(calls, Rest(k), {k}, {}, {})
    BY RestOK DEF IndInv
<1>3. after \in Seq(Calls) /\ Follows(calls, after, {k}, L, N)
    BY <1>1, <1>2, PushOK
<1>4. g = (IF calls[k].live THEN f ELSE Shown(k)) /\ PageOK(g) /\ Then(k, f, after)
    BY <1>1
<1>5. CallOK(db, c) /\ c.tab = t /\ c.at = "sent" /\ c \notin Pending(t) /\ \A h : PageOK(h) => Fits(h, c)
    BY <1>1, LeavingOK
<1>6. \A d \in L : d.tab = calls[k].tab /\ d.fn = "page"
    BY DEF Pages
<1>7. \A d \in N : /\ CallOK(db, d) /\ d.tab = calls[k].tab /\ Fits(g, d) /\ d.at \in {"sent", "timer"}
                   /\ d \notin Pending(calls[k].tab)
    <2>1. Fits(g, c)
        BY <1>4, <1>5
    <2> QED BY <1>5, <2>1
<1> HIDE DEF g, L, N, after
<1>8. Answer(k, f, after, g, L, N)
    BY <1>3, <1>4, <1>6, <1>7 DEF Answer
<1> QED BY <1>6, <1>7, <1>8, AnswerIsGood

LEMMA InviteVerifiedIsGood ==
    ASSUME IndInv, NEW k \in DOMAIN calls, InviteVerified(k)
    PROVE  Good
<1> DEFINE c == calls[k]
           f == [Ended(Shown(k)) EXCEPT !.invited = @ \/ c.reply.ok]
<1>1. c.at = "back" /\ c.fn = "verifyInvite" /\ Then(k, f, Rest(k))
    BY DEF InviteVerified, Back
<1>2. c \in Calls /\ Fits(Shown(k), c) /\ PageOK(Shown(k))
    BY AnsweredCall
<1>3. ASSUME c.live
      PROVE  PageOK(f) /\ Kept(Shown(k), f) /\ f.otp = Shown(k).otp
    <2>1. Shown(k).route = "register" /\ Shown(k).invite \in Invites
        BY <1>1, <1>2, <1>3 DEF Fits, From
    <2>2. c.reply.ok \in BOOLEAN
        BY <1>2 DEF Calls, Replies
    <2> QED BY <1>2, <2>1, <2>2 DEF PageOK, Page, OtpShown, Ended, Kept
<1>4. c \notin Pending(c.tab)
    BY <1>1 DEF Pending
<1> QED BY <1>1, <1>3, <1>4, LastAnswer

LEMMA RegisteredIsGood ==
    ASSUME IndInv, NEW k \in DOMAIN calls, Registered(k)
    PROVE  Good
<1> DEFINE c == calls[k]
<1>1. c.at = "back" /\ c.fn = "register"
    BY DEF Registered, Back
<1>2. PageOK(Ended(Shown(k))) /\ Kept(Shown(k), Ended(Shown(k))) /\ Ended(Shown(k)).otp = Shown(k).otp
    BY AnsweredCall, LoadingOK DEF Ended
<1>3. c \notin Pending(c.tab)
    BY <1>1 DEF Pending
<1>4. CASE c.reply.ok
    <2>1. "2fa" \in Routes /\ Then(k, Ended(Shown(k)), Push(c.tab, "2fa", Rest(k)))
        BY <1>4 DEF Registered, Routes
    <2> QED BY <1>1, <1>2, <1>3, <2>1, LeavingAnswer
<1>5. CASE ~c.reply.ok
    <2>1. Then(k, Ended(Shown(k)), Rest(k))
        BY <1>5 DEF Registered
    <2> QED BY <1>1, <1>2, <1>3, <2>1, LastAnswer
<1> QED BY <1>4, <1>5

LEMMA LoggedInIsGood ==
    ASSUME IndInv, NEW k \in DOMAIN calls, LoggedIn(k)
    PROVE  Good
<1> DEFINE c == calls[k]
<1>1. c.at = "back" /\ c.fn = "login"
    BY DEF LoggedIn, Back
<1>2. c \in Calls /\ Fits(Shown(k), c) /\ PageOK(Shown(k))
    BY AnsweredCall
<1>3. c \notin Pending(c.tab)
    BY <1>1 DEF Pending
<1>4. CASE c.reply.ok
    <2>1. PageOK(Ended(Shown(k))) /\ Kept(Shown(k), Ended(Shown(k))) /\ Ended(Shown(k)).otp = Shown(k).otp
        BY <1>2, LoadingOK DEF Ended
    <2> DEFINE route == RedirectAfterLogin(c.reply.is)
    <2>2. route \in Routes
        BY DEF RedirectAfterLogin, Home, Routes, AdminRoutes
    <2>3. Then(k, Ended(Shown(k)), Push(c.tab, route, Rest(k)))
        BY <1>4 DEF LoggedIn
    <2> HIDE DEF route
    <2> QED BY <1>1, <1>3, <2>1, <2>2, <2>3, LeavingAnswer
<1>5. CASE ~c.reply.ok
    <2> DEFINE f == [Ended(Shown(k)) EXCEPT !.need = @ \/ c.reply.why = "totp_required"]
    <2>1. Then(k, f, Rest(k))
        BY <1>5 DEF LoggedIn
    <2>2. ASSUME c.live
          PROVE  PageOK(f) /\ Kept(Shown(k), f) /\ f.otp = Shown(k).otp
        <3>1. Shown(k).route = "login" /\ Shown(k).email \in Users
            BY <1>1, <1>2, <2>2 DEF Fits, From
        <3>2. /\ f.route = "login" /\ f.email \in Users /\ f.otp = Shown(k).otp /\ f.code = Shown(k).code
              /\ f.tried = Shown(k).tried /\ f.due = Shown(k).due
            BY <1>2, <3>1 DEF PageOK, Page, Ended
        <3>3. f \in Page
            BY <1>2, ZenonT(60) DEF PageOK, Page, Ended
        <3>4. Shown(k).need => f.need
            BY <1>2 DEF PageOK, Page, Ended
        <3> HIDE DEF f
        <3>5. PageOK(f)
            BY <1>2, <3>1, <3>2, <3>3, <3>4 DEF PageOK, OtpShown
        <3> QED BY <3>1, <3>2, <3>5 DEF Kept, f, Ended
    <2> QED BY <1>1, <1>3, <2>1, <2>2, LastAnswer
<1> QED BY <1>4, <1>5

LEMMA CodeRefusedIsGood ==
    ASSUME IndInv, NEW k \in DOMAIN calls, CodeRefused(k)
    PROVE  Good
<1> DEFINE c == calls[k]
           f == [Shown(k) EXCEPT !.otp = "error"]
<1>1. c.at = "back" /\ c.fn \in {"otp", "confirmTotp", "fetchMe"} /\ Then(k, f, Rest(k))
    BY DEF CodeRefused, Back
<1>2. c \in Calls /\ Fits(Shown(k), c) /\ PageOK(Shown(k))
    BY AnsweredCall
<1>3. ASSUME c.live
      PROVE  PageOK(f) /\ Kept(Shown(k), f) /\ f.otp = "error" /\ c \in Pending(c.tab)
    <2>1. Full(Shown(k).code)
        BY <1>1, <1>2, <1>3 DEF Fits, PageOK
    <2>2. PageOK(f) /\ Kept(Shown(k), f) /\ f.otp = "error"
        BY <1>2, <2>1 DEF PageOK, Page, OtpShown, OtpStatus, Kept
    <2> QED BY <1>1, <1>2, <1>3, <2>2 DEF Pending
<1> QED BY <1>1, <1>3, LastAnswer

LEMMA SecretShownIsGood ==
    ASSUME IndInv, NEW k \in DOMAIN calls, SecretShown(k)
    PROVE  Good
<1> DEFINE c == calls[k]
           f == [Ended(Shown(k)) EXCEPT !.secret = c.reply.secret]
<1>1. c.at = "back" /\ c.fn = "setupTotp" /\ Then(k, f, Rest(k))
    BY DEF SecretShown, Back
<1>2. c \in Calls /\ PageOK(Shown(k)) /\ c.reply.secret \in Secrets
    BY AnsweredCall DEF Calls, Replies
<1>3. PageOK(f) /\ Kept(Shown(k), f) /\ f.otp = Shown(k).otp
    <2>1. /\ f \in Page /\ f.route = Shown(k).route /\ f.email = Shown(k).email /\ f.need = Shown(k).need
          /\ f.code = Shown(k).code /\ f.tried = Shown(k).tried /\ f.otp = Shown(k).otp
          /\ f.due = Shown(k).due /\ f.invite = Shown(k).invite /\ f.invited = Shown(k).invited
          /\ f.rows = Shown(k).rows
        BY <1>2 DEF PageOK, Page, Ended
    <2> HIDE DEF f
    <2> QED BY <1>2, <2>1, OtherFields
<1>4. c \notin Pending(c.tab)
    BY <1>1 DEF Pending
<1> QED BY <1>1, <1>3, <1>4, LastAnswer

\* An answer that the page does not show.
LEMMA SameIsOK ==
    ASSUME NEW f, PageOK(f)
    PROVE  PageOK(f) /\ Kept(f, f) /\ f.otp = f.otp
BY DEF Kept

LEMMA LoggedOutIsGood ==
    ASSUME IndInv, NEW k \in DOMAIN calls, LoggedOut(k)
    PROVE  Good
<1>1. calls[k].at = "back" /\ calls[k] \notin Pending(calls[k].tab)
    BY DEF LoggedOut, Back, Pending
<1>2. PageOK(Shown(k)) /\ Kept(Shown(k), Shown(k)) /\ Shown(k).otp = Shown(k).otp
    BY AnsweredCall, SameIsOK
<1>3. CASE calls[k].reply.ok
    <2>1. "login" \in Routes /\ Then(k, Shown(k), Push(calls[k].tab, "login", Rest(k)))
        BY <1>3 DEF LoggedOut, Routes
    <2> QED BY <1>1, <1>2, <2>1, LeavingAnswer
<1>4. CASE ~calls[k].reply.ok
    <2>1. Then(k, Shown(k), Rest(k))
        BY <1>4 DEF LoggedOut
    <2> QED BY <1>1, <1>2, <2>1, LastAnswer
<1> QED BY <1>3, <1>4

LEMMA CommandFailedIsGood ==
    ASSUME IndInv, NEW k \in DOMAIN calls, CommandFailed(k)
    PROVE  Good
<1>1. calls[k].at = "back" /\ calls[k] \notin Pending(calls[k].tab) /\ Then(k, Shown(k), Rest(k))
    BY DEF CommandFailed, Back, Pending, Commands
<1>2. PageOK(Shown(k)) /\ Kept(Shown(k), Shown(k)) /\ Shown(k).otp = Shown(k).otp
    BY AnsweredCall, SameIsOK
<1> QED BY <1>1, <1>2, LastAnswer

LEMMA ListedIsGood ==
    ASSUME IndInv, NEW k \in DOMAIN calls, Listed(k)
    PROVE  Good
<1> DEFINE c == calls[k]
           f == [Ended(Shown(k)) EXCEPT !.rows = IF c.reply.ok THEN c.reply.rows ELSE @]
<1>1. c.at = "back" /\ c.fn \in {"fetchAdminUsers", "fetchAdminInvites"} /\ Then(k, f, Rest(k))
    BY DEF Listed, Back
<1>2. CallOK(db, c) /\ Fits(Shown(k), c) /\ PageOK(Shown(k))
    BY AnsweredCall
<1>3. ASSUME c.live
      PROVE  PageOK(f) /\ Kept(Shown(k), f) /\ f.otp = Shown(k).otp
    <2>1. /\ c.fn = "fetchAdminUsers" => Shown(k).route = "users" /\ c.reply.rows \subseteq UserLine
          /\ c.fn = "fetchAdminInvites" => Shown(k).route = "invites" /\ c.reply.rows \subseteq InviteLine
        BY <1>1, <1>2, <1>3 DEF Fits, From, CallOK, Answered
    <2>2. /\ f.route = Shown(k).route /\ f.email = Shown(k).email /\ f.need = Shown(k).need
          /\ f.code = Shown(k).code /\ f.tried = Shown(k).tried /\ f.otp = Shown(k).otp
          /\ f.due = Shown(k).due /\ f.invite = Shown(k).invite /\ f.invited = Shown(k).invited
          /\ f.rows = IF c.reply.ok THEN c.reply.rows ELSE Shown(k).rows
        BY <1>2 DEF PageOK, Page, Ended
    <2>3. f \in Page
        BY <1>1, <1>2, <2>1 DEF PageOK, Page, Ended
    <2> HIDE DEF f
    <2> QED BY <1>1, <1>2, <2>1, <2>2, <2>3 DEF PageOK, OtpShown, Kept
<1>4. c \notin Pending(c.tab)
    BY <1>1 DEF Pending
<1> QED BY <1>1, <1>3, <1>4, LastAnswer

LEMMA DomainsShownIsGood ==
    ASSUME IndInv, NEW k \in DOMAIN calls, DomainsShown(k)
    PROVE  Good
<1> DEFINE c == calls[k]
           f == [Shown(k) EXCEPT !.rows = IF c.reply.ok THEN c.reply.rows ELSE @,
                                 !.saved = @ \/ (c.fn = "saveAuthDomains" /\ c.reply.ok)]
<1>1. c.at = "back" /\ c.fn \in {"fetchAuthDomains", "saveAuthDomains"} /\ Then(k, f, Rest(k))
    BY DEF DomainsShown, Back
<1>2. CallOK(db, c) /\ Fits(Shown(k), c) /\ PageOK(Shown(k))
    BY AnsweredCall
<1>3. ASSUME c.live
      PROVE  PageOK(f) /\ Kept(Shown(k), f) /\ f.otp = Shown(k).otp
    <2>1. Shown(k).route = "domains" /\ c.reply.rows \subseteq Domains /\ c.reply.ok \in BOOLEAN
        BY <1>1, <1>2, <1>3 DEF Fits, From, CallOK, Answered, Calls, Replies
    <2>2. /\ f.route = Shown(k).route /\ f.email = Shown(k).email /\ f.need = Shown(k).need
          /\ f.code = Shown(k).code /\ f.tried = Shown(k).tried /\ f.otp = Shown(k).otp
          /\ f.due = Shown(k).due /\ f.invite = Shown(k).invite /\ f.invited = Shown(k).invited
          /\ f.rows = IF c.reply.ok THEN c.reply.rows ELSE Shown(k).rows
        BY <1>2 DEF PageOK, Page
    <2>3. f \in Page
        BY <1>1, <1>2, <2>1, ZenonT(60) DEF PageOK, Page
    <2> HIDE DEF f
    <2> QED BY <1>2, <2>1, <2>2, <2>3 DEF PageOK, OtpShown, Kept
<1>4. c \notin Pending(c.tab)
    BY <1>1 DEF Pending
<1> QED BY <1>1, <1>3, <1>4, LastAnswer

\* An answer after which the list is read again.
LEMMA ReloadAnswer ==
    ASSUME IndInv, NEW k \in DOMAIN calls, calls[k].at = "back", calls[k] \notin Pending(calls[k].tab),
           NEW f, NEW fn \in {"fetchAdminUsers", "fetchAdminInvites"}, NEW S \in SUBSET Users,
           NEW c, c = [New(calls[k].tab, fn) EXCEPT !.set = S, !.live = calls[k].live],
           Then(k, f, Append(Rest(k), c)),
           calls[k].live => PageOK(f) /\ Kept(Shown(k), f) /\ f.otp = Shown(k).otp /\ From(fn, f.route)
    PROVE  Good
<1> DEFINE t == calls[k].tab
           g == IF calls[k].live THEN f ELSE Shown(k)
           N == {c}
           after == Append(Rest(k), c)
<1>1. TypesInv /\ t \in Tabs /\ PageOK(Shown(k)) /\ calls[k].live \in BOOLEAN /\ calls \in Seq(Calls)
    BY AnsweredCall DEF IndInv, Calls, TypesInv
<1>2. fn \in Fns /\ fn # "login" /\ fn # "verifyInvite" /\ fn \notin {"otp", "confirmTotp", "fetchMe"}
    BY DEF Fns, AdminFns
<1>3. Makes(t, fn, New(t, fn))
    BY <1>1, <1>2, NewMakes
<1>4. Makes(t, fn, c) /\ c.set = S /\ c.live = calls[k].live
    BY <1>1, <1>3 DEF Makes, Calls
<1>5. CallOK(db, c) /\ c.tab = t /\ c.at = "sent" /\ c \in Calls /\ c.fn = fn
    <2>1. Arguments(c)
        BY <1>4 DEF Arguments, Makes
    <2> QED BY <1>1, <1>4, <2>1, MadeIsOK DEF Makes
<1>6. Rest(k) \in Seq(Calls) /\ Follows(calls, Rest(k), {k}, {}, N)
    BY <1>1, RestOK
<1>7. g = (IF calls[k].live THEN f ELSE Shown(k)) /\ Then(k, f, after)
    OBVIOUS
<1>8. \A d \in N : /\ CallOK(db, d) /\ d.tab = calls[k].tab /\ Fits(g, d) /\ d.at \in {"sent", "timer"}
                   /\ d \notin Pending(calls[k].tab)
    BY <1>2, <1>4, <1>5 DEF Fits, Pending
<1>9. c \in N
    OBVIOUS
<1> HIDE DEF g, N
<1>10. after \in Seq(Calls) /\ Follows(calls, after, {k}, {}, N)
    BY <1>1, <1>5, <1>6, <1>9, OneAdded
<1> HIDE DEF after
<1>11. Answer(k, f, after, g, {}, N)
    BY <1>7, <1>8, <1>10 DEF Answer
<1> QED BY <1>8, <1>11, AnswerIsGood

LEMMA ToggleDoneIsGood ==
    ASSUME IndInv, NEW k \in DOMAIN calls, ToggleDone(k)
    PROVE  Good
<1> DEFINE c == calls[k]
           f == [Shown(k) EXCEPT !.loading = TRUE]
           d == [New(c.tab, "fetchAdminUsers") EXCEPT !.set = c.set, !.live = c.live]
<1>1. /\ c.at = "back" /\ c.fn \in {"setAdminUserBlocked", "setAdminUserStudioAccess"}
      /\ Then(k, f, Append(Rest(k), d))
    BY DEF ToggleDone, Back, Reload
<1>2. CallOK(db, c) /\ Fits(Shown(k), c) /\ PageOK(Shown(k))
    BY AnsweredCall
<1>3. c.set \in SUBSET Users /\ c \notin Pending(c.tab)
    BY <1>1, <1>2 DEF CallOK, Arguments, Pending
<1>4. PageOK(f) /\ Kept(Shown(k), f) /\ f.otp = Shown(k).otp /\ f.route = Shown(k).route
    BY <1>2, LoadingOK
<1>5. c.live => From("fetchAdminUsers", f.route)
    BY <1>1, <1>2, <1>4 DEF Fits, From, AccountFns
<1> HIDE DEF d, f
<1> QED BY <1>1, <1>3, <1>4, <1>5, ReloadAnswer DEF d

LEMMA IssueDoneIsGood ==
    ASSUME IndInv, NEW k \in DOMAIN calls, IssueDone(k)
    PROVE  Good
<1> DEFINE c == calls[k]
           f == [[Shown(k) EXCEPT !.fresh = c.reply.rows] EXCEPT !.loading = TRUE]
           d == [New(c.tab, "fetchAdminInvites") EXCEPT !.set = c.set, !.live = c.live]
<1>1. c.at = "back" /\ c.fn = "issueAdminInvites" /\ Then(k, f, Append(Rest(k), d))
    BY DEF IssueDone, Back, Reload
<1>2. CallOK(db, c) /\ Fits(Shown(k), c) /\ PageOK(Shown(k))
    BY AnsweredCall
<1>3. c.set \in SUBSET Users /\ c \notin Pending(c.tab) /\ c.reply.rows \subseteq Invites
    BY <1>1, <1>2 DEF CallOK, Arguments, Pending, Answered
<1>4. PageOK(f) /\ Kept(Shown(k), f) /\ f.otp = Shown(k).otp /\ f.route = Shown(k).route
    <2>1. /\ f \in Page /\ f.route = Shown(k).route /\ f.email = Shown(k).email /\ f.need = Shown(k).need
          /\ f.code = Shown(k).code /\ f.tried = Shown(k).tried /\ f.otp = Shown(k).otp
          /\ f.due = Shown(k).due /\ f.invite = Shown(k).invite /\ f.invited = Shown(k).invited
          /\ f.rows = Shown(k).rows
        BY <1>2, <1>3 DEF PageOK, Page
    <2> HIDE DEF f
    <2> QED BY <1>2, <2>1, OtherFields
<1>5. c.live => From("fetchAdminInvites", f.route)
    BY <1>1, <1>2, <1>4 DEF Fits, From, AccountFns
<1> HIDE DEF d, f
<1> QED BY <1>1, <1>3, <1>4, <1>5, ReloadAnswer DEF d

LEMMA RevokeDoneIsGood ==
    ASSUME IndInv, NEW k \in DOMAIN calls, RevokeDone(k)
    PROVE  Good
<1> DEFINE c == calls[k]
           f == [[Shown(k) EXCEPT !.ticked = @ \ {c.what}] EXCEPT !.loading = TRUE]
           d == [New(c.tab, "fetchAdminInvites") EXCEPT !.set = c.set, !.live = c.live]
<1>1. c.at = "back" /\ c.fn = "revokeAdminInvite" /\ Then(k, f, Append(Rest(k), d))
    BY DEF RevokeDone, Back, Reload
<1>2. CallOK(db, c) /\ Fits(Shown(k), c) /\ PageOK(Shown(k))
    BY AnsweredCall
<1>3. c.set \in SUBSET Users /\ c \notin Pending(c.tab)
    BY <1>1, <1>2 DEF CallOK, Arguments, Pending
<1>4. PageOK(f) /\ Kept(Shown(k), f) /\ f.otp = Shown(k).otp /\ f.route = Shown(k).route
    <2>1. /\ f \in Page /\ f.route = Shown(k).route /\ f.email = Shown(k).email /\ f.need = Shown(k).need
          /\ f.code = Shown(k).code /\ f.tried = Shown(k).tried /\ f.otp = Shown(k).otp
          /\ f.due = Shown(k).due /\ f.invite = Shown(k).invite /\ f.invited = Shown(k).invited
          /\ f.rows = Shown(k).rows
        BY <1>2 DEF PageOK, Page
    <2> HIDE DEF f
    <2> QED BY <1>2, <2>1, OtherFields
<1>5. c.live => From("fetchAdminInvites", f.route)
    BY <1>1, <1>2, <1>4 DEF Fits, From, AccountFns
<1> HIDE DEF d, f
<1> QED BY <1>1, <1>3, <1>4, <1>5, ReloadAnswer DEF d

LEMMA DeleteDoneIsGood ==
    ASSUME IndInv, NEW k \in DOMAIN calls, DeleteDone(k)
    PROVE  Good
<1> DEFINE c == calls[k]
           f == [Shown(k) EXCEPT !.ticked = {}, !.fresh = @ \ c.set, !.loading = TRUE]
           S == Found(c.flag)
           d == [New(c.tab, "fetchAdminInvites") EXCEPT !.set = S, !.live = c.live]
<1>1. c.at = "back" /\ c.fn = "deleteAdminInvites" /\ Then(k, f, Append(Rest(k), d))
    BY DEF DeleteDone, Back
<1>2. CallOK(db, c) /\ Fits(Shown(k), c) /\ PageOK(Shown(k))
    BY AnsweredCall
<1>3. S \in SUBSET Users /\ c \notin Pending(c.tab)
    BY <1>1, FieldsAreFilled DEF Found, Pending
<1>4. PageOK(f) /\ Kept(Shown(k), f) /\ f.otp = Shown(k).otp /\ f.route = Shown(k).route
    <2>1. /\ f \in Page /\ f.route = Shown(k).route /\ f.email = Shown(k).email /\ f.need = Shown(k).need
          /\ f.code = Shown(k).code /\ f.tried = Shown(k).tried /\ f.otp = Shown(k).otp
          /\ f.due = Shown(k).due /\ f.invite = Shown(k).invite /\ f.invited = Shown(k).invited
          /\ f.rows = Shown(k).rows
        BY <1>2 DEF PageOK, Page
    <2> HIDE DEF f
    <2> QED BY <1>2, <2>1, OtherFields
<1>5. c.live => From("fetchAdminInvites", f.route)
    BY <1>1, <1>2, <1>4 DEF Fits, From, AccountFns
<1> HIDE DEF d, f, S
<1> QED BY <1>1, <1>3, <1>4, <1>5, ReloadAnswer DEF d

LEMMA CodeAcceptedIsGood ==
    ASSUME IndInv, NEW k \in DOMAIN calls, CodeAccepted(k)
    PROVE  Good
<1> DEFINE c == calls[k]
           f == [Shown(k) EXCEPT !.otp = "success"]
           d == [c EXCEPT !.at = "timer"]
           g == IF c.live THEN f ELSE Shown(k)
           N == {d}
           after == Goes450(k)
<1>1. c.at = "back" /\ c.fn \in {"otp", "fetchMe"} /\ Then(k, f, after)
    BY DEF CodeAccepted, Back
<1>2. CallOK(db, c) /\ Fits(Shown(k), c) /\ PageOK(Shown(k)) /\ c \in Calls /\ calls \in Seq(Calls)
    BY AnsweredCall DEF IndInv, TypesInv
<1>3. ASSUME c.live
      PROVE  PageOK(f) /\ Kept(Shown(k), f) /\ f.otp = "success" /\ c \in Pending(c.tab)
    <2>1. Full(Shown(k).code)
        BY <1>1, <1>2, <1>3 DEF Fits, PageOK
    <2>2. PageOK(f) /\ Kept(Shown(k), f) /\ f.otp = "success"
        BY <1>2, <2>1 DEF PageOK, Page, OtpShown, OtpStatus, Kept
    <2> QED BY <1>1, <1>2, <1>3, <2>2 DEF Pending
<1>4. /\ d \in Calls /\ d.tab = c.tab /\ d.fn = c.fn /\ d.at = "timer" /\ d.token = c.token /\ d.live = c.live
      /\ d.who = c.who /\ d.what = c.what /\ d.set = c.set /\ d.pwd = c.pwd /\ d.reply = c.reply
    BY <1>2 DEF Calls, Places
<1>5. CallOK(db, d) /\ d \notin Pending(c.tab)
    BY <1>1, <1>2, <1>4 DEF CallOK, Stage, Arguments, Answered, Pending
<1>6. Fits(g, d)
    BY <1>1, <1>2, <1>3, <1>4 DEF Fits, Kept
<1>7. after \in Seq(Calls) /\ Follows(calls, after, {k}, {}, N)
    BY <1>2, <1>4, OneChanged DEF Goes450
<1>8. g = (IF c.live THEN f ELSE Shown(k))
    OBVIOUS
<1>9. \A e \in N : /\ CallOK(db, e) /\ e.tab = c.tab /\ Fits(g, e) /\ e.at \in {"sent", "timer"}
                   /\ e \notin Pending(c.tab)
    BY <1>4, <1>5, <1>6
<1> HIDE DEF f, g, N, after
<1>10. Answer(k, f, after, g, {}, N)
    BY <1>1, <1>3, <1>7, <1>8, <1>9 DEF Answer
<1> QED BY <1>3, <1>9, <1>10, AnswerIsGood

LEMMA CodeConfirmedIsGood ==
    ASSUME IndInv, NEW k \in DOMAIN calls, CodeConfirmed(k)
    PROVE  Good
<1> DEFINE c == calls[k]
           t == c.tab
           f == [Shown(k) EXCEPT !.otp = "success"]
           d == [New(t, "fetchMe") EXCEPT !.live = c.live]
           g == IF c.live THEN f ELSE Shown(k)
           N == {d}
           after == Append(Rest(k), d)
<1>1. c.at = "back" /\ c.fn = "confirmTotp" /\ Then(k, f, after)
    BY DEF CodeConfirmed, Back
<1>2. /\ CallOK(db, c) /\ Fits(Shown(k), c) /\ PageOK(Shown(k)) /\ c \in Calls /\ calls \in Seq(Calls)
      /\ TypesInv /\ t \in Tabs
    BY AnsweredCall DEF IndInv, TypesInv
<1>3. ASSUME c.live
      PROVE  PageOK(f) /\ Kept(Shown(k), f) /\ f.otp = "success" /\ c \in Pending(t)
    <2>1. Full(Shown(k).code)
        BY <1>1, <1>2, <1>3 DEF Fits, PageOK
    <2>2. PageOK(f) /\ Kept(Shown(k), f) /\ f.otp = "success"
        BY <1>2, <2>1 DEF PageOK, Page, OtpShown, OtpStatus, Kept
    <2> QED BY <1>1, <1>2, <1>3, <2>2 DEF Pending
<1>4. Makes(t, "fetchMe", d) /\ d.live = c.live
    <2>1. Makes(t, "fetchMe", New(t, "fetchMe")) /\ c.live \in BOOLEAN
        BY <1>2, NewMakes DEF Fns, AccountFns, Calls
    <2> QED BY <2>1 DEF Makes, Calls
<1>5. CallOK(db, d) /\ d.tab = t /\ d.at = "sent" /\ d \in Calls /\ d.fn = "fetchMe"
    <2>1. Arguments(d)
        BY <1>4 DEF Arguments, Makes
    <2> QED BY <1>2, <1>4, <2>1, MadeIsOK DEF Makes
<1>6. Fits(g, d)
    BY <1>1, <1>2, <1>3, <1>4, <1>5 DEF Fits, Kept, From, AccountFns
<1>7. Rest(k) \in Seq(Calls) /\ Follows(calls, Rest(k), {k}, {}, N) /\ Follows(calls, Rest(k), {k}, {}, {})
    BY <1>2, RestOK
<1>8. after \in Seq(Calls) /\ Follows(calls, after, {k}, {}, N)
    <2>1. d \in N
        OBVIOUS
    <2> HIDE DEF N, d
    <2> QED BY <1>2, <1>5, <1>7, <2>1, OneAdded
<1>9. Answer(k, f, after, g, {}, N)
    <2>1. /\ g = (IF c.live THEN f ELSE Shown(k))
          /\ \A e \in N : CallOK(db, e) /\ e.tab = c.tab /\ Fits(g, e) /\ e.at \in {"sent", "timer"}
        BY <1>5, <1>6
    <2> HIDE DEF f, g, N, after
    <2> QED BY <1>1, <1>3, <1>8, <2>1 DEF Answer
<1>10. CASE ~c.live
    <2>1. \A e \in N : e \notin Pending(c.tab)
        BY <1>4, <1>10 DEF Pending
    <2> HIDE DEF f, g, N, after
    <2> QED BY <1>9, <1>10, <2>1, AnswerIsGood
<1>11. CASE c.live
    <2>1. \A j \in DOMAIN calls \ {k} : calls[j] \notin Pending(t)
        BY <1>2, <1>3, <1>11 DEF IndInv, OtpInv, Once
    <2>2. \A j \in DOMAIN calls \ {k} : calls[j].tab = calls[k].tab /\ calls[j] \notin {} => Fits(g, calls[j])
        <3> SUFFICES ASSUME NEW j \in DOMAIN calls \ {k}, calls[j].tab = t
                     PROVE  Fits(g, calls[j])
            OBVIOUS
        <3>1. calls[j] \in Calls /\ Fits(Shown(k), calls[j])
            BY DEF IndInv, TypesInv, CallOK, Shown
        <3>2. Kept(Shown(k), g)
            BY <1>3, <1>11
        <3> HIDE DEF g
        <3> QED BY <2>1, <3>1, <3>2, StillFits
    <2>3. g.otp = "success" /\ (c.live => PageOK(f))
        BY <1>3, <1>11
    <2> HIDE DEF f, g, N
    <2>4. Turn(t, g, {k}, {}, N) /\ clicks' = clicks /\ troubles' = troubles
        <3> HIDE DEF after, d
        <3> QED BY <1>2, <1>9, <2>2, AnswerTurns
    <2>5. calls' = after /\ tab'[t] = g
        <3>1. PageOK(g)
            BY <1>3, <1>11 DEF g
        <3>2. Render(t, g, after)
            BY <1>1, <1>11 DEF Then, g
        <3> HIDE DEF after
        <3> QED BY <1>8, <2>4, <3>1, <3>2, RenderSettled DEF Turn, IndInv, TypesInv
    <2>6. \A j \in DOMAIN Rest(k) : Rest(k)[j] \notin Pending(t)
        <3> SUFFICES ASSUME NEW j \in DOMAIN Rest(k)
                     PROVE  Rest(k)[j] \notin Pending(t)
            OBVIOUS
        <3>1. \E i \in DOMAIN calls \ {k} : Rest(k)[j] = Left(calls[i], {})
            BY <1>2, <1>7, FromWhere
        <3> QED BY <2>1, <3>1 DEF Left
    <2>7. Once(calls', Pending(t))
        BY <1>5, <1>7, <2>5, <2>6, NowOnce
    <2>8. OtpInv'
        <3>1. ASSUME NEW u \in Tabs
              PROVE  /\ Once(calls', Pending(u))
                     /\ tab'[u].otp = "verifying" => \E j \in DOMAIN calls' : calls'[j] \in Checks(u)
            <4>1. CASE u = t
                BY <2>3, <2>5, <2>7, <4>1
            <4>2. CASE u # t
                BY <2>4, <4>2, TurnKeepsOthers DEF IndInv
            <4> QED BY <4>1, <4>2
        <3> QED BY <3>1 DEF OtpInv, Pending, Checks
    <2>9. TypesInv' /\ AdmissionInv' /\ Barred
        BY <2>4, TurnKeepsTypes, TurnKeepsAdmission, TurnBars DEF IndInv, TypesInv
    <2>10. Unsent
        BY <2>3, <2>4 DEF Unsent, Turn, IndInv, TypesInv
    <2> QED BY <2>8, <2>9, <2>10 DEF Good, IndInv
<1> QED BY <1>10, <1>11

\* A timer leads on; the page stays as it is until the other arrives.
LEMMA TimerFiresIsGood ==
    ASSUME IndInv, NEW k \in DOMAIN calls, TimerFires(k)
    PROVE  Good
<1> DEFINE t == calls[k].tab
           route == IF calls[k].fn = "otp" THEN RedirectAfterLogin(calls[k].reply.is) ELSE Home(calls[k].reply.is)
           L == Pages(t)
           N == {Leaving(t, route, TRUE)}
<1>1. /\ calls[k].at = "timer" /\ calls' = Push(t, route, Rest(k))
      /\ db' = db /\ jar' = jar /\ tab' = tab /\ clicks' = clicks /\ troubles' = troubles
    BY DEF TimerFires
<1>2. TypesInv /\ t \in Tabs /\ PageOK(tab[t])
    BY AnsweredCall DEF IndInv, Shown
<1>3. route \in Routes
    BY DEF RedirectAfterLogin, Home, Routes, AdminRoutes
<1> HIDE DEF route
<1>4. Rest(k) \in Seq(Calls) /\ Follows(calls, Rest(k), {k}, {}, {})
    BY <1>2, RestOK
<1>5. calls' \in Seq(Calls) /\ Follows(calls, calls', {k}, L, N)
    BY <1>1, <1>2, <1>3, <1>4, PushOK
<1> DEFINE c == Leaving(t, route, TRUE)
<1>12. CallOK(db, c) /\ c.tab = t /\ c.at = "sent" /\ c \notin Pending(t) /\ \A h : PageOK(h) => Fits(h, c)
    BY <1>2, <1>3, LeavingOK
<1>6. \A d \in N : /\ CallOK(db, d) /\ d.tab = t /\ Fits(tab[t], d) /\ d.at \in {"sent", "timer"}
                   /\ d \notin Pending(t)
    BY <1>2, <1>12
<1>7. \A d \in L : d.tab = t /\ d \notin Checks(t)
    BY DEF Pages, Checks
<1> HIDE DEF N, L
<1>8. tab' = [tab EXCEPT ![t] = tab[t]]
    BY <1>1, <1>2 DEF TypesInv
<1>9. Turn(t, tab[t], {k}, L, N)
    BY <1>1, <1>2, <1>5, <1>6, <1>7, <1>8 DEF Turn, TypesInv
<1>10. calls[k] \notin Checks(t)
    BY <1>1 DEF Checks
<1>11. clicks' \in [Tabs -> Nat]
    BY <1>1, <1>2 DEF TypesInv
<1> QED BY <1>1, <1>6, <1>7, <1>9, <1>10, <1>11, QuietTurn

\* What a page asks for when it is mounted.
LEMMA MountedIs ==
    ASSUME Stored, NEW t \in Tabs, NEW route \in Routes
    PROVE  \/ Mounted(t, route) = <<>>
           \/ \E c \in Calls : /\ Mounted(t, route) = <<c>> /\ CallOK(db, c) /\ c.tab = t /\ c.at = "sent"
                               /\ Fits(Blank(route), c) /\ \A u : c \notin Pending(u)
<1>1. ASSUME NEW fn \in {"setupTotp", "fetchAuthDomains"}, From(fn, route)
      PROVE  LET c == New(t, fn) IN
             c \in Calls /\ CallOK(db, c) /\ c.tab = t /\ c.at = "sent" /\ Fits(Blank(route), c) /\ \A u : c \notin Pending(u)
    <2> DEFINE c == New(t, fn)
    <2>1. Makes(t, fn, c)
        BY FirstMakes DEF Fns, AccountFns, AdminFns
    <2> HIDE DEF c
    <2>2. Arguments(c) /\ \A u : c \notin Pending(u)
        BY <2>1, <1>1 DEF Makes, Arguments, Pending
    <2>3. Fits(Blank(route), c)
        BY <1>1, <2>1, BlankOK DEF Fits, Makes
    <2> QED BY <2>1, <2>2, <2>3, FirstIsOK DEF Makes, c
<1>2. CASE route = "2fa"
    BY <1>1, <1>2 DEF Mounted, From, AccountFns
<1>3. CASE route = "domains"
    BY <1>1, <1>3 DEF Mounted, From, AccountFns
<1>4. CASE route \notin {"2fa", "domains"}
    BY <1>4 DEF Mounted
<1> QED BY <1>2, <1>3, <1>4

LEMMA MountedOK ==
    ASSUME TypesInv, NEW t \in Tabs, NEW route \in Routes
    PROVE  \/ Mounted(t, route) = <<>>
           \/ \E c \in Calls : /\ Mounted(t, route) = <<c>> /\ CallOK(db, c) /\ c.tab = t /\ c.at = "sent"
                               /\ Fits(Blank(route), c) /\ \A u : c \notin Pending(u)
<1>1. Stored
    BY DEF TypesInv, Stored
<1> QED BY <1>1, MountedIs

LEMMA PageArrivesIsGood ==
    ASSUME IndInv, NEW k \in DOMAIN calls, PageArrives(k)
    PROVE  Good
<1> DEFINE c == calls[k]
           t == c.tab
<1>1. c.at = "back" /\ c.fn = "page" /\ c \notin Pending(t)
    BY DEF PageArrives, Back, Pending
<1>2. /\ c \in Calls /\ PageOK(Shown(k)) /\ calls \in Seq(Calls) /\ TypesInv /\ t \in Tabs /\ c.to \in Routes
    BY AnsweredCall DEF IndInv, TypesInv, Calls
<1>3. CASE ~c.live \/ c.to = Shown(k).route
    <2>1. Then(k, Shown(k), Rest(k))
        BY <1>3 DEF PageArrives
    <2>2. PageOK(Shown(k)) /\ Kept(Shown(k), Shown(k)) /\ Shown(k).otp = Shown(k).otp
        BY <1>2, SameIsOK
    <2> QED BY <1>1, <2>1, <2>2, LastAnswer
<1>4. CASE c.live /\ c.to # Shown(k).route
    <2> DEFINE L == {d \in Calls : d.tab = t}
               D == Rest(k)
               E == [j \in DOMAIN D |-> Left(D[j], L)]
               f == Blank(c.to)
    <2>1. Then(k, f, E \o Mounted(t, c.to))
        <3>1. [j \in DOMAIN D |-> [D[j] EXCEPT !.live = @ /\ D[j].tab # t]] = E
            <4>1. D \in [DOMAIN D -> Calls]
                BY <1>2, RestOK, SeqFacts
            <4>2. ASSUME NEW j \in DOMAIN D
                  PROVE  [D[j] EXCEPT !.live = @ /\ D[j].tab # t] = Left(D[j], L)
                <5>1. D[j] \in Calls
                    BY <4>1
                <5> QED BY <5>1 DEF Left, Dead, Calls
            <4> QED BY <4>2
        <3> QED BY <1>4, <3>1 DEF PageArrives
    <2>2. D \in Seq(Calls) /\ Follows(calls, D, {k}, {}, {})
        BY <1>2, RestOK
    <2>3. PageOK(f) /\ f.otp = "idle"
        BY <1>2, BlankOK
    <2>4. \E N : /\ E \o Mounted(t, c.to) \in Seq(Calls) /\ Follows(calls, E \o Mounted(t, c.to), {k}, L, N)
                 /\ \A d \in N : /\ CallOK(db, d) /\ d.tab = t /\ Fits(f, d) /\ d.at \in {"sent", "timer"}
                                 /\ d \notin Pending(t)
        <3>1. CASE Mounted(t, c.to) = <<>>
            <4> DEFINE N == {}
            <4>1. E \in Seq(Calls) /\ Follows(calls, E, {k}, L, N)
                BY <1>2, <2>2, SomeDie
            <4>2. \A d \in N : /\ CallOK(db, d) /\ d.tab = t /\ Fits(f, d) /\ d.at \in {"sent", "timer"}
                               /\ d \notin Pending(t)
                OBVIOUS
            <4> HIDE DEF E, N, L, f
            <4>3. E \o Mounted(t, c.to) = E
                BY <3>1, <4>1, ConcatEmptySeq
            <4> QED BY <4>1, <4>2, <4>3
        <3>2. ASSUME NEW m \in Calls, Mounted(t, c.to) = <<m>>, CallOK(db, m), m.tab = t, m.at = "sent",
                     Fits(f, m), \A u : m \notin Pending(u)
              PROVE  \E N : /\ E \o Mounted(t, c.to) \in Seq(Calls) /\ Follows(calls, E \o Mounted(t, c.to), {k}, L, N)
                            /\ \A d \in N : /\ CallOK(db, d) /\ d.tab = t /\ Fits(f, d) /\ d.at \in {"sent", "timer"}
                                            /\ d \notin Pending(t)
            <4> DEFINE N == {m}
            <4>1. E \in Seq(Calls) /\ Follows(calls, E, {k}, L, N)
                BY <1>2, <2>2, SomeDie
            <4>2. m \in N /\ \A d \in N : /\ CallOK(db, d) /\ d.tab = t /\ Fits(f, d) /\ d.at \in {"sent", "timer"}
                                          /\ d \notin Pending(t)
                BY <3>2
            <4> HIDE DEF E, N, L
            <4>3. E \o Mounted(t, c.to) = Append(E, m)
                BY <3>2, <4>1, AppendIsConcat
            <4>4. Append(E, m) \in Seq(Calls) /\ Follows(calls, Append(E, m), {k}, L, N)
                BY <1>2, <4>1, <4>2, OneAdded
            <4> QED BY <4>2, <4>3, <4>4
        <3> QED BY <1>2, <3>1, <3>2, MountedOK
    <2>5. PICK N : /\ E \o Mounted(t, c.to) \in Seq(Calls) /\ Follows(calls, E \o Mounted(t, c.to), {k}, L, N)
                   /\ \A d \in N : /\ CallOK(db, d) /\ d.tab = t /\ Fits(f, d) /\ d.at \in {"sent", "timer"}
                                   /\ d \notin Pending(t)
        BY <2>4
    <2>6. \A d \in L : d.tab = t
        OBVIOUS
    <2>7. \A j \in DOMAIN calls \ {k} : calls[j].tab = calls[k].tab /\ calls[j] \notin L => Fits(f, calls[j])
        BY <1>2 DEF TypesInv, CallOK
    <2> DEFINE after == E \o Mounted(t, c.to)
    <2> HIDE DEF f, E, L, after
    <2>8. Answer(k, f, after, f, L, N)
        BY <1>1, <1>4, <2>1, <2>3, <2>5, <2>6 DEF Answer, after
    <2>9. Turn(t, f, {k}, L, N) /\ clicks' = clicks /\ troubles' = troubles
        BY <1>2, <2>7, <2>8, AnswerTurns
    <2>10. clicks' \in [Tabs -> Nat]
        BY <1>2, <2>9 DEF TypesInv
    <2> QED BY <2>3, <2>5, <2>9, <2>10, QuietTurn
<1> QED BY <1>3, <1>4

-----------------------------------------------------------------------------
(* What people do                                                          *)

\* Nothing but a page and the calls changes.
Idle == db' = db /\ jar' = jar /\ troubles' = troubles /\ clicks' \in [Tabs -> Nat]

LEMMA SetIsGood ==
    ASSUME IndInv, NEW t \in Tabs, NEW f, Idle, Set(t, f),
           PageOK(f), Kept(tab[t], f), f.otp = tab[t].otp
    PROVE  Good
<1>1. TypesInv /\ calls \in Seq(Calls)
    BY DEF IndInv, TypesInv
<1>2. tab' = [tab EXCEPT ![t] = f] /\ calls' = calls
    BY <1>1, RenderSettled DEF Set
<1>3. Follows(calls, calls', {}, {}, {})
    BY <1>1, <1>2, NoneRemoved
<1>4. ASSUME NEW k \in DOMAIN calls, calls[k].tab = t
      PROVE  Fits(f, calls[k])
    BY <1>4, StillFits DEF IndInv, TypesInv, CallOK
<1>5. Turn(t, f, {}, {}, {})
    BY <1>1, <1>2, <1>3, <1>4 DEF Turn, Idle, TypesInv
<1> QED BY <1>5, QuietTurn DEF Idle

\* The page goes on as f and sends c.
Sending(t, f, fn, c) ==
    /\ Send(t, f, c) /\ Makes(t, fn, c) /\ Arguments(c)
    /\ fn \notin {"otp", "confirmTotp", "fetchMe"}
    /\ From(fn, f.route)
    /\ fn = "login" => f.email \in Users
    /\ fn = "verifyInvite" => f.invite \in Invites
    /\ PageOK(f) /\ Kept(tab[t], f) /\ f.otp = tab[t].otp

LEMMA SendIsGood ==
    ASSUME IndInv, NEW t \in Tabs, NEW f, NEW fn, NEW c, Idle, Sending(t, f, fn, c)
    PROVE  Good
<1> DEFINE N == {c}
<1>1. TypesInv /\ calls \in Seq(Calls)
    BY DEF IndInv, TypesInv
<1>2. CallOK(db, c) /\ c.tab = t /\ c.at = "sent" /\ c \in Calls /\ c.fn = fn
    BY <1>1, MadeIsOK DEF Sending, Makes
<1>3. Fits(f, c) /\ c \notin Pending(t)
    BY <1>2 DEF Sending, Fits, Pending
<1>4. c \in N /\ \A d \in N : CallOK(db, d) /\ d.tab = t /\ Fits(f, d) /\ d.at \in {"sent", "timer"} /\ d \notin Pending(t)
    BY <1>2, <1>3
<1> HIDE DEF N
<1>5. Append(calls, c) \in Seq(Calls) /\ Follows(calls, Append(calls, c), {}, {}, N)
    BY <1>1, <1>2, <1>4, NoneRemoved, OneAdded
<1>6. tab' = [tab EXCEPT ![t] = f] /\ calls' = Append(calls, c)
    BY <1>5, RenderSettled DEF Sending, Send
<1>7. ASSUME NEW k \in DOMAIN calls, calls[k].tab = t
      PROVE  Fits(f, calls[k])
    BY <1>7, StillFits DEF IndInv, TypesInv, CallOK, Sending
<1>8. Turn(t, f, {}, {}, N)
    BY <1>1, <1>4, <1>5, <1>6, <1>7 DEF Turn, Idle, TypesInv, Sending
<1> QED BY <1>4, <1>8, QuietTurn DEF Idle, Sending

LEMMA SetInviteIsGood ==
    ASSUME IndInv, NEW t \in Tabs, Idle, NEW i \in Invites, SetInvite(t, i)
    PROVE  Good
<1> DEFINE f == [tab[t] EXCEPT !.invite = i]
<1>1. PageOK(tab[t]) /\ tab[t].route = "register" /\ ~tab[t].invited /\ Set(t, f)
    BY DEF IndInv, TypesInv, SetInvite, On
<1>2. PageOK(f) /\ Kept(tab[t], f) /\ f.otp = tab[t].otp
    BY <1>1 DEF PageOK, Page, OtpShown, Kept
<1> QED BY <1>1, <1>2, SetIsGood

LEMMA CheckInviteIsGood ==
    ASSUME IndInv, NEW t \in Tabs, Idle, CheckInvite(t)
    PROVE  Good
<1> DEFINE f == [tab[t] EXCEPT !.loading = TRUE]
           c == [New(t, "verifyInvite") EXCEPT !.what = tab[t].invite]
<1>1. PageOK(tab[t]) /\ tab[t].route = "register" /\ tab[t].invite \in Invites /\ Send(t, f, c)
    BY DEF IndInv, TypesInv, CheckInvite, On, PageOK, Page
<1>2. PageOK(f) /\ Kept(tab[t], f) /\ f.otp = tab[t].otp /\ f.route = tab[t].route
    BY <1>1, LoadingOK
<1>3. Makes(t, "verifyInvite", New(t, "verifyInvite"))
    BY NewMakes DEF IndInv, Fns, PublicFns
<1>4. Makes(t, "verifyInvite", c) /\ c.what = tab[t].invite
    BY <1>1, <1>3 DEF Makes, Calls
<1> HIDE DEF c
<1>5. Arguments(c)
    BY <1>1, <1>4 DEF Arguments, Makes
<1> HIDE DEF f
<1>6. Sending(t, f, "verifyInvite", c)
    BY <1>1, <1>2, <1>4, <1>5 DEF Sending, From, Kept, AccountFns
<1> QED BY <1>6, SendIsGood

LEMMA RegisterIsGood ==
    ASSUME IndInv, NEW t \in Tabs, Idle, NEW u \in Users,
           NEW pwd \in Typed \cup {GenerateSecurePassword}, NEW confirm, Register(t, u, pwd, confirm)
    PROVE  Good
<1> DEFINE f == [tab[t] EXCEPT !.loading = TRUE]
           c == [New(t, "register") EXCEPT !.who = u, !.what = tab[t].invite, !.pwd = pwd]
<1>1. /\ PageOK(tab[t]) /\ tab[t].route = "register" /\ tab[t].invite \in Invites /\ Send(t, f, c)
      /\ ValidatePassword(pwd) = {}
    BY DEF IndInv, TypesInv, Register, RegisterOffered, PageOK
<1>2. PageOK(f) /\ Kept(tab[t], f) /\ f.otp = tab[t].otp /\ f.route = tab[t].route
    BY <1>1, LoadingOK
<1>3. pwd \in Password
    BY FieldsAreFilled DEF GenerateSecurePassword, Password
<1>4. Accepted(pwd)
    BY <1>1, <1>3 DEF ValidatePassword, Accepted, CheckPasswordRules, Rules, Password
<1>5. Makes(t, "register", New(t, "register")) /\ New(t, "register").set = {}
    BY NewMakes DEF IndInv, Fns, PublicFns
<1>6. Makes(t, "register", c) /\ c.what = tab[t].invite /\ c.who = u /\ c.pwd = pwd /\ c.set = {}
    BY <1>1, <1>3, <1>5 DEF Makes, Calls
<1> HIDE DEF c
<1>7. Arguments(c)
    BY <1>1, <1>4, <1>6 DEF Arguments, Makes
<1> HIDE DEF f
<1>8. Sending(t, f, "register", c)
    BY <1>1, <1>2, <1>6, <1>7 DEF Sending, From, AccountFns
<1> QED BY <1>8, SendIsGood

LEMMA SetEmailIsGood ==
    ASSUME IndInv, NEW t \in Tabs, Idle, NEW u \in Users, SetEmail(t, u)
    PROVE  Good
<1> DEFINE f == [tab[t] EXCEPT !.email = u]
<1>1. PageOK(tab[t]) /\ tab[t].route = "login" /\ Set(t, f)
    BY DEF IndInv, TypesInv, SetEmail, On
<1>2. PageOK(f) /\ Kept(tab[t], f) /\ f.otp = tab[t].otp
    BY <1>1 DEF PageOK, Page, OtpShown, Kept
<1> QED BY <1>1, <1>2, SetIsGood

LEMMA LoginIsGood ==
    ASSUME IndInv, NEW t \in Tabs, Idle, NEW right \in BOOLEAN, Login(t, right)
    PROVE  Good
<1> DEFINE f == [tab[t] EXCEPT !.loading = TRUE]
           c == [New(t, "login") EXCEPT !.who = tab[t].email, !.flag = right]
<1>1. PageOK(tab[t]) /\ tab[t].route = "login" /\ tab[t].email \in Users /\ Send(t, f, c)
    BY DEF IndInv, TypesInv, Login, LoginOffered, PageOK, Page
<1>2. PageOK(f) /\ Kept(tab[t], f) /\ f.otp = tab[t].otp /\ f.route = tab[t].route
    BY <1>1, LoadingOK
<1>3. Makes(t, "login", New(t, "login"))
    BY NewMakes DEF IndInv, Fns, PublicFns
<1>4. Makes(t, "login", c) /\ c.who = tab[t].email
    BY <1>1, <1>3 DEF Makes, Calls
<1> HIDE DEF c
<1>5. Arguments(c)
    BY <1>1, <1>4 DEF Arguments, Makes
<1> HIDE DEF f
<1>6. Sending(t, f, "login", c)
    BY <1>1, <1>2, <1>4, <1>5 DEF Sending, From, Kept, AccountFns
<1> QED BY <1>6, SendIsGood

LEMMA HandleLogoutIsGood ==
    ASSUME IndInv, NEW t \in Tabs, Idle, HandleLogout(t)
    PROVE  Good
<1> DEFINE c == New(t, "logout")
<1>1. PageOK(tab[t]) /\ Send(t, tab[t], c)
    BY DEF IndInv, TypesInv, HandleLogout
<1>2. Makes(t, "logout", c)
    BY NewMakes DEF IndInv, Fns, PublicFns
<1> HIDE DEF c
<1>3. Arguments(c)
    BY <1>2 DEF Arguments, Makes
<1>4. Sending(t, tab[t], "logout", c)
    BY <1>1, <1>2, <1>3, SameIsOK DEF Sending, From, AccountFns
<1> QED BY <1>4, SendIsGood

\* A request of the administrator's pages that leaves the page as it is.
LEMMA CommandIsGood ==
    ASSUME IndInv, NEW t \in Tabs, Idle, NEW fn \in AdminFns, NEW c, Makes(t, fn, c), Arguments(c),
           From(fn, tab[t].route), Send(t, tab[t], c)
    PROVE  Good
<1>1. PageOK(tab[t])
    BY DEF IndInv, TypesInv
<1>2. Sending(t, tab[t], fn, c)
    BY <1>1, SameIsOK DEF Sending, AdminFns
<1> QED BY <1>2, SendIsGood

LEMMA FoundAre == ASSUME NEW q PROVE Found(q) \in SUBSET Users
BY FieldsAreFilled DEF Found

LEMMA ToggleIsGood ==
    ASSUME IndInv, NEW t \in Tabs, Idle, ToggleBlock(t) \/ ToggleStudio(t)
    PROVE  Good
<1> DEFINE S == Found(tab[t].q)
<1>1. PageOK(tab[t]) /\ S \in SUBSET Users
    BY FoundAre DEF IndInv, TypesInv
<1> HIDE DEF S
<1>2. \E row \in UserRows(t), fn \in {"setAdminUserBlocked", "setAdminUserStudioAccess"}, flag \in BOOLEAN :
         Send(t, tab[t], [New(t, fn) EXCEPT !.who = row.who, !.flag = flag, !.set = S])
    <2>1. \A row \in UserRows(t) : (~row.blocked) \in BOOLEAN /\ (~row.studio) \in BOOLEAN
        OBVIOUS
    <2>2. CASE ToggleBlock(t)
        BY <2>1, <2>2 DEF ToggleBlock, S
    <2>3. CASE ToggleStudio(t)
        BY <2>1, <2>3 DEF ToggleStudio, S
    <2> QED BY <2>2, <2>3
<1>3. PICK row \in UserRows(t), fn \in {"setAdminUserBlocked", "setAdminUserStudioAccess"}, flag \in BOOLEAN :
         Send(t, tab[t], [New(t, fn) EXCEPT !.who = row.who, !.flag = flag, !.set = S])
    BY <1>2
<1> DEFINE c == [New(t, fn) EXCEPT !.who = row.who, !.flag = flag, !.set = S]
<1>4. tab[t].route = "users" /\ row.who \in Users
    BY <1>1 DEF UserRows, On, PageOK, UserLine
<1>5. Makes(t, fn, New(t, fn)) /\ fn \in AdminFns
    BY NewMakes DEF IndInv, Fns, AdminFns
<1>6. Makes(t, fn, c) /\ c.who = row.who /\ c.set = S
    BY <1>1, <1>4, <1>5 DEF Makes, Calls
<1>7. Send(t, tab[t], c)
    BY <1>3
<1> HIDE DEF c
<1>8. Arguments(c) /\ From(fn, tab[t].route)
    BY <1>1, <1>4, <1>6 DEF Arguments, Makes, From, AccountFns
<1> QED BY <1>5, <1>6, <1>7, <1>8, CommandIsGood

LEMMA SetQueryIsGood ==
    ASSUME IndInv, NEW t \in Tabs, Idle, SetQuery(t)
    PROVE  Good
<1> DEFINE f == [tab[t] EXCEPT !.q = ~@, !.due = TRUE, !.ticked = {}]
<1>1. PageOK(tab[t]) /\ tab[t].route \in {"users", "invites"} /\ Set(t, f)
    BY DEF IndInv, TypesInv, SetQuery, On
<1>2. PageOK(f) /\ Kept(tab[t], f) /\ f.otp = tab[t].otp
    BY <1>1, ZenonT(60) DEF PageOK, Page, OtpShown, Kept
<1> QED BY <1>1, <1>2, SetIsGood

LEMMA IssueInviteIsGood ==
    ASSUME IndInv, NEW t \in Tabs, Idle, IssueInvite(t)
    PROVE  Good
<1> DEFINE S == Found(tab[t].q)
           fn == "issueAdminInvites"
           c == [New(t, fn) EXCEPT !.set = S]
<1>1. tab[t].route = "invites" /\ Send(t, tab[t], c) /\ S \in SUBSET Users
    BY FoundAre DEF IssueInvite, On
<1> HIDE DEF S
<1>2. Makes(t, fn, New(t, fn)) /\ fn \in AdminFns
    BY NewMakes DEF IndInv, Fns, AdminFns
<1>3. Makes(t, fn, c) /\ c.set = S
    BY <1>1, <1>2 DEF Makes, Calls
<1> HIDE DEF c
<1>4. Arguments(c) /\ From(fn, tab[t].route)
    BY <1>1, <1>3 DEF Arguments, Makes, From, AccountFns
<1> QED BY <1>1, <1>2, <1>3, <1>4, CommandIsGood

LEMMA RevokeIsGood ==
    ASSUME IndInv, NEW t \in Tabs, Idle, Revoke(t)
    PROVE  Good
<1> DEFINE S == Found(tab[t].q)
           fn == "revokeAdminInvite"
<1>1. PICK row \in InviteRows(t) : Send(t, tab[t], [New(t, fn) EXCEPT !.what = row.id, !.set = S])
    BY DEF Revoke
<1> DEFINE c == [New(t, fn) EXCEPT !.what = row.id, !.set = S]
<1>2. PageOK(tab[t]) /\ tab[t].route = "invites" /\ row.id \in Invites /\ S \in SUBSET Users
    BY FoundAre DEF IndInv, TypesInv, InviteRows, On, PageOK, InviteLine
<1> HIDE DEF S
<1>3. Makes(t, fn, New(t, fn)) /\ fn \in AdminFns
    BY NewMakes DEF IndInv, Fns, AdminFns
<1>4. Makes(t, fn, c) /\ c.set = S /\ c.what = row.id
    BY <1>2, <1>3 DEF Makes, Calls
<1>5. Send(t, tab[t], c)
    BY <1>1
<1> HIDE DEF c
<1>6. Arguments(c) /\ From(fn, tab[t].route)
    BY <1>2, <1>4 DEF Arguments, Makes, From, AccountFns
<1> QED BY <1>3, <1>4, <1>5, <1>6, CommandIsGood

\* Ticks are no more than marks.
LEMMA TicksAreGood ==
    ASSUME IndInv, NEW t \in Tabs, Idle, ToggleOne(t) \/ ToggleAll(t)
    PROVE  Good
<1>1. PageOK(tab[t])
    BY DEF IndInv, TypesInv
<1>2. \E ticked \in SUBSET Invites : Set(t, [tab[t] EXCEPT !.ticked = ticked])
    <2>1. CASE ToggleOne(t)
        <3>1. PICK row \in InviteRows(t) :
                 Set(t, [tab[t] EXCEPT !.ticked = IF row.id \in @ THEN @ \ {row.id} ELSE @ \cup {row.id}])
            BY <2>1 DEF ToggleOne
        <3>2. row.id \in Invites /\ tab[t].ticked \in SUBSET Invites
            BY <1>1 DEF InviteRows, On, PageOK, Page, InviteLine
        <3>3. (IF row.id \in tab[t].ticked THEN tab[t].ticked \ {row.id} ELSE tab[t].ticked \cup {row.id})
                 \in SUBSET Invites
            BY <3>2
        <3> QED BY <3>1, <3>3
    <2>2. CASE ToggleAll(t)
        <3> DEFINE ids == {row.id : row \in tab[t].rows}
        <3>1. Set(t, [tab[t] EXCEPT !.ticked = IF ids # {} /\ ids \subseteq @ THEN {} ELSE ids])
            BY <2>2 DEF ToggleAll
        <3>2. ids \in SUBSET Invites
            BY <1>1, <2>2 DEF ToggleAll, On, PageOK, InviteLine
        <3> HIDE DEF ids
        <3> QED BY <3>1, <3>2
    <2> QED BY <2>1, <2>2
<1>3. PICK ticked \in SUBSET Invites : Set(t, [tab[t] EXCEPT !.ticked = ticked])
    BY <1>2
<1> DEFINE f == [tab[t] EXCEPT !.ticked = ticked]
<1>4. PageOK(f) /\ Kept(tab[t], f) /\ f.otp = tab[t].otp
    BY <1>1 DEF PageOK, Page, OtpShown, Kept
<1> QED BY <1>3, <1>4, SetIsGood

LEMMA BulkDeleteIsGood ==
    ASSUME IndInv, NEW t \in Tabs, Idle, BulkDelete(t)
    PROVE  Good
<1> DEFINE fn == "deleteAdminInvites"
           c == [New(t, fn) EXCEPT !.set = tab[t].ticked, !.flag = tab[t].q]
<1>1. tab[t].route = "invites" /\ Send(t, tab[t], c) /\ tab[t].ticked \in SUBSET Invites /\ tab[t].q \in BOOLEAN
    BY DEF BulkDelete, DeleteOffered, IndInv, TypesInv, PageOK, Page
<1>2. Makes(t, fn, New(t, fn)) /\ fn \in AdminFns
    BY NewMakes DEF IndInv, Fns, AdminFns
<1>3. Makes(t, fn, c) /\ c.set = tab[t].ticked
    BY <1>1, <1>2 DEF Makes, Calls
<1> HIDE DEF c
<1>4. Arguments(c) /\ From(fn, tab[t].route)
    BY <1>1, <1>3 DEF Arguments, Makes, From, AccountFns
<1> QED BY <1>1, <1>2, <1>3, <1>4, CommandIsGood

LEMMA EditDomainsIsGood ==
    ASSUME IndInv, NEW t \in Tabs, Idle, EditDomains(t)
    PROVE  Good
<1>1. PICK d \in Domains : Set(t, [tab[t] EXCEPT !.rows = IF d \in @ THEN @ \ {d} ELSE @ \cup {d}])
    BY DEF EditDomains
<1> DEFINE rows == IF d \in tab[t].rows THEN tab[t].rows \ {d} ELSE tab[t].rows \cup {d}
           f == [tab[t] EXCEPT !.rows = rows]
<1>2. PageOK(tab[t]) /\ tab[t].route = "domains" /\ rows \in SUBSET Domains
    BY DEF IndInv, TypesInv, EditDomains, On, PageOK
<1>3. Set(t, f)
    BY <1>1
<1> HIDE DEF rows
<1>4. PageOK(f) /\ Kept(tab[t], f) /\ f.otp = tab[t].otp
    BY <1>2 DEF PageOK, Page, OtpShown, Kept
<1> QED BY <1>3, <1>4, SetIsGood

LEMMA SaveDomainsIsGood ==
    ASSUME IndInv, NEW t \in Tabs, Idle, SaveDomains(t)
    PROVE  Good
<1> DEFINE fn == "saveAuthDomains"
           f == [tab[t] EXCEPT !.saved = FALSE]
           c == [New(t, fn) EXCEPT !.set = tab[t].rows]
<1>1. PageOK(tab[t]) /\ tab[t].route = "domains" /\ Send(t, f, c) /\ tab[t].rows \in SUBSET Domains
    BY DEF IndInv, TypesInv, SaveDomains, On, PageOK
<1>2. PageOK(f) /\ Kept(tab[t], f) /\ f.otp = tab[t].otp /\ f.route = "domains"
    BY <1>1 DEF PageOK, Page, OtpShown, Kept
<1>3. Makes(t, fn, New(t, fn)) /\ fn \in AdminFns
    BY NewMakes DEF IndInv, Fns, AdminFns
<1>4. Makes(t, fn, c) /\ c.set = tab[t].rows
    BY <1>1, <1>3 DEF Makes, Calls
<1> HIDE DEF c
<1>5. Arguments(c)
    BY <1>1, <1>4 DEF Arguments, Makes
<1> HIDE DEF f
<1>6. Sending(t, f, fn, c)
    BY <1>1, <1>2, <1>4, <1>5 DEF Sending, From, AccountFns
<1> QED BY <1>6, SendIsGood

\* The list is read when the timer of the search runs out.
LEMMA DebouncedIsGood ==
    ASSUME IndInv, NEW t \in Tabs, Debounced(t)
    PROVE  Good
<1> DEFINE f == [tab[t] EXCEPT !.due = FALSE, !.loading = TRUE]
           fn == IF tab[t].route = "users" THEN "fetchAdminUsers" ELSE "fetchAdminInvites"
           S == Found(tab[t].q)
           c == [New(t, fn) EXCEPT !.set = S]
<1>1. /\ PageOK(tab[t]) /\ tab[t].due /\ Render(t, f, Append(calls, c)) /\ Idle
    BY DEF IndInv, TypesInv, Debounced, Load, Idle
<1>2. PageOK(f) /\ Kept(tab[t], f) /\ f.otp = tab[t].otp /\ f.route = tab[t].route
    BY <1>1 DEF PageOK, Page, OtpShown, Kept
<1>3. /\ fn \in {"fetchAdminUsers", "fetchAdminInvites"} /\ From(fn, tab[t].route)
    BY <1>1 DEF PageOK, From, AccountFns
<1>4. S \in SUBSET Users
    BY FoundAre
<1> HIDE DEF S, fn
<1>5. Makes(t, fn, New(t, fn))
    BY <1>3, NewMakes DEF IndInv, Fns, AdminFns
<1>6. Makes(t, fn, c) /\ c.set = S
    BY <1>4, <1>5 DEF Makes, Calls
<1> HIDE DEF c
<1>7. Arguments(c)
    BY <1>3, <1>4, <1>6 DEF Arguments, Makes
<1> HIDE DEF f
<1>8. Sending(t, f, fn, c)
    BY <1>1, <1>2, <1>3, <1>6, <1>7 DEF Sending, Send
<1> QED BY <1>1, <1>8, SendIsGood

\* A link.
LEMMA OpenIsGood ==
    ASSUME IndInv, NEW t \in Tabs, Idle, NEW route \in Routes, Open(t, route)
    PROVE  Good
<1> DEFINE f == tab[t]
           within == {f.route, route} \subseteq AdminRoutes
           cs == Push(t, route, calls)
           L == Pages(t)
           c == Leaving(t, route, ~within)
           N == {c}
           E == [j \in DOMAIN calls |-> Left(calls[j], L)]
<1>1. /\ TypesInv /\ calls \in Seq(Calls) /\ PageOK(f) /\ (~within) \in BOOLEAN
      /\ Render(t, f, [cs EXCEPT ![Len(cs)] = [@ EXCEPT !.flag = ~within]])
    BY DEF IndInv, TypesInv, Open
<1> HIDE DEF within
<1>2. /\ CallOK(db, c) /\ c \in Calls /\ c.tab = t /\ c.at = "sent" /\ c.fn = "page"
      /\ (\A u : c \notin Pending(u)) /\ Fits(f, c)
    BY <1>1, LeavingOK, ZenonT(60)
<1>3. c \in N /\ \A d \in N : CallOK(db, d) /\ d.tab = t /\ Fits(f, d) /\ d.at \in {"sent", "timer"} /\ d \notin Pending(t)
    BY <1>2
<1>4. \A d \in L : d.tab = t /\ d \notin Checks(t)
    BY DEF Pages, Checks
<1>5. E \in Seq(Calls) /\ Follows(calls, E, {}, L, N)
    BY <1>1, NoneRemoved, SomeDie
<1>6. [cs EXCEPT ![Len(cs)] = [@ EXCEPT !.flag = ~within]] = Append(E, c)
    <2> DEFINE e == Leaving(t, route, TRUE)
    <2>1. [j \in DOMAIN calls |-> [calls[j] EXCEPT !.live = @ /\ ~(calls[j].fn = "page" /\ calls[j].tab = t)]] = E
        <3>1. calls \in [DOMAIN calls -> Calls]
            BY <1>1, SeqFacts
        <3>2. ASSUME NEW j \in DOMAIN calls
              PROVE  [calls[j] EXCEPT !.live = @ /\ ~(calls[j].fn = "page" /\ calls[j].tab = t)] = Left(calls[j], L)
            <4>1. calls[j] \in Calls
                BY <3>1
            <4> QED BY <4>1 DEF Left, Dead, Pages, Calls
        <3> QED BY <3>2
    <2> HIDE DEF E
    <2>2. cs = Append(E, e)
        BY <2>1 DEF Push, Leaving
    <2>3. e \in Calls /\ [e EXCEPT !.flag = ~within] = c
        <3>1. e \in Calls
            BY <1>1, LeavingOK
        <3> QED BY <3>1 DEF Leaving
    <2> DEFINE n == Len(E) + 1
    <2> HIDE DEF e, c
    <2>4. Len(cs) = n /\ cs[n] = e /\ n \in Nat /\ cs \in Seq(Calls) /\ n \in 1..Len(cs)
        BY <1>5, <2>2, <2>3, AppendProperties, LenProperties
    <2> HIDE DEF cs
    <2>5. [cs EXCEPT ![Len(cs)] = [@ EXCEPT !.flag = ~within]] = [cs EXCEPT ![n] = c]
        BY <2>3, <2>4
    <2>6. [cs EXCEPT ![n] = c] = Append(E, c)
        <3>1. c \in Calls /\ DOMAIN cs = 1..n /\ DOMAIN Append(E, c) = 1..n
            BY <1>2, <1>5, <2>4, AppendProperties, SeqFacts
        <3>2. \A j \in 1..Len(E) : cs[j] = E[j] /\ Append(E, c)[j] = E[j]
            BY <1>2, <1>5, <2>2, <2>3, AppendProperties
        <3>3. Append(E, c)[n] = c
            BY <1>2, <1>5, AppendProperties
        <3>4. \A j \in 1..n : j = n \/ j \in 1..Len(E)
            BY <1>5, LenProperties
        <3>5. Append(E, c) \in Seq(Calls) /\ [cs EXCEPT ![n] = c] \in Seq(Calls)
            BY <1>5, <2>4, <3>1, AppendProperties, ExceptSeq
        <3> DEFINE a == Append(E, c)
                   b == [cs EXCEPT ![n] = c]
        <3>6. DOMAIN a = 1..n /\ DOMAIN b = 1..n /\ \A j \in 1..n : a[j] = b[j]
            BY <2>4, <3>1, <3>2, <3>3, <3>4
        <3>7. a = [j \in DOMAIN a |-> a[j]] /\ b = [j \in DOMAIN b |-> b[j]]
            BY <3>5, SeqFacts
        <3> HIDE DEF a, b
        <3>8. a = b
            BY <3>6, <3>7
        <3> QED BY <3>8 DEF a, b
    <2> QED BY <2>5, <2>6
<1> HIDE DEF E, L, N, c, cs
<1>7. Append(E, c) \in Seq(Calls) /\ Follows(calls, Append(E, c), {}, L, N)
    BY <1>1, <1>2, <1>3, <1>5, OneAdded
<1>8. tab' = [tab EXCEPT ![t] = f] /\ calls' = Append(E, c)
    <2>1. Render(t, f, Append(E, c)) /\ PageOK(f)
        BY <1>1, <1>6
    <2> HIDE DEF f
    <2> QED BY <1>7, <2>1, RenderSettled
<1>9. \A k \in DOMAIN calls : calls[k].tab = t => Fits(f, calls[k])
    BY <1>1 DEF TypesInv
<1>10. Turn(t, f, {}, L, N)
    BY <1>1, <1>3, <1>4, <1>7, <1>8, <1>9 DEF Turn, Idle, TypesInv
<1> QED BY <1>3, <1>4, <1>10, QuietTurn DEF Idle

\* A code is typed: a full one is sent, and there is no other on the way.
LEMMA TypeCodeIsGood ==
    ASSUME IndInv, NEW t \in Tabs, Idle, TypeCode(t)
    PROVE  Good
<1>1. /\ TypesInv /\ calls \in Seq(Calls) /\ PageOK(tab[t]) /\ tab[t] \in Page /\ tab[t].code \in Codes
      /\ OtpShown(tab[t]) /\ tab[t].otp \in {"idle", "error"}
    BY DEF IndInv, TypesInv, TypeCode, CellsOffered, CellsDisabled, PageOK, Page, OtpStatus
<1>2. PICK code \in Codes : code # tab[t].code /\ Set(t, [tab[t] EXCEPT !.code = code])
    BY <1>1, TypingsOK DEF TypeCode
<1> DEFINE f == [tab[t] EXCEPT !.code = code]
<1>3. \A k \in DOMAIN calls : calls[k] \notin Pending(t) /\ calls[k] \in Calls
    BY <1>1 DEF TypesInv, Fits, Pending, CallOK
<1>4. /\ f \in Page /\ OtpShown(f) /\ f.code = code /\ f.otp = tab[t].otp /\ f.tried = tab[t].tried
      /\ f.route = tab[t].route /\ f.email = tab[t].email /\ f.need = tab[t].need
    BY <1>1 DEF Page, OtpShown
<1>5. ASSUME NEW g, Kept(tab[t], g), NEW k \in DOMAIN calls, calls[k].tab = t
      PROVE  Fits(g, calls[k])
    <2>1. calls[k] \in Calls /\ Fits(tab[t], calls[k]) /\ calls[k] \notin Pending(calls[k].tab)
        BY <1>1, <1>3, <1>5 DEF TypesInv
    <2> QED BY <1>5, <2>1, StillFits
<1>8. Render(t, f, calls)
    BY <1>2 DEF Set
<1>6. CASE ~Full(code)
    <2> DEFINE g == [f EXCEPT !.tried = <<>>, !.otp = IF @ = "error" THEN "idle" ELSE @]
    <2>1. OtpEffect(t, f) = [page |-> g, calls |-> <<>>]
        BY <1>4, <1>6 DEF OtpEffect
    <2>2. PageOK(g) /\ g.otp = "idle" /\ Kept(tab[t], g)
        BY <1>1, <1>4, <1>6, EmptyCode, ZenonT(60) DEF PageOK, Page, OtpShown, Kept, OtpStatus
    <2> HIDE DEF g, f
    <2>3. tab' = [tab EXCEPT ![t] = g] /\ calls' = calls
        <3>1. calls \o <<>> = calls
            BY <1>1, ConcatEmptySeq
        <3>2. OtpEffect(t, f).page = g /\ OtpEffect(t, f).calls = <<>>
            BY <2>1
        <3> QED BY <1>8, <3>1, <3>2 DEF Render
    <2>4. Follows(calls, calls', {}, {}, {})
        BY <1>1, <2>3, NoneRemoved
    <2>5. \A k \in DOMAIN calls : calls[k].tab = t => Fits(g, calls[k])
        BY <1>5, <2>2
    <2>6. Turn(t, g, {}, {}, {})
        BY <1>1, <2>2, <2>3, <2>4, <2>5 DEF Turn, Idle, TypesInv
    <2> QED BY <2>2, <2>6, QuietTurn DEF Idle
<1>7. CASE Full(code)
    <2> DEFINE g == [f EXCEPT !.tried = code, !.otp = "verifying"]
    <2>1. \E fn \in {"otp", "confirmTotp"}, d \in Calls :
             /\ OtpEffect(t, f) = [page |-> g, calls |-> <<d>>]
             /\ Makes(t, fn, d) /\ Arguments(d) /\ d.live /\ From(fn, tab[t].route)
        <3>1. code # tab[t].tried
            BY <1>1, <1>2, <1>7, EmptyCode DEF PageOK
        <3>2. OtpEffect(t, f) = [page |-> g, calls |-> IF f.route = "2fa" THEN ConfirmEffect(t, f) ELSE LoginEffect(t, f)]
            BY <1>1, <1>4, <1>7, <3>1 DEF OtpEffect
        <3>3. CASE tab[t].route = "2fa"
            <4> DEFINE n == New(t, "confirmTotp")
                       d == [n EXCEPT !.code = code]
            <4>1. Makes(t, "confirmTotp", n) /\ n.live
                BY <1>1, NewMakes DEF Fns, AccountFns
            <4>2. OtpEffect(t, f) = [page |-> g, calls |-> <<d>>]
                BY <1>4, <3>2, <3>3 DEF ConfirmEffect
            <4> HIDE DEF n, f, g
            <4>3. Makes(t, "confirmTotp", d) /\ d.live
                BY <4>1 DEF Makes, Calls
            <4> HIDE DEF d
            <4>4. Arguments(d) /\ From("confirmTotp", tab[t].route) /\ d \in Calls
                BY <3>3, <4>3 DEF Arguments, Makes, From, AccountFns
            <4> QED BY <4>2, <4>3, <4>4
        <3>4. CASE tab[t].route # "2fa"
            <4> DEFINE n == New(t, "otp")
                       d == [n EXCEPT !.who = tab[t].email, !.flag = TRUE, !.code = code]
            <4>1. Makes(t, "otp", n) /\ n.live
                BY <1>1, NewMakes DEF Fns, PublicFns
            <4>2. OtpEffect(t, f) = [page |-> g, calls |-> <<d>>]
                BY <1>4, <3>2, <3>4 DEF LoginEffect
            <4>3. tab[t].route = "login" /\ tab[t].email \in Users
                BY <1>1, <3>4 DEF OtpShown, PageOK
            <4> HIDE DEF n, f, g
            <4>4. Makes(t, "otp", d) /\ d.live /\ d.who \in Users
                BY <4>1, <4>3 DEF Makes, Calls
            <4> HIDE DEF d
            <4>5. Arguments(d) /\ From("otp", tab[t].route) /\ d \in Calls
                BY <4>3, <4>4 DEF Arguments, Makes, From, AccountFns
            <4> QED BY <4>2, <4>4, <4>5
        <3> QED BY <3>3, <3>4
    <2>2. /\ PageOK(g) /\ g.otp = "verifying" /\ Kept(tab[t], g) /\ g.code = code /\ g.route = tab[t].route
        BY <1>1, <1>4, <1>7 DEF PageOK, Page, OtpShown, Kept, OtpStatus
    <2> HIDE DEF g, f
    <2>3. PICK fn \in {"otp", "confirmTotp"}, d \in Calls :
             /\ OtpEffect(t, f) = [page |-> g, calls |-> <<d>>]
             /\ Makes(t, fn, d) /\ Arguments(d) /\ d.live /\ From(fn, tab[t].route)
        BY <2>1
    <2> DEFINE N == {d}
    <2>4. CallOK(db, d) /\ d.tab = t /\ d.at = "sent" /\ d.fn = fn /\ d \in Checks(t) /\ Fits(g, d)
        <3>1. CallOK(db, d) /\ d.tab = t /\ d.at = "sent" /\ d.fn = fn
            BY <1>1, <2>3, MadeIsOK DEF Makes
        <3> QED BY <2>2, <2>3, <3>1 DEF Checks, Fits
    <2>5. tab' = [tab EXCEPT ![t] = g] /\ calls' = Append(calls, d)
        <3>1. calls \o <<d>> = Append(calls, d)
            BY <1>1, AppendIsConcat
        <3>2. OtpEffect(t, f).page = g /\ OtpEffect(t, f).calls = <<d>>
            BY <2>3
        <3> QED BY <1>8, <3>1, <3>2 DEF Render
    <2>6. d \in N /\ \A e \in N : CallOK(db, e) /\ e.tab = t /\ Fits(g, e) /\ e.at \in {"sent", "timer"}
        BY <2>4
    <2> HIDE DEF N
    <2>7. Append(calls, d) \in Seq(Calls) /\ Follows(calls, Append(calls, d), {}, {}, N)
        BY <1>1, <2>6, NoneRemoved, OneAdded
    <2>8. \A k \in DOMAIN calls : calls[k].tab = t => Fits(g, calls[k])
        BY <1>5, <2>2
    <2>9. Turn(t, g, {}, {}, N)
        BY <1>1, <2>2, <2>5, <2>6, <2>7, <2>8 DEF Turn, Idle, TypesInv
    <2>10. TypesInv' /\ AdmissionInv' /\ Barred
        BY <2>9, TurnKeepsTypes, TurnKeepsAdmission, TurnBars DEF IndInv, Idle
    <2>11. Once(calls', Pending(t)) /\ \E k \in DOMAIN calls' : calls'[k] \in Checks(t)
        <3>1. Once(calls', Pending(t))
            BY <1>1, <1>3, <2>5, NowOnce
        <3>2. Len(calls) + 1 \in DOMAIN calls' /\ calls'[Len(calls) + 1] = d
            BY <1>1, <2>5, AppendProperties, LenProperties
        <3> QED BY <2>4, <3>1, <3>2
    <2>12. OtpInv'
        <3>1. ASSUME NEW u \in Tabs
              PROVE  /\ Once(calls', Pending(u))
                     /\ tab'[u].otp = "verifying" => \E k \in DOMAIN calls' : calls'[k] \in Checks(u)
            BY <2>9, <2>11, TurnKeepsOthers DEF IndInv
        <3> QED BY <3>1 DEF OtpInv, Pending, Checks
    <2>13. Unsent
        BY <1>1, <1>2, <2>2, <2>5 DEF Unsent, TypesInv
    <2> QED BY <2>10, <2>12, <2>13 DEF Good, IndInv
<1> QED BY <1>6, <1>7
=============================================================================
