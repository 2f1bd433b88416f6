------------------------------ MODULE MCPortal ------------------------------
EXTENDS Portal

CONSTANTS anna, boris, root, i1, i2, d1, d2, t1, t2, t3, b1, b2

MCUsers   == {anna, boris, root}
MCDomainOf == [u \in MCUsers |-> d1]
MCBrowser == [t \in {t1, t2, t3} |-> IF t = t3 THEN b2 ELSE b1]
MCCodeOf  == <<<<1, 1>>, <<0, 1>>, <<1, 0>>, <<0, 0>>>>
MCDigits  == {0, 1}

\* Too simple, too short, and long enough only for who counts an emoji twice.
MCTyped == {[units |-> 12, runes |-> 12, has |-> Classes \ {"special"}],
            [units |-> 7, runes |-> 7, has |-> Classes],
            [units |-> 8, runes |-> 7, has |-> Classes]}

Account(here, totp, secret) == [here |-> here, blocked |-> FALSE, studio |-> FALSE, totp |-> totp,
                                secret |-> secret, home |-> here]
Of(u) == [user |-> u, revoked |-> FALSE]

\* i1 is open; anna, when she is there, used i2.
Stored(annasRow, sessions) ==
    [user    |-> [u \in MCUsers |-> CASE u = anna -> annasRow
                                      [] u = boris -> Account(FALSE, FALSE, 0)
                                      [] u = root -> Account(TRUE, TRUE, 1)],
     invite  |-> [i \in {i1, i2} |->
                     CASE i = i1 -> [status |-> "ACTIVE", by |-> Nobody]
                       [] i = i2 -> IF annasRow.here THEN [status |-> "USED", by |-> anna]
                                    ELSE [status |-> "unissued", by |-> Nobody]],
     session |-> sessions, secrets |-> 1 + annasRow.secret \div 2, domains |-> {d1}]

Start(d, cookie1, cookie2, route1, route2, route3, may1, may2, may3, n1, n2, n3) ==
    [db |-> d,
     clicks |-> [t \in {t1, t2, t3} |-> CASE t = t1 -> n1 [] t = t2 -> n2 [] t = t3 -> n3],
     jar |-> [b \in {b1, b2} |-> IF b = b1 THEN cookie1 ELSE cookie2],
     route |-> [t \in {t1, t2, t3} |-> CASE t = t1 -> route1 [] t = t2 -> route2 [] t = t3 -> route3],
     may |-> [t \in {t1, t2, t3} |-> CASE t = t1 -> may1 [] t = t2 -> may2 [] t = t3 -> may3]]

Stranger == Stored(Account(FALSE, FALSE, 0), <<Of(root)>>)
New1     == Stored(Account(TRUE, FALSE, 0), <<Of(root), Of(anna)>>)
Full1    == Stored(Account(TRUE, TRUE, 2), <<Of(root), Of(anna)>>)

MCStarts ==
    { \* two people, one invite
      Start(Stranger, 0, 0, "register", "login", "register", {"join"}, {}, {"join"}, 3, 0, 2),
      \* one of them, while the administrator is at the invites
      Start(Stranger, 0, 1, "register", "login", "invites", {"join"}, {}, {"invites"}, 2, 0, 1),
      \* a login, while the administrator is at the users
      Start(Full1, 0, 1, "login", "login", "users", {"enter", "code"}, {}, {"users"}, 2, 0, 1),
      Start(New1, 0, 1, "login", "login", "users", {"enter"}, {}, {"users"}, 1, 0, 1),
      \* two tabs set up the second factor
      Start(New1, 2, 0, "2fa", "2fa", "login", {"code"}, {"code"}, {}, 2, 2, 0),
      \* a new account, and one that comes and goes
      Start(Full1, 2, 0, "login", "cabinet", "login", {"enter", "code", "go"}, {"leave", "go"}, {}, 2, 1, 0),
      \* the administrator alone
      Start(Full1, 0, 1, "login", "login", "domains", {}, {}, {"domains", "go", "leave"}, 0, 0, 2),
      Start(Full1, 0, 1, "login", "login", "invites", {}, {}, {"invites", "users", "go"}, 0, 0, 2) }
=============================================================================
