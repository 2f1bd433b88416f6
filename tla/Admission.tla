----------------------------- MODULE Admission -----------------------------
(***************************************************************************)
(* What registration promises: a workspace is only for who has spent an    *)
(* invite that was open at that time, an invite is spent once, and who has *)
(* spent one spends no other.  Requests, accounts, sessions and browsers   *)
(* are hidden; Portal is shown to implement it.                            *)
(***************************************************************************)
CONSTANTS People, Tickets

VARIABLES open,   \* the invites that can be spent
          spent,  \* who spent which: a set of <<person, ticket>>
          member  \* who has a workspace

vars == <<open, spent, member>>

Holders == {pair[1] : pair \in spent}
Gone    == {pair[2] : pair \in spent}

Init == /\ open \subseteq Tickets
        /\ spent \in SUBSET (People \X Tickets)
        /\ \A x, y \in spent : x[1] = y[1] \/ x[2] = y[2] => x = y
        /\ open \cap Gone = {}
        /\ member = Holders

Issue(ts)    == /\ ts \cap (open \cup Gone) = {} /\ open' = open \cup ts
                /\ UNCHANGED <<spent, member>>
Withdraw(ts) == open' = open \ ts /\ UNCHANGED <<spent, member>>
Spend(p, t)  == /\ t \in open /\ p \notin Holders
                /\ open' = open \ {t} /\ spent' = spent \cup {<<p, t>>}
                /\ UNCHANGED member
Join(p)      == /\ p \in Holders
                /\ member' = member \cup {p}
                /\ UNCHANGED <<open, spent>>

Next == \/ \E ts \in SUBSET Tickets : Issue(ts) \/ Withdraw(ts)
        \/ \E p \in People : Join(p) \/ \E t \in Tickets : Spend(p, t)

Spec == Init /\ [][Next]_vars
=============================================================================
