--------------------------- MODULE ModelLifecycle ---------------------------
(***************************************************************************)
(* What the registry of models promises: nothing is served that was not    *)
(* reviewed, and a refused or a disabled model is not served again.        *)
(***************************************************************************)
CONSTANT Models

VARIABLE status

InStatus(s) == {m \in Models : status[m] = s}

Init == status \in [Models -> {"unregistered", "quarantine", "approved", "rejected", "deployed", "disabled"}]

Moves(ms, from, to) == /\ ms \subseteq InStatus(from)
                       /\ status' = [m \in Models |-> IF m \in ms THEN to ELSE status[m]]

Register(m) == Moves({m}, "unregistered", "quarantine")
Approve(m)  == Moves({m}, "quarantine", "approved")
Reject(m)   == Moves({m}, "quarantine", "rejected") \/ Moves({m}, "approved", "rejected")
Deploy(m)   == Moves({m}, "approved", "deployed")
Disable(m)  == Moves({m}, "deployed", "disabled")
\* Models make way for another one.
Withdraw(ms) == Moves(ms, "deployed", "approved")

Next == \/ \E m \in Models : Register(m) \/ Approve(m) \/ Reject(m) \/ Deploy(m) \/ Disable(m)
        \/ \E ms \in SUBSET Models : Withdraw(ms)

Spec == Init /\ [][Next]_status
=============================================================================
