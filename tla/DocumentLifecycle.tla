------------------------- MODULE DocumentLifecycle -------------------------
(***************************************************************************)
(* What the ingestion component promises about one document version, with  *)
(* jobs, leases, workers and requests hidden: the statuses of              *)
(* internal/model/document.go and the moves between them.  IngestPipeline  *)
(* is shown to implement it.                                               *)
(***************************************************************************)
CONSTANT Versions

VARIABLE status

Active    == {"queued", "running"}
Retryable == {"failed", "rejected"}
Status    == Active \cup Retryable \cup {"none", "awaiting_review", "published"}

Init == status = [v \in Versions |-> "none"]

Move(v, from, to) == /\ status[v] \in from
                     /\ status' = [status EXCEPT ![v] = to]

Submit(v)  == Move(v, {"none"}, "queued")
Start(v)   == Move(v, {"queued"}, "running")
Deliver(v) == Move(v, Active, "awaiting_review")
Fail(v)    == Move(v, Active, "failed")
\* Only a reviewer's decision publishes, and only text that awaits review.
Approve(v) == Move(v, {"awaiting_review"}, "published")
Reject(v)  == Move(v, {"awaiting_review"}, "rejected")
Retry(v)   == Move(v, Retryable, "queued")

Next == \E v \in Versions :
            \/ Submit(v) \/ Start(v) \/ Deliver(v) \/ Fail(v)
            \/ Approve(v) \/ Reject(v) \/ Retry(v)

Spec == Init /\ [][Next]_status
=============================================================================
