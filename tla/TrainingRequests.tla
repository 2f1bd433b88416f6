-------------------------- MODULE TrainingRequests --------------------------
(***************************************************************************)
(* Requests for training: the handlers of service/training.go.             *)
(***************************************************************************)
EXTENDS Handlers

CONSTANTS Requests, Authors, Admin   \* the users of one workspace, and the administrator

RequestStatus == {"none", "draft", "submitted", "approved", "rejected", "cancelled"}
Request == [status : RequestStatus, by : Authors \cup {Admin, Nobody}, reviewer : {Admin, Nobody}]
RequestLine == [id : Requests, status : RequestStatus \ {"none"}]

Decided == {"approved", "rejected"}

\* The author sees the requests of the workspace, the administrator all.
ListRequests(q, c) ==
    Answers(q, c, Rows({[id |-> r, status |-> q[r].status] : r \in {s \in Requests : q[s].status # "none"}}))

Unused(q) == {r \in Requests : q[r].status = "none"}
CreateRequest(q, c) ==
    {[db |-> [q EXCEPT ![r] = [status |-> "draft", by |-> c.user, reviewer |-> Nobody]],
      call |-> [c EXCEPT !.at = "back", !.reply = Ok]]
     : r \in {u \in Unused(q) : u = CHOOSE v \in Unused(q) : TRUE}}

\* Mutant: a request can be cancelled at any time.
NextOrCancelled(current, action) ==
    CASE action = "cancel" -> "cancelled"
      [] action = "submit"  /\ current = "draft"     -> "submitted"
      [] action = "approve" /\ current = "submitted" -> "approved"
      [] action = "reject"  /\ current = "submitted" -> "rejected"
      [] OTHER -> "none"
NextTrainingStatus(current, action) ==
    CASE action = "submit"  /\ current = "draft"                  -> "submitted"
      [] action = "cancel"  /\ current \in {"draft", "submitted"} -> "cancelled"
      [] action = "approve" /\ current = "submitted"              -> "approved"
      [] action = "reject"  /\ current = "submitted"              -> "rejected"
      [] OTHER -> "none"

Reviews(verb) == verb \in {"approve", "reject"}

\* transition is for the author and the administrator, adminTransition for the latter.
TransitionRead(q, c) ==
    LET next == NextTrainingStatus(q[c.arg].status, c.verb)
    IN  IF next = "none" \/ (~Reviews(c.verb) /\ c.user \notin {q[c.arg].by, Admin})
        THEN Refuses(q, c) ELSE Goes(q, [c EXCEPT !.was = q[c.arg].status], "write")

\* By the id alone; a transition of the author clears the reviewer.
UpdateStatus(q, c) ==
    Answers([q EXCEPT ![c.arg].status = NextTrainingStatus(c.was, c.verb),
                      ![c.arg].reviewer = IF Reviews(c.verb) THEN c.user ELSE Nobody], c, Ok)

TrainingFns == {"fetchTrainingRequests", "createTrainingRequest", "submitTrainingRequest",
                "cancelTrainingRequest", "fetchAdminTrainingRequests", "approveAdminTrainingRequest",
                "rejectAdminTrainingRequest"}
TrainingOutcomes(q, c) ==
    CASE c.fn \in {"fetchTrainingRequests", "fetchAdminTrainingRequests"} -> ListRequests(q, c)
      [] c.fn = "createTrainingRequest" -> CreateRequest(q, c)
      [] OTHER -> IF c.at = "sent" THEN TransitionRead(q, c) ELSE UpdateStatus(q, c)
=============================================================================
