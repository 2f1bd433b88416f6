--------------------------- MODULE ModelRegistry ----------------------------
(***************************************************************************)
(* The registry of models: the handlers of service/model.go.  A model is   *)
(* identified by its slug.                                                 *)
(***************************************************************************)
EXTENDS Handlers

CONSTANTS Models, PurposeOf

Purposes == {"embeddings", "chat", "image", "video", "ocr", "rerank"}
Exclusive == {"embeddings", "ocr", "rerank"}
ModelStatus == {"unregistered", "quarantine", "approved", "rejected", "deployed", "disabled"}

ASSUME PurposesKnown == PurposeOf \in [Models -> Purposes]

\* alias: the name under which the gateway serves it.
ModelRow == [status : ModelStatus, alias : Exclusive \cup Models \cup {Nobody}]
ModelLine == [id : Models, status : ModelStatus \ {"unregistered"}]

ListModels(r, c) ==
    Answers(r, c, Rows({[id |-> m, status |-> r[m].status] :
                        m \in {n \in Models : r[n].status # "unregistered"}}))

\* The slug is unique.
CreateModel(r, c) ==
    IF r[c.arg].status # "unregistered" THEN Refuses(r, c)
    ELSE Answers([r EXCEPT ![c.arg].status = "quarantine"], c, Ok)

Allowed(verb) == CASE verb = "approve" -> {"quarantine"}
                   [] verb = "reject"  -> {"quarantine", "approved"}
                   [] verb = "deploy"  -> {"approved", "deployed"}
                   [] verb = "disable" -> {"deployed"}
Target(verb) == CASE verb = "approve" -> "approved"
                  [] verb = "reject"  -> "rejected"
                  [] verb = "disable" -> "disabled"

ActionRead(r, c) ==
    IF r[c.arg].status \notin Allowed(c.verb) THEN Refuses(r, c)
    ELSE Goes(r, [c EXCEPT !.was = r[c.arg].status],
              CASE c.verb # "deploy" -> "write"
                [] c.verb = "deploy" /\ PurposeOf[c.arg] \in Exclusive -> "undeploy"
                [] c.verb = "deploy" /\ PurposeOf[c.arg] \notin Exclusive -> "deploy")

\* Mutant: UPDATE without the former status.
SetStatusAnyway(r, c) == Answers([r EXCEPT ![c.arg].status = Target(c.verb)], c, Ok)
\* UPDATE ... AND status = the one that was read; the alias stays.
SetStatus(r, c) ==
    IF r[c.arg].status # c.was THEN Refuses(r, c)
    ELSE Answers([r EXCEPT ![c.arg].status = Target(c.verb)], c, Ok)

\* Mutant: the others stay as they are.
UndeployNone(r, c) == Goes(r, c, "deploy")
Rivals(r, c) == {m \in Models \ {c.arg} : r[m].status = "deployed" /\ PurposeOf[m] = PurposeOf[c.arg]}
UndeployPurpose(r, c) ==
    Goes([m \in Models |-> IF m \in Rivals(r, c) THEN [status |-> "approved", alias |-> Nobody] ELSE r[m]],
         c, "deploy")

AliasOf(m) == IF PurposeOf[m] \in {"chat", "image", "video"} THEN m ELSE PurposeOf[m]
SetDeployed(r, c) ==
    IF r[c.arg].status \notin {"approved", "deployed"} THEN Refuses(r, c)
    ELSE Answers([r EXCEPT ![c.arg] = [status |-> "deployed", alias |-> AliasOf(c.arg)]], c, Ok)

\* A deployment of a model that must be the only one of its purpose, after UndeployPurpose.
IsDeployment(c) == c.fn = "actionAdminModel" /\ c.at = "deploy" /\ PurposeOf[c.arg] \in Exclusive

\* What SetDeployed leaves.
IsNamed(r) == \A m \in Models : r[m].status = "deployed" => r[m].alias = AliasOf(m)
ShareAlias(r, m, n) == r[m].status = "deployed" /\ r[n].status = "deployed" /\ r[m].alias = r[n].alias

Action(r, c) == CASE c.at = "sent"     -> ActionRead(r, c)
                  [] c.at = "write"    -> SetStatus(r, c)
                  [] c.at = "undeploy" -> UndeployPurpose(r, c)
                  [] c.at = "deploy"   -> SetDeployed(r, c)

ModelFns == {"listAdminModels", "createAdminModel", "actionAdminModel"}
ModelOutcomes(r, c) == CASE c.fn = "listAdminModels"  -> ListModels(r, c)
                         [] c.fn = "createAdminModel" -> CreateModel(r, c)
                         [] c.fn = "actionAdminModel" -> Action(r, c)
=============================================================================
