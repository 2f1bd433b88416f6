------------------------------ MODULE Handlers ------------------------------
(***************************************************************************)
(* A handler of the backend runs in the steps between which another        *)
(* request may be served.  What the next step of call c may make of the    *)
(* tables d and of the call is a set of records of both.                   *)
(***************************************************************************)
EXTENDS Integers, Sequences, FiniteSets, SequencesExt

CONSTANT Nobody   \* null

\* The data of an answer: flag of a status, rows of a list, people of a second one.
Ok       == [ok |-> TRUE, flag |-> FALSE, rows |-> {}, people |-> {}]
Err      == [Ok EXCEPT !.ok = FALSE]
Rows(rs) == [Ok EXCEPT !.rows = rs]

Goes(d, c, at)   == {[db |-> d, call |-> [c EXCEPT !.at = at]]}
Answers(d, c, r) == {[db |-> d, call |-> [c EXCEPT !.at = "back", !.reply = r]]}
Refuses(d, c)    == Answers(d, c, Err)
=============================================================================
