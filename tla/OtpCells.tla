------------------------------ MODULE OtpCells ------------------------------
(***************************************************************************)
(* The cells of a one-time code, components/auth/OtpCells.tsx: what an     *)
(* event in one cell makes of the value.  Cells are numbered from 1, and   *)
(* characters that are no digits are left out of the events.               *)
(***************************************************************************)
EXTENDS Integers, SequencesExt

CONSTANTS OtpLength, \* 6 in the code
          Digits

Codes == BoundedSeq(Digits, OtpLength)
Full(code) == Len(code) = OtpLength

\* Mutant: without the cut.
SetCodeUncut(next) == next
SetCode(next) == SubSeq(next, 1, Min({OtpLength, Len(next)}))

OnPaste(value, pasted) == IF pasted = <<>> THEN value ELSE SetCode(pasted)

\* In an empty cell Backspace removes the digit of the cell before it.
OnBackspace(value, k) ==
    IF k <= Len(value) THEN SetCode(RemoveAt(value, k))
    ELSE SetCode(SubSeq(value, 1, Min({k - 2, Len(value)})))

\* The digits close up: what is typed behind a gap goes to the first empty cell.
OnInput(value, k, digits) ==
    CASE digits = <<>>   -> IF k <= Len(value) THEN SetCode(RemoveAt(value, k)) ELSE value
      [] Len(digits) > 1 -> SetCode(digits)
      [] Len(digits) = 1 -> SetCode(IF k <= Len(value) THEN ReplaceAt(value, k, digits[1])
                                    ELSE value \o digits)

\* What one event may make of the value.
Typings(value) ==
    LET Pieces == BoundedSeq(Digits, OtpLength + 1)   \* a paste may be too long
    IN  {OnPaste(value, pasted) : pasted \in Pieces}
        \cup {OnBackspace(value, k) : k \in 1..OtpLength}
        \cup {OnInput(value, k, digits) : k \in 1..OtpLength, digits \in Pieces}

CellsDisabled(status, disabled) == disabled \/ status \in {"verifying", "success"}
=============================================================================
