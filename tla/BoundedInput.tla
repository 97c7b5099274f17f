---------------------------- MODULE BoundedInput ----------------------------
(***************************************************************************)
(* What reading a bounded input promises, whatever way its bytes arrive:   *)
(* a source is accepted when it ends cleanly within the limit, rejected as *)
(* too large when it holds more, and fails otherwise.                      *)
(***************************************************************************)
EXTENDS Integers

CONSTANTS Sources, Limit

VARIABLES source, result

\* The answer depends on the source alone.
Outcome(s) ==
    IF s.length > Limit THEN "inputLimit"
    ELSE IF s.ending = "eof" THEN "data"
    ELSE "failed"

Init == source \in Sources /\ result = "none"

Decide ==
    /\ result = "none"
    /\ result' = Outcome(source)
    /\ UNCHANGED source

Safety == Init /\ [][Decide]_<<source, result>>
=============================================================================
