---------------------------- MODULE SafeRegister ----------------------------
(***************************************************************************)
(* What shared memory promises a reader: a safe register.  A read during   *)
(* which nothing is written returns the value of the last completed write; *)
(* a read that overlaps a write, or that follows a write which was cut     *)
(* short, may return anything.                                             *)
(***************************************************************************)
CONSTANTS Values,       \* what may be written
          Results,      \* what a read may return
          Read(_)       \* the result a read of a value returns

VARIABLES value,        \* the last value whose write was completed
          intact,       \* no write is going on or was cut short since then
          reading,      \* a read is going on
          clean,        \* ... and the register was intact throughout
          result        \* what the last read returned

vars == <<value, intact, reading, clean, result>>

Init == /\ value \in Values
        /\ intact = TRUE
        /\ reading = FALSE
        /\ clean = FALSE
        /\ result \in Results

BeginWrite == /\ intact' = FALSE
              /\ clean' = FALSE
              /\ UNCHANGED <<value, reading, result>>

\* The write is complete; the register holds the new value.
EndWrite(v) == /\ ~intact
               /\ intact' = TRUE
               /\ value' = v
               /\ UNCHANGED <<reading, clean, result>>

BeginRead == /\ ~reading
             /\ reading' = TRUE
             /\ clean' = intact
             /\ UNCHANGED <<value, intact, result>>

EndRead == /\ reading
           /\ reading' = FALSE
           /\ clean' = FALSE
           /\ result' \in IF clean THEN {Read(value)} ELSE Results
           /\ UNCHANGED <<value, intact>>

Next == \/ BeginWrite
        \/ \E v \in Values : EndWrite(v)
        \/ BeginRead
        \/ EndRead

Spec == Init /\ [][Next]_vars
=============================================================================
