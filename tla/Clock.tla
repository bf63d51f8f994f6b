------------------------------- MODULE Clock -------------------------------
(***************************************************************************)
(* What the clock of milliseconds promises to a program: a count that goes *)
(* up by one at each tick, modulo its range, and a reading that is the     *)
(* count at one moment of the call.                                        *)
(***************************************************************************)
EXTENDS Integers

CONSTANT Range_ms   \* 2^32

VARIABLES count,    \* the ticks so far, modulo Range_ms
          seen      \* the last value milliseconds() returned

Init == count = 0 /\ seen = 0
Tick == count' = (count + 1) % Range_ms /\ UNCHANGED seen
Read == seen' = count /\ UNCHANGED count
Next == Tick \/ Read
Spec == Init /\ [][Next]_<<count, seen>>
=============================================================================
