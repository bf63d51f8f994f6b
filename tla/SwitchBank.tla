----------------------------- MODULE SwitchBank -----------------------------
(***************************************************************************)
(* Debounced switches behind a register of inputs (DebouncedSwitches of    *)
(* devices/switch.h).  The register may have more wires than there are     *)
(* switches: these are on the wires furthest from its output, the last one *)
(* furthest of all.                                                        *)
(***************************************************************************)
EXTENDS ShiftRegister

CONSTANTS Switches,    \* num_inputs
          Wires,       \* 8 * sizeof(T)
          Samples      \* 8: bits of state_

ASSUME SwitchAssumption ==
  {Switches, Wires, Samples} \subseteq Nat \ {0} /\ Switches <= Wires

VARIABLES switch_state_, \* state_, as numbers
          levels         \* history: the last levels of each switch, oldest first

swVars == <<switch_state_, levels>>

Switch == 0 .. Switches - 1
AllOnes == 2 ^ Samples - 1
WireOf(i) == Switches - i      \* external: how the switches are wired

SwInit == /\ switch_state_ = [i \in Switch |-> AllOnes]
          /\ levels = [i \in Switch |-> [s \in 1 .. Samples |-> 1]]

\* Bit num_inputs - 1 - i of the value, masked for switch i.
BitTooFar(value, i) == value[Wires - Switches + i]      \* faulty: one too high
BitFor(value, i) == value[Wires - Switches + 1 + i]

\* Read: ReadRegister, and Process.
ReadSwitches ==
  \E wires \in [1 .. Wires -> {0, 1}] :
    LET value == ReadLsbFirst(wires) IN
    /\ switch_state_' = [i \in Switch |->
                           (switch_state_[i] * 2 + BitFor(value, i)) % 2 ^ Samples]
    /\ levels' = [i \in Switch |-> Append(Tail(levels[i]), wires[WireOf(i)])]

SwSpec == SwInit /\ [][ReadSwitches]_swVars

Event(i) == IF switch_state_[i] = 2 ^ (Samples - 1) THEN -1
            ELSE IF switch_state_[i] = 2 ^ (Samples - 1) - 1 THEN 1 ELSE 0

-----------------------------------------------------------------------------
(* Properties.                                                             *)

\* event(i) tells of an edge of switch i, and of no other: after it, that
\* switch, whatever the wires of the others did, has kept its level for all
\* the samples but the first.
EventsAreSeparate == \A i \in Switch :
  LET settled(v) == levels[i][1] = 1 - v /\ \A s \in 2 .. Samples : levels[i][s] = v
  IN Event(i) = IF settled(0) THEN -1 ELSE IF settled(1) THEN 1 ELSE 0

\* DataOrder names the end of a word that crosses the data pin first: what an
\* output register shifts out, an input register on its stages reads back
\* with the other order, and mirrored with the same one.
OrdersAgree == \A i \in Switch :
  LET word == levels[i]
      msb == ShiftOutMsbFirst(word, word)
      lsb == ShiftOutLsbFirst(word, word)
  IN /\ ReadLsbFirst(msb) = word /\ ReadMsbFirst(lsb) = word
     /\ ReadMsbFirst(msb) = Reverse(word) /\ ReadLsbFirst(lsb) = Reverse(word)
=============================================================================
