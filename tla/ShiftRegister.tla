--------------------------- MODULE ShiftRegister ---------------------------
(***************************************************************************)
(* Shift registers on three pins (devices/shift_register.h).  A word is    *)
(* the sequence of its bits, the most significant first; a chain is the    *)
(* sequence of its stages, the one next to the data pin first.             *)
(***************************************************************************)
EXTENDS Integers, Sequences, SequencesExt

\* External: a rising edge of Clock.
ClockedIn(chain, bit) == <<bit>> \o Front(chain)

\* ShiftRegisterOutput::ShiftOut.  The data pin is set while Clock is low.
ShiftOutMsbFirst(chain, word) ==
  LET c[i \in 0 .. Len(word)] == IF i = 0 THEN chain
                                  ELSE ClockedIn(c[i - 1], word[i])
  IN  c[Len(word)]
ShiftOutLsbFirst(chain, word) == ShiftOutMsbFirst(chain, Reverse(word))

\* External: what comes out of a register of inputs, loaded by the strobe of
\* Load, at the data pin before the i-th edge of Clock.
OnDataPin(wires, i) == wires[Len(wires) - i + 1]

\* ShiftRegisterInput::Read: the first bit becomes the most significant one,
\* or the least significant one.
ReadLsbFirst(wires) == [i \in DOMAIN wires |-> OnDataPin(wires, i)]
ReadMsbUnmirrored(wires) == ReadLsbFirst(wires)       \* faulty: <<= 1
ReadMsbFirst(wires) ==
  [i \in DOMAIN wires |-> OnDataPin(wires, Len(wires) - i + 1)]
=============================================================================
