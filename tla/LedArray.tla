------------------------------ MODULE LedArray ------------------------------
(***************************************************************************)
(* Two-coloured LEDs behind shift registers (devices/                      *)
(* bicolor_led_array.h).  A handler calls Write at each refresh; the       *)
(* program sets pixels and copies them with Sync, one byte after the       *)
(* other, between any two of which the handler may run.                    *)
(***************************************************************************)
EXTENDS ShiftRegister, FiniteSets

CONSTANTS Leds,        \* size: 8 num_regs - 1
          Levels,      \* 16: intensities of a colour
          Intensities  \* pairs <<AAAA, BBBB>> the program uses

ASSUME LedAssumption ==
  /\ Leds \in Nat /\ Levels \in Nat \ {0}
  /\ Intensities \subseteq (0 .. Levels - 1) \X (0 .. Levels - 1)

VARIABLES buffered_pixels_, pixels_, refresh_cycle_,
          stages,      \* external: the stages of the register
          shown,       \* external: its outputs, while Latch was last high
          sync,        \* the program in Sync: the pixel to copy, or Leds
          lit          \* history: refreshes of one picture, and who was lit

ledVars == <<buffered_pixels_, pixels_, refresh_cycle_, stages, shown, sync, lit>>

Led == 0 .. Leds - 1
Dark == <<0, 0>>
Unlit == [i \in Led |-> 0]
NewPicture == [refreshes |-> 0, even |-> Unlit, odd |-> Unlit]

\* LedArray::Init clears the buffered pixels; the others are zero from the
\* start, and what the register holds is not known.
LedInit ==
  /\ buffered_pixels_ = [i \in Led |-> Dark]
  /\ pixels_ = [i \in Led |-> Dark]
  /\ refresh_cycle_ = 0 /\ sync = Leds
  /\ \E bit \in {0, 1} : stages = [k \in 1 .. Leds + 1 |-> bit]
  /\ shown = stages
  /\ lit = NewPicture

SetPixel ==
  /\ sync = Leds
  /\ \E i \in Led, v \in Intensities :
       buffered_pixels_' = [buffered_pixels_ EXCEPT ![i] = v]
  /\ UNCHANGED <<pixels_, refresh_cycle_, stages, shown, sync, lit>>

Clear ==
  /\ sync = Leds
  /\ buffered_pixels_' = [i \in Led |-> Dark]
  /\ UNCHANGED <<pixels_, refresh_cycle_, stages, shown, sync, lit>>

SetDirectPixel ==
  /\ sync = Leds
  /\ \E i \in Led, v \in Intensities : pixels_' = [pixels_ EXCEPT ![i] = v]
  /\ lit' = NewPicture
  /\ UNCHANGED <<buffered_pixels_, refresh_cycle_, stages, shown, sync>>

\* Sync: memcpy, one byte after the other.
SyncCall ==
  /\ sync = Leds /\ sync' = 0
  /\ UNCHANGED <<buffered_pixels_, pixels_, refresh_cycle_, stages, shown, lit>>

SyncPixel ==
  /\ sync < Leds /\ sync' = sync + 1
  /\ pixels_' = [pixels_ EXCEPT ![sync] = buffered_pixels_[sync]]
  /\ lit' = NewPicture
  /\ UNCHANGED <<buffered_pixels_, refresh_cycle_, stages, shown>>

\* ShiftOutPixels: the colour first, then the LEDs from the last to the
\* first.  In the odd cycles the LEDs are lit by zeros.
Odd == refresh_cycle_ % 2
Limit == refresh_cycle_ \div 2
IsHigh(i) == LET intensity == IF Odd = 1 THEN Levels - 1 - pixels_[i][1]
                                         ELSE pixels_[i][2]
             IN intensity > Limit \/ intensity = Levels - 1
PictureReversed ==                       \* faulty: the LEDs the other way
  <<Odd>> \o [k \in 1 .. Leds |-> IF IsHigh(k - 1) THEN 1 ELSE 0]
Picture ==
  <<Odd>> \o [k \in 1 .. Leds |-> IF IsHigh(Leds - k) THEN 1 ELSE 0]

\* External: the common wire is the last output.
IsLit(i, colour, outputs) == /\ outputs[Leds + 1] = colour
                             /\ outputs[i + 1] = 1 - colour

Counted(lits, colour, outputs) ==
  [i \in Led |-> lits[i] + IF IsLit(i, colour, outputs) THEN 1 ELSE 0]

\* Write: Begin, ShiftOutPixels, End.
LedWrite ==
  /\ stages' = ShiftOutMsbFirst(stages, Picture)
  /\ shown' = stages'
  /\ refresh_cycle_' = (refresh_cycle_ + 1) % (2 * Levels)
  /\ LET l == IF lit.refreshes = 2 * Levels THEN NewPicture ELSE lit
     IN lit' = [refreshes |-> l.refreshes + 1,
                even |-> Counted(l.even, 0, shown'),
                odd |-> Counted(l.odd, 1, shown')]
  /\ UNCHANGED <<buffered_pixels_, pixels_, sync>>

LedNext == SetPixel \/ Clear \/ SetDirectPixel \/ SyncCall \/ SyncPixel \/ LedWrite

LedSpec == LedInit /\ [][LedNext]_ledVars

-----------------------------------------------------------------------------
(* Properties.                                                             *)

DutyEven(b) == IF b = Levels - 1 THEN Levels ELSE b
DutyOdd(a) == IF a = 0 THEN 0 ELSE a + 1

\* In 2 Levels refreshes of the same picture, wherever they start in the
\* cycle, each LED has been lit in each colour as often as its intensity
\* says: off at 0, always at the highest, and more often for more.
DutyRight ==
  lit.refreshes = 2 * Levels =>
    \A i \in Led : /\ lit.even[i] = DutyEven(pixels_[i][2])
                   /\ lit.odd[i] = DutyOdd(pixels_[i][1])
=============================================================================
