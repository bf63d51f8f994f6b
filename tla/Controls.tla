------------------------------ MODULE Controls ------------------------------
(***************************************************************************)
(* A rotary encoder with a click (devices/rotary_encoder.h, and            *)
(* DebouncedSwitch of devices/switch.h).  Either the program calls         *)
(* RotaryEncoder::Read itself, or a handler calls                          *)
(* RotaryEncoderTracker::Read and the program polls the tracker and        *)
(* flushes it.  The handler interrupts the program between any two of its  *)
(* accesses.  The knob is turned steadily, in one direction.               *)
(***************************************************************************)
EXTENDS Integers

CONSTANTS Bits,       \* 8: samples in state_
          Bounce,     \* samples during which a contact that moved bounces
          Dwell,      \* samples between two moves of the contacts
          MaxTurns,   \* bound: detents turned
          MaxClicks   \* bound: releases of the button

\* The contacts bounce for less than a switch looks back on, and stay where
\* they are until it has seen them at rest.
ASSUME KnobAssumption == /\ Bits \in Nat \ {0} /\ Bounce \in 0 .. Bits - 1
                         /\ Dwell \in Nat /\ Dwell >= Bounce + Bits

VARIABLES used,       \* is the encoder read directly, or tracked?
          state_,     \* state_ of the three switches
          tracker,    \* increment_ and clicked_
          ui,         \* the program that polls the tracker
          knob,       \* external: where the contacts are
          counted,    \* history: the sum of the increments the program was given
          clicks,     \* history: releases sampled, and clicks seen
          missed      \* history: a sample was not taken while an increment was
                      \* pending, or an increment or a click was thrown away

ctlVars == <<used, state_, tracker, ui, knob, counted, clicks, missed>>

AllHigh == 2 ^ Bits - 1          \* 0xff
Lowered == 2 ^ (Bits - 1)        \* 0x80
Raised == 2 ^ (Bits - 1) - 1     \* 0x7f
LongLow(s) == s < 2 ^ (Bits \div 2)         \* (s & 0xf0) == 0

CtlInit ==
  /\ used \in {"direct", "tracked"}
  /\ state_ = [a |-> AllHigh, b |-> AllHigh, click |-> AllHigh]
  /\ tracker = [increment |-> 0, clicked |-> FALSE]
  /\ ui = [pc |-> "look", increment |-> 0, clicked |-> FALSE]
  /\ \E dir \in {1, -1} : knob = [dir |-> dir, phase |-> 0, since |-> Dwell,
                                  detents |-> 0]
  /\ counted = 0 /\ clicks = [made |-> 0, seen |-> 0] /\ missed = FALSE

-----------------------------------------------------------------------------
(* The knob (external).  The contact that leads falls first and rises      *)
(* first; the detent is where the other one falls.                         *)

Turn ==
  /\ knob.since >= Dwell
  /\ knob.phase = 1 => knob.detents < MaxTurns
  /\ knob' = [knob EXCEPT !.phase = (@ + 1) % 4, !.since = 0,
                          !.detents = @ + IF knob.phase = 1 THEN 1 ELSE 0]
  /\ UNCHANGED <<used, state_, tracker, ui, counted, clicks, missed>>

LeadSamples == IF knob.phase \in {1, 3} /\ knob.since < Bounce THEN {0, 1}
               ELSE {IF knob.phase \in {1, 2} THEN 0 ELSE 1}
LagSamples == IF knob.phase \in {0, 2} /\ knob.since < Bounce THEN {0, 1}
              ELSE {IF knob.phase \in {2, 3} THEN 0 ELSE 1}
SamplesOfA == IF knob.dir = 1 THEN LagSamples ELSE LeadSamples
SamplesOfB == IF knob.dir = 1 THEN LeadSamples ELSE LagSamples

TimePasses == knob' = [knob EXCEPT !.since = IF @ < Dwell THEN @ + 1 ELSE @]

-----------------------------------------------------------------------------
(* The encoder.                                                            *)

\* DebouncedSwitch::Read
Shifted(s, value) == (s * 2 + value) % 2 ^ Bits

Sampled(a, b, c) == [a |-> Shifted(state_.a, a), b |-> Shifted(state_.b, b),
                     click |-> Shifted(state_.click, c)]

IncrementUnqualified(s) ==                  \* faulty: any falling edge counts
  IF s.a = Lowered THEN 1 ELSE IF s.b = Lowered THEN -1 ELSE 0
Increment(s) == IF s.a = Lowered /\ LongLow(s.b) THEN 1
                ELSE IF s.b = Lowered /\ LongLow(s.a) THEN -1 ELSE 0

Releases(s) == clicks.made + IF s.click = Raised THEN 1 ELSE 0

\* RotaryEncoder::Read, called by the program, which then asks clicked().
ReadDirectly ==
  /\ used = "direct"
  /\ \E a \in SamplesOfA, b \in SamplesOfB :
       LET s == Sampled(a, b, 1)
       IN state_' = s /\ counted' = counted + Increment(s)
  /\ TimePasses
  /\ UNCHANGED <<used, tracker, ui, clicks, missed>>

\* RotaryEncoderTracker::Read in a handler: nothing is sampled as long as an
\* increment is pending.
TrackerRead ==
  /\ used = "tracked"
  /\ \E a \in SamplesOfA, b \in SamplesOfB, c \in {0, 1} :
       LET s == IF tracker.increment = 0 THEN Sampled(a, b, c) ELSE state_
           releases == IF s = state_ THEN clicks.made ELSE Releases(s)
       IN /\ releases <= MaxClicks
          /\ state_' = s
          /\ clicks' = [clicks EXCEPT !.made = releases]
          /\ missed' = \/ missed \/ tracker.increment # 0
                       \/ (tracker.clicked /\ s.click = Raised)
          /\ tracker' = [increment |-> IF tracker.increment = 0
                                       THEN Increment(s) ELSE tracker.increment,
                         clicked |-> tracker.clicked \/ s.click = Raised]
  /\ TimePasses
  /\ UNCHANGED <<used, ui, counted>>

-----------------------------------------------------------------------------
(* The program that polls the tracker: increment(), clicked(), and Flush   *)
(* if there was anything.                                                  *)

Ui(pc) == used = "tracked" /\ ui.pc = pc

\* increment() returns a uint8_t: a step back is given to the program as 255.
AsByte(increment) == increment % 256

LookAtIncrement ==
  /\ Ui("look")
  /\ ui' = [ui EXCEPT !.pc = "look_click", !.increment = AsByte(tracker.increment)]
  /\ counted' = counted + AsByte(tracker.increment)
  /\ UNCHANGED <<used, state_, tracker, knob, clicks, missed>>

LookAtClicked ==
  /\ Ui("look_click")
  /\ ui' = [ui EXCEPT !.clicked = tracker.clicked,
                      !.pc = IF ui.increment # 0 \/ tracker.clicked
                             THEN "flush" ELSE "look"]
  /\ clicks' = [clicks EXCEPT !.seen = @ + IF tracker.clicked THEN 1 ELSE 0]
  /\ UNCHANGED <<used, state_, tracker, knob, counted, missed>>

FlushClickedTwice ==               \* faulty: increment_ is forgotten
  /\ Ui("flush")
  /\ tracker' = [tracker EXCEPT !.clicked = FALSE]
  /\ ui' = [ui EXCEPT !.pc = "flush_click"]
  /\ UNCHANGED <<used, state_, knob, counted, clicks, missed>>

\* increment_ = 0, whether or not the program has seen it.
FlushIncrement ==
  /\ Ui("flush")
  /\ tracker' = [tracker EXCEPT !.increment = 0]
  /\ ui' = [ui EXCEPT !.pc = "flush_click"]
  /\ missed' = (missed \/ (tracker.increment # 0 /\ ui.increment = 0))
  /\ UNCHANGED <<used, state_, knob, counted, clicks>>

\* clicked_ = 0, whether or not the program has seen it.
FlushClicked ==
  /\ Ui("flush_click")
  /\ tracker' = [tracker EXCEPT !.clicked = FALSE]
  /\ ui' = [ui EXCEPT !.pc = "look"]
  /\ missed' = (missed \/ (tracker.clicked /\ ~ui.clicked))
  /\ UNCHANGED <<used, state_, knob, counted, clicks>>

CtlNext == \/ Turn \/ ReadDirectly \/ TrackerRead
           \/ LookAtIncrement \/ LookAtClicked \/ FlushIncrement \/ FlushClicked

CtlSpec == CtlInit /\ [][CtlNext]_ctlVars

-----------------------------------------------------------------------------
(* Properties.                                                             *)

\* What the program is given for a step in the direction of the knob.
Step == IF used = "direct" THEN knob.dir ELSE AsByte(knob.dir)

\* The tracker holds an increment, or a click, that the program has not seen.
IncrementUnseen ==
  /\ tracker.increment # 0
  /\ ~(ui.pc \in {"look_click", "flush"} /\ ui.increment # 0)
ClickUnseen ==
  /\ tracker.clicked
  /\ ~(ui.pc \in {"flush", "flush_click"} /\ ui.clicked)

\* A knob that is turned steadily, however its contacts bounce, counts once
\* for each detent, in the direction it is turned: the count is never ahead,
\* and behind by one only until the contact that makes the detent has been
\* low for Bits - 1 samples after its bounces.  Behind a tracker too, one step
\* pending, as long as the program flushes an increment before the next sample
\* is due and nothing is set between its look and its Flush.
SteadyTurnCounted ==
  ~missed =>
    LET Made(n) == counted = (n - IF IncrementUnseen THEN 1 ELSE 0) * Step IN
    \/ Made(knob.detents)
    \/ Made(knob.detents - 1) /\ knob.phase = 2 /\ knob.since < Bounce + Bits - 1

\* Behind a tracker that is flushed late, detents may be missed, but none is
\* seen twice: the program is given Step once at most for each detent.  That
\* is 255 for a step back: it counts backwards only in a program that takes
\* increment() as signed, or counts modulo 256.
NeverTooMany == \E n \in 0 .. knob.detents : counted = n * Step

\* The program sees a release of the button once at most, although the state
\* of the switch is frozen, at the value that means a click, as long as an
\* increment is pending: Flush lets the encoder go on before it clears the
\* click.  And it sees each one, unless Flush came too late or threw it away.
ClicksSeenOnce ==
  /\ clicks.seen <= clicks.made
  /\ ~missed => clicks.made = clicks.seen + IF ClickUnseen THEN 1 ELSE 0

\* The three together: however the contacts bounce and the handler interrupts
\* the program, it sees the turns and the clicks there have been.
KnobIsCounted == SteadyTurnCounted /\ NeverTooMany /\ ClicksSeenOnce
=============================================================================
