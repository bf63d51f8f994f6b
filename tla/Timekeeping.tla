---------------------------- MODULE Timekeeping ----------------------------
(***************************************************************************)
(* The clock of milliseconds (system/time.h, system/time.cc): a 32-bit     *)
(* count in two 16-bit words, incremented by the handler of the tick       *)
(* timer and read by the main program with interrupts switched off.  The   *)
(* grain is one access to a word, or to the status register.               *)
(***************************************************************************)
EXTENDS Integers

CONSTANTS WordSize,   \* 2^16
          Delays      \* the delays the program asks for

ASSUME WordAssumption == WordSize \in Nat /\ WordSize >= 2
ASSUME DelayAssumption == Delays \subseteq Nat

VARIABLES low, high,   \* milliseconds_count.words
          tick,        \* is Tick between its two words?
          irq,         \* the interrupt flag of SREG
          wanted,      \* history: does the program want interrupts on?
          reader,      \* the main program in milliseconds() or Delay()
          elapsed,     \* history: ticks since Delay was called, up to a cap
          seen         \* the last value milliseconds() returned

timeVars == <<low, high, tick, irq, wanted, reader, elapsed, seen>>

Range32 == WordSize * WordSize
Value == high * WordSize + low

NoReader == [pc |-> "idle", op |-> "none", saved |-> TRUE, m_low |-> 0,
             m_high |-> 0, start |-> 0, delay |-> 0, t |-> -1]

TimeInit == /\ low = 0 /\ high = 0
            /\ tick = "idle"
            /\ irq = TRUE /\ wanted = TRUE
            /\ reader = NoReader
            /\ elapsed = 0
            /\ seen = 0

-----------------------------------------------------------------------------
(* The handlers.                                                           *)

Elapse == elapsed' = IF reader.op = "Delay" /\ elapsed < Range32
                     THEN elapsed + 1 ELSE elapsed

TickWithoutCarry ==                \* faulty: the second word is forgotten
  /\ irq /\ tick = "idle"
  /\ low' = (low + 1) % WordSize
  /\ tick' = "idle"
  /\ Elapse
  /\ UNCHANGED <<high, irq, wanted, reader, seen>>

TickLow ==
  /\ irq /\ tick = "idle"
  /\ low' = (low + 1) % WordSize
  /\ tick' = IF low' = 0 THEN "carry" ELSE "idle"
  /\ Elapse
  /\ UNCHANGED <<high, irq, wanted, reader, seen>>

TickHigh ==
  /\ tick = "carry"
  /\ high' = (high + 1) % WordSize
  /\ tick' = "idle"
  /\ UNCHANGED <<low, irq, wanted, reader, elapsed, seen>>

-----------------------------------------------------------------------------
(* The main program: it only moves while no handler is running.            *)

Main(pc) == tick = "idle" /\ reader.pc = pc

\* A section of the program switches interrupts off, or on again.
ProgramMasks ==
  /\ Main("idle")
  /\ irq' = ~irq /\ wanted' = irq'
  /\ UNCHANGED <<low, high, tick, reader, elapsed, seen>>

Call(op, delay) ==
  /\ Main("idle")
  /\ reader' = [NoReader EXCEPT !.pc = "save", !.op = op, !.delay = delay]
  /\ elapsed' = 0
  /\ UNCHANGED <<low, high, tick, irq, wanted, seen>>

Save ==                            \* oldSREG = SREG
  /\ Main("save")
  /\ reader' = [reader EXCEPT !.pc = "cli", !.saved = irq]
  /\ UNCHANGED <<low, high, tick, irq, wanted, elapsed, seen>>

NoCli ==                           \* faulty: interrupts stay on
  /\ Main("cli")
  /\ reader' = [reader EXCEPT !.pc = "low"]
  /\ UNCHANGED <<low, high, tick, irq, wanted, elapsed, seen>>

Cli ==
  /\ Main("cli")
  /\ irq' = FALSE
  /\ reader' = [reader EXCEPT !.pc = "low"]
  /\ UNCHANGED <<low, high, tick, wanted, elapsed, seen>>

ReadLow ==
  /\ Main("low")
  /\ reader' = [reader EXCEPT !.pc = "high", !.m_low = low]
  /\ UNCHANGED <<low, high, tick, irq, wanted, elapsed, seen>>

ReadHigh ==
  /\ Main("high")
  /\ reader' = [reader EXCEPT !.pc = "restore", !.m_high = high]
  /\ UNCHANGED <<low, high, tick, irq, wanted, elapsed, seen>>

DeliverEarly(m) ==                 \* faulty: one tick is not waited for
  /\ seen' = m
  /\ reader' = IF reader.op = "Delay" /\ reader.t = -1
               THEN [reader EXCEPT !.pc = "save", !.start = m,
                                   !.t = (m + reader.delay) % Range32]
               ELSE IF reader.op = "Delay" /\ m + 1 < reader.t
                    THEN [reader EXCEPT !.pc = "save"]
                    ELSE [reader EXCEPT !.pc = "idle"]

\* What the caller does with the value m: milliseconds() returns it; Delay
\* computes its target from the first and compares the others with it.
Deliver(m) ==
  /\ seen' = m
  /\ reader' = IF reader.op = "Delay" /\ reader.t = -1
               THEN [reader EXCEPT !.pc = "save",
                                   !.t = (m + reader.delay) % Range32,
                                   !.start = m]
               ELSE IF reader.op = "Delay" /\ m < reader.t
                    THEN [reader EXCEPT !.pc = "save"]
                    ELSE [reader EXCEPT !.pc = "idle"]

RestoreAlwaysOn ==                 \* faulty: sei() for SREG = oldSREG
  /\ Main("restore")
  /\ irq' = TRUE
  /\ Deliver(reader.m_high * WordSize + reader.m_low)
  /\ UNCHANGED <<low, high, tick, wanted, elapsed>>

Restore ==                         \* SREG = oldSREG; return m
  /\ Main("restore")
  /\ irq' = reader.saved
  /\ Deliver(reader.m_high * WordSize + reader.m_low)
  /\ UNCHANGED <<low, high, tick, wanted, elapsed>>

TimeNext == \/ TickLow \/ TickHigh
            \/ ProgramMasks
            \/ Call("milliseconds", 0)
            \/ \E d \in Delays : Call("Delay", d)
            \/ Save \/ Cli \/ ReadLow \/ ReadHigh \/ Restore

TimeSpec == TimeInit /\ [][TimeNext]_timeVars

\* Handlers return, the timer goes on, and so does the main program.
TimeFairness == /\ WF_timeVars(TickLow \/ TickHigh)
                /\ WF_timeVars(Save \/ Cli \/ ReadLow \/ ReadHigh \/ Restore)

-----------------------------------------------------------------------------
(* Properties.                                                             *)

Words == 0 .. WordSize - 1
ReaderPCs == {"idle", "save", "cli", "low", "high", "restore"}

TimeTypeOK ==
  /\ low \in Words /\ high \in Words
  /\ tick \in {"idle", "carry"}
  /\ irq \in BOOLEAN /\ wanted \in BOOLEAN
  /\ reader \in [pc : ReaderPCs, op : {"none", "milliseconds", "Delay"},
                 saved : BOOLEAN, m_low : Words, m_high : Words,
                 start : 0 .. Range32 - 1, delay : Delays \cup {0},
                 t : -1 .. Range32 - 1]
  /\ elapsed \in 0 .. Range32
  /\ seen \in 0 .. Range32 - 1

\* The ticks so far: between its two words, Tick owes the second one.
Count == (Value + IF tick = "carry" THEN WordSize ELSE 0) % Range32

\* No handler is in the middle of anything while the flag is down.
QuietWhenMasked ==
  reader.pc \in {"low", "high", "restore"} => ~irq /\ tick = "idle"

\* What has been read of the count is still the count, up to the moment
\* when interrupts come back.
ReadIsCurrent ==
  /\ reader.pc \in {"high", "restore"} => reader.m_low = low
  /\ reader.pc = "restore" => reader.m_high = high

\* milliseconds() leaves interrupts as it found them, also when the program
\* had switched them off: only inside it may they differ from what the
\* program wants.
FlagRestored ==
  /\ reader.pc \in {"idle", "save", "cli"} => irq = wanted
  /\ reader.pc \in {"cli", "low", "high", "restore"} => reader.saved = wanted

\* The inductive invariant of the clock.
TimeInv == TimeTypeOK /\ QuietWhenMasked /\ ReadIsCurrent /\ FlagRestored

\* Whatever the interleaving of the words, the program sees a clock.
TheClock == INSTANCE Clock WITH Range_ms <- Range32, count <- Count
RefinesClock == TheClock!Spec

\* Delay waits at least as long as it was asked to, unless its target is
\* beyond the wrap of the count: then it may return at once (time.cc:31).
DelayLongEnough ==
  [][reader.op = "Delay" /\ reader.t # -1 /\ reader'.pc = "idle"
       => \/ elapsed >= reader.delay
          \/ reader.start + reader.delay >= Range32]_timeVars
=============================================================================
