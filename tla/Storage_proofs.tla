---------------------------- MODULE Storage_proofs ----------------------------
(***************************************************************************)
(* What stands between a program and a file, for every instance.           *)
(*                                                                         *)
(* The clock of milliseconds, for every size of its words: what is read    *)
(* with interrupts off is the count of one moment, interrupts come back as *)
(* the program had them, the two words under the handler implement the     *)
(* clock of Clock, and a delay lasts as long as it was asked to.           *)
(*                                                                         *)
(* The driver of the SD card, for every card, number of sectors, range of  *)
(* the clock and time-out, whatever commands and answers are lost.         *)
(*                                                                         *)
(* The sessions on files, for every number of files, of mounts, of writes  *)
(* and of directories: nothing that was written is lost without a word,    *)
(* and what a call answers is true of the volume that is mounted.          *)
(***************************************************************************)
EXTENDS MCStorage, RemainderTheorems, TLAPS

-----------------------------------------------------------------------------
(* The clock.                                                              *)

\* Going round a word, and round the two.
LEMMA WordFacts ==
  /\ WordSize \in Nat /\ WordSize >= 2
  /\ Range32 \in Nat /\ Range32 >= 4 /\ Range32 >= WordSize
  BY WordAssumption DEF Range32

LEMMA NextWord ==
  ASSUME NEW w \in Words
  PROVE  /\ (w + 1) % WordSize \in Words
         /\ w + 1 < WordSize => (w + 1) % WordSize = w + 1
         /\ w + 1 = WordSize => (w + 1) % WordSize = 0
  BY WordAssumption DEF Words

\* The value of two words is in the range of the count.
LEMMA ValueRange ==
  ASSUME NEW h \in Words, NEW l \in Words
  PROVE  h * WordSize + l \in 0 .. Range32 - 1
<1>1. h * WordSize <= (WordSize - 1) * WordSize
  BY WordAssumption DEF Words
<1> QED
  BY <1>1, WordAssumption DEF Words, Range32

-----------------------------------------------------------------------------
(* The inductive invariant.                                                *)

LEMMA InitTimeInv == TimeInit => TimeInv
  BY WordFacts DEF TimeInit, TimeInv, TimeTypeOK, QuietWhenMasked,
     ReadIsCurrent, FlagRestored, NoReader, ReaderPCs, Words

LEMMA TickKeeps ==
  ASSUME TimeInv, TickLow \/ TickHigh
  PROVE  TimeInv'
<1>1. CASE TickLow
  <2>1. low' \in Words /\ tick' \in {"idle", "carry"} /\ elapsed' \in 0 .. Range32
    BY <1>1, NextWord, WordFacts DEF TickLow, Elapse, TimeInv, TimeTypeOK
  <2> QED
    BY <1>1, <2>1 DEF TickLow, TimeInv, TimeTypeOK, QuietWhenMasked,
       ReadIsCurrent, FlagRestored
<1>2. CASE TickHigh
  <2>1. high' \in Words
    BY <1>2, NextWord DEF TickHigh, TimeInv, TimeTypeOK
  <2> QED
    BY <1>2, <2>1 DEF TickHigh, TimeInv, TimeTypeOK, QuietWhenMasked,
       ReadIsCurrent, FlagRestored
<1> QED
  BY <1>1, <1>2

LEMMA CallKeeps ==
  ASSUME TimeInv, NEW op \in {"milliseconds", "Delay"},
         NEW d \in Delays \cup {0}, Call(op, d)
  PROVE  TimeInv'
<1>1. reader' = [pc |-> "save", op |-> op, saved |-> TRUE, m_low |-> 0,
                 m_high |-> 0, start |-> 0, delay |-> d, t |-> -1]
  BY DEF Call, NoReader
<1>2. reader' \in [pc : ReaderPCs, op : {"none", "milliseconds", "Delay"},
                   saved : BOOLEAN, m_low : Words, m_high : Words,
                   start : 0 .. Range32 - 1, delay : Delays \cup {0},
                   t : -1 .. Range32 - 1]
  <2>1. 0 \in Words /\ 0 \in 0 .. Range32 - 1 /\ -1 \in -1 .. Range32 - 1
    BY WordFacts DEF Words
  <2> QED
    BY <1>1, <2>1 DEF ReaderPCs
<1>3. reader'.pc = "save" /\ 0 \in 0 .. Range32
  BY <1>1, WordFacts
<1> QED
  BY <1>2, <1>3 DEF Call, Main, TimeInv, TimeTypeOK, QuietWhenMasked,
     ReadIsCurrent, FlagRestored

LEMMA ReadingKeeps ==
  ASSUME TimeInv, ProgramMasks \/ Save \/ Cli \/ ReadLow \/ ReadHigh
  PROVE  TimeInv'
<1> USE DEF Main, TimeInv, TimeTypeOK, QuietWhenMasked, ReadIsCurrent,
            FlagRestored, ReaderPCs
<1>1. CASE ProgramMasks
  BY <1>1 DEF ProgramMasks
<1>2. CASE Save
  BY <1>2 DEF Save
<1>3. CASE Cli
  BY <1>3 DEF Cli
<1>4. CASE ReadLow
  BY <1>4 DEF ReadLow
<1>5. CASE ReadHigh
  BY <1>5 DEF ReadHigh
<1> QED
  BY <1>1, <1>2, <1>3, <1>4, <1>5

\* A target is wherever the count may be.
LEMMA RestoreKeeps ==
  ASSUME TimeInv, Restore
  PROVE  TimeInv'
<1> DEFINE m == reader.m_high * WordSize + reader.m_low
<1>1. m \in 0 .. Range32 - 1
  BY ValueRange DEF TimeInv, TimeTypeOK
<1>2. (m + reader.delay) % Range32 \in 0 .. Range32 - 1
  <2>1. reader.delay \in Delays \cup {0}
    <3>1. reader \in [pc : ReaderPCs, op : {"none", "milliseconds", "Delay"},
                      saved : BOOLEAN, m_low : Words, m_high : Words,
                      start : 0 .. Range32 - 1, delay : Delays \cup {0},
                      t : -1 .. Range32 - 1]
      BY DEF TimeInv, TimeTypeOK
    <3> QED
      BY ONLY <3>1
  <2>2. reader.delay \in Nat
    <3>1. \A d \in Delays \cup {0} : d \in Nat
      BY DelayAssumption
    <3> QED
      BY <2>1, <3>1
  <2> HIDE DEF m
  <2> QED
    BY <1>1, <2>2, WordFacts
<1> DEFINE t == (m + reader.delay) % Range32
<1>3. /\ seen' = m
      /\ \/ reader' = [reader EXCEPT !.pc = "save", !.t = t, !.start = m]
         \/ reader' = [reader EXCEPT !.pc = "save"]
         \/ reader' = [reader EXCEPT !.pc = "idle"]
  BY DEF Restore, Deliver
<1> HIDE DEF m, t
<1>4. reader' \in [pc : ReaderPCs, op : {"none", "milliseconds", "Delay"},
                   saved : BOOLEAN, m_low : Words, m_high : Words,
                   start : 0 .. Range32 - 1, delay : Delays \cup {0},
                   t : -1 .. Range32 - 1]
  <2>1. t \in -1 .. Range32 - 1
    BY <1>2, WordFacts DEF t
  <2>2. reader \in [pc : ReaderPCs, op : {"none", "milliseconds", "Delay"},
                    saved : BOOLEAN, m_low : Words, m_high : Words,
                    start : 0 .. Range32 - 1, delay : Delays \cup {0},
                    t : -1 .. Range32 - 1]
    BY DEF TimeInv, TimeTypeOK
  <2> QED
    BY <1>1, <1>3, <2>1, <2>2 DEF ReaderPCs
<1>5. reader'.pc \in {"idle", "save"}
  BY <1>3 DEF TimeInv, TimeTypeOK
<1>6. irq' = wanted
  BY DEF Restore, Main, TimeInv, FlagRestored
<1> QED
  BY <1>1, <1>3, <1>4, <1>5, <1>6 DEF Restore, TimeInv, TimeTypeOK,
     QuietWhenMasked, ReadIsCurrent, FlagRestored

LEMMA NextTimeInv == TimeInv /\ [TimeNext]_timeVars => TimeInv'
<1> SUFFICES ASSUME TimeInv, [TimeNext]_timeVars PROVE TimeInv'
  OBVIOUS
<1>1. CASE TickLow \/ TickHigh
  BY <1>1, TickKeeps
<1>2. CASE ProgramMasks \/ Save \/ Cli \/ ReadLow \/ ReadHigh
  BY <1>2, ReadingKeeps
<1>3. CASE Call("milliseconds", 0)
  BY <1>3, CallKeeps
<1>4. ASSUME NEW d \in Delays, Call("Delay", d) PROVE TimeInv'
  BY <1>4, CallKeeps
<1>5. CASE Restore
  BY <1>5, RestoreKeeps
<1>6. CASE UNCHANGED timeVars
  BY <1>6 DEF timeVars, TimeInv, TimeTypeOK, QuietWhenMasked, ReadIsCurrent,
     FlagRestored
<1> QED
  BY <1>1, <1>2, <1>3, <1>4, <1>5, <1>6 DEF TimeNext

\* What milliseconds() has read of the count stays current until interrupts
\* are back, and they come back as the program had them.
THEOREM TimeInvariance == TimeSpec => []TimeInv
<1> QED
  BY InitTimeInv, NextTimeInv, PTL DEF TimeSpec

-----------------------------------------------------------------------------
(* The refinement.  Only the two halves of a tick move the count; when no   *)
(* tick is half done, the count is the value of the words.                 *)

LEMMA CountIsValue ==
  ASSUME TimeTypeOK, tick = "idle"
  PROVE  Count = Value
<1>1. Value \in 0 .. Range32 - 1
  BY ValueRange DEF TimeTypeOK, Value
<1>2. Value % Range32 = Value
  BY <1>1, WordFacts
<1> QED
  BY <1>1, <1>2 DEF Count

LEMMA TickLowCounts ==
  ASSUME TimeTypeOK, TickLow
  PROVE  Count' = (Count + 1) % Range32
<1>1. Count = Value /\ Value \in 0 .. Range32 - 1
  BY CountIsValue, ValueRange DEF TickLow, TimeTypeOK, Value
<1>2. low \in Words /\ high \in Words /\ high * WordSize \in Nat
  BY WordFacts DEF TimeTypeOK, Words
<1>3. CASE low + 1 < WordSize
  <2>1. low' = low + 1 /\ tick' = "idle"
    BY <1>2, <1>3, NextWord DEF TickLow, Words
  <2>2. Value' = Value + 1
    BY <1>2, <2>1, WordFacts DEF TickLow, Value, Words
  <2> QED
    BY <1>1, <2>1, <2>2, WordFacts DEF Count
<1>4. CASE low + 1 = WordSize
  <2>1. low' = 0 /\ tick' = "carry"
    BY <1>2, <1>4, NextWord DEF TickLow
  <2>2. Value' + WordSize = Value + 1
    <3>1. high' * WordSize = high * WordSize
      BY DEF TickLow
    <3>2. Value' = high * WordSize
      BY <1>2, <2>1, <3>1 DEF Value
    <3>3. Value = high * WordSize + (WordSize - 1)
      BY <1>2, <1>4, WordAssumption DEF Value, Words
    <3> QED
      BY <1>2, <3>2, <3>3, WordAssumption
  <2> QED
    BY <1>1, <2>1, <2>2 DEF Count
<1> QED
  BY <1>2, <1>3, <1>4, WordFacts DEF Words

LEMMA TickHighKeepsCount ==
  ASSUME TimeTypeOK, TickHigh
  PROVE  Count' = Count
<1>1. /\ low \in Words /\ high \in Words /\ low' = low
      /\ high' = (high + 1) % WordSize
      /\ tick = "carry" /\ tick' = "idle"
  BY DEF TickHigh, TimeTypeOK
<1>2. low \in 0 .. Range32 - 1 /\ low < Range32
  BY <1>1, WordFacts DEF Words
<1>3. CASE high + 1 < WordSize
  <2>1. high' = high + 1
    BY <1>1, <1>3, NextWord
  <2>2. Value' = Value + WordSize
    BY <1>1, <2>1, WordFacts DEF Value, Words
  <2> QED
    BY <1>1, <2>2, WordFacts DEF Count
<1>4. CASE high + 1 = WordSize
  <2>1. high' = 0
    BY <1>1, <1>4, NextWord
  <2>2. Value' = low
    BY <1>1, <2>1, WordFacts DEF Value, Words
  <2>3. Value + WordSize = Range32 + low
    <3>1. high = WordSize - 1
      BY <1>1, <1>4, WordFacts DEF Words
    <3> QED
      BY <1>1, <3>1, WordFacts DEF Value, Range32, Words
  <2>4. (Range32 + low) % Range32 = low % Range32
    BY <1>2, WordFacts
  <2>5. Count = (Range32 + low) % Range32
    BY <1>1, <2>3 DEF Count
  <2>6. Count' = low % Range32
    BY <1>1, <1>2, <2>2 DEF Count
  <2> QED
    BY <2>4, <2>5, <2>6
<1> QED
  BY <1>1, <1>3, <1>4, WordFacts DEF Words

LEMMA RestoreReads ==
  ASSUME TimeInv, Restore
  PROVE  seen' = Count /\ Count' = Count
<1>1. tick = "idle" /\ reader.m_low = low /\ reader.m_high = high
  BY DEF Restore, Main, TimeInv, QuietWhenMasked, ReadIsCurrent
<1>2. seen' = Value
  BY <1>1 DEF Restore, Deliver, Value
<1>3. Count = Value
  BY <1>1, CountIsValue DEF TimeInv
<1> QED
  BY <1>2, <1>3 DEF Restore, Count, Value

\* Each step of the words is a tick, a reading of the count, or nothing, for
\* the clock that a program relies on.
THEOREM WordsImplementTheClock == TimeSpec => RefinesClock
<1>1. TimeInit => TheClock!Init
  <2> SUFFICES ASSUME TimeInit PROVE TheClock!Init
    OBVIOUS
  <2>1. Count = Value /\ Value = 0
    BY InitTimeInv, CountIsValue, WordFacts DEF TimeInv, TimeInit, Value
  <2> QED
    BY <2>1 DEF TimeInit, TheClock!Init
<1>2. TimeInv /\ [TimeNext]_timeVars => [TheClock!Next]_<<Count, seen>>
  <2> SUFFICES ASSUME TimeInv, [TimeNext]_timeVars
               PROVE  TheClock!Next \/ (Count' = Count /\ seen' = seen)
    OBVIOUS
  <2>1. CASE TickLow
    <3>1. Count' = (Count + 1) % Range32 /\ seen' = seen
      BY <2>1, TickLowCounts DEF TimeInv, TickLow
    <3> QED
      BY <3>1 DEF TheClock!Next, TheClock!Tick
  <2>2. CASE TickHigh
    BY <2>2, TickHighKeepsCount DEF TimeInv, TickHigh
  <2>3. CASE Restore
    BY <2>3, RestoreReads DEF TheClock!Next, TheClock!Read
  <2>4. CASE ProgramMasks \/ Save \/ Cli \/ ReadLow \/ ReadHigh
    BY <2>4 DEF ProgramMasks, Save, Cli, ReadLow, ReadHigh, Count, Value
  <2>5. CASE Call("milliseconds", 0) \/ \E d \in Delays : Call("Delay", d)
    BY <2>5 DEF Call, Count, Value
  <2>6. CASE UNCHANGED timeVars
    BY <2>6 DEF timeVars, Count, Value
  <2> QED
    BY <2>1, <2>2, <2>3, <2>4, <2>5, <2>6 DEF TimeNext
<1> QED
  BY <1>1, <1>2, TimeInvariance, PTL DEF TimeSpec, RefinesClock, TheClock!Spec

-----------------------------------------------------------------------------
(* Delays.                                                                 *)

\* Once a delay has its target, it knows no more ticks than there have been.
DelayInv ==
  reader.op = "Delay" /\ reader.t # -1 =>
    /\ reader.t = (reader.start + reader.delay) % Range32
    /\ (Count - reader.start) % Range32 <= elapsed

Reader == [pc : ReaderPCs, op : {"none", "milliseconds", "Delay"},
           saved : BOOLEAN, m_low : Words, m_high : Words,
           start : 0 .. Range32 - 1, delay : Delays \cup {0},
           t : -1 .. Range32 - 1]

LEMMA ReaderFacts ==
  ASSUME TimeInv
  PROVE  /\ reader \in Reader /\ reader.start \in 0 .. Range32 - 1
         /\ reader.delay \in Nat /\ elapsed \in 0 .. Range32
         /\ Count \in 0 .. Range32 - 1 /\ Range32 \in Nat \ {0}
<1>1. reader \in Reader /\ elapsed \in 0 .. Range32
      /\ high \in Words /\ low \in Words
  BY DEF TimeInv, TimeTypeOK, Reader
<1>2. reader.start \in 0 .. Range32 - 1 /\ reader.delay \in Delays \cup {0}
  BY <1>1 DEF Reader
<1>3. \A d \in Delays \cup {0} : d \in Nat
  BY DelayAssumption
<1>4. Value \in Nat
  BY <1>1, ValueRange, WordFacts DEF Value
<1>5. Count \in 0 .. Range32 - 1
  BY <1>4, WordFacts, WordAssumption DEF Count
<1> QED
  BY <1>1, <1>2, <1>3, <1>5, WordFacts

LEMMA TickLowKeepsDelay ==
  ASSUME TimeInv, DelayInv, TickLow
  PROVE  DelayInv'
<1> SUFFICES ASSUME reader.op = "Delay", reader.t # -1
             PROVE  (Count' - reader.start) % Range32 <= elapsed'
  BY DEF TickLow, DelayInv
<1> DEFINE R == Range32
           s == reader.start
<1>1. /\ s \in 0 .. R - 1 /\ elapsed \in 0 .. R /\ Count \in 0 .. R - 1
      /\ R \in Nat \ {0}
  BY ReaderFacts
<1>2. Count' = (Count + 1) % R
  BY TickLowCounts DEF TimeInv
<1>3. (Count - s) % R <= elapsed
  BY DEF DelayInv
<1>4. elapsed' = IF elapsed < R THEN elapsed + 1 ELSE elapsed
  BY DEF TickLow, Elapse
<1> HIDE DEF R, s
<1>5. (Count' - s) % R = (Count + 1 - s) % R
  <2> DEFINE c == Count + 1
  <2>1. c \in Int /\ s \in Int /\ Count' = c % R
    BY <1>1, <1>2
  <2> HIDE DEF c
  <2>2. (Count' - s) % R = (c - s) % R
    BY <1>1, <2>1, ModuloDifference
  <2> QED
    BY <1>1, <2>2 DEF c
<1>6. Count + 1 - s = (Count - s) + 1 /\ Count - s \in Int
  BY <1>1
<1>7. (Count + 1 - s) % R <= ((Count - s) % R) + 1
  BY <1>1, <1>6, NextRemainderBound
<1>8. (Count - s) % R \in 0 .. R - 1 /\ (Count + 1 - s) % R \in 0 .. R - 1
  BY <1>1, <1>6
<1>9. (Count' - s) % R <= elapsed'
  BY <1>1, <1>3, <1>4, <1>5, <1>7, <1>8
<1> QED
  BY <1>9 DEF R, s

LEMMA RestoreKeepsDelay ==
  ASSUME TimeInv, DelayInv, Restore
  PROVE  DelayInv'
<1>1. /\ reader \in Reader /\ elapsed' = elapsed /\ elapsed \in 0 .. Range32
      /\ Count \in 0 .. Range32 - 1 /\ Range32 \in Nat \ {0}
  BY ReaderFacts DEF Restore
<1>2. seen' = Count /\ Count' = Count
  BY RestoreReads
<1>3. Deliver(seen')
  BY DEF Restore, Deliver
<1>4. CASE reader.op = "Delay" /\ reader.t = -1
  <2>1. reader' = [reader EXCEPT !.pc = "save",
                                 !.t = (Count + reader.delay) % Range32,
                                 !.start = Count]
    BY <1>2, <1>3, <1>4 DEF Deliver
  <2>2. /\ reader'.t = (reader'.start + reader'.delay) % Range32
        /\ reader'.start = Count
    BY <1>1, <2>1 DEF Reader
  <2>3. (Count' - reader'.start) % Range32 = 0
    BY <1>1, <1>2, <2>2
  <2> QED
    BY <1>1, <2>2, <2>3 DEF DelayInv
<1>5. CASE ~(reader.op = "Delay" /\ reader.t = -1)
  <2>1. \/ reader' = [reader EXCEPT !.pc = "save"]
        \/ reader' = [reader EXCEPT !.pc = "idle"]
    BY <1>3, <1>5 DEF Deliver
  <2>2. /\ reader'.op = reader.op /\ reader'.t = reader.t
        /\ reader'.start = reader.start /\ reader'.delay = reader.delay
    BY <1>1, <2>1 DEF Reader
  <2> QED
    BY <1>1, <1>2, <2>2 DEF DelayInv
<1> QED
  BY <1>4, <1>5

LEMMA NextDelayInv == TimeInv /\ DelayInv /\ [TimeNext]_timeVars => DelayInv'
<1> SUFFICES ASSUME TimeInv, DelayInv, [TimeNext]_timeVars PROVE DelayInv'
  OBVIOUS
<1>1. CASE TickLow
  BY <1>1, TickLowKeepsDelay
<1>2. CASE TickHigh
  <2>1. Count' = Count
    BY <1>2, TickHighKeepsCount DEF TimeInv
  <2> QED
    BY <1>2, <2>1 DEF TickHigh, DelayInv
<1>3. CASE ProgramMasks
  BY <1>3 DEF ProgramMasks, DelayInv, Count, Value
<1>4. CASE \E op \in {"milliseconds", "Delay"}, d \in Delays \cup {0} : Call(op, d)
  BY <1>4 DEF Call, NoReader, DelayInv
<1>5. CASE Save \/ Cli \/ ReadLow \/ ReadHigh
  <2>1. reader \in Reader
    BY ReaderFacts
  <2>2. /\ reader'.op = reader.op /\ reader'.t = reader.t
        /\ reader'.start = reader.start /\ reader'.delay = reader.delay
        /\ UNCHANGED <<low, high, tick, elapsed>>
    BY <1>5, <2>1 DEF Reader, Save, Cli, ReadLow, ReadHigh
  <2>3. Count' = Count
    BY <2>2 DEF Count, Value
  <2> QED
    BY <2>2, <2>3 DEF DelayInv
<1>6. CASE Restore
  BY <1>6, RestoreKeepsDelay
<1>7. CASE UNCHANGED timeVars
  BY <1>7 DEF timeVars, DelayInv, Count, Value
<1> QED
  BY <1>1, <1>2, <1>3, <1>4, <1>5, <1>6, <1>7 DEF TimeNext

\* The value that ends a delay is not below its target, which has not gone
\* round: the count has gone from one to the other.
LEMMA DelayEnds ==
  ASSUME TimeInv, DelayInv, TimeNext, reader.op = "Delay", reader.t # -1,
         reader.pc # "idle", reader'.pc = "idle",
         reader.start + reader.delay < Range32
  PROVE  elapsed >= reader.delay
<1>1. /\ reader \in Reader /\ reader.start \in 0 .. Range32 - 1
      /\ reader.delay \in Nat /\ elapsed \in 0 .. Range32
      /\ Count \in 0 .. Range32 - 1 /\ Range32 \in Nat \ {0}
  BY ReaderFacts
<1>2. Restore
  BY <1>1 DEF TimeNext, TickLow, TickHigh, ProgramMasks, Call, Main, NoReader,
     Save, Cli, ReadLow, ReadHigh, Reader
<1>3. seen' = Count /\ Deliver(seen')
  BY <1>2, RestoreReads DEF Restore, Deliver
<1>4. ~(Count < reader.t)
  BY <1>1, <1>3 DEF Deliver, Reader
<1>5. reader.t = reader.start + reader.delay
  BY <1>1 DEF DelayInv
<1>6. Count - reader.start >= reader.delay
      /\ Count - reader.start \in 0 .. Range32 - 1
  BY <1>1, <1>4, <1>5
<1>7. (Count - reader.start) % Range32 = Count - reader.start
  BY <1>1, <1>6
<1>8. Count - reader.start <= elapsed
  BY <1>7 DEF DelayInv
<1> QED
  BY <1>1, <1>6, <1>8

\* A delay that has ended has lasted long enough.
DelayDone ==
  reader.op = "Delay" /\ reader.t # -1 /\ reader.pc = "idle" =>
    elapsed >= reader.delay \/ reader.start + reader.delay >= Range32

LEMMA NextDelayDone ==
  TimeInv /\ DelayInv /\ DelayDone /\ [TimeNext]_timeVars => DelayDone'
<1> SUFFICES ASSUME TimeInv, DelayInv, DelayDone, [TimeNext]_timeVars,
                    reader'.op = "Delay", reader'.t # -1, reader'.pc = "idle"
             PROVE  \/ elapsed' >= reader'.delay
                    \/ reader'.start + reader'.delay >= Range32
  BY DEF DelayDone
<1>1. /\ reader \in Reader /\ reader.start \in 0 .. Range32 - 1
      /\ reader.delay \in Nat /\ elapsed \in 0 .. Range32 /\ Range32 \in Nat
  BY ReaderFacts
<1>2. CASE reader.pc = "idle"
  <2>1. UNCHANGED reader /\ elapsed' \in {elapsed, elapsed + 1}
    BY <1>1, <1>2 DEF TimeNext, TickLow, TickHigh, ProgramMasks, Call, Main,
       NoReader, Save, Cli, ReadLow, ReadHigh, Restore, Elapse, timeVars
  <2> QED
    BY <1>1, <1>2, <2>1 DEF DelayDone
<1>3. CASE reader.pc # "idle"
  <2>1. Restore
    BY <1>1, <1>3 DEF TimeNext, TickLow, TickHigh, ProgramMasks, Call, Main,
       NoReader, Save, Cli, ReadLow, ReadHigh, Reader, timeVars
  <2>2. /\ reader' = [reader EXCEPT !.pc = "idle"] /\ elapsed' = elapsed
        /\ reader.op = "Delay" /\ reader.t # -1
    BY <1>1, <2>1 DEF Restore, Deliver, Reader
  <2>3. /\ reader'.start = reader.start /\ reader'.delay = reader.delay
    BY <1>1, <2>2 DEF Reader
  <2> QED
    BY <1>1, <1>3, <2>1, <2>2, <2>3, DelayEnds DEF TimeNext
<1> QED
  BY <1>2, <1>3

\* Delay lasts at least as long as it was asked to, whatever ticks come
\* between its readings of the count and in the middle of them.
THEOREM DelaysLast == TimeSpec => DelayLongEnough
<1>1. TimeInit => DelayInv /\ DelayDone
  BY DEF TimeInit, NoReader, DelayInv, DelayDone
<1>2. TimeSpec => [](TimeInv /\ DelayInv /\ DelayDone)
  BY <1>1, InitTimeInv, NextTimeInv, NextDelayInv, NextDelayDone, PTL DEF TimeSpec
<1>3. TimeInv /\ DelayInv /\ DelayDone /\ [TimeNext]_timeVars =>
        [reader.op = "Delay" /\ reader.t # -1 /\ reader'.pc = "idle"
           => \/ elapsed >= reader.delay
              \/ reader.start + reader.delay >= Range32]_timeVars
  <2> SUFFICES ASSUME TimeInv, DelayInv, DelayDone, TimeNext,
                      reader.op = "Delay", reader.t # -1, reader'.pc = "idle"
               PROVE  \/ elapsed >= reader.delay
                      \/ reader.start + reader.delay >= Range32
    OBVIOUS
  <2>1. /\ reader.start \in Int /\ reader.delay \in Int /\ Range32 \in Int
    BY ReaderFacts
  <2>2. CASE reader.pc = "idle"
    BY <2>2 DEF DelayDone
  <2>3. CASE reader.pc # "idle"
    BY <2>1, <2>3, DelayEnds
  <2> QED
    BY <2>2, <2>3
<1> QED
  BY <1>2, <1>3, PTL DEF TimeSpec, DelayLongEnough

-----------------------------------------------------------------------------
(* The SD card: what is true of it, and of a call.                         *)

SdOps == {"none", "Init", "ReadSectors", "GetNumSectors"}
ReadCommands == {"READ_SINGLE_BLOCK", "READ_MULTIPLE_BLOCK", "SEND_CSD"}
OtherCommands == {"GO_IDLE_STATE", "SEND_IF_COND", "SEND_OP_COND", "READ_OCR",
                  "SET_BLOCKLEN", "STOP_TRANSMISSION"}
CardAnswers == {"none", "idle", "ready", "refused", "illegal"}

Cards == [kind : Kinds, csd : CsdData, state : {"idle", "ready"},
          sending : {"no"} \cup ReadCommands, at : Nat]
CallRecords == [pc : SdPCs, op : SdOps, start : Nat, n : 0 .. ByteSize - 1,
                got : Seq(Int), answer : CardAnswers, result : Results,
                size : Int]
WaitRecords == [now : 0 .. Word - 1, tries : 0 .. MaxTries, spent : Nat,
                late : BOOLEAN]

\* How many blocks a read is about, and that those that have come are right.
Total(c) == IF c.n = 0 THEN ByteSize ELSE c.n
InRun(c) == \A i \in 1 .. Len(c.got) : c.got[i] = c.start + i - 1

\* The types, and what is true of a call by the place it has come to.
SdTypes ==
  /\ type_ \in {"SD1", "SD2", "SDHC"}
  /\ selected \in BOOLEAN /\ clean \in BOOLEAN
  /\ timeout \in Timeouts /\ clock \in 0 .. Range - 1
  /\ card \in Cards /\ wait \in WaitRecords

PhaseInv(c) ==
  /\ c \in CallRecords
  /\ c.pc \in {"reset", "ifcond", "opcond", "ocr", "blocklen"}
       => c.op = "Init" /\ c.got = << >>
  /\ c.pc \in {"command", "token", "block"}
       => /\ c.op \in {"ReadSectors", "GetNumSectors"}
          /\ c.op = "GetNumSectors" \/ c.pc = "command" => c.got = << >>
          /\ c.op = "ReadSectors" => Len(c.got) < Total(c)
  /\ c.pc = "stop" => c.op = "ReadSectors" /\ c.n # 1
  /\ Len(c.got) <= ByteSize

\* What Init has found out of the card: one that has been reset sends no
\* data, and one of high capacity is not ready for a driver of version 1.
InitInv ==
  /\ call.pc = "opcond" => type_ \in {"SD1", "SD2"}
  /\ call.pc = "ocr" => type_ = "SD2"
  /\ call.pc = "blocklen" => type_ = "SD1" /\ card.kind # "SDHC"
  /\ call.pc \in {"ifcond", "opcond", "ocr", "blocklen"} => card.sending = "no"
  /\ InitFindsType

\* A read and the card are at the same block.
ReadInv == call.op = "ReadSectors" /\ clean =>
  /\ (type_ = "SDHC") = (card.kind = "SDHC")
  /\ call.pc = "command" => card.sending = "no"
  /\ call.pc \in {"token", "block"} =>
       /\ card.sending = ReadCommand /\ card.at = call.start + Len(call.got)
       /\ InRun(call)
  /\ call.pc = "stop" => InRun(call) /\ Len(call.got) = Total(call)
  /\ call.pc = "idle" /\ call.result = "OK" =>
       /\ InRun(call) /\ Len(call.got) = Total(call)
       /\ card.sending = "no" \/ (call.n # 1 /\ call.answer = "none")

SizeInv == call.pc = "idle" /\ call.op = "GetNumSectors" /\ call.got # << >>
             => call.size = NumSectors(card.csd)

\* A wait that began before `now` overflowed knows what it has spent.
WaitInv == call.pc \in Waits /\ ~wait.late
             => clock = (wait.now + wait.spent) % Range

SdInv == /\ SdTypes /\ PhaseInv(call) /\ Deselected
         /\ InitInv /\ ReadInv /\ SizeInv /\ WaitInv

-----------------------------------------------------------------------------
(* The card.                                                               *)

\* A command that arrives: what the card answers, and what becomes of it.
LEMMA ObeysFacts ==
  ASSUME SdTypes, NEW command \in ReadCommands \cup OtherCommands, NEW arg,
         command \in ReadCommands => arg \in Nat,
         NEW a \in Obeys(command, arg)
  PROVE  /\ a = <<a[1], a[2]>> /\ a[1] \in CardAnswers
         /\ a[2] \in Cards /\ a[2].kind = card.kind /\ a[2].csd = card.csd
         /\ command = "GO_IDLE_STATE" => a[2].sending = "no"
         /\ command = "STOP_TRANSMISSION" => a[2].sending = "no"
         /\ card.sending = "no" /\ command \notin ReadCommands
              => a[2].sending = "no"
         /\ command = "SEND_OP_COND" /\ card.sending = "no"
            /\ card.kind = "SDHC" /\ arg = 0 => a[1] # "ready"
         /\ command \in ReadCommands /\ card.sending = "no" /\ a[1] = "ready"
              => /\ a[2].sending = command
                 /\ command # "SEND_CSD" => a[2].at = SectorAt(arg)
<1>1. card \in Cards /\ card.kind # "absent"
  BY DEF SdTypes, Obeys
<1>2. command \in ReadCommands => SectorAt(arg) \in Nat
  BY CardAssumption DEF SectorAt
<1>3. CASE command \in {"GO_IDLE_STATE", "STOP_TRANSMISSION"}
  <2>1. CASE command = "GO_IDLE_STATE"
    <3>1. a = <<"idle", [card EXCEPT !.state = "idle", !.sending = "no"]>>
      BY <1>1, <2>1 DEF Obeys
    <3> QED
      BY <1>1, <2>1, <3>1 DEF Cards, ReadCommands, CardAnswers
  <2>2. CASE command = "STOP_TRANSMISSION"
    <3>1. a = <<"ready", Sends("no", card.at)>>
      BY <1>1, <2>2 DEF Obeys
    <3> QED
      BY <1>1, <2>2, <3>1 DEF Sends, Cards, ReadCommands, CardAnswers
  <2> QED
    BY <1>3, <2>1, <2>2
<1>4. CASE /\ card.sending # "no"
           /\ command \notin {"GO_IDLE_STATE", "STOP_TRANSMISSION"}
  <2>1. a \in {"ready", "refused"} \X {card}
    BY <1>1, <1>4 DEF Obeys
  <2> QED
    BY <1>1, <1>4, <2>1 DEF Cards, CardAnswers
<1>5. CASE card.sending = "no" /\ command \in OtherCommands
           /\ command \notin {"GO_IDLE_STATE", "STOP_TRANSMISSION"}
  <2>1. CASE command = "SEND_IF_COND"
    BY <1>1, <1>5, <2>1 DEF Obeys, Cards, ReadCommands, CardAnswers
  <2>2. CASE command = "SEND_OP_COND"
    BY <1>1, <1>5, <2>2 DEF Obeys, Cards, ReadCommands, CardAnswers
  <2>3. CASE command \in {"READ_OCR", "SET_BLOCKLEN"}
    BY <1>1, <1>5, <2>3 DEF Obeys, Cards, ReadCommands, CardAnswers
  <2> QED
    BY <1>5, <2>1, <2>2, <2>3 DEF OtherCommands
<1>6. CASE card.sending = "no" /\ command \in ReadCommands
  <2>1. CASE card.state = "idle"
    <3>1. a = <<"refused", card>>
      BY <1>1, <1>6, <2>1 DEF Obeys, ReadCommands
    <3> QED
      BY <1>1, <1>6, <3>1 DEF CardAnswers, ReadCommands
  <2>2. CASE card.state = "ready"
    <3>1. a = <<"ready", Sends(command, IF command = "SEND_CSD" THEN 0
                                        ELSE SectorAt(arg))>>
      BY <1>1, <1>6, <2>2 DEF Obeys, ReadCommands
    <3> QED
      BY <1>1, <1>2, <1>6, <3>1 DEF Sends, Cards, CardAnswers, ReadCommands
  <2> QED
    BY <1>1, <2>1, <2>2 DEF Cards
<1> QED
  BY <1>3, <1>4, <1>5, <1>6

\* The same of what Command returns, where the command or its answer may be
\* lost.
LEMMA AnswerFacts ==
  ASSUME SdTypes, NEW command \in ReadCommands \cup OtherCommands, NEW arg,
         command \in ReadCommands => arg \in Nat,
         NEW a \in Answers(command, arg)
  PROVE  /\ a[1] \in CardAnswers
         /\ a[2] \in Cards /\ a[2].kind = card.kind /\ a[2].csd = card.csd
         /\ command = "GO_IDLE_STATE" /\ a[1] # "none" => a[2].sending = "no"
         /\ command = "STOP_TRANSMISSION" /\ a[1] # "none"
              => a[2].sending = "no"
         /\ card.sending = "no" /\ command \notin ReadCommands
              => a[2].sending = "no"
         /\ command = "SEND_OP_COND" /\ card.sending = "no"
            /\ card.kind = "SDHC" /\ arg = 0 => a[1] # "ready"
         /\ command \in ReadCommands /\ card.sending = "no" /\ a[1] = "ready"
              => /\ a[2].sending = command
                 /\ command # "SEND_CSD" => a[2].at = SectorAt(arg)
<1>1. CASE a \in Obeys(command, arg)
  BY <1>1, ObeysFacts
<1>2. CASE a = <<"none", card>>
  BY <1>2 DEF SdTypes, CardAnswers
<1>3. CASE \E b \in Obeys(command, arg) : a = <<"none", b[2]>>
  <2>1. PICK b \in Obeys(command, arg) : a = <<"none", b[2]>>
    BY <1>3
  <2> QED
    BY <2>1, ObeysFacts DEF CardAnswers
<1> QED
  BY <1>1, <1>2, <1>3 DEF Answers

-----------------------------------------------------------------------------
(* Waits, blocks and sizes.                                                *)

\* A wait that starts has spent nothing, and `now` is the clock unless it has
\* outgrown it.
LEMMA StartWaitSound ==
  ASSUME SdTypes, StartWait, clock' = clock
  PROVE  /\ wait' \in WaitRecords
         /\ ~wait'.late => clock' = (wait'.now + wait'.spent) % Range
<1>1. clock \in 0 .. Range - 1 /\ Word \in Nat \ {0} /\ Range \in Nat \ {0}
      /\ MaxTries \in Nat \ {0}
  BY DriverAssumption DEF SdTypes
<1>2. clock % Word \in 0 .. Word - 1
  BY <1>1
<1>3. wait' \in WaitRecords
  BY <1>1, <1>2 DEF StartWait, WaitRecords
<1>4. ASSUME ~wait'.late PROVE clock = (wait'.now + wait'.spent) % Range
  <2>1. wait'.late = (clock >= Word)
    BY DEF StartWait
  <2>2. ~(clock >= Word)
    BY <1>4, <2>1
  <2>3. clock < Word
    BY <1>1, <2>2
  <2>4. wait'.now = clock /\ wait'.spent = 0
    BY <1>1, <2>3 DEF StartWait
  <2> QED
    BY <1>1, <2>4
<1> QED
  BY <1>3, <1>4

\* One more attempt.
LEMMA AttemptSound ==
  ASSUME SdTypes, wait' = [wait EXCEPT !.tries = (@ + 1) % MaxTries]
  PROVE  /\ wait' \in WaitRecords
         /\ wait'.late = wait.late /\ wait'.now = wait.now
         /\ wait'.spent = wait.spent
  BY DriverAssumption DEF SdTypes, WaitRecords

LEMMA NoWaitSound == NoWait \in WaitRecords
  BY DriverAssumption DEF NoWait, WaitRecords

\* A number below the modulus, and one just below 0.
LEMMA Remainders ==
  ASSUME NEW n \in Nat \ {0}, NEW x \in 0 .. n - 1
  PROVE  x % n = x /\ (-(x + 1)) % n = n - (x + 1)
<1> DEFINE y == -(x + 1)
           q == y \div n
           r == y % n
<1>1. y \in Int
  OBVIOUS
<1>2. y = -(x + 1)
  OBVIOUS
<1> HIDE DEF y
<1>3. q \in Int /\ r \in 0 .. n - 1 /\ y = n * q + r
  BY <1>1
<1> HIDE DEF q, r
<1>4. q = -1
  <2>1. CASE q >= 0
    <3>1. n * q >= 0
      BY <1>3, <2>1
    <3> QED
      BY <1>2, <1>3, <3>1
  <2>2. CASE q <= -2
    <3>1. n * q <= n * (-2)
      BY <1>3, <2>2
    <3> QED
      BY <1>2, <1>3, <3>1
  <2> QED
    BY <1>3, <2>1, <2>2
<1>5. r = n - (x + 1)
  BY <1>2, <1>3, <1>4
<1>6. x % n = x
  OBVIOUS
<1> QED
  BY <1>5, <1>6 DEF r, y

\* --num_sectors reaches 0 at the last block of the read, and 0 blocks are
\* all that a byte can count.
LEMMA LastBlockIs ==
  ASSUME call \in CallRecords, Len(call.got) < Total(call)
  PROVE  LastBlock <=> Len(call.got) + 1 = Total(call)
<1> DEFINE k == Len(call.got)
           n == call.n
<1>1. k \in Nat /\ n \in 0 .. ByteSize - 1 /\ ByteSize \in Nat \ {0}
  BY DriverAssumption DEF CallRecords
<1>2. /\ k < IF n = 0 THEN ByteSize ELSE n
      /\ Total(call) = IF n = 0 THEN ByteSize ELSE n
      /\ LastBlock <=> n = 1 \/ (n - k - 1) % ByteSize = 0
  BY DEF Total, LastBlock
<1> HIDE DEF k, n
<1>3. CASE n = 0
  <2>1. k \in 0 .. ByteSize - 1 /\ n - k - 1 = -(k + 1)
    BY <1>1, <1>2, <1>3
  <2>2. (n - k - 1) % ByteSize = ByteSize - (k + 1)
    BY <1>1, <2>1, Remainders
  <2>3. LastBlock <=> k + 1 = ByteSize
    BY <1>1, <1>2, <1>3, <2>1, <2>2
  <2> QED
    BY <1>2, <1>3, <2>3 DEF k
<1>4. CASE n # 0
  <2>1. n - k - 1 \in 0 .. ByteSize - 1
    BY <1>1, <1>2, <1>4
  <2>2. (n - k - 1) % ByteSize = n - k - 1
    BY <1>1, <2>1, Remainders
  <2>3. LastBlock <=> k + 1 = n
    BY <1>1, <1>2, <1>4, <2>1, <2>2
  <2> QED
    BY <1>2, <1>4, <2>3 DEF k
<1> QED
  BY <1>3, <1>4

\* One more block.
LEMMA BlockAppended ==
  ASSUME NEW c \in CallRecords, NEW x \in Int, NEW d,
         d.got = Append(c.got, x), d.start = c.start
  PROVE  /\ Len(d.got) = Len(c.got) + 1 /\ d.got \in Seq(Int)
         /\ InRun(c) /\ x = c.start + Len(c.got) => InRun(d)
<1>1. c.got \in Seq(Int) /\ c.start \in Nat
  BY DEF CallRecords
<1>2. /\ Len(d.got) = Len(c.got) + 1 /\ d.got \in Seq(Int)
      /\ \A i \in 1 .. Len(c.got) : d.got[i] = c.got[i]
      /\ d.got[Len(c.got) + 1] = x
  BY <1>1
<1> QED
  BY <1>1, <1>2 DEF InRun

\* (mult + 2) + (read_bl_len - 9), as one shift or as two.
LEMMA ShiftTwice ==
  ASSUME NEW m \in 0 .. 7, NEW b \in 9 .. 11
  PROVE  /\ 2 ^ (m + b - 7) \in Nat /\ 2 ^ (m + 2) \in Nat
         /\ 2 ^ (b - 9) \in Nat
         /\ 2 ^ (m + b - 7) = 2 ^ (m + 2) * 2 ^ (b - 9)
<1>1. m \in {0, 1, 2, 3, 4, 5, 6, 7}
  OBVIOUS
<1>2. CASE b = 9
  <2>1. m + b - 7 = m + 2 /\ b - 9 = 0
    BY <1>2
  <2>2. CASE m = 0
    BY <2>1, <2>2
  <2>3. CASE m = 1
    BY <2>1, <2>3
  <2>4. CASE m = 2
    BY <2>1, <2>4
  <2>5. CASE m = 3
    BY <2>1, <2>5
  <2>6. CASE m = 4
    BY <2>1, <2>6
  <2>7. CASE m = 5
    BY <2>1, <2>7
  <2>8. CASE m = 6
    BY <2>1, <2>8
  <2>9. CASE m = 7
    BY <2>1, <2>9
  <2> QED
    BY <1>1, <2>2, <2>3, <2>4, <2>5, <2>6, <2>7, <2>8, <2>9
<1>3. CASE b = 10
  <2>1. m + b - 7 = m + 3 /\ b - 9 = 1
    BY <1>3
  <2>2. CASE m = 0
    BY <2>1, <2>2
  <2>3. CASE m = 1
    BY <2>1, <2>3
  <2>4. CASE m = 2
    BY <2>1, <2>4
  <2>5. CASE m = 3
    BY <2>1, <2>5
  <2>6. CASE m = 4
    BY <2>1, <2>6
  <2>7. CASE m = 5
    BY <2>1, <2>7
  <2>8. CASE m = 6
    BY <2>1, <2>8
  <2>9. CASE m = 7
    BY <2>1, <2>9
  <2> QED
    BY <1>1, <2>2, <2>3, <2>4, <2>5, <2>6, <2>7, <2>8, <2>9
<1>4. CASE b = 11
  <2>1. m + b - 7 = m + 4 /\ b - 9 = 2
    BY <1>4
  <2>2. CASE m = 0
    BY <2>1, <2>2
  <2>3. CASE m = 1
    BY <2>1, <2>3
  <2>4. CASE m = 2
    BY <2>1, <2>4
  <2>5. CASE m = 3
    BY <2>1, <2>5
  <2>6. CASE m = 4
    BY <2>1, <2>6
  <2>7. CASE m = 5
    BY <2>1, <2>7
  <2>8. CASE m = 6
    BY <2>1, <2>8
  <2>9. CASE m = 7
    BY <2>1, <2>9
  <2> QED
    BY <1>1, <2>2, <2>3, <2>4, <2>5, <2>6, <2>7, <2>8, <2>9
<1> QED
  BY <1>2, <1>3, <1>4

-----------------------------------------------------------------------------
(* Each step keeps the invariant.                                          *)

LEMMA InitSdInv == SdInit => SdInv
<1> SUFFICES ASSUME SdInit PROVE SdInv
  OBVIOUS
<1>1. PICK k \in Kinds, c \in CsdData :
        card = [kind |-> k, csd |-> c, state |-> "idle", sending |-> "no",
                at |-> 0]
  BY CardAssumption DEF SdInit
<1>2. SdTypes
  <2>1. card \in Cards
    BY <1>1 DEF Cards
  <2>2. clock \in 0 .. Range - 1
    BY DriverAssumption DEF SdInit
  <2> QED
    BY <2>1, <2>2, NoWaitSound DEF SdInit, SdTypes
<1>3. call \in CallRecords
  BY DriverAssumption DEF SdInit, NoCall, CallRecords, SdPCs, SdOps,
     CardAnswers, Results
<1>4. /\ call.pc = "idle" /\ call.op = "none" /\ call.got = << >>
      /\ selected = FALSE
  BY DEF SdInit, NoCall
<1>5. PhaseInv(call)
  BY <1>3, <1>4, DriverAssumption DEF PhaseInv
<1>6. Deselected /\ InitInv /\ ReadInv /\ SizeInv /\ WaitInv
  BY <1>4 DEF Deselected, InitInv, InitFindsType, ReadInv, SizeInv, WaitInv,
     Waits
<1> QED
  BY <1>2, <1>5, <1>6 DEF SdInv

LEMMA ClockTickKeeps == ASSUME SdInv, ClockTick PROVE SdInv'
<1>1. clock \in 0 .. Range - 1 /\ wait \in WaitRecords
      /\ Range \in Nat \ {0} /\ Word \in Nat \ {0}
  BY DriverAssumption DEF SdInv, SdTypes
<1>2. clock' = (clock + 1) % Range
      /\ UNCHANGED <<type_, selected, timeout, card, call, clean>>
  BY DEF ClockTick
<1>3. clock' \in 0 .. Range - 1
  BY <1>1, <1>2
<1>4. wait' \in WaitRecords
  BY <1>1 DEF ClockTick, WaitRecords
<1>5. SdTypes'
  BY <1>2, <1>3, <1>4 DEF SdInv, SdTypes, Cards
<1>6. WaitInv'
  <2> SUFFICES ASSUME call.pc \in Waits, ~wait'.late
               PROVE  clock' = (wait'.now + wait'.spent) % Range
    BY <1>2 DEF WaitInv
  <2>1. wait' = [wait EXCEPT !.spent = @ + 1]
    BY DEF ClockTick, Waits
  <2>2. /\ wait'.now = wait.now /\ wait'.late = wait.late
        /\ wait'.spent = wait.spent + 1
        /\ wait.now \in Nat /\ wait.spent \in Nat
    BY <1>1, <2>1 DEF WaitRecords
  <2>3. clock = (wait.now + wait.spent) % Range
    BY <2>2 DEF SdInv, WaitInv
  <2> QED
    <3> DEFINE x == wait.now + wait.spent
    <3>1. x \in Nat /\ wait'.now + wait'.spent = x + 1 /\ clock = x % Range
      BY <2>2, <2>3
    <3> HIDE DEF x
    <3>2. clock' = ((x % Range) + 1) % Range /\ x \in Int /\ Range \in Nat \ {0}
      BY <1>1, <1>2, <3>1
    <3>3. ((x % Range) + 1) % Range = (x + 1) % Range
      BY <3>2, NextRemainder
    <3> QED
      BY <3>1, <3>2, <3>3
<1> QED
  BY <1>2, <1>5, <1>6 DEF SdInv, PhaseInv, Deselected, InitInv, InitFindsType,
     ReadInv, ReadCommand, SizeInv

\* The three ways in which a call goes on.
Same(c, d) == /\ d.op = c.op /\ d.start = c.start /\ d.n = c.n
              /\ d.got = c.got /\ d.answer = c.answer /\ d.size = c.size

LEMMA GotoSound ==
  ASSUME call \in CallRecords, NEW p \in SdPCs, Goto(p)
  PROVE  /\ call' \in CallRecords /\ Same(call, call')
         /\ call'.pc = p /\ call'.result = call.result
         /\ selected' = selected
  BY DEF Goto, CallRecords, Same

LEMMA ReturnSound ==
  ASSUME call \in CallRecords, NEW r \in Results, Return(r)
  PROVE  /\ call' \in CallRecords /\ Same(call, call')
         /\ call'.pc = "idle" /\ call'.result = r
         /\ selected' = FALSE /\ wait' \in WaitRecords
  BY NoWaitSound DEF Return, CallRecords, Same, SdPCs

LEMMA BeginSound ==
  ASSUME SdInv, NEW op \in SdOps, NEW p \in SdPCs, NEW start \in Nat,
         NEW n \in 0 .. ByteSize - 1, Begin(op, p, start, n)
  PROVE  /\ call' \in CallRecords
         /\ call'.pc = p /\ call'.op = op /\ call'.start = start
         /\ call'.n = n /\ call'.got = << >> /\ call'.result = "none"
         /\ selected' = TRUE /\ clean' \in BOOLEAN
         /\ UNCHANGED <<timeout, clock, card>>
<1>1. call' = [NoCall EXCEPT !.pc = p, !.op = op, !.start = start, !.n = n]
  BY DEF Begin
<1>2. call' = [pc |-> p, op |-> op, start |-> start, n |-> n, got |-> << >>,
               answer |-> "none", result |-> "none", size |-> 0]
  BY <1>1 DEF NoCall
<1>3. 0 \in Int /\ << >> \in Seq(Int) /\ "none" \in CardAnswers
      /\ "none" \in Results
  BY DEF CardAnswers, Results
<1>4. call' \in CallRecords
  BY <1>2, <1>3 DEF CallRecords
<1>5. clean' \in BOOLEAN /\ selected' = TRUE /\ UNCHANGED <<timeout, clock, card>>
  BY DEF Begin
<1> QED
  BY <1>2, <1>4, <1>5

LEMMA CallInitKeeps == ASSUME SdInv, CallInit PROVE SdInv'
<1>1. 0 \in 0 .. ByteSize - 1 /\ "Init" \in SdOps /\ "reset" \in SdPCs
  BY DriverAssumption DEF SdOps, SdPCs, Waits
<1>2. /\ call' \in CallRecords
      /\ call'.pc = "reset" /\ call'.op = "Init" /\ call'.got = << >>
      /\ selected' = TRUE /\ clean' \in BOOLEAN
      /\ UNCHANGED <<timeout, clock, card>>
  BY <1>1, BeginSound DEF CallInit
<1>3. wait' \in WaitRecords
      /\ (~wait'.late => clock' = (wait'.now + wait'.spent) % Range)
  BY <1>2, StartWaitSound DEF CallInit, SdInv
<1>4. SdTypes'
  BY <1>2, <1>3 DEF CallInit, SdInv, SdTypes, Cards
<1>5. PhaseInv(call)'
  BY <1>2, DriverAssumption DEF PhaseInv, CallRecords
<1>6. (Deselected /\ InitInv /\ ReadInv /\ SizeInv /\ WaitInv)'
  BY <1>2, <1>3 DEF Deselected, InitInv, InitFindsType, ReadInv, SizeInv, WaitInv
<1> QED
  BY <1>4, <1>5, <1>6 DEF SdInv

\* The steps of Init have nothing to do with reads: it goes on, tries again,
\* or returns.
LEMMA InitGoesOn ==
  ASSUME SdInv, call.op = "Init", call.got = << >>, card' \in Cards,
         NEW p \in {"reset", "ifcond", "opcond", "ocr", "blocklen"}, Goto(p),
         type_' \in {"SD1", "SD2", "SDHC"}, UNCHANGED <<timeout, clock, clean>>,
         wait' \in WaitRecords, call.pc # "idle", InitInv', WaitInv'
  PROVE  SdInv'
<1>1. /\ call' \in CallRecords /\ Same(call, call') /\ call'.pc = p
      /\ selected' = selected
  BY GotoSound DEF SdInv, PhaseInv, SdPCs, Waits
<1>2. SdTypes'
  BY <1>1 DEF SdInv, SdTypes
<1>3. PhaseInv(call)'
  BY <1>1, DriverAssumption DEF PhaseInv, Same
<1>4. (Deselected /\ ReadInv /\ SizeInv)'
  BY <1>1 DEF SdInv, Deselected, ReadInv, SizeInv, Same
<1> QED
  BY <1>2, <1>3, <1>4 DEF SdInv

LEMMA InitTriesAgain ==
  ASSUME SdInv, call.op = "Init", call.got = << >>, card' \in Cards,
         call.pc \in {"reset", "opcond"}, Goto(call.pc),
         wait' = [wait EXCEPT !.tries = (@ + 1) % MaxTries],
         UNCHANGED <<type_, timeout, clock, clean>>,
         call.pc = "opcond" => card'.sending = "no"
  PROVE  SdInv'
<1>1. call'.pc = call.pc /\ Same(call, call')
  BY GotoSound DEF SdInv, PhaseInv, SdPCs, Waits
<1>2. wait' \in WaitRecords /\ wait'.late = wait.late /\ wait'.now = wait.now
      /\ wait'.spent = wait.spent
  BY AttemptSound DEF SdInv
<1>3. InitInv'
  BY <1>1 DEF SdInv, InitInv, InitFindsType
<1>4. WaitInv'
  BY <1>2 DEF SdInv, WaitInv, Waits
<1>5. call.pc \in {"reset", "ifcond", "opcond", "ocr", "blocklen"}
      /\ type_' \in {"SD1", "SD2", "SDHC"} /\ call.pc # "idle"
  BY DEF SdInv, SdTypes
<1> QED
  BY <1>2, <1>3, <1>4, <1>5, InitGoesOn

LEMMA InitReturns ==
  ASSUME SdInv, call.op = "Init", call.got = << >>, card' \in Cards,
         NEW r \in Results, Return(r),
         type_' \in {"SD1", "SD2", "SDHC"}, UNCHANGED <<timeout, clock, clean>>,
         r = "OK" => (type_' = "SDHC") = (card'.kind = "SDHC")
  PROVE  SdInv'
<1>1. /\ call' \in CallRecords /\ Same(call, call') /\ call'.pc = "idle"
      /\ call'.result = r /\ selected' = FALSE /\ wait' \in WaitRecords
  BY ReturnSound DEF SdInv, PhaseInv
<1>2. SdTypes'
  BY <1>1 DEF SdInv, SdTypes
<1>3. PhaseInv(call)'
  BY <1>1, DriverAssumption DEF PhaseInv, Same
<1>4. (Deselected /\ InitInv /\ ReadInv /\ SizeInv /\ WaitInv)'
  BY <1>1 DEF Deselected, InitInv, InitFindsType, ReadInv, SizeInv, WaitInv,
     Same, Waits
<1> QED
  BY <1>2, <1>3, <1>4 DEF SdInv

LEMMA ResetKeeps == ASSUME SdInv, Reset PROVE SdInv'
<1>1. PICK a \in Answers("GO_IDLE_STATE", 0) :
        /\ card' = a[2]
        /\ \/ a[1] = "idle" /\ Goto("ifcond") /\ wait' = NoWait
           \/ a[1] # "idle" /\ TriesLeft /\ Goto("reset")
              /\ wait' = [wait EXCEPT !.tries = (@ + 1) % MaxTries]
           \/ a[1] # "idle" /\ ~TriesLeft /\ Return("ERROR_INIT")
  BY DEF Reset
<1>2. /\ call.pc = "reset" /\ call \in CallRecords /\ SdTypes
      /\ call.op = "Init" /\ call.got = << >>
      /\ UNCHANGED <<type_, timeout, clock, clean>>
      /\ type_' \in {"SD1", "SD2", "SDHC"}
  BY DEF Reset, SdInv, PhaseInv, SdTypes
<1>3. card' \in Cards /\ (a[1] # "none" => card'.sending = "no")
  BY <1>1, <1>2, AnswerFacts DEF OtherCommands
<1>4. CASE a[1] = "idle" /\ Goto("ifcond") /\ wait' = NoWait
  <2>1. call'.pc = "ifcond" /\ card'.sending = "no"
    BY <1>2, <1>3, <1>4, GotoSound DEF SdPCs
  <2>2. InitInv' /\ WaitInv' /\ wait' \in WaitRecords
    BY <1>4, <2>1, NoWaitSound DEF InitInv, InitFindsType, WaitInv, Waits
  <2> QED
    BY <1>2, <1>3, <1>4, <2>2, InitGoesOn
<1>5. CASE Goto("reset") /\ wait' = [wait EXCEPT !.tries = (@ + 1) % MaxTries]
  BY <1>2, <1>3, <1>5, InitTriesAgain
<1>6. CASE Return("ERROR_INIT")
  BY <1>2, <1>3, <1>6, InitReturns DEF Results
<1> QED
  BY <1>1, <1>4, <1>5, <1>6

LEMMA CheckVoltageKeeps == ASSUME SdInv, CheckVoltage PROVE SdInv'
<1>1. PICK a \in Answers("SEND_IF_COND", 0) :
        /\ card' = a[2]
        /\ \/ type_' = "SD1" /\ Goto("opcond") /\ StartWait
           \/ type_' = "SD2" /\ Goto("opcond") /\ StartWait
           \/ Return("ERROR_INIT") /\ UNCHANGED type_
  BY DEF CheckVoltage
<1>2. /\ call.pc = "ifcond" /\ call \in CallRecords /\ SdTypes
      /\ call.op = "Init" /\ call.got = << >> /\ card.sending = "no"
      /\ UNCHANGED <<timeout, clock, clean>>
      /\ type_ \in {"SD1", "SD2", "SDHC"}
  BY DEF CheckVoltage, SdInv, PhaseInv, InitInv, SdTypes
<1>3. card' \in Cards /\ card'.sending = "no"
  BY <1>1, <1>2, AnswerFacts DEF OtherCommands, ReadCommands
<1>4. CASE type_' \in {"SD1", "SD2"} /\ Goto("opcond") /\ StartWait
  <2>1. call'.pc = "opcond"
    BY <1>2, <1>4, GotoSound DEF SdPCs, Waits
  <2>2. wait' \in WaitRecords /\ WaitInv'
    BY <1>2, <1>4, StartWaitSound DEF WaitInv
  <2>3. InitInv'
    BY <1>3, <1>4, <2>1 DEF InitInv, InitFindsType
  <2> QED
    BY <1>2, <1>3, <1>4, <2>2, <2>3, InitGoesOn
<1>5. CASE Return("ERROR_INIT") /\ UNCHANGED type_
  BY <1>2, <1>3, <1>5, InitReturns DEF Results
<1> QED
  BY <1>1, <1>4, <1>5

LEMMA WaitOpCondKeeps == ASSUME SdInv, WaitOpCond PROVE SdInv'
<1>1. PICK a \in Answers("SEND_OP_COND", IF type_ = "SD2" THEN 1 ELSE 0) :
        /\ card' = a[2]
        /\ \/ a[1] = "ready" /\ Goto(IF type_ = "SD2" THEN "ocr" ELSE "blocklen")
              /\ wait' = NoWait
           \/ a[1] # "ready" /\ TriesLeft /\ Goto("opcond")
              /\ wait' = [wait EXCEPT !.tries = (@ + 1) % MaxTries]
           \/ a[1] # "ready" /\ ~TriesLeft /\ Return("ERROR_INIT")
  BY DEF WaitOpCond
<1>2. /\ call.pc = "opcond" /\ call \in CallRecords /\ SdTypes
      /\ call.op = "Init" /\ call.got = << >> /\ card.sending = "no"
      /\ UNCHANGED <<type_, timeout, clock, clean>>
      /\ type_ \in {"SD1", "SD2"}
  BY DEF WaitOpCond, SdInv, PhaseInv, InitInv
<1>3. /\ card' \in Cards /\ card'.sending = "no" /\ card'.kind = card.kind
      /\ a[1] = "ready" /\ card.kind = "SDHC" => type_ = "SD2"
  <2>1. "SEND_OP_COND" \in OtherCommands \ ReadCommands
    BY DEF OtherCommands, ReadCommands
  <2>2. CASE type_ = "SD2"
    BY <1>1, <1>2, <2>1, <2>2, AnswerFacts
  <2>3. CASE type_ # "SD2"
    <3>1. a \in Answers("SEND_OP_COND", 0)
      BY <1>1, <2>3
    <3> QED
      BY <1>1, <1>2, <2>1, <3>1, AnswerFacts
  <2> QED
    BY <2>2, <2>3
<1>4. CASE a[1] = "ready" /\ wait' = NoWait
           /\ Goto(IF type_ = "SD2" THEN "ocr" ELSE "blocklen")
  <2> DEFINE p == IF type_ = "SD2" THEN "ocr" ELSE "blocklen"
  <2>1. p \in {"reset", "ifcond", "opcond", "ocr", "blocklen"} /\ Goto(p)
    BY <1>4
  <2>2. call'.pc = p
    BY <1>2, <2>1, GotoSound DEF SdPCs
  <2>3. InitInv' /\ WaitInv' /\ wait' \in WaitRecords
    BY <1>2, <1>3, <1>4, <2>2, NoWaitSound
       DEF InitInv, InitFindsType, WaitInv, Waits
  <2>4. type_' \in {"SD1", "SD2", "SDHC"}
    BY <1>2
  <2> QED
    BY <1>2, <1>3, <2>1, <2>3, <2>4, InitGoesOn
<1>5. CASE Goto("opcond") /\ wait' = [wait EXCEPT !.tries = (@ + 1) % MaxTries]
  BY <1>2, <1>3, <1>5, InitTriesAgain
<1>6. CASE Return("ERROR_INIT")
  BY <1>2, <1>3, <1>6, InitReturns DEF Results
<1> QED
  BY <1>1, <1>4, <1>5, <1>6

LEMMA CheckCapacityKeeps == ASSUME SdInv, CheckCapacity PROVE SdInv'
<1> DEFINE command == IF call.pc = "ocr" THEN "READ_OCR" ELSE "SET_BLOCKLEN"
<1>1. PICK a \in Answers(command, 0) :
        /\ card' = a[2]
        /\ \/ Return("ERROR_INIT") /\ UNCHANGED type_
           \/ /\ Return("OK")
              /\ type_' = IF call.pc = "ocr" /\ card.kind = "SDHC" THEN "SDHC"
                          ELSE type_
  BY DEF CheckCapacity
<1>2. /\ call.pc \in {"ocr", "blocklen"} /\ call \in CallRecords /\ SdTypes
      /\ call.op = "Init" /\ call.got = << >>
      /\ UNCHANGED <<timeout, clock, clean>>
      /\ call.pc = "ocr" => type_ = "SD2"
      /\ call.pc = "blocklen" => type_ = "SD1" /\ card.kind # "SDHC"
  BY DEF CheckCapacity, SdInv, PhaseInv, InitInv
<1>3. card' \in Cards /\ card'.kind = card.kind
  BY <1>1, <1>2, AnswerFacts DEF OtherCommands, ReadCommands
<1>4. CASE Return("ERROR_INIT") /\ UNCHANGED type_
  BY <1>2, <1>3, <1>4, InitReturns DEF Results
<1>5. CASE /\ Return("OK")
           /\ type_' = IF call.pc = "ocr" /\ card.kind = "SDHC" THEN "SDHC"
                       ELSE type_
  <2>1. /\ type_' \in {"SD1", "SD2", "SDHC"}
        /\ (type_' = "SDHC") = (card'.kind = "SDHC")
    BY <1>2, <1>3, <1>5
  <2> QED
    BY <1>2, <1>3, <1>5, <2>1, InitReturns DEF Results
<1> QED
  BY <1>1, <1>4, <1>5

LEMMA CallReadSectorsKeeps ==
  ASSUME SdInv, NEW start \in Starts, NEW n \in Counts, CallReadSectors(start, n)
  PROVE  SdInv'
<1>1. /\ start \in Nat /\ n \in 0 .. ByteSize - 1 /\ ByteSize \in Nat \ {0}
      /\ "ReadSectors" \in SdOps /\ "command" \in SdPCs
  BY DriverAssumption DEF SdOps, SdPCs
<1>2. /\ call' \in CallRecords
      /\ call'.pc = "command" /\ call'.op = "ReadSectors" /\ call'.n = n
      /\ call'.got = << >> /\ selected' = TRUE /\ clean' \in BOOLEAN
      /\ UNCHANGED <<timeout, clock, card, type_, wait>>
  BY <1>1, BeginSound DEF CallReadSectors
<1>3. SdTypes'
  BY <1>2 DEF SdInv, SdTypes, Cards
<1>4. Len(call'.got) = 0 /\ Total(call') > 0
  BY <1>1, <1>2 DEF Total
<1>5. PhaseInv(call)'
  BY <1>1, <1>2, <1>4 DEF PhaseInv, Total
<1>6. ReadInv'
  BY <1>2 DEF CallReadSectors, Begin, ReadInv
<1>7. (Deselected /\ InitInv /\ SizeInv /\ WaitInv)'
  BY <1>2 DEF Deselected, InitInv, InitFindsType, SizeInv, WaitInv, Waits
<1> QED
  BY <1>3, <1>5, <1>6, <1>7 DEF SdInv

LEMMA CallGetNumSectorsKeeps == ASSUME SdInv, CallGetNumSectors PROVE SdInv'
<1>1. 0 \in 0 .. ByteSize - 1 /\ "GetNumSectors" \in SdOps
      /\ "command" \in SdPCs /\ ByteSize \in Nat
  BY DriverAssumption DEF SdOps, SdPCs
<1>2. /\ call' \in CallRecords
      /\ call'.pc = "command" /\ call'.op = "GetNumSectors"
      /\ call'.got = << >> /\ selected' = TRUE /\ clean' \in BOOLEAN
      /\ UNCHANGED <<timeout, clock, card, type_, wait>>
  BY <1>1, BeginSound DEF CallGetNumSectors
<1>3. SdTypes'
  BY <1>2 DEF SdInv, SdTypes, Cards
<1>4. PhaseInv(call)'
  BY <1>1, <1>2 DEF PhaseInv
<1>5. (Deselected /\ InitInv /\ ReadInv /\ SizeInv /\ WaitInv)'
  BY <1>2 DEF Deselected, InitInv, InitFindsType, ReadInv, SizeInv, WaitInv,
     Waits
<1> QED
  BY <1>3, <1>4, <1>5 DEF SdInv

\* A read that gives up keeps what it has, and does not say OK.
LEMMA ReadGivesUp ==
  ASSUME SdInv, call.pc \in {"command", "token"},
         card' \in Cards, card'.kind = card.kind,
         NEW r \in Results \ {"OK"}, Return(r),
         call.op # "GetNumSectors" \/ call.got = << >>,
         UNCHANGED <<type_, timeout, clock, clean>>
  PROVE  SdInv'
<1>1. /\ call' \in CallRecords /\ Same(call, call') /\ call'.pc = "idle"
      /\ call'.result # "OK" /\ selected' = FALSE /\ wait' \in WaitRecords
  BY ReturnSound DEF SdInv, PhaseInv
<1>2. SdTypes'
  BY <1>1 DEF SdInv, SdTypes
<1>3. PhaseInv(call)'
  BY <1>1 DEF SdInv, PhaseInv, Same
<1>4. (Deselected /\ InitInv /\ SizeInv /\ WaitInv)'
  BY <1>1 DEF Deselected, InitInv, InitFindsType, SizeInv, WaitInv, Same, Waits
<1>5. ReadInv'
  BY <1>1 DEF SdInv, ReadInv, Same
<1> QED
  BY <1>2, <1>3, <1>4, <1>5 DEF SdInv

\* A read that goes on from the command to its data, or waits for them.
LEMMA ReadGoesOn ==
  ASSUME SdInv, call.pc \in {"command", "token"}, card' \in Cards,
         NEW p \in {"token", "block"}, Goto(p),
         UNCHANGED <<type_, timeout, clock, clean>>,
         wait' \in WaitRecords, WaitInv',
         call.op = "ReadSectors" /\ clean =>
           /\ card'.sending = ReadCommand /\ card'.kind = card.kind
           /\ card'.at = call.start + Len(call.got) /\ InRun(call)
  PROVE  SdInv'
<1>1. /\ call' \in CallRecords /\ Same(call, call') /\ call'.pc = p
      /\ selected' = selected
  BY GotoSound DEF SdInv, PhaseInv, SdPCs, Waits
<1>2. SdTypes'
  BY <1>1 DEF SdInv, SdTypes
<1>3. PhaseInv(call)'
  BY <1>1 DEF SdInv, PhaseInv, Same, Total
<1>4. (Deselected /\ InitInv /\ SizeInv)'
  BY <1>1 DEF SdInv, Deselected, InitInv, InitFindsType, SizeInv
<1>5. ReadInv'
  BY <1>1 DEF SdInv, ReadInv, ReadCommand, InRun, Same
<1> QED
  BY <1>2, <1>3, <1>4, <1>5 DEF SdInv

\* The address of a sector takes the card to it, when the driver and the card
\* agree on what an address is.
LEMMA AddressIsRight ==
  ASSUME SdTypes, call \in CallRecords, (type_ = "SDHC") = (card.kind = "SDHC")
  PROVE  SectorAt(Address) = call.start
<1>1. call.start \in Nat /\ SectorSize \in Nat \ {0}
  BY CardAssumption DEF CallRecords
<1>2. (call.start * SectorSize) \div SectorSize = call.start
  BY <1>1
<1> QED
  BY <1>2 DEF SectorAt, Address

LEMMA AskForDataKeeps == ASSUME SdInv, AskForData PROVE SdInv'
<1>1. PICK a \in Answers(ReadCommand, Address) :
        /\ card' = a[2]
        /\ \/ a[1] = "ready" /\ Goto("token") /\ StartWait
           \/ Return("ERROR_READ")
  BY DEF AskForData
<1>2. /\ call.pc = "command" /\ call \in CallRecords /\ SdTypes
      /\ call.got = << >> /\ call.op \in {"ReadSectors", "GetNumSectors"}
      /\ UNCHANGED <<type_, timeout, clock, clean>>
  BY DEF AskForData, SdInv, PhaseInv
<1>3. ReadCommand \in ReadCommands /\ (call.op = "ReadSectors" => ReadCommand # "SEND_CSD")
  BY <1>2 DEF ReadCommand, ReadCommands
<1>4. Address \in Nat
  BY <1>2, CardAssumption DEF Address, CallRecords
<1>5. /\ card' \in Cards /\ card'.kind = card.kind
      /\ card.sending = "no" /\ a[1] = "ready"
           => /\ card'.sending = ReadCommand
              /\ call.op = "ReadSectors" => card'.at = SectorAt(Address)
  BY <1>1, <1>2, <1>3, <1>4, AnswerFacts
<1>6. CASE a[1] = "ready" /\ Goto("token") /\ StartWait
  <2>1. wait' \in WaitRecords /\ WaitInv'
    BY <1>2, <1>6, StartWaitSound DEF WaitInv
  <2>2. ASSUME call.op = "ReadSectors", clean
        PROVE  /\ card'.sending = ReadCommand
               /\ card'.at = call.start + Len(call.got) /\ InRun(call)
    <3>1. card.sending = "no" /\ SectorAt(Address) = call.start
      BY <1>2, <2>2, AddressIsRight DEF SdInv, ReadInv
    <3>2. Len(call.got) = 0 /\ call.start \in Nat
      BY <1>2 DEF CallRecords
    <3> QED
      BY <1>5, <1>6, <2>2, <3>1, <3>2 DEF InRun
  <2> QED
    BY <1>2, <1>5, <1>6, <2>1, <2>2, ReadGoesOn
<1>7. CASE Return("ERROR_READ")
  BY <1>2, <1>5, <1>7, ReadGivesUp DEF Results
<1> QED
  BY <1>1, <1>6, <1>7

LEMMA WaitForDataKeeps == ASSUME SdInv, WaitForData PROVE SdInv'
<1>1. /\ call.pc = "token" /\ call \in CallRecords /\ SdTypes
      /\ (call.op # "GetNumSectors" \/ call.got = << >>)
      /\ card' \in Cards
      /\ UNCHANGED <<type_, timeout, clock, card, clean>>
  BY DEF WaitForData, SdInv, PhaseInv, SdTypes
<1>2. call.op = "ReadSectors" /\ clean =>
        /\ card'.sending = ReadCommand /\ card'.kind = card.kind
        /\ card'.at = call.start + Len(call.got) /\ InRun(call)
  BY <1>1 DEF SdInv, ReadInv
<1>3. CASE Goto("token") /\ wait' = [wait EXCEPT !.tries = (@ + 1) % MaxTries]
  <2>1. wait' \in WaitRecords /\ wait'.late = wait.late /\ wait'.now = wait.now
        /\ wait'.spent = wait.spent
    BY <1>1, <1>3, AttemptSound
  <2>2. WaitInv'
    BY <1>1, <2>1 DEF SdInv, WaitInv, Waits
  <2> QED
    BY <1>1, <1>2, <1>3, <2>1, <2>2, ReadGoesOn
<1>4. CASE Return("ERROR_READ_TIMEOUT")
  BY <1>1, <1>4, ReadGivesUp DEF Results
<1>5. CASE Goto("block") /\ wait' = NoWait
  <2>1. call'.pc = "block"
    BY <1>1, <1>5, GotoSound DEF SdPCs
  <2>2. wait' \in WaitRecords /\ WaitInv'
    BY <1>5, <2>1, NoWaitSound DEF WaitInv, Waits
  <2> QED
    BY <1>1, <1>2, <1>5, <2>2, ReadGoesOn
<1> QED
  BY <1>3, <1>4, <1>5 DEF WaitForData

\* What GetNumSectors returns is a number, for every card-specific data.
LEMMA SizeIsNumber == ASSUME NEW csd \in CsdData PROVE NumSectors(csd) \in Int
<1>1. CASE csd.ver = 0
  <2>1. /\ csd.high \in Nat /\ csd.mid \in Nat /\ csd.low \in Nat
        /\ csd.mult \in 0 .. 7 /\ csd.read_bl_len \in 9 .. 11
    BY <1>1 DEF CsdData
  <2>2. 2 ^ (csd.mult + csd.read_bl_len - 7) \in Nat
    BY <2>1, ShiftTwice
  <2> QED
    BY <1>1, <2>1, <2>2 DEF NumSectors, SizeV1
<1>2. CASE csd.ver = 1
  <2>1. csd.high \in Nat /\ csd.mid \in Nat /\ csd.low \in Nat
    BY <1>2 DEF CsdData
  <2>2. 2 ^ 22 \in Nat \ {0}
    BY SMT
  <2> QED
    BY <1>2, <2>1, <2>2 DEF NumSectors, SizeV2
<1>3. CASE csd.ver \notin {0, 1}
  BY <1>3 DEF CsdData
<1> QED
  BY <1>1, <1>2, <1>3

LEMMA ReadBlockKeeps == ASSUME SdInv, ReadBlock PROVE SdInv'
<1> DEFINE x == IF card.sending = "SEND_CSD" THEN -1 ELSE card.at
           reading == call.op = "ReadSectors"
<1>1. /\ call.pc = "block" /\ call \in CallRecords /\ SdTypes /\ card \in Cards
      /\ call.op \in {"ReadSectors", "GetNumSectors"}
      /\ (call.op = "GetNumSectors" => call.got = << >>)
      /\ (reading => Len(call.got) < Total(call))
      /\ UNCHANGED <<type_, timeout, clock, clean>>
      /\ DriverAssumption
  BY DriverAssumption DEF ReadBlock, SdInv, PhaseInv, SdTypes
<1>2. card' = NextBlock /\ card' \in Cards /\ card'.kind = card.kind
      /\ card'.csd = card.csd
  <2>1. card' = NextBlock
    BY DEF ReadBlock
  <2>2. \/ NextBlock = [card EXCEPT !.sending = card.sending, !.at = card.at + 1]
        \/ NextBlock = [card EXCEPT !.sending = "no", !.at = card.at]
    BY DEF NextBlock, Sends
  <2>3. ASSUME NEW t \in {"no"} \cup ReadCommands, NEW u \in Nat
        PROVE  LET c == [card EXCEPT !.sending = t, !.at = u] IN
               c \in Cards /\ c.kind = card.kind /\ c.csd = card.csd
    BY <1>1 DEF Cards
  <2>4. card.sending \in {"no"} \cup ReadCommands /\ card.at \in Nat
    BY <1>1 DEF Cards
  <2>5. CASE NextBlock = [card EXCEPT !.sending = card.sending, !.at = card.at + 1]
    <3>1. card.at + 1 \in Nat
      BY <2>4
    <3> QED
      BY <2>1, <2>3, <2>4, <2>5, <3>1
  <2>6. CASE NextBlock = [card EXCEPT !.sending = "no", !.at = card.at]
    BY <2>1, <2>3, <2>4, <2>6
  <2> QED
    BY <2>1, <2>2, <2>5, <2>6
<1>3. x \in Int
  BY <1>1 DEF Cards
<1>4. reading => (LastBlock <=> Len(call.got) + 1 = Total(call))
  BY <1>1, LastBlockIs
<1> DEFINE more == reading /\ ~LastBlock
           stop == reading /\ LastBlock /\ call.n # 1
           pc == IF more THEN "token" ELSE IF stop THEN "stop" ELSE "idle"
           size == IF call.op = "GetNumSectors" THEN NumSectors(card.csd) ELSE 0
           result == IF more \/ stop THEN call.result ELSE "OK"
<1>5. /\ call' = [call EXCEPT !.got = Append(call.got, x), !.pc = pc,
                               !.size = size, !.result = result]
      /\ selected' = (more \/ stop)
      /\ IF more THEN StartWait ELSE wait' = NoWait
  BY DEF ReadBlock
<1>6. size \in Int
  BY <1>1, SizeIsNumber DEF Cards
<1>7. pc \in SdPCs /\ result \in Results
  BY <1>1 DEF SdPCs, Waits, Results, CallRecords
<1>8. Append(call.got, x) \in Seq(Int)
  BY <1>1, <1>3 DEF CallRecords
<1> HIDE DEF x, pc, size, result
<1>9. /\ call' \in CallRecords
      /\ call'.op = call.op /\ call'.start = call.start /\ call'.n = call.n
      /\ call'.answer = call.answer /\ call'.got = Append(call.got, x)
      /\ call'.pc = pc /\ call'.size = size /\ call'.result = result
  BY <1>1, <1>5, <1>6, <1>7, <1>8 DEF CallRecords
<1>10. /\ Len(call'.got) = Len(call.got) + 1
       /\ InRun(call) /\ x = call.start + Len(call.got) => InRun(call')
  BY <1>1, <1>3, <1>9, BlockAppended
<1>11. wait' \in WaitRecords
       /\ (more /\ ~wait'.late => clock' = (wait'.now + wait'.spent) % Range)
  BY <1>1, <1>5, StartWaitSound, NoWaitSound
<1>12. SdTypes'
  BY <1>1, <1>2, <1>5, <1>11 DEF SdTypes
<1>13. Len(call.got) \in Nat /\ call.n \in 0 .. ByteSize - 1
       /\ ByteSize \in Nat \ {0} /\ Total(call') = Total(call)
  BY <1>1, <1>9 DEF CallRecords, DriverAssumption, Total
<1>14. PhaseInv(call')
  <2>1. CASE reading
    BY <1>1, <1>4, <1>9, <1>10, <1>13, <2>1 DEF PhaseInv, pc, Total
  <2>2. CASE ~reading
    BY <1>1, <1>9, <1>10, <1>13, <2>2 DEF PhaseInv, pc
  <2> QED
    BY <2>1, <2>2
<1>15. (Deselected /\ InitInv /\ SizeInv)'
  BY <1>1, <1>2, <1>5, <1>9 DEF Deselected, InitInv, InitFindsType, SizeInv, pc, size
<1>16. WaitInv'
  BY <1>9, <1>11 DEF WaitInv, Waits, pc
<1>17. ReadInv'
  <2> SUFFICES ASSUME reading, clean
               PROVE  /\ (type_ = "SDHC") = (card.kind = "SDHC")
                      /\ InRun(call')
                      /\ more => /\ card'.sending = ReadCommand
                                 /\ card'.at = call.start + Len(call'.got)
                      /\ ~more => Len(call'.got) = Total(call)
                      /\ ~more /\ ~stop => card'.sending = "no"
    BY <1>1, <1>2, <1>9, <1>13 DEF ReadInv, ReadCommand, pc
  <2>1. /\ (type_ = "SDHC") = (card.kind = "SDHC")
        /\ card.sending = ReadCommand /\ card.at = call.start + Len(call.got)
        /\ InRun(call)
    BY <1>1 DEF SdInv, ReadInv
  <2>2. ReadCommand = IF call.n = 1 THEN "READ_SINGLE_BLOCK"
                      ELSE "READ_MULTIPLE_BLOCK"
    BY DEF ReadCommand
  <2>3. InRun(call')
    BY <1>10, <2>1, <2>2 DEF x
  <2>4. ~more => Len(call'.got) = Total(call)
    BY <1>4, <1>10
  <2>5. call.n = 1 => LastBlock
    BY DEF LastBlock
  <2>6. more => /\ card'.sending = ReadCommand
                /\ card'.at = call.start + Len(call'.got)
    BY <1>1, <1>2, <1>10, <1>13, <2>1, <2>2, <2>5
       DEF NextBlock, Sends, Cards, CallRecords
  <2>7. ~more /\ ~stop => card'.sending = "no"
    BY <1>1, <1>2, <2>1, <2>2 DEF NextBlock, Sends, Cards
  <2> QED
    BY <2>1, <2>3, <2>4, <2>6, <2>7
<1> QED
  BY <1>12, <1>14, <1>15, <1>16, <1>17 DEF SdInv

LEMMA StopReadingKeeps == ASSUME SdInv, StopReading PROVE SdInv'
<1>1. PICK a \in Answers("STOP_TRANSMISSION", 0) :
        /\ card' = a[2]
        /\ call' = [call EXCEPT !.pc = "idle", !.result = "OK", !.answer = a[1]]
  BY DEF StopReading
<1>2. /\ call.pc = "stop" /\ call \in CallRecords /\ SdTypes
      /\ call.op = "ReadSectors" /\ call.n # 1
      /\ selected' = FALSE /\ wait' = NoWait
      /\ UNCHANGED <<type_, timeout, clock, clean>>
  BY DEF StopReading, SdInv, PhaseInv
<1>3. /\ a[1] \in CardAnswers /\ card' \in Cards /\ card'.kind = card.kind
      /\ (a[1] # "none" => card'.sending = "no")
  BY <1>1, <1>2, AnswerFacts DEF OtherCommands, ReadCommands
<1>4. /\ call' \in CallRecords
      /\ call'.pc = "idle" /\ call'.op = call.op /\ call'.n = call.n
      /\ call'.start = call.start /\ call'.got = call.got
      /\ call'.result = "OK" /\ call'.answer = a[1]
  BY <1>1, <1>2, <1>3 DEF CallRecords, SdPCs, Results
<1>5. SdTypes'
  BY <1>2, <1>3, NoWaitSound DEF SdTypes
<1>6. PhaseInv(call')
  BY <1>4 DEF SdInv, PhaseInv
<1>7. (Deselected /\ InitInv /\ SizeInv /\ WaitInv)'
  BY <1>2, <1>4 DEF Deselected, InitInv, InitFindsType, SizeInv, WaitInv, Waits
<1>8. ReadInv'
  BY <1>2, <1>3, <1>4 DEF SdInv, ReadInv, InRun, Total
<1> QED
  BY <1>5, <1>6, <1>7, <1>8 DEF SdInv

-----------------------------------------------------------------------------
(* The theorems.                                                           *)

LEMMA NextSdInv == SdInv /\ [SdNext]_sdVars => SdInv'
<1> SUFFICES ASSUME SdInv, [SdNext]_sdVars PROVE SdInv'
  OBVIOUS
<1>1. CASE ClockTick
  BY <1>1, ClockTickKeeps
<1>2. CASE CallInit
  BY <1>2, CallInitKeeps
<1>3. CASE \E start \in Starts, n \in Counts : CallReadSectors(start, n)
  BY <1>3, CallReadSectorsKeeps
<1>4. CASE CallGetNumSectors
  BY <1>4, CallGetNumSectorsKeeps
<1>5. CASE CallStep
  BY <1>5, ResetKeeps, CheckVoltageKeeps, WaitOpCondKeeps, CheckCapacityKeeps,
     AskForDataKeeps, WaitForDataKeeps, ReadBlockKeeps, StopReadingKeeps
     DEF CallStep
<1>6. CASE UNCHANGED sdVars
  <2>1. UNCHANGED <<type_, selected, timeout, clock, card, call, wait, clean>>
    BY <1>6 DEF sdVars
  <2> QED
    BY <2>1 DEF SdInv, SdTypes, PhaseInv, Deselected, InitInv, InitFindsType,
       ReadInv, ReadCommand, SizeInv, WaitInv, Cards
<1> QED
  BY <1>1, <1>2, <1>3, <1>4, <1>5, <1>6 DEF SdNext

\* The inductive invariant: where each call has come to, and the card with it.
THEOREM SdInvariance == SdSpec => []SdInv
<1> QED
  BY InitSdInv, NextSdInv, PTL DEF SdSpec

\* The sectors of GetNumSectors, from the fields of the card.
LEMMA SizeFormula ==
  ASSUME NEW csd \in CsdData
  PROVE  /\ csd.ver = 0 => NumSectors(csd) =
              (csd.high * 1024 + csd.mid * 4 + csd.low + 1)
              * 2 ^ (csd.mult + 2) * 2 ^ (csd.read_bl_len - 9)
         /\ csd.ver = 1 /\ csd.mid < 128 => NumSectors(csd) =
              csd.high * 65536 + csd.mid * 256 + csd.low + 1
<1>1. CASE csd.ver = 0
  <2> DEFINE x == csd.high * 1024 + csd.mid * 4 + csd.low + 1
             p == 2 ^ (csd.mult + 2)
             q == 2 ^ (csd.read_bl_len - 9)
  <2>1. /\ csd.high \in Nat /\ csd.mid \in Nat /\ csd.low \in Nat
        /\ csd.mult \in 0 .. 7 /\ csd.read_bl_len \in 9 .. 11
    BY <1>1 DEF CsdData
  <2>2. 2 ^ (csd.mult + csd.read_bl_len - 7) = p * q /\ p \in Nat /\ q \in Nat
    BY <2>1, ShiftTwice
  <2>3. NumSectors(csd) = x * (p * q)
    BY <1>1, <2>2 DEF NumSectors, SizeV1
  <2>4. x \in Nat
    BY <2>1
  <2> HIDE DEF x, p, q
  <2>5. x * (p * q) = x * p * q
    BY <2>2, <2>4
  <2> QED
    BY <1>1, <2>3, <2>5 DEF x, p, q
<1>2. CASE csd.ver = 1 /\ csd.mid < 128
  <2> DEFINE h == csd.high
             m == csd.mid
             l == csd.low
             y == h * 65536 + m * 256 + l + 1
  <2>1. h \in 0 .. 63 /\ m \in 0 .. 127 /\ l \in 0 .. 255
    BY <1>2 DEF CsdData
  <2>2. 2 ^ 22 = 4194304
    BY SMT
  <2>3. NumSectors(csd) = y % 2 ^ 22
    BY <1>2, <2>1, SMT DEF NumSectors, SizeV2
  <2>4. y \in Nat /\ y < 4194304
    <3> HIDE DEF h, m, l
    <3> QED
      BY <2>1, SMT
  <2> HIDE DEF y
  <2>5. NumSectors(csd) = y
    BY <2>2, <2>3, <2>4, SMT
  <2> QED
    BY <1>2, <2>5 DEF y
<1> QED
  BY <1>1, <1>2

\* The driver and the card understand each other, in every state.
THEOREM CardStaysServed == SdSpec => []CardIsServed
<1>1. SdInv => CardIsServed
  <2> SUFFICES ASSUME SdInv PROVE CardIsServed
    OBVIOUS
  <2>1. SdTypes /\ PhaseInv(call) /\ Deselected /\ InitFindsType
    BY DEF SdInv, InitInv
  <2>2. SdTypeOK
    BY <2>1 DEF SdTypeOK, SdTypes, PhaseInv, CallRecords, WaitRecords
  <2>3. ReadIsRight
    <3> SUFFICES ASSUME call.pc = "idle", call.op = "ReadSectors",
                        call.result = "OK", clean
                 PROVE  call.got = [i \in 1 .. Total(call) |-> call.start + i - 1]
      BY DEF ReadIsRight, Total
    <3>1. InRun(call) /\ Len(call.got) = Total(call)
      BY DEF SdInv, ReadInv
    <3>2. call.got \in Seq(Int)
      BY <2>1 DEF PhaseInv, CallRecords
    <3> QED
      BY <3>1, <3>2 DEF InRun
  <2>4. SilentAfterOk
    BY DEF SdInv, ReadInv, SilentAfterOk
  <2>5. SizeIsRight
    <3>1. card.csd \in CsdData
      BY <2>1 DEF SdTypes, Cards
    <3>2. call.pc = "idle" /\ call.op = "GetNumSectors" /\ call.got = <<-1>>
            => call.size = NumSectors(card.csd)
      BY DEF SdInv, SizeInv
    <3> QED
      BY <3>1, <3>2, SizeFormula, SMT DEF SizeIsRight
  <2> QED
    BY <2>1, <2>2, <2>3, <2>4, <2>5 DEF CardIsServed
<1> QED
  BY <1>1, SdInvariance, PTL

\* A wait by the clock that gives up has lasted its time-out.
THEOREM CardIsGivenItsTime == SdSpec => GivesTheCardItsTime
<1>1. SdInv /\ [SdNext]_sdVars =>
        [GivesUp /\ timeout # 0 => wait.spent >= timeout \/ wait.late]_sdVars
  <2> SUFFICES ASSUME SdInv, SdNext, GivesUp, timeout # 0, ~wait.late
               PROVE  wait.spent >= timeout
    BY DEF SdInv
  <2>1. /\ call.pc \in Waits /\ call'.pc = "idle" /\ call \in CallRecords
        /\ ~(call.pc = "token" /\ "error" \in Tokens)
        /\ wait \in WaitRecords /\ clock \in 0 .. Range - 1
        /\ timeout \in Nat /\ Range \in Nat \ {0}
    BY DriverAssumption DEF GivesUp, SdInv, SdTypes, PhaseInv
  <2>2. ~TriesLeft
    <3>1. CASE Reset
      BY <2>1, <3>1, GotoSound DEF Reset, SdPCs, Waits
    <3>2. CASE WaitOpCond
      BY <2>1, <3>2, GotoSound DEF WaitOpCond, SdPCs, Waits
    <3>3. CASE WaitForData
      BY <2>1, <3>3, GotoSound DEF WaitForData, SdPCs, Waits
    <3> QED
      BY <2>1, <3>1, <3>2, <3>3 DEF SdNext, ClockTick, CallInit, Begin,
         CallReadSectors, CallGetNumSectors, CallStep, CheckVoltage,
         CheckCapacity, AskForData, ReadBlock, StopReading, Waits
  <2>3. (clock - wait.now) % Range >= timeout
    BY <2>1, <2>2 DEF TriesLeft, WaitRecords
  <2>4. clock = (wait.now + wait.spent) % Range /\ wait.now \in Nat
        /\ wait.spent \in Nat
    BY <2>1 DEF SdInv, WaitInv, WaitRecords
  <2>5. (clock - wait.now) % Range = wait.spent % Range
    <3> DEFINE x == wait.now + wait.spent
    <3>1. x \in Int /\ clock = x % Range /\ wait.now \in Int
          /\ wait.spent = x - wait.now
      BY <2>4
    <3> HIDE DEF x
    <3> QED
      BY <2>1, <3>1, ModuloDifference
  <2>6. wait.spent % Range <= wait.spent
    BY <2>1, <2>4
  <2> QED
    BY <2>1, <2>3, <2>4, <2>5, <2>6
<1> QED
  BY <1>1, SdInvariance, PTL DEF SdSpec, GivesTheCardItsTime

-----------------------------------------------------------------------------
(* The three together: each goes its own way.                              *)

LEMMA ClockPart == Spec => TimeSpec
<1>1. Init => TimeInit
  BY DEF Init
<1>2. [Next]_allVars => [TimeNext]_timeVars
  BY DEF Next, allVars
<1> QED
  BY <1>1, <1>2, PTL DEF Spec, TimeSpec

LEMMA CardPart == Spec => SdSpec
<1>1. Init => SdInit
  BY DEF Init
<1>2. [Next]_allVars => [SdNext]_sdVars
  BY DEF Next, allVars
<1> QED
  BY <1>1, <1>2, PTL DEF Spec, SdSpec

\* Delays and time-outs last as long as they were asked to.
THEOREM TimeStaysGiven == Spec => TimeIsGiven
<1> QED
  BY ClockPart, CardPart, DelaysLast, CardIsGivenItsTime, PTL DEF TimeIsGiven

-----------------------------------------------------------------------------
(* The sessions on files.                                                  *)

\* What a FIL may hold: its mount number follows the mounts, and what has
\* not been saved waits to be flushed.
Objects == [opened : BOOLEAN, fs : BOOLEAN, id : MountIds, mode : {"r", "w"},
            flush : BOOLEAN, error : BOOLEAN, written : 0 .. MaxWrites,
            saved : 0 .. MaxWrites, mount : Mountings]
Sound(o) == /\ o \in Objects
            /\ o.id = o.mount % IdSize
            /\ o.saved # o.written => o.flush /\ o.fs
FilesInv == /\ file \in [Files -> Objects]
            /\ \A f \in Files : Sound(file[f])

Volumes == [registered : BOOLEAN, mounted : BOOLEAN, id : MountIds,
            mounts : Mountings]
Disks == [works : BOOLEAN, ready : BOOLEAN]
Dirs == [fs : BOOLEAN, id : MountIds, mount : Mountings]
VolInv == vol \in Volumes /\ vol.id = vol.mounts % IdSize
DirInv == dir \in Dirs /\ dir.id = dir.mount % IdSize

\* A retry still has a mount left, and Mkdirs has made what it has passed, but
\* for a regular file.
Doings == [pc : {"idle"}]
          \cup [pc : {"retry", "reopen"}, on : {"dir"}]
          \cup [pc : {"retry", "reopen"}, on : Files, mode : {"r", "w"}]
          \cup [pc : {"mkdirs"}, k : 1 .. Depth + 1, slashes : 0 .. Depth]
Trees == [dirs : 0 .. Depth, file : BOOLEAN]
DoingInv ==
  /\ doing \in Doings
  /\ tree \in Trees
  /\ doing.pc \in {"retry", "reopen"} => vol.mounts <= MaxMounts
  /\ doing.pc = "mkdirs" =>
       /\ doing.k <= doing.slashes + 1
       /\ doing.k <= tree.dirs + 1 \/ (tree.file /\ doing.k = tree.dirs + 2)

LastInv == last.op \in {"Sync", "Close"} /\ last.result = "OK"
             => last.on \in Files /\ file[last.on].saved = file[last.on].written

\* In a calm session the disk layer works, the volume is mounted, and the
\* object is of this mount; nothing is being mounted again.
CalmInv ==
  /\ calm \subseteq Files /\ lost \subseteq Files
  /\ calm # {} => /\ disk.works /\ disk.ready
                  /\ vol.registered /\ vol.mounted
                  /\ doing.pc \notin {"retry", "reopen"}
  /\ \A f \in calm : /\ file[f].opened /\ file[f].fs /\ ~file[f].error
                      /\ file[f].id = vol.id

FsInv == /\ VolInv /\ disk \in Disks /\ FilesInv /\ DirInv
         /\ DoingInv /\ LastInv

-----------------------------------------------------------------------------
(* FatFS.                                                                  *)

LEMMA NextId ==
  ASSUME NEW v \in Volumes, v.id = v.mounts % IdSize, v.mounts <= MaxMounts
  PROVE  /\ Mounts(v) \in Volumes
         /\ Mounts(v).id = Mounts(v).mounts % IdSize
         /\ Mounts(v).mounts = v.mounts + 1
<1>1. v.id \in 0 .. IdSize - 1 /\ v.mounts \in Nat /\ v.mounts + 1 \in Mountings
  BY BoundsAssumption DEF Volumes, MountIds, Mountings
<1>2. (v.id + 1) % IdSize \in MountIds
  BY <1>1, BoundsAssumption DEF MountIds
<1>3. (v.id + 1) % IdSize = (v.mounts + 1) % IdSize
  BY <1>1, NextRemainder, BoundsAssumption
<1>4. Mounts(v) = [v EXCEPT !.mounted = TRUE, !.id = (v.id + 1) % IdSize,
                            !.mounts = v.mounts + 1]
  BY DEF Mounts
<1> QED
  BY <1>1, <1>2, <1>3, <1>4 DEF Volumes

\* What a look-up leaves of the volume and of the disk layer.
LEMMA LookUpFacts ==
  ASSUME VolInv, disk \in Disks, vol.mounts <= MaxMounts,
         NEW l \in LookUps(vol, disk)
  PROVE  /\ l.vol \in Volumes /\ l.vol.id = l.vol.mounts % IdSize
         /\ l.vol.mounts \in {vol.mounts, vol.mounts + 1}
         /\ l.disk \in Disks
         /\ l.result \in {"OK", "NOT_FOUND", "DISK_ERROR", "DRIVE_NOT_READY",
                          "VOLUME_NOT_INITIALIZED"}
         /\ l.result \in {"DISK_ERROR", "DRIVE_NOT_READY"} => ~disk.works
<1> DEFINE c == ChkMounted(vol, disk)
<1>1. vol \in Volumes /\ vol.id = vol.mounts % IdSize
  BY DEF VolInv
<1>2. /\ c.vol \in Volumes /\ c.vol.id = c.vol.mounts % IdSize
      /\ c.vol.mounts \in {vol.mounts, vol.mounts + 1}
      /\ c.disk \in Disks
      /\ c.result \in {"OK", "DRIVE_NOT_READY", "VOLUME_NOT_INITIALIZED"}
      /\ c.result = "DRIVE_NOT_READY" => ~disk.works
      /\ c = [result |-> c.result, vol |-> c.vol, disk |-> c.disk]
  <2>1. CASE ~vol.registered
    BY <1>1, <2>1 DEF ChkMounted
  <2>2. CASE vol.registered /\ vol.mounted /\ disk.ready
    BY <1>1, <2>2 DEF ChkMounted
  <2>3. CASE vol.registered /\ ~(vol.mounted /\ disk.ready) /\ disk.works
    <3>1. c = [result |-> "OK", vol |-> Mounts(vol),
               disk |-> [disk EXCEPT !.ready = TRUE]]
      BY <2>3 DEF ChkMounted
    <3>2. [disk EXCEPT !.ready = TRUE] \in Disks
      BY DEF Disks
    <3> QED
      BY <1>1, <3>1, <3>2, NextId
  <2>4. CASE vol.registered /\ ~(vol.mounted /\ disk.ready) /\ ~disk.works
    <3>1. c = [result |-> "DRIVE_NOT_READY", vol |-> [vol EXCEPT !.mounted = FALSE],
               disk |-> [disk EXCEPT !.ready = FALSE]]
      BY <2>4 DEF ChkMounted
    <3>2. [disk EXCEPT !.ready = FALSE] \in Disks
      BY DEF Disks
    <3>3. /\ [vol EXCEPT !.mounted = FALSE] \in Volumes
          /\ [vol EXCEPT !.mounted = FALSE].id = vol.id
          /\ [vol EXCEPT !.mounted = FALSE].mounts = vol.mounts
      BY <1>1 DEF Volumes
    <3>4. /\ c.vol = [vol EXCEPT !.mounted = FALSE]
          /\ c.disk = [disk EXCEPT !.ready = FALSE]
          /\ c.result = "DRIVE_NOT_READY"
          /\ c = [result |-> c.result, vol |-> c.vol, disk |-> c.disk]
      BY <3>1
    <3> HIDE DEF c
    <3> QED
      BY <1>1, <2>4, <3>2, <3>3, <3>4
  <2> QED
    BY <2>1, <2>2, <2>3, <2>4
<1>3. CASE c.result # "OK"
  <2>1. l = c
    BY <1>3 DEF LookUps
  <2> QED
    BY <1>2, <1>3, <2>1
<1>4. CASE c.result = "OK"
  <2>1. PICK r \in IF disk.works THEN {"OK", "NOT_FOUND"} ELSE {"DISK_ERROR"} :
          l = [c EXCEPT !.result = r]
    BY <1>4 DEF LookUps
  <2>2. l.vol = c.vol /\ l.disk = c.disk /\ l.result = r
    BY <1>2, <2>1
  <2> QED
    BY <1>2, <2>1, <2>2
<1> QED
  BY <1>3, <1>4

-----------------------------------------------------------------------------
(* The objects that the calls leave.                                       *)

LEMMA NoFileSound == Sound(NoFile)
  BY BoundsAssumption DEF Sound, Objects, NoFile, MountIds, Mountings

LEMMA OpenedSound ==
  ASSUME VolInv, disk \in Disks, vol.mounts <= MaxMounts, NEW f, NEW mode \in {"r", "w"},
         NEW l \in LookUps(vol, disk)
  PROVE  Sound(Opened(f, mode, l)) /\ Opened(f, mode, l).saved = Opened(f, mode, l).written
<1>1. l.vol.id \in MountIds /\ l.vol.mounts \in Mountings
      /\ l.vol.id = l.vol.mounts % IdSize
  BY LookUpFacts DEF Volumes
<1>2. CASE l.result # "OK"
  BY <1>2, NoFileSound DEF Opened, NoFile
<1>3. CASE l.result = "OK"
  <2>1. Opened(f, mode, l) =
          [opened |-> TRUE, fs |-> TRUE, id |-> l.vol.id, mode |-> mode,
           flush |-> (mode = "w"), error |-> FALSE, written |-> 0, saved |-> 0,
           mount |-> l.vol.mounts]
    BY <1>3 DEF Opened, NoFile
  <2> QED
    BY <1>1, <2>1, BoundsAssumption DEF Sound, Objects
<1> QED
  BY <1>2, <1>3

\* f_sync and f_close: when they say OK, all has been saved.
LEMMA SyncedSound ==
  ASSUME NEW o, Sound(o)
  PROVE  /\ Sound(Synced(o)) /\ Sound(Closed(o))
         /\ SyncResult(o) = "OK" => /\ Synced(o).saved = Synced(o).written
                                    /\ Closed(o).saved = Closed(o).written
<1>1. o \in Objects /\ o.id = o.mount % IdSize
      /\ (o.saved # o.written => o.flush /\ o.fs)
  BY DEF Sound
<1>2. /\ Synced(o) \in Objects
      /\ Synced(o).id = Synced(o).mount % IdSize
      /\ Synced(o).saved # Synced(o).written => Synced(o).flush /\ Synced(o).fs
      /\ SyncResult(o) = "OK" => Synced(o).saved = Synced(o).written
  BY <1>1 DEF Synced, Objects
<1>3. CASE SyncResult(o) = "OK"
  BY <1>2, <1>3 DEF Closed, Objects, Sound
<1>4. CASE SyncResult(o) # "OK"
  BY <1>1, <1>2, <1>4 DEF Closed, Sound
<1> QED
  BY <1>2, <1>3, <1>4 DEF Sound

\* An object put in place of another.
LEMMA FilesStaySound ==
  ASSUME FilesInv, NEW f \in Files, NEW o, Sound(o),
         file' = [file EXCEPT ![f] = o]
  PROVE  FilesInv' /\ file'[f] = o
  BY DEF FilesInv, Sound

-----------------------------------------------------------------------------
(* Each call keeps the invariant.                                          *)

LEMMA InitFsInv == FsInit => FsInv
<1> SUFFICES ASSUME FsInit PROVE FsInv
  OBVIOUS
<1>1. VolInv /\ DirInv /\ disk \in Disks
  BY BoundsAssumption DEF FsInit, VolInv, DirInv, Volumes, Dirs, Disks,
     MountIds, Mountings
<1>2. FilesInv
  <2>1. NoFile \in Objects
    BY NoFileSound DEF Sound
  <2> QED
    BY <2>1, NoFileSound DEF FsInit, FilesInv
<1>3. DoingInv /\ LastInv
  BY BoundsAssumption DEF FsInit, DoingInv, Doings, Trees, LastInv
<1> QED
  BY <1>1, <1>2, <1>3 DEF FsInv

LEMMA BackgroundKeeps == ASSUME FsInv, Background PROVE FsInv'
<1>1. disk' \in Disks
  BY DEF FsInv, Background, Disks
<1> QED
  BY <1>1 DEF FsInv, Background, VolInv, FilesInv, DirInv, DoingInv, LastInv

LEMMA OpenKeeps ==
  ASSUME FsInv, NEW f \in Files, NEW mode \in {"r", "w"}, NEW retry \in BOOLEAN,
         Open(f, mode, retry)
  PROVE  FsInv'
<1>1. vol \in Volumes /\ VolInv /\ disk \in Disks /\ vol.mounts < MaxMounts
      /\ vol.mounts \in Nat /\ MaxMounts \in Nat
  BY BoundsAssumption DEF FsInv, VolInv, Open, MayMount, Volumes, Mountings
<1>2. PICK l \in LookUps(vol, disk) :
        /\ disk' = l.disk
        /\ file' = [file EXCEPT ![f] = Opened(f, mode, l)]
        /\ IF l.result = "DISK_ERROR" /\ retry
           THEN /\ vol' = [l.vol EXCEPT !.mounted = FALSE]
                /\ doing' = [pc |-> "retry", on |-> f, mode |-> mode]
                /\ UNCHANGED last
           ELSE /\ vol' = l.vol
                /\ OpenReturns(f, l.result, retry) /\ UNCHANGED doing
  BY DEF Open
<1>3. /\ l.vol \in Volumes /\ l.vol.id = l.vol.mounts % IdSize
      /\ l.vol.mounts <= MaxMounts /\ l.disk \in Disks
  BY <1>1, LookUpFacts
<1>4. Sound(Opened(f, mode, l))
      /\ Opened(f, mode, l).saved = Opened(f, mode, l).written
  BY <1>1, OpenedSound
<1>5. FilesInv' /\ file'[f] = Opened(f, mode, l)
  BY <1>2, <1>4, FilesStaySound DEF FsInv
<1>6. disk' \in Disks /\ dir' = dir /\ tree' = tree
  BY <1>2, <1>3 DEF Open
<1>7. \A g \in Files : g # f => file'[g] = file[g]
  BY <1>2 DEF FsInv, FilesInv
<1>8. CASE l.result = "DISK_ERROR" /\ retry
  <2>1. vol' = [l.vol EXCEPT !.mounted = FALSE] /\ last' = last
        /\ doing' = [pc |-> "retry", on |-> f, mode |-> mode]
    BY <1>2, <1>8
  <2>2. VolInv' /\ vol'.mounts = l.vol.mounts
    BY <1>3, <2>1 DEF VolInv, Volumes
  <2>3. DoingInv'
    BY <1>3, <1>6, <2>1, <2>2 DEF DoingInv, Doings, FsInv
  <2>4. LastInv'
    BY <1>4, <1>5, <1>7, <2>1 DEF LastInv, FsInv
  <2> QED
    BY <1>5, <1>6, <2>2, <2>3, <2>4 DEF FsInv, DirInv
<1>9. CASE ~(l.result = "DISK_ERROR" /\ retry)
  <2>1. vol' = l.vol /\ last'.op = "Open" /\ doing' = doing
    BY <1>2, <1>9 DEF OpenReturns
  <2>2. VolInv' /\ vol'.mounts <= MaxMounts
    BY <1>3, <2>1 DEF VolInv
  <2>3. DoingInv' /\ LastInv'
    BY <1>6, <2>1, <2>2 DEF DoingInv, Doings, FsInv, LastInv
  <2> QED
    BY <1>5, <1>6, <2>2, <2>3 DEF FsInv, DirInv
<1> QED
  BY <1>8, <1>9

LEMMA InitAgainKeeps == ASSUME FsInv, InitAgain \/ GiveUpInit PROVE FsInv'
<1>1. disk' \in Disks
  BY DEF FsInv, InitAgain, GiveUpInit, Disks
<1>2. doing.pc = "retry" /\ doing \in Doings
  BY DEF FsInv, DoingInv, InitAgain, GiveUpInit
<1>3. doing' = [doing EXCEPT !.pc = "reopen"] \/ doing' = doing
  BY DEF InitAgain, GiveUpInit
<1>4. doing' \in Doings /\ doing'.pc \in {"retry", "reopen"}
  <2>1. CASE doing \in [pc : {"retry", "reopen"}, on : {"dir"}]
    BY <1>2, <1>3, <2>1 DEF Doings
  <2>2. CASE doing \in [pc : {"retry", "reopen"}, on : Files, mode : {"r", "w"}]
    BY <1>2, <1>3, <2>2 DEF Doings
  <2>3. CASE doing \in [pc : {"idle"}]
    BY <1>2, <2>3
  <2>4. CASE doing \in [pc : {"mkdirs"}, k : 1 .. Depth + 1, slashes : 0 .. Depth]
    BY <1>2, <2>4
  <2> QED
    BY <1>2, <2>1, <2>2, <2>3, <2>4 DEF Doings
<1>5. UNCHANGED <<vol, file, dir, last, tree>>
  BY DEF InitAgain, GiveUpInit
<1> QED
  BY <1>1, <1>2, <1>4, <1>5 DEF FsInv, VolInv, FilesInv, DirInv, DoingInv, LastInv

\* What a look-up leaves of a directory.
LEMMA DirOpenedSound ==
  ASSUME VolInv, DirInv, disk \in Disks, vol.mounts <= MaxMounts,
         NEW l \in LookUps(vol, disk)
  PROVE  DirOpened(l) \in Dirs /\ DirOpened(l).id = DirOpened(l).mount % IdSize
<1>1. l.vol \in Volumes /\ l.vol.id = l.vol.mounts % IdSize
  BY LookUpFacts
<1>2. CASE l.result = "OK"
  BY <1>1, <1>2 DEF DirOpened, Dirs, Volumes
<1>3. CASE l.result # "OK"
  BY <1>1, <1>3 DEF DirOpened, Dirs, DirInv, VolInv, Volumes
<1> QED
  BY <1>2, <1>3

LEMMA ReOpenKeeps == ASSUME FsInv, ReOpen PROVE FsInv'
<1>1. VolInv /\ DirInv /\ disk \in Disks /\ vol.mounts <= MaxMounts
      /\ vol.mounts \in Nat /\ MaxMounts \in Nat
  BY BoundsAssumption DEF FsInv, VolInv, ReOpen, DoingInv, Volumes, Mountings
<1>2. PICK l \in LookUps(vol, disk) :
        /\ disk' = l.disk /\ vol' = l.vol
        /\ IF doing.on = "dir"
           THEN dir' = DirOpened(l) /\ UNCHANGED <<file, calm>>
           ELSE /\ file' = [file EXCEPT ![doing.on] = Opened(doing.on, doing.mode, l)]
                /\ Begins(doing.on, l.result)
                /\ UNCHANGED dir
        /\ OpenReturns(doing.on, l.result, TRUE)
  BY DEF ReOpen
<1>3. VolInv' /\ disk' \in Disks
  BY <1>1, <1>2, LookUpFacts DEF VolInv
<1>4. doing' = [pc |-> "idle"] /\ tree' = tree
  BY DEF ReOpen
<1>5. DoingInv'
  BY <1>4 DEF DoingInv, Doings, FsInv
<1>6. LastInv'
  BY <1>2 DEF LastInv, OpenReturns
<1>7. CASE doing.on = "dir"
  <2>1. dir' = DirOpened(l) /\ file' = file
    BY <1>2, <1>7
  <2> QED
    BY <1>1, <1>3, <1>5, <1>6, <2>1, DirOpenedSound DEF FsInv, DirInv, FilesInv
<1>8. CASE doing.on # "dir"
  <2>1. doing.on \in Files /\ doing.mode \in {"r", "w"}
    <3>1. doing \in Doings /\ doing.pc = "reopen"
      BY DEF FsInv, DoingInv, ReOpen
    <3>2. doing \in [pc : {"retry", "reopen"}, on : Files, mode : {"r", "w"}]
      BY <1>8, <3>1 DEF Doings
    <3> QED
      BY <3>2
  <2>2. file' = [file EXCEPT ![doing.on] = Opened(doing.on, doing.mode, l)]
        /\ dir' = dir
    BY <1>2, <1>8
  <2>3. Sound(Opened(doing.on, doing.mode, l))
    BY <1>1, <2>1, OpenedSound
  <2>4. FilesInv'
    BY <2>1, <2>2, <2>3, FilesStaySound DEF FsInv
  <2> QED
    BY <1>3, <1>5, <1>6, <2>2, <2>4 DEF FsInv, DirInv
<1> QED
  BY <1>7, <1>8

LEMMA ReadKeeps ==
  ASSUME FsInv, NEW f \in Files, NEW op \in {"Read", "Seek"}, Read(op, f)
  PROVE  FsInv'
<1>1. PICK r : /\ file' = [file EXCEPT ![f] = Marked(file[f], r)]
               /\ Returns(op, f, r)
  BY DEF Read
<1>2. Sound(Marked(file[f], r))
  BY DEF FsInv, FilesInv, Sound, Objects, Marked
<1>3. FilesInv'
  BY <1>1, <1>2, FilesStaySound DEF FsInv
<1>4. UNCHANGED <<vol, disk, dir, doing, tree>> /\ last'.op = op
  BY <1>1 DEF Read, Returns
<1> QED
  BY <1>3, <1>4 DEF FsInv, VolInv, DirInv, DoingInv, LastInv

LEMMA WriteKeeps ==
  ASSUME FsInv, NEW f \in Files, NEW op \in {"Write", "Truncate"}, Write(op, f)
  PROVE  FsInv'
<1>1. PICK r \in UseResult(file[f], "w") :
        /\ file' = [file EXCEPT ![f] =
             IF r = "OK" THEN Stored(file[f]) ELSE Marked(file[f], r)]
        /\ Returns(op, f, r)
  BY DEF Write
<1> DEFINE o == IF r = "OK" THEN Stored(file[f]) ELSE Marked(file[f], r)
<1>2. file' = [file EXCEPT ![f] = o]
  BY <1>1
<1>3. Sound(file[f]) /\ file[f].written < MaxWrites
  BY DEF FsInv, FilesInv, Write
<1>4. ASSUME r = "OK" PROVE Sound(o)
  <2>1. file[f].fs
    BY <1>4 DEF UseResult, Validate, SameMount
  <2>2. file[f].written + 1 \in 0 .. MaxWrites
    BY <1>3, BoundsAssumption DEF Sound, Objects
  <2> QED
    BY <1>3, <1>4, <2>1, <2>2 DEF Sound, Objects, Stored, Marked
<1>5. ASSUME r # "OK" PROVE Sound(o)
  BY <1>3, <1>5 DEF Sound, Objects, Stored, Marked
<1>6. FilesInv'
  <2>1. Sound(o)
    BY <1>4, <1>5
  <2> QED
    BY <1>2, <2>1, FilesStaySound DEF FsInv
<1>7. UNCHANGED <<vol, disk, dir, doing, tree>> /\ last'.op = op
  BY <1>1 DEF Write, Returns
<1> QED
  BY <1>6, <1>7 DEF FsInv, VolInv, DirInv, DoingInv, LastInv

LEMMA SyncKeeps ==
  ASSUME FsInv, NEW f \in Files, Sync(f) \/ Close(f)
  PROVE  FsInv'
<1>1. PICK o \in {Synced(file[f]), Closed(file[f])} :
        /\ file' = [file EXCEPT ![f] = o]
        /\ last' \in [op : {"Sync", "Close"}, on : {f}, result : {SyncResult(file[f])}]
  BY DEF Sync, Close, Returns
<1>2. Sound(file[f])
  BY DEF FsInv, FilesInv
<1>3. Sound(o) /\ (SyncResult(file[f]) = "OK" => o.saved = o.written)
  BY <1>1, <1>2, SyncedSound
<1>4. FilesInv' /\ file'[f] = o
  BY <1>1, <1>3, FilesStaySound DEF FsInv
<1>5. UNCHANGED <<vol, disk, dir, doing, tree>>
  BY DEF Sync, Close
<1>6. LastInv'
  BY <1>1, <1>3, <1>4 DEF LastInv
<1> QED
  BY <1>4, <1>5, <1>6 DEF FsInv, VolInv, DirInv, DoingInv

\* The calls that leave the objects alone.
LEMMA QuietCallKeeps ==
  ASSUME FsInv, \/ \E f \in Files : NotOpened(f)
                \/ ReadDir("Next") \/ ReadDir("Rewind")
  PROVE  FsInv'
<1>1. UNCHANGED <<vol, disk, file, dir, doing, tree>>
  BY DEF NotOpened, ReadDir
<1>2. last'.op \notin {"Sync", "Close"} \/ last'.result = "NOT_OPENED"
  BY DEF NotOpened, ReadDir, Returns
<1> QED
  BY <1>1, <1>2 DEF FsInv, VolInv, FilesInv, DirInv, DoingInv, LastInv

LEMMA FsMountKeeps == ASSUME FsInv, FsMount PROVE FsInv'
<1>1. VolInv' /\ vol'.mounts = vol.mounts
  BY DEF FsInv, VolInv, FsMount, Volumes
<1>2. disk' \in Disks
  BY DEF FsInv, FsMount, Disks
<1>3. UNCHANGED <<file, dir, doing, tree>> /\ last'.op = "Init"
  BY DEF FsMount, Returns
<1> QED
  BY <1>1, <1>2, <1>3 DEF FsInv, FilesInv, DirInv, DoingInv, LastInv

LEMMA OpenDirKeeps ==
  ASSUME FsInv, NEW retry \in BOOLEAN, OpenDir(retry)
  PROVE  FsInv'
<1>1. VolInv /\ DirInv /\ disk \in Disks /\ vol.mounts < MaxMounts
      /\ vol.mounts \in Nat /\ MaxMounts \in Nat
  BY BoundsAssumption DEF FsInv, VolInv, OpenDir, MayMount, Volumes, Mountings
<1>2. PICK l \in LookUps(vol, disk) :
        /\ disk' = l.disk /\ dir' = DirOpened(l)
        /\ IF l.result = "DISK_ERROR" /\ retry
           THEN /\ vol' = [l.vol EXCEPT !.mounted = FALSE]
                /\ doing' = [pc |-> "retry", on |-> "dir"]
                /\ UNCHANGED last
           ELSE /\ vol' = l.vol
                /\ OpenReturns("dir", l.result, retry) /\ UNCHANGED doing
  BY DEF OpenDir
<1>3. /\ l.vol \in Volumes /\ l.vol.id = l.vol.mounts % IdSize
      /\ l.vol.mounts <= MaxMounts /\ l.disk \in Disks
  BY <1>1, LookUpFacts
<1>4. DirInv' /\ disk' \in Disks /\ FilesInv' /\ tree' = tree /\ file' = file
  BY <1>1, <1>2, <1>3, DirOpenedSound DEF DirInv, OpenDir, FsInv, FilesInv
<1>5. CASE l.result = "DISK_ERROR" /\ retry
  <2>1. vol' = [l.vol EXCEPT !.mounted = FALSE] /\ last' = last
        /\ doing' = [pc |-> "retry", on |-> "dir"]
    BY <1>2, <1>5
  <2>2. VolInv' /\ vol'.mounts = l.vol.mounts
    BY <1>3, <2>1 DEF VolInv, Volumes
  <2>3. DoingInv' /\ LastInv'
    BY <1>3, <1>4, <2>1, <2>2 DEF DoingInv, Doings, FsInv, LastInv
  <2> QED
    BY <1>4, <2>2, <2>3 DEF FsInv
<1>6. CASE ~(l.result = "DISK_ERROR" /\ retry)
  <2>1. vol' = l.vol /\ last'.op = "Open" /\ doing' = doing
    BY <1>2, <1>6 DEF OpenReturns
  <2>2. VolInv' /\ vol'.mounts <= MaxMounts
    BY <1>3, <2>1 DEF VolInv
  <2>3. DoingInv' /\ LastInv'
    BY <1>4, <2>1, <2>2 DEF DoingInv, Doings, FsInv, LastInv
  <2> QED
    BY <1>4, <2>2, <2>3 DEF FsInv
<1> QED
  BY <1>5, <1>6

LEMMA MkdirsKeeps ==
  ASSUME FsInv, (\E n \in {Depth - 1, Depth} : CallMkdirs(n)) \/ MkdirsEnd
  PROVE  FsInv'
<1>1. UNCHANGED <<vol, disk, file, dir, tree>>
  BY DEF CallMkdirs, MkdirsEnd
<1>2. DoingInv'
  <2>1. CASE MkdirsEnd
    BY <1>1, <2>1 DEF MkdirsEnd, DoingInv, Doings, FsInv
  <2>2. ASSUME NEW n \in {Depth - 1, Depth}, CallMkdirs(n) PROVE DoingInv'
    <3>1. doing' = [pc |-> "mkdirs", k |-> 1, slashes |-> n]
      BY <2>2 DEF CallMkdirs
    <3>2. n \in 0 .. Depth /\ 1 \in 1 .. Depth + 1 /\ tree.dirs \in 0 .. Depth
      BY BoundsAssumption DEF FsInv, DoingInv, Trees
    <3> QED
      BY <1>1, <3>1, <3>2, BoundsAssumption DEF DoingInv, Doings, FsInv
  <2> QED
    BY <2>1, <2>2
<1>3. last' = last \/ last'.op = "Mkdirs"
  BY DEF CallMkdirs, MkdirsEnd, Returns
<1> QED
  BY <1>1, <1>2, <1>3 DEF FsInv, VolInv, FilesInv, DirInv, LastInv

\* A directory that Mkdirs passes has been made, now or before, unless it is
\* a regular file, behind which no directory is found.
LEMMA MkdirStepKeeps == ASSUME FsInv, MkdirStep PROVE FsInv'
<1> DEFINE Calling == [pc : {"mkdirs"}, k : 1 .. Depth + 1, slashes : 0 .. Depth]
<1>1. VolInv /\ disk \in Disks /\ vol.mounts <= MaxMounts
  BY BoundsAssumption DEF FsInv, VolInv, MkdirStep, MayMount, Volumes, Mountings
<1>2. /\ doing \in Calling /\ doing.k <= doing.slashes
      /\ tree \in Trees /\ tree.dirs \in 0 .. Depth
      /\ doing.k <= tree.dirs + 1 \/ (tree.file /\ doing.k = tree.dirs + 2)
  <2>1. doing.pc = "mkdirs" /\ doing.k <= doing.slashes
    BY DEF MkdirStep
  <2> QED
    BY <2>1 DEF FsInv, DoingInv, Doings, Trees
<1>3. PICK l \in LookUps(vol, disk) :
        /\ vol' = l.vol /\ disk' = l.disk
        /\ \E r \in MkdirResult(l, doing.k) :
             /\ tree' = IF r = "OK" THEN [dirs |-> doing.k, file |-> FALSE] ELSE tree
             /\ IF Tolerated(r)
                THEN doing' = [doing EXCEPT !.k = @ + 1] /\ UNCHANGED last
                ELSE doing' = [pc |-> "idle"] /\ Returns("Mkdirs", "none", r)
  BY DEF MkdirStep
<1>4. PICK r \in MkdirResult(l, doing.k) :
        /\ tree' = IF r = "OK" THEN [dirs |-> doing.k, file |-> FALSE] ELSE tree
        /\ IF Tolerated(r)
           THEN doing' = [doing EXCEPT !.k = @ + 1] /\ UNCHANGED last
           ELSE doing' = [pc |-> "idle"] /\ Returns("Mkdirs", "none", r)
  BY <1>3
<1>5. VolInv' /\ disk' \in Disks
  BY <1>1, <1>3, LookUpFacts DEF VolInv
<1>6. tree' \in Trees
  <2>1. CASE r = "OK"
    <3>1. doing.k \in 0 .. Depth
      BY <1>2, BoundsAssumption
    <3> QED
      BY <1>4, <2>1, <3>1 DEF Trees
  <2>2. CASE r # "OK"
    BY <1>2, <1>4, <2>2
  <2> QED
    BY <2>1, <2>2
<1>7. DoingInv'
  <2>1. CASE Tolerated(r)
    <3>1. /\ doing' \in Calling
          /\ doing'.k = doing.k + 1 /\ doing'.slashes = doing.slashes
      BY <1>2, <1>4, <2>1, BoundsAssumption
    <3>2. doing'.k <= tree'.dirs + 1 \/ (tree'.file /\ doing'.k = tree'.dirs + 2)
      <4>1. CASE r = "OK"
        <5>1. tree'.dirs = doing.k
          BY <1>4, <4>1
        <5> QED
          BY <1>2, <3>1, <5>1, BoundsAssumption
      <4>2. CASE r # "OK"
        <5>1. r = "FILE_EXISTS"
          BY <2>1, <4>2 DEF Tolerated
        <5>2. l.result # "FILE_EXISTS"
          BY <1>1, LookUpFacts
        <5>3. doing.k <= tree.dirs \/ (tree.file /\ doing.k <= tree.dirs + 1)
          BY <1>2, <1>4, <5>1, <5>2 DEF MkdirResult
        <5>4. tree' = tree
          BY <1>4, <4>2
        <5> QED
          BY <1>2, <3>1, <5>3, <5>4
      <4> QED
        BY <4>1, <4>2
    <3>3. doing'.pc = "mkdirs" /\ doing' \in Doings
      BY <3>1 DEF Doings
    <3> QED
      BY <1>2, <1>6, <3>1, <3>2, <3>3, BoundsAssumption DEF DoingInv
  <2>2. CASE ~Tolerated(r)
    BY <1>4, <1>6, <2>2 DEF DoingInv, Doings
  <2> QED
    BY <2>1, <2>2
<1>8. UNCHANGED <<file, dir>> /\ (last' = last \/ last'.op = "Mkdirs")
  BY <1>4 DEF MkdirStep, Returns
<1> QED
  BY <1>5, <1>7, <1>8 DEF FsInv, FilesInv, DirInv, LastInv

LEMMA NextFsInv == FsInv /\ [FsNext]_fsVars => FsInv'
<1> SUFFICES ASSUME FsInv, [FsNext]_fsVars PROVE FsInv'
  OBVIOUS
<1>1. CASE Background \/ FsMount
  BY <1>1, BackgroundKeeps, FsMountKeeps
<1>2. ASSUME NEW f \in Files, NEW mode \in {"r", "w"}, NEW retry \in BOOLEAN,
             Open(f, mode, retry)
      PROVE  FsInv'
  BY <1>2, OpenKeeps
<1>3. ASSUME NEW f \in Files, Read("Read", f) \/ Read("Seek", f)
      PROVE  FsInv'
  BY <1>3, ReadKeeps
<1>4. ASSUME NEW f \in Files, Write("Write", f) \/ Write("Truncate", f)
      PROVE  FsInv'
  BY <1>4, WriteKeeps
<1>5. ASSUME NEW f \in Files, Sync(f) \/ Close(f) PROVE FsInv'
  BY <1>5, SyncKeeps
<1>6. CASE (\E f \in Files : NotOpened(f)) \/ ReadDir("Next") \/ ReadDir("Rewind")
  BY <1>6, QuietCallKeeps
<1>7. ASSUME NEW retry \in BOOLEAN, OpenDir(retry) PROVE FsInv'
  BY <1>7, OpenDirKeeps
<1>8. CASE (\E n \in {Depth - 1, Depth} : CallMkdirs(n)) \/ MkdirsEnd
  BY <1>8, MkdirsKeeps
<1>9. CASE InitAgain \/ GiveUpInit \/ ReOpen \/ MkdirStep
  BY <1>9, InitAgainKeeps, ReOpenKeeps, MkdirStepKeeps
<1>10. CASE UNCHANGED fsVars
  BY <1>10 DEF fsVars, FsInv, VolInv, FilesInv, DirInv, DoingInv, LastInv
<1> QED
  BY <1>1, <1>2, <1>3, <1>4, <1>5, <1>6, <1>7, <1>8, <1>9, <1>10
     DEF FsNext, CallMade

LEMMA FsInvariance == FsSpec => []FsInv
  BY InitFsInv, NextFsInv, PTL DEF FsSpec

-----------------------------------------------------------------------------
(* Calm sessions.                                                          *)

\* While there is one, looking up a path mounts nothing and does not fail.
LEMMA CalmLookUp ==
  ASSUME disk \in Disks, CalmInv, calm # {}, NEW l \in LookUps(vol, disk)
  PROVE  /\ l.vol = vol /\ l.disk = disk
         /\ l.result \in {"OK", "NOT_FOUND"}
<1>1. ChkMounted(vol, disk) = [result |-> "OK", vol |-> vol, disk |-> disk]
  BY DEF CalmInv, ChkMounted
<1> QED
  BY <1>1 DEF LookUps, CalmInv

\* Where a path was found, the disk works and the volume is mounted.
LEMMA FoundIsMounted ==
  ASSUME vol \in Volumes, disk \in Disks, NEW l \in LookUps(vol, disk),
         l.result = "OK"
  PROVE  /\ l.disk.works /\ l.disk.ready
         /\ l.vol.registered /\ l.vol.mounted
<1> DEFINE c == ChkMounted(vol, disk)
<1>1. c = [result |-> c.result, vol |-> c.vol, disk |-> c.disk]
  BY DEF ChkMounted
<1>2. c.result = "OK"
  BY DEF LookUps
<1>3. l.vol = c.vol /\ l.disk = c.disk /\ disk.works
  <2>1. PICK r \in IF disk.works THEN {"OK", "NOT_FOUND"} ELSE {"DISK_ERROR"} :
          l = [c EXCEPT !.result = r]
    BY <1>2 DEF LookUps
  <2> HIDE DEF c
  <2> QED
    BY <1>1, <2>1
<1>4. CASE vol.registered /\ vol.mounted /\ disk.ready
  BY <1>2, <1>3, <1>4 DEF ChkMounted
<1>5. CASE vol.registered /\ ~(vol.mounted /\ disk.ready)
  <2>1. c = [result |-> "OK", vol |-> Mounts(vol), disk |-> [disk EXCEPT !.ready = TRUE]]
    BY <1>2, <1>3, <1>5 DEF ChkMounted
  <2>2. Mounts(vol).mounted /\ Mounts(vol).registered
    BY <1>5 DEF Mounts, Volumes
  <2>3. [disk EXCEPT !.ready = TRUE].works /\ [disk EXCEPT !.ready = TRUE].ready
    BY <1>3 DEF Disks
  <2>4. c.vol = Mounts(vol) /\ c.disk = [disk EXCEPT !.ready = TRUE]
    BY <2>1
  <2> QED
    BY <1>3, <2>2, <2>3, <2>4
<1>6. vol.registered
  BY <1>2 DEF ChkMounted
<1> QED
  BY <1>4, <1>5, <1>6, <1>3

\* What is kept of the other objects when one is replaced.
LEMMA CalmOthers ==
  ASSUME FilesInv, CalmInv, NEW f \in Files, NEW o, file' = [file EXCEPT ![f] = o],
         calm' \subseteq calm \cup {f},
         UNCHANGED <<vol, disk>>, lost' \subseteq Files,
         calm' # {} => /\ doing'.pc \notin {"retry", "reopen"}
                       /\ disk.works /\ disk.ready /\ vol.registered /\ vol.mounted,
         f \in calm' => o.opened /\ o.fs /\ ~o.error /\ o.id = vol.id
  PROVE  CalmInv'
<1>1. file'[f] = o /\ \A g \in Files : g # f => file'[g] = file[g]
  BY DEF FilesInv
<1> QED
  BY <1>1 DEF CalmInv

LEMMA OpenCalm ==
  ASSUME FsInv, CalmInv, NEW f \in Files, NEW mode \in {"r", "w"},
         NEW retry \in BOOLEAN, Open(f, mode, retry)
  PROVE  /\ CalmInv'
         /\ calm # {} => \/ last' = last
                         \/ last'.on = f /\ last'.result \in {"OK", "NOT_FOUND"}
<1>1. vol \in Volumes /\ disk \in Disks /\ FilesInv /\ doing.pc = "idle"
  BY DEF FsInv, VolInv, Open, Idle
<1>2. PICK l \in LookUps(vol, disk) :
        /\ disk' = l.disk
        /\ file' = [file EXCEPT ![f] = Opened(f, mode, l)]
        /\ calm' = IF l.result = "OK" THEN calm \cup {f} ELSE calm \ {f}
        /\ IF l.result = "DISK_ERROR" /\ retry
           THEN /\ vol' = [l.vol EXCEPT !.mounted = FALSE]
                /\ doing' = [pc |-> "retry", on |-> f, mode |-> mode]
                /\ UNCHANGED last
           ELSE /\ vol' = l.vol
                /\ OpenReturns(f, l.result, retry) /\ UNCHANGED doing
  BY DEF Open, Begins
<1>3. lost' \subseteq Files /\ calm \subseteq Files
  BY DEF CalmInv, Open, Ends
<1>4. l.result = "OK" =>
        LET o == Opened(f, mode, l)
        IN  o.opened /\ o.fs /\ ~o.error /\ o.id = l.vol.id
  BY DEF Opened, NoFile
<1>5. CASE calm # {}
  <2>1. l.vol = vol /\ l.disk = disk /\ l.result \in {"OK", "NOT_FOUND"}
    BY <1>1, <1>5, CalmLookUp
  <2>2. UNCHANGED <<vol, disk, doing>> /\ last'.on = f /\ last'.result = l.result
    BY <1>2, <2>1 DEF OpenReturns
  <2>3. calm' \subseteq calm \cup {f} /\ (f \in calm' => l.result = "OK")
    BY <1>2
  <2>4. CalmInv'
    BY <1>1, <1>2, <1>3, <1>4, <1>5, <2>1, <2>2, <2>3, CalmOthers DEF CalmInv
  <2> QED
    BY <2>1, <2>2, <2>4
<1>6. CASE calm = {} /\ l.result = "OK"
  <2>1. l.disk.works /\ l.disk.ready /\ l.vol.registered /\ l.vol.mounted
    BY <1>1, <1>6, FoundIsMounted
  <2>2. vol' = l.vol /\ disk' = l.disk /\ doing' = doing /\ calm' = {f}
    BY <1>2, <1>6
  <2>3. file'[f] = Opened(f, mode, l)
    BY <1>1, <1>2 DEF FilesInv
  <2> QED
    BY <1>1, <1>3, <1>4, <1>6, <2>1, <2>2, <2>3 DEF CalmInv
<1>7. CASE calm = {} /\ l.result # "OK"
  BY <1>2, <1>3, <1>7 DEF CalmInv
<1> QED
  BY <1>5, <1>6, <1>7

LEMMA ReOpenCalm == ASSUME FsInv, CalmInv, ReOpen PROVE CalmInv'
<1>1. vol \in Volumes /\ disk \in Disks /\ FilesInv /\ calm = {}
  BY DEF FsInv, VolInv, CalmInv, ReOpen
<1>2. PICK l \in LookUps(vol, disk) :
        /\ disk' = l.disk /\ vol' = l.vol
        /\ IF doing.on = "dir"
           THEN dir' = DirOpened(l) /\ UNCHANGED <<file, calm>>
           ELSE /\ file' = [file EXCEPT ![doing.on] = Opened(doing.on, doing.mode, l)]
                /\ Begins(doing.on, l.result)
                /\ UNCHANGED dir
  BY DEF ReOpen
<1>3. lost' = lost /\ lost \subseteq Files /\ doing'.pc = "idle"
  BY DEF ReOpen, CalmInv
<1>4. CASE doing.on = "dir"
  BY <1>1, <1>2, <1>3, <1>4 DEF CalmInv
<1>5. CASE doing.on # "dir"
  <2>1. doing.on \in Files
    <3>1. doing \in Doings /\ doing.pc = "reopen"
      BY DEF FsInv, DoingInv, ReOpen
    <3> QED
      BY <1>5, <3>1 DEF Doings
  <2>2. /\ file'[doing.on] = Opened(doing.on, doing.mode, l)
        /\ calm' = IF l.result = "OK" THEN {doing.on} ELSE {}
    BY <1>1, <1>2, <1>5, <2>1 DEF FilesInv, Begins
  <2>3. CASE l.result = "OK"
    <3>1. l.disk.works /\ l.disk.ready /\ l.vol.registered /\ l.vol.mounted
      BY <1>1, <2>3, FoundIsMounted
    <3>2. LET o == Opened(doing.on, doing.mode, l)
          IN  o.opened /\ o.fs /\ ~o.error /\ o.id = l.vol.id
      BY <2>3 DEF Opened, NoFile
    <3> QED
      BY <1>2, <1>3, <2>1, <2>2, <2>3, <3>1, <3>2 DEF CalmInv
  <2>4. CASE l.result # "OK"
    BY <1>3, <2>2, <2>4 DEF CalmInv
  <2> QED
    BY <2>3, <2>4
<1> QED
  BY <1>4, <1>5

\* What a calm session's calls find.
LEMMA CalmObject ==
  ASSUME FsInv, CalmInv, NEW f \in calm
  PROVE  /\ Validate(file[f]) = "OK" /\ SyncResult(file[f]) = "OK"
         /\ \A mode : UseResult(file[f], mode) \subseteq {"OK", "ACCESS_DENIED"}
         /\ file[f].opened
<1>1. Validate(file[f]) = "OK" /\ disk.works /\ ~file[f].error /\ file[f].opened
  BY DEF CalmInv, Validate, SameMount
<1> QED
  BY <1>1 DEF SyncResult, UseResult

\* The calls on an open file.
LEMMA UseCalm ==
  ASSUME FsInv, CalmInv, NEW f \in Files,
         \/ Read("Read", f) \/ Read("Seek", f)
         \/ Write("Write", f) \/ Write("Truncate", f) \/ Sync(f) \/ Close(f)
  PROVE  CalmInv'
<1>1. /\ UNCHANGED <<vol, disk, doing, lost>>
      /\ calm' = calm \/ (Close(f) /\ calm' = calm \ {f})
  BY DEF Read, Write, Sync, Close, sessions
<1>2. PICK o : /\ file' = [file EXCEPT ![f] = o]
               /\ \/ \E r \in {"OK", "ACCESS_DENIED"} : o = Marked(file[f], r)
                  \/ o = Stored(file[f]) \/ o = Synced(file[f])
                  \/ f \notin calm'
  <2>1. CASE f \notin calm \/ Close(f)
    <3>1. \E o : file' = [file EXCEPT ![f] = o]
      BY DEF Read, Write, Sync, Close
    <3>2. f \notin calm'
      BY <1>1, <2>1 DEF Close
    <3> QED
      BY <3>1, <3>2
  <2>2. CASE f \in calm /\ ~Close(f)
    <3>1. \A mode : UseResult(file[f], mode) \subseteq {"OK", "ACCESS_DENIED"}
      BY <2>2, CalmObject
    <3>2. CASE Read("Read", f) \/ Read("Seek", f)
      <4>1. PICK mode : \E r \in UseResult(file[f], mode) :
                          file' = [file EXCEPT ![f] = Marked(file[f], r)]
        BY <3>2 DEF Read
      <4> QED
        BY <3>1, <4>1
    <3>3. CASE Write("Write", f) \/ Write("Truncate", f)
      <4>1. PICK r \in UseResult(file[f], "w") :
              file' = [file EXCEPT ![f] =
                         IF r = "OK" THEN Stored(file[f]) ELSE Marked(file[f], r)]
        BY <3>3 DEF Write
      <4>2. r \in {"OK", "ACCESS_DENIED"}
        BY <3>1, <4>1
      <4> QED
        BY <4>1, <4>2
    <3>4. CASE Sync(f)
      BY <3>4 DEF Sync
    <3> QED
      BY <2>2, <3>2, <3>3, <3>4
  <2> QED
    BY <2>1, <2>2
<1>3. file[f] \in Objects /\ FilesInv
  BY DEF FsInv, FilesInv
<1>4. f \in calm' => o.opened /\ o.fs /\ ~o.error /\ o.id = vol.id
  <2> SUFFICES ASSUME f \in calm' PROVE o.opened /\ o.fs /\ ~o.error /\ o.id = vol.id
    OBVIOUS
  <2>1. file[f].opened /\ file[f].fs /\ ~file[f].error /\ file[f].id = vol.id
    BY <1>1 DEF CalmInv
  <2> QED
    BY <1>2, <1>3, <2>1 DEF Marked, Stored, Synced, Objects
<1> QED
  BY <1>1, <1>2, <1>3, <1>4, CalmOthers DEF CalmInv

\* The calls that look a path up for something else.
LEMMA ElseCalm ==
  ASSUME FsInv, CalmInv, (\E retry \in BOOLEAN : OpenDir(retry)) \/ MkdirStep
  PROVE  CalmInv'
<1>1. disk \in Disks /\ UNCHANGED <<file, calm, lost>>
  BY DEF FsInv, OpenDir, MkdirStep, sessions
<1>2. CASE calm = {}
  BY <1>1, <1>2 DEF CalmInv
<1>3. CASE calm # {}
  <2>1. \A l \in LookUps(vol, disk) :
          l.vol = vol /\ l.disk = disk /\ l.result \in {"OK", "NOT_FOUND"}
    BY <1>1, <1>3, CalmLookUp
  <2>2. CASE \E retry \in BOOLEAN : OpenDir(retry)
    <3>1. UNCHANGED <<vol, disk, doing>>
      BY <2>1, <2>2 DEF OpenDir
    <3> QED
      BY <1>1, <3>1 DEF CalmInv
  <2>3. CASE MkdirStep
    <3>1. UNCHANGED <<vol, disk>> /\ doing'.pc \in {"mkdirs", "idle"}
      <4>1. UNCHANGED <<vol, disk>>
        BY <2>1, <2>3 DEF MkdirStep
      <4>2. doing \in [pc : {"mkdirs"}, k : 1 .. Depth + 1, slashes : 0 .. Depth]
        BY <2>3 DEF MkdirStep, FsInv, DoingInv, Doings
      <4>3. doing' = [doing EXCEPT !.k = @ + 1] \/ doing' = [pc |-> "idle"]
        BY <2>3 DEF MkdirStep
      <4> QED
        BY <4>1, <4>2, <4>3
    <3> QED
      BY <1>1, <1>3, <3>1 DEF CalmInv
  <2> QED
    BY <2>2, <2>3
<1> QED
  BY <1>2, <1>3

LEMMA NextCalm == ASSUME FsInv, CalmInv, [FsNext]_fsVars PROVE CalmInv'
<1>1. CASE Background \/ FsMount
  BY <1>1 DEF Background, FsMount, CalmInv
<1>2. ASSUME NEW f \in Files, NEW mode \in {"r", "w"}, NEW retry \in BOOLEAN,
             Open(f, mode, retry)
      PROVE  CalmInv'
  BY <1>2, OpenCalm
<1>3. ASSUME NEW f \in Files,
             \/ Read("Read", f) \/ Read("Seek", f)
             \/ Write("Write", f) \/ Write("Truncate", f) \/ Sync(f) \/ Close(f)
      PROVE  CalmInv'
  BY <1>3, UseCalm
<1>4. CASE (\E f \in Files : NotOpened(f)) \/ ReadDir("Next") \/ ReadDir("Rewind")
  BY <1>4 DEF NotOpened, ReadDir, sessions, CalmInv
<1>5. CASE (\E retry \in BOOLEAN : OpenDir(retry)) \/ MkdirStep
  BY <1>5, ElseCalm
<1>6. CASE (\E n \in {Depth - 1, Depth} : CallMkdirs(n)) \/ MkdirsEnd
  BY <1>6 DEF CallMkdirs, MkdirsEnd, sessions, CalmInv
<1>7. CASE InitAgain \/ GiveUpInit
  BY <1>7 DEF InitAgain, GiveUpInit, sessions, CalmInv
<1>8. CASE ReOpen
  BY <1>8, ReOpenCalm
<1>9. CASE UNCHANGED fsVars
  BY <1>9 DEF fsVars, sessions, CalmInv
<1> QED
  BY <1>1, <1>2, <1>3, <1>4, <1>5, <1>6, <1>7, <1>8, <1>9 DEF FsNext, CallMade

LEMMA CalmInvariance == FsSpec => [](FsInv /\ CalmInv)
<1>1. FsInit => CalmInv
  BY DEF FsInit, CalmInv
<1> QED
  BY <1>1, InitFsInv, NextFsInv, NextCalm, PTL DEF FsSpec

-----------------------------------------------------------------------------
\* Whatever is opened, mounted or retried, the objects of the files are sound:
\* what Sync or Close says is saved is saved, and what is not can still be
\* saved while its volume is mounted.  What an Open drops is another matter:
\* see CalmSessions, below.
THEOREM FilesStayInOrder == FsSpec => []FilesSound
<1>1. FsInv /\ CalmInv => FilesSound
  <2> SUFFICES ASSUME FsInv, CalmInv PROVE FilesSound
    OBVIOUS
  <2>1. FsTypeOK
    BY DEF FsInv, VolInv, FilesInv, DirInv, DoingInv, CalmInv, FsTypeOK, Volumes,
       Disks, Objects, Dirs, Doings, Trees
  <2>2. SavedWhenTold
    BY DEF FsInv, LastInv, SavedWhenTold
  <2>3. UnsavedIsPending
    BY DEF FsInv, VolInv, FilesInv, Sound, UnsavedIsPending, SameMount
  <2> QED
    BY <2>1, <2>2, <2>3 DEF FilesSound
<1> QED
  BY <1>1, CalmInvariance, PTL

-----------------------------------------------------------------------------
(* What the calls answer.                                                  *)

\* No call fails in a calm session, and Open saves what it leaves.
LEMMA CalmIsKept ==
  ASSUME FsInv, CalmInv, FsNext, NEW f \in calm
  PROVE  /\ last' # last /\ last'.on = f =>
              last'.result \notin {"DISK_ERROR", "EXCEPTION", "DRIVE_NOT_READY",
                                  "INVALID_OBJECT"}
         /\ f \in lost' => f \in lost
<1>1. /\ Validate(file[f]) = "OK" /\ SyncResult(file[f]) = "OK"
      /\ \A mode : UseResult(file[f], mode) \subseteq {"OK", "ACCESS_DENIED"}
      /\ file[f].opened /\ f \in Files /\ f # "none" /\ f # "dir"
      /\ doing.pc \notin {"retry", "reopen"}
  BY CalmObject, NamesAssumption DEF CalmInv
<1>2. CASE Background \/ (\E n \in {Depth - 1, Depth} : CallMkdirs(n))
  BY <1>2 DEF Background, CallMkdirs, sessions
<1>3. CASE FsMount \/ MkdirStep \/ MkdirsEnd
  BY <1>1, <1>3 DEF FsMount, MkdirStep, MkdirsEnd, Returns, sessions
<1>4. CASE (\E retry \in BOOLEAN : OpenDir(retry)) \/ ReadDir("Next") \/ ReadDir("Rewind")
  BY <1>1, <1>4 DEF OpenDir, ReadDir, Returns, OpenReturns, sessions
<1>5. ~(InitAgain \/ GiveUpInit \/ ReOpen)
  BY <1>1 DEF InitAgain, GiveUpInit, ReOpen
<1>6. ASSUME NEW g \in Files,
             \/ Read("Read", g) \/ Read("Seek", g)
             \/ Write("Write", g) \/ Write("Truncate", g)
             \/ Sync(g) \/ Close(g) \/ NotOpened(g)
      PROVE  /\ last'.on = f => last'.result \in {"OK", "ACCESS_DENIED", "NOT_OPENED"}
             /\ lost' = lost
  <2>1. last'.on = g /\ lost' = lost
    BY <1>6 DEF Read, Write, Sync, Close, NotOpened, Returns, sessions
  <2>2. ASSUME g = f PROVE last'.result \in {"OK", "ACCESS_DENIED", "NOT_OPENED"}
    <3>1. CASE Read("Read", f) \/ Read("Seek", f) \/ Write("Write", f)
               \/ Write("Truncate", f)
      <4>1. PICK mode : last'.result \in UseResult(file[f], mode)
        BY <3>1 DEF Read, Write, Returns
      <4> QED
        BY <1>1, <4>1
    <3>2. CASE Sync(f) \/ Close(f) \/ NotOpened(f)
      BY <1>1, <3>2 DEF Sync, Close, NotOpened, Returns
    <3> QED
      BY <1>6, <2>2, <3>1, <3>2
  <2> QED
    BY <2>1, <2>2
<1>7. ASSUME NEW g \in Files, NEW mode \in {"r", "w"}, NEW retry \in BOOLEAN,
             Open(g, mode, retry)
      PROVE  /\ last' # last => last'.result \in {"OK", "NOT_FOUND"}
             /\ f \in lost' => f \in lost
  <2>1. last' # last => last'.result \in {"OK", "NOT_FOUND"}
    BY <1>7, OpenCalm
  <2>2. Ends(g)
    BY <1>7 DEF Open
  <2>3. CASE g # f
    BY <2>1, <2>2, <2>3 DEF Ends
  <2>4. CASE g = f
    <3>1. ClosedFirst(file[f]) = Closed(file[f])
      BY <1>1 DEF ClosedFirst
    <3>2. Closed(file[f]).saved = Closed(file[f]).written
      BY <1>1, SyncedSound DEF FsInv, FilesInv
    <3> QED
      BY <2>1, <2>2, <2>4, <3>1, <3>2 DEF Ends
  <2> QED
    BY <2>1, <2>3, <2>4
<1> QED
  BY <1>2, <1>3, <1>4, <1>5, <1>6, <1>7 DEF FsNext, CallMade

\* An Open with a time-out fails only where the disk does.
LEMMA RetryIsMade ==
  ASSUME FsInv, FsNext, last' # last, last'.op = "Open", last'.retry
  PROVE  /\ last'.result \in {"DISK_ERROR", "DRIVE_NOT_READY"} => ~disk.works
         /\ last'.result = "DISK_ERROR" => doing.pc = "reopen"
<1>1. CASE ReOpen
  <2>1. VolInv /\ disk \in Disks /\ vol.mounts <= MaxMounts
    BY <1>1 DEF FsInv, DoingInv, ReOpen
  <2> QED
    BY <1>1, <2>1, LookUpFacts DEF ReOpen, OpenReturns
<1>2. ASSUME NEW on, NEW retry, NEW l \in LookUps(vol, disk), MayMount,
             IF l.result = "DISK_ERROR" /\ retry
             THEN UNCHANGED last ELSE OpenReturns(on, l.result, retry)
      PROVE  /\ last'.result \in {"DISK_ERROR", "DRIVE_NOT_READY"} => ~disk.works
             /\ last'.result # "DISK_ERROR"
  <2>1. VolInv /\ disk \in Disks /\ vol.mounts <= MaxMounts
    BY <1>2, BoundsAssumption DEF FsInv, VolInv, MayMount, Volumes, Mountings
  <2>2. last' = [op |-> "Open", on |-> on, result |-> l.result, retry |-> retry]
        /\ l.result # "DISK_ERROR"
    BY <1>2 DEF OpenReturns
  <2>3. l.result = "DRIVE_NOT_READY" => ~disk.works
    BY <2>1, LookUpFacts
  <2> QED
    BY <2>2, <2>3
<1>3. ASSUME NEW f \in Files, NEW mode \in {"r", "w"}, NEW retry \in BOOLEAN,
             Open(f, mode, retry)
      PROVE  /\ last'.result \in {"DISK_ERROR", "DRIVE_NOT_READY"} => ~disk.works
             /\ last'.result # "DISK_ERROR"
  <2>1. /\ MayMount
        /\ \E l \in LookUps(vol, disk) :
             IF l.result = "DISK_ERROR" /\ retry
             THEN UNCHANGED last ELSE OpenReturns(f, l.result, retry)
    BY <1>3 DEF Open
  <2> QED
    BY <1>2, <2>1
<1>4. ASSUME NEW retry \in BOOLEAN, OpenDir(retry)
      PROVE  /\ last'.result \in {"DISK_ERROR", "DRIVE_NOT_READY"} => ~disk.works
             /\ last'.result # "DISK_ERROR"
  <2>1. /\ MayMount
        /\ \E l \in LookUps(vol, disk) :
             IF l.result = "DISK_ERROR" /\ retry
             THEN UNCHANGED last ELSE OpenReturns("dir", l.result, retry)
    BY <1>4 DEF OpenDir
  <2> QED
    BY <1>2, <2>1
<1>5. CASE Background \/ FsMount \/ (\E n \in {Depth - 1, Depth} : CallMkdirs(n))
           \/ InitAgain \/ GiveUpInit \/ MkdirStep \/ MkdirsEnd
           \/ ReadDir("Next") \/ ReadDir("Rewind")
  BY <1>5 DEF Background, FsMount, CallMkdirs, InitAgain, GiveUpInit, MkdirStep,
     MkdirsEnd, ReadDir, Returns
<1>6. ASSUME NEW g \in Files,
             \/ Read("Read", g) \/ Read("Seek", g)
             \/ Write("Write", g) \/ Write("Truncate", g)
             \/ Sync(g) \/ Close(g) \/ NotOpened(g)
      PROVE  FALSE
  BY <1>6 DEF Read, Write, Sync, Close, NotOpened, Returns
<1> QED
  BY <1>1, <1>3, <1>4, <1>5, <1>6 DEF FsNext, CallMade

\* Mkdirs ends well only when it has passed the last slash.
LEMMA MkdirsIsHonest ==
  ASSUME FsInv, FsNext, doing.pc = "mkdirs", doing'.pc = "idle", last'.result = "OK"
  PROVE  \/ tree.dirs >= doing.slashes
         \/ tree.dirs = doing.slashes - 1 /\ tree.file
<1>1. MkdirStep \/ MkdirsEnd
  BY DEF FsNext, CallMade, Background, FsMount, Open, OpenDir, Read, Write,
     Sync, Close, NotOpened, ReadDir, CallMkdirs, InitAgain, GiveUpInit,
     ReOpen, Idle, OpenedOnly
<1>2. /\ doing \in [pc : {"mkdirs"}, k : 1 .. Depth + 1, slashes : 0 .. Depth]
      /\ doing.k <= doing.slashes + 1 /\ tree.dirs \in 0 .. Depth
      /\ doing.k <= tree.dirs + 1 \/ (tree.file /\ doing.k = tree.dirs + 2)
  BY DEF FsInv, DoingInv, Doings, Trees
<1>3. CASE MkdirStep
  <2>1. PICK r : IF Tolerated(r)
                 THEN doing' = [doing EXCEPT !.k = @ + 1] /\ UNCHANGED last
                 ELSE doing' = [pc |-> "idle"] /\ Returns("Mkdirs", "none", r)
    BY <1>3 DEF MkdirStep
  <2>2. CASE Tolerated(r)
    BY <1>2, <2>1, <2>2
  <2>3. CASE ~Tolerated(r)
    BY <2>1, <2>3 DEF Tolerated, Returns
  <2> QED
    BY <2>2, <2>3
<1>4. CASE MkdirsEnd
  BY <1>2, <1>4, BoundsAssumption DEF MkdirsEnd
<1> QED
  BY <1>1, <1>3, <1>4

\* Sessions in which the disk layer stays up go well and lose nothing, an
\* Open with a time-out tries twice, and Mkdirs has passed what it was asked
\* to make.
THEOREM AnswersStayTrue == FsSpec => AnswersAreTrue
<1>1. FsInv /\ CalmInv /\ [FsNext]_fsVars =>
        /\ [\A f \in calm :
               /\ last' # last /\ last'.on = f =>
                    last'.result \notin {"DISK_ERROR", "EXCEPTION",
                                        "DRIVE_NOT_READY", "INVALID_OBJECT"}
               /\ f \in lost' => f \in lost]_fsVars
        /\ [last' # last /\ last'.op = "Open" /\ last'.retry =>
              /\ last'.result \in {"DISK_ERROR", "DRIVE_NOT_READY"} => ~disk.works
              /\ last'.result = "DISK_ERROR" => doing.pc = "reopen"]_fsVars
        /\ [doing.pc = "mkdirs" /\ doing'.pc = "idle" /\ last'.result = "OK" =>
              \/ tree.dirs >= doing.slashes
              \/ tree.dirs = doing.slashes - 1 /\ tree.file]_fsVars
  BY CalmIsKept, RetryIsMade, MkdirsIsHonest
<1> QED
  BY <1>1, CalmInvariance, PTL DEF FsSpec, AnswersAreTrue, CalmSessions,
     RetriedAfterInit, MkdirsMakesAll
=============================================================================
