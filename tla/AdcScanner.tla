----------------------------- MODULE AdcScanner -----------------------------
(***************************************************************************)
(* The scan of several potentiometers on one channel of the converter      *)
(* (devices/adc_scanner.h over io/adc.h).  Read runs in a handler; the     *)
(* program calls Lock, which stores the thresholds one after the other,    *)
(* each as two bytes: Read may come between any two of these stores.       *)
(***************************************************************************)
EXTENDS Integers

CONSTANTS Inputs,      \* num_inputs (first_input is 0)
          AdcByte,     \* 256
          Threshold,   \* 128: how far a knob moves before it is heard
          LockLevels,  \* thresholds the program locks with
          Readings     \* signed results of the converter

\* There is an input, and a dead band; thresholds are not negative.
ASSUME ScanAssumption ==
  /\ Inputs \in Nat \ {0} /\ AdcByte \in Nat \ {0} /\ Threshold \in Nat \ {0}
  /\ LockLevels \subseteq Nat /\ Readings \subseteq Int

VARIABLES scan_cycle_, value_, thresholds_,
          channel,     \* external: the channel of the converter
          locking,     \* the program in Lock
          heard        \* history, for each input

adcVars == <<scan_cycle_, value_, thresholds_, channel, locking, heard>>

Pots == 0 .. Inputs - 1
Unknown == -1

\* ADC::StartConversion.  INTFLAGS is left alone.
Started(pin) == [channel EXCEPT !.pin = pin, !.busy = TRUE]

\* ADCScanner::Init, and the Lock it ends with.
AdcInit ==
  /\ scan_cycle_ = 0
  /\ channel = [pin |-> 0, busy |-> TRUE, flag |-> FALSE, result |-> 0,
                origin |-> 0]
  /\ value_ = [i \in Pots |-> 0]
  /\ thresholds_ = [i \in Pots |-> Threshold]
  /\ locking = [pc |-> "idle", i |-> 0, level |-> Threshold]
  /\ heard = [from |-> [i \in Pots |-> i],          \* the pin value_ is from
              latest |-> Inputs - 1,                \* the input read last
              level |-> [i \in Pots |-> Threshold], \* what should be in force
              last |-> [i \in Pots |-> Unknown],    \* last reading under it
              at |-> [i \in Pots |-> Unknown]]      \* value when locked

\* External: a conversion ends, of the pin that was selected.
ConversionEnds ==
  /\ channel.busy
  /\ \E r \in Readings :
       channel' = [channel EXCEPT !.busy = FALSE, !.flag = TRUE, !.result = r,
                                  !.origin = channel.pin]
  /\ UNCHANGED <<scan_cycle_, value_, thresholds_, locking, heard>>

Clipped(r) == IF r < 0 THEN 0 ELSE r
Distance(x, y) == IF x < y THEN y - x ELSE x - y

NextPot == (scan_cycle_ + 1) % Inputs

\* What Read should do with reading v of input i, whatever thresholds_ says.
HeardAfter(i, v) ==
  LET level == heard.level[i]
      moved == level # Unknown /\ Distance(value_[i], v) >= level
      torn == locking.pc = "high" /\ locking.i = i
  IN [heard EXCEPT !.from[i] = IF value_'[i] = value_[i] THEN @
                               ELSE channel.origin,
                   !.latest = i,
                   !.last[i] = IF torn THEN Unknown ELSE v,
                   !.level[i] = IF torn THEN Unknown
                                ELSE IF moved THEN Threshold ELSE @,
                   !.at[i] = IF torn \/ moved THEN Unknown ELSE @]

\* ADC::Read has waited for the flag and cleared it.
Scan(exceeds(_, _), nextPin) ==
  LET i == scan_cycle_  v == Clipped(channel.result)
      moved == exceeds(Distance(value_[i], v), thresholds_[i])
  IN /\ channel.flag
     /\ thresholds_' = [thresholds_ EXCEPT ![i] = IF moved THEN Threshold ELSE @]
     /\ value_' = [value_ EXCEPT ![i] = IF moved THEN v ELSE @]
     /\ scan_cycle_' = NextPot
     /\ channel' = [Started(nextPin) EXCEPT !.flag = FALSE]
     /\ heard' = HeardAfter(i, v)
     /\ UNCHANGED locking

AtLeast(d, t) == d >= t
Beyond(d, t) == d > t
ScanStrict == Scan(Beyond, NextPot)                 \* faulty
ScanSamePin == Scan(AtLeast, scan_cycle_)           \* faulty
ScannerRead == Scan(AtLeast, NextPot)

-----------------------------------------------------------------------------
(* Lock(level), called by the program.                                     *)

LockCall ==
  /\ locking.pc = "idle"
  /\ \E level \in LockLevels : locking' = [pc |-> "low", i |-> 0, level |-> level]
  /\ UNCHANGED <<scan_cycle_, value_, thresholds_, channel, heard>>

High(t) == t \div AdcByte
Low(t) == t % AdcByte

LockLow ==                         \* the low byte of thresholds_[i]
  /\ locking.pc = "low"
  /\ locking' = [locking EXCEPT !.pc = "high"]
  /\ thresholds_' = [thresholds_ EXCEPT ![locking.i] =
                       High(@) * AdcByte + Low(locking.level)]
  /\ heard' = [heard EXCEPT !.level[locking.i] = locking.level,
                            !.last[locking.i] = Unknown,
                            !.at[locking.i] = value_[locking.i]]
  /\ UNCHANGED <<scan_cycle_, value_, channel>>

Locked(n) ==
  /\ locking.pc = "high"
  /\ thresholds_' = [thresholds_ EXCEPT ![locking.i] =
                       High(locking.level) * AdcByte + Low(@)]
  /\ locking' = IF locking.i + 1 < n
                THEN [locking EXCEPT !.pc = "low", !.i = @ + 1]
                ELSE [pc |-> "idle", i |-> 0, level |-> Threshold]
  /\ UNCHANGED <<scan_cycle_, value_, channel, heard>>
LockHigh == Locked(Inputs)

AdcNext == ConversionEnds \/ ScannerRead \/ LockCall \/ LockLow \/ LockHigh

AdcSpec == AdcInit /\ [][AdcNext]_adcVars

\* index(): the input whose value is the freshest.
Index == IF scan_cycle_ = 0 THEN Inputs - 1 ELSE scan_cycle_ - 1

-----------------------------------------------------------------------------
(* Properties.                                                             *)

\* What is stored for an input was measured on its pin, although the pin is
\* selected by one Read and the result stored by the next; and index() is
\* the input that was read last.
AdcInStep == /\ \A i \in Pots : heard.from[i] = i
             /\ Index = heard.latest

\* After Lock(level), an input keeps its value until a reading is level away
\* from it; from then on the value is within the dead band of the last
\* reading.  Excepted is an input that Read has met between the two bytes of
\* its threshold, until it is locked again.
LockHolds == \A i \in Pots :
  heard.level[i] # Unknown =>
    /\ heard.at[i] # Unknown => value_[i] = heard.at[i]
    /\ heard.last[i] # Unknown => Distance(value_[i], heard.last[i]) < heard.level[i]

\* The two together: what the scanner says of a pot is about that pot, and
\* follows its thresholds.
PotsAreTrue == AdcInStep /\ LockHolds
=============================================================================
