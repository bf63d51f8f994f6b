-------------------------------- MODULE Dac --------------------------------
(***************************************************************************)
(* The two channels of the converter (io/dac.h), each with a data register *)
(* and a flag that tells it is empty.  The program feeds both after Wait,  *)
(* or one after its own writable().                                        *)
(***************************************************************************)
EXTENDS Integers

VARIABLES dac,      \* external: the channels whose data register is full
          feeder,   \* the program
          lostData  \* history: channels written to before they were empty,
                    \* and what the program had waited for

dacVars == <<dac, feeder, lostData>>

DacChannels == {0, 1}
NotFeeding == [pc |-> "idle", to |-> {}, asked |-> "none"]

DacInit == /\ dac = {} /\ lostData = {}
           /\ feeder = NotFeeding

\* External: a channel takes its data.
Converts == /\ \E c \in dac : dac' = dac \ {c}
            /\ UNCHANGED <<feeder, lostData>>

\* writable() of both channels, as it is compiled: == binds tighter than &,
\* and what is left is the flag of channel 0.
WritableEither == dac # DacChannels         \* faulty
WritableBoth == 0 \notin dac

Waits ==                                    \* while (!writable());
  /\ feeder.pc = "idle" /\ WritableBoth
  /\ feeder' = [pc |-> "feed", to |-> DacChannels, asked |-> "both"]
  /\ UNCHANGED <<dac, lostData>>

\* Channel<c>::writable().
AsksOne ==
  /\ feeder.pc = "idle"
  /\ \E c \in DacChannels \ dac :
       feeder' = [pc |-> "feed", to |-> {c}, asked |-> "one"]
  /\ UNCHANGED <<dac, lostData>>

Feeds ==                                    \* Channel<c>::Write
  /\ feeder.pc = "feed"
  /\ \E c \in feeder.to :
       /\ lostData' = IF c \in dac THEN lostData \cup {<<c, feeder.asked>>}
                                ELSE lostData
       /\ dac' = dac \cup {c}
       /\ feeder' = IF feeder.to = {c} THEN NotFeeding
                    ELSE [feeder EXCEPT !.to = @ \ {c}]

DacNext == Converts \/ Waits \/ AsksOne \/ Feeds

DacSpec == DacInit /\ [][DacNext]_dacVars

-----------------------------------------------------------------------------
(* Properties.                                                             *)

\* A sample is overwritten before it has been converted in one way only: in
\* channel 1, after a Wait for both channels.  A program that asks a channel
\* by itself loses nothing.
DacSamplesKept == lostData \subseteq {<<1, "both">>}
=============================================================================
