------------------------------- MODULE Timers -------------------------------
(***************************************************************************)
(* The registers of a timer that several users share (system/timer.h): the *)
(* program configures it and its channels, and starts and stops the PWM on *)
(* one pin, and a handler starts and stops the PWM on another pin.  The    *)
(* program reads a register and writes it, and the handler may come in     *)
(* between.                                                                *)
(***************************************************************************)
EXTENDS Integers

CONSTANTS Channels,       \* 0 .. 3
          HandlerChannel, \* the channel of the handler's pin
          Modes,          \* TimerMode
          IntLevels       \* 0 (off) .. 3

ASSUME ChannelAssumption == Channels \subseteq Nat

VARIABLES ctrlb,          \* mode, and the channels enabled
          intctrlb,       \* the interrupt level of each channel
          rmw,            \* the program between the read and the write
          asked,          \* history: what was asked for
          spoilt          \* history: channels whose enabling was lost, or whose
                          \* interrupt a disable missed or hit instead

timerVars == <<ctrlb, intctrlb, rmw, asked, spoilt>>

NoCall == [call |-> "none", arg |-> 0, ctrlb |-> [mode |-> 0, cc |-> {}]]

TimerInit ==
  /\ ctrlb = [mode |-> 0, cc |-> {}]
  /\ intctrlb = [c \in Channels |-> 0]
  /\ rmw = NoCall
  /\ asked = [mode |-> 0, cc |-> {}, levels |-> [c \in Channels |-> 0]]
  /\ spoilt = [cc |-> {}, levels |-> {}]

\* The program starts a call; CTRLB is read.
Reads(call, args) ==
  /\ rmw.call = "none"
  /\ \E arg \in args : rmw' = [NoCall EXCEPT !.call = call, !.arg = arg,
                                             !.ctrlb = ctrlb]
  /\ UNCHANGED <<ctrlb, intctrlb, asked, spoilt>>

TimerCalls == \/ Reads("set_mode", Modes)
              \/ Reads("EnableCC", Channels \ {HandlerChannel})
              \/ Reads("StopCC", Channels \ {HandlerChannel})

Writes(call) == rmw.call = call /\ rmw' = NoCall /\ UNCHANGED <<intctrlb, spoilt>>

SetModeAlone ==                              \* faulty: nothing is preserved
  /\ Writes("set_mode")
  /\ ctrlb' = [mode |-> rmw.arg, cc |-> {}]
  /\ asked' = [asked EXCEPT !.mode = rmw.arg]
SetMode ==
  /\ Writes("set_mode")
  /\ ctrlb' = [mode |-> rmw.arg, cc |-> rmw.ctrlb.cc]
  /\ asked' = [asked EXCEPT !.mode = rmw.arg]

EnableCC ==
  /\ Writes("EnableCC")
  /\ ctrlb' = [rmw.ctrlb EXCEPT !.cc = @ \cup {rmw.arg}]
  /\ asked' = [asked EXCEPT !.cc = @ \cup {rmw.arg}]

StopCC ==
  /\ Writes("StopCC")
  /\ ctrlb' = [rmw.ctrlb EXCEPT !.cc = @ \ {rmw.arg}]
  /\ asked' = [asked EXCEPT !.cc = @ \ {rmw.arg}]

\* PWM::Start and Stop in the handler, which is not interrupted.
HandlerStartsOrStops ==
  /\ \E cc \in {ctrlb.cc \cup {HandlerChannel}, ctrlb.cc \ {HandlerChannel}} :
       ctrlb' = [ctrlb EXCEPT !.cc = cc]
  /\ asked' = [asked EXCEPT !.cc = (@ \ {HandlerChannel})
                                   \cup (ctrlb'.cc \cap {HandlerChannel})]
  /\ spoilt' = [spoilt EXCEPT !.cc = IF rmw.call = "none" THEN {}
                                     ELSE {HandlerChannel}]
  /\ UNCHANGED <<intctrlb, rmw>>

\* EnableChannelInterrupt: a field of two bits for each channel.
EnableChannelInterrupt ==
  /\ rmw.call = "none"
  /\ \E c \in Channels, level \in IntLevels :
       /\ intctrlb' = [intctrlb EXCEPT ![c] = level]
       /\ asked' = [asked EXCEPT !.levels[c] = level]
       /\ spoilt' = [spoilt EXCEPT !.levels = @ \ {c}]
  /\ UNCHANGED <<ctrlb, rmw>>

\* DisableChannelInterrupt: the shift is twice that of Enable, and what is
\* cleared is the field of channel 2 c, if there is one.
DisableChannelInterrupt ==
  /\ rmw.call = "none"
  /\ \E c \in Channels :
       /\ intctrlb' = [d \in Channels |-> IF d = 2 * c THEN 0 ELSE intctrlb[d]]
       /\ asked' = [asked EXCEPT !.levels[c] = 0]
       /\ spoilt' = [spoilt EXCEPT !.levels =
                       IF c = 0 THEN @ ELSE @ \cup ({c, 2 * c} \cap Channels)]
  /\ UNCHANGED <<ctrlb, rmw>>

TimerNext == \/ TimerCalls \/ SetMode \/ EnableCC \/ StopCC
             \/ HandlerStartsOrStops
             \/ EnableChannelInterrupt \/ DisableChannelInterrupt

TimerSpec == TimerInit /\ [][TimerNext]_timerVars

-----------------------------------------------------------------------------
(* Properties.                                                             *)

\* "Preserve Compare/capture enable and set mode": the mode and the channels
\* enabled are those asked for last, but for the channel the handler started or
\* stopped between the read and the write, until it does so again.  The
\* interrupt levels are those asked for last, but for the two channels that
\* take part when the interrupt of channel c is disabled, c not 0: c keeps its
\* level and 2 c loses it, until they are set again.  Channel 0 never suffers.
TimerAsAsked ==
  /\ ctrlb.mode = asked.mode
  /\ \A c \in Channels : \/ c \in spoilt.cc /\ c = HandlerChannel
                         \/ c \in ctrlb.cc <=> c \in asked.cc
  /\ \A c \in Channels : \/ c \in spoilt.levels /\ c # 0
                         \/ intctrlb[c] = asked.levels[c]
=============================================================================
