---------------------------- MODULE Drivers_proofs ----------------------------
(***************************************************************************)
(* Proofs about the drivers, for every number of pins, channels, inputs    *)
(* and slots, and every order in which the hardware, the handlers and the  *)
(* program come.  Those of the encoder and of the switches are for the     *)
(* eight samples in a byte.                                                *)
(***************************************************************************)
EXTENDS Drivers, RemainderTheorems, SequenceTheorems, TLAPS

-----------------------------------------------------------------------------
(* Pins.  MPCMASK is only set inside set_mode, unless the handler has used *)
(* it up; and what set_value has read is still wanted, but for the pins    *)
(* that were spoilt.                                                       *)

PortShape ==
  /\ DOMAIN port = {"dir", "out", "control", "mpcmask"}
  /\ DOMAIN wanted = {"dir", "out", "control"}
  /\ DOMAIN disturbed = {"out", "control"}
  /\ DOMAIN user = {"pc", "read", "arg"}
  /\ DOMAIN port.dir = Pins /\ DOMAIN port.control = Pins
  /\ DOMAIN wanted.dir = Pins /\ DOMAIN wanted.control = Pins
  /\ DOMAIN wanted.out = Pins

ModeMasked ==
  /\ \/ port.mpcmask = {}
     \/ port.mpcmask = Mask /\ user.pc = "set_mode"
  /\ user.pc = "set_mode" /\ port.mpcmask = {}
       => Mask \cup {0} \subseteq disturbed.control

ReadIsWanted ==
  user.pc = "set_value" =>
    \A p \in Pins \ Mask : p \in disturbed.out \/ user.read[p] = wanted.out[p]

PortInv == PortShape /\ ModeMasked /\ ReadIsWanted /\ PinsAsWanted

LEMMA HandlerDrivesKeeps == ASSUME PortInv, HandlerDrives PROVE PortInv'
<1>1. PICK how \in Hows :
        /\ port' = [port EXCEPT !.out = Driven(@, {HandlerPin}, how)]
        /\ wanted' = [wanted EXCEPT !.out = Driven(@, {HandlerPin}, how)]
        /\ disturbed' = [disturbed EXCEPT !.out =
                           IF user.pc = "set_value" THEN @ \cup {HandlerPin}
                           ELSE IF how = "Toggle" THEN @ ELSE @ \ {HandlerPin}]
        /\ UNCHANGED user
  BY DEF HandlerDrives
<1>2. /\ port'.out = Driven(port.out, {HandlerPin}, how)
      /\ wanted'.out = Driven(wanted.out, {HandlerPin}, how)
      /\ port'.dir = port.dir /\ port'.control = port.control
      /\ port'.mpcmask = port.mpcmask /\ wanted'.dir = wanted.dir
      /\ wanted'.control = wanted.control
      /\ disturbed'.control = disturbed.control
      /\ disturbed'.out = IF user.pc = "set_value" THEN disturbed.out \cup {HandlerPin}
                          ELSE IF how = "Toggle" THEN disturbed.out
                          ELSE disturbed.out \ {HandlerPin}
  BY <1>1 DEF PortInv, PortShape
<1>3. PortShape'
  BY <1>1, <1>2 DEF PortInv, PortShape, Driven
<1>4. ModeMasked'
  BY <1>1, <1>2 DEF PortInv, ModeMasked
<1>5. ReadIsWanted'
  BY <1>1, <1>2 DEF PortInv, ReadIsWanted, Driven
<1>6. PinsAsWanted'
  <2>1. ASSUME NEW p \in Pins
        PROVE  p \in disturbed'.out \/ port'.out[p] = wanted'.out[p]
    <3>1. CASE p = HandlerPin /\ how # "Toggle"
      BY <1>2, <3>1 DEF Driven, Hows
    <3>2. CASE p = HandlerPin /\ how = "Toggle"
      BY <1>2, <3>2 DEF PortInv, PinsAsWanted, Driven
    <3>3. CASE p # HandlerPin
      BY <1>2, <3>3 DEF PortInv, PinsAsWanted, ReadIsWanted, Driven
    <3> QED
      BY <3>1, <3>2, <3>3
  <2>2. disturbed'.out \subseteq disturbed.out \cup {HandlerPin}
    BY <1>2
  <2> QED
    BY <1>2, <2>1, <2>2 DEF PortInv, PinsAsWanted
<1> QED
  BY <1>3, <1>4, <1>5, <1>6 DEF PortInv

LEMMA HandlerSetsModeKeeps == ASSUME PortInv, HandlerSetsMode PROVE PortInv'
<1>1. PICK mode \in {"pull_up", "totem"} :
        /\ port' = ControlSet(HandlerPin, mode)
        /\ wanted' = [wanted EXCEPT !.control[HandlerPin] = mode]
        /\ disturbed' = [disturbed EXCEPT !.control =
                           IF port.mpcmask # {} THEN @ \cup Mask \cup {0, HandlerPin}
                           ELSE IF user.pc = "set_mode" THEN @ ELSE @ \ {HandlerPin}]
        /\ UNCHANGED user
  BY DEF HandlerSetsMode
<1> DEFINE mask == IF port.mpcmask = {} THEN {HandlerPin} ELSE port.mpcmask
<1>2. /\ port'.out = port.out /\ port'.dir = port.dir /\ port'.mpcmask = {}
      /\ port'.control = [p \in Pins |-> IF p \in mask THEN mode
                                         ELSE port.control[p]]
      /\ wanted'.out = wanted.out /\ wanted'.dir = wanted.dir
      /\ wanted'.control = [wanted.control EXCEPT ![HandlerPin] = mode]
      /\ disturbed'.out = disturbed.out
      /\ disturbed'.control = IF port.mpcmask # {}
                              THEN disturbed.control \cup Mask \cup {0, HandlerPin}
                              ELSE IF user.pc = "set_mode" THEN disturbed.control
                              ELSE disturbed.control \ {HandlerPin}
  BY <1>1 DEF PortInv, PortShape, ControlSet
<1>3. PortShape'
  BY <1>1, <1>2 DEF PortInv, PortShape, ControlSet
<1>4. ModeMasked' /\ ReadIsWanted'
  BY <1>1, <1>2 DEF PortInv, ModeMasked, ReadIsWanted
<1>5. PinsAsWanted'
  BY <1>2, PinAssumption DEF PortInv, PortShape, ModeMasked, PinsAsWanted
<1> QED
  BY <1>3, <1>4, <1>5 DEF PortInv

LEMMA DrivesKeeps == ASSUME PortInv, DrivesInverted \/ DrivesMask PROVE PortInv'
<1>1. CASE DrivesInverted
  <2>1. PICK how \in Hows :
        /\ port' = [port EXCEPT !.out = Driven(@, {InvertedPin}, Inverted(how))]
        /\ wanted' = [wanted EXCEPT !.out = Wished(@, how)]
        /\ disturbed' = [disturbed EXCEPT !.out = IF how = "Toggle" THEN @
                                                  ELSE @ \ {InvertedPin}]
    BY <1>1 DEF DrivesInverted
  <2>2. /\ port'.out = Driven(port.out, {InvertedPin}, Inverted(how))
        /\ wanted'.out = Wished(wanted.out, how)
        /\ port'.dir = port.dir /\ port'.control = port.control
        /\ port'.mpcmask = port.mpcmask /\ wanted'.dir = wanted.dir
        /\ wanted'.control = wanted.control
        /\ disturbed'.control = disturbed.control
        /\ disturbed'.out = IF how = "Toggle" THEN disturbed.out
                            ELSE disturbed.out \ {InvertedPin}
        /\ UNCHANGED user /\ user.pc = "idle"
    BY <1>1, <2>1 DEF PortInv, PortShape, DrivesInverted
  <2>3. PortShape'
    BY <2>1, <2>2 DEF PortInv, PortShape, Driven, Wished
  <2>4. ModeMasked' /\ ReadIsWanted'
    BY <2>2 DEF PortInv, ModeMasked, ReadIsWanted
  <2>5. ASSUME NEW p \in Pins
        PROVE  p \in disturbed'.out \/ port'.out[p] = wanted'.out[p]
    <3>1. CASE p # InvertedPin
      BY <2>2, <3>1 DEF PortInv, PinsAsWanted, Driven, Wished
    <3>2. CASE p = InvertedPin /\ how = "Toggle"
      BY <2>2, <3>2 DEF PortInv, PinsAsWanted, Driven, Inverted, Wished
    <3>3. CASE p = InvertedPin /\ how # "Toggle"
      BY <2>2, <3>3 DEF Driven, Inverted, Hows, Wished
    <3> QED
      BY <3>1, <3>2, <3>3
  <2>6. PinsAsWanted'
    BY <2>2, <2>5 DEF PortInv, PinsAsWanted
  <2> QED
    BY <2>3, <2>4, <2>6 DEF PortInv
<1>2. CASE DrivesMask
  <2>1. PICK how \in Hows :
        /\ port' = [port EXCEPT !.out = Driven(@, Mask, how)]
        /\ wanted' = [wanted EXCEPT !.out = Driven(@, Mask, how)]
    BY <1>2 DEF DrivesMask
  <2>2. /\ port'.out = Driven(port.out, Mask, how)
        /\ wanted'.out = Driven(wanted.out, Mask, how)
        /\ port'.dir = port.dir /\ port'.control = port.control
        /\ port'.mpcmask = port.mpcmask /\ wanted'.dir = wanted.dir
        /\ wanted'.control = wanted.control
        /\ UNCHANGED <<user, disturbed>> /\ user.pc = "idle"
    BY <1>2, <2>1 DEF PortInv, PortShape, DrivesMask
  <2>3. PortShape'
    BY <2>1, <2>2 DEF PortInv, PortShape, Driven
  <2>4. ModeMasked' /\ ReadIsWanted'
    BY <2>2 DEF PortInv, ModeMasked, ReadIsWanted
  <2>5. ASSUME NEW p \in Pins
        PROVE  p \in disturbed.out \/ port'.out[p] = wanted'.out[p]
    <3>1. CASE p \in Mask /\ how = "Toggle"
      BY <2>2, <3>1 DEF PortInv, PinsAsWanted, Driven
    <3>2. CASE p \in Mask /\ how # "Toggle"
      BY <2>2, <3>2 DEF Driven, Hows
    <3>3. CASE p \notin Mask
      BY <2>2, <3>3 DEF PortInv, PinsAsWanted, Driven
    <3> QED
      BY <3>1, <3>2, <3>3
  <2>6. PinsAsWanted'
    BY <2>2, <2>5 DEF PortInv, PinsAsWanted
  <2> QED
    BY <2>3, <2>4, <2>6 DEF PortInv
<1> QED
  BY <1>1, <1>2

LEMMA SetValueKeeps ==
  ASSUME PortInv, SetValueReads \/ SetValueWrites
  PROVE  PortInv'
<1>1. CASE SetValueReads
  <2>1. PICK value : user' = [pc |-> "set_value", read |-> port.out, arg |-> value]
    BY <1>1 DEF SetValueReads
  <2>2. UNCHANGED <<port, wanted, disturbed>> /\ user.pc = "idle"
        /\ user'.pc = "set_value" /\ user'.read = port.out
    BY <1>1, <2>1 DEF SetValueReads
  <2> QED
    BY <2>1, <2>2 DEF PortInv, PortShape, ModeMasked, ReadIsWanted, PinsAsWanted
<1>2. CASE SetValueWrites
  <2> DEFINE W == [p \in Pins |-> IF p \in Mask THEN Bit(user.arg, p - FirstPin)
                                               ELSE wanted.out[p]]
  <2>1. /\ user.pc = "set_value"
        /\ port' = [port EXCEPT !.out = Preserved]
        /\ wanted' = [wanted EXCEPT !.out = W]
        /\ disturbed' = [disturbed EXCEPT !.out = @ \cup Spilt]
        /\ user' = [user EXCEPT !.pc = "idle", !.read = [p \in Pins |-> 0], !.arg = 0]
    BY <1>2 DEF SetValueWrites
  <2> HIDE DEF W
  <2>2. /\ port'.out = Preserved /\ wanted'.out = W
        /\ port'.dir = port.dir /\ port'.control = port.control
        /\ port'.mpcmask = port.mpcmask /\ wanted'.dir = wanted.dir
        /\ wanted'.control = wanted.control /\ user'.pc = "idle"
        /\ disturbed'.control = disturbed.control
        /\ disturbed'.out = disturbed.out \cup Spilt
    BY <2>1 DEF PortInv, PortShape
  <2>3. PortShape'
    BY <2>1, <2>2 DEF PortInv, PortShape, W
  <2>4. ModeMasked' /\ ReadIsWanted'
    BY <2>1, <2>2 DEF PortInv, ModeMasked, ReadIsWanted
  <2>5. ASSUME NEW p \in Pins
        PROVE  p \in disturbed'.out \/ port'.out[p] = wanted'.out[p]
    BY <2>1, <2>2 DEF PortInv, ReadIsWanted, Preserved, W
  <2>6. \A p \in Spilt : p > LastPin
    BY DEF Spilt
  <2>7. PinsAsWanted'
    BY <2>2, <2>5, <2>6 DEF PortInv, PinsAsWanted
  <2> QED
    BY <2>3, <2>4, <2>7 DEF PortInv
<1> QED
  BY <1>1, <1>2

LEMMA DirectionsKeep ==
  ASSUME PortInv, SetsDirections \/ SetsDirection
  PROVE  PortInv'
<1>1. CASE SetsDirections
  <2>1. PICK d \in {"input", "output"} :
          /\ port' = [port EXCEPT !.dir = [p \in Pins |-> IF p \in Mask THEN d ELSE @[p]]]
          /\ wanted' = [wanted EXCEPT !.dir = port'.dir]
    BY <1>1 DEF SetsDirections
  <2>2. /\ port'.out = port.out /\ port'.control = port.control
        /\ port'.mpcmask = port.mpcmask /\ wanted'.out = wanted.out
        /\ wanted'.control = wanted.control /\ wanted'.dir = port'.dir
        /\ DOMAIN port'.dir = Pins
        /\ UNCHANGED <<user, disturbed>>
    BY <1>1, <2>1 DEF PortInv, PortShape, SetsDirections
  <2>3. PortShape'
    BY <2>1, <2>2 DEF PortInv, PortShape
  <2> QED
    BY <2>2, <2>3 DEF PortInv, ModeMasked, ReadIsWanted, PinsAsWanted
<1>2. CASE SetsDirection
  <2>1. PICK d \in {"input", "output"} :
          LET c == IF d = "output" THEN "slow" ELSE port.control[InvertedPin]
          IN /\ port' = [[port EXCEPT !.dir[InvertedPin] = d]
                             EXCEPT !.control[InvertedPin] = c]
             /\ wanted' = [wanted EXCEPT !.dir[InvertedPin] = d,
                                         !.control[InvertedPin] = c]
             /\ disturbed' = [disturbed EXCEPT !.control = IF d = "output"
                                              THEN @ \ {InvertedPin} ELSE @]
    BY <1>2 DEF SetsDirection
  <2> DEFINE c == IF d = "output" THEN "slow" ELSE port.control[InvertedPin]
  <2>2. /\ port'.dir = [port.dir EXCEPT ![InvertedPin] = d]
        /\ port'.control = [port.control EXCEPT ![InvertedPin] = c]
        /\ port'.out = port.out /\ port'.mpcmask = port.mpcmask
        /\ DOMAIN port' = DOMAIN port
    BY <2>1 DEF PortInv, PortShape
  <2>3. /\ wanted'.dir = [wanted.dir EXCEPT ![InvertedPin] = d]
        /\ wanted'.control = [wanted.control EXCEPT ![InvertedPin] = c]
        /\ wanted'.out = wanted.out /\ DOMAIN wanted' = DOMAIN wanted
    BY <2>1 DEF PortInv, PortShape
  <2>4. /\ UNCHANGED user /\ user.pc = "idle" /\ disturbed'.out = disturbed.out
        /\ DOMAIN disturbed' = DOMAIN disturbed
        /\ disturbed'.control = IF d = "output" THEN disturbed.control \ {InvertedPin}
                                ELSE disturbed.control
    BY <1>2, <2>1 DEF SetsDirection, PortInv, PortShape
  <2>5. PortShape'
    BY <2>2, <2>3, <2>4 DEF PortInv, PortShape
  <2>6. PinsAsWanted'
    <3>1. ASSUME NEW p \in Pins
          PROVE  p \in disturbed'.control \/ port'.control[p] = wanted'.control[p]
      <4>1. CASE p = InvertedPin
        BY <2>2, <2>3, <4>1 DEF PortInv, PortShape
      <4>2. CASE p # InvertedPin
        BY <2>2, <2>3, <2>4, <4>2 DEF PortInv, PortShape, PinsAsWanted
      <4> QED
        BY <4>1, <4>2
    <3>2. ASSUME NEW p \in Pins PROVE port'.dir[p] = wanted'.dir[p]
      BY <2>2, <2>3 DEF PortInv, PortShape, PinsAsWanted
    <3>3. disturbed'.control \subseteq disturbed.control
      BY <2>4
    <3> QED
      BY <2>2, <2>3, <2>4, <3>1, <3>2, <3>3 DEF PortInv, PinsAsWanted
  <2>7. ModeMasked' /\ ReadIsWanted'
    BY <2>2, <2>3, <2>4 DEF PortInv, ModeMasked, ReadIsWanted
  <2> QED
    BY <2>5, <2>6, <2>7 DEF PortInv
<1> QED
  BY <1>1, <1>2

LEMMA SetModeKeeps ==
  ASSUME PortInv, SetModeMasks \/ SetModeWrites
  PROVE  PortInv'
<1>1. CASE SetModeMasks
  <2>1. /\ port' = [port EXCEPT !.mpcmask = Mask]
        /\ user' = [user EXCEPT !.pc = "set_mode"]
        /\ UNCHANGED <<wanted, disturbed>>
    BY <1>1 DEF SetModeMasks
  <2>2. /\ port'.mpcmask = Mask /\ user'.pc = "set_mode" /\ Mask # {}
        /\ port'.out = port.out /\ port'.dir = port.dir
        /\ port'.control = port.control
    BY <2>1, PinAssumption DEF PortInv, PortShape, Mask
  <2>3. PortShape'
    BY <2>1, <2>2 DEF PortInv, PortShape
  <2> QED
    BY <2>1, <2>2, <2>3 DEF PortInv, ModeMasked, ReadIsWanted, PinsAsWanted
<1>2. CASE SetModeWrites
  <2>1. PICK mode \in {"pull_up", "totem"} :
          /\ port' = ControlSet(0, mode)
          /\ wanted' = [wanted EXCEPT !.control = [p \in Pins |->
                                         IF p \in Mask THEN mode ELSE @[p]]]
          /\ disturbed' = [disturbed EXCEPT !.control =
                              IF port.mpcmask = Mask THEN @ \ Mask ELSE @]
    BY <1>2 DEF SetModeWrites
  <2> DEFINE mask == IF port.mpcmask = {} THEN {0} ELSE port.mpcmask
  <2>2. /\ user.pc = "set_mode" /\ user'.pc = "idle"
        /\ DOMAIN user' = DOMAIN user /\ DOMAIN disturbed' = DOMAIN disturbed
        /\ disturbed'.out = disturbed.out
        /\ disturbed'.control = IF port.mpcmask = Mask THEN disturbed.control \ Mask
                                ELSE disturbed.control
    BY <1>2, <2>1 DEF SetModeWrites, PortInv, PortShape
  <2>3. /\ port'.out = port.out /\ port'.dir = port.dir /\ port'.mpcmask = {}
        /\ port'.control = [p \in Pins |-> IF p \in mask THEN mode
                                           ELSE port.control[p]]
        /\ wanted'.out = wanted.out /\ wanted'.dir = wanted.dir
        /\ wanted'.control = [p \in Pins |-> IF p \in Mask THEN mode
                                             ELSE wanted.control[p]]
    BY <2>1 DEF PortInv, PortShape, ControlSet
  <2>4. PortShape'
    BY <2>1, <2>2, <2>3 DEF PortInv, PortShape, ControlSet
  <2>5. ModeMasked' /\ ReadIsWanted'
    BY <2>2, <2>3 DEF PortInv, ModeMasked, ReadIsWanted
  <2>6. PinsAsWanted'
    <3>1. ASSUME NEW p \in Pins
          PROVE  p \in disturbed'.control \/ port'.control[p] = wanted'.control[p]
      <4>1. CASE port.mpcmask = {}
        <5>1. Mask # {}
          BY PinAssumption DEF Mask
        <5> QED
          BY <2>2, <2>3, <4>1, <5>1 DEF PortInv, ModeMasked, PinsAsWanted
      <4>2. CASE port.mpcmask = Mask /\ Mask # {}
        BY <2>2, <2>3, <4>2 DEF PortInv, PinsAsWanted
      <4> QED
        BY <4>1, <4>2, PinAssumption DEF PortInv, ModeMasked, Mask
    <3>2. disturbed'.control \subseteq disturbed.control
      BY <2>2
    <3> QED
      BY <2>2, <2>3, <3>1, <3>2 DEF PortInv, PinsAsWanted
  <2> QED
    BY <2>4, <2>5, <2>6 DEF PortInv
<1> QED
  BY <1>1, <1>2

LEMMA PortInvariance == PortSpec => []PortInv
<1>1. PortInit => PortInv
  BY DEF PortInit, PortInv, PortShape, ModeMasked, ReadIsWanted, PinsAsWanted
<1>2. PortInv /\ [PortNext]_portVars => PortInv'
  <2> SUFFICES ASSUME PortInv, [PortNext]_portVars PROVE PortInv'
    OBVIOUS
  <2>1. CASE UNCHANGED portVars
    BY <2>1 DEF portVars, PortInv, PortShape, ModeMasked, ReadIsWanted,
       PinsAsWanted
  <2>2. CASE PortNext
    BY <2>2, HandlerDrivesKeeps, HandlerSetsModeKeeps, DrivesKeeps,
       SetValueKeeps, DirectionsKeep, SetModeKeeps DEF PortNext
  <2> QED
    BY <2>1, <2>2
<1> QED
  BY <1>1, <1>2, PTL DEF PortSpec

-----------------------------------------------------------------------------
(* Timers.  What a call has read is what is asked for, except for what the *)
(* handler has changed since.                                              *)

TimerShape ==
  /\ DOMAIN ctrlb = {"mode", "cc"}
  /\ DOMAIN rmw = {"call", "arg", "ctrlb"} /\ DOMAIN rmw.ctrlb = {"mode", "cc"}
  /\ DOMAIN asked = {"mode", "cc", "levels"}
  /\ DOMAIN spoilt = {"cc", "levels"}
  /\ DOMAIN intctrlb = Channels /\ DOMAIN asked.levels = Channels
  /\ intctrlb = [c \in Channels |-> intctrlb[c]]
  /\ asked.levels = [c \in Channels |-> asked.levels[c]]

OthersCall ==
  /\ rmw.call \in {"none", "set_mode", "EnableCC", "StopCC"}
  /\ rmw.call \in {"EnableCC", "StopCC"} => rmw.arg # HandlerChannel
  /\ spoilt.cc \subseteq {HandlerChannel}

ReadIsAsked ==
  rmw.call # "none" =>
    /\ rmw.ctrlb.mode = asked.mode
    /\ \A c \in Channels \ spoilt.cc : c \in rmw.ctrlb.cc <=> c \in asked.cc

TimerInv == TimerShape /\ OthersCall /\ ReadIsAsked /\ TimerAsAsked

LEMMA TimerReads == ASSUME TimerInv, TimerCalls PROVE TimerInv'
<1>1. PICK call \in {"set_mode", "EnableCC", "StopCC"},
           args \in {Modes, Channels \ {HandlerChannel}} :
        /\ call \in {"EnableCC", "StopCC"} => args = Channels \ {HandlerChannel}
        /\ Reads(call, args)
  BY DEF TimerCalls
<1>2. PICK arg \in args : rmw' = [NoCall EXCEPT !.call = call, !.arg = arg,
                                                !.ctrlb = ctrlb]
  BY <1>1 DEF Reads
<1>3. rmw' = [call |-> call, arg |-> arg, ctrlb |-> ctrlb]
  BY <1>2 DEF NoCall
<1>4. UNCHANGED <<ctrlb, intctrlb, asked, spoilt>>
  BY <1>1 DEF Reads
<1>5. TimerShape'
  BY <1>3, <1>4 DEF TimerInv, TimerShape
<1>6. OthersCall'
  BY <1>1, <1>3, <1>4 DEF TimerInv, OthersCall
<1>7. ReadIsAsked'
  BY <1>3, <1>4 DEF TimerInv, ReadIsAsked, TimerAsAsked
<1>8. TimerAsAsked'
  BY <1>4 DEF TimerInv, TimerAsAsked
<1> QED
  BY <1>5, <1>6, <1>7, <1>8 DEF TimerInv

LEMMA TimerWrites ==
  ASSUME TimerInv, SetMode \/ EnableCC \/ StopCC
  PROVE  TimerInv'
<1>1. /\ rmw' = NoCall /\ UNCHANGED <<intctrlb, spoilt>>
      /\ rmw'.call = "none"
      /\ DOMAIN rmw' = {"call", "arg", "ctrlb"}
      /\ DOMAIN rmw'.ctrlb = {"mode", "cc"}
  BY DEF SetMode, EnableCC, StopCC, Writes, NoCall
<1>2. /\ asked'.levels = asked.levels /\ DOMAIN asked' = DOMAIN asked
      /\ DOMAIN ctrlb' = {"mode", "cc"}
  BY DEF SetMode, EnableCC, StopCC, TimerInv, TimerShape
<1>3. TimerShape' /\ OthersCall' /\ ReadIsAsked'
  BY <1>1, <1>2 DEF TimerInv, TimerShape, OthersCall, ReadIsAsked
<1>4. CASE SetMode
  <2>1. /\ rmw.call # "none"
        /\ ctrlb'.mode = asked'.mode /\ ctrlb'.cc = rmw.ctrlb.cc
        /\ asked'.cc = asked.cc
    BY <1>4 DEF SetMode, Writes, TimerInv, TimerShape
  <2>2. \A c \in Channels : \/ c \in spoilt.cc /\ c = HandlerChannel
                            \/ c \in ctrlb'.cc <=> c \in asked'.cc
    <3> TAKE c \in Channels
    <3>1. CASE c \in spoilt.cc
      BY <3>1 DEF TimerInv, OthersCall
    <3>2. CASE c \notin spoilt.cc
      <4>1. c \in rmw.ctrlb.cc <=> c \in asked.cc
        BY <2>1, <3>2 DEF TimerInv, ReadIsAsked
      <4> QED
        BY <2>1, <4>1
    <3> QED
      BY <3>1, <3>2
  <2>3. ctrlb'.mode = asked'.mode
    BY <2>1 DEF TimerInv, ReadIsAsked
  <2> QED
    BY <1>1, <1>2, <1>3, <2>2, <2>3 DEF TimerInv, TimerAsAsked
<1>5. CASE EnableCC
  <2>1. /\ rmw.call # "none"
        /\ ctrlb'.mode = rmw.ctrlb.mode /\ asked'.mode = asked.mode
        /\ ctrlb'.cc = rmw.ctrlb.cc \cup {rmw.arg}
        /\ asked'.cc = asked.cc \cup {rmw.arg}
    BY <1>5 DEF EnableCC, Writes, TimerInv, TimerShape
  <2>2. \A c \in Channels : \/ c \in spoilt.cc /\ c = HandlerChannel
                            \/ c \in ctrlb'.cc <=> c \in asked'.cc
    <3> TAKE c \in Channels
    <3>1. CASE c \in spoilt.cc
      BY <3>1 DEF TimerInv, OthersCall
    <3>2. CASE c \notin spoilt.cc
      <4>1. c \in rmw.ctrlb.cc <=> c \in asked.cc
        BY <2>1, <3>2 DEF TimerInv, ReadIsAsked
      <4> QED
        BY <2>1, <4>1
    <3> QED
      BY <3>1, <3>2
  <2>3. ctrlb'.mode = asked'.mode
    BY <2>1 DEF TimerInv, ReadIsAsked
  <2> QED
    BY <1>1, <1>2, <1>3, <2>2, <2>3 DEF TimerInv, TimerAsAsked
<1>6. CASE StopCC
  <2>1. /\ rmw.call # "none"
        /\ ctrlb'.mode = rmw.ctrlb.mode /\ asked'.mode = asked.mode
        /\ ctrlb'.cc = rmw.ctrlb.cc \ {rmw.arg}
        /\ asked'.cc = asked.cc \ {rmw.arg}
    BY <1>6 DEF StopCC, Writes, TimerInv, TimerShape
  <2>2. \A c \in Channels : \/ c \in spoilt.cc /\ c = HandlerChannel
                            \/ c \in ctrlb'.cc <=> c \in asked'.cc
    <3> TAKE c \in Channels
    <3>1. CASE c \in spoilt.cc
      BY <3>1 DEF TimerInv, OthersCall
    <3>2. CASE c \notin spoilt.cc
      <4>1. c \in rmw.ctrlb.cc <=> c \in asked.cc
        BY <2>1, <3>2 DEF TimerInv, ReadIsAsked
      <4> QED
        BY <2>1, <4>1
    <3> QED
      BY <3>1, <3>2
  <2>3. ctrlb'.mode = asked'.mode
    BY <2>1 DEF TimerInv, ReadIsAsked
  <2> QED
    BY <1>1, <1>2, <1>3, <2>2, <2>3 DEF TimerInv, TimerAsAsked
<1> QED
  BY <1>4, <1>5, <1>6

LEMMA TimerHandled == ASSUME TimerInv, HandlerStartsOrStops PROVE TimerInv'
<1>1. /\ ctrlb'.mode = ctrlb.mode /\ DOMAIN ctrlb' = {"mode", "cc"}
      /\ \A c : c # HandlerChannel => (c \in ctrlb'.cc <=> c \in ctrlb.cc)
  BY DEF HandlerStartsOrStops, TimerInv, TimerShape
<1>2. /\ asked'.cc = (asked.cc \ {HandlerChannel})
                       \cup (ctrlb'.cc \cap {HandlerChannel})
      /\ asked'.mode = asked.mode /\ asked'.levels = asked.levels
      /\ DOMAIN asked' = DOMAIN asked
  BY DEF HandlerStartsOrStops, TimerInv, TimerShape
<1>3. /\ spoilt'.cc = IF rmw.call = "none" THEN {} ELSE {HandlerChannel}
      /\ spoilt'.levels = spoilt.levels /\ DOMAIN spoilt' = DOMAIN spoilt
      /\ UNCHANGED <<intctrlb, rmw>>
  BY DEF HandlerStartsOrStops, TimerInv, TimerShape
<1>4. TimerShape' /\ OthersCall'
  BY <1>1, <1>2, <1>3 DEF TimerInv, TimerShape, OthersCall
<1>5. ReadIsAsked'
  BY <1>1, <1>2, <1>3 DEF TimerInv, ReadIsAsked, OthersCall
<1>6. TimerAsAsked'
  <2>1. ASSUME NEW c \in Channels \ spoilt'.cc
        PROVE  c \in ctrlb'.cc <=> c \in asked'.cc
    <3>1. CASE c = HandlerChannel
      BY <1>2, <3>1
    <3>2. CASE c # HandlerChannel
      BY <1>1, <1>2, <3>2 DEF TimerInv, TimerAsAsked, OthersCall
    <3> QED
      BY <3>1, <3>2
  <2> QED
    BY <1>1, <1>2, <1>3, <2>1 DEF TimerInv, TimerAsAsked
<1> QED
  BY <1>4, <1>5, <1>6 DEF TimerInv

LEMMA TimerLevels ==
  ASSUME TimerInv, EnableChannelInterrupt \/ DisableChannelInterrupt
  PROVE  TimerInv'
<1>1. CASE EnableChannelInterrupt
  <2>1. PICK c \in Channels, level \in IntLevels :
          /\ intctrlb' = [intctrlb EXCEPT ![c] = level]
          /\ asked' = [asked EXCEPT !.levels[c] = level]
          /\ spoilt' = [spoilt EXCEPT !.levels = @ \ {c}]
    BY <1>1 DEF EnableChannelInterrupt
  <2>2. /\ asked'.levels = [asked.levels EXCEPT ![c] = level]
        /\ asked'.cc = asked.cc /\ asked'.mode = asked.mode
        /\ DOMAIN asked' = DOMAIN asked /\ UNCHANGED <<ctrlb, rmw>>
        /\ spoilt'.cc = spoilt.cc /\ DOMAIN spoilt' = DOMAIN spoilt
        /\ spoilt'.levels = spoilt.levels \ {c}
    BY <1>1, <2>1 DEF EnableChannelInterrupt, TimerInv, TimerShape
  <2>3. TimerShape'
    BY <2>1, <2>2 DEF TimerInv, TimerShape
  <2>4. ASSUME NEW d \in Channels
        PROVE  (d \in spoilt'.levels /\ d # 0) \/ intctrlb'[d] = asked'.levels[d]
    <3>1. CASE d = c
      BY <2>1, <2>2, <3>1 DEF TimerInv, TimerShape
    <3>2. CASE d # c
      BY <2>1, <2>2, <3>2 DEF TimerInv, TimerShape, TimerAsAsked
    <3> QED
      BY <3>1, <3>2
  <2> QED
    BY <2>2, <2>3, <2>4 DEF TimerInv, OthersCall, ReadIsAsked, TimerAsAsked
<1>2. CASE DisableChannelInterrupt
  <2>1. PICK c \in Channels :
          /\ intctrlb' = [d \in Channels |-> IF d = 2 * c THEN 0 ELSE intctrlb[d]]
          /\ asked' = [asked EXCEPT !.levels[c] = 0]
          /\ spoilt' = [spoilt EXCEPT !.levels =
                          IF c = 0 THEN @ ELSE @ \cup ({c, 2 * c} \cap Channels)]
    BY <1>2 DEF DisableChannelInterrupt
  <2>2. /\ asked'.levels = [asked.levels EXCEPT ![c] = 0]
        /\ asked'.cc = asked.cc /\ asked'.mode = asked.mode
        /\ DOMAIN asked' = DOMAIN asked /\ UNCHANGED <<ctrlb, rmw>>
    BY <1>2, <2>1 DEF DisableChannelInterrupt, TimerInv, TimerShape
  <2>3. /\ spoilt'.cc = spoilt.cc /\ DOMAIN spoilt' = DOMAIN spoilt
        /\ spoilt'.levels = IF c = 0 THEN spoilt.levels
                            ELSE spoilt.levels \cup ({c, 2 * c} \cap Channels)
    BY <2>1 DEF TimerInv, TimerShape
  <2>4. TimerShape'
    BY <2>1, <2>2, <2>3 DEF TimerInv, TimerShape
  <2>5. ASSUME NEW d \in Channels
        PROVE  (d \in spoilt'.levels /\ d # 0) \/ intctrlb'[d] = asked'.levels[d]
    <3>1. c \in Nat /\ d \in Nat
      BY ChannelAssumption
    <3>2. /\ intctrlb'[d] = IF d = 2 * c THEN 0 ELSE intctrlb[d]
          /\ asked'.levels[d] = IF d = c THEN 0 ELSE asked.levels[d]
      BY <2>1, <2>2 DEF TimerInv, TimerShape
    <3>3. CASE c = 0
      BY <2>3, <3>1, <3>2, <3>3 DEF TimerInv, TimerAsAsked
    <3>4. CASE c # 0 /\ d \in {c, 2 * c}
      BY <2>3, <3>1, <3>4
    <3>5. CASE d \notin {c, 2 * c}
      BY <2>3, <3>2, <3>5 DEF TimerInv, TimerAsAsked
    <3> QED
      BY <3>3, <3>4, <3>5
  <2> QED
    BY <2>2, <2>3, <2>4, <2>5 DEF TimerInv, OthersCall, ReadIsAsked, TimerAsAsked
<1> QED
  BY <1>1, <1>2

LEMMA TimerInvariance == TimerSpec => []TimerInv
<1>1. TimerInit => TimerInv
  BY DEF TimerInit, TimerInv, TimerShape, OthersCall, ReadIsAsked,
     TimerAsAsked, NoCall
<1>2. TimerInv /\ [TimerNext]_timerVars => TimerInv'
  <2> SUFFICES ASSUME TimerInv, [TimerNext]_timerVars PROVE TimerInv'
    OBVIOUS
  <2>1. CASE UNCHANGED timerVars
    BY <2>1 DEF timerVars, TimerInv, TimerShape, OthersCall, ReadIsAsked,
       TimerAsAsked
  <2>2. CASE TimerNext
    BY <2>2, TimerReads, TimerWrites, TimerHandled, TimerLevels DEF TimerNext
  <2> QED
    BY <2>1, <2>2
<1> QED
  BY <1>1, <1>2, PTL DEF TimerSpec

\* For every number of pins and channels: the registers that several users
\* share say what each asked for last, but for the pins and channels that
\* PinsAsWanted and TimerAsAsked name.  Those are spoilt by a handler between a
\* read and its write, by a number too large for its group of pins, and by the
\* wrong shift of DisableChannelInterrupt.
THEOREM RegistersStayAsAsked == PortSpec /\ TimerSpec => []RegistersAsAsked
<1>1. PortInv /\ TimerInv => RegistersAsAsked
  BY DEF PortInv, TimerInv, RegistersAsAsked
<1> QED
  BY <1>1, PortInvariance, TimerInvariance, PTL

-----------------------------------------------------------------------------
(* The converter.  Whoever is about to feed channel 0, or a channel asked  *)
(* by itself, knows it is empty, and only the converter changes that in    *)
(* between.                                                                *)

FeederKnows ==
  /\ feeder \in [pc : {"idle", "feed"}, to : SUBSET DacChannels,
                 asked : {"none", "one", "both"}]
  /\ feeder.pc = "feed" /\ 0 \in feeder.to => 0 \notin dac
  /\ feeder.pc = "feed" /\ 1 \in feeder.to /\ 1 \in dac => feeder.asked = "both"

DacInv == FeederKnows /\ DacSamplesKept

LEMMA DacInvariance == DacSpec => []DacInv
<1>1. DacInit => DacInv
  BY DEF DacInit, DacInv, NotFeeding, DacChannels, FeederKnows, DacSamplesKept
<1>2. DacInv /\ [DacNext]_dacVars => DacInv'
  <2> SUFFICES ASSUME DacInv, [DacNext]_dacVars PROVE DacInv'
    OBVIOUS
  <2>1. CASE UNCHANGED dacVars
    BY <2>1 DEF dacVars, DacInv, FeederKnows, DacSamplesKept
  <2>2. CASE Converts
    BY <2>2 DEF Converts, DacInv, FeederKnows, DacSamplesKept
  <2>3. CASE Waits
    BY <2>3 DEF Waits, WritableBoth, DacInv, NotFeeding, DacChannels, FeederKnows, DacSamplesKept
  <2>4. CASE AsksOne
    BY <2>4 DEF AsksOne, DacInv, NotFeeding, DacChannels, FeederKnows, DacSamplesKept
  <2>5. CASE Feeds
    <3>1. PICK c \in feeder.to :
            /\ lostData' = IF c \in dac THEN lostData \cup {<<c, feeder.asked>>}
                           ELSE lostData
            /\ dac' = dac \cup {c}
            /\ feeder' = IF feeder.to = {c} THEN NotFeeding
                         ELSE [feeder EXCEPT !.to = @ \ {c}]
      BY <2>5 DEF Feeds
    <3>2. /\ feeder.pc = "feed" /\ c \in DacChannels
          /\ c \in dac => c = 1 /\ feeder.asked = "both"
      BY <2>5 DEF Feeds, DacInv, FeederKnows, DacChannels
    <3>3. FeederKnows'
      <4>1. CASE feeder.to = {c}
        BY <3>1, <4>1 DEF FeederKnows, NotFeeding
      <4>2. CASE feeder.to # {c}
        <5>1. /\ feeder' = [feeder EXCEPT !.to = @ \ {c}]
              /\ feeder'.pc = feeder.pc /\ feeder'.asked = feeder.asked
              /\ feeder'.to = feeder.to \ {c}
          BY <3>1, <4>2 DEF DacInv, FeederKnows
        <5> QED
          BY <3>1, <3>2, <5>1 DEF DacInv, FeederKnows
      <4> QED
        BY <4>1, <4>2
    <3>4. DacSamplesKept'
      BY <3>1, <3>2 DEF DacInv, DacSamplesKept
    <3> QED
      BY <3>3, <3>4 DEF DacInv
  <2> QED
    BY <2>1, <2>2, <2>3, <2>4, <2>5 DEF DacNext
<1> QED
  BY <1>1, <1>2, PTL DEF DacSpec

-----------------------------------------------------------------------------
(* The clock.  Until SetupClock is done, the processor runs on what it has *)
(* started on; an oscillator found ready is still enabled, because what is *)
(* enabled afterwards is enabled besides it.                               *)

StartShape ==
  /\ setup \in [source : Sources, factor : Factors,
                pc : {"enable", "wait", "pll", "wait_pll", "unlock", "switch", "done"}]
  /\ DOMAIN osc = {"enabled", "ready", "pllFrom"}

RunsOnStart ==
  /\ setup.pc # "done" => sclk = "start"
  /\ setup.pc = "done" => sclk \in {"start", setup.source, "pll"}

\* The oscillator that is to run the processor, or to feed the PLL, is ready.
SourceIsReady ==
  /\ setup.pc \in {"pll", "wait_pll", "unlock", "switch", "done"} =>
       setup.source \in osc.ready
  /\ setup.pc \in {"pll", "wait_pll", "unlock", "switch", "done"} /\ setup.factor # 0 =>
       osc.pllFrom = setup.source
  /\ setup.pc \in {"pll", "wait_pll"} => setup.factor # 0
  /\ setup.pc \in {"unlock", "switch", "done"} /\ setup.factor # 0 => "pll" \in osc.ready
  /\ setup.pc = "done" /\ setup.factor = 0 => sclk # "pll"

StartInv == StartShape /\ RunsOnStart /\ SourceIsReady /\ ClockIsStable

LEMMA StartInvariance == StartSpec => []StartInv
<1>1. StartInit => StartInv
  BY SourceAssumption DEF StartInit, StartInv, StartShape, RunsOnStart,
     SourceIsReady, ClockIsStable
<1>2. StartInv /\ [StartNext]_startVars => StartInv'
  <2> SUFFICES ASSUME StartInv, [StartNext]_startVars PROVE StartInv'
    OBVIOUS
  <2>1. CASE UNCHANGED startVars
    BY <2>1 DEF startVars, StartInv, StartShape, RunsOnStart, SourceIsReady,
       ClockIsStable
  <2>2. CASE BecomesReady
    <3>1. PICK o : osc' = [osc EXCEPT !.ready = @ \cup {o}]
      BY <2>2 DEF BecomesReady
    <3>2. /\ osc'.ready = osc.ready \cup {o} /\ osc'.pllFrom = osc.pllFrom
          /\ DOMAIN osc' = DOMAIN osc /\ UNCHANGED <<setup, sclk>>
      BY <2>2, <3>1 DEF BecomesReady, StartInv, StartShape
    <3> QED
      BY <3>2 DEF StartInv, StartShape, RunsOnStart, SourceIsReady, ClockIsStable
  <2>3. CASE EnablesSource
    <3>1. /\ setup.pc = "enable" /\ setup' = [setup EXCEPT !.pc = "wait"]
          /\ sclk = "start" /\ sclk' = sclk
          /\ osc'.ready = osc.ready \cap ({setup.source} \cup {sclk})
          /\ osc'.pllFrom = osc.pllFrom /\ DOMAIN osc' = DOMAIN osc
      BY <2>3 DEF EnablesSource, GoesTo, Enabled, StartInv, StartShape, RunsOnStart
    <3> QED
      BY <3>1 DEF StartInv, StartShape, RunsOnStart, SourceIsReady, ClockIsStable
  <2>4. CASE WaitsForSource
    <3>1. /\ setup.pc = "wait" /\ sclk = "start" /\ sclk' = sclk
          /\ setup' = [setup EXCEPT !.pc = IF setup.factor = 0 THEN "unlock" ELSE "pll"]
          /\ osc'.ready = osc.ready /\ setup.source \in osc.ready
          /\ osc'.pllFrom = IF setup.factor = 0 THEN osc.pllFrom ELSE setup.source
          /\ DOMAIN osc' = DOMAIN osc
      BY <2>4 DEF WaitsForSource, GoesTo, StartInv, StartShape, RunsOnStart
    <3> QED
      BY <3>1 DEF StartInv, StartShape, RunsOnStart, SourceIsReady, ClockIsStable
  <2>5. CASE EnablesPll
    <3>1. /\ setup.pc = "pll" /\ sclk = "start" /\ sclk' = sclk
          /\ setup' = [setup EXCEPT !.pc = "wait_pll"]
          /\ osc'.ready = osc.ready /\ osc'.pllFrom = osc.pllFrom
          /\ DOMAIN osc' = DOMAIN osc
      BY <2>5 DEF EnablesPll, GoesTo, StartInv, StartShape, RunsOnStart
    <3> QED
      BY <3>1 DEF StartInv, StartShape, RunsOnStart, SourceIsReady, ClockIsStable
  <2>6. CASE WaitsForPll
    <3>1. /\ setup.pc = "wait_pll" /\ sclk = "start" /\ UNCHANGED <<osc, sclk>>
          /\ setup' = [setup EXCEPT !.pc = "unlock"] /\ "pll" \in osc.ready
      BY <2>6 DEF WaitsForPll, GoesTo, StartInv, RunsOnStart
    <3> QED
      BY <3>1 DEF StartInv, StartShape, RunsOnStart, SourceIsReady, ClockIsStable
  <2>7. CASE Unlocks
    <3>1. /\ setup.pc = "unlock" /\ sclk = "start" /\ UNCHANGED <<osc, sclk>>
          /\ setup' = [setup EXCEPT !.pc = "switch"]
      BY <2>7 DEF Unlocks, GoesTo, StartInv, RunsOnStart
    <3> QED
      BY <3>1 DEF StartInv, StartShape, RunsOnStart, SourceIsReady, ClockIsStable
  <2>8. CASE Switches_
    <3>1. /\ setup.pc = "switch" /\ sclk = "start" /\ UNCHANGED osc
          /\ setup' = [setup EXCEPT !.pc = "done"]
          /\ sclk' = IF ~unlocked THEN sclk
                     ELSE IF setup.factor = 0 THEN setup.source ELSE "pll"
      BY <2>8 DEF Switches_, GoesTo, StartInv, RunsOnStart
    <3>2. setup.source # "pll"
      BY SourceAssumption DEF StartInv, StartShape
    <3> QED
      BY <3>1, <3>2 DEF StartInv, StartShape, RunsOnStart, SourceIsReady, ClockIsStable
  <2>9. CASE StartupDone
    BY <2>9 DEF StartupDone, startVars, StartInv, StartShape, RunsOnStart,
       SourceIsReady, ClockIsStable
  <2> QED
    BY <2>1, <2>2, <2>3, <2>4, <2>5, <2>6, <2>7, <2>8, <2>9 DEF StartNext
<1> QED
  BY <1>1, <1>2, PTL DEF StartSpec

-----------------------------------------------------------------------------
(* The serial port.  What is to be sent is what the transmitter holds, the *)
(* byte being shifted first; a write that has found the data register      *)
(* empty still finds it empty.                                             *)

UartShape ==
  /\ DOMAIN uart = {"shift", "buffer", "received"}
  /\ DOMAIN wire = {"toSend", "inOrder"} /\ DOMAIN io = {"call", "ready"}
  /\ wire.inOrder

HeldInOrder ==
  \/ uart.shift = None /\ uart.buffer = None /\ wire.toSend = << >>
  \/ uart.buffer = None
     /\ \E b \in UsartBytes : uart.shift = <<b>> /\ wire.toSend = <<b>>
  \/ \E b, c \in UsartBytes :
       uart.shift = <<b>> /\ uart.buffer = <<c>> /\ wire.toSend = <<b, c>>

WriteFindsRoom ==
  io.ready /\ io.call \in {"Write", "NonBlockingWrite"} => uart.buffer = None

UartInv == UartShape /\ HeldInOrder /\ WriteFindsRoom

LEMMA ByteSentKeeps == ASSUME UartInv, ByteSent PROVE UartInv'
<1>1. /\ uart'.shift = uart.buffer /\ uart'.buffer = None /\ uart.shift # None
      /\ DOMAIN uart' = DOMAIN uart /\ UNCHANGED io
  BY DEF ByteSent, UartInv, UartShape
<1>2. /\ wire'.toSend = Tail(wire.toSend) /\ DOMAIN wire' = DOMAIN wire
      /\ wire'.inOrder = (wire.inOrder /\ wire.toSend # None
                                       /\ uart.shift = <<Head(wire.toSend)>>)
  BY DEF ByteSent, UartInv, UartShape
<1>3. CASE \E b \in UsartBytes : /\ uart.shift = <<b>> /\ wire.toSend = <<b>>
                                 /\ uart.buffer = None
  <2>1. wire.toSend # None /\ uart.shift = <<Head(wire.toSend)>>
        /\ Tail(wire.toSend) = << >>
    BY <1>3 DEF None
  <2>2. wire'.inOrder
    BY <1>2, <2>1 DEF UartInv, UartShape
  <2> QED
    BY <1>1, <1>2, <2>1, <2>2 DEF UartInv, UartShape, HeldInOrder,
       WriteFindsRoom, None
<1>4. CASE \E b, c \in UsartBytes :
             uart.shift = <<b>> /\ uart.buffer = <<c>> /\ wire.toSend = <<b, c>>
  <2>1. PICK b \in UsartBytes, c \in UsartBytes :
             uart.shift = <<b>> /\ uart.buffer = <<c>> /\ wire.toSend = <<b, c>>
    BY <1>4
  <2>2. wire.toSend # None /\ Head(wire.toSend) = b /\ Tail(wire.toSend) = <<c>>
    BY <2>1 DEF None
  <2>3. wire'.inOrder
    BY <1>2, <2>1, <2>2 DEF UartInv, UartShape
  <2> QED
    BY <1>1, <1>2, <2>1, <2>2, <2>3 DEF UartInv, UartShape, HeldInOrder,
       WriteFindsRoom
<1> QED
  BY <1>1, <1>3, <1>4 DEF UartInv, HeldInOrder

LEMMA SendsKeeps == ASSUME UartInv, Sends PROVE UartInv'
<1>1. PICK b \in UsartBytes :
        /\ uart' = IF uart.shift = None THEN [uart EXCEPT !.shift = <<b>>]
                                        ELSE [uart EXCEPT !.buffer = <<b>>]
        /\ wire' = [wire EXCEPT !.toSend = Append(@, b)]
  BY DEF Sends
<1>2. /\ uart.buffer = None
      /\ io'.ready = FALSE /\ DOMAIN io' = {"call", "ready"}
  BY DEF Sends, UartInv, WriteFindsRoom
<1>3. /\ wire'.toSend = Append(wire.toSend, b) /\ wire'.inOrder
      /\ UartShape'
  BY <1>1, <1>2 DEF UartInv, UartShape
<1>4. CASE uart.shift = None
  <2>1. uart'.shift = <<b>> /\ uart'.buffer = None /\ wire.toSend = << >>
    BY <1>1, <1>2, <1>4 DEF UartInv, UartShape, HeldInOrder, None
  <2>2. wire'.toSend = <<b>>
    BY <1>3, <2>1
  <2> QED
    BY <1>2, <1>3, <2>1, <2>2 DEF UartInv, HeldInOrder, WriteFindsRoom
<1>5. CASE uart.shift # None
  <2>1. PICK a \in UsartBytes : uart.shift = <<a>> /\ wire.toSend = <<a>>
    BY <1>2, <1>5 DEF UartInv, HeldInOrder, None
  <2>2. uart'.shift = <<a>> /\ uart'.buffer = <<b>>
    BY <1>1, <1>5, <2>1 DEF UartInv, UartShape
  <2>3. Append(<<a>>, b) = <<a, b>>
    <3>1. <<a>> \in Seq(UsartBytes) /\ <<a, b>> \in Seq(UsartBytes)
      OBVIOUS
    <3>2. /\ Len(Append(<<a>>, b)) = 2 /\ Append(<<a>>, b)[1] = a
          /\ Append(<<a>>, b)[2] = b /\ Append(<<a>>, b) \in Seq(UsartBytes)
      BY <3>1, AppendProperties
    <3>3. Append(<<a>>, b) = [i \in 1 .. 2 |-> Append(<<a>>, b)[i]]
      BY <3>2, LenProperties
    <3>4. <<a, b>> = [i \in 1 .. 2 |-> <<a, b>>[i]]
      OBVIOUS
    <3>5. \A i \in 1 .. 2 : Append(<<a>>, b)[i] = <<a, b>>[i]
      BY <3>2
    <3> QED
      BY <3>3, <3>4, <3>5, Zenon
  <2>4. wire'.toSend = <<a, b>>
    BY <1>3, <2>1, <2>3
  <2> QED
    BY <1>2, <1>3, <2>2, <2>4 DEF UartInv, HeldInOrder, WriteFindsRoom
<1> QED
  BY <1>4, <1>5

LEMMA UartInvariance == UartSpec => []UartInv
<1>1. UartInit => UartInv
  BY DEF UartInit, UartInv, UartShape, HeldInOrder, WriteFindsRoom
<1>2. UartInv /\ [UartNext]_uartVars => UartInv'
  <2> SUFFICES ASSUME UartInv, [UartNext]_uartVars PROVE UartInv'
    OBVIOUS
  <2>1. CASE UNCHANGED uartVars
    BY <2>1 DEF uartVars, UartInv, UartShape, HeldInOrder, WriteFindsRoom
  <2>2. CASE ByteComes \/ Takes
    <3>1. /\ uart'.shift = uart.shift /\ uart'.buffer = uart.buffer
          /\ DOMAIN uart' = DOMAIN uart /\ UNCHANGED wire
          /\ \/ UNCHANGED io
             \/ io'.ready = FALSE /\ DOMAIN io' = {"call", "ready"}
      BY <2>2 DEF ByteComes, Takes, UartInv, UartShape
    <3> QED
      BY <3>1 DEF UartInv, UartShape, HeldInOrder, WriteFindsRoom
  <2>3. CASE Polls
    <3>1. /\ io'.ready /\ io'.call \in {"Write", "NonBlockingWrite"} =>
               WritableBuffer
          /\ DOMAIN io' = {"call", "ready"}
      BY <2>3 DEF Polls
    <3>2. UNCHANGED <<uart, wire>>
      BY <2>3 DEF Polls
    <3> QED
      BY <3>1, <3>2 DEF UartInv, UartShape, HeldInOrder, WriteFindsRoom,
         WritableBuffer
  <2> QED
    BY <2>1, <2>2, <2>3, ByteSentKeeps, SendsKeeps DEF UartNext
<1> QED
  BY <1>1, <1>2, PTL DEF UartSpec

LEMMA HeldAreSent == UartInv => BytesInOrder
<1> SUFFICES ASSUME UartInv PROVE BytesInOrder
  OBVIOUS
<1>1. Len(wire.toSend) = Len(uart.shift) + Len(uart.buffer)
  <2>1. CASE uart.shift = None /\ uart.buffer = None /\ wire.toSend = << >>
    BY <2>1 DEF None
  <2>2. CASE uart.buffer = None
             /\ \E b \in UsartBytes : uart.shift = <<b>> /\ wire.toSend = <<b>>
    BY <2>2 DEF None
  <2>3. CASE \E b, c \in UsartBytes :
               uart.shift = <<b>> /\ uart.buffer = <<c>> /\ wire.toSend = <<b, c>>
    <3>1. PICK b \in UsartBytes, c \in UsartBytes :
               uart.shift = <<b>> /\ uart.buffer = <<c>> /\ wire.toSend = <<b, c>>
      BY <2>3
    <3>2. Len(<<b, c>>) = 2 /\ Len(<<b>>) = 1 /\ Len(<<c>>) = 1
      OBVIOUS
    <3> QED
      BY <3>1, <3>2
  <2> QED
    BY <2>1, <2>2, <2>3 DEF UartInv, HeldInOrder
<1> QED
  BY <1>1 DEF UartInv, UartShape, BytesInOrder

-----------------------------------------------------------------------------
(* The SPI masters.  Outside of Wait nothing is being exchanged and the    *)
(* flag of the SPI is one whose status has been read, so that the next     *)
(* write clears it; in Wait the flag tells that the exchange is over.  Of  *)
(* the USART all this is true of the first byte.                           *)

SpiShape ==
  /\ master \in {"spi", "usart"}
  /\ hw \in [shifting : BOOLEAN, buffered : BOOLEAN, flag : BOOLEAN,
             statusRead : BOOLEAN, received : Seq(Replies)]
  /\ DOMAIN exchange = {"sends", "reply", "result", "cut"}
  /\ exchange.sends \in 0 .. 2

AtRest ==
  step # "wait" => /\ ~hw.shifting
                   /\ master = "spi" => hw.statusRead = hw.flag

InWait ==
  step = "wait" =>
    /\ hw.flag = ~hw.shifting
    /\ ~hw.shifting => hw.received = <<exchange.reply>>
    /\ master = "spi" => ~hw.statusRead
    /\ exchange.sends >= 1

FirstByte ==
  master = "usart" =>
    /\ exchange.sends = 0 => /\ step # "wait" /\ ~hw.flag /\ hw.received = << >>
    /\ exchange.sends = 1 /\ hw.shifting => hw.received = << >>

SpiInv ==
  /\ SpiShape
  /\ master = "spi" \/ exchange.sends < 2 =>
       /\ ~hw.buffered /\ ~exchange.cut /\ exchange.result \in {Idle, "right"}
       /\ AtRest /\ InWait /\ FirstByte

LEMMA ExchangeEndsKeeps == ASSUME SpiInv, ExchangeEnds PROVE SpiInv'
<1>1. PICK reply \in Replies :
        /\ hw' = [hw EXCEPT
             !.shifting = hw.buffered, !.buffered = FALSE,
             !.flag = @ \/ ~hw.buffered,
             !.received = IF master = "spi" THEN <<reply>>
                          ELSE IF Len(@) = 2 THEN @ ELSE Append(@, reply)]
        /\ exchange' = [exchange EXCEPT !.reply = IF hw.buffered THEN @ ELSE reply]
  BY DEF ExchangeEnds
<1>2. hw.shifting /\ UNCHANGED <<master, slaveSelect, script, step>>
  BY DEF ExchangeEnds
<1>3. /\ hw'.shifting = hw.buffered /\ hw'.buffered = FALSE
      /\ hw'.flag = (hw.flag \/ ~hw.buffered)
      /\ hw'.statusRead = hw.statusRead
      /\ hw'.received = IF master = "spi" THEN <<reply>>
                        ELSE IF Len(hw.received) = 2 THEN hw.received
                        ELSE Append(hw.received, reply)
      /\ DOMAIN hw' = DOMAIN hw
  BY <1>1 DEF SpiInv, SpiShape
<1>4. /\ exchange'.reply = IF hw.buffered THEN exchange.reply ELSE reply
      /\ exchange'.sends = exchange.sends /\ exchange'.cut = exchange.cut
      /\ exchange'.result = exchange.result
      /\ DOMAIN exchange' = DOMAIN exchange
  BY <1>1 DEF SpiInv, SpiShape
<1>5. SpiShape'
  <2>1. hw'.received \in Seq(Replies)
    BY <1>3 DEF SpiInv, SpiShape
  <2>2. /\ hw.buffered \in BOOLEAN /\ (hw.flag \/ ~hw.buffered) \in BOOLEAN
        /\ hw.statusRead \in BOOLEAN
    BY DEF SpiInv, SpiShape
  <2>3. hw' \in [shifting : BOOLEAN, buffered : BOOLEAN, flag : BOOLEAN,
                 statusRead : BOOLEAN, received : Seq(Replies)]
    BY <1>1, <1>3, <2>1, <2>2 DEF SpiInv, SpiShape
  <2> QED
    BY <1>2, <1>4, <2>3 DEF SpiInv, SpiShape
<1>6. ASSUME master = "spi" \/ exchange.sends < 2
      PROVE  /\ ~hw'.buffered /\ ~exchange'.cut /\ exchange'.result \in {Idle, "right"}
             /\ AtRest' /\ InWait' /\ FirstByte'
  <2>1. /\ ~hw.buffered /\ ~exchange.cut /\ exchange.result \in {Idle, "right"}
        /\ AtRest /\ InWait /\ FirstByte
    BY <1>6 DEF SpiInv
  <2>2. step = "wait" /\ ~hw'.shifting /\ hw'.flag /\ exchange'.reply = reply
    BY <1>2, <1>3, <1>4, <2>1 DEF AtRest
  <2>3. hw'.received = <<reply>>
    <3>1. CASE master = "spi"
      BY <1>3, <3>1
    <3>2. CASE master = "usart"
      <4>1. exchange.sends = 1 /\ hw.received = << >>
        BY <1>2, <1>6, <2>1, <2>2, <3>2 DEF FirstByte, InWait, SpiInv, SpiShape
      <4> QED
        BY <1>3, <3>2, <4>1
    <3> QED
      BY <3>1, <3>2 DEF SpiInv, SpiShape
  <2> QED
    BY <1>2, <1>3, <1>4, <2>1, <2>2, <2>3 DEF AtRest, InWait, FirstByte
<1> QED
  BY <1>2, <1>4, <1>5, <1>6 DEF SpiInv

LEMMA SelectingKeeps ==
  ASSUME SpiInv, Begin \/ End \/ StrobeHigh \/ StrobeLow
  PROVE  SpiInv'
<1>1. PICK level \in {"low", "high"} :
        exchange' = [exchange EXCEPT !.cut = @ \/ (level = "high" /\ hw.shifting)]
  BY DEF Begin, End, StrobeHigh, StrobeLow, Selects
<1>2. UNCHANGED <<master, hw>> /\ step # "wait" /\ step' # "wait"
  BY DEF Begin, End, StrobeHigh, StrobeLow, Calls, Idle
<1>3. /\ exchange'.cut = (exchange.cut \/ (level = "high" /\ hw.shifting))
      /\ exchange'.reply = exchange.reply /\ exchange'.sends = exchange.sends
      /\ exchange'.result = exchange.result
      /\ DOMAIN exchange' = DOMAIN exchange
  BY <1>1 DEF SpiInv, SpiShape
<1>4. SpiShape'
  BY <1>2, <1>3 DEF SpiInv, SpiShape
<1>5. ASSUME master = "spi" \/ exchange.sends < 2
      PROVE  /\ ~hw'.buffered /\ ~exchange'.cut /\ exchange'.result \in {Idle, "right"}
             /\ AtRest' /\ InWait' /\ FirstByte'
  <2>1. /\ ~hw.buffered /\ ~exchange.cut /\ exchange.result \in {Idle, "right"}
        /\ AtRest /\ InWait /\ FirstByte
    BY <1>5 DEF SpiInv
  <2>2. ~hw.shifting
    BY <1>2, <2>1 DEF AtRest
  <2>3. ~exchange'.cut
    BY <1>3, <2>1, <2>2
  <2> QED
    BY <1>2, <1>3, <2>1, <2>3 DEF AtRest, InWait, FirstByte
<1> QED
  BY <1>2, <1>3, <1>4, <1>5 DEF SpiInv

LEMMA OverwriteKeeps == ASSUME SpiInv, Overwrite_ PROVE SpiInv'
<1>1. /\ step # "wait" /\ step' = "wait" /\ UNCHANGED <<master, slaveSelect, script>>
      /\ hw' = [Acknowledged(hw) EXCEPT !.shifting = TRUE,
                     !.buffered = hw.shifting /\ master = "usart"]
      /\ exchange' = [exchange EXCEPT !.reply = Idle,
                                      !.sends = IF @ < 2 THEN @ + 1 ELSE @]
  BY DEF Overwrite_, Calls, Idle
<1>2. /\ hw'.shifting = TRUE /\ hw'.buffered = (hw.shifting /\ master = "usart")
      /\ hw'.received = hw.received
      /\ hw'.flag = IF master = "spi" /\ hw.statusRead THEN FALSE ELSE hw.flag
      /\ hw'.statusRead = IF master = "spi" /\ hw.statusRead THEN FALSE
                          ELSE hw.statusRead
      /\ hw' \in [shifting : BOOLEAN, buffered : BOOLEAN, flag : BOOLEAN,
                  statusRead : BOOLEAN, received : Seq(Replies)]
  <2>1. CASE master = "spi" /\ hw.statusRead
    BY <1>1, <2>1 DEF Acknowledged, SpiInv, SpiShape
  <2>2. CASE ~(master = "spi" /\ hw.statusRead)
    BY <1>1, <2>2 DEF Acknowledged, SpiInv, SpiShape
  <2> QED
    BY <2>1, <2>2
<1>3. /\ exchange'.reply = Idle
      /\ exchange'.sends = IF exchange.sends < 2 THEN exchange.sends + 1
                           ELSE exchange.sends
      /\ exchange'.cut = exchange.cut /\ exchange'.result = exchange.result
      /\ DOMAIN exchange' = DOMAIN exchange
  BY <1>1 DEF SpiInv, SpiShape
<1>4. SpiShape'
  BY <1>1, <1>2, <1>3 DEF SpiInv, SpiShape
<1>5. ASSUME master = "spi" \/ exchange'.sends < 2
      PROVE  /\ ~hw'.buffered /\ ~exchange'.cut /\ exchange'.result \in {Idle, "right"}
             /\ AtRest' /\ InWait' /\ FirstByte'
  <2>1. master = "spi" \/ exchange.sends = 0
    BY <1>3, <1>5 DEF SpiInv, SpiShape
  <2>2. /\ ~hw.buffered /\ ~exchange.cut /\ exchange.result \in {Idle, "right"}
        /\ AtRest /\ InWait /\ FirstByte
    BY <2>1 DEF SpiInv
  <2>3. ~hw.shifting
    BY <1>1, <2>2 DEF AtRest
  <2>4. ~hw'.buffered /\ ~hw'.flag /\ (master = "spi" => ~hw'.statusRead)
    BY <1>1, <1>2, <2>1, <2>2, <2>3 DEF AtRest, FirstByte, SpiInv, SpiShape
  <2>5. exchange'.sends >= 1
    BY <1>3 DEF SpiInv, SpiShape
  <2>6. master = "usart" => hw'.received = << >> /\ exchange'.sends = 1
    BY <1>2, <1>3, <2>1, <2>2 DEF FirstByte
  <2>7. hw'.flag = ~hw'.shifting
    BY <1>2, <2>4
  <2> QED
    BY <1>1, <1>2, <1>3, <2>2, <2>4, <2>5, <2>6, <2>7 DEF AtRest, InWait, FirstByte
<1> QED
  BY <1>1, <1>4, <1>5 DEF SpiInv

LEMMA SentKeeps == ASSUME SpiInv, Sent PROVE SpiInv'
<1>1. /\ step = "wait" /\ step' # "wait" /\ hw.flag
      /\ hw' = [hw EXCEPT !.statusRead = hw.flag]
      /\ UNCHANGED <<master, slaveSelect, exchange>>
  BY DEF Sent, WaitIsOver, Idle
<1>2. /\ hw'.shifting = hw.shifting /\ hw'.buffered = hw.buffered
      /\ hw'.flag = hw.flag /\ hw'.received = hw.received
      /\ hw'.statusRead = hw.flag
      /\ hw' \in [shifting : BOOLEAN, buffered : BOOLEAN, flag : BOOLEAN,
                  statusRead : BOOLEAN, received : Seq(Replies)]
  BY <1>1 DEF SpiInv, SpiShape
<1>3. SpiShape'
  BY <1>1, <1>2 DEF SpiInv, SpiShape
<1> QED
  BY <1>1, <1>2, <1>3 DEF SpiInv, AtRest, InWait, FirstByte, SpiShape

LEMMA ReceivedKeeps == ASSUME SpiInv, Received PROVE SpiInv'
<1> DEFINE h == Acknowledged([hw EXCEPT !.statusRead = hw.flag])
           result == IF h.received = << >> THEN "nothing"
                     ELSE IF h.received[1] = exchange.reply THEN "right" ELSE "wrong"
           left == IF h.received = << >> \/ master = "spi" THEN h.received
                   ELSE Tail(h.received)
<1>1. /\ step = "wait" /\ step' # "wait" /\ hw.flag
      /\ exchange' = [exchange EXCEPT !.result = result]
      /\ hw' = [h EXCEPT !.received = left]
      /\ UNCHANGED <<master, slaveSelect>>
  BY DEF Received, WaitIsOver, Idle
<1>2. /\ h \in [shifting : BOOLEAN, buffered : BOOLEAN, flag : BOOLEAN,
                statusRead : BOOLEAN, received : Seq(Replies)]
      /\ h.shifting = hw.shifting /\ h.buffered = hw.buffered
      /\ h.received = hw.received
      /\ master = "spi" => ~h.flag /\ ~h.statusRead
      /\ master = "usart" => h.flag
  <2> DEFINE r == [hw EXCEPT !.statusRead = hw.flag]
  <2>1. /\ r \in [shifting : BOOLEAN, buffered : BOOLEAN, flag : BOOLEAN,
                  statusRead : BOOLEAN, received : Seq(Replies)]
        /\ r.shifting = hw.shifting /\ r.buffered = hw.buffered
        /\ r.flag = hw.flag /\ r.received = hw.received /\ r.statusRead = hw.flag
    BY DEF SpiInv, SpiShape
  <2> HIDE DEF r
  <2>2. h = Acknowledged(r)
    BY DEF r
  <2> HIDE DEF h
  <2>3. CASE master = "spi"
    BY <1>1, <2>1, <2>2, <2>3 DEF Acknowledged
  <2>4. CASE master # "spi"
    BY <1>1, <2>1, <2>2, <2>4 DEF Acknowledged
  <2> QED
    BY <2>3, <2>4
<1> HIDE DEF h
<1>3. left \in Seq(Replies)
  BY <1>2
<1>4. /\ hw'.shifting = hw.shifting /\ hw'.buffered = hw.buffered
      /\ hw'.received = left /\ hw'.flag = h.flag /\ hw'.statusRead = h.statusRead
      /\ hw' \in [shifting : BOOLEAN, buffered : BOOLEAN, flag : BOOLEAN,
                  statusRead : BOOLEAN, received : Seq(Replies)]
  BY <1>1, <1>2, <1>3
<1>5. /\ exchange'.result = result /\ exchange'.cut = exchange.cut
      /\ exchange'.sends = exchange.sends /\ exchange'.reply = exchange.reply
      /\ DOMAIN exchange' = DOMAIN exchange
  BY <1>1 DEF SpiInv, SpiShape
<1>6. SpiShape'
  BY <1>1, <1>4, <1>5 DEF SpiInv, SpiShape
<1>7. ASSUME master = "spi" \/ exchange.sends < 2
      PROVE  /\ ~hw'.buffered /\ ~exchange'.cut /\ exchange'.result \in {Idle, "right"}
             /\ AtRest' /\ InWait' /\ FirstByte'
  <2>1. /\ ~hw.buffered /\ ~exchange.cut
        /\ AtRest /\ InWait /\ FirstByte
    BY <1>7 DEF SpiInv
  <2>2. ~hw.shifting /\ hw.received = <<exchange.reply>> /\ exchange.sends >= 1
    BY <1>1, <2>1 DEF InWait
  <2>3. result = "right"
    BY <1>2, <2>2
  <2> QED
    BY <1>1, <1>2, <1>4, <1>5, <2>1, <2>2, <2>3
       DEF AtRest, InWait, FirstByte, SpiInv, SpiShape
<1> QED
  BY <1>1, <1>5, <1>6, <1>7 DEF SpiInv

LEMMA SpiInvariance == SpiSpec => []SpiInv
<1>1. SpiInit => SpiInv
  BY DEF SpiInit, SpiInv, SpiShape, AtRest, InWait, FirstByte, Idle
<1>2. SpiInv /\ [SpiNext]_spiVars => SpiInv'
  <2> SUFFICES ASSUME SpiInv, [SpiNext]_spiVars PROVE SpiInv'
    OBVIOUS
  <2>1. CASE UNCHANGED spiVars
    BY <2>1 DEF spiVars, SpiInv, SpiShape, AtRest, InWait, FirstByte
  <2>2. CASE ScriptStarts
    BY <2>2 DEF ScriptStarts, SpiInv, SpiShape, AtRest, InWait, FirstByte
  <2> QED
    BY <2>1, <2>2, ExchangeEndsKeeps, SelectingKeeps, OverwriteKeeps,
       SentKeeps, ReceivedKeeps DEF SpiNext
<1> QED
  BY <1>1, <1>2, PTL DEF SpiSpec

\* The program uses the hardware when it is ready, whatever the order in which
\* the exchanges end, the bytes are sent, the oscillators settle and the
\* channels convert: of SPIMaster, and in
\* the first byte of UsartSPIMaster, no slave is deselected in an exchange; no
\* byte that Usart sends is stored over one that waits; a sample of the DAC is
\* lost in channel 1 only, and after a Wait for both; and the processor never runs
\* on an oscillator that is not ready.  Nothing is said of bytes coming in.
THEOREM HardwareIsReady ==
  SpiSpec /\ UartSpec /\ StartSpec /\ DacSpec => []UsedWhenReady
<1>1. SpiInv => ExchangesComplete
  BY DEF SpiInv, AtRest, ExchangesComplete, Idle
<1>2. SpiInv /\ UartInv /\ StartInv /\ DacInv => UsedWhenReady
  BY <1>1, HeldAreSent DEF StartInv, DacInv, UsedWhenReady
<1> QED
  BY <1>2, SpiInvariance, UartInvariance, StartInvariance, DacInvariance, PTL

-----------------------------------------------------------------------------
(* The scanner.  The converter holds the pin that Read will store next;    *)
(* the threshold in force is the one asked for, but between the two bytes  *)
(* of a store, when its low byte is.                                       *)

Level == Nat \cup {Unknown}

ScanTypes ==
  /\ scan_cycle_ \in Pots /\ value_ \in [Pots -> Nat] /\ thresholds_ \in [Pots -> Nat]
  /\ channel \in [pin : Pots, busy : BOOLEAN, flag : BOOLEAN, result : Int,
                  origin : Pots]
  /\ locking \in [pc : {"idle", "low", "high"}, i : Pots, level : Nat]
  /\ heard \in [from : [Pots -> Pots], latest : Pots, level : [Pots -> Level],
                last : [Pots -> Level], at : [Pots -> Level]]

PinIsNext ==
  /\ channel.pin = scan_cycle_
  /\ channel.flag => channel.origin = scan_cycle_

Between(i) == locking.pc = "high" /\ locking.i = i

InForce == \A i \in Pots :
  heard.level[i] # Unknown =>
    /\ ~Between(i) => thresholds_[i] = heard.level[i]
    /\ Between(i) => /\ heard.level[i] = locking.level
                     /\ Low(thresholds_[i]) = Low(locking.level)

AdcInv == ScanTypes /\ PinIsNext /\ InForce /\ AdcInStep /\ LockHolds

\* A number is its two bytes.
LEMMA BytesOf ==
  ASSUME NEW t \in Nat, NEW u \in Nat
  PROVE  /\ High(t) \in Nat /\ Low(t) \in Nat
         /\ High(t) * AdcByte + Low(t) = t
         /\ High(u) * AdcByte + Low(t) \in Nat
         /\ Low(High(u) * AdcByte + Low(t)) = Low(t)
<1> DEFINE n == AdcByte
<1>1. n \in Nat \ {0}
  BY ScanAssumption
<1> HIDE DEF n
<1>2. /\ t \div n \in Nat /\ t % n \in 0 .. n - 1
      /\ (t \div n) * n + (t % n) = t
  BY <1>1, SMT
<1>3. u \div n \in Nat
  BY <1>1, SMT
<1> DEFINE q == u \div n
           r == t % n
<1>4. (n * q + r) % n = r
  BY <1>1, <1>2, <1>3, RemainderIs
<1>5. q * n + r = n * q + r /\ q * n + r \in Nat
  BY <1>1, <1>2, <1>3
<1>6. (q * n + r) % n = r
  BY <1>4, <1>5
<1> QED
  BY <1>2, <1>3, <1>5, <1>6 DEF High, Low, n

\* The next input, and index() after it.
LEMMA NextInput ==
  ASSUME NEW i \in Pots
  PROVE  /\ (i + 1) % Inputs \in Pots
         /\ (IF (i + 1) % Inputs = 0 THEN Inputs - 1
             ELSE ((i + 1) % Inputs) - 1) = i
<1>1. /\ Masked(Inputs, i + 1) \in 0 .. Inputs - 1
      /\ Masked(Inputs, i + 1) = IF i + 1 < Inputs THEN i + 1 ELSE i + 1 - Inputs
  <2>1. Inputs \in Nat \ {0} /\ i \in 0 .. Inputs - 1 /\ 1 \in 0 .. Inputs
    BY ScanAssumption DEF Pots
  <2> QED
    BY <2>1, RingAdvance
<1> QED
  BY <1>1, ScanAssumption DEF Masked, Pots

LEMMA ScannerReadKeeps == ASSUME AdcInv, ScannerRead PROVE AdcInv'
<1> DEFINE i == scan_cycle_
           v == Clipped(channel.result)
           over == Distance(value_[i], v) >= thresholds_[i]
           level == heard.level[i]
           moved == level # Unknown /\ Distance(value_[i], v) >= level
           torn == locking.pc = "high" /\ locking.i = i
<1>1. /\ channel.flag
      /\ thresholds_' = [thresholds_ EXCEPT ![i] = IF over THEN Threshold
                                                   ELSE thresholds_[i]]
      /\ value_' = [value_ EXCEPT ![i] = IF over THEN v ELSE value_[i]]
      /\ scan_cycle_' = NextPot
      /\ channel' = [[channel EXCEPT !.pin = NextPot, !.busy = TRUE]
                       EXCEPT !.flag = FALSE]
      /\ heard' = HeardAfter(i, v) /\ UNCHANGED locking
  BY DEF ScannerRead, Scan, AtLeast, Started
<1>2. i \in Pots /\ v \in Nat /\ channel.origin = i
  BY <1>1 DEF AdcInv, ScanTypes, PinIsNext, Clipped
<1>3. /\ heard'.from = [heard.from EXCEPT ![i] = IF value_'[i] = value_[i]
                                                 THEN heard.from[i]
                                                 ELSE channel.origin]
      /\ heard'.latest = i
      /\ heard'.last = [heard.last EXCEPT ![i] = IF torn THEN Unknown ELSE v]
      /\ heard'.level = [heard.level EXCEPT ![i] = IF torn THEN Unknown
                                                   ELSE IF moved THEN Threshold
                                                   ELSE level]
      /\ heard'.at = [heard.at EXCEPT ![i] = IF torn \/ moved THEN Unknown
                                             ELSE heard.at[i]]
      /\ DOMAIN heard' = {"from", "latest", "last", "level", "at"}
  BY <1>1 DEF HeardAfter, AdcInv, ScanTypes
<1>4. Threshold \in Nat /\ Threshold > 0 /\ Unknown = -1 /\ Unknown \notin Nat
  BY ScanAssumption DEF Unknown
<1>5. InForce /\ AdcInStep /\ LockHolds
  BY DEF AdcInv
<1> HIDE DEF i, v
<1>6. ScanTypes'
  <2>1. scan_cycle_' \in Pots
    BY <1>1, NextInput DEF NextPot, AdcInv, ScanTypes
  <2>2. channel' \in [pin : Pots, busy : BOOLEAN, flag : BOOLEAN, result : Int,
                      origin : Pots]
    BY <1>1, <2>1 DEF AdcInv, ScanTypes
  <2>3. value_' \in [Pots -> Nat] /\ thresholds_' \in [Pots -> Nat]
    BY <1>1, <1>2, <1>4 DEF AdcInv, ScanTypes
  <2>4. /\ heard'.from \in [Pots -> Pots] /\ heard'.latest \in Pots
        /\ heard'.level \in [Pots -> Level] /\ heard'.last \in [Pots -> Level]
        /\ heard'.at \in [Pots -> Level]
    BY <1>2, <1>3, <1>4 DEF AdcInv, ScanTypes, Level
  <2>5. heard' \in [from : [Pots -> Pots], latest : Pots, level : [Pots -> Level],
                    last : [Pots -> Level], at : [Pots -> Level]]
    BY <1>1, <2>4 DEF HeardAfter, AdcInv, ScanTypes
  <2> QED
    BY <1>1, <2>1, <2>2, <2>3, <2>5 DEF AdcInv, ScanTypes
<1>7. PinIsNext'
  BY <1>1 DEF AdcInv, ScanTypes, PinIsNext
<1>8. AdcInStep'
  <2>1. Index' = i
    BY <1>1, <1>2, NextInput DEF Index, NextPot, i
  <2>2. \A j \in Pots : heard'.from[j] = j
    BY <1>2, <1>3, <1>5 DEF AdcInStep, AdcInv, ScanTypes
  <2> QED
    BY <1>3, <2>1, <2>2 DEF AdcInStep
<1>9. ASSUME NEW j \in Pots, j # i
      PROVE  /\ value_'[j] = value_[j] /\ thresholds_'[j] = thresholds_[j]
             /\ heard'.level[j] = heard.level[j] /\ heard'.last[j] = heard.last[j]
             /\ heard'.at[j] = heard.at[j] /\ Between(j)' = Between(j)
  BY <1>1, <1>2, <1>3, <1>9 DEF Between, AdcInv, ScanTypes
<1>10. /\ value_'[i] = IF over THEN v ELSE value_[i]
       /\ thresholds_'[i] = IF over THEN Threshold ELSE thresholds_[i]
       /\ heard'.last[i] = IF torn THEN Unknown ELSE v
       /\ heard'.level[i] = IF torn THEN Unknown ELSE IF moved THEN Threshold ELSE level
       /\ heard'.at[i] = IF torn \/ moved THEN Unknown ELSE heard.at[i]
  BY <1>1, <1>2, <1>3 DEF AdcInv, ScanTypes
<1>11. heard'.level[i] # Unknown =>
         ~torn /\ level # Unknown /\ thresholds_[i] = level /\ moved = over
  <2>1. CASE torn
    BY <1>10, <2>1
  <2>2. CASE ~torn /\ level = Unknown
    BY <1>10, <2>2
  <2>3. CASE ~torn /\ level # Unknown
    <3>1. thresholds_[i] = level
      BY <1>2, <1>5, <2>3 DEF InForce, Between
    <3> QED
      BY <2>3, <3>1
  <2> QED
    BY <2>1, <2>2, <2>3
<1>12. InForce'
  <2>1. ASSUME NEW j \in Pots, heard'.level[j] # Unknown, j # i
        PROVE  /\ ~Between(j)' => thresholds_'[j] = heard'.level[j]
               /\ Between(j)' => /\ heard'.level[j] = locking'.level
                                 /\ Low(thresholds_'[j]) = Low(locking'.level)
    BY <1>1, <1>5, <1>9, <2>1 DEF InForce
  <2>2. ASSUME NEW j \in Pots, heard'.level[j] # Unknown, j = i
        PROVE  thresholds_'[j] = heard'.level[j] /\ ~Between(j)'
    BY <1>1, <1>10, <1>11, <2>2 DEF Between
  <2> QED
    BY <2>1, <2>2 DEF InForce
<1>13. LockHolds'
  <2>1. ASSUME NEW j \in Pots, heard'.level[j] # Unknown, j # i
        PROVE  /\ heard'.at[j] # Unknown => value_'[j] = heard'.at[j]
               /\ heard'.last[j] # Unknown =>
                    Distance(value_'[j], heard'.last[j]) < heard'.level[j]
    BY <1>5, <1>9, <2>1 DEF LockHolds
  <2>2. ASSUME heard'.level[i] # Unknown
        PROVE  /\ heard'.at[i] # Unknown => value_'[i] = heard'.at[i]
               /\ Distance(value_'[i], heard'.last[i]) < heard'.level[i]
    <3>1. ~torn /\ level # Unknown /\ moved = over /\ heard'.last[i] = v
      BY <1>10, <1>11, <2>2
    <3>2. CASE over
      <4>1. Distance(v, v) = 0
        BY <1>2 DEF Distance
      <4> QED
        BY <1>4, <1>10, <3>1, <3>2, <4>1
    <3>3. CASE ~over
      <4>1. value_[i] \in Nat /\ level \in Nat /\ Distance(value_[i], v) \in Int
        BY <1>2, <3>1 DEF AdcInv, ScanTypes, Level, Distance
      <4>2. Distance(value_[i], v) < level
        BY <3>1, <3>3, <4>1
      <4> QED
        BY <1>2, <1>5, <1>10, <3>1, <3>3, <4>2 DEF LockHolds
    <3> QED
      BY <3>2, <3>3
  <2> QED
    BY <2>1, <2>2 DEF LockHolds
<1> QED
  BY <1>6, <1>7, <1>8, <1>12, <1>13 DEF AdcInv

LEMMA LockCallKeeps == ASSUME AdcInv, LockCall PROVE AdcInv'
<1>1. PICK level \in LockLevels : locking' = [pc |-> "low", i |-> 0, level |-> level]
  BY DEF LockCall
<1>2. UNCHANGED <<scan_cycle_, value_, thresholds_, channel, heard>>
      /\ locking.pc = "idle"
  BY DEF LockCall
<1>3. 0 \in Pots /\ level \in Nat
  BY ScanAssumption DEF Pots
<1>4. ScanTypes' /\ PinIsNext'
  BY <1>1, <1>2, <1>3 DEF AdcInv, ScanTypes, PinIsNext
<1>5. InForce'
  BY <1>1, <1>2 DEF AdcInv, InForce, Between
<1> QED
  BY <1>2, <1>4, <1>5 DEF AdcInv, AdcInStep, Index, LockHolds

LEMMA LockLowKeeps == ASSUME AdcInv, LockLow PROVE AdcInv'
<1> DEFINE i == locking.i
           low == High(thresholds_[i]) * AdcByte + Low(locking.level)
<1>1. /\ locking.pc = "low" /\ locking' = [locking EXCEPT !.pc = "high"]
      /\ thresholds_' = [thresholds_ EXCEPT ![i] = low]
      /\ UNCHANGED <<scan_cycle_, value_, channel>>
  BY DEF LockLow
<1>2. /\ heard'.level = [heard.level EXCEPT ![i] = locking.level]
      /\ heard'.last = [heard.last EXCEPT ![i] = Unknown]
      /\ heard'.at = [heard.at EXCEPT ![i] = value_[i]]
      /\ heard'.from = heard.from /\ heard'.latest = heard.latest
  BY DEF LockLow, AdcInv, ScanTypes
<1>3. /\ i \in Pots /\ locking.level \in Nat /\ thresholds_[i] \in Nat
      /\ value_[i] \in Nat /\ Unknown \notin Nat
  BY DEF AdcInv, ScanTypes, Unknown
<1>4. low \in Nat /\ Low(low) = Low(locking.level)
  BY <1>3, BytesOf
<1> HIDE DEF low
<1>5. /\ locking'.pc = "high" /\ locking'.i = i /\ locking'.level = locking.level
      /\ locking' \in [pc : {"idle", "low", "high"}, i : Pots, level : Nat]
  BY <1>1 DEF AdcInv, ScanTypes
<1>6. ScanTypes'
  <2>1. /\ heard'.level \in [Pots -> Level] /\ heard'.last \in [Pots -> Level]
        /\ heard'.at \in [Pots -> Level]
    BY <1>2, <1>3 DEF AdcInv, ScanTypes, Level
  <2>2. heard' \in [from : [Pots -> Pots], latest : Pots, level : [Pots -> Level],
                    last : [Pots -> Level], at : [Pots -> Level]]
    BY <1>2, <2>1 DEF LockLow, AdcInv, ScanTypes
  <2>3. thresholds_' \in [Pots -> Nat]
    BY <1>1, <1>3, <1>4 DEF AdcInv, ScanTypes
  <2> QED
    BY <1>1, <1>5, <2>2, <2>3 DEF AdcInv, ScanTypes
<1>7. PinIsNext' /\ AdcInStep'
  BY <1>1, <1>2 DEF AdcInv, PinIsNext, AdcInStep, Index
<1>8. InForce' /\ LockHolds'
  <2>1. ASSUME NEW j \in Pots, j # i, heard'.level[j] # Unknown
        PROVE  /\ thresholds_'[j] = heard'.level[j] /\ ~Between(j)'
               /\ heard'.at[j] # Unknown => value_'[j] = heard'.at[j]
               /\ heard'.last[j] # Unknown =>
                    Distance(value_'[j], heard'.last[j]) < heard'.level[j]
    BY <1>1, <1>2, <1>5, <2>1
       DEF AdcInv, ScanTypes, InForce, LockHolds, Between
  <2>2. ASSUME NEW j \in Pots, j = i
        PROVE  /\ Between(j)' /\ heard'.level[j] = locking'.level
               /\ Low(thresholds_'[j]) = Low(locking'.level)
               /\ value_'[j] = heard'.at[j] /\ heard'.last[j] = Unknown
    BY <2>2, <1>1, <1>2, <1>3, <1>4, <1>5 DEF Between, AdcInv, ScanTypes
  <2>3. InForce'
    BY <2>1, <2>2 DEF InForce
  <2>4. LockHolds'
    BY <2>1, <2>2 DEF LockHolds
  <2> QED
    BY <2>3, <2>4
<1> QED
  BY <1>6, <1>7, <1>8 DEF AdcInv

LEMMA LockHighKeeps == ASSUME AdcInv, LockHigh PROVE AdcInv'
<1> DEFINE i == locking.i
           t == High(locking.level) * AdcByte + Low(thresholds_[i])
<1>1. /\ locking.pc = "high" /\ thresholds_' = [thresholds_ EXCEPT ![i] = t]
      /\ locking' = IF i + 1 < Inputs
                    THEN [locking EXCEPT !.pc = "low", !.i = i + 1]
                    ELSE [pc |-> "idle", i |-> 0, level |-> Threshold]
      /\ UNCHANGED <<scan_cycle_, value_, channel, heard>>
  BY DEF LockHigh, Locked
<1>2. i \in Pots /\ locking.level \in Nat /\ thresholds_[i] \in Nat
  BY DEF AdcInv, ScanTypes
<1>3. /\ t \in Nat
      /\ Low(thresholds_[i]) = Low(locking.level) => t = locking.level
  BY <1>2, BytesOf
<1> HIDE DEF t
<1>4. /\ locking'.pc # "high"
      /\ locking' \in [pc : {"idle", "low", "high"}, i : Pots, level : Nat]
  <2>1. 0 \in Pots /\ Threshold \in Nat /\ (i + 1 < Inputs => i + 1 \in Pots)
    BY <1>2, ScanAssumption DEF Pots
  <2> QED
    BY <1>1, <2>1 DEF AdcInv, ScanTypes
<1>5. thresholds_' \in [Pots -> Nat]
  BY <1>1, <1>2, <1>3 DEF AdcInv, ScanTypes
<1>6. ScanTypes' /\ PinIsNext' /\ AdcInStep' /\ LockHolds'
  BY <1>1, <1>4, <1>5 DEF AdcInv, ScanTypes, PinIsNext, AdcInStep, Index, LockHolds
<1>7. InForce'
  <2>1. ASSUME NEW j \in Pots, heard.level[j] # Unknown
        PROVE  thresholds_'[j] = heard.level[j]
    <3>1. CASE j = i
      <4>1. Between(j)
        BY <1>1, <3>1 DEF Between
      <4> QED
        BY <1>1, <1>2, <1>3, <2>1, <3>1, <4>1 DEF AdcInv, ScanTypes, InForce
    <3>2. CASE j # i
      BY <1>1, <2>1, <3>2 DEF AdcInv, ScanTypes, InForce, Between
    <3> QED
      BY <3>1, <3>2
  <2> QED
    BY <1>1, <1>4, <2>1 DEF InForce, Between
<1> QED
  BY <1>6, <1>7 DEF AdcInv

LEMMA AdcInvariance == AdcSpec => []AdcInv
<1>1. AdcInit => AdcInv
  <2> SUFFICES ASSUME AdcInit PROVE AdcInv
    OBVIOUS
  <2>1. /\ 0 \in Pots /\ Inputs - 1 \in Pots /\ Threshold \in Nat
        /\ Unknown \in Level /\ Threshold \in Level
    BY ScanAssumption DEF Pots, Level
  <2>2. ScanTypes
    BY <2>1 DEF AdcInit, ScanTypes
  <2>3. PinIsNext /\ InForce /\ AdcInStep
    BY DEF AdcInit, PinIsNext, InForce, Between, AdcInStep, Index
  <2>4. LockHolds
    BY DEF AdcInit, LockHolds
  <2> QED
    BY <2>2, <2>3, <2>4 DEF AdcInv
<1>2. AdcInv /\ [AdcNext]_adcVars => AdcInv'
  <2> SUFFICES ASSUME AdcInv, [AdcNext]_adcVars PROVE AdcInv'
    OBVIOUS
  <2>1. CASE UNCHANGED adcVars
    BY <2>1 DEF adcVars, AdcInv, ScanTypes, PinIsNext, InForce, Between,
       AdcInStep, Index, LockHolds
  <2>2. CASE ConversionEnds
    <3>1. PICK r \in Readings :
            channel' = [channel EXCEPT !.busy = FALSE, !.flag = TRUE, !.result = r,
                                       !.origin = channel.pin]
      BY <2>2 DEF ConversionEnds
    <3>2. /\ UNCHANGED <<scan_cycle_, value_, thresholds_, locking, heard>>
          /\ channel'.pin = channel.pin /\ channel'.origin = channel.pin
          /\ channel' \in [pin : Pots, busy : BOOLEAN, flag : BOOLEAN,
                           result : Int, origin : Pots]
      BY <2>2, <3>1, ScanAssumption DEF ConversionEnds, AdcInv, ScanTypes
    <3> QED
      BY <3>2 DEF AdcInv, ScanTypes, PinIsNext, InForce, Between, AdcInStep,
         Index, LockHolds
  <2> QED
    BY <2>1, <2>2, ScannerReadKeeps, LockCallKeeps, LockLowKeeps, LockHighKeeps
       DEF AdcNext
<1> QED
  BY <1>1, <1>2, PTL DEF AdcSpec

\* What the scanner says of a pot is about that pot, for every number of inputs
\* and every range of readings and thresholds, wherever Read comes between the
\* stores of a Lock; and it follows the threshold the pot was locked with,
\* unless Read met that pot between the two bytes of its threshold.
THEOREM PotsStayTrue == AdcSpec => []PotsAreTrue
<1>1. AdcInv => PotsAreTrue
  BY DEF AdcInv, PotsAreTrue
<1> QED
  BY <1>1, AdcInvariance, PTL

-----------------------------------------------------------------------------
(* Events.  As long as none has been lost, the slots between the pointers  *)
(* hold the events that were added, and the program has a copy of the      *)
(* first one; the clock and the last touch are as far apart as their age.  *)

EvSlots == 0 .. QueueSize - 1

EvTypes ==
  /\ queue \in [slots : [EvSlots -> Nat], read : EvSlots, write : EvSlots]
  /\ program \in [pc : {"idle", "pull", "flush"}, seen : EvSlots,
                  got : {NoEvent} \cup (Nat \X Nat)]
  /\ DOMAIN sent = {"due", "overrun", "want"} /\ sent.due \in Seq(Wire)
  /\ touched \in [at : 0 .. EvClock - 1, now : 0 .. EvClock - 1, age : 0 .. EvClock]

LatchedIsRead == program.pc \in {"pull", "flush"} => program.seen = queue.read

SlotsHoldDue ==
  ~sent.overrun =>
    /\ Available = Len(sent.due)
    /\ \A k \in 1 .. Len(sent.due) :
         queue.slots[Masked(QueueSize, queue.read + k - 1)]
           = Packed(sent.due[k][1], sent.due[k][2])

PulledIsFirst ==
  ~sent.overrun /\ program.pc = "pull" =>
    /\ sent.due # << >> /\ sent.want = Head(sent.due)
    /\ program.got = [k \in 1 .. 2 |-> sent.want[k] % Nibble]

AgeIsDistance ==
  (touched.now - touched.at) % EvClock = touched.age % EvClock

EvInv == EvTypes /\ LatchedIsRead /\ SlotsHoldDue /\ PulledIsFirst /\ AgeIsDistance

\* Neither half of a packed event spoils the other.
LEMMA PackedHalves ==
  ASSUME NEW e \in Wire
  PROVE  /\ Packed(e[1], e[2]) \in Nat
         /\ Unpacked(Packed(e[1], e[2])) = [k \in 1 .. 2 |-> e[k] % Nibble]
<1> DEFINE n == Nibble
           a == e[1] % n
           b == e[2] % n
<1>1. n \in Nat \ {0} /\ e[1] \in Nat /\ e[2] \in Nat
  BY EventAssumption DEF Wire
<1>2. a \in 0 .. n - 1 /\ b \in 0 .. n - 1
  BY <1>1
<1>3. (e[1] * n) % (n * n) = n * a
  BY <1>1, ShiftedDigit
<1> HIDE DEF n, a, b
<1>4. Packed(e[1], e[2]) = n * a + b
  BY <1>3 DEF Packed, n, b
<1>5. (n * a + b) % n = b /\ (n * a + b) \div n = a
  BY <1>1, <1>2, Digits
<1>6. Unpacked(Packed(e[1], e[2])) = <<a, b>>
  BY <1>4, <1>5 DEF Unpacked, n
<1>7. <<a, b>> = [k \in 1 .. 2 |-> e[k] % n]
  BY DEF a, b
<1>8. n * a + b \in Nat
  BY <1>1, <1>2
<1> QED
  BY <1>4, <1>6, <1>7, <1>8 DEF n

LEMMA AddEventKeeps ==
  ASSUME EvInv, NEW e \in Wire, AddEvent(e[1], e[2])
  PROVE  EvInv'
<1> DEFINE n == QueueSize
           r == queue.read
           w == queue.write
           v == Packed(e[1], e[2])
<1>1. /\ n \in Nat \ {0} /\ r \in 0 .. n - 1 /\ w \in 0 .. n - 1 /\ v \in Nat
      /\ e = <<e[1], e[2]>>
  <2>1. n \in Nat \ {0} /\ r \in 0 .. n - 1 /\ w \in 0 .. n - 1
    BY EventAssumption DEF EvInv, EvTypes, EvSlots
  <2>2. v \in Nat
    BY PackedHalves
  <2>3. e = <<e[1], e[2]>>
    BY DEF Wire
  <2> QED
    BY <2>1, <2>2, <2>3
<1>2. /\ queue' = [queue EXCEPT !.slots[w] = v, !.write = Masked(n, w + 1)]
      /\ sent' = [sent EXCEPT !.due = Append(@, e),
                              !.overrun = @ \/ Available = n - 1]
      /\ UNCHANGED <<program, touched>>
  BY <1>1 DEF AddEvent
<1> HIDE DEF v
<1>3. /\ queue'.slots = [queue.slots EXCEPT ![w] = v]
      /\ queue'.write = Masked(n, w + 1) /\ queue'.read = r
      /\ DOMAIN queue' = DOMAIN queue
  BY <1>2 DEF EvInv, EvTypes
<1>4. /\ sent'.due = Append(sent.due, e) /\ sent'.want = sent.want
      /\ sent'.overrun = (sent.overrun \/ Available = n - 1)
      /\ DOMAIN sent' = DOMAIN sent
  BY <1>2 DEF EvInv, EvTypes
<1>5. /\ sent.due \in Seq(Wire) /\ sent'.due \in Seq(Wire)
      /\ Len(sent'.due) = Len(sent.due) + 1
      /\ \A k \in 1 .. Len(sent.due) : sent'.due[k] = sent.due[k]
      /\ sent'.due[Len(sent.due) + 1] = e
  BY <1>1, <1>4, AppendProperties DEF EvInv, EvTypes
<1>6. EvTypes'
  <2>1. Masked(n, w + 1) \in 0 .. n - 1
    BY <1>1, RingAdvance
  <2>2. queue' \in [slots : [EvSlots -> Nat], read : EvSlots, write : EvSlots]
    BY <1>1, <1>2, <2>1 DEF EvInv, EvTypes, EvSlots
  <2> QED
    BY <1>2, <1>4, <1>5, <2>2 DEF EvInv, EvTypes
<1>7. LatchedIsRead' /\ AgeIsDistance'
  BY <1>2, <1>3 DEF EvInv, LatchedIsRead, AgeIsDistance
<1>8. ASSUME ~sent'.overrun
      PROVE  /\ ~sent.overrun /\ Available = Len(sent.due)
             /\ Available < n - 1 /\ Available = Readable(n, r, w)
             /\ Available \in Nat
  <2>1. ~sent.overrun /\ Available # n - 1
    BY <1>4, <1>8
  <2>2. Available = Readable(n, r, w) /\ Readable(n, r, w) \in 0 .. n - 1
    BY <1>1, RingCases DEF Available
  <2> QED
    BY <1>1, <2>1, <2>2 DEF EvInv, SlotsHoldDue
<1>9. SlotsHoldDue'
  <2> SUFFICES ASSUME ~sent'.overrun
               PROVE  /\ Available' = Len(sent'.due)
                      /\ \A k \in 1 .. Len(sent'.due) :
                           queue'.slots[Masked(n, queue'.read + k - 1)]
                             = Packed(sent'.due[k][1], sent'.due[k][2])
    BY DEF SlotsHoldDue
  <2>1. Available' = Len(sent'.due)
    BY <1>1, <1>3, <1>5, <1>8, RingGrows DEF Available
  <2>2. ASSUME NEW k \in 1 .. Len(sent'.due)
        PROVE  queue'.slots[Masked(n, r + k - 1)]
                 = Packed(sent'.due[k][1], sent'.due[k][2])
    <3>1. k \in 1 .. n /\ k \in 1 .. Len(sent.due) + 1 /\ Len(sent.due) \in Nat
      BY <1>1, <1>5, <1>8, LenProperties
    <3>2. /\ Masked(n, r + k - 1) \in EvSlots
          /\ Masked(n, r + k - 1) = w <=> k = Len(sent.due) + 1
      <4>1. /\ Masked(n, r + k - 1) \in 0 .. n - 1
            /\ Masked(n, r + k - 1) = w <=> k = Readable(n, r, w) + 1
        BY <1>1, <3>1, RingSlots
      <4>2. Readable(n, r, w) = Len(sent.due)
        BY <1>8
      <4> QED
        BY <4>1, <4>2 DEF EvSlots
    <3>3. queue.slots \in [EvSlots -> Nat]
      BY DEF EvInv, EvTypes
    <3>4. CASE k = Len(sent.due) + 1
      BY <1>3, <1>5, <3>2, <3>3, <3>4 DEF v
    <3>5. CASE k \in 1 .. Len(sent.due)
      <4>1. queue.slots[Masked(n, r + k - 1)] = Packed(sent.due[k][1], sent.due[k][2])
        BY <1>8, <3>5 DEF EvInv, SlotsHoldDue
      <4> QED
        BY <1>3, <1>5, <3>1, <3>2, <3>3, <3>5, <4>1
    <3> QED
      BY <3>1, <3>4, <3>5
  <2> QED
    BY <1>3, <2>1, <2>2
<1>10. PulledIsFirst'
  <2> SUFFICES ASSUME ~sent'.overrun, program.pc = "pull"
               PROVE  sent'.due # << >> /\ sent'.want = Head(sent'.due)
                      /\ program.got = [k \in 1 .. 2 |-> sent'.want[k] % Nibble]
    BY <1>2 DEF PulledIsFirst
  <2>1. /\ sent.due # << >> /\ sent.want = Head(sent.due)
        /\ program.got = [k \in 1 .. 2 |-> sent.want[k] % Nibble]
    BY <1>8 DEF EvInv, PulledIsFirst
  <2>2. Head(sent'.due) = Head(sent.due) /\ sent'.due # << >>
    BY <1>5, <2>1, EmptySeq, LenProperties
  <2> QED
    BY <1>4, <2>1, <2>2
<1> QED
  BY <1>6, <1>7, <1>9, <1>10 DEF EvInv

LEMMA PullEventKeeps == ASSUME EvInv, PullEvent PROVE EvInv'
<1> DEFINE r == queue.read
           got == Unpacked(queue.slots[r])
           want == IF sent.due = << >> THEN NoEvent ELSE Head(sent.due)
<1>1. /\ Available > 0 /\ UNCHANGED <<queue, touched>>
      /\ program' = [program EXCEPT !.pc = "pull", !.seen = r, !.got = got]
      /\ sent' = [sent EXCEPT !.want = want]
  BY DEF PullEvent
<1>2. r \in EvSlots /\ queue.slots[r] \in Nat
  BY DEF EvInv, EvTypes
<1>3. got \in Nat \X Nat
  <2> DEFINE x == queue.slots[r]
             n == Nibble
  <2>1. x \in Nat /\ n \in Nat \ {0}
    BY <1>2, EventAssumption
  <2> HIDE DEF x, n
  <2>2. x \div n \in Nat /\ x % n \in Nat
    BY <2>1, SMT
  <2> QED
    BY <2>2 DEF Unpacked, x, n
<1> HIDE DEF got, want
<1>4. /\ program'.pc = "pull" /\ program'.seen = r /\ program'.got = got
      /\ program' \in [pc : {"idle", "pull", "flush"}, seen : EvSlots,
                       got : {NoEvent} \cup (Nat \X Nat)]
  BY <1>1, <1>2, <1>3 DEF EvInv, EvTypes
<1>5. /\ sent'.due = sent.due /\ sent'.overrun = sent.overrun /\ sent'.want = want
      /\ DOMAIN sent' = DOMAIN sent
  BY <1>1 DEF EvInv, EvTypes
<1>6. EvTypes' /\ LatchedIsRead' /\ SlotsHoldDue' /\ AgeIsDistance'
  BY <1>1, <1>4, <1>5 DEF EvInv, EvTypes, LatchedIsRead, SlotsHoldDue,
     AgeIsDistance, Available
<1>7. ASSUME ~sent.overrun
      PROVE  /\ sent.due # << >> /\ want = Head(sent.due)
             /\ got = [k \in 1 .. 2 |-> want[k] % Nibble]
  <2>1. /\ Available = Len(sent.due) /\ sent.due \in Seq(Wire)
        /\ \A k \in 1 .. Len(sent.due) :
             queue.slots[Masked(QueueSize, r + k - 1)]
               = Packed(sent.due[k][1], sent.due[k][2])
    BY <1>7 DEF EvInv, SlotsHoldDue, EvTypes
  <2>2. 1 \in 1 .. Len(sent.due) /\ sent.due # << >>
    BY <1>1, <2>1, EmptySeq, LenProperties
  <2>3. want = Head(sent.due) /\ Head(sent.due) = sent.due[1]
        /\ sent.due[1] \in Wire
    BY <2>1, <2>2, ElementOfSeq DEF want
  <2>4. Masked(QueueSize, r + 1 - 1) = r
    <3>1. QueueSize \in Nat \ {0} /\ r \in 0 .. QueueSize - 1
      BY <1>2, EventAssumption DEF EvSlots
    <3>2. Masked(QueueSize, r + 0) = r /\ r + 1 - 1 = r + 0
      BY <3>1, RingAdvance
    <3> QED
      BY <3>2
  <2>5. queue.slots[r] = Packed(want[1], want[2])
    BY <2>1, <2>2, <2>3, <2>4
  <2> QED
    BY <2>2, <2>3, <2>5, PackedHalves DEF got
<1>8. PulledIsFirst'
  BY <1>4, <1>5, <1>7 DEF PulledIsFirst
<1> QED
  BY <1>6, <1>8 DEF EvInv

LEMMA PullPublishKeeps == ASSUME EvInv, PullPublish PROVE EvInv'
<1> DEFINE n == QueueSize
           r == queue.read
           w == queue.write
           rest == IF sent.due = << >> THEN sent.due ELSE Tail(sent.due)
<1>1. /\ program.pc = "pull" /\ UNCHANGED touched
      /\ queue' = [queue EXCEPT !.read = Masked(n, r + 1)]
      /\ program' = [program EXCEPT !.pc = "idle", !.got = NoEvent]
      /\ sent' = [sent EXCEPT !.want = NoEvent, !.due = rest]
  BY DEF PullPublish, EvInv, LatchedIsRead
<1>2. n \in Nat \ {0} /\ r \in 0 .. n - 1 /\ w \in 0 .. n - 1
  BY EventAssumption DEF EvInv, EvTypes, EvSlots
<1>3. Masked(n, r + 1) \in 0 .. n - 1
  BY <1>2, RingAdvance
<1>4. rest \in Seq(Wire)
  BY HeadTailProperties DEF EvInv, EvTypes
<1> HIDE DEF rest
<1>5. /\ queue'.slots = queue.slots /\ queue'.write = w
      /\ queue'.read = Masked(n, r + 1) /\ sent'.due = rest
      /\ sent'.overrun = sent.overrun /\ program'.pc = "idle"
  BY <1>1 DEF EvInv, EvTypes
<1>6. EvTypes'
  <2>1. queue' \in [slots : [EvSlots -> Nat], read : EvSlots, write : EvSlots]
    BY <1>1, <1>3 DEF EvInv, EvTypes, EvSlots
  <2>2. program' \in [pc : {"idle", "pull", "flush"}, seen : EvSlots,
                      got : {NoEvent} \cup (Nat \X Nat)]
    BY <1>1 DEF EvInv, EvTypes
  <2>3. DOMAIN sent' = DOMAIN sent
    BY <1>1
  <2> QED
    BY <1>1, <1>4, <1>5, <2>1, <2>2, <2>3 DEF EvInv, EvTypes
<1>7. LatchedIsRead' /\ PulledIsFirst' /\ AgeIsDistance'
  BY <1>1, <1>5 DEF EvInv, LatchedIsRead, PulledIsFirst, AgeIsDistance
<1>8. SlotsHoldDue'
  <2> SUFFICES ASSUME ~sent.overrun
               PROVE  /\ Available' = Len(rest)
                      /\ \A k \in 1 .. Len(rest) :
                           queue.slots[Masked(n, Masked(n, r + 1) + k - 1)]
                             = Packed(rest[k][1], rest[k][2])
    BY <1>5 DEF SlotsHoldDue
  <2>1. /\ sent.due # << >> /\ sent.due \in Seq(Wire)
        /\ Readable(n, r, w) = Len(sent.due)
        /\ \A k \in 1 .. Len(sent.due) :
             queue.slots[Masked(n, r + k - 1)]
               = Packed(sent.due[k][1], sent.due[k][2])
    BY <1>1 DEF EvInv, EvTypes, SlotsHoldDue, PulledIsFirst, Available
  <2>2. /\ Len(sent.due) \in Nat /\ Len(sent.due) >= 1
        /\ rest = Tail(sent.due) /\ Len(rest) = Len(sent.due) - 1
        /\ \A k \in 1 .. Len(rest) : rest[k] = sent.due[k + 1]
    BY <2>1, HeadTailProperties, EmptySeq, LenProperties DEF rest
  <2>3. /\ Readable(n, Masked(n, r + 1), w) = Len(sent.due) - 1
        /\ \A k \in 1 .. n - 1 :
             Masked(n, Masked(n, r + 1) + k - 1) = Masked(n, r + k)
    BY <1>2, <2>1, <2>2, RingShrinks
  <2>4. Readable(n, r, w) \in 0 .. n - 1
    BY <1>2, RingCases
  <2>5. Available' = Len(rest)
    BY <1>5, <2>2, <2>3 DEF Available
  <2>6. ASSUME NEW k \in 1 .. Len(rest)
        PROVE  queue.slots[Masked(n, Masked(n, r + 1) + k - 1)]
                 = Packed(rest[k][1], rest[k][2])
    <3>1. /\ k \in 1 .. n - 1 /\ k + 1 \in 1 .. Len(sent.due)
          /\ r + (k + 1) - 1 = r + k
      BY <1>2, <2>1, <2>2, <2>4
    <3>2. queue.slots[Masked(n, r + (k + 1) - 1)]
            = Packed(sent.due[k + 1][1], sent.due[k + 1][2])
      BY <2>1, <3>1
    <3> QED
      BY <2>2, <2>3, <3>1, <3>2
  <2> QED
    BY <2>5, <2>6
<1> QED
  BY <1>6, <1>7, <1>8 DEF EvInv

LEMMA FlushKeeps == ASSUME EvInv, FlushLatch \/ FlushStore PROVE EvInv'
<1>1. CASE FlushLatch
  <2>1. /\ program'.pc = "flush" /\ program'.seen = queue.read
        /\ program' \in [pc : {"idle", "pull", "flush"}, seen : EvSlots,
                         got : {NoEvent} \cup (Nat \X Nat)]
        /\ UNCHANGED <<queue, touched, sent>>
    BY <1>1 DEF FlushLatch, EvInv, EvTypes
  <2> QED
    BY <2>1 DEF EvInv, EvTypes, LatchedIsRead, SlotsHoldDue, PulledIsFirst,
       AgeIsDistance, Available
<1>2. CASE FlushStore
  <2>1. /\ queue' = [queue EXCEPT !.write = queue.read]
        /\ program' = [program EXCEPT !.pc = "idle"]
        /\ sent' = [sent EXCEPT !.due = << >>, !.overrun = FALSE]
        /\ UNCHANGED touched
    BY <1>2 DEF FlushStore, EvInv, LatchedIsRead
  <2>2. /\ queue'.read = queue.read /\ queue'.write = queue.read
        /\ sent'.due = << >> /\ program'.pc = "idle"
        /\ DOMAIN sent' = DOMAIN sent
        /\ queue' \in [slots : [EvSlots -> Nat], read : EvSlots, write : EvSlots]
        /\ program' \in [pc : {"idle", "pull", "flush"}, seen : EvSlots,
                         got : {NoEvent} \cup (Nat \X Nat)]
    BY <2>1 DEF EvInv, EvTypes
  <2>3. Available' = 0
    <3> DEFINE n == QueueSize
               r == queue.read
    <3>1. n \in Nat \ {0} /\ r \in 0 .. n - 1
      BY EventAssumption DEF EvInv, EvTypes, EvSlots
    <3> HIDE DEF n, r
    <3>2. Readable(n, r, r) = IF r < r THEN r - r + n ELSE r - r
      BY <3>1, RingCases
    <3>3. Readable(n, r, r) = 0
      BY <3>1, <3>2
    <3> QED
      BY <2>2, <3>3 DEF Available, n, r
  <2>4. << >> \in Seq(Wire) /\ Len(<< >>) = 0
    OBVIOUS
  <2>5. EvTypes'
    BY <2>1, <2>2, <2>4 DEF EvInv, EvTypes
  <2>6. SlotsHoldDue'
    BY <2>2, <2>3, <2>4 DEF SlotsHoldDue
  <2> QED
    BY <2>1, <2>2, <2>5, <2>6 DEF EvInv, LatchedIsRead, PulledIsFirst, AgeIsDistance
<1> QED
  BY <1>1, <1>2

LEMMA TimeKeeps == ASSUME EvInv, Touch \/ ClockTicks PROVE EvInv'
<1> DEFINE n == EvClock
           now == touched.now
           at == touched.at
           age == touched.age
<1>1. n \in Nat \ {0}
  BY EventAssumption DEF EvClock
<1>2. /\ touched \in [at : 0 .. n - 1, now : 0 .. n - 1, age : 0 .. n]
      /\ (now - at) % n = age % n
  BY DEF EvInv, EvTypes, AgeIsDistance
<1>3. UNCHANGED <<queue, program, sent>>
  BY DEF Touch, ClockTicks
<1> HIDE DEF n
<1>4. /\ touched' \in [at : 0 .. n - 1, now : 0 .. n - 1, age : 0 .. n]
      /\ (touched'.now - touched'.at) % n = touched'.age % n
  <2>1. CASE Touch
    <3>1. touched' = [at |-> now, now |-> now, age |-> 0]
      BY <1>2, <2>1 DEF Touch
    <3>2. touched'.now - touched'.at = 0 /\ touched'.age = 0 /\ 0 % n = 0
      BY <1>1, <1>2, <3>1
    <3>3. touched' \in [at : 0 .. n - 1, now : 0 .. n - 1, age : 0 .. n]
      BY <1>1, <1>2, <3>1
    <3> QED
      BY <3>2, <3>3
  <2>2. CASE ClockTicks
    <3>1. touched' = [touched EXCEPT !.now = (now + 1) % n, !.age = age + 1]
          /\ age < n
      BY <2>2 DEF ClockTicks, n
    <3>2. (now + 1) % n \in 0 .. n - 1 /\ age + 1 \in 0 .. n
      BY <1>1, <1>2, <3>1
    <3>3. (((now + 1) % n) - at) % n = (age + 1) % n
      <4>1. now \in Int /\ at \in Int /\ age \in Int
        BY <1>2
      <4> HIDE DEF now, at, age
      <4> QED
        BY <1>1, <1>2, <4>1, TickedDistance
    <3>4. touched'.now = (now + 1) % n /\ touched'.at = at /\ touched'.age = age + 1
      BY <1>2, <3>1
    <3> QED
      BY <1>2, <3>1, <3>2, <3>3, <3>4
  <2> QED
    BY <2>1, <2>2
<1>5. EvTypes' /\ AgeIsDistance'
  BY <1>3, <1>4 DEF EvInv, EvTypes, AgeIsDistance, EvClock, n
<1> QED
  BY <1>3, <1>5 DEF EvInv, LatchedIsRead, SlotsHoldDue, PulledIsFirst, Available

LEMMA EvInvariance == EvSpec => []EvInv
<1>1. EvInit => EvInv
  <2> SUFFICES ASSUME EvInit PROVE EvInv
    OBVIOUS
  <2>1. /\ 0 \in EvSlots /\ EvClock \in Nat \ {0} /\ << >> \in Seq(Wire)
    BY EventAssumption DEF EvSlots, EvClock
  <2>2. EvTypes
    BY <2>1 DEF EvInit, EvTypes, EvSlots
  <2>3. Available = 0
    <3>1. QueueSize \in Nat \ {0} /\ 0 \in 0 .. QueueSize - 1
      BY EventAssumption
    <3>2. Readable(QueueSize, 0, 0) = 0
      BY <3>1, RingCases
    <3> QED
      BY <3>2 DEF EvInit, Available
  <2>4. AgeIsDistance /\ LatchedIsRead /\ PulledIsFirst
    BY DEF EvInit, AgeIsDistance, LatchedIsRead, PulledIsFirst
  <2>5. SlotsHoldDue
    BY <2>3 DEF EvInit, SlotsHoldDue
  <2> QED
    BY <2>2, <2>4, <2>5 DEF EvInv
<1>2. EvInv /\ [EvNext]_evVars => EvInv'
  <2> SUFFICES ASSUME EvInv, [EvNext]_evVars PROVE EvInv'
    OBVIOUS
  <2>1. CASE UNCHANGED evVars
    BY <2>1 DEF evVars, EvInv, EvTypes, LatchedIsRead, SlotsHoldDue,
       PulledIsFirst, AgeIsDistance, Available
  <2> QED
    BY <2>1, AddEventKeeps, PullEventKeeps, PullPublishKeeps, FlushKeeps,
       TimeKeeps DEF EvNext
<1> QED
  BY <1>1, <1>2, PTL DEF EvSpec

\* As long as no more events have come than the queue holds, the program pulls
\* those that were added, each once and in order, with both halves of each;
\* and the time since the last touch is right up to its 16 bits.  For every
\* size of the queue and of its digits, and every moment the handler comes at.
THEOREM UserStaysHeard == EvSpec => []UserIsHeard
<1>1. EvInv => UserIsHeard
  <2> SUFFICES ASSUME EvInv PROVE UserIsHeard
    OBVIOUS
  <2>1. EventsKept
    BY DEF EvInv, SlotsHoldDue, PulledIsFirst, EventsKept
  <2>2. IdleTimeRight
    <3> DEFINE b == EvByte
               n == EvClock
               age == touched.age
    <3>1. b \in Nat \ {0} /\ n = b * b /\ age \in 0 .. n
      BY EventAssumption DEF EvInv, EvTypes, EvClock
    <3>2. (touched.now - touched.at) % n = age % n
      BY DEF EvInv, AgeIsDistance
    <3> HIDE DEF b, n, age
    <3>3. b <= n /\ n \in Nat \ {0}
      BY <3>1
    <3>4. age < b => age % n = age /\ age % b = age
      BY <3>1, <3>3
    <3> QED
      BY <3>2, <3>4 DEF IdleTimeRight, IdleTimeMs, b, n, age
  <2> QED
    BY <2>1, <2>2 DEF UserIsHeard
<1> QED
  BY <1>1, EvInvariance, PTL

-----------------------------------------------------------------------------
(* DMA.  The hardware and the program are the two sides of one ring: what  *)
(* is between their positions are the numbers that were made last.         *)

Held(buf, r, w, m, t, a) ==
  /\ a = Readable(Slots, r, w)
  /\ m = (t + a) % Numbers
  /\ \A j \in 1 .. a : buf[Masked(Slots, r + j - 1)] = (t + j - 1) % Numbers

\* The counter of the channel, in values.
AtValue(k) == k \in 1 .. Slots /\ dma.trfcnt = ValueBytes * k

RingHeld ==
  ~line.missed =>
    IF dir = "rx" THEN Held(slots, ptr, HardwareAt, line.made, line.taken, line.ahead)
    ELSE Held(slots, HardwareAt, ptr, line.made, line.taken, line.ahead)

\* The side that has been granted a slot still has it: the other side only
\* adds to what there is, and to the room there is.
GrantLasts ==
  caller = "granted" /\ ~line.missed => IF dir = "rx" THEN line.ahead > 0
                                        ELSE line.ahead < Slots - 1

DmaShape ==
  /\ dir \in {"rx", "tx"}
  /\ DOMAIN dma = {"trfcnt", "enabled", "oneShot"} /\ \E k \in 1 .. Slots : AtValue(k)
  /\ slots \in [0 .. Slots - 1 -> 0 .. Numbers - 1] /\ ptr \in 0 .. Slots - 1
  /\ DOMAIN line = {"made", "taken", "ahead", "missed", "sent", "want"}
  /\ line.made \in 0 .. Numbers - 1 /\ line.taken \in 0 .. Numbers - 1
  /\ line.ahead \in Int

DmaInv == DmaShape /\ RingHeld /\ GrantLasts /\ DmaInOrder

LEMMA HeldPush ==
  ASSUME NEW buf \in [0 .. Slots - 1 -> 0 .. Numbers - 1],
         NEW r \in 0 .. Slots - 1, NEW w \in 0 .. Slots - 1,
         NEW m \in 0 .. Numbers - 1, NEW t \in 0 .. Numbers - 1, NEW a \in Int,
         Held(buf, r, w, m, t, a), a < Slots - 1
  PROVE  Held([buf EXCEPT ![w] = m], r, Masked(Slots, w + 1), NextNumber(m), t, a + 1)
<1> DEFINE n == Slots
           c == Numbers
           buf2 == [buf EXCEPT ![w] = m]
<1>1. /\ n \in Nat \ {0} /\ c \in Nat \ {0}
      /\ r \in 0 .. n - 1 /\ w \in 0 .. n - 1
  BY BlockAssumption
<1>2. /\ a = Readable(n, r, w) /\ m = (t + a) % c /\ a < n - 1
      /\ \A j \in 1 .. a : buf[Masked(n, r + j - 1)] = (t + j - 1) % c
  BY DEF Held
<1>3. buf \in [0 .. n - 1 -> 0 .. c - 1] /\ m \in 0 .. c - 1 /\ t \in 0 .. c - 1
  OBVIOUS
<1> HIDE DEF n, c
<1>4. a + 1 = Readable(n, r, Masked(n, w + 1)) /\ a \in 0 .. n - 1
  BY <1>1, <1>2, RingGrows, RingCases
<1>5. (m + 1) % c = (t + (a + 1)) % c
  <2> DEFINE x == t + a
  <2>1. x \in Int
    BY <1>3, <1>4
  <2> HIDE DEF x
  <2>2. ((x % c) + 1) % c = (x + 1) % c
    BY <1>1, <2>1, NextRemainder
  <2>3. x + 1 = t + (a + 1)
    BY <1>3, <1>4 DEF x
  <2> QED
    BY <1>2, <2>2, <2>3 DEF x
<1>6. ASSUME NEW j \in 1 .. a + 1
      PROVE  buf2[Masked(n, r + j - 1)] = (t + j - 1) % c
  <2>1. j \in 1 .. n
    BY <1>1, <1>2, <1>4
  <2>2. /\ Masked(n, r + j - 1) \in 0 .. n - 1
        /\ Masked(n, r + j - 1) = w <=> j = Readable(n, r, w) + 1
    BY <1>1, <2>1, RingSlots
  <2>3. CASE j = a + 1
    <3>1. buf2[Masked(n, r + j - 1)] = m
      BY <1>2, <1>3, <2>2, <2>3
    <3>2. t + j - 1 = t + a
      BY <1>3, <1>4, <2>3
    <3> QED
      BY <1>2, <3>1, <3>2
  <2>4. CASE j \in 1 .. a
    <3>1. Masked(n, r + j - 1) # w
      BY <1>2, <1>4, <2>2, <2>4
    <3> QED
      BY <1>2, <1>3, <2>2, <2>4, <3>1
  <2> QED
    BY <1>4, <2>3, <2>4
<1> QED
  BY <1>4, <1>5, <1>6 DEF Held, NextNumber, n, c

LEMMA HeldPop ==
  ASSUME NEW buf, NEW r \in 0 .. Slots - 1, NEW w \in 0 .. Slots - 1, NEW m,
         NEW t \in 0 .. Numbers - 1, NEW a \in Int,
         Held(buf, r, w, m, t, a), a >= 1
  PROVE  /\ buf[r] = t
         /\ Held(buf, Masked(Slots, r + 1), w, m, NextNumber(t), a - 1)
<1> DEFINE n == Slots
           c == Numbers
<1>1. /\ n \in Nat \ {0} /\ c \in Nat \ {0} /\ r \in 0 .. n - 1 /\ w \in 0 .. n - 1
      /\ t \in 0 .. c - 1
  BY BlockAssumption
<1>2. /\ a = Readable(n, r, w) /\ m = (t + a) % c
      /\ \A j \in 1 .. a : buf[Masked(n, r + j - 1)] = (t + j - 1) % c
  BY DEF Held
<1> HIDE DEF n, c
<1>3. a \in 0 .. n - 1
  BY <1>1, <1>2, RingCases
<1>4. buf[r] = t
  <2>1. buf[Masked(n, r + 1 - 1)] = (t + 1 - 1) % c
    BY <1>2
  <2>2. Masked(n, r + 0) = r /\ r + 1 - 1 = r + 0
    <3>1. 0 \in 0 .. n /\ r + 0 = r /\ r < n /\ r + 1 - 1 = r
      BY <1>1
    <3>2. Masked(n, r + 0) = IF r + 0 < n THEN r + 0 ELSE r + 0 - n
      BY <1>1, <3>1, RingAdvance
    <3> QED
      BY <3>1, <3>2
  <2>3. (t + 1 - 1) % c = t
    BY <1>1
  <2> QED
    BY <2>1, <2>2, <2>3
<1>5. /\ Readable(n, Masked(n, r + 1), w) = a - 1
      /\ \A k \in 1 .. n - 1 :
           Masked(n, Masked(n, r + 1) + k - 1) = Masked(n, r + k)
  BY <1>1, <1>2, RingShrinks
<1>6. ASSUME NEW i \in Int
      PROVE  (((t + 1) % c) + i) % c = (t + 1 + i) % c
  <2> DEFINE x == t + 1
             d == 0 - i
  <2>1. x \in Int /\ d \in Int
    BY <1>1
  <2> HIDE DEF x, d
  <2>2. ((x % c) - d) % c = (x - d) % c
    BY <1>1, <2>1, ModuloDifference
  <2>3. (x % c) - d = (x % c) + i /\ x - d = x + i
    BY <1>1, <2>1 DEF d
  <2> QED
    BY <2>2, <2>3 DEF x
<1>7. m = (NextNumber(t) + (a - 1)) % c
  <2>1. (((t + 1) % c) + (a - 1)) % c = (t + 1 + (a - 1)) % c
    BY <1>3, <1>6
  <2>2. t + 1 + (a - 1) = t + a
    BY <1>1, <1>3
  <2> QED
    BY <1>2, <2>1, <2>2 DEF NextNumber, c
<1>8. ASSUME NEW j \in 1 .. a - 1
      PROVE  buf[Masked(n, Masked(n, r + 1) + j - 1)] = (NextNumber(t) + j - 1) % c
  <2>1. j \in 1 .. n - 1 /\ j + 1 \in 1 .. a /\ r + (j + 1) - 1 = r + j
    BY <1>1, <1>3
  <2>2. buf[Masked(n, r + (j + 1) - 1)] = (t + (j + 1) - 1) % c
    BY <1>2, <2>1
  <2>3. Masked(n, Masked(n, r + 1) + j - 1) = Masked(n, r + j)
    BY <1>5, <2>1
  <2>4. (((t + 1) % c) + (j - 1)) % c = (t + 1 + (j - 1)) % c
    BY <1>6
  <2>5. /\ t + 1 + (j - 1) = t + (j + 1) - 1
        /\ NextNumber(t) + (j - 1) = NextNumber(t) + j - 1
    <3>1. NextNumber(t) \in Int
      BY <1>1 DEF NextNumber, c
    <3> QED
      BY <1>1, <3>1
  <2> QED
    BY <2>1, <2>2, <2>3, <2>4, <2>5 DEF NextNumber, c
<1> QED
  BY <1>4, <1>5, <1>7, <1>8 DEF Held, n, c

\* Where the hardware is, and that the program finds it there: only at the
\* start of a block, when the counter may be all of DmaByte, does it see the
\* end of the buffer instead, which is the same for readable and writable.
LEMMA HardwareIs ==
  ASSUME NEW k \in Int, AtValue(k)
  PROVE  /\ HardwareAt = Slots - k /\ HardwareAt \in 0 .. Slots - 1
         /\ \A p \in 0 .. Slots - 1 :
              /\ Readable(Slots, p, Position) = Readable(Slots, p, HardwareAt)
              /\ Writable(Slots, Position, p) = Writable(Slots, HardwareAt, p)
<1> DEFINE n == Slots
           v == ValueBytes
           b == DmaByte
           x == dma.trfcnt
<1>1. /\ n \in Nat \ {0} /\ v \in Nat \ {0} /\ b \in Nat \ {0} /\ n * v <= b
      /\ k \in 1 .. n /\ x = v * k
  BY BlockAssumption DEF AtValue
<1> HIDE DEF n, v, b, x
<1>2. x \div v = k
  <2>1. (v * k + 0) \div v = k /\ v * k + 0 = v * k
    BY <1>1, Digits
  <2> QED
    BY <1>1, <2>1
<1>3. HardwareAt = n - k /\ n - k \in 0 .. n - 1
  <2>1. n - k \in 0 .. n - 1
    BY <1>1
  <2>2. (n - k) % n = n - k
    BY <1>1, <2>1
  <2> QED
    BY <1>2, <2>1, <2>2 DEF HardwareAt, n, v, x
<1>4. Position = n - k \/ (Position = n /\ k = n)
  <2>1. v * k <= n * v /\ v * k \in Nat /\ (k < n => v * k < n * v)
    BY <1>1
  <2>2. CASE x < b
    <3>1. x % b = x
      BY <1>1, <2>1, <2>2
    <3> QED
      BY <1>2, <3>1 DEF Position, n, v, b, x
  <2>3. CASE x >= b
    <3>1. x = b /\ k = n
      BY <1>1, <2>1, <2>3
    <3>2. b % b = 0 /\ 0 \div v = 0 /\ n - 0 = n
      BY <1>1
    <3> QED
      BY <3>1, <3>2 DEF Position, n, v, b, x
  <2> QED
    BY <1>1, <2>1, <2>2, <2>3
<1>5. ASSUME NEW p \in 0 .. n - 1
      PROVE  /\ Readable(n, p, n) = Readable(n, p, 0)
             /\ Writable(n, n, p) = Writable(n, 0, p)
  <2>1. /\ Readable(n, p, 0) = IF 0 < p THEN 0 - p + n ELSE 0 - p
        /\ Writable(n, 0, p) = n - 1 - Readable(n, 0, p)
        /\ Readable(n, 0, p) = IF p < 0 THEN p - 0 + n ELSE p - 0
    <3>1. 0 \in 0 .. n - 1
      BY <1>1
    <3> QED
      BY <1>1, <3>1, RingCases
  <2>2. Readable(n, p, n) = IF 0 < p THEN n - p ELSE 0
    <3>1. CASE 0 < p
      <4>1. n - p \in 0 .. n - 1 /\ (n - p) % n = n - p
        BY <1>1, <3>1
      <4> QED
        BY <3>1, <4>1 DEF Readable, Masked
    <3>2. CASE p = 0
      <4>1. n - p = n /\ n % n = 0
        BY <1>1, <3>2
      <4> QED
        BY <3>2, <4>1 DEF Readable, Masked
    <3> QED
      BY <3>1, <3>2
  <2>3. Writable(n, n, p) = n - p - 1
    <3>1. n - p - 1 \in 0 .. n - 1 /\ (n - p - 1) % n = n - p - 1
      BY <1>1
    <3> QED
      BY <3>1 DEF Writable, Masked
  <2> QED
    BY <1>1, <2>1, <2>2, <2>3
<1> QED
  BY <1>1, <1>3, <1>4, <1>5 DEF n

\* A burst goes on by one slot.
LEMMA BurstGoesOn ==
  ASSUME DmaShape, Burst
  PROVE  /\ HardwareAt \in 0 .. Slots - 1 /\ HardwareAt' = Masked(Slots, HardwareAt + 1)
         /\ DOMAIN dma' = DOMAIN dma /\ (\E k \in 1 .. Slots : AtValue(k))'
<1> DEFINE n == Slots
           v == ValueBytes
           left == dma.trfcnt - v
<1>1. PICK k \in 1 .. Slots : AtValue(k)
  BY DEF DmaShape
<1>2. /\ n \in Nat \ {0} /\ v \in Nat \ {0} /\ k \in 1 .. n /\ dma.trfcnt = v * k
  BY <1>1, BlockAssumption DEF AtValue
<1>3. /\ dma'.trfcnt = IF left = 0 THEN n * v ELSE left
      /\ DOMAIN dma' = DOMAIN dma
  BY DEF Burst, DmaShape
<1> HIDE DEF n, v
<1>4. left = v * (k - 1) /\ (left = 0 <=> k = 1) /\ n * v = v * n
  BY <1>2
<1> DEFINE k2 == IF k = 1 THEN n ELSE k - 1
<1>5. k2 \in 1 .. n /\ dma'.trfcnt = v * k2
  BY <1>2, <1>3, <1>4
<1>6. HardwareAt = n - k /\ HardwareAt \in 0 .. n - 1
  BY <1>1, HardwareIs DEF n
<1>7. HardwareAt' = n - k2
  <2> HIDE DEF k2
  <2>1. dma'.trfcnt \div v = k2
    <3>1. (v * k2 + 0) \div v = k2 /\ v * k2 + 0 = v * k2
      BY <1>2, <1>5, Digits
    <3> QED
      BY <1>5, <3>1
  <2>2. n - k2 \in 0 .. n - 1 /\ (n - k2) % n = n - k2
    BY <1>2, <1>5
  <2> QED
    BY <2>1, <2>2 DEF HardwareAt, n, v
<1>8. Masked(n, HardwareAt + 1) = n - k2
  <2> DEFINE h == HardwareAt
  <2>1. h \in 0 .. n - 1 /\ h = n - k /\ 1 \in 0 .. n
    BY <1>2, <1>6
  <2> HIDE DEF h
  <2>2. Masked(n, h + 1) = IF h + 1 < n THEN h + 1 ELSE h + 1 - n
    BY <1>2, <2>1, RingAdvance
  <2>3. Masked(n, h + 1) = n - k2
    BY <1>2, <2>1, <2>2
  <2> QED
    BY <2>3 DEF h
<1>9. \E q \in 1 .. Slots : q \in 1 .. Slots /\ dma'.trfcnt = ValueBytes * q
  <2> HIDE DEF k2
  <2> QED
    BY <1>5 DEF n, v
<1> QED
  BY <1>3, <1>6, <1>7, <1>8, <1>9 DEF AtValue, n

LEMMA GrantedMeans ==
  ASSUME DmaShape, RingHeld, ~line.missed
  PROVE  /\ dir = "rx" => (Granted <=> line.ahead > 0)
         /\ dir = "tx" => (Granted <=> line.ahead < Slots - 1)
<1>1. PICK k \in 1 .. Slots : AtValue(k)
  BY DEF DmaShape
<1>2. /\ HardwareAt \in 0 .. Slots - 1 /\ ptr \in 0 .. Slots - 1
      /\ Readable(Slots, ptr, Position) = Readable(Slots, ptr, HardwareAt)
      /\ Writable(Slots, Position, ptr) = Writable(Slots, HardwareAt, ptr)
  BY <1>1, HardwareIs DEF DmaShape
<1>3. CASE dir = "rx"
  BY <1>2, <1>3 DEF RingHeld, Held, Granted
<1>4. CASE dir = "tx"
  <2>1. line.ahead = Readable(Slots, HardwareAt, ptr)
    BY <1>4 DEF RingHeld, Held
  <2>2. /\ Writable(Slots, HardwareAt, ptr) = Slots - 1 - Readable(Slots, HardwareAt, ptr)
        /\ Readable(Slots, HardwareAt, ptr) \in 0 .. Slots - 1
    <3> DEFINE h == HardwareAt
    <3>1. h \in 0 .. Slots - 1 /\ ptr \in 0 .. Slots - 1 /\ Slots \in Nat \ {0}
      BY <1>2, BlockAssumption
    <3> HIDE DEF h
    <3>2. /\ Writable(Slots, h, ptr) = Slots - 1 - Readable(Slots, h, ptr)
          /\ Readable(Slots, h, ptr) \in 0 .. Slots - 1
      BY <3>1, RingCases
    <3> QED
      BY <3>2 DEF h
  <2>3. Slots \in Nat
    BY BlockAssumption
  <2>4. Granted <=> Slots - 1 - line.ahead > 0
    BY <1>2, <1>4, <2>1, <2>2 DEF Granted
  <2> QED
    BY <1>4, <2>1, <2>2, <2>3, <2>4
<1> QED
  BY <1>3, <1>4 DEF DmaShape

\* The history of a number made, and of one taken.
LEMMA LineFacts ==
  ASSUME DmaInv
  PROVE  /\ slots \in [0 .. Slots - 1 -> 0 .. Numbers - 1]
         /\ ptr \in 0 .. Slots - 1 /\ line.made \in 0 .. Numbers - 1
         /\ line.taken \in 0 .. Numbers - 1 /\ line.ahead \in Int
         /\ NextNumber(line.made) \in 0 .. Numbers - 1
         /\ NextNumber(line.taken) \in 0 .. Numbers - 1
         /\ Masked(Slots, ptr + 1) \in 0 .. Slots - 1
         /\ Slots \in Nat \ {0}
<1>1. Numbers \in Nat \ {0} /\ Slots \in Nat \ {0}
  BY BlockAssumption
<1>2. DmaShape
  BY DEF DmaInv
<1>3. ASSUME NEW n \in Nat \ {0}, NEW x \in 0 .. n - 1
      PROVE  (x + 1) % n \in 0 .. n - 1
  OBVIOUS
<1> QED
  BY <1>1, <1>2, <1>3 DEF DmaShape, NextNumber, Masked

LEMMA RxBurstKeeps == ASSUME DmaInv, RxBurst PROVE DmaInv'
<1> DEFINE h == HardwareAt
<1>1. /\ dir = "rx" /\ Burst /\ UNCHANGED <<dir, ptr, caller>>
      /\ slots' = [slots EXCEPT ![h] = line.made]
  BY DEF RxBurst
<1>2. /\ line'.made = NextNumber(line.made) /\ line'.taken = line.taken
      /\ line'.ahead = IF line.ahead < Slots THEN line.ahead + 1 ELSE line.ahead
      /\ line'.missed = (line.missed \/ line.ahead + 1 >= Slots)
      /\ line'.sent = line.sent /\ line'.want = line.want
      /\ DOMAIN line' = DOMAIN line
  BY DEF RxBurst, DmaInv, DmaShape
<1>3. /\ h \in 0 .. Slots - 1 /\ HardwareAt' = Masked(Slots, h + 1)
      /\ DOMAIN dma' = DOMAIN dma /\ (\E k \in 1 .. Slots : AtValue(k))'
  BY <1>1, BurstGoesOn DEF DmaInv
<1> HIDE DEF h
<1>4. DmaShape'
  BY <1>1, <1>2, <1>3, LineFacts DEF DmaInv, DmaShape
<1>5. ASSUME ~line'.missed
      PROVE  ~line.missed /\ line.ahead < Slots - 1 /\ line'.ahead = line.ahead + 1
             /\ Held(slots, ptr, h, line.made, line.taken, line.ahead)
  <2>1. ~line.missed /\ ~(line.ahead + 1 >= Slots)
    BY <1>2, <1>5
  <2> QED
    BY <1>1, <1>2, <2>1, LineFacts DEF DmaInv, RingHeld, h
<1>6. RingHeld'
  <2> SUFFICES ASSUME ~line'.missed
               PROVE  Held(slots', ptr, Masked(Slots, h + 1), line'.made,
                           line'.taken, line'.ahead)
    BY <1>1, <1>3 DEF RingHeld
  <2>1. Held([slots EXCEPT ![h] = line.made], ptr, Masked(Slots, h + 1),
             NextNumber(line.made), line.taken, line.ahead + 1)
    BY <1>3, <1>5, LineFacts, HeldPush
  <2> QED
    BY <1>1, <1>2, <1>5, <2>1
<1>7. GrantLasts'
  <2>1. ~line'.missed => line'.ahead > 0
    <3> SUFFICES ASSUME ~line'.missed PROVE line'.ahead > 0
      OBVIOUS
    <3>1. line.ahead = Readable(Slots, ptr, h)
      BY <1>5 DEF Held
    <3>2. line.ahead >= 0
      BY <1>3, <3>1, LineFacts, RingCases
    <3> QED
      BY <1>5, <3>2, LineFacts
  <2> QED
    BY <1>1, <2>1 DEF GrantLasts
<1>8. DmaInOrder'
  BY <1>2, <1>5 DEF DmaInv, DmaInOrder
<1> QED
  BY <1>4, <1>6, <1>7, <1>8 DEF DmaInv

LEMMA TxBurstKeeps == ASSUME DmaInv, TxBurst PROVE DmaInv'
<1> DEFINE h == HardwareAt
<1>1. /\ dir = "tx" /\ Burst /\ UNCHANGED <<dir, slots, ptr, caller>>
  BY DEF TxBurst
<1>2. /\ line'.made = line.made /\ line'.taken = NextNumber(line.taken)
      /\ line'.ahead = IF line.ahead > 0 THEN line.ahead - 1 ELSE line.ahead
      /\ line'.missed = (line.missed \/ line.ahead = 0)
      /\ line'.sent = slots[h] /\ line'.want = line.taken
      /\ DOMAIN line' = DOMAIN line
  BY DEF TxBurst, DmaInv, DmaShape
<1>3. /\ h \in 0 .. Slots - 1 /\ HardwareAt' = Masked(Slots, h + 1)
      /\ DOMAIN dma' = DOMAIN dma /\ (\E k \in 1 .. Slots : AtValue(k))'
  BY <1>1, BurstGoesOn DEF DmaInv
<1> HIDE DEF h
<1>4. DmaShape'
  BY <1>1, <1>2, <1>3, LineFacts DEF DmaInv, DmaShape
<1>5. ASSUME ~line'.missed
      PROVE  ~line.missed /\ line.ahead >= 1 /\ line'.ahead = line.ahead - 1
             /\ Held(slots, h, ptr, line.made, line.taken, line.ahead)
  <2>1. ~line.missed /\ line.ahead # 0
    BY <1>2, <1>5
  <2>2. Held(slots, h, ptr, line.made, line.taken, line.ahead)
    BY <1>1, <2>1 DEF DmaInv, RingHeld, h
  <2>3. line.ahead \in 0 .. Slots - 1
    BY <1>3, <2>2, LineFacts, RingCases DEF Held
  <2> QED
    BY <1>2, <2>1, <2>2, <2>3, LineFacts
<1>6. ASSUME ~line'.missed
      PROVE  /\ slots[h] = line.taken
             /\ Held(slots, Masked(Slots, h + 1), ptr, line.made,
                     NextNumber(line.taken), line.ahead - 1)
  BY <1>3, <1>5, <1>6, LineFacts, HeldPop
<1>7. RingHeld'
  BY <1>1, <1>2, <1>3, <1>5, <1>6 DEF RingHeld
<1>8. GrantLasts'
  BY <1>1, <1>5, LineFacts DEF DmaInv, GrantLasts
<1>9. DmaInOrder'
  BY <1>2, <1>6 DEF DmaInOrder
<1> QED
  BY <1>4, <1>7, <1>8, <1>9 DEF DmaInv

LEMMA ProgramAsksKeeps == ASSUME DmaInv, Start \/ Stop \/ Call PROVE DmaInv'
<1>1. /\ UNCHANGED <<dir, slots, ptr, line>> /\ dma'.trfcnt = dma.trfcnt
      /\ DOMAIN dma' = DOMAIN dma
  BY DEF Start, Stop, Call, DmaInv, DmaShape
<1>2. HardwareAt' = HardwareAt
  BY <1>1 DEF HardwareAt
<1>3. DmaShape' /\ RingHeld' /\ DmaInOrder'
  BY <1>1, <1>2 DEF DmaInv, DmaShape, AtValue, RingHeld, DmaInOrder
<1>4. GrantLasts'
  <2>1. CASE UNCHANGED caller
    BY <1>1, <2>1 DEF DmaInv, GrantLasts
  <2>2. CASE Call
    <3>1. caller' = "granted" => Granted
      BY <2>2 DEF Call
    <3> QED
      BY <1>1, <3>1, GrantedMeans DEF DmaInv, DmaShape, GrantLasts
  <2> QED
    BY <2>1, <2>2 DEF Start, Stop
<1> QED
  BY <1>3, <1>4 DEF DmaInv

LEMMA ImmediateReadKeeps == ASSUME DmaInv, ImmediateRead PROVE DmaInv'
<1>1. /\ dir = "rx" /\ caller = "granted" /\ caller' = "idle"
      /\ ptr' = Masked(Slots, ptr + 1) /\ UNCHANGED <<dir, dma, slots>>
  BY DEF ImmediateRead
<1>2. /\ line'.made = line.made /\ line'.taken = NextNumber(line.taken)
      /\ line'.ahead = line.ahead - 1 /\ line'.missed = line.missed
      /\ line'.sent = slots[ptr] /\ line'.want = line.taken
      /\ DOMAIN line' = DOMAIN line
  BY DEF ImmediateRead, DmaInv, DmaShape
<1>3. DmaShape'
  BY <1>1, <1>2, LineFacts DEF DmaInv, DmaShape, AtValue
<1>4. HardwareAt' = HardwareAt /\ HardwareAt \in 0 .. Slots - 1
  BY <1>1, HardwareIs DEF HardwareAt, DmaInv, DmaShape
<1>5. ASSUME ~line.missed
      PROVE  /\ slots[ptr] = line.taken
             /\ Held(slots, Masked(Slots, ptr + 1), HardwareAt, line.made,
                     NextNumber(line.taken), line.ahead - 1)
  <2>1. /\ line.ahead >= 1
        /\ Held(slots, ptr, HardwareAt, line.made, line.taken, line.ahead)
    BY <1>1, <1>5, LineFacts DEF DmaInv, GrantLasts, RingHeld
  <2> QED
    BY <1>4, <2>1, LineFacts, HeldPop
<1>6. RingHeld' /\ GrantLasts' /\ DmaInOrder'
  BY <1>1, <1>2, <1>4, <1>5 DEF RingHeld, GrantLasts, DmaInOrder
<1> QED
  BY <1>3, <1>6 DEF DmaInv

LEMMA DmaOverwriteKeeps == ASSUME DmaInv, Overwrite PROVE DmaInv'
<1>1. /\ dir = "tx" /\ caller = "granted" /\ caller' = "idle"
      /\ slots' = [slots EXCEPT ![ptr] = line.made]
      /\ ptr' = Masked(Slots, ptr + 1) /\ UNCHANGED <<dir, dma>>
  BY DEF Overwrite
<1>2. /\ line'.made = NextNumber(line.made) /\ line'.taken = line.taken
      /\ line'.ahead = IF line.ahead < Slots THEN line.ahead + 1 ELSE line.ahead
      /\ line'.missed = line.missed
      /\ line'.sent = line.sent /\ line'.want = line.want
      /\ DOMAIN line' = DOMAIN line
  BY DEF Overwrite, DmaInv, DmaShape
<1>3. DmaShape'
  BY <1>1, <1>2, LineFacts DEF DmaInv, DmaShape, AtValue
<1>4. HardwareAt' = HardwareAt /\ HardwareAt \in 0 .. Slots - 1
  BY <1>1, HardwareIs DEF HardwareAt, DmaInv, DmaShape
<1>5. ASSUME ~line.missed
      PROVE  /\ line'.ahead = line.ahead + 1
             /\ Held(slots', HardwareAt, Masked(Slots, ptr + 1),
                     NextNumber(line.made), line.taken, line.ahead + 1)
  <2>1. /\ line.ahead < Slots - 1
        /\ Held(slots, HardwareAt, ptr, line.made, line.taken, line.ahead)
    BY <1>1, <1>5 DEF DmaInv, DmaShape, GrantLasts, RingHeld
  <2>2. Held([slots EXCEPT ![ptr] = line.made], HardwareAt, Masked(Slots, ptr + 1),
             NextNumber(line.made), line.taken, line.ahead + 1)
    <3> DEFINE h == HardwareAt
    <3>1. h \in 0 .. Slots - 1
          /\ Held(slots, h, ptr, line.made, line.taken, line.ahead)
      BY <1>4, <2>1
    <3> HIDE DEF h
    <3>2. Held([slots EXCEPT ![ptr] = line.made], h, Masked(Slots, ptr + 1),
               NextNumber(line.made), line.taken, line.ahead + 1)
      BY <2>1, <3>1, LineFacts, HeldPush
    <3> QED
      BY <3>2 DEF h
  <2> QED
    BY <1>1, <1>2, <2>1, <2>2, LineFacts
<1>6. RingHeld' /\ GrantLasts' /\ DmaInOrder'
  BY <1>1, <1>2, <1>4, <1>5 DEF DmaInv, RingHeld, GrantLasts, DmaInOrder
<1> QED
  BY <1>3, <1>6 DEF DmaInv

LEMMA DmaInvariance == DmaSpec => []DmaInv
<1>1. DmaInit => DmaInv
  <2> SUFFICES ASSUME DmaInit PROVE DmaInv
    OBVIOUS
  <2>1. AtValue(Slots) /\ Slots \in 1 .. Slots /\ DOMAIN dma = {"trfcnt", "enabled", "oneShot"}
    BY BlockAssumption DEF DmaInit, AtValue
  <2>2. HardwareAt = 0
    BY <2>1, HardwareIs, BlockAssumption
  <2>3. DmaShape
    BY <2>1, BlockAssumption DEF DmaInit, DmaShape
  <2>4. Readable(Slots, 0, 0) = 0 /\ 0 % Numbers = 0 /\ 0 + 0 = 0
    <3>1. Slots \in Nat \ {0} /\ 0 \in 0 .. Slots - 1 /\ Numbers \in Nat \ {0}
      BY BlockAssumption
    <3>2. Readable(Slots, 0, 0) = IF 0 < 0 THEN 0 - 0 + Slots ELSE 0 - 0
      BY <3>1, RingCases
    <3> QED
      BY <3>1, <3>2
  <2>5. Held(slots, 0, 0, 0, 0, 0)
    BY <2>4 DEF Held
  <2> QED
    BY <2>2, <2>3, <2>5 DEF DmaInit, DmaInv, RingHeld, GrantLasts, DmaInOrder
<1>2. DmaInv /\ [DmaNext]_dmaVars => DmaInv'
  <2> SUFFICES ASSUME DmaInv, [DmaNext]_dmaVars PROVE DmaInv'
    OBVIOUS
  <2>1. CASE UNCHANGED dmaVars
    BY <2>1 DEF dmaVars, DmaInv, DmaShape, AtValue, RingHeld, GrantLasts,
       DmaInOrder, HardwareAt
  <2> QED
    BY <2>1, RxBurstKeeps, TxBurstKeeps, ProgramAsksKeeps, ImmediateReadKeeps,
       DmaOverwriteKeeps DEF DmaNext
<1> QED
  BY <1>1, <1>2, PTL DEF DmaSpec

\* DMA and the program share a queue, for every number of slots and size of a
\* value: every value comes once and in order, and the program waits neither
\* for a value that is there nor for room there is, as long as the hardware has
\* not gone a whole buffer ahead of it.
THEOREM DmaStaysAQueue == DmaSpec => []DmaIsAQueue
<1>1. DmaInv => DmaIsAQueue
  <2> SUFFICES ASSUME DmaInv PROVE DmaIsAQueue
    OBVIOUS
  <2>1. DmaNeverStuck
    BY GrantedMeans DEF DmaInv, DmaShape, DmaNeverStuck, Granted
  <2> QED
    BY <2>1 DEF DmaInv, DmaIsAQueue
<1> QED
  BY <1>1, DmaInvariance, PTL

-----------------------------------------------------------------------------
(* The encoder.  A word of a switch holds the last samples, the ones taken *)
(* before the tracker last froze them being 0; each is the level of its    *)
(* contact when it was taken, unless the contact was bouncing.             *)

Lag == IF knob.dir = 1 THEN state_.a ELSE state_.b
Lead == IF knob.dir = 1 THEN state_.b ELSE state_.a

IsWord(s, w) == /\ w \in [0 .. 7 -> {0, 1}]
                /\ s = w[0] + 2 * w[1] + 4 * w[2] + 8 * w[3] + 16 * w[4]
                       + 32 * w[5] + 64 * w[6] + 128 * w[7]

\* The f last samples of a contact that is low in some phases, and moves at
\* the beginning of others.
Taken(w, f, k, low, moves) ==
  LET level == IF k.phase \in low THEN 0 ELSE 1 IN
  \A i \in 0 .. 7 :
    /\ i >= f => w[i] = 0
    /\ i < f /\ k.phase \notin moves => w[i] = level
    /\ i < f /\ k.phase \in moves /\ k.since <= i => w[i] = 1 - level
    /\ i < f /\ k.phase \in moves /\ k.since > i + Bounce => w[i] = level

LagTaken(w, f, k) == Taken(w, f, k, {2, 3}, {0, 2})
LeadTaken(w, f, k) == Taken(w, f, k, {1, 2}, {1, 3})

WordsTaken(lag, lead, f, k) ==
  /\ \E w \in [0 .. 7 -> {0, 1}] : IsWord(lag, w) /\ LagTaken(w, f, k)
  /\ \E w \in [0 .. 7 -> {0, 1}] : IsWord(lead, w) /\ LeadTaken(w, f, k)

Knobs == [dir : {1, -1}, phase : 0 .. 3, since : 0 .. Dwell, detents : Nat]
Later(k) == [k EXCEPT !.since = IF @ < Dwell THEN @ + 1 ELSE @]
Pushed(w, v) == [i \in 0 .. 7 |-> IF i = 0 THEN v ELSE w[i - 1]]

LEMMA EightBits ==
  ASSUME Bits = 8
  PROVE  /\ AllHigh = 255 /\ Lowered = 128 /\ Raised = 127
         /\ \A s : LongLow(s) <=> s < 16
         /\ \A s, v : Shifted(s, v) = (s * 2 + v) % 256
         /\ Bounce \in 0 .. 7 /\ Dwell \in Nat /\ Dwell >= Bounce + 8
<1>1. 2 ^ 8 = 256 /\ 2 ^ 7 = 128 /\ 2 ^ 4 = 16
  BY SMT
<1>2. Bits - 1 = 7 /\ Bits \div 2 = 4
  OBVIOUS
<1> QED
  BY <1>1, <1>2, KnobAssumption DEF AllHigh, Lowered, Raised, LongLow, Shifted

LEMMA WordPushed ==
  ASSUME NEW s, NEW w, IsWord(s, w), NEW v \in {0, 1}
  PROVE  IsWord((s * 2 + v) % 256, Pushed(w, v))
<1> DEFINE n == Pushed(w, v)
           r == w[0] * 2 + 4 * w[1] + 8 * w[2] + 16 * w[3] + 32 * w[4]
                + 64 * w[5] + 128 * w[6] + v
<1>1. /\ w[0] \in {0, 1} /\ w[1] \in {0, 1} /\ w[2] \in {0, 1} /\ w[3] \in {0, 1}
      /\ w[4] \in {0, 1} /\ w[5] \in {0, 1} /\ w[6] \in {0, 1} /\ w[7] \in {0, 1}
  BY DEF IsWord
<1>2. /\ n[0] = v /\ n[1] = w[0] /\ n[2] = w[1] /\ n[3] = w[2] /\ n[4] = w[3]
      /\ n[5] = w[4] /\ n[6] = w[5] /\ n[7] = w[6]
  BY DEF Pushed
<1>3. n \in [0 .. 7 -> {0, 1}]
  BY DEF Pushed, IsWord
<1>4. s * 2 + v = 256 * w[7] + r /\ r \in 0 .. 255
  BY <1>1 DEF IsWord
<1>5. (s * 2 + v) % 256 = r
  BY <1>1, <1>4
<1> QED
  BY <1>1, <1>2, <1>3, <1>5 DEF IsWord

\* A sample of a contact, bouncing or not, belongs in its word.
LEMMA SampleTaken ==
  ASSUME Bits = 8, NEW k \in Knobs, NEW f \in 0 .. 8, NEW low, NEW moves,
         NEW w \in [0 .. 7 -> {0, 1}], Taken(w, f, k, low, moves),
         NEW v \in {0, 1},
         ~(k.phase \in moves /\ k.since < Bounce)
           => v = IF k.phase \in low THEN 0 ELSE 1,
         NEW g \in 1 .. 8, g = f + 1 \/ (g = 8 /\ f = 8)
  PROVE  Taken(Pushed(w, v), g, Later(k), low, moves)
<1>1. Bounce \in 0 .. 7 /\ Dwell \in Nat /\ Dwell >= Bounce + 8
  BY EightBits
<1>2. /\ Later(k).phase = k.phase /\ k.since \in 0 .. Dwell
      /\ Later(k).since = IF k.since < Dwell THEN k.since + 1 ELSE k.since
  BY DEF Later, Knobs
<1> DEFINE level == IF k.phase \in low THEN 0 ELSE 1
           later == Later(k).since
<1>3. level \in {0, 1}
  OBVIOUS
<1> HIDE DEF level
<1>4. ASSUME NEW i \in 0 .. 7
      PROVE  /\ i >= g => Pushed(w, v)[i] = 0
             /\ i < g /\ k.phase \notin moves => Pushed(w, v)[i] = level
             /\ i < g /\ k.phase \in moves /\ later <= i
                  => Pushed(w, v)[i] = 1 - level
             /\ i < g /\ k.phase \in moves /\ later > i + Bounce
                  => Pushed(w, v)[i] = level
  <2>1. CASE i = 0
    <3>1. Pushed(w, v)[i] = v
      BY <2>1 DEF Pushed
    <3>2. ~(k.phase \in moves /\ k.since < Bounce) => v = level
      BY DEF level
    <3> QED
      BY <1>1, <1>2, <2>1, <3>1, <3>2
  <2>2. CASE i # 0
    <3>1. i - 1 \in 0 .. 7 /\ Pushed(w, v)[i] = w[i - 1]
      BY <2>2 DEF Pushed
    <3>2. /\ i - 1 >= f => w[i - 1] = 0
          /\ i - 1 < f /\ k.phase \notin moves => w[i - 1] = level
          /\ i - 1 < f /\ k.phase \in moves /\ k.since <= i - 1
               => w[i - 1] = 1 - level
          /\ i - 1 < f /\ k.phase \in moves /\ k.since > i - 1 + Bounce
               => w[i - 1] = level
      BY <3>1 DEF Taken, level
    <3> HIDE DEF later
    <3> QED
      BY <1>1, <1>2, <2>2, <3>1, <3>2 DEF later
  <2> QED
    BY <2>1, <2>2
<1> QED
  BY <1>2, <1>4 DEF Taken, level

\* A contact that moves had come to rest.
LEMMA TurnTaken ==
  ASSUME Bits = 8, NEW k \in Knobs, k.since >= Dwell,
         NEW m \in Knobs, m.phase = (k.phase + 1) % 4, m.since = 0,
         NEW f \in 0 .. 8, NEW w \in [0 .. 7 -> {0, 1}]
  PROVE  /\ LagTaken(w, f, k) => LagTaken(w, f, m)
         /\ LeadTaken(w, f, k) => LeadTaken(w, f, m)
<1>1. Bounce \in 0 .. 7 /\ Dwell \in Nat /\ Dwell >= Bounce + 8
  BY EightBits
<1>2. k.phase \in 0 .. 3 /\ m.phase = IF k.phase = 3 THEN 0 ELSE k.phase + 1
  BY DEF Knobs
<1>3. k.since = Dwell
  BY <1>1 DEF Knobs
<1>4. ASSUME NEW i \in 0 .. 7
      PROVE  k.since > i + Bounce /\ ~(m.since > i + Bounce)
  BY <1>1, <1>3
<1>5. LagTaken(w, f, k) => LagTaken(w, f, m)
  BY <1>2, <1>4 DEF LagTaken, Taken
<1>6. LeadTaken(w, f, k) => LeadTaken(w, f, m)
  BY <1>2, <1>4 DEF LeadTaken, Taken
<1> QED
  BY <1>5, <1>6

\* A 1 and seven 0: the whole word, and these are its bits.
LEMMA WordOf128 ==
  ASSUME NEW w, IsWord(128, w)
  PROVE  w[7] = 1 /\ \A i \in 0 .. 6 : w[i] = 0
<1>1. /\ w[0] \in {0, 1} /\ w[1] \in {0, 1} /\ w[2] \in {0, 1} /\ w[3] \in {0, 1}
      /\ w[4] \in {0, 1} /\ w[5] \in {0, 1} /\ w[6] \in {0, 1} /\ w[7] \in {0, 1}
  BY DEF IsWord
<1>2. w[7] = 1 /\ w[0] = 0 /\ w[1] = 0 /\ w[2] = 0 /\ w[3] = 0 /\ w[4] = 0
      /\ w[5] = 0 /\ w[6] = 0
  BY <1>1 DEF IsWord
<1>3. \A i \in 0 .. 6 : i \in {0, 1, 2, 3, 4, 5, 6}
  OBVIOUS
<1> QED
  BY <1>2, <1>3

\* The contact that lags has an edge after a detent only, at rest, and then
\* the one that leads has long been low; the edge of the latter does not
\* count.
LEMMA EdgeIsADetent ==
  ASSUME Bits = 8, NEW k \in Knobs, NEW f \in 0 .. 8, NEW lag, NEW lead,
         WordsTaken(lag, lead, f, k)
  PROVE  /\ lag = 128 => f = 8 /\ k.phase = 2 /\ k.since >= Bounce /\ lead = 0
         /\ lead = 128 => lag >= 16 /\ lag # 128
         /\ k.phase = 2 /\ k.since >= Bounce + 7 => lag \in {0, 128}
         /\ k.phase = 1 /\ f = 8 /\ k.since >= Dwell => lag = 255
<1>1. Bounce \in 0 .. 7 /\ Dwell \in Nat /\ Dwell >= Bounce + 8
  BY EightBits
<1>2. PICK w \in [0 .. 7 -> {0, 1}] : IsWord(lag, w) /\ LagTaken(w, f, k)
  BY DEF WordsTaken
<1>3. PICK u \in [0 .. 7 -> {0, 1}] : IsWord(lead, u) /\ LeadTaken(u, f, k)
  BY DEF WordsTaken
<1>4. k.phase \in 0 .. 3 /\ k.since \in 0 .. Dwell
  BY DEF Knobs
<1>5. ASSUME lag = 128
      PROVE  f = 8 /\ k.phase = 2 /\ k.since >= Bounce /\ lead = 0
  <2>1. w[7] = 1 /\ \A i \in 0 .. 6 : w[i] = 0
    BY <1>2, <1>5, WordOf128
  <2>2. f = 8
    BY <1>2, <2>1 DEF LagTaken, Taken
  <2>3. k.phase # 1 /\ k.phase # 3
    BY <1>2, <2>1, <2>2 DEF LagTaken, Taken
  <2>4. k.phase # 0
    <3>1. SUFFICES ASSUME k.phase = 0 PROVE FALSE
      OBVIOUS
    <3>2. k.since > 7
      BY <1>1, <1>2, <1>4, <2>1, <2>2, <3>1 DEF LagTaken, Taken
    <3>3. w[0] = 1
      BY <1>1, <1>2, <1>4, <2>2, <3>1, <3>2 DEF LagTaken, Taken
    <3> QED
      BY <2>1, <3>3
  <2>5. k.phase = 2
    BY <1>4, <2>3, <2>4
  <2>6. k.since > 6
    <3>1. k.since <= 6 => w[6] = 1
      BY <1>2, <2>2, <2>5 DEF LagTaken, Taken
    <3> QED
      BY <1>4, <2>1, <3>1
  <2>7. \A i \in 0 .. 7 : u[i] = 0
    BY <1>3, <2>2, <2>5 DEF LeadTaken, Taken
  <2>8. lead = 0
    BY <1>3, <2>7 DEF IsWord
  <2> QED
    BY <1>1, <1>4, <2>2, <2>5, <2>6, <2>8
<1>6. ASSUME lead = 128
      PROVE  lag >= 16 /\ lag # 128
  <2>1. u[7] = 1 /\ \A i \in 0 .. 6 : u[i] = 0
    BY <1>3, <1>6, WordOf128
  <2>2. f = 8
    BY <1>3, <2>1 DEF LeadTaken, Taken
  <2>3. k.phase # 2 /\ k.phase # 0
    BY <1>3, <2>1, <2>2 DEF LeadTaken, Taken
  <2>4. k.phase # 3
    <3>1. SUFFICES ASSUME k.phase = 3 PROVE FALSE
      OBVIOUS
    <3>2. k.since > 7
      BY <1>1, <1>3, <1>4, <2>1, <2>2, <3>1 DEF LeadTaken, Taken
    <3>3. u[0] = 1
      BY <1>1, <1>3, <1>4, <2>2, <3>1, <3>2 DEF LeadTaken, Taken
    <3> QED
      BY <2>1, <3>3
  <2>5. k.phase = 1
    BY <1>4, <2>3, <2>4
  <2>6. \A i \in 0 .. 7 : w[i] = 1
    BY <1>2, <2>2, <2>5 DEF LagTaken, Taken
  <2>7. lag = 255
    BY <1>2, <2>6 DEF IsWord
  <2> QED
    BY <2>7
<1>7. ASSUME k.phase = 2, k.since >= Bounce + 7
      PROVE  lag \in {0, 128}
  <2>1. \A i \in 0 .. 6 : w[i] = 0
    BY <1>1, <1>2, <1>4, <1>7 DEF LagTaken, Taken
  <2>2. w[0] = 0 /\ w[1] = 0 /\ w[2] = 0 /\ w[3] = 0 /\ w[4] = 0 /\ w[5] = 0
        /\ w[6] = 0 /\ w[7] \in {0, 1}
    BY <2>1
  <2> QED
    BY <1>2, <2>2 DEF IsWord
<1>8. ASSUME k.phase = 1, f = 8, k.since >= Dwell
      PROVE  lag = 255
  <2>1. \A i \in 0 .. 7 : w[i] = 1
    BY <1>2, <1>8 DEF LagTaken, Taken
  <2> QED
    BY <1>2, <2>1 DEF IsWord
<1> QED
  BY <1>5, <1>6, <1>7, <1>8

\* What a call of Read counts.
LEMMA IncrementIs ==
  ASSUME Bits = 8, NEW k \in Knobs, NEW f \in 0 .. 8, NEW s,
         WordsTaken(IF k.dir = 1 THEN s.a ELSE s.b,
                    IF k.dir = 1 THEN s.b ELSE s.a, f, k)
  PROVE  Increment(s) = IF (IF k.dir = 1 THEN s.a ELSE s.b) = 128
                        THEN k.dir ELSE 0
<1> DEFINE lag == IF k.dir = 1 THEN s.a ELSE s.b
           lead == IF k.dir = 1 THEN s.b ELSE s.a
<1>1. /\ lag = 128 => lead = 0
      /\ lead = 128 => lag >= 16 /\ lag # 128
  BY EdgeIsADetent
<1>2. k.dir \in {1, -1}
  BY DEF Knobs
<1>3. lag \in Int /\ lead \in Int
  <2>1. PICK w \in [0 .. 7 -> {0, 1}] : IsWord(lag, w)
    BY DEF WordsTaken
  <2>2. PICK u \in [0 .. 7 -> {0, 1}] : IsWord(lead, u)
    BY DEF WordsTaken
  <2>3. \A i \in 0 .. 7 : w[i] \in Int /\ u[i] \in Int
    OBVIOUS
  <2> HIDE DEF lag, lead
  <2>4. lag \in Int
    BY <2>1, <2>3 DEF IsWord
  <2>5. lead \in Int
    BY <2>2, <2>3 DEF IsWord
  <2> QED
    BY <2>4, <2>5
<1>4. /\ Lowered = 128
      /\ \A x : LongLow(x) <=> x < 16
  BY EightBits
<1>5. CASE k.dir = 1
  BY <1>1, <1>3, <1>4, <1>5 DEF Increment
<1>6. CASE k.dir = -1
  BY <1>1, <1>3, <1>4, <1>6 DEF Increment
<1> QED
  BY <1>2, <1>5, <1>6

\* The words after a sample, whether or not the tracker has just gone on.
LEMMA SampledWords ==
  ASSUME Bits = 8, knob \in Knobs, NEW f \in 1 .. 8,
         \/ WordsTaken(Lag, Lead, f, knob)
         \/ f = 1 /\ Lag = 128 /\ Lead = 0,
         NEW a \in SamplesOfA, NEW b \in SamplesOfB, NEW c \in {0, 1}
  PROVE  \E g \in 1 .. 8 :
           /\ f = 8 => g = 8
           /\ LET s == Sampled(a, b, c)
              IN WordsTaken(IF knob.dir = 1 THEN s.a ELSE s.b,
                            IF knob.dir = 1 THEN s.b ELSE s.a, g, Later(knob))
<1> DEFINE s == Sampled(a, b, c)
           v == IF knob.dir = 1 THEN a ELSE b
           x == IF knob.dir = 1 THEN b ELSE a
<1>1. knob.dir \in {1, -1}
  BY DEF Knobs
<1>2. v \in LagSamples /\ x \in LeadSamples
  BY <1>1 DEF SamplesOfA, SamplesOfB
<1>3. /\ v \in {0, 1}
      /\ ~(knob.phase \in {0, 2} /\ knob.since < Bounce)
           => v = IF knob.phase \in {2, 3} THEN 0 ELSE 1
  BY <1>2 DEF LagSamples
<1>4. /\ x \in {0, 1}
      /\ ~(knob.phase \in {1, 3} /\ knob.since < Bounce)
           => x = IF knob.phase \in {1, 2} THEN 0 ELSE 1
  BY <1>2 DEF LeadSamples
<1>5. /\ (IF knob.dir = 1 THEN s.a ELSE s.b) = (Lag * 2 + v) % 256
      /\ (IF knob.dir = 1 THEN s.b ELSE s.a) = (Lead * 2 + x) % 256
  BY <1>1, EightBits DEF Sampled, Lag, Lead
<1> HIDE DEF v, x, s
<1>6. ASSUME NEW e \in 0 .. 8, NEW lag, NEW lead, WordsTaken(lag, lead, e, knob),
             NEW g \in 1 .. 8, g = e + 1 \/ (g = 8 /\ e = 8)
      PROVE  WordsTaken((lag * 2 + v) % 256, (lead * 2 + x) % 256, g, Later(knob))
  <2>1. PICK w \in [0 .. 7 -> {0, 1}] : IsWord(lag, w) /\ LagTaken(w, e, knob)
    BY <1>6 DEF WordsTaken
  <2>2. PICK u \in [0 .. 7 -> {0, 1}] : IsWord(lead, u) /\ LeadTaken(u, e, knob)
    BY <1>6 DEF WordsTaken
  <2>3. IsWord((lag * 2 + v) % 256, Pushed(w, v))
    BY <1>3, <2>1, WordPushed
  <2>4. LagTaken(Pushed(w, v), g, Later(knob))
    BY <1>3, <1>6, <2>1, SampleTaken DEF LagTaken
  <2>5. IsWord((lead * 2 + x) % 256, Pushed(u, x))
    BY <1>4, <2>2, WordPushed
  <2>6. LeadTaken(Pushed(u, x), g, Later(knob))
    BY <1>4, <1>6, <2>2, SampleTaken DEF LeadTaken
  <2>7. Pushed(w, v) \in [0 .. 7 -> {0, 1}] /\ Pushed(u, x) \in [0 .. 7 -> {0, 1}]
    BY <2>3, <2>5 DEF IsWord
  <2> QED
    BY <2>3, <2>4, <2>5, <2>6, <2>7 DEF WordsTaken
<1>7. CASE WordsTaken(Lag, Lead, f, knob)
  <2> DEFINE g == IF f = 8 THEN 8 ELSE f + 1
  <2>1. g \in 1 .. 8 /\ (g = f + 1 \/ (g = 8 /\ f = 8)) /\ f \in 0 .. 8
    OBVIOUS
  <2> HIDE DEF g
  <2>2. WordsTaken((Lag * 2 + v) % 256, (Lead * 2 + x) % 256, g, Later(knob))
    BY <1>6, <1>7, <2>1
  <2>3. f = 8 => g = 8
    BY DEF g
  <2> QED
    BY <1>5, <2>1, <2>2, <2>3 DEF s
<1>8. CASE f = 1 /\ Lag = 128 /\ Lead = 0
  <2> DEFINE zeros == [i \in 0 .. 7 |-> 0]
  <2>1. zeros \in [0 .. 7 -> {0, 1}] /\ IsWord(0, zeros)
    BY DEF IsWord
  <2>2. LagTaken(zeros, 0, knob) /\ LeadTaken(zeros, 0, knob)
    BY DEF LagTaken, LeadTaken, Taken
  <2>3. WordsTaken(0, 0, 0, knob)
    BY <2>1, <2>2 DEF WordsTaken
  <2>4. WordsTaken((0 * 2 + v) % 256, (0 * 2 + x) % 256, 1, Later(knob))
    <3>1. 0 \in 0 .. 8 /\ 1 \in 1 .. 8 /\ 1 = 0 + 1
      OBVIOUS
    <3> QED
      BY <1>6, <2>3, <3>1
  <2>5. (Lag * 2 + v) % 256 = (0 * 2 + v) % 256
    BY <1>3, <1>8
  <2>6. (Lead * 2 + x) % 256 = (0 * 2 + x) % 256
    BY <1>8
  <2> QED
    BY <1>5, <1>8, <2>4, <2>5, <2>6 DEF s
<1> QED
  BY <1>7, <1>8

CtlShape ==
  /\ used \in {"direct", "tracked"} /\ knob \in Knobs
  /\ state_ \in [a : 0 .. 255, b : 0 .. 255, click : 0 .. 255]
  /\ tracker \in [increment : {0, knob.dir}, clicked : BOOLEAN]
  /\ ui \in [pc : {"look", "look_click", "flush", "flush_click"},
             increment : {0, Step}, clicked : BOOLEAN]
  /\ counted \in Int /\ clicks \in [made : Nat, seen : Nat]
  /\ Step = 255 => counted % 255 = 0
  /\ missed \in BOOLEAN
  /\ used = "direct" => /\ ui.pc = "look" /\ tracker.increment = 0
                        /\ ~missed

\* The words are those of a contact that was sampled at each tick, but while
\* a pending increment makes samples fail, and until the first sample after.
SamplesKept ==
  \/ missed /\ Lag = 128 /\ Lead = 0
  \/ /\ tracker.increment # 0 => Lag = 128 /\ Lead = 0
     /\ \E f \in 1 .. 8 : (~missed => f = 8) /\ WordsTaken(Lag, Lead, f, knob)

\* The increments that were made, whether or not the program has seen them,
\* are the detents; but for the last one, until its edge.
Ahead(n) == IF Step = 1 THEN n ELSE IF Step = -1 THEN 0 - n ELSE n \div 255
Produced == counted + IF IncrementUnseen THEN Step ELSE 0
EdgeIsPast == knob.since >= Bounce /\ Lag \in {0, 128}

TurnsCounted ==
  /\ ui.pc \in {"look_click", "flush"} /\ ui.increment # 0 => tracker.increment # 0
  /\ Ahead(counted) >= 0
  /\ Ahead(Produced) <= knob.detents
  /\ knob.phase = 2 /\ ~EdgeIsPast => Ahead(Produced) <= knob.detents - 1
  /\ ~missed =>
       \/ Ahead(Produced) = knob.detents /\ (knob.phase = 2 => EdgeIsPast)
       \/ /\ Ahead(Produced) = knob.detents - 1
          /\ knob.phase = 2 /\ Lag \notin {0, 128}

\* The program is owed a click that was set since it last looked at it, or
\* that a frozen switch will set again.
ClickFrozen == tracker.increment # 0 /\ state_.click = 127
ClickOwed ==
  \/ ClickFrozen /\ (ui.pc = "flush" => ~ui.clicked)
  \/ tracker.clicked /\ ui.pc \in {"look", "look_click"}
  \/ tracker.clicked /\ ui.pc = "flush" /\ ~ui.clicked
ClicksCounted ==
  /\ ui.pc = "flush" => ui.clicked \/ ui.increment # 0
  /\ ui.pc \in {"flush", "flush_click"} /\ ui.clicked => tracker.clicked
  /\ clicks.seen <= clicks.made
  /\ ClickOwed => clicks.seen + 1 <= clicks.made
  /\ ~missed => clicks.made = clicks.seen + IF ClickUnseen THEN 1 ELSE 0

CtlInv == CtlShape /\ SamplesKept /\ TurnsCounted /\ ClicksCounted

LEMMA StepIs ==
  ASSUME CtlShape
  PROVE  /\ Step \in {1, -1, 255}
         /\ used = "direct" => Step = knob.dir
         /\ used = "tracked" => Step = AsByte(knob.dir)
         /\ AsByte(0) = 0 /\ AsByte(1) = 1 /\ AsByte(-1) = 255
         /\ knob.dir \in {1, -1}
<1>1. knob.dir \in {1, -1} /\ used \in {"direct", "tracked"}
  BY DEF CtlShape, Knobs
<1>2. AsByte(0) = 0 /\ AsByte(1) = 1 /\ AsByte(-1) = 255
  <2>1. \A x \in Int : x + 1 = 0 => x % 256 = 255
    OBVIOUS
  <2>2. -1 \in Int /\ -1 + 1 = 0
    OBVIOUS
  <2>3. AsByte(-1) = 255
    BY ONLY <2>1, <2>2, Zenon DEF AsByte
  <2>4. AsByte(0) = 0 /\ AsByte(1) = 1
    BY DEF AsByte
  <2> QED
    BY <2>3, <2>4
<1> QED
  BY <1>1, <1>2 DEF Step

\* One increment more is one detent more.
LEMMA AheadByOne ==
  ASSUME NEW n \in Int, Step \in {1, -1, 255}, Step = 255 => n % 255 = 0
  PROVE  /\ Ahead(n) \in Int /\ n = Ahead(n) * Step
         /\ n + Step \in Int /\ Ahead(n + Step) = Ahead(n) + 1
         /\ Step = 255 => (n + Step) % 255 = 0
<1>1. CASE Step = 1
  BY <1>1 DEF Ahead
<1>2. CASE Step = -1
  BY <1>2 DEF Ahead
<1>3. CASE Step = 255
  BY <1>3 DEF Ahead
<1> QED
  BY <1>1, <1>2, <1>3

\* What is pending is ahead of what the program was given by one at most.
LEMMA ProducedIs ==
  ASSUME CtlShape
  PROVE  /\ Ahead(counted) \in Int /\ Ahead(Produced) \in Int
         /\ Ahead(Produced) = Ahead(counted) + IF IncrementUnseen THEN 1 ELSE 0
<1>1. counted \in Int /\ (Step = 255 => counted % 255 = 0)
  BY DEF CtlShape
<1>2. Ahead(counted) \in Int /\ Ahead(counted + Step) = Ahead(counted) + 1
  BY <1>1, StepIs, AheadByOne
<1>3. CASE IncrementUnseen
  BY <1>2, <1>3 DEF Produced
<1>4. CASE ~IncrementUnseen
  BY <1>1, <1>2, <1>4 DEF Produced
<1> QED
  BY <1>3, <1>4

\* The same of the state after a step.
LEMMA ProducedIsPrimed ==
  (CtlShape => /\ Ahead(counted) \in Int /\ Ahead(Produced) \in Int
               /\ Ahead(Produced) = Ahead(counted) + IF IncrementUnseen THEN 1 ELSE 0)'
<1>1. CtlShape => /\ Ahead(counted) \in Int /\ Ahead(Produced) \in Int
                  /\ Ahead(Produced) = Ahead(counted) + IF IncrementUnseen THEN 1 ELSE 0
  BY ProducedIs
<1> QED
  BY <1>1, PTL

LEMMA CtlInitInv == ASSUME Bits = 8, CtlInit PROVE CtlInv
<1>1. Bounce \in 0 .. 7 /\ Dwell \in Nat /\ Dwell >= Bounce + 8 /\ AllHigh = 255
  BY EightBits
<1>2. CtlShape
  <2>1. knob \in Knobs /\ 0 % 255 = 0
    BY <1>1 DEF CtlInit, Knobs
  <2>2. state_ \in [a : 0 .. 255, b : 0 .. 255, click : 0 .. 255]
    BY <1>1 DEF CtlInit
  <2>3. /\ tracker \in [increment : {0, knob.dir}, clicked : BOOLEAN]
        /\ ui \in [pc : {"look", "look_click", "flush", "flush_click"},
                   increment : {0, Step}, clicked : BOOLEAN]
        /\ clicks \in [made : Nat, seen : Nat]
    BY DEF CtlInit
  <2>4. missed \in BOOLEAN /\ ~missed
    BY DEF CtlInit
  <2>5. /\ used \in {"direct", "tracked"} /\ counted = 0
        /\ ui.pc = "look" /\ tracker.increment = 0
    BY DEF CtlInit
  <2> QED
    BY <2>1, <2>2, <2>3, <2>4, <2>5 DEF CtlShape
<1>3. SamplesKept
  <2> DEFINE ones == [i \in 0 .. 7 |-> 1]
  <2>1. ones \in [0 .. 7 -> {0, 1}] /\ IsWord(255, ones)
    BY DEF IsWord
  <2>2. knob.phase = 0 /\ knob.since = Dwell /\ Lag = 255 /\ Lead = 255
        /\ tracker.increment = 0 /\ ~missed
    BY <1>1 DEF CtlInit, Lag, Lead
  <2>3. \A i \in 0 .. 7 : Dwell > i + Bounce /\ ~(Dwell <= i)
    BY <1>1
  <2>4. LagTaken(ones, 8, knob) /\ LeadTaken(ones, 8, knob)
    BY <2>2, <2>3 DEF LagTaken, LeadTaken, Taken
  <2>5. WordsTaken(Lag, Lead, 8, knob)
    BY <2>1, <2>2, <2>4 DEF WordsTaken
  <2> QED
    BY <2>2, <2>5 DEF SamplesKept
<1>4. TurnsCounted
  <2>1. /\ counted = 0 /\ tracker.increment = 0 /\ ui.pc = "look"
        /\ knob.phase = 0 /\ knob.detents = 0
    BY DEF CtlInit
  <2>2. Produced = 0 /\ Ahead(0) = 0
    <3>1. Produced = 0
      BY <2>1 DEF IncrementUnseen, Produced
    <3>2. 0 \div 255 = 0
      OBVIOUS
    <3> QED
      BY <3>1, <3>2 DEF Ahead
  <2> QED
    BY <2>1, <2>2 DEF TurnsCounted
<1>5. ClicksCounted
  BY DEF CtlInit, ClicksCounted, ClickOwed, ClickFrozen, ClickUnseen
<1> QED
  BY <1>2, <1>3, <1>4, <1>5 DEF CtlInv

LEMMA TurnKeeps == ASSUME Bits = 8, CtlInv, Turn PROVE CtlInv'
<1>1. Bounce \in 0 .. 7 /\ Dwell \in Nat /\ Dwell >= Bounce + 8
  BY EightBits
<1> USE DEF CtlInv
<1>2. /\ knob' \in Knobs /\ knob'.dir = knob.dir /\ knob'.since = 0
      /\ knob'.phase = (knob.phase + 1) % 4
      /\ knob'.detents = knob.detents + IF knob.phase = 1 THEN 1 ELSE 0
      /\ knob.since >= Dwell
  <2>1. (knob.phase + 1) % 4 \in 0 .. 3
    BY DEF CtlShape, Knobs
  <2>2. knob.detents + (IF knob.phase = 1 THEN 1 ELSE 0) \in Nat
    BY DEF CtlShape, Knobs
  <2> DEFINE p == (knob.phase + 1) % 4
             d == knob.detents + IF knob.phase = 1 THEN 1 ELSE 0
  <2>3. knob' = [knob EXCEPT !.phase = p, !.since = 0, !.detents = d]
        /\ knob.since >= Dwell
    BY DEF Turn
  <2>4. knob \in Knobs /\ p \in 0 .. 3 /\ d \in Nat /\ 0 \in 0 .. Dwell
    BY <1>1, <2>1, <2>2 DEF CtlShape
  <2> HIDE DEF p, d
  <2>5. knob' \in Knobs /\ knob'.dir = knob.dir /\ knob'.since = 0
        /\ knob'.phase = p /\ knob'.detents = d
    BY <2>3, <2>4 DEF Knobs
  <2> QED
    BY <2>3, <2>5 DEF p, d
<1>3. UNCHANGED <<used, state_, tracker, ui, counted, clicks, missed>>
  BY DEF Turn
<1>4. Lag' = Lag /\ Lead' = Lead
  BY <1>2, <1>3 DEF Lag, Lead
<1>5. CtlShape' /\ Step' = Step
  <2>1. Step' = Step
    BY <1>2, <1>3 DEF Step
  <2> QED
    BY <1>2, <1>3, <2>1 DEF CtlShape
<1>6. SamplesKept'
  <2>1. CASE missed /\ Lag = 128 /\ Lead = 0
    BY <1>3, <1>4, <2>1 DEF SamplesKept
  <2>2. ASSUME NEW f \in 1 .. 8, WordsTaken(Lag, Lead, f, knob)
        PROVE  WordsTaken(Lag', Lead', f, knob')
    BY <1>2, <1>4, <2>2, TurnTaken DEF WordsTaken, CtlShape
  <2> QED
    BY <1>3, <1>4, <2>1, <2>2 DEF SamplesKept
<1>7. knob.phase \in 0 .. 3 /\ knob'.phase = IF knob.phase = 3 THEN 0 ELSE knob.phase + 1
  BY <1>2 DEF CtlShape, Knobs
<1>8. Ahead(counted)' = Ahead(counted) /\ Ahead(Produced)' = Ahead(Produced)
  <2>1. Produced' = Produced
    BY <1>3, <1>5 DEF Produced, IncrementUnseen
  <2> QED
    BY <1>3, <1>5, <2>1 DEF Ahead
<1>9. ~missed => /\ knob.phase = 2 => Lag \in {0, 128}
                 /\ knob.phase = 1 => Lag = 255
  <2>1. SUFFICES ASSUME ~missed
                 PROVE  /\ knob.phase = 2 => Lag \in {0, 128}
                        /\ knob.phase = 1 => Lag = 255
    OBVIOUS
  <2>2. WordsTaken(Lag, Lead, 8, knob)
    BY <2>1 DEF SamplesKept
  <2>3. knob \in Knobs /\ knob.since >= Bounce + 7
    BY <1>1, <1>2 DEF CtlShape, Knobs
  <2> QED
    BY <1>2, <2>2, <2>3, EdgeIsADetent
<1>10. TurnsCounted'
  <2>1. Ahead(Produced) \in Int /\ knob.detents \in Nat
    BY ProducedIs DEF CtlShape, Knobs
  <2> QED
    BY <1>2, <1>3, <1>4, <1>7, <1>8, <1>9, <2>1 DEF TurnsCounted
<1>11. ClicksCounted'
  BY <1>3 DEF ClicksCounted, ClickOwed, ClickFrozen, ClickUnseen
<1> QED
  BY <1>5, <1>6, <1>10, <1>11

\* Both kinds of Read, when they sample.
LEMMA SampleKeeps ==
  ASSUME Bits = 8, CtlInv, knob' = Later(knob),
         NEW a \in SamplesOfA, NEW b \in SamplesOfB, NEW c \in {0, 1},
         state_' = Sampled(a, b, c)
  PROVE  /\ state_' \in [a : 0 .. 255, b : 0 .. 255, click : 0 .. 255]
         /\ knob' \in Knobs /\ knob'.dir = knob.dir /\ knob'.phase = knob.phase
         /\ knob'.detents = knob.detents
         /\ \E f \in 1 .. 8 : /\ ~missed => f = 8
                              /\ WordsTaken(Lag', Lead', f, knob')
         /\ Increment(state_') = IF Lag' = 128 THEN knob.dir ELSE 0
         /\ Lag' = 128 => Lead' = 0
         /\ Lag' = 128 => knob.phase = 2 /\ knob'.since >= Bounce
                          /\ Lag \notin {0, 128}
         /\ Lag' = 0 => Lag \in {0, 128}
         /\ knob.phase = 2 /\ EdgeIsPast => Lag' = 0 /\ knob'.since >= Bounce
         /\ state_'.click = (state_.click * 2 + c) % 256
<1> USE DEF CtlInv
<1>1. Bounce \in 0 .. 7 /\ Dwell \in Nat /\ Dwell >= Bounce + 8
  BY EightBits
<1>2. /\ knob \in Knobs /\ knob' \in Knobs /\ knob'.dir = knob.dir
      /\ knob'.phase = knob.phase /\ knob'.detents = knob.detents
      /\ knob.dir \in {1, -1}
  BY <1>1 DEF CtlShape, Later, Knobs
<1>3. a \in {0, 1} /\ b \in {0, 1}
  BY DEF SamplesOfA, SamplesOfB, LagSamples, LeadSamples
<1>4. state_' = [a |-> (state_.a * 2 + a) % 256, b |-> (state_.b * 2 + b) % 256,
                 click |-> (state_.click * 2 + c) % 256]
  BY EightBits DEF Sampled
<1>5. state_.a \in 0 .. 255 /\ state_.b \in 0 .. 255 /\ state_.click \in 0 .. 255
  BY DEF CtlShape
<1>6. \A n \in 0 .. 255, v \in {0, 1} : (n * 2 + v) % 256 \in 0 .. 255
  OBVIOUS
<1>7. state_' \in [a : 0 .. 255, b : 0 .. 255, click : 0 .. 255]
  BY <1>3, <1>4, <1>5, <1>6
<1> DEFINE v == IF knob.dir = 1 THEN a ELSE b
           s == state_'
<1>8. /\ Lag' = IF knob.dir = 1 THEN s.a ELSE s.b
      /\ Lead' = IF knob.dir = 1 THEN s.b ELSE s.a
  BY <1>2 DEF Lag, Lead
<1>9. Lag' = (Lag * 2 + v) % 256 /\ Lag \in 0 .. 255 /\ v \in LagSamples
  <2>1. CASE knob.dir = 1
    BY <1>4, <1>5, <1>8, <2>1 DEF Lag, SamplesOfA, SamplesOfB
  <2>2. CASE knob.dir = -1
    BY <1>4, <1>5, <1>8, <2>2 DEF Lag, SamplesOfA, SamplesOfB
  <2> QED
    BY <1>2, <2>1, <2>2
<1>10. PICK f \in 1 .. 8 : /\ ~missed => f = 8
                           /\ WordsTaken(Lag', Lead', f, knob')
  <2>1. PICK e \in 1 .. 8 :
          /\ ~missed => e = 8
          /\ \/ WordsTaken(Lag, Lead, e, knob)
             \/ e = 1 /\ Lag = 128 /\ Lead = 0
    <3>1. CASE missed /\ Lag = 128 /\ Lead = 0
      BY <3>1
    <3>2. CASE ~(missed /\ Lag = 128 /\ Lead = 0)
      BY <3>2 DEF SamplesKept
    <3> QED
      BY <3>1, <3>2
  <2>2. PICK g \in 1 .. 8 :
          /\ e = 8 => g = 8
          /\ LET z == Sampled(a, b, c)
             IN WordsTaken(IF knob.dir = 1 THEN z.a ELSE z.b,
                           IF knob.dir = 1 THEN z.b ELSE z.a, g, Later(knob))
    BY <1>2, <2>1, SampledWords
  <2>3. WordsTaken(Lag', Lead', g, knob')
    BY <1>8, <2>2
  <2> QED
    BY <2>1, <2>2, <2>3
<1>11. Increment(s) = IF Lag' = 128 THEN knob.dir ELSE 0
  <2>1. WordsTaken(IF knob'.dir = 1 THEN s.a ELSE s.b,
                   IF knob'.dir = 1 THEN s.b ELSE s.a, f, knob')
    BY <1>2, <1>8, <1>10
  <2>2. f \in 0 .. 8
    OBVIOUS
  <2>3. Increment(s) = IF (IF knob'.dir = 1 THEN s.a ELSE s.b) = 128
                       THEN knob'.dir ELSE 0
    BY <1>2, <2>1, <2>2, IncrementIs
  <2> QED
    BY <1>2, <1>8, <2>3
<1>12. Lag' = 128 => Lead' = 0
  <2>1. f \in 0 .. 8
    OBVIOUS
  <2> QED
    BY <1>2, <1>10, <2>1, EdgeIsADetent
<1>13. /\ Lag' = 128 => knob.phase = 2 /\ knob'.since >= Bounce /\ Lag \notin {0, 128}
       /\ Lag' = 0 => Lag \in {0, 128}
       /\ knob.phase = 2 /\ knob.since >= Bounce /\ Lag \in {0, 128}
            => Lag' = 0 /\ knob'.since >= Bounce
  <2>1. /\ v \in {0, 1}
        /\ knob.phase = 2 /\ knob.since >= Bounce => v = 0
    BY <1>1, <1>2, <1>9 DEF LagSamples, Knobs
  <2>2. Lag' = 128 => knob'.phase = 2 /\ knob'.since >= Bounce
    <3>1. f \in 0 .. 8
      OBVIOUS
    <3> QED
      BY <1>2, <1>10, <3>1, EdgeIsADetent
  <2> HIDE DEF v
  <2>3. /\ Lag' = 128 => Lag \notin {0, 128}
        /\ Lag' = 0 => Lag \in {0, 128}
        /\ v = 0 /\ Lag \in {0, 128} => Lag' = 0
    BY <1>9, <2>1
  <2>4. knob.since >= Bounce => knob'.since >= Bounce
    BY <1>1, <1>2 DEF Later, Knobs
  <2> QED
    BY <1>2, <2>1, <2>2, <2>3, <2>4
<1> QED
  BY <1>2, <1>4, <1>7, <1>10, <1>11, <1>12, <1>13 DEF EdgeIsPast

LEMMA ReadDirectlyKeeps == ASSUME Bits = 8, CtlInv, ReadDirectly PROVE CtlInv'
<1> USE DEF CtlInv
<1>1. /\ used = "direct" /\ UNCHANGED <<used, tracker, ui, clicks, missed>>
      /\ ~missed /\ Step = knob.dir
      /\ ui.pc = "look" /\ tracker.increment = 0 /\ knob' = Later(knob)
  BY StepIs DEF ReadDirectly, CtlShape, TimePasses, Later
<1>2. PICK a \in SamplesOfA, b \in SamplesOfB :
        state_' = Sampled(a, b, 1) /\ counted' = counted + Increment(Sampled(a, b, 1))
  BY DEF ReadDirectly
<1>3. 1 \in {0, 1} /\ counted' = counted + Increment(state_')
  BY <1>2
<1>4. /\ state_' \in [a : 0 .. 255, b : 0 .. 255, click : 0 .. 255]
      /\ knob' \in Knobs /\ knob'.dir = knob.dir /\ knob'.phase = knob.phase
      /\ knob'.detents = knob.detents
      /\ \E f \in 1 .. 8 : /\ ~missed => f = 8
                           /\ WordsTaken(Lag', Lead', f, knob')
      /\ Increment(state_') = IF Lag' = 128 THEN knob.dir ELSE 0
      /\ Lag' = 128 => knob.phase = 2 /\ knob'.since >= Bounce
                       /\ Lag \notin {0, 128}
      /\ Lag' = 0 => Lag \in {0, 128}
      /\ knob.phase = 2 /\ EdgeIsPast => Lag' = 0 /\ knob'.since >= Bounce
  BY <1>1, <1>2, <1>3, SampleKeeps
<1>5. knob.dir \in {1, -1} /\ counted \in Int /\ knob.detents \in Nat
      /\ knob.phase \in 0 .. 3
  BY DEF CtlShape, Knobs
<1>6. CtlShape' /\ Step' = Step
  <2>1. Step' = Step
    BY <1>1, <1>4 DEF Step
  <2> QED
    BY <1>1, <1>3, <1>4, <1>5, <2>1 DEF CtlShape
<1>7. SamplesKept'
  BY <1>1, <1>4 DEF SamplesKept
<1>8. Produced = counted /\ Produced' = counted'
  BY <1>1, <1>3, <1>4, <1>5 DEF Produced, IncrementUnseen
<1>9. /\ Ahead(counted)' = Ahead(counted) + IF Lag' = 128 THEN 1 ELSE 0
      /\ Ahead(counted) \in Int
  <2>1. \A n : Ahead(n)' = IF Step = 1 THEN n' ELSE 0 - n'
    BY <1>1, <1>5, <1>6 DEF Ahead
  <2>2. \A n : Ahead(n) = IF Step = 1 THEN n ELSE 0 - n
    BY <1>1, <1>5 DEF Ahead
  <2> QED
    BY <1>1, <1>3, <1>4, <1>5, <2>1, <2>2
<1>10. Ahead(Produced) = Ahead(counted) /\ Ahead(Produced)' = Ahead(counted)'
  BY <1>8 DEF Ahead
<1>11. EdgeIsPast' <=> knob'.since >= Bounce /\ Lag' \in {0, 128}
  BY DEF EdgeIsPast
<1>12. \/ Ahead(counted) = knob.detents /\ (knob.phase = 2 => EdgeIsPast)
       \/ /\ Ahead(counted) = knob.detents - 1
          /\ knob.phase = 2 /\ Lag \notin {0, 128}
  BY <1>1, <1>10 DEF TurnsCounted
<1>13. TurnsCounted'
  <2>1. CASE Ahead(counted) = knob.detents /\ (knob.phase = 2 => EdgeIsPast)
    <3>1. Lag' # 128 /\ Ahead(counted)' = knob'.detents
      BY <1>4, <1>9, <2>1
    <3>2. knob'.phase = 2 => EdgeIsPast'
      BY <1>4, <1>11, <2>1
    <3> QED
      BY <1>1, <1>4, <1>5, <1>8, <1>10, <3>1, <3>2 DEF TurnsCounted
  <2>2. CASE /\ Ahead(counted) = knob.detents - 1
             /\ knob.phase = 2 /\ Lag \notin {0, 128}
    <3>1. CASE Lag' = 128
      <4>1. Ahead(counted)' = knob'.detents /\ EdgeIsPast'
        BY <1>4, <1>5, <1>9, <1>11, <2>2, <3>1
      <4> QED
        BY <1>1, <1>4, <1>5, <1>8, <1>10, <4>1 DEF TurnsCounted
    <3>2. CASE Lag' # 128
      <4>1. /\ Ahead(counted)' = knob'.detents - 1 /\ Lag' \notin {0, 128}
            /\ knob'.phase = 2
        BY <1>4, <1>5, <1>9, <2>2, <3>2
      <4>2. Ahead(counted)' >= 0
        BY <1>9, <3>2 DEF TurnsCounted
      <4> QED
        BY <1>1, <1>4, <1>5, <1>8, <1>10, <4>1, <4>2 DEF TurnsCounted
    <3> QED
      BY <3>1, <3>2
  <2> QED
    BY <1>12, <2>1, <2>2
<1>14. ClicksCounted'
  BY <1>1 DEF ClicksCounted, ClickOwed, ClickFrozen, ClickUnseen
<1> QED
  BY <1>6, <1>7, <1>13, <1>14

LEMMA TrackerReadKeeps == ASSUME Bits = 8, CtlInv, TrackerRead PROVE CtlInv'
<1> USE DEF CtlInv
<1>1. PICK a \in SamplesOfA, b \in SamplesOfB, c \in {0, 1} :
        LET s == IF tracker.increment = 0 THEN Sampled(a, b, c) ELSE state_
            releases == IF s = state_ THEN clicks.made ELSE Releases(s)
        IN /\ state_' = s
           /\ clicks' = [clicks EXCEPT !.made = releases]
           /\ tracker' = [increment |-> IF tracker.increment = 0
                                        THEN Increment(s) ELSE tracker.increment,
                          clicked |-> tracker.clicked \/ s.click = Raised]
           /\ missed' = \/ missed \/ tracker.increment # 0
                        \/ (tracker.clicked /\ s.click = Raised)
  BY DEF TrackerRead
<1>2. /\ used = "tracked" /\ UNCHANGED <<used, ui, counted>>
      /\ knob' = Later(knob)
  BY DEF TrackerRead, TimePasses, Later
<1>3. Bounce \in 0 .. 7 /\ Dwell \in Nat /\ Dwell >= Bounce + 8 /\ Raised = 127
  BY EightBits
<1>4. /\ knob \in Knobs /\ knob' \in Knobs /\ knob'.dir = knob.dir
      /\ knob'.phase = knob.phase /\ knob'.detents = knob.detents
      /\ knob.since \in 0 .. Dwell /\ knob.dir \in {1, -1}
      /\ knob'.since = IF knob.since < Dwell THEN knob.since + 1 ELSE knob.since
  BY <1>2, <1>3 DEF CtlShape, Later, Knobs
<1>5. /\ counted \in Int /\ knob.detents \in Nat
      /\ tracker.increment \in {0, knob.dir} /\ ui.increment \in {0, Step}
      /\ Step' = Step /\ Step \in {1, -1, 255} /\ missed \in BOOLEAN
      /\ tracker.clicked \in BOOLEAN
      /\ clicks.made \in Nat /\ clicks.seen \in Nat /\ state_.click \in 0 .. 255
  <2>1. Step' = Step
    BY <1>2, <1>4 DEF Step
  <2> QED
    BY <2>1, StepIs DEF CtlShape, Knobs
<1>6. CASE tracker.increment # 0
  <2>1. /\ state_' = state_ /\ clicks' = [clicks EXCEPT !.made = clicks.made]
        /\ tracker' = [increment |-> tracker.increment,
                       clicked |-> tracker.clicked \/ state_.click = 127]
        /\ missed'
    BY <1>1, <1>3, <1>6
  <2>2. clicks' = clicks
    BY <2>1 DEF CtlShape
  <2>3. Lag' = Lag /\ Lead' = Lead
    BY <1>4, <2>1 DEF Lag, Lead
  <2>4. CtlShape'
    <3>1. tracker' \in [increment : {0, knob'.dir}, clicked : BOOLEAN]
      BY <1>4, <1>5, <2>1 DEF CtlShape
    <3> QED
      BY <1>2, <1>4, <1>5, <2>1, <2>2, <3>1 DEF CtlShape
  <2>5. SamplesKept'
    BY <1>6, <2>1, <2>3 DEF SamplesKept
  <2>6. TurnsCounted'
    <3>1. /\ tracker'.increment = tracker.increment
          /\ Produced' = Produced
      BY <1>2, <1>5, <2>1 DEF IncrementUnseen, Produced
    <3>2. Ahead(counted)' = Ahead(counted) /\ Ahead(Produced)' = Ahead(Produced)
      BY <1>2, <1>5, <3>1 DEF Ahead
    <3>3. EdgeIsPast => EdgeIsPast'
      BY <1>3, <1>4, <2>3 DEF EdgeIsPast
    <3> QED
      BY <1>2, <1>4, <2>1, <3>1, <3>2, <3>3 DEF TurnsCounted
  <2>7. ClicksCounted'
    <3>1. ClickFrozen' <=> ClickFrozen
      BY <2>1 DEF ClickFrozen
    <3>2. state_.click = 127 => ClickFrozen
      BY <1>6 DEF ClickFrozen
    <3>3. ClickOwed' => ClickOwed
      BY <1>2, <2>1, <3>1, <3>2 DEF ClickOwed
    <3> QED
      BY <1>2, <2>1, <2>2, <3>3 DEF ClicksCounted
  <2> QED
    BY <2>4, <2>5, <2>6, <2>7
<1>7. CASE tracker.increment = 0
  <2>1. /\ state_' = Sampled(a, b, c)
        /\ clicks' = [clicks EXCEPT !.made = IF state_' = state_ THEN clicks.made
                                             ELSE Releases(state_')]
        /\ tracker' = [increment |-> Increment(state_'),
                       clicked |-> tracker.clicked \/ state_'.click = 127]
        /\ missed' = (missed \/ (tracker.clicked /\ state_'.click = 127))
    BY <1>1, <1>3, <1>7
  <2>2. /\ state_' \in [a : 0 .. 255, b : 0 .. 255, click : 0 .. 255]
        /\ \E f \in 1 .. 8 : /\ ~missed => f = 8
                             /\ WordsTaken(Lag', Lead', f, knob')
        /\ Increment(state_') = IF Lag' = 128 THEN knob.dir ELSE 0
        /\ Lag' = 128 => Lead' = 0
        /\ Lag' = 128 => knob.phase = 2 /\ knob'.since >= Bounce
                         /\ Lag \notin {0, 128}
        /\ Lag' = 0 => Lag \in {0, 128}
        /\ knob.phase = 2 /\ EdgeIsPast => Lag' = 0 /\ knob'.since >= Bounce
        /\ state_'.click = (state_.click * 2 + c) % 256
    BY <1>2, <2>1, SampleKeeps
  <2>3. tracker'.increment = IF Lag' = 128 THEN knob.dir ELSE 0
    BY <2>1, <2>2
  <2>4. /\ clicks'.seen = clicks.seen
        /\ clicks'.made = clicks.made + IF state_'.click = 127 THEN 1 ELSE 0
        /\ clicks' \in [made : Nat, seen : Nat]
    <3>1. state_'.click = 127 => state_' # state_
      BY <1>5, <2>2
    <3>2. (IF state_' = state_ THEN clicks.made ELSE Releases(state_'))
            = clicks.made + IF state_'.click = 127 THEN 1 ELSE 0
      BY <1>3, <1>5, <3>1 DEF Releases
    <3> QED
      BY <2>1, <3>2 DEF CtlShape
  <2>5. CtlShape'
    <3>1. tracker' \in [increment : {0, knob'.dir}, clicked : BOOLEAN]
      BY <1>4, <2>1, <2>2 DEF CtlShape
    <3> QED
      BY <1>2, <1>4, <1>5, <2>1, <2>2, <2>4, <3>1 DEF CtlShape
  <2>6. SamplesKept'
    BY <1>2, <1>4, <2>1, <2>2, <2>3 DEF SamplesKept
  <2>7. TurnsCounted'
    <3>1. ~(ui.pc \in {"look_click", "flush"} /\ ui.increment # 0)
      BY <1>7 DEF TurnsCounted
    <3>2. ~IncrementUnseen /\ (IncrementUnseen' <=> Lag' = 128)
      BY <1>2, <1>4, <1>7, <2>3, <3>1 DEF IncrementUnseen
    <3>3. /\ Ahead(counted)' = Ahead(counted) /\ Ahead(counted) \in Int
          /\ Ahead(Produced) = Ahead(counted)
          /\ Ahead(Produced)' = Ahead(counted) + IF Lag' = 128 THEN 1 ELSE 0
      <4>1. Ahead(counted)' = Ahead(counted)
        BY <1>2, <1>5 DEF Ahead
      <4>2. Ahead(Produced)' = Ahead(counted)' + IF IncrementUnseen' THEN 1 ELSE 0
        BY <2>5, ProducedIsPrimed
      <4> QED
        BY <3>2, <4>1, <4>2, ProducedIs
    <3>4. /\ Ahead(counted) <= knob.detents
          /\ knob.phase = 2 /\ ~EdgeIsPast => Ahead(counted) <= knob.detents - 1
      BY <3>3 DEF TurnsCounted
    <3>5. Lag' = 128 => ~EdgeIsPast /\ EdgeIsPast' /\ knob.phase = 2
      BY <2>2 DEF EdgeIsPast
    <3>6. knob.phase = 2 /\ EdgeIsPast => EdgeIsPast'
      BY <2>2 DEF EdgeIsPast
    <3>7. Ahead(Produced)' <= knob'.detents
      BY <1>4, <1>5, <3>3, <3>4, <3>5
    <3>8. knob'.phase = 2 /\ ~EdgeIsPast' => Ahead(Produced)' <= knob'.detents - 1
      BY <1>4, <1>5, <3>3, <3>4, <3>5, <3>6
    <3>9. ~missed' =>
            \/ Ahead(Produced)' = knob'.detents /\ (knob'.phase = 2 => EdgeIsPast')
            \/ /\ Ahead(Produced)' = knob'.detents - 1
               /\ knob'.phase = 2 /\ Lag' \notin {0, 128}
      <4>1. CASE missed
        BY <2>1, <4>1
      <4>2. CASE ~missed /\ Ahead(Produced) = knob.detents
        BY <1>4, <1>5, <2>2, <3>3, <3>5, <3>6, <4>2 DEF TurnsCounted
      <4>3. CASE ~missed /\ Ahead(Produced) # knob.detents
        <5>1. /\ Ahead(Produced) = knob.detents - 1
              /\ knob.phase = 2 /\ Lag \notin {0, 128}
          BY <4>3 DEF TurnsCounted
        <5>2. CASE Lag' = 128
          BY <1>4, <1>5, <3>3, <3>5, <5>1, <5>2
        <5>3. CASE Lag' # 128
          BY <1>4, <1>5, <2>2, <3>3, <5>1, <5>3
        <5> QED
          BY <5>2, <5>3
      <4> QED
        BY <4>1, <4>2, <4>3
    <3>10. Ahead(counted)' >= 0
      BY <3>3 DEF TurnsCounted
    <3>11. ~(ui'.pc \in {"look_click", "flush"} /\ ui'.increment # 0)
      BY <1>2, <3>1
    <3> QED
      BY <3>1, <3>7, <3>8, <3>9, <3>10, <3>11 DEF TurnsCounted
  <2>8. ClicksCounted'
    <3>1. ~ClickFrozen
      BY <1>7 DEF ClickFrozen
    <3>2. ClickFrozen' => state_'.click = 127
      BY DEF ClickFrozen
    <3>3. state_'.click # 127 => (ClickOwed' => ClickOwed)
      BY <1>2, <2>1, <3>1, <3>2 DEF ClickOwed
    <3>4. clicks.seen <= clicks.made /\ (ClickOwed => clicks.seen + 1 <= clicks.made)
      BY DEF ClicksCounted
    <3>5. clicks'.seen <= clicks'.made
          /\ (ClickOwed' => clicks'.seen + 1 <= clicks'.made)
      BY <1>5, <2>4, <3>3, <3>4
    <3>6. /\ ui'.pc = "flush" => ui'.clicked \/ ui'.increment # 0
          /\ ui'.pc \in {"flush", "flush_click"} /\ ui'.clicked => tracker'.clicked
      BY <1>2, <2>1 DEF ClicksCounted
    <3>7. ~missed' => clicks'.made = clicks'.seen + IF ClickUnseen' THEN 1 ELSE 0
      <4>1. SUFFICES ASSUME ~missed'
                     PROVE  clicks'.made = clicks'.seen + IF ClickUnseen' THEN 1 ELSE 0
        OBVIOUS
      <4>2. /\ ~missed /\ ~(tracker.clicked /\ state_'.click = 127)
            /\ clicks.made = clicks.seen + IF ClickUnseen THEN 1 ELSE 0
            /\ ui.pc \in {"flush", "flush_click"} /\ ui.clicked => tracker.clicked
        BY <2>1, <4>1 DEF ClicksCounted
      <4>3. CASE state_'.click = 127
        <5>1. ~ClickUnseen /\ ClickUnseen'
          BY <1>2, <2>1, <4>2, <4>3 DEF ClickUnseen
        <5> QED
          BY <1>5, <2>4, <4>2, <4>3, <5>1
      <4>4. CASE state_'.click # 127
        <5>1. ClickUnseen' <=> ClickUnseen
          BY <1>2, <2>1, <4>4 DEF ClickUnseen
        <5> QED
          BY <1>5, <2>4, <4>2, <4>4, <5>1
      <4> QED
        BY <4>3, <4>4
    <3> QED
      BY <3>5, <3>6, <3>7 DEF ClicksCounted
  <2> QED
    BY <2>5, <2>6, <2>7, <2>8
<1> QED
  BY <1>6, <1>7

LEMMA ProgramKeeps ==
  ASSUME CtlInv, UNCHANGED <<used, state_, knob>>,
         tracker'.increment = tracker.increment \/ tracker'.increment = 0,
         missed => missed'
  PROVE  SamplesKept' /\ Lag' = Lag /\ EdgeIsPast' = EdgeIsPast /\ Step' = Step
<1>1. Lag' = Lag /\ Lead' = Lead /\ EdgeIsPast' = EdgeIsPast /\ Step' = Step
  BY DEF Lag, Lead, EdgeIsPast, Step
<1>2. SamplesKept'
  BY <1>1 DEF CtlInv, SamplesKept
<1> QED
  BY <1>1, <1>2

LEMMA LookAtIncrementKeeps == ASSUME CtlInv, LookAtIncrement PROVE CtlInv'
<1> USE DEF CtlInv
<1>1. /\ used = "tracked" /\ ui.pc = "look"
      /\ counted' = counted + AsByte(tracker.increment)
      /\ ui' = [ui EXCEPT !.pc = "look_click", !.increment = AsByte(tracker.increment)]
      /\ UNCHANGED <<used, state_, tracker, knob, clicks, missed>>
  BY DEF LookAtIncrement, Ui
<1>2. /\ ui'.pc = "look_click" /\ ui'.increment = AsByte(tracker.increment)
      /\ ui'.clicked = ui.clicked
  BY <1>1 DEF CtlShape
<1>3. /\ counted \in Int /\ knob.detents \in Nat /\ knob.dir \in {1, -1}
      /\ tracker.increment \in {0, knob.dir} /\ Step \in {1, 255}
      /\ AsByte(tracker.increment) = IF tracker.increment = 0 THEN 0 ELSE Step
      /\ Step = 255 => counted % 255 = 0
  <2>1. /\ counted \in Int /\ knob.detents \in Nat /\ knob.dir \in {1, -1}
        /\ tracker.increment \in {0, knob.dir} /\ (Step = 255 => counted % 255 = 0)
    BY DEF CtlShape, Knobs
  <2> QED
    BY <1>1, <2>1, StepIs
<1>4. SamplesKept' /\ Lag' = Lag /\ EdgeIsPast' = EdgeIsPast /\ Step' = Step
  BY <1>1, ProgramKeeps
<1>5. counted' = Produced /\ (IncrementUnseen <=> tracker.increment # 0)
  BY <1>1, <1>3 DEF Produced, IncrementUnseen
<1>6. CtlShape'
  <2>1. counted' \in Int /\ (Step = 255 => counted' % 255 = 0)
    <3>1. counted + Step \in Int /\ (Step = 255 => (counted + Step) % 255 = 0)
      BY <1>3, AheadByOne
    <3>2. CASE tracker.increment = 0
      <4>1. counted' = counted
        BY <1>1, <1>3, <3>2
      <4> QED
        BY <1>3, <4>1
    <3>3. CASE tracker.increment # 0
      <4>1. counted' = counted + Step
        BY <1>1, <1>3, <3>3
      <4> QED
        BY <3>1, <4>1
    <3> QED
      BY <1>1, <1>3, <3>1, <3>2, <3>3
  <2>2. ui' \in [pc : {"look", "look_click", "flush", "flush_click"},
                 increment : {0, Step}, clicked : BOOLEAN]
    BY <1>1, <1>3 DEF CtlShape
  <2> QED
    BY <1>1, <1>4, <2>1, <2>2 DEF CtlShape
<1>7. ~IncrementUnseen' /\ Produced' = counted'
  <2>1. ~IncrementUnseen'
    BY <1>1, <1>2, <1>3 DEF IncrementUnseen
  <2>2. counted' \in Int
    BY <1>6 DEF CtlShape
  <2>3. Produced' = counted' + IF IncrementUnseen' THEN Step' ELSE 0
    BY DEF Produced
  <2>4. Step' \in Int
    BY <1>3, <1>4
  <2>5. Produced' = counted' + 0
    BY <2>1, <2>3, Zenon
  <2>6. Produced' = counted'
    <3>1. \A n \in Int : n + 0 = n
      OBVIOUS
    <3> QED
      BY <2>2, <2>5, <3>1, Zenon
  <2> QED
    BY <2>1, <2>6, Zenon
<1>8. Ahead(counted)' = Ahead(Produced) /\ Ahead(Produced)' = Ahead(Produced)
  BY <1>4, <1>5, <1>7 DEF Ahead
<1>9. TurnsCounted'
  <2>1. Ahead(Produced) >= 0
    BY ProducedIs DEF TurnsCounted
  <2>2. ui'.increment # 0 => tracker'.increment # 0
    BY <1>1, <1>2, <1>3
  <2> QED
    BY <1>1, <1>4, <1>8, <2>1, <2>2 DEF TurnsCounted
<1>10. ClicksCounted'
  BY <1>1, <1>2 DEF ClicksCounted, ClickOwed, ClickFrozen, ClickUnseen
<1> QED
  BY <1>4, <1>6, <1>9, <1>10

LEMMA LookAtClickedKeeps == ASSUME CtlInv, LookAtClicked PROVE CtlInv'
<1> USE DEF CtlInv
<1>1. /\ used = "tracked" /\ ui.pc = "look_click"
      /\ ui' = [ui EXCEPT !.clicked = tracker.clicked,
                          !.pc = IF ui.increment # 0 \/ tracker.clicked
                                 THEN "flush" ELSE "look"]
      /\ clicks' = [clicks EXCEPT !.seen = @ + IF tracker.clicked THEN 1 ELSE 0]
      /\ UNCHANGED <<used, state_, tracker, knob, counted, missed>>
  BY DEF LookAtClicked, Ui
<1>2. /\ ui'.pc = IF ui.increment # 0 \/ tracker.clicked THEN "flush" ELSE "look"
      /\ ui'.increment = ui.increment /\ ui'.clicked = tracker.clicked
      /\ clicks'.made = clicks.made
      /\ clicks'.seen = clicks.seen + IF tracker.clicked THEN 1 ELSE 0
  BY <1>1 DEF CtlShape
<1>3. /\ clicks.made \in Nat /\ clicks.seen \in Nat
      /\ tracker.clicked \in BOOLEAN
  BY DEF CtlShape
<1>4. SamplesKept' /\ Lag' = Lag /\ EdgeIsPast' = EdgeIsPast /\ Step' = Step
  BY <1>1, ProgramKeeps
<1>5. CtlShape'
  <2>1. clicks.seen + (IF tracker.clicked THEN 1 ELSE 0) \in Nat
    BY <1>3
  <2>2. clicks' \in [made : Nat, seen : Nat]
    BY <1>1, <2>1 DEF CtlShape
  <2> QED
    BY <1>1, <1>3, <1>4, <2>2 DEF CtlShape
<1>6. IncrementUnseen' <=> IncrementUnseen
  BY <1>1, <1>2 DEF IncrementUnseen
<1>7. Ahead(counted)' = Ahead(counted) /\ Ahead(Produced)' = Ahead(Produced)
  BY <1>1, <1>4, <1>6 DEF Ahead, Produced
<1>8. TurnsCounted'
  BY <1>1, <1>2, <1>4, <1>7 DEF TurnsCounted
<1>9. ClicksCounted'
  <2>1. CASE tracker.clicked
    BY <1>1, <1>2, <1>3, <2>1 DEF ClicksCounted, ClickOwed, ClickFrozen, ClickUnseen
  <2>2. CASE ~tracker.clicked
    BY <1>1, <1>2, <1>3, <2>2 DEF ClicksCounted, ClickOwed, ClickFrozen, ClickUnseen
  <2> QED
    BY <2>1, <2>2
<1> QED
  BY <1>4, <1>5, <1>8, <1>9

LEMMA FlushIncrementKeeps == ASSUME CtlInv, FlushIncrement PROVE CtlInv'
<1> USE DEF CtlInv
<1>1. /\ used = "tracked" /\ ui.pc = "flush"
      /\ tracker' = [tracker EXCEPT !.increment = 0]
      /\ ui' = [ui EXCEPT !.pc = "flush_click"]
      /\ missed' = (missed \/ (tracker.increment # 0 /\ ui.increment = 0))
      /\ UNCHANGED <<used, state_, knob, counted, clicks>>
  BY DEF FlushIncrement, Ui
<1>2. /\ tracker'.increment = 0 /\ tracker'.clicked = tracker.clicked
      /\ ui'.pc = "flush_click" /\ ui'.clicked = ui.clicked
      /\ counted \in Int /\ missed \in BOOLEAN
  BY <1>1 DEF CtlShape
<1>3. SamplesKept' /\ Lag' = Lag /\ EdgeIsPast' = EdgeIsPast /\ Step' = Step
  BY <1>1, <1>2, ProgramKeeps
<1>4. CtlShape'
  BY <1>1, <1>2, <1>3 DEF CtlShape
<1>5. Produced' = counted /\ Ahead(counted)' = Ahead(counted)
      /\ Ahead(Produced)' = Ahead(counted)
  <2>1. ~IncrementUnseen'
    BY <1>2 DEF IncrementUnseen
  <2>2. Produced' = counted
    BY <1>1, <1>2, <2>1 DEF Produced
  <2> QED
    BY <1>1, <1>3, <2>2 DEF Ahead
<1>6. IncrementUnseen => missed'
  BY <1>1 DEF IncrementUnseen
<1>7. TurnsCounted'
  <2>1. /\ Ahead(counted) \in Int
        /\ Ahead(Produced) = Ahead(counted) + IF IncrementUnseen THEN 1 ELSE 0
    BY ProducedIs
  <2>2. knob.detents \in Nat
    BY DEF CtlShape, Knobs
  <2> QED
    BY <1>1, <1>2, <1>3, <1>5, <1>6, <2>1, <2>2 DEF TurnsCounted
<1>8. ClicksCounted'
  <2>1. ~ClickFrozen' /\ ~ClickOwed'
    BY <1>2 DEF ClickOwed, ClickFrozen
  <2>2. ClickUnseen' <=> ClickUnseen
    BY <1>1, <1>2 DEF ClickUnseen
  <2> QED
    BY <1>1, <1>2, <2>1, <2>2 DEF ClicksCounted
<1> QED
  BY <1>3, <1>4, <1>7, <1>8

LEMMA FlushClickedKeeps == ASSUME CtlInv, FlushClicked PROVE CtlInv'
<1> USE DEF CtlInv
<1>1. /\ used = "tracked" /\ ui.pc = "flush_click"
      /\ tracker' = [tracker EXCEPT !.clicked = FALSE]
      /\ ui' = [ui EXCEPT !.pc = "look"]
      /\ missed' = (missed \/ (tracker.clicked /\ ~ui.clicked))
      /\ UNCHANGED <<used, state_, knob, counted, clicks>>
  BY DEF FlushClicked, Ui
<1>2. /\ tracker'.increment = tracker.increment /\ ~tracker'.clicked
      /\ ui'.pc = "look" /\ missed \in BOOLEAN
  BY <1>1 DEF CtlShape
<1>3. SamplesKept' /\ Lag' = Lag /\ EdgeIsPast' = EdgeIsPast /\ Step' = Step
  BY <1>1, <1>2, ProgramKeeps
<1>4. CtlShape'
  BY <1>1, <1>2, <1>3 DEF CtlShape
<1>5. IncrementUnseen' <=> IncrementUnseen
  BY <1>1, <1>2 DEF IncrementUnseen
<1>6. Ahead(counted)' = Ahead(counted) /\ Ahead(Produced)' = Ahead(Produced)
  BY <1>1, <1>3, <1>5 DEF Ahead, Produced
<1>7. TurnsCounted'
  BY <1>1, <1>2, <1>3, <1>6 DEF TurnsCounted
<1>8. ClicksCounted'
  <2>1. ~ClickUnseen' /\ (ClickUnseen => missed')
    BY <1>1, <1>2 DEF ClickUnseen
  <2> QED
    BY <1>1, <1>2, <2>1 DEF ClicksCounted, ClickOwed, ClickFrozen
<1> QED
  BY <1>3, <1>4, <1>7, <1>8

LEMMA CtlInvariance == ASSUME Bits = 8 PROVE CtlSpec => []CtlInv
<1>1. CtlInit => CtlInv
  BY CtlInitInv
<1>2. CtlInv /\ [CtlNext]_ctlVars => CtlInv'
  <2>1. SUFFICES ASSUME CtlInv, [CtlNext]_ctlVars PROVE CtlInv'
    OBVIOUS
  <2>2. CASE Turn
    BY <2>1, <2>2, TurnKeeps
  <2>3. CASE ReadDirectly
    BY <2>1, <2>3, ReadDirectlyKeeps
  <2>4. CASE TrackerRead
    BY <2>1, <2>4, TrackerReadKeeps
  <2>5. CASE LookAtIncrement
    BY <2>1, <2>5, LookAtIncrementKeeps
  <2>6. CASE LookAtClicked
    BY <2>1, <2>6, LookAtClickedKeeps
  <2>7. CASE FlushIncrement
    BY <2>1, <2>7, FlushIncrementKeeps
  <2>8. CASE FlushClicked
    BY <2>1, <2>8, FlushClickedKeeps
  <2>9. CASE UNCHANGED ctlVars
    BY <2>1, <2>9 DEF ctlVars, CtlInv, CtlShape, SamplesKept, Lag, Lead,
       TurnsCounted, Ahead, Produced, IncrementUnseen, EdgeIsPast, Step,
       ClicksCounted, ClickOwed, ClickFrozen, ClickUnseen
  <2> QED
    BY <2>1, <2>2, <2>3, <2>4, <2>5, <2>6, <2>7, <2>8, <2>9 DEF CtlNext
<1> QED
  BY <1>1, <1>2, PTL DEF CtlSpec

\* With the eight samples that DebouncedSwitch keeps, however the contacts
\* bounce within those and rest after, and whenever the handler that calls
\* RotaryEncoderTracker::Read interrupts the program: a steady turn is counted
\* once for each detent, behind the tracker too unless Flush came late or
\* threw something away; no turn and no click is seen twice.  A step back is
\* what Read returns, -1, but 255 from increment().
THEOREM KnobStaysCounted == ASSUME Bits = 8 PROVE CtlSpec => []KnobIsCounted
<1>1. CtlInv => KnobIsCounted
  <2>1. SUFFICES ASSUME CtlInv PROVE KnobIsCounted
    OBVIOUS
  <2> USE DEF CtlInv
  <2>2. /\ counted \in Int /\ knob.detents \in Nat /\ knob \in Knobs
        /\ Step = 255 => counted % 255 = 0
    BY <2>1 DEF CtlShape, Knobs
  <2>3. Step \in {1, -1, 255}
    BY <2>1, StepIs
  <2>4. counted = Ahead(counted) * Step /\ Ahead(counted) \in Int
    BY <2>2, <2>3, AheadByOne
  <2>5. /\ Ahead(Produced) = Ahead(counted) + IF IncrementUnseen THEN 1 ELSE 0
        /\ Ahead(Produced) \in Int
    BY <2>1, ProducedIs
  <2>6. NeverTooMany
    <3>1. Ahead(counted) \in 0 .. knob.detents
      BY <2>1, <2>2, <2>4, <2>5 DEF TurnsCounted
    <3> QED
      BY <2>4, <3>1 DEF NeverTooMany
  <2>7. ClicksSeenOnce
    BY <2>1 DEF ClicksCounted, ClicksSeenOnce
  <2>8. SteadyTurnCounted
    <3>1. SUFFICES ASSUME ~missed
                   PROVE  \/ Ahead(Produced) = knob.detents
                          \/ /\ Ahead(Produced) = knob.detents - 1
                             /\ knob.phase = 2 /\ knob.since < Bounce + Bits - 1
      <4>1. Ahead(counted) = Ahead(Produced) - IF IncrementUnseen THEN 1 ELSE 0
        BY <2>4, <2>5
      <4> QED
        BY <2>4, <4>1 DEF SteadyTurnCounted
    <3>2. \/ Ahead(Produced) = knob.detents
          \/ /\ Ahead(Produced) = knob.detents - 1
             /\ knob.phase = 2 /\ Lag \notin {0, 128}
      BY <2>1, <3>1 DEF TurnsCounted
    <3>3. WordsTaken(Lag, Lead, 8, knob)
      BY <2>1, <3>1 DEF SamplesKept
    <3>4. knob.phase = 2 /\ knob.since >= Bounce + 7 => Lag \in {0, 128}
      BY <2>2, <3>3, EdgeIsADetent
    <3>5. knob.since \in Int /\ Bounce \in Int /\ Bits - 1 = 7
      BY <2>2, EightBits DEF Knobs
    <3> QED
      BY <3>2, <3>4, <3>5
  <2> QED
    BY <2>6, <2>7, <2>8 DEF KnobIsCounted
<1> QED
  BY <1>1, CtlInvariance, PTL

-----------------------------------------------------------------------------
(* The chains of registers.                                                *)

\* A rising edge of Clock moves every stage on.
LEMMA ClockedInIs ==
  ASSUME NEW n \in Nat \ {0}, NEW chain \in [1 .. n -> {0, 1}], NEW bit \in {0, 1}
  PROVE  ClockedIn(chain, bit) = [k \in 1 .. n |-> IF k = 1 THEN bit ELSE chain[k - 1]]
<1>1. chain \in Seq({0, 1}) /\ Len(chain) = n
  OBVIOUS
<1>2. Front(chain) = [k \in 1 .. n - 1 |-> chain[k]]
  BY <1>1 DEF Front
<1>3. Front(chain) \in Seq({0, 1}) /\ Len(Front(chain)) = n - 1
  BY <1>2
<1> DEFINE f == Front(chain)
           b == <<bit>>
<1> HIDE DEF f
<1>4. /\ Len(b \o f) = n
      /\ b \o f \in [1 .. n -> {0, 1}]
      /\ \A k \in 1 .. n : (b \o f)[k] = IF k = 1 THEN bit ELSE f[k - 1]
  <2>1. b \in Seq({0, 1}) /\ Len(b) = 1 /\ b[1] = bit
    OBVIOUS
  <2>2. f \in Seq({0, 1}) /\ Len(f) = n - 1
    BY <1>3 DEF f
  <2> HIDE DEF b
  <2>3. /\ b \o f \in Seq({0, 1}) /\ Len(b \o f) = Len(b) + Len(f)
        /\ \A k \in 1 .. Len(b) + Len(f) :
             (b \o f)[k] = IF k <= Len(b) THEN b[k] ELSE f[k - Len(b)]
    BY <2>1, <2>2, ConcatProperties
  <2>4. \A k \in 1 .. n : (b \o f)[k] = IF k <= 1 THEN b[k] ELSE f[k - 1]
    BY <2>1, <2>2, <2>3
  <2>5. b \o f \in [1 .. n -> {0, 1}]
    <3> DEFINE s == b \o f
    <3>1. s \in Seq({0, 1}) /\ Len(s) = n
      BY <2>1, <2>2, <2>3
    <3> HIDE DEF s
    <3>2. s \in [1 .. Len(s) -> {0, 1}]
      BY <3>1, LenProperties
    <3> QED
      BY <3>1, <3>2 DEF s
  <2> QED
    BY <2>1, <2>2, <2>3, <2>4, <2>5
<1>5. \A k \in 1 .. n : k # 1 => f[k - 1] = chain[k - 1]
  BY <1>2 DEF f
<1> QED
  BY <1>4, <1>5 DEF ClockedIn, f

LEMMA ShiftedOut ==
  ASSUME NEW n \in Nat \ {0}, NEW chain \in [1 .. n -> {0, 1}],
         NEW word \in [1 .. n -> {0, 1}]
  PROVE  /\ ShiftOutMsbFirst(chain, word) = [k \in 1 .. n |-> word[n + 1 - k]]
         /\ Reverse(word) = [k \in 1 .. n |-> word[n + 1 - k]]
         /\ ShiftOutLsbFirst(chain, word) = word
<1>1. \A u \in [1 .. n -> {0, 1}] :
        ShiftOutMsbFirst(chain, u) = [k \in 1 .. n |-> u[n + 1 - k]]
  <2> SUFFICES ASSUME NEW u \in [1 .. n -> {0, 1}]
               PROVE  ShiftOutMsbFirst(chain, u) = [k \in 1 .. n |-> u[n + 1 - k]]
    OBVIOUS
  <2> DEFINE After(i) == [k \in 1 .. n |-> IF k <= i THEN u[i + 1 - k] ELSE chain[k - i]]
             Is(c) == c = [i \in 0 .. n |-> IF i = 0 THEN chain
                                            ELSE ClockedIn(c[i - 1], u[i])]
             w == CHOOSE c : Is(c)
  <2>1. Len(u) = n
    OBVIOUS
  <2>2. ShiftOutMsbFirst(chain, u) = w[n]
    BY <2>1 DEF ShiftOutMsbFirst
  <2>3. After(0) = chain /\ \A i \in 0 .. n : After(i) \in [1 .. n -> {0, 1}]
    <3>1. ASSUME NEW i \in 0 .. n, NEW k \in 1 .. n
          PROVE  (IF k <= i THEN u[i + 1 - k] ELSE chain[k - i]) \in {0, 1}
      OBVIOUS
    <3> QED
      BY <3>1
  <2>4. ASSUME NEW i \in 1 .. n
        PROVE  ClockedIn(After(i - 1), u[i]) = After(i)
    <3> DEFINE before == After(i - 1)
               bit == u[i]
    <3>1. before \in [1 .. n -> {0, 1}] /\ bit \in {0, 1}
      <4>1. i - 1 \in 0 .. n
        OBVIOUS
      <4> QED
        BY <2>3, <4>1
    <3>2. ClockedIn(before, bit)
            = [k \in 1 .. n |-> IF k = 1 THEN bit ELSE before[k - 1]]
      <4> HIDE DEF before, bit
      <4> QED
        BY <3>1, ClockedInIs
    <3>3. ASSUME NEW k \in 1 .. n
          PROVE  (IF k = 1 THEN u[i] ELSE After(i - 1)[k - 1]) = After(i)[k]
      <4>1. CASE k = 1
        BY <4>1
      <4>2. CASE k # 1
        <5>1. /\ k - 1 \in 1 .. n /\ (k - 1 <= i - 1 <=> k <= i)
              /\ (i - 1) + 1 - (k - 1) = i + 1 - k /\ (k - 1) - (i - 1) = k - i
          BY <4>2
        <5> QED
          BY <4>2, <5>1
      <4> QED
        BY <4>1, <4>2
    <3> QED
      BY <3>2, <3>3
  <2> HIDE DEF After
  <2>5. Is(w)
    <3>1. Is([i \in 0 .. n |-> After(i)])
      <4>1. \A i \in 0 .. n : i # 0 => i - 1 \in 0 .. n /\ i \in 1 .. n
        OBVIOUS
      <4> QED
        BY <2>3, <2>4, <4>1
    <3> HIDE DEF Is
    <3> QED
      BY <3>1
  <2> HIDE DEF w
  <2>6. w[0] = chain /\ \A i \in 1 .. n : w[i] = ClockedIn(w[i - 1], u[i])
    BY <2>5
  <2> DEFINE S == {i \in Nat : i <= n => w[i] = After(i)}
  <2>7. 0 \in S
    BY <2>3, <2>6
  <2>8. ASSUME NEW i \in Nat, i \in S
        PROVE  i + 1 \in S
    <3> SUFFICES ASSUME i + 1 <= n PROVE w[i + 1] = After(i + 1)
      OBVIOUS
    <3>1. w[i] = After(i) /\ i + 1 \in 1 .. n /\ (i + 1) - 1 = i
      BY <2>8
    <3> QED
      BY <2>4, <2>6, <3>1
  <2>9. Nat \subseteq S
    <3> HIDE DEF S
    <3> QED
      BY <2>7, <2>8, SetInduction
  <2>10. w[n] = After(n)
    BY <2>9
  <2> QED
    BY <2>2, <2>10 DEF After
<1>2. /\ Reverse(word) = [k \in 1 .. n |-> word[n + 1 - k]]
      /\ Reverse(word) \in [1 .. n -> {0, 1}]
  <2>1. \A k \in 1 .. n : (n - k) + 1 = n + 1 - k /\ n + 1 - k \in 1 .. n
    OBVIOUS
  <2> QED
    BY <2>1 DEF Reverse
<1>3. ShiftOutLsbFirst(chain, word) = word
  <2>1. ShiftOutLsbFirst(chain, word)
          = [k \in 1 .. n |-> Reverse(word)[n + 1 - k]]
    BY <1>1, <1>2 DEF ShiftOutLsbFirst
  <2>2. \A k \in 1 .. n : n + 1 - k \in 1 .. n /\ n + 1 - (n + 1 - k) = k
    OBVIOUS
  <2> QED
    BY <1>2, <2>1, <2>2
<1> QED
  BY <1>1, <1>2, <1>3

LEMMA OrdersAgreeFor ==
  ASSUME NEW n \in Nat \ {0}, NEW word \in [1 .. n -> {0, 1}]
  PROVE  LET msb == ShiftOutMsbFirst(word, word)
             lsb == ShiftOutLsbFirst(word, word)
         IN  /\ ReadLsbFirst(msb) = word /\ ReadMsbFirst(lsb) = word
             /\ ReadMsbFirst(msb) = Reverse(word) /\ ReadLsbFirst(lsb) = Reverse(word)
<1> DEFINE r == [k \in 1 .. n |-> word[n + 1 - k]]
<1>1. /\ ShiftOutMsbFirst(word, word) = r /\ Reverse(word) = r
      /\ ShiftOutLsbFirst(word, word) = word
  BY ShiftedOut
<1>2. \A k \in 1 .. n : /\ n + 1 - k \in 1 .. n /\ n - k + 1 = n + 1 - k
                        /\ n + 1 - (n + 1 - k) = k
  OBVIOUS
<1>3. Len(word) = n /\ Len(r) = n /\ DOMAIN word = 1 .. n /\ DOMAIN r = 1 .. n
  OBVIOUS
<1>4. ReadLsbFirst(r) = word /\ ReadMsbFirst(r) = r
  BY <1>2, <1>3 DEF ReadLsbFirst, ReadMsbFirst, OnDataPin
<1>5. ReadMsbFirst(word) = word /\ ReadLsbFirst(word) = r
  BY <1>2, <1>3 DEF ReadLsbFirst, ReadMsbFirst, OnDataPin
<1> QED
  BY <1>1, <1>4, <1>5

-----------------------------------------------------------------------------
(* The switches.                                                           *)

\* The bits of the state of a switch are its last levels, the newest first.
Newest(l) == [k \in 0 .. 7 |-> l[8 - k]]

SwInv ==
  /\ levels \in [Switch -> [1 .. 8 -> {0, 1}]]
  /\ switch_state_ \in [Switch -> Int]
  /\ \A i \in Switch : IsWord(switch_state_[i], Newest(levels[i]))

LEMMA SwitchBits ==
  ASSUME Samples = 8
  PROVE  /\ AllOnes = 255 /\ 2 ^ Samples = 256
         /\ 2 ^ (Samples - 1) = 128 /\ 2 ^ (Samples - 1) - 1 = 127
         /\ Switches \in Nat \ {0} /\ Wires \in Nat \ {0} /\ Switches <= Wires
<1>1. 2 ^ 8 = 256 /\ 2 ^ 7 = 128
  BY SMT
<1>2. Samples - 1 = 7
  OBVIOUS
<1> QED
  BY <1>1, <1>2, SwitchAssumption DEF AllOnes

LEMMA SwInitInv == ASSUME Samples = 8, SwInit PROVE SwInv
<1> DEFINE ones == [s \in 1 .. 8 |-> 1]
<1>1. /\ switch_state_ = [i \in Switch |-> 255] /\ levels = [i \in Switch |-> ones]
  BY SwitchBits DEF SwInit
<1>2. IsWord(255, Newest(ones))
  BY DEF IsWord, Newest
<1> QED
  BY <1>1, <1>2 DEF SwInv

\* What comes in first is lost.
MovedBy(m, n, l, v) == /\ m \in [1 .. n -> {0, 1}] /\ m[n] = v
                       /\ \A k \in 1 .. n - 1 : m[k] = l[k + 1]

LEMMA MovedOn ==
  ASSUME NEW n \in Nat \ {0}, NEW l \in [1 .. n -> {0, 1}], NEW v \in {0, 1}
  PROVE  MovedBy(Append(Tail(l), v), n, l, v)
<1> DEFINE t == Tail(l)
           m == Append(t, v)
<1>1. l \in Seq({0, 1}) /\ Len(l) = n /\ l # << >>
  OBVIOUS
<1>2. t \in Seq({0, 1}) /\ Len(t) = n - 1 /\ \A k \in 1 .. n - 1 : t[k] = l[k + 1]
  BY <1>1, HeadTailProperties
<1> HIDE DEF t
<1>3. /\ m \in Seq({0, 1}) /\ Len(m) = n /\ m[n] = v
      /\ \A k \in 1 .. n - 1 : m[k] = l[k + 1]
  BY <1>2, AppendProperties
<1> HIDE DEF m
<1>4. m \in [1 .. n -> {0, 1}]
  BY <1>3, LenProperties
<1> QED
  BY <1>3, <1>4 DEF MovedBy, m, t

LEMMA LevelsMove ==
  ASSUME NEW l \in [1 .. 8 -> {0, 1}], NEW v \in {0, 1}
  PROVE  LET m == Append(Tail(l), v)
         IN  m \in [1 .. 8 -> {0, 1}] /\ Newest(m) = Pushed(Newest(l), v)
<1> DEFINE m == Append(Tail(l), v)
<1>1. 8 \in Nat \ {0}
  OBVIOUS
<1>2. MovedBy(m, 8, l, v)
  BY ONLY <1>1, MovedOn, l \in [1 .. 8 -> {0, 1}], v \in {0, 1}
<1> HIDE DEF m
<1>3. m[8] = v /\ \A k \in 1 .. 7 : m[k] = l[k + 1]
  BY <1>2 DEF MovedBy
<1>4. m \in [1 .. 8 -> {0, 1}]
  BY <1>2 DEF MovedBy
<1>5. ASSUME NEW k \in 0 .. 7
      PROVE  Newest(m)[k] = Pushed(Newest(l), v)[k]
  <2>1. CASE k = 0
    BY <1>3, <2>1 DEF Newest, Pushed
  <2>2. CASE k # 0
    <3>1. 8 - k \in 1 .. 7 /\ k - 1 \in 0 .. 7 /\ 8 - (k - 1) = (8 - k) + 1
      BY <2>2
    <3> QED
      BY <1>3, <2>2, <3>1 DEF Newest, Pushed
  <2> QED
    BY <2>1, <2>2
<1>6. Newest(m) = Pushed(Newest(l), v)
  BY <1>5 DEF Newest, Pushed
<1> QED
  BY <1>4, <1>6 DEF m

\* Each switch gets the bit of its wire.
LEMMA BitOfItsWire ==
  ASSUME Samples = 8, NEW wires \in [1 .. Wires -> {0, 1}], NEW i \in Switch
  PROVE  /\ BitFor(ReadLsbFirst(wires), i) = wires[WireOf(i)]
         /\ wires[WireOf(i)] \in {0, 1}
<1>1. /\ Switches \in Nat \ {0} /\ Wires \in Nat \ {0} /\ Switches <= Wires
      /\ i \in 0 .. Switches - 1
  BY SwitchBits DEF Switch
<1>2. /\ WireOf(i) \in 1 .. Wires
      /\ Wires - Switches + 1 + i \in 1 .. Wires
      /\ Wires - (Wires - Switches + 1 + i) + 1 = WireOf(i)
  BY <1>1 DEF WireOf
<1>3. Len(wires) = Wires /\ DOMAIN wires = 1 .. Wires
  BY <1>1
<1> QED
  BY <1>2, <1>3 DEF BitFor, ReadLsbFirst, OnDataPin

LEMMA ReadSwitchesKeeps == ASSUME Samples = 8, SwInv, ReadSwitches PROVE SwInv'
<1>1. PICK wires \in [1 .. Wires -> {0, 1}] :
        LET value == ReadLsbFirst(wires) IN
        /\ switch_state_' = [i \in Switch |->
                     (switch_state_[i] * 2 + BitFor(value, i)) % 2 ^ Samples]
        /\ levels' = [i \in Switch |-> Append(Tail(levels[i]), wires[WireOf(i)])]
  BY DEF ReadSwitches
<1>2. ASSUME NEW i \in Switch
      PROVE  /\ switch_state_'[i] = (switch_state_[i] * 2 + wires[WireOf(i)]) % 256
             /\ levels'[i] = Append(Tail(levels[i]), wires[WireOf(i)])
             /\ wires[WireOf(i)] \in {0, 1}
             /\ levels[i] \in [1 .. 8 -> {0, 1}] /\ switch_state_[i] \in Int
             /\ IsWord(switch_state_[i], Newest(levels[i]))
  <2>1. /\ BitFor(ReadLsbFirst(wires), i) = wires[WireOf(i)]
        /\ wires[WireOf(i)] \in {0, 1}
    BY BitOfItsWire
  <2>2. switch_state_'[i]
          = (switch_state_[i] * 2 + BitFor(ReadLsbFirst(wires), i)) % 2 ^ Samples
    BY <1>1
  <2>3. levels'[i] = Append(Tail(levels[i]), wires[WireOf(i)])
    BY <1>1
  <2>4. /\ levels[i] \in [1 .. 8 -> {0, 1}] /\ switch_state_[i] \in Int
        /\ IsWord(switch_state_[i], Newest(levels[i]))
    BY DEF SwInv
  <2>5. 2 ^ Samples = 256
    BY SwitchBits
  <2> QED
    BY <2>1, <2>2, <2>3, <2>4, <2>5
<1>3. ASSUME NEW i \in Switch
      PROVE  /\ levels'[i] \in [1 .. 8 -> {0, 1}] /\ switch_state_'[i] \in Int
             /\ IsWord(switch_state_'[i], Newest(levels'[i]))
  <2> DEFINE v == wires[WireOf(i)]
             s == switch_state_[i]
  <2>1. v \in {0, 1} /\ s \in Int /\ IsWord(s, Newest(levels[i]))
        /\ levels[i] \in [1 .. 8 -> {0, 1}]
    BY <1>2
  <2> HIDE DEF v, s
  <2>2. /\ Append(Tail(levels[i]), v) \in [1 .. 8 -> {0, 1}]
        /\ Newest(Append(Tail(levels[i]), v)) = Pushed(Newest(levels[i]), v)
    BY <2>1, LevelsMove
  <2>3. IsWord((s * 2 + v) % 256, Pushed(Newest(levels[i]), v))
    BY <2>1, WordPushed
  <2>4. (s * 2 + v) % 256 \in Int
    BY <2>1
  <2> QED
    BY <1>2, <2>2, <2>3, <2>4 DEF v, s
<1>4. DOMAIN levels' = Switch /\ DOMAIN switch_state_' = Switch
      /\ levels' = [i \in Switch |-> levels'[i]]
      /\ switch_state_' = [i \in Switch |-> switch_state_'[i]]
  BY <1>1
<1> QED
  BY <1>3, <1>4 DEF SwInv

LEMMA WordOf127 ==
  ASSUME NEW w, IsWord(127, w)
  PROVE  w[7] = 0 /\ \A i \in 0 .. 6 : w[i] = 1
<1>1. /\ w[0] \in {0, 1} /\ w[1] \in {0, 1} /\ w[2] \in {0, 1} /\ w[3] \in {0, 1}
      /\ w[4] \in {0, 1} /\ w[5] \in {0, 1} /\ w[6] \in {0, 1} /\ w[7] \in {0, 1}
  BY DEF IsWord
<1>2. w[7] = 0 /\ w[0] = 1 /\ w[1] = 1 /\ w[2] = 1 /\ w[3] = 1 /\ w[4] = 1
      /\ w[5] = 1 /\ w[6] = 1
  BY <1>1 DEF IsWord
<1>3. \A i \in 0 .. 6 : i \in {0, 1, 2, 3, 4, 5, 6}
  OBVIOUS
<1> QED
  BY <1>2, <1>3

LEMMA SwInvMeans ==
  ASSUME Samples = 8, SwInv
  PROVE  EventsAreSeparate /\ OrdersAgree
<1>1. ASSUME NEW i \in Switch
      PROVE  LET settled(v) == levels[i][1] = 1 - v
                               /\ \A s \in 2 .. 8 : levels[i][s] = v
             IN  Event(i) = IF settled(0) THEN -1 ELSE IF settled(1) THEN 1 ELSE 0
  <2> DEFINE l == levels[i]
             s == switch_state_[i]
             w == Newest(l)
             low == l[1] = 1 /\ \A k \in 2 .. 8 : l[k] = 0
             high == l[1] = 0 /\ \A k \in 2 .. 8 : l[k] = 1
  <2>1. IsWord(s, w) /\ l \in [1 .. 8 -> {0, 1}]
    BY DEF SwInv
  <2>2. /\ w[7] = l[1] /\ w[6] = l[2] /\ w[5] = l[3] /\ w[4] = l[4] /\ w[3] = l[5]
        /\ w[2] = l[6] /\ w[1] = l[7] /\ w[0] = l[8]
        /\ \A k \in 2 .. 8 : 8 - k \in 0 .. 6 /\ w[8 - k] = l[k]
    BY DEF Newest
  <2>3. Event(i) = IF s = 128 THEN -1 ELSE IF s = 127 THEN 1 ELSE 0
    BY SwitchBits DEF Event
  <2> HIDE DEF l, s, w
  <2>4. s = 128 => low
    BY <2>1, <2>2, WordOf128
  <2>5. low => s = 128
    BY <2>1, <2>2 DEF IsWord
  <2>6. s = 127 => high
    BY <2>1, <2>2, WordOf127
  <2>7. high => s = 127
    BY <2>1, <2>2 DEF IsWord
  <2>8. Event(i) = IF low THEN -1 ELSE IF high THEN 1 ELSE 0
    BY <2>3, <2>4, <2>5, <2>6, <2>7
  <2> QED
    BY <2>8 DEF l
<1>2. EventsAreSeparate
  BY <1>1 DEF EventsAreSeparate
<1>3. OrdersAgree
  <2>1. ASSUME NEW i \in Switch PROVE levels[i] \in [1 .. 8 -> {0, 1}]
    BY DEF SwInv
  <2> DEFINE P(w) ==
               LET msb == ShiftOutMsbFirst(w, w)
                   lsb == ShiftOutLsbFirst(w, w)
               IN  /\ ReadLsbFirst(msb) = w /\ ReadMsbFirst(lsb) = w
                   /\ ReadMsbFirst(msb) = Reverse(w) /\ ReadLsbFirst(lsb) = Reverse(w)
  <2>2. \A n \in Nat \ {0} : \A w \in [1 .. n -> {0, 1}] : P(w)
    BY OrdersAgreeFor
  <2>3. \A w \in [1 .. 8 -> {0, 1}] : P(w)
    <3>1. 8 \in Nat \ {0}
      OBVIOUS
    <3> HIDE DEF P
    <3> QED
      BY <2>2, <3>1
  <2>4. \A i \in Switch : P(levels[i])
    <3> HIDE DEF P
    <3> QED
      BY <2>1, <2>3
  <2> QED
    BY <2>4 DEF OrdersAgree
<1> QED
  BY <1>2, <1>3
LEMMA SwInvariance == ASSUME Samples = 8 PROVE SwSpec => []SwInv
<1>1. SwInit => SwInv
  BY SwInitInv
<1>2. SwInv /\ [ReadSwitches]_swVars => SwInv'
  <2> SUFFICES ASSUME SwInv, [ReadSwitches]_swVars PROVE SwInv'
    OBVIOUS
  <2>1. CASE ReadSwitches
    BY <2>1, ReadSwitchesKeeps
  <2>2. CASE UNCHANGED swVars
    BY <2>2 DEF swVars, SwInv, Switch
  <2> QED
    BY <2>1, <2>2
<1> QED
  BY <1>1, <1>2, PTL DEF SwSpec

-----------------------------------------------------------------------------
(* The duty of each LED.                                                   *)

\* How many of the first x refreshes of the cycle light a LED in each colour.
EvenLit(b) == [x \in 0 .. 2 * Levels |->
                 IF (x + 1) \div 2 < DutyEven(b) THEN (x + 1) \div 2 ELSE DutyEven(b)]
OddLit(a) == [x \in 0 .. 2 * Levels |->
                IF x \div 2 > Levels - DutyOdd(a) THEN (x \div 2) - (Levels - DutyOdd(a))
                ELSE 0]

\* How many of the last r refreshes, when the next one is the c-th of the
\* cycle: they may have begun in the cycle before.
LastOf(lits, c, r) == IF r <= c THEN lits[c] - lits[c - r]
                      ELSE (lits[2 * Levels] + lits[c]) - lits[(c - r) + 2 * Levels]

Pixels == (0 .. Levels - 1) \X (0 .. Levels - 1)

LedTypeInv ==
  /\ pixels_ \in [Led -> Pixels] /\ buffered_pixels_ \in [Led -> Pixels]
  /\ sync \in 0 .. Leds /\ refresh_cycle_ \in 0 .. 2 * Levels - 1
  /\ stages \in [1 .. Leds + 1 -> {0, 1}]
  /\ lit \in [refreshes : 0 .. 2 * Levels, even : [Led -> Int], odd : [Led -> Int]]

CountInv ==
  \A i \in Led :
    /\ lit.even[i] = LastOf(EvenLit(pixels_[i][2]), refresh_cycle_, lit.refreshes)
    /\ lit.odd[i] = LastOf(OddLit(pixels_[i][1]), refresh_cycle_, lit.refreshes)

LedInv == LedTypeInv /\ CountInv

\* A count of the refreshes that light a LED starts from none and ends at all.
IsCount(lits, duty) == /\ lits \in [0 .. 2 * Levels -> Int]
                       /\ lits[0] = 0 /\ lits[2 * Levels] = duty

LEMMA EvenCount ==
  ASSUME NEW b \in 0 .. Levels - 1
  PROVE  IsCount(EvenLit(b), DutyEven(b)) /\ DutyEven(b) \in 0 .. Levels
<1>1. Levels \in Nat \ {0}
  BY LedAssumption
<1>2. DutyEven(b) \in 0 .. Levels
  BY <1>1 DEF DutyEven
<1> DEFINE d == DutyEven(b)
<1>3. d \in 0 .. Levels
  BY <1>2
<1>4. EvenLit(b) = [x \in 0 .. 2 * Levels |->
                      IF (x + 1) \div 2 < d THEN (x + 1) \div 2 ELSE d]
  BY DEF EvenLit
<1> HIDE DEF d
<1>5. (0 + 1) \div 2 = 0 /\ (2 * Levels + 1) \div 2 = Levels
  BY <1>1
<1>6. \A x \in 0 .. 2 * Levels : (x + 1) \div 2 \in Int
  BY <1>1
<1>7. 0 \in 0 .. 2 * Levels /\ 2 * Levels \in 0 .. 2 * Levels
  BY <1>1
<1>8. IsCount(EvenLit(b), d)
  BY <1>1, <1>3, <1>4, <1>5, <1>6, <1>7 DEF IsCount
<1> QED
  BY <1>2, <1>8 DEF d

LEMMA OddCount ==
  ASSUME NEW a \in 0 .. Levels - 1
  PROVE  IsCount(OddLit(a), DutyOdd(a)) /\ DutyOdd(a) \in 0 .. Levels
<1>1. Levels \in Nat \ {0}
  BY LedAssumption
<1>2. DutyOdd(a) \in 0 .. Levels
  BY <1>1 DEF DutyOdd
<1> DEFINE d == DutyOdd(a)
<1>3. d \in 0 .. Levels
  BY <1>2
<1>4. OddLit(a) = [x \in 0 .. 2 * Levels |->
                     IF x \div 2 > Levels - d THEN (x \div 2) - (Levels - d) ELSE 0]
  BY DEF OddLit
<1> HIDE DEF d
<1>5. 0 \div 2 = 0 /\ (2 * Levels) \div 2 = Levels
  BY <1>1
<1>6. \A x \in 0 .. 2 * Levels : x \div 2 \in Int
  BY <1>1
<1>7. 0 \in 0 .. 2 * Levels /\ 2 * Levels \in 0 .. 2 * Levels
  BY <1>1
<1>8. IsCount(OddLit(a), d)
  BY <1>1, <1>3, <1>4, <1>5, <1>6, <1>7 DEF IsCount
<1> QED
  BY <1>2, <1>8 DEF d

\* One refresh more, whether or not it is the last of the cycle.
LEMMA OneMore ==
  ASSUME NEW lits, NEW duty, IsCount(lits, duty),
         NEW c \in 0 .. 2 * Levels - 1, NEW r \in 0 .. 2 * Levels - 1
  PROVE  LastOf(lits, (c + 1) % (2 * Levels), r + 1)
           = LastOf(lits, c, r) + (lits[c + 1] - lits[c])
<1> DEFINE n == 2 * Levels
<1>1. n \in Nat \ {0} /\ n = 2 * Levels
  BY LedAssumption
<1>2. /\ lits \in [0 .. n -> Int] /\ lits[0] = 0 /\ c \in 0 .. n - 1 /\ r \in 0 .. n - 1
  BY DEF IsCount
<1> HIDE DEF n
<1>3. CASE c + 1 < n
  <2>1. (c + 1) % n = c + 1
    BY <1>1, <1>2, <1>3
  <2>2. CASE r <= c
    <3>1. r + 1 <= c + 1 /\ (c + 1) - (r + 1) = c - r /\ c - r \in 0 .. n
          /\ c \in 0 .. n /\ c + 1 \in 0 .. n
      BY <1>1, <1>2, <2>2
    <3>2. LastOf(lits, c + 1, r + 1) = lits[c + 1] - lits[c - r]
      BY <1>1, <3>1 DEF LastOf
    <3>3. LastOf(lits, c, r) = lits[c] - lits[c - r]
      BY <1>1, <2>2 DEF LastOf
    <3>4. lits[c] \in Int /\ lits[c + 1] \in Int /\ lits[c - r] \in Int
      BY <1>2, <3>1
    <3> QED
      BY <1>1, <2>1, <3>2, <3>3, <3>4
  <2>3. CASE ~ r <= c
    <3>1. ~ r + 1 <= c + 1 /\ ((c + 1) - (r + 1)) + n = (c - r) + n
          /\ (c - r) + n \in 0 .. n /\ c \in 0 .. n /\ c + 1 \in 0 .. n /\ n \in 0 .. n
      BY <1>1, <1>2, <2>3
    <3>2. LastOf(lits, c + 1, r + 1) = (lits[n] + lits[c + 1]) - lits[(c - r) + n]
      BY <1>1, <3>1 DEF LastOf
    <3>3. LastOf(lits, c, r) = (lits[n] + lits[c]) - lits[(c - r) + n]
      BY <1>1, <2>3 DEF LastOf
    <3>4. /\ lits[c] \in Int /\ lits[c + 1] \in Int /\ lits[(c - r) + n] \in Int
          /\ lits[n] \in Int
      BY <1>2, <3>1
    <3> QED
      BY <1>1, <2>1, <3>2, <3>3, <3>4
  <2> QED
    BY <2>2, <2>3
<1>4. CASE ~ c + 1 < n
  <2>1. c + 1 = n /\ (c + 1) % n = 0 /\ r <= c
    BY <1>1, <1>2, <1>4
  <2>2. /\ ~ r + 1 <= 0 /\ (0 - (r + 1)) + n = c - r /\ c - r \in 0 .. n
        /\ c \in 0 .. n /\ n \in 0 .. n /\ 0 \in 0 .. n
    BY <1>1, <1>2, <2>1
  <2>3. LastOf(lits, 0, r + 1) = (lits[n] + lits[0]) - lits[c - r]
    BY <1>1, <2>2 DEF LastOf
  <2>4. LastOf(lits, c, r) = lits[c] - lits[c - r]
    BY <1>1, <2>1 DEF LastOf
  <2>5. lits[c] \in Int /\ lits[n] \in Int /\ lits[c - r] \in Int
    BY <1>2, <2>2
  <2> QED
    BY <1>1, <1>2, <2>1, <2>3, <2>4, <2>5
<1> QED
  BY <1>3, <1>4

LEMMA NoneYet ==
  ASSUME NEW lits, NEW duty, IsCount(lits, duty), NEW c \in 0 .. 2 * Levels - 1
  PROVE  LastOf(lits, c, 0) = 0
<1>1. Levels \in Nat \ {0}
  BY LedAssumption
<1>2. c \in 0 .. 2 * Levels /\ 0 <= c /\ c - 0 = c
  BY <1>1
<1>3. lits[c] \in Int
  BY <1>2 DEF IsCount
<1> QED
  BY <1>2, <1>3 DEF LastOf

LEMMA AllOfThem ==
  ASSUME NEW lits, NEW duty, IsCount(lits, duty), duty \in Int,
         NEW c \in 0 .. 2 * Levels - 1
  PROVE  LastOf(lits, c, 2 * Levels) = duty
<1>1. Levels \in Nat \ {0}
  BY LedAssumption
<1>2. /\ c \in 0 .. 2 * Levels /\ ~ 2 * Levels <= c
      /\ (c - 2 * Levels) + 2 * Levels = c
  BY <1>1
<1>3. lits[c] \in Int /\ lits[2 * Levels] = duty
  BY <1>2 DEF IsCount
<1>4. LastOf(lits, c, 2 * Levels) = (duty + lits[c]) - lits[c]
  BY <1>2, <1>3 DEF LastOf
<1> QED
  BY <1>3, <1>4

\* The colour comes out last, and each LED at its place.
LEMMA PictureShown ==
  ASSUME LedTypeInv
  PROVE  LET out == ShiftOutMsbFirst(stages, Picture)
         IN  /\ out \in [1 .. Leds + 1 -> {0, 1}] /\ out[Leds + 1] = Odd
             /\ \A i \in Led : out[i + 1] = IF IsHigh(i) THEN 1 ELSE 0
<1> DEFINE bits == [k \in 1 .. Leds |-> IF IsHigh(Leds - k) THEN 1 ELSE 0]
           n == Leds + 1
           w == Picture
<1>1. Leds \in Nat /\ n \in Nat \ {0} /\ Levels \in Nat \ {0}
  BY LedAssumption
<1>2. Odd \in {0, 1}
  BY <1>1 DEF LedTypeInv, Odd
<1>3. bits \in Seq({0, 1}) /\ Len(bits) = Leds
      /\ \A k \in 1 .. Leds : bits[k] = IF IsHigh(Leds - k) THEN 1 ELSE 0
  BY <1>1
<1>4. w = <<Odd>> \o bits
  BY DEF Picture
<1> DEFINE first == <<Odd>>
<1>5. first \in Seq({0, 1}) /\ Len(first) = 1 /\ first[1] = Odd
  BY <1>2
<1> HIDE DEF first, bits, w
<1>6. /\ w \in Seq({0, 1}) /\ Len(w) = n /\ w[1] = Odd
      /\ \A k \in 2 .. n : w[k] = bits[k - 1]
  <2>1. /\ first \o bits \in Seq({0, 1}) /\ Len(first \o bits) = Len(first) + Len(bits)
        /\ \A k \in 1 .. Len(first) + Len(bits) :
             (first \o bits)[k] = IF k <= Len(first) THEN first[k] ELSE bits[k - Len(first)]
    BY <1>3, <1>5, ConcatProperties
  <2> QED
    BY <1>1, <1>3, <1>4, <1>5, <2>1 DEF first
<1>7. w \in [1 .. n -> {0, 1}]
  BY <1>6, LenProperties
<1> DEFINE out == ShiftOutMsbFirst(stages, w)
<1>8. out = [k \in 1 .. n |-> w[n + 1 - k]]
  <2>1. stages \in [1 .. n -> {0, 1}]
    BY DEF LedTypeInv
  <2> HIDE DEF n
  <2> QED
    BY <1>1, <1>7, <2>1, ShiftedOut
<1>9. \A k \in 1 .. n : n + 1 - k \in 1 .. n
  BY <1>1
<1>10. out \in [1 .. n -> {0, 1}] /\ out[n] = Odd
  <2>1. n \in 1 .. n /\ n + 1 - n = 1
    BY <1>1
  <2> QED
    BY <1>6, <1>7, <1>8, <1>9, <2>1
<1>11. ASSUME NEW i \in Led
       PROVE  out[i + 1] = IF IsHigh(i) THEN 1 ELSE 0
  <2>1. /\ i + 1 \in 1 .. n /\ n + 1 - (i + 1) = n - i /\ n - i \in 2 .. n
        /\ (n - i) - 1 = Leds - i /\ Leds - i \in 1 .. Leds /\ Leds - (Leds - i) = i
    BY <1>1 DEF Led
  <2>2. out[i + 1] = w[n - i]
    BY <1>8, <2>1
  <2>3. w[n - i] = bits[Leds - i]
    BY <1>6, <2>1
  <2>4. bits[Leds - i] = IF IsHigh(i) THEN 1 ELSE 0
    BY <1>3, <2>1
  <2> QED
    BY <2>2, <2>3, <2>4
<1> QED
  BY <1>10, <1>11 DEF w

\* In which refreshes a LED is lit.
LEMMA LitIsCounted ==
  ASSUME LedTypeInv, NEW i \in Led
  PROVE  LET c == refresh_cycle_
             even == EvenLit(pixels_[i][2])
             odd == OddLit(pixels_[i][1])
         IN  /\ even[c + 1] - even[c] = IF Odd = 0 /\ IsHigh(i) THEN 1 ELSE 0
             /\ odd[c + 1] - odd[c] = IF Odd = 1 /\ ~ IsHigh(i) THEN 1 ELSE 0
<1> DEFINE c == refresh_cycle_
           b == pixels_[i][2]
           a == pixels_[i][1]
           k == c \div 2
<1>1. /\ Levels \in Nat \ {0} /\ c \in 0 .. 2 * Levels - 1
      /\ a \in 0 .. Levels - 1 /\ b \in 0 .. Levels - 1
  BY LedAssumption DEF LedTypeInv, Pixels
<1>2. /\ k \in 0 .. Levels - 1 /\ (c = 2 * k \/ c = 2 * k + 1)
      /\ c \in 0 .. 2 * Levels /\ c + 1 \in 0 .. 2 * Levels
  BY <1>1
<1>3. Odd = c % 2 /\ Limit = k
  BY DEF Odd, Limit
<1>4. IsHigh(i) <=> IF Odd = 1 THEN Levels - 1 - a > k \/ Levels - 1 - a = Levels - 1
                              ELSE b > k \/ b = Levels - 1
  BY <1>3 DEF IsHigh
<1> HIDE DEF c, a, b, k
<1>5. /\ EvenLit(b)[c] = IF (c + 1) \div 2 < DutyEven(b) THEN (c + 1) \div 2
                         ELSE DutyEven(b)
      /\ EvenLit(b)[c + 1] = IF (c + 1 + 1) \div 2 < DutyEven(b) THEN (c + 1 + 1) \div 2
                             ELSE DutyEven(b)
      /\ OddLit(a)[c] = IF c \div 2 > Levels - DutyOdd(a)
                        THEN (c \div 2) - (Levels - DutyOdd(a)) ELSE 0
      /\ OddLit(a)[c + 1] = IF (c + 1) \div 2 > Levels - DutyOdd(a)
                            THEN ((c + 1) \div 2) - (Levels - DutyOdd(a)) ELSE 0
  BY <1>2 DEF EvenLit, OddLit
<1>6. CASE c = 2 * k
  <2>1. /\ c % 2 = 0 /\ (c + 1) \div 2 = k /\ (c + 1 + 1) \div 2 = k + 1 /\ c \div 2 = k
    BY <1>2, <1>6
  <2>2. IsHigh(i) <=> b > k \/ b = Levels - 1
    BY <1>3, <1>4, <2>1
  <2>3. /\ EvenLit(b)[c + 1] - EvenLit(b)[c] = IF b > k \/ b = Levels - 1 THEN 1 ELSE 0
        /\ OddLit(a)[c + 1] - OddLit(a)[c] = 0
    BY <1>1, <1>2, <1>5, <2>1 DEF DutyEven, DutyOdd
  <2> QED
    BY <1>3, <2>1, <2>2, <2>3 DEF c, a, b
<1>7. CASE c = 2 * k + 1
  <2>1. /\ c % 2 = 1 /\ (c + 1) \div 2 = k + 1 /\ (c + 1 + 1) \div 2 = k + 1 /\ c \div 2 = k
    BY <1>2, <1>7
  <2>2. IsHigh(i) <=> Levels - 1 - a > k \/ a = 0
    BY <1>1, <1>3, <1>4, <2>1
  <2>3. /\ EvenLit(b)[c + 1] - EvenLit(b)[c] = 0
        /\ OddLit(a)[c + 1] - OddLit(a)[c] = IF Levels - 1 - a > k \/ a = 0 THEN 0 ELSE 1
    BY <1>1, <1>2, <1>5, <2>1 DEF DutyEven, DutyOdd
  <2> QED
    BY <1>3, <2>1, <2>2, <2>3 DEF c, a, b
<1> QED
  BY <1>2, <1>6, <1>7

LEMMA LedWriteKeeps == ASSUME LedInv, LedWrite PROVE LedInv'
<1> DEFINE n == 2 * Levels
           c == refresh_cycle_
           l == IF lit.refreshes = n THEN NewPicture ELSE lit
           out == ShiftOutMsbFirst(stages, Picture)
           even(i) == IF IsLit(i, 0, out) THEN 1 ELSE 0
           odd(i) == IF IsLit(i, 1, out) THEN 1 ELSE 0
<1>1. /\ stages' = out /\ c' = (c + 1) % n
      /\ lit' = [refreshes |-> l.refreshes + 1,
                 even |-> [i \in Led |-> l.even[i] + even(i)],
                 odd |-> [i \in Led |-> l.odd[i] + odd(i)]]
      /\ pixels_' = pixels_ /\ buffered_pixels_' = buffered_pixels_ /\ sync' = sync
  BY DEF LedWrite, Counted
<1>2. n \in Nat \ {0} /\ LedTypeInv /\ c \in 0 .. n - 1
  BY LedAssumption DEF LedInv, LedTypeInv
<1>3. /\ out \in [1 .. Leds + 1 -> {0, 1}]
      /\ \A i \in Led : /\ IsLit(i, 0, out) <=> Odd = 0 /\ IsHigh(i)
                        /\ IsLit(i, 1, out) <=> Odd = 1 /\ ~ IsHigh(i)
  <2> HIDE DEF out
  <2>1. /\ out \in [1 .. Leds + 1 -> {0, 1}] /\ out[Leds + 1] = Odd
        /\ \A i \in Led : out[i + 1] = IF IsHigh(i) THEN 1 ELSE 0
    BY <1>2, PictureShown DEF out
  <2> QED
    BY <2>1 DEF IsLit
<1> HIDE DEF out
<1>4. \A i \in Led : even(i) \in Int /\ odd(i) \in Int
  OBVIOUS
<1>5. /\ l \in [refreshes : 0 .. n - 1, even : [Led -> Int], odd : [Led -> Int]]
      /\ \A i \in Led : /\ l.even[i] = LastOf(EvenLit(pixels_[i][2]), c, l.refreshes)
                        /\ l.odd[i] = LastOf(OddLit(pixels_[i][1]), c, l.refreshes)
  <2>1. CASE lit.refreshes = n
    <3>1. l = NewPicture
      BY <2>1
    <3> HIDE DEF l
    <3>2. l.refreshes = 0 /\ l.even = Unlit /\ l.odd = Unlit
      BY <3>1 DEF NewPicture
    <3>3. l \in [refreshes : 0 .. n - 1, even : [Led -> Int], odd : [Led -> Int]]
      BY <1>2, <3>1 DEF NewPicture, Unlit
    <3>4. ASSUME NEW i \in Led
          PROVE  /\ l.even[i] = LastOf(EvenLit(pixels_[i][2]), c, l.refreshes)
                 /\ l.odd[i] = LastOf(OddLit(pixels_[i][1]), c, l.refreshes)
      <4>1. pixels_[i][1] \in 0 .. Levels - 1 /\ pixels_[i][2] \in 0 .. Levels - 1
        BY <1>2 DEF LedTypeInv, Pixels
      <4>2. LastOf(EvenLit(pixels_[i][2]), c, 0) = 0
        BY <1>2, <4>1, EvenCount, NoneYet
      <4>3. LastOf(OddLit(pixels_[i][1]), c, 0) = 0
        BY <1>2, <4>1, OddCount, NoneYet
      <4> QED
        BY <3>2, <4>2, <4>3 DEF Unlit
    <3> QED
      BY <3>3, <3>4
  <2>2. CASE lit.refreshes # n
    <3>1. l = lit
      BY <2>2
    <3> HIDE DEF l
    <3> QED
      BY <1>2, <2>2, <3>1 DEF LedTypeInv, LedInv, CountInv
  <2> QED
    BY <2>1, <2>2
<1> HIDE DEF l, even, odd
<1>6. LedTypeInv'
  <2>1. l.refreshes + 1 \in 0 .. n
    BY <1>2, <1>5
  <2>2. \A i \in Led : l.even[i] \in Int /\ l.odd[i] \in Int
    BY <1>5
  <2>3. lit' \in [refreshes : 0 .. n, even : [Led -> Int], odd : [Led -> Int]]
    <3>1. /\ [i \in Led |-> l.even[i] + even(i)] \in [Led -> Int]
          /\ [i \in Led |-> l.odd[i] + odd(i)] \in [Led -> Int]
      BY <1>4, <2>2
    <3> QED
      BY <1>1, <2>1, <3>1
  <2>4. c' \in 0 .. n - 1
    BY <1>1, <1>2
  <2>5. /\ pixels_' \in [Led -> Pixels] /\ buffered_pixels_' \in [Led -> Pixels]
        /\ sync' \in 0 .. Leds
    BY <1>1, <1>2 DEF LedTypeInv
  <2>6. stages' \in [1 .. Leds + 1 -> {0, 1}]
    BY <1>1, <1>3
  <2> QED
    BY <2>3, <2>4, <2>5, <2>6 DEF LedTypeInv, Led, Pixels
<1>7. ASSUME NEW i \in Led
      PROVE  /\ lit'.even[i] = LastOf(EvenLit(pixels_[i][2]), c', lit'.refreshes)
             /\ lit'.odd[i] = LastOf(OddLit(pixels_[i][1]), c', lit'.refreshes)
  <2> DEFINE e == EvenLit(pixels_[i][2])
             o == OddLit(pixels_[i][1])
             r == l.refreshes
  <2>1. /\ e[c + 1] - e[c] = IF Odd = 0 /\ IsHigh(i) THEN 1 ELSE 0
        /\ o[c + 1] - o[c] = IF Odd = 1 /\ ~ IsHigh(i) THEN 1 ELSE 0
    BY <1>2, LitIsCounted
  <2>2. /\ e[c + 1] - e[c] = even(i) /\ o[c + 1] - o[c] = odd(i)
    BY <1>3, <2>1 DEF even, odd
  <2>3. pixels_[i][1] \in 0 .. Levels - 1 /\ pixels_[i][2] \in 0 .. Levels - 1
    BY <1>2 DEF LedTypeInv, Pixels
  <2>4. r \in 0 .. n - 1
    BY <1>5
  <2>5. IsCount(e, DutyEven(pixels_[i][2])) /\ IsCount(o, DutyOdd(pixels_[i][1]))
    BY <2>3, EvenCount, OddCount
  <2>6. /\ l.even[i] = LastOf(e, c, r) /\ l.odd[i] = LastOf(o, c, r)
    BY <1>5
  <2> HIDE DEF e, o, r
  <2>7. /\ LastOf(e, (c + 1) % n, r + 1) = LastOf(e, c, r) + (e[c + 1] - e[c])
        /\ LastOf(o, (c + 1) % n, r + 1) = LastOf(o, c, r) + (o[c + 1] - o[c])
    BY <1>2, <2>4, <2>5, OneMore
  <2>8. /\ lit'.even[i] = l.even[i] + even(i) /\ lit'.odd[i] = l.odd[i] + odd(i)
        /\ lit'.refreshes = r + 1
    BY <1>1 DEF r
  <2>9. /\ lit'.even[i] = LastOf(e, c', lit'.refreshes)
        /\ lit'.odd[i] = LastOf(o, c', lit'.refreshes)
    <3> HIDE DEF c, n
    <3> QED
      BY <1>1, <2>2, <2>6, <2>7, <2>8
  <2> QED
    BY <2>9 DEF e, o
<1>8. CountInv'
  BY <1>1, <1>7 DEF CountInv, Led
<1> QED
  BY <1>6, <1>8 DEF LedInv

\* A new picture has not been shown yet.
LEMMA NewPictureKeeps ==
  ASSUME LedTypeInv', lit' = NewPicture
  PROVE  LedInv'
<1>1. lit'.refreshes = 0 /\ lit'.even = Unlit /\ lit'.odd = Unlit
  BY DEF NewPicture
<1>2. ASSUME NEW i \in Led
      PROVE  /\ lit'.even[i] = LastOf(EvenLit(pixels_'[i][2]), refresh_cycle_', 0)
             /\ lit'.odd[i] = LastOf(OddLit(pixels_'[i][1]), refresh_cycle_', 0)
  <2>1. /\ pixels_'[i][1] \in 0 .. Levels - 1 /\ pixels_'[i][2] \in 0 .. Levels - 1
        /\ refresh_cycle_' \in 0 .. 2 * Levels - 1
    BY DEF LedTypeInv, Pixels, Led
  <2>2. LastOf(EvenLit(pixels_'[i][2]), refresh_cycle_', 0) = 0
    BY <2>1, EvenCount, NoneYet
  <2>3. LastOf(OddLit(pixels_'[i][1]), refresh_cycle_', 0) = 0
    BY <2>1, OddCount, NoneYet
  <2> QED
    BY <1>1, <2>2, <2>3 DEF Unlit
<1>3. CountInv'
  BY <1>1, <1>2 DEF CountInv, Led
<1> QED
  BY <1>3 DEF LedInv

LEMMA NewPictureType ==
  NewPicture \in [refreshes : 0 .. 2 * Levels, even : [Led -> Int], odd : [Led -> Int]]
BY LedAssumption DEF NewPicture, Unlit

LEMMA ProgramKeepsLeds ==
  ASSUME LedInv, SetPixel \/ Clear \/ SetDirectPixel \/ SyncCall \/ SyncPixel
  PROVE  LedInv'
<1>1. /\ Levels \in Nat \ {0} /\ Leds \in Nat
      /\ Intensities \subseteq Pixels /\ Dark \in Pixels
  BY LedAssumption DEF Dark, Pixels
<1>2. LedTypeInv /\ CountInv
  BY DEF LedInv
<1>3. CASE SetPixel \/ Clear \/ SyncCall
  <2>1. /\ buffered_pixels_' \in [Led -> Pixels] /\ sync' \in 0 .. Leds
    <3>1. CASE SetPixel
      BY <1>1, <1>2, <3>1 DEF SetPixel, LedTypeInv
    <3>2. CASE Clear
      BY <1>1, <1>2, <3>2 DEF Clear, LedTypeInv
    <3>3. CASE SyncCall
      BY <1>1, <1>2, <3>3 DEF SyncCall, LedTypeInv
    <3> QED
      BY <1>3, <3>1, <3>2, <3>3
  <2>2. /\ pixels_' = pixels_ /\ refresh_cycle_' = refresh_cycle_
        /\ stages' = stages /\ lit' = lit
    BY <1>3 DEF SetPixel, Clear, SyncCall
  <2>3. LedTypeInv'
    BY <1>2, <2>1, <2>2 DEF LedTypeInv, Led, Pixels
  <2>4. CountInv'
    BY <1>2, <2>2 DEF CountInv, Led
  <2> QED
    BY <2>3, <2>4 DEF LedInv
<1>4. CASE SetDirectPixel \/ SyncPixel
  <2>1. /\ pixels_' \in [Led -> Pixels] /\ sync' \in 0 .. Leds
    <3>1. CASE SetDirectPixel
      BY <1>1, <1>2, <3>1 DEF SetDirectPixel, LedTypeInv
    <3>2. CASE SyncPixel
      <4>1. sync \in Led /\ sync + 1 \in 0 .. Leds
        BY <1>1, <1>2, <3>2 DEF SyncPixel, LedTypeInv, Led
      <4> QED
        BY <1>2, <3>2, <4>1 DEF SyncPixel, LedTypeInv
    <3> QED
      BY <1>4, <3>1, <3>2
  <2>2. /\ buffered_pixels_' = buffered_pixels_ /\ refresh_cycle_' = refresh_cycle_
        /\ stages' = stages /\ lit' = NewPicture
    BY <1>4 DEF SetDirectPixel, SyncPixel
  <2>3. LedTypeInv'
    BY <1>2, <2>1, <2>2, NewPictureType DEF LedTypeInv, Led, Pixels
  <2> QED
    BY <2>2, <2>3, NewPictureKeeps
<1> QED
  BY <1>3, <1>4

LEMMA LedInitInv == ASSUME LedInit PROVE LedInv
<1>1. /\ Levels \in Nat \ {0} /\ Leds \in Nat /\ Dark \in Pixels
  BY LedAssumption DEF Dark, Pixels
<1>2. LedTypeInv
  BY <1>1, NewPictureType DEF LedInit, LedTypeInv
<1>3. ASSUME NEW i \in Led
      PROVE  /\ LastOf(EvenLit(pixels_[i][2]), refresh_cycle_, 0) = 0
             /\ LastOf(OddLit(pixels_[i][1]), refresh_cycle_, 0) = 0
  <2>1. /\ pixels_[i][1] \in 0 .. Levels - 1 /\ pixels_[i][2] \in 0 .. Levels - 1
        /\ refresh_cycle_ \in 0 .. 2 * Levels - 1
    BY <1>2 DEF LedTypeInv, Pixels
  <2> QED
    BY <2>1, EvenCount, OddCount, NoneYet
<1>4. lit.refreshes = 0 /\ lit.even = Unlit /\ lit.odd = Unlit
  BY DEF LedInit, NewPicture
<1>5. CountInv
  BY <1>3, <1>4 DEF CountInv, Unlit
<1> QED
  BY <1>2, <1>5 DEF LedInv

LEMMA LedInvariance == LedSpec => []LedInv
<1>1. LedInit => LedInv
  BY LedInitInv
<1>2. LedInv /\ [LedNext]_ledVars => LedInv'
  <2> SUFFICES ASSUME LedInv, [LedNext]_ledVars PROVE LedInv'
    OBVIOUS
  <2>1. CASE LedWrite
    BY <2>1, LedWriteKeeps
  <2>2. CASE SetPixel \/ Clear \/ SetDirectPixel \/ SyncCall \/ SyncPixel
    BY <2>2, ProgramKeepsLeds
  <2>3. CASE UNCHANGED ledVars
    BY <2>3 DEF ledVars, LedInv, LedTypeInv, CountInv, Led, Pixels
  <2> QED
    BY <2>1, <2>2, <2>3 DEF LedNext
<1> QED
  BY <1>1, <1>2, PTL DEF LedSpec

LEMMA LedInvMeans == ASSUME LedInv PROVE DutyRight
<1> SUFFICES ASSUME lit.refreshes = 2 * Levels, NEW i \in Led
             PROVE  /\ lit.even[i] = DutyEven(pixels_[i][2])
                    /\ lit.odd[i] = DutyOdd(pixels_[i][1])
  BY DEF DutyRight
<1>1. /\ pixels_[i][1] \in 0 .. Levels - 1 /\ pixels_[i][2] \in 0 .. Levels - 1
      /\ refresh_cycle_ \in 0 .. 2 * Levels - 1
  BY DEF LedInv, LedTypeInv, Pixels
<1>2. /\ lit.even[i] = LastOf(EvenLit(pixels_[i][2]), refresh_cycle_, 2 * Levels)
      /\ lit.odd[i] = LastOf(OddLit(pixels_[i][1]), refresh_cycle_, 2 * Levels)
  BY DEF LedInv, CountInv
<1>3. /\ IsCount(EvenLit(pixels_[i][2]), DutyEven(pixels_[i][2]))
      /\ DutyEven(pixels_[i][2]) \in Int
  <2> HIDE DEF LedInv
  <2>1. DutyEven(pixels_[i][2]) \in 0 .. Levels
    BY <1>1, EvenCount
  <2> QED
    BY <1>1, <2>1, EvenCount, LedAssumption
<1>4. /\ IsCount(OddLit(pixels_[i][1]), DutyOdd(pixels_[i][1]))
      /\ DutyOdd(pixels_[i][1]) \in Int
  <2>1. DutyOdd(pixels_[i][1]) \in 0 .. Levels
    BY <1>1, OddCount
  <2> QED
    BY <1>1, <2>1, OddCount, LedAssumption
<1> QED
  BY <1>1, <1>2, <1>3, <1>4, AllOfThem

-----------------------------------------------------------------------------
\* Whatever is shifted through the chains arrives where it is for: a LED has
\* the duty of its own pixel, whenever the program changes it and wherever in
\* the cycle the refreshes are counted from, an event is that of its switch,
\* and the two orders of bits agree.
THEOREM ChainsStayAgreed ==
  ASSUME Samples = 8
  PROVE  LedSpec /\ SwSpec => []ChainsAgree
<1>1. LedInv /\ SwInv => ChainsAgree
  BY LedInvMeans, SwInvMeans DEF ChainsAgree
<1> QED
  BY <1>1, LedInvariance, SwInvariance, PTL
=============================================================================
