------------------------------- MODULE Ports -------------------------------
(***************************************************************************)
(* The pins of a port (io/gpio.h) and a group of them taken as a number    *)
(* (io/parallel_io.h).  Gpio sets, clears and toggles its pin by registers *)
(* that leave the others alone; ParallelPort reads the output register,    *)
(* and writes it.  A handler may drive its own pin in between.             *)
(***************************************************************************)
EXTENDS Integers, FiniteSets

CONSTANTS Pins,        \* 0 .. 7
          FirstPin, LastPin, \* the pins of the ParallelPort
          HandlerPin,  \* the pin a handler owns
          InvertedPin  \* a pin the program drives through an Inverter

ASSUME PinAssumption == /\ FirstPin .. LastPin \subseteq Pins
                        /\ FirstPin .. LastPin # {}
                        /\ {HandlerPin, InvertedPin} \subseteq Pins \ (FirstPin .. LastPin)
                        /\ HandlerPin # InvertedPin

VARIABLES port,        \* dir, out and the PINnCTRL registers, MPCMASK
          user,        \* the program: its call, and the output it has read
          wanted,      \* history: what the owner of each pin has asked for
          disturbed    \* history: pins that another user's write spoilt, until
                       \* their owner sets them again

portVars == <<port, user, wanted, disturbed>>

Mask == FirstPin .. LastPin
Bit(value, i) == (value \div 2 ^ i) % 2

PortInit ==
  /\ port = [dir |-> [p \in Pins |-> "input"], out |-> [p \in Pins |-> 0],
             control |-> [p \in Pins |-> "totem"], mpcmask |-> {}]
  /\ user = [pc |-> "idle", read |-> [p \in Pins |-> 0], arg |-> 0]
  /\ wanted = [out |-> [p \in Pins |-> 0], control |-> [p \in Pins |-> "totem"],
               dir |-> [p \in Pins |-> "input"]]
  /\ disturbed = [out |-> {}, control |-> {}]

\* OUTSET, OUTCLR and OUTTGL for the pins of a mask.
Driven(f, mask, how) ==
  [p \in Pins |-> IF p \notin mask THEN f[p]
                  ELSE CASE how = "High" -> 1 [] how = "Low" -> 0
                         [] how = "Toggle" -> 1 - f[p]]
Inverted(how) == CASE how = "High" -> "Low" [] how = "Low" -> "High"
                   [] how = "Toggle" -> "Toggle"
Hows == {"High", "Low", "Toggle"}

\* PINnCTRL = value: for all the pins of MPCMASK once it has been set.
ControlSet(pin, value) ==
  LET mask == IF port.mpcmask = {} THEN {pin} ELSE port.mpcmask
  IN [port EXCEPT !.mpcmask = {},
                  !.control = [p \in Pins |-> IF p \in mask THEN value ELSE @[p]]]

\* Gpio::High, Low and Toggle in the handler.
HandlerDrives ==
  \E how \in Hows :
    /\ port' = [port EXCEPT !.out = Driven(@, {HandlerPin}, how)]
    /\ wanted' = [wanted EXCEPT !.out = Driven(@, {HandlerPin}, how)]
    /\ disturbed' = [disturbed EXCEPT !.out =
                       IF user.pc = "set_value" THEN @ \cup {HandlerPin}
                       ELSE IF how = "Toggle" THEN @ ELSE @ \ {HandlerPin}]
    /\ UNCHANGED user

\* Gpio::set_mode in the handler.
HandlerSetsMode ==
  \E mode \in {"pull_up", "totem"} :
    /\ port' = ControlSet(HandlerPin, mode)
    /\ wanted' = [wanted EXCEPT !.control[HandlerPin] = mode]
    /\ disturbed' = [disturbed EXCEPT !.control =
                       IF port.mpcmask # {} THEN @ \cup Mask \cup {0, HandlerPin}
                       ELSE IF user.pc = "set_mode" THEN @ ELSE @ \ {HandlerPin}]
    /\ UNCHANGED user

-----------------------------------------------------------------------------
(* The program.                                                            *)

\* The levels of the pins when the program has asked its inverted pin for how.
Wished(f, how) == LET asked == Driven(f, {InvertedPin}, how)
                  IN [p \in Pins |-> IF p = InvertedPin /\ how # "Toggle"
                                     THEN 1 - asked[p] ELSE asked[p]]

\* Inverter<Gpio>: High, Low, Toggle.
DrivesInverted ==
  /\ user.pc = "idle"
  /\ \E how \in Hows :
       /\ port' = [port EXCEPT !.out = Driven(@, {InvertedPin}, Inverted(how))]
       /\ wanted' = [wanted EXCEPT !.out = Wished(@, how)]
       /\ disturbed' = [disturbed EXCEPT !.out = IF how = "Toggle" THEN @
                                                 ELSE @ \ {InvertedPin}]
  /\ UNCHANGED user

\* ParallelPort: High, Low, Toggle.
DrivesMask ==
  /\ user.pc = "idle"
  /\ \E how \in Hows :
       /\ port' = [port EXCEPT !.out = Driven(@, Mask, how)]
       /\ wanted' = [wanted EXCEPT !.out = Driven(@, Mask, how)]
  /\ UNCHANGED <<user, disturbed>>

\* ParallelPort::set_value, with any byte: the output register is read ...
SetValueReads ==
  /\ user.pc = "idle"
  /\ \E value \in 0 .. 2 ^ Cardinality(Pins) - 1 :
       user' = [pc |-> "set_value", read |-> port.out, arg |-> value]
  /\ UNCHANGED <<port, wanted, disturbed>>

\* ... and written.  The value is shifted, and not masked: what does not fit
\* raises pins above the last.
Spilt == {p \in Pins \ Mask : p > LastPin /\ Bit(user.arg, p - FirstPin) = 1}
WithoutPreserve == [p \in Pins |-> IF p >= FirstPin THEN Bit(user.arg, p - FirstPin) ELSE 0]
Preserved == [p \in Pins |-> IF p \in Mask THEN Bit(user.arg, p - FirstPin)
                             ELSE IF p \in Spilt THEN 1 ELSE user.read[p]]
SetValueWrites ==
  /\ user.pc = "set_value"
  /\ port' = [port EXCEPT !.out = Preserved]
  /\ wanted' = [wanted EXCEPT !.out = [p \in Pins |->
                  IF p \in Mask THEN Bit(user.arg, p - FirstPin) ELSE @[p]]]
  /\ disturbed' = [disturbed EXCEPT !.out = @ \cup Spilt]
  /\ user' = [user EXCEPT !.pc = "idle", !.read = [p \in Pins |-> 0], !.arg = 0]

\* ParallelPort::set_direction, and Gpio::set_direction, which sets the
\* control register of an output to slow slew.
SetsDirections ==
  /\ user.pc = "idle"
  /\ \E d \in {"input", "output"} :
       /\ port' = [port EXCEPT !.dir = [p \in Pins |-> IF p \in Mask THEN d ELSE @[p]]]
       /\ wanted' = [wanted EXCEPT !.dir = port'.dir]
  /\ UNCHANGED <<user, disturbed>>

SetsDirection ==
  /\ user.pc = "idle"
  /\ \E d \in {"input", "output"} :
       LET p1 == [port EXCEPT !.dir[InvertedPin] = d]
           control == IF d = "output" THEN "slow" ELSE port.control[InvertedPin]
       IN /\ port' = [p1 EXCEPT !.control[InvertedPin] = control]
          /\ wanted' = [wanted EXCEPT !.dir[InvertedPin] = d,
                                      !.control[InvertedPin] = control]
          /\ disturbed' = [disturbed EXCEPT !.control = IF d = "output"
                                           THEN @ \ {InvertedPin} ELSE @]
  /\ UNCHANGED user

\* ParallelPort::set_mode: the mask is set, and then the mode of pin 0.
SetModeMasks ==
  /\ user.pc = "idle"
  /\ port' = [port EXCEPT !.mpcmask = Mask]
  /\ user' = [user EXCEPT !.pc = "set_mode"]
  /\ UNCHANGED <<wanted, disturbed>>

SetModeWrites ==
  /\ user.pc = "set_mode"
  /\ \E mode \in {"pull_up", "totem"} :
       /\ port' = ControlSet(0, mode)
       /\ wanted' = [wanted EXCEPT !.control = [p \in Pins |->
                                     IF p \in Mask THEN mode ELSE @[p]]]
       /\ disturbed' = [disturbed EXCEPT !.control =
                          IF port.mpcmask = Mask THEN @ \ Mask ELSE @]
  /\ user' = [user EXCEPT !.pc = "idle"]

PortNext == \/ HandlerDrives \/ HandlerSetsMode \/ DrivesInverted \/ DrivesMask
            \/ SetValueReads \/ SetValueWrites \/ SetsDirections \/ SetsDirection
            \/ SetModeMasks \/ SetModeWrites

PortSpec == PortInit /\ [][PortNext]_portVars

-----------------------------------------------------------------------------
(* Properties.                                                             *)

\* Every pin has the level, the mode and the direction its owner asked for
\* last, but for the pins that were spoilt, until their owner sets them again:
\* the level of the handler's pin, when it came between the two halves of a
\* set_value; the levels of the pins above the group, when set_value was given
\* a number that does not fit; and the modes of the group, of pin 0 and of the
\* handler's pin, when it came between the two halves of a set_mode.
PinsAsWanted ==
  /\ \A p \in Pins :
       /\ p \in disturbed.out \/ port.out[p] = wanted.out[p]
       /\ p \in disturbed.control \/ port.control[p] = wanted.control[p]
       /\ port.dir[p] = wanted.dir[p]
  /\ \A p \in disturbed.out : p = HandlerPin \/ p > LastPin
  /\ disturbed.control \subseteq Mask \cup {0, HandlerPin}
=============================================================================
