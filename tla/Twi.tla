--------------------------------- MODULE Twi ---------------------------------
(***************************************************************************)
(* avrlibx::TwiMaster (io/twi.h): the two-wire bus master.  The main       *)
(* program fills the output ring, starts a transfer with Send or Request   *)
(* and polls state_ in Wait; the interrupt handler moves one byte each     *)
(* time the bus hardware reports the end of an operation.                  *)
(*                                                                         *)
(* The rings are counts of bytes: RingBuffer shows that they are queues,   *)
(* and what the bytes are makes no difference here.  The handler is one    *)
(* step, as it runs to completion.  Request and Send are cut where the     *)
(* handler may run: at each check, and at each store that it overwrites or *)
(* that starts the hardware.                                               *)
(*                                                                         *)
(* The bus hardware is external, and modelled from the status flags that   *)
(* the handler tests.  A command (a write to ADDR, DATA or CTRLC) starts   *)
(* an operation and lowers the flags; until there is one, the flags stay   *)
(* up, and the handler runs again and again.                               *)
(***************************************************************************)
EXTENDS Integers

CONSTANTS InputRoom,    \* what the input ring holds, input_buffer_size - 1
          OutputRoom,   \* what the output ring holds
          MaxRequest    \* bound on the bytes asked for in one Request

ASSUME RoomAssumption == InputRoom \in Nat /\ OutputRoom \in Nat
ASSUME RequestAssumption == MaxRequest \in Nat

VARIABLES state, error,         \* state_, error_
          slarw,                \* direction bit of slarw_
          received, requested,  \* received_, requested_
          input, output,        \* bytes in the two rings
          bus,                  \* the operation the hardware is executing
          status,               \* the flags it has raised at the end of it
          main,                 \* the call the main program is in
          granted,              \* was the bus at rest when the room for the
                                \* transfer it is executing was checked?
          tracked               \* was state_ not READY when it was started?

code == <<state, error, slarw, received, requested>>
vars == <<state, error, slarw, received, requested, input, output, bus,
          status, main, granted, tracked>>

\* What a call that starts a transfer has done: its first check ("room"), the
\* check of state_ ("state"), the assignments ("marked"); and what the bus did at
\* the first check.
Call == [op : {"none", "request", "send"}, n : 0 .. MaxRequest,
         done : {"none", "room", "state", "marked"}, bus : {"resting", "working"}]
NoCall == [op |-> "none", n |-> 0, done |-> "none", bus |-> "resting"]

\* All static storage is zero: TWI_STATE_READY and TWI_ERROR_NONE are 0.
Init == /\ state = "READY" /\ error = "NONE"
        /\ slarw = "write" /\ received = 0 /\ requested = 0
        /\ input = 0 /\ output = 0
        /\ bus = "off" /\ status = "none"
        /\ main = NoCall /\ granted = TRUE /\ tracked = TRUE

\* An operation is going on, or the handler is about to go on with the next.
Stuck == {"ARBITRATION_LOST", "BUS_ERROR", "UNEXPECTED"}
Busy == bus \notin {"off", "idle"} /\ status \notin Stuck
BusSeen == IF state = "READY" /\ ~Busy THEN "resting" ELSE "working"

-----------------------------------------------------------------------------
(* The main program.                                                       *)

\* Init: what a transfer has left in the other variables stays there.
TwiInit == /\ main = NoCall /\ bus = "off"
           /\ bus' = "idle"
           /\ state' = "READY"
           /\ UNCHANGED <<error, slarw, received, requested, input, output,
                          status, main, granted, tracked>>

\* Done: the hardware is switched off, whatever it was doing.
TwiDone == /\ main = NoCall /\ bus # "off"
           /\ bus' = "off" /\ status' = "none"
           /\ UNCHANGED <<code, input, output, main, granted, tracked>>

\* Write and NonBlockingWrite, of a byte that fits.
PutByte == /\ main = NoCall /\ output < OutputRoom
           /\ output' = output + 1
           /\ UNCHANGED <<code, input, bus, status, main, granted, tracked>>

\* Read, NonBlockingRead and ImmediateRead, of a byte that is there.
GetByte == /\ main = NoCall /\ input > 0
           /\ input' = input - 1
           /\ UNCHANGED <<code, output, bus, status, main, granted, tracked>>

FlushInputBuffer == /\ main = NoCall
                    /\ input' = 0
                    /\ UNCHANGED <<code, output, bus, status, main, granted, tracked>>

\* FlushOutputBuffer is called on the producer's side: it must not be called
\* while the handler takes bytes (see the hazards), and TwiEeprom does not.
FlushOutputBuffer == /\ main = NoCall /\ ~Busy
                     /\ output' = 0
                     /\ UNCHANGED <<code, input, bus, status, main, granted, tracked>>

\* Request, first check: writable() of the input ring.
FitsUnchecked(n) == TRUE                            \* faulty
RequestFits(n) == ~(n >= InputRoom - input)

RequestCheck(n) ==
  /\ main = NoCall /\ bus # "off"
  /\ RequestFits(n)
  /\ main' = [op |-> "request", n |-> n, done |-> "room",
              bus |-> BusSeen]
  /\ UNCHANGED <<code, input, output, bus, status, granted, tracked>>

\* Send, first check: readable() of the output ring.
SendCheck ==
  /\ main = NoCall /\ bus # "off"
  /\ output > 0
  /\ main' = [op |-> "send", n |-> 0, done |-> "room",
              bus |-> BusSeen]
  /\ UNCHANGED <<code, input, output, bus, status, granted, tracked>>

\* The check of state_, and if it is READY, error_ = TWI_ERROR_NONE.
StateUnchecked ==                    \* faulty: the check is missing
  /\ main.done = "room"
  /\ error' = "NONE" /\ main' = [main EXCEPT !.done = "state"]
  /\ UNCHANGED <<state, slarw, received, requested, input, output, bus,
                 status, granted, tracked>>

StateCheck ==
  /\ main.done = "room"
  /\ \/ state # "READY" /\ main' = NoCall /\ error' = error  \* return 0
     \/ /\ state = "READY"
        /\ error' = "NONE" /\ main' = [main EXCEPT !.done = "state"]
  /\ UNCHANGED <<state, slarw, received, requested, input, output, bus,
                 status, granted, tracked>>

\* Request, the assignments before the hardware is started.
MarkReceiving ==
  /\ main.op = "request" /\ main.done = "state"
  /\ state' = "RECEIVING" /\ slarw' = "read"
  /\ received' = 0 /\ requested' = main.n
  /\ main' = [main EXCEPT !.done = "marked"]
  /\ UNCHANGED <<error, input, output, bus, status, granted, tracked>>

\* Send, the same.  received_ and requested_ are those of the last Request.
MarkTransmitting ==
  /\ main.op = "send" /\ main.done = "state"
  /\ state' = "TRANSMITTING" /\ slarw' = "write"
  /\ main' = [main EXCEPT !.done = "marked"]
  /\ UNCHANGED <<error, received, requested, input, output, bus, status,
                 granted, tracked>>

\* The slave is addressed, in the direction of slarw_.
Addressing == IF slarw = "read" THEN "address_read" ELSE "address_write"

\* ADDR = slarw_, which lowers the flags that are still up.
StartBus ==
  /\ main.done = "marked"
  /\ bus' = Addressing /\ status' = "none"
  /\ main' = NoCall
  /\ granted' = (main.bus = "resting") /\ tracked' = (state # "READY")
  /\ UNCHANGED <<code, input, output>>

-----------------------------------------------------------------------------
(* The bus hardware, and InterruptHandler, which tests the flags in the    *)
(* order of this list.                                                     *)

Faults == {"ARBITRATION_LOST", "BUS_ERROR"}

Writes == {"address_write", "write"}
Reads == {"address_read", "read"}

\* Flags the end of an operation may raise: a fault; for an address or a byte
\* that was written, the slave's acknowledgement (WIF, with RXACK or not);
\* for a byte that was read (RIF), also the first, right after the address;
\* or an interrupt with none of these flags.
Outcomes ==
  Stuck \cup (IF bus \in Writes THEN {"ack"} ELSE {"byte"})
        \cup (IF bus = "read" THEN {} ELSE {"nack"})

BusReports ==
  /\ bus \notin {"off", "idle"} /\ status = "none"
  /\ status' \in Outcomes
  /\ UNCHANGED <<code, input, output, bus, main, granted, tracked>>

\* Arbitration lost or bus error: no command is given to the hardware, and the
\* flag stays up.
OnFault ==
  /\ status \in Faults
  /\ error' = status /\ state' = "READY"
  /\ UNCHANGED <<slarw, received, requested, input, output, bus, status, main,
                 granted, tracked>>

\* None of the flags: no command either.
OnUnexpected ==
  /\ status = "UNEXPECTED"
  /\ error' = "UNEXPECTED_STATE" /\ state' = "READY"
  /\ UNCHANGED <<slarw, received, requested, input, output, bus, status, main,
                 granted, tracked>>

\* The slave has not acknowledged its address, or a byte: stop.
OnNackKeepsState ==                  \* faulty: state_ is not reset
  /\ status = "nack"
  /\ error' = "NO_ACK" /\ state' = state
  /\ bus' = "idle" /\ status' = "none"
  /\ UNCHANGED <<slarw, received, requested, input, output, main, granted, tracked>>

OnNack ==
  /\ status = "nack"
  /\ error' = "NO_ACK" /\ state' = "READY"
  /\ bus' = "idle" /\ status' = "none"
  /\ UNCHANGED <<slarw, received, requested, input, output, main, granted, tracked>>

\* Ready for write, and a byte is waiting.
OnReadyToWrite ==
  /\ status = "ack" /\ output > 0
  /\ output' = output - 1
  /\ bus' = "write" /\ status' = "none"
  /\ UNCHANGED <<code, input, main, granted, tracked>>

\* Ready for write, nothing left, but less received than requested: the
\* slave is addressed again, with the same direction bit.
OnReaddress ==
  /\ status = "ack" /\ output = 0 /\ received < requested
  /\ bus' = Addressing /\ status' = "none"
  /\ UNCHANGED <<code, input, output, main, granted, tracked>>

\* Ready for write, nothing left: stop.
StopEarly ==                         \* faulty: stops one byte too early
  /\ status = "ack" /\ output <= 1 /\ ~(received < requested)
  /\ bus' = "idle" /\ status' = "none" /\ state' = "READY"
  /\ UNCHANGED <<error, slarw, received, requested, input, output, main,
                 granted, tracked>>

OnAllWritten ==
  /\ status = "ack" /\ output = 0 /\ ~(received < requested)
  /\ bus' = "idle" /\ status' = "none" /\ state' = "READY"
  /\ UNCHANGED <<error, slarw, received, requested, input, output, main,
                 granted, tracked>>

\* A byte goes to the input ring with Overwrite, which does not look whether
\* there is room: a full ring becomes an empty one.
StoreByte == input' = IF input < InputRoom THEN input + 1 ELSE 0

OnByte ==
  /\ status = "byte"
  /\ StoreByte
  /\ received' = received + 1
  /\ \/ received' < requested /\ bus' = "read" /\ state' = state
     \/ ~(received' < requested) /\ bus' = "idle" /\ state' = "READY"
  /\ status' = "none"
  /\ UNCHANGED <<error, slarw, requested, output, main, granted, tracked>>

InterruptHandler == \/ OnFault
                    \/ OnUnexpected
                    \/ OnNack
                    \/ OnReadyToWrite
                    \/ OnReaddress
                    \/ OnAllWritten
                    \/ OnByte

-----------------------------------------------------------------------------
MainStep == \/ StateCheck
            \/ MarkReceiving
            \/ MarkTransmitting
            \/ StartBus

Next == \/ TwiInit
        \/ TwiDone
        \/ PutByte
        \/ GetByte
        \/ FlushInputBuffer
        \/ FlushOutputBuffer
        \/ \E n \in 0 .. MaxRequest : RequestCheck(n)
        \/ SendCheck
        \/ MainStep
        \/ BusReports
        \/ InterruptHandler

Spec == Init /\ [][Next]_vars

\* A call returns, and the bus hardware ends every operation it is given.
FairSpec == /\ Spec
            /\ WF_vars(MainStep)
            /\ WF_vars(BusReports)
            /\ WF_vars(InterruptHandler)

-----------------------------------------------------------------------------
(* Properties.                                                             *)

TypeOK ==
  /\ state \in {"READY", "TRANSMITTING", "RECEIVING"}
  /\ error \in {"NONE", "NO_ACK", "UNEXPECTED_STATE"} \cup Faults
  /\ slarw \in {"read", "write"}
  /\ received \in Nat /\ requested \in 0 .. MaxRequest
  /\ input \in 0 .. InputRoom /\ output \in 0 .. OutputRoom
  /\ bus \in {"off", "idle"} \cup Writes \cup Reads
  /\ status \in {"none", "ack", "nack", "byte"} \cup Stuck
  /\ main \in Call
  /\ granted \in BOOLEAN /\ tracked \in BOOLEAN

\* state_ tells the main program the truth about the bus: while the hardware
\* is at work on a transfer, state_ tells its direction, and never READY; and
\* once it is idle, state_ is READY.  The exception is a transfer that was
\* started when state_ was READY again.
ReadyMeansIdle ==
  /\ tracked /\ Busy => state = IF bus \in Reads THEN "RECEIVING" ELSE "TRANSMITTING"
  /\ bus = "idle" /\ main.done # "marked" => state = "READY"

\* How that comes about: the flag of a fault was still up when the transfer was
\* started, and the handler ran for it once more between the assignment of
\* state_ and the start; or the transfer before it was such a one.
OnlyFaultsMislead ==
  main.done = "marked" /\ state = "READY" => status \in Stuck \/ ~tracked

\* Between the check of state_ and the start, the bus is at rest.
StartsAtRest ==
  /\ main.done \in {"state", "marked"} /\ tracked => ~Busy
  /\ main.done # "none" /\ main.bus = "resting" => ~Busy

\* How many bytes the transfer in progress can still deliver: one at least,
\* even when none was requested.
Expected == IF requested - received > 1 THEN requested - received ELSE 1

\* The room that Request found with the bus at rest is still there when the
\* hardware is started, and then stays reserved to the last byte: the handler
\* stores without looking.  This is of each transfer, whatever happened before.
GrantKept ==
  /\ main.op = "request" /\ main.bus = "resting" => main.n < InputRoom - input
  /\ granted /\ tracked /\ Busy /\ bus \in Reads => input + Expected <= InputRoom

\* A byte that arrives finds room.
ByteFits == granted /\ tracked /\ status = "byte" => input < InputRoom

\* The flags agree with the operation that has ended, and the assignments of a
\* call are still there when it starts the hardware, but for state_.
StatusFits ==
  /\ status # "none" => bus \notin {"idle", "off"}
  /\ status = "byte" => bus \in Reads
  /\ status = "ack" => bus \in Writes
  /\ main.op = "none" <=> main.done = "none"
  /\ main.done # "marked" /\ Busy /\ tracked =>
       slarw = IF bus \in Reads THEN "read" ELSE "write"
  /\ main.done = "marked" =>
       /\ main.op = "request" => /\ state # "TRANSMITTING" /\ slarw = "read"
                                 /\ requested = main.n
                                 /\ main.bus = "resting" => received = 0
       /\ main.op = "send" => state # "RECEIVING" /\ slarw = "write"

\* The inductive invariant.
TwiInv == /\ TypeOK /\ ReadyMeansIdle /\ OnlyFaultsMislead /\ StartsAtRest
          /\ StatusFits /\ GrantKept

\* A transfer that ends without an error is complete: a Request has received
\* what it asked for, and Send has transmitted all that was waiting.
CompleteStep ==
  tracked /\ state # "READY" /\ state' = "READY" /\ error' = "NONE" /\ bus # "off" =>
    /\ state = "RECEIVING" => received' >= requested
    /\ state = "TRANSMITTING" => output' = 0

CompletesInFull == [][CompleteStep]_vars

\* A Send inherits the counters of a Request that failed.
Stale == slarw = "write" /\ received < requested

\* Every transfer ends, or is switched off, or is fed with new bytes for ever,
\* or is a Send that comes after a Request that failed.
TransfersEnd == \/ []<>(state = "READY" \/ bus = "off")
                \/ []<><<PutByte>>_vars
                \/ <>[]Stale

\* Wait returns: the same, without the last case.
WaitReturns == \/ []<>(state = "READY" \/ bus = "off")
               \/ []<><<PutByte>>_vars
=============================================================================
