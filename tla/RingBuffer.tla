----------------------------- MODULE RingBuffer -----------------------------
(***************************************************************************)
(* avrlibx::RingBuffer (io/ring_buffer.h): a single-producer, single-      *)
(* consumer queue shared by the main program and an interrupt handler      *)
(* without any locking.                                                    *)
(*                                                                         *)
(* The grain is one access to a shared variable: the two pointers are      *)
(* volatile bytes, so an interrupt may come between any two accesses, and  *)
(* a pointer that has been read may be stale when it is used.  A handler   *)
(* runs to completion before the main program goes on: the side named      *)
(* IsrSide may start at any moment, the other side only steps while the    *)
(* handler is not running.                                                 *)
(***************************************************************************)
EXTENDS RingOps

CONSTANTS Size,         \* Owner::buffer_size, a power of two in the code
          Values,       \* the values queued
          NoValue,      \* content of a slot never written
          IsrSide,      \* the side that runs in the interrupt handler
          ProducerOps,  \* the operations the producing side calls
          ConsumerOps   \* the operations the consuming side calls

\* A handler cannot spin: the main program would never run again.  Flush
\* writes the producer's pointer, so only the main program may call it, as
\* a consumer.  Overwrite2 stores in slots w and w + 1 without masking the
\* second: it needs an even size and a write pointer nothing makes odd.
ASSUME SizeAssumption == Size \in Nat /\ Size >= 2
ASSUME SideAssumption == IsrSide \in {"producer", "consumer"}
ASSUME OpsAssumption ==
  /\ ProducerOps \subseteq {"Write", "NonBlockingWrite", "Overwrite2"}
  /\ ConsumerOps \subseteq {"Read", "NonBlockingRead", "Flush"}
  /\ IsrSide = "producer" => "Write" \notin ProducerOps
  /\ IsrSide = "consumer" => ConsumerOps \subseteq {"NonBlockingRead"}
  /\ "Overwrite2" \in ProducerOps =>
       /\ ProducerOps = {"Overwrite2"}
       /\ "Flush" \notin ConsumerOps
       /\ Size % 2 = 0
ASSUME ValueAssumption == NoValue \notin Values

VARIABLES read_ptr, write_ptr,
          buffer,   \* slots 0 .. Size - 1, and the memory cell after them
          prod,     \* control state of the producing side
          cons,     \* control state of the consuming side
          out       \* the value the last read returned

vars == <<read_ptr, write_ptr, buffer, prod, cons, out>>

Slots == 0 .. Size - 1

Init == /\ read_ptr = 0
        /\ write_ptr = 0
        /\ buffer = [s \in 0 .. Size |-> NoValue]
        /\ prod = [pc |-> "idle", op |-> "none", items |-> << >>,
                   seen |-> 0, w |-> 0]
        /\ cons = [pc |-> "idle", op |-> "none", seen |-> 0, r |-> 0,
                   result |-> NoValue]
        /\ out = NoValue

\* The main program is suspended while the handler runs.
ProducerRuns == IsrSide = "producer" \/ cons.pc = "idle"
ConsumerRuns == IsrSide = "consumer" \/ prod.pc = "idle"

-----------------------------------------------------------------------------
(* The producing side: Write, NonBlockingWrite, and the LCD's Overwrite2   *)
(* behind its check that two slots are writable.                           *)

ItemsOf(op) == IF op = "Overwrite2" THEN {<<v1, v2>> : v1, v2 \in Values}
                                    ELSE {<<v>> : v \in Values}

ProducerCall(op, items) ==
  /\ ProducerRuns
  /\ prod.pc = "idle"
  /\ prod' = [prod EXCEPT !.pc = "latch", !.op = op, !.items = items]
  /\ UNCHANGED <<read_ptr, write_ptr, buffer, cons, out>>

\* writable(), first access: the consumer's pointer.
ProducerLatch ==
  /\ ProducerRuns
  /\ prod.pc = "latch"
  /\ prod' = [prod EXCEPT !.pc = "compare", !.seen = read_ptr]
  /\ UNCHANGED <<read_ptr, write_ptr, buffer, cons, out>>

\* writable(), second access, and the branch on the result.
HasRoomForOne == Writable(Size, prod.seen, write_ptr) >= 1     \* faulty
HasRoom == Writable(Size, prod.seen, write_ptr) >= Len(prod.items)

SpinOnStalePointer ==              \* faulty: read_ptr_ not volatile
  /\ ProducerRuns
  /\ prod.pc = "compare"
  /\ IF HasRoom
     THEN prod' = [prod EXCEPT !.pc = "store"]
     ELSE prod' = [prod EXCEPT !.pc = IF prod.op = "Write" THEN "compare"
                                                           ELSE "idle"]
  /\ UNCHANGED <<read_ptr, write_ptr, buffer, cons, out>>

ProducerCompare ==
  /\ ProducerRuns
  /\ prod.pc = "compare"
  /\ \/ /\ HasRoom
        /\ prod' = [prod EXCEPT !.pc = "store"]
     \/ /\ ~HasRoom /\ prod.op = "Write"              \* while (!writable());
        /\ prod' = [prod EXCEPT !.pc = "latch"]
     \/ /\ ~HasRoom /\ prod.op # "Write"              \* return 0
        /\ prod' = [prod EXCEPT !.pc = "idle"]
  /\ UNCHANGED <<read_ptr, write_ptr, buffer, cons, out>>

\* Overwrite, Overwrite2: the pointer is loaded and the slots are filled.
\* The second slot of Overwrite2 is w + 1, not masked.
ProducerStore ==
  /\ ProducerRuns
  /\ prod.pc = "store"
  /\ prod' = [prod EXCEPT !.pc = "publish", !.w = write_ptr]
  /\ buffer' = [s \in DOMAIN buffer |->
                  IF s \in write_ptr .. write_ptr + Len(prod.items) - 1
                  THEN prod.items[s - write_ptr + 1] ELSE buffer[s]]
  /\ UNCHANGED <<read_ptr, write_ptr, cons, out>>

\* Overwrite, Overwrite2: the slots become visible to the consumer.
PublishUnmasked ==                 \* faulty: the wrap-around is missing
  /\ ProducerRuns
  /\ prod.pc = "publish"
  /\ write_ptr' = prod.w + Len(prod.items)
  /\ prod' = [prod EXCEPT !.pc = "idle"]
  /\ UNCHANGED <<read_ptr, buffer, cons, out>>

PublishOne ==                      \* faulty: Overwrite2 advances by one
  /\ ProducerRuns
  /\ prod.pc = "publish"
  /\ write_ptr' = Masked(Size, prod.w + 1)
  /\ prod' = [prod EXCEPT !.pc = "idle"]
  /\ UNCHANGED <<read_ptr, buffer, cons, out>>

ProducerPublish ==
  /\ ProducerRuns
  /\ prod.pc = "publish"
  /\ write_ptr' = Masked(Size, prod.w + Len(prod.items))
  /\ prod' = [prod EXCEPT !.pc = "idle"]
  /\ UNCHANGED <<read_ptr, buffer, cons, out>>

-----------------------------------------------------------------------------
(* The consuming side: Read, NonBlockingRead, Flush.                       *)

ConsumerCall(op) ==
  /\ ConsumerRuns
  /\ cons.pc = "idle"
  /\ cons' = [cons EXCEPT !.pc = IF op = "Flush" THEN "flush" ELSE "latch",
                          !.op = op]
  /\ UNCHANGED <<read_ptr, write_ptr, buffer, prod, out>>

\* readable(), first access: the producer's pointer.
ConsumerLatch ==
  /\ ConsumerRuns
  /\ cons.pc = "latch"
  /\ cons' = [cons EXCEPT !.pc = "compare", !.seen = write_ptr]
  /\ UNCHANGED <<read_ptr, write_ptr, buffer, prod, out>>

\* readable(), second access, and the branch on the result.
HasDataUnchecked == Readable(Size, read_ptr, cons.seen) >= 0   \* faulty
HasData == Readable(Size, read_ptr, cons.seen) >= 1

ConsumerCompare ==
  /\ ConsumerRuns
  /\ cons.pc = "compare"
  /\ \/ /\ HasData
        /\ cons' = [cons EXCEPT !.pc = "load"]
     \/ /\ ~HasData /\ cons.op = "Read"               \* while (!readable());
        /\ cons' = [cons EXCEPT !.pc = "latch"]
     \/ /\ ~HasData /\ cons.op # "Read"               \* return -1
        /\ cons' = [cons EXCEPT !.pc = "idle"]
  /\ UNCHANGED <<read_ptr, write_ptr, buffer, prod, out>>

\* ImmediateRead: the pointer is loaded and the slot is copied.
ConsumerLoad ==
  /\ ConsumerRuns
  /\ cons.pc = "load"
  /\ cons' = [cons EXCEPT !.pc = "publish", !.r = read_ptr,
                          !.result = buffer[read_ptr]]
  /\ UNCHANGED <<read_ptr, write_ptr, buffer, prod, out>>

\* ImmediateRead: the slot is given back to the producer.
ConsumerPublish ==
  /\ ConsumerRuns
  /\ cons.pc = "publish"
  /\ read_ptr' = Masked(Size, cons.r + 1)
  /\ out' = cons.result
  /\ cons' = [cons EXCEPT !.pc = "idle"]
  /\ UNCHANGED <<write_ptr, buffer, prod>>

\* Flush: read_ptr_ is read, and stored in write_ptr_ in a second access.
FlushLatch ==
  /\ ConsumerRuns
  /\ cons.pc = "flush"
  /\ cons' = [cons EXCEPT !.pc = "flushing", !.seen = read_ptr]
  /\ UNCHANGED <<read_ptr, write_ptr, buffer, prod, out>>

FlushToStart ==                    \* faulty: the pointer goes back to zero
  /\ ConsumerRuns
  /\ cons.pc = "flushing"
  /\ write_ptr' = 0
  /\ cons' = [cons EXCEPT !.pc = "idle"]
  /\ UNCHANGED <<read_ptr, buffer, prod, out>>

FlushStore ==
  /\ ConsumerRuns
  /\ cons.pc = "flushing"
  /\ write_ptr' = cons.seen
  /\ cons' = [cons EXCEPT !.pc = "idle"]
  /\ UNCHANGED <<read_ptr, buffer, prod, out>>

-----------------------------------------------------------------------------
ProducerStep == \/ ProducerLatch
                \/ ProducerCompare
                \/ ProducerStore
                \/ ProducerPublish

ConsumerStep == \/ ConsumerLatch
                \/ ConsumerCompare
                \/ ConsumerLoad
                \/ ConsumerPublish
                \/ FlushLatch
                \/ FlushStore

Next == \/ \E op \in ProducerOps : \E items \in ItemsOf(op) :
             ProducerCall(op, items)
        \/ ProducerStep
        \/ \E op \in ConsumerOps : ConsumerCall(op)
        \/ ConsumerStep

Spec == Init /\ [][Next]_vars

\* A transmit buffer.  A handler that has started returns; the peripheral
\* goes on raising "data register empty", so the handler keeps being called;
\* and the processor executes at least one instruction of the main program
\* between two handlers, so the main program cannot be starved.
FairSpec == /\ Spec
            /\ SF_vars(ProducerStep)
            /\ WF_vars(ConsumerStep)
            /\ WF_vars(\E op \in ConsumerOps : ConsumerCall(op))

-----------------------------------------------------------------------------
(* Properties.                                                             *)

ProducerPCs == {"idle", "latch", "compare", "store", "publish"}
ConsumerPCs == {"idle", "latch", "compare", "load", "publish",
                "flush", "flushing"}
Items == {<<v>> : v \in Values} \cup {<<v1, v2>> : v1, v2 \in Values}

\* The pointers stay inside the buffer, whatever the interleaving.
TypeOK ==
  /\ read_ptr \in Slots
  /\ write_ptr \in Slots
  /\ buffer \in [0 .. Size -> Values \cup {NoValue}]
  /\ prod \in [pc : ProducerPCs, op : ProducerOps \cup {"none"},
               items : Items \cup {<< >>}, seen : Slots, w : Slots]
  /\ cons \in [pc : ConsumerPCs, op : ConsumerOps \cup {"none"},
               seen : Slots, r : Slots, result : Values \cup {NoValue}]
  /\ out \in Values \cup {NoValue}

Room == Writable(Size, read_ptr, write_ptr)
Queued == Readable(Size, read_ptr, write_ptr)
Queue == Contents(Size, buffer, read_ptr, write_ptr)

\* A side that is between its check and its access works on what it has
\* been granted: however stale the pointer it compared with, the producer
\* still has room for what it stores and the consumer still has a value to
\* take, because the other side can only have made more room, or more data.
Reservations ==
  /\ prod.pc \in {"store", "publish"} => Room >= Len(prod.items)
  /\ cons.pc \in {"load", "publish"} => Queued >= 1

\* The pointer a side compares with is never ahead of the truth.
StaleIsSafe ==
  /\ prod.pc = "compare" => Writable(Size, prod.seen, write_ptr) <= Room
  /\ cons.pc = "compare" => Readable(Size, read_ptr, cons.seen) <= Queued

\* Overwrite2 never stores past the end of buffer_: w + 1 is a slot, although
\* the code does not mask it, because the write pointer stays even.
InBounds == buffer[Size] = NoValue

\* What makes the above inductive.  An operation in progress is one of those
\* the side calls; ...
CallsInProgress ==
  /\ prod.pc # "idle" => /\ prod.op \in ProducerOps
                         /\ prod.items \in ItemsOf(prod.op)
  /\ cons.pc \in {"flush", "flushing"} => "Flush" \in ConsumerOps

\* ... the pointer, the slots and the value a side holds are still current
\* when it publishes; ...
Latched ==
  /\ prod.pc = "publish" =>
       /\ prod.w = write_ptr
       /\ \A i \in DOMAIN prod.items :
            buffer[Masked(Size, prod.w + i - 1)] = prod.items[i]
  /\ cons.pc = "publish" => /\ cons.r = read_ptr
                            /\ cons.result = buffer[read_ptr]
  /\ cons.pc = "flushing" => cons.seen = read_ptr

\* ... and Overwrite2 only ever starts on an even slot.
EvenPairs == "Overwrite2" \in ProducerOps => write_ptr % 2 = 0

\* The inductive invariant of the ring.
RingInv == /\ TypeOK
           /\ Reservations
           /\ StaleIsSafe
           /\ CallsInProgress
           /\ Latched
           /\ EvenPairs
           /\ InBounds

\* Whatever the interleaving of the two sides, the ring is a first-in
\* first-out queue of Size - 1 values: no value is lost, duplicated,
\* reordered or overwritten before it has been read.
Abstract == INSTANCE Fifo WITH Capacity <- Size - 1, Nothing <- NoValue,
                               CanClear <- "Flush" \in ConsumerOps,
                               queue <- Queue
RefinesFifo == Abstract!Spec

\* A Write that finds the buffer full returns once the handler has made
\* room: it polls the pointer afresh.
WriteReturns == (prod.pc # "idle") ~> (prod.pc = "idle")
=============================================================================
