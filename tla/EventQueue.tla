----------------------------- MODULE EventQueue -----------------------------
(***************************************************************************)
(* The queue of user-interface events (ui/event_queue.h).  A handler adds  *)
(* events, and the program pulls them when there are any available, or     *)
(* flushes them all.  An event is added without looking whether there is   *)
(* room for it.                                                            *)
(***************************************************************************)
EXTENDS RingOps

CONSTANTS QueueSize,    \* size, 32
          Types, Ids,   \* control types and numbers events are added with
          Nibble,       \* 16: what four bits hold
          EvByte,       \* 256; the clock has two such digits, not four bytes
          MaxDue        \* bound: events added and not pulled

ASSUME EventAssumption == /\ QueueSize \in Nat \ {0} /\ Nibble \in Nat \ {0}
                          /\ EvByte \in Nat \ {0} /\ MaxDue \in Nat
                          /\ Types \subseteq Nat /\ Ids \subseteq Nat

VARIABLES queue,        \* slots, read_ptr_ and write_ptr_
          program,      \* what the program does, and what it has latched
          touched,      \* last_event_time_, and the clock
          sent          \* history: events to come, lost, expected, pulled

evVars == <<queue, program, touched, sent>>

\* AddEvent: type and number share a byte.
Packed(type, id) == ((type * Nibble) % (Nibble * Nibble)) + (id % Nibble)
Unpacked(v) == <<v \div Nibble, v % Nibble>>

NoEvent == << >>
Wire == {<<t, i>> : t \in Types, i \in Ids}
EvClock == EvByte * EvByte

EvInit ==
  /\ queue = [slots |-> [s \in 0 .. QueueSize - 1 |-> 0], read |-> 0, write |-> 0]
  /\ program = [pc |-> "idle", seen |-> 0, got |-> NoEvent]
  /\ touched = [at |-> 0, now |-> 0, age |-> 0]
  /\ sent = [due |-> << >>, overrun |-> FALSE, want |-> NoEvent]

Available == Readable(QueueSize, queue.read, queue.write)

\* AddEvent in the handler, over RingBuffer::Overwrite.
AddUnmasked(type, id) ==                  \* faulty: the number is not masked
  /\ Len(sent.due) < MaxDue
  /\ queue' = [queue EXCEPT !.slots[queue.write] = (type * Nibble) + id,
                            !.write = Masked(QueueSize, @ + 1)]
  /\ sent' = [sent EXCEPT !.due = Append(@, <<type, id>>),
                          !.overrun = @ \/ Available = QueueSize - 1]
  /\ UNCHANGED <<program, touched>>

AddEvent(type, id) ==
  /\ Len(sent.due) < MaxDue
  /\ queue' = [queue EXCEPT !.slots[queue.write] = Packed(type, id),
                            !.write = Masked(QueueSize, @ + 1)]
  /\ sent' = [sent EXCEPT !.due = Append(@, <<type, id>>),
                          !.overrun = @ \/ Available = QueueSize - 1]
  /\ UNCHANGED <<program, touched>>

\* The program calls available() and pulls only if there is something.
PullEvent ==                              \* the slot is copied
  /\ program.pc = "idle" /\ Available > 0
  /\ program' = [program EXCEPT !.pc = "pull", !.seen = queue.read,
                      !.got = Unpacked(queue.slots[queue.read])]
  /\ sent' = [sent EXCEPT !.want = IF sent.due = << >> THEN NoEvent
                                   ELSE Head(sent.due)]
  /\ UNCHANGED <<queue, touched>>

PullPublish ==                            \* and given back
  /\ program.pc = "pull"
  /\ queue' = [queue EXCEPT !.read = Masked(QueueSize, program.seen + 1)]
  /\ program' = [program EXCEPT !.pc = "idle", !.got = NoEvent]
  /\ sent' = [sent EXCEPT !.want = NoEvent, !.due = IF @ = << >> THEN @ ELSE Tail(@)]
  /\ UNCHANGED touched

\* Flush: write_ptr_ = read_ptr_.  Every event to come is dropped.
FlushLatch ==
  /\ program.pc = "idle"
  /\ program' = [program EXCEPT !.pc = "flush", !.seen = queue.read]
  /\ UNCHANGED <<queue, touched, sent>>

FlushStore ==
  /\ program.pc = "flush"
  /\ queue' = [queue EXCEPT !.write = program.seen]
  /\ program' = [program EXCEPT !.pc = "idle"]
  /\ sent' = [sent EXCEPT !.due = << >>, !.overrun = FALSE]
  /\ UNCHANGED touched

\* Touch, and the clock: it wraps around at EvByte squared.
Touch ==
  /\ touched' = [touched EXCEPT !.at = touched.now, !.age = 0]
  /\ UNCHANGED <<queue, program, sent>>

ClockTicks ==
  /\ touched.age < EvClock
  /\ touched' = [touched EXCEPT !.now = (@ + 1) % EvClock, !.age = @ + 1]
  /\ UNCHANGED <<queue, program, sent>>

EvNext == \/ \E e \in Wire : AddEvent(e[1], e[2])
          \/ PullEvent \/ PullPublish \/ FlushLatch \/ FlushStore
          \/ Touch \/ ClockTicks

EvSpec == EvInit /\ [][EvNext]_evVars

\* idle_time_ms: what is left of the difference in half of the bytes.
IdleSigned == IF touched.now < touched.at THEN 0       \* faulty: no wrap
              ELSE (touched.now - touched.at) % EvByte
IdleTimeMs == ((touched.now - touched.at) % EvClock) % EvByte

-----------------------------------------------------------------------------
(* Properties.                                                             *)

\* As long as no more events have come than the queue holds, the program
\* pulls the events that were added, each once and in order, with the type
\* and the number cut to four bits each: CONTROL_REFRESH, all ones, comes out
\* as the highest nibble, and neither spoils the other.
EventsKept == ~sent.overrun =>
  /\ Available = Len(sent.due)
  /\ program.pc = "pull" =>
       program.got = [k \in 1 .. 2 |-> sent.want[k] % Nibble]

\* The time since the last Touch is right up to the 16 bits it is given in,
\* also when the clock wraps around in between.
IdleTimeRight == touched.age < EvByte => IdleTimeMs = touched.age

\* The two together: what the user did, and how long ago.
UserIsHeard == EventsKept /\ IdleTimeRight
=============================================================================
