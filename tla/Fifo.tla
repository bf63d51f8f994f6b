-------------------------------- MODULE Fifo --------------------------------
(***************************************************************************)
(* What a ring buffer promises to the code on its two sides: a bounded     *)
(* first-in first-out queue.  Values are appended in one step, the oldest  *)
(* value is handed out, and nothing is lost, invented or reordered; the    *)
(* only way to lose values is to ask for it (Clear).                       *)
(***************************************************************************)
EXTENDS Integers, Sequences

CONSTANTS Capacity,   \* how many values can be queued
          Values,     \* the values
          CanClear,   \* is the queue ever asked to drop its values?
          Nothing     \* what has been handed out before the first Get

VARIABLES queue,      \* the values waiting, oldest first
          out         \* the value handed out last

Init == queue = << >> /\ out = Nothing

Put(items) == /\ Len(queue) + Len(items) <= Capacity
              /\ queue' = queue \o items
              /\ out' = out

Get == /\ queue # << >>
       /\ out' = Head(queue)
       /\ queue' = Tail(queue)

Clear == CanClear /\ queue' = << >> /\ out' = out

Next == \/ \E v \in Values : Put(<<v>>)
        \/ \E v1, v2 \in Values : Put(<<v1, v2>>)
        \/ Get
        \/ Clear

Spec == Init /\ [][Next]_<<queue, out>>
=============================================================================
