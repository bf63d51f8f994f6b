----------------------------- MODULE Utils_proofs -----------------------------
(***************************************************************************)
(* Proofs about utils/.  RingBuffer, for every even or odd size, every set *)
(* of values, either side in the interrupt handler, and every set of       *)
(* operations its assumptions allow; Arithmetic, for words of sixteen      *)
(* bits: each routine of op.h gives what its plain version gives; and      *)
(* Strings: the texts are whole.                                           *)
(***************************************************************************)
EXTENDS RingBuffer, Arithmetic, Strings, RemainderTheorems, SequenceTheorems, TLAPS

-----------------------------------------------------------------------------
(* The index arithmetic, as linear facts.                                  *)

\* A masked index is a slot.
LEMMA MaskedRange ==
  ASSUME NEW x \in Int
  PROVE  Masked(Size, x) \in Slots
  BY SizeAssumption, SMT DEF Masked, Slots

\* Advancing a pointer by at most Size wraps around at most once.
LEMMA AdvanceCases ==
  ASSUME NEW p \in Slots, NEW k \in 0 .. Size
  PROVE  Masked(Size, p + k) = IF p + k < Size THEN p + k ELSE p + k - Size
  BY SizeAssumption, RingAdvance DEF Slots

\* The values between the two pointers, in the two positions they can have.
LEMMA ReadableCases ==
  ASSUME NEW r \in Slots, NEW w \in Slots
  PROVE  /\ Readable(Size, r, w) \in Slots
         /\ Readable(Size, r, w) = IF w < r THEN w - r + Size ELSE w - r
  BY SizeAssumption, RingCases DEF Slots

LEMMA WritableCases ==
  ASSUME NEW r \in Slots, NEW w \in Slots
  PROVE  /\ Writable(Size, r, w) \in Slots
         /\ Writable(Size, r, w) = IF r <= w THEN r - w - 1 + Size
                                             ELSE r - w - 1
  BY SizeAssumption, SMT DEF Writable, Masked, Slots

\* The slots of the items of one operation that does not wrap around.
LEMMA SlotOfItem ==
  ASSUME NEW w \in Slots, NEW len \in {1, 2}, w + len - 1 \in Slots,
         NEW i \in 1 .. len
  PROVE  /\ w + i - 1 \in Slots
         /\ w + i - 1 \in w .. w + len - 1
         /\ (w + i - 1) - w + 1 = i
  BY SizeAssumption DEF Slots

\* Publishing len granted slots adds exactly len values to the queue.
LEMMA PublishGrows ==
  ASSUME NEW r \in Slots, NEW w \in Slots, NEW len \in {1, 2},
         Writable(Size, r, w) >= len
  PROVE  /\ Masked(Size, w + len) \in Slots
         /\ Readable(Size, r, Masked(Size, w + len))
              = Readable(Size, r, w) + len
<1> DEFINE w2 == Masked(Size, w + len)
<1>1. /\ w2 \in Slots
      /\ w2 = IF w + len < Size THEN w + len ELSE w + len - Size
  <2>1. len \in 0 .. Size /\ w + len \in Int
    BY SizeAssumption DEF Slots
  <2> QED
    BY <2>1, MaskedRange, AdvanceCases
<1>2. Writable(Size, r, w) = IF r <= w THEN r - w - 1 + Size ELSE r - w - 1
  BY WritableCases
<1>3. Readable(Size, r, w) = IF w < r THEN w - r + Size ELSE w - r
  BY ReadableCases
<1>4. Readable(Size, r, w2) = IF w2 < r THEN w2 - r + Size ELSE w2 - r
  BY <1>1, ReadableCases
<1> HIDE DEF w2
<1>5. Readable(Size, r, w2) = Readable(Size, r, w) + len
  BY <1>1, <1>2, <1>3, <1>4, SizeAssumption DEF Slots
<1> QED
  BY <1>1, <1>5 DEF w2

\* Taking the oldest of the queued values leaves one less, and one more slot.
LEMMA TakeShrinks ==
  ASSUME NEW r \in Slots, NEW w \in Slots, Readable(Size, r, w) >= 1
  PROVE  /\ Masked(Size, r + 1) \in Slots
         /\ Readable(Size, Masked(Size, r + 1), w) = Readable(Size, r, w) - 1
         /\ Writable(Size, Masked(Size, r + 1), w) = Writable(Size, r, w) + 1
<1> DEFINE r2 == Masked(Size, r + 1)
<1>1. /\ r2 \in Slots
      /\ r2 = IF r + 1 < Size THEN r + 1 ELSE r + 1 - Size
  <2>1. 1 \in 0 .. Size /\ r + 1 \in Int
    BY SizeAssumption DEF Slots
  <2> QED
    BY <2>1, MaskedRange, AdvanceCases
<1>2. /\ Readable(Size, r, w) = IF w < r THEN w - r + Size ELSE w - r
      /\ Readable(Size, r2, w) = IF w < r2 THEN w - r2 + Size ELSE w - r2
  BY <1>1, ReadableCases
<1>3. /\ Writable(Size, r, w) = IF r <= w THEN r - w - 1 + Size
                                          ELSE r - w - 1
      /\ Writable(Size, r2, w) = IF r2 <= w THEN r2 - w - 1 + Size
                                            ELSE r2 - w - 1
  BY <1>1, WritableCases
<1> HIDE DEF r2
<1>4. /\ Readable(Size, r2, w) = Readable(Size, r, w) - 1
      /\ Writable(Size, r2, w) = Writable(Size, r, w) + 1
  BY <1>1, <1>2, <1>3, SizeAssumption DEF Slots
<1> QED
  BY <1>1, <1>4 DEF r2

\* The items an operation queues: one, or the pair of Overwrite2.
LEMMA ItemsLength ==
  ASSUME NEW op, NEW items \in ItemsOf(op)
  PROVE  /\ items \in Items
         /\ Len(items) = IF op = "Overwrite2" THEN 2 ELSE 1
         /\ DOMAIN items = 1 .. Len(items)
         /\ \A i \in DOMAIN items : items[i] \in Values
  BY DEF ItemsOf, Items

-----------------------------------------------------------------------------
(* The inductive invariant.                                                *)

LEMMA InitRingInv == Init => RingInv
<1> SUFFICES ASSUME Init PROVE RingInv
  OBVIOUS
<1> USE SizeAssumption, ValueAssumption DEF Init, Slots
<1>1. TypeOK
  BY DEF TypeOK, ProducerPCs, ConsumerPCs, Items
<1>2. Reservations /\ StaleIsSafe /\ CallsInProgress /\ Latched
  BY DEF Reservations, StaleIsSafe, CallsInProgress, Latched
<1>3. EvenPairs
  BY SMT DEF EvenPairs
<1>4. InBounds
  BY DEF InBounds
<1> QED
  BY <1>1, <1>2, <1>3, <1>4 DEF RingInv

LEMMA ProducerCallInv ==
  ASSUME RingInv, NEW op \in ProducerOps, NEW items \in ItemsOf(op),
         ProducerCall(op, items)
  PROVE  RingInv'
<1> USE DEF RingInv, ProducerCall
<1>1. TypeOK'
  BY ItemsLength DEF TypeOK, ProducerPCs
<1>2. Reservations' /\ StaleIsSafe'
  BY DEF TypeOK, Reservations, StaleIsSafe, Room, Queued
<1>3. CallsInProgress'
  BY DEF TypeOK, CallsInProgress
<1>4. Latched' /\ EvenPairs' /\ InBounds'
  BY DEF TypeOK, Latched, EvenPairs, InBounds
<1> QED
  BY <1>1, <1>2, <1>3, <1>4

LEMMA ProducerLatchInv ==
  ASSUME RingInv, ProducerLatch
  PROVE  RingInv'
<1> USE DEF RingInv, ProducerLatch
<1>1. TypeOK'
  BY DEF TypeOK, ProducerPCs
<1>2. Reservations' /\ StaleIsSafe'
  <2>1. prod'.seen = read_ptr /\ Room' = Room /\ Queued' = Queued
    BY DEF TypeOK, Room, Queued
  <2>2. Writable(Size, read_ptr, write_ptr) <= Room
    <3>1. Room \in Slots /\ Room = Writable(Size, read_ptr, write_ptr)
      BY WritableCases DEF TypeOK, Room
    <3> QED
      BY <3>1, SizeAssumption DEF Slots
  <2> QED
    BY <2>1, <2>2 DEF TypeOK, Reservations, StaleIsSafe
<1>3. CallsInProgress' /\ Latched' /\ EvenPairs' /\ InBounds'
  BY DEF TypeOK, CallsInProgress, Latched, EvenPairs, InBounds
<1> QED
  BY <1>1, <1>2, <1>3

LEMMA ProducerCompareInv ==
  ASSUME RingInv, ProducerCompare
  PROVE  RingInv'
<1> USE DEF RingInv, ProducerCompare
<1>1. TypeOK'
  BY DEF TypeOK, ProducerPCs
<1>2. Reservations' /\ StaleIsSafe'
  <2>1. Room' = Room /\ Queued' = Queued
    BY DEF Room, Queued
  <2>2. /\ Room \in Int
        /\ Writable(Size, prod.seen, write_ptr) \in Int
        /\ Len(prod.items) \in Int
    <3>1. Len(prod.items) \in Int
      BY ItemsLength DEF CallsInProgress
    <3>2. read_ptr \in Slots /\ write_ptr \in Slots /\ prod.seen \in Slots
      BY DEF TypeOK
    <3> QED
      BY <3>1, <3>2, WritableCases, SizeAssumption DEF Slots, Room
  <2>3. prod'.pc = "store" => Room >= Len(prod.items)
    BY <2>2 DEF TypeOK, StaleIsSafe, HasRoom
  <2> QED
    BY <2>1, <2>3 DEF TypeOK, Reservations, StaleIsSafe
<1>3. CallsInProgress' /\ Latched' /\ EvenPairs' /\ InBounds'
  BY DEF TypeOK, CallsInProgress, Latched, EvenPairs, InBounds
<1> QED
  BY <1>1, <1>2, <1>3

\* The slots a store fills: those it was granted, none past the end, and not
\* the slot the consumer is reading.
LEMMA StoreStaysInBuffer ==
  ASSUME RingInv, prod.pc = "store"
  PROVE  /\ Len(prod.items) \in {1, 2}
         /\ write_ptr + Len(prod.items) - 1 \in Slots
         /\ cons.pc = "publish" =>
              read_ptr \notin write_ptr .. write_ptr + Len(prod.items) - 1
<1>1. Len(prod.items) = IF prod.op = "Overwrite2" THEN 2 ELSE 1
  BY ItemsLength DEF RingInv, CallsInProgress
<1>2. write_ptr + Len(prod.items) - 1 \in Slots
  <2>1. CASE prod.op = "Overwrite2"
    <3>1. Size % 2 = 0 /\ write_ptr % 2 = 0
      BY <2>1, OpsAssumption DEF RingInv, CallsInProgress, EvenPairs
    <3>2. write_ptr + 1 # Size
      BY <3>1, SizeAssumption DEF RingInv, TypeOK, Slots
    <3> QED
      BY <1>1, <2>1, <3>2, SizeAssumption DEF RingInv, TypeOK, Slots
  <2>2. CASE prod.op # "Overwrite2"
    BY <1>1, <2>2, SizeAssumption DEF RingInv, TypeOK, Slots
  <2> QED
    BY <2>1, <2>2
<1>3. Room >= Len(prod.items)
  BY DEF RingInv, Reservations
<1>4. read_ptr \notin write_ptr .. write_ptr + Len(prod.items) - 1
       \/ read_ptr = write_ptr
  BY <1>1, <1>3, SizeAssumption, WritableCases
  DEF RingInv, TypeOK, Slots, Room
<1>5. cons.pc = "publish" => read_ptr # write_ptr
  <2>1. read_ptr \in Slots /\ write_ptr \in Slots
    BY DEF RingInv, TypeOK
  <2>2. read_ptr = write_ptr => Queued = 0
    BY <2>1, ReadableCases DEF Queued, Slots
  <2> QED
    BY <2>2 DEF RingInv, Reservations
<1> QED
  BY <1>1, <1>2, <1>4, <1>5

LEMMA ProducerStoreInv ==
  ASSUME RingInv, ProducerStore
  PROVE  RingInv'
<1> USE DEF RingInv, ProducerStore
<1>1. prod.items \in ItemsOf(prod.op)
  BY DEF CallsInProgress
<1>2. /\ prod.items \in Items
      /\ DOMAIN prod.items = 1 .. Len(prod.items)
      /\ \A i \in DOMAIN prod.items : prod.items[i] \in Values
  BY <1>1, ItemsLength
<1>3. TypeOK'
  <2>1. buffer' \in [0 .. Size -> Values \cup {NoValue}]
    BY <1>2, StoreStaysInBuffer, SizeAssumption DEF TypeOK, Slots
  <2> QED
    BY <2>1 DEF TypeOK, ProducerPCs
<1>4. Reservations' /\ StaleIsSafe' /\ CallsInProgress' /\ EvenPairs'
  BY DEF TypeOK, Reservations, StaleIsSafe, Room, Queued, CallsInProgress,
         EvenPairs
<1>5. Latched'
  <2>1. ASSUME NEW i \in DOMAIN prod.items
        PROVE  buffer'[Masked(Size, write_ptr + i - 1)] = prod.items[i]
    <3> DEFINE s == write_ptr + i - 1
    <3>1. /\ i \in 1 .. Len(prod.items)
          /\ Len(prod.items) \in {1, 2}
          /\ write_ptr \in Slots
          /\ write_ptr + Len(prod.items) - 1 \in Slots
      BY <1>2, StoreStaysInBuffer DEF TypeOK
    <3>2. /\ s \in Slots
          /\ s \in write_ptr .. write_ptr + Len(prod.items) - 1
          /\ s - write_ptr + 1 = i
      BY <3>1, SlotOfItem
    <3>3. Masked(Size, s) = s
      BY <3>2, SizeAssumption, AdvanceCases DEF Slots
    <3>4. buffer'[s] = prod.items[s - write_ptr + 1]
      BY <3>2, SizeAssumption DEF TypeOK, Slots
    <3> QED
      BY <3>2, <3>3, <3>4
  <2>2. cons.pc = "publish" => buffer'[read_ptr] = buffer[read_ptr]
    BY StoreStaysInBuffer, SizeAssumption DEF TypeOK, Slots
  <2> QED
    BY <2>1, <2>2 DEF TypeOK, Latched
<1>6. InBounds'
  BY StoreStaysInBuffer, SizeAssumption DEF TypeOK, Slots, InBounds
<1> QED
  BY <1>3, <1>4, <1>5, <1>6

LEMMA ProducerPublishInv ==
  ASSUME RingInv, ProducerPublish
  PROVE  RingInv'
<1> USE DEF RingInv, ProducerPublish
<1> DEFINE len == Len(prod.items)
<1>1. len = IF prod.op = "Overwrite2" THEN 2 ELSE 1
  BY ItemsLength DEF CallsInProgress
<1>2. /\ read_ptr \in Slots /\ write_ptr \in Slots /\ prod.w = write_ptr
      /\ len \in {1, 2} /\ Writable(Size, read_ptr, write_ptr) >= len
  BY <1>1 DEF TypeOK, Reservations, Latched, Room
<1>3. write_ptr' \in Slots /\ Queued' = Queued + len
  BY <1>2, PublishGrows DEF Queued
<1>4. TypeOK'
  BY <1>3 DEF TypeOK, ProducerPCs
<1>5. Reservations' /\ StaleIsSafe'
  <2>1. Queued \in Nat /\ len \in Nat
    BY <1>2, ReadableCases, SizeAssumption DEF Queued, Slots
  <2>2. Queued' >= Queued
    BY <1>3, <2>1
  <2>3. cons.pc = "compare" =>
          Readable(Size, read_ptr, cons.seen) <= Queued'
    <3>1. Readable(Size, read_ptr, cons.seen) \in Int
      BY ReadableCases, SizeAssumption DEF TypeOK, Slots
    <3> QED
      BY <1>3, <2>1, <3>1 DEF StaleIsSafe
  <2> QED
    BY <1>3, <2>1, <2>2, <2>3 DEF TypeOK, Reservations, StaleIsSafe
<1>6. EvenPairs'
  <2> SUFFICES ASSUME "Overwrite2" \in ProducerOps
               PROVE  write_ptr' % 2 = 0
    BY DEF EvenPairs
  <2>1. Size % 2 = 0 /\ write_ptr % 2 = 0 /\ len = 2
    BY <1>1, OpsAssumption DEF CallsInProgress, EvenPairs
  <2>2. write_ptr' = IF write_ptr + 2 < Size THEN write_ptr + 2
                                             ELSE write_ptr + 2 - Size
    BY <1>2, <2>1, AdvanceCases, SizeAssumption
  <2> QED
    BY <1>2, <2>1, <2>2, SizeAssumption DEF Slots
<1>7. CallsInProgress' /\ Latched' /\ InBounds'
  BY DEF TypeOK, CallsInProgress, Latched, InBounds
<1> QED
  BY <1>4, <1>5, <1>6, <1>7

LEMMA ConsumerCallInv ==
  ASSUME RingInv, NEW op \in ConsumerOps, ConsumerCall(op)
  PROVE  RingInv'
<1> USE DEF RingInv, ConsumerCall
<1>1. TypeOK'
  BY DEF TypeOK, ConsumerPCs
<1>2. Reservations' /\ StaleIsSafe'
  BY DEF TypeOK, Reservations, StaleIsSafe, Room, Queued
<1>3. CallsInProgress' /\ Latched' /\ EvenPairs' /\ InBounds'
  BY DEF TypeOK, CallsInProgress, Latched, EvenPairs, InBounds
<1> QED
  BY <1>1, <1>2, <1>3

LEMMA ConsumerLatchInv ==
  ASSUME RingInv, ConsumerLatch
  PROVE  RingInv'
<1> USE DEF RingInv, ConsumerLatch
<1>1. TypeOK'
  BY DEF TypeOK, ConsumerPCs
<1>2. Reservations' /\ StaleIsSafe'
  <2>1. cons'.seen = write_ptr /\ Room' = Room /\ Queued' = Queued
    BY DEF TypeOK, Room, Queued
  <2>2. Readable(Size, read_ptr, write_ptr) <= Queued
    <3>1. Queued \in Slots /\ Queued = Readable(Size, read_ptr, write_ptr)
      BY ReadableCases DEF TypeOK, Queued
    <3> QED
      BY <3>1, SizeAssumption DEF Slots
  <2> QED
    BY <2>1, <2>2 DEF TypeOK, Reservations, StaleIsSafe
<1>3. CallsInProgress' /\ Latched' /\ EvenPairs' /\ InBounds'
  BY DEF TypeOK, CallsInProgress, Latched, EvenPairs, InBounds
<1> QED
  BY <1>1, <1>2, <1>3

LEMMA ConsumerCompareInv ==
  ASSUME RingInv, ConsumerCompare
  PROVE  RingInv'
<1> USE DEF RingInv, ConsumerCompare
<1>1. TypeOK'
  BY DEF TypeOK, ConsumerPCs
<1>2. Reservations' /\ StaleIsSafe'
  <2>1. Room' = Room /\ Queued' = Queued
    BY DEF Room, Queued
  <2>2. Queued \in Int /\ Readable(Size, read_ptr, cons.seen) \in Int
    BY ReadableCases, SizeAssumption DEF TypeOK, Slots, Queued
  <2>3. cons'.pc = "load" => Queued >= 1
    BY <2>2 DEF TypeOK, StaleIsSafe, HasData
  <2> QED
    BY <2>1, <2>3 DEF TypeOK, Reservations, StaleIsSafe
<1>3. CallsInProgress' /\ Latched' /\ EvenPairs' /\ InBounds'
  BY DEF TypeOK, CallsInProgress, Latched, EvenPairs, InBounds
<1> QED
  BY <1>1, <1>2, <1>3

LEMMA ConsumerLoadInv ==
  ASSUME RingInv, ConsumerLoad
  PROVE  RingInv'
<1> USE DEF RingInv, ConsumerLoad
<1>1. TypeOK'
  <2>1. buffer[read_ptr] \in Values \cup {NoValue}
    BY SizeAssumption DEF TypeOK, Slots
  <2> QED
    BY <2>1 DEF TypeOK, ConsumerPCs
<1>2. Reservations' /\ StaleIsSafe'
  BY DEF TypeOK, Reservations, StaleIsSafe, Room, Queued
<1>3. CallsInProgress' /\ Latched' /\ EvenPairs' /\ InBounds'
  BY DEF TypeOK, CallsInProgress, Latched, EvenPairs, InBounds
<1> QED
  BY <1>1, <1>2, <1>3

LEMMA ConsumerPublishInv ==
  ASSUME RingInv, ConsumerPublish
  PROVE  RingInv'
<1> USE DEF RingInv, ConsumerPublish
<1>1. /\ read_ptr \in Slots /\ write_ptr \in Slots /\ cons.r = read_ptr
      /\ Readable(Size, read_ptr, write_ptr) >= 1
  BY DEF TypeOK, Reservations, Latched, Queued
<1>2. read_ptr' \in Slots /\ Room' = Room + 1
  BY <1>1, TakeShrinks DEF Room
<1>3. TypeOK'
  BY <1>2 DEF TypeOK, ConsumerPCs
<1>4. Reservations' /\ StaleIsSafe'
  <2>1. Room \in Nat /\ Room' >= Room
    BY <1>1, <1>2, WritableCases, SizeAssumption DEF Room, Slots
  <2>2. prod.pc \in {"store", "publish"} => Room' >= Len(prod.items)
    <3> SUFFICES ASSUME prod.pc \in {"store", "publish"}
                 PROVE  Room' >= Len(prod.items)
      OBVIOUS
    <3>1. Len(prod.items) \in Nat
      BY ItemsLength DEF CallsInProgress
    <3> QED
      BY <1>2, <2>1, <3>1 DEF Reservations
  <2>3. prod.pc = "compare" => Writable(Size, prod.seen, write_ptr) <= Room'
    <3>1. Writable(Size, prod.seen, write_ptr) \in Int
      BY <1>1, WritableCases, SizeAssumption DEF TypeOK, Slots
    <3> QED
      BY <1>2, <2>1, <3>1 DEF StaleIsSafe
  <2> QED
    BY <2>2, <2>3 DEF TypeOK, Reservations, StaleIsSafe
<1>5. CallsInProgress' /\ Latched' /\ EvenPairs' /\ InBounds'
  BY DEF TypeOK, CallsInProgress, Latched, EvenPairs, InBounds
<1> QED
  BY <1>3, <1>4, <1>5

LEMMA FlushLatchInv ==
  ASSUME RingInv, FlushLatch
  PROVE  RingInv'
<1> USE DEF RingInv, FlushLatch
<1>1. TypeOK'
  BY DEF TypeOK, ConsumerPCs
<1>2. Reservations' /\ StaleIsSafe'
  BY DEF TypeOK, Reservations, StaleIsSafe, Room, Queued
<1>3. CallsInProgress' /\ Latched' /\ EvenPairs' /\ InBounds'
  BY DEF TypeOK, CallsInProgress, Latched, EvenPairs, InBounds
<1> QED
  BY <1>1, <1>2, <1>3

\* Flush writes the producer's pointer: it is only safe because the producer
\* is the interrupt handler, which is not in the middle of an operation.
LEMMA FlushFindsProducerIdle ==
  ASSUME RingInv, FlushStore
  PROVE  prod.pc = "idle" /\ "Overwrite2" \notin ProducerOps
<1>1. "Flush" \in ConsumerOps
  BY DEF RingInv, CallsInProgress, FlushStore
<1>2. IsrSide = "producer" /\ "Overwrite2" \notin ProducerOps
  BY <1>1, OpsAssumption, SideAssumption
<1> QED
  BY <1>2 DEF FlushStore, ConsumerRuns

LEMMA FlushStoreInv ==
  ASSUME RingInv, FlushStore
  PROVE  RingInv'
<1> USE DEF RingInv, FlushStore
<1>1. prod.pc = "idle" /\ "Overwrite2" \notin ProducerOps
  BY FlushFindsProducerIdle
<1>2. TypeOK'
  BY DEF TypeOK, ConsumerPCs
<1>3. Reservations' /\ StaleIsSafe'
  BY <1>1 DEF TypeOK, Reservations, StaleIsSafe
<1>4. CallsInProgress' /\ Latched' /\ EvenPairs' /\ InBounds'
  BY <1>1 DEF TypeOK, CallsInProgress, Latched, EvenPairs, InBounds
<1> QED
  BY <1>2, <1>3, <1>4

LEMMA StutterInv ==
  ASSUME RingInv, UNCHANGED vars
  PROVE  RingInv'
  BY DEF vars, RingInv, TypeOK, Reservations, StaleIsSafe, CallsInProgress,
         Latched, EvenPairs, InBounds, Room, Queued

LEMMA NextRingInv == RingInv /\ [Next]_vars => RingInv'
<1> SUFFICES ASSUME RingInv, [Next]_vars PROVE RingInv'
  OBVIOUS
<1>1. ASSUME NEW op \in ProducerOps, NEW items \in ItemsOf(op),
             ProducerCall(op, items)
      PROVE  RingInv'
  BY <1>1, ProducerCallInv
<1>2. CASE ProducerStep
  BY <1>2, ProducerLatchInv, ProducerCompareInv, ProducerStoreInv,
     ProducerPublishInv DEF ProducerStep
<1>3. ASSUME NEW op \in ConsumerOps, ConsumerCall(op)
      PROVE  RingInv'
  BY <1>3, ConsumerCallInv
<1>4. CASE ConsumerStep
  BY <1>4, ConsumerLatchInv, ConsumerCompareInv, ConsumerLoadInv,
     ConsumerPublishInv, FlushLatchInv, FlushStoreInv DEF ConsumerStep
<1>5. CASE UNCHANGED vars
  BY <1>5, StutterInv
<1> QED
  BY <1>1, <1>2, <1>3, <1>4, <1>5 DEF Next

\* The inductive invariant of the ring buffer holds in every reachable state.
THEOREM RingInvariance == Spec => []RingInv
<1>1. Init => RingInv
  BY InitRingInv
<1>2. RingInv /\ [Next]_vars => RingInv'
  BY NextRingInv
<1> QED
  BY <1>1, <1>2, PTL DEF Spec

\* The two pointers, and every pointer a side has latched, stay in the buffer.
THEOREM TypeCorrectness == Spec => []TypeOK
<1>1. RingInv => TypeOK
  BY DEF RingInv
<1> QED
  BY <1>1, RingInvariance, PTL

\* What a side was granted by a check, however stale, it still has when it
\* uses it: a producer never overwrites a value that has not been read, and a
\* consumer never reads a slot that has not been filled.
THEOREM ReservationsHold == Spec => []Reservations
<1>1. RingInv => Reservations
  BY DEF RingInv
<1> QED
  BY <1>1, RingInvariance, PTL

\* Overwrite2, which does not mask the index of its second slot, never
\* stores past the end of the buffer.
THEOREM Overwrite2InBounds == Spec => []InBounds
<1>1. RingInv => InBounds
  BY DEF RingInv
<1> QED
  BY <1>1, RingInvariance, PTL

-----------------------------------------------------------------------------
(* Refinement: every step is a step of the queue, or leaves it unchanged.  *)

Data == Values \cup {NoValue}

\* The i-th queued value is in a slot of the buffer.
LEMMA SlotCases ==
  ASSUME NEW r \in Slots, NEW i \in 1 .. Size
  PROVE  /\ Masked(Size, r + i - 1) \in Slots
         /\ Masked(Size, r + i - 1) = IF r + i - 1 < Size THEN r + i - 1
                                                         ELSE r + i - 1 - Size
<1>1. r + i - 1 = r + (i - 1) /\ i - 1 \in 0 .. Size /\ r + i - 1 \in Int
  BY SizeAssumption DEF Slots
<1>2. Masked(Size, r + (i - 1)) = IF r + (i - 1) < Size
                                  THEN r + (i - 1) ELSE r + (i - 1) - Size
  BY <1>1, AdvanceCases
<1>3. Masked(Size, r + i - 1) \in Slots
  BY <1>1, MaskedRange
<1> QED
  BY <1>1, <1>2, <1>3

\* The mapped queue is a sequence, as long as readable() says.
SequenceOfSlots ==
  /\ Queue \in Seq(Data)
  /\ Len(Queue) = Queued
  /\ Queued \in Nat /\ Queued < Size
  /\ \A i \in 1 .. Queued : Queue[i] = buffer[Masked(Size, read_ptr + i - 1)]

LEMMA QueueIsSequence == TypeOK => SequenceOfSlots
<1> SUFFICES ASSUME TypeOK PROVE SequenceOfSlots
  OBVIOUS
<1>1. Queued \in Nat /\ Queued < Size
  <2>1. Queued \in Slots
    BY ReadableCases DEF TypeOK, Queued
  <2> QED
    BY <2>1, SizeAssumption DEF Slots
<1>2. Queue = [i \in 1 .. Queued |-> buffer[Masked(Size, read_ptr + i - 1)]]
  BY DEF Queue, Contents, Queued
<1>3. ASSUME NEW i \in 1 .. Queued
      PROVE  buffer[Masked(Size, read_ptr + i - 1)] \in Data
  <2>1. i \in 1 .. Size /\ read_ptr \in Slots
    BY <1>1, SizeAssumption DEF TypeOK
  <2>2. Masked(Size, read_ptr + i - 1) \in 0 .. Size
    BY <2>1, SlotCases, SizeAssumption DEF Slots
  <2> QED
    BY <2>2 DEF TypeOK, Data
<1>4. Queue \in [1 .. Queued -> Data]
  BY <1>2, <1>3
<1>5. Queue \in Seq(Data) /\ Len(Queue) = Queued
  BY <1>1, <1>4, SeqDef
<1> QED
  BY <1>1, <1>2, <1>5 DEF SequenceOfSlots

LEMMA QueueStaysSequence == TypeOK' => SequenceOfSlots'
  BY QueueIsSequence, PTL

\* The slots Overwrite fills are those that follow the queued values.
LEMMA ItemSlots ==
  ASSUME NEW r \in Slots, NEW w \in Slots, NEW len \in {1, 2},
         Writable(Size, r, w) >= len, NEW i \in 1 .. len
  PROVE  Masked(Size, r + (Readable(Size, r, w) + i) - 1)
           = Masked(Size, w + i - 1)
<1> DEFINE q == Readable(Size, r, w)
<1>1. /\ q \in Slots
      /\ q = IF w < r THEN w - r + Size ELSE w - r
      /\ Writable(Size, r, w) = IF r <= w THEN r - w - 1 + Size
                                          ELSE r - w - 1
  BY ReadableCases, WritableCases
<1> HIDE DEF q
<1>2. q + i \in 1 .. Size /\ i \in 1 .. Size
  BY <1>1, SizeAssumption DEF Slots
<1>3. /\ Masked(Size, r + (q + i) - 1)
           = IF r + (q + i) - 1 < Size THEN r + (q + i) - 1
                                       ELSE r + (q + i) - 1 - Size
      /\ Masked(Size, w + i - 1) = IF w + i - 1 < Size THEN w + i - 1
                                                       ELSE w + i - 1 - Size
  BY <1>2, SlotCases
<1>4. Masked(Size, r + (q + i) - 1) = Masked(Size, w + i - 1)
  BY <1>1, <1>2, <1>3, SizeAssumption DEF Slots
<1> QED
  BY <1>4 DEF q

\* A store fills no slot that holds a queued value.
LEMMA StoreSparesQueue ==
  ASSUME NEW r \in Slots, NEW w \in Slots, NEW len \in {1, 2},
         w + len - 1 \in Slots, Writable(Size, r, w) >= len,
         NEW i \in 1 .. Readable(Size, r, w)
  PROVE  /\ Masked(Size, r + i - 1) \in Slots
         /\ Masked(Size, r + i - 1) \notin w .. w + len - 1
<1>1. /\ Readable(Size, r, w) \in Slots
      /\ Readable(Size, r, w) = IF w < r THEN w - r + Size ELSE w - r
      /\ Writable(Size, r, w) = IF r <= w THEN r - w - 1 + Size
                                          ELSE r - w - 1
  BY ReadableCases, WritableCases
<1>2. i \in 1 .. Size
  BY <1>1, SizeAssumption DEF Slots
<1>3. /\ Masked(Size, r + i - 1) \in Slots
      /\ Masked(Size, r + i - 1) = IF r + i - 1 < Size THEN r + i - 1
                                                      ELSE r + i - 1 - Size
  BY <1>2, SlotCases
<1>4. Masked(Size, r + i - 1) \notin w .. w + len - 1
  BY <1>1, <1>2, <1>3, SizeAssumption DEF Slots
<1> QED
  BY <1>3, <1>4

LEMMA StoreKeepsQueue ==
  ASSUME RingInv, ProducerStore
  PROVE  Queue' = Queue
<1> DEFINE len == Len(prod.items)
<1>1. /\ len \in {1, 2} /\ write_ptr + len - 1 \in Slots
      /\ read_ptr \in Slots /\ write_ptr \in Slots
      /\ Writable(Size, read_ptr, write_ptr) >= len
  BY StoreStaysInBuffer DEF ProducerStore, RingInv, TypeOK, Reservations, Room
<1>2. ASSUME NEW i \in 1 .. Queued
      PROVE  buffer'[Masked(Size, read_ptr + i - 1)]
               = buffer[Masked(Size, read_ptr + i - 1)]
  <2>1. /\ Masked(Size, read_ptr + i - 1) \in Slots
        /\ Masked(Size, read_ptr + i - 1)
             \notin write_ptr .. write_ptr + len - 1
    BY <1>1, StoreSparesQueue DEF Queued
  <2> HIDE DEF len
  <2>2. Masked(Size, read_ptr + i - 1) \in DOMAIN buffer
    BY <2>1, SizeAssumption DEF RingInv, TypeOK, Slots
  <2> QED
    BY <2>1, <2>2 DEF ProducerStore, len
<1> QED
  BY <1>2 DEF ProducerStore, Queue, Contents, Queued

LEMMA PublishIsPut ==
  ASSUME RingInv, ProducerPublish
  PROVE  Abstract!Put(prod.items)
<1> DEFINE len == Len(prod.items)
<1>1. /\ prod.items \in Items
      /\ len = IF prod.op = "Overwrite2" THEN 2 ELSE 1
      /\ DOMAIN prod.items = 1 .. len
      /\ \A i \in DOMAIN prod.items : prod.items[i] \in Values
  BY ItemsLength DEF RingInv, CallsInProgress, ProducerPublish
<1>2. /\ len \in {1, 2} /\ Writable(Size, read_ptr, write_ptr) >= len
      /\ read_ptr \in Slots /\ write_ptr \in Slots /\ prod.w = write_ptr
      /\ \A i \in 1 .. len :
           buffer[Masked(Size, write_ptr + i - 1)] = prod.items[i]
  BY <1>1 DEF RingInv, ProducerPublish, TypeOK, Reservations, Latched, Room
<1>3. /\ Queue \in Seq(Data) /\ Len(Queue) = Queued
      /\ Queued \in Nat /\ Queued < Size
      /\ \A i \in 1 .. Queued :
           Queue[i] = buffer[Masked(Size, read_ptr + i - 1)]
  BY QueueIsSequence DEF RingInv, SequenceOfSlots
<1>4. /\ Queue' \in Seq(Data) /\ Len(Queue') = Queued'
      /\ Queued' \in Nat /\ Queued' < Size
      /\ \A i \in 1 .. Queued' :
           Queue'[i] = buffer[Masked(Size, read_ptr + i - 1)]
  <2>1. RingInv'
    BY ProducerPublishInv
  <2>2. read_ptr' = read_ptr /\ buffer' = buffer
    BY DEF ProducerPublish
  <2> QED
    BY <2>1, <2>2, QueueStaysSequence DEF RingInv, SequenceOfSlots
<1>5. Queued' = Queued + len
  BY <1>2, PublishGrows DEF Queued, ProducerPublish
<1>6. prod.items \in Seq(Data)
  BY <1>1, SeqDef DEF Items, Data
<1> HIDE DEF len
<1>7. /\ Queue \o prod.items \in Seq(Data)
      /\ Len(Queue \o prod.items) = Queued + len
      /\ \A i \in 1 .. Queued + len :
           (Queue \o prod.items)[i]
             = IF i <= Queued THEN Queue[i] ELSE prod.items[i - Queued]
  BY <1>3, <1>6, ConcatProperties DEF len
<1>8. ASSUME NEW i \in 1 .. Queued + len
      PROVE  Queue'[i] = (Queue \o prod.items)[i]
  <2>1. Queue'[i] = buffer[Masked(Size, read_ptr + i - 1)]
    BY <1>4, <1>5
  <2>2. CASE i <= Queued
    BY <1>3, <1>7, <2>1, <2>2
  <2>3. CASE i > Queued
    <3> DEFINE j == i - Queued
    <3>1. j \in 1 .. len /\ i = Queued + j /\ ~(i <= Queued)
      BY <1>2, <1>3, <2>3
    <3> HIDE DEF j
    <3>2. Masked(Size, read_ptr + i - 1) = Masked(Size, write_ptr + j - 1)
      BY <1>2, <3>1, ItemSlots DEF Queued
    <3>3. Queue'[i] = prod.items[j]
      BY <1>2, <2>1, <3>1, <3>2
    <3> QED
      BY <1>7, <3>1, <3>3 DEF j
  <2>4. i <= Queued \/ i > Queued
    <3>1. i \in Int /\ Queued \in Int
      BY <1>2, <1>3
    <3> QED
      BY <3>1
  <2> QED
    BY <2>2, <2>3, <2>4
<1>9. Queue' = Queue \o prod.items
  BY <1>4, <1>5, <1>7, <1>8, SeqEqual
<1>10. Len(Queue) + Len(prod.items) <= Size - 1
  BY <1>2, <1>3, <1>4, <1>5, SizeAssumption DEF len
<1> QED
  BY <1>9, <1>10 DEF Abstract!Put, ProducerPublish

LEMMA TakeIsGet ==
  ASSUME RingInv, ConsumerPublish
  PROVE  Abstract!Get
<1>1. /\ read_ptr \in Slots /\ write_ptr \in Slots
      /\ cons.r = read_ptr /\ cons.result = buffer[read_ptr]
      /\ Queued >= 1
  BY DEF RingInv, ConsumerPublish, TypeOK, Reservations, Latched
<1>2. /\ Queue \in Seq(Data) /\ Len(Queue) = Queued
      /\ Queued \in Nat /\ Queued < Size
      /\ \A i \in 1 .. Queued :
           Queue[i] = buffer[Masked(Size, read_ptr + i - 1)]
  BY QueueIsSequence DEF RingInv, SequenceOfSlots
<1>3. /\ Queue' \in Seq(Data) /\ Len(Queue') = Queued'
      /\ Queued' \in Nat
      /\ \A i \in 1 .. Queued' :
           Queue'[i] = buffer[Masked(Size, read_ptr' + i - 1)]
  <2>1. RingInv'
    BY ConsumerPublishInv
  <2>2. buffer' = buffer
    BY DEF ConsumerPublish
  <2> QED
    BY <2>1, <2>2, QueueStaysSequence DEF RingInv, SequenceOfSlots
<1>4. /\ read_ptr' = Masked(Size, read_ptr + 1) /\ read_ptr' \in Slots
      /\ Queued' = Queued - 1
  BY <1>1, TakeShrinks DEF Queued, ConsumerPublish
<1>5. Queue # << >>
  BY <1>1, <1>2
<1>6. /\ Tail(Queue) \in Seq(Data) /\ Len(Tail(Queue)) = Queued - 1
      /\ \A i \in 1 .. Queued - 1 : Tail(Queue)[i] = Queue[i + 1]
  BY <1>2, <1>5, HeadTailProperties
<1>7. ASSUME NEW i \in 1 .. Queued - 1
      PROVE  Queue'[i] = Tail(Queue)[i]
  <2>1. /\ i + 1 \in 1 .. Queued /\ i \in 1 .. Size /\ i + 1 \in 1 .. Size
        /\ i \in 1 .. Queued'
    BY <1>2, <1>4, SizeAssumption
  <2>2. /\ Masked(Size, read_ptr + 1)
             = IF read_ptr + 1 < Size THEN read_ptr + 1
                                      ELSE read_ptr + 1 - Size
        /\ Masked(Size, read_ptr' + i - 1)
             = IF read_ptr' + i - 1 < Size THEN read_ptr' + i - 1
                                           ELSE read_ptr' + i - 1 - Size
        /\ Masked(Size, read_ptr + (i + 1) - 1)
             = IF read_ptr + (i + 1) - 1 < Size
               THEN read_ptr + (i + 1) - 1 ELSE read_ptr + (i + 1) - 1 - Size
    BY <1>1, <1>4, <2>1, SlotCases, AdvanceCases, SizeAssumption
  <2>3. Masked(Size, read_ptr' + i - 1) = Masked(Size, read_ptr + (i + 1) - 1)
    BY <1>1, <1>4, <2>1, <2>2, SizeAssumption DEF Slots
  <2> QED
    BY <1>2, <1>3, <1>6, <2>1, <2>3
<1>8. Queue' = Tail(Queue)
  BY <1>2, <1>3, <1>4, <1>6, <1>7, SeqEqual
<1>9. out' = Head(Queue)
  <2>1. 1 \in 1 .. Queued /\ 1 \in 1 .. Size
    BY <1>1, <1>2, SizeAssumption
  <2>2. Masked(Size, read_ptr + 1 - 1) = read_ptr
    BY <1>1, <2>1, SlotCases, SizeAssumption DEF Slots
  <2>3. Queue[1] = buffer[read_ptr]
    BY <1>2, <2>1, <2>2
  <2> QED
    BY <1>1, <1>5, <2>3 DEF ConsumerPublish
<1> QED
  BY <1>5, <1>8, <1>9 DEF Abstract!Get

LEMMA FlushIsClear ==
  ASSUME RingInv, FlushStore
  PROVE  Abstract!Clear
<1>1. write_ptr' = read_ptr /\ read_ptr' = read_ptr /\ out' = out
  BY DEF RingInv, Latched, FlushStore
<1>2. read_ptr \in Slots
  BY DEF RingInv, TypeOK
<1>3. Queued' = 0
  BY <1>1, <1>2, ReadableCases, SizeAssumption DEF Queued, Slots
<1>4. RingInv'
  BY FlushStoreInv
<1>5. /\ Queue' \in Seq(Data) /\ Len(Queue') = 0
  BY <1>3, <1>4, QueueStaysSequence DEF RingInv, SequenceOfSlots
<1>6. Queue' = << >>
  BY <1>5, EmptySeq
<1>7. "Flush" \in ConsumerOps
  BY DEF RingInv, CallsInProgress, FlushStore
<1> QED
  BY <1>1, <1>6, <1>7 DEF Abstract!Clear

\* The ring buffer implements the bounded queue: under every interleaving of
\* the main program and the handler, the values come out in the order they
\* went in, each exactly once, and never more than Size - 1 are waiting.
THEOREM RingImplementsFifo == Spec => RefinesFifo
<1>1. Init => Abstract!Init
  <2> SUFFICES ASSUME Init PROVE Abstract!Init
    OBVIOUS
  <2>1. TypeOK /\ read_ptr \in Slots /\ write_ptr = read_ptr
    BY InitRingInv DEF RingInv, TypeOK, Init
  <2>2. Queued = 0
    BY <2>1, ReadableCases, SizeAssumption DEF Queued, Slots
  <2>3. Queue = << >>
    BY <2>1, <2>2, QueueIsSequence, EmptySeq DEF SequenceOfSlots
  <2> QED
    BY <2>3 DEF Abstract!Init, Init
<1>2. RingInv /\ [Next]_vars => [Abstract!Next]_<<Queue, out>>
  <2> SUFFICES ASSUME RingInv, [Next]_vars
               PROVE  [Abstract!Next]_<<Queue, out>>
    OBVIOUS
  <2>1. ASSUME NEW op \in ProducerOps, NEW items \in ItemsOf(op),
               ProducerCall(op, items)
        PROVE  UNCHANGED <<Queue, out>>
    BY <2>1 DEF ProducerCall, Queue, Contents
  <2>2. ASSUME ProducerLatch \/ ProducerCompare
        PROVE  UNCHANGED <<Queue, out>>
    BY <2>2 DEF ProducerLatch, ProducerCompare, Queue, Contents
  <2>3. ASSUME ProducerStore
        PROVE  UNCHANGED <<Queue, out>>
    BY <2>3, StoreKeepsQueue DEF ProducerStore
  <2>4. ASSUME ProducerPublish
        PROVE  Abstract!Next
    <3>1. prod.items \in Items
      BY <2>4, ItemsLength DEF RingInv, CallsInProgress, ProducerPublish
    <3>2. Abstract!Put(prod.items)
      BY <2>4, PublishIsPut
    <3> QED
      BY <3>1, <3>2 DEF Abstract!Next, Items
  <2>5. ASSUME NEW op \in ConsumerOps, ConsumerCall(op)
        PROVE  UNCHANGED <<Queue, out>>
    BY <2>5 DEF ConsumerCall, Queue, Contents
  <2>6. ASSUME ConsumerLatch \/ ConsumerCompare \/ ConsumerLoad \/ FlushLatch
        PROVE  UNCHANGED <<Queue, out>>
    BY <2>6 DEF ConsumerLatch, ConsumerCompare, ConsumerLoad, FlushLatch,
                Queue, Contents
  <2>7. ASSUME ConsumerPublish
        PROVE  Abstract!Next
    BY <2>7, TakeIsGet DEF Abstract!Next
  <2>8. ASSUME FlushStore
        PROVE  Abstract!Next
    BY <2>8, FlushIsClear DEF Abstract!Next
  <2>9. ASSUME UNCHANGED vars
        PROVE  UNCHANGED <<Queue, out>>
    BY <2>9 DEF vars, Queue, Contents
  <2> QED
    BY <2>1, <2>2, <2>3, <2>4, <2>5, <2>6, <2>7, <2>8, <2>9
    DEF Next, ProducerStep, ConsumerStep
<1> QED
  BY <1>1, <1>2, RingInvariance, PTL DEF Spec, RefinesFifo, Abstract!Spec

-----------------------------------------------------------------------------
(* The instructions, on bytes of eight bits.                               *)

LEMMA Sizes ==
  ASSUME NibbleBits = 4
  PROVE  /\ NibbleSize = 16 /\ ByteSize = 256 /\ WordSize = 65536
<1>1. 2 ^ 4 = 16
  BY SMT
<1>2. NibbleSize = 16
  BY <1>1, SMT DEF NibbleSize
<1>3. ByteSize = 256
  BY <1>2, SMT DEF ByteSize
<1>4. WordSize = 65536
  BY <1>3, SMT DEF WordSize
<1> QED
  BY <1>2, <1>3, <1>4, SMT

IsByte(x) == x \in Int /\ 0 <= x /\ x <= 255
IsWord(w) == w \in Int /\ 0 <= w /\ w <= 65535

LEMMA Ranges ==
  ASSUME NibbleBits = 4, NEW x
  PROVE  (x \in ByteValues <=> IsByte(x)) /\ (x \in Words <=> IsWord(x))
<1>1. x \in ByteValues <=> x \in Int /\ 0 <= x /\ x <= 255
  <2> DEFINE top == ByteSize - 1
  <2>1. top \in Int
    BY Sizes, SMT
  <2>2. top = 255
    BY Sizes, SMT
  <2> HIDE DEF top
  <2>3. x \in 0 .. top <=> x \in Int /\ 0 <= x /\ x <= top
    BY <2>1, SMT
  <2>4. x \in ByteValues <=> x \in Int /\ 0 <= x /\ x <= top
    BY <2>3, SMT DEF ByteValues, top
  <2> QED
    BY <2>2, <2>4, SMT
<1>2. x \in Words <=> x \in Int /\ 0 <= x /\ x <= 65535
  <2> DEFINE top == WordSize - 1
  <2>1. top \in Int
    BY Sizes, SMT
  <2>2. top = 65535
    BY Sizes, SMT
  <2> HIDE DEF top
  <2>3. x \in 0 .. top <=> x \in Int /\ 0 <= x /\ x <= top
    BY <2>1, SMT
  <2>4. x \in Words <=> x \in Int /\ 0 <= x /\ x <= top
    BY <2>3, SMT DEF Words, top
  <2> QED
    BY <2>2, <2>4, SMT
<1> QED
  BY <1>1, <1>2, SMT DEF IsByte, IsWord

\* A word is its two bytes.
IsWordOf(w, l, h) == IsByte(l) /\ IsByte(h) /\ w = l + 256 * h /\ IsWord(w)

LEMMA BytesOfWord ==
  ASSUME NibbleBits = 4, NEW w, IsWord(w)
  PROVE  /\ Lo(w) = w % 256 /\ Hi(w) = w \div 256
         /\ IsWordOf(w, Lo(w), Hi(w))
<1>1. Lo(w) = w % 256 /\ Hi(w) = w \div 256
  BY Sizes, SMT DEF Lo, Hi
<1> QED
  BY <1>1, SMT DEF IsWordOf, IsByte, IsWord

LEMMA WordOfBytes ==
  ASSUME NibbleBits = 4, NEW l, IsByte(l), NEW h, IsByte(h)
  PROVE  /\ IsWordOf(Word(l, h), l, h)
         /\ Lo(Word(l, h)) = l /\ Hi(Word(l, h)) = h
<1>1. Word(l, h) = l + 256 * h
  BY Sizes, SMT DEF Word
<1>2. IsWord(l + 256 * h)
  BY SMT DEF IsByte, IsWord
<1>3. (l + 256 * h) % 256 = l
  BY SMT DEF IsByte
<1>4. (l + 256 * h) \div 256 = h
  BY SMT DEF IsByte
<1>5. Lo(l + 256 * h) = l /\ Hi(l + 256 * h) = h
  BY <1>2, <1>3, <1>4, BytesOfWord, SMT
<1> QED
  BY <1>1, <1>2, <1>5, SMT DEF IsWordOf

\* Two bytes and a carry give a byte and a carry.
IsSum(s, x, y, c) == /\ IsByte(s[1]) /\ s[2] \in {0, 1}
                     /\ x + y + c = s[1] + 256 * s[2]
IsDifference(s, x, y, c) == /\ IsByte(s[1]) /\ s[2] \in {0, 1}
                            /\ x - y - c = s[1] - 256 * s[2]

LEMMA AdcIs ==
  ASSUME NibbleBits = 4, NEW x, IsByte(x), NEW y, IsByte(y), NEW c \in {0, 1}
  PROVE  IsSum(Adc(x, y, c), x, y, c)
<1>1. /\ Adc(x, y, c)[1] = (x + y + c) % 256 /\ Adc(x, y, c)[2] = (x + y + c) \div 256
  BY Sizes, SMT DEF Adc
<1> QED
  BY <1>1, SMT DEF IsSum, IsByte

LEMMA SbcIs ==
  ASSUME NibbleBits = 4, NEW x, IsByte(x), NEW y, IsByte(y), NEW c \in {0, 1}
  PROVE  IsDifference(Sbc(x, y, c), x, y, c)
<1>1. /\ Sbc(x, y, c)[1] = (x - y - c) % 256
      /\ Sbc(x, y, c)[2] = IF x < y + c THEN 1 ELSE 0
  BY Sizes, SMT DEF Sbc
<1> QED
  BY <1>1, SMT DEF IsDifference, IsByte

LEMMA AddWordsIs ==
  ASSUME NibbleBits = 4, NEW v, IsWord(v), NEW w, IsWord(w)
  PROVE  AddWords(v, w) = (v + w) % 65536
<1> DEFINE vl == Lo(v)
           vh == Hi(v)
           wl == Lo(w)
           wh == Hi(w)
           l == Adc(vl, wl, 0)
           h == Adc(vh, wh, l[2])
<1>1. IsWordOf(v, vl, vh) /\ IsWordOf(w, wl, wh)
  BY BytesOfWord, SMT
<1> HIDE DEF vl, vh, wl, wh
<1>2. IsSum(l, vl, wl, 0)
  BY <1>1, AdcIs DEF IsWordOf
<1> HIDE DEF l
<1>3. IsSum(h, vh, wh, l[2])
  BY <1>1, <1>2, AdcIs DEF IsWordOf, IsSum
<1> HIDE DEF h
<1>4. AddWords(v, w) = l[1] + 256 * h[1]
  <2>1. IsWordOf(Word(l[1], h[1]), l[1], h[1])
    BY <1>2, <1>3, WordOfBytes, SMT DEF IsSum
  <2> QED
    BY <2>1, SMT DEF IsWordOf, AddWords, l, h, vl, vh, wl, wh
<1> DEFINE a == l[1]
           b == h[1]
           c == h[2]
<1>5. /\ vl + wl = a + 256 * l[2] /\ vh + wh + l[2] = b + 256 * c
      /\ IsByte(a) /\ IsByte(b) /\ l[2] \in {0, 1} /\ c \in {0, 1}
      /\ v = vl + 256 * vh /\ w = wl + 256 * wh
      /\ IsByte(vl) /\ IsByte(vh) /\ IsByte(wl) /\ IsByte(wh)
  BY <1>1, <1>2, <1>3, SMT DEF IsSum, IsWordOf, IsByte
<1> HIDE DEF a, b, c
<1>6. v + w = a + 256 * b + 65536 * c
  BY <1>5, SMT DEF IsByte
<1>7. (a + 256 * b + 65536 * c) % 65536 = a + 256 * b
  BY <1>5, SMT DEF IsByte
<1> QED
  BY <1>4, <1>6, <1>7, SMT DEF a, b

\* The value of a number of 24 bits.
Size24 == 16777216
Value24(a) == a[1] + 256 * a[2] + 65536 * a[3]
Is24(a) == IsByte(a[1]) /\ IsByte(a[2]) /\ IsByte(a[3])
IsSum24(s, a, b) ==
  /\ Is24(s) /\ s[4] \in {0, 1} /\ s = <<s[1], s[2], s[3], s[4]>>
  /\ Value24(a) + Value24(b) = Value24(s) + Size24 * s[4]
IsDifference24(s, a, b) ==
  /\ Is24(s) /\ s[4] \in {0, 1} /\ s = <<s[1], s[2], s[3], s[4]>>
  /\ Value24(a) - Value24(b) = Value24(s) - Size24 * s[4]

LEMMA SumChain ==
  ASSUME NibbleBits = 4, NEW a, NEW b, Is24(a), Is24(b)
  PROVE  IsSum24(Chain(Adc, a, b), a, b)
<1> DEFINE f == Adc(a[1], b[1], 0)
           l == Adc(a[2], b[2], f[2])
           h == Adc(a[3], b[3], l[2])
<1>1. IsSum(f, a[1], b[1], 0)
  BY AdcIs DEF Is24
<1> HIDE DEF f
<1>2. IsSum(l, a[2], b[2], f[2])
  BY <1>1, AdcIs DEF Is24, IsSum
<1> HIDE DEF l
<1>3. IsSum(h, a[3], b[3], l[2])
  BY <1>2, AdcIs DEF Is24, IsSum
<1> HIDE DEF h
<1> DEFINE s == Chain(Adc, a, b)
<1>4. s = <<f[1], l[1], h[1], h[2]>>
  BY SMT DEF Chain, f, l, h
<1> HIDE DEF s
<1>5. s[1] = f[1] /\ s[2] = l[1] /\ s[3] = h[1] /\ s[4] = h[2]
  BY <1>4, SMT
<1>6. Is24(s) /\ s[4] \in {0, 1} /\ s = <<s[1], s[2], s[3], s[4]>>
  BY <1>1, <1>2, <1>3, <1>4, <1>5, SMT DEF Is24, IsSum
<1>7. /\ a[1] + b[1] = s[1] + 256 * f[2] /\ a[2] + b[2] + f[2] = s[2] + 256 * l[2]
      /\ a[3] + b[3] + l[2] = s[3] + 256 * s[4]
      /\ f[2] \in {0, 1} /\ l[2] \in {0, 1}
  BY <1>1, <1>2, <1>3, <1>5, SMT DEF IsSum, Is24, IsByte
<1>8. Value24(a) + Value24(b) = Value24(s) + Size24 * s[4]
  <2> DEFINE a1 == a[1]
             a2 == a[2]
             a3 == a[3]
             b1 == b[1]
             b2 == b[2]
             b3 == b[3]
             s1 == s[1]
             s2 == s[2]
             s3 == s[3]
             s4 == s[4]
             c1 == f[2]
             c2 == l[2]
  <2>1. /\ a1 \in Int /\ a2 \in Int /\ a3 \in Int /\ b1 \in Int /\ b2 \in Int /\ b3 \in Int
        /\ s1 \in Int /\ s2 \in Int /\ s3 \in Int /\ s4 \in Int /\ c1 \in Int /\ c2 \in Int
    BY <1>6, <1>7, SMT DEF Is24, IsByte
  <2>2. /\ a1 + b1 = s1 + 256 * c1 /\ a2 + b2 + c1 = s2 + 256 * c2
        /\ a3 + b3 + c2 = s3 + 256 * s4
    BY <1>7, SMT
  <2> HIDE DEF a1, a2, a3, b1, b2, b3, s1, s2, s3, s4, c1, c2
  <2>3. (a1 + 256 * a2 + 65536 * a3) + (b1 + 256 * b2 + 65536 * b3)
          = (s1 + 256 * s2 + 65536 * s3) + Size24 * s4
    BY <2>1, <2>2, SMT DEF Size24
  <2> QED
    BY <2>3, SMT DEF Value24, a1, a2, a3, b1, b2, b3, s1, s2, s3, s4
<1> QED
  BY <1>6, <1>8, SMT DEF IsSum24, s

LEMMA DifferenceChain ==
  ASSUME NibbleBits = 4, NEW a, NEW b, Is24(a), Is24(b)
  PROVE  IsDifference24(Chain(Sbc, a, b), a, b)
<1> DEFINE f == Sbc(a[1], b[1], 0)
           l == Sbc(a[2], b[2], f[2])
           h == Sbc(a[3], b[3], l[2])
<1>1. IsDifference(f, a[1], b[1], 0)
  BY SbcIs DEF Is24
<1> HIDE DEF f
<1>2. IsDifference(l, a[2], b[2], f[2])
  BY <1>1, SbcIs DEF Is24, IsDifference
<1> HIDE DEF l
<1>3. IsDifference(h, a[3], b[3], l[2])
  BY <1>2, SbcIs DEF Is24, IsDifference
<1> HIDE DEF h
<1> DEFINE s == Chain(Sbc, a, b)
<1>4. s = <<f[1], l[1], h[1], h[2]>>
  BY SMT DEF Chain, f, l, h
<1> HIDE DEF s
<1>5. s[1] = f[1] /\ s[2] = l[1] /\ s[3] = h[1] /\ s[4] = h[2]
  BY <1>4, SMT
<1>6. Is24(s) /\ s[4] \in {0, 1} /\ s = <<s[1], s[2], s[3], s[4]>>
  BY <1>1, <1>2, <1>3, <1>4, <1>5, SMT DEF Is24, IsDifference
<1>7. /\ a[1] - b[1] = s[1] - 256 * f[2] /\ a[2] - b[2] - f[2] = s[2] - 256 * l[2]
      /\ a[3] - b[3] - l[2] = s[3] - 256 * s[4]
      /\ f[2] \in {0, 1} /\ l[2] \in {0, 1}
  BY <1>1, <1>2, <1>3, <1>5, SMT DEF IsDifference, Is24, IsByte
<1>8. Value24(a) - Value24(b) = Value24(s) - Size24 * s[4]
  <2> DEFINE a1 == a[1]
             a2 == a[2]
             a3 == a[3]
             b1 == b[1]
             b2 == b[2]
             b3 == b[3]
             s1 == s[1]
             s2 == s[2]
             s3 == s[3]
             s4 == s[4]
             c1 == f[2]
             c2 == l[2]
  <2>1. /\ a1 \in Int /\ a2 \in Int /\ a3 \in Int /\ b1 \in Int /\ b2 \in Int /\ b3 \in Int
        /\ s1 \in Int /\ s2 \in Int /\ s3 \in Int /\ s4 \in Int /\ c1 \in Int /\ c2 \in Int
    BY <1>6, <1>7, SMT DEF Is24, IsByte
  <2>2. /\ a1 - b1 = s1 - 256 * c1 /\ a2 - b2 - c1 = s2 - 256 * c2
        /\ a3 - b3 - c2 = s3 - 256 * s4
    BY <1>7, SMT
  <2> HIDE DEF a1, a2, a3, b1, b2, b3, s1, s2, s3, s4, c1, c2
  <2>3. (a1 + 256 * a2 + 65536 * a3) - (b1 + 256 * b2 + 65536 * b3)
          = (s1 + 256 * s2 + 65536 * s3) - Size24 * s4
    BY <2>1, <2>2, SMT DEF Size24
  <2> QED
    BY <2>3, SMT DEF Value24, a1, a2, a3, b1, b2, b3, s1, s2, s3, s4
<1> QED
  BY <1>6, <1>8, SMT DEF IsDifference24, s

-----------------------------------------------------------------------------
(* Clipping and shifts.                                                    *)

LEMMA ClipsAgree ==
  ASSUME NibbleBits = 4, NEW w, IsWord(w)
  PROVE  LET v == Signed(w, WordSize) IN
         /\ S16ClipU14(w) = Clip(v, 0, WordSize \div 4 - 1)
         /\ S16ClipU8(w) = RefS16ClipU8(v)
         /\ v + ByteSize \div 2 < WordSize \div 2 =>
              Signed(S16ClipS8(w), ByteSize) = RefS16ClipS8(v)
<1> DEFINE l == Lo(w)
           h == Hi(w)
           v == Signed(w, WordSize)
<1>1. IsByte(l) /\ IsByte(h) /\ w = l + 256 * h
  BY BytesOfWord, SMT DEF IsWordOf
<1>2. v = IF w >= 32768 THEN w - 65536 ELSE w
  BY Sizes, SMT DEF Signed, IsWord
<1>3. ByteSize = 256 /\ WordSize = 65536
  BY Sizes, SMT
<1>4. S16ClipU14(w) = IF h >= 128 THEN 0 ELSE IF h >= 64 THEN 16383 ELSE w
  <2>1. WordSize \div 4 - 1 = 16383
    BY <1>3, SMT
  <2>2. S16ClipU14(w) = IF 2 * h >= 256 THEN 0 ELSE IF 4 * h >= 256 THEN 16383 ELSE w
    BY <1>3, <2>1, SMT DEF S16ClipU14
  <2> HIDE DEF h, l
  <2> QED
    BY <1>1, <2>2, SMT DEF IsByte
<1>5. ASSUME NEW u, IsWord(u)
      PROVE  S16ClipU8(u) = IF u >= 32768 THEN 0 ELSE IF u > 255 THEN 255 ELSE u
  <2> DEFINE ul == Lo(u)
             uh == Hi(u)
  <2>1. IsByte(ul) /\ IsByte(uh) /\ u = ul + 256 * uh
    BY <1>5, BytesOfWord, SMT DEF IsWordOf
  <2>2. S16ClipU8(u) = IF uh >= 128 THEN 0 ELSE IF uh = 0 THEN ul ELSE 255
    BY <1>3, <2>1, SMT DEF S16ClipU8, IsByte
  <2> HIDE DEF ul, uh
  <2> QED
    BY <2>1, <2>2, SMT DEF IsByte
<1> HIDE DEF l, h, v
<1>6. S16ClipU14(w) = Clip(v, 0, WordSize \div 4 - 1)
  <2>1. WordSize \div 4 - 1 = 16383
    BY <1>3, SMT
  <2> QED
    BY <1>1, <1>2, <1>4, <2>1, SMT DEF Clip, IsByte
<1>7. S16ClipU8(w) = RefS16ClipU8(v)
  <2>1. ByteSize - 1 = 255
    BY <1>3, SMT
  <2> QED
    BY <1>2, <1>5, <2>1, SMT DEF RefS16ClipU8, Clip, IsWord
<1>8. ASSUME v + ByteSize \div 2 < WordSize \div 2
      PROVE  Signed(S16ClipS8(w), ByteSize) = RefS16ClipS8(v)
  <2>1. ByteSize \div 2 = 128 /\ WordSize \div 2 = 32768
    BY <1>3, SMT
  <2> DEFINE u == (w + 128) % 65536
             x == S16ClipU8(u)
             y == (x + 128) % 256
  <2>2. IsWord(u) /\ u = (IF w + 128 >= 65536 THEN w - 65408 ELSE w + 128)
    BY SMT DEF IsWord
  <2>3. v < 32640 /\ v >= -32768
    BY <1>2, <1>8, <2>1, SMT DEF IsWord
  <2>4. S16ClipS8(w) = y
    BY <1>3, <2>1, SMT DEF S16ClipS8
  <2>5. x = IF u >= 32768 THEN 0 ELSE IF u > 255 THEN 255 ELSE u
    BY <1>5, <2>2, SMT
  <2> HIDE DEF u, x
  <2>6. Signed(y, ByteSize) = IF 2 * y >= 256 THEN y - 256 ELSE y
    BY <1>3, SMT DEF Signed
  <2>7. RefS16ClipS8(v) = IF v < -128 THEN -128 ELSE IF v > 127 THEN 127 ELSE v
    BY <2>1, SMT DEF RefS16ClipS8, Clip
  <2>8. /\ x \in Int /\ 0 <= x /\ x <= 255
        /\ x = IF v < -128 THEN 0 ELSE IF v > 127 THEN 255 ELSE v + 128
    BY <1>2, <2>2, <2>3, <2>5, SMT DEF IsWord
  <2>9. y = IF x < 128 THEN x + 128 ELSE x - 128
    BY <2>8, SMT
  <2> HIDE DEF y
  <2>10. v \in Int
    BY <1>2, SMT DEF IsWord
  <2> QED
    BY <2>4, <2>6, <2>7, <2>8, <2>9, <2>10, SMT
<1> QED
  BY <1>6, <1>7, <1>8, SMT DEF v

LEMMA AddClipAgrees ==
  ASSUME NibbleBits = 4, NEW x, IsByte(x), NEW increment, IsByte(increment),
         NEW max, IsByte(max), x + increment < ByteSize
  PROVE  U8AddClip(x, increment, max) = Clip(x + increment, 0, max)
<1> DEFINE s == x + increment
<1>1. s \in Int /\ 0 <= s /\ s < 256
  BY Sizes, SMT DEF IsByte
<1> HIDE DEF s
<1>2. s % 256 = s
  BY <1>1, SMT
<1>3. U8AddClip(x, increment, max) = IF s > max THEN max ELSE s
  BY <1>2, Sizes, SMT DEF U8AddClip, s
<1>4. Clip(s, 0, max) = IF s < 0 THEN 0 ELSE IF s > max THEN max ELSE s
  BY SMT DEF Clip
<1>5. ~ s < 0
  BY <1>1, SMT
<1> QED
  BY <1>3, <1>4, <1>5, SMT DEF s

LEMMA HalfIs ==
  ASSUME NibbleBits = 4, NEW w, IsWord(w)
  PROVE  HalfWord(w) = w \div 2 /\ IsWord(w \div 2)
<1> DEFINE l == Lo(w)
           h == Hi(w)
           x == RorByte(l, h)
           y == h \div 2
<1>1. IsByte(l) /\ IsByte(h) /\ w = l + 256 * h
  BY BytesOfWord, SMT DEF IsWordOf
<1> HIDE DEF l, h
<1>2. x = (l \div 2) + 128 * (h % 2)
  <2>1. ByteSize \div 2 = 128
    BY Sizes, SMT
  <2> QED
    BY <2>1, SMT DEF RorByte
<1>3. IsByte(x) /\ IsByte(y) /\ x + 256 * y = w \div 2
  BY <1>1, <1>2, SMT DEF IsByte
<1> HIDE DEF x, y
<1>4. Word(x, y) = x + 256 * y
  BY <1>3, WordOfBytes, SMT DEF IsWordOf
<1> QED
  BY <1>3, <1>4, SMT DEF HalfWord, x, y, l, h, IsWord

LEMMA DoubleIs ==
  ASSUME NibbleBits = 4, NEW w, IsWord(w)
  PROVE  DoubleWord(w) = (2 * w) % 65536 /\ IsWord((2 * w) % 65536)
<1>1. DoubleWord(w) = (w + w) % 65536
  BY AddWordsIs, SMT DEF DoubleWord
<1>2. w + w = 2 * w
  BY SMT DEF IsWord
<1> QED
  BY <1>1, <1>2, SMT DEF IsWord

\* What is done four times.
LEMMA FourHalves ==
  ASSUME NibbleBits = 4, NEW w, IsWord(w)
  PROVE  Repeat(HalfWord, NibbleBits, w) = w \div 16
<1> DEFINE Is(f) == f = [i \in 0 .. 4 |-> IF i = 0 THEN w ELSE HalfWord(f[i - 1])]
           a == HalfWord(w)
           b == HalfWord(a)
           c == HalfWord(b)
           d == HalfWord(c)
           g == [i \in 0 .. 4 |-> IF i = 0 THEN w ELSE IF i = 1 THEN a
                                  ELSE IF i = 2 THEN b ELSE IF i = 3 THEN c ELSE d]
           after == CHOOSE f : Is(f)
<1>1. Is(g)
  <2> HIDE DEF a, b, c, d
  <2>1. g[0] = w /\ g[1] = a /\ g[2] = b /\ g[3] = c /\ g[4] = d
    BY SMT
  <2>2. ASSUME NEW i \in 0 .. 4
        PROVE  g[i] = IF i = 0 THEN w ELSE HalfWord(g[i - 1])
    <3>1. i = 0 \/ i = 1 \/ i = 2 \/ i = 3 \/ i = 4
      BY SMT
    <3> HIDE DEF g
    <3>2. CASE i = 0
      BY <2>1, <3>2, SMT
    <3>3. CASE i = 1
      BY <2>1, <3>3, SMT DEF a
    <3>4. CASE i = 2
      BY <2>1, <3>4, SMT DEF b
    <3>5. CASE i = 3
      BY <2>1, <3>5, SMT DEF c
    <3>6. CASE i = 4
      BY <2>1, <3>6, SMT DEF d
    <3> QED
      BY <3>1, <3>2, <3>3, <3>4, <3>5, <3>6, SMT
  <2>3. g = [i \in 0 .. 4 |-> g[i]]
    BY SMT
  <2> HIDE DEF g
  <2> QED
    BY <2>2, <2>3, SMT
<1> HIDE DEF a, b, c, d, g
<1>2. Is(after)
  <2> HIDE DEF Is
  <2> QED
    BY <1>1, SMT
<1>3. Repeat(HalfWord, NibbleBits, w) = after[4]
  BY SMT DEF Repeat
<1> HIDE DEF after
<1>4. after[0] = w /\ after[1] = a /\ after[2] = b /\ after[3] = c /\ after[4] = d
  <2>1. after[0] = w
    BY <1>2, SMT
  <2>2. after[1] = HalfWord(after[0])
    BY <1>2, SMT
  <2>3. after[2] = HalfWord(after[1])
    BY <1>2, SMT
  <2>4. after[3] = HalfWord(after[2])
    BY <1>2, SMT
  <2>5. after[4] = HalfWord(after[3])
    BY <1>2, SMT
  <2> QED
    BY <2>1, <2>2, <2>3, <2>4, <2>5, SMT DEF a, b, c, d
<1>5. a = w \div 2 /\ IsWord(a)
  BY HalfIs, SMT DEF a
<1>6. b = a \div 2 /\ IsWord(b)
  BY <1>5, HalfIs, SMT DEF b
<1>7. c = b \div 2 /\ IsWord(c)
  BY <1>6, HalfIs, SMT DEF c
<1>8. d = c \div 2
  BY <1>7, HalfIs, SMT DEF d
<1>9. d = w \div 16
  BY <1>5, <1>6, <1>7, <1>8, SMT DEF IsWord
<1> QED
  BY <1>3, <1>4, <1>9, SMT

\* A number of 12 bits, in the highest ones of a word.
LEMMA FourDoubles ==
  ASSUME NibbleBits = 4, NEW w, IsWord(w), w < 4096
  PROVE  Repeat(DoubleWord, NibbleBits, w) = 16 * w
<1> DEFINE Is(f) == f = [i \in 0 .. 4 |-> IF i = 0 THEN w ELSE DoubleWord(f[i - 1])]
           a == DoubleWord(w)
           b == DoubleWord(a)
           c == DoubleWord(b)
           d == DoubleWord(c)
           g == [i \in 0 .. 4 |-> IF i = 0 THEN w ELSE IF i = 1 THEN a
                                  ELSE IF i = 2 THEN b ELSE IF i = 3 THEN c ELSE d]
           after == CHOOSE f : Is(f)
<1>1. Is(g)
  <2> HIDE DEF a, b, c, d
  <2>1. g[0] = w /\ g[1] = a /\ g[2] = b /\ g[3] = c /\ g[4] = d
    BY SMT
  <2>2. ASSUME NEW i \in 0 .. 4
        PROVE  g[i] = IF i = 0 THEN w ELSE DoubleWord(g[i - 1])
    <3>1. i = 0 \/ i = 1 \/ i = 2 \/ i = 3 \/ i = 4
      BY SMT
    <3> HIDE DEF g
    <3>2. CASE i = 0
      BY <2>1, <3>2, SMT
    <3>3. CASE i = 1
      BY <2>1, <3>3, SMT DEF a
    <3>4. CASE i = 2
      BY <2>1, <3>4, SMT DEF b
    <3>5. CASE i = 3
      BY <2>1, <3>5, SMT DEF c
    <3>6. CASE i = 4
      BY <2>1, <3>6, SMT DEF d
    <3> QED
      BY <3>1, <3>2, <3>3, <3>4, <3>5, <3>6, SMT
  <2>3. g = [i \in 0 .. 4 |-> g[i]]
    BY SMT
  <2> HIDE DEF g
  <2> QED
    BY <2>2, <2>3, SMT
<1> HIDE DEF a, b, c, d, g
<1>2. Is(after)
  <2> HIDE DEF Is
  <2> QED
    BY <1>1, SMT
<1>3. Repeat(DoubleWord, NibbleBits, w) = after[4]
  BY SMT DEF Repeat
<1> HIDE DEF after
<1>4. after[0] = w /\ after[1] = a /\ after[2] = b /\ after[3] = c /\ after[4] = d
  <2>1. after[0] = w
    BY <1>2, SMT
  <2>2. after[1] = DoubleWord(after[0])
    BY <1>2, SMT
  <2>3. after[2] = DoubleWord(after[1])
    BY <1>2, SMT
  <2>4. after[3] = DoubleWord(after[2])
    BY <1>2, SMT
  <2>5. after[4] = DoubleWord(after[3])
    BY <1>2, SMT
  <2> QED
    BY <2>1, <2>2, <2>3, <2>4, <2>5, SMT DEF a, b, c, d
<1>5. a = 2 * w /\ IsWord(a)
  BY DoubleIs, SMT DEF a, IsWord
<1>6. b = 2 * a /\ IsWord(b)
  <2>1. b = (2 * a) % 65536
    BY <1>5, DoubleIs, SMT DEF b
  <2> QED
    BY <1>5, <2>1, SMT DEF IsWord
<1>7. c = 2 * b /\ IsWord(c)
  <2>1. c = (2 * b) % 65536
    BY <1>6, DoubleIs, SMT DEF c
  <2> QED
    BY <1>5, <1>6, <2>1, SMT DEF IsWord
<1>8. d = 2 * c
  <2>1. d = (2 * c) % 65536
    BY <1>7, DoubleIs, SMT DEF d
  <2> QED
    BY <1>5, <1>6, <1>7, <2>1, SMT DEF IsWord
<1>9. d = 16 * w
  BY <1>5, <1>6, <1>7, <1>8, SMT DEF IsWord
<1> QED
  BY <1>3, <1>4, <1>9, SMT

LEMMA WordShiftsAgree ==
  ASSUME NibbleBits = 4, NEW w, IsWord(w)
  PROVE  /\ S16ShiftRight8(w) = w \div ByteSize
         /\ U16ShiftRight4(w) = RefU16ShiftRight4(w)
         /\ 4 * w < WordSize => U14ShiftRight6(w) = RefU14ShiftRight6(w)
         /\ 2 * w < WordSize => U15ShiftRight7(w) = RefU15ShiftRight7(w)
<1>1. ByteSize = 256 /\ WordSize = 65536 /\ NibbleSize = 16
  BY Sizes, SMT
<1>2. S16ShiftRight8(w) = w \div ByteSize
  BY SMT DEF S16ShiftRight8, Hi
<1>3. U16ShiftRight4(w) = RefU16ShiftRight4(w)
  BY <1>1, FourHalves, SMT DEF U16ShiftRight4, RefU16ShiftRight4
<1> DEFINE d == DoubleWord(w)
<1>4. 2 * w < 65536 => d = 2 * w
  BY DoubleIs, SMT DEF IsWord
<1> HIDE DEF d
<1>5. ASSUME NEW u, IsWord(u)
      PROVE  Hi(u) = u \div 256
  BY <1>5, BytesOfWord, SMT
<1>6. ASSUME 4 * w < WordSize
      PROVE  U14ShiftRight6(w) = RefU14ShiftRight6(w)
  <2>1. w \in Int /\ 0 <= w /\ w < 16384
    BY <1>1, <1>6, SMT DEF IsWord
  <2>2. IsWord(2 * w) /\ d = 2 * w
    BY <1>4, <2>1, SMT DEF IsWord
  <2>3. DoubleWord(2 * w) = (2 * (2 * w)) % 65536
    BY <2>2, DoubleIs, SMT
  <2>4. (2 * (2 * w)) % 65536 = 4 * w /\ IsWord(4 * w)
    BY <2>1, SMT DEF IsWord
  <2>5. U14ShiftRight6(w) = (4 * w) \div 256
    BY <1>5, <2>2, <2>3, <2>4, SMT DEF U14ShiftRight6, d
  <2>6. RefU14ShiftRight6(w) = (w \div 64) % 256
    <3>1. ByteSize \div 4 = 64
      BY <1>1, SMT
    <3> QED
      BY <1>1, <3>1, SMT DEF RefU14ShiftRight6
  <2>7. (4 * w) \div 256 = (w \div 64) % 256
    BY <2>1, SMT
  <2> QED
    BY <2>5, <2>6, <2>7, SMT
<1>7. ASSUME 2 * w < WordSize
      PROVE  U15ShiftRight7(w) = RefU15ShiftRight7(w)
  <2>1. w \in Int /\ 0 <= w /\ w < 32768
    BY <1>1, <1>7, SMT DEF IsWord
  <2>2. IsWord(2 * w) /\ d = 2 * w
    BY <1>4, <2>1, SMT DEF IsWord
  <2>3. U15ShiftRight7(w) = (2 * w) \div 256
    BY <1>5, <2>2, SMT DEF U15ShiftRight7, d
  <2>4. RefU15ShiftRight7(w) = (w \div 128) % 256
    <3>1. ByteSize \div 2 = 128
      BY <1>1, SMT
    <3> QED
      BY <1>1, <3>1, SMT DEF RefU15ShiftRight7
  <2>5. (2 * w) \div 256 = (w \div 128) % 256
    BY <2>1, SMT
  <2> QED
    BY <2>3, <2>4, <2>5, SMT
<1> QED
  BY <1>2, <1>3, <1>6, <1>7, SMT

LEMMA ByteShiftsAgree ==
  ASSUME NibbleBits = 4, NEW x, IsByte(x)
  PROVE  /\ U8ShiftLeft4(x) = RefU8ShiftLeft4(x)
         /\ U8ShiftRight4(x) = RefU8ShiftRight4(x)
         /\ U8Swap4(x) = RefU8Swap4(x)
<1>1. ByteSize = 256 /\ NibbleSize = 16
  BY Sizes, SMT
<1>2. Swap(x) = (x % 16) * 16 + (x \div 16)
  BY <1>1, SMT DEF Swap
<1> DEFINE s == Swap(x)
           q == x \div 16
           r == x % 16
<1>3. q \in Int /\ 0 <= q /\ q < 16 /\ r \in Int /\ 0 <= r /\ r < 16 /\ x = 16 * q + r
  BY SMT DEF IsByte
<1>4. s = r * 16 + q
  BY <1>2, SMT
<1> HIDE DEF s
<1>5. /\ U8ShiftLeft4(x) = s - (s % 16) /\ U8ShiftRight4(x) = s % 16 /\ U8Swap4(x) = s
  BY <1>1, SMT DEF U8ShiftLeft4, U8ShiftRight4, U8Swap4, s
<1>6. RefU8ShiftLeft4(x) = (x * 16) % 256 /\ RefU8ShiftRight4(x) = q
  BY <1>1, SMT DEF RefU8ShiftLeft4, RefU8ShiftRight4
<1> HIDE DEF q, r
<1>7. s % 16 = q /\ (x * 16) % 256 = 16 * r
  BY <1>3, <1>4, SMT
<1> QED
  BY <1>3, <1>4, <1>5, <1>6, <1>7, SMT DEF RefU8Swap4

-----------------------------------------------------------------------------
(* Numbers of 24 bits.                                                     *)

LEMMA Uint24Of ==
  ASSUME NibbleBits = 4, NEW s, Is24(s), NEW k \in Int
  PROVE  Uint24(Value24(s) + Size24 * k) = <<s[1], s[2], s[3]>>
<1> DEFINE n == Value24(s) + Size24 * k
           x == s[1]
           y == s[2]
           z == s[3]
<1>1. IsByte(x) /\ IsByte(y) /\ IsByte(z)
  BY SMT DEF Is24
<1>2. n = x + 256 * y + 65536 * z + Size24 * k
  BY SMT DEF Value24
<1>0. Size24 = 16777216
  BY SMT DEF Size24
<1>3. Uint24(n) = <<n % 256, (n \div 256) % 256, ((n \div 256) \div 256) % 256>>
  BY Sizes, SMT DEF Uint24, Lo, Hi
<1> HIDE DEF n, x, y, z
<1>4. n % 256 = x
  BY <1>0, <1>1, <1>2, SMT DEF IsByte
<1>5. n \div 256 = y + 256 * z + 65536 * k
  BY <1>0, <1>1, <1>2, SMT DEF IsByte
<1> DEFINE m == y + 256 * z + 65536 * k
<1>6. m % 256 = y
  BY <1>1, SMT DEF IsByte
<1>7. m \div 256 = z + 256 * k
  BY <1>1, SMT DEF IsByte
<1>8. (z + 256 * k) % 256 = z
  BY <1>1, SMT DEF IsByte
<1> QED
  BY <1>3, <1>4, <1>5, <1>6, <1>7, <1>8, SMT DEF n, x, y, z

LEMMA Int24Is ==
  ASSUME NibbleBits = 4, NEW a, Is24(a)
  PROVE  /\ Int24(a) = Value24(a) /\ Value24(a) \in Int
         /\ 0 <= Value24(a) /\ Value24(a) <= 16777215
<1> DEFINE x == a[1]
           y == a[2]
           z == a[3]
<1>1. IsByte(x) /\ IsByte(y) /\ IsByte(z)
  BY SMT DEF Is24
<1>2. Int24(a) = x + 256 * (y + 256 * z)
  BY Sizes, SMT DEF Int24, Word
<1>3. Value24(a) = x + 256 * y + 65536 * z
  BY SMT DEF Value24
<1> HIDE DEF x, y, z
<1> QED
  BY <1>1, <1>2, <1>3, SMT DEF IsByte

LEMMA FourParts ==
  ASSUME NEW p \in Int, NEW q \in Int, NEW r \in Int, NEW t \in Int
  PROVE  /\ Append(<<p, q, r>>, t) = <<p, q, r, t>>
         /\ SubSeq(<<p, q, r, t>>, 1, 3) = <<p, q, r>>
<1> DEFINE u == <<p, q, r>>
           v == <<p, q, r, t>>
<1>1. u \in Seq(Int) /\ Len(u) = 3 /\ u[1] = p /\ u[2] = q /\ u[3] = r
  OBVIOUS
<1>2. v \in Seq(Int) /\ Len(v) = 4 /\ v[1] = p /\ v[2] = q /\ v[3] = r /\ v[4] = t
  OBVIOUS
<1> HIDE DEF u, v
<1>3. \A i \in 1 .. 3 : i = 1 \/ i = 2 \/ i = 3
  OBVIOUS
<1>4. \A i \in 1 .. 4 : i = 1 \/ i = 2 \/ i = 3 \/ i = 4
  OBVIOUS
<1>5. Append(u, t) = v
  <2> DEFINE w == Append(u, t)
  <2>1. w \in Seq(Int) /\ Len(w) = 4 /\ w[1] = p /\ w[2] = q /\ w[3] = r /\ w[4] = t
    <3>1. /\ w \in Seq(Int) /\ Len(w) = Len(u) + 1 /\ w[Len(u) + 1] = t
          /\ \A i \in 1 .. Len(u) : w[i] = u[i]
      <4>1. u \in Seq(Int)
        BY <1>1
      <4> QED
        BY <4>1, AppendProperties
    <3> HIDE DEF w
    <3> QED
      BY <1>1, <3>1
  <2> HIDE DEF w
  <2>2. \A i \in 1 .. Len(w) : w[i] = v[i]
    BY <1>2, <1>4, <2>1
  <2>3. w = v
    BY <1>2, <2>1, <2>2, SeqEqual
  <2> QED
    BY <2>3 DEF w
<1>6. SubSeq(v, 1, 3) = u
  <2> DEFINE w == SubSeq(v, 1, 3)
  <2>1. w \in Seq(Int) /\ Len(w) = 3 /\ \A i \in 1 .. 3 : w[i] = v[i]
    BY <1>2
  <2> HIDE DEF w
  <2>2. \A i \in 1 .. Len(w) : w[i] = u[i]
    BY <1>1, <1>2, <1>3, <2>1
  <2>3. w = u
    BY <1>1, <2>1, <2>2, SeqEqual
  <2> QED
    BY <2>3 DEF w
<1> QED
  BY <1>5, <1>6 DEF u, v

LEMMA FirstThree ==
  ASSUME NEW s, s = <<s[1], s[2], s[3], s[4]>>, Is24(s), s[4] \in {0, 1}
  PROVE  /\ SubSeq(s, 1, 3) = <<s[1], s[2], s[3]>>
         /\ Append(<<s[1], s[2], s[3]>>, s[4]) = s
<1>1. s[1] \in Int /\ s[2] \in Int /\ s[3] \in Int /\ s[4] \in Int
  BY SMT DEF Is24, IsByte
<1> DEFINE p == s[1]
           q == s[2]
           r == s[3]
           t == s[4]
<1>2. p \in Int /\ q \in Int /\ r \in Int /\ t \in Int /\ s = <<p, q, r, t>>
  BY <1>1
<1> HIDE DEF p, q, r, t
<1>3. SubSeq(s, 1, 3) = <<p, q, r>> /\ Append(<<p, q, r>>, t) = s
  BY <1>2, FourParts
<1> QED
  BY <1>3 DEF p, q, r, t

LEMMA Size24Is == ASSUME NibbleBits = 4 PROVE ByteSize * WordSize = Size24
BY Sizes, SMT DEF Size24

LEMMA SumsAgree ==
  ASSUME NibbleBits = 4, NEW a, NEW b, Is24(a), Is24(b)
  PROVE  /\ U24AddC(a, b) = RefU24AddC(a, b)
         /\ U24Add(a, b) = RefU24Add(a, b)
<1> DEFINE s == Chain(Adc, a, b)
           sum == Int24(a) + Int24(b)
<1>1. IsSum24(s, a, b)
  BY SumChain, SMT
<1>2. Int24(a) = Value24(a) /\ Int24(b) = Value24(b) /\ Int24(a) \in Int /\ Int24(b) \in Int
  BY Int24Is, SMT
<1> HIDE DEF s
<1>3. /\ Is24(s) /\ s[4] \in {0, 1} /\ s = <<s[1], s[2], s[3], s[4]>>
      /\ sum = Value24(s) + Size24 * s[4]
  BY <1>1, <1>2, SMT DEF IsSum24
<1>4. Uint24(sum) = <<s[1], s[2], s[3]>>
  BY <1>3, Uint24Of, SMT
<1>5. s[4] = IF sum >= Size24 THEN 1 ELSE 0
  <2>1. Value24(s) \in Int /\ 0 <= Value24(s) /\ Value24(s) <= 16777215
    BY <1>3, Int24Is, SMT
  <2> DEFINE v == Value24(s)
             c == s[4]
  <2> HIDE DEF v, c, sum
  <2> QED
    BY <1>3, <2>1, SMT DEF Size24, v, c
<1>6. RefU24AddC(a, b) = Append(Uint24(sum), IF sum >= Size24 THEN 1 ELSE 0)
  BY Size24Is, SMT DEF RefU24AddC
<1>7. RefU24AddC(a, b) = s
  <2>1. RefU24AddC(a, b) = Append(<<s[1], s[2], s[3]>>, s[4])
    BY <1>4, <1>5, <1>6
  <2> QED
    BY <1>3, <2>1, FirstThree
<1>8. U24AddC(a, b) = s /\ U24Add(a, b) = SubSeq(s, 1, 3)
  BY SMT DEF U24AddC, U24Add, s
<1>9. SubSeq(s, 1, 3) = <<s[1], s[2], s[3]>>
  BY <1>3, FirstThree
<1>10. RefU24Add(a, b) = Uint24(sum)
  BY SMT DEF RefU24Add
<1> QED
  BY <1>3, <1>4, <1>7, <1>8, <1>9, <1>10, SMT

LEMMA DifferencesAgree ==
  ASSUME NibbleBits = 4, NEW a, NEW b, Is24(a), Is24(b)
  PROVE  U24Sub(a, b) = RefU24Sub(a, b)
<1> DEFINE s == Chain(Sbc, a, b)
           d == Int24(a) - Int24(b)
<1>1. IsDifference24(s, a, b)
  BY DifferenceChain, SMT
<1>2. Int24(a) = Value24(a) /\ Int24(b) = Value24(b) /\ Int24(a) \in Int /\ Int24(b) \in Int
  BY Int24Is, SMT
<1> HIDE DEF s
<1>3. /\ Is24(s) /\ s[4] \in {0, 1} /\ s = <<s[1], s[2], s[3], s[4]>>
      /\ d = Value24(s) - Size24 * s[4]
  BY <1>1, <1>2, SMT DEF IsDifference24
<1>4. d % Size24 = Value24(s) + Size24 * 0
  <2>1. Value24(s) \in Int /\ 0 <= Value24(s) /\ Value24(s) <= 16777215
    BY <1>3, Int24Is, SMT
  <2> DEFINE v == Value24(s)
             c == s[4]
  <2>2. d = v - Size24 * c /\ c \in {0, 1} /\ v \in Int /\ 0 <= v /\ v <= 16777215
    BY <1>3, <2>1, SMT
  <2> HIDE DEF v, c, d
  <2>3. d % Size24 = v
    BY <2>2, SMT DEF Size24
  <2> QED
    BY <2>2, <2>3, SMT DEF Size24, v
<1>5. Uint24(d % Size24) = <<s[1], s[2], s[3]>>
  BY <1>3, <1>4, Uint24Of, SMT
<1>6. RefU24Sub(a, b) = Uint24(d % Size24)
  BY Size24Is, SMT DEF RefU24Sub
<1>7. U24Sub(a, b) = SubSeq(s, 1, 3)
  BY SMT DEF U24Sub, s
<1> QED
  BY <1>3, <1>5, <1>6, <1>7, FirstThree, SMT

LEMMA ShiftsLeftAgree ==
  ASSUME NibbleBits = 4, NEW a, Is24(a)
  PROVE  U24ShiftLeft(a) = RefU24ShiftLeft(a)
<1>1. U24ShiftLeft(a) = U24Add(a, a)
  BY SMT DEF U24ShiftLeft, U24Add
<1>2. Int24(a) + Int24(a) = 2 * Int24(a)
  BY Int24Is, SMT
<1> QED
  BY <1>1, <1>2, SumsAgree, SMT DEF RefU24Add, RefU24ShiftLeft

LEMMA ShiftsRightAgree ==
  ASSUME NibbleBits = 4, NEW a, Is24(a)
  PROVE  U24ShiftRight(a) = RefU24ShiftRight(a)
<1> DEFINE x == a[1]
           y == a[2]
           z == a[3]
           s == <<RorByte(x, y), RorByte(y, z), z \div 2>>
<1>1. IsByte(x) /\ IsByte(y) /\ IsByte(z)
  BY SMT DEF Is24
<1>2. Int24(a) = x + 256 * y + 65536 * z
  BY Int24Is, SMT DEF Value24
<1>3. U24ShiftRight(a) = s
  BY SMT DEF U24ShiftRight
<1> HIDE DEF x, y, z
<1>4. ByteSize \div 2 = 128
  BY Sizes, SMT
<1> DEFINE p == RorByte(x, y)
           q == RorByte(y, z)
           r == z \div 2
<1>5. p = (x \div 2) + 128 * (y % 2) /\ q = (y \div 2) + 128 * (z % 2)
  BY <1>4, SMT DEF RorByte
<1> HIDE DEF p, q
<1>6. IsByte(p) /\ IsByte(q) /\ IsByte(r)
  BY <1>1, <1>5, SMT DEF IsByte
<1>7. p + 256 * q + 65536 * r = (x + 256 * y + 65536 * z) \div 2
  BY <1>1, <1>5, SMT DEF IsByte
<1> HIDE DEF r
<1>8. s = <<p, q, r>>
  BY SMT DEF p, q, r
<1> HIDE DEF s
<1>9. s[1] = p /\ s[2] = q /\ s[3] = r
  BY <1>8, SMT
<1>10. Is24(s) /\ Value24(s) = Int24(a) \div 2
  BY <1>2, <1>6, <1>7, <1>9, SMT DEF Is24, Value24
<1>11. Value24(s) \in Int /\ Value24(s) + Size24 * 0 = Value24(s)
  BY <1>10, Int24Is, SMT DEF Size24
<1>12. Uint24(Value24(s)) = s
  BY <1>8, <1>9, <1>10, <1>11, Uint24Of, SMT
<1> QED
  BY <1>3, <1>10, <1>12, SMT DEF RefU24ShiftRight

-----------------------------------------------------------------------------
(* Mixing.                                                                 *)

LEMMA ProductOfBytes ==
  ASSUME NEW x, IsByte(x), NEW y, IsByte(y)
  PROVE  x * y \in Int /\ 0 <= x * y /\ x * y <= 255 * y /\ IsWord(x * y)
<1>1. x \in Int /\ y \in Int /\ 0 <= x /\ x <= 255 /\ 0 <= y /\ y <= 255
  BY SMT DEF IsByte
<1>2. x * y \in Int /\ 0 <= x * y
  BY <1>1, SMT
<1>3. 255 * y - x * y = (255 - x) * y /\ 0 <= (255 - x) * y
  BY <1>1, SMT
<1> DEFINE p == x * y
<1>4. p \in Int /\ 0 <= p /\ p <= 255 * y
  <2>1. 0 <= 255 * y - p /\ p \in Int
    BY <1>2, <1>3, SMT
  <2> HIDE DEF p
  <2>2. 0 <= p
    BY <1>2, SMT DEF p
  <2> QED
    BY <1>1, <2>1, <2>2, SMT
<1> HIDE DEF p
<1>5. IsWord(p)
  BY <1>1, <1>4, SMT DEF IsWord
<1> QED
  BY <1>4, <1>5, SMT DEF p

\* The sum of two products that fits in a word.
LEMMA MixIs ==
  ASSUME NibbleBits = 4, NEW x, IsByte(x), NEW y, IsByte(y), NEW g, IsByte(g),
         NEW h, IsByte(h), g + h <= 255
  PROVE  /\ AddWords(Mul(y, h), Mul(x, g)) = x * g + y * h
         /\ IsWord(x * g + y * h)
<1> DEFINE p == x * g
           q == y * h
<1>1. p \in Int /\ 0 <= p /\ p <= 255 * g /\ IsWord(p)
  BY ProductOfBytes, SMT
<1>2. q \in Int /\ 0 <= q /\ q <= 255 * h /\ IsWord(q)
  BY ProductOfBytes, SMT
<1>3. AddWords(Mul(y, h), Mul(x, g)) = (q + p) % 65536
  BY <1>1, <1>2, AddWordsIs, SMT DEF Mul
<1> HIDE DEF p, q
<1>4. p + q <= 65025 /\ p + q = q + p /\ IsWord(p + q)
  BY <1>1, <1>2, SMT DEF IsByte, IsWord
<1>5. (q + p) % 65536 = p + q
  BY <1>4, SMT DEF IsWord
<1> QED
  BY <1>3, <1>4, <1>5, SMT DEF p, q

LEMMA MixesAgree ==
  ASSUME NibbleBits = 4, NEW a, IsByte(a), NEW b, IsByte(b), NEW balance, IsByte(balance)
  PROVE  /\ U8MixU16(a, b, balance) = RefU8MixU16(a, b, balance)
         /\ U8Mix(a, b, balance) = RefU8Mix(a, b, balance)
         /\ balance < NibbleSize =>
              U8U4MixU12(a, b, balance) = RefU8U4MixU12(a, b, balance)
<1>1. ByteSize = 256 /\ NibbleSize = 16
  BY Sizes, SMT
<1> DEFINE g == 255 - balance
           m == a * g + b * balance
<1>2. IsByte(g) /\ g + balance <= 255
  BY SMT DEF IsByte
<1>3. ByteSize - 1 - balance = g
  BY <1>1, SMT
<1> HIDE DEF g
<1>4. AddWords(Mul(b, balance), Mul(a, g)) = m /\ IsWord(m)
  BY <1>2, MixIs, SMT
<1>5. U8MixU16(a, b, balance) = m
  BY <1>3, <1>4, SMT DEF U8MixU16, Com
<1>6. RefU8MixU16(a, b, balance) = m
  BY <1>3, SMT DEF RefU8MixU16
<1> HIDE DEF m
<1>7. U8Mix(a, b, balance) = m \div 256
  BY <1>4, <1>5, BytesOfWord, SMT DEF U8Mix
<1>8. RefU8Mix(a, b, balance) = m \div 256
  BY <1>1, <1>6, SMT DEF RefU8Mix
<1>9. ASSUME balance < NibbleSize
      PROVE  U8U4MixU12(a, b, balance) = RefU8U4MixU12(a, b, balance)
  <2> DEFINE k == 15 - balance
  <2>1. IsByte(k) /\ k + balance <= 255 /\ NibbleSize - 1 - balance = k
    BY <1>1, <1>9, SMT DEF IsByte
  <2>2. Sbc(Com(balance), ByteSize - NibbleSize, 0)[1] = (255 - balance - 240 - 0) % 256
    <3>1. Com(balance) = 255 - balance
      BY <1>1, SMT DEF Com
    <3>2. ByteSize - NibbleSize = 240
      BY <1>1, SMT
    <3> QED
      BY <1>1, <3>1, <3>2, SMT DEF Sbc
  <2>3. (255 - balance - 240 - 0) % 256 = k
    BY <2>1, SMT DEF IsByte
  <2> HIDE DEF k
  <2>4. AddWords(Mul(b, balance), Mul(a, k)) = a * k + b * balance
    BY <2>1, MixIs, SMT
  <2>5. U8U4MixU12(a, b, balance) = a * k + b * balance
    BY <2>2, <2>3, <2>4, SMT DEF U8U4MixU12
  <2> QED
    BY <2>1, <2>5, SMT DEF RefU8U4MixU12
<1> QED
  BY <1>5, <1>6, <1>7, <1>8, <1>9, SMT

\* A signed number in a word, and its high byte.
IsShort(m) == m \in Int /\ -32768 <= m /\ m <= 32767

LEMMA SignedWord ==
  ASSUME NibbleBits = 4, NEW m, IsShort(m)
  PROVE  /\ IsWord(m % 65536) /\ Signed(m % 65536, WordSize) = m
         /\ Signed(Hi(m % 65536), ByteSize) = m \div 256
<1> DEFINE w == m % 65536
<1>0. m \in Int /\ -32768 <= m /\ m <= 32767
  BY SMT DEF IsShort
<1>1. w = (IF m < 0 THEN m + 65536 ELSE m) /\ IsWord(w)
  BY <1>0, SMT DEF IsWord
<1>2. ByteSize = 256 /\ WordSize = 65536
  BY Sizes, SMT
<1> DEFINE h == w \div 256
<1>3. Hi(w) = h
  BY <1>1, BytesOfWord, SMT
<1> HIDE DEF w
<1>4. Signed(w, WordSize) = m
  BY <1>0, <1>1, <1>2, SMT DEF Signed
<1>5. h = (IF m < 0 THEN m \div 256 + 256 ELSE m \div 256) /\ h \in Int
  BY <1>0, <1>1, SMT
<1> DEFINE q == m \div 256
<1>6. q \in Int /\ -128 <= q /\ q <= 127 /\ (m < 0 <=> q < 0)
  BY <1>0, SMT
<1>7. h = (IF q < 0 THEN q + 256 ELSE q)
  BY <1>5, <1>6, SMT
<1> HIDE DEF h, q
<1>8. Signed(h, ByteSize) = q
  BY <1>2, <1>6, <1>7, SMT DEF Signed
<1> QED
  BY <1>1, <1>3, <1>4, <1>8, SMT DEF w, q

LEMMA SignedByte ==
  ASSUME NibbleBits = 4, NEW x, IsByte(x)
  PROVE  /\ Signed(x, ByteSize) \in Int
         /\ -128 <= Signed(x, ByteSize) /\ Signed(x, ByteSize) <= 127
         /\ Signed(x, ByteSize) = IF x >= 128 THEN x - 256 ELSE x
<1>1. Signed(x, ByteSize) = IF x >= 128 THEN x - 256 ELSE x
  BY Sizes, SMT DEF Signed, IsByte
<1> QED
  BY <1>1, SMT DEF IsByte

LEMMA SignedProduct ==
  ASSUME NEW s \in Int, -128 <= s, s <= 127, NEW y, IsByte(y)
  PROVE  s * y \in Int /\ -(128 * y) <= s * y /\ s * y <= 127 * y
<1>1. y \in Int /\ 0 <= y
  BY SMT DEF IsByte
<1> DEFINE p == s * y
<1>2. p \in Int
  BY <1>1, SMT
<1>3. (s + 128) * y = p + 128 * y /\ 0 <= (s + 128) * y
  BY <1>1, SMT
<1>4. (127 - s) * y = 127 * y - p /\ 0 <= (127 - s) * y
  BY <1>1, SMT
<1>5. 0 <= p + 128 * y /\ 0 <= 127 * y - p
  BY <1>3, <1>4, SMT
<1> HIDE DEF p
<1>6. -(128 * y) <= p /\ p <= 127 * y
  BY <1>1, <1>2, <1>5, SMT
<1> QED
  BY <1>2, <1>6, SMT DEF p

LEMMA GainsAgree ==
  ASSUME NibbleBits = 4, NEW a, IsByte(a), NEW b, IsByte(b),
         NEW gainA, IsByte(gainA), NEW gainB, IsByte(gainB), gainA + gainB < ByteSize
  PROVE  /\ U8MixGains(a, b, gainA, gainB) = RefU8MixGains(a, b, gainA, gainB)
         /\ Signed(S8Mix(a, b, gainA, gainB), ByteSize) = RefS8Mix(a, b, gainA, gainB)
<1>1. ByteSize = 256 /\ WordSize = 65536
  BY Sizes, SMT
<1>2. gainA + gainB <= 255
  BY <1>1, SMT DEF IsByte
<1>3. U8MixGains(a, b, gainA, gainB) = RefU8MixGains(a, b, gainA, gainB)
  <2> DEFINE m == a * gainA + b * gainB
  <2>1. AddWords(Mul(b, gainB), Mul(a, gainA)) = m /\ IsWord(m)
    BY <1>2, MixIs, SMT
  <2>2. Hi(m) = m \div 256
    BY <2>1, BytesOfWord, SMT
  <2> QED
    BY <1>1, <2>1, <2>2, SMT DEF U8MixGains, RefU8MixGains
<1>4. Signed(S8Mix(a, b, gainA, gainB), ByteSize) = RefS8Mix(a, b, gainA, gainB)
  <2> DEFINE sa == Signed(a, ByteSize)
             sb == Signed(b, ByteSize)
             p == sa * gainA
             q == sb * gainB
  <2>1. /\ sa \in Int /\ -128 <= sa /\ sa <= 127 /\ sb \in Int /\ -128 <= sb /\ sb <= 127
    BY SignedByte, SMT
  <2>2. Mulsu(a, gainA) = p % 65536 /\ Mulsu(b, gainB) = q % 65536
    BY <1>1, SMT DEF Mulsu
  <2>3. RefS8Mix(a, b, gainA, gainB) = (p + q) \div 256
    BY <1>1, SMT DEF RefS8Mix
  <2> HIDE DEF sa, sb
  <2>4. p \in Int /\ -(128 * gainA) <= p /\ p <= 127 * gainA
    BY <2>1, SignedProduct, SMT
  <2>5. q \in Int /\ -(128 * gainB) <= q /\ q <= 127 * gainB
    BY <2>1, SignedProduct, SMT
  <2> HIDE DEF p, q
  <2>6. IsWord(p % 65536) /\ IsWord(q % 65536)
    BY <2>4, <2>5, SMT DEF IsWord
  <2>7. AddWords(q % 65536, p % 65536) = (p + q) % 65536
    <3>1. AddWords(q % 65536, p % 65536) = ((q % 65536) + (p % 65536)) % 65536
      BY <2>6, AddWordsIs, SMT
    <3>2. ((q % 65536) + (p % 65536)) % 65536 = (p + q) % 65536
      BY <2>4, <2>5, SMT
    <3> QED
      BY <3>1, <3>2, SMT
  <2> DEFINE m == p + q
  <2>8. IsShort(m)
    BY <1>2, <2>4, <2>5, SMT DEF IsByte, IsShort
  <2>9. S8Mix(a, b, gainA, gainB) = Hi(m % 65536)
    BY <2>2, <2>7, SMT DEF S8Mix
  <2> HIDE DEF m
  <2>10. Signed(Hi(m % 65536), ByteSize) = m \div 256
    BY <2>8, SignedWord, SMT
  <2> QED
    BY <2>3, <2>9, <2>10, SMT DEF m
<1> QED
  BY <1>3, <1>4, SMT

\* Between two samples of a table.
LEMMA SamplesAgree ==
  ASSUME NibbleBits = 4, NEW w, IsWord(w), NEW table \in Tables
  PROVE  InterpolateSample(table, w) = RefInterpolateSample(table, w)
<1> DEFINE l == Lo(w)
           h == Hi(w)
<1>1. IsByte(l) /\ IsByte(h)
  BY BytesOfWord, SMT DEF IsWordOf
<1>2. l = w % ByteSize /\ h = w \div ByteSize
  BY SMT DEF Lo, Hi
<1>3. PICK step \in {5, ByteSize - 1} : table = [i \in 0 .. ByteSize |-> (step * i) % ByteSize]
  BY SMT DEF Tables
<1>4. step \in Int /\ ByteSize \in Int
  BY <1>3, Sizes, SMT
<1> HIDE DEF l, h
<1>5. h \in 0 .. ByteSize /\ h + 1 \in 0 .. ByteSize /\ h + 1 = 1 + h
  <2>1. h \in Int /\ 0 <= h /\ h + 1 <= ByteSize
    BY <1>1, Sizes, SMT DEF IsByte
  <2> QED
    BY <1>4, <2>1, SMT
<1>6. ASSUME NEW i \in 0 .. ByteSize
      PROVE  IsByte(table[i])
  <2>1. table[i] = (step * i) % ByteSize /\ step * i \in Int
    BY <1>3, <1>4, SMT
  <2> DEFINE p == step * i
  <2>2. p \in Int /\ table[i] = p % 256
    BY <2>1, Sizes, SMT
  <2> HIDE DEF p
  <2> QED
    BY <2>2, SMT DEF IsByte
<1>7. IsByte(table[h]) /\ IsByte(table[h + 1])
  BY <1>5, <1>6, Zenon
<1>8. U8Mix(table[h], table[h + 1], l) = RefU8Mix(table[h], table[h + 1], l)
  BY <1>1, <1>7, MixesAgree, SMT
<1>9. InterpolateSample(table, w) = U8Mix(table[h], table[h + 1], l)
  BY SMT DEF InterpolateSample, l, h
<1>10. RefInterpolateSample(table, w) = RefU8Mix(table[h], table[h + 1], l)
  BY <1>2, <1>5, SMT DEF RefInterpolateSample
<1> QED
  BY <1>8, <1>9, <1>10, SMT

-----------------------------------------------------------------------------
(* Products.                                                               *)

\* Products of signed bytes.
LEMMA SignedSquare ==
  ASSUME NEW s \in Int, -128 <= s, s <= 127, NEW t \in Int, -128 <= t, t <= 127
  PROVE  s * t \in Int /\ -16384 <= s * t /\ s * t <= 16384
<1> DEFINE p == s * t
<1>1. p \in Int
  BY SMT
<1>2. CASE t >= 0
  <2>1. IsByte(t)
    BY <1>2, SMT DEF IsByte
  <2>2. -(128 * t) <= p /\ p <= 127 * t
    BY <2>1, SignedProduct, SMT
  <2> HIDE DEF p
  <2> QED
    BY <1>1, <2>2, SMT DEF p
<1>3. CASE t < 0
  <2> DEFINE u == -t
  <2>1. IsByte(u) /\ u <= 128 /\ u \in Int
    BY <1>3, SMT DEF IsByte
  <2>2. s * u = -p
    BY SMT
  <2> HIDE DEF u
  <2>3. -(128 * u) <= s * u /\ s * u <= 127 * u
    BY <2>1, SignedProduct, SMT
  <2> HIDE DEF p
  <2> QED
    BY <1>1, <2>1, <2>2, <2>3, SMT DEF p
<1> QED
  BY <1>2, <1>3, SMT

LEMMA ByteProductsAgree ==
  ASSUME NibbleBits = 4, NEW a, IsByte(a), NEW b, IsByte(b)
  PROVE  LET sa == Signed(a, ByteSize) sb == Signed(b, ByteSize)
         IN  /\ U8U8Mul(a, b) = RefMul(a, b)
             /\ Signed(S8U8Mul(a, b), WordSize) = RefMul(sa, b)
             /\ Signed(S8S8Mul(a, b), WordSize) = RefMul(sa, sb)
             /\ U8U8MulShift8(a, b) = RefU8U8MulShift8(a, b)
             /\ Signed(S8U8MulShift8(a, b), ByteSize) = RefS8U8MulShift8(sa, b)
             /\ Signed(S8S8MulShift8(a, b), ByteSize) = RefS8S8MulShift8(sa, sb)
<1> DEFINE sa == Signed(a, ByteSize)
           sb == Signed(b, ByteSize)
           p == sa * b
           q == sa * sb
<1>1. ByteSize = 256 /\ WordSize = 65536
  BY Sizes, SMT
<1>2. /\ sa \in Int /\ -128 <= sa /\ sa <= 127 /\ sb \in Int /\ -128 <= sb /\ sb <= 127
  BY SignedByte, SMT
<1>3. U8U8Mul(a, b) = RefMul(a, b) /\ U8U8MulShift8(a, b) = RefU8U8MulShift8(a, b)
  <2>1. IsWord(a * b)
    BY ProductOfBytes, SMT
  <2>2. Hi(a * b) = (a * b) \div 256
    BY <2>1, BytesOfWord, SMT
  <2> QED
    BY <1>1, <2>2, SMT DEF U8U8Mul, Mul, RefMul, U8U8MulShift8, RefU8U8MulShift8
<1>4. Mulsu(a, b) = p % 65536 /\ Muls(a, b) = q % 65536
  BY <1>1, SMT DEF Mulsu, Muls
<1> HIDE DEF sa, sb
<1>5. IsShort(p)
  <2>1. p \in Int /\ -(128 * b) <= p /\ p <= 127 * b
    BY <1>2, SignedProduct, SMT
  <2> HIDE DEF p
  <2> QED
    BY <2>1, SMT DEF IsShort, IsByte
<1>6. IsShort(q)
  <2>1. q \in Int /\ -16384 <= q /\ q <= 16384
    BY <1>2, SignedSquare, SMT
  <2> HIDE DEF q
  <2> QED
    BY <2>1, SMT DEF IsShort
<1>7. /\ Signed(S8U8Mul(a, b), WordSize) = RefMul(sa, b)
      /\ Signed(S8U8MulShift8(a, b), ByteSize) = RefS8U8MulShift8(sa, b)
  <2>1. Signed(p % 65536, WordSize) = p /\ Signed(Hi(p % 65536), ByteSize) = p \div 256
    <3> HIDE DEF p
    <3> QED
      BY <1>5, SignedWord, SMT
  <2> QED
    BY <1>1, <1>4, <2>1, SMT DEF S8U8Mul, RefMul, S8U8MulShift8, RefS8U8MulShift8
<1>8. /\ Signed(S8S8Mul(a, b), WordSize) = RefMul(sa, sb)
      /\ Signed(S8S8MulShift8(a, b), ByteSize) = RefS8S8MulShift8(sa, sb)
  <2>1. Signed(q % 65536, WordSize) = q /\ Signed(Hi(q % 65536), ByteSize) = q \div 256
    <3> HIDE DEF q
    <3> QED
      BY <1>6, SignedWord, SMT
  <2> QED
    BY <1>1, <1>4, <2>1, SMT DEF S8S8Mul, RefMul, S8S8MulShift8, RefS8S8MulShift8
<1> QED
  BY <1>3, <1>7, <1>8, SMT DEF sa, sb

\* A word as a signed number, by its bytes.
LEMMA SignedParts ==
  ASSUME NibbleBits = 4, NEW w, IsWord(w)
  PROVE  /\ Signed(w, WordSize) = Lo(w) + 256 * Signed(Hi(w), ByteSize)
         /\ IsShort(Signed(w, WordSize))
<1> DEFINE l == Lo(w)
           h == Hi(w)
<1>1. IsByte(l) /\ IsByte(h) /\ w = l + 256 * h
  BY BytesOfWord, SMT DEF IsWordOf
<1>2. Signed(h, ByteSize) = IF h >= 128 THEN h - 256 ELSE h
  BY <1>1, SignedByte, SMT
<1>3. Signed(w, WordSize) = IF w >= 32768 THEN w - 65536 ELSE w
  BY Sizes, SMT DEF Signed, IsWord
<1> HIDE DEF l, h
<1>4. Signed(w, WordSize) = l + 256 * Signed(h, ByteSize)
  BY <1>1, <1>2, <1>3, SMT DEF IsByte
<1>5. IsShort(Signed(w, WordSize))
  BY <1>3, SMT DEF IsShort, IsWord
<1> QED
  BY <1>4, <1>5, SMT DEF l, h

\* The high byte of a product, where the low byte of a word is.
LEMMA HighAsLow ==
  ASSUME NibbleBits = 4, NEW x, IsByte(x), NEW y, IsByte(y)
  PROVE  /\ Word(Hi(x * y), 0) = (x * y) \div 256 /\ IsByte((x * y) \div 256)
         /\ Hi(x * y) = (x * y) \div 256 /\ IsByte(Lo(x * y))
<1> DEFINE p == x * y
<1>1. IsWord(p)
  BY ProductOfBytes, SMT
<1> HIDE DEF p
<1>2. Hi(p) = p \div 256 /\ IsByte(Lo(p)) /\ IsByte(Hi(p))
  BY <1>1, BytesOfWord, SMT DEF IsWordOf
<1>3. IsByte(0)
  BY SMT DEF IsByte
<1>4. Word(Hi(p), 0) = Hi(p) + 256 * 0 /\ Hi(p) + 256 * 0 = Hi(p)
  BY <1>2, <1>3, WordOfBytes, SMT DEF IsWordOf, IsByte
<1> QED
  BY <1>2, <1>4, SMT DEF p

LEMMA WordByByte ==
  ASSUME NibbleBits = 4, NEW w, IsWord(w), NEW b, IsByte(b)
  PROVE  /\ U16U8MulShift8(w, b) = RefU16U8MulShift8(w, b)
         /\ Signed(S16U8MulShift8(w, b), WordSize)
              = RefS16U8MulShift8(Signed(w, WordSize), b)
<1> DEFINE l == Lo(w)
           h == Hi(w)
           sh == Signed(h, ByteSize)
           p == l * b
           q == h * b
           s == sh * b
<1>1. ByteSize = 256 /\ WordSize = 65536
  BY Sizes, SMT
<1>2. IsByte(l) /\ IsByte(h) /\ w = l + 256 * h
  BY BytesOfWord, SMT DEF IsWordOf
<1>3. Signed(w, WordSize) = l + 256 * sh
  BY SignedParts, SMT
<1>4. sh \in Int /\ -128 <= sh /\ sh <= 127
  BY <1>2, SignedByte, SMT
<1>5. U16U8MulShift8(w, b) = AddWords(Word(Hi(p), 0), q)
  BY SMT DEF U16U8MulShift8, Mul
<1>6. S16U8MulShift8(w, b) = AddWords(Word(Hi(p), 0), s % 65536)
  BY <1>1, SMT DEF S16U8MulShift8, Mul, Mulsu
<1>7. RefU16U8MulShift8(w, b) = (w * b) \div 256
  BY <1>1, SMT DEF RefU16U8MulShift8
<1>8. RefS16U8MulShift8(Signed(w, WordSize), b) = ((l + 256 * sh) * b) \div 256
  BY <1>1, <1>3, SMT DEF RefS16U8MulShift8
<1> HIDE DEF l, h, sh
<1>9. w * b = p + 256 * q /\ (l + 256 * sh) * b = p + 256 * s
  BY <1>2, <1>4, SMT DEF IsByte
<1>10. /\ Word(Hi(p), 0) = p \div 256 /\ IsByte(p \div 256)
  BY <1>2, HighAsLow, SMT
<1>11. p \in Int /\ 0 <= p /\ p <= 255 * b
  BY <1>2, ProductOfBytes, SMT
<1>12. q \in Int /\ 0 <= q /\ q <= 255 * b /\ IsWord(q)
  BY <1>2, ProductOfBytes, SMT
<1>13. s \in Int /\ -(128 * b) <= s /\ s <= 127 * b
  BY <1>4, SignedProduct, SMT
<1> HIDE DEF p, q, s
<1> DEFINE c == p \div 256
<1>14. c \in Int /\ 0 <= c /\ c <= 255 /\ IsWord(c)
  BY <1>10, SMT DEF IsByte, IsWord
<1>15. (p + 256 * q) \div 256 = c + q /\ (p + 256 * s) \div 256 = c + s
  BY <1>11, <1>12, <1>13, SMT
<1>16. AddWords(c, q) = (c + q) % 65536
  BY <1>12, <1>14, AddWordsIs, SMT
<1>17. (c + q) % 65536 = c + q
  <2> DEFINE m == c + q
  <2>1. m \in Int /\ 0 <= m /\ m <= 65535
    BY <1>12, <1>14, SMT DEF IsByte
  <2> HIDE DEF m
  <2>2. m % 65536 = m
    BY <2>1, SMT
  <2> QED
    BY <2>2, SMT DEF m
<1>18. IsWord(s % 65536) /\ IsShort(c + s)
  BY <1>13, <1>14, SMT DEF IsWord, IsShort, IsByte
<1>19. AddWords(c, s % 65536) = (c + (s % 65536)) % 65536
  BY <1>14, <1>18, AddWordsIs, SMT
<1>20. (c + (s % 65536)) % 65536 = (c + s) % 65536
  BY <1>13, <1>14, SMT
<1>21. Signed((c + s) % 65536, WordSize) = c + s
  <2> DEFINE m == c + s
  <2>1. IsShort(m)
    BY <1>18, SMT
  <2> HIDE DEF m
  <2>2. Signed(m % 65536, WordSize) = m
    BY <2>1, SignedWord, SMT
  <2> QED
    BY <2>2, SMT DEF m
<1>22. U16U8MulShift8(w, b) = RefU16U8MulShift8(w, b)
  BY <1>5, <1>7, <1>9, <1>10, <1>15, <1>16, <1>17, SMT
<1>23. Signed(S16U8MulShift8(w, b), WordSize) = RefS16U8MulShift8(Signed(w, WordSize), b)
  BY <1>6, <1>8, <1>9, <1>10, <1>15, <1>19, <1>20, <1>21, SMT
<1> QED
  BY <1>22, <1>23, SMT

\* The sign of a product, taken from the byte above.
TopBit(w) == IF w >= 32768 THEN 1 ELSE 0
IsBorrow(r, x, w) == IsByte(r) /\ \E e \in {0, 1} : r = x - TopBit(w) + 256 * e

LEMMA SignBorrowed ==
  ASSUME NibbleBits = 4, NEW x, IsByte(x), NEW w, IsWord(w)
  PROVE  IsBorrow(BorrowSign(x, w), x, w)
<1> DEFINE c == MulCarry(w)
           s == Sbc(x, 0, c)
<1>1. c = TopBit(w) /\ c \in {0, 1}
  BY Sizes, SMT DEF MulCarry, TopBit, IsWord
<1>2. IsByte(0)
  BY SMT DEF IsByte
<1> HIDE DEF c
<1>3. c \in {0, 1}
  BY <1>1, SMT
<1>4. IsDifference(s, x, 0, c)
  BY <1>2, <1>3, SbcIs, SMT
<1>5. BorrowSign(x, w) = s[1]
  BY SMT DEF BorrowSign, c
<1> HIDE DEF s
<1>6. IsByte(s[1]) /\ s[2] \in {0, 1} /\ s[1] = x - c + 256 * s[2]
  BY <1>3, <1>4, SMT DEF IsDifference, IsByte
<1> QED
  BY <1>1, <1>5, <1>6, SMT DEF IsBorrow

\* A product that may be negative, as the word it is left in.
IsProduct(w, m) == /\ IsWord(w) /\ w = m + 65536 * TopBit(w)
                   /\ IsShort(m)

LEMMA ProductLeft ==
  ASSUME NEW m, IsShort(m)
  PROVE  IsProduct(m % 65536, m)
<1>1. m \in Int /\ -32768 <= m /\ m <= 32767
  BY SMT DEF IsShort
<1>2. m % 65536 = IF m < 0 THEN m + 65536 ELSE m
  BY <1>1, SMT
<1> DEFINE w == m % 65536
<1> HIDE DEF w
<1>3. IsWord(w) /\ w = m + 65536 * TopBit(w)
  BY <1>1, <1>2, SMT DEF IsWord, TopBit, w
<1> QED
  BY <1>3, SMT DEF IsProduct, w

LEMMA MulsuIs ==
  ASSUME NibbleBits = 4, NEW x, IsByte(x), NEW y, IsByte(y)
  PROVE  IsProduct(Mulsu(x, y), Signed(x, ByteSize) * y)
<1> DEFINE s == Signed(x, ByteSize)
           p == s * y
<1>1. s \in Int /\ -128 <= s /\ s <= 127
  BY SignedByte, SMT
<1>2. Mulsu(x, y) = p % 65536
  BY Sizes, SMT DEF Mulsu
<1> HIDE DEF s
<1>3. p \in Int /\ -(128 * y) <= p /\ p <= 127 * y
  BY <1>1, SignedProduct, SMT
<1> HIDE DEF p
<1>4. IsShort(p)
  BY <1>3, SMT DEF IsShort, IsByte
<1>5. IsProduct(p % 65536, p)
  BY <1>4, ProductLeft, SMT
<1> QED
  BY <1>2, <1>5, SMT DEF p, s

LEMMA MulsIs ==
  ASSUME NibbleBits = 4, NEW x, IsByte(x), NEW y, IsByte(y)
  PROVE  IsProduct(Muls(x, y), Signed(x, ByteSize) * Signed(y, ByteSize))
<1> DEFINE s == Signed(x, ByteSize)
           t == Signed(y, ByteSize)
           p == s * t
<1>1. /\ s \in Int /\ -128 <= s /\ s <= 127 /\ t \in Int /\ -128 <= t /\ t <= 127
  BY SignedByte, SMT
<1>2. Muls(x, y) = p % 65536
  BY Sizes, SMT DEF Muls
<1> HIDE DEF s, t
<1>3. p \in Int /\ -16384 <= p /\ p <= 16384
  BY <1>1, SignedSquare, SMT
<1> HIDE DEF p
<1>4. IsShort(p)
  BY <1>3, SMT DEF IsShort
<1>5. IsProduct(p % 65536, p)
  BY <1>4, ProductLeft, SMT
<1> QED
  BY <1>2, <1>5, SMT DEF p, s, t

LEMMA WordBySignedByte ==
  ASSUME NibbleBits = 4, NEW w, IsWord(w), NEW b, IsByte(b)
  PROVE  Signed(S16S8MulShift8(w, b), WordSize)
           = RefS16U8MulShift8(Signed(w, WordSize), Signed(b, ByteSize))
<1> DEFINE l == Lo(w)
           h == Hi(w)
           sh == Signed(h, ByteSize)
           sb == Signed(b, ByteSize)
           high == Muls(b, h)
           low == Mulsu(b, l)
           hl == Lo(high)
           hh == Hi(high)
           u == BorrowSign(hh, low)
           x == Word(hl, u)
           y == Word(Hi(low), 0)
           p == sb * l
           q == sb * sh
<1>1. ByteSize = 256
  BY Sizes, SMT
<1>2. IsByte(l) /\ IsByte(h)
  BY BytesOfWord, SMT DEF IsWordOf
<1>3. Signed(w, WordSize) = l + 256 * sh
  BY SignedParts, SMT
<1>4. /\ sh \in Int /\ -128 <= sh /\ sh <= 127 /\ sb \in Int /\ -128 <= sb /\ sb <= 127
  BY <1>2, SignedByte, SMT
<1>5. IsProduct(high, q) /\ IsProduct(low, p)
  BY <1>2, MulsIs, MulsuIs, SMT
<1>6. S16S8MulShift8(w, b) = AddWords(x, y)
  BY SMT DEF S16S8MulShift8
<1>7. RefS16U8MulShift8(Signed(w, WordSize), sb) = ((l + 256 * sh) * sb) \div 256
  BY <1>1, <1>3, SMT DEF RefS16U8MulShift8
<1>8. IsWord(high) /\ IsWord(low)
  BY <1>5, SMT DEF IsProduct
<1> HIDE DEF high, low
<1>9. IsWordOf(high, hl, hh) /\ IsWordOf(low, Lo(low), Hi(low))
  BY <1>8, BytesOfWord, SMT
<1> HIDE DEF hl, hh
<1> DEFINE g == Hi(low)
<1>10. IsByte(hl) /\ IsByte(hh) /\ IsByte(g) /\ IsByte(0)
  BY <1>9, SMT DEF IsWordOf, IsByte
<1> HIDE DEF g
<1>11. IsBorrow(u, hh, low)
  BY <1>8, <1>10, SignBorrowed, SMT
<1>12. IsByte(u)
  BY <1>11, SMT DEF IsBorrow
<1> HIDE DEF u
<1>13. IsWordOf(x, hl, u) /\ IsWordOf(y, g, 0)
  BY <1>10, <1>12, WordOfBytes, SMT DEF g
<1> HIDE DEF x, y
<1>14. IsWord(x) /\ IsWord(y)
  BY <1>13, SMT DEF IsWordOf
<1>15. AddWords(x, y) = (x + y) % 65536
  BY <1>14, AddWordsIs, SMT
<1> HIDE DEF l, h, sh, sb
<1>16. (l + 256 * sh) * sb = p + 256 * q
  BY <1>2, <1>4, SMT DEF IsByte
<1>17. q \in Int /\ -16384 <= q /\ q <= 16384
  BY <1>4, SignedSquare, SMT
<1>18. p \in Int /\ -(128 * l) <= p /\ p <= 127 * l
  BY <1>2, <1>4, SignedProduct, SMT
<1> HIDE DEF p, q
<1> DEFINE c == TopBit(low)
           d == p \div 256
<1>19. g = d + 256 * c /\ c \in {0, 1} /\ d \in Int /\ -128 <= d /\ d <= 127
  <2>1. low = p + 65536 * c /\ c \in {0, 1}
    BY <1>5, SMT DEF IsProduct, TopBit
  <2>2. low = Lo(low) + 256 * g /\ IsByte(Lo(low)) /\ IsByte(g)
    BY <1>9, SMT DEF IsWordOf, g
  <2> HIDE DEF c
  <2>3. -32640 <= p /\ p <= 32385
    BY <1>2, <1>18, SMT DEF IsByte
  <2>4. g = (p + 65536 * c) \div 256
    <3> DEFINE k == Lo(low)
    <3> HIDE DEF k
    <3>1. low \div 256 = g
      <4>1. low = k + 256 * g /\ IsByte(k)
        BY <2>2, SMT DEF k
      <4> QED
        BY <2>2, <4>1, SMT DEF IsByte
    <3> QED
      BY <2>1, <3>1, SMT
  <2>5. (p + 65536 * c) \div 256 = d + 256 * c
    BY <1>18, <2>1, SMT
  <2>6. d \in Int /\ -128 <= d /\ d <= 127
    BY <1>18, <2>3, SMT
  <2> QED
    BY <2>1, <2>4, <2>5, <2>6, SMT
<1> HIDE DEF d
<1>20. \E f \in Int : x + y = q + d + 65536 * f
  <2>1. PICK e \in {0, 1} : u = hh - c + 256 * e
    BY <1>11, SMT DEF IsBorrow
  <2>2. c \in {0, 1} /\ g = d + 256 * c /\ d \in Int
    BY <1>19, SMT
  <2> HIDE DEF c
  <2> DEFINE z == TopBit(high)
  <2>3. high = q + 65536 * z /\ z \in {0, 1}
    BY <1>5, SMT DEF IsProduct, TopBit
  <2> HIDE DEF z
  <2>4. high = hl + 256 * hh /\ x = hl + 256 * u /\ y = g + 256 * 0
    BY <1>9, <1>13, SMT DEF IsWordOf
  <2>5. x + y = q + d + 65536 * (z + e) /\ z + e \in Int
    BY <1>10, <1>17, <2>1, <2>2, <2>3, <2>4, SMT DEF IsByte
  <2> QED
    BY <2>5, SMT
<1>21. PICK f \in Int : x + y = q + d + 65536 * f
  BY <1>20, SMT
<1> DEFINE m == q + d
<1>22. IsShort(m) /\ m \in Int
  BY <1>17, <1>19, SMT DEF IsShort
<1>23. (x + y) % 65536 = m % 65536
  <2> DEFINE n == x + y
  <2>1. n = m + 65536 * f
    BY <1>21, SMT
  <2> HIDE DEF n, m
  <2>2. n % 65536 = m % 65536
    BY <1>22, <2>1, SMT
  <2> QED
    BY <2>2, SMT DEF n
<1>24. (p + 256 * q) \div 256 = m
  BY <1>17, <1>18, SMT DEF d
<1> HIDE DEF m
<1>25. Signed(m % 65536, WordSize) = m
  BY <1>22, SignedWord, SMT
<1> QED
  BY <1>6, <1>7, <1>15, <1>16, <1>23, <1>24, <1>25, SMT DEF sb

\* Three bytes, to which a word is added or from which a sign is borrowed.
IsAccumulated(r, t, p) ==
  Is24(r) /\ \E e \in Int : Value24(r) = Value24(t) + p + Size24 * e

LEMMA AccumulateIs ==
  ASSUME NibbleBits = 4, NEW t, Is24(t), NEW p, IsWord(p)
  PROVE  IsAccumulated(Accumulate(t, p), t, p)
<1> DEFINE l == Lo(p)
           h == Hi(p)
           u == <<l, h, 0>>
           r == Chain(Adc, t, u)
<1>1. IsByte(l) /\ IsByte(h) /\ p = l + 256 * h /\ IsByte(0)
  BY BytesOfWord, SMT DEF IsWordOf, IsByte
<1>2. Accumulate(t, p) = r
  BY SMT DEF Accumulate
<1> HIDE DEF l, h
<1>3. u[1] = l /\ u[2] = h /\ u[3] = 0
  BY SMT
<1> HIDE DEF u
<1>4. Is24(u)
  BY <1>1, <1>3, SMT DEF Is24
<1>5. Value24(u) = p
  BY <1>1, <1>3, SMT DEF Value24, IsByte
<1>6. IsSum24(r, t, u)
  BY <1>4, SumChain
<1> HIDE DEF r
<1>7. /\ Is24(r) /\ r[4] \in {0, 1}
      /\ Value24(t) + Value24(u) = Value24(r) + Size24 * r[4]
  BY <1>6, SMT DEF IsSum24
<1>8. Value24(t) \in Int /\ Value24(r) \in Int /\ p \in Int
  BY <1>7, Int24Is, SMT DEF IsWord
<1> DEFINE v == Value24(t)
           n == Value24(r)
           e == r[4]
<1>9. v + p = n + Size24 * e /\ v \in Int /\ n \in Int /\ e \in Int
  BY <1>5, <1>7, <1>8, SMT
<1> HIDE DEF v, n, e
<1>10. n = v + p + Size24 * (-e) /\ -e \in Int
  BY <1>8, <1>9, SMT DEF Size24
<1>11. \E k \in Int : n = v + p + Size24 * k
  BY <1>10
<1> QED
  BY <1>2, <1>7, <1>11 DEF IsAccumulated, v, n

\* The three bytes a product of words starts from.
LEMMA StartIs ==
  ASSUME NibbleBits = 4, NEW c, IsByte(c), NEW p, IsWord(p)
  PROVE  /\ Is24(<<c, Lo(p), Hi(p)>>)
         /\ Value24(<<c, Lo(p), Hi(p)>>) = c + 256 * p
<1> DEFINE l == Lo(p)
           h == Hi(p)
           u == <<c, l, h>>
<1>1. IsByte(l) /\ IsByte(h) /\ p = l + 256 * h
  BY BytesOfWord, SMT DEF IsWordOf
<1> HIDE DEF l, h
<1>2. u[1] = c /\ u[2] = l /\ u[3] = h
  BY SMT
<1> HIDE DEF u
<1>3. Is24(u) /\ Value24(u) = c + 256 * p
  BY <1>1, <1>2, SMT DEF Is24, Value24, IsByte
<1> QED
  BY <1>3, SMT DEF u, l, h

\* The two upper bytes.
LEMMA UpperWord ==
  ASSUME NibbleBits = 4, NEW r, Is24(r)
  PROVE  /\ Word(r[2], r[3]) = Value24(r) \div 256 /\ IsWord(Word(r[2], r[3]))
<1> DEFINE x == r[1]
           y == r[2]
           z == r[3]
<1>1. IsByte(x) /\ IsByte(y) /\ IsByte(z)
  BY SMT DEF Is24
<1>2. Value24(r) = x + 256 * y + 65536 * z
  BY SMT DEF Value24
<1> HIDE DEF x, y, z
<1>3. IsWordOf(Word(y, z), y, z)
  BY <1>1, WordOfBytes, SMT
<1>4. Word(y, z) = y + 256 * z /\ IsWord(Word(y, z))
  BY <1>3, SMT DEF IsWordOf
<1>5. (x + 256 * y + 65536 * z) \div 256 = y + 256 * z
  BY <1>1, SMT DEF IsByte
<1> QED
  BY <1>2, <1>4, <1>5, SMT DEF y, z

LEMMA WordByWord ==
  ASSUME NibbleBits = 4, NEW w, IsWord(w), NEW b, IsWord(b)
  PROVE  U16U16MulShift16(w, b) = (w * b) \div WordSize
<1> DEFINE l == Lo(w)
           h == Hi(w)
           k == Lo(b)
           j == Hi(b)
           low == l * k
           high == h * j
           x == j * l
           y == h * k
           c == Hi(low)
           t0 == <<c, Lo(high), Hi(high)>>
           t1 == Accumulate(t0, x)
           t2 == Accumulate(t1, y)
<1>1. /\ IsByte(l) /\ IsByte(h) /\ w = l + 256 * h
      /\ IsByte(k) /\ IsByte(j) /\ b = k + 256 * j
  BY BytesOfWord, SMT DEF IsWordOf
<1>2. U16U16MulShift16(w, b) = Word(t2[2], t2[3])
  BY SMT DEF U16U16MulShift16, Mul
<1> HIDE DEF l, h, k, j
<1>3. w * b = low + 256 * (x + y) + 65536 * high
  BY <1>1, SMT DEF IsByte
<1>4. /\ IsWord(low) /\ IsWord(high) /\ IsWord(x) /\ IsWord(y)
      /\ high <= 255 * j /\ x <= 255 * l /\ y <= 255 * k /\ low <= 255 * k
  BY <1>1, ProductOfBytes, SMT
<1> HIDE DEF low, high, x, y
<1>5. c = low \div 256 /\ IsByte(c)
  BY <1>4, BytesOfWord, SMT DEF IsWordOf
<1> HIDE DEF c
<1>6. Is24(t0) /\ Value24(t0) = c + 256 * high
  BY <1>4, <1>5, StartIs, SMT
<1> HIDE DEF t0
<1>7. IsAccumulated(t1, t0, x)
  BY <1>4, <1>6, AccumulateIs, SMT
<1> HIDE DEF t1
<1>8. PICK e \in Int : Is24(t1) /\ Value24(t1) = Value24(t0) + x + Size24 * e
  BY <1>7 DEF IsAccumulated
<1>9. IsAccumulated(t2, t1, y)
  BY <1>4, <1>8, AccumulateIs, SMT
<1> HIDE DEF t2
<1>10. PICK f \in Int : Is24(t2) /\ Value24(t2) = Value24(t1) + y + Size24 * f
  BY <1>9 DEF IsAccumulated
<1> DEFINE m == c + 256 * high + x + y
           v == Value24(t2)
<1>11. /\ v \in Int /\ 0 <= v /\ v <= 16777215 /\ Value24(t1) \in Int
  BY <1>8, <1>10, Int24Is, SMT
<1>12. v = m + Size24 * (e + f) /\ e + f \in Int
  <2> DEFINE n == Value24(t1)
  <2>1. n = c + 256 * high + x + Size24 * e /\ v = n + y + Size24 * f
    BY <1>6, <1>8, <1>10, SMT
  <2> HIDE DEF n, v
  <2> QED
    BY <1>4, <1>5, <2>1, SMT DEF IsWord, IsByte, Size24
<1>13. m \in Int /\ 0 <= m /\ m <= 16777215
  BY <1>1, <1>4, <1>5, SMT DEF IsWord, IsByte
<1>14. Word(t2[2], t2[3]) = v \div 256
  BY <1>10, UpperWord, SMT
<1>15. low + 256 * (x + y) + 65536 * high = (low % 256) + 256 * m
  BY <1>4, <1>5, SMT DEF IsWord
<1> DEFINE r == low % 256
<1>16. r \in Int /\ 0 <= r /\ r <= 255
  BY <1>4, SMT DEF IsWord
<1> HIDE DEF v, m, r
<1>17. v = m
  <2> DEFINE g == e + f
  <2>1. v = m + Size24 * g /\ g \in Int
    BY <1>12, SMT
  <2> HIDE DEF g
  <2> QED
    BY <1>11, <1>13, <2>1, SMT DEF Size24
<1>18. (r + 256 * m) \div 65536 = m \div 256
  BY <1>13, <1>16, SMT
<1>19. w * b = r + 256 * m
  BY <1>3, <1>15, SMT DEF r
<1> QED
  BY <1>2, <1>14, <1>17, <1>18, <1>19, Sizes, SMT

\* The highest of three bytes gives its sign.
LEMMA ThirdBorrows ==
  ASSUME NibbleBits = 4, NEW t, Is24(t), NEW p, IsWord(p)
  PROVE  LET u == <<t[1], t[2], BorrowSign(t[3], p)>>
         IN  IsAccumulated(u, t, -(65536 * TopBit(p)))
<1> DEFINE x == t[1]
           y == t[2]
           z == t[3]
           g == BorrowSign(z, p)
           u == <<x, y, g>>
           d == TopBit(p)
<1>1. IsByte(x) /\ IsByte(y) /\ IsByte(z) /\ d \in {0, 1}
  BY SMT DEF Is24, TopBit
<1>2. IsBorrow(g, z, p)
  BY <1>1, SignBorrowed, SMT
<1>3. Value24(t) = x + 256 * y + 65536 * z
  BY SMT DEF Value24
<1> HIDE DEF x, y, z, g, d
<1>4. u[1] = x /\ u[2] = y /\ u[3] = g
  BY SMT
<1> HIDE DEF u
<1>5. PICK e \in {0, 1} : IsByte(g) /\ g = z - d + 256 * e
  BY <1>2, SMT DEF IsBorrow, d
<1>6. Is24(u) /\ Value24(u) = x + 256 * y + 65536 * g
  BY <1>1, <1>4, <1>5, SMT DEF Is24, Value24
<1>7. Value24(u) = Value24(t) + (-(65536 * d)) + Size24 * e /\ e \in Int
  BY <1>1, <1>3, <1>5, <1>6, SMT DEF IsByte, Size24
<1>8. \E k \in Int : Value24(u) = Value24(t) + (-(65536 * d)) + Size24 * k
  BY <1>7
<1>9. IsAccumulated(u, t, -(65536 * d))
  BY <1>6, <1>8 DEF IsAccumulated
<1> QED
  BY <1>9 DEF u, g, x, y, z, d

\* What is left of a number of 24 bits that may be negative.
LEMMA UpperSigned ==
  ASSUME NibbleBits = 4, NEW r, Is24(r), NEW m \in Int, NEW k \in Int,
         -8388608 <= m, m <= 8388607, Value24(r) = m + Size24 * k
  PROVE  Signed(Word(r[2], r[3]), WordSize) = m \div 256
<1> DEFINE v == Value24(r)
           d == m \div 256
           w == Word(r[2], r[3])
<1>1. w = v \div 256 /\ IsWord(w)
  BY UpperWord, SMT
<1>2. v = m + 16777216 * k
  BY SMT DEF Size24
<1> HIDE DEF v, w
<1>3. (m + 16777216 * k) \div 256 = d + 65536 * k
  BY SMT
<1>4. IsShort(d) /\ d \in Int
  BY SMT DEF IsShort
<1> HIDE DEF d
<1>5. w = d + 65536 * k
  BY <1>1, <1>2, <1>3, SMT
<1>6. w = w % 65536 /\ w \in Int
  BY <1>1, SMT DEF IsWord
<1>7. (d + 65536 * k) % 65536 = d % 65536
  BY <1>4, SMT
<1>8. w = d % 65536
  BY <1>5, <1>6, <1>7, SMT
<1>9. Signed(d % 65536, WordSize) = d
  BY <1>4, SignedWord, SMT
<1> QED
  BY <1>8, <1>9, SMT DEF w, d

\* A byte with a sign times a byte.
LEMMA SignedTimesByte ==
  ASSUME NibbleBits = 4, NEW x, IsByte(x), NEW y, IsByte(y)
  PROVE  LET p == Signed(x, ByteSize) * y
         IN  IsProduct(Mulsu(x, y), p) /\ p \in Int /\ -(128 * y) <= p /\ p <= 127 * y
<1> DEFINE s == Signed(x, ByteSize)
<1>1. s \in Int /\ -128 <= s /\ s <= 127
  BY SignedByte, SMT
<1>2. IsProduct(Mulsu(x, y), s * y)
  BY MulsuIs, SMT
<1> HIDE DEF s
<1>3. s * y \in Int /\ -(128 * y) <= s * y /\ s * y <= 127 * y
  BY <1>1, SignedProduct, SMT
<1> QED
  BY <1>2, <1>3 DEF s

LEMMA SignedWordByWord ==
  ASSUME NibbleBits = 4, NEW w, IsWord(w), NEW b, IsWord(b)
  PROVE  Signed(S16U16MulShift16(w, b), WordSize) = (Signed(w, WordSize) * b) \div 65536
<1> DEFINE l == Lo(w)
           h == Hi(w)
           k == Lo(b)
           j == Hi(b)
           sh == Signed(h, ByteSize)
           low == l * k
           high == Mulsu(h, j)
           x == j * l
           cross == Mulsu(h, k)
           q == sh * j
           y == sh * k
           c == Hi(low)
           t0 == <<c, Lo(high), Hi(high)>>
           t1 == Accumulate(t0, x)
           u == <<t1[1], t1[2], BorrowSign(t1[3], cross)>>
           t2 == Accumulate(u, cross)
<1>1. /\ IsByte(l) /\ IsByte(h) /\ IsByte(k) /\ IsByte(j) /\ b = k + 256 * j
  BY BytesOfWord, SMT DEF IsWordOf
<1>2. Signed(w, WordSize) = l + 256 * sh
  BY SignedParts, SMT
<1>3. S16U16MulShift16(w, b) = Word(t2[2], t2[3])
  BY SMT DEF S16U16MulShift16, Mul
<1> HIDE DEF l, h, k, j
<1>4. /\ IsProduct(high, q) /\ q \in Int /\ -(128 * j) <= q /\ q <= 127 * j
  BY <1>1, SignedTimesByte, SMT
<1>5. /\ IsProduct(cross, y) /\ y \in Int /\ -(128 * k) <= y /\ y <= 127 * k
  BY <1>1, SignedTimesByte, SMT
<1>6. sh \in Int
  BY <1>1, SignedByte, SMT
<1> HIDE DEF sh
<1>7. (l + 256 * sh) * b = low + 256 * (x + y) + 65536 * q
  BY <1>1, <1>6, SMT DEF IsByte
<1>8. /\ IsWord(low) /\ IsWord(x) /\ x <= 255 * l
  BY <1>1, ProductOfBytes, SMT
<1> HIDE DEF low, high, x, cross, q, y
<1>9. c = low \div 256 /\ IsByte(c)
  BY <1>8, BytesOfWord, SMT DEF IsWordOf
<1> HIDE DEF c
<1>10. /\ IsWord(high) /\ IsWord(cross)
  BY <1>4, <1>5, SMT DEF IsProduct
<1>11. Is24(t0) /\ Value24(t0) = c + 256 * high
  BY <1>9, <1>10, StartIs, SMT
<1> HIDE DEF t0
<1>12. IsAccumulated(t1, t0, x)
  BY <1>8, <1>11, AccumulateIs, SMT
<1> HIDE DEF t1
<1>13. PICK e \in Int : Is24(t1) /\ Value24(t1) = Value24(t0) + x + Size24 * e
  BY <1>12 DEF IsAccumulated
<1> DEFINE d == TopBit(cross)
           z == TopBit(high)
<1>14. IsAccumulated(u, t1, -(65536 * d))
  BY <1>10, <1>13, ThirdBorrows, SMT
<1> HIDE DEF u
<1>15. PICK f \in Int : Is24(u) /\ Value24(u) = Value24(t1) + (-(65536 * d)) + Size24 * f
  BY <1>14 DEF IsAccumulated
<1>16. IsAccumulated(t2, u, cross)
  BY <1>10, <1>15, AccumulateIs, SMT
<1> HIDE DEF t2
<1>17. PICK g \in Int : Is24(t2) /\ Value24(t2) = Value24(u) + cross + Size24 * g
  BY <1>16 DEF IsAccumulated
<1>18. /\ high = q + 65536 * z /\ cross = y + 65536 * d /\ z \in Int /\ d \in Int
  BY <1>4, <1>5, SMT DEF IsProduct, TopBit
<1>19. Value24(t1) \in Int /\ Value24(u) \in Int /\ Value24(t2) \in Int
  BY <1>13, <1>15, <1>17, Int24Is, SMT
<1> DEFINE m == c + 256 * q + x + y
           n == z + e + f + g
           v == Value24(t2)
<1>20. v = m + Size24 * n /\ n \in Int
  <2> DEFINE n1 == Value24(t1)
             n2 == Value24(u)
  <2>1. /\ n1 = c + 256 * high + x + Size24 * e /\ n2 = n1 + (-(65536 * d)) + Size24 * f
        /\ v = n2 + cross + Size24 * g /\ n1 \in Int /\ n2 \in Int /\ v \in Int
    BY <1>11, <1>13, <1>15, <1>17, <1>19, SMT
  <2> HIDE DEF n1, n2, v, z, d
  <2> QED
    BY <1>4, <1>5, <1>8, <1>9, <1>18, <2>1, SMT DEF IsWord, IsByte, Size24
<1>21. m \in Int /\ -8388608 <= m /\ m <= 8388607
  BY <1>1, <1>4, <1>5, <1>8, <1>9, SMT DEF IsWord, IsByte
<1>22. low + 256 * (x + y) + 65536 * q = (low % 256) + 256 * m
  BY <1>4, <1>5, <1>8, <1>9, SMT DEF IsWord
<1> DEFINE r == low % 256
<1>23. r \in Int /\ 0 <= r /\ r <= 255
  BY <1>8, SMT DEF IsWord
<1> HIDE DEF v, m, r, n
<1>24. Signed(Word(t2[2], t2[3]), WordSize) = m \div 256
  BY <1>17, <1>20, <1>21, UpperSigned, SMT DEF v
<1>25. (r + 256 * m) \div 65536 = m \div 256
  BY <1>21, <1>23, SMT
<1>26. Signed(w, WordSize) * b = r + 256 * m
  BY <1>2, <1>7, <1>22, SMT DEF r
<1> QED
  BY <1>3, <1>24, <1>25, <1>26, SMT

LEMMA SignedWordAgrees ==
  ASSUME NibbleBits = 4, NEW w, IsWord(w), NEW b, IsWord(b)
  PROVE  LET v == Signed(w, WordSize)
         IN  /\ Signed(S16U16MulShift16(w, b), WordSize) = RefS16U16MulShift16(v, b)
             /\ b < ByteSize * NibbleSize =>
                  Signed(S16U12MulShift12(w, b), WordSize) = RefS16U12MulShift12(v, b)
<1> DEFINE v == Signed(w, WordSize)
<1>1. Signed(S16U16MulShift16(w, b), WordSize) = RefS16U16MulShift16(v, b)
  BY SignedWordByWord, Sizes, SMT DEF RefS16U16MulShift16
<1>2. ASSUME b < ByteSize * NibbleSize
      PROVE  Signed(S16U12MulShift12(w, b), WordSize) = RefS16U12MulShift12(v, b)
  <2>1. b < 4096 /\ b \in Int /\ 0 <= b
    BY <1>2, Sizes, SMT DEF IsWord
  <2>2. Repeat(DoubleWord, NibbleBits, b) = 16 * b
    BY <2>1, FourDoubles, SMT
  <2>3. IsWord(16 * b)
    BY <2>1, SMT DEF IsWord
  <2>4. S16U12MulShift12(w, b) = S16U16MulShift16(w, 16 * b)
    BY <2>2 DEF S16U12MulShift12
  <2>5. Signed(S16U16MulShift16(w, 16 * b), WordSize) = (v * (16 * b)) \div 65536
    BY <2>3, SignedWordByWord, SMT
  <2>6. v \in Int
    BY SignedParts, SMT DEF IsShort
  <2> HIDE DEF v
  <2> DEFINE p == v * b
  <2>7. v * (16 * b) = 16 * p /\ p \in Int
    BY <2>1, <2>6, SMT
  <2>8. RefS16U12MulShift12(v, b) = p \div 4096
    BY Sizes, SMT DEF RefS16U12MulShift12
  <2> HIDE DEF p
  <2>9. (16 * p) \div 65536 = p \div 4096
    BY <2>7, SMT
  <2> QED
    BY <2>4, <2>5, <2>7, <2>8, <2>9, SMT
<1> QED
  BY <1>1, <1>2 DEF v

-----------------------------------------------------------------------------
(* What the words of op.h are used for.                                    *)

LEMMA NumbersAgree ==
  ASSUME NibbleBits = 4, NEW w, IsWord(w),
         NEW top, IsByte(top), NEW f, IsByte(f), NEW l, IsByte(l), NEW h, IsByte(h)
  PROVE  LET a == <<Lo(w), Hi(w), top>>
             b == <<f, l, h>>
         IN  /\ U24AddC(a, b) = RefU24AddC(a, b)
             /\ U24Add(a, b) = RefU24Add(a, b)
             /\ U24Sub(a, b) = RefU24Sub(a, b)
             /\ U24Sub(b, a) = RefU24Sub(b, a)
             /\ U24ShiftRight(a) = RefU24ShiftRight(a)
             /\ U24ShiftLeft(a) = RefU24ShiftLeft(a)
<1> DEFINE a == <<Lo(w), Hi(w), top>>
           b == <<f, l, h>>
<1>1. IsByte(Lo(w)) /\ IsByte(Hi(w))
  BY BytesOfWord, SMT DEF IsWordOf
<1>2. a[1] = Lo(w) /\ a[2] = Hi(w) /\ a[3] = top /\ b[1] = f /\ b[2] = l /\ b[3] = h
  BY SMT
<1> HIDE DEF a, b
<1>3. Is24(a) /\ Is24(b)
  BY <1>1, <1>2, SMT DEF Is24
<1>4. U24AddC(a, b) = RefU24AddC(a, b) /\ U24Add(a, b) = RefU24Add(a, b)
  BY <1>3, SumsAgree
<1>5. U24Sub(a, b) = RefU24Sub(a, b) /\ U24Sub(b, a) = RefU24Sub(b, a)
  BY <1>3, DifferencesAgree
<1>6. U24ShiftRight(a) = RefU24ShiftRight(a) /\ U24ShiftLeft(a) = RefU24ShiftLeft(a)
  BY <1>3, ShiftsRightAgree, ShiftsLeftAgree
<1> QED
  BY <1>4, <1>5, <1>6 DEF a, b

LEMMA EdgesAreBytes ==
  ASSUME NibbleBits = 4, NEW x \in Edges
  PROVE  IsByte(x)
<1>1. x \in {0, 1, ByteSize \div 2, ByteSize - 1}
  BY SMT DEF Edges
<1> QED
  BY <1>1, Sizes, SMT DEF IsByte

LEMMA OperatorsOfWord ==
  ASSUME NibbleBits = 4, IsWord(operand)
  PROVE  OperatorsRight
<1>1. IsByte(Lo(operand)) /\ IsByte(Hi(operand))
  BY BytesOfWord, SMT DEF IsWordOf
<1>2. ASSUME NEW x \in ByteValues PROVE IsByte(x)
  BY <1>2, Ranges
<1>3. ASSUME NEW x \in Words PROVE IsWord(x)
  BY <1>3, Ranges
<1>4. ClipsRight
  <2>1. ASSUME NEW max \in ByteValues, Lo(operand) + Hi(operand) < ByteSize
        PROVE  U8AddClip(Lo(operand), Hi(operand), max)
                 = Clip(Lo(operand) + Hi(operand), 0, max)
    BY <1>1, <1>2, <2>1, AddClipAgrees
  <2>2. LET v == Signed(operand, WordSize) IN
        /\ S16ClipU14(operand) = Clip(v, 0, WordSize \div 4 - 1)
        /\ S16ClipU8(operand) = RefS16ClipU8(v)
        /\ v + ByteSize \div 2 < WordSize \div 2 =>
             Signed(S16ClipS8(operand), ByteSize) = RefS16ClipS8(v)
    BY ClipsAgree
  <2> QED
    BY <2>1, <2>2 DEF ClipsRight
<1>5. ShiftsRight
  BY <1>1, WordShiftsAgree, ByteShiftsAgree DEF ShiftsRight
<1>6. U24Right
  <2> SUFFICES ASSUME NEW top \in Edges, NEW f \in Edges, NEW l \in Edges, NEW h \in Edges
               PROVE  LET a == <<Lo(operand), Hi(operand), top>>
                          b == <<f, l, h>>
                      IN  /\ U24AddC(a, b) = RefU24AddC(a, b)
                          /\ U24Add(a, b) = RefU24Add(a, b)
                          /\ U24Sub(a, b) = RefU24Sub(a, b)
                          /\ U24Sub(b, a) = RefU24Sub(b, a)
                          /\ U24ShiftRight(a) = RefU24ShiftRight(a)
                          /\ U24ShiftLeft(a) = RefU24ShiftLeft(a)
    BY DEF U24Right
  <2>1. IsByte(top) /\ IsByte(f) /\ IsByte(l) /\ IsByte(h)
    BY EdgesAreBytes
  <2> QED
    BY <2>1, NumbersAgree
<1>7. MixesRight
  <2> DEFINE a == Hi(operand)
             b == Lo(operand)
  <2>1. ASSUME NEW balance \in ByteValues
        PROVE  /\ U8MixU16(a, b, balance) = RefU8MixU16(a, b, balance)
               /\ U8Mix(a, b, balance) = RefU8Mix(a, b, balance)
               /\ balance < NibbleSize =>
                    U8U4MixU12(a, b, balance) = RefU8U4MixU12(a, b, balance)
    BY <1>1, <1>2, MixesAgree
  <2>2. ASSUME NEW gainA \in ByteValues, NEW gainB \in ByteValues, gainA + gainB < ByteSize
        PROVE  /\ U8MixGains(a, b, gainA, gainB) = RefU8MixGains(a, b, gainA, gainB)
               /\ Signed(S8Mix(a, b, gainA, gainB), ByteSize)
                    = RefS8Mix(a, b, gainA, gainB)
    BY <1>1, <1>2, <2>2, GainsAgree
  <2>3. ASSUME NEW table \in Tables
        PROVE  InterpolateSample(table, operand) = RefInterpolateSample(table, operand)
    BY SamplesAgree
  <2> QED
    BY <2>1, <2>2, <2>3 DEF MixesRight
<1>8. ProductsRight
  <2> DEFINE v == Signed(operand, WordSize)
  <2>1. LET a == Hi(operand) b == Lo(operand)
            sa == Signed(a, ByteSize) sb == Signed(b, ByteSize)
        IN  /\ U8U8Mul(a, b) = RefMul(a, b)
            /\ Signed(S8U8Mul(a, b), WordSize) = RefMul(sa, b)
            /\ Signed(S8S8Mul(a, b), WordSize) = RefMul(sa, sb)
            /\ U8U8MulShift8(a, b) = RefU8U8MulShift8(a, b)
            /\ Signed(S8U8MulShift8(a, b), ByteSize) = RefS8U8MulShift8(sa, b)
            /\ Signed(S8S8MulShift8(a, b), ByteSize) = RefS8S8MulShift8(sa, sb)
    BY <1>1, ByteProductsAgree
  <2>2. ASSUME NEW b \in ByteValues
        PROVE  /\ U16U8MulShift8(operand, b) = RefU16U8MulShift8(operand, b)
               /\ Signed(S16U8MulShift8(operand, b), WordSize) = RefS16U8MulShift8(v, b)
               /\ Signed(S16S8MulShift8(operand, b), WordSize)
                    = RefS16U8MulShift8(v, Signed(b, ByteSize))
    BY <1>2, WordByByte, WordBySignedByte
  <2>3. ASSUME NEW b \in Words
        PROVE  /\ U16U16MulShift16(operand, b) = (operand * b) \div WordSize
               /\ Signed(S16U16MulShift16(operand, b), WordSize)
                    = RefS16U16MulShift16(v, b)
               /\ b < ByteSize * NibbleSize =>
                    Signed(S16U12MulShift12(operand, b), WordSize)
                      = RefS16U12MulShift12(v, b)
    BY <1>3, WordByWord, SignedWordAgrees
  <2> QED
    BY <2>1, <2>2, <2>3 DEF ProductsRight
<1> QED
  BY <1>4, <1>5, <1>6, <1>7, <1>8 DEF OperatorsRight

\* What operand may be: the properties speak of it, and of every second operand.
ArithInv == operand = NoOperand \/ IsWord(operand)

LEMMA ArithInvInit == ArithInit => ArithInv
BY DEF ArithInit, ArithInv

LEMMA ArithInvStep ==
  ASSUME NibbleBits = 4, ArithInv, [NextOperand]_arithVars
  PROVE  ArithInv'
<1>1. CASE NextOperand
  <2>1. operand' = (operand + 1) % 65536
    BY <1>1, Sizes, SMT DEF NextOperand
  <2>2. operand \in Int
    BY SMT DEF ArithInv, NoOperand, IsWord
  <2>3. IsWord(operand')
    BY <2>1, <2>2, SMT DEF IsWord
  <2> QED
    BY <2>3 DEF ArithInv
<1>2. CASE UNCHANGED arithVars
  BY <1>2 DEF arithVars, ArithInv, IsWord, NoOperand
<1> QED
  BY <1>1, <1>2

LEMMA ArithInvHolds ==
  ASSUME NibbleBits = 4, ArithInv
  PROVE  OperatorsRight
<1>1. CASE operand = NoOperand
  BY <1>1 DEF OperatorsRight, ClipsRight, ShiftsRight, U24Right, MixesRight,
              ProductsRight
<1>2. CASE IsWord(operand)
  BY <1>2, OperatorsOfWord
<1> QED
  BY <1>1, <1>2 DEF ArithInv

(***************************************************************************)
(* With bytes of eight bits and words of sixteen, as on the chip: what     *)
(* each routine of op.h computes, for every operand and every second       *)
(* operand, is what its plain version does.                                *)
(***************************************************************************)
THEOREM OperatorsStayRight == ASSUME NibbleBits = 4 PROVE ArithSpec => []OperatorsRight
<1>1. ArithInit => ArithInv
  BY ArithInvInit
<1>2. ArithInv /\ [NextOperand]_arithVars => ArithInv'
  BY ArithInvStep
<1>3. ArithInv => OperatorsRight
  BY ArithInvHolds
<1> QED
  BY <1>1, <1>2, <1>3, PTL DEF ArithSpec

-----------------------------------------------------------------------------
(* A number in decimal, digit by digit.                                    *)

\* What defines text, in Decimal.
TextUpTo(f, k) == IF k < 10 THEN <<Zero + k>>
                  ELSE Append(f[k \div 10], Zero + (k % 10))
IsDecimal(f, n) == f = [k \in 0 .. n |-> TextUpTo(f, k)]

LEMMA Tenth ==
  ASSUME NEW k \in Nat, k > 0
  PROVE  k \div 10 \in Nat /\ k \div 10 < k /\ k % 10 \in 0 .. 9
BY SMT

LEMMA DecimalExists ==
  ASSUME NEW n \in Nat
  PROVE  \E f : IsDecimal(f, n)
<1> DEFINE S == {m \in Nat : \E f : IsDecimal(f, m)}
<1>1. 0 \in S
  <2> DEFINE f == [k \in 0 .. 0 |-> <<Zero + k>>]
  <2>1. \A k \in 0 .. 0 : TextUpTo(f, k) = <<Zero + k>>
    BY SMT DEF TextUpTo
  <2> HIDE DEF f
  <2>2. f = [k \in 0 .. 0 |-> TextUpTo(f, k)]
    BY <2>1 DEF f
  <2> QED
    BY <2>2 DEF IsDecimal
<1>2. ASSUME NEW m \in Nat, m \in S PROVE m + 1 \in S
  <2>1. PICK f : IsDecimal(f, m)
    BY <1>2
  <2> DEFINE g == [k \in 0 .. m + 1 |-> IF k <= m THEN f[k] ELSE TextUpTo(f, k)]
  <2>2. ASSUME NEW k \in 0 .. m + 1
        PROVE  g[k] = TextUpTo(g, k)
    <3>1. g[k] = TextUpTo(f, k)
      <4>1. CASE k <= m
        <5>1. k \in 0 .. m
          BY <4>1
        <5> QED
          BY <2>1, <4>1, <5>1 DEF IsDecimal
      <4>2. CASE ~ (k <= m)
        BY <4>2
      <4> QED
        BY <4>1, <4>2
    <3>2. k >= 10 => g[k \div 10] = f[k \div 10]
      <4>1. SUFFICES ASSUME k >= 10 PROVE g[k \div 10] = f[k \div 10]
        OBVIOUS
      <4>2. k \div 10 \in 0 .. m + 1 /\ k \div 10 <= m
        BY <4>1, Tenth
      <4> QED
        BY <4>2
    <3> HIDE DEF g
    <3> QED
      BY <3>1, <3>2 DEF TextUpTo
  <2>3. g = [k \in 0 .. m + 1 |-> g[k]]
    OBVIOUS
  <2> HIDE DEF g
  <2>4. g = [k \in 0 .. m + 1 |-> TextUpTo(g, k)]
    BY <2>2, <2>3
  <2> QED
    BY <2>4 DEF IsDecimal
<1> HIDE DEF S
<1>3. Nat \subseteq S
  BY <1>1, <1>2, SetInduction
<1> QED
  BY <1>3 DEF S

LEMMA DecimalUnique ==
  ASSUME NEW n \in Nat, NEW m \in Nat, NEW f, IsDecimal(f, n), NEW g, IsDecimal(g, m),
         NEW k \in Nat, k <= n, k <= m
  PROVE  f[k] = g[k]
<1> DEFINE S == {j \in Nat : j <= n /\ j <= m /\ f[j] # g[j]}
<1>1. SUFFICES ASSUME S # {} PROVE FALSE
  OBVIOUS
<1>2. S \subseteq Nat
  OBVIOUS
<1>3. PICK j \in S : \A i \in S : j <= i
  <2> HIDE DEF S
  <2> QED
    BY <1>1, <1>2, LeastOf
<1>4. j \in 0 .. n /\ j \in 0 .. m /\ f[j] # g[j]
  BY <1>3
<1>5. f[j] = TextUpTo(f, j) /\ g[j] = TextUpTo(g, j)
  BY <1>4 DEF IsDecimal
<1>6. j >= 10
  BY <1>4, <1>5 DEF TextUpTo
<1>7. j \div 10 \in Nat /\ j \div 10 < j
  BY <1>6, Tenth
<1>8. f[j \div 10] = g[j \div 10]
  BY <1>3, <1>4, <1>7
<1> QED
  BY <1>4, <1>5, <1>8 DEF TextUpTo

LEMMA DecimalIs ==
  ASSUME NEW n \in Nat
  PROVE  Decimal(n) = IF n < 10 THEN <<Zero + n>>
                      ELSE Append(Decimal(n \div 10), Zero + (n % 10))
<1> DEFINE D(m) == CHOOSE f : IsDecimal(f, m)
<1>1. \A m \in Nat : Decimal(m) = D(m)[m]
  BY DEF Decimal, IsDecimal, TextUpTo
<1>2. \A m \in Nat : IsDecimal(D(m), m)
  BY DecimalExists
<1> HIDE DEF D
<1>3. D(n)[n] = TextUpTo(D(n), n)
  BY <1>2 DEF IsDecimal
<1>4. CASE n < 10
  BY <1>1, <1>3, <1>4 DEF TextUpTo
<1>5. CASE n >= 10
  <2> DEFINE m == n \div 10
  <2>1. m \in Nat /\ m <= n
    BY <1>5, Tenth
  <2> HIDE DEF m
  <2>2. D(n)[m] = D(m)[m]
    BY <1>2, <2>1, DecimalUnique
  <2>3. D(n)[n] = Append(D(n)[m], Zero + (n % 10))
    BY <1>3, <1>5 DEF TextUpTo, m
  <2> QED
    BY <1>1, <1>5, <2>1, <2>2, <2>3 DEF m
<1> QED
  BY <1>4, <1>5

\* The codes of the characters of a text.
Codes == Nat \ {0}

LEMMA DecimalIsText ==
  ASSUME NEW n \in Nat
  PROVE  Decimal(n) \in Seq(Codes) /\ Len(Decimal(n)) >= 1
<1> DEFINE Good(m) == Decimal(m) \in Seq(Codes) /\ Len(Decimal(m)) >= 1
           S == {m \in Nat : ~Good(m)}
<1>1. SUFFICES ASSUME S # {} PROVE FALSE
  OBVIOUS
<1>2. S \subseteq Nat
  OBVIOUS
<1>3. PICK m \in S : \A i \in S : m <= i
  <2> HIDE DEF S
  <2> QED
    BY <1>1, <1>2, LeastOf
<1>4. m \in Nat /\ ~Good(m)
  BY <1>3
<1>5. CASE m < 10
  <2>1. Decimal(m) = <<Zero + m>>
    BY <1>4, <1>5, DecimalIs
  <2>2. Zero + m \in Codes
    BY <1>4 DEF Codes, Zero
  <2> QED
    BY <1>4, <2>1, <2>2
<1>6. CASE m >= 10
  <2> DEFINE k == m \div 10
             c == Zero + (m % 10)
  <2>1. k \in Nat /\ k < m /\ m % 10 \in 0 .. 9
    BY <1>4, <1>6, Tenth
  <2>2. c \in Codes
    BY <2>1 DEF Codes, Zero
  <2>3. Decimal(m) = Append(Decimal(k), c)
    BY <1>4, <1>6, DecimalIs
  <2> HIDE DEF k, c
  <2>4. Good(k)
    BY <1>3, <2>1
  <2>5. Append(Decimal(k), c) \in Seq(Codes)
        /\ Len(Append(Decimal(k), c)) = Len(Decimal(k)) + 1
    BY <2>2, <2>4
  <2>6. Len(Decimal(k)) \in Nat
    BY <2>4
  <2> QED
    BY <1>4, <2>3, <2>4, <2>5, <2>6
<1> QED
  BY <1>4, <1>5, <1>6

\* What has still to be converted.
Rest(n) == IF n > 0 THEN Decimal(n) ELSE <<>>

LEMMA RestIs ==
  ASSUME NEW n \in Nat \ {0}
  PROVE  Rest(n) = Append(Rest(n \div 10), Zero + (n % 10))
<1> DEFINE k == n \div 10
<1>1. k \in Nat
  BY Tenth
<1>2. CASE n < 10
  <2>1. k = 0 /\ n % 10 = n
    BY <1>2
  <2>2. Rest(n) = <<Zero + n>>
    BY <1>2, DecimalIs DEF Rest
  <2>3. Rest(k) = <<>>
    BY <2>1 DEF Rest
  <2>4. Append(<<>>, Zero + n) = <<Zero + n>>
    BY DEF Zero
  <2> QED
    BY <2>1, <2>2, <2>3, <2>4
<1>3. CASE n >= 10
  <2>1. k > 0
    BY <1>3
  <2>2. Rest(n) = Append(Decimal(k), Zero + (n % 10))
    BY <1>3, DecimalIs DEF Rest
  <2> QED
    BY <2>1, <2>2 DEF Rest
<1> QED
  BY <1>2, <1>3

\* The last character is the lowest digit, and the others are what is left.
LEMMA RestShrinks ==
  ASSUME NEW n \in Nat \ {0}
  PROVE  LET r == Rest(n) s == Rest(n \div 10)
         IN  /\ r \in Seq(Codes) /\ s \in Seq(Codes) /\ Len(r) = Len(s) + 1
             /\ r[Len(r)] = Zero + (n % 10)
             /\ \A i \in 1 .. Len(s) : r[i] = s[i]
<1> DEFINE r == Rest(n)
           s == Rest(n \div 10)
           c == Zero + (n % 10)
<1>1. n \div 10 \in Nat /\ c \in Codes
  BY Tenth DEF Codes, Zero
<1>2. s \in Seq(Codes)
  BY <1>1, DecimalIsText DEF Rest
<1>3. r = Append(s, c)
  BY RestIs
<1> HIDE DEF r, s, c
<1>4. /\ r \in Seq(Codes) /\ Len(r) = Len(s) + 1 /\ r[Len(s) + 1] = c
      /\ \A i \in 1 .. Len(s) : r[i] = s[i]
  BY <1>1, <1>2, <1>3, AppendProperties
<1> QED
  BY <1>2, <1>4 DEF r, s, c

-----------------------------------------------------------------------------
(* A text in its field.                                                    *)

\* Codes in the first cells, and the terminator after them.
Holds(b, length) ==
  /\ b \in [Cells -> Int] /\ length \in Nat /\ length + 1 \in Cells
  /\ \A i \in 1 .. length : b[i] \in Codes
  /\ b[length + 1] = Nul

LEMMA LengthFound ==
  ASSUME NEW b, NEW length, Holds(b, length), NEW max \in 0 .. 12
  PROVE  strnlen(b, max) = IF length < max THEN length ELSE max
<1> DEFINE Ends(n) == n \in 1 .. max /\ b[n] = Nul /\ \A k \in 1 .. n - 1 : b[k] # Nul
           e == CHOOSE n \in 1 .. max : b[n] = Nul /\ \A k \in 1 .. n - 1 : b[k] # Nul
<1>1. /\ length \in Nat /\ b[length + 1] = Nul
      /\ \A i \in 1 .. length : b[i] # Nul
  BY DEF Holds, Codes, Nul
<1>2. CASE length < max
  <2>1. Ends(length + 1)
    BY <1>1, <1>2
  <2>2. ASSUME NEW n, Ends(n) PROVE n = length + 1
    BY <1>1, <2>2
  <2>3. e = length + 1
    BY <2>1, <2>2
  <2>4. \E n \in 1 .. max : b[n] = Nul
    BY <2>1
  <2>5. strnlen(b, max) = e - 1
    BY <2>4 DEF strnlen
  <2> QED
    BY <1>1, <1>2, <2>3, <2>5
<1>3. CASE ~ (length < max)
  <2>1. ~ \E n \in 1 .. max : b[n] = Nul
    BY <1>1, <1>3
  <2> QED
    BY <1>3, <2>1 DEF strnlen
<1> QED
  BY <1>2, <1>3

\* What is in a cell after the i-th turn of the loop of PadRight.
Moved(b, length, width, c, i, cell) ==
  IF cell > width \/ cell <= width - i THEN b[cell]
  ELSE IF cell > width - length THEN b[cell - (width - length)] ELSE c

LEMMA PadIs ==
  ASSUME NEW b, NEW length, Holds(b, length), NEW width \in 0 .. 12, length < width,
         NEW c \in Int
  PROVE  PadRight(b, width, c)
           = [cell \in Cells |-> Moved(b, length, width, c, width, cell)]
<1> DEFINE Turn(f, i) == IF i = 0 THEN b
                         ELSE [f[i - 1] EXCEPT ![width - i + 1] =
                                 IF i <= length THEN f[i - 1][length - i + 1] ELSE c]
           Is(f) == f = [i \in 0 .. width |-> Turn(f, i)]
           At(i) == [cell \in Cells |-> Moved(b, length, width, c, i, cell)]
           g == [i \in 0 .. width |-> At(i)]
           after == CHOOSE f : Is(f)
<1>1. strnlen(b, width) = length
  BY LengthFound
<1>2. b \in [Cells -> Int] /\ length \in Nat /\ width \in Nat
  BY DEF Holds
<1>3. At(0) = b
  <2>1. \A cell \in Cells : Moved(b, length, width, c, 0, cell) = b[cell]
    BY <1>2 DEF Moved, Cells
  <2> QED
    BY <1>2, <2>1
<1>4. ASSUME NEW i \in 1 .. width
      PROVE  At(i) = [At(i - 1) EXCEPT ![width - i + 1] =
                        IF i <= length THEN At(i - 1)[length - i + 1] ELSE c]
  <2> DEFINE p == width - i + 1
             y == IF i <= length THEN At(i - 1)[length - i + 1] ELSE c
  <2>1. p \in Cells
    BY DEF Cells
  <2>2. y = Moved(b, length, width, c, i, p)
    <3>1. CASE i <= length
      <4> DEFINE q == length - i + 1
      <4>1. q \in Cells /\ q <= width - (i - 1)
        BY <1>2, <3>1 DEF Cells
      <4>2. y = b[q]
        BY <3>1, <4>1 DEF Moved
      <4>3. ~ (p > width) /\ ~ (p <= width - i) /\ p > width - length
            /\ p - (width - length) = q
        BY <1>2, <3>1
      <4> QED
        BY <4>2, <4>3 DEF Moved
    <3>2. CASE ~ (i <= length)
      <4>1. ~ (p > width) /\ ~ (p <= width - i) /\ ~ (p > width - length)
        BY <1>2, <3>2
      <4> QED
        BY <3>2, <4>1 DEF Moved
    <3> QED
      BY <3>1, <3>2
  <2>3. ASSUME NEW cell \in Cells, cell # p
        PROVE  Moved(b, length, width, c, i, cell) = Moved(b, length, width, c, i - 1, cell)
    <3>1. (cell <= width - i) <=> (cell <= width - (i - 1))
      BY <2>3 DEF Cells
    <3> QED
      BY <3>1 DEF Moved
  <2> HIDE DEF p, y
  <2> QED
    BY <2>1, <2>2, <2>3 DEF p, y
<1>5. Is(g)
  <2>1. ASSUME NEW i \in 0 .. width PROVE g[i] = Turn(g, i)
    <3>1. CASE i = 0
      BY <1>3, <3>1
    <3>2. CASE i # 0
      <4>1. i \in 1 .. width /\ i - 1 \in 0 .. width
        BY <3>2
      <4> HIDE DEF At
      <4>2. g[i] = At(i) /\ g[i - 1] = At(i - 1)
        BY <4>1
      <4> HIDE DEF g
      <4> QED
        BY <1>4, <3>2, <4>1, <4>2
    <3> QED
      BY <3>1, <3>2
  <2>2. g = [i \in 0 .. width |-> g[i]]
    OBVIOUS
  <2> HIDE DEF g, Turn
  <2> QED
    BY <2>1, <2>2
<1>6. Is(after)
  <2> HIDE DEF Is, g
  <2> QED
    BY <1>5
<1>7. PadRight(b, width, c) = after[width]
  BY <1>1, <1>2 DEF PadRight
<1> HIDE DEF after, g
<1> DEFINE S == {i \in Nat : i <= width => after[i] = At(i)}
<1>8. 0 \in S
  BY <1>2, <1>3, <1>6
<1>9. ASSUME NEW i \in Nat, i \in S PROVE i + 1 \in S
  <2> SUFFICES ASSUME i + 1 <= width PROVE after[i + 1] = At(i + 1)
    OBVIOUS
  <2>1. i + 1 \in 1 .. width /\ i + 1 \in 0 .. width /\ (i + 1) - 1 = i
    BY <1>2
  <2>2. after[i] = At(i)
    BY <1>2, <1>9
  <2> HIDE DEF At
  <2>3. after[i + 1] = [after[i] EXCEPT ![width - (i + 1) + 1] =
                          IF i + 1 <= length THEN after[i][length - (i + 1) + 1] ELSE c]
    <3>1. after[i + 1] = Turn(after, i + 1)
      <4> HIDE DEF Turn
      <4> QED
        BY <1>6, <2>1
    <3> QED
      BY <2>1, <3>1
  <2> QED
    BY <1>4, <2>1, <2>2, <2>3
<1>10. Nat \subseteq S
  <2> HIDE DEF S
  <2> QED
    BY <1>8, <1>9, SetInduction
<1>11. after[width] = At(width)
  BY <1>2, <1>10
<1> QED
  BY <1>7, <1>11

LEMMA SameStart ==
  ASSUME NEW S, NEW u, NEW v, NEW n \in Nat,
         \A i \in 1 .. n : u[i] \in S /\ u[i] = v[i]
  PROVE  SubSeq(u, 1, n) = SubSeq(v, 1, n)
<1> DEFINE x == SubSeq(u, 1, n)
           y == SubSeq(v, 1, n)
<1>1. /\ x \in Seq(S) /\ Len(x) = (IF 1 <= n THEN n - 1 + 1 ELSE 0)
      /\ \A i \in 1 .. n - 1 + 1 : x[i] = u[1 + i - 1]
  BY SubSeqProperties
<1>2. /\ y \in Seq(S) /\ Len(y) = (IF 1 <= n THEN n - 1 + 1 ELSE 0)
      /\ \A i \in 1 .. n - 1 + 1 : y[i] = v[1 + i - 1]
  BY SubSeqProperties
<1> HIDE DEF x, y
<1>3. Len(x) = n /\ Len(y) = n /\ \A i \in 1 .. n : x[i] = y[i]
  BY <1>1, <1>2
<1> QED
  BY <1>1, <1>2, <1>3, SeqEqual DEF x, y

\* The text is where it is expected, with blanks in the rest of the field.
LEMMA FieldIsWhole ==
  ASSUME NEW b, NEW text \in Seq(Codes), Holds(b, Len(text)),
         \A i \in 1 .. Len(text) : b[i] = text[i], NEW field \in 0 .. 12
  PROVE  LET pad == [k \in 1 .. field - Len(text) |-> Blank]
         IN  /\ SubSeq(AlignRight(b, field), 1, field) = SubSeq(pad \o text, 1, field)
             /\ SubSeq(AlignLeft(b, field), 1, field) = SubSeq(text \o pad, 1, field)
<1> DEFINE l == Len(text)
           k == IF l < field THEN field - l ELSE 0
           pad == [n \in 1 .. field - l |-> Blank]
           toRight == AlignRight(b, field)
           toLeft == AlignLeft(b, field)
<1>1. l \in Nat /\ strnlen(b, field) = (IF l < field THEN l ELSE field)
  BY LengthFound DEF Holds
<1>2. pad \in Seq(Codes) /\ Len(pad) = k /\ \A i \in 1 .. k : pad[i] = Blank
  <2>1. Blank \in Codes /\ k \in Nat /\ 1 .. field - l = 1 .. k
    BY <1>1 DEF Blank, Codes
  <2>2. pad = [n \in 1 .. k |-> Blank]
    BY <2>1
  <2> HIDE DEF pad, k
  <2>3. pad \in [1 .. k -> Codes]
    BY <2>1, <2>2
  <2>4. pad \in Seq(Codes) /\ Len(pad) = k
    BY <2>1, <2>3
  <2> QED
    BY <2>2, <2>4
<1>3. b \in [Cells -> Int]
  BY DEF Holds
<1>4. ASSUME NEW i \in 1 .. field
      PROVE  toRight[i] = IF i > k THEN text[i - k] ELSE Blank
  <2>1. CASE l < field
    <3>1. toRight = [cell \in Cells |-> Moved(b, l, field, Blank, field, cell)]
      BY <2>1, PadIs DEF AlignRight, Blank
    <3>2. toRight[i] = Moved(b, l, field, Blank, field, i)
      BY <3>1 DEF Cells
    <3>3. k = field - l /\ ~ (i > field \/ i <= field - field)
      BY <1>1, <2>1
    <3>4. i > k => b[i - k] = text[i - k]
      BY <1>1, <3>3
    <3> QED
      BY <3>2, <3>3, <3>4 DEF Moved
  <2>2. CASE ~ (l < field)
    <3>1. toRight = b /\ k = 0
      BY <1>1, <2>2 DEF AlignRight, PadRight
    <3>2. b[i] = text[i]
      BY <1>1, <2>2
    <3> QED
      BY <3>1, <3>2
  <2> QED
    BY <2>1, <2>2
<1>5. ASSUME NEW i \in 1 .. field
      PROVE  toLeft[i] = IF i > l THEN Blank ELSE text[i]
  <2>1. i \in Cells
    BY DEF Cells
  <2>2. toLeft[i] = IF i \in strnlen(b, field) + 1 .. field THEN Blank ELSE b[i]
    BY <2>1 DEF AlignLeft
  <2>3. i \in strnlen(b, field) + 1 .. field <=> i > l
    BY <1>1
  <2> QED
    BY <1>1, <2>2, <2>3
<1> HIDE DEF pad, toLeft, toRight
<1>6. k \in Nat /\ k + l >= field
  BY <1>1
<1>7. /\ pad \o text \in Seq(Codes) /\ Len(pad \o text) = k + l
      /\ \A i \in 1 .. k + l : (pad \o text)[i] = IF i <= k THEN pad[i] ELSE text[i - k]
  BY <1>2, ConcatProperties
<1>8. /\ text \o pad \in Seq(Codes) /\ Len(text \o pad) = l + k
      /\ \A i \in 1 .. l + k : (text \o pad)[i] = IF i <= l THEN text[i] ELSE pad[i - l]
  BY <1>2, ConcatProperties
<1> DEFINE u == pad \o text
           v == text \o pad
<1> HIDE DEF k, u, v
<1>9. ASSUME NEW i \in 1 .. field
      PROVE  toRight[i] \in Codes /\ toRight[i] = u[i]
  <2>1. i \in 1 .. k + l /\ u \in Seq(Codes) /\ Len(u) = k + l
    BY <1>1, <1>6, <1>7 DEF u
  <2>2. u[i] \in Codes
    BY <2>1
  <2>3. u[i] = IF i <= k THEN pad[i] ELSE text[i - k]
    BY <1>7, <2>1 DEF u
  <2>4. i <= k => pad[i] = Blank
    BY <1>2, <1>6
  <2> QED
    BY <1>4, <1>6, <2>2, <2>3, <2>4
<1>10. ASSUME NEW i \in 1 .. field
       PROVE  toLeft[i] \in Codes /\ toLeft[i] = v[i]
  <2>1. i \in 1 .. l + k /\ v \in Seq(Codes) /\ Len(v) = l + k
    BY <1>1, <1>6, <1>8 DEF v
  <2>2. v[i] \in Codes
    BY <2>1
  <2>3. v[i] = IF i <= l THEN text[i] ELSE pad[i - l]
    BY <1>8, <2>1 DEF v
  <2>4. i > l => pad[i - l] = Blank
    BY <1>1, <1>2, <1>6, <2>1
  <2> QED
    BY <1>1, <1>5, <2>2, <2>3, <2>4
<1>11. field \in Nat
  OBVIOUS
<1>12. SubSeq(toRight, 1, field) = SubSeq(u, 1, field)
  BY <1>9, <1>11, SameStart
<1>13. SubSeq(toLeft, 1, field) = SubSeq(v, 1, field)
  BY <1>10, <1>11, SameStart
<1> QED
  BY <1>12, <1>13 DEF toRight, toLeft, u, v, pad

-----------------------------------------------------------------------------
(* The inductive invariant: what a conversion that no handler disturbed    *)
(* has written is the beginning of the text, and what it has in digits is  *)
(* the end.                                                                *)

IsCall ==
  /\ call \in [safe : BOOLEAN, type : IntTypes, value : Int, width : Nat, field : {0, 3, 6}]
  /\ call.value \in ValuesOf(call.type)
  /\ call.width \in {0, 2, call.type.max_size + 1}
Written ==
  /\ destination \in [Cells -> Int]
  /\ at \in Nat /\ 1 <= at /\ at - 1 <= Len(Text)
  /\ \A i \in 1 .. at - 1 : destination[i] = Text[i]
  /\ \A cell \in Cells : cell >= at => destination[cell] = Junk
  /\ call.width > 0 /\ left = (call.width - (at - 1)) % ByteWidth
Stored ==
  /\ digits = [d \in 1 .. 12 |-> digits[d]]
  /\ digit \in Nat /\ digit <= Len(Text)
  /\ \A i \in 1 .. digit : Zero + digits[i] = Text[Len(Text) + 1 - i]
\* number is what is between the two.
Between ==
  /\ number \in Int
  /\ at - 1 + Len(Rest(number)) + digit = Len(Text)
  /\ \A i \in 1 .. Len(Rest(number)) : Text[at - 1 + i] = Rest(number)[i]
Whole ==
  call.width > 0 =>
    /\ destination \in [Cells -> Int]
    /\ \A i \in 1 .. Len(Text) : destination[i] = Text[i]
    /\ destination[Len(Text) + 1] = (IF Len(Text) = call.width THEN Junk ELSE Nul)

StrState ==
  /\ strPc = "sign" => Written /\ Stored /\ number = call.value /\ digit = 0 /\ at = 1
  /\ strPc = "convert" => Written /\ Stored /\ Between
  /\ strPc = "emit" => Written /\ Stored /\ at - 1 + digit = Len(Text)
  /\ strPc = "terminate" => Written /\ at - 1 = Len(Text)
  /\ strPc = "text" => Whole
  /\ strPc \in {"left", "right"} => FieldRight
Pcs == {"returned", "sign", "convert", "emit", "terminate", "text", "left", "right"}
StrInv == /\ strPc \in Pcs
          /\ ~mixed /\ strPc # "returned" => IsCall /\ StrState

\* What is known of every text.
IsText(t, type) == /\ t \in Seq(Codes) /\ 1 <= Len(t) /\ Len(t) <= type.max_size
                   /\ type.max_size \in 1 .. 11

\* The text of a number is its sign and what there is to convert.
Parts(t, type, v) ==
  LET n == IF v < 0 THEN Negated(type, v) ELSE v
      s == IF v < 0 THEN 1 ELSE 0
  IN  /\ v = 0 => Len(t) = 1 /\ t[1] = Zero
      /\ v < 0 => t[1] = Minus
      /\ v # 0 => /\ n \in Int /\ Len(t) = s + Len(Rest(n))
                  /\ \A i \in 1 .. Len(Rest(n)) : t[s + i] = Rest(n)[i]

LEMMA TextParts ==
  ASSUME NEW type \in IntTypes, NEW v \in ValuesOf(type)
  PROVE  /\ TextOf(type, v) \in Seq(Codes) /\ 1 <= Len(TextOf(type, v))
         /\ Parts(TextOf(type, v), type, v) /\ v \in Int
<1> DEFINE t == TextOf(type, v)
<1>1. Lowest(type) \in Int /\ v \in Int
  <2>1. type.has_sign \in BOOLEAN /\ type.values \in Nat \ {0}
    BY IntTypesAssumption
  <2>2. Lowest(type) \in Int
    BY <2>1 DEF Lowest
  <2>3. Lowest(type) + type.values - 1 \in Int
    BY <2>1, <2>2
  <2> QED
    BY <2>2, <2>3 DEF ValuesOf
<1>2. CASE v >= 0
  <2>1. t = Decimal(v) /\ v \in Nat
    BY <1>1, <1>2 DEF TextOf
  <2>2. t \in Seq(Codes) /\ 1 <= Len(t)
    BY <2>1, DecimalIsText
  <2>3. CASE v = 0
    <3>1. t = <<Zero + v>>
      BY <2>1, <2>3, DecimalIs
    <3>2. t = <<Zero>>
      BY <2>3, <3>1 DEF Zero
    <3> HIDE DEF t
    <3>3. Parts(t, type, v)
      BY <2>3, <3>2 DEF Parts
    <3> QED
      BY <1>1, <2>2, <3>3 DEF t
  <2>4. CASE v > 0
    <3>1. t = Rest(v)
      BY <2>1, <2>4 DEF Rest
    <3> HIDE DEF t
    <3>2. Len(t) \in Nat
      BY <2>2
    <3>3. Parts(t, type, v)
      BY <1>1, <2>4, <3>1, <3>2 DEF Parts
    <3> QED
      BY <1>1, <2>2, <3>3 DEF t
  <2> QED
    BY <1>2, <2>1, <2>3, <2>4
<1>3. CASE v < 0 /\ v = Lowest(type)
  <2>1. t = <<Minus>>
    BY <1>1, <1>3 DEF TextOf
  <2>2. Negated(type, v) = v /\ Rest(v) = <<>>
    BY <1>1, <1>3 DEF Negated, Rest
  <2> HIDE DEF t
  <2>3. t \in Seq(Codes) /\ Len(t) = 1 /\ t[1] = Minus
    BY <2>1 DEF Codes, Minus
  <2>4. Parts(t, type, v)
    BY <1>1, <1>3, <2>2, <2>3 DEF Parts
  <2> QED
    BY <1>1, <2>3, <2>4 DEF t
<1>4. CASE v < 0 /\ v # Lowest(type)
  <2> DEFINE r == Decimal(-v)
             m == <<Minus>>
  <2>1. -v \in Nat /\ r \in Seq(Codes) /\ 1 <= Len(r)
    BY <1>1, <1>4, DecimalIsText
  <2>2. t = m \o r
    BY <1>1, <1>4 DEF TextOf
  <2>3. m \in Seq(Codes) /\ Len(m) = 1 /\ m[1] = Minus
    BY DEF Codes, Minus
  <2>4. Negated(type, v) = -v /\ Rest(-v) = r
    BY <1>1, <1>4 DEF Negated, Rest
  <2> HIDE DEF t, r, m
  <2>5. /\ t \in Seq(Codes) /\ Len(t) = 1 + Len(r)
        /\ \A i \in 1 .. 1 + Len(r) : t[i] = IF i <= 1 THEN m[i] ELSE r[i - 1]
    BY <2>1, <2>2, <2>3, ConcatProperties
  <2>6. t[1] = Minus /\ \A i \in 1 .. Len(r) : t[1 + i] = r[i]
    BY <2>1, <2>3, <2>5
  <2>7. Parts(t, type, v)
    BY <1>1, <1>4, <2>1, <2>4, <2>5, <2>6 DEF Parts
  <2> QED
    BY <1>1, <2>1, <2>5, <2>7 DEF t
<1> QED
  BY <1>1, <1>2, <1>3, <1>4

LEMMA TextKnown ==
  ASSUME TextsFit, IsCall
  PROVE  /\ IsText(Text, call.type) /\ Parts(Text, call.type, call.value)
         /\ call.value \in Int /\ call.width \in 0 .. 12
<1>1. call.type \in IntTypes /\ call.value \in ValuesOf(call.type)
  BY DEF IsCall
<1>2. /\ Text \in Seq(Codes) /\ 1 <= Len(Text) /\ Parts(Text, call.type, call.value)
      /\ call.value \in Int
  BY <1>1, TextParts DEF Text
<1>3. Len(Text) <= call.type.max_size /\ call.type.max_size \in Nat \ {0}
  BY <1>1, IntTypesAssumption DEF TextsFit, Text
<1>4. call.type.max_size + 1 \in 1 .. 12
  BY <1>1 DEF TextsFit, Cells
<1>5. IsText(Text, call.type)
  <2> DEFINE m == call.type.max_size
  <2>1. m \in Nat \ {0} /\ m + 1 \in 1 .. 12
    BY <1>3, <1>4
  <2>2. m \in 1 .. 11
    <3> HIDE DEF m
    <3> QED
      BY <2>1
  <2> QED
    BY <1>2, <1>3, <2>2 DEF IsText
<1>6. call.width \in 0 .. 12
  BY <1>3, <1>4 DEF IsCall
<1> QED
  BY <1>2, <1>5, <1>6

LEMMA StrInvInit == StrInit => StrInv
BY DEF StrInit, StrInv, Pcs

\* A call starts on a buffer nothing was written to.
LEMMA CallItoaKeeps ==
  ASSUME TextsFit, CallItoa
  PROVE  StrInv'
<1>1. PICK safe \in BOOLEAN, t \in IntTypes :
        \E value \in ValuesOf(t), width \in {0, 2, t.max_size + 1} :
          Fresh([safe |-> safe, type |-> t, value |-> value, width |-> width, field |-> 0])
  BY DEF CallItoa
<1>2. PICK value \in ValuesOf(t), width \in {0, 2, t.max_size + 1} :
        Fresh([safe |-> safe, type |-> t, value |-> value, width |-> width, field |-> 0])
  BY <1>1
<1>3. /\ call' = [safe |-> safe, type |-> t, value |-> value, width |-> width, field |-> 0]
      /\ number' = value /\ left' = width
      /\ digits' = [d \in 1 .. 12 |-> 0] /\ digit' = 0
      /\ destination' = [cell \in Cells |-> Junk] /\ at' = 1
  BY <1>2 DEF Fresh
<1>4. strPc' = IF left' = 0 THEN "text" ELSE "sign"
  BY DEF CallItoa
<1>5. value \in Int /\ t.max_size \in 1 .. 11
  BY TextParts, IntTypesAssumption DEF TextsFit, Cells
<1>6. IsCall'
  BY <1>3, <1>5 DEF IsCall
<1>7. IsText(Text', t) /\ call'.width = width
  <2>1. Text' = TextOf(t, value)
    BY <1>3 DEF Text
  <2>2. TextOf(t, value) \in Seq(Codes) /\ 1 <= Len(TextOf(t, value))
    BY TextParts
  <2>3. Len(TextOf(t, value)) <= t.max_size
    BY DEF TextsFit
  <2> QED
    BY <1>3, <1>5, <2>1, <2>2, <2>3 DEF IsText
<1>8. width \in 0 .. 12
  BY <1>5
<1>9. CASE width = 0
  <2>1. strPc' = "text" /\ Whole'
    BY <1>3, <1>4, <1>7, <1>9 DEF Whole
  <2> QED
    BY <1>6, <2>1 DEF StrInv, StrState, Pcs
<1>10. CASE width # 0
  <2>1. strPc' = "sign"
    BY <1>3, <1>4, <1>10
  <2>2. Len(Text') \in Nat
    BY <1>7 DEF IsText
  <2>3. Written'
    <3>1. left' = (width - (1 - 1)) % ByteWidth
      BY <1>3, <1>8, SMT DEF ByteWidth
    <3>2. destination' \in [Cells -> Int] /\ \A cell \in Cells : destination'[cell] = Junk
      BY <1>3 DEF Junk
    <3> QED
      BY <1>3, <1>7, <1>8, <1>10, <2>2, <3>1, <3>2 DEF Written
  <2>4. Stored' /\ (number' = call'.value /\ digit' = 0 /\ at' = 1)
    BY <1>3, <2>2 DEF Stored
  <2> QED
    BY <1>6, <2>1, <2>3, <2>4 DEF StrInv, StrState, Pcs
<1> QED
  BY <1>9, <1>10

\* What holds before a step of the conversion.
Known == /\ IsCall /\ StrState /\ ~mixed
         /\ IsText(Text, call.type) /\ Parts(Text, call.type, call.value)
         /\ call.value \in Int /\ call.width \in 0 .. 12

\* A step that leaves the call alone leaves its text alone.
LEMMA CallKept ==
  ASSUME Known, call' = call
  PROVE  IsCall' /\ Text' = Text
BY DEF Known, IsCall, Text

\* The next character of the text is written.
LEMMA PutWrites ==
  ASSUME Known, Written, NEW c, c = Text[at], at <= Len(Text), Put(c), call' = call
  PROVE  Written' /\ at' = at + 1
<1> DEFINE n == Len(Text)
<1>1. Text' = Text
  BY CallKept
<1>2. /\ destination' = [destination EXCEPT ![at] = c] /\ at' = at + 1
      /\ left' = (left - 1) % ByteWidth
  BY DEF Put
<1>3. n \in 1 .. 11 /\ Text \in Seq(Codes) /\ at \in 1 .. n
  <2>1. Text \in Seq(Codes) /\ 1 <= n /\ n <= call.type.max_size
        /\ call.type.max_size \in 1 .. 11
    BY DEF Known, IsText
  <2>2. n \in Nat
    BY <2>1
  <2> DEFINE m == call.type.max_size
  <2>3. n \in 1 .. 11
    <3>1. 1 <= n /\ n <= m /\ m \in 1 .. 11
      BY <2>1
    <3>2. n \in Nat
      BY <2>2
    <3> HIDE DEF m, n
    <3> QED
      BY <3>1, <3>2
  <2> QED
    BY <2>1, <2>3 DEF Written
<1>4. at \in Cells /\ c \in Int
  <2>1. c \in Codes
    BY <1>3
  <2> HIDE DEF n
  <2>2. at \in Cells
    BY <1>3 DEF Cells
  <2> QED
    BY <2>1, <2>2 DEF Codes
<1>5. destination' \in [Cells -> Int]
  BY <1>2, <1>4 DEF Written
<1>6. ASSUME NEW i \in 1 .. at
      PROVE  destination'[i] = Text[i]
  <2>1. i \in Cells
    BY <1>3 DEF Cells
  <2>2. destination'[i] = IF i = at THEN c ELSE destination[i]
    BY <1>2, <1>4, <2>1 DEF Written
  <2>3. i # at => i \in 1 .. at - 1
    BY <1>3
  <2> QED
    BY <2>2, <2>3 DEF Written
<1>7. ASSUME NEW cell \in Cells, cell >= at + 1
      PROVE  destination'[cell] = Junk
  <2>1. destination[cell] = Junk
    <3>1. cell >= at
      BY <1>3, <1>7 DEF Cells
    <3> QED
      BY <3>1 DEF Written
  <2>2. cell # at
    BY <1>3, <1>7
  <2> QED
    BY <1>2, <1>4, <2>1, <2>2 DEF Written
<1>8. left' = (call.width - at) % ByteWidth
  <2> DEFINE w == call.width
  <2>1. left = (w - (at - 1)) % 256 /\ w \in 0 .. 12
    BY DEF Written, Known, ByteWidth
  <2>2. left' = (left - 1) % 256
    BY <1>2 DEF ByteWidth
  <2> HIDE DEF w
  <2>3. left' = (w - at) % 256
    BY <1>3, <2>1, <2>2, SMT
  <2> QED
    BY <2>3 DEF w, ByteWidth
<1>9. call'.width > 0 /\ call'.width = call.width /\ (at + 1) - 1 = at
  BY <1>3 DEF Written
<1>10. at' - 1 = at /\ at' \in Nat /\ 1 <= at'
  BY <1>2, <1>3
<1>11. Written'
  BY <1>1, <1>2, <1>3, <1>5, <1>6, <1>7, <1>8, <1>9, <1>10 DEF Written
<1> QED
  BY <1>2, <1>11

LEMMA PutZeroKeeps ==
  ASSUME Known, PutZero
  PROVE  StrInv'
<1>1. Written /\ number = call.value /\ at = 1 /\ number = 0
  BY DEF Known, StrState, PutZero
<1>2. Len(Text) = 1 /\ Text[1] = Zero
  BY <1>1 DEF Known, Parts
<1>3. call' = call /\ Put(Zero) /\ strPc' = "terminate"
  BY DEF PutZero
<1>4. Written' /\ at' = 2
  BY <1>1, <1>2, <1>3, PutWrites
<1>5. IsCall' /\ Text' = Text
  BY <1>3, CallKept
<1>6. at' - 1 = Len(Text')
  BY <1>2, <1>4, <1>5
<1> QED
  BY <1>3, <1>4, <1>5, <1>6 DEF StrInv, StrState, Pcs

LEMMA PutSignKeeps ==
  ASSUME Known, PutSign
  PROVE  StrInv'
<1> DEFINE n == Negated(call.type, call.value)
<1>1. Written /\ Stored /\ number = call.value /\ at = 1 /\ number < 0 /\ digit = 0
  BY DEF Known, StrState, PutSign
<1>2. /\ call' = call /\ Put(Minus) /\ strPc' = "convert" /\ digits' = digits
      /\ digit' = digit /\ number' = n
  BY <1>1 DEF PutSign
<1>3. /\ Text[1] = Minus /\ n \in Int /\ Len(Text) = 1 + Len(Rest(n))
      /\ \A i \in 1 .. Len(Rest(n)) : Text[1 + i] = Rest(n)[i]
  BY <1>1 DEF Known, Parts
<1>4. 1 <= Len(Text) /\ Len(Text) \in Nat
  BY DEF Known, IsText
<1>5. Written' /\ at' = 2
  BY <1>1, <1>2, <1>3, <1>4, PutWrites
<1>6. IsCall' /\ Text' = Text
  BY <1>2, CallKept
<1>7. Stored'
  BY <1>1, <1>2, <1>6 DEF Stored
<1> HIDE DEF n
<1>8. Between'
  <2>1. /\ at' - 1 = 1 /\ digit' = 0 /\ number' = n /\ Text' = Text
    BY <1>1, <1>2, <1>5, <1>6
  <2>2. Rest(number)' = Rest(n)
    BY <2>1 DEF Rest
  <2>3. Len(Rest(n)) + 1 + 0 = Len(Text) /\ 1 + Len(Rest(n)) + 0 = Len(Text)
    BY <1>3, <1>4
  <2> QED
    BY <1>3, <2>1, <2>2, <2>3 DEF Between
<1> QED
  BY <1>2, <1>5, <1>6, <1>7, <1>8 DEF StrInv, StrState, Pcs

LEMMA NoSignKeeps ==
  ASSUME Known, NoSign
  PROVE  StrInv'
<1>1. Written /\ Stored /\ number = call.value /\ at = 1 /\ number > 0 /\ digit = 0
  BY DEF Known, StrState, NoSign
<1>2. /\ UNCHANGED <<call, number, left, digits, digit, destination, at>>
      /\ strPc' = "convert"
  BY DEF NoSign
<1>3. IsCall' /\ Text' = Text
  BY <1>2, CallKept
<1>4. Written' /\ Stored'
  BY <1>1, <1>2, <1>3 DEF Written, Stored
<1>5. /\ number \in Int /\ Len(Text) = 0 + Len(Rest(number))
      /\ \A i \in 1 .. Len(Rest(number)) : Text[0 + i] = Rest(number)[i]
  BY <1>1 DEF Known, Parts
<1>6. Len(Rest(number)) \in Nat
  BY <1>1, <1>5, DecimalIsText DEF Rest
<1>7. Rest(number)' = Rest(number)
  BY <1>2 DEF Rest
<1>8. Between'
  BY <1>1, <1>2, <1>3, <1>5, <1>6, <1>7 DEF Between
<1> QED
  BY <1>2, <1>3, <1>4, <1>8 DEF StrInv, StrState, Pcs

\* The lowest digit goes from what is between to what is stored.
LEMMA ConvertKeeps ==
  ASSUME Known, Convert
  PROVE  StrInv'
<1> DEFINE l == Len(Text)
           k == number \div 10
           r == Rest(number)
           q == Rest(k)
           c == number % 10
<1>1. Written /\ Stored /\ Between
  BY DEF Known, StrState, Convert
<1>2. /\ call' = call /\ strPc' = "convert" /\ left' = left /\ destination' = destination
      /\ at' = at /\ digits' = [digits EXCEPT ![digit + 1] = c]
      /\ digit' = digit + 1 /\ number' = k
  BY DEF Convert
<1>3. number \in Nat \ {0}
  BY <1>1 DEF Between, Convert
<1>4. /\ q \in Seq(Codes) /\ Len(r) = Len(q) + 1 /\ r[Len(r)] = Zero + c
      /\ \A i \in 1 .. Len(q) : r[i] = q[i]
  BY <1>3, RestShrinks
<1>5. k \in Nat
  BY <1>3
<1>6. /\ l \in Nat /\ l <= 11 /\ at - 1 + Len(r) + digit = l
      /\ \A i \in 1 .. Len(r) : Text[at - 1 + i] = r[i]
  <2>1. l \in Nat /\ l <= call.type.max_size /\ call.type.max_size \in 1 .. 11
    BY DEF Known, IsText
  <2> DEFINE m == call.type.max_size
  <2>2. l <= 11
    <3>1. l \in Nat /\ l <= m /\ m \in 1 .. 11
      BY <2>1
    <3> HIDE DEF m, l
    <3> QED
      BY <3>1
  <2> QED
    BY <1>1, <2>1, <2>2 DEF Between
<1>7. IsCall' /\ Text' = Text
  BY <1>2, CallKept
<1>8. Written'
  BY <1>1, <1>2, <1>7 DEF Written
<1> HIDE DEF l, k, r, q, c
<1>9. /\ Len(q) \in Nat /\ at \in Nat /\ 1 <= at /\ digit \in Nat
      /\ digits = [d \in 1 .. 12 |-> digits[d]]
      /\ \A i \in 1 .. digit : Zero + digits[i] = Text[l + 1 - i]
  <2>1. Len(q) \in Nat
    BY <1>4
  <2>2. at \in Nat /\ 1 <= at
    BY <1>1 DEF Written
  <2>3. /\ digit \in Nat /\ digits = [d \in 1 .. 12 |-> digits[d]]
        /\ \A i \in 1 .. digit : Zero + digits[i] = Text[l + 1 - i]
    BY <1>1 DEF Stored, l
  <2> QED
    BY <2>1, <2>2, <2>3
<1>10. /\ digit + 1 \in 1 .. 11 /\ digit + 1 <= l
       /\ at - 1 + Len(r) = l + 1 - (digit + 1)
       /\ at - 1 + Len(q) + (digit + 1) = l
  <2> DEFINE x == Len(r)
             y == Len(q)
  <2>1. /\ x = y + 1 /\ l \in Nat /\ l <= 11 /\ at - 1 + x + digit = l
        /\ y \in Nat /\ at \in Nat /\ 1 <= at /\ digit \in Nat
    BY <1>4, <1>6, <1>9
  <2> HIDE DEF x, y
  <2>2. /\ digit + 1 \in 1 .. 11 /\ digit + 1 <= l
        /\ at - 1 + x = l + 1 - (digit + 1) /\ at - 1 + y + (digit + 1) = l
    BY <2>1
  <2> QED
    BY <2>2 DEF x, y
<1>11. Stored'
  <2>1. digits' = [d \in 1 .. 12 |-> digits'[d]]
    BY <1>2, <1>9
  <2>2. ASSUME NEW i \in 1 .. digit + 1
        PROVE  Zero + digits'[i] = Text[l + 1 - i]
    <3>1. i \in 1 .. 12
      BY <1>10
    <3>2. digits'[i] = IF i = digit + 1 THEN c ELSE digits[i]
      BY <1>2, <1>9, <1>10, <3>1
    <3>3. CASE i = digit + 1
      <4>1. Len(r) \in 1 .. Len(r)
        BY <1>4, <1>9
      <4>2. Text[at - 1 + Len(r)] = Zero + c
        BY <1>4, <1>6, <4>1
      <4> QED
        BY <1>10, <3>2, <3>3, <4>2
    <3>4. CASE i # digit + 1
      <4>1. i \in 1 .. digit
        BY <1>9, <3>4
      <4> QED
        BY <1>9, <3>2, <3>4, <4>1
    <3> QED
      BY <3>3, <3>4
  <2>3. Text' = Text /\ digit' = digit + 1
    BY <1>2, <1>7
  <2>4. digit' \in Nat /\ digit' <= Len(Text')
    BY <1>10, <2>3 DEF l
  <2>5. \A i \in 1 .. digit' : Zero + digits'[i] = Text'[Len(Text') + 1 - i]
    BY <2>2, <2>3 DEF l
  <2> QED
    BY <2>1, <2>4, <2>5 DEF Stored
<1>12. Between'
  <2>1. number' = k /\ Rest(number)' = q /\ at' = at /\ digit' = digit + 1 /\ Text' = Text
    BY <1>2, <1>7 DEF Rest, q
  <2>2. number' \in Int
    BY <1>5, <2>1
  <2>3. \A i \in 1 .. Len(q) : Text[at - 1 + i] = q[i]
    <3> TAKE i \in 1 .. Len(q)
    <3>1. i \in 1 .. Len(r)
      BY <1>4, <1>9
    <3> QED
      BY <1>4, <1>6, <3>1
  <2>4. at' - 1 + Len(Rest(number)') + digit' = Len(Text')
    BY <1>10, <2>1 DEF l
  <2>5. \A i \in 1 .. Len(Rest(number)') : Text'[at' - 1 + i] = Rest(number)'[i]
    BY <2>1, <2>3
  <2> QED
    BY <2>2, <2>4, <2>5 DEF Between
<1> QED
  BY <1>2, <1>7, <1>8, <1>11, <1>12 DEF StrInv, StrState, Pcs

LEMMA ConvertedKeeps ==
  ASSUME Known, Converted
  PROVE  StrInv'
<1>1. Written /\ Stored /\ Between /\ number <= 0
  BY DEF Known, StrState, Converted
<1>2. /\ UNCHANGED <<call, left, digits, digit, destination, at>> /\ strPc' = "emit"
  BY DEF Converted
<1>3. IsCall' /\ Text' = Text
  BY <1>2, CallKept
<1>4. Written' /\ Stored'
  BY <1>1, <1>2, <1>3 DEF Written, Stored
<1>5. Rest(number) = <<>>
  BY <1>1 DEF Rest, Between
<1>6. at - 1 + 0 + digit = Len(Text) /\ at \in Nat /\ digit \in Nat
  BY <1>1, <1>5 DEF Between, Written, Stored
<1>7. (at - 1 + digit = Len(Text))'
  BY <1>2, <1>3, <1>6
<1> QED
  BY <1>2, <1>3, <1>4, <1>7 DEF StrInv, StrState, Pcs

LEMMA EmitKeeps ==
  ASSUME Known, Emit
  PROVE  StrInv'
<1> DEFINE l == Len(Text)
           c == Zero + digits[digit]
<1>1. Written /\ Stored /\ at - 1 + digit = l /\ digit > 0
  BY DEF Known, StrState, Emit
<1>2. /\ call' = call /\ strPc' = "emit" /\ digits' = digits /\ Put(c)
      /\ digit' = digit - 1
  BY DEF Emit
<1>3. /\ l \in Nat /\ at \in Nat /\ 1 <= at /\ digit \in Nat
      /\ digits = [d \in 1 .. 12 |-> digits[d]]
      /\ \A i \in 1 .. digit : Zero + digits[i] = Text[l + 1 - i]
  <2>1. l \in Nat
    BY DEF Known, IsText
  <2>2. at \in Nat /\ 1 <= at
    BY <1>1 DEF Written
  <2>3. /\ digit \in Nat /\ digits = [d \in 1 .. 12 |-> digits[d]]
        /\ \A i \in 1 .. digit : Zero + digits[i] = Text[l + 1 - i]
    BY <1>1 DEF Stored
  <2> QED
    BY <2>1, <2>2, <2>3
<1>4. c = Text[l + 1 - digit] /\ l + 1 - digit = at /\ at <= l
  <2>1. digit \in 1 .. digit
    BY <1>1, <1>3
  <2>2. c = Text[l + 1 - digit]
    BY <1>3, <2>1
  <2> HIDE DEF l
  <2>3. l + 1 - digit = at /\ at <= l
    BY <1>1, <1>3
  <2> QED
    BY <2>2, <2>3
<1>5. Written' /\ at' = at + 1
  BY <1>1, <1>2, <1>4, PutWrites
<1>6. IsCall' /\ Text' = Text
  BY <1>2, CallKept
<1> HIDE DEF l, c
<1>7. Stored'
  <2>1. Len(Text') = l /\ digit' = digit - 1 /\ Text' = Text /\ digits' = digits
    BY <1>2, <1>6 DEF l
  <2>2. digit' \in Nat /\ digit' <= l
    BY <1>1, <1>3, <2>1
  <2>3. \A i \in 1 .. digit' : Zero + digits[i] = Text[l + 1 - i]
    <3>1. \A i \in 1 .. digit' : i \in 1 .. digit
      BY <1>1, <1>3, <2>1
    <3> QED
      BY <1>3, <3>1
  <2> QED
    BY <1>3, <2>1, <2>2, <2>3 DEF Stored
<1>8. (at - 1 + digit = Len(Text))'
  BY <1>1, <1>2, <1>3, <1>5, <1>6 DEF l
<1> QED
  BY <1>2, <1>5, <1>6, <1>7, <1>8 DEF StrInv, StrState, Pcs

LEMMA EmittedKeeps ==
  ASSUME Known, Emitted
  PROVE  StrInv'
<1>1. Written /\ at - 1 + digit = Len(Text) /\ digit = 0 /\ at \in Nat
  BY DEF Known, StrState, Emitted, Written
<1>2. /\ UNCHANGED <<call, left, destination, at>> /\ strPc' = "terminate"
  BY DEF Emitted
<1>3. IsCall' /\ Text' = Text
  BY <1>2, CallKept
<1>4. Written'
  BY <1>1, <1>2, <1>3 DEF Written
<1>5. (at - 1 = Len(Text))'
  BY <1>1, <1>2, <1>3
<1> QED
  BY <1>2, <1>3, <1>4, <1>5 DEF StrInv, StrState, Pcs

\* width has come to 0 exactly when the text fills it.
LEMMA TerminateKeeps ==
  ASSUME Known, Terminate
  PROVE  StrInv'
<1> DEFINE l == Len(Text)
           w == call.width
<1>1. Written /\ at - 1 = l
  BY DEF Known, StrState, Terminate
<1>2. /\ call' = call /\ strPc' = "text"
      /\ destination' = IF left > 0 THEN [destination EXCEPT ![at] = Nul] ELSE destination
  BY DEF Terminate
<1>3. IsCall' /\ Text' = Text
  BY <1>2, CallKept
<1>4. l \in 1 .. 11
  <2> DEFINE m == call.type.max_size
  <2>1. l \in Nat /\ 1 <= l /\ l <= m /\ m \in 1 .. 11
    BY DEF Known, IsText
  <2> HIDE DEF l, m
  <2> QED
    BY <2>1
<1>5. w \in 1 .. 12 /\ left = (w - l) % 256
  <2>1. w \in 0 .. 12 /\ w > 0 /\ left = (w - (at - 1)) % 256
    BY <1>1 DEF Written, Known, ByteWidth
  <2> HIDE DEF w, l
  <2> QED
    BY <1>1, <2>1
<1>6. /\ at = l + 1 /\ at \in Cells /\ destination \in [Cells -> Int]
      /\ \A i \in 1 .. l : destination[i] = Text[i]
      /\ destination[at] = Junk
  <2>1. at = l + 1
    BY <1>1, <1>4 DEF Written
  <2>2. at \in Cells
    <3> HIDE DEF l
    <3> QED
      BY <1>4, <2>1 DEF Cells
  <2>3. at >= at
    BY <1>4, <2>1
  <2> QED
    BY <1>1, <2>1, <2>2, <2>3 DEF Written
<1> HIDE DEF l, w
<1>7. left > 0 <=> l # w
  BY <1>4, <1>5, SMT
<1>8. /\ destination' \in [Cells -> Int]
      /\ \A i \in 1 .. l : destination'[i] = Text[i]
      /\ destination'[l + 1] = IF l = w THEN Junk ELSE Nul
  <2>1. CASE left > 0
    <3>1. destination' = [destination EXCEPT ![at] = Nul]
      BY <1>2, <2>1
    <3>2. \A i \in 1 .. l : i # at /\ i \in Cells
      BY <1>4, <1>6 DEF Cells
    <3> QED
      BY <1>6, <1>7, <2>1, <3>1, <3>2 DEF Nul
  <2>2. CASE ~ (left > 0)
    BY <1>2, <1>6, <1>7, <2>2
  <2> QED
    BY <2>1, <2>2
<1>9. Whole'
  BY <1>2, <1>3, <1>8 DEF Whole, l, w
<1> QED
  BY <1>2, <1>3, <1>9 DEF StrInv, StrState, Pcs

LEMMA KnownNow ==
  ASSUME TextsFit, StrInv, ~mixed, strPc # "returned"
  PROVE  Known
<1>1. IsCall /\ StrState
  BY DEF StrInv
<1> QED
  BY <1>1, TextKnown DEF Known

\* Before the first digit is stored, or after the last is written, the call has
\* nothing in digits that the handler could change.
LEMMA HandlerKeeps ==
  ASSUME TextsFit, StrInv, HandlerConverts
  PROVE  StrInv'
<1>1. /\ strPc' = strPc /\ strPc \in {"sign", "convert", "emit"}
      /\ mixed' = (mixed \/ digit > 0)
      /\ UNCHANGED <<call, number, left, digit, destination, at>>
  BY DEF HandlerConverts
<1>2. SUFFICES ASSUME ~mixed' PROVE IsCall' /\ StrState'
  BY <1>1 DEF StrInv, Pcs
<1>3. ~mixed /\ ~ (digit > 0)
  BY <1>1, <1>2, Zenon
<1>4. Known
  BY <1>1, <1>3, KnownNow
<1>5. IsCall' /\ Text' = Text
  BY <1>1, <1>4, CallKept
<1>6. Written /\ Stored
  BY <1>1, <1>4 DEF Known, StrState
<1>7. Written'
  BY <1>1, <1>5, <1>6 DEF Written
<1>8. PICK ds \in HandlerDigits :
        digits' = [d \in 1 .. 12 |-> IF d <= Len(ds) THEN ds[d] ELSE digits[d]]
  BY DEF HandlerConverts
<1>9. Stored'
  <2>1. digits' = [d \in 1 .. 12 |-> digits'[d]]
    BY <1>8
  <2>2. digit' \in Nat /\ digit' <= Len(Text') /\ 1 .. digit' = {}
    BY <1>1, <1>3, <1>5, <1>6 DEF Stored
  <2> QED
    BY <2>1, <2>2 DEF Stored
<1>10. strPc = "convert" => Between'
  <2>1. strPc = "convert" => Between
    BY <1>4 DEF Known, StrState
  <2> QED
    BY <1>1, <1>5, <2>1 DEF Between, Rest
<1> QED
  BY <1>1, <1>4, <1>5, <1>7, <1>9, <1>10 DEF StrState, Known

\* A text with its terminator is aligned without a loss.
LEMMA AlignKeeps ==
  ASSUME Known, Align
  PROVE  StrInv'
<1> DEFINE pad(f) == [k \in 1 .. f - Len(Text) |-> Blank]
<1>1. Whole
  BY DEF Known, StrState, Align
<1>2. PICK field \in {0, 3, 6} :
        /\ call' = [call EXCEPT !.field = field]
        /\ \/ destination' = AlignRight(destination, field) /\ strPc' = "right"
           \/ destination' = AlignLeft(destination, field) /\ strPc' = "left"
  BY DEF Align
<1>3. /\ call'.field = field /\ call'.type = call.type /\ call'.value = call.value
      /\ call'.width = call.width /\ IsCall'
  BY <1>2 DEF Known, IsCall
<1>4. Text' = Text
  BY <1>3 DEF Text
<1>5. FieldRight'
  <2>1. SUFFICES ASSUME call.width > Len(Text)
                 PROVE  LET whole == IF strPc' = "left" THEN Text \o pad(field)
                                     ELSE pad(field) \o Text
                        IN  SubSeq(destination', 1, field) = SubSeq(whole, 1, field)
    BY <1>3, <1>4 DEF FieldRight
  <2>2. /\ Text \in Seq(Codes) /\ Len(Text) \in 1 .. 11
    <3> DEFINE l == Len(Text)
               m == call.type.max_size
    <3>1. Text \in Seq(Codes) /\ l \in Nat /\ 1 <= l /\ l <= m /\ m \in 1 .. 11
      BY DEF Known, IsText
    <3> HIDE DEF l, m
    <3>2. l \in 1 .. 11
      BY <3>1
    <3> QED
      BY <3>1, <3>2 DEF l
  <2> DEFINE l == Len(Text)
             w == call.width
  <2>3. w > 0 /\ l # w
    <3>1. w \in 0 .. 12 /\ w > l /\ l \in 1 .. 11
      BY <2>1, <2>2 DEF Known
    <3> HIDE DEF w, l
    <3> QED
      BY <3>1
  <2>4. /\ destination \in [Cells -> Int] /\ \A i \in 1 .. l : destination[i] = Text[i]
        /\ destination[l + 1] = Nul
    BY <1>1, <2>3 DEF Whole
  <2>5. Holds(destination, l)
    <3>1. \A i \in 1 .. l : destination[i] \in Codes
      BY <2>2, <2>4
    <3>2. l \in Nat /\ l + 1 \in Cells
      <4>1. l \in 1 .. 11
        BY <2>2
      <4> HIDE DEF l
      <4> QED
        BY <4>1 DEF Cells
    <3> QED
      BY <2>4, <3>1, <3>2 DEF Holds
  <2>6. field \in 0 .. 12
    OBVIOUS
  <2>7. /\ SubSeq(AlignRight(destination, field), 1, field)
             = SubSeq(pad(field) \o Text, 1, field)
        /\ SubSeq(AlignLeft(destination, field), 1, field)
             = SubSeq(Text \o pad(field), 1, field)
    BY <2>2, <2>4, <2>5, <2>6, FieldIsWhole
  <2> HIDE DEF pad
  <2>8. CASE destination' = AlignRight(destination, field) /\ strPc' = "right"
    <3>1. strPc' # "left"
      BY <2>8
    <3> QED
      BY <2>7, <2>8, <3>1
  <2>9. CASE destination' = AlignLeft(destination, field) /\ strPc' = "left"
    BY <2>7, <2>9
  <2> QED
    BY <1>2, <2>8, <2>9
<1>6. strPc' \in {"left", "right"}
  BY <1>2
<1> QED
  BY <1>3, <1>5, <1>6 DEF StrInv, StrState, Pcs

LEMMA StrInvStep ==
  ASSUME TextsFit, StrInv, [StrNext]_strVars
  PROVE  StrInv'
<1>1. CASE CallItoa
  BY <1>1, CallItoaKeeps
<1>2. CASE HandlerConverts
  BY <1>2, HandlerKeeps
<1>3. CASE Forget
  BY <1>3 DEF Forget, StrInv, Pcs
<1>4. CASE \/ PutZero \/ PutSign \/ NoSign \/ Convert \/ Converted
           \/ Emit \/ Emitted \/ Terminate \/ Align
  <2>1. mixed' = mixed /\ strPc # "returned" /\ strPc' \in Pcs
    BY <1>4 DEF PutZero, PutSign, NoSign, Convert, Converted, Emit, Emitted,
                Terminate, Align, Pcs
  <2>2. CASE mixed'
    BY <2>1, <2>2 DEF StrInv
  <2>3. CASE ~mixed'
    <3>1. Known
      BY <2>1, <2>3, KnownNow
    <3> QED
      BY <1>4, <3>1, PutZeroKeeps, PutSignKeeps, NoSignKeeps, ConvertKeeps,
         ConvertedKeeps, EmitKeeps, EmittedKeeps, TerminateKeeps, AlignKeeps
  <2> QED
    BY <2>2, <2>3
<1>5. CASE UNCHANGED strVars
  <2>1. /\ call' = call /\ strPc' = strPc /\ number' = number /\ left' = left
        /\ digits' = digits /\ digit' = digit /\ destination' = destination
        /\ at' = at /\ mixed' = mixed
    BY <1>5 DEF strVars
  <2>2. IsCall' = IsCall /\ Text' = Text /\ Rest(number)' = Rest(number)
    BY <2>1 DEF IsCall, Text, Rest
  <2>3. Written' = Written /\ Stored' = Stored
    BY <2>1, <2>2 DEF Written, Stored
  <2>4. Between' = Between /\ Whole' = Whole
    BY <2>1, <2>2 DEF Between, Whole
  <2>5. FieldRight' = FieldRight
    BY <2>1, <2>2 DEF FieldRight
  <2>6. StrState' = StrState
    BY <2>1, <2>2, <2>3, <2>4, <2>5 DEF StrState
  <2> QED
    BY <2>1, <2>2, <2>6 DEF StrInv, Pcs
<1> QED
  BY <1>1, <1>2, <1>3, <1>4, <1>5 DEF StrNext

LEMMA StrInvHolds ==
  ASSUME TextsFit, StrInv
  PROVE  TextStaysWhole
<1>1. TextRight
  <2> SUFFICES ASSUME strPc = "text", call.width > 0, ~mixed
               PROVE  /\ SubSeq(destination, 1, Len(Text)) = Text
                      /\ destination[Len(Text) + 1]
                           = (IF Len(Text) = call.width THEN Junk ELSE Nul)
                      /\ call.width > call.type.max_size =>
                           Printed(destination) = Text /\ Len(Text) < call.width
    BY DEF TextRight
  <2> DEFINE l == Len(Text)
             w == call.width
             m == call.type.max_size
  <2>1. Known /\ Whole
    BY KnownNow DEF StrInv, StrState
  <2>2. Text \in Seq(Codes) /\ l \in Nat /\ 1 <= l /\ l <= m /\ m \in 1 .. 11
        /\ w \in 0 .. 12
    BY <2>1 DEF Known, IsText
  <2>3. /\ destination \in [Cells -> Int] /\ \A i \in 1 .. l : destination[i] = Text[i]
        /\ destination[l + 1] = (IF l = w THEN Junk ELSE Nul)
    BY <2>1 DEF Whole
  <2>4. \A i \in 1 .. l : destination[i] \in Codes
    BY <2>2, <2>3
  <2>5. SubSeq(destination, 1, l) = Text
    <3>1. SubSeq(destination, 1, l) = SubSeq(Text, 1, l)
      <4> HIDE DEF l
      <4> QED
        BY <2>2, <2>3, <2>4, SameStart
    <3>2. SubSeq(Text, 1, l) = Text
      BY <2>2, SubSeqFull
    <3> QED
      BY <3>1, <3>2
  <2>6. ASSUME w > m
        PROVE  Printed(destination) = Text /\ l < w
    <3> HIDE DEF l, w, m
    <3>1. l < w /\ l # w /\ l + 1 \in Cells /\ l < 12
      BY <2>2, <2>6 DEF Cells
    <3>2. Holds(destination, l)
      BY <2>2, <2>3, <2>4, <3>1 DEF Holds
    <3>3. strnlen(destination, 12) = l
      <4>1. 12 \in 0 .. 12
        OBVIOUS
      <4>2. strnlen(destination, 12) = IF l < 12 THEN l ELSE 12
        BY <3>2, <4>1, LengthFound
      <4> QED
        BY <3>1, <4>2
    <3> QED
      BY <2>5, <3>1, <3>3 DEF Printed
  <2> QED
    BY <2>3, <2>5, <2>6
<1>2. FieldRight
  <2>1. CASE strPc \in {"left", "right"} /\ ~mixed
    BY <2>1 DEF StrInv, StrState
  <2>2. CASE ~ (strPc \in {"left", "right"} /\ ~mixed)
    BY <2>2 DEF FieldRight
  <2> QED
    BY <2>1, <2>2
<1> QED
  BY <1>1, <1>2 DEF TextStaysWhole

(***************************************************************************)
(* For every integer type whose longest text has max_size characters and   *)
(* fits the cells, every number and width, and a handler that converts     *)
(* numbers of its own anywhere in UnsafeItoa: a text is whole when it has  *)
(* been made, unless digits of the handler are among its own, and when it  *)
(* has been aligned in its field.                                          *)
(***************************************************************************)
THEOREM TextsStayWhole == ASSUME TextsFit PROVE StrSpec => []TextStaysWhole
<1>1. StrInit => StrInv
  BY StrInvInit
<1>2. StrInv /\ [StrNext]_strVars => StrInv'
  BY StrInvStep
<1>3. StrInv => TextStaysWhole
  BY StrInvHolds
<1> QED
  BY <1>1, <1>2, <1>3, PTL DEF StrSpec

=============================================================================
