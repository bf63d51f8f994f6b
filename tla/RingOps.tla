------------------------------ MODULE RingOps ------------------------------
(***************************************************************************)
(* The index arithmetic of avrlibx::RingBuffer (io/ring_buffer.h) for a    *)
(* buffer of n slots.  The code masks with size - 1, size a power of two:  *)
(* on the two's complement integers the 8-bit pointers are promoted to,    *)
(* that is the remainder modulo size, also of a negative difference.       *)
(***************************************************************************)
EXTENDS Integers, Sequences

\* x & (size - 1)
Masked(n, x) == x % n

\* readable(): how many slots are between the read and the write pointer.
Readable(n, r, w) == Masked(n, w - r)

\* A faulty variant: every slot can be filled, and full looks like empty.
WritableAllSlots(n, r, w) == n - Masked(n, w - r)

\* writable(): one slot is always left free, to tell full from empty.
Writable(n, r, w) == Masked(n, r - w - 1)

\* The values in the queue, oldest first.
Contents(n, buf, r, w) ==
  [i \in 1 .. Readable(n, r, w) |-> buf[Masked(n, r + i - 1)]]
=============================================================================
