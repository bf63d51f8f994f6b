----------------------------- MODULE DmaBuffers -----------------------------
(***************************************************************************)
(* Ring buffers that the DMA controller fills or empties (io/dma.h): no    *)
(* handler runs, and the program finds the position of the hardware in the *)
(* counter of the bytes left in the block, of which it reads the low byte. *)
(* The hardware goes round the buffer whatever the program has done.       *)
(***************************************************************************)
EXTENDS RingOps

CONSTANTS Slots,       \* buffer_size, a power of two in the code
          ValueBytes,  \* sizeof(Value)
          DmaByte,     \* 256: TRFCNTL is TRFCNT % DmaByte
          Numbers      \* the values are numbered modulo this, > Slots

\* The position is found in one byte.
ASSUME BlockAssumption ==
  /\ {Slots, ValueBytes, DmaByte, Numbers} \subseteq Nat \ {0}
  /\ Slots * ValueBytes <= DmaByte /\ Numbers > Slots

VARIABLES dir,         \* a DMARxBuffer or a DMATxBuffer?
          dma,         \* external: the channel
          slots,       \* buffer_
          ptr,         \* read_ptr_ (rx), write_ptr_ (tx): the program's own
          caller,      \* the program: idle, spinning, or granted a slot
          line         \* history: numbers made, taken, expected

dmaVars == <<dir, dma, slots, ptr, caller, line>>

\* Init.  The channel repeats the block for ever, or once.
DmaInit ==
  /\ dir \in {"rx", "tx"}
  /\ \E oneShot \in BOOLEAN :
       /\ oneShot => dir = "tx"
       /\ dma = [trfcnt |-> Slots * ValueBytes, enabled |-> FALSE,
                 oneShot |-> oneShot]
  /\ slots = [s \in 0 .. Slots - 1 |-> 0]
  /\ ptr = 0 /\ caller = "idle"
  /\ line = [made |-> 0, taken |-> 0, ahead |-> 0, missed |-> FALSE,
             sent |-> 0, want |-> 0]

\* External: where the hardware is, and a burst of one value.
HardwareAt == (Slots - dma.trfcnt \div ValueBytes) % Slots
Burst ==
  LET left == dma.trfcnt - ValueBytes
  IN dma' = [dma EXCEPT !.trfcnt = IF left = 0 THEN Slots * ValueBytes ELSE left,
                        !.enabled = ~(dma.oneShot /\ left = 0)]
NextNumber(n) == (n + 1) % Numbers

\* External: the peripheral has a value, and DMA stores it.
RxBurst ==
  /\ dir = "rx" /\ dma.enabled /\ Burst
  /\ slots' = [slots EXCEPT ![HardwareAt] = line.made]
  /\ line' = [line EXCEPT !.made = NextNumber(@),
                          !.ahead = IF @ < Slots THEN @ + 1 ELSE @,
                          !.missed = @ \/ line.ahead + 1 >= Slots]
  /\ UNCHANGED <<dir, ptr, caller>>

\* External: the peripheral takes a value, written or not.
TxBurst ==
  /\ dir = "tx" /\ dma.enabled /\ Burst
  /\ line' = [line EXCEPT !.sent = slots[HardwareAt], !.want = line.taken,
                          !.taken = NextNumber(@),
                          !.ahead = IF @ > 0 THEN @ - 1 ELSE @,
                          !.missed = @ \/ line.ahead = 0]
  /\ UNCHANGED <<dir, slots, ptr, caller>>

-----------------------------------------------------------------------------
(* The program.                                                            *)

\* The position the program sees, in readable() and in writable().
PositionSizeless == Slots - (dma.trfcnt % DmaByte)          \* faulty: in bytes
Position == Slots - (dma.trfcnt % DmaByte) \div ValueBytes

Start == /\ ~dma.enabled /\ dma' = [dma EXCEPT !.enabled = TRUE]
         /\ UNCHANGED <<dir, slots, ptr, caller, line>>

Stop == /\ dma.enabled /\ dma' = [dma EXCEPT !.enabled = FALSE]
        /\ UNCHANGED <<dir, slots, ptr, caller, line>>

\* Read and Write: while (!readable()), while (!writable()).
Granted == IF dir = "rx" THEN Readable(Slots, ptr, Position) > 0
                         ELSE Writable(Slots, Position, ptr) > 0
Call ==
  /\ caller \in {"idle", "spin"}
  /\ caller' = IF Granted THEN "granted" ELSE "spin"
  /\ UNCHANGED <<dir, dma, slots, ptr, line>>

ImmediateRead ==
  /\ dir = "rx" /\ caller = "granted" /\ caller' = "idle"
  /\ ptr' = Masked(Slots, ptr + 1)
  /\ line' = [line EXCEPT !.sent = slots[ptr], !.want = line.taken,
                          !.taken = NextNumber(@), !.ahead = @ - 1]
  /\ UNCHANGED <<dir, dma, slots>>

Overwrite ==
  /\ dir = "tx" /\ caller = "granted" /\ caller' = "idle"
  /\ slots' = [slots EXCEPT ![ptr] = line.made]
  /\ ptr' = Masked(Slots, ptr + 1)
  /\ line' = [line EXCEPT !.made = NextNumber(@), !.ahead = IF @ < Slots THEN @ + 1 ELSE @]
  /\ UNCHANGED <<dir, dma>>

DmaNext == RxBurst \/ TxBurst \/ Start \/ Stop \/ Call \/ ImmediateRead \/ Overwrite

DmaSpec == DmaInit /\ [][DmaNext]_dmaVars

-----------------------------------------------------------------------------
(* Properties.                                                             *)

\* Every value goes through the buffer, once, in order: the program reads
\* those the peripheral made as long as it never lags by a whole buffer, and
\* the peripheral takes those the program wrote as long as it never catches
\* up with it.
DmaInOrder == ~line.missed => line.sent = line.want

\* The program never waits for a value that is there, or for room there is.
DmaNeverStuck ==
  ~line.missed => Granted = IF dir = "rx" THEN line.ahead > 0
                                          ELSE line.ahead < Slots - 1

\* The two together: DMA and the program share a queue.
DmaIsAQueue == DmaInOrder /\ DmaNeverStuck
=============================================================================
