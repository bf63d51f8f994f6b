------------------------------ MODULE MCRingTx ------------------------------
(***************************************************************************)
(* The two buffers a handler empties: a transmit buffer the program fills  *)
(* byte by byte, and the buffer of the LCD it fills with pairs of nibbles. *)
(* The two are never one buffer: which one is meant is chosen at the start.*)
(***************************************************************************)
EXTENDS RingBuffer

VARIABLE use    \* "uart" or "lcd"

txVars == <<vars, use>>

Lcd == INSTANCE RingBuffer WITH ProducerOps <- {"Overwrite2"}

TxInit == Init /\ use \in {"uart", "lcd"}

TxNext == /\ \/ use = "uart" /\ Next
             \/ use = "lcd" /\ Lcd!Next
          /\ UNCHANGED use

\* The fairness of FairSpec.
TxSpec == /\ TxInit /\ [][TxNext]_txVars
          /\ SF_vars(ProducerStep)
          /\ WF_vars(ConsumerStep)
          /\ WF_vars(\E op \in ConsumerOps : ConsumerCall(op))
=============================================================================
