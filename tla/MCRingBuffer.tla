--------------------------- MODULE MCRingBuffer ---------------------------
(***************************************************************************)
(* Small instances of RingBuffer: a buffer of four slots (three values at  *)
(* most) wraps around after a few operations, and is full and empty on     *)
(* every slot.  Which side is the handler, and which operations each side  *)
(* calls, is chosen by the configuration.                                  *)
(***************************************************************************)
EXTENDS RingBuffer

=============================================================================
