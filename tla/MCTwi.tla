------------------------------- MODULE MCTwi -------------------------------
(***************************************************************************)
(* Small instances of Twi: the input ring has room for four bytes and the  *)
(* output ring for three, and requests ask for up to four bytes, so that a *)
(* request can be refused, fit exactly, or leave room.                     *)
(***************************************************************************)
EXTENDS Twi
=============================================================================
