----------------------------- MODULE MCTwiEeprom -----------------------------
(***************************************************************************)
(* A small instance of TwiEeprom: two chips of two blocks of two bytes.    *)
(* The program uses the addresses 1, 3 and 4: its text of three bytes is   *)
(* over the end of a block from each of them, and from 3 over the end of a *)
(* chip with auto-banking; 4 is then in the second chip.  A byte has two   *)
(* values, so that both bytes of an address count.                         *)
(***************************************************************************)
EXTENDS TwiEeprom

TextsVal == {<<1, 1, 0>>}
=============================================================================
