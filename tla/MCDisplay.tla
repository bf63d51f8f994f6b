----------------------------- MODULE MCDisplay -----------------------------
(***************************************************************************)
(* Small instances of Display: two lines of two characters, where every    *)
(* cell starts or continues a line, on a ring of eight nibbles, which is   *)
(* too full to draw as soon as it holds two commands.                      *)
(***************************************************************************)
EXTENDS Display
=============================================================================
