------------------------------ MODULE MCKeyboard ------------------------------
(***************************************************************************)
(* Keyboard with a file that is full after four records, and up to three   *)
(* in it from the last session.                                            *)
(***************************************************************************)
EXTENDS Keyboard
=============================================================================
