----------------------------- MODULE MCProcesses -----------------------------
(* Fourteen blocks, three programs of one or two pages: the heap can grow   *)
(* over stack and arguments, and what exit() leaves uses memory up.         *)
EXTENDS Processes

MCFrames == 1 .. 14
=============================================================================
