----------------------------- MODULE MCOpenFiles -----------------------------
(***************************************************************************)
(* Two files, one of them missing at first, and two descriptors: a file    *)
(* can be open twice, or both at once, and the next open takes the slot    *)
(* past the table.  A page has two cells, so that a write can grow a file  *)
(* within its page, to the next one and past it.                           *)
(* An exit leaves what is open in the tables, and its pages to the next.   *)
(***************************************************************************)
EXTENDS OpenFiles, TLC

MCOnDisk == (1 :> [size |-> 2, blocks |-> 1])

MCSeekOffsets == {-3, 4}

MCOpenFlags == {{"O_RDWR", "O_CREAT"}, {"O_WRONLY", "O_APPEND"}}
==============================================================================
