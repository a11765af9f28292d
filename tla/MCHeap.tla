------------------------------- MODULE MCHeap -------------------------------
(***************************************************************************)
(* Pages of 8 bytes and headers of 2, so that a page is a few small blocks *)
(* and a request can be for what is left to the byte; one size is beyond   *)
(* what num_pages can count, which is 3 pages here.                        *)
(***************************************************************************)
EXTENDS Heap

MCSizes == {0, 1, 2, 6, 40}
=============================================================================
