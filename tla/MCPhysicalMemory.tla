-------------------------- MODULE MCPhysicalMemory --------------------------
(***************************************************************************)
(* A machine of 17 blocks with words of 3 bits: five whole words that the  *)
(* manager scans and two blocks it does not, memory up to bit 20.  Low     *)
(* memory is usable up to block 8, high memory from block 12 to one block  *)
(* past the manager's last, as total_memory is the last byte's address.    *)
(* The font lies below 12000h and is reserved a second time, as at boot.   *)
(***************************************************************************)
EXTENDS PhysicalMemory

LargeMap == << <<0, 9>>, <<12, 6>> >>

\* The same machine with fewer usable blocks above the reserved areas: the
\* requests of boot are refused, by the scan (three blocks in a row) as by
\* the count.
SmallMap == << <<0, 9>>, <<12, 1>> >>

\* And with so few that the count refuses every request.
TinyMap == << <<0, 5>> >>

MCBiosMaps == {LargeMap, SmallMap, TinyMap}
MCLargeMap == {LargeMap}
MCKernelArea == 12 .. 13
MCFontArea == <<1, 1>>
MCFramebuffer == <<18, 2>>
MCRequests == {1, 4}
=============================================================================
