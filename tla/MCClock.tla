------------------------------- MODULE MCClock -------------------------------
(* The last second of a year, of an hour before noon and of one after, and  *)
(* two updates: each register changes, alone and with all the others, while *)
(* it is read, to midnight, to noon and to tens in BCD.                     *)
EXTENDS Clock

At(y, mo, d, h, mi, s) ==
    [year |-> y, month |-> mo, day |-> d, hour |-> h, minute |-> mi, second |-> s]

MCStartTimes ==
    {At(23, 12, 31, 23, 59, 59), At(24, 2, 29, 11, 59, 59), At(9, 10, 19, 12, 59, 59)}
=============================================================================
