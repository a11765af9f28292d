----------------------------- MODULE FramePool -----------------------------
(***************************************************************************)
(* What the physical memory manager promises its callers, whatever map it  *)
(* keeps: a grant is a run of consecutive blocks nobody holds, and only a  *)
(* block that is held can come back.                                       *)
(***************************************************************************)
EXTENDS Integers

CONSTANT Blocks     \* the blocks of physical memory, a set of integers

VARIABLE holders    \* how many callers hold each block

Init == holders = [b \in Blocks |-> 0]

\* The run from first to last.
Grant(first, last) ==
    /\ first <= last
    /\ \A b \in first .. last : b \in Blocks /\ holders[b] = 0
    /\ holders' = [b \in Blocks |-> IF b \in first .. last THEN 1 ELSE holders[b]]

Release(b) ==
    /\ holders[b] > 0
    /\ holders' = [holders EXCEPT ![b] = @ - 1]

Next ==
    \/ \E first, last \in Blocks : Grant(first, last)
    \/ \E b \in Blocks : Release(b)

Spec == Init /\ [][Next]_holders
=============================================================================
