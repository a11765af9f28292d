----------------------------- MODULE HeapRanges -----------------------------
(***************************************************************************)
(* What malloc() and free() promise: a range of bytes that shares none     *)
(* with the ranges others hold, until it is given back.  A new shell       *)
(* starts over.  Once the list is damaged nothing is promised.             *)
(***************************************************************************)
EXTENDS Integers

VARIABLES held,    \* the ranges that are held: [start, size]
          damaged

Bytes(r) == r.start .. (r.start + r.size - 1)

Init == held = {} /\ damaged = FALSE

Allocate(r) ==
    /\ \A h \in held : Bytes(r) \cap Bytes(h) = {}
    /\ held' = held \cup {r}
    /\ UNCHANGED damaged

Release(r) == held' = held \ {r} /\ UNCHANGED damaged

StartOver == held' = {} /\ UNCHANGED damaged

Next ==
    \/ \E r \in held' : Allocate(r)
    \/ \E r \in held : Release(r)
    \/ StartOver
    \/ damaged'

Spec == Init /\ [][Next]_<<held, damaged>>
=============================================================================
