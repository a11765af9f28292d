----------------------------- MODULE TextBuffer -----------------------------
(***************************************************************************)
(* What a text editor promises: a text and a place in it.  A key inserts   *)
(* one character at the place and steps behind it, removes the character   *)
(* at or before the place, or moves the place.  Once the editor has lost   *)
(* the text (damaged) nothing is promised.                                 *)
(***************************************************************************)
EXTENDS Integers, Sequences

CONSTANT Chars

VARIABLES text, pos, damaged

Init == text \in Seq(Chars) /\ pos = 0 /\ damaged = FALSE

Insert(c) ==
    /\ text' = SubSeq(text, 1, pos) \o <<c>> \o SubSeq(text, pos + 1, Len(text))
    /\ pos' = pos + 1
    /\ UNCHANGED damaged

\* The character behind place p goes, and p is the new place.
Remove(p) ==
    /\ p < Len(text)
    /\ text' = SubSeq(text, 1, p) \o SubSeq(text, p + 2, Len(text))
    /\ pos' = p
    /\ UNCHANGED damaged

Move(p) == pos' = p /\ UNCHANGED <<text, damaged>>

Next ==
    \/ \E c \in Chars : Insert(c)
    \/ \E p \in {pos, pos - 1} \cap Nat : Remove(p)
    \/ \E p \in 0 .. Len(text) : Move(p)
    \/ damaged'

Spec == Init /\ [][Next]_<<text, pos, damaged>>
=============================================================================
