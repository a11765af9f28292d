-------------------------- MODULE Processes_proofs --------------------------
(***************************************************************************)
(* Theorems about the life of programs, for every number of physical       *)
(* blocks, every size of the programs and every growth of their heaps.     *)
(***************************************************************************)
EXTENDS Processes, FiniteSetTheorems, TLAPS

-----------------------------------------------------------------------------
(* Sets of naturals: least and greatest elements, and induction            *)

\* Every set of naturals that is not empty has a least element.
LEMMA LeastElement ==
    ASSUME NEW T, T \subseteq Nat, T # {}
    PROVE  \E n \in T : \A m \in T : n <= m
<1> DEFINE R == StrictSubsetOrdering(Nat)
           I == {0 .. n : n \in T}
<1>1. IsWellFoundedOn(R, FiniteSubsetsOf(Nat))
  BY FS_StrictSubsetOrderingWellFounded
<1>2. I \subseteq FiniteSubsetsOf(Nat) /\ I # {}
  <2>1. \A n \in T : IsFiniteSet(0 .. n) /\ 0 .. n \in SUBSET Nat
    BY FS_Interval
  <2> QED BY <2>1 DEF FiniteSubsetsOf
<1>3. PICK x \in I : \A y \in I : ~ (<<y, x>> \in R)
  <2> HIDE DEF I, R
  <2> QED BY <1>1, <1>2, WFMin
<1>4. PICK n \in T : x = 0 .. n
  BY <1>3
<1>5. ASSUME NEW m \in T, ~ (n <= m) PROVE FALSE
  <2>1. 0 .. m \subseteq 0 .. n /\ 0 .. m # 0 .. n
    BY <1>5
  <2>2. <<0 .. m, x>> \in R
    BY <2>1, <1>4 DEF StrictSubsetOrdering
  <2> QED BY <2>2, <1>3
<1> QED BY <1>5

\* Induction, with a set for what is proved of each number.
LEMMA Induction ==
    ASSUME NEW T, 0 \in T, \A n \in Nat : n \in T => n + 1 \in T
    PROVE  Nat \subseteq T
<1> SUFFICES ASSUME Nat \ T # {} PROVE FALSE
  OBVIOUS
<1>1. PICK n \in Nat \ T : \A m \in Nat \ T : n <= m
  BY LeastElement
<1> QED BY <1>1

\* Min() of FiniteSetsExt is what its name says.
LEMMA MinOfSet ==
    ASSUME NEW S, S \subseteq Nat, S # {}
    PROVE  Min(S) \in S /\ \A n \in S : Min(S) <= n
<1>1. \E n \in S : \A m \in S : n <= m
  BY LeastElement
<1> QED BY <1>1 DEF Min

\* Max() is too, of a finite set: it has a bound, and the least bound is in it.
LEMMA MaxOfSet ==
    ASSUME NEW S, S \subseteq Nat, S # {}, IsFiniteSet(S)
    PROVE  Max(S) \in S /\ \A n \in S : n <= Max(S)
<1> DEFINE R == StrictSubsetOrdering(S)
           I == {S \ (0 .. n) : n \in Nat}
<1>1. IsWellFoundedOn(R, FiniteSubsetsOf(S))
  BY FS_StrictSubsetOrderingWellFounded
<1>2. I \subseteq FiniteSubsetsOf(S) /\ I # {}
  <2>1. \A n \in Nat : IsFiniteSet(S \ (0 .. n))
    BY FS_Subset
  <2> QED BY <2>1 DEF FiniteSubsetsOf
<1>3. PICK x \in I : \A y \in I : ~ (<<y, x>> \in R)
  <2> HIDE DEF I, R
  <2> QED BY <1>1, <1>2, WFMin
<1>4. PICK b \in Nat : x = S \ (0 .. b)
  BY <1>3
<1>5. \A m \in S : m <= b
  <2> SUFFICES ASSUME NEW m \in S, ~ (m <= b) PROVE FALSE
    OBVIOUS
  <2>1. S \ (0 .. m) \subseteq x /\ m \in x /\ m \notin S \ (0 .. m)
    BY <1>4
  <2>2. <<S \ (0 .. m), x>> \in R
    BY <2>1, <1>4 DEF StrictSubsetOrdering
  <2> QED BY <2>2, <1>3
<1>6. PICK t \in {n \in Nat : \A m \in S : m <= n} :
                 \A u \in {n \in Nat : \A m \in S : m <= n} : t <= u
  BY <1>5, LeastElement
<1>7. t \in S
  <2> SUFFICES ASSUME t \notin S PROVE FALSE
    OBVIOUS
  <2>0. t \in Nat /\ \A m \in S : m \in Nat /\ m <= t /\ m # t
    BY <1>6
  <2>1. \A m \in S : m <= t - 1
    BY <2>0
  <2>2. PICK m \in S : m \in Nat /\ m <= t - 1
    BY <2>0, <2>1
  <2>3. t <= t - 1
    BY <2>0, <2>1, <2>2, <1>6
  <2> QED BY <2>0, <2>3
<1>8. \E u \in S : \A v \in S : u >= v
  BY <1>6, <1>7
<1> QED BY <1>8 DEF Max

-----------------------------------------------------------------------------
(* Memory: the bitmap and the page table stay apart, whatever is mapped.   *)

Mems == [free : SUBSET (Frames \cup {0}),
         table : Frames \cup {None},
         map : [Pages -> Frames \cup {0, None}]]

\* No block is free and in use, or in use twice; kept are blocks that are in
\* use elsewhere.
Apart(m, kept) ==
    /\ m \in Mems
    /\ m.free # {}
    /\ kept \subseteq Frames \cup {0}
    /\ kept \cap m.free = {}
    /\ m.table \notin m.free \cup kept
    /\ \A p \in Pages : m.map[p] \notin {None, 0} => m.map[p] \notin m.free \cup kept \cup {m.table}
    /\ \A p, q \in Pages : p # q /\ m.map[p] = m.map[q] => m.map[p] \in {None, 0}

LEMMA FreeFinite ==
    ASSUME NEW m \in Mems
    PROVE  /\ m.free \subseteq Nat
           /\ IsFiniteSet(m.free)
           /\ Cardinality(m.free) \in Nat
           /\ Frames \subseteq Nat \ {0}
<1>1. Frames \subseteq Nat \ {0} /\ IsFiniteSet(Frames)
  BY SizesAssumption
<1>2. IsFiniteSet(Frames \cup {0})
  BY <1>1, FS_AddElement
<1>3. m.free \in SUBSET (Frames \cup {0})
  BY DEF Mems
<1>4. IsFiniteSet(m.free)
  BY <1>2, <1>3, FS_Subset
<1>5. Cardinality(m.free) \in Nat
  BY <1>4, FS_CardinalityType
<1>6. m.free \subseteq Nat
  <2>1. Frames \cup {0} \subseteq Nat
    BY <1>1
  <2> QED BY <1>3, <2>1
<1> QED BY <1>1, <1>4, <1>5, <1>6

\* allocate_blocks(1) that is not refused: the block is in use from now on.
LEMMA TakeOne ==
    ASSUME NEW m, NEW kept, Apart(m, kept), ~Refuses(m)
    PROVE  /\ FirstFree(m) \in m.free
           /\ 0 \in m.free => FirstFree(m) = 0
           /\ 0 \notin Taken(m).free
           /\ Apart(Taken(m), kept \cup {FirstFree(m)})
           /\ Cardinality(Taken(m).free) = Cardinality(m.free) - 1
           /\ Taken(m).table = m.table /\ Taken(m).map = m.map
<1>1. /\ m.free \subseteq Nat /\ IsFiniteSet(m.free) /\ Cardinality(m.free) \in Nat
      /\ Cardinality(m.free) > 1 /\ m.free # {}
  BY FreeFinite DEF Apart, Refuses
<1>2. FirstFree(m) = Min(m.free)
  BY DEF FirstFree
<1>3. FirstFree(m) \in m.free /\ \A n \in m.free : FirstFree(m) <= n
  BY <1>1, <1>2, MinOfSet
<1>4. Taken(m) = [m EXCEPT !.free = m.free \ {FirstFree(m)}]
  BY DEF Taken
<1>5. Cardinality(m.free \ {FirstFree(m)}) = Cardinality(m.free) - 1
  BY <1>1, <1>3, FS_RemoveElement
<1>6. m.free \ {FirstFree(m)} # {}
  BY <1>1, <1>5, FS_EmptySet
<1> DEFINE x == FirstFree(m)
<1> HIDE DEF x
<1>7. Taken(m) = [free |-> m.free \ {x}, table |-> m.table, map |-> m.map]
  BY <1>4 DEF x, Apart, Mems
<1>8. x \in m.free /\ (0 \in m.free => x = 0) /\ x \in Frames \cup {0}
  BY <1>1, <1>3 DEF x, Apart, Mems
<1>9. Apart(Taken(m), kept \cup {x})
  BY <1>6, <1>7, <1>8 DEF Apart, Mems, x
<1> QED BY <1>3, <1>5, <1>7, <1>8, <1>9 DEF x

\* map_address() of a block nobody else uses.
LEMMA MapOne ==
    ASSUME NEW m, NEW kept, NEW x, NEW p \in Pages, x # 0, x \notin kept,
           Apart(m, kept \cup {x})
    PROVE  /\ Apart([m EXCEPT !.map[p] = x], kept)
           /\ [m EXCEPT !.map[p] = x].map = [m.map EXCEPT ![p] = x]
           /\ [m EXCEPT !.map[p] = x].free = m.free
           /\ [m EXCEPT !.map[p] = x].table = m.table
<1> DEFINE n == [m EXCEPT !.map[p] = x]
<1>1. m \in Mems /\ x \in Frames \cup {0}
  BY DEF Apart
<1>2. n = [free |-> m.free, table |-> m.table, map |-> [m.map EXCEPT ![p] = x]]
  BY <1>1 DEF Mems
<1>3. n.free = m.free /\ n.table = m.table /\ n.map = [m.map EXCEPT ![p] = x]
  BY <1>2
<1> HIDE DEF n
<1>4. \A q \in Pages : n.map[q] = IF q = p THEN x ELSE m.map[q]
  BY <1>1, <1>2 DEF Mems
<1>5. n \in Mems
  BY <1>1, <1>2 DEF Mems
<1>6. /\ kept \cap m.free = {} /\ x \notin m.free /\ m.free # {}
      /\ m.table \notin m.free \cup kept \cup {x}
      /\ kept \subseteq Frames \cup {0}
  BY DEF Apart
<1>7. \A q \in Pages : m.map[q] \notin {None, 0} =>
          m.map[q] \notin m.free \cup kept \cup {m.table, x}
  BY DEF Apart
<1>8. \A q \in Pages : n.map[q] \notin {None, 0} =>
          n.map[q] \notin n.free \cup kept \cup {n.table}
  BY <1>2, <1>4, <1>6, <1>7
<1>9. \A q, r \in Pages : q # r /\ m.map[q] = m.map[r] => m.map[q] \in {None, 0}
  BY DEF Apart
<1>10. x # None
  BY <1>1, SizesAssumption DEF None
<1>11. \A q, r \in Pages : q # r /\ n.map[q] = n.map[r] => n.map[q] \in {None, 0}
  BY <1>4, <1>7, <1>9, <1>10
<1>12. Apart(n, kept)
  BY <1>3, <1>5, <1>6, <1>8, <1>11 DEF Apart
<1> QED BY <1>3, <1>12 DEF n

\* map_address() of block 0, which is what was answered when memory is full.
LEMMA MapZero ==
    ASSUME NEW m, NEW kept, NEW p \in Pages, 0 \notin kept, Apart(m, kept)
    PROVE  /\ Apart([m EXCEPT !.map[p] = 0], kept)
           /\ [m EXCEPT !.map[p] = 0].map = [m.map EXCEPT ![p] = 0]
           /\ [m EXCEPT !.map[p] = 0].free = m.free
           /\ [m EXCEPT !.map[p] = 0].table = m.table
<1> DEFINE n == [m EXCEPT !.map[p] = 0]
<1>1. m \in Mems
  BY DEF Apart
<1>2. n = [free |-> m.free, table |-> m.table, map |-> [m.map EXCEPT ![p] = 0]]
  BY <1>1 DEF Mems
<1>3. n.free = m.free /\ n.table = m.table /\ n.map = [m.map EXCEPT ![p] = 0]
  BY <1>2
<1> HIDE DEF n
<1>4. \A q \in Pages : n.map[q] = IF q = p THEN 0 ELSE m.map[q]
  BY <1>1, <1>2 DEF Mems
<1>5. n \in Mems
  BY <1>1, <1>2 DEF Mems
<1>6. \A q \in Pages : n.map[q] \notin {None, 0} =>
          n.map[q] \notin n.free \cup kept \cup {n.table}
  BY <1>2, <1>4 DEF Apart
<1>7. \A q, r \in Pages : q # r /\ n.map[q] = n.map[r] => n.map[q] \in {None, 0}
  BY <1>4 DEF Apart
<1>8. Apart(n, kept)
  BY <1>3, <1>5, <1>6, <1>7 DEF Apart
<1> QED BY <1>3, <1>8 DEF n

\* create_page_table(): a block of its own for a table with nothing in it.
LEMMA TableOne ==
    ASSUME NEW m, NEW kept, NEW x \in Frames, Apart(m, kept \cup {x}), x \notin kept
    PROVE  Apart([free |-> m.free, table |-> x, map |-> NoPages], kept)
BY DEF Apart, Mems, NoPages

\* A block that was in use elsewhere is given back.
LEMMA GiveBack ==
    ASSUME NEW m, NEW kept, NEW xs, Apart(m, kept \cup xs), xs \cap kept = {}
    PROVE  /\ Apart([m EXCEPT !.free = @ \cup xs], kept)
           /\ [m EXCEPT !.free = @ \cup xs]
                = [free |-> m.free \cup xs, table |-> m.table, map |-> m.map]
<1> DEFINE n == [free |-> m.free \cup xs, table |-> m.table, map |-> m.map]
<1>0. m \in Mems
  BY DEF Apart
<1>1. [m EXCEPT !.free = @ \cup xs] = n
  BY <1>0 DEF Mems
<1>2. n \in Mems /\ kept \subseteq Frames \cup {0}
  BY DEF Apart, Mems
<1>3. m.table \notin m.free \cup (kept \cup xs) /\ kept \cap (m.free \cup xs) = {}
      /\ m.free # {}
  BY DEF Apart
<1>4. \A p \in Pages :
          m.map[p] \notin {None, 0} => m.map[p] \notin (m.free \cup xs) \cup kept \cup {m.table}
  BY DEF Apart
<1>5. \A p, q \in Pages : p # q /\ m.map[p] = m.map[q] => m.map[p] \in {None, 0}
  BY DEF Apart
<1>6. n.free = m.free \cup xs /\ n.table = m.table /\ n.map = m.map
  OBVIOUS
<1> HIDE DEF n
<1>7. Apart(n, kept)
  BY <1>2, <1>3, <1>4, <1>5, <1>6 DEF Apart
<1> QED BY <1>1, <1>7 DEF n

\* Blocks that are no longer in use elsewhere can only help.
LEMMA ApartWeaker ==
    ASSUME NEW m, NEW kept, NEW xs, Apart(m, kept \cup xs)
    PROVE  Apart(m, kept)
BY DEF Apart

\* allocate_blocks(1) and map_address(): when the page table has to be made
\* too, there are blocks for both.
LEMMA MapNewApart ==
    ASSUME NEW m, NEW kept, NEW p \in Pages, Apart(m, kept), 0 \notin kept,
           0 \in m.free => ~Refuses(m),
           m.table = None => Cardinality(m.free) > 2
    PROVE  /\ Apart(MapNew(m, p), kept)
           /\ MapNew(m, p).table \in Frames
           /\ 0 \notin MapNew(m, p).free
           /\ MapNew(m, p).map[p] = FirstFree(m)
           /\ FirstFree(m) \in Frames \cup {0}
           /\ m.table # None => /\ MapNew(m, p).table = m.table
                                /\ MapNew(m, p).map = [m.map EXCEPT ![p] = FirstFree(m)]
<1> DEFINE x == FirstFree(m)
           t == Taken(m)
           w == WithTable(t)
<1>1. MapNew(m, p) = [w EXCEPT !.map[p] = x]
  BY DEF MapNew
<1>2. m \in Mems /\ m.map \in [Pages -> Frames \cup {0, None}]
  BY DEF Apart, Mems
<1>3. CASE Refuses(m)
  <2>1. t = m /\ w = m /\ x = 0 /\ m.table \in Frames
    <3>1. m.table # None
      BY <1>2, <1>3, FreeFinite DEF Refuses
    <3>2. Taken(m) = m /\ FirstFree(m) = 0
      BY <1>3 DEF Taken, FirstFree
    <3> QED BY <1>2, <3>1, <3>2 DEF WithTable, Mems
  <2> HIDE DEF t, w, x
  <2>2. /\ Apart([m EXCEPT !.map[p] = 0], kept)
        /\ [m EXCEPT !.map[p] = 0].map = [m.map EXCEPT ![p] = 0]
        /\ [m EXCEPT !.map[p] = 0].free = m.free
        /\ [m EXCEPT !.map[p] = 0].table = m.table
    BY MapZero
  <2> QED BY <1>1, <1>2, <1>3, <2>1, <2>2 DEF x
<1>4. CASE ~Refuses(m)
  <2>1. /\ x \in m.free /\ 0 \notin t.free
        /\ Apart(t, kept \cup {x})
        /\ Cardinality(t.free) = Cardinality(m.free) - 1
        /\ t.table = m.table /\ t.map = m.map
    BY <1>4, TakeOne
  <2>2. x \notin kept /\ x \in Frames \cup {0}
    BY <1>2, <2>1 DEF Apart, Mems
  <2> HIDE DEF x, t
  <2>3. CASE m.table # None
    <3>1. w = t /\ t.table \in Frames
      BY <1>2, <2>1, <2>3 DEF WithTable, Mems
    <3>2. Apart(t, kept)
      BY <2>1, ApartWeaker
    <3> HIDE DEF w
    <3>3. /\ Apart([t EXCEPT !.map[p] = x], kept)
          /\ [t EXCEPT !.map[p] = x].map = [t.map EXCEPT ![p] = x]
          /\ [t EXCEPT !.map[p] = x].free = t.free
          /\ [t EXCEPT !.map[p] = x].table = t.table
      <4>1. CASE x # 0
        <5>1. x \notin kept
          BY <2>2
        <5>2. Apart(t, kept \cup {x})
          BY <2>1
        <5> QED BY <4>1, <5>1, <5>2, MapOne
      <4>2. CASE x = 0
        BY <3>2, <4>2, MapZero
      <4> QED BY <4>1, <4>2
    <3> QED BY <1>1, <1>2, <2>1, <2>2, <3>1, <3>3 DEF x
  <2>4. CASE m.table = None
    <3> DEFINE y == FirstFree(t)
               u == Taken(t)
    <3>1. ~Refuses(t)
      BY <1>2, <2>1, <2>4, FreeFinite DEF Refuses
    <3>2. /\ y \in t.free /\ 0 \notin u.free
          /\ Apart(u, (kept \cup {x}) \cup {y})
          /\ u.map = t.map
      BY <2>1, <3>1, TakeOne
    <3>3. y \in Frames /\ y \notin kept \cup {x}
      BY <2>1, <3>2 DEF Apart, Mems
    <3>4. w = [free |-> u.free, table |-> y, map |-> NoPages]
      BY <2>1, <2>4 DEF WithTable
    <3> HIDE DEF y, u, w
    <3>5. Apart(w, kept \cup {x})
      BY <3>2, <3>3, <3>4, TableOne
    <3>6. Apart(w, kept)
      BY <3>5, ApartWeaker
    <3>7. /\ Apart([w EXCEPT !.map[p] = x], kept)
          /\ [w EXCEPT !.map[p] = x].map = [w.map EXCEPT ![p] = x]
          /\ [w EXCEPT !.map[p] = x].free = w.free
          /\ [w EXCEPT !.map[p] = x].table = w.table
      <4>1. CASE x # 0
        <5>1. x \notin kept
          BY <2>2
        <5> QED BY <3>5, <4>1, <5>1, MapOne
      <4>2. CASE x = 0
        BY <3>6, <4>2, MapZero
      <4> QED BY <4>1, <4>2
    <3>8. w.free = u.free /\ w.table = y /\ w.map = NoPages
      BY <3>4
    <3>9. [w.map EXCEPT ![p] = x][p] = x
      BY <3>8 DEF NoPages
    <3> QED BY <1>1, <2>2, <2>4, <3>2, <3>3, <3>7, <3>8, <3>9 DEF x
  <2> QED BY <2>3, <2>4
<1> QED BY <1>3, <1>4

\* The recursive function in MapPages() satisfies its equation.
LEMMA MapPagesEquation ==
    ASSUME NEW m, NEW first \in Nat, NEW last \in Nat
    PROVE  \E f : /\ f = [p \in first - 1 .. last |->
                             IF p < first THEN m ELSE MapNew(f[p - 1], p)]
                  /\ MapPages(m, first, last) = f[last]
<1> DEFINE Step(f, p) == IF p < first THEN m ELSE MapNew(f[p - 1], p)
           T == {k \in Nat : \E f : f = [p \in first - 1 .. first - 1 + k |-> Step(f, p)]}
<1>1. 0 \in T
  <2> DEFINE f == [p \in first - 1 .. first - 1 + 0 |-> m]
  <2>1. f = [p \in first - 1 .. first - 1 + 0 |-> Step(f, p)]
    OBVIOUS
  <2> QED BY <2>1
<1>2. ASSUME NEW k \in Nat, k \in T PROVE k + 1 \in T
  <2>1. PICK f : f = [p \in first - 1 .. first - 1 + k |-> Step(f, p)]
    BY <1>2
  <2> DEFINE g == [p \in first - 1 .. first - 1 + (k + 1) |-> Step(f, p)]
  <2>2. \A p \in first - 1 .. first - 1 + k : g[p] = f[p]
    BY <2>1
  <2>3. ASSUME NEW p \in first - 1 .. first - 1 + (k + 1) PROVE Step(g, p) = Step(f, p)
    <3>1. CASE p < first
      BY <3>1
    <3>2. CASE ~ (p < first)
      <4>1. p - 1 \in first - 1 .. first - 1 + k
        BY <3>2
      <4>2. g[p - 1] = f[p - 1]
        BY <2>2, <4>1
      <4> QED BY <3>2, <4>2
    <3> QED BY <3>1, <3>2
  <2>4. g = [p \in first - 1 .. first - 1 + (k + 1) |-> Step(f, p)]
    OBVIOUS
  <2>5. g = [p \in first - 1 .. first - 1 + (k + 1) |-> Step(g, p)]
    <3> HIDE DEF Step, g
    <3> QED BY <2>3, <2>4
  <2> HIDE DEF Step, g
  <2> QED BY <2>5
<1>3. \E f : f = [p \in first - 1 .. last |-> Step(f, p)]
  <2>1. CASE last < first - 1
    <3> DEFINE f == [p \in first - 1 .. last |-> m]
    <3>1. f = [p \in first - 1 .. last |-> Step(f, p)]
      BY <2>1
    <3> QED BY <3>1
  <2>2. CASE ~ (last < first - 1)
    <3>1. last - (first - 1) \in Nat
      BY <2>2
    <3>2. last - (first - 1) \in T
      <4> HIDE DEF T
      <4> QED BY <1>1, <1>2, <3>1, Induction
    <3>3. first - 1 + (last - (first - 1)) = last
      OBVIOUS
    <3> QED BY <3>2, <3>3
  <2> QED BY <2>1, <2>2
<1> QED BY <1>3 DEF MapPages

\* What it answers, page by page.
LEMMA MapPagesApart ==
    ASSUME NEW m, NEW kept, NEW first \in Nat \ {0}, NEW last \in Nat,
           first <= last + 1, last <= LastPage,
           Apart(m, kept), 0 \notin kept, m.table # None, 0 \notin m.free
    PROVE  /\ Apart(MapPages(m, first, last), kept)
           /\ MapPages(m, first, last).table = m.table
           /\ 0 \notin MapPages(m, first, last).free
           /\ \A p \in Pages : p \notin first .. last =>
                  MapPages(m, first, last).map[p] = m.map[p]
           /\ \A p \in first .. last : MapPages(m, first, last).map[p] # None
<1> DEFINE Good(n, l) == /\ Apart(n, kept)
                         /\ n.table = m.table
                         /\ 0 \notin n.free
                         /\ \A p \in Pages : p \notin first .. l => n.map[p] = m.map[p]
                         /\ \A p \in first .. l : n.map[p] # None
<1>1. PICK f : /\ f = [p \in first - 1 .. last |->
                          IF p < first THEN m ELSE MapNew(f[p - 1], p)]
               /\ MapPages(m, first, last) = f[last]
  BY MapPagesEquation
<1>2. /\ f[first - 1] = m
      /\ \A p \in first .. last : f[p] = MapNew(f[p - 1], p)
  BY <1>1
<1> DEFINE T == {k \in Nat : first - 1 + k <= last => Good(f[first - 1 + k], first - 1 + k)}
<1>3. 0 \in T
  <2>1. first - 1 + 0 = first - 1 /\ first .. first - 1 = {}
    OBVIOUS
  <2> QED BY <1>2, <2>1
<1>4. ASSUME NEW k \in Nat, k \in T PROVE k + 1 \in T
  <2> DEFINE q == first - 1 + (k + 1)
             n == f[first - 1 + k]
  <2> SUFFICES ASSUME q <= last PROVE Good(f[q], q)
    OBVIOUS
  <2>1. q \in first .. last /\ q - 1 = first - 1 + k /\ q \in Pages /\ first - 1 + k <= last
    BY SizesAssumption DEF Pages
  <2>2. Good(n, q - 1) /\ f[q] = MapNew(n, q)
    BY <1>2, <1>4, <2>1
  <2> HIDE DEF q, n
  <2>3. /\ Apart(MapNew(n, q), kept)
        /\ MapNew(n, q).table = n.table
        /\ 0 \notin MapNew(n, q).free
        /\ MapNew(n, q).map = [n.map EXCEPT ![q] = FirstFree(n)]
        /\ FirstFree(n) \in Frames \cup {0}
    BY <2>1, <2>2, MapNewApart
  <2>4. FirstFree(n) # None
    BY <2>3, SizesAssumption DEF None
  <2>5. n.map \in [Pages -> Frames \cup {0, None}]
    BY <2>2 DEF Apart, Mems
  <2>6. \A p \in Pages : f[q].map[p] = IF p = q THEN FirstFree(n) ELSE n.map[p]
    BY <2>2, <2>3, <2>5
  <2>7. \A p \in Pages : p \notin first .. q => f[q].map[p] = m.map[p]
    BY <2>1, <2>2, <2>6 DEF Pages
  <2>8. \A p \in first .. q : f[q].map[p] # None
    <3> SUFFICES ASSUME NEW p \in first .. q PROVE f[q].map[p] # None
      OBVIOUS
    <3>1. p \in Pages /\ (p = q \/ p \in first .. (q - 1))
      BY <2>1, SizesAssumption DEF Pages
    <3> QED BY <2>2, <2>4, <2>6, <3>1
  <2> QED BY <2>2, <2>3, <2>7, <2>8
<1>5. last - (first - 1) \in T
  <2> HIDE DEF T
  <2> QED BY <1>3, <1>4, Induction
<1>6. first - 1 + (last - (first - 1)) = last
  OBVIOUS
<1>7. Good(f[last], last)
  BY <1>5, <1>6
<1> QED BY <1>1, <1>7

-----------------------------------------------------------------------------
(* The processes                                                           *)

\* The memory of the shell and of programs is in order, and has a page table.
MemoryInOrder == Apart(Memory, {}) /\ table # None /\ 0 \notin free

\* From create_process() until exit() the program has its pages, and unless
\* something was damaged they are the ones its contents were written to.
ProgramInOrder ==
    /\ mode \in {"loaded", "user"} =>
           /\ size \in ProgramSizes
           /\ ArgsPage(size) <= LastPage
           /\ size < heap_pages
           /\ \A p \in 0 .. ArgsPage(size) : map[p] # None
           /\ damage = {} => \A p \in 0 .. ArgsPage(size) : map[p] = home[p] /\ map[p] # 0
    /\ mode = "user" /\ damage = {} =>
           \A p \in 0 .. ArgsPage(size) : tlb[p] \in {None, home[p]}

IInv == TypeOK /\ MemoryInOrder /\ ProgramInOrder

\* What an access can reach, and what it leaves.
LEMMA ReachedType ==
    ASSUME NEW ps \in SUBSET Pages, NEW m \in Mems, NEW seen \in Reached(ps, m),
           tlb \in [Pages -> Frames \cup {0, None}],
           home \in [Pages -> Frames \cup {0, None}]
    PROVE  /\ seen \in [ps -> Frames \cup {0, None}]
           /\ Kept(seen) \in [Pages -> Frames \cup {0, None}]
           /\ Written(seen) \in [Pages -> Frames \cup {0, None}]
           /\ \A p \in ps : Kept(seen)[p] = seen[p] /\ Written(seen)[p] = seen[p]
           /\ \A p \in Pages \ ps : Kept(seen)[p] = tlb[p] /\ Written(seen)[p] = home[p]
<1>1. PICK old \in SUBSET Changed(ps, m) :
          seen = [p \in ps |-> IF p \in old THEN tlb[p] ELSE m.map[p]]
  BY DEF Reached
<1>2. m.map \in [Pages -> Frames \cup {0, None}]
  BY DEF Mems
<1>3. seen \in [ps -> Frames \cup {0, None}]
  BY <1>1, <1>2
<1>4. DOMAIN seen = ps
  BY <1>3
<1> QED BY <1>3, <1>4 DEF Kept, Written

LEMMA InitInv == Init => IInv
<1> SUFFICES ASSUME Init PROVE IInv
  OBVIOUS
<1> DEFINE start == [free |-> Frames, table |-> None, map |-> NoPages]
<1>0. Frames \subseteq Nat \ {0} /\ IsFiniteSet(Frames) /\ Cardinality(Frames) > 2
      /\ LastPage \in Nat /\ MaxRuns \in Nat /\ 0 \in Pages
  BY SizesAssumption DEF Pages
<1>1. start.free = Frames /\ start.table = None /\ start.map = NoPages
  OBVIOUS
<1>2. Frames # {}
  BY <1>0, FS_EmptySet
<1>3. Apart(start, {})
  BY <1>0, <1>2 DEF Apart, Mems, NoPages, None
<1>4. Boot = MapNew(start, 0)
  BY DEF Boot
<1> HIDE DEF start
<1>5. /\ Apart(Boot, {}) /\ Boot.table \in Frames /\ 0 \notin Boot.free
      /\ Boot.map[0] = FirstFree(start) /\ FirstFree(start) \in Frames \cup {0}
  BY <1>0, <1>1, <1>3, <1>4, MapNewApart
<1>6. free = Boot.free /\ table = Boot.table /\ map = Boot.map
  BY DEF Init
<1>7. Boot \in Mems
  BY <1>5 DEF Apart
<1>8. Memory = Boot
  BY <1>6, <1>7 DEF Memory, Mems
<1>9. MemoryInOrder
  BY <1>0, <1>5, <1>6, <1>8 DEF MemoryInOrder, None
<1>10. TypeOK
  <2>1. /\ free \subseteq Frames \cup {0}
        /\ table \in Frames \cup {0, None}
        /\ map \in [Pages -> Frames \cup {0, None}]
    BY <1>6, <1>7 DEF Mems
  <2>2. map[0] # None /\ map[0] \in Frames \cup {0}
    BY <1>0, <1>5, <1>6 DEF None
  <2>3. tlb \in [Pages -> Frames \cup {0, None}] /\ home = tlb
    BY <1>6, <2>2 DEF Init
  <2>4. heap_pages = 1 /\ size = 0 /\ mode = "shell" /\ damage = {} /\ runs = 0
    BY DEF Init
  <2>5. \A p \in 0 .. heap_pages - 1 : map[p] # None
    BY <2>2, <2>4
  <2>6. heap_pages \in 1 .. LastPage + 1 /\ runs \in 0 .. MaxRuns
    BY <1>0, <2>4
  <2> QED BY <2>1, <2>3, <2>4, <2>5, <2>6 DEF TypeOK, Modes
<1>11. ProgramInOrder
  BY DEF Init, ProgramInOrder
<1> QED BY <1>9, <1>10, <1>11 DEF IInv

\* The pages of a program are in the heap area.
LEMMA ProgramPages ==
    ASSUME IInv, mode \in {"loaded", "user"}
    PROVE  /\ size \in Nat \ {0} /\ ArgsPage(size) = size + 2 /\ StackPage(size) = size + 1
           /\ \A p \in 0 .. ArgsPage(size) : p \in Pages
<1>1. size \in ProgramSizes /\ ArgsPage(size) <= LastPage
  BY DEF IInv, ProgramInOrder
<1>2. size \in Nat \ {0} /\ LastPage \in Nat
  BY <1>1, SizesAssumption
<1>3. ArgsPage(size) = size + 2 /\ StackPage(size) = size + 1
  BY <1>2 DEF ArgsPage, StackPage
<1> QED BY <1>1, <1>2, <1>3 DEF Pages

LEMMA UserAccessInv ==
    ASSUME IInv, NEW p \in Pages, UserAccess(p)
    PROVE  IInv'
<1>1. /\ mode = "user" /\ map[p] # None
      /\ tlb' = [tlb EXCEPT ![p] = map[p]]
      /\ free' = free /\ table' = table /\ map' = map /\ heap_pages' = heap_pages
      /\ size' = size /\ mode' = mode /\ home' = home /\ damage' = damage /\ runs' = runs
  BY DEF UserAccess
<1>2. MemoryInOrder'
  BY <1>1 DEF IInv, MemoryInOrder, Memory
<1>3. TypeOK'
  BY <1>1 DEF IInv, TypeOK
<1>4. \A q \in Pages : tlb'[q] = IF q = p THEN map[p] ELSE tlb[q]
  BY <1>1 DEF IInv, TypeOK
<1>5. \A q \in 0 .. ArgsPage(size) : q \in Pages
  BY <1>1, ProgramPages
<1>6. ProgramInOrder'
  BY <1>1, <1>4, <1>5 DEF IInv, ProgramInOrder
<1> QED BY <1>2, <1>3, <1>6 DEF IInv

LEMMA ExecuteInv == IInv /\ execute_process => IInv'
<1> SUFFICES ASSUME IInv, execute_process PROVE IInv'
  OBVIOUS
<1>1. /\ mode = "loaded" /\ mode' = "user" /\ tlb' = NoPages
      /\ free' = free /\ table' = table /\ map' = map /\ heap_pages' = heap_pages
      /\ size' = size /\ home' = home /\ damage' = damage /\ runs' = runs
  BY DEF execute_process
<1>2. MemoryInOrder'
  BY <1>1 DEF IInv, MemoryInOrder, Memory
<1>3. TypeOK'
  BY <1>1 DEF IInv, TypeOK, NoPages, Modes
<1>4. \A q \in 0 .. ArgsPage(size) : tlb'[q] = None
  BY <1>1, ProgramPages DEF NoPages
<1>5. ProgramInOrder'
  BY <1>1, <1>4 DEF IInv, ProgramInOrder
<1> QED BY <1>2, <1>3, <1>5 DEF IInv

\* When the machine has stopped, blocks may have been lost, but none twice.
LEMMA HaltedInv ==
    ASSUME IInv, mode' = "halted", free' # {}, free' \subseteq free,
           UNCHANGED <<table, map, tlb, heap_pages, size, home, damage, runs>>
    PROVE  IInv'
<1>1. MemoryInOrder'
  <2>1. Memory' = [free |-> free', table |-> table, map |-> map]
    BY DEF Memory
  <2>2. Apart(Memory, {}) /\ table # None /\ 0 \notin free
    BY DEF IInv, MemoryInOrder
  <2>3. Apart([free |-> free', table |-> table, map |-> map], {})
    BY <2>2 DEF Apart, Memory, Mems
  <2> QED BY <2>1, <2>2, <2>3 DEF MemoryInOrder
<1>2. TypeOK'
  BY DEF IInv, TypeOK, Modes
<1>3. ProgramInOrder'
  BY DEF ProgramInOrder
<1> QED BY <1>1, <1>2, <1>3 DEF IInv

LEMMA UserFaultInv == IInv /\ UserFault => IInv'
<1> SUFFICES ASSUME IInv, UserFault PROVE IInv'
  OBVIOUS
<1>1. Apart(Memory, {})
  BY DEF IInv, MemoryInOrder
<1>2. Memory.free = free /\ Memory \in Mems /\ free # {}
  BY <1>1 DEF Apart, Memory
<1>3. free \subseteq Nat /\ IsFiniteSet(free)
  BY <1>2, FreeFinite
<1>4. Max(free) \in free
  BY <1>2, <1>3, MaxOfSet
<1>5. free' = {Max(free)} /\ mode' = "halted"
      /\ UNCHANGED <<table, map, tlb, heap_pages, size, home, damage, runs>>
  BY DEF UserFault
<1>6. free' # {} /\ free' \subseteq free
  BY <1>4, <1>5
<1> QED BY <1>5, <1>6, HaltedInv

LEMMA CreateNotElfInv == IInv /\ CreateNotElf => IInv'
<1> SUFFICES ASSUME IInv, CreateNotElf PROVE IInv'
  OBVIOUS
<1>1. ASSUME NEW m, Apart(m, {})
      PROVE  Taken(m).free # {} /\ Taken(m).free \subseteq m.free /\ Apart(Taken(m), {})
  <2>1. CASE Refuses(m)
    BY <1>1, <2>1 DEF Taken, Apart
  <2>2. CASE ~Refuses(m)
    <3>1. Apart(Taken(m), {} \cup {FirstFree(m)})
      BY <1>1, <2>2, TakeOne
    <3>2. Apart(Taken(m), {})
      BY <3>1, ApartWeaker
    <3>3. Taken(m).free = m.free \ {FirstFree(m)}
      BY <1>1, <2>2 DEF Taken, Apart, Mems
    <3> QED BY <3>2, <3>3 DEF Apart
  <2> QED BY <2>1, <2>2
<1>2. Apart(Memory, {}) /\ Memory.free = free
  BY DEF IInv, MemoryInOrder, Memory
<1>3. free' = Taken(Taken(Memory)).free /\ mode' = "halted"
      /\ UNCHANGED <<table, map, tlb, heap_pages, size, home, damage, runs>>
  BY DEF CreateNotElf
<1>4. free' # {} /\ free' \subseteq free
  BY <1>1, <1>2, <1>3
<1> QED BY <1>3, <1>4, HaltedInv

\* A memory that is in order is in order when it is that of the next state.
LEMMA SetMemoryInv ==
    ASSUME NEW m, SetMemory(m), Apart(m, {}), m.table # None, 0 \notin m.free
    PROVE  /\ MemoryInOrder'
           /\ free' \subseteq Frames \cup {0}
           /\ table' \in Frames \cup {0, None}
           /\ map' = m.map
           /\ map' \in [Pages -> Frames \cup {0, None}]
<1>1. m = [free |-> m.free, table |-> m.table, map |-> m.map]
  BY DEF Apart, Mems
<1>2. free' = m.free /\ table' = m.table /\ map' = m.map
  BY DEF SetMemory
<1>3. Memory' = m
  BY <1>1, <1>2 DEF Memory
<1>4. MemoryInOrder'
  BY <1>2, <1>3 DEF MemoryInOrder
<1> QED BY <1>2, <1>4 DEF Apart, Mems

LEMMA MallocInv ==
    ASSUME IInv, NEW n \in Growths, syscall_malloc(n)
    PROVE  IInv'
<1> DEFINE last == heap_pages + n - 1
           grown == MapPages(Memory, heap_pages, last)
<1>1. /\ mode = "user" /\ last <= LastPage /\ SetMemory(grown)
      /\ heap_pages' = heap_pages + n
      /\ size' = size /\ mode' = mode /\ runs' = runs
  BY DEF syscall_malloc
<1>2. n \in Nat \ {0} /\ LastPage \in Nat
  BY SizesAssumption
<1>3. heap_pages \in 1 .. LastPage + 1 /\ heap_pages \in Nat \ {0}
  BY <1>2 DEF IInv, TypeOK
<1>4. last \in Nat /\ heap_pages <= last + 1 /\ heap_pages <= last /\ 0 \in Pages /\ last \in Pages
  BY <1>1, <1>2, <1>3 DEF Pages
<1>5. Memory.free = free /\ Memory.table = table /\ Memory.map = map
  BY DEF Memory
<1>6. /\ Apart(grown, {}) /\ grown.table = table /\ 0 \notin grown.free
      /\ \A p \in Pages : p \notin heap_pages .. last => grown.map[p] = map[p]
      /\ \A p \in heap_pages .. last : grown.map[p] # None
  <2>1. Apart(Memory, {}) /\ Memory.table # None /\ 0 \notin Memory.free
    BY <1>5 DEF IInv, MemoryInOrder
  <2> QED BY <1>1, <1>3, <1>4, <1>5, <2>1, MapPagesApart
<1>7. /\ MemoryInOrder'
      /\ free' \subseteq Frames \cup {0} /\ table' \in Frames \cup {0, None}
      /\ map' = grown.map /\ map' \in [Pages -> Frames \cup {0, None}]
  <2> HIDE DEF grown
  <2> QED BY <1>1, <1>6, SetMemoryInv DEF IInv, MemoryInOrder
<1>8. PICK seen \in Reached({0, last}, grown) :
          /\ tlb' = Kept(seen) /\ home' = Written(seen)
          /\ damage' = damage
                \cup DamageOf(seen, grown, heap_pages .. last)
                \cup (IF last >= StackPage(size) THEN {"overrun"} ELSE {})
  BY DEF syscall_malloc
<1>9. /\ tlb' \in [Pages -> Frames \cup {0, None}]
      /\ home' \in [Pages -> Frames \cup {0, None}]
  <2>1. {0, last} \in SUBSET Pages /\ grown \in Mems
    BY <1>4, <1>6 DEF Apart
  <2> HIDE DEF grown, last
  <2> QED BY <1>8, <2>1, ReachedType DEF IInv, TypeOK
<1> HIDE DEF grown
<1>10. TypeOK'
  <2>1. \A p \in 0 .. heap_pages' - 1 : map'[p] # None
    <3> SUFFICES ASSUME NEW p \in 0 .. heap_pages' - 1 PROVE map'[p] # None
      OBVIOUS
    <3>1. p \in Pages /\ (p \in 0 .. heap_pages - 1 \/ p \in heap_pages .. last)
      BY <1>1, <1>2, <1>3 DEF Pages
    <3>2. p \in 0 .. heap_pages - 1 => map[p] # None /\ p \notin heap_pages .. last
      BY <1>3 DEF IInv, TypeOK
    <3> QED BY <1>6, <1>7, <3>1, <3>2
  <2>2. heap_pages' \in 1 .. LastPage + 1
    BY <1>1, <1>2, <1>3
  <2>3. damage' \subseteq Damages
    BY <1>8 DEF IInv, TypeOK, DamageOf, Damages
  <2> QED BY <1>1, <1>7, <1>9, <2>1, <2>2, <2>3 DEF IInv, TypeOK
<1>11. ProgramInOrder'
  <2>1. "overrun" \in damage'
    <3>1. last >= StackPage(size)
      BY <1>1, <1>2, <1>3, ProgramPages DEF IInv, ProgramInOrder
    <3> QED BY <1>8, <3>1
  <2>2. \A p \in 0 .. ArgsPage(size) : map'[p] # None
    <3> SUFFICES ASSUME NEW p \in 0 .. ArgsPage(size) PROVE map'[p] # None
      OBVIOUS
    <3>1. p \in Pages /\ map[p] # None
      BY <1>1, ProgramPages DEF IInv, ProgramInOrder
    <3> QED BY <1>6, <1>7, <3>1
  <2>3. size < heap_pages' /\ size \in ProgramSizes /\ ArgsPage(size) <= LastPage
    BY <1>1, <1>2, <1>3, ProgramPages DEF IInv, ProgramInOrder
  <2> QED BY <1>1, <2>1, <2>2, <2>3 DEF ProgramInOrder
<1> QED BY <1>7, <1>10, <1>11 DEF IInv

\* exit() gives back the blocks of the page table and of the stack: with the one
\* that is always left free there is one for the page of the shell's heap and one
\* for a new table.
LEMMA ExitInv == IInv /\ syscall_exit => IInv'
<1> SUFFICES ASSUME IInv, syscall_exit PROVE IInv'
  OBVIOUS
<1> DEFINE x == map[StackPage(size)]
           down == [UnmapTable(Memory) EXCEPT !.free = @ \cup {x}]
           shell == MapNew(down, 0)
<1>1. /\ mode = "user" /\ SetMemory(shell)
      /\ heap_pages' = 1 /\ mode' = "shell" /\ size' = size /\ runs' = runs
  BY DEF syscall_exit
<1>2. /\ LastPage \in Nat /\ 0 \in Pages
      /\ Frames \subseteq Nat \ {0} /\ IsFiniteSet(Frames)
  BY SizesAssumption DEF Pages
<1>3. Memory.free = free /\ Memory.table = table /\ Memory.map = map
  BY DEF Memory
<1>4. /\ Apart(Memory, {}) /\ table # None /\ 0 \notin free
      /\ map \in [Pages -> Frames \cup {0, None}]
  BY DEF IInv, MemoryInOrder, TypeOK
<1>5. x \in Frames \cup {0} /\ x # None
  BY <1>1, <1>4, ProgramPages DEF IInv, ProgramInOrder
<1>6. free # {} /\ free \subseteq Frames /\ table \in Frames /\ table \notin free
  BY <1>3, <1>4 DEF Apart, Mems
<1>7. x \notin free \cup {table}
  <2>1. CASE x = 0
    BY <1>2, <1>6, <2>1
  <2>2. CASE x # 0
    BY <1>1, <1>3, <1>4, <1>5, <2>2, ProgramPages DEF Apart
  <2> QED BY <2>1, <2>2
<1>8. down = [free |-> (free \cup {table}) \cup {x}, table |-> None, map |-> NoPages]
  BY <1>3 DEF UnmapTable
<1> HIDE DEF down, x
<1>9. down.free = (free \cup {table}) \cup {x} /\ down.table = None /\ down.map = NoPages
  BY <1>8
<1>10. Apart(down, {})
  BY <1>2, <1>5, <1>6, <1>8 DEF Apart, Mems, NoPages, None
<1>11. Cardinality(down.free) > 2
  <2>1. IsFiniteSet(free) /\ Cardinality(free) \in Nat
    BY <1>2, <1>6, FS_Subset, FS_CardinalityType
  <2>2. Cardinality(free) # 0
    BY <1>6, <2>1, FS_EmptySet
  <2>3. IsFiniteSet(free \cup {table}) /\ Cardinality(free \cup {table}) = Cardinality(free) + 1
    BY <1>6, <2>1, FS_AddElement
  <2>4. Cardinality((free \cup {table}) \cup {x}) = Cardinality(free \cup {table}) + 1
    BY <1>7, <2>3, FS_AddElement
  <2> QED BY <1>9, <2>1, <2>2, <2>3, <2>4
<1>12. ~Refuses(down)
  <2>1. Cardinality(down.free) \in Nat
    BY <1>10, FreeFinite DEF Apart
  <2> QED BY <1>11, <2>1 DEF Refuses
<1>13. /\ Apart(shell, {}) /\ shell.table \in Frames /\ 0 \notin shell.free
       /\ shell.map[0] \in Frames \cup {0}
  <2>1. 0 \in down.free => ~Refuses(down)
    BY <1>12
  <2>2. down.table = None => Cardinality(down.free) > 2
    BY <1>11
  <2>3. 0 \in Pages /\ 0 \notin {}
    BY <1>2
  <2>4. /\ Apart(MapNew(down, 0), {}) /\ MapNew(down, 0).table \in Frames
        /\ 0 \notin MapNew(down, 0).free
        /\ MapNew(down, 0).map[0] = FirstFree(down) /\ FirstFree(down) \in Frames \cup {0}
    BY <1>10, <2>1, <2>2, <2>3, MapNewApart
  <2>5. shell.map[0] \in Frames \cup {0}
    BY <2>4
  <2> QED BY <2>4, <2>5
<1> HIDE DEF shell
<1>14. None \notin Frames \cup {0}
  BY <1>2 DEF None
<1>15. /\ MemoryInOrder'
       /\ free' \subseteq Frames \cup {0} /\ table' \in Frames \cup {0, None}
       /\ map' = shell.map /\ map' \in [Pages -> Frames \cup {0, None}]
  BY <1>1, <1>13, <1>14, SetMemoryInv
<1>16. PICK seen \in Reached({0}, shell) :
          /\ tlb' = Kept(seen)
          /\ home' = [p \in Pages |-> IF p = 0 THEN seen[0] ELSE None]
          /\ damage' = damage \cup DamageOf(seen, shell, {0})
  BY DEF syscall_exit, shell, down, x
<1>17. /\ tlb' \in [Pages -> Frames \cup {0, None}]
       /\ home' \in [Pages -> Frames \cup {0, None}]
  <2>1. {0} \in SUBSET Pages /\ shell \in Mems
    BY <1>2, <1>13 DEF Apart
  <2>2. seen \in [{0} -> Frames \cup {0, None}] /\ Kept(seen) \in [Pages -> Frames \cup {0, None}]
    BY <1>16, <2>1, ReachedType DEF IInv, TypeOK
  <2> QED BY <1>16, <2>2
<1>18. TypeOK'
  <2>1. \A p \in 0 .. heap_pages' - 1 : map'[p] # None
    BY <1>1, <1>13, <1>14, <1>15
  <2>2. heap_pages' \in 1 .. LastPage + 1
    BY <1>1, <1>2
  <2>3. damage' \subseteq Damages
    BY <1>16 DEF IInv, TypeOK, DamageOf, Damages
  <2>4. mode' \in Modes
    BY <1>1 DEF Modes
  <2> QED BY <1>1, <1>15, <1>17, <2>1, <2>2, <2>3, <2>4 DEF IInv, TypeOK
<1>19. ProgramInOrder'
  BY <1>1 DEF ProgramInOrder
<1> QED BY <1>15, <1>18, <1>19 DEF IInv

\* create_process(): the pages it takes are behind those of its file, and all
\* of them are there when it is done.
LEMMA CreateInv ==
    ASSUME IInv, NEW n \in ProgramSizes, create_process(n)
    PROVE  IInv'
<1> DEFINE file == IF Refuses(Memory) THEN {} ELSE {FirstFree(Memory)}
           opened == [Memory EXCEPT !.free = @ \ file]
           heap == MapPages(opened, 1, n)
           stack == MapNew(heap, StackPage(n))
           args == MapNew(stack, ArgsPage(n))
           closed == [args EXCEPT !.free = @ \cup file]
<1>1. /\ mode = "shell" /\ ArgsPage(n) <= LastPage /\ runs < MaxRuns
      /\ SetMemory(closed)
      /\ heap_pages' = n + 1 /\ size' = n /\ runs' = runs + 1 /\ mode' = "loaded"
  BY DEF create_process
<1>2. \E program \in Reached(0 .. n, heap),
           rest \in Reached({StackPage(n), ArgsPage(n)}, closed) :
          LET seen == [p \in 0 .. ArgsPage(n) |-> IF p <= n THEN program[p] ELSE rest[p]]
          IN  /\ tlb' = Kept(seen) /\ home' = Written(seen)
              /\ damage' = damage \cup DamageOf(program, heap, 0 .. n)
                                  \cup DamageOf(rest, closed, DOMAIN rest)
  BY DEF create_process
<1>3. /\ n \in Nat \ {0} /\ LastPage \in Nat /\ MaxRuns \in Nat
      /\ Frames \subseteq Nat \ {0}
  BY SizesAssumption
<1>4. /\ StackPage(n) = n + 1 /\ ArgsPage(n) = n + 2
      /\ StackPage(n) \in Pages /\ ArgsPage(n) \in Pages /\ 0 \in Pages
      /\ \A p \in 0 .. n : p \in Pages
  BY <1>1, <1>3 DEF StackPage, ArgsPage, Pages
<1>5. /\ Memory.free = free /\ Memory.table = table /\ Memory.map = map
      /\ Apart(Memory, {}) /\ table # None /\ 0 \notin free
      /\ map[0] # None
  BY <1>4 DEF Memory, IInv, MemoryInOrder, TypeOK
<1>6. /\ Apart(opened, file) /\ 0 \notin file
      /\ opened.table = table /\ opened.map = map /\ 0 \notin opened.free
  <2>1. opened = [free |-> free \ file, table |-> table, map |-> map]
    <3> HIDE DEF file
    <3> QED BY DEF Memory
  <2>2. CASE Refuses(Memory)
    <3>1. file = {} /\ opened = Memory
      BY <2>1, <2>2, <1>5 DEF Memory
    <3> HIDE DEF file, opened
    <3> QED BY <1>5, <3>1
  <2>3. CASE ~Refuses(Memory)
    <3>1. file = {FirstFree(Memory)} /\ opened = Taken(Memory)
      BY <2>3 DEF Taken
    <3> HIDE DEF file, opened
    <3>2. FirstFree(Memory) \in free /\ Apart(opened, {} \cup file)
      BY <1>5, <2>3, <3>1, TakeOne
    <3>3. {} \cup file = file
      OBVIOUS
    <3>4. Apart(opened, file)
      BY <3>2, <3>3
    <3> QED BY <1>5, <2>1, <3>1, <3>2, <3>4
  <2> QED BY <2>2, <2>3
<1> HIDE DEF file, opened
<1>7. /\ Apart(heap, file) /\ heap.table = table /\ 0 \notin heap.free
      /\ \A p \in 0 .. n : heap.map[p] # None
  <2>1. n <= LastPage /\ 1 \in Nat \ {0} /\ n \in Nat /\ 1 <= n + 1
    BY <1>1, <1>3, <1>4
  <2>2. /\ Apart(heap, file) /\ heap.table = opened.table /\ 0 \notin heap.free
        /\ \A p \in Pages : p \notin 1 .. n => heap.map[p] = opened.map[p]
        /\ \A p \in 1 .. n : heap.map[p] # None
    <3>1. opened.table # None
      BY <1>5, <1>6
    <3>2. Apart(opened, file) /\ 0 \notin file /\ 0 \notin opened.free
      BY <1>6
    <3> QED BY <2>1, <3>1, <3>2, MapPagesApart
  <2>3. heap.map[0] # None
    BY <1>4, <1>5, <1>6, <2>2
  <2>4. \A p \in 0 .. n : p = 0 \/ p \in 1 .. n
    BY <1>3
  <2> QED BY <1>6, <2>2, <2>3, <2>4
<1> HIDE DEF heap
<1>8. /\ Apart(stack, file) /\ stack.table = table /\ 0 \notin stack.free
      /\ stack.map = [heap.map EXCEPT ![StackPage(n)] = FirstFree(heap)]
      /\ FirstFree(heap) \in Frames \cup {0}
  <2>1. heap.table # None /\ StackPage(n) \in Pages
    BY <1>4, <1>5, <1>7
  <2>2. Apart(heap, file) /\ 0 \notin file /\ 0 \notin heap.free
    BY <1>6, <1>7
  <2>3. /\ Apart(stack, file) /\ stack.table = heap.table /\ 0 \notin stack.free
        /\ stack.map = [heap.map EXCEPT ![StackPage(n)] = FirstFree(heap)]
        /\ FirstFree(heap) \in Frames \cup {0}
    BY <2>1, <2>2, MapNewApart
  <2> QED BY <1>7, <2>3
<1> HIDE DEF stack
<1>9. /\ Apart(args, file) /\ args.table = table /\ 0 \notin args.free
      /\ args.map = [stack.map EXCEPT ![ArgsPage(n)] = FirstFree(stack)]
      /\ FirstFree(stack) \in Frames \cup {0}
  <2>1. stack.table # None /\ ArgsPage(n) \in Pages
    BY <1>4, <1>5, <1>8
  <2>2. Apart(stack, file) /\ 0 \notin file /\ 0 \notin stack.free
    BY <1>6, <1>8
  <2>3. /\ Apart(args, file) /\ args.table = stack.table /\ 0 \notin args.free
        /\ args.map = [stack.map EXCEPT ![ArgsPage(n)] = FirstFree(stack)]
        /\ FirstFree(stack) \in Frames \cup {0}
    BY <2>1, <2>2, MapNewApart
  <2> QED BY <1>8, <2>3
<1> HIDE DEF args
<1>10. /\ Apart(closed, {}) /\ closed.table = table /\ 0 \notin closed.free
       /\ closed.map = args.map
  <2>1. {} \cup file = file /\ file \cap {} = {}
    OBVIOUS
  <2>2. Apart(args, {} \cup file)
    BY <1>9, <2>1
  <2>3. /\ Apart(closed, {})
        /\ closed = [free |-> args.free \cup file, table |-> args.table, map |-> args.map]
    BY <2>1, <2>2, GiveBack
  <2> HIDE DEF closed
  <2> QED BY <1>6, <1>9, <2>3
<1>11. /\ \A p \in 0 .. n : closed.map[p] = heap.map[p]
       /\ \A p \in 0 .. ArgsPage(n) : closed.map[p] # None
  <2>1. heap.map \in [Pages -> Frames \cup {0, None}] /\ stack.map \in [Pages -> Frames \cup {0, None}]
    BY <1>7, <1>8 DEF Apart, Mems
  <2>2. closed.map = [[heap.map EXCEPT ![n + 1] = FirstFree(heap)] EXCEPT ![n + 2] = FirstFree(stack)]
    BY <1>4, <1>8, <1>9, <1>10
  <2> HIDE DEF closed
  <2>3. /\ \A p \in 0 .. n : closed.map[p] = heap.map[p]
        /\ closed.map[n + 1] = FirstFree(heap) /\ closed.map[n + 2] = FirstFree(stack)
    BY <1>3, <1>4, <2>1, <2>2
  <2>4. FirstFree(heap) # None /\ FirstFree(stack) # None
    BY <1>3, <1>8, <1>9 DEF None
  <2>5. \A p \in 0 .. ArgsPage(n) : p \in 0 .. n \/ p = n + 1 \/ p = n + 2
    BY <1>3, <1>4
  <2> QED BY <1>7, <2>3, <2>4, <2>5
<1> HIDE DEF closed
<1>12. /\ MemoryInOrder'
       /\ free' \subseteq Frames \cup {0} /\ table' \in Frames \cup {0, None}
       /\ map' = closed.map /\ map' \in [Pages -> Frames \cup {0, None}]
  BY <1>1, <1>5, <1>10, SetMemoryInv
<1>13. PICK program \in Reached(0 .. n, heap),
           rest \in Reached({StackPage(n), ArgsPage(n)}, closed) :
          LET seen == [p \in 0 .. ArgsPage(n) |-> IF p <= n THEN program[p] ELSE rest[p]]
          IN  /\ tlb' = Kept(seen) /\ home' = Written(seen)
              /\ damage' = damage \cup DamageOf(program, heap, 0 .. n)
                                  \cup DamageOf(rest, closed, DOMAIN rest)
  BY <1>2
<1> DEFINE seen == [p \in 0 .. ArgsPage(n) |-> IF p <= n THEN program[p] ELSE rest[p]]
<1>14. /\ program \in [0 .. n -> Frames \cup {0, None}]
       /\ rest \in [{n + 1, n + 2} -> Frames \cup {0, None}]
  <2>1. 0 .. n \in SUBSET Pages /\ heap \in Mems /\ closed \in Mems
        /\ {StackPage(n), ArgsPage(n)} \in SUBSET Pages
    BY <1>4, <1>7, <1>10 DEF Apart
  <2>2. program \in [0 .. n -> Frames \cup {0, None}]
    BY <1>13, <2>1, ReachedType DEF IInv, TypeOK
  <2>3. rest \in [{StackPage(n), ArgsPage(n)} -> Frames \cup {0, None}]
    BY <1>13, <2>1, ReachedType DEF IInv, TypeOK
  <2> QED BY <1>4, <2>2, <2>3
<1>15. /\ DOMAIN seen = 0 .. n + 2
       /\ \A p \in 0 .. n : seen[p] = program[p]
       /\ \A p \in {n + 1, n + 2} : seen[p] = rest[p]
       /\ \A p \in 0 .. n + 2 : seen[p] \in Frames \cup {0, None}
  <2>1. seen = [p \in 0 .. n + 2 |-> IF p <= n THEN program[p] ELSE rest[p]]
    BY <1>4
  <2> HIDE DEF seen
  <2>2. DOMAIN seen = 0 .. n + 2 /\ \A p \in 0 .. n + 2 : seen[p] = IF p <= n THEN program[p] ELSE rest[p]
    BY <2>1
  <2>3. \A p \in 0 .. n + 2 : (p <= n /\ p \in 0 .. n) \/ (~ (p <= n) /\ p \in {n + 1, n + 2})
    BY <1>3
  <2>4. /\ \A p \in 0 .. n : p \in 0 .. n + 2 /\ p <= n
        /\ \A p \in {n + 1, n + 2} : p \in 0 .. n + 2 /\ ~ (p <= n)
    BY <1>3
  <2> QED BY <1>14, <2>2, <2>3, <2>4
<1>16. tlb' = Kept(seen) /\ home' = Written(seen)
  BY <1>13
<1> HIDE DEF seen
<1>17. /\ tlb' \in [Pages -> Frames \cup {0, None}]
       /\ home' \in [Pages -> Frames \cup {0, None}]
       /\ \A p \in 0 .. n + 2 : home'[p] = seen[p]
  <2>1. \A p \in 0 .. n + 2 : p \in Pages
    <3>1. \A p \in 0 .. n + 2 : p \in 0 .. n \/ p = n + 1 \/ p = n + 2
      BY <1>3
    <3> QED BY <1>4, <3>1
  <2>2. /\ tlb \in [Pages -> Frames \cup {0, None}]
        /\ home \in [Pages -> Frames \cup {0, None}]
    BY DEF IInv, TypeOK
  <2>3. /\ Kept(seen) = [p \in Pages |-> IF p \in 0 .. n + 2 THEN seen[p] ELSE tlb[p]]
        /\ Written(seen) = [p \in Pages |-> IF p \in 0 .. n + 2 THEN seen[p] ELSE home[p]]
    BY <1>15 DEF Kept, Written
  <2> QED BY <1>15, <1>16, <2>1, <2>2, <2>3
<1>18. TypeOK'
  <2>1. \A p \in 0 .. heap_pages' - 1 : map'[p] # None
    <3> SUFFICES ASSUME NEW p \in 0 .. heap_pages' - 1 PROVE map'[p] # None
      OBVIOUS
    <3>1. p \in 0 .. ArgsPage(n)
      BY <1>1, <1>3, <1>4
    <3> QED BY <1>11, <1>12, <3>1
  <2>2. heap_pages' \in 1 .. LastPage + 1
    BY <1>1, <1>3, <1>4
  <2>3. damage' \subseteq Damages
    BY <1>13 DEF IInv, TypeOK, DamageOf, Damages
  <2>4. mode' \in Modes
    BY <1>1 DEF Modes
  <2>5. runs' \in 0 .. MaxRuns
    BY <1>1, <1>3 DEF IInv, TypeOK
  <2>6. size' \in ProgramSizes \cup {0}
    BY <1>1
  <2> QED BY <1>12, <1>17, <2>1, <2>2, <2>3, <2>4, <2>5, <2>6 DEF TypeOK
<1>19. ProgramInOrder'
  <2>1. ASSUME damage' = {}, NEW p \in 0 .. n + 2
        PROVE  map'[p] = home'[p] /\ map'[p] # 0
    <3>1. DamageOf(program, heap, 0 .. n) = {} /\ DamageOf(rest, closed, DOMAIN rest) = {}
      BY <1>13, <2>1
    <3>2. DOMAIN program = 0 .. n /\ DOMAIN rest = {n + 1, n + 2}
      BY <1>14
    <3>3. CASE p \in 0 .. n
      <4>1. program[p] = heap.map[p] /\ heap.map[p] # 0
        BY <3>1, <3>2, <3>3 DEF DamageOf, Stale
      <4> QED BY <1>11, <1>12, <1>15, <1>17, <3>3, <4>1
    <3>4. CASE p \in {n + 1, n + 2}
      <4>1. rest[p] = closed.map[p] /\ closed.map[p] # 0
        BY <3>1, <3>2, <3>4 DEF DamageOf, Stale
      <4> QED BY <1>12, <1>15, <1>17, <3>4, <4>1
    <3> QED BY <1>3, <3>3, <3>4
  <2>2. size' \in ProgramSizes /\ size' = n /\ n < heap_pages' /\ mode' # "user"
    BY <1>1, <1>3
  <2>3. \A p \in 0 .. ArgsPage(n) : map'[p] # None
    BY <1>11, <1>12
  <2>4. ArgsPage(size') <= LastPage /\ ArgsPage(size') = n + 2
    BY <1>1, <1>4
  <2> QED BY <1>4, <2>1, <2>2, <2>3, <2>4 DEF ProgramInOrder
<1> QED BY <1>12, <1>18, <1>19 DEF IInv

LEMMA NextInv == IInv /\ [Next]_vars => IInv'
<1> SUFFICES ASSUME IInv, [Next]_vars PROVE IInv'
  OBVIOUS
<1>1. ASSUME NEW n \in ProgramSizes, create_process(n) PROVE IInv'
  BY <1>1, CreateInv
<1>2. CASE CreateNotElf
  BY <1>2, CreateNotElfInv
<1>3. CASE execute_process
  BY <1>3, ExecuteInv
<1>4. ASSUME NEW p \in Pages, UserAccess(p) PROVE IInv'
  BY <1>4, UserAccessInv
<1>5. CASE UserFault
  BY <1>5, UserFaultInv
<1>6. ASSUME NEW n \in Growths, syscall_malloc(n) PROVE IInv'
  BY <1>6, MallocInv
<1>7. CASE syscall_exit
  BY <1>7, ExitInv
<1>8. CASE UNCHANGED vars
  <2> USE <1>8 DEF vars
  <2>1. MemoryInOrder'
    BY DEF IInv, MemoryInOrder, Memory
  <2>2. TypeOK'
    BY DEF IInv, TypeOK
  <2>3. ProgramInOrder'
    BY DEF IInv, ProgramInOrder
  <2> QED BY <2>1, <2>2, <2>3 DEF IInv
<1> QED BY <1>1, <1>2, <1>3, <1>4, <1>5, <1>6, <1>7, <1>8 DEF Next

\* The inductive invariant of create_process(), the programs and exit().
THEOREM Invariant == Spec => []IInv
<1>1. Init => IInv
  BY InitInv
<1>2. IInv /\ [Next]_vars => IInv'
  BY NextInv
<1> QED BY <1>1, <1>2, PTL DEF Spec

-----------------------------------------------------------------------------
(* Theorems                                                                *)

\* What create_process(), malloc(), the page faults and exit() leave has its
\* types, and the pages of the heap (total_malloc_pages) are mapped.
THEOREM TypeCorrect == Spec => []TypeOK
<1>1. IInv => TypeOK
  BY DEF IInv
<1> QED BY <1>1, Invariant, PTL

\* Whatever programs are started and left, of any size, in any order: no
\* block is mapped twice by map_address(), and none that is mapped or holds
\* the page table is free in the bitmap to be handed out once more.
THEOREM BlocksApart == Spec => []FramesApart
<1>1. IInv => FramesApart
  <2> SUFFICES ASSUME IInv PROVE FramesApart
    OBVIOUS
  <2>1. Memory.free = free /\ Memory.table = table /\ Memory.map = map
    BY DEF Memory
  <2>2. Apart(Memory, {}) /\ table # None
    BY DEF IInv, MemoryInOrder
  <2>3. table \in Frames \ free
    BY <2>1, <2>2 DEF Apart, Mems
  <2>4. \A p, q \in Pages : p # q /\ map[p] = map[q] => map[p] \in {None, 0}
    BY <2>1, <2>2 DEF Apart
  <2>5. \A p \in Pages : map[p] \notin {None, 0} => map[p] \notin free \cup {table}
    BY <2>1, <2>2 DEF Apart
  <2> QED BY <2>3, <2>4, <2>5 DEF FramesApart
<1> QED BY <1>1, Invariant, PTL

\* The program that execute_process() enters is the one create_process()
\* loaded, page by page, as long as nothing was refused, the heap has not
\* grown over the stack and no kept translation was used that had changed.
THEOREM ProgramIsWhatWasLoaded == Spec => []LoadedIsRun
<1>1. IInv => LoadedIsRun
  <2> SUFFICES ASSUME IInv, mode = "user", damage = {},
                      NEW p \in 0 .. ArgsPage(size)
               PROVE  /\ map[p] = home[p]
                      /\ tlb[p] \in {None, home[p]}
                      /\ \A q \in 0 .. ArgsPage(size) : home[p] = home[q] => p = q
    BY DEF LoadedIsRun
  <2>1. /\ \A q \in 0 .. ArgsPage(size) : map[q] = home[q] /\ map[q] \notin {None, 0}
        /\ tlb[p] \in {None, home[p]}
    BY DEF IInv, ProgramInOrder
  <2>2. \A q, r \in Pages : q # r /\ map[q] = map[r] => map[q] \in {None, 0}
    BY DEF IInv, MemoryInOrder, Memory, Apart
  <2>3. \A q \in 0 .. ArgsPage(size) : q \in Pages
    BY ProgramPages
  <2> QED BY <2>1, <2>2, <2>3
<1> QED BY <1>1, Invariant, PTL
=============================================================================
