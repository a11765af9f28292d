---------------------------- MODULE Heap_proofs ----------------------------
(***************************************************************************)
(* Theorems about malloc() and free(), for every size of the pages, the    *)
(* headers and the requests, and heaps of any length.                      *)
(***************************************************************************)
EXTENDS Heap, FiniteSetTheorems, SequenceTheorems, TLAPS

-----------------------------------------------------------------------------
(* Sets of naturals: least and greatest elements, and induction            *)

\* Every set of naturals that is not empty has a least element.
LEMMA LeastElement ==
    ASSUME NEW T, T \subseteq Nat, T # {}
    PROVE  \E n \in T : \A m \in T : n <= m
<1> DEFINE R == StrictSubsetOrdering(Nat)
           I == {0 .. n : n \in T}
<1>1. IsWellFoundedOn(R, FiniteSubsetsOf(Nat))
  BY FS_StrictSubsetOrderingWellFounded
<1>2. I \subseteq FiniteSubsetsOf(Nat) /\ I # {}
  <2>1. \A n \in T : IsFiniteSet(0 .. n) /\ 0 .. n \in SUBSET Nat
    BY FS_Interval
  <2> QED BY <2>1 DEF FiniteSubsetsOf
<1>3. PICK x \in I : \A y \in I : ~ (<<y, x>> \in R)
  <2> HIDE DEF I, R
  <2> QED BY <1>1, <1>2, WFMin
<1>4. PICK n \in T : x = 0 .. n
  BY <1>3
<1>5. ASSUME NEW m \in T, ~ (n <= m) PROVE FALSE
  <2>1. 0 .. m \subseteq 0 .. n /\ 0 .. m # 0 .. n
    BY <1>5
  <2>2. <<0 .. m, x>> \in R
    BY <2>1, <1>4 DEF StrictSubsetOrdering
  <2> QED BY <2>2, <1>3
<1> QED BY <1>5

\* Induction, with a set for what is proved of each number.
LEMMA Induction ==
    ASSUME NEW T, 0 \in T, \A n \in Nat : n \in T => n + 1 \in T
    PROVE  Nat \subseteq T
<1> SUFFICES ASSUME Nat \ T # {} PROVE FALSE
  OBVIOUS
<1>1. PICK n \in Nat \ T : \A m \in Nat \ T : n <= m
  BY LeastElement
<1> QED BY <1>1

\* Min() of FiniteSetsExt is what its name says.
LEMMA MinOfSet ==
    ASSUME NEW S, S \subseteq Nat, S # {}
    PROVE  Min(S) \in S /\ \A n \in S : Min(S) <= n
<1>1. \E n \in S : \A m \in S : n <= m
  BY LeastElement
<1> QED BY <1>1 DEF Min

-----------------------------------------------------------------------------
(* Lists of nodes                                                          *)

Node == [addr : Nat, size : Nat, free : BOOLEAN]
Lists == {l \in Seq(Node) : l # <<>>}

\* Each node begins where the one before it ends.
Contiguous(l) ==
    \A i \in 1 .. Len(l) : i < Len(l) => l[i + 1].addr = End(l[i])

\* The nodes cover the bytes from 0 to e.
Tiles(l, e) ==
    /\ l \in Lists
    /\ l[1].addr = 0
    /\ Contiguous(l)
    /\ End(Last(l)) = e

\* The nodes that are handed out.
InUse(l) == {n \in Node : ~n.free /\ \E i \in 1 .. Len(l) : l[i] = n}

LEMMA ListType ==
    ASSUME NEW l \in Lists
    PROVE  /\ Len(l) \in Nat \ {0} /\ l \in Seq(Node)
           /\ \A i \in 1 .. Len(l) : l[i] \in Node
           /\ 1 \in 1 .. Len(l) /\ Len(l) \in 1 .. Len(l)
<1>1. l \in Seq(Node) /\ l # <<>>
  BY DEF Lists
<1>2. Len(l) \in Nat /\ Len(l) # 0
  BY <1>1, LenProperties
<1>3. \A i \in 1 .. Len(l) : l[i] \in Node
  BY <1>1, ElementOfSeq
<1> QED BY <1>1, <1>2, <1>3

\* The nodes of a list without gaps do not overlap.
LEMMA NodesInOrder ==
    ASSUME NEW l \in Lists, Contiguous(l)
    PROVE  \A j, k \in 1 .. Len(l) : j < k => End(l[j]) <= l[k].addr
<1> DEFINE T == {d \in Nat : \A j \in 1 .. Len(l) :
                    j + d + 1 \in 1 .. Len(l) => End(l[j]) <= l[j + d + 1].addr}
<1>0. /\ \A i \in 1 .. Len(l) : l[i] \in Node
      /\ Len(l) \in Nat /\ HeaderSize \in Nat \ {0}
  BY ListType, SizesAssumption
<1>1. \A i \in 1 .. Len(l) : i < Len(l) => l[i + 1].addr = End(l[i])
  BY DEF Contiguous
<1>2. \A i \in 1 .. Len(l) : End(l[i]) \in Nat /\ l[i].addr \in Nat /\ l[i].addr < End(l[i])
  BY <1>0 DEF Node, End, Start
<1>3. 0 \in T
  <2> SUFFICES ASSUME NEW j \in 1 .. Len(l), j + 0 + 1 \in 1 .. Len(l)
               PROVE  End(l[j]) <= l[j + 0 + 1].addr
    OBVIOUS
  <2>1. j + 0 + 1 = j + 1 /\ j < Len(l)
    BY <1>0
  <2> QED BY <1>1, <1>2, <2>1
<1>4. ASSUME NEW d \in Nat, d \in T PROVE d + 1 \in T
  <2> SUFFICES ASSUME NEW j \in 1 .. Len(l), j + (d + 1) + 1 \in 1 .. Len(l)
               PROVE  End(l[j]) <= l[j + (d + 1) + 1].addr
    OBVIOUS
  <2> DEFINE k == j + d + 1
  <2>1. k \in 1 .. Len(l) /\ k < Len(l) /\ j + (d + 1) + 1 = k + 1 /\ k + 1 \in 1 .. Len(l)
    BY <1>0
  <2>2. End(l[j]) <= l[k].addr
    BY <1>4, <2>1
  <2> HIDE DEF k
  <2>3. l[k + 1].addr = End(l[k])
    BY <1>1, <2>1
  <2> QED BY <1>2, <2>1, <2>2, <2>3
<1>5. Nat \subseteq T
  <2> HIDE DEF T
  <2> QED BY <1>3, <1>4, Induction
<1> SUFFICES ASSUME NEW j \in 1 .. Len(l), NEW k \in 1 .. Len(l), j < k
             PROVE  End(l[j]) <= l[k].addr
  OBVIOUS
<1>6. k - j - 1 \in Nat /\ j + (k - j - 1) + 1 = k
  BY <1>0
<1> QED BY <1>5, <1>6

-----------------------------------------------------------------------------
(* merge_free_blocks()                                                     *)

\* No node is joined to a node that is itself joined or in use.
LEMMA JoinedOnce ==
    ASSUME NEW l \in Lists, NEW i \in Nat \ {0}, Joined(l, i)
    PROVE  /\ i > 1 /\ i \in 1 .. Len(l)
           /\ l[i].free /\ l[i - 1].free
           /\ ~Joined(l, i - 1)
<1> DEFINE F(k) == {s \in 1 .. k : \A j \in s .. k : l[j].free}
<1>1. i \in 1 .. Len(l) /\ l[i].free /\ (i - Min(F(i))) % 2 = 1
  BY DEF Joined
<1>2. \A k \in Nat : F(k) # {} => Min(F(k)) \in F(k) /\ \A s \in F(k) : Min(F(k)) <= s
  <2> SUFFICES ASSUME NEW k \in Nat, F(k) # {}
               PROVE  Min(F(k)) \in F(k) /\ \A s \in F(k) : Min(F(k)) <= s
    OBVIOUS
  <2>1. F(k) \subseteq Nat
    OBVIOUS
  <2> HIDE DEF F
  <2> QED BY <2>1, MinOfSet
<1>3. i \in F(i)
  BY <1>1
<1>4. Min(F(i)) \in F(i)
  <2> HIDE DEF F
  <2> QED BY <1>2, <1>3
<1>5. Min(F(i)) # i
  <2>1. (i - i) % 2 = 0
    OBVIOUS
  <2> QED BY <1>1, <2>1
<1>6. i > 1 /\ l[i - 1].free /\ Min(F(i)) \in F(i - 1)
  BY <1>4, <1>5
<1>7. Min(F(i - 1)) = Min(F(i))
  <2>1. \A s : s \in F(i - 1) => s \in F(i)
    <3> SUFFICES ASSUME NEW s \in F(i - 1) PROVE s \in F(i)
      OBVIOUS
    <3>1. \A j \in s .. i : j \in s .. (i - 1) \/ j = i
      OBVIOUS
    <3> QED BY <1>1, <1>6, <3>1
  <2>2. F(i) \subseteq Nat /\ F(i - 1) \subseteq Nat /\ i - 1 \in Nat
    BY <1>6
  <2>3. /\ Min(F(i - 1)) \in F(i - 1)
        /\ Min(F(i - 1)) <= Min(F(i)) /\ Min(F(i)) <= Min(F(i - 1))
    <3> HIDE DEF F
    <3> QED BY <1>2, <1>3, <1>6, <2>1, <2>2
  <2>4. Min(F(i)) \in Nat /\ Min(F(i - 1)) \in Nat
    <3> HIDE DEF F
    <3> QED BY <1>4, <2>2, <2>3
  <2> HIDE DEF F
  <2> QED BY <2>3, <2>4
<1>8. ~Joined(l, i - 1)
  <2>1. ((i - 1) - Min(F(i - 1))) % 2 # 1
    <3> DEFINE f == Min(F(i))
    <3>1. f \in Nat /\ f < i
      BY <1>4, <1>5
    <3> HIDE DEF f
    <3>2. (i - f) % 2 = 1 => ((i - 1) - f) % 2 # 1
      BY <3>1
    <3>3. Min(F(i - 1)) = f
      BY <1>7 DEF f
    <3>4. (i - f) % 2 = 1
      BY <1>1 DEF f
    <3> HIDE DEF F
    <3> QED BY <3>2, <3>3, <3>4
  <2> QED BY <2>1 DEF Joined
<1> QED BY <1>1, <1>6, <1>8

\* What merge_free_blocks() leaves of node i.
Piece(l, i) ==
    IF Joined(l, i) THEN <<>>
    ELSE IF Joined(l, i + 1) THEN << [l[i] EXCEPT !.size = @ + HeaderSize + l[i + 1].size] >>
    ELSE << l[i] >>

LEMMA MergedPieces ==
    ASSUME NEW l \in Lists
    PROVE  \E f : /\ f[1] = Piece(l, 1)
                  /\ \A i \in 2 .. Len(l) : f[i] = f[i - 1] \o Piece(l, i)
                  /\ Merged(l) = f[Len(l)]
<1> DEFINE N == Len(l)
           s == [i \in 1 .. N |-> Piece(l, i)]
           Step(f, i) == IF i = 1 THEN s[i] ELSE f[i - 1] \o s[i]
           T == {k \in Nat : \E f : f = [i \in 1 .. k |-> Step(f, i)]}
<1>0. N \in Nat \ {0} /\ 1 \in 1 .. N /\ N \in 1 .. N
  BY ListType
<1>1. Merged(l) = FlattenSeq(s)
  BY DEF Merged, Piece
<1>2. \A i \in 1 .. N : s[i] = Piece(l, i)
  OBVIOUS
<1>3. Len(s) = N
  BY <1>0
<1> HIDE DEF s
<1>4. 0 \in T
  <2> DEFINE f == [i \in 1 .. 0 |-> 0]
  <2>1. f = [i \in 1 .. 0 |-> Step(f, i)]
    OBVIOUS
  <2> QED BY <2>1
<1>5. ASSUME NEW k \in Nat, k \in T PROVE k + 1 \in T
  <2>1. PICK f : f = [i \in 1 .. k |-> Step(f, i)]
    BY <1>5
  <2> DEFINE g == [i \in 1 .. (k + 1) |-> Step(f, i)]
  <2>2. \A i \in 1 .. k : g[i] = f[i]
    <3> HIDE DEF Step
    <3>1. \A i \in 1 .. k : i \in 1 .. (k + 1)
      OBVIOUS
    <3>2. \A i \in 1 .. k : f[i] = Step(f, i)
      BY <2>1
    <3> QED BY <3>1, <3>2
  <2> HIDE DEF g
  <2>3. ASSUME NEW i \in 1 .. (k + 1) PROVE Step(g, i) = Step(f, i)
    <3>1. CASE i = 1
      BY <3>1
    <3>2. CASE i # 1
      <4>1. i - 1 \in 1 .. k
        BY <3>2
      <4>2. g[i - 1] = f[i - 1]
        BY <2>2, <4>1
      <4> QED BY <3>2, <4>2
    <3> QED BY <3>1, <3>2
  <2>4. g = [i \in 1 .. (k + 1) |-> Step(f, i)]
    BY DEF g
  <2>5. g = [i \in 1 .. (k + 1) |-> Step(g, i)]
    <3> HIDE DEF Step, g
    <3> QED BY <2>3, <2>4
  <2> HIDE DEF Step, g
  <2> QED BY <2>5
<1>6. \E f : f = [i \in 1 .. N |-> Step(f, i)]
  <2>1. N \in T
    <3> HIDE DEF T, N
    <3> QED BY <1>0, <1>4, <1>5, Induction
  <2> QED BY <2>1
<1>7. \E f : f = [i \in 1 .. N |-> Step(f, i)] /\ FlattenSeq(s) = f[N]
  BY <1>0, <1>3, <1>6 DEF FlattenSeq
<1>8. PICK f : f = [i \in 1 .. N |-> Step(f, i)] /\ FlattenSeq(s) = f[N]
  <2> HIDE DEF Step
  <2> QED BY <1>7
<1>9. f[1] = s[1] /\ \A i \in 2 .. N : f[i] = f[i - 1] \o s[i]
  <2>1. \A i \in 1 .. N : f[i] = Step(f, i)
    <3> HIDE DEF Step, N
    <3> QED BY <1>8
  <2>2. \A i \in 2 .. N : i \in 1 .. N /\ i # 1
    BY <1>0
  <2>3. f[1] = s[1]
    BY <1>0, <2>1
  <2>4. ASSUME NEW i \in 2 .. N PROVE f[i] = f[i - 1] \o s[i]
    <3>1. i \in 1 .. N /\ i # 1
      BY <2>2
    <3>2. f[i] = Step(f, i)
      BY <2>1, <3>1
    <3> QED BY <3>1, <3>2
  <2> QED BY <2>3, <2>4
<1>10. f[1] = Piece(l, 1) /\ \A i \in 2 .. N : f[i] = f[i - 1] \o Piece(l, i)
  <2>1. ASSUME NEW i \in 2 .. N PROVE f[i] = f[i - 1] \o Piece(l, i)
    <3>1. i \in 1 .. N
      BY <1>0
    <3>2. s[i] = Piece(l, i) /\ f[i] = f[i - 1] \o s[i]
      BY <1>2, <1>9, <3>1
    <3> QED BY <3>2
  <2>2. f[1] = Piece(l, 1)
    BY <1>0, <1>2, <1>9
  <2> HIDE DEF N
  <2> QED BY <2>1, <2>2
<1> QED BY <1>1, <1>8, <1>10

LEMMA AppendNode ==
    ASSUME NEW m \in Lists, NEW x \in Node
    PROVE  /\ m \o <<x>> \in Lists
           /\ Len(m \o <<x>>) = Len(m) + 1
           /\ \A i \in 1 .. Len(m) : (m \o <<x>>)[i] = m[i]
           /\ (m \o <<x>>)[Len(m) + 1] = x
<1>1. m \in Seq(Node) /\ Len(m) \in Nat \ {0} /\ <<x>> \in Seq(Node) /\ Len(<<x>>) = 1
  BY ListType
<1>2. m \o <<x>> \in Seq(Node)
  BY <1>1
<1>3. Len(m \o <<x>>) = Len(m) + 1
  BY <1>1
<1>4. m \o <<x>> # <<>>
  BY <1>1, <1>3
<1> QED BY <1>1, <1>2, <1>3, <1>4 DEF Lists

\* The merged list covers what the list covers, with the same nodes in use.
LEMMA MergedList ==
    ASSUME NEW l \in Lists
    PROVE  /\ Merged(l) \in Lists
           /\ InUse(Merged(l)) = InUse(l)
           /\ \A e : Tiles(l, e) => Tiles(Merged(l), e)
<1> DEFINE N == Len(l)
           Upto(k) == IF Joined(l, k + 1) THEN k + 1 ELSE k
           Held(m, k) == \A n \in Node : ~n.free =>
                             ((\E i \in 1 .. Len(m) : m[i] = n) <=> (\E i \in 1 .. k : l[i] = n))
           Covers(m, k) == /\ Contiguous(m)
                           /\ m[1].addr = l[1].addr
                           /\ End(Last(m)) = End(l[Upto(k)])
           Good(m, k) == /\ m \in Lists
                         /\ Held(m, k)
                         /\ Contiguous(l) => Covers(m, k)
<1>0. /\ N \in Nat \ {0} /\ HeaderSize \in Nat \ {0}
      /\ \A i \in 1 .. N : l[i] \in Node
  BY ListType, SizesAssumption
<1>1. PICK f : /\ f[1] = Piece(l, 1)
               /\ \A i \in 2 .. Len(l) : f[i] = f[i - 1] \o Piece(l, i)
               /\ Merged(l) = f[Len(l)]
  BY MergedPieces
<1>2. ASSUME NEW k \in 1 .. N, ~Joined(l, k)
      PROVE  \E x \in Node : /\ Piece(l, k) = <<x>>
                             /\ x.addr = l[k].addr /\ x.free = l[k].free
                             /\ ~x.free \/ ~l[k].free => x = l[k]
                             /\ Contiguous(l) => End(x) = End(l[Upto(k)])
  <2>1. l[k] \in Node
    BY <1>0
  <2>2. CASE ~Joined(l, k + 1)
    BY <1>2, <2>1, <2>2 DEF Piece
  <2>3. CASE Joined(l, k + 1)
    <3>1. k + 1 \in Nat \ {0} /\ (k + 1) - 1 = k
      OBVIOUS
    <3>2. k + 1 \in 1 .. N /\ l[k].free
      BY <2>3, <3>1, JoinedOnce
    <3>3. l[k + 1] \in Node
      BY <1>0, <3>2
    <3> DEFINE x == [addr |-> l[k].addr, size |-> l[k].size + HeaderSize + l[k + 1].size,
                     free |-> l[k].free]
    <3>4. Piece(l, k) = <<x>>
      BY <1>2, <2>1, <2>3 DEF Piece, Node
    <3>5. x \in Node
      BY <1>0, <2>1, <3>3 DEF Node
    <3>6. Contiguous(l) => End(x) = End(l[k + 1])
      <4> SUFFICES ASSUME Contiguous(l) PROVE End(x) = End(l[k + 1])
        OBVIOUS
      <4>1. l[k + 1].addr = End(l[k])
        BY <1>0, <3>2 DEF Contiguous
      <4>2. l[k].addr \in Nat /\ l[k].size \in Nat /\ l[k + 1].size \in Nat
        BY <2>1, <3>3 DEF Node
      <4>3. End(x) = l[k].addr + HeaderSize + (l[k].size + HeaderSize + l[k + 1].size)
        BY DEF End, Start
      <4>4. End(l[k + 1]) = (l[k].addr + HeaderSize + l[k].size) + HeaderSize + l[k + 1].size
        BY <4>1 DEF End, Start
      <4> QED BY <1>0, <4>2, <4>3, <4>4
    <3>7. x.addr = l[k].addr /\ x.free = l[k].free
      OBVIOUS
    <3> HIDE DEF x
    <3> QED BY <2>3, <3>2, <3>4, <3>5, <3>6, <3>7
  <2> QED BY <2>2, <2>3
<1> DEFINE T == {k \in Nat : k + 1 <= N => Good(f[k + 1], k + 1)}
<1>3. 0 \in T
  <2> SUFFICES Good(f[1], 1)
    BY <1>0
  <2>1. ~Joined(l, 1)
    BY JoinedOnce
  <2>2. PICK x \in Node : /\ Piece(l, 1) = <<x>>
                          /\ x.addr = l[1].addr /\ x.free = l[1].free
                          /\ ~x.free \/ ~l[1].free => x = l[1]
                          /\ Contiguous(l) => End(x) = End(l[Upto(1)])
    BY <1>0, <1>2, <2>1
  <2>3. f[1] = <<x>> /\ f[1][1] = x /\ Len(f[1]) = 1
    BY <1>1, <2>2
  <2>4. f[1] \in Lists
    BY <2>3 DEF Lists
  <2>5. Held(f[1], 1)
    BY <2>2, <2>3
  <2>6. Contiguous(l) => Covers(f[1], 1)
    BY <2>2, <2>3 DEF Contiguous, Last
  <2> QED BY <2>4, <2>5, <2>6
<1>4. ASSUME NEW j \in Nat, j \in T PROVE j + 1 \in T
  <2> DEFINE k == j + 1
  <2> SUFFICES ASSUME k + 1 <= N PROVE Good(f[k + 1], k + 1)
    OBVIOUS
  <2>0. /\ k \in 1 .. N /\ k + 1 \in 2 .. N /\ k + 1 \in 1 .. N /\ (k + 1) - 1 = k
        /\ k + 1 \in Nat \ {0} /\ k + 2 \in Nat \ {0} /\ (k + 2) - 1 = k + 1 /\ (k + 1) + 1 = k + 2
    BY <1>0
  <2>1. Good(f[k], k)
    BY <1>4, <2>0
  <2> HIDE DEF k
  <2> DEFINE m == f[k]
  <2>2. f[k + 1] = m \o Piece(l, k + 1)
    BY <1>1, <2>0
  <2>3. m \in Lists /\ Held(m, k) /\ (Contiguous(l) => Covers(m, k))
    BY <2>1
  <2> HIDE DEF m
  <2>4. ASSUME Joined(l, k + 1) PROVE Good(f[k + 1], k + 1)
    <3>1. f[k + 1] = m
      BY <2>2, <2>3, <2>4 DEF Piece, Lists
    <3>2. ~Joined(l, (k + 1) + 1) /\ l[k + 1].free
      BY <2>0, <2>4, JoinedOnce
    <3>3. Upto(k) = k + 1 /\ Upto(k + 1) = k + 1
      BY <2>4, <3>2
    <3>4. Held(m, k + 1)
      <4>1. \A i \in 1 .. (k + 1) : i \in 1 .. k \/ i = k + 1
        BY <2>0
      <4>2. \A i \in 1 .. k : i \in 1 .. (k + 1)
        BY <2>0
      <4> QED BY <2>3, <3>2, <4>1, <4>2
    <3> HIDE DEF Upto, Held
    <3> QED BY <2>3, <3>1, <3>3, <3>4
  <2>5. ASSUME ~Joined(l, k + 1) PROVE Good(f[k + 1], k + 1)
    <3>1. PICK x \in Node : /\ Piece(l, k + 1) = <<x>>
                            /\ x.addr = l[k + 1].addr /\ x.free = l[k + 1].free
                            /\ ~x.free \/ ~l[k + 1].free => x = l[k + 1]
                            /\ Contiguous(l) => End(x) = End(l[Upto(k + 1)])
      BY <1>2, <2>0, <2>5
    <3> DEFINE n == m \o <<x>>
    <3>2. /\ n \in Lists /\ Len(n) = Len(m) + 1
          /\ \A i \in 1 .. Len(m) : n[i] = m[i]
          /\ n[Len(m) + 1] = x
      BY <2>3, AppendNode
    <3>3. f[k + 1] = n
      BY <2>2, <3>1
    <3> HIDE DEF n
    <3>4. Len(m) \in Nat \ {0}
      BY <2>3, ListType
    <3>5. Held(n, k + 1)
      <4> SUFFICES ASSUME NEW y \in Node, ~y.free
                   PROVE  (\E i \in 1 .. Len(n) : n[i] = y) <=> (\E i \in 1 .. (k + 1) : l[i] = y)
        OBVIOUS
      <4>1. (\E i \in 1 .. Len(n) : n[i] = y) <=> (\E i \in 1 .. Len(m) : m[i] = y) \/ x = y
        <5>1. \A i \in 1 .. Len(n) : i \in 1 .. Len(m) \/ i = Len(m) + 1
          BY <3>2, <3>4
        <5>2. Len(m) + 1 \in 1 .. Len(n) /\ \A i \in 1 .. Len(m) : i \in 1 .. Len(n)
          BY <3>2, <3>4
        <5> QED BY <3>2, <5>1, <5>2
      <4>2. (\E i \in 1 .. (k + 1) : l[i] = y) <=> (\E i \in 1 .. k : l[i] = y) \/ l[k + 1] = y
        <5>1. \A i \in 1 .. (k + 1) : i \in 1 .. k \/ i = k + 1
          BY <2>0
        <5>2. k + 1 \in 1 .. (k + 1) /\ \A i \in 1 .. k : i \in 1 .. (k + 1)
          BY <2>0
        <5> QED BY <5>1, <5>2
      <4>3. x = y <=> l[k + 1] = y
        BY <3>1
      <4> QED BY <2>3, <4>1, <4>2, <4>3
    <3>6. ASSUME Contiguous(l) PROVE Covers(n, k + 1)
      <4>1. /\ Contiguous(m) /\ m[1].addr = l[1].addr
            /\ End(m[Len(m)]) = End(l[k])
        BY <2>3, <2>5, <3>6 DEF Last
      <4>2. x.addr = End(m[Len(m)])
        BY <1>0, <2>0, <3>1, <3>6, <4>1 DEF Contiguous
      <4>3. Contiguous(n)
        <5> SUFFICES ASSUME NEW i \in 1 .. Len(n), i < Len(n)
                     PROVE  n[i + 1].addr = End(n[i])
          BY DEF Contiguous
        <5>1. i \in 1 .. Len(m) /\ (i = Len(m) \/ (i < Len(m) /\ i + 1 \in 1 .. Len(m)))
          BY <3>2, <3>4
        <5>2. CASE i = Len(m)
          BY <3>2, <4>2, <5>1, <5>2
        <5>3. CASE i < Len(m) /\ i + 1 \in 1 .. Len(m)
          BY <3>2, <4>1, <5>1, <5>3 DEF Contiguous
        <5> QED BY <5>1, <5>2, <5>3
      <4>4. n[1].addr = l[1].addr
        <5>1. 1 \in 1 .. Len(m)
          BY <3>4
        <5> QED BY <3>2, <4>1, <5>1
      <4>5. End(Last(n)) = End(l[Upto(k + 1)])
        <5> HIDE DEF Upto
        <5> QED BY <3>1, <3>2, <3>6 DEF Last
      <4> HIDE DEF Upto
      <4> QED BY <4>3, <4>4, <4>5
    <3> HIDE DEF Covers, Held
    <3> QED BY <3>2, <3>3, <3>5, <3>6
  <2> HIDE DEF Good
  <2> QED BY <2>4, <2>5
<1>5. Good(Merged(l), N)
  <2>1. N - 1 \in Nat /\ (N - 1) + 1 = N
    BY <1>0
  <2>2. N - 1 \in T
    <3> HIDE DEF T
    <3> QED BY <1>3, <1>4, <2>1, Induction
  <2> HIDE DEF Good
  <2> QED BY <1>0, <1>1, <2>1, <2>2
<1>6. Merged(l) \in Lists /\ InUse(Merged(l)) = InUse(l)
  BY <1>5 DEF InUse
<1>7. ASSUME NEW e, Tiles(l, e) PROVE Tiles(Merged(l), e)
  <2>1. Contiguous(l) /\ l[1].addr = 0 /\ End(l[Len(l)]) = e
    BY <1>7 DEF Tiles, Last
  <2>2. ~Joined(l, N + 1)
    BY <1>0 DEF Joined
  <2>3. Covers(Merged(l), N)
    <3> HIDE DEF Covers, Held
    <3> QED BY <1>5, <2>1
  <2> QED BY <1>6, <2>1, <2>2, <2>3 DEF Tiles
<1> QED BY <1>6, <1>7

-----------------------------------------------------------------------------
(* Changing one node of a list                                             *)

\* The nodes that are handed out, but for node i.
Others(l, i) == {n \in Node : ~n.free /\ \E j \in 1 .. Len(l) : j # i /\ l[j] = n}

LEMMA MarkedNode ==
    ASSUME NEW n \in Node, NEW b
    PROVE  [n EXCEPT !.free = b] = [addr |-> n.addr, size |-> n.size, free |-> b]
BY DEF Node

\* Node i is replaced.
Update(l, i, y) == [l EXCEPT ![i] = y]

LEMMA UpdateList ==
    ASSUME NEW l \in Lists, NEW i \in 1 .. Len(l), NEW y \in Node
    PROVE  LET m == Update(l, i, y)
           IN  /\ m \in Lists /\ Len(m) = Len(l)
               /\ \A j \in 1 .. Len(l) : m[j] = IF j = i THEN y ELSE l[j]
               /\ Others(m, i) = Others(l, i)
               /\ ~y.free => InUse(m) = {y} \cup Others(l, i)
               /\ y.free => InUse(m) = Others(l, i)
               /\ y.addr = l[i].addr =>
                      \A e : Tiles(l, e) => /\ End(y) = End(l[i]) => Tiles(m, e)
                                            /\ i = Len(l) => Tiles(m, End(y))
<1> DEFINE m == Update(l, i, y)
<1>0. l \in Seq(Node) /\ Len(l) \in Nat \ {0} /\ \A j \in 1 .. Len(l) : l[j] \in Node
  BY ListType
<1>1. m \in Seq(Node) /\ Len(m) = Len(l) /\ \A j \in 1 .. Len(l) : m[j] = IF j = i THEN y ELSE l[j]
  BY <1>0 DEF Update
<1> HIDE DEF m
<1>2. m \in Lists
  BY <1>0, <1>1 DEF Lists
<1>3. Others(m, i) = Others(l, i)
  BY <1>1 DEF Others
<1>4. ~y.free => InUse(m) = {y} \cup Others(l, i)
  BY <1>1 DEF Others, InUse
<1>5. y.free => InUse(m) = Others(l, i)
  BY <1>1 DEF Others, InUse
<1>6. ASSUME NEW e, Tiles(l, e), y.addr = l[i].addr, End(y) = End(l[i]) \/ i = Len(l)
      PROVE  Tiles(m, IF i = Len(l) THEN End(y) ELSE e)
  <2>1. Contiguous(l) /\ l[1].addr = 0 /\ End(l[Len(l)]) = e
    BY <1>6 DEF Tiles, Last
  <2>2. \A j \in 1 .. Len(l) : m[j].addr = l[j].addr /\ (j < Len(l) => End(m[j]) = End(l[j]))
    BY <1>0, <1>1, <1>6
  <2>3. Contiguous(m)
    <3> SUFFICES ASSUME NEW j \in 1 .. Len(l), j < Len(l) PROVE m[j + 1].addr = End(m[j])
      BY <1>1 DEF Contiguous
    <3>1. j + 1 \in 1 .. Len(l)
      BY <1>0
    <3>2. l[j + 1].addr = End(l[j])
      BY <2>1 DEF Contiguous
    <3> QED BY <2>2, <3>1, <3>2
  <2>4. m[1].addr = 0
    BY <1>0, <2>1, <2>2
  <2>5. End(m[Len(l)]) = IF i = Len(l) THEN End(y) ELSE e
    BY <1>0, <1>1, <2>1
  <2> QED BY <1>1, <1>2, <2>3, <2>4, <2>5 DEF Tiles, Last
<1>7. ASSUME y.addr = l[i].addr, NEW e, Tiles(l, e)
      PROVE  /\ End(y) = End(l[i]) => Tiles(m, e)
             /\ i = Len(l) => Tiles(m, End(y))
  <2>1. i = Len(l) /\ End(y) = End(l[i]) => End(y) = e
    BY <1>7 DEF Tiles, Last
  <2> QED BY <1>6, <1>7, <2>1
<1> QED BY <1>1, <1>2, <1>3, <1>4, <1>5, <1>7 DEF m

\* malloc_split(): the node that is handed out and a free one behind it.
LEMMA SplitList ==
    ASSUME NEW l \in Lists, NEW i \in 1 .. Len(l), NEW size \in Nat,
           l[i].size >= size + HeaderSize
    PROVE  LET m == Split(l, i, size)
               x == [addr |-> l[i].addr, size |-> size, free |-> FALSE]
           IN  /\ m \in Lists
               /\ InUse(m) = {x} \cup Others(l, i)
               /\ \A e : Tiles(l, e) => Tiles(m, e)
<1> DEFINE N == Len(l)
           x == [addr |-> l[i].addr, size |-> size, free |-> FALSE]
           rest == [addr |-> l[i].addr + size + HeaderSize,
                    size |-> l[i].size - size - HeaderSize, free |-> TRUE]
           a == SubSeq(l, 1, i - 1)
           b == SubSeq(l, i + 1, N)
           m == a \o <<x, rest>> \o b
<1>0. /\ l \in Seq(Node) /\ N \in Nat \ {0} /\ \A j \in 1 .. N : l[j] \in Node
      /\ HeaderSize \in Nat \ {0} /\ i \in Nat \ {0} /\ i <= N
  BY ListType, SizesAssumption
<1>1. Split(l, i, size) = m
  BY DEF Split
<1>2. x \in Node /\ rest \in Node /\ x.addr = l[i].addr /\ rest.addr = End(x) /\ End(rest) = End(l[i])
      /\ ~x.free /\ rest.free
  <2>1. l[i].addr \in Nat /\ l[i].size \in Nat
    BY <1>0 DEF Node
  <2>2. x \in Node /\ rest \in Node
    <3>1. x \in Node
      BY <2>1 DEF Node
    <3>2. l[i].addr + size + HeaderSize \in Nat /\ l[i].size - size - HeaderSize \in Nat
      BY <1>0, <2>1
    <3>3. rest \in Node
      BY <3>2 DEF Node
    <3> QED BY <3>1, <3>3
  <2>3. x.addr = l[i].addr /\ x.size = size /\ ~x.free
    OBVIOUS
  <2>4. /\ rest.addr = l[i].addr + size + HeaderSize
        /\ rest.size = l[i].size - size - HeaderSize /\ rest.free
    OBVIOUS
  <2> HIDE DEF x, rest
  <2>5. rest.addr = End(x)
    BY <1>0, <2>1, <2>3, <2>4 DEF End, Start
  <2>6. End(rest) = End(l[i])
    <3>1. /\ End(rest) = rest.addr + HeaderSize + rest.size
          /\ End(l[i]) = l[i].addr + HeaderSize + l[i].size
      BY DEF End, Start
    <3> DEFINE p == l[i].addr
               z == l[i].size
    <3>2. HeaderSize \in Nat /\ p \in Nat /\ z \in Nat
      BY <1>0, <2>1
    <3>3. rest.addr = p + size + HeaderSize /\ rest.size = z - size - HeaderSize
      BY <2>4
    <3> HIDE DEF p, z
    <3>4. p + size + HeaderSize + HeaderSize + (z - size - HeaderSize) = p + HeaderSize + z
      BY <3>2
    <3>5. rest.addr + HeaderSize + rest.size = p + HeaderSize + z
      BY <3>3, <3>4
    <3> QED BY <3>1, <3>5 DEF p, z
  <2> QED BY <2>2, <2>3, <2>4, <2>5, <2>6
<1> HIDE DEF x, rest
<1>3. /\ a \in Seq(Node) /\ Len(a) = i - 1
      /\ \A j \in 1 .. i - 1 : a[j] = l[j]
  <2>1. \A j \in 1 .. i - 1 : j \in 1 .. N /\ 1 + j - 1 = j
    BY <1>0
  <2>2. 1 \in 1 .. N + 1 /\ i - 1 \in 1 - 1 .. N
    BY <1>0
  <2> QED BY <1>0, <2>1, <2>2, SubSeqProperties
<1>4. /\ b \in Seq(Node) /\ Len(b) = N - i
      /\ \A j \in 1 .. N - i : b[j] = l[i + j]
  <2>1. i + 1 \in 1 .. N + 1 /\ N \in (i + 1) - 1 .. N
    BY <1>0
  <2>2. /\ b \in Seq(Node) /\ Len(b) = N - (i + 1) + 1
        /\ \A j \in 1 .. N - (i + 1) + 1 : b[j] = l[(i + 1) + j - 1]
    <3>1. \A j \in (i + 1) .. N : l[j] \in Node
      BY <1>0
    <3> HIDE DEF N
    <3> QED BY <1>0, <2>1, SubSeqProperties
  <2>3. N - (i + 1) + 1 = N - i /\ \A j \in 1 .. N - i : (i + 1) + j - 1 = i + j
    BY <1>0
  <2> HIDE DEF b, N
  <2> QED BY <2>2, <2>3
<1> HIDE DEF a, b
<1> DEFINE c == a \o <<x, rest>>
<1>5. /\ c \in Seq(Node) /\ Len(c) = i + 1
      /\ \A j \in 1 .. i - 1 : c[j] = l[j]
      /\ c[i] = x /\ c[i + 1] = rest
  <2>1. <<x, rest>> \in Seq(Node) /\ Len(<<x, rest>>) = 2
    BY <1>2
  <2> DEFINE d == <<x, rest>>
  <2>2. d[1] = x /\ d[2] = rest
    OBVIOUS
  <2> HIDE DEF d
  <2>3. /\ c \in Seq(Node) /\ Len(c) = Len(a) + Len(d)
        /\ \A j \in 1 .. Len(a) + Len(d) : c[j] = IF j <= Len(a) THEN a[j] ELSE d[j - Len(a)]
    BY <1>3, <2>1, ConcatProperties DEF d
  <2>4. Len(a) = i - 1 /\ Len(d) = 2 /\ Len(a) + Len(d) = i + 1
    BY <1>0, <1>3, <2>1 DEF d
  <2> HIDE DEF c
  <2>5. \A j \in 1 .. i - 1 : c[j] = a[j]
    BY <1>0, <2>3, <2>4
  <2>6. c[i] = d[1] /\ c[i + 1] = d[2]
    <3>1. i \in 1 .. i + 1 /\ i + 1 \in 1 .. i + 1 /\ ~ (i <= i - 1) /\ ~ (i + 1 <= i - 1)
          /\ i - (i - 1) = 1 /\ (i + 1) - (i - 1) = 2
      BY <1>0
    <3> QED BY <2>3, <2>4, <3>1
  <2> QED BY <1>3, <2>2, <2>3, <2>4, <2>5, <2>6
<1>6. m = c \o b
  OBVIOUS
<1> HIDE DEF c, m
<1>7. /\ m \in Seq(Node) /\ Len(m) = N + 1
      /\ \A j \in 1 .. i - 1 : m[j] = l[j]
      /\ m[i] = x /\ m[i + 1] = rest
      /\ \A j \in i + 2 .. N + 1 : m[j] = l[j - 1]
  <2>0. /\ m \in Seq(Node) /\ Len(m) = Len(c) + Len(b)
        /\ \A j \in 1 .. Len(c) + Len(b) : m[j] = IF j <= Len(c) THEN c[j] ELSE b[j - Len(c)]
    BY <1>4, <1>5, <1>6, ConcatProperties
  <2>1. m \in Seq(Node) /\ Len(m) = i + 1 + (N - i) /\ Len(c) + Len(b) = N + 1
    BY <1>0, <1>4, <1>5, <2>0
  <2>2. \A j \in 1 .. i + 1 : m[j] = c[j]
    <3> HIDE DEF N
    <3>1. \A j \in 1 .. i + 1 : j \in 1 .. N + 1 /\ j <= i + 1
      BY <1>0
    <3> QED BY <1>5, <2>0, <2>1, <3>1
  <2>3. \A j \in i + 2 .. N + 1 : m[j] = b[j - (i + 1)]
    <3> HIDE DEF N
    <3>1. \A j \in i + 2 .. N + 1 : j \in 1 .. N + 1 /\ ~ (j <= i + 1)
      BY <1>0
    <3> QED BY <1>5, <2>0, <2>1, <3>1
  <2>4. \A j \in i + 2 .. N + 1 : j - (i + 1) \in 1 .. N - i /\ i + (j - (i + 1)) = j - 1
    BY <1>0
  <2>5. \A j \in i + 2 .. N + 1 : m[j] = l[j - 1]
    <3> SUFFICES ASSUME NEW j \in i + 2 .. N + 1 PROVE m[j] = l[j - 1]
      OBVIOUS
    <3> HIDE DEF N
    <3>1. b[j - (i + 1)] = l[i + (j - (i + 1))]
      BY <1>4, <2>4
    <3> QED BY <2>3, <2>4, <3>1
  <2>6. Len(m) = N + 1
    BY <1>0, <2>1
  <2>7. \A j \in 1 .. i - 1 : j \in 1 .. i + 1
    BY <1>0
  <2>8. i \in 1 .. i + 1 /\ i + 1 \in 1 .. i + 1
    BY <1>0
  <2> QED BY <1>5, <2>1, <2>2, <2>5, <2>6, <2>7, <2>8
<1>8. m \in Lists
  BY <1>0, <1>7 DEF Lists
<1>9. \A j \in 1 .. N + 1 : j \in 1 .. i - 1 \/ j = i \/ j = i + 1 \/ j \in i + 2 .. N + 1
  BY <1>0
<1>10. InUse(m) = {x} \cup Others(l, i)
  <2>1. ASSUME NEW n \in InUse(m) PROVE n = x \/ n \in Others(l, i)
    <3>1. PICK j \in 1 .. N + 1 : m[j] = n
      BY <1>7 DEF InUse
    <3>2. n \in Node /\ ~n.free
      BY DEF InUse
    <3>3. CASE j \in 1 .. i - 1
      <4>1. j \in 1 .. N /\ j # i /\ l[j] = n
        BY <1>0, <1>7, <3>1, <3>3
      <4> QED BY <3>2, <4>1 DEF Others
    <3>4. CASE j = i \/ j = i + 1
      BY <1>2, <1>7, <3>1, <3>2, <3>4
    <3>5. CASE j \in i + 2 .. N + 1
      <4>1. j - 1 \in 1 .. N /\ j - 1 # i /\ l[j - 1] = n
        BY <1>0, <1>7, <3>1, <3>5
      <4> QED BY <3>2, <4>1 DEF Others
    <3> QED BY <1>9, <3>3, <3>4, <3>5
  <2>2. x \in InUse(m)
    <3>1. i \in 1 .. N + 1
      BY <1>0
    <3> QED BY <1>2, <1>7, <3>1 DEF InUse
  <2>3. ASSUME NEW n \in Others(l, i) PROVE n \in InUse(m)
    <3>1. PICK j \in 1 .. N : j # i /\ l[j] = n
      BY DEF Others
    <3>2. n \in Node /\ ~n.free
      BY DEF Others
    <3>3. CASE j < i
      <4>1. j \in 1 .. i - 1 /\ j \in 1 .. N + 1
        BY <1>0, <3>3
      <4> QED BY <1>7, <3>1, <3>2, <4>1 DEF InUse
    <3>4. CASE j > i
      <4>1. j + 1 \in i + 2 .. N + 1 /\ j + 1 \in 1 .. N + 1 /\ (j + 1) - 1 = j
        BY <1>0, <3>4
      <4>2. m[j + 1] = n
        BY <1>7, <3>1, <4>1
      <4> QED BY <1>7, <3>2, <4>1, <4>2 DEF InUse
    <3> QED BY <1>0, <3>1, <3>3, <3>4
  <2> QED BY <2>1, <2>2, <2>3
<1>11. ASSUME NEW e, Tiles(l, e) PROVE Tiles(m, e)
  <2>1. /\ \A j \in 1 .. N : j < N => l[j + 1].addr = End(l[j])
        /\ l[1].addr = 0 /\ End(l[N]) = e
    BY <1>11 DEF Tiles, Contiguous, Last
  <2>2. ASSUME NEW j \in 1 .. N + 1, j < N + 1 PROVE m[j + 1].addr = End(m[j])
    <3>1. CASE j \in 1 .. i - 1
      <4>0. j \in 1 .. N /\ j < N
        BY <1>0, <3>1
      <4>1. l[j + 1].addr = End(l[j]) /\ m[j] = l[j]
        <5>1. l[j + 1].addr = End(l[j])
          BY <2>1, <4>0
        <5>2. m[j] = l[j]
          BY <1>7, <3>1
        <5> QED BY <5>1, <5>2
      <4>2. m[j + 1].addr = l[j + 1].addr
        <5>1. j + 1 \in 1 .. i - 1 \/ j + 1 = i
          BY <1>0, <3>1
        <5> QED BY <1>2, <1>7, <5>1
      <4> QED BY <4>1, <4>2
    <3>2. CASE j = i
      BY <1>2, <1>7, <3>2
    <3>3. CASE j = i + 1
      <4>1. i < N /\ j + 1 \in i + 2 .. N + 1 /\ (j + 1) - 1 = i + 1
        BY <1>0, <2>2, <3>3
      <4>2. m[j + 1] = l[i + 1] /\ l[i + 1].addr = End(l[i])
        BY <1>7, <2>1, <4>1
      <4> QED BY <1>2, <1>7, <3>3, <4>2
    <3>4. CASE j \in i + 2 .. N + 1
      <4>1. /\ j + 1 \in i + 2 .. N + 1 /\ (j + 1) - 1 = j
            /\ j - 1 \in 1 .. N /\ j - 1 < N /\ (j - 1) + 1 = j
        BY <1>0, <2>2, <3>4
      <4>2. m[j + 1] = l[j] /\ m[j] = l[j - 1]
        BY <1>7, <3>4, <4>1
      <4>3. l[(j - 1) + 1].addr = End(l[j - 1])
        BY <2>1, <4>1
      <4> QED BY <4>1, <4>2, <4>3
    <3> QED BY <1>9, <3>1, <3>2, <3>3, <3>4
  <2>3. m[1].addr = 0
    <3>1. CASE i = 1
      BY <1>2, <1>7, <2>1, <3>1
    <3>2. CASE i # 1
      <4>1. 1 \in 1 .. i - 1
        BY <1>0, <3>2
      <4> QED BY <1>7, <2>1, <4>1
    <3> QED BY <3>1, <3>2
  <2>4. End(m[N + 1]) = e
    <3>1. CASE i = N
      BY <1>2, <1>7, <2>1, <3>1
    <3>2. CASE i # N
      <4>1. N + 1 \in i + 2 .. N + 1 /\ (N + 1) - 1 = N
        BY <1>0, <3>2
      <4> QED BY <1>7, <2>1, <4>1
    <3> QED BY <3>1, <3>2
  <2> QED BY <1>7, <1>8, <2>2, <2>3, <2>4 DEF Tiles, Contiguous, Last
<1> QED BY <1>1, <1>8, <1>10, <1>11 DEF x

-----------------------------------------------------------------------------
(* The list and those who hold its nodes                                   *)

\* Each holder has a node in use, and each node in use a holder, unless it is
\* the last, which free() does not find.
InOrder(l, h, e) ==
    /\ Tiles(l, e)
    /\ \A r \in h : \E n \in InUse(l) : Start(n) = r.start /\ n.size = r.size
    /\ \A n \in InUse(l) : End(n) = e \/ \E r \in h : r.start = Start(n)

\* Nobody holds node i: it is free, or the last and was given back.
NotHeld(l, h, i) == l[i].free \/ \A r \in h : r.start # Start(l[i])

LEMMA TilesType ==
    ASSUME NEW l, NEW e, Tiles(l, e)
    PROVE  /\ l \in Lists /\ Contiguous(l)
           /\ Len(l) \in Nat \ {0} /\ Len(l) \in 1 .. Len(l)
           /\ \A i \in 1 .. Len(l) : l[i] \in Node
           /\ \A i \in 1 .. Len(l) : /\ l[i].addr \in Nat /\ l[i].size \in Nat
                                     /\ Start(l[i]) = l[i].addr + HeaderSize
                                     /\ End(l[i]) = Start(l[i]) + l[i].size
                                     /\ Start(l[i]) \in Nat /\ End(l[i]) \in Nat
           /\ End(l[Len(l)]) = e
           /\ HeaderSize \in Nat \ {0}
           /\ \A j, k \in 1 .. Len(l) : j < k => End(l[j]) <= l[k].addr
<1>1. l \in Lists /\ Contiguous(l) /\ End(l[Len(l)]) = e
  BY DEF Tiles, Last
<1>2. Len(l) \in Nat \ {0} /\ Len(l) \in 1 .. Len(l) /\ \A i \in 1 .. Len(l) : l[i] \in Node
  BY <1>1, ListType
<1>3. HeaderSize \in Nat \ {0}
  BY SizesAssumption
<1>4. \A i \in 1 .. Len(l) : /\ l[i].addr \in Nat /\ l[i].size \in Nat
                             /\ Start(l[i]) = l[i].addr + HeaderSize
                             /\ End(l[i]) = Start(l[i]) + l[i].size
                             /\ Start(l[i]) \in Nat /\ End(l[i]) \in Nat
  BY <1>2, <1>3 DEF Node, Start, End
<1>5. \A j, k \in 1 .. Len(l) : j < k => End(l[j]) <= l[k].addr
  BY <1>1, NodesInOrder
<1> QED BY <1>1, <1>2, <1>3, <1>4, <1>5

\* A node is known by where its bytes begin.
LEMMA StartsDiffer ==
    ASSUME NEW l, NEW e, Tiles(l, e), NEW j \in 1 .. Len(l), NEW k \in 1 .. Len(l),
           Start(l[j]) = Start(l[k])
    PROVE  j = k
<1>1. /\ j \in Int /\ k \in Int
      /\ \A i \in 1 .. Len(l) : /\ l[i].addr \in Nat /\ l[i].size \in Nat
                                /\ Start(l[i]) = l[i].addr + HeaderSize
                                /\ End(l[i]) = Start(l[i]) + l[i].size
      /\ HeaderSize \in Nat \ {0}
      /\ \A a, b \in 1 .. Len(l) : a < b => End(l[a]) <= l[b].addr
  BY TilesType
<1>2. ASSUME NEW a \in 1 .. Len(l), NEW b \in 1 .. Len(l), a < b PROVE Start(l[a]) # Start(l[b])
  <2>1. /\ l[a].addr \in Nat /\ l[a].size \in Nat
        /\ Start(l[a]) = l[a].addr + HeaderSize /\ End(l[a]) = Start(l[a]) + l[a].size
    BY <1>1
  <2>2. l[b].addr \in Nat /\ Start(l[b]) = l[b].addr + HeaderSize
    BY <1>1
  <2>3. End(l[a]) <= l[b].addr
    BY <1>1, <1>2
  <2>4. HeaderSize \in Nat \ {0}
    BY <1>1
  <2> DEFINE aa == l[a].addr
             za == l[a].size
             ab == l[b].addr
  <2>5. aa + HeaderSize + za <= ab /\ aa \in Nat /\ za \in Nat /\ ab \in Nat
    BY <2>1, <2>2, <2>3
  <2> HIDE DEF aa, za, ab
  <2>6. aa + HeaderSize # ab + HeaderSize
    BY <2>4, <2>5
  <2> QED BY <2>1, <2>2, <2>6 DEF aa, ab
<1> QED BY <1>1, <1>2

\* Only the last node ends where the heap ends.
LEMMA OnlyLastEnds ==
    ASSUME NEW l, NEW e, Tiles(l, e), NEW j \in 1 .. Len(l), End(l[j]) = e
    PROVE  j = Len(l)
<1>1. /\ Len(l) \in 1 .. Len(l) /\ j \in Int /\ Len(l) \in Int
      /\ \A i \in 1 .. Len(l) : /\ l[i].addr \in Nat /\ l[i].size \in Nat
                                /\ End(l[i]) = l[i].addr + HeaderSize + l[i].size
      /\ HeaderSize \in Nat \ {0}
      /\ End(l[Len(l)]) = e
      /\ \A a, b \in 1 .. Len(l) : a < b => End(l[a]) <= l[b].addr
  BY TilesType
<1> SUFFICES ASSUME j < Len(l) PROVE FALSE
  BY <1>1
<1>2. /\ End(l[j]) <= l[Len(l)].addr
      /\ l[Len(l)].addr \in Nat /\ l[Len(l)].size \in Nat
      /\ End(l[Len(l)]) = l[Len(l)].addr + HeaderSize + l[Len(l)].size
  BY <1>1
<1>3. HeaderSize \in Nat \ {0} /\ End(l[Len(l)]) = e
  BY <1>1
<1> QED BY <1>2, <1>3

\* Who holds a node of the list holds one other than i.
LEMMA HeldIsOther ==
    ASSUME NEW l, NEW h, NEW e, InOrder(l, h, e), NEW i \in 1 .. Len(l), NotHeld(l, h, i),
           NEW r \in h
    PROVE  \E j \in 1 .. Len(l) : /\ j # i /\ l[j] \in Others(l, i)
                                  /\ Start(l[j]) = r.start /\ l[j].size = r.size
<1>1. PICK n \in InUse(l) : Start(n) = r.start /\ n.size = r.size
  BY DEF InOrder
<1>2. n \in Node /\ ~n.free
  BY <1>1 DEF InUse
<1>3. PICK j \in 1 .. Len(l) : l[j] = n
  BY <1>1 DEF InUse
<1>4. j # i
  BY <1>1, <1>2, <1>3 DEF NotHeld
<1>5. l[j] \in Others(l, i)
  BY <1>2, <1>3, <1>4 DEF Others
<1> QED BY <1>1, <1>3, <1>4, <1>5

\* Node i, or its first bytes, is handed out; the heap may have grown if it
\* is the last.
LEMMA HandOut ==
    ASSUME NEW l, NEW h, NEW e, InOrder(l, h, e), NEW i \in 1 .. Len(l), NotHeld(l, h, i),
           NEW size \in Nat, NEW m, NEW e2, Tiles(m, e2), e2 = e \/ i = Len(l),
           InUse(m) = {[addr |-> l[i].addr, size |-> size, free |-> FALSE]} \cup Others(l, i)
    PROVE  InOrder(m, h \cup {[start |-> Start(l[i]), size |-> size]}, e2)
<1> DEFINE x == [addr |-> l[i].addr, size |-> size, free |-> FALSE]
           t == [start |-> Start(l[i]), size |-> size]
<1>1. Start(x) = t.start /\ x.size = t.size
  BY DEF Start
<1> HIDE DEF x, t
<1>2. \A r \in h \cup {t} : \E n \in InUse(m) : Start(n) = r.start /\ n.size = r.size
  <2> SUFFICES ASSUME NEW r \in h \cup {t}
               PROVE  \E n \in InUse(m) : Start(n) = r.start /\ n.size = r.size
    OBVIOUS
  <2>1. CASE r = t
    BY <1>1, <2>1 DEF x
  <2>2. CASE r \in h
    <3>1. PICK j \in 1 .. Len(l) : /\ j # i /\ l[j] \in Others(l, i)
                                   /\ Start(l[j]) = r.start /\ l[j].size = r.size
      BY <2>2, HeldIsOther
    <3> QED BY <3>1
  <2> QED BY <2>1, <2>2
<1>3. \A n \in InUse(m) : End(n) = e2 \/ \E r \in h \cup {t} : r.start = Start(n)
  <2> SUFFICES ASSUME NEW n \in InUse(m), n # x
               PROVE  End(n) = e2 \/ \E r \in h \cup {t} : r.start = Start(n)
    BY <1>1
  <2>1. n \in Others(l, i)
    BY DEF x
  <2>2. PICK j \in 1 .. Len(l) : j # i /\ l[j] = n
    BY <2>1 DEF Others
  <2>3. n \in InUse(l)
    BY <2>1 DEF Others, InUse
  <2>4. End(n) = e \/ \E r \in h : r.start = Start(n)
    BY <2>3 DEF InOrder
  <2>5. End(n) = e => e2 = e
    <3> SUFFICES ASSUME End(n) = e PROVE e2 = e
      OBVIOUS
    <3>1. j = Len(l)
      BY <2>2, OnlyLastEnds DEF InOrder
    <3> QED BY <2>2, <3>1
  <2> QED BY <2>4, <2>5
<1>4. InOrder(m, h \cup {t}, e2)
  BY <1>2, <1>3 DEF InOrder
<1> QED BY <1>4 DEF t

\* A node that ends before another begins has no byte of it.
LEMMA BytesBefore ==
    ASSUME NEW start \in Nat, NEW size \in Nat, NEW addr \in Nat, start + size <= addr,
           NEW b \in Int
    PROVE  ~(b < start + size /\ addr + HeaderSize <= b)
<1>1. HeaderSize \in Nat
  BY SizesAssumption
<1> QED BY <1>1

\* Two nodes share no byte, if the one before the other is not made longer.
LEMMA NodesApart ==
    ASSUME NEW l, NEW e, Tiles(l, e), NEW i \in 1 .. Len(l), NEW j \in 1 .. Len(l), j # i,
           NEW size \in Nat, size <= l[i].size \/ i = Len(l), NEW b \in Int
    PROVE  ~(/\ Start(l[i]) <= b /\ b < Start(l[i]) + size
             /\ Start(l[j]) <= b /\ b < Start(l[j]) + l[j].size)
<1> DEFINE ai == l[i].addr
           zi == l[i].size
           si == Start(l[i])
           aj == l[j].addr
           zj == l[j].size
           sj == Start(l[j])
<1>1. /\ i \in Int /\ j \in Int
      /\ \A k \in 1 .. Len(l) : /\ l[k].addr \in Nat /\ l[k].size \in Nat
                                /\ Start(l[k]) = l[k].addr + HeaderSize
                                /\ End(l[k]) = Start(l[k]) + l[k].size
                                /\ Start(l[k]) \in Nat
      /\ \A a, c \in 1 .. Len(l) : a < c => End(l[a]) <= l[c].addr
  BY TilesType
<1>2. /\ ai \in Nat /\ zi \in Nat /\ si \in Nat /\ si = ai + HeaderSize
      /\ aj \in Nat /\ zj \in Nat /\ sj \in Nat /\ sj = aj + HeaderSize
  BY <1>1
<1>3. CASE j < i
  <2>1. sj + zj <= ai
    BY <1>1, <1>3
  <2> HIDE DEF ai, zi, si, aj, zj, sj
  <2>2. ~(b < sj + zj /\ si <= b)
    BY <1>2, <2>1, BytesBefore
  <2> QED BY <2>2 DEF si, sj, zj
<1>4. CASE i < j
  <2>1. si + zi <= aj
    BY <1>1, <1>4
  <2>2. size <= zi
    <3>1. i # Len(l)
      BY <1>1, <1>4
    <3> QED BY <3>1
  <2> HIDE DEF ai, zi, si, aj, zj, sj
  <2>3. si + size <= aj
    BY <1>2, <2>1, <2>2
  <2>4. ~(b < si + size /\ sj <= b)
    BY <1>2, <2>3, BytesBefore
  <2> QED BY <2>4 DEF si, sj
<1> QED BY <1>1, <1>3, <1>4

\* It shares no byte with what others hold.
LEMMA HandOutApart ==
    ASSUME NEW l, NEW h, NEW e, InOrder(l, h, e), NEW i \in 1 .. Len(l), NotHeld(l, h, i),
           NEW size \in Nat, size <= l[i].size \/ i = Len(l),
           \A r \in h : r \in [start : Nat, size : Nat]
    PROVE  \A r \in h : Ranges!Bytes([start |-> Start(l[i]), size |-> size]) \cap Ranges!Bytes(r) = {}
<1>0. Start(l[i]) \in Nat
  BY TilesType DEF InOrder
<1> SUFFICES ASSUME NEW r \in h
             PROVE  Ranges!Bytes([start |-> Start(l[i]), size |-> size]) \cap Ranges!Bytes(r) = {}
  OBVIOUS
<1>1. PICK j \in 1 .. Len(l) : j # i /\ Start(l[j]) = r.start /\ l[j].size = r.size
  BY HeldIsOther
<1>2. ASSUME NEW b \in Int
      PROVE  ~(/\ Start(l[i]) <= b /\ b < Start(l[i]) + size
               /\ r.start <= b /\ b < r.start + r.size)
  <2>1. Tiles(l, e)
    BY DEF InOrder
  <2>2. ~(/\ Start(l[i]) <= b /\ b < Start(l[i]) + size
          /\ Start(l[j]) <= b /\ b < Start(l[j]) + l[j].size)
    BY <1>1, <2>1, NodesApart
  <2> QED BY <1>1, <2>2
<1> DEFINE t == [start |-> Start(l[i]), size |-> size]
<1>3. t.start = Start(l[i]) /\ t.size = size
  OBVIOUS
<1> HIDE DEF t
<1>4. \A b : b \in Ranges!Bytes(t) => b \in Int /\ t.start <= b /\ b < t.start + t.size
  BY <1>0, <1>3 DEF Ranges!Bytes
<1>5. \A b : b \in Ranges!Bytes(r) => b \in Int /\ r.start <= b /\ b < r.start + r.size
  <2>1. r.start \in Nat /\ r.size \in Nat
    OBVIOUS
  <2> QED BY <2>1 DEF Ranges!Bytes
<1>6. Ranges!Bytes(t) \cap Ranges!Bytes(r) = {}
  BY <1>2, <1>3, <1>4, <1>5
<1> QED BY <1>6 DEF t

\* A node that is not the last is given back.
LEMMA GiveBack ==
    ASSUME NEW l, NEW h, NEW e, InOrder(l, h, e), NEW i \in 1 .. Len(l),
           NEW t \in h, Start(l[i]) = t.start,
           \A r \in h : r \in [start : Nat, size : Nat],
           NEW m, Tiles(m, e), InUse(m) = Others(l, i)
    PROVE  InOrder(m, h \ {t}, e)
<1>0. Tiles(l, e)
  BY DEF InOrder
<1>1. t.size = l[i].size
  <2>1. PICK n \in InUse(l) : Start(n) = t.start /\ n.size = t.size
    BY DEF InOrder
  <2>2. PICK j \in 1 .. Len(l) : l[j] = n
    BY <2>1 DEF InUse
  <2>3. j = i
    BY <1>0, <2>1, <2>2, StartsDiffer
  <2> QED BY <2>1, <2>2, <2>3
<1>2. \A r \in h \ {t} : \E n \in InUse(m) : Start(n) = r.start /\ n.size = r.size
  <2> SUFFICES ASSUME NEW r \in h \ {t}
               PROVE  \E n \in InUse(m) : Start(n) = r.start /\ n.size = r.size
    OBVIOUS
  <2>1. PICK n \in InUse(l) : Start(n) = r.start /\ n.size = r.size
    BY DEF InOrder
  <2>2. PICK j \in 1 .. Len(l) : l[j] = n
    BY <2>1 DEF InUse
  <2>3. j # i
    <3> SUFFICES ASSUME j = i PROVE FALSE
      OBVIOUS
    <3>1. r.start = t.start /\ r.size = t.size
      BY <1>1, <2>1, <2>2
    <3>2. r = t
      BY <3>1
    <3> QED BY <3>2
  <2>4. n \in Others(l, i)
    BY <2>1, <2>2, <2>3 DEF InUse, Others
  <2> QED BY <2>1, <2>4
<1>3. \A n \in InUse(m) : End(n) = e \/ \E r \in h \ {t} : r.start = Start(n)
  <2> SUFFICES ASSUME NEW n \in InUse(m), End(n) # e
               PROVE  \E r \in h \ {t} : r.start = Start(n)
    OBVIOUS
  <2>1. PICK j \in 1 .. Len(l) : j # i /\ l[j] = n
    BY DEF Others
  <2>2. n \in InUse(l)
    BY DEF Others, InUse
  <2>3. PICK r \in h : r.start = Start(n)
    BY <2>2 DEF InOrder
  <2>4. r # t
    BY <1>0, <2>1, <2>3, StartsDiffer
  <2> QED BY <2>3, <2>4
<1> QED BY <1>2, <1>3 DEF InOrder

\* The last node is given back: free() leaves it as it is.
LEMMA GiveBackLast ==
    ASSUME NEW l, NEW h, NEW e, InOrder(l, h, e), NEW t \in h,
           \A i \in 1 .. Len(l) : i < Len(l) => Start(l[i]) # t.start
    PROVE  InOrder(l, h \ {t}, e)
<1>0. /\ Tiles(l, e) /\ Len(l) \in Nat \ {0} /\ End(l[Len(l)]) = e
  BY TilesType DEF InOrder
<1>1. \A n \in InUse(l) : End(n) = e \/ \E r \in h \ {t} : r.start = Start(n)
  <2> SUFFICES ASSUME NEW n \in InUse(l), End(n) # e
               PROVE  \E r \in h \ {t} : r.start = Start(n)
    OBVIOUS
  <2>1. PICK j \in 1 .. Len(l) : l[j] = n
    BY DEF InUse
  <2>2. PICK r \in h : r.start = Start(n)
    BY DEF InOrder
  <2>3. j < Len(l)
    BY <1>0, <2>1
  <2> QED BY <2>1, <2>2, <2>3
<1> QED BY <1>0, <1>1 DEF InOrder

-----------------------------------------------------------------------------
(* The calls                                                               *)

Holding == InOrder(list, held, total_malloc_pages * PageSize)

IInv == TypeOK /\ (~damaged => Holding)

LEMMA Types ==
    ASSUME TypeOK
    PROVE  /\ list \in Lists /\ Len(list) \in Nat \ {0}
           /\ \A i \in Nodes : list[i] \in Node
           /\ \A r \in held : r \in [start : Nat, size : Nat]
           /\ total_malloc_pages \in 1 .. MaxPages /\ MaxPages \in Nat \ {0}
           /\ HeaderSize \in Nat \ {0} /\ PageSize \in Nat \ {0}
           /\ Sizes \subseteq Nat /\ LastNode \in Nodes
<1>1. list \in Lists
  BY DEF TypeOK, Lists, Node
<1>2. \A r \in held : r \in [start : Nat, size : Nat]
  BY SizesAssumption DEF TypeOK
<1>3. PageSize \in Nat \ {0}
  BY SizesAssumption
<1> QED BY <1>1, <1>2, <1>3, ListType, SizesAssumption DEF TypeOK, Nodes, LastNode

\* The node malloc_next_block() stops at is free, or the last.
LEMMA FoundNode ==
    ASSUME TypeOK, NEW size \in Nat
    PROVE  Found(size) \in Nodes /\ (list[Found(size)].free \/ Found(size) = LastNode)
<1> DEFINE S == {i \in Nodes : list[i].free /\ list[i].size >= size} \cup {LastNode}
<1>1. S \subseteq Nat /\ S # {} /\ S \subseteq Nodes
  BY Types DEF Nodes, LastNode
<1>2. \A i \in S : list[i].free \/ i = LastNode
  OBVIOUS
<1>3. Found(size) = Min(S)
  BY DEF Found
<1> HIDE DEF S
<1>4. Min(S) \in S
  BY <1>1, MinOfSet
<1> QED BY <1>1, <1>2, <1>3, <1>4

\* What all ways of malloc() to hand out a node have in common.
LEMMA HandedInv ==
    ASSUME IInv, ~damaged, NEW size \in Sizes, size \in Nat, NEW m, NEW pages \in Nat,
           m \in Lists,
           InUse(m) = {[addr |-> list[Found(size)].addr, size |-> size, free |-> FALSE]}
                          \cup Others(list, Found(size)),
           ~damaged' => /\ Tiles(m, (total_malloc_pages + pages) * PageSize)
                        /\ pages = 0 \/ Found(size) = LastNode
                        /\ size <= list[Found(size)].size \/ Found(size) = LastNode,
           list' = Merged(m), Handed(Found(size), size), halted' = halted,
           total_malloc_pages' = total_malloc_pages + pages,
           total_malloc_pages' <= MaxPages
    PROVE  /\ IInv'
           /\ ~damaged' => \E r \in held' : Ranges!Allocate(r)
<1> DEFINE i == Found(size)
           e == total_malloc_pages * PageSize
           t == [start |-> Start(list[i]), size |-> size]
<1>0. /\ TypeOK /\ Holding /\ list \in Lists /\ total_malloc_pages \in Nat
      /\ \A r \in held : r \in [start : Nat, size : Nat]
      /\ PageSize \in Nat /\ HeaderSize \in Nat
  BY Types DEF IInv
<1>1. i \in 1 .. Len(list) /\ (list[i].free \/ i = LastNode) /\ list[i] \in Node
  BY <1>0, FoundNode, Types DEF Nodes
<1>2. held' = held \cup {t} /\ damaged' = Damages(size)
  BY DEF Handed
<1>3. list' \in Lists /\ InUse(list') = InUse(m)
      /\ \A d : Tiles(m, d) => Tiles(list', d)
  BY MergedList
<1> HIDE DEF i
<1>4. TypeOK'
  <2>1. t \in [start : Nat, size : Sizes]
    BY <1>0, <1>1 DEF Start, Node
  <2>2. \A r \in held' : r \in [start : Nat, size : Sizes]
    BY <1>0, <1>2, <2>1 DEF TypeOK
  <2>3. total_malloc_pages' \in 1 .. MaxPages
    BY <1>0, Types
  <2>4. damaged' \in BOOLEAN
    BY <1>2 DEF Damages
  <2> QED BY <1>0, <1>3, <2>2, <2>3, <2>4 DEF TypeOK, Lists, Node
<1>5. ASSUME ~damaged' PROVE Holding' /\ Ranges!Allocate(t)
  <2>1. NotHeld(list, held, i)
    BY <1>2, <1>5 DEF NotHeld, Damages, i
  <2>2. InOrder(list, held, e)
    BY <1>0 DEF Holding
  <2>3. Tiles(list', (total_malloc_pages + pages) * PageSize)
    BY <1>3, <1>5
  <2>4. (total_malloc_pages + pages) * PageSize = e \/ i = Len(list)
    BY <1>0, <1>5 DEF LastNode, i
  <2>5. InUse(list') = {[addr |-> list[i].addr, size |-> size, free |-> FALSE]} \cup Others(list, i)
    BY <1>3 DEF i
  <2> DEFINE e2 == (total_malloc_pages + pages) * PageSize
  <2> HIDE DEF e, e2
  <2>6. InOrder(list', held \cup {t}, e2)
    BY <1>1, <2>1, <2>2, <2>3, <2>4, <2>5, HandOut DEF e2
  <2>7. Holding'
    BY <1>2, <2>6 DEF Holding, e2
  <2>8. size <= list[i].size \/ i = Len(list)
    BY <1>5 DEF LastNode, i
  <2>9. \A r \in held : Ranges!Bytes(t) \cap Ranges!Bytes(r) = {}
    BY <1>0, <1>1, <2>1, <2>2, <2>8, HandOutApart
  <2>10. damaged' = damaged
    BY <1>0, <1>4, <1>5 DEF TypeOK
  <2>11. Ranges!Allocate(t)
    <3> HIDE DEF t
    <3> QED BY <1>2, <2>9, <2>10 DEF Ranges!Allocate
  <2> QED BY <2>7, <2>11
<1>6. ~damaged' => \E r \in held' : Ranges!Allocate(r)
  <2> HIDE DEF t
  <2> QED BY <1>2, <1>5
<1> QED BY <1>4, <1>5, <1>6 DEF IInv

LEMMA ExactInv ==
    ASSUME IInv, NEW size \in Sizes, MallocExact(size)
    PROVE  IInv' /\ (~damaged' => \E r \in held' : Ranges!Allocate(r))
<1> DEFINE i == Found(size)
           y == [addr |-> list[i].addr, size |-> size, free |-> FALSE]
           m == Update(list, i, y)
<1>0. TypeOK /\ size \in Nat /\ list \in Lists /\ ~damaged
  BY Types DEF IInv, MallocExact, Running
<1>1. i \in 1 .. Len(list) /\ list[i] \in Node
  BY <1>0, FoundNode, Types DEF Nodes
<1> HIDE DEF i
<1>2. size = list[i].size /\ list' = Merged([list EXCEPT ![i].free = FALSE])
      /\ Handed(i, size) /\ total_malloc_pages' = total_malloc_pages /\ halted' = halted
  BY DEF MallocExact, i
<1>3. [list EXCEPT ![i].free = FALSE] = m
  <2>1. [list[i] EXCEPT !.free = FALSE] = y
    <3>1. [list[i] EXCEPT !.free = FALSE]
              = [addr |-> list[i].addr, size |-> list[i].size, free |-> FALSE]
      BY <1>1, MarkedNode
    <3> QED BY <1>2, <3>1
  <2> QED BY <2>1 DEF Update
<1>4. y \in Node /\ y.addr = list[i].addr /\ End(y) = End(list[i]) /\ ~y.free
  BY <1>1, <1>2 DEF Node, End, Start
<1>5. /\ m \in Lists /\ InUse(m) = {y} \cup Others(list, i)
      /\ \A e : Tiles(list, e) => Tiles(m, e)
  <2> HIDE DEF y
  <2> QED BY <1>0, <1>1, <1>4, UpdateList
<1>6. Tiles(m, (total_malloc_pages + 0) * PageSize)
  <2>1. Tiles(list, total_malloc_pages * PageSize) /\ total_malloc_pages + 0 = total_malloc_pages
    BY <1>0, Types DEF IInv, Holding, InOrder
  <2> HIDE DEF m, y
  <2> QED BY <1>5, <2>1
<1>7. size <= list[i].size /\ total_malloc_pages' = total_malloc_pages + 0
      /\ total_malloc_pages' <= MaxPages
  BY <1>0, <1>2, Types
<1>8. /\ list' = Merged(m)
      /\ InUse(m) = {[addr |-> list[i].addr, size |-> size, free |-> FALSE]} \cup Others(list, i)
  BY <1>2, <1>3, <1>5
<1> HIDE DEF m, y
<1> QED BY <1>0, <1>2, <1>5, <1>6, <1>7, <1>8, HandedInv DEF i

LEMMA SplitInv ==
    ASSUME IInv, NEW size \in Sizes, MallocSplit(size)
    PROVE  IInv' /\ (~damaged' => \E r \in held' : Ranges!Allocate(r))
<1> DEFINE i == Found(size)
           m == Split(list, i, size)
<1>0. TypeOK /\ size \in Nat /\ list \in Lists /\ ~damaged
  BY Types DEF IInv, MallocSplit, Running
<1>1. i \in 1 .. Len(list) /\ list[i] \in Node /\ HeaderSize \in Nat /\ list[i].size \in Nat
  BY <1>0, FoundNode, Types DEF Nodes, Node
<1>2. list[i].size > size + HeaderSize /\ list' = Merged(m)
      /\ Handed(i, size) /\ total_malloc_pages' = total_malloc_pages /\ halted' = halted
  BY DEF MallocSplit
<1>3. list[i].size >= size + HeaderSize /\ size <= list[i].size
  BY <1>0, <1>1, <1>2
<1> HIDE DEF i
<1>4. /\ m \in Lists
      /\ InUse(m) = {[addr |-> list[i].addr, size |-> size, free |-> FALSE]} \cup Others(list, i)
      /\ \A e : Tiles(list, e) => Tiles(m, e)
  BY <1>0, <1>1, <1>3, SplitList
<1> HIDE DEF m
<1>5. Tiles(m, (total_malloc_pages + 0) * PageSize)
  <2>1. Tiles(list, total_malloc_pages * PageSize) /\ total_malloc_pages + 0 = total_malloc_pages
    BY <1>0, Types DEF IInv, Holding, InOrder
  <2> QED BY <1>4, <2>1
<1>6. total_malloc_pages' = total_malloc_pages + 0 /\ total_malloc_pages' <= MaxPages
  BY <1>0, <1>2, Types
<1> QED BY <1>0, <1>2, <1>3, <1>4, <1>5, <1>6, HandedInv DEF i

LEMMA GrowsInv ==
    ASSUME IInv, NEW size \in Sizes, MallocGrows(size)
    PROVE  IInv' /\ (~damaged' => \E r \in held' : Ranges!Allocate(r))
<1> DEFINE i == Found(size)
           pages == Min(EnoughPages(i, size))
           y == [addr |-> list[i].addr, size |-> list[i].size + pages * PageSize,
                 free |-> list[i].free]
           grown == Update(list, i, y)
           m == Split(grown, i, size)
<1>0. TypeOK /\ size \in Nat /\ list \in Lists /\ ~damaged
      /\ PageSize \in Nat /\ HeaderSize \in Nat /\ total_malloc_pages \in Nat
  BY Types DEF IInv, MallocGrows, Running
<1>1. i \in 1 .. Len(list) /\ list[i] \in Node /\ list[i].size \in Nat /\ list[i].addr \in Nat
      /\ list[i].free \in BOOLEAN
  BY <1>0, FoundNode, Types DEF Nodes, Node
<1>2. /\ list' = Merged(Split([list EXCEPT ![i].size = @ + pages * PageSize], i, size))
      /\ Handed(i, size) /\ halted' = halted
      /\ total_malloc_pages' = total_malloc_pages + pages
      /\ total_malloc_pages' <= MaxPages
      /\ TooSmall(i, size) /\ EnoughPages(i, size) # {}
  BY DEF MallocGrows
<1>3. pages \in EnoughPages(i, size)
  <2>1. EnoughPages(i, size) \subseteq Nat
    BY SizesAssumption DEF EnoughPages
  <2> HIDE DEF i
  <2> QED BY <1>2, <2>1, MinOfSet
<1>4. pages \in Nat /\ list[i].size + pages * PageSize >= size + HeaderSize
  BY <1>3, SizesAssumption DEF EnoughPages
<1>5. ~damaged' => i = LastNode
  <2>1. damaged' = Damages(size) /\ size # list[i].size /\ list[i].size <= size + HeaderSize
    BY <1>2 DEF Handed, TooSmall
  <2> QED BY <2>1 DEF Damages
<1> HIDE DEF i, pages
<1>6. [list EXCEPT ![i].size = @ + pages * PageSize] = grown
  <2>1. \A n \in Node : [n EXCEPT !.size = @ + pages * PageSize]
            = [addr |-> n.addr, size |-> n.size + pages * PageSize, free |-> n.free]
    BY DEF Node
  <2>2. [list[i] EXCEPT !.size = @ + pages * PageSize] = y
    BY <1>1, <2>1
  <2> QED BY <2>2 DEF Update
<1>7. /\ y \in Node /\ y.addr = list[i].addr /\ y.size >= size + HeaderSize
      /\ End(y) = End(list[i]) + pages * PageSize
  <2>1. pages * PageSize \in Nat
    BY <1>0, <1>4
  <2>2. y.size = list[i].size + pages * PageSize /\ y.addr = list[i].addr /\ y.free = list[i].free
    OBVIOUS
  <2>3. y \in Node
    BY <1>1, <2>1 DEF Node
  <2> HIDE DEF y
  <2> QED BY <1>0, <1>1, <1>4, <2>1, <2>2, <2>3 DEF End, Start
<1> HIDE DEF y
<1>8. /\ grown \in Lists /\ Len(grown) = Len(list) /\ grown[i] = y
      /\ Others(grown, i) = Others(list, i)
      /\ \A e : Tiles(list, e) /\ i = Len(list) => Tiles(grown, End(y))
  <2>1. /\ grown \in Lists /\ Len(grown) = Len(list)
        /\ \A j \in 1 .. Len(list) : grown[j] = IF j = i THEN y ELSE list[j]
        /\ Others(grown, i) = Others(list, i)
        /\ y.addr = list[i].addr =>
               \A e : Tiles(list, e) => /\ End(y) = End(list[i]) => Tiles(grown, e)
                                        /\ i = Len(list) => Tiles(grown, End(y))
    <3>1. list \in Lists /\ i \in 1 .. Len(list) /\ y \in Node
      BY <1>0, <1>1, <1>7
    <3> QED BY <3>1, UpdateList
  <2> HIDE DEF grown
  <2> QED BY <1>1, <1>7, <2>1
<1> HIDE DEF grown
<1>9. /\ m \in Lists
      /\ InUse(m) = {[addr |-> list[i].addr, size |-> size, free |-> FALSE]} \cup Others(list, i)
      /\ \A e : Tiles(grown, e) => Tiles(m, e)
  BY <1>0, <1>1, <1>7, <1>8, SplitList
<1>10. list' = Merged(m)
  BY <1>2, <1>6
<1> HIDE DEF m
<1>11. ASSUME ~damaged' PROVE Tiles(m, (total_malloc_pages + pages) * PageSize)
  <2>1. i = Len(list)
    BY <1>5, <1>11 DEF LastNode
  <2>2. Tiles(list, total_malloc_pages * PageSize)
    BY <1>0 DEF IInv, Holding, InOrder
  <2>3. End(list[i]) = total_malloc_pages * PageSize
    BY <2>1, <2>2 DEF Tiles, Last
  <2>4. (total_malloc_pages + pages) * PageSize = total_malloc_pages * PageSize + pages * PageSize
    BY <1>0, <1>4
  <2>5. End(y) = (total_malloc_pages + pages) * PageSize
    BY <1>7, <2>3, <2>4
  <2> QED BY <1>8, <1>9, <2>1, <2>2, <2>5
<1> QED BY <1>0, <1>2, <1>4, <1>5, <1>9, <1>10, <1>11, HandedInv DEF i

LEMMA NothingInv ==
    ASSUME IInv, MallocNothing
    PROVE  IInv' /\ UNCHANGED <<held, damaged>>
<1>1. /\ list' = Merged(list) /\ ~damaged
      /\ total_malloc_pages' = total_malloc_pages /\ held' = held
      /\ halted' = halted /\ damaged' = damaged
  BY DEF MallocNothing, Running
<1>2. list \in Lists /\ TypeOK /\ Holding
  BY <1>1, Types DEF IInv
<1>3. /\ list' \in Lists /\ InUse(list') = InUse(list)
      /\ \A e : Tiles(list, e) => Tiles(list', e)
  BY <1>1, <1>2, MergedList
<1>4. TypeOK'
  BY <1>1, <1>2, <1>3 DEF TypeOK, Lists, Node
<1>5. Holding'
  BY <1>1, <1>2, <1>3 DEF Holding, InOrder
<1> QED BY <1>1, <1>4, <1>5 DEF IInv

LEMMA HangsInv ==
    ASSUME IInv, NEW size \in Sizes, MallocHangs(size)
    PROVE  IInv' /\ UNCHANGED <<held, damaged>>
BY DEF MallocHangs, IInv, TypeOK, Holding

LEMMA FreeInv ==
    ASSUME IInv, NEW r \in held, malloc_free(r)
    PROVE  IInv' /\ Ranges!Release(r)
<1> DEFINE e == total_malloc_pages * PageSize
           found == \E i \in Nodes : i < LastNode /\ Start(list[i]) = r.start
           m == [i \in Nodes |-> IF Start(list[i]) = r.start
                                 THEN [list[i] EXCEPT !.free = TRUE] ELSE list[i]]
<1>1. /\ ~damaged /\ held' = held \ {r} /\ halted' = halted /\ damaged' = damaged
      /\ total_malloc_pages' = total_malloc_pages
      /\ list' = IF found THEN Merged(m) ELSE list
  BY DEF malloc_free, Running
<1>2. /\ list \in Lists /\ TypeOK /\ InOrder(list, held, e)
      /\ \A t \in held : t \in [start : Nat, size : Nat]
  BY <1>1, Types DEF IInv, Holding
<1> HIDE DEF e
<1>3. Tiles(list, e) /\ Len(list) \in Nat \ {0}
  BY <1>2, Types DEF InOrder
<1>4. ASSUME found PROVE list' \in Lists /\ InOrder(list', held', e)
  <2>1. PICK i \in 1 .. Len(list) : i < LastNode /\ Start(list[i]) = r.start
    BY <1>4 DEF Nodes
  <2>2. \A j \in 1 .. Len(list) : Start(list[j]) = r.start => j = i
    BY <1>3, <2>1, StartsDiffer
  <2> DEFINE y == [addr |-> list[i].addr, size |-> list[i].size, free |-> TRUE]
             u == Update(list, i, y)
  <2>3. list[i] \in Node /\ list \in Seq(Node)
    BY <1>2, ListType
  <2>4. [list[i] EXCEPT !.free = TRUE] = y
    <3> QED BY <2>3, MarkedNode
  <2>5. y \in Node /\ y.free /\ y.addr = list[i].addr /\ End(y) = End(list[i])
    BY <2>3 DEF Node, End, Start
  <2> HIDE DEF y
  <2>6. m = u
    <3>1. \A j \in 1 .. Len(list) :
              (IF Start(list[j]) = r.start THEN [list[j] EXCEPT !.free = TRUE] ELSE list[j])
                  = (IF j = i THEN y ELSE list[j])
      BY <2>1, <2>2, <2>4
    <3>2. m = [j \in 1 .. Len(list) |-> IF j = i THEN y ELSE list[j]]
      BY <3>1 DEF Nodes
    <3>3. u = [j \in 1 .. Len(list) |-> IF j = i THEN y ELSE list[j]]
      BY <2>3 DEF Update
    <3> QED BY <3>2, <3>3
  <2>7. /\ u \in Lists /\ InUse(u) = Others(list, i)
        /\ Tiles(u, e)
    BY <1>2, <1>3, <2>5, UpdateList
  <2>9. list' = Merged(u)
    BY <1>1, <1>4, <2>6
  <2> HIDE DEF u
  <2>10. /\ list' \in Lists /\ InUse(list') = Others(list, i) /\ Tiles(list', e)
    BY <2>7, <2>9, MergedList
  <2>11. InOrder(list', held \ {r}, e)
    BY <1>2, <2>1, <2>10, GiveBack
  <2> QED BY <1>1, <2>10, <2>11
<1>5. ASSUME ~found PROVE list' \in Lists /\ InOrder(list', held', e)
  <2>1. \A i \in 1 .. Len(list) : i < Len(list) => Start(list[i]) # r.start
    BY <1>5 DEF Nodes, LastNode
  <2>2. InOrder(list, held \ {r}, e)
    BY <1>2, <2>1, GiveBackLast
  <2> QED BY <1>1, <1>2, <1>5, <2>2
<1>6. list' \in Lists /\ Holding'
  BY <1>1, <1>4, <1>5 DEF Holding, e
<1>7. TypeOK'
  BY <1>1, <1>2, <1>6 DEF TypeOK, Lists, Node
<1> QED BY <1>1, <1>6, <1>7 DEF IInv, Ranges!Release

\* The list init_malloc() makes: one free node in one page.
LEMMA InitialInOrder ==
    /\ InitialList \in Lists /\ 1 \in 1 .. MaxPages
    /\ InOrder(InitialList, {}, 1 * PageSize)
<1> DEFINE x == [addr |-> 0, size |-> PageSize - HeaderSize, free |-> TRUE]
<1>0. PageSize \in Nat /\ HeaderSize \in Nat /\ HeaderSize < PageSize /\ MaxPages \in Nat \ {0}
  BY SizesAssumption
<1>1. x \in Node /\ x.addr = 0 /\ x.free /\ End(x) = PageSize
  BY <1>0 DEF Node, End, Start
<1>2. InitialList = <<x>>
  BY DEF InitialList
<1> HIDE DEF x
<1>3. InitialList \in Lists /\ Len(InitialList) = 1 /\ InitialList[1] = x
  BY <1>1, <1>2 DEF Lists
<1>4. InUse(InitialList) = {}
  BY <1>1, <1>3 DEF InUse
<1>5. Tiles(InitialList, 1 * PageSize)
  BY <1>0, <1>1, <1>3 DEF Tiles, Contiguous, Last
<1> QED BY <1>0, <1>3, <1>4, <1>5 DEF InOrder

LEMMA InitInv == Init => IInv /\ Ranges!Init
<1> SUFFICES ASSUME Init PROVE IInv /\ Ranges!Init
  OBVIOUS
<1>1. /\ list = InitialList /\ total_malloc_pages = 1 /\ held = {}
      /\ halted = FALSE /\ damaged = FALSE
  BY DEF Init
<1>2. TypeOK
  BY <1>1, InitialInOrder DEF TypeOK, Lists, Node
<1>3. Holding
  BY <1>1, InitialInOrder DEF Holding
<1> QED BY <1>1, <1>2, <1>3 DEF IInv, Ranges!Init

LEMMA StartInv ==
    ASSUME IInv, init_malloc
    PROVE  IInv' /\ Ranges!StartOver
<1>1. /\ list' = InitialList /\ total_malloc_pages' = 1 /\ held' = {}
      /\ halted' = halted /\ damaged' = damaged
  BY DEF init_malloc
<1>2. TypeOK'
  BY <1>1, InitialInOrder DEF IInv, TypeOK, Lists, Node
<1>3. Holding'
  BY <1>1, InitialInOrder DEF Holding
<1> QED BY <1>1, <1>2, <1>3 DEF IInv, Ranges!StartOver

LEMMA StepInv ==
    ASSUME IInv, [Next]_vars
    PROVE  IInv' /\ [Ranges!Next]_<<held, damaged>>
<1>1. ASSUME NEW size \in Sizes, syscall_malloc(size)
      PROVE  IInv' /\ [Ranges!Next]_<<held, damaged>>
  <2>1. CASE MallocExact(size) \/ MallocSplit(size) \/ MallocGrows(size)
    <3>1. IInv' /\ (~damaged' => \E r \in held' : Ranges!Allocate(r))
      BY <2>1, ExactInv, SplitInv, GrowsInv
    <3> QED BY <3>1 DEF Ranges!Next
  <2>2. CASE MallocHangs(size)
    BY <2>2, HangsInv
  <2> QED BY <1>1, <2>1, <2>2 DEF syscall_malloc
<1>2. ASSUME NEW r \in held, malloc_free(r)
      PROVE  IInv' /\ [Ranges!Next]_<<held, damaged>>
  <2>1. IInv' /\ Ranges!Release(r)
    BY <1>2, FreeInv
  <2> QED BY <2>1 DEF Ranges!Next
<1>3. CASE MallocNothing
  BY <1>3, NothingInv
<1>4. CASE init_malloc
  <2>1. IInv' /\ Ranges!StartOver
    BY <1>4, StartInv
  <2> QED BY <2>1 DEF Ranges!Next
<1>5. CASE UNCHANGED vars
  BY <1>5 DEF vars, IInv, TypeOK, Holding
<1> QED BY <1>1, <1>2, <1>3, <1>4, <1>5 DEF Next

\* The inductive invariant of malloc(), free() and init_malloc().
THEOREM Invariant == Spec => []IInv
<1>1. Init => IInv
  BY InitInv
<1>2. IInv /\ [Next]_vars => IInv'
  BY StepInv
<1> QED BY <1>1, <1>2, PTL DEF Spec

-----------------------------------------------------------------------------
(* Theorems                                                                *)

\* malloc_split(), merge_free_blocks() and the growth of the heap leave a list
\* of the types of malloc_block_t, even in the calls that damage it.
THEOREM TypeCorrect == Spec => []TypeOK
<1>1. IInv => TypeOK
  BY DEF IInv
<1> QED BY <1>1, Invariant, PTL

\* Whatever malloc() and free() are called with, in any order, the nodes they
\* leave cover the pages of the heap without gap or overlap.
THEOREM HeapIsTiled == Spec => []Tiled
<1>1. IInv => Tiled
  BY DEF IInv, Holding, InOrder, Tiles, Last, Contiguous, Tiled, Nodes, LastNode
<1> QED BY <1>1, Invariant, PTL

\* Every range malloc() has returned is one node of its size that is in use,
\* and only the last node can be in use without a holder after free().
THEOREM HoldersHaveNodes == Spec => []NodesAreHeld
<1>1. IInv => NodesAreHeld
  <2> SUFFICES ASSUME IInv, ~damaged
               PROVE  /\ \A r \in held : \E i \in Nodes :
                             ~list[i].free /\ Start(list[i]) = r.start /\ list[i].size = r.size
                      /\ \A i \in Nodes : list[i].free \/ i = LastNode
                             \/ \E r \in held : Start(list[i]) = r.start
    BY DEF NodesAreHeld
  <2> DEFINE e == total_malloc_pages * PageSize
  <2>1. InOrder(list, held, e) /\ \A i \in Nodes : list[i] \in Node
    BY Types DEF IInv, Holding
  <2> HIDE DEF e
  <2>2. ASSUME NEW r \in held
        PROVE  \E i \in Nodes : ~list[i].free /\ Start(list[i]) = r.start /\ list[i].size = r.size
    BY <2>1 DEF InOrder, InUse, Nodes
  <2>3. ASSUME NEW i \in Nodes, ~list[i].free, i # LastNode
        PROVE  \E r \in held : Start(list[i]) = r.start
    <3>1. list[i] \in InUse(list)
      BY <2>1, <2>3 DEF InUse, Nodes
    <3>2. End(list[i]) # e
      BY <2>1, <2>3, OnlyLastEnds DEF InOrder, Nodes, LastNode
    <3> QED BY <2>1, <3>1, <3>2 DEF InOrder
  <2> QED BY <2>2, <2>3
<1> QED BY <1>1, Invariant, PTL

\* malloc() and free() implement the abstract heap: a range that is returned
\* shares no byte with one that somebody holds, until the first of the calls
\* that damage the list.
THEOREM ImplementsRanges == Spec => RangesSpec
<1>1. Init => Ranges!Init
  BY InitInv
<1>2. IInv /\ [Next]_vars => [Ranges!Next]_<<held, damaged>>
  BY StepInv
<1> QED BY <1>1, <1>2, Invariant, PTL DEF Spec, RangesSpec, Ranges!Spec
=============================================================================
