------------------------- MODULE TextEditor_proofs -------------------------
(***************************************************************************)
(* Theorems about the editor's buffer and its counts, for texts of any     *)
(* length and keys in any order.                                           *)
(***************************************************************************)
EXTENDS TextEditor, FiniteSetTheorems, SequenceTheorems, TLAPS

-----------------------------------------------------------------------------
(* Sets of naturals: least and greatest elements                           *)

\* Every set of naturals that is not empty has a least element.
LEMMA LeastElement ==
    ASSUME NEW T, T \subseteq Nat, T # {}
    PROVE  \E n \in T : \A m \in T : n <= m
<1> DEFINE R == StrictSubsetOrdering(Nat)
           I == {0 .. n : n \in T}
<1>1. IsWellFoundedOn(R, FiniteSubsetsOf(Nat))
  BY FS_StrictSubsetOrderingWellFounded
<1>2. I \subseteq FiniteSubsetsOf(Nat) /\ I # {}
  <2>1. \A n \in T : IsFiniteSet(0 .. n) /\ 0 .. n \in SUBSET Nat
    BY FS_Interval
  <2> QED BY <2>1 DEF FiniteSubsetsOf
<1>3. PICK x \in I : \A y \in I : ~ (<<y, x>> \in R)
  <2> HIDE DEF I, R
  <2> QED BY <1>1, <1>2, WFMin
<1>4. PICK n \in T : x = 0 .. n
  BY <1>3
<1>5. ASSUME NEW m \in T, ~ (n <= m) PROVE FALSE
  <2>1. 0 .. m \subseteq 0 .. n /\ 0 .. m # 0 .. n
    BY <1>5
  <2>2. <<0 .. m, x>> \in R
    BY <2>1, <1>4 DEF StrictSubsetOrdering
  <2> QED BY <2>2, <1>3
<1> QED BY <1>5

\* Min() of FiniteSetsExt is what its name says.
LEMMA MinOfSet ==
    ASSUME NEW S, S \subseteq Nat, S # {}
    PROVE  Min(S) \in S /\ \A n \in S : Min(S) <= n
<1>1. \E n \in S : \A m \in S : n <= m
  BY LeastElement
<1> QED BY <1>1 DEF Min

\* Max() is too, of a finite set: it has a bound, and the least bound is in it.
LEMMA MaxOfSet ==
    ASSUME NEW S, S \subseteq Nat, S # {}, IsFiniteSet(S)
    PROVE  Max(S) \in S /\ \A n \in S : n <= Max(S)
<1> DEFINE R == StrictSubsetOrdering(S)
           I == {S \ (0 .. n) : n \in Nat}
<1>1. IsWellFoundedOn(R, FiniteSubsetsOf(S))
  BY FS_StrictSubsetOrderingWellFounded
<1>2. I \subseteq FiniteSubsetsOf(S) /\ I # {}
  <2>1. \A n \in Nat : IsFiniteSet(S \ (0 .. n))
    BY FS_Subset
  <2> QED BY <2>1 DEF FiniteSubsetsOf
<1>3. PICK x \in I : \A y \in I : ~ (<<y, x>> \in R)
  <2> HIDE DEF I, R
  <2> QED BY <1>1, <1>2, WFMin
<1>4. PICK b \in Nat : x = S \ (0 .. b)
  BY <1>3
<1>5. \A m \in S : m <= b
  <2> SUFFICES ASSUME NEW m \in S, ~ (m <= b) PROVE FALSE
    OBVIOUS
  <2>1. S \ (0 .. m) \subseteq x /\ m \in x /\ m \notin S \ (0 .. m)
    BY <1>4
  <2>2. <<S \ (0 .. m), x>> \in R
    BY <2>1, <1>4 DEF StrictSubsetOrdering
  <2> QED BY <2>2, <1>3
<1>6. PICK t \in {n \in Nat : \A m \in S : m <= n} :
                 \A u \in {n \in Nat : \A m \in S : m <= n} : t <= u
  BY <1>5, LeastElement
<1>7. t \in S
  <2> SUFFICES ASSUME t \notin S PROVE FALSE
    OBVIOUS
  <2>0. t \in Nat /\ \A m \in S : m \in Nat /\ m <= t /\ m # t
    BY <1>6
  <2>1. \A m \in S : m <= t - 1
    BY <2>0
  <2>2. PICK m \in S : m \in Nat /\ m <= t - 1
    BY <2>0, <2>1
  <2>3. t <= t - 1
    BY <2>0, <2>1, <2>2, <1>6
  <2> QED BY <2>0, <2>3
<1>8. \E u \in S : \A v \in S : u >= v
  BY <1>6, <1>7
<1> QED BY <1>8 DEF Max

-----------------------------------------------------------------------------
(* Buffers and places in them                                              *)

Bytes == Chars \cup {NUL}

\* A buffer with a text of n bytes; behind the longest text are two 0 bytes.
Holds(b, n) ==
    /\ b \in [Positions -> Bytes]
    /\ n \in 0 .. MaxText
    /\ \A q \in 0 .. n - 1 : b[q] \in Chars
    /\ b[MaxText] = NUL /\ b[MaxText + 1] = NUL

NewlinesIn(b, lo, hi) == {q \in Positions : lo <= q /\ q < hi /\ b[q] = "\n"}
Count(b, lo, hi) == Cardinality(NewlinesIn(b, lo, hi))

\* No line ends between lo and hi.
Within(b, lo, hi) == \A q \in Positions : lo <= q /\ q < hi => b[q] # "\n"

\* The line from s to e, whose newline, if it has one, is at e.
IsLine(b, n, s, e) ==
    /\ s \in 0 .. n /\ e \in s .. n
    /\ s > 0 => b[s - 1] = "\n"
    /\ e < n => b[e] = "\n"
    /\ Within(b, s, e)

\* A place, with the counts that are kept of it and of the text.
InPlace(b, n, lines, offset, x, y, length) ==
    /\ lines = Count(b, 0, n)
    /\ offset \in 0 .. n
    /\ x \in 0 .. offset
    /\ y = Count(b, 0, offset)
    /\ \E e \in offset .. n :
          /\ IsLine(b, n, offset - x, e)
          /\ length \in {e - (offset - x), e - (offset - x) + 1}

BufferOK == Holds(bytes, file_length_bytes)
PlaceOK ==
    InPlace(bytes, file_length_bytes, file_length_lines,
            file_offset, cursor_x, cursor_y, current_line_length)

IInv == TypeOK /\ (~damaged => BufferOK /\ PlaceOK)

-----------------------------------------------------------------------------
(* Newlines are counted                                                    *)

LEMMA Bounds ==
    /\ MaxText \in Nat /\ U32Modulus \in Nat \ {0} /\ MaxText + 1 < U32Modulus
    /\ Positions = 0 .. MaxText + 1 /\ Positions \subseteq Nat
    /\ "\n" \in Chars /\ Chars \subseteq Bytes /\ NUL \in Bytes /\ NUL \notin Chars
<1>1. MaxText \in Nat /\ U32Modulus \in Nat \ {0} /\ MaxText + 1 < U32Modulus
  BY BoundsAssumption
<1> QED BY <1>1 DEF Positions, Bytes, Chars, NUL

LEMMA U32Range ==
    ASSUME NEW x \in Int
    PROVE  /\ U32(x) \in 0 .. (U32Modulus - 1)
           /\ 0 <= x /\ x < U32Modulus => U32(x) = x
<1>1. \A m \in Nat \ {0} : /\ x % m \in 0 .. (m - 1)
                           /\ 0 <= x /\ x < m => x % m = x
  OBVIOUS
<1> QED BY <1>1, Bounds DEF U32

LEMMA NewlinesFinite ==
    ASSUME NEW b, NEW lo, NEW hi
    PROVE  /\ NewlinesIn(b, lo, hi) \subseteq Positions
           /\ IsFiniteSet(NewlinesIn(b, lo, hi))
           /\ Count(b, lo, hi) \in Nat
<1>1. NewlinesIn(b, lo, hi) \in SUBSET Positions
  BY DEF NewlinesIn
<1>2. IsFiniteSet(Positions)
  BY Bounds, FS_Interval
<1>3. IsFiniteSet(NewlinesIn(b, lo, hi))
  BY <1>1, <1>2, FS_Subset
<1> QED BY <1>1, <1>3, FS_CardinalityType DEF Count

\* A text is counted in two parts.
LEMMA CountSplit ==
    ASSUME NEW b, NEW lo \in Int, NEW mid \in Int, NEW hi \in Int, lo <= mid, mid <= hi
    PROVE  Count(b, lo, hi) = Count(b, lo, mid) + Count(b, mid, hi)
<1> DEFINE L == NewlinesIn(b, lo, mid)
           H == NewlinesIn(b, mid, hi)
<1>1. NewlinesIn(b, lo, hi) = L \cup H /\ L \cap H = {}
  BY Bounds DEF NewlinesIn
<1>2. IsFiniteSet(L) /\ IsFiniteSet(H)
  BY NewlinesFinite
<1>3. Cardinality(L \cap H) = 0
  BY <1>1, FS_EmptySet
<1>4. Cardinality(L) \in Nat /\ Cardinality(H) \in Nat
  BY <1>2, FS_CardinalityType
<1>5. Cardinality(L \cup H) = Cardinality(L) + Cardinality(H) - Cardinality(L \cap H)
  <2> HIDE DEF L, H
  <2> QED BY <1>2, FS_Union
<1> QED BY <1>1, <1>3, <1>4, <1>5 DEF Count

LEMMA CountNone ==
    ASSUME NEW b, NEW lo \in Int, NEW hi \in Int
    PROVE  Count(b, lo, hi) = 0 <=> Within(b, lo, hi)
<1>1. NewlinesIn(b, lo, hi) = {} <=> Within(b, lo, hi)
  BY DEF NewlinesIn, Within
<1>2. IsFiniteSet(NewlinesIn(b, lo, hi))
  BY NewlinesFinite
<1>3. Cardinality(NewlinesIn(b, lo, hi)) = 0 <=> NewlinesIn(b, lo, hi) = {}
  BY <1>2, FS_EmptySet
<1> QED BY <1>1, <1>3 DEF Count

LEMMA CountOne ==
    ASSUME NEW b, NEW p \in Positions
    PROVE  Count(b, p, p + 1) = IF b[p] = "\n" THEN 1 ELSE 0
<1>1. p \in Int /\ \A q \in Positions : q \in Int /\ (p <= q /\ q < p + 1 <=> q = p)
  BY Bounds
<1>2. CASE b[p] = "\n"
  <2>1. NewlinesIn(b, p, p + 1) = {p}
    BY <1>1, <1>2 DEF NewlinesIn
  <2> QED BY <1>2, <2>1, FS_Singleton DEF Count
<1>3. CASE b[p] # "\n"
  <2>1. NewlinesIn(b, p, p + 1) = {}
    BY <1>1, <1>3 DEF NewlinesIn
  <2> QED BY <1>3, <2>1, FS_EmptySet DEF Count
<1> QED BY <1>2, <1>3

\* Bytes that stay where they are keep their newlines.
LEMMA CountSame ==
    ASSUME NEW b, NEW c, NEW lo \in Int, NEW hi \in Int,
           \A q \in Positions : lo <= q /\ q < hi => c[q] = b[q]
    PROVE  Count(c, lo, hi) = Count(b, lo, hi)
<1>1. NewlinesIn(c, lo, hi) = NewlinesIn(b, lo, hi)
  BY DEF NewlinesIn
<1> QED BY <1>1 DEF Count

\* So do bytes that are moved up by one.
LEMMA CountMoved ==
    ASSUME NEW b, NEW c, NEW lo \in Nat, NEW hi \in Nat, hi <= MaxText + 1,
           \A q \in Positions : lo <= q /\ q < hi => c[q + 1] = b[q]
    PROVE  Count(c, lo + 1, hi + 1) = Count(b, lo, hi)
<1> DEFINE S == NewlinesIn(b, lo, hi)
           T == NewlinesIn(c, lo + 1, hi + 1)
           f == [q \in S |-> q + 1]
<1>1. S \subseteq Positions /\ T \subseteq Positions /\ Positions = 0 .. MaxText + 1 /\ MaxText \in Nat
  BY Bounds DEF NewlinesIn
<1>2. \A q \in S : q \in Nat /\ q + 1 \in T
  BY <1>1 DEF NewlinesIn
<1>3. \A r \in T : r \in Nat /\ r - 1 \in S /\ (r - 1) + 1 = r
  <2> SUFFICES ASSUME NEW r \in T PROVE r \in Nat /\ r - 1 \in S /\ (r - 1) + 1 = r
    OBVIOUS
  <2>1. r \in Nat /\ lo + 1 <= r /\ r < hi + 1 /\ c[r] = "\n"
    BY <1>1 DEF NewlinesIn
  <2>2. r - 1 \in Positions /\ lo <= r - 1 /\ r - 1 < hi /\ (r - 1) + 1 = r
    BY <1>1, <2>1
  <2>3. c[(r - 1) + 1] = b[r - 1]
    BY <2>2
  <2> QED BY <2>1, <2>2, <2>3 DEF NewlinesIn
<1>4. IsFiniteSet(S)
  BY NewlinesFinite
<1>5. ExistsBijection(S, T)
  <2> HIDE DEF S, T
  <2>1. f \in [S -> T]
    BY <1>2
  <2>2. \A q, r \in S : q # r => f[q] # f[r]
    BY <1>2
  <2>3. \A r \in T : \E q \in S : f[q] = r
    BY <1>3
  <2>4. IsInjective(f)
    BY <2>1, <2>2 DEF IsInjective
  <2>5. f \in Bijection(S, T)
    BY <2>1, <2>3, <2>4 DEF Bijection, Injection, Surjection
  <2> QED BY <2>5 DEF ExistsBijection
<1>6. Cardinality(T) = Cardinality(S)
  <2> HIDE DEF S, T
  <2> QED BY <1>4, <1>5, FS_Bijection
<1> QED BY <1>6 DEF Count

-----------------------------------------------------------------------------
(* Lines                                                                   *)

\* s is where the line of place p begins, e where it ends.
Begins(b, s, p) == s \in 0 .. p /\ (s > 0 => b[s - 1] = "\n") /\ Within(b, s, p)
Ends(b, n, p, e) == e \in p .. n /\ (e < n => b[e] = "\n") /\ Within(b, p, e)

\* The search back for a newline finds it.
LEMMA LineBegins ==
    ASSUME NEW b, NEW p \in Positions
    PROVE  Begins(b, Max({q + 1 : q \in NewlinesIn(b, 0, p)} \cup {0}), p)
<1> DEFINE T == {q + 1 : q \in NewlinesIn(b, 0, p)} \cup {0}
<1>1. p \in Nat /\ MaxText \in Nat /\ Positions = 0 .. MaxText + 1 /\ p <= MaxText + 1
  BY Bounds
<1>2. \A t \in T : t \in 0 .. p /\ (t > 0 => t - 1 \in NewlinesIn(b, 0, p))
  BY <1>1 DEF NewlinesIn
<1>3. \A q \in NewlinesIn(b, 0, p) : q + 1 \in T
  OBVIOUS
<1>4. 0 \in T
  OBVIOUS
<1> HIDE DEF T
<1>5. T \subseteq Nat /\ T # {} /\ IsFiniteSet(T)
  <2>1. T \in SUBSET (0 .. p)
    BY <1>2
  <2>2. IsFiniteSet(0 .. p)
    BY <1>1, FS_Interval
  <2>3. IsFiniteSet(T)
    BY <2>1, <2>2, FS_Subset
  <2> QED BY <1>1, <1>2, <1>4, <2>3
<1>6. Max(T) \in T /\ \A t \in T : t <= Max(T)
  BY <1>5, MaxOfSet
<1> DEFINE m == Max(T)
<1> HIDE DEF m
<1>7. m \in T /\ m \in 0 .. p /\ \A t \in T : t <= m
  BY <1>2, <1>6 DEF m
<1>8. m > 0 => b[m - 1] = "\n"
  BY <1>2, <1>7 DEF NewlinesIn
<1>9. Within(b, m, p)
  <2> SUFFICES ASSUME NEW q \in Positions, m <= q, q < p, b[q] = "\n" PROVE FALSE
    BY DEF Within
  <2>1. q \in NewlinesIn(b, 0, p)
    BY <1>1 DEF NewlinesIn
  <2>2. q + 1 <= m
    BY <1>3, <1>7, <2>1
  <2> QED BY <1>1, <1>7, <2>2
<1>10. Begins(b, m, p)
  BY <1>7, <1>8, <1>9 DEF Begins
<1> QED BY <1>10 DEF m, T

LEMMA OneBegin ==
    ASSUME NEW b, NEW p \in Positions, NEW s, NEW t, Begins(b, s, p), Begins(b, t, p)
    PROVE  s = t
<1>1. /\ p \in Nat /\ p <= MaxText + 1 /\ MaxText \in Nat /\ Positions = 0 .. MaxText + 1
      /\ s \in 0 .. p /\ t \in 0 .. p
      /\ s > 0 => b[s - 1] = "\n"
      /\ t > 0 => b[t - 1] = "\n"
      /\ \A q \in Positions : s <= q /\ q < p => b[q] # "\n"
      /\ \A q \in Positions : t <= q /\ q < p => b[q] # "\n"
  BY Bounds DEF Begins, Within
<1>2. ~ (s < t)
  <2> SUFFICES ASSUME s < t PROVE FALSE
    OBVIOUS
  <2>1. t - 1 \in Positions /\ s <= t - 1 /\ t - 1 < p
    BY <1>1
  <2> QED BY <1>1, <2>1
<1>3. ~ (t < s)
  <2> SUFFICES ASSUME t < s PROVE FALSE
    OBVIOUS
  <2>1. s - 1 \in Positions /\ t <= s - 1 /\ s - 1 < p
    BY <1>1
  <2> QED BY <1>1, <2>1
<1> QED BY <1>1, <1>2, <1>3

LEMMA LineEnds ==
    ASSUME NEW b, NEW n \in 0 .. MaxText, NEW p \in 0 .. n
    PROVE  Ends(b, n, p, Min(NewlinesIn(b, p, n) \cup {n}))
<1> DEFINE T == NewlinesIn(b, p, n) \cup {n}
           e == Min(T)
<1>1. p \in Nat /\ n \in Nat /\ MaxText \in Nat /\ Positions = 0 .. MaxText + 1 /\ p <= n
  BY Bounds
<1>2. T \subseteq Nat /\ n \in T
  BY <1>1 DEF NewlinesIn
<1>3. \A t \in T : t \in p .. n /\ (t < n => b[t] = "\n")
  BY <1>1 DEF NewlinesIn
<1> HIDE DEF T
<1>4. e \in T /\ \A t \in T : e <= t
  BY <1>2, MinOfSet
<1> HIDE DEF e
<1>5. Within(b, p, e)
  <2> SUFFICES ASSUME NEW q \in Positions, p <= q, q < e, b[q] = "\n" PROVE FALSE
    BY DEF Within
  <2>1. e \in p .. n
    BY <1>3, <1>4
  <2>2. q \in T
    BY <1>1, <2>1 DEF T, NewlinesIn
  <2>3. e <= q
    BY <1>4, <2>2
  <2> QED BY <1>1, <2>1, <2>3
<1>6. Ends(b, n, p, e)
  BY <1>3, <1>4, <1>5 DEF Ends
<1> QED BY <1>6 DEF e, T

LEMMA OneEnd ==
    ASSUME NEW b, NEW n \in 0 .. MaxText, NEW p \in 0 .. n, NEW d, NEW e,
           Ends(b, n, p, d), Ends(b, n, p, e)
    PROVE  d = e
<1>1. /\ n \in Nat /\ n <= MaxText /\ p \in Nat /\ p <= n
      /\ MaxText \in Nat /\ Positions = 0 .. MaxText + 1
      /\ d \in p .. n /\ e \in p .. n
      /\ d < n => b[d] = "\n"
      /\ e < n => b[e] = "\n"
      /\ \A q \in Positions : p <= q /\ q < d => b[q] # "\n"
      /\ \A q \in Positions : p <= q /\ q < e => b[q] # "\n"
  BY Bounds DEF Ends, Within
<1>2. d \in Positions /\ e \in Positions
  BY <1>1
<1>3. ~ (d < e) /\ ~ (e < d)
  BY <1>1, <1>2
<1> QED BY <1>1, <1>3

\* The loops that look for the end of a line stop there, but behind a last
\* line without a newline only if there is a 0 byte.
LEMMA LineEndIs ==
    ASSUME NEW b, NEW n, Holds(b, n), NEW p \in Positions
    PROVE  /\ LineEnd(b, p) \in Positions /\ p <= LineEnd(b, p)
           /\ \A e : Ends(b, n, p, e) =>
                 /\ e < n \/ b[n] = NUL => LineEnd(b, p) = e
                 /\ LineEnd(b, p) >= e
<1> DEFINE T == {q \in Positions : q >= p /\ b[q] \in {"\n", NUL}}
           z == LineEnd(b, p)
<1>1. /\ MaxText \in Nat /\ Positions = 0 .. MaxText + 1 /\ p \in Nat /\ p <= MaxText + 1
      /\ NUL \notin Chars
  BY Bounds
<1>2. b[MaxText + 1] = NUL /\ n \in 0 .. MaxText /\ \A q \in 0 .. n - 1 : b[q] \in Chars
  BY DEF Holds
<1>3. T \subseteq Nat /\ MaxText + 1 \in T
  BY <1>1, <1>2
<1>4. z = Min(T)
  BY DEF LineEnd
<1>5. z \in T /\ \A t \in T : z <= t
  <2> HIDE DEF T, z
  <2> QED BY <1>3, <1>4, MinOfSet
<1> HIDE DEF z
<1>6. z \in Positions /\ p <= z /\ b[z] \in {"\n", NUL}
  BY <1>1, <1>5
<1>7. ASSUME NEW e, Ends(b, n, p, e)
      PROVE  /\ e < n \/ b[n] = NUL => z = e
             /\ z >= e
  <2>1. /\ e \in p .. n /\ (e < n => b[e] = "\n")
        /\ \A q \in Positions : p <= q /\ q < e => b[q] # "\n"
    BY <1>7 DEF Ends, Within
  <2>2. \A q \in Positions : p <= q /\ q < e => b[q] \notin {"\n", NUL}
    BY <1>1, <1>2, <2>1
  <2>3. z >= e
    BY <1>1, <1>6, <2>1, <2>2
  <2>4. ASSUME e < n \/ b[n] = NUL PROVE z <= e
    <3>1. b[e] \in {"\n", NUL}
      BY <1>2, <2>1, <2>4
    <3>2. e \in T
      BY <1>1, <1>2, <2>1, <3>1
    <3> QED BY <1>5, <3>2
  <2> QED BY <1>1, <1>6, <2>1, <2>3, <2>4
<1>8. z \in Positions /\ p <= z
  BY <1>6
<1> QED BY <1>7, <1>8 DEF z

-----------------------------------------------------------------------------
(* Places                                                                  *)

\* A place in the line from s to e.
LEMMA PlaceInLine ==
    ASSUME NEW b, NEW n, Holds(b, n), NEW s, NEW e, IsLine(b, n, s, e), NEW p \in s .. e,
           NEW l, l \in {e - s, e - s + 1}
    PROVE  InPlace(b, n, Count(b, 0, n), p, p - s, Count(b, 0, s), l)
<1>1. /\ n \in Nat /\ n <= MaxText /\ MaxText \in Nat /\ Positions = 0 .. MaxText + 1
      /\ s \in 0 .. n /\ e \in s .. n /\ p \in s .. e
  BY Bounds DEF Holds, IsLine
<1>2. s \in Int /\ p \in Int /\ e \in Int /\ 0 <= s /\ s <= p /\ p <= e /\ e <= n
  BY <1>1
<1>3. Within(b, s, p)
  BY <1>1, <1>2 DEF IsLine, Within
<1>4. Count(b, s, p) = 0
  BY <1>2, <1>3, CountNone
<1>5. Count(b, 0, p) = Count(b, 0, s) + Count(b, s, p)
  BY <1>2, CountSplit
<1>6. Count(b, 0, s) \in Nat
  BY NewlinesFinite
<1>7. Count(b, 0, s) = Count(b, 0, p)
  BY <1>4, <1>5, <1>6
<1>8. p - (p - s) = s /\ e \in p .. n /\ p \in 0 .. n /\ p - s \in 0 .. p
  BY <1>1, <1>2
<1> QED BY <1>7, <1>8 DEF InPlace

\* The line of a place.
LEMMA LineOfPlace ==
    ASSUME NEW b, NEW n, Holds(b, n), NEW lines, NEW p, NEW x, NEW y, NEW l,
           InPlace(b, n, lines, p, x, y, l)
    PROVE  /\ n \in Nat /\ n <= MaxText
           /\ p \in Nat /\ x \in Nat /\ x <= p /\ p <= n
           /\ lines = Count(b, 0, n)
           /\ Begins(b, p - x, p)
           /\ y = Count(b, 0, p) /\ y = Count(b, 0, p - x)
           /\ \E e \in p .. n : /\ IsLine(b, n, p - x, e) /\ Ends(b, n, p, e)
                                /\ l \in {e - (p - x), e - (p - x) + 1}
<1>1. /\ n \in Nat /\ n <= MaxText /\ MaxText \in Nat /\ Positions = 0 .. MaxText + 1
      /\ p \in Nat /\ x \in Nat /\ x <= p /\ p <= n
      /\ lines = Count(b, 0, n) /\ y = Count(b, 0, p)
  BY Bounds DEF Holds, InPlace
<1>2. PICK e \in p .. n : /\ IsLine(b, n, p - x, e)
                          /\ l \in {e - (p - x), e - (p - x) + 1}
  BY DEF InPlace
<1> DEFINE s == p - x
<1>3. s \in 0 .. p /\ s \in Int /\ p \in Int
  BY <1>1
<1> HIDE DEF s
<1>4. IsLine(b, n, s, e)
  BY <1>2 DEF s
<1>5. Within(b, s, p) /\ Within(b, p, e)
  BY <1>1, <1>2, <1>3, <1>4 DEF IsLine, Within
<1>6. Begins(b, s, p) /\ Ends(b, n, p, e)
  BY <1>2, <1>3, <1>4, <1>5 DEF IsLine, Begins, Ends
<1>7. Count(b, s, p) = 0
  BY <1>3, <1>5, CountNone
<1>8. Count(b, 0, p) = Count(b, 0, s) + Count(b, s, p)
  BY <1>3, CountSplit
<1>9. Count(b, 0, s) \in Nat
  BY NewlinesFinite
<1>10. Count(b, 0, p) = Count(b, 0, s)
  BY <1>7, <1>8, <1>9
<1> QED BY <1>1, <1>2, <1>6, <1>10 DEF s

\* The numbers of a place are small: none of the counters wraps.
LEMMA PlaceNumbers ==
    ASSUME NEW b, NEW n, Holds(b, n), NEW lines, NEW p, NEW x, NEW y, NEW l,
           InPlace(b, n, lines, p, x, y, l)
    PROVE  /\ {n, lines, p, x, y, l} \subseteq 0 .. (U32Modulus - 1)
           /\ l <= MaxText + 1 /\ y <= lines /\ lines <= n
<1>1. /\ n \in Nat /\ n <= MaxText /\ p \in Nat /\ x \in Nat /\ x <= p /\ p <= n
      /\ lines = Count(b, 0, n) /\ y = Count(b, 0, p)
  BY LineOfPlace
<1>2. PICK e \in p .. n : l \in {e - (p - x), e - (p - x) + 1}
  BY DEF InPlace
<1>3. l \in Nat /\ l <= MaxText + 1
  BY <1>1, <1>2, Bounds
<1>4. \A q \in 0 .. n : Count(b, 0, q) \in Nat /\ Count(b, 0, q) <= n
  <2> SUFFICES ASSUME NEW q \in 0 .. n PROVE Count(b, 0, q) \in Nat /\ Count(b, 0, q) <= n
    OBVIOUS
  <2>1. NewlinesIn(b, 0, q) \in SUBSET (0 .. n - 1)
    BY <1>1, Bounds DEF NewlinesIn
  <2>2. IsFiniteSet(0 .. n - 1) /\ Cardinality(0 .. n - 1) = n
    <3>1. 0 \in Int /\ n - 1 \in Int
      BY <1>1
    <3>2. Cardinality(0 .. n - 1) = IF 0 > n - 1 THEN 0 ELSE n - 1 - 0 + 1
      BY <3>1, FS_Interval
    <3>3. IsFiniteSet(0 .. n - 1)
      BY <3>1, FS_Interval
    <3> QED BY <1>1, <3>2, <3>3
  <2>3. Cardinality(NewlinesIn(b, 0, q)) <= Cardinality(0 .. n - 1)
    BY <2>1, <2>2, FS_Subset
  <2> QED BY <2>2, <2>3, NewlinesFinite DEF Count
<1>5. n \in 0 .. n /\ p \in 0 .. n
  BY <1>1
<1>6. lines \in Nat /\ lines <= n /\ y \in Nat /\ y <= n
  BY <1>1, <1>4, <1>5
<1>7. y <= lines
  <2>1. Count(b, 0, n) = Count(b, 0, p) + Count(b, p, n)
    BY <1>1, CountSplit
  <2>2. Count(b, p, n) \in Nat
    BY NewlinesFinite
  <2> QED BY <1>1, <1>6, <2>1, <2>2
<1> QED BY <1>1, <1>3, <1>6, <1>7, Bounds

-----------------------------------------------------------------------------
(* Inserting and deleting a character                                      *)

Ins(b, n, p, c) ==
    [q \in Positions |-> IF q = p THEN c
                         ELSE IF p < q /\ q <= n THEN b[q - 1] ELSE b[q]]

Del(b, n, p) == [q \in Positions |-> IF p <= q /\ q < n THEN b[q + 1] ELSE b[q]]

LEMMA InsertHolds ==
    ASSUME NEW b, NEW n, Holds(b, n), n < MaxText, NEW p \in 0 .. n, NEW c \in Chars
    PROVE  /\ Holds(Ins(b, n, p, c), n + 1)
           /\ \A q \in Positions : q < p => Ins(b, n, p, c)[q] = b[q]
           /\ Ins(b, n, p, c)[p] = c
           /\ \A q \in Positions : p <= q /\ q < n => Ins(b, n, p, c)[q + 1] = b[q]
           /\ Ins(b, n, p, c)[n + 1] = b[n + 1]
<1> DEFINE i == Ins(b, n, p, c)
<1>1. /\ n \in Nat /\ p \in Nat /\ p <= n /\ MaxText \in Nat /\ Positions = 0 .. MaxText + 1
      /\ b \in [Positions -> Bytes] /\ Chars \subseteq Bytes /\ c \in Bytes
      /\ \A q \in 0 .. n - 1 : b[q] \in Chars
      /\ b[MaxText] = NUL /\ b[MaxText + 1] = NUL
  BY Bounds DEF Holds
<1>2. \A q \in Positions : i[q] = IF q = p THEN c
                                  ELSE IF p < q /\ q <= n THEN b[q - 1] ELSE b[q]
  BY DEF Ins
<1>3. i \in [Positions -> Bytes]
  <2>1. \A q \in Positions : p < q /\ q <= n => q - 1 \in Positions
    BY <1>1
  <2>2. \A q \in Positions : (IF q = p THEN c
                              ELSE IF p < q /\ q <= n THEN b[q - 1] ELSE b[q]) \in Bytes
    BY <1>1, <2>1
  <2> QED BY <2>2 DEF Ins
<1> HIDE DEF i
<1>4. n + 1 \in 0 .. MaxText
  BY <1>1
<1>5. \A q \in 0 .. (n + 1) - 1 : i[q] \in Chars
  <2> SUFFICES ASSUME NEW q \in 0 .. (n + 1) - 1 PROVE i[q] \in Chars
    OBVIOUS
  <2>1. q \in Positions /\ q \in Nat /\ q <= n
    BY <1>1
  <2>2. CASE q = p
    BY <1>2, <2>1, <2>2
  <2>3. CASE p < q
    <3>1. q - 1 \in 0 .. n - 1
      BY <1>1, <2>1, <2>3
    <3> QED BY <1>1, <1>2, <2>1, <2>3, <3>1
  <2>4. CASE q < p
    <3>1. q \in 0 .. n - 1
      BY <1>1, <2>1, <2>4
    <3> QED BY <1>1, <1>2, <2>1, <2>4, <3>1
  <2> QED BY <1>1, <2>1, <2>2, <2>3, <2>4
<1>6. i[MaxText] = NUL /\ i[MaxText + 1] = NUL
  BY <1>1, <1>2
<1>7. Holds(i, n + 1)
  BY <1>3, <1>4, <1>5, <1>6 DEF Holds
<1>8. \A q \in Positions : q < p => i[q] = b[q]
  BY <1>1, <1>2
<1>9. i[p] = c
  BY <1>1, <1>2
<1>10. \A q \in Positions : p <= q /\ q < n => i[q + 1] = b[q]
  <2> SUFFICES ASSUME NEW q \in Positions, p <= q, q < n PROVE i[q + 1] = b[q]
    OBVIOUS
  <2>1. q + 1 \in Positions /\ p < q + 1 /\ q + 1 <= n /\ (q + 1) - 1 = q
    BY <1>1
  <2> QED BY <1>1, <1>2, <2>1
<1>11. i[n + 1] = b[n + 1]
  BY <1>1, <1>2
<1> QED BY <1>7, <1>8, <1>9, <1>10, <1>11 DEF i

LEMMA InsertCounts ==
    ASSUME NEW b, NEW n, Holds(b, n), n < MaxText, NEW p \in 0 .. n, NEW c \in Chars
    PROVE  /\ \A q \in 0 .. p : Count(Ins(b, n, p, c), 0, q) = Count(b, 0, q)
           /\ Count(Ins(b, n, p, c), 0, p + 1) = Count(b, 0, p) + (IF c = "\n" THEN 1 ELSE 0)
           /\ Count(Ins(b, n, p, c), 0, n + 1) = Count(b, 0, n) + (IF c = "\n" THEN 1 ELSE 0)
<1> DEFINE i == Ins(b, n, p, c)
<1>1. /\ n \in Nat /\ p \in Nat /\ p <= n /\ MaxText \in Nat /\ Positions = 0 .. MaxText + 1
      /\ p \in Positions /\ n <= MaxText + 1
  BY Bounds DEF Holds
<1>2. /\ \A q \in Positions : q < p => i[q] = b[q]
      /\ i[p] = c
      /\ \A q \in Positions : p <= q /\ q < n => i[q + 1] = b[q]
  BY InsertHolds
<1> HIDE DEF i
<1>3. \A q \in 0 .. p : Count(i, 0, q) = Count(b, 0, q)
  <2> SUFFICES ASSUME NEW q \in 0 .. p PROVE Count(i, 0, q) = Count(b, 0, q)
    OBVIOUS
  <2>1. \A r \in Positions : 0 <= r /\ r < q => i[r] = b[r]
    BY <1>1, <1>2
  <2>2. q \in Int
    BY <1>1
  <2> QED BY <2>1, <2>2, CountSame
<1>4. Count(i, p, p + 1) = IF c = "\n" THEN 1 ELSE 0
  BY <1>1, <1>2, CountOne
<1>5. Count(i, p + 1, n + 1) = Count(b, p, n)
  BY <1>1, <1>2, CountMoved
<1>6. Count(i, 0, p) = Count(b, 0, p)
  BY <1>1, <1>3
<1>7. Count(i, 0, p + 1) = Count(i, 0, p) + Count(i, p, p + 1)
  BY <1>1, CountSplit
<1>8. Count(i, 0, n + 1) = Count(i, 0, p + 1) + Count(i, p + 1, n + 1)
  BY <1>1, CountSplit
<1>9. Count(b, 0, n) = Count(b, 0, p) + Count(b, p, n)
  BY <1>1, CountSplit
<1>10. Count(b, 0, p) \in Nat /\ Count(b, p, n) \in Nat
  BY NewlinesFinite
<1>11. Count(i, 0, p + 1) = Count(b, 0, p) + (IF c = "\n" THEN 1 ELSE 0)
  BY <1>4, <1>6, <1>7
<1>12. Count(i, 0, n + 1) = Count(b, 0, n) + (IF c = "\n" THEN 1 ELSE 0)
  BY <1>5, <1>8, <1>9, <1>10, <1>11
<1> QED BY <1>3, <1>11, <1>12 DEF i

\* The line a character is inserted in is longer by one.
LEMMA InsertLine ==
    ASSUME NEW b, NEW n, Holds(b, n), n < MaxText, NEW s, NEW e, IsLine(b, n, s, e),
           NEW p \in s .. e, NEW c \in Chars, c # "\n"
    PROVE  IsLine(Ins(b, n, p, c), n + 1, s, e + 1)
<1> DEFINE i == Ins(b, n, p, c)
<1>1. /\ n \in Nat /\ n <= MaxText /\ MaxText \in Nat /\ Positions = 0 .. MaxText + 1
      /\ s \in 0 .. n /\ e \in s .. n
      /\ s > 0 => b[s - 1] = "\n"
      /\ e < n => b[e] = "\n"
      /\ \A q \in Positions : s <= q /\ q < e => b[q] # "\n"
  BY Bounds DEF Holds, IsLine, Within
<1>2. p \in 0 .. n /\ s <= p /\ p <= e
  BY <1>1
<1>3. /\ \A q \in Positions : q < p => i[q] = b[q]
      /\ i[p] = c
      /\ \A q \in Positions : p <= q /\ q < n => i[q + 1] = b[q]
  BY <1>2, InsertHolds
<1> HIDE DEF i
<1>4. s \in 0 .. n + 1 /\ e + 1 \in s .. n + 1
  BY <1>1
<1>5. s > 0 => i[s - 1] = "\n"
  <2>1. s > 0 => s - 1 \in Positions /\ s - 1 < p
    BY <1>1, <1>2
  <2> QED BY <1>1, <1>3, <2>1
<1>6. e + 1 < n + 1 => i[e + 1] = "\n"
  <2>1. e \in Positions
    BY <1>1
  <2> QED BY <1>1, <1>2, <1>3, <2>1
<1>7. \A q \in Positions : s <= q /\ q < e + 1 => i[q] # "\n"
  <2> SUFFICES ASSUME NEW q \in Positions, s <= q, q < e + 1 PROVE i[q] # "\n"
    OBVIOUS
  <2>1. CASE q < p
    BY <1>1, <1>2, <1>3, <2>1
  <2>2. CASE q = p
    BY <1>3, <2>2
  <2>3. CASE p < q
    <3>1. q - 1 \in Positions /\ p <= q - 1 /\ q - 1 < n /\ q - 1 < e /\ (q - 1) + 1 = q /\ s <= q - 1
      BY <1>1, <1>2, <2>3
    <3>2. i[q] = b[q - 1]
      BY <1>3, <3>1
    <3>3. b[q - 1] # "\n"
      BY <1>1, <3>1
    <3> QED BY <3>2, <3>3
  <2> QED BY <1>1, <1>2, <2>1, <2>2, <2>3
<1>8. IsLine(i, n + 1, s, e + 1)
  BY <1>4, <1>5, <1>6, <1>7 DEF IsLine, Within
<1> QED BY <1>8 DEF i

\* A newline begins a line with what was behind the place.
LEMMA InsertNewline ==
    ASSUME NEW b, NEW n, Holds(b, n), n < MaxText, NEW p \in 0 .. n, NEW e, Ends(b, n, p, e)
    PROVE  IsLine(Ins(b, n, p, "\n"), n + 1, p + 1, e + 1)
<1> DEFINE i == Ins(b, n, p, "\n")
<1>1. /\ n \in Nat /\ n <= MaxText /\ MaxText \in Nat /\ Positions = 0 .. MaxText + 1
      /\ p \in Nat /\ p <= n /\ e \in p .. n
      /\ e < n => b[e] = "\n"
      /\ \A q \in Positions : p <= q /\ q < e => b[q] # "\n"
  BY Bounds DEF Holds, Ends, Within
<1>2. /\ i[p] = "\n"
      /\ \A q \in Positions : p <= q /\ q < n => i[q + 1] = b[q]
  BY Bounds, InsertHolds
<1> HIDE DEF i
<1>3. p + 1 \in 0 .. n + 1 /\ e + 1 \in p + 1 .. n + 1 /\ (p + 1) - 1 = p
  BY <1>1
<1>4. e + 1 < n + 1 => i[e + 1] = "\n"
  <2>1. e \in Positions
    BY <1>1
  <2> QED BY <1>1, <1>2, <2>1
<1>5. \A q \in Positions : p + 1 <= q /\ q < e + 1 => i[q] # "\n"
  <2> SUFFICES ASSUME NEW q \in Positions, p + 1 <= q, q < e + 1 PROVE i[q] # "\n"
    OBVIOUS
  <2>1. q - 1 \in Positions /\ p <= q - 1 /\ q - 1 < n /\ q - 1 < e /\ (q - 1) + 1 = q
    BY <1>1
  <2> QED BY <1>1, <1>2, <2>1
<1>6. IsLine(i, n + 1, p + 1, e + 1)
  BY <1>2, <1>3, <1>4, <1>5 DEF IsLine, Within
<1> QED BY <1>6 DEF i

LEMMA DeleteHolds ==
    ASSUME NEW b, NEW n, Holds(b, n), NEW p \in 0 .. n - 1
    PROVE  /\ Holds(Del(b, n, p), n - 1)
           /\ \A q \in Positions : q < p => Del(b, n, p)[q] = b[q]
           /\ \A q \in Positions : p <= q /\ q < n => Del(b, n, p)[q] = b[q + 1]
<1> DEFINE d == Del(b, n, p)
<1>1. /\ n \in Nat /\ n <= MaxText /\ p \in Nat /\ p < n /\ MaxText \in Nat
      /\ Positions = 0 .. MaxText + 1
      /\ b \in [Positions -> Bytes]
      /\ \A q \in 0 .. n - 1 : b[q] \in Chars
      /\ b[MaxText] = NUL /\ b[MaxText + 1] = NUL
  BY Bounds DEF Holds
<1>2. \A q \in Positions : d[q] = IF p <= q /\ q < n THEN b[q + 1] ELSE b[q]
  BY DEF Del
<1>3. d \in [Positions -> Bytes]
  <2>1. \A q \in Positions : q < n => q + 1 \in Positions
    BY <1>1
  <2>2. \A q \in Positions : (IF p <= q /\ q < n THEN b[q + 1] ELSE b[q]) \in Bytes
    BY <1>1, <2>1
  <2> QED BY <2>2 DEF Del
<1> HIDE DEF d
<1>4. n - 1 \in 0 .. MaxText
  BY <1>1
<1>5. \A q \in 0 .. (n - 1) - 1 : d[q] \in Chars
  <2> SUFFICES ASSUME NEW q \in 0 .. (n - 1) - 1 PROVE d[q] \in Chars
    OBVIOUS
  <2>1. q \in Positions /\ q < n /\ q \in 0 .. n - 1 /\ q + 1 \in 0 .. n - 1
    BY <1>1
  <2> QED BY <1>1, <1>2, <2>1
<1>6. d[MaxText] = NUL /\ d[MaxText + 1] = NUL
  BY <1>1, <1>2
<1>7. Holds(d, n - 1)
  BY <1>3, <1>4, <1>5, <1>6 DEF Holds
<1>8. /\ \A q \in Positions : q < p => d[q] = b[q]
      /\ \A q \in Positions : p <= q /\ q < n => d[q] = b[q + 1]
  BY <1>1, <1>2
<1> QED BY <1>7, <1>8 DEF d

LEMMA DeleteCounts ==
    ASSUME NEW b, NEW n, Holds(b, n), NEW p \in 0 .. n - 1, b[p] # "\n"
    PROVE  /\ \A q \in 0 .. p : Count(Del(b, n, p), 0, q) = Count(b, 0, q)
           /\ Count(Del(b, n, p), 0, n - 1) = Count(b, 0, n)
<1> DEFINE d == Del(b, n, p)
<1>1. /\ n \in Nat /\ p \in Nat /\ p < n /\ n <= MaxText /\ MaxText \in Nat
      /\ Positions = 0 .. MaxText + 1 /\ p \in Positions
  BY Bounds DEF Holds
<1>2. /\ \A q \in Positions : q < p => d[q] = b[q]
      /\ \A q \in Positions : p <= q /\ q < n => d[q] = b[q + 1]
  BY DeleteHolds
<1> HIDE DEF d
<1>3. \A q \in 0 .. p : Count(d, 0, q) = Count(b, 0, q)
  <2> SUFFICES ASSUME NEW q \in 0 .. p PROVE Count(d, 0, q) = Count(b, 0, q)
    OBVIOUS
  <2>1. \A r \in Positions : 0 <= r /\ r < q => d[r] = b[r]
    BY <1>1, <1>2
  <2>2. q \in Int
    BY <1>1
  <2> QED BY <2>1, <2>2, CountSame
<1>4. Count(b, p, p + 1) = 0
  BY <1>1, CountOne
<1>5. Count(b, p + 1, n) = Count(d, p, n - 1)
  <2>1. \A q \in Positions : p <= q /\ q < n - 1 => b[q + 1] = d[q]
    BY <1>1, <1>2
  <2>2. n - 1 \in Nat /\ n - 1 <= MaxText + 1 /\ (n - 1) + 1 = n
    BY <1>1
  <2>3. Count(b, p + 1, (n - 1) + 1) = Count(d, p, n - 1)
    <3> DEFINE m == n - 1
    <3> HIDE DEF m
    <3>1. p \in Nat /\ m \in Nat /\ m <= MaxText + 1
      BY <1>1, <2>2 DEF m
    <3>2. \A q \in Positions : p <= q /\ q < m => b[q + 1] = d[q]
      BY <2>1 DEF m
    <3>3. Count(b, p + 1, m + 1) = Count(d, p, m)
      BY <3>1, <3>2, CountMoved
    <3> QED BY <3>3 DEF m
  <2> QED BY <2>2, <2>3
<1>6. Count(d, 0, p) = Count(b, 0, p)
  BY <1>1, <1>3
<1>7. Count(b, 0, n) = Count(b, 0, p + 1) + Count(b, p + 1, n)
  BY <1>1, CountSplit
<1>8. Count(b, 0, p + 1) = Count(b, 0, p) + Count(b, p, p + 1)
  BY <1>1, CountSplit
<1>9. Count(d, 0, n - 1) = Count(d, 0, p) + Count(d, p, n - 1)
  BY <1>1, CountSplit
<1>10. Count(b, 0, p) \in Nat /\ Count(d, p, n - 1) \in Nat
  BY NewlinesFinite
<1>11. Count(d, 0, n - 1) = Count(b, 0, n)
  BY <1>4, <1>5, <1>6, <1>7, <1>8, <1>9, <1>10
<1> QED BY <1>3, <1>11 DEF d

\* The line a character is deleted from is shorter by one.
LEMMA DeleteLineShorter ==
    ASSUME NEW b, NEW n, Holds(b, n), NEW s, NEW e, IsLine(b, n, s, e), NEW p \in s .. e - 1
    PROVE  p \in 0 .. n - 1 /\ b[p] # "\n" /\ IsLine(Del(b, n, p), n - 1, s, e - 1)
<1> DEFINE d == Del(b, n, p)
<1>1. /\ n \in Nat /\ n <= MaxText /\ MaxText \in Nat /\ Positions = 0 .. MaxText + 1
      /\ s \in 0 .. n /\ e \in s .. n
      /\ s > 0 => b[s - 1] = "\n"
      /\ e < n => b[e] = "\n"
      /\ \A q \in Positions : s <= q /\ q < e => b[q] # "\n"
  BY Bounds DEF Holds, IsLine, Within
<1>2. p \in 0 .. n - 1 /\ s <= p /\ p < e /\ p \in Positions
  BY <1>1
<1>3. /\ \A q \in Positions : q < p => d[q] = b[q]
      /\ \A q \in Positions : p <= q /\ q < n => d[q] = b[q + 1]
  BY <1>2, DeleteHolds
<1> HIDE DEF d
<1>4. s \in 0 .. n - 1 /\ e - 1 \in s .. n - 1
  BY <1>1, <1>2
<1>5. s > 0 => d[s - 1] = "\n"
  <2>1. s > 0 => s - 1 \in Positions /\ s - 1 < p
    BY <1>1, <1>2
  <2> QED BY <1>1, <1>3, <2>1
<1>6. e - 1 < n - 1 => d[e - 1] = "\n"
  <2>1. e - 1 \in Positions /\ p <= e - 1 /\ e - 1 < n /\ (e - 1) + 1 = e
    BY <1>1, <1>2
  <2> QED BY <1>1, <1>3, <2>1
<1>7. \A q \in Positions : s <= q /\ q < e - 1 => d[q] # "\n"
  <2> SUFFICES ASSUME NEW q \in Positions, s <= q, q < e - 1 PROVE d[q] # "\n"
    OBVIOUS
  <2>1. q + 1 \in Positions /\ s <= q + 1 /\ q + 1 < e /\ q < n /\ q < e
    BY <1>1
  <2> QED BY <1>1, <1>2, <1>3, <2>1
<1>8. IsLine(d, n - 1, s, e - 1)
  BY <1>4, <1>5, <1>6, <1>7 DEF IsLine, Within
<1> QED BY <1>1, <1>2, <1>8 DEF d

-----------------------------------------------------------------------------
(* The keys                                                                *)

Words == 0 .. U32Modulus - 1

FileTypes ==
    /\ unsaved \in BOOLEAN /\ returned \in BOOLEAN
    /\ file_mode \in {"NEW", "UPDATE"} /\ fd \in {NoFile, 0}
    /\ disk \in Seq(Chars)

\* What IInv says of the state a key is pressed in; s is where the cursor's line
\* begins.
LEMMA Here ==
    ASSUME IInv, ~damaged, NEW s, s = LineStart
    PROVE  /\ Holds(bytes, file_length_bytes)
           /\ file_length_bytes \in Nat /\ file_length_bytes <= MaxText
           /\ file_offset \in Nat /\ file_offset <= file_length_bytes
           /\ cursor_x \in Nat /\ cursor_x <= file_offset
           /\ s \in Nat /\ file_offset = s + cursor_x /\ s <= file_offset
           /\ cursor_y \in Nat /\ file_length_lines \in Nat /\ cursor_y <= file_length_lines
           /\ file_length_lines <= file_length_bytes
           /\ file_length_lines = Count(bytes, 0, file_length_bytes)
           /\ cursor_y = Count(bytes, 0, file_offset) /\ cursor_y = Count(bytes, 0, s)
           /\ Begins(bytes, s, file_offset)
           /\ current_line_length \in Nat /\ current_line_length <= MaxText + 1
           /\ \E e \in file_offset .. file_length_bytes :
                 /\ IsLine(bytes, file_length_bytes, s, e)
                 /\ Ends(bytes, file_length_bytes, file_offset, e)
                 /\ current_line_length \in {e - s, e - s + 1}
<1>1. Holds(bytes, file_length_bytes)
  BY DEF IInv, BufferOK
<1>2. InPlace(bytes, file_length_bytes, file_length_lines,
              file_offset, cursor_x, cursor_y, current_line_length)
  BY DEF IInv, PlaceOK
<1>3. s = file_offset - cursor_x
  BY DEF LineStart
<1>4. /\ file_length_bytes \in Nat /\ file_length_bytes <= MaxText
      /\ file_offset \in Nat /\ cursor_x \in Nat /\ cursor_x <= file_offset
      /\ file_offset <= file_length_bytes
      /\ file_length_lines = Count(bytes, 0, file_length_bytes)
      /\ Begins(bytes, s, file_offset)
      /\ cursor_y = Count(bytes, 0, file_offset) /\ cursor_y = Count(bytes, 0, s)
      /\ \E e \in file_offset .. file_length_bytes :
            /\ IsLine(bytes, file_length_bytes, s, e)
            /\ Ends(bytes, file_length_bytes, file_offset, e)
            /\ current_line_length \in {e - s, e - s + 1}
  BY <1>1, <1>2, <1>3, LineOfPlace
<1>5. /\ {file_length_bytes, file_length_lines, file_offset, cursor_x, cursor_y,
          current_line_length} \subseteq 0 .. (U32Modulus - 1)
      /\ current_line_length <= MaxText + 1 /\ cursor_y <= file_length_lines
      /\ file_length_lines <= file_length_bytes
  BY <1>1, <1>2, PlaceNumbers
<1>6. file_length_lines \in Nat /\ cursor_y \in Nat /\ current_line_length \in Nat
  BY <1>5
<1>7. s \in Nat /\ file_offset = s + cursor_x /\ s <= file_offset
  BY <1>3, <1>4
<1> QED BY <1>1, <1>4, <1>5, <1>6, <1>7

LEMMA DamagesType ==
    ASSUME NEW k \in Keys
    PROVE  Damages(k) \in BOOLEAN
BY DEF Damages

\* A key keeps the invariant if it leaves numbers of 32 bits and, unless it is
\* one of Damages, a buffer and a place in order.
LEMMA KeyInv ==
    ASSUME IInv, NEW k \in Keys, Pressed(k),
           bytes' \in [Positions -> Bytes],
           file_length_bytes' \in Words, file_length_lines' \in Words,
           current_line_length' \in Words, file_offset' \in Words,
           cursor_x' \in Words, cursor_y' \in Words,
           FileTypes',
           ~Damages(k) => BufferOK' /\ PlaceOK'
    PROVE  IInv'
<1>1. key' = k /\ damaged' = Damages(k)
  BY DEF Pressed
<1>2. damaged' \in BOOLEAN
  BY <1>1, DamagesType
<1>3. TypeOK'
  BY <1>1, <1>2 DEF TypeOK, FileTypes, Words, Bytes
<1>4. ~damaged' => BufferOK' /\ PlaceOK'
  BY <1>1
<1> QED BY <1>3, <1>4 DEF IInv

LEMMA Numbers ==
    ASSUME IInv
    PROVE  /\ file_length_bytes \in Words /\ file_length_lines \in Words
           /\ current_line_length \in Words /\ file_offset \in Words
           /\ cursor_x \in Words /\ cursor_y \in Words
           /\ bytes \in [Positions -> Bytes]
           /\ FileTypes
BY DEF IInv, TypeOK, Words, FileTypes, Bytes

\* A key that moves the cursor, whatever it does to the length of the line.
LEMMA MoveInv ==
    ASSUME IInv, NEW k \in Keys, Pressed(k), UNCHANGED <<bytes, counts, file>>,
           NEW p \in Int, NEW x \in Int, PlaceAt(p, x, cursor_y'), cursor_y' \in Words,
           current_line_length' \in Words,
           ~Damages(k) =>
               /\ p \in Nat /\ x \in Nat /\ x <= p /\ p <= file_length_bytes
               /\ InPlace(bytes, file_length_bytes, file_length_lines, p, x,
                          cursor_y', current_line_length')
    PROVE  IInv'
<1>1. /\ bytes' = bytes /\ file_length_bytes' = file_length_bytes
      /\ file_length_lines' = file_length_lines
  BY DEF counts
<1>2. FileTypes'
  BY Numbers DEF file, FileTypes
<1>3. file_offset' = U32(p) /\ cursor_x' = U32(x)
  BY DEF PlaceAt
<1>4. file_offset' \in Words /\ cursor_x' \in Words
  BY <1>3, U32Range DEF Words
<1>5. ASSUME ~Damages(k) PROVE BufferOK' /\ PlaceOK'
  <2>1. ~damaged
    BY DEF Pressed
  <2>2. Holds(bytes, file_length_bytes) /\ file_length_bytes \in Nat /\ file_length_bytes <= MaxText
    BY <2>1, Here
  <2>3. p < U32Modulus /\ x < U32Modulus
    BY <1>5, <2>2, Bounds
  <2>4. file_offset' = p /\ cursor_x' = x
    BY <1>3, <1>5, <2>3, U32Range
  <2>5. PlaceOK'
    BY <1>1, <1>5, <2>4 DEF PlaceOK
  <2> QED BY <1>1, <2>2, <2>5 DEF BufferOK
<1> QED BY <1>1, <1>2, <1>4, <1>5, Numbers, KeyInv

\* A move to a place p of the cursor's line.
LEMMA LineMoveInv ==
    ASSUME IInv, NEW k \in Keys, Pressed(k),
           UNCHANGED <<bytes, counts, current_line_length, file>>,
           NEW p \in Int, NEW x \in Int, x = p - LineStart, PlaceAt(p, x, cursor_y),
           ~Damages(k) =>
               \E e : /\ IsLine(bytes, file_length_bytes, LineStart, e) /\ p \in LineStart .. e
                      /\ current_line_length \in {e - LineStart, e - LineStart + 1}
    PROVE  IInv'
<1> DEFINE s == LineStart
<1>1. ~damaged
  BY DEF Pressed
<1>2. /\ Holds(bytes, file_length_bytes)
      /\ s \in Nat /\ file_length_bytes \in Nat
      /\ file_length_lines = Count(bytes, 0, file_length_bytes)
      /\ cursor_y = Count(bytes, 0, s)
  BY <1>1, Here
<1>3. cursor_y' = cursor_y /\ current_line_length' = current_line_length
  BY DEF PlaceAt
<1>4. PlaceAt(p, x, cursor_y')
  BY <1>3
<1>5. ASSUME ~Damages(k)
      PROVE  /\ p \in Nat /\ x \in Nat /\ x <= p /\ p <= file_length_bytes
             /\ InPlace(bytes, file_length_bytes, file_length_lines, p, x,
                        cursor_y', current_line_length')
  <2>1. PICK e : /\ IsLine(bytes, file_length_bytes, s, e) /\ p \in s .. e
                 /\ current_line_length \in {e - s, e - s + 1}
    BY <1>5
  <2> HIDE DEF s
  <2>2. e \in s .. file_length_bytes
    BY <2>1 DEF IsLine
  <2>3. p \in Nat /\ p - s \in Nat /\ p - s <= p /\ p <= file_length_bytes
    BY <1>2, <2>1, <2>2
  <2>4. InPlace(bytes, file_length_bytes, Count(bytes, 0, file_length_bytes), p, p - s,
                Count(bytes, 0, s), current_line_length)
    BY <1>2, <2>1, PlaceInLine
  <2>5. x = p - s
    BY DEF s
  <2> QED BY <1>2, <1>3, <2>3, <2>4, <2>5
<1> HIDE DEF s
<1>6. cursor_y' \in Words /\ current_line_length' \in Words
  BY <1>3, Numbers
<1>7. UNCHANGED <<bytes, counts, file>>
  OBVIOUS
<1> QED BY <1>4, <1>5, <1>6, <1>7, MoveInv

LEMMA IgnoredInv ==
    ASSUME IInv, NEW k \in Keys, Ignored(k)
    PROVE  IInv'
<1>1. Pressed(k) /\ UNCHANGED <<bytes, counts, current_line_length, place, file>>
  BY DEF Ignored
<1>2. ~damaged
  BY <1>1 DEF Pressed
<1>3. FileTypes'
  BY <1>1, Numbers DEF file, FileTypes
<1>4. BufferOK' /\ PlaceOK'
  BY <1>1, <1>2 DEF IInv, BufferOK, PlaceOK, counts, place
<1> QED BY <1>1, <1>3, <1>4, Numbers, KeyInv DEF counts, place

\* At a 0 byte the place is behind the text: the key is one of Damages.
LEMMA StepBackInv ==
    ASSUME IInv, NEW k \in Removals, StepBack(k)
    PROVE  IInv'
<1>1. /\ Pressed(k) /\ Removable(k) /\ bytes[file_offset] = NUL
      /\ PlaceAt(file_offset - 1, cursor_x - 1, cursor_y)
      /\ current_line_length' = U32(current_line_length - 1)
      /\ UNCHANGED <<bytes, counts, file>>
  BY DEF StepBack
<1>2. k \in Keys /\ ~damaged
  BY <1>1 DEF Pressed, Keys
<1>3. /\ file_offset \in Nat /\ cursor_x \in Nat /\ current_line_length \in Nat
      /\ file_offset <= file_length_bytes /\ file_length_bytes \in Nat
      /\ \A q \in 0 .. file_length_bytes - 1 : bytes[q] \in Chars
  BY <1>2, Here DEF Holds
<1>4. file_offset = file_length_bytes
  <2> SUFFICES ASSUME file_offset < file_length_bytes PROVE FALSE
    BY <1>3
  <2>1. bytes[file_offset] \in Chars
    BY <1>3
  <2> QED BY <1>1, <2>1, Bounds
<1>5. Damages(k)
  BY <1>1, <1>4 DEF Damages, AtEnd, Removable
<1>6. current_line_length' \in Words /\ cursor_y' \in Words
  <2>1. current_line_length - 1 \in Int
    BY <1>3
  <2>2. cursor_y' = cursor_y
    BY <1>1 DEF PlaceAt
  <2> QED BY <1>1, <2>1, <2>2, U32Range, Numbers DEF Words
<1>7. file_offset - 1 \in Int /\ cursor_x - 1 \in Int
  BY <1>3
<1>8. PlaceAt(file_offset - 1, cursor_x - 1, cursor_y')
  BY <1>1 DEF PlaceAt
<1> QED BY <1>1, <1>2, <1>5, <1>6, <1>7, <1>8, MoveInv

LEMMA LeftInv == IInv /\ Left => IInv'
<1> SUFFICES ASSUME IInv, Left PROVE IInv'
  OBVIOUS
<1>1. /\ Pressed("LEFT") /\ cursor_x # 0
      /\ PlaceAt(file_offset - 1, cursor_x - 1, cursor_y)
      /\ UNCHANGED <<bytes, counts, current_line_length, file>>
  BY DEF Left
<1>2. ~damaged /\ "LEFT" \in Keys
  BY <1>1 DEF Pressed, Keys, Moves
<1> DEFINE s == LineStart
           n == file_length_bytes
<1>3. /\ file_offset \in Nat /\ cursor_x \in Nat /\ s \in Nat /\ file_offset = s + cursor_x
      /\ \E e \in file_offset .. n : /\ IsLine(bytes, n, s, e)
                                     /\ current_line_length \in {e - s, e - s + 1}
  <2> HIDE DEF s
  <2> QED BY <1>2, Here DEF s
<1>4. PICK e \in file_offset .. n : /\ IsLine(bytes, n, s, e)
                                    /\ current_line_length \in {e - s, e - s + 1}
  BY <1>3
<1>5. /\ file_offset - 1 \in Int /\ cursor_x - 1 \in Int
      /\ file_offset - 1 \in s .. e /\ cursor_x - 1 = (file_offset - 1) - s
  <2> HIDE DEF s, n
  <2> QED BY <1>1, <1>3, <1>4
<1> QED BY <1>1, <1>2, <1>4, <1>5, LineMoveInv

LEMMA RightInv == IInv /\ Right => IInv'
<1> SUFFICES ASSUME IInv, Right PROVE IInv'
  OBVIOUS
<1>1. /\ Pressed("RIGHT") /\ cursor_x < current_line_length
      /\ PlaceAt(file_offset + 1, cursor_x + 1, cursor_y)
      /\ UNCHANGED <<bytes, counts, current_line_length, file>>
  BY DEF Right
<1>2. ~damaged /\ "RIGHT" \in Keys
  BY <1>1 DEF Pressed, Keys, Moves
<1> DEFINE s == LineStart
           n == file_length_bytes
<1>3. /\ file_offset \in Nat /\ cursor_x \in Nat /\ s \in Nat /\ file_offset = s + cursor_x
      /\ n \in Nat /\ file_offset <= n
      /\ \E e \in file_offset .. n : /\ IsLine(bytes, n, s, e)
                                     /\ Ends(bytes, n, file_offset, e)
                                     /\ current_line_length \in {e - s, e - s + 1}
  <2> HIDE DEF s
  <2> QED BY <1>2, Here DEF s
<1>4. PICK e \in file_offset .. n : /\ IsLine(bytes, n, s, e)
                                    /\ Ends(bytes, n, file_offset, e)
                                    /\ current_line_length \in {e - s, e - s + 1}
  BY <1>3
<1>5. ASSUME ~Damages("RIGHT") PROVE file_offset + 1 \in s .. e
  <2>1. file_offset # n /\ bytes[file_offset] # "\n"
    BY <1>1, <1>5 DEF Damages, AtEnd
  <2>2. file_offset # e
    BY <1>3, <1>4, <2>1 DEF Ends
  <2> HIDE DEF s, n
  <2> QED BY <1>3, <1>4, <2>2
<1>6. /\ file_offset + 1 \in Int /\ cursor_x + 1 \in Int
      /\ cursor_x + 1 = (file_offset + 1) - s
  <2> HIDE DEF s, n
  <2> QED BY <1>3
<1> QED BY <1>1, <1>2, <1>4, <1>5, <1>6, LineMoveInv

LEMMA HomeInv == IInv /\ Home => IInv'
<1> SUFFICES ASSUME IInv, Home PROVE IInv'
  OBVIOUS
<1>1. /\ Pressed("HOME") /\ PlaceAt(file_offset - cursor_x, 0, cursor_y)
      /\ UNCHANGED <<bytes, counts, current_line_length, file>>
  BY DEF Home
<1>2. ~damaged /\ "HOME" \in Keys
  BY <1>1 DEF Pressed, Keys, Moves
<1> DEFINE s == LineStart
           n == file_length_bytes
<1>3. /\ file_offset \in Nat /\ s \in Nat /\ s <= file_offset
      /\ \E e \in file_offset .. n : /\ IsLine(bytes, n, s, e)
                                     /\ current_line_length \in {e - s, e - s + 1}
  <2> HIDE DEF s
  <2> QED BY <1>2, Here DEF s
<1>4. PICK e \in file_offset .. n : /\ IsLine(bytes, n, s, e)
                                    /\ current_line_length \in {e - s, e - s + 1}
  BY <1>3
<1>5. s \in Int /\ 0 = s - s /\ s \in s .. e
  <2> HIDE DEF s, n
  <2> QED BY <1>3, <1>4
<1>6. PlaceAt(s, 0, cursor_y)
  BY <1>1 DEF LineStart
<1> QED BY <1>1, <1>2, <1>4, <1>5, <1>6, LineMoveInv

LEMMA EndInv == IInv /\ End => IInv'
<1> SUFFICES ASSUME IInv, End PROVE IInv'
  OBVIOUS
<1> DEFINE s == LineStart
           n == file_length_bytes
           p == file_offset + (current_line_length - 1 - cursor_x)
           x == current_line_length - 1
<1>1. /\ Pressed("END") /\ PlaceAt(p, x, cursor_y)
      /\ UNCHANGED <<bytes, counts, current_line_length, file>>
  BY DEF End
<1>2. ~damaged /\ "END" \in Keys
  BY <1>1 DEF Pressed, Keys, Moves
<1>3. /\ file_offset \in Nat /\ cursor_x \in Nat /\ s \in Nat /\ file_offset = s + cursor_x
      /\ current_line_length \in Nat
      /\ \E e \in file_offset .. n : /\ IsLine(bytes, n, s, e)
                                     /\ current_line_length \in {e - s, e - s + 1}
  <2> HIDE DEF s
  <2> QED BY <1>2, Here DEF s
<1>4. PICK e \in file_offset .. n : /\ IsLine(bytes, n, s, e)
                                    /\ current_line_length \in {e - s, e - s + 1}
  BY <1>3
<1>5. p \in Int /\ x \in Int /\ x = p - s
  <2> HIDE DEF s, n
  <2> QED BY <1>3
<1>6. ASSUME ~Damages("END") PROVE p \in s .. e
  <2>1. current_line_length # 0
    BY <1>6 DEF Damages
  <2>2. p = s + current_line_length - 1
    <3> HIDE DEF s, n
    <3> QED BY <1>3
  <2> HIDE DEF s, n, p
  <2> QED BY <1>3, <1>4, <2>1, <2>2
<1> HIDE DEF p, x
<1> QED BY <1>1, <1>2, <1>4, <1>5, <1>6, LineMoveInv

\* The newline before a line, searched back from a place in it.
LEMMA LastNewline ==
    ASSUME NEW b, NEW p \in Positions, NEW s, Begins(b, s, p), s > 0
    PROVE  Max(NewlinesIn(b, 0, p)) = s - 1
<1> DEFINE T == NewlinesIn(b, 0, p)
           m == Max(T)
<1>1. /\ p \in Nat /\ p <= MaxText + 1 /\ MaxText \in Nat /\ Positions = 0 .. MaxText + 1
      /\ s \in 0 .. p /\ b[s - 1] = "\n"
      /\ \A q \in Positions : s <= q /\ q < p => b[q] # "\n"
  BY Bounds DEF Begins, Within
<1>2. s - 1 \in T
  BY <1>1 DEF NewlinesIn
<1>3. \A q \in T : q \in Nat /\ q < p /\ b[q] = "\n" /\ q \in Positions
  BY <1>1 DEF NewlinesIn
<1>4. IsFiniteSet(T)
  BY NewlinesFinite
<1> HIDE DEF T
<1>5. m \in T /\ \A q \in T : q <= m
  <2>1. T \subseteq Nat /\ T # {}
    BY <1>2, <1>3
  <2> QED BY <1>4, <2>1, MaxOfSet
<1> HIDE DEF m
<1>6. m \in Nat /\ s - 1 <= m /\ m < p /\ b[m] = "\n" /\ m \in Positions
  BY <1>2, <1>3, <1>5
<1>7. ~ (s <= m)
  BY <1>1, <1>6
<1>8. m = s - 1
  BY <1>1, <1>6, <1>7
<1> QED BY <1>8 DEF m, T

\* The newline of a line, searched for from a place in it.
LEMMA NextNewline ==
    ASSUME NEW b, NEW n \in 0 .. MaxText, NEW p \in 0 .. n, NEW e, Ends(b, n, p, e), e < n
    PROVE  Min(NewlinesIn(b, p, MaxText)) = e
<1> DEFINE T == NewlinesIn(b, p, MaxText)
           m == Min(T)
<1>1. /\ p \in Nat /\ n \in Nat /\ n <= MaxText /\ MaxText \in Nat /\ Positions = 0 .. MaxText + 1
      /\ e \in p .. n /\ b[e] = "\n"
      /\ \A q \in Positions : p <= q /\ q < e => b[q] # "\n"
  BY Bounds DEF Ends, Within
<1>2. e \in T
  BY <1>1 DEF NewlinesIn
<1>3. \A q \in T : q \in Nat /\ p <= q /\ b[q] = "\n" /\ q \in Positions
  BY <1>1 DEF NewlinesIn
<1> HIDE DEF T
<1>4. m \in T /\ \A q \in T : m <= q
  <2>1. T \subseteq Nat /\ T # {}
    BY <1>2, <1>3
  <2> QED BY <2>1, MinOfSet
<1> HIDE DEF m
<1>5. m \in Nat /\ m <= e /\ p <= m /\ b[m] = "\n" /\ m \in Positions
  BY <1>2, <1>3, <1>4
<1>6. ~ (m < e)
  BY <1>1, <1>5
<1>7. m = e
  BY <1>1, <1>5, <1>6
<1> QED BY <1>7 DEF m, T

LEMMA UpInv == IInv /\ Up => IInv'
<1> SUFFICES ASSUME IInv, Up PROVE IInv'
  OBVIOUS
<1> DEFINE end == Max(Newlines(0, file_offset))
           start == Max({q + 1 : q \in Newlines(0, end)} \cup {0})
           len == end - start + 1
           x == IF len < cursor_x + 1 THEN len - 1 ELSE cursor_x
           n == file_length_bytes
           s == LineStart
<1>1. /\ Pressed("UP") /\ cursor_y # 0 /\ end > 0
      /\ current_line_length' = len /\ PlaceAt(start + x, x, cursor_y - 1)
      /\ UNCHANGED <<bytes, counts, file>>
  BY DEF Up, OnLine
<1>2. ~damaged /\ "UP" \in Keys
  BY <1>1 DEF Pressed, Keys, Moves
<1> HIDE DEF s, x, len, start, end
<1>3. /\ Holds(bytes, n) /\ n \in Nat /\ n <= MaxText
      /\ file_offset \in Nat /\ file_offset <= n /\ cursor_x \in Nat
      /\ s \in Nat /\ s <= file_offset /\ Begins(bytes, s, file_offset)
      /\ cursor_y \in Nat /\ cursor_y <= file_length_lines /\ file_length_lines \in Nat
      /\ file_length_lines = Count(bytes, 0, n) /\ cursor_y = Count(bytes, 0, s)
  BY <1>2, Here DEF s
<1>4. MaxText \in Nat /\ Positions = 0 .. MaxText + 1 /\ MaxText + 1 < U32Modulus
      /\ U32Modulus \in Nat
  BY Bounds
<1>5. s > 0
  <2>1. Within(bytes, 0, 0)
    BY <1>4 DEF Within
  <2>2. Count(bytes, 0, 0) = 0
    BY <2>1, CountNone
  <2> QED BY <1>1, <1>3, <2>2
<1>6. end = s - 1
  <2>1. file_offset \in Positions
    BY <1>3, <1>4
  <2>2. Newlines(0, file_offset) = NewlinesIn(bytes, 0, file_offset)
    BY DEF Newlines, NewlinesIn
  <2> QED BY <1>3, <1>5, <2>1, <2>2, LastNewline DEF end
<1>7. Begins(bytes, start, end)
  <2>1. end \in Positions
    BY <1>3, <1>4, <1>5, <1>6
  <2>2. Newlines(0, end) = NewlinesIn(bytes, 0, end)
    BY DEF Newlines, NewlinesIn
  <2> QED BY <2>1, <2>2, LineBegins DEF start
<1>8. start \in 0 .. end /\ end \in Nat /\ end + 1 = s /\ end < n /\ bytes[end] = "\n"
  BY <1>3, <1>5, <1>6, <1>7 DEF Begins
<1>9. IsLine(bytes, n, start, end)
  BY <1>3, <1>7, <1>8 DEF IsLine, Begins
<1>10. Count(bytes, 0, start) = cursor_y - 1
  <2>1. Count(bytes, start, end) = 0
    BY <1>7, <1>8, CountNone DEF Begins
  <2>2. Count(bytes, 0, end) = Count(bytes, 0, start) + Count(bytes, start, end)
    BY <1>8, CountSplit
  <2>3. Count(bytes, end, end + 1) = 1
    BY <1>3, <1>4, <1>8, CountOne
  <2>4. Count(bytes, 0, end + 1) = Count(bytes, 0, end) + Count(bytes, end, end + 1)
    BY <1>8, CountSplit
  <2>5. Count(bytes, 0, start) \in Nat
    BY NewlinesFinite
  <2>6. Count(bytes, 0, end + 1) = cursor_y
    BY <1>3, <1>8
  <2> QED BY <1>3, <2>1, <2>2, <2>3, <2>4, <2>5, <2>6
<1>11. len = end - start + 1
  BY DEF len
<1>12. x \in 0 .. end - start
  BY <1>3, <1>8, <1>11 DEF x
<1>13. start + x \in start .. end /\ (start + x) - start = x /\ start + x \in Nat /\ x \in Nat
       /\ start + x \in Int /\ x \in Int /\ x <= start + x /\ start + x <= n
  BY <1>3, <1>8, <1>12
<1>14. InPlace(bytes, n, file_length_lines, start + x, x, cursor_y - 1, len)
  <2> DEFINE p == start + x
  <2> HIDE DEF p
  <2>1. p \in start .. end /\ p - start = x
    BY <1>13 DEF p
  <2>2. InPlace(bytes, n, Count(bytes, 0, n), p, p - start, Count(bytes, 0, start), len)
    BY <1>3, <1>9, <1>11, <2>1, PlaceInLine
  <2> QED BY <1>3, <1>10, <2>1, <2>2 DEF p
<1>15. len \in Words /\ cursor_y - 1 \in Words
  <2>1. len \in Nat /\ len <= MaxText + 1
    BY <1>3, <1>4, <1>8, <1>11
  <2>2. cursor_y \in Words
    BY Numbers
  <2> QED BY <1>1, <1>3, <1>4, <2>1, <2>2 DEF Words
<1>16. cursor_y' = cursor_y - 1
  BY <1>1 DEF PlaceAt
<1> DEFINE p == start + x
<1>17. p \in Int /\ p \in Nat /\ x <= p /\ p <= n /\ InPlace(bytes, n, file_length_lines, p, x, cursor_y', current_line_length')
  BY <1>1, <1>13, <1>14, <1>16
<1>18. PlaceAt(p, x, cursor_y') /\ cursor_y' \in Words /\ current_line_length' \in Words
  BY <1>1, <1>15, <1>16
<1> HIDE DEF p
<1> QED BY <1>1, <1>2, <1>13, <1>17, <1>18, MoveInv

LEMMA DownInv == IInv /\ Down => IInv'
<1> SUFFICES ASSUME IInv, Down PROVE IInv'
  OBVIOUS
<1> DEFINE n == file_length_bytes
           s == LineStart
           start == Min(Newlines(file_offset, MaxText)) + 1
           last == IF start <= n - 1
                   THEN Min({LineEnd(bytes, start), n - 1})
                   ELSE LineEnd(bytes, start)
           len == last - start + 1
           x == IF len < cursor_x + 1 THEN len - 1 ELSE cursor_x
           p == start + x
<1>1. /\ Pressed("DOWN") /\ cursor_y # file_length_lines
      /\ current_line_length' = len /\ PlaceAt(p, x, cursor_y + 1)
      /\ UNCHANGED <<bytes, counts, file>>
  BY DEF Down, OnLine
<1>2. ~damaged /\ "DOWN" \in Keys
  BY <1>1 DEF Pressed, Keys, Moves
<1> HIDE DEF s, x, len, start, last, p
<1>3. /\ Holds(bytes, n) /\ n \in Nat /\ n <= MaxText
      /\ file_offset \in Nat /\ file_offset <= n /\ cursor_x \in Nat
      /\ s \in Nat
      /\ cursor_y \in Nat /\ cursor_y <= file_length_lines /\ file_length_lines \in Nat
      /\ file_length_lines = Count(bytes, 0, n)
      /\ cursor_y = Count(bytes, 0, file_offset)
      /\ \E e \in file_offset .. n : Ends(bytes, n, file_offset, e)
  BY <1>2, Here DEF s
<1>4. MaxText \in Nat /\ Positions = 0 .. MaxText + 1 /\ MaxText + 1 < U32Modulus
      /\ U32Modulus \in Nat
  BY Bounds
<1>5. PICK e \in file_offset .. n : Ends(bytes, n, file_offset, e)
  BY <1>3
<1>6. e < n
  <2> SUFFICES ASSUME e = n PROVE FALSE
    BY <1>3, <1>5
  <2>1. Count(bytes, file_offset, n) = 0
    BY <1>3, <1>5, CountNone DEF Ends
  <2>2. Count(bytes, 0, n) = Count(bytes, 0, file_offset) + Count(bytes, file_offset, n)
    BY <1>3, CountSplit
  <2> QED BY <1>1, <1>3, <2>1, <2>2
<1>7. start = e + 1
  <2>1. Newlines(file_offset, MaxText) = NewlinesIn(bytes, file_offset, MaxText)
    BY DEF Newlines, NewlinesIn
  <2>2. n \in 0 .. MaxText /\ file_offset \in 0 .. n
    BY <1>3, <1>4
  <2> QED BY <1>5, <1>6, <2>1, <2>2, NextNewline DEF start
<1>8. start \in Nat /\ start > 0 /\ start <= n /\ bytes[start - 1] = "\n" /\ start \in Positions
  BY <1>3, <1>4, <1>5, <1>6, <1>7 DEF Ends
<1>9. Count(bytes, 0, start) = cursor_y + 1
  <2>1. Count(bytes, file_offset, e) = 0
    BY <1>3, <1>5, CountNone DEF Ends
  <2>2. Count(bytes, 0, e) = Count(bytes, 0, file_offset) + Count(bytes, file_offset, e)
    BY <1>3, <1>5, CountSplit
  <2>3. e \in Positions /\ bytes[e] = "\n"
    BY <1>3, <1>4, <1>5, <1>6 DEF Ends
  <2>4. Count(bytes, e, e + 1) = 1
    BY <2>3, CountOne
  <2>5. Count(bytes, 0, e + 1) = Count(bytes, 0, e) + Count(bytes, e, e + 1)
    BY <1>3, <1>5, CountSplit
  <2> QED BY <1>3, <1>7, <2>1, <2>2, <2>4, <2>5
<1>10. PICK d : Ends(bytes, n, start, d)
  <2>1. n \in 0 .. MaxText /\ start \in 0 .. n
    BY <1>3, <1>4, <1>8
  <2> QED BY <2>1, LineEnds
<1>11. d \in start .. n /\ IsLine(bytes, n, start, d)
  BY <1>3, <1>8, <1>10 DEF Ends, IsLine
<1> DEFINE z == LineEnd(bytes, start)
<1>12. /\ z \in Positions /\ start <= z /\ z >= d
       /\ d < n \/ bytes[n] = NUL => z = d
  BY <1>3, <1>8, <1>10, LineEndIs
<1> HIDE DEF z
<1>13. start <= n - 1 => /\ last \in {z, n - 1}
                         /\ last <= z /\ last <= n - 1
  <2> SUFFICES ASSUME start <= n - 1 PROVE last \in {z, n - 1} /\ last <= z /\ last <= n - 1
    OBVIOUS
  <2>1. last = Min({z, n - 1})
    BY DEF last, z
  <2>2. {z, n - 1} \subseteq Nat /\ {z, n - 1} # {}
    BY <1>3, <1>4, <1>8, <1>12
  <2>3. Min({z, n - 1}) \in {z, n - 1} /\ \A t \in {z, n - 1} : Min({z, n - 1}) <= t
    BY <2>2, MinOfSet
  <2> QED BY <2>1, <2>3
<1>14. start = n => last = z
  BY <1>3 DEF last, z
<1>15. last \in Nat /\ start <= last /\ last <= MaxText + 1
  BY <1>3, <1>4, <1>8, <1>12, <1>13, <1>14
<1>16. len = last - start + 1 /\ len \in Nat /\ len >= 1 /\ len <= MaxText + 1
  BY <1>4, <1>8, <1>15 DEF len
<1>17. x \in Nat /\ x <= len - 1
  BY <1>3, <1>16 DEF x
<1>18. ASSUME ~Damages("DOWN") PROVE len \in {d - start, d - start + 1} /\ start + len - 1 <= d
  <2>1. ~ (LineEnd(bytes, file_offset) = n - 1 /\ bytes[n] # NUL)
    BY <1>1, <1>3, <1>18 DEF Damages
  <2>2. CASE start <= n - 1 /\ d < n
    BY <1>3, <1>8, <1>11, <1>12, <1>13, <1>16, <2>2
  <2>3. CASE start <= n - 1 /\ d = n
    BY <1>3, <1>8, <1>11, <1>12, <1>13, <1>16, <2>3
  <2>4. CASE start = n
    <3>1. file_offset \in Positions
      BY <1>3, <1>4
    <3>2. LineEnd(bytes, file_offset) = e
      BY <1>3, <1>5, <1>6, <3>1, LineEndIs
    <3>3. bytes[n] = NUL
      BY <1>3, <1>5, <1>7, <2>1, <2>4, <3>2
    <3>4. z = n /\ d = n
      BY <1>8, <1>11, <1>12, <2>4, <3>3
    <3> QED BY <1>8, <1>14, <1>16, <2>4, <3>4
  <2> QED BY <1>3, <1>8, <1>11, <2>2, <2>3, <2>4
<1>19. p = start + x /\ p \in Nat /\ p \in Int /\ x \in Int /\ x <= p /\ p - start = x
  BY <1>8, <1>17 DEF p
<1>20. cursor_y' = cursor_y + 1
  BY <1>1 DEF PlaceAt
<1>21. ASSUME ~Damages("DOWN")
       PROVE  /\ p \in Nat /\ x \in Nat /\ x <= p /\ p <= n
              /\ InPlace(bytes, n, file_length_lines, p, x, cursor_y', current_line_length')
  <2>1. len \in {d - start, d - start + 1} /\ start + len - 1 <= d
    BY <1>18, <1>21
  <2>2. p \in start .. d /\ p <= n
    BY <1>3, <1>8, <1>11, <1>16, <1>17, <1>19, <2>1
  <2>3. InPlace(bytes, n, Count(bytes, 0, n), p, p - start, Count(bytes, 0, start), len)
    BY <1>3, <1>11, <2>1, <2>2, PlaceInLine
  <2> QED BY <1>1, <1>3, <1>9, <1>17, <1>19, <1>20, <2>2, <2>3
<1>22. cursor_y' \in Words /\ current_line_length' \in Words
  <2>1. file_length_lines \in Words
    BY Numbers
  <2>2. cursor_y + 1 <= file_length_lines
    BY <1>1, <1>3
  <2> QED BY <1>1, <1>3, <1>4, <1>16, <1>20, <2>1, <2>2 DEF Words
<1>23. PlaceAt(p, x, cursor_y')
  BY <1>1, <1>20
<1> QED BY <1>1, <1>2, <1>19, <1>21, <1>22, <1>23, MoveInv

LEMMA InsertInv ==
    ASSUME IInv, NEW c \in Chars, Insert(c)
    PROVE  IInv'
<1> DEFINE n == file_length_bytes
           p == file_offset
           s == LineStart
           b == Ins(bytes, n, p, c)
<1>1. /\ Pressed(c) /\ n < MaxText /\ bytes' = b
      /\ file_length_bytes' = n + 1 /\ unsaved' = TRUE
      /\ UNCHANGED <<file_mode, fd, disk, returned>>
  BY DEF Insert, Inserted, Ins
<1>2. ~damaged /\ c \in Keys
  BY <1>1 DEF Pressed, Keys
<1> HIDE DEF s
<1>3. /\ Holds(bytes, n) /\ n \in Nat /\ n <= MaxText
      /\ p \in Nat /\ p <= n /\ cursor_x \in Nat /\ cursor_x <= p
      /\ s \in Nat /\ p = s + cursor_x /\ s <= p
      /\ cursor_y \in Nat /\ file_length_lines \in Nat /\ cursor_y <= file_length_lines
      /\ file_length_lines = Count(bytes, 0, n)
      /\ cursor_y = Count(bytes, 0, p) /\ cursor_y = Count(bytes, 0, s)
      /\ current_line_length \in Nat
      /\ \E e \in p .. n : /\ IsLine(bytes, n, s, e) /\ Ends(bytes, n, p, e)
                           /\ current_line_length \in {e - s, e - s + 1}
  BY <1>2, Here DEF s
<1>4. MaxText \in Nat /\ Positions = 0 .. MaxText + 1 /\ MaxText + 1 < U32Modulus
      /\ U32Modulus \in Nat
  BY Bounds
<1>5. PICK e \in p .. n : /\ IsLine(bytes, n, s, e) /\ Ends(bytes, n, p, e)
                          /\ current_line_length \in {e - s, e - s + 1}
  BY <1>3
<1>6. p \in 0 .. n /\ p \in s .. e
  BY <1>3, <1>5
<1>7. Holds(b, n + 1) /\ b[p] = c /\ b[n + 1] = bytes[n + 1]
  BY <1>1, <1>3, <1>6, InsertHolds
<1>8. /\ \A q \in 0 .. p : Count(b, 0, q) = Count(bytes, 0, q)
      /\ Count(b, 0, p + 1) = cursor_y + (IF c = "\n" THEN 1 ELSE 0)
      /\ Count(b, 0, n + 1) = file_length_lines + (IF c = "\n" THEN 1 ELSE 0)
  BY <1>1, <1>3, <1>6, InsertCounts
<1> HIDE DEF b
<1>9. /\ file_offset' = p + 1
      /\ cursor_x' = IF c = "\n" THEN 0 ELSE cursor_x + 1
      /\ cursor_y' = cursor_y + (IF c = "\n" THEN 1 ELSE 0)
      /\ file_length_lines' = file_length_lines + (IF c = "\n" THEN 1 ELSE 0)
  <2>1. p + 1 \in Nat /\ cursor_x + 1 \in Nat /\ p + 1 < U32Modulus /\ cursor_x + 1 < U32Modulus
    BY <1>1, <1>3, <1>4
  <2>2. U32(p + 1) = p + 1 /\ U32(cursor_x + 1) = cursor_x + 1 /\ U32(0) = 0
    BY <1>4, <2>1, U32Range
  <2>3. CASE c = "\n"
    BY <1>3, <2>2, <2>3 DEF Insert, PlaceAt
  <2>4. CASE c # "\n"
    BY <1>3, <2>2, <2>4 DEF Insert, PlaceAt
  <2> QED BY <2>3, <2>4
<1>10. FileTypes'
  BY <1>1, Numbers DEF FileTypes
<1>11. BufferOK'
  BY <1>1, <1>7 DEF BufferOK
<1>12. /\ bytes' \in [Positions -> Bytes]
       /\ file_length_bytes' \in Words /\ file_length_lines' \in Words
       /\ file_offset' \in Words /\ cursor_x' \in Words /\ cursor_y' \in Words
  <2>1. bytes' \in [Positions -> Bytes]
    BY <1>1, <1>7 DEF Holds
  <2>2. n + 1 \in Words /\ p + 1 \in Words /\ cursor_x + 1 \in Words /\ 0 \in Words
    BY <1>1, <1>3, <1>4 DEF Words
  <2>3. file_length_lines' \in Words /\ cursor_y' \in Words
    <3>1. file_length_lines <= n
      BY <1>2, Here
    <3>2. file_length_lines' \in 0 .. n + 1 /\ cursor_y' \in 0 .. n + 1
      BY <1>3, <1>9, <3>1
    <3> QED BY <1>1, <1>3, <1>4, <3>2 DEF Words
  <2> QED BY <1>1, <1>9, <2>1, <2>2, <2>3
<1>13. CASE c # "\n"
  <2>1. IsLine(b, n + 1, s, e + 1)
    BY <1>1, <1>3, <1>5, <1>6, <1>13, InsertLine DEF b
  <2>2. p + 1 \in s .. e + 1 /\ (p + 1) - s = cursor_x + 1
    BY <1>3, <1>5
  <2>3. current_line_length' = U32(current_line_length + 1)
    BY <1>13 DEF Insert
  <2>4. current_line_length + 1 \in Nat /\ current_line_length + 1 < U32Modulus
    BY <1>1, <1>3, <1>4, <1>5
  <2>5. current_line_length' = current_line_length + 1
    BY <2>3, <2>4, U32Range
  <2>6. current_line_length + 1 \in {(e + 1) - s, (e + 1) - s + 1}
    BY <1>3, <1>5
  <2> DEFINE l == current_line_length + 1
             m == n + 1
             o == p + 1
             f == e + 1
  <2>7. /\ Holds(b, m) /\ IsLine(b, m, s, f) /\ o \in s .. f /\ l \in {f - s, f - s + 1}
    BY <1>7, <2>1, <2>2, <2>6
  <2>8. InPlace(b, m, Count(b, 0, m), o, o - s, Count(b, 0, s), l)
    <3> HIDE DEF l, m, o, f
    <3> QED BY <2>7, PlaceInLine
  <2>9. Count(b, 0, s) = cursor_y
    BY <1>3, <1>8
  <2>10. InPlace(b, n + 1, file_length_lines, p + 1, cursor_x + 1, cursor_y, current_line_length + 1)
    BY <1>3, <1>8, <1>13, <2>2, <2>8, <2>9
  <2>11. PlaceOK'
    BY <1>1, <1>3, <1>9, <1>13, <2>5, <2>10 DEF PlaceOK
  <2>12. current_line_length' \in Words
    BY <1>4, <2>4, <2>5 DEF Words
  <2> QED BY <1>1, <1>2, <1>10, <1>11, <1>12, <2>11, <2>12, KeyInv
<1>14. CASE c = "\n"
  <2> DEFINE m == n + 1
             o == p + 1
             f == e + 1
             z == LineEnd(b, o)
  <2>1. current_line_length' = z - o
    BY <1>1, <1>14 DEF Insert
  <2>2. /\ m \in Nat /\ m <= MaxText /\ o \in Nat /\ o > 0 /\ f \in o .. m /\ o \in Positions
        /\ Holds(b, m)
    BY <1>1, <1>3, <1>4, <1>5, <1>7
  <2>3. IsLine(b, m, o, f)
    BY <1>1, <1>3, <1>5, <1>6, <1>14, InsertNewline DEF b
  <2>4. Ends(b, m, o, f)
    BY <2>2, <2>3 DEF IsLine, Ends
  <2>5. Count(b, 0, m) = file_length_lines' /\ Count(b, 0, o) = cursor_y'
    BY <1>8, <1>9
  <2>6. b[m] = bytes[n + 1] /\ (f < m <=> e < n)
    BY <1>3, <1>5, <1>7
  <2> HIDE DEF z, m, o, f
  <2>7. /\ z \in Positions /\ o <= z
        /\ f < m \/ b[m] = NUL => z = f
    BY <2>2, <2>4, LineEndIs DEF z
  <2>8. current_line_length' \in Words
    BY <1>4, <2>1, <2>2, <2>7 DEF Words
  <2>9. ASSUME ~Damages("\n") PROVE PlaceOK'
    <3>1. z = f
      <4>1. CASE e < n
        BY <2>6, <2>7, <4>1
      <4>2. CASE e = n
        <5>1. Newlines(p, n) = {}
          BY <1>5, <4>2 DEF Ends, Within, Newlines
        <5>2. bytes[n + 1] = NUL
          BY <2>9, <5>1 DEF Damages
        <5> QED BY <2>6, <2>7, <5>2
      <4> QED BY <1>3, <1>5, <4>1, <4>2
    <3>2. z - o \in {f - o, f - o + 1} /\ o \in o .. f
      BY <2>2, <3>1
    <3>3. InPlace(b, m, Count(b, 0, m), o, o - o, Count(b, 0, o), z - o)
      BY <2>2, <2>3, <3>2, PlaceInLine
    <3>4. o - o = cursor_x'
      BY <1>9, <1>14, <2>2
    <3>5. bytes' = b /\ file_length_bytes' = m /\ file_offset' = o
      BY <1>1, <1>9 DEF m, o
    <3> QED BY <2>1, <2>5, <3>3, <3>4, <3>5 DEF PlaceOK
  <2> QED BY <1>1, <1>2, <1>10, <1>11, <1>12, <1>14, <2>8, <2>9, KeyInv
<1> QED BY <1>13, <1>14

LEMMA DeleteInv ==
    ASSUME IInv, NEW k \in Removals, Delete(k)
    PROVE  IInv'
<1> DEFINE n == file_length_bytes
           s == LineStart
           p == IF k = "BACKSPACE" THEN file_offset - 1 ELSE file_offset
           x == IF k = "BACKSPACE" THEN cursor_x - 1 ELSE cursor_x
           b == Del(bytes, n, p)
<1>1. /\ Pressed(k) /\ Removable(k) /\ ~(bytes[file_offset] = NUL /\ file_offset # 0)
      /\ bytes' = b /\ PlaceAt(p, x, cursor_y)
      /\ file_length_bytes' = U32(n - 1)
      /\ current_line_length' = U32(current_line_length - 1)
      /\ unsaved' = TRUE
      /\ UNCHANGED <<file_length_lines, file_mode, fd, disk, returned>>
  BY DEF Delete, DeleteAt, Del
<1>2. ~damaged /\ k \in Keys
  BY <1>1 DEF Pressed, Keys
<1> HIDE DEF s
<1>3. /\ Holds(bytes, n) /\ n \in Nat /\ n <= MaxText
      /\ file_offset \in Nat /\ file_offset <= n /\ cursor_x \in Nat /\ cursor_x <= file_offset
      /\ s \in Nat /\ file_offset = s + cursor_x
      /\ file_length_lines = Count(bytes, 0, n) /\ cursor_y = Count(bytes, 0, s)
      /\ current_line_length \in Nat /\ current_line_length <= MaxText + 1
      /\ \E e \in file_offset .. n : /\ IsLine(bytes, n, s, e) /\ Ends(bytes, n, file_offset, e)
                                     /\ current_line_length \in {e - s, e - s + 1}
  BY <1>2, Here DEF s
<1>4. MaxText \in Nat /\ Positions = 0 .. MaxText + 1 /\ MaxText + 1 < U32Modulus
      /\ U32Modulus \in Nat
  BY Bounds
<1>5. PICK e \in file_offset .. n : /\ IsLine(bytes, n, s, e) /\ Ends(bytes, n, file_offset, e)
                                    /\ current_line_length \in {e - s, e - s + 1}
  BY <1>3
<1>6. k = "BACKSPACE" => cursor_x > 0 /\ cursor_x \in Nat /\ file_offset > 0
  BY <1>1, <1>3 DEF Removable
<1>7. p \in Nat /\ x \in Nat /\ p = s + x /\ x <= p /\ p <= n
  BY <1>3, <1>6
<1>8. ASSUME ~Damages(k) PROVE p \in s .. e - 1
  <2>1. file_offset # n
    BY <1>6, <1>8 DEF Damages, AtEnd
  <2>2. bytes[file_offset] # "\n"
    BY <1>1 DEF Removable
  <2>3. file_offset # e
    BY <1>3, <1>5, <2>1, <2>2 DEF Ends
  <2> QED BY <1>3, <1>5, <1>6, <1>7, <2>3
<1> HIDE DEF p, x
<1>9. bytes' \in [Positions -> Bytes]
  <2>1. \A q \in Positions : (IF p <= q /\ q < n THEN bytes[q + 1] ELSE bytes[q]) \in Bytes
    BY <1>3, <1>4 DEF Holds
  <2> QED BY <1>1, <2>1 DEF Del
<1>10. FileTypes'
  BY <1>1, Numbers DEF FileTypes
<1>11. /\ file_length_bytes' \in Words /\ file_length_lines' \in Words
       /\ current_line_length' \in Words
       /\ file_offset' \in Words /\ cursor_x' \in Words /\ cursor_y' \in Words
  <2>1. n - 1 \in Int /\ current_line_length - 1 \in Int /\ p \in Int /\ x \in Int
    BY <1>3, <1>7
  <2>2. file_length_lines' = file_length_lines /\ cursor_y' = cursor_y
        /\ file_offset' = U32(p) /\ cursor_x' = U32(x)
    BY <1>1 DEF PlaceAt
  <2> QED BY <1>1, <2>1, <2>2, U32Range, Numbers DEF Words
<1> HIDE DEF b
<1>12. ASSUME ~Damages(k) PROVE BufferOK' /\ PlaceOK'
  <2>1. p \in s .. e - 1 /\ p \in 0 .. n - 1 /\ n \in Nat \ {0}
    BY <1>3, <1>5, <1>7, <1>8, <1>12
  <2>2. bytes[p] # "\n" /\ IsLine(b, n - 1, s, e - 1)
    BY <1>3, <1>5, <2>1, DeleteLineShorter DEF b
  <2>3. Holds(b, n - 1)
    BY <1>3, <2>1, DeleteHolds DEF b
  <2>4. s \in 0 .. p
    BY <1>3, <1>7
  <2>5. Count(b, 0, s) = cursor_y /\ Count(b, 0, n - 1) = file_length_lines
    BY <1>3, <2>1, <2>2, <2>4, DeleteCounts DEF b
  <2> DEFINE l == current_line_length - 1
             m == n - 1
             f == e - 1
  <2>6. p \in s .. f /\ l \in {f - s, f - s + 1}
    BY <1>3, <1>5, <1>7, <2>1
  <2>7. InPlace(b, m, Count(b, 0, m), p, p - s, Count(b, 0, s), l)
    <3> HIDE DEF m, f, l
    <3> QED BY <2>2, <2>3, <2>6, PlaceInLine DEF m, f
  <2>8. p - s = x
    BY <1>3, <1>7
  <2>9. /\ file_length_bytes' = m /\ current_line_length' = l
        /\ file_offset' = p /\ cursor_x' = x
    <3>1. /\ m \in Nat /\ m < U32Modulus /\ p < U32Modulus /\ x < U32Modulus
          /\ l \in Nat /\ l < U32Modulus
      BY <1>3, <1>4, <1>5, <1>7, <2>1
    <3>2. U32(m) = m /\ U32(l) = l /\ U32(p) = p /\ U32(x) = x
      <4> HIDE DEF m, l
      <4> QED BY <1>7, <3>1, U32Range
    <3> QED BY <1>1, <3>2 DEF PlaceAt
  <2>10. bytes' = b /\ cursor_y' = cursor_y /\ file_length_lines' = file_length_lines
    BY <1>1 DEF PlaceAt
  <2> HIDE DEF m, l, f
  <2>11. PlaceOK'
    BY <2>5, <2>7, <2>8, <2>9, <2>10 DEF PlaceOK, m
  <2>12. BufferOK'
    BY <2>3, <2>9, <2>10 DEF BufferOK, m
  <2> QED BY <2>11, <2>12
<1> QED BY <1>1, <1>2, <1>9, <1>10, <1>11, <1>12, KeyInv

\* Ctrl-D damages the text, wherever there is a line to delete.
LEMMA DeleteLineDamages ==
    ASSUME IInv, ~damaged, cursor_y # file_length_lines
    PROVE  Damages("ctrl-d")
<1>1. cursor_y \in Nat /\ file_length_lines \in Nat /\ cursor_y <= file_length_lines
  BY Here
<1> QED BY <1>1 DEF Damages

LEMMA DeleteLineInv == IInv /\ DeleteLine => IInv'
<1> SUFFICES ASSUME IInv, DeleteLine PROVE IInv'
  OBVIOUS
<1> DEFINE n == file_length_bytes
           s == LineStart
           l == current_line_length
           moved == n - l - 1 - s
           b == [q \in Positions |-> IF s <= q /\ q < s + moved THEN bytes[q + l] ELSE bytes[q]]
<1>1. /\ Pressed("ctrl-d") /\ cursor_y # file_length_lines /\ moved >= 0 /\ bytes' = b
      /\ file_length_lines' = file_length_lines - 1 /\ file_length_bytes' = n - l
      /\ PlaceAt(s, 0, cursor_y)
      /\ current_line_length' = LineEnd(b, s) - s
      /\ UNCHANGED file
  BY DEF DeleteLine
<1>2. ~damaged /\ "ctrl-d" \in Keys
  BY <1>1 DEF Pressed, Keys, Controls
<1> HIDE DEF s
<1>3. /\ Holds(bytes, n) /\ n \in Nat /\ n <= MaxText /\ s \in Nat /\ s <= n /\ l \in Nat
      /\ file_length_lines \in Nat /\ file_length_lines <= n
      /\ cursor_y \in Nat /\ cursor_y <= file_length_lines
  <2>1. /\ Holds(bytes, n) /\ n \in Nat /\ n <= MaxText /\ s \in Nat /\ s <= file_offset
        /\ file_offset \in Nat /\ file_offset <= n /\ l \in Nat
        /\ file_length_lines \in Nat /\ file_length_lines <= n
        /\ cursor_y \in Nat /\ cursor_y <= file_length_lines
    BY <1>2, Here DEF s
  <2> QED BY <2>1
<1>4. MaxText \in Nat /\ Positions = 0 .. MaxText + 1 /\ MaxText + 1 < U32Modulus
      /\ U32Modulus \in Nat
  BY Bounds
<1>5. moved \in Nat /\ s + moved + l = n - 1
  BY <1>1, <1>3
<1> HIDE DEF moved
<1>6. b \in [Positions -> Bytes] /\ b[MaxText] = NUL /\ b[MaxText + 1] = NUL
  <2>1. \A q \in Positions : s <= q /\ q < s + moved => q + l \in Positions
    BY <1>3, <1>4, <1>5
  <2>2. \A q \in Positions : (IF s <= q /\ q < s + moved THEN bytes[q + l] ELSE bytes[q]) \in Bytes
    BY <1>3, <2>1 DEF Holds
  <2>3. ~ (MaxText < s + moved) /\ ~ (MaxText + 1 < s + moved)
    BY <1>3, <1>4, <1>5
  <2>4. MaxText \in Positions /\ MaxText + 1 \in Positions
    BY <1>4
  <2>5. bytes[MaxText] = NUL /\ bytes[MaxText + 1] = NUL
    BY <1>3 DEF Holds
  <2> QED BY <2>2, <2>3, <2>4, <2>5
<1> HIDE DEF b
<1>7. Holds(b, 0)
  BY <1>4, <1>6 DEF Holds
<1>8. LineEnd(b, s) \in Positions /\ s <= LineEnd(b, s)
  BY <1>3, <1>4, <1>7, LineEndIs
<1>9. current_line_length' \in Words /\ file_length_bytes' \in Words
  BY <1>1, <1>3, <1>4, <1>5, <1>8 DEF Words
<1>10. file_length_lines' \in Words /\ cursor_y' \in Words
  <2>1. cursor_y' = cursor_y
    BY <1>1 DEF PlaceAt
  <2> QED BY <1>1, <1>3, <1>4, <2>1 DEF Words
<1>11. file_offset' \in Words /\ cursor_x' \in Words
  <2>1. file_offset' = U32(s) /\ cursor_x' = U32(0) /\ s \in Int /\ 0 \in Int
    BY <1>1, <1>3 DEF PlaceAt
  <2> QED BY <2>1, U32Range DEF Words
<1>12. FileTypes'
  BY <1>1, Numbers DEF file, FileTypes
<1>13. Damages("ctrl-d")
  BY <1>1, <1>2, DeleteLineDamages
<1> QED BY <1>1, <1>2, <1>6, <1>9, <1>10, <1>11, <1>12, <1>13, KeyInv

\* A key that leaves the text and the place as they are.
LEMMA StayInv ==
    ASSUME IInv, NEW k \in Keys, Pressed(k), FileTypes',
           UNCHANGED <<bytes, counts, current_line_length, place>>
    PROVE  IInv'
<1>1. ~damaged
  BY DEF Pressed
<1>2. BufferOK' /\ PlaceOK'
  BY <1>1 DEF IInv, BufferOK, PlaceOK, counts, place
<1> QED BY <1>2, Numbers, KeyInv DEF counts, place

\* The text is a sequence of characters.
LEMMA TextType ==
    ASSUME IInv, ~damaged
    PROVE  /\ Text \in Seq(Chars) /\ Len(Text) = file_length_bytes
           /\ Text = [i \in 1 .. file_length_bytes |-> bytes[i - 1]]
<1>1. Holds(bytes, file_length_bytes) /\ file_length_bytes \in Nat /\ file_length_bytes <= MaxText
  BY Here
<1>2. {i \in 1 .. MaxText : i <= file_length_bytes} = 1 .. file_length_bytes
  BY <1>1, Bounds
<1>3. Text = [i \in 1 .. file_length_bytes |-> bytes[i - 1]]
  BY <1>2 DEF Text
<1>4. \A i \in 1 .. file_length_bytes : bytes[i - 1] \in Chars
  BY <1>1 DEF Holds
<1>5. Text \in [1 .. file_length_bytes -> Chars]
  BY <1>3, <1>4
<1> QED BY <1>1, <1>3, <1>5

LEMMA OverwrittenType ==
    ASSUME IInv, ~damaged, NEW old \in Seq(Chars)
    PROVE  Overwritten(old) \in Seq(Chars) /\ IsPrefix(Text, Overwritten(old))
<1> DEFINE t == Text
           n == Len(t)
           rest == SubSeq(old, n + 1, Len(old))
<1>1. t \in Seq(Chars)
  BY TextType
<1> HIDE DEF t
<1>2. n \in Nat /\ Len(old) \in Nat
  BY <1>1
<1>3. rest \in Seq(Chars)
  <2>1. \A i \in n + 1 .. Len(old) : old[i] \in Chars
    BY <1>2
  <2> QED BY <1>2, <2>1, SubSeqProperties
<1>4. Overwritten(old) = t \o rest
  BY DEF Overwritten, t
<1> HIDE DEF rest
<1>5. /\ t \o rest \in Seq(Chars) /\ Len(t \o rest) = Len(t) + Len(rest) /\ Len(rest) \in Nat
      /\ \A i \in 1 .. Len(t) + Len(rest) : (t \o rest)[i] = IF i <= Len(t) THEN t[i] ELSE rest[i - Len(t)]
  BY <1>1, <1>3, ConcatProperties
<1> DEFINE u == t \o rest
<1> HIDE DEF u
<1>6. u \in Seq(Chars) /\ Len(t) <= Len(u) /\ \A i \in 1 .. Len(t) : u[i] = t[i]
  BY <1>2, <1>5 DEF u
<1>7. SubSeq(t, 1, Len(t)) = t
  BY <1>1, SubSeqFull
<1>8. SubSeq(u, 1, Len(t)) = t
  <2> HIDE DEF n
  <2>1. Len(t) \in Nat
    BY <1>1
  <2>2. \A i \in 1 .. Len(t) : u[i] \in Chars
    BY <1>1, <1>6
  <2>3. /\ SubSeq(u, 1, Len(t)) \in Seq(Chars)
        /\ Len(SubSeq(u, 1, Len(t))) = IF 1 <= Len(t) THEN Len(t) - 1 + 1 ELSE 0
        /\ \A i \in 1 .. Len(t) - 1 + 1 : SubSeq(u, 1, Len(t))[i] = u[1 + i - 1]
    BY <2>1, <2>2, SubSeqProperties
  <2>4. Len(SubSeq(u, 1, Len(t))) = Len(t)
    BY <2>1, <2>3
  <2>5. \A i \in 1 .. Len(t) : SubSeq(u, 1, Len(t))[i] = t[i]
    <3>1. \A i \in 1 .. Len(t) : i \in 1 .. Len(t) - 1 + 1 /\ 1 + i - 1 = i
      BY <2>1
    <3> QED BY <1>6, <2>3, <3>1
  <2> QED BY <1>1, <2>3, <2>4, <2>5, SeqEqual
<1>9. IsPrefix(t, u)
  BY <1>6, <1>7, <1>8 DEF IsPrefix
<1> QED BY <1>4, <1>6, <1>9 DEF u, t

LEMMA SaveInv == IInv /\ Save => IInv'
<1> SUFFICES ASSUME IInv, Save PROVE IInv'
  OBVIOUS
<1>1. /\ Pressed("ctrl-s") /\ file_mode' = "UPDATE"
      /\ UNCHANGED <<bytes, counts, current_line_length, place, returned>>
  BY DEF Save
<1>2. ~damaged /\ "ctrl-s" \in Keys
  BY <1>1 DEF Pressed, Keys, Controls
<1>3. PICK old \in IF file_mode = "NEW" THEN {<<>>, <<"a", "\n", "a">>} ELSE {disk} :
         \/ /\ fd' = 0 /\ disk' = Overwritten(old) /\ unsaved' = FALSE
         \/ /\ fd' = IF file_mode = "NEW" THEN 0 ELSE fd
            /\ disk' = old /\ UNCHANGED unsaved
         \/ UNCHANGED <<fd, disk, unsaved>>
  BY DEF Save
<1>4. old \in Seq(Chars)
  <2>1. <<>> \in Seq(Chars) /\ <<"a", "\n", "a">> \in Seq(Chars)
    BY DEF Chars
  <2> QED BY <1>3, <2>1, Numbers DEF FileTypes
<1>5. Overwritten(old) \in Seq(Chars)
  BY <1>2, <1>4, OverwrittenType
<1>6. FileTypes'
  BY <1>1, <1>3, <1>4, <1>5, Numbers DEF FileTypes
<1> QED BY <1>1, <1>2, <1>6, StayInv

LEMMA InitInv == Init => IInv
<1> SUFFICES ASSUME Init PROVE IInv
  OBVIOUS
<1>1. /\ file_offset = 0 /\ cursor_x = 0 /\ cursor_y = 0 /\ unsaved = FALSE
      /\ key = "none" /\ returned = FALSE /\ damaged = FALSE
  BY DEF Init
<1>2. /\ MaxText \in Nat /\ Positions = 0 .. MaxText + 1 /\ MaxText + 1 < U32Modulus
      /\ U32Modulus \in Nat /\ MaxLoaded \in Nat /\ MaxLoaded < MaxText
      /\ Chars \subseteq Bytes /\ NUL \in Bytes /\ "a" \in Bytes
  BY Bounds, BoundsAssumption DEF Bytes, Chars
<1>3. ASSUME NEW n \in 0 .. MaxLoaded, NEW t \in [1 .. n -> Chars], NEW after \in {NUL, "a"},
             bytes = Loaded(t, after), file_length_bytes = n
      PROVE  /\ Holds(bytes, n)
             /\ \A q \in 0 .. n - 1 : bytes[q] = t[q + 1]
             /\ t \in Seq(Chars) /\ Len(t) = n
  <2>1. t \in Seq(Chars) /\ Len(t) = n /\ n \in Nat /\ n < MaxText
    BY <1>2
  <2>2. \A q \in Positions : bytes[q] = IF q < n THEN t[q + 1] ELSE IF q = n THEN after ELSE NUL
    BY <1>3, <2>1 DEF Loaded
  <2>3. bytes \in [Positions -> Bytes]
    <3>1. \A q \in Positions : q < n => t[q + 1] \in Bytes
      BY <1>2, <2>1
    <3>2. \A q \in Positions : (IF q < n THEN t[q + 1] ELSE IF q = n THEN after ELSE NUL) \in Bytes
      BY <1>2, <3>1
    <3> QED BY <1>3, <2>1, <3>2 DEF Loaded
  <2>4. \A q \in 0 .. n - 1 : bytes[q] = t[q + 1] /\ bytes[q] \in Chars
    <3> SUFFICES ASSUME NEW q \in 0 .. n - 1 PROVE bytes[q] = t[q + 1] /\ bytes[q] \in Chars
      OBVIOUS
    <3>1. q \in Positions /\ q < n /\ q + 1 \in 1 .. n
      BY <1>2, <2>1
    <3> QED BY <2>2, <3>1
  <2>5. bytes[MaxText] = NUL /\ bytes[MaxText + 1] = NUL
    <3>1. MaxText \in Positions /\ MaxText + 1 \in Positions /\ ~(MaxText < n)
          /\ ~(MaxText + 1 < n) /\ MaxText # n /\ MaxText + 1 # n
      BY <1>2, <2>1
    <3> QED BY <2>2, <3>1
  <2>6. n \in 0 .. MaxText
    BY <1>2, <2>1
  <2>7. Holds(bytes, n)
    BY <2>3, <2>4, <2>5, <2>6 DEF Holds
  <2> QED BY <2>1, <2>4, <2>7
<1>4. ASSUME NEW n \in 0 .. MaxLoaded, Holds(bytes, n), file_length_bytes = n,
             file_length_lines = Count(bytes, 0, n),
             NEW e, Ends(bytes, n, 0, e), current_line_length \in {e, e + 1},
             FileTypes
      PROVE  IInv
  <2>1. IsLine(bytes, n, 0, e) /\ 0 \in 0 .. e /\ e \in Nat /\ n \in Nat
    BY <1>4 DEF IsLine, Ends
  <2>2. Count(bytes, 0, 0) = 0
    <3>1. Within(bytes, 0, 0)
      BY <1>2 DEF Within
    <3> QED BY <3>1, CountNone
  <2>3. current_line_length \in {e - 0, e - 0 + 1}
    BY <1>4, <2>1
  <2>4. InPlace(bytes, n, Count(bytes, 0, n), 0, 0 - 0, Count(bytes, 0, 0), current_line_length)
    BY <1>4, <2>1, <2>3, PlaceInLine
  <2>5. PlaceOK
    BY <1>1, <1>4, <2>2, <2>4 DEF PlaceOK
  <2>6. {file_length_bytes, file_length_lines, file_offset, cursor_x, cursor_y,
         current_line_length} \subseteq 0 .. (U32Modulus - 1)
    BY <1>4, <2>5, PlaceNumbers DEF PlaceOK
  <2>7. TypeOK
    BY <1>1, <1>4, <2>6 DEF TypeOK, FileTypes, Holds, Bytes
  <2> QED BY <1>4, <2>5, <2>7 DEF IInv, BufferOK
<1>5. CASE NewFile
  <2>1. /\ bytes = Loaded(<<>>, NUL) /\ file_length_bytes = 0 /\ file_length_lines = 0
        /\ current_line_length = 0 /\ file_mode = "NEW" /\ fd = NoFile /\ disk = <<>>
    BY <1>5 DEF NewFile
  <2>7. FileTypes
    <3>1. <<>> \in Seq(Chars)
      OBVIOUS
    <3> QED BY <1>1, <2>1, <3>1 DEF FileTypes
  <2>2. <<>> \in [1 .. 0 -> Chars] /\ 0 \in 0 .. MaxLoaded
    BY <1>2
  <2>3. Holds(bytes, 0)
    BY <1>3, <2>1, <2>2
  <2>4. Within(bytes, 0, 0)
    BY <1>2 DEF Within
  <2>5. Count(bytes, 0, 0) = 0
    BY <2>4, CountNone
  <2>6. Ends(bytes, 0, 0, 0)
    BY <2>4 DEF Ends
  <2> QED BY <1>4, <2>1, <2>2, <2>3, <2>5, <2>6, <2>7
<1>6. ASSUME NEW n \in 0 .. MaxLoaded, NEW t \in [1 .. n -> Chars], editor_load_file(t)
      PROVE  IInv
  <2>0. Len(t) = n /\ n \in Nat /\ n < MaxText /\ t \in Seq(Chars)
    BY <1>2
  <2>1. PICK after \in {NUL, "a"} : bytes = Loaded(t, after)
    BY <1>6 DEF editor_load_file
  <2>2. /\ file_length_bytes = n
        /\ file_length_lines = Cardinality({i \in 1 .. n : t[i] = "\n"})
        /\ current_line_length = Min({i \in 0 .. n : i = n \/ t[i + 1] = "\n"}) + 1
        /\ FileTypes
    BY <1>1, <1>6, <2>0 DEF editor_load_file, FileTypes
  <2>3. Holds(bytes, n) /\ \A q \in 0 .. n - 1 : bytes[q] = t[q + 1]
    BY <1>3, <2>1, <2>2
  <2>4. Count(bytes, 0, n) = file_length_lines
    <3> DEFINE c == [q \in Positions |-> IF q \in 1 .. n THEN t[q] ELSE NUL]
    <3>1. NewlinesIn(c, 1, n + 1) = {i \in 1 .. n : t[i] = "\n"}
      BY <1>2, <2>0 DEF NewlinesIn
    <3>2. \A q \in Positions : 0 <= q /\ q < n => c[q + 1] = bytes[q]
      BY <1>2, <2>0, <2>3
    <3> HIDE DEF c
    <3>3. 0 \in Nat /\ n <= MaxText + 1 /\ 0 + 1 = 1
      BY <1>2, <2>0
    <3>4. Count(c, 0 + 1, n + 1) = Count(bytes, 0, n)
      BY <2>0, <3>2, <3>3, CountMoved
    <3>5. Count(c, 1, n + 1) = Cardinality({i \in 1 .. n : t[i] = "\n"})
      BY <3>1 DEF Count
    <3> QED BY <2>2, <3>3, <3>4, <3>5
  <2> DEFINE e == Min(NewlinesIn(bytes, 0, n) \cup {n})
  <2>5. Ends(bytes, n, 0, e)
    BY <1>2, <2>0, LineEnds
  <2>6. NewlinesIn(bytes, 0, n) \cup {n} = {i \in 0 .. n : i = n \/ t[i + 1] = "\n"}
    BY <1>2, <2>0, <2>3 DEF NewlinesIn
  <2>7. current_line_length = e + 1
    BY <2>2, <2>6
  <2> HIDE DEF e
  <2> QED BY <1>4, <2>2, <2>3, <2>4, <2>5, <2>7
<1> QED BY <1>5, <1>6 DEF Init

LEMMA NextInv == IInv /\ [Next]_vars => IInv'
<1> SUFFICES ASSUME IInv, [Next]_vars PROVE IInv'
  OBVIOUS
<1>1. ASSUME NEW k \in Keys, Ignored(k) PROVE IInv'
  BY <1>1, IgnoredInv
<1>2. ASSUME NEW k \in Removals, StepBack(k) \/ Delete(k) PROVE IInv'
  BY <1>2, StepBackInv, DeleteInv
<1>3. ASSUME NEW c \in Chars, Insert(c) PROVE IInv'
  BY <1>3, InsertInv
<1>4. CASE Left \/ Right \/ Home \/ End
  BY <1>4, LeftInv, RightInv, HomeInv, EndInv
<1>5. CASE Up \/ Down
  BY <1>5, UpInv, DownInv
<1>6. CASE DeleteLine
  BY <1>6, DeleteLineInv
<1>7. CASE Save
  BY <1>7, SaveInv
<1>8. CASE UpRunsAway
  <2>1. "UP" \in Keys /\ FileTypes'
    BY <1>8, Numbers DEF UpRunsAway, Keys, Moves, FileTypes, file
  <2> QED BY <1>8, <2>1, StayInv DEF UpRunsAway
<1>9. CASE DeleteLineRunsAway
  <2>1. "ctrl-d" \in Keys /\ FileTypes'
    BY <1>9, Numbers DEF DeleteLineRunsAway, Keys, Controls, FileTypes, file
  <2> QED BY <1>9, <2>1, StayInv DEF DeleteLineRunsAway
<1>10. CASE Rename
  <2>1. "ctrl-c" \in Keys /\ FileTypes'
    BY <1>10, Numbers DEF Rename, Keys, Controls, FileTypes
  <2> QED BY <1>10, <2>1, StayInv DEF Rename
<1>11. CASE Return
  <2>1. "ctrl-r" \in Keys /\ FileTypes'
    BY <1>11, Numbers DEF Return, Keys, Controls, FileTypes
  <2> QED BY <1>11, <2>1, StayInv DEF Return
<1>12. CASE UNCHANGED vars
  <2> USE <1>12 DEF vars, counts, place, file
  <2>1. TypeOK'
    BY DEF IInv, TypeOK
  <2>2. (~damaged => BufferOK /\ PlaceOK)'
    BY DEF IInv, BufferOK, PlaceOK
  <2> QED BY <2>1, <2>2 DEF IInv
<1> QED
  BY <1>1, <1>2, <1>3, <1>4, <1>5, <1>6, <1>7, <1>8, <1>9, <1>10, <1>11, <1>12 DEF Next

-----------------------------------------------------------------------------
(* The text of a buffer                                                    *)

TextOf(b, n) == [i \in {k \in 1 .. MaxText : k <= n} |-> b[i - 1]]

LEMMA TextOfIs ==
    ASSUME NEW b, NEW n, Holds(b, n)
    PROVE  /\ TextOf(b, n) \in Seq(Chars) /\ Len(TextOf(b, n)) = n /\ n \in Nat
           /\ \A i \in 1 .. n : TextOf(b, n)[i] = b[i - 1]
<1>1. n \in Nat /\ n <= MaxText /\ MaxText \in Nat /\ \A q \in 0 .. n - 1 : b[q] \in Chars
  BY Bounds DEF Holds
<1>2. {k \in 1 .. MaxText : k <= n} = 1 .. n
  BY <1>1
<1>3. TextOf(b, n) = [i \in 1 .. n |-> b[i - 1]]
  BY <1>2 DEF TextOf
<1>4. \A i \in 1 .. n : b[i - 1] \in Chars
  BY <1>1
<1>5. TextOf(b, n) \in [1 .. n -> Chars]
  BY <1>3, <1>4
<1> QED BY <1>1, <1>3, <1>5

\* Two pieces of a text, one behind the other.
LEMMA Joined ==
    ASSUME NEW t \in Seq(Chars), NEW u \in Seq(Chars), NEW v \in Seq(Chars),
           Len(v) = Len(t) + Len(u),
           \A i \in 1 .. Len(t) : v[i] = t[i],
           \A i \in 1 .. Len(u) : v[Len(t) + i] = u[i]
    PROVE  v = t \o u
<1>1. /\ t \o u \in Seq(Chars) /\ Len(t \o u) = Len(t) + Len(u)
      /\ \A i \in 1 .. Len(t) + Len(u) : (t \o u)[i] = IF i <= Len(t) THEN t[i] ELSE u[i - Len(t)]
  BY ConcatProperties
<1> DEFINE w == t \o u
<1> HIDE DEF w
<1>2. Len(t) \in Nat /\ Len(u) \in Nat
  OBVIOUS
<1>3. ASSUME NEW i \in 1 .. Len(v) PROVE v[i] = w[i]
  <2>1. CASE i <= Len(t)
    BY <1>1, <1>2, <1>3, <2>1 DEF w
  <2>2. CASE i > Len(t)
    <3>1. i - Len(t) \in 1 .. Len(u) /\ Len(t) + (i - Len(t)) = i /\ i \in 1 .. Len(t) + Len(u)
          /\ ~(i <= Len(t))
      BY <1>2, <2>2
    <3>2. v[i] = u[i - Len(t)]
      BY <3>1
    <3> QED BY <1>1, <3>1, <3>2 DEF w
  <2> QED BY <1>2, <2>1, <2>2
<1>4. w \in Seq(Chars) /\ Len(v) = Len(w)
  BY <1>1 DEF w
<1>5. v = w
  BY <1>3, <1>4, SeqEqual
<1> QED BY <1>5 DEF w

\* A piece of a text, which may be empty.
LEMMA Piece ==
    ASSUME NEW t \in Seq(Chars), NEW p \in Nat, NEW q \in Nat, p <= q, q <= Len(t)
    PROVE  /\ SubSeq(t, p + 1, q) \in Seq(Chars) /\ Len(SubSeq(t, p + 1, q)) = q - p
           /\ \A i \in 1 .. q - p : SubSeq(t, p + 1, q)[i] = t[p + i]
<1>1. p + 1 \in Int /\ q \in Int /\ Len(t) \in Nat /\ q - (p + 1) + 1 = q - p
  OBVIOUS
<1>2. \A i \in p + 1 .. q : t[i] \in Chars
  BY <1>1
<1>3. /\ SubSeq(t, p + 1, q) \in Seq(Chars)
      /\ Len(SubSeq(t, p + 1, q)) = IF p + 1 <= q THEN q - (p + 1) + 1 ELSE 0
      /\ \A i \in 1 .. q - (p + 1) + 1 : SubSeq(t, p + 1, q)[i] = t[p + 1 + i - 1]
  BY <1>1, <1>2, SubSeqProperties
<1>4. Len(SubSeq(t, p + 1, q)) = q - p
  BY <1>1, <1>3
<1>5. \A i \in 1 .. q - p : p + 1 + i - 1 = p + i
  BY <1>1
<1> QED BY <1>1, <1>3, <1>4, <1>5

LEMMA InsertText ==
    ASSUME NEW b, NEW n, Holds(b, n), n < MaxText, NEW p \in 0 .. n, NEW c \in Chars
    PROVE  TextOf(Ins(b, n, p, c), n + 1)
               = SubSeq(TextOf(b, n), 1, p) \o <<c>>
                     \o SubSeq(TextOf(b, n), p + 1, Len(TextOf(b, n)))
<1> DEFINE t == TextOf(b, n)
           d == Ins(b, n, p, c)
           v == TextOf(d, n + 1)
           front == SubSeq(t, 0 + 1, p)
           back == SubSeq(t, p + 1, n)
           head == front \o <<c>>
<1>1. /\ Holds(d, n + 1)
      /\ \A q \in Positions : q < p => d[q] = b[q]
      /\ d[p] = c
      /\ \A q \in Positions : p <= q /\ q < n => d[q + 1] = b[q]
  BY InsertHolds
<1> HIDE DEF d
<1>2. /\ v \in Seq(Chars) /\ Len(v) = n + 1
      /\ \A i \in 1 .. n + 1 : v[i] = d[i - 1]
  BY <1>1, TextOfIs
<1> HIDE DEF v
<1>3. /\ t \in Seq(Chars) /\ Len(t) = n /\ n \in Nat
      /\ \A i \in 1 .. n : t[i] = b[i - 1]
  BY TextOfIs
<1> HIDE DEF t
<1>4. p \in Nat /\ p <= n /\ 0 \in Nat /\ 0 <= p /\ n <= Len(t) /\ p <= Len(t) /\ n <= MaxText
  BY <1>3, Bounds
<1>5. /\ front \in Seq(Chars) /\ Len(front) = p - 0
      /\ \A i \in 1 .. p - 0 : front[i] = t[0 + i]
  BY <1>3, <1>4, Piece
<1>6. /\ back \in Seq(Chars) /\ Len(back) = n - p
      /\ \A i \in 1 .. n - p : back[i] = t[p + i]
  BY <1>3, <1>4, Piece
<1> HIDE DEF front, back
<1>7. <<c>> \in Seq(Chars) /\ Len(<<c>>) = 1 /\ <<c>>[1] = c
  OBVIOUS
<1>8. /\ head \in Seq(Chars) /\ Len(head) = p + 1
      /\ \A i \in 1 .. p : head[i] = t[i]
      /\ head[p + 1] = c
  <2>1. /\ head \in Seq(Chars) /\ Len(head) = Len(front) + Len(<<c>>)
        /\ \A i \in 1 .. Len(front) + Len(<<c>>) :
              head[i] = IF i <= Len(front) THEN front[i] ELSE <<c>>[i - Len(front)]
    BY <1>5, <1>7, ConcatProperties
  <2> HIDE DEF head
  <2>2. Len(front) = p /\ Len(head) = p + 1
    BY <1>4, <1>5, <1>7, <2>1
  <2>3. \A i \in 1 .. p + 1 : head[i] = IF i <= p THEN front[i] ELSE <<c>>[i - p]
    BY <1>7, <2>1, <2>2
  <2>4. ASSUME NEW i \in 1 .. p PROVE head[i] = t[i]
    <3>1. i \in 1 .. p + 1 /\ i <= p /\ i \in 1 .. p - 0 /\ 0 + i = i
      BY <1>4
    <3> QED BY <1>5, <2>3, <3>1
  <2>5. head[p + 1] = c
    <3>1. p + 1 \in 1 .. p + 1 /\ ~(p + 1 <= p) /\ p + 1 - p = 1
      BY <1>4
    <3> QED BY <1>7, <2>3, <3>1
  <2> QED BY <2>1, <2>2, <2>4, <2>5
<1> HIDE DEF head
<1>9. ASSUME NEW i \in 1 .. Len(head) PROVE v[i] = head[i]
  <2>1. CASE i <= p
    <3>1. i \in 1 .. n + 1 /\ i \in 1 .. n /\ i \in 1 .. p /\ i - 1 \in Positions /\ i - 1 < p
      BY <1>3, <1>4, <1>8, <2>1, Bounds
    <3> QED BY <1>1, <1>2, <1>3, <1>8, <3>1
  <2>2. CASE i > p
    <3>1. i = p + 1 /\ i \in 1 .. n + 1 /\ i - 1 = p
      BY <1>3, <1>4, <1>8, <2>2
    <3> QED BY <1>1, <1>2, <1>8, <3>1
  <2> QED BY <1>4, <1>8, <2>1, <2>2
<1>10. ASSUME NEW i \in 1 .. Len(back) PROVE v[Len(head) + i] = back[i]
  <2>1. i \in 1 .. n - p /\ Len(head) + i = p + 1 + i
    BY <1>6, <1>8
  <2>2. /\ p + 1 + i \in 1 .. n + 1 /\ p + 1 + i - 1 = p + i /\ p + i \in 1 .. n
        /\ p + i - 1 \in Positions /\ p <= p + i - 1 /\ p + i - 1 < n
        /\ p + i - 1 + 1 = p + i
    BY <1>3, <1>4, <2>1, Bounds
  <2>3. v[p + 1 + i] = d[p + i]
    BY <1>2, <2>2
  <2>4. d[p + i] = b[p + i - 1]
    BY <1>1, <2>2
  <2>5. back[i] = b[p + i - 1]
    BY <1>3, <1>6, <2>1, <2>2
  <2> QED BY <2>1, <2>3, <2>4, <2>5
<1>11. Len(v) = Len(head) + Len(back)
  BY <1>2, <1>3, <1>4, <1>6, <1>8
<1>12. v = head \o back
  BY <1>2, <1>6, <1>8, <1>9, <1>10, <1>11, Joined
<1>13. 0 + 1 = 1
  OBVIOUS
<1> QED BY <1>3, <1>12, <1>13 DEF t, v, d, head, front, back

LEMMA DeleteText ==
    ASSUME NEW b, NEW n, Holds(b, n), NEW p \in 0 .. n - 1
    PROVE  TextOf(Del(b, n, p), n - 1)
               = SubSeq(TextOf(b, n), 1, p) \o SubSeq(TextOf(b, n), p + 2, Len(TextOf(b, n)))
<1> DEFINE t == TextOf(b, n)
           d == Del(b, n, p)
           v == TextOf(d, n - 1)
           front == SubSeq(t, 0 + 1, p)
           back == SubSeq(t, (p + 1) + 1, n)
<1>1. /\ Holds(d, n - 1)
      /\ \A q \in Positions : q < p => d[q] = b[q]
      /\ \A q \in Positions : p <= q /\ q < n => d[q] = b[q + 1]
  BY DeleteHolds
<1> HIDE DEF d
<1>2. /\ v \in Seq(Chars) /\ Len(v) = n - 1
      /\ \A i \in 1 .. n - 1 : v[i] = d[i - 1]
  BY <1>1, TextOfIs
<1> HIDE DEF v
<1>3. /\ t \in Seq(Chars) /\ Len(t) = n /\ n \in Nat
      /\ \A i \in 1 .. n : t[i] = b[i - 1]
  BY TextOfIs
<1> HIDE DEF t
<1>4. /\ p \in Nat /\ p + 1 \in Nat /\ p + 1 <= n /\ 0 \in Nat /\ 0 <= p /\ n <= Len(t)
      /\ p <= Len(t) /\ n \in 0 .. MaxText /\ MaxText \in Nat
  BY <1>3, Bounds DEF Holds
<1>5. /\ front \in Seq(Chars) /\ Len(front) = p - 0
      /\ \A i \in 1 .. p - 0 : front[i] = t[0 + i]
  BY <1>3, <1>4, Piece
<1>6. /\ back \in Seq(Chars) /\ Len(back) = n - (p + 1)
      /\ \A i \in 1 .. n - (p + 1) : back[i] = t[p + 1 + i]
  BY <1>3, <1>4, Piece
<1> HIDE DEF front, back
<1>7. Len(front) = p
  BY <1>4, <1>5
<1>8. ASSUME NEW i \in 1 .. Len(front) PROVE v[i] = front[i]
  <2>1. i \in 1 .. n - 1 /\ i \in 1 .. n /\ i - 1 \in Positions /\ i - 1 < p /\ i \in 1 .. p - 0
        /\ 0 + i = i
    BY <1>3, <1>4, <1>7, Bounds
  <2>2. v[i] = b[i - 1]
    BY <1>1, <1>2, <2>1
  <2>3. front[i] = b[i - 1]
    BY <1>3, <1>5, <2>1
  <2> QED BY <2>2, <2>3
<1>9. ASSUME NEW i \in 1 .. Len(back) PROVE v[Len(front) + i] = back[i]
  <2>1. i \in 1 .. n - (p + 1) /\ Len(front) + i = p + i
    BY <1>6, <1>7
  <2>2. /\ p + i \in 1 .. n - 1 /\ p + 1 + i \in 1 .. n /\ p + 1 + i - 1 = p + i
        /\ p + i - 1 \in Positions /\ p <= p + i - 1 /\ p + i - 1 < n
        /\ p + i - 1 + 1 = p + i
    BY <1>3, <1>4, <2>1, Bounds
  <2>3. v[p + i] = d[p + i - 1]
    BY <1>2, <2>2
  <2>4. d[p + i - 1] = b[p + i]
    BY <1>1, <2>2
  <2>5. back[i] = b[p + i]
    BY <1>3, <1>6, <2>1, <2>2
  <2> QED BY <2>1, <2>3, <2>4, <2>5
<1>10. Len(v) = Len(front) + Len(back)
  BY <1>2, <1>3, <1>4, <1>6, <1>7
<1>11. v = front \o back
  BY <1>2, <1>5, <1>6, <1>8, <1>9, <1>10, Joined
<1>12. 0 + 1 = 1 /\ (p + 1) + 1 = p + 2
  BY <1>4
<1> QED BY <1>3, <1>11, <1>12 DEF t, v, d, front, back

\* The place after a key that only moves it is in the text.
LEMMA MoveStep ==
    ASSUME IInv, IInv', ~damaged, ~damaged', UNCHANGED <<bytes, file_length_bytes>>
    PROVE  Text' = Text /\ [Buffer!Next]_<<Text, file_offset, damaged>>
<1>1. Text' = Text
  BY DEF Text
<1>2. Holds(bytes, file_length_bytes)
  BY DEF IInv, BufferOK
<1>3. Text = TextOf(bytes, file_length_bytes)
  BY DEF Text, TextOf
<1>4. Len(Text) = file_length_bytes
  BY <1>2, <1>3, TextOfIs
<1>5. file_offset' \in 0 .. file_length_bytes
  BY DEF IInv, PlaceOK, InPlace
<1>6. UNCHANGED damaged
  BY DEF IInv, TypeOK
<1>7. Buffer!Move(file_offset')
  BY <1>1, <1>6 DEF Buffer!Move
<1> QED BY <1>1, <1>4, <1>5, <1>7 DEF Buffer!Next

LEMMA InsertStep ==
    ASSUME IInv, IInv', ~damaged', NEW c \in Chars, Insert(c)
    PROVE  Buffer!Insert(c)
<1> DEFINE n == file_length_bytes
           p == file_offset
<1>1. ~damaged /\ n < MaxText /\ bytes' = Ins(bytes, n, p, c) /\ file_length_bytes' = n + 1
  BY DEF Insert, Inserted, Ins, Pressed
<1>2. Holds(bytes, n) /\ p \in 0 .. n /\ n \in Nat
  BY <1>1, Here
<1>3. Text = TextOf(bytes, n) /\ Text' = TextOf(bytes', file_length_bytes')
  BY DEF Text, TextOf
<1>4. TextOf(Ins(bytes, n, p, c), n + 1)
          = SubSeq(Text, 1, p) \o <<c>> \o SubSeq(Text, p + 1, Len(Text))
  <2> DEFINE t == TextOf(bytes, n)
  <2>1. TextOf(Ins(bytes, n, p, c), n + 1)
            = SubSeq(t, 1, p) \o <<c>> \o SubSeq(t, p + 1, Len(t))
    <3> HIDE DEF n, p
    <3> QED BY <1>1, <1>2, InsertText
  <2> QED BY <1>3, <2>1
<1>5. file_offset' = p + 1
  <2>1. file_offset' = U32(p + 1)
    BY DEF Insert, PlaceAt
  <2>2. p + 1 \in Int /\ 0 <= p + 1 /\ p + 1 < U32Modulus
    BY <1>1, <1>2, Bounds
  <2> QED BY <2>1, <2>2, U32Range
<1>6. UNCHANGED damaged
  BY <1>1 DEF IInv, TypeOK
<1> QED BY <1>1, <1>3, <1>4, <1>5, <1>6 DEF Buffer!Insert

\* A removal takes the character at the place or before it.
LEMMA DeleteStep ==
    ASSUME IInv, IInv', ~damaged', NEW k \in Removals, Delete(k)
    PROVE  \E p \in {file_offset, file_offset - 1} \cap Nat : Buffer!Remove(p)
<1> DEFINE n == file_length_bytes
           p == IF k = "BACKSPACE" THEN file_offset - 1 ELSE file_offset
<1>1. /\ ~damaged /\ Removable(k) /\ bytes' = Del(bytes, n, p)
      /\ file_offset' = U32(p) /\ file_length_bytes' = U32(n - 1)
  BY DEF Delete, DeleteAt, Del, PlaceAt, Pressed
<1>2. /\ Holds(bytes, n) /\ n \in Nat /\ n <= MaxText
      /\ file_offset \in Nat /\ file_offset <= n /\ cursor_x \in Nat /\ cursor_x <= file_offset
  BY <1>1, Here
<1>3. ~Damages(k)
  BY DEF Delete, Pressed
<1>4. k = "BACKSPACE" => cursor_x > 0 /\ file_offset > 0
  BY <1>1, <1>2 DEF Removable
<1>5. file_offset # n
  BY <1>3, <1>4 DEF Damages, AtEnd
<1>6. p \in 0 .. n - 1 /\ p \in {file_offset, file_offset - 1} \cap Nat
  BY <1>2, <1>4, <1>5
<1> HIDE DEF p
<1>7. Text = TextOf(bytes, n) /\ Text' = TextOf(bytes', file_length_bytes')
  BY DEF Text, TextOf
<1>8. TextOf(Del(bytes, n, p), n - 1) = SubSeq(Text, 1, p) \o SubSeq(Text, p + 2, Len(Text))
  <2> DEFINE t == TextOf(bytes, n)
  <2>1. TextOf(Del(bytes, n, p), n - 1) = SubSeq(t, 1, p) \o SubSeq(t, p + 2, Len(t))
    <3> HIDE DEF n
    <3> QED BY <1>2, <1>6, DeleteText
  <2> QED BY <1>7, <2>1
<1>9. file_offset' = p /\ file_length_bytes' = n - 1
  <2>1. /\ p \in Int /\ 0 <= p /\ p < U32Modulus
        /\ n - 1 \in Int /\ 0 <= n - 1 /\ n - 1 < U32Modulus
    BY <1>2, <1>6, Bounds
  <2> QED BY <1>1, <2>1, U32Range
<1>10. UNCHANGED damaged
  BY <1>1 DEF IInv, TypeOK
<1>11. Len(Text) = n
  BY <1>2, <1>7, TextOfIs
<1>12. p < Len(Text)
  BY <1>2, <1>6, <1>11
<1>13. Buffer!Remove(p)
  BY <1>1, <1>7, <1>8, <1>9, <1>10, <1>12 DEF Buffer!Remove
<1> QED BY <1>6, <1>13

\* Only a character or a removal changes the text; other keys but Ctrl-S and
\* Ctrl-C leave the mark of unsaved changes.
LEMMA OtherKeys ==
    ASSUME IInv, Next, ~damaged', ~(\E c \in Chars : Insert(c)), ~(\E k \in Removals : Delete(k))
    PROVE  /\ ~damaged /\ UNCHANGED <<bytes, file_length_bytes>>
           /\ UNCHANGED unsaved \/ Save \/ key' = "ctrl-c"
<1>1. ASSUME NEW k \in Keys, Ignored(k)
      PROVE  ~damaged /\ UNCHANGED <<bytes, file_length_bytes, unsaved>>
  BY <1>1 DEF Ignored, Pressed, counts, file
<1>2. ASSUME NEW k \in Removals, StepBack(k)
      PROVE  ~damaged /\ UNCHANGED <<bytes, file_length_bytes, unsaved>>
  BY <1>2 DEF StepBack, Pressed, counts, file
<1>3. CASE Left \/ Right \/ Home \/ End
  BY <1>3 DEF Left, Right, Home, End, Pressed, counts, file
<1>4. CASE Up \/ Down \/ UpRunsAway \/ DeleteLineRunsAway
  BY <1>4 DEF Up, Down, UpRunsAway, DeleteLineRunsAway, Pressed, counts, file
<1>5. CASE DeleteLine
  <2>1. ~damaged /\ cursor_y # file_length_lines /\ damaged' = Damages("ctrl-d")
    BY <1>5 DEF DeleteLine, Pressed
  <2>2. Damages("ctrl-d")
    BY <2>1, DeleteLineDamages
  <2> QED BY <2>1, <2>2
<1>6. CASE Save
  BY <1>6 DEF Save, Pressed, counts
<1>7. CASE Rename \/ Return
  BY <1>7 DEF Rename, Return, Pressed, counts
<1> QED BY <1>1, <1>2, <1>3, <1>4, <1>5, <1>6, <1>7 DEF Next

LEMMA BufferStep ==
    IInv /\ IInv' /\ [Next]_vars => [Buffer!Next]_<<Text, file_offset, damaged>>
<1> SUFFICES ASSUME IInv, IInv', [Next]_vars
             PROVE  [Buffer!Next]_<<Text, file_offset, damaged>>
  OBVIOUS
<1>1. CASE UNCHANGED vars
  <2>1. UNCHANGED <<bytes, file_length_bytes, file_offset, damaged>>
    BY <1>1 DEF vars, counts, place
  <2> QED BY <2>1 DEF Text
<1>2. CASE damaged'
  BY <1>2 DEF Buffer!Next
<1>3. CASE Next /\ ~damaged'
  <2>1. ASSUME NEW c \in Chars, Insert(c) PROVE Buffer!Next
    BY <1>3, <2>1, InsertStep DEF Buffer!Next
  <2>2. ASSUME NEW k \in Removals, Delete(k) PROVE Buffer!Next
    BY <1>3, <2>2, DeleteStep DEF Buffer!Next
  <2>3. CASE ~(\E c \in Chars : Insert(c)) /\ ~(\E k \in Removals : Delete(k))
    BY <1>3, <2>3, OtherKeys, MoveStep
  <2> QED BY <2>1, <2>2, <2>3
<1> QED BY <1>1, <1>2, <1>3

LEMMA MarkStep ==
    ASSUME IInv, IInv', Next, ~damaged'
    PROVE  /\ Text' # Text => unsaved'
           /\ unsaved /\ ~unsaved' => key' = "ctrl-c" \/ IsPrefix(Text', disk')
<1>1. ASSUME NEW c \in Chars, Insert(c) PROVE unsaved'
  BY <1>1 DEF Insert
<1>2. ASSUME NEW k \in Removals, Delete(k) PROVE unsaved'
  BY <1>2 DEF Delete
<1>3. CASE ~(\E c \in Chars : Insert(c)) /\ ~(\E k \in Removals : Delete(k))
  <2>1. ~damaged /\ UNCHANGED <<bytes, file_length_bytes>>
        /\ (UNCHANGED unsaved \/ Save \/ key' = "ctrl-c")
    BY <1>3, OtherKeys
  <2>2. Text' = Text
    BY <2>1, MoveStep
  <2>3. ASSUME Save, unsaved, ~unsaved' PROVE IsPrefix(Text', disk')
    <3>1. PICK old \in IF file_mode = "NEW" THEN {<<>>, <<"a", "\n", "a">>} ELSE {disk} :
             \/ disk' = Overwritten(old)
             \/ UNCHANGED unsaved
      BY <2>3 DEF Save
    <3>2. old \in Seq(Chars)
      <4>1. <<>> \in Seq(Chars) /\ <<"a", "\n", "a">> \in Seq(Chars)
        BY DEF Chars
      <4> QED BY <3>1, <4>1, Numbers DEF FileTypes
    <3>3. IsPrefix(Text, Overwritten(old))
      BY <2>1, <3>2, OverwrittenType
    <3> QED BY <2>2, <2>3, <3>1, <3>3
  <2> QED BY <2>1, <2>2, <2>3
<1> QED BY <1>1, <1>2, <1>3

LEMMA BufferInit == Init => Buffer!Init
<1> SUFFICES ASSUME Init PROVE Buffer!Init
  OBVIOUS
<1>1. IInv /\ file_offset = 0 /\ damaged = FALSE
  BY InitInv DEF Init
<1>2. Text \in Seq(Chars)
  BY <1>1, TextType
<1> QED BY <1>1, <1>2 DEF Buffer!Init

-----------------------------------------------------------------------------
(* Theorems                                                                *)

\* The inductive invariant of text_editor()'s loop.
THEOREM Invariant == Spec => []IInv
<1>1. Init => IInv
  BY InitInv
<1>2. IInv /\ [Next]_vars => IInv'
  BY NextInv
<1> QED BY <1>1, <1>2, PTL DEF Spec

\* The editor's unsigned counts stay within their 32 bits, also in the step
\* that damages them, and what it writes to the file is characters.
THEOREM TypeCorrect == Spec => []TypeOK
<1>1. IInv => TypeOK
  BY DEF IInv
<1> QED BY <1>1, Invariant, PTL

\* For texts and sessions of any length: the counts of bytes and lines are
\* those of the text, and file_offset, cursor_x, cursor_y and the length of the
\* line are those of one place in it, until a key of Damages.
THEOREM CountsInStep == Spec => []InStep
<1>1. IInv => InStep
  <2> SUFFICES ASSUME IInv, ~damaged
               PROVE  InStep
    BY DEF InStep
  <2> DEFINE s == LineStart
             n == file_length_bytes
             p == file_offset
             b == Max({q + 1 : q \in Newlines(0, p)} \cup {0})
             d == Min(Newlines(p, n) \cup {n})
  <2>1. /\ n \in Nat /\ n <= MaxText /\ p \in Nat /\ p <= n
        /\ Begins(bytes, s, p)
        /\ file_length_lines = Count(bytes, 0, n) /\ cursor_y = Count(bytes, 0, p)
        /\ \E e \in p .. n : /\ Ends(bytes, n, p, e)
                             /\ current_line_length \in {e - s, e - s + 1}
        /\ current_line_length \in Nat /\ s \in Nat
    <3> HIDE DEF s
    <3> QED BY Here DEF s
  <2>2. p \in Positions /\ n \in 0 .. MaxText /\ p \in 0 .. n
    BY <2>1, Bounds
  <2>3. \A lo, hi : Newlines(lo, hi) = NewlinesIn(bytes, lo, hi)
    BY DEF Newlines, NewlinesIn
  <2>4. Begins(bytes, b, p)
    BY <2>2, <2>3, LineBegins
  <2>5. Ends(bytes, n, p, d)
    BY <2>2, <2>3, LineEnds
  <2> HIDE DEF s, n, p, b, d
  <2>6. s = b
    BY <2>1, <2>2, <2>4, OneBegin
  <2>7. PICK e \in p .. n : /\ Ends(bytes, n, p, e)
                            /\ current_line_length \in {e - s, e - s + 1}
    BY <2>1
  <2>8. d = e
    BY <2>2, <2>5, <2>7, OneEnd
  <2>9. current_line_length - (d - s) \in {0, 1}
    BY <2>1, <2>7, <2>8
  <2> QED BY <2>1, <2>3, <2>6, <2>9 DEF InStep, Count, s, n, p, b, d
<1> QED BY <1>1, Invariant, PTL

\* Whatever the keys, as long as none of Damages comes, each of them inserts or
\* removes one character at the place or moves the place within the text: the
\* copying in text_editor() changes, loses and repeats no other part of it.
THEOREM ImplementsBuffer == Spec => BufferSpec
<1>1. Init => Buffer!Init
  BY BufferInit
<1>2. IInv /\ IInv' /\ [Next]_vars => [Buffer!Next]_<<Text, file_offset, damaged>>
  BY BufferStep
<1> QED BY <1>1, <1>2, Invariant, PTL DEF Spec, BufferSpec, Buffer!Spec

\* Every change of the text sets the mark of unsaved changes, and it goes away
\* only when the file begins with the whole text or has got a new name.
THEOREM MarkIsKept == Spec => MarkFollowsText
<1> DEFINE A == ~damaged' =>
                   /\ Text' # Text => unsaved'
                   /\ unsaved /\ ~unsaved' => key' = "ctrl-c" \/ IsPrefix(Text', disk')
<1>1. IInv /\ IInv' /\ [Next]_vars => [A]_vars
  BY MarkStep
<1> QED BY <1>1, Invariant, PTL DEF Spec, MarkFollowsText
=============================================================================
