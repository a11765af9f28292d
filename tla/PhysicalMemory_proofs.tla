----------------------- MODULE PhysicalMemory_proofs -----------------------
(***************************************************************************)
(* Theorems about the physical memory manager, for every machine whose     *)
(* constants satisfy SizesAssumption and RequestsAssumption; that the      *)
(* count moves with the map, if AreasFit and CountFits as well.            *)
(***************************************************************************)
EXTENDS PhysicalMemory, FiniteSetTheorems, TLAPS

\* Remainders, as the map's index arithmetic uses them.
LEMMA Remainder ==
    ASSUME NEW a \in Int, NEW n \in Nat \ {0}
    PROVE  /\ a % n \in 0 .. (n - 1)
           /\ a \in Nat => a % n <= a
           /\ a \in Nat /\ a < n => a % n = a
OBVIOUS

\* The counter is a 32-bit unsigned: what U32 computes is in range.
LEMMA U32Range ==
    ASSUME NEW x \in Int
    PROVE  U32(x) \in 0 .. (CountModulus - 1)
BY Remainder, SizesAssumption DEF U32

\* The bytes of the map that memset() fills end inside the map.
LEMMA FilledRange == FilledBits \in Int /\ FilledBits \in 0 .. MaxBlocks
<1>1. MaxBlocks \in Int /\ MaxBlocks \in Nat /\ BlocksPerByte \in Nat \ {0}
  BY SizesAssumption
<1>2. MaxBlocks % BlocksPerByte \in 0 .. MaxBlocks
  BY <1>1, Remainder
<1> QED BY <1>1, <1>2 DEF FilledBits

\* A run of at most WordBits + 1 blocks never needs a third word, so the bit
\* find_first_free_blocks() tests for its c-th block is the bit of that block.
LEMMA TestedBit ==
    ASSUME NEW b \in Nat, NEW c \in 0 .. WordBits
    PROVE  BitTested(b, c) = b + c
<1> DEFINE j == b % WordBits
<1>0. WordBits \in Nat \ {0}
  BY SizesAssumption
<1>1. j \in 0 .. (WordBits - 1)
  BY <1>0, Remainder
<1>2. CASE j + c >= WordBits
  <2>1. j + c - WordBits \in 0 .. (WordBits - 1)
    BY <1>0, <1>1, <1>2
  <2> HIDE DEF j
  <2>2. (j + c - WordBits) % WordBits = j + c - WordBits
    <3>1. \A k \in Nat : k < WordBits => k % WordBits = k
      BY <1>0, Remainder
    <3> QED BY <1>0, <2>1, <3>1
  <2>3. BitTested(b, c) = (b - j) + WordBits + (j + c - WordBits)
    BY <1>2, <2>2 DEF BitTested, j
  <2> QED BY <1>0, <1>1, <2>3
<1>3. CASE ~(j + c >= WordBits)
  BY <1>3 DEF BitTested
<1> QED BY <1>2, <1>3

\* What allocate_blocks() marks is a run of blocks that were all free.
LEMMA RunIsFree ==
    ASSUME NEW n \in 1 .. (WordBits + 1), NEW b \in FirstFree(n)
    PROVE  /\ b \in Blocks
           /\ Area(b, n) \cap memory_map = {}
<1>1. b \in Blocks /\ b \in Nat
  BY SizesAssumption DEF FirstFree, FreeStarts, Scanned, Blocks
<1>2. ASSUME NEW f \in Area(b, n) PROVE f \notin memory_map
  <2>1. f - b \in 0 .. (n - 1) /\ f - b \in 0 .. WordBits
    BY <1>1, SizesAssumption DEF Area, Blocks
  <2>2. BitTested(b, f - b) = f
    BY <1>1, <2>1, TestedBit, SizesAssumption DEF Area, Blocks
  <2> QED BY <2>1, <2>2 DEF FirstFree, FreeStarts
<1> QED BY <1>1, <1>2

-----------------------------------------------------------------------------
\* The strengthening that makes the properties inductive: a held block is
\* marked, held once, and none of the areas boot has reserved so far is free
\* or held.
Reserved(p) ==
    IF p \in {"manager", "regions"} THEN {}
    ELSE IF p = "map" THEN Area(0, OSBlocks)
    ELSE IF p = "font" THEN Area(0, OSBlocks) \cup Area(MapBase, MapBytes \div BlockSize)
    ELSE SystemAreas

HeldMarked == \A b \in Blocks : holders[b] > 0 => b \in memory_map

NothingHeldYet == pc \in {"manager", "regions", "map", "font"} =>
                    \A b \in Blocks : holders[b] = 0

ReservedKept == /\ Reserved(pc) \subseteq memory_map
                /\ \A b \in Reserved(pc) : holders[b] = 0

IInv == TypeOK /\ NoBlockTwice /\ HeldMarked /\ NothingHeldYet /\ ReservedKept

-----------------------------------------------------------------------------
\* Type correctness, on its own.
LEMMA TypeInit == Init => TypeOK
<1>1. FilledBits \in 0 .. MaxBlocks
  BY FilledRange
<1>2. FilledBits .. LastBit \subseteq Blocks
  BY <1>1, SizesAssumption DEF Blocks
<1> QED BY <1>2, SizesAssumption DEF Init, TypeOK

LEMMA GrantedType ==
    ASSUME NEW n \in Nat, TypeOK, Granted(n)
    PROVE  /\ memory_map' \in SUBSET Blocks
           /\ used_blocks' \in 0 .. (CountModulus - 1)
           /\ holders' \in [Blocks -> Nat]
<1>1. used_blocks \in Int
  BY SizesAssumption DEF TypeOK
<1>2. used_blocks' \in 0 .. (CountModulus - 1)
  BY <1>1, U32Range DEF Granted
<1>3. memory_map' \in SUBSET Blocks /\ holders' \in [Blocks -> Nat]
  BY DEF Granted, TypeOK, Area
<1> QED BY <1>2, <1>3

LEMMA ReserveType ==
    ASSUME NEW f, NEW n \in Nat, TypeOK, Reserve(f, n)
    PROVE  /\ memory_map' \in SUBSET Blocks
           /\ used_blocks' \in 0 .. (CountModulus - 1)
<1>1. used_blocks \in Int
  BY SizesAssumption DEF TypeOK
<1> QED BY <1>1, U32Range DEF Reserve, TypeOK, Area

LEMMA TypeStep == TypeOK /\ [Next]_vars => TypeOK'
<1> SUFFICES ASSUME TypeOK, [Next]_vars PROVE TypeOK'
  OBVIOUS
<1>0. used_blocks \in Int /\ turn \in Nat \ {0}
  BY SizesAssumption DEF TypeOK
<1>1. CASE initialize_memory_manager
  BY <1>1, SizesAssumption DEF initialize_memory_manager, TypeOK, Area
<1>2. CASE initialize_memory_region
  <2>1. bios_map[turn] \in Nat \X Nat
    BY <1>0, <1>2, SizesAssumption DEF initialize_memory_region, TypeOK
  <2>2. used_blocks' \in 0 .. (CountModulus - 1)
    <3>1. bios_map[turn][2] \in Nat
      BY <2>1
    <3>2. used_blocks - bios_map[turn][2] \in Int
      BY <1>0, <3>1
    <3> QED BY <1>2, <3>2, U32Range DEF initialize_memory_region
  <2>3. 0 \in Blocks
    BY SizesAssumption DEF Blocks
  <2> QED BY <1>2, <2>2, <2>3 DEF initialize_memory_region, TypeOK
<1>3. CASE ReserveOS
  <2>1. OSBlocks \in Nat /\ Reserve(0, OSBlocks)
    BY <1>3, SizesAssumption DEF ReserveOS
  <2>2. memory_map' \in SUBSET Blocks /\ used_blocks' \in 0 .. (CountModulus - 1)
    BY <2>1, ReserveType
  <2> QED BY <1>3, <2>2 DEF ReserveOS, TypeOK
<1>4. CASE ReserveMap
  BY <1>4, ReserveType, SizesAssumption DEF ReserveMap, TypeOK
<1>5. CASE ReserveFont
  BY <1>5, ReserveType, SizesAssumption DEF ReserveFont, TypeOK
<1>6. CASE initialize_virtual_memory_manager
  <2>1. BootRequest[pc] \in Nat /\ AfterRequest[pc] \in {"table3G", "directory", "framebuffer"}
    BY <1>6 DEF initialize_virtual_memory_manager, BootRequest, AfterRequest
  <2>2. CASE Granted(BootRequest[pc])
    BY <1>6, <2>1, <2>2, GrantedType DEF initialize_virtual_memory_manager, TypeOK
  <2>3. CASE Refused(BootRequest[pc])
    BY <1>6, <2>1, <2>3 DEF initialize_virtual_memory_manager, TypeOK, Refused
  <2> QED BY <1>6, <2>2, <2>3 DEF initialize_virtual_memory_manager
<1>7. CASE MapFramebuffer
  BY <1>7, GrantedType DEF MapFramebuffer, TypeOK, Refused
<1>8. CASE ReserveFramebuffer
  BY <1>8, ReserveType, SizesAssumption DEF ReserveFramebuffer, TypeOK
<1>9. ASSUME NEW n \in Requests, allocate_blocks(n) PROVE TypeOK'
  BY <1>9, GrantedType, RequestsAssumption DEF allocate_blocks, TypeOK, Refused
<1>10. ASSUME NEW b \in Blocks, free_blocks(b) PROVE TypeOK'
  BY <1>0, <1>10, U32Range DEF free_blocks, TypeOK
<1>11. CASE UNCHANGED vars
  BY <1>11 DEF vars, TypeOK
<1> QED BY <1>1, <1>2, <1>3, <1>4, <1>5, <1>6, <1>7, <1>8, <1>9, <1>10, <1>11 DEF Next, Boot

\* The manager's state has its type on every machine: in particular the count
\* stays a 32-bit unsigned and no step sets a bit outside the modelled memory.
THEOREM TypeCorrect == Spec => []TypeOK
BY TypeInit, TypeStep, PTL DEF Spec

-----------------------------------------------------------------------------
\* A grant keeps the inductive invariant: its blocks were free, so they were
\* neither held nor reserved.
LEMMA GrantedKeeps ==
    ASSUME NEW n \in 1 .. (WordBits + 1), IInv, Granted(n)
    PROVE  /\ NoBlockTwice' /\ HeldMarked'
           /\ Reserved(pc) \subseteq memory_map'
           /\ \A b \in Reserved(pc) : holders'[b] = 0
<1>1. PICK s \in FirstFree(n) :
        /\ memory_map' = memory_map \cup Area(s, n)
        /\ holders' = [f \in Blocks |->
                          IF f \in Area(s, n) THEN holders[f] + 1 ELSE holders[f]]
  BY DEF Granted
<1>2. Area(s, n) \cap memory_map = {}
  BY RunIsFree
<1>3. \A f \in Blocks : f \in Area(s, n) => holders[f] = 0
  BY <1>2 DEF IInv, HeldMarked, TypeOK
<1>4. NoBlockTwice'
  BY <1>1, <1>3 DEF IInv, NoBlockTwice
<1>5. HeldMarked'
  BY <1>1 DEF IInv, HeldMarked
<1>6. Reserved(pc) \subseteq memory_map'
  BY <1>1 DEF IInv, ReservedKept
<1>7. \A b \in Reserved(pc) : b \in Blocks /\ b \notin Area(s, n)
  BY <1>2 DEF IInv, ReservedKept, TypeOK
<1>8. \A b \in Reserved(pc) : holders'[b] = 0
  BY <1>1, <1>7 DEF IInv, ReservedKept
<1> QED BY <1>4, <1>5, <1>6, <1>8

\* From the directory's allocation on, everything reserved is SystemAreas.
LEMMA ReservedLate ==
    ASSUME NEW p \in {"table", "table3G", "directory", "framebuffer", "run"}
    PROVE  Reserved(p) = SystemAreas
BY DEF Reserved

LEMMA IInvInit == Init => IInv
<1> SUFFICES ASSUME Init PROVE IInv
  OBVIOUS
<1> QED BY TypeInit DEF Init, IInv, NoBlockTwice, HeldMarked, NothingHeldYet, ReservedKept, Reserved

LEMMA IInvStep == IInv /\ [Next]_vars => IInv'
<1> SUFFICES ASSUME IInv, [Next]_vars PROVE IInv'
  OBVIOUS
<1>0. TypeOK' /\ TypeOK
  BY TypeStep DEF IInv
<1>a. 1 \in 1 .. (WordBits + 1) /\ 3 \in 1 .. (WordBits + 1)
  BY RequestsAssumption, SizesAssumption
<1> USE DEF IInv
<1>1. CASE initialize_memory_manager
  BY <1>0, <1>1 DEF initialize_memory_manager, NoBlockTwice, HeldMarked, NothingHeldYet,
                    ReservedKept, Reserved
<1>2. CASE initialize_memory_region
  BY <1>0, <1>2 DEF initialize_memory_region, NoBlockTwice, HeldMarked, NothingHeldYet,
                    ReservedKept, Reserved
<1>3. CASE ReserveOS
  BY <1>0, <1>3 DEF ReserveOS, Reserve, NoBlockTwice, HeldMarked, NothingHeldYet,
                    ReservedKept, Reserved, Area
<1>4. CASE ReserveMap
  <2>1. ReservedKept'
    BY <1>4 DEF ReserveMap, Reserve, NothingHeldYet, ReservedKept, Reserved, Area
  <2> QED BY <1>0, <1>4, <2>1 DEF ReserveMap, Reserve, NoBlockTwice, HeldMarked, NothingHeldYet
<1>5. CASE ReserveFont
  <2>1. ReservedKept'
    BY <1>5 DEF ReserveFont, Reserve, NothingHeldYet, ReservedKept, Reserved, SystemAreas, Area
  <2> QED BY <1>0, <1>5, <2>1 DEF ReserveFont, Reserve, NoBlockTwice, HeldMarked, NothingHeldYet
<1>6. CASE initialize_virtual_memory_manager
  <2>1. /\ pc \in {"table", "table3G", "directory"}
        /\ pc' \in {"table3G", "directory", "framebuffer"}
        /\ BootRequest[pc] \in 1 .. (WordBits + 1)
    BY <1>6, <1>a DEF initialize_virtual_memory_manager, BootRequest, AfterRequest
  <2>2. Reserved(pc) = SystemAreas /\ Reserved(pc)' = SystemAreas
    BY <2>1, ReservedLate DEF Reserved
  <2>3. CASE Granted(BootRequest[pc])
    <3>1. NoBlockTwice' /\ HeldMarked' /\ ReservedKept'
      BY <2>1, <2>2, <2>3, GrantedKeeps DEF ReservedKept
    <3> QED BY <1>0, <2>1, <3>1 DEF NothingHeldYet
  <2>4. CASE Refused(BootRequest[pc])
    BY <1>0, <2>1, <2>2, <2>4 DEF Refused, NoBlockTwice, HeldMarked, NothingHeldYet, ReservedKept
  <2> QED BY <1>6, <2>3, <2>4 DEF initialize_virtual_memory_manager
<1>7. CASE MapFramebuffer
  <2>1. pc = "framebuffer" /\ pc' = pc
    BY <1>7 DEF MapFramebuffer
  <2>2. Reserved(pc)' = Reserved(pc)
    BY <2>1
  <2>3. CASE Granted(1)
    BY <1>0, <1>a, <2>1, <2>2, <2>3, GrantedKeeps DEF NothingHeldYet, ReservedKept
  <2>4. CASE Refused(1)
    BY <1>0, <2>1, <2>2, <2>4 DEF Refused, NoBlockTwice, HeldMarked, NothingHeldYet, ReservedKept
  <2> QED BY <1>7, <2>3, <2>4 DEF MapFramebuffer
<1>8. CASE ReserveFramebuffer
  <2>1. Reserved(pc) = SystemAreas /\ Reserved(pc)' = SystemAreas
    BY <1>8, ReservedLate DEF ReserveFramebuffer, Reserved
  <2> QED BY <1>0, <1>8, <2>1 DEF ReserveFramebuffer, Reserve, NoBlockTwice, HeldMarked,
                                  NothingHeldYet, ReservedKept
<1>9. ASSUME NEW n \in Requests, allocate_blocks(n) PROVE IInv'
  <2>1. n \in 1 .. (WordBits + 1) /\ pc = "run" /\ pc' = pc
    BY <1>9, RequestsAssumption DEF allocate_blocks
  <2>2. Reserved(pc)' = Reserved(pc)
    BY <2>1
  <2>3. CASE Granted(n)
    BY <1>0, <2>1, <2>2, <2>3, GrantedKeeps DEF NothingHeldYet, ReservedKept
  <2>4. CASE Refused(n)
    BY <1>0, <2>1, <2>2, <2>4 DEF Refused, NoBlockTwice, HeldMarked, NothingHeldYet, ReservedKept
  <2> QED BY <1>9, <2>3, <2>4 DEF allocate_blocks
<1>10. ASSUME NEW b \in Blocks, free_blocks(b) PROVE IInv'
  <2>1. pc' = pc /\ pc = "run" /\ Reserved(pc)' = Reserved(pc) /\ b \notin Reserved(pc)
    BY <1>10 DEF free_blocks, ReservedKept
  <2>2. NoBlockTwice' /\ HeldMarked'
    BY <1>0, <1>10 DEF free_blocks, NoBlockTwice, HeldMarked, TypeOK
  <2>3. \A d \in Reserved(pc) : d \in Blocks
    BY <1>0 DEF ReservedKept, TypeOK
  <2>4. ReservedKept'
    BY <1>0, <1>10, <2>1, <2>3 DEF free_blocks, ReservedKept, TypeOK
  <2> QED BY <1>0, <2>1, <2>2, <2>4 DEF NothingHeldYet
<1>11. CASE UNCHANGED vars
  BY <1>0, <1>11 DEF vars, NoBlockTwice, HeldMarked, NothingHeldYet, ReservedKept, Reserved
<1> QED BY <1>1, <1>2, <1>3, <1>4, <1>5, <1>6, <1>7, <1>8, <1>9, <1>10, <1>11 DEF Next, Boot

\* allocate_blocks() never hands out a block somebody still holds, on any
\* machine and after any history of allocations and frees.
THEOREM NoBlockHeldTwice == Spec => []NoBlockTwice
<1>1. IInv => NoBlockTwice
  BY DEF IInv
<1> QED BY <1>1, IInvInit, IInvStep, PTL DEF Spec

\* Once the kernel runs, no history of allocations and frees reaches a block
\* that boot reserved below 12000h, for the map, or for the font.
THEOREM SystemAreasReserved == Spec => []SystemAreasKept
<1>1. IInv => SystemAreasKept
  BY ReservedLate DEF IInv, ReservedKept, SystemAreasKept
<1> QED BY <1>1, IInvInit, IInvStep, PTL DEF Spec

-----------------------------------------------------------------------------
\* A grant of the manager is a grant of the pool: the run fits in memory and
\* none of its blocks is held.
LEMMA GrantIsGrant ==
    ASSUME NEW n \in 1 .. (WordBits + 1), IInv, Granted(n)
    PROVE  Pool!Next
<1>1. PICK s \in FirstFree(n) :
        /\ memory_map' = memory_map \cup Area(s, n)
        /\ holders' = [f \in Blocks |->
                          IF f \in Area(s, n) THEN holders[f] + 1 ELSE holders[f]]
  BY DEF Granted
<1>2. Area(s, n) \cap memory_map = {}
  BY RunIsFree
<1>3. s \in Nat /\ s < MaxBlocks - (MaxBlocks % WordBits) /\ n \in Nat
  BY SizesAssumption DEF FirstFree, FreeStarts, Scanned, Blocks
<1>4. MaxBlocks \in Nat /\ WordBits \in Nat \ {0} /\ MaxBlocks + WordBits <= LastBit /\ LastBit \in Nat
  BY SizesAssumption
<1>5. MaxBlocks % WordBits \in 0 .. (WordBits - 1)
  BY <1>4, Remainder
<1>6. s + n - 1 \in Blocks /\ s \in Blocks /\ s <= s + n - 1
  BY <1>3, <1>4, <1>5 DEF Blocks
<1>7. \A f \in s .. (s + n - 1) : f \in Blocks
  BY <1>3, <1>4, <1>6 DEF Blocks
<1>8. \A f \in Blocks : f \in Area(s, n) <=> f \in s .. (s + n - 1)
  BY <1>3 DEF Area, Blocks
<1>9. \A f \in Blocks : f \in Area(s, n) => holders[f] = 0
  BY <1>2 DEF IInv, HeldMarked, TypeOK
<1>10. holders' = [f \in Blocks |-> IF f \in s .. (s + n - 1) THEN 1 ELSE holders[f]]
  BY <1>1, <1>8, <1>9
<1>11. Pool!Grant(s, s + n - 1)
  BY <1>6, <1>7, <1>8, <1>9, <1>10 DEF Pool!Grant
<1> QED BY <1>6, <1>11 DEF Pool!Next

\* The bitmap manager implements the pool of blocks: every grant, in boot or
\* after it, is a run of blocks nobody holds, and nothing else changes who
\* holds what but the return of a block that is held.
THEOREM ImplementsPool == Spec => PoolSpec
<1>1. Init => Pool!Init
  BY DEF Init, Pool!Init
<1>2. IInv /\ [Next]_vars => [Pool!Next]_holders
  <2> SUFFICES ASSUME IInv, [Next]_vars, holders' # holders PROVE Pool!Next
    OBVIOUS
  <2>a. 1 \in 1 .. (WordBits + 1) /\ 3 \in 1 .. (WordBits + 1)
    BY RequestsAssumption, SizesAssumption
  <2>1. CASE initialize_virtual_memory_manager
    <3>1. Granted(BootRequest[pc])
      BY <2>1 DEF initialize_virtual_memory_manager, Refused
    <3>2. BootRequest[pc] \in 1 .. (WordBits + 1)
      BY <2>1, <2>a DEF initialize_virtual_memory_manager, BootRequest
    <3> QED BY <3>1, <3>2, GrantIsGrant
  <2>2. CASE MapFramebuffer
    BY <2>2, <2>a, GrantIsGrant DEF MapFramebuffer, Refused
  <2>3. ASSUME NEW n \in Requests, allocate_blocks(n) PROVE Pool!Next
    BY <2>3, GrantIsGrant, RequestsAssumption DEF allocate_blocks, Refused
  <2>4. ASSUME NEW b \in Blocks, free_blocks(b) PROVE Pool!Next
    BY <2>4 DEF free_blocks, Pool!Next, Pool!Release
  <2> QED BY <2>1, <2>2, <2>3, <2>4 DEF Next, Boot, vars, initialize_memory_manager,
             initialize_memory_region, ReserveOS, ReserveMap, ReserveFont, ReserveFramebuffer
<1> QED BY <1>1, <1>2, IInvInit, IInvStep, PTL DEF Spec, PoolSpec, Pool!Spec
-----------------------------------------------------------------------------
(* That the count moves with the map                                       *)

\* The usable areas of a BIOS map are apart, below the end of its last entry and
\* with a hole under 1 MB; added up, they are no more than MaxBlocks.
AreasFit ==
    \A map \in BiosMaps : \E left \in [0 .. Len(map) -> 0 .. MaxBlocks] :
        left[0] = MaxBlocks /\ \A k \in 1 .. Len(map) : left[k] = left[k - 1] - map[k][2]

\* What boot has counted as reserved so far, twice what is in two areas.
Counted(p) ==
    IF p = "map" THEN OSBlocks
    ELSE IF p = "font" THEN OSBlocks + (MapBytes \div BlockSize)
    ELSE IF p = "run" THEN OSBlocks + (MapBytes \div BlockSize) + FontArea[2] + Framebuffer[2]
    ELSE OSBlocks + (MapBytes \div BlockSize) + FontArea[2]

\* A machine with 2^20 blocks is far from what a uint32_t counts.
CountFits == MaxBlocks + Counted("run") + LastBit + 1 < CountModulus

Taken == {b \in Blocks : holders[b] > 0}

\* The count never goes round: it is what the areas of the BIOS map leave, until
\* all are entered, and from then on at least the blocks that are held.
CountInv ==
    /\ pc = "manager" => turn = 1
    /\ pc = "regions" =>
           \E left \in [0 .. Len(bios_map) -> 0 .. MaxBlocks] :
               /\ \A k \in 1 .. Len(bios_map) : left[k] = left[k - 1] - bios_map[k][2]
               /\ turn \in 1 .. Len(bios_map) + 1 /\ used_blocks = left[turn - 1]
    /\ pc \notin {"manager", "regions"} =>
           used_blocks - Cardinality(Taken) \in 0 .. MaxBlocks + Counted(pc)

LEMMA BlocksFinite ==
    /\ IsFiniteSet(Blocks) /\ Cardinality(Blocks) = LastBit + 1
    /\ \A S \in SUBSET Blocks :
           IsFiniteSet(S) /\ Cardinality(S) \in Nat /\ Cardinality(S) <= LastBit + 1
<1>1. LastBit \in Nat /\ 0 \in Int /\ LastBit \in Int
  BY SizesAssumption
<1>2. IsFiniteSet(Blocks) /\ Cardinality(Blocks) = LastBit + 1
  BY <1>1, FS_Interval DEF Blocks
<1>3. ASSUME NEW S \in SUBSET Blocks
      PROVE  IsFiniteSet(S) /\ Cardinality(S) \in Nat /\ Cardinality(S) <= LastBit + 1
  BY <1>2, FS_Subset, FS_CardinalityType
<1> QED BY <1>2, <1>3

LEMMA SmallerThanModulus ==
    ASSUME NEW x \in Nat, x < CountModulus
    PROVE  U32(x) = x
<1>1. CountModulus \in Nat \ {0} /\ x \in Int
  BY SizesAssumption
<1>2. x % CountModulus = x
  BY <1>1, Remainder
<1> QED BY <1>2 DEF U32

\* The areas are numbers of blocks.
LEMMA CountedNat ==
    /\ OSBlocks \in Nat /\ (MapBytes \div BlockSize) \in Nat
    /\ FontArea[2] \in Nat /\ Framebuffer[2] \in Nat
    /\ \A p \in {"map", "font", "table", "table3G", "directory", "framebuffer", "run"} :
           Counted(p) \in Nat /\ Counted(p) <= Counted("run")
<1> DEFINE m == MapBytes \div BlockSize
<1>1. OSBlocks \in Nat /\ m \in Nat /\ FontArea[2] \in Nat /\ Framebuffer[2] \in Nat
  BY SizesAssumption
<1> HIDE DEF m
<1>2. ASSUME NEW p \in {"map", "font", "table", "table3G", "directory", "framebuffer", "run"}
      PROVE  Counted(p) \in Nat /\ Counted(p) <= Counted("run")
  <2>1. Counted("run") = OSBlocks + m + FontArea[2] + Framebuffer[2]
    BY DEF Counted, m
  <2>2. Counted(p) \in {OSBlocks, OSBlocks + m, OSBlocks + m + FontArea[2], Counted("run")}
    BY DEF Counted, m
  <2> QED BY <1>1, <2>1, <2>2
<1> QED BY <1>1, <1>2 DEF m

\* A grant adds as many blocks to the map as to what is held.
LEMMA GrantCounts ==
    ASSUME NEW n \in 1 .. (WordBits + 1), IInv, Granted(n)
    PROVE  /\ Cardinality(memory_map') = Cardinality(memory_map) + n
           /\ Cardinality(Taken') = Cardinality(Taken) + n
<1>1. PICK s \in FirstFree(n) :
        /\ memory_map' = memory_map \cup Area(s, n)
        /\ holders' = [f \in Blocks |->
                          IF f \in Area(s, n) THEN holders[f] + 1 ELSE holders[f]]
  BY DEF Granted
<1>2. Area(s, n) \cap memory_map = {}
  BY RunIsFree
<1>3. s \in Nat /\ s < MaxBlocks - (MaxBlocks % WordBits) /\ n \in Nat /\ n >= 1
  BY SizesAssumption DEF FirstFree, FreeStarts, Scanned, Blocks
<1>4. MaxBlocks \in Nat /\ WordBits \in Nat \ {0} /\ MaxBlocks + WordBits <= LastBit /\ LastBit \in Nat
  BY SizesAssumption
<1>5. MaxBlocks % WordBits \in 0 .. (WordBits - 1)
  BY <1>4, Remainder
<1>6. s + n - 1 <= LastBit
  BY <1>3, <1>4, <1>5
<1>7. Area(s, n) = s .. (s + n - 1)
  <2>1. \A f \in Int : f \in Area(s, n) <=> f \in s .. (s + n - 1)
    BY <1>3, <1>4, <1>6 DEF Area, Blocks
  <2>2. Area(s, n) \subseteq Int
    BY <1>4 DEF Area, Blocks
  <2>3. s .. (s + n - 1) \subseteq Int
    OBVIOUS
  <2> QED BY <2>1, <2>2, <2>3
<1>8. Cardinality(Area(s, n)) = n
  <2>1. s \in Int /\ s + n - 1 \in Int /\ ~(s > s + n - 1) /\ (s + n - 1) - s + 1 = n
    BY <1>3
  <2> QED BY <1>7, <2>1, FS_Interval
<1>9. Area(s, n) \subseteq Blocks /\ memory_map \subseteq Blocks /\ Taken \subseteq memory_map
  BY DEF Area, IInv, TypeOK, HeldMarked, Taken
<1>10. Taken' = Taken \cup Area(s, n)
  <2>1. \A f \in Blocks : holders[f] \in Nat
    BY DEF IInv, TypeOK
  <2> QED BY <1>1, <1>9, <2>1 DEF Taken
<1>11. ASSUME NEW S \in SUBSET Blocks, Area(s, n) \cap S = {}
       PROVE  Cardinality(S \cup Area(s, n)) = Cardinality(S) + n
  <2>1. IsFiniteSet(S) /\ IsFiniteSet(Area(s, n)) /\ Cardinality(S) \in Nat
    BY <1>9, BlocksFinite
  <2>2. S \cap Area(s, n) = {}
    BY <1>11
  <2>3. Cardinality(S \cup Area(s, n)) = Cardinality(S) + Cardinality(Area(s, n)) - 0
    BY <2>1, <2>2, FS_Union, FS_EmptySet
  <2> QED BY <1>3, <1>8, <2>1, <2>3
<1> QED BY <1>1, <1>2, <1>9, <1>10, <1>11

LEMMA FreeCounts ==
    ASSUME IInv, NEW b \in Blocks, free_blocks(b)
    PROVE  /\ Cardinality(memory_map') = Cardinality(memory_map) - 1
           /\ Cardinality(Taken') = Cardinality(Taken) - 1
           /\ Cardinality(Taken) >= 1
<1>1. b \in memory_map /\ b \in Taken /\ memory_map \subseteq Blocks /\ Taken \subseteq Blocks
  BY DEF free_blocks, IInv, HeldMarked, TypeOK, Taken
<1>2. Taken' = Taken \ {b}
  BY DEF IInv, TypeOK, NoBlockTwice, free_blocks, Taken
<1>3. IsFiniteSet(memory_map) /\ IsFiniteSet(Taken)
  BY <1>1, BlocksFinite
<1>4. Cardinality(Taken) \in Nat /\ Cardinality(Taken) # 0
  BY <1>1, <1>3, BlocksFinite, FS_EmptySet
<1>5. memory_map' = memory_map \ {b}
  BY DEF free_blocks
<1>6. /\ Cardinality(memory_map \ {b}) = Cardinality(memory_map) - 1
      /\ Cardinality(Taken \ {b}) = Cardinality(Taken) - 1
  BY <1>1, <1>3, FS_RemoveElement
<1>7. Cardinality(Taken) >= 1
  BY <1>4
<1> QED BY <1>2, <1>5, <1>6, <1>7

\* A grant leaves what is counted besides the blocks held as it was.
LEMMA GrantKeepsCount ==
    ASSUME CountFits, IInv, CountInv, pc \notin {"manager", "regions"},
           NEW n \in 1 .. (WordBits + 1), Granted(n)
    PROVE  /\ used_blocks' = used_blocks + n
           /\ used_blocks' - Cardinality(Taken') = used_blocks - Cardinality(Taken)
<1> DEFINE held == Cardinality(Taken)
           more == Cardinality(Taken')
           room == MaxBlocks + Counted(pc)
           all == MaxBlocks + Counted("run")
<1>1. held \in Nat
  BY BlocksFinite DEF Taken
<1>2. more \in Nat /\ more <= LastBit + 1
  <2>1. Taken' \in SUBSET Blocks
    BY DEF Taken
  <2> QED BY <2>1, BlocksFinite
<1>3. more = held + n
  BY GrantCounts
<1>4. used_blocks - held \in 0 .. room
  BY DEF CountInv
<1>5. /\ MaxBlocks \in Nat /\ LastBit \in Nat /\ CountModulus \in Nat
      /\ used_blocks \in Nat /\ n \in Nat
  BY SizesAssumption DEF IInv, TypeOK
<1>6. Counted(pc) \in Nat /\ Counted(pc) <= Counted("run") /\ Counted("run") \in Nat
  BY CountedNat DEF IInv, TypeOK
<1>7. room \in Nat /\ all \in Nat /\ room <= all
  BY <1>5, <1>6
<1>8. all + LastBit + 1 < CountModulus
  BY DEF CountFits
<1> HIDE DEF held, more, room, all
<1>9. used_blocks + n \in Nat /\ used_blocks + n < CountModulus
  BY <1>1, <1>2, <1>3, <1>4, <1>5, <1>7, <1>8
<1>10. used_blocks' = used_blocks + n
  <2>1. used_blocks' = U32(used_blocks + n)
    BY DEF Granted
  <2> QED BY <1>9, <2>1, SmallerThanModulus
<1>11. used_blocks' - more = used_blocks - held
  BY <1>1, <1>3, <1>5, <1>10
<1> QED BY <1>10, <1>11 DEF held, more

\* So does a block that is given back.
LEMMA FreeKeepsCount ==
    ASSUME IInv, CountInv, pc \notin {"manager", "regions"}, NEW b \in Blocks, free_blocks(b)
    PROVE  /\ used_blocks' = used_blocks - 1
           /\ used_blocks' - Cardinality(Taken') = used_blocks - Cardinality(Taken)
<1> DEFINE held == Cardinality(Taken)
           less == Cardinality(Taken')
           room == MaxBlocks + Counted(pc)
<1>1. held \in Nat /\ held >= 1
  BY BlocksFinite, FreeCounts DEF Taken
<1>2. less = held - 1
  BY FreeCounts
<1>3. used_blocks - held \in 0 .. room
  BY DEF CountInv
<1>4. used_blocks \in Nat /\ used_blocks < CountModulus /\ CountModulus \in Nat
  BY SizesAssumption DEF IInv, TypeOK
<1> HIDE DEF held, less, room
<1>5. used_blocks - 1 \in Nat /\ used_blocks - 1 < CountModulus
  BY <1>1, <1>3, <1>4
<1>6. used_blocks' = used_blocks - 1
  <2>1. used_blocks' = U32(used_blocks - 1)
    BY DEF free_blocks
  <2> QED BY <1>5, <2>1, SmallerThanModulus
<1>7. used_blocks' - less = used_blocks - held
  BY <1>1, <1>2, <1>4, <1>6
<1> QED BY <1>6, <1>7 DEF held, less

\* An area that boot reserves is counted in full, whatever of it was set.
LEMMA ReserveKeepsCount ==
    ASSUME CountFits, TypeOK, NEW x \in Nat, NEW n \in Nat, NEW f, NEW old, NEW new,
           used_blocks - x \in 0 .. MaxBlocks + old, x <= LastBit + 1,
           old \in Nat, new = old + n, new <= Counted("run"), Reserve(f, n)
    PROVE  used_blocks' - x \in 0 .. MaxBlocks + new
<1> DEFINE all == MaxBlocks + Counted("run")
<1>1. /\ MaxBlocks \in Nat /\ LastBit \in Nat /\ CountModulus \in Nat
      /\ used_blocks \in Nat
  BY SizesAssumption DEF TypeOK
<1>2. Counted("run") \in Nat
  BY CountedNat
<1>3. all \in Nat /\ MaxBlocks + new <= all /\ all + LastBit + 1 < CountModulus
  BY <1>1, <1>2 DEF CountFits
<1> HIDE DEF all
<1>4. used_blocks + n \in Nat /\ used_blocks + n < CountModulus
  BY <1>1, <1>3
<1>5. used_blocks' = used_blocks + n
  <2>1. used_blocks' = U32(used_blocks + n)
    BY DEF Reserve
  <2> QED BY <1>4, <2>1, SmallerThanModulus
<1> QED BY <1>1, <1>5

\* While nothing is held, no block is taken.
LEMMA NothingTaken ==
    ASSUME IInv, pc \in {"manager", "regions", "map", "font"}
    PROVE  Taken = {} /\ Cardinality(Taken) = 0
<1>1. Taken = {}
  BY DEF IInv, NothingHeldYet, Taken
<1> QED BY <1>1, FS_EmptySet

LEMMA CountInit == Init => CountInv
BY DEF Init, CountInv

LEMMA CountStep ==
    ASSUME AreasFit, CountFits, IInv, CountInv, [Next]_vars
    PROVE  CountInv'
<1> DEFINE m == MapBytes \div BlockSize
<1>1. TypeOK /\ MaxBlocks \in Nat /\ LastBit \in Nat /\ used_blocks \in Nat
  BY SizesAssumption DEF IInv, TypeOK
<1>2. /\ OSBlocks \in Nat /\ m \in Nat /\ FontArea[2] \in Nat /\ Framebuffer[2] \in Nat
      /\ \A p \in {"map", "font", "table", "table3G", "directory", "framebuffer", "run"} :
             Counted(p) \in Nat /\ Counted(p) <= Counted("run")
  BY CountedNat
<1>3. /\ Counted("map") = OSBlocks /\ Counted("font") = OSBlocks + m
      /\ \A p \in {"table", "table3G", "directory", "framebuffer"} :
             Counted(p) = OSBlocks + m + FontArea[2]
      /\ Counted("run") = OSBlocks + m + FontArea[2] + Framebuffer[2]
  BY DEF Counted
<1> HIDE DEF m
<1>4. CASE initialize_memory_manager
  <2>1. turn' = 1 /\ used_blocks' = MaxBlocks /\ pc' = "regions" /\ bios_map' = bios_map
    BY <1>4 DEF initialize_memory_manager, CountInv
  <2>2. bios_map \in BiosMaps /\ Len(bios_map) \in Nat
    BY <1>1, SizesAssumption DEF TypeOK
  <2>3. PICK left \in [0 .. Len(bios_map) -> 0 .. MaxBlocks] :
            left[0] = MaxBlocks
            /\ \A k \in 1 .. Len(bios_map) : left[k] = left[k - 1] - bios_map[k][2]
    BY <2>2 DEF AreasFit
  <2>4. turn' \in 1 .. Len(bios_map) + 1 /\ turn' - 1 = 0
    BY <2>1, <2>2
  <2> QED BY <2>1, <2>3, <2>4 DEF CountInv
<1>5. CASE initialize_memory_region
  <2>1. /\ pc = "regions" /\ pc' = pc /\ bios_map' = bios_map
        /\ turn <= Len(bios_map) /\ turn' = turn + 1
        /\ used_blocks' = U32(used_blocks - bios_map[turn][2])
    BY <1>5 DEF initialize_memory_region
  <2>2. PICK left \in [0 .. Len(bios_map) -> 0 .. MaxBlocks] :
            /\ \A k \in 1 .. Len(bios_map) : left[k] = left[k - 1] - bios_map[k][2]
            /\ turn \in 1 .. Len(bios_map) + 1 /\ used_blocks = left[turn - 1]
    BY <2>1 DEF CountInv
  <2>3. Len(bios_map) \in Nat
    BY <1>1, SizesAssumption DEF TypeOK
  <2>4. turn \in 1 .. Len(bios_map) /\ turn \in 0 .. Len(bios_map) /\ turn' - 1 = turn
        /\ turn' \in 1 .. Len(bios_map) + 1
    BY <2>1, <2>2, <2>3
  <2>5. left[turn] = used_blocks - bios_map[turn][2] /\ left[turn] \in 0 .. MaxBlocks
    BY <2>2, <2>4
  <2>6. left[turn] \in Nat /\ left[turn] < CountModulus
    BY <2>5, SizesAssumption
  <2>7. used_blocks' = left[turn' - 1]
    BY <2>1, <2>4, <2>5, <2>6, SmallerThanModulus
  <2> QED BY <2>1, <2>2, <2>4, <2>7 DEF CountInv
<1>6. CASE ReserveOS
  <2>1. /\ pc = "regions" /\ pc' = "map" /\ Reserve(0, OSBlocks) /\ Taken' = Taken
        /\ turn > Len(bios_map)
    BY <1>6 DEF ReserveOS, Taken
  <2>2. PICK left \in [0 .. Len(bios_map) -> 0 .. MaxBlocks] :
            turn \in 1 .. Len(bios_map) + 1 /\ used_blocks = left[turn - 1]
    BY <2>1 DEF CountInv
  <2>3. Len(bios_map) \in Nat
    BY <1>1, SizesAssumption DEF TypeOK
  <2>4. turn - 1 \in 0 .. Len(bios_map)
    BY <2>2, <2>3
  <2>5. used_blocks \in 0 .. MaxBlocks
    BY <2>2, <2>4
  <2>6. Counted("map") = 0 + OSBlocks
    BY <1>2, <1>3
  <2>7. used_blocks' - 0 \in 0 .. MaxBlocks + Counted("map")
    <3> DEFINE none == 0
    <3>1. /\ none \in Nat /\ none <= LastBit + 1 /\ Counted("map") = none + OSBlocks
          /\ used_blocks - none \in 0 .. MaxBlocks + none /\ Counted("map") <= Counted("run")
      BY <1>1, <1>2, <2>5, <2>6
    <3> HIDE DEF none
    <3>2. used_blocks' - none \in 0 .. MaxBlocks + Counted("map")
      BY <1>1, <1>2, <2>1, <3>1, ReserveKeepsCount
    <3> QED BY <3>2 DEF none
  <2>8. Cardinality(Taken') = 0
    BY <2>1, NothingTaken
  <2> QED BY <2>1, <2>7, <2>8 DEF CountInv
<1>7. CASE ReserveMap
  <2>1. pc = "map" /\ pc' = "font" /\ Reserve(MapBase, m) /\ Taken' = Taken
    BY <1>7 DEF ReserveMap, Taken, m
  <2>2. Cardinality(Taken) = 0
    BY <2>1, NothingTaken
  <2>3. used_blocks - 0 \in 0 .. MaxBlocks + Counted("map")
    BY <2>1, <2>2 DEF CountInv
  <2>4. Counted("font") = Counted("map") + m
    BY <1>3
  <2>5. used_blocks' - 0 \in 0 .. MaxBlocks + Counted("font")
    BY <1>1, <1>2, <2>1, <2>3, <2>4, ReserveKeepsCount
  <2> QED BY <2>1, <2>2, <2>5 DEF CountInv
<1>8. CASE ReserveFont
  <2>1. pc = "font" /\ pc' = "table" /\ Reserve(FontArea[1], FontArea[2]) /\ Taken' = Taken
    BY <1>8 DEF ReserveFont, Taken
  <2>2. Cardinality(Taken) = 0
    BY <2>1, NothingTaken
  <2>3. used_blocks - 0 \in 0 .. MaxBlocks + Counted("font")
    BY <2>1, <2>2 DEF CountInv
  <2>4. Counted("table") = Counted("font") + FontArea[2]
    BY <1>3
  <2>5. used_blocks' - 0 \in 0 .. MaxBlocks + Counted("table")
    BY <1>1, <1>2, <2>1, <2>3, <2>4, ReserveKeepsCount
  <2> QED BY <2>1, <2>2, <2>5 DEF CountInv
<1>9. CASE ReserveFramebuffer
  <2> DEFINE held == Cardinality(Taken)
  <2>1. /\ pc = "framebuffer" /\ pc' = "run" /\ Reserve(Framebuffer[1], Framebuffer[2])
        /\ Taken' = Taken
    BY <1>9 DEF ReserveFramebuffer, Taken
  <2>2. held \in Nat /\ held <= LastBit + 1
    BY BlocksFinite DEF Taken
  <2>3. used_blocks - held \in 0 .. MaxBlocks + Counted("framebuffer")
    BY <2>1 DEF CountInv
  <2>4. Counted("run") = Counted("framebuffer") + Framebuffer[2]
    BY <1>3
  <2> HIDE DEF held
  <2>5. used_blocks' - held \in 0 .. MaxBlocks + Counted("run")
    BY <1>1, <1>2, <2>1, <2>2, <2>3, <2>4, ReserveKeepsCount
  <2> QED BY <2>1, <2>5 DEF CountInv, held
<1>10. ASSUME pc \in {"table", "table3G", "directory", "framebuffer", "run"},
              NEW n \in 1 .. (WordBits + 1), Granted(n) \/ Refused(n),
              pc' \in {"table", "table3G", "directory", "framebuffer", "run"},
              Counted(pc') = Counted(pc)
       PROVE  CountInv'
  <2>1. used_blocks' - Cardinality(Taken') = used_blocks - Cardinality(Taken)
    <3>1. CASE Granted(n)
      BY <1>10, <3>1, GrantKeepsCount
    <3>2. CASE Refused(n)
      BY <3>2 DEF Refused, Taken
    <3> QED BY <1>10, <3>1, <3>2
  <2>2. used_blocks - Cardinality(Taken) \in 0 .. MaxBlocks + Counted(pc')
    BY <1>10 DEF CountInv
  <2> QED BY <1>10, <2>1, <2>2 DEF CountInv
<1>11. 1 \in 1 .. (WordBits + 1) /\ 3 \in 1 .. (WordBits + 1)
  BY RequestsAssumption, SizesAssumption
<1>12. CASE initialize_virtual_memory_manager
  <2>1. /\ pc \in {"table", "table3G", "directory"}
        /\ pc' \in {"table3G", "directory", "framebuffer"}
        /\ BootRequest[pc] \in 1 .. (WordBits + 1)
        /\ Granted(BootRequest[pc]) \/ Refused(BootRequest[pc])
    BY <1>11, <1>12 DEF initialize_virtual_memory_manager, BootRequest, AfterRequest
  <2>2. Counted(pc') = Counted(pc)
    BY <1>3, <2>1
  <2> QED BY <1>10, <2>1, <2>2
<1>13. CASE MapFramebuffer
  BY <1>10, <1>11, <1>13 DEF MapFramebuffer
<1>14. ASSUME NEW n \in Requests, allocate_blocks(n)
       PROVE  CountInv'
  BY <1>10, <1>14, RequestsAssumption DEF allocate_blocks
<1>15. ASSUME NEW b \in Blocks, free_blocks(b)
       PROVE  CountInv'
  <2>1. pc = "run" /\ pc' = pc
    BY <1>15 DEF free_blocks
  <2>2. used_blocks' - Cardinality(Taken') = used_blocks - Cardinality(Taken)
    BY <1>15, <2>1, FreeKeepsCount
  <2> QED BY <2>1, <2>2 DEF CountInv
<1>16. CASE UNCHANGED vars
  <2>1. UNCHANGED <<bios_map, used_blocks, pc, turn>> /\ Taken' = Taken
    BY <1>16 DEF vars, Taken
  <2> QED BY <2>1 DEF CountInv
<1> QED BY <1>4, <1>5, <1>6, <1>7, <1>8, <1>9, <1>12, <1>13, <1>14, <1>15, <1>16 DEF Next, Boot

\* Once the kernel runs, the count moves with the bits of the map: neither
\* allocate_blocks() nor free_blocks() loses or invents a block, on a machine whose
\* usable areas are within its memory and whose blocks a uint32_t counts.
THEOREM CountMovesWithMap ==
    ASSUME AreasFit, CountFits
    PROVE  Spec => AccountingConserved
<1>1. ASSUME IInv, CountInv, pc = "run", [Next]_vars
      PROVE  Drift' = Drift
  <2> DEFINE set == Cardinality(memory_map)
             new == Cardinality(memory_map')
  <2>1. set \in Nat /\ used_blocks \in Nat
    BY <1>1, BlocksFinite, SizesAssumption DEF IInv, TypeOK
  <2>2. ASSUME NEW n \in Requests, Granted(n)
        PROVE  used_blocks' - new = used_blocks - set
    <3>1. n \in 1 .. (WordBits + 1) /\ n \in Nat
      BY RequestsAssumption, SizesAssumption
    <3>2. new = set + n /\ used_blocks' = used_blocks + n
      BY <1>1, <2>2, <3>1, GrantCounts, GrantKeepsCount
    <3> HIDE DEF set, new
    <3> QED BY <2>1, <3>1, <3>2
  <2>3. ASSUME NEW b \in Blocks, free_blocks(b)
        PROVE  used_blocks' - new = used_blocks - set
    <3>1. new = set - 1 /\ used_blocks' = used_blocks - 1
      BY <1>1, <2>3, FreeCounts, FreeKeepsCount
    <3> HIDE DEF set, new
    <3> QED BY <2>1, <3>1
  <2>4. CASE UNCHANGED <<memory_map, used_blocks>>
    BY <2>4 DEF Drift
  <2>5. CASE \E n \in Requests : allocate_blocks(n)
    BY <2>2, <2>4, <2>5 DEF allocate_blocks, Refused, Drift
  <2>6. CASE \E b \in Blocks : free_blocks(b)
    BY <2>3, <2>6 DEF Drift
  <2>7. ~Boot
    BY <1>1 DEF Boot, initialize_memory_manager, initialize_memory_region, ReserveOS, ReserveMap,
                ReserveFont, initialize_virtual_memory_manager, BootRequest, MapFramebuffer,
                ReserveFramebuffer
  <2> QED BY <1>1, <2>4, <2>5, <2>6, <2>7 DEF Next, vars
<1>2. IInv /\ CountInv /\ [Next]_vars => [pc = "run" => Drift' = Drift]_vars
  BY <1>1
<1>3. IInv /\ CountInv /\ [Next]_vars => CountInv'
  BY CountStep
<1> QED BY <1>2, <1>3, CountInit, IInvInit, IInvStep, PTL DEF Spec, AccountingConserved

=============================================================================
