-------------------------- MODULE FileSystem_proofs --------------------------
(***************************************************************************)
(* Theorems about the file system on disk, for every set of names, every   *)
(* size of a directory's block and of the disk, and wherever the machine   *)
(* stops.                                                                  *)
(***************************************************************************)
EXTENDS FileSystem, FiniteSetTheorems, TLAPS

-----------------------------------------------------------------------------
(* The inductive invariant                                                 *)

\* An inode that has no block but the first of its first extent.
Flat == {d \in Inodes : d.past = 0}

\* A name leads to no inode outside the bitmap, nor to the root directory; ".."
\* may lead to that.
Found == {e \in Entries : /\ e.name \in Names => e.id \in Ids \ {Root}
                          /\ e.name = ".." => e.id \in Ids}
Pages == [Slots -> Found]

Jobs == [call : Calls \cup {"none"}, name : Names \cup {NoName}, path : Paths,
         parent : Inodes, inode : Flat, dir : Flat, page : Pages]

Superblocks == [inode : Ids, data : Blocks]

\* Between GrowNextBlock and ClearNewBlock, which writes over the boot block, the
\* parent has a block more.
TypeInv ==
    /\ inode_bits \subseteq Ids /\ data_bits \subseteq 0 .. LastBlock + 1
    /\ inodes \in [Ids -> Flat] /\ entries \in [Blocks -> Pages]
    /\ superblock \in Superblocks /\ disk_superblock \in Superblocks
    /\ root_inode \in Flat /\ current_dir_inode \in Flat
    /\ job \in Jobs
    /\ overwritten = {} /\ pc # "clear" => job.parent.past = 0
    /\ overwritten \subseteq Blocks /\ created \in 0 .. MaxCreated
    /\ events \subseteq Calls \cup {"file as directory", "no slot"} \cup MadeAgain

\* Where the parent's inode is on disk, and in the kernel's copies still to come.
ParentWritten == {"entry", "rm parent bit"}
ParentRead == {"dot data", "dotdot", "dotdot data", "directory"}

\* Nobody has made the root directory again.
RootKept == "root made again" \notin events

\* The root directory is its own, and no call but that one works on it as a file.
RootInv ==
    /\ \A i \in Ids : inodes[i].id \in {0, i}
    /\ inodes[Root].id = Root /\ root_inode.id = Root
    /\ RootKept /\ current_dir_inode.id = Root => current_dir_inode = root_inode
    /\ Root \in inode_bits
    /\ Root \notin {superblock.inode, disk_superblock.inode}
    /\ Root \in {job.inode.id, job.dir.id} => pc \in ParentRead /\ ~RootKept

RootStepInv ==
    overwritten = {} /\ RootKept =>
        /\ pc \in ParentWritten \cup ParentRead /\ job.parent.id = Root =>
               job.parent = inodes[Root]
        /\ ~(pc \in ParentWritten /\ job.parent.id = Root) => root_inode = inodes[Root]

\* The first writes of a call that creates a file, up to the superblock's.
Creating == {"data bit", "inode", "grow", "clear", "parent", "entry", "superblock"}

FreeInv ==
    /\ pc # "idle" => job.call \in Calls
    /\ pc \in Creating => job.call \in {"create", "mkdir"}
    /\ pc \notin Creating => disk_superblock = superblock
    /\ overwritten = {} /\ events \cap {"create", "mkdir"} = {} =>
        /\ superblock.inode \in inode_bits => superblock.inode = 0
        /\ superblock.data \in data_bits =>
               superblock.data = 0 \/ (pc = "clear" /\ job.parent.past = 1)

IInv == TypeInv /\ RootInv /\ RootStepInv /\ FreeInv

-----------------------------------------------------------------------------
(* What the operators return                                               *)

LEMMA Constants ==
    /\ 0 \in Ids /\ Root \in Ids /\ Root # 0
    /\ 0 \in Blocks /\ FirstDataBlock \in Blocks /\ FirstDataBlock + 1 \in Blocks
    /\ Root + 1 \in Ids
    /\ 1 \in Slots /\ 2 \in Slots /\ Slots \subseteq Nat
    /\ 0 \in 0 .. U32 - 1 /\ 1 \in 0 .. U32 - 1 /\ 2 \in 0 .. U32 - 1
    /\ 0 \in SystemBlocks /\ SystemBlocks \subseteq Blocks
  BY SizesAssumption DEF Ids, Blocks, Slots, Root, SystemBlocks

\* A size stays in its width.
LEMMA Wraps ==
    ASSUME NEW n \in 0 .. U32 - 1
    PROVE  (n + 1) % U32 \in 0 .. U32 - 1 /\ (n - 1) % U32 \in 0 .. U32 - 1
<1>1. \A a \in Int, b \in Nat \ {0} : a % b \in 0 .. b - 1
  OBVIOUS
<1>2. U32 \in Nat \ {0} /\ n + 1 \in Int /\ n - 1 \in Int
  BY SizesAssumption
<1> QED BY <1>1, <1>2

\* Every set of naturals that is not empty has a least element.
LEMMA LeastElement ==
    ASSUME NEW T, T \subseteq Nat, T # {}
    PROVE  \E n \in T : \A m \in T : n <= m
<1> DEFINE R == StrictSubsetOrdering(Nat)
           I == {0 .. n : n \in T}
<1>1. IsWellFoundedOn(R, FiniteSubsetsOf(Nat))
  BY FS_StrictSubsetOrderingWellFounded
<1>2. I \subseteq FiniteSubsetsOf(Nat) /\ I # {}
  <2>1. \A n \in T : IsFiniteSet(0 .. n) /\ 0 .. n \in SUBSET Nat
    BY FS_Interval
  <2> QED BY <2>1 DEF FiniteSubsetsOf
<1>3. PICK x \in I : \A y \in I : ~ (<<y, x>> \in R)
  <2> HIDE DEF I, R
  <2> QED BY <1>1, <1>2, WFMin
<1>4. PICK n \in T : x = 0 .. n
  BY <1>3
<1>5. ASSUME NEW m \in T, ~ (n <= m) PROVE FALSE
  <2>1. 0 .. m \subseteq 0 .. n /\ 0 .. m # 0 .. n
    BY <1>5
  <2>2. <<0 .. m, x>> \in R
    BY <2>1, <1>4 DEF StrictSubsetOrdering
  <2> QED BY <2>2, <1>3
<1> QED BY <1>5

\* The first free bit is one that is not set, or 0.
LEMMA FirstFreeIn ==
    ASSUME NEW last \in Nat, NEW bits
    PROVE  /\ FirstFree(bits, last) \in 0 .. last
           /\ FirstFree(bits, last) \in bits => FirstFree(bits, last) = 0
<1>1. CASE 0 .. last \subseteq bits
  BY <1>1 DEF FirstFree
<1>2. CASE ~(0 .. last \subseteq bits)
  <2> DEFINE T == (0 .. last) \ bits
  <2>1. T \subseteq Nat /\ T # {}
    BY <1>2
  <2>2. \E n \in T : \A m \in T : n <= m
    BY <2>1, LeastElement
  <2>3. FirstFree(bits, last) = CHOOSE b \in T : \A c \in T : b <= c
    BY <1>2 DEF FirstFree
  <2>4. FirstFree(bits, last) \in T
    BY <2>2, <2>3
  <2> QED BY <2>4
<1> QED BY <1>1, <1>2

LEMMA FirstSlotIn ==
    ASSUME NEW S, S \subseteq Slots, S # {}
    PROVE  FirstSlot(S) \in S
<1>1. S \subseteq Nat
  BY Constants
<1>2. \E n \in S : \A m \in S : n <= m
  BY <1>1, LeastElement
<1> QED BY <1>2 DEF FirstSlot

LEMMA NothingTyped ==
    /\ NoInode \in Flat /\ NoInode.id = 0
    /\ EmptyBlock \in Pages
    /\ \E p \in Paths : TRUE
    /\ Idle \in Jobs /\ Idle.parent = NoInode /\ Idle.inode = NoInode /\ Idle.dir = NoInode
    /\ Idle.call = "none"
<1>1. NoInode \in Inodes
  BY Constants DEF NoInode, Inodes
<1>2. NoInode \in Flat /\ NoInode.id = 0
  BY <1>1 DEF NoInode, Flat
<1>3. NoEntry \in Entries /\ NoEntry.name \notin Names /\ NoEntry.name # ".."
  BY NamesAssumption, SizesAssumption DEF NoEntry, NoName, Entries
<1>4. EmptyBlock \in Pages
  BY <1>3 DEF EmptyBlock, Pages, Found
<1>5. PICK n \in Names : TRUE
  BY NamesAssumption
<1>6. [absolute |-> TRUE, dir |-> NoName, name |-> n] \in Paths
  BY <1>5 DEF Paths
<1>7. (CHOOSE p \in Paths : TRUE) \in Paths
  BY <1>6
<1>8. Idle \in Jobs
  BY <1>1, <1>2, <1>4, <1>7 DEF Idle, Jobs
<1> QED BY <1>2, <1>4, <1>6, <1>8 DEF Idle

\* What a name leads to: an inode, but not the root directory's.
LEMMA LookupTyped ==
    ASSUME TypeInv, RootInv, NEW d \in Flat, NEW n \in Names
    PROVE  /\ inode_for_name_in_directory(d, n) \in Flat
           /\ inode_for_name_in_directory(d, n).id # Root
<1>1. CASE Matches(d, n) = {}
  BY <1>1, NothingTyped, Constants DEF inode_for_name_in_directory
<1>2. CASE Matches(d, n) # {}
  <2> DEFINE e == entries[d.first][FirstSlot(Matches(d, n))]
  <2>1. Matches(d, n) \subseteq Slots
    BY DEF Matches
  <2>2. FirstSlot(Matches(d, n)) \in Matches(d, n)
    BY <1>2, <2>1, FirstSlotIn
  <2>3. FirstSlot(Matches(d, n)) \in Slots /\ BeginsWith(e, n)
    BY <2>2 DEF Matches
  <2>4. e.name \in Names
    BY <2>3, NamesAssumption DEF BeginsWith
  <2>5. d.first \in Blocks
    BY DEF Flat, Inodes
  <2>6. e \in Entries /\ (e.name \in Names => e.id \in Ids \ {Root})
    BY <2>3, <2>5 DEF TypeInv, Pages, Found
  <2>7. e.id \in Ids \ {Root}
    BY <2>4, <2>6
  <2>8. inodes[e.id] \in Flat /\ inodes[e.id].id \in {0, e.id}
    BY <2>7 DEF TypeInv, RootInv
  <2>9. inode_for_name_in_directory(d, n) \in {NoInode, inodes[e.id]}
    BY <1>2 DEF inode_for_name_in_directory
  <2> HIDE DEF e
  <2>10. inodes[e.id].id # Root
    BY <2>7, <2>8, Constants
  <2> QED BY <2>8, <2>9, <2>10, NothingTyped, Constants
<1> QED BY <1>1, <1>2

\* ".." leads to an inode; if to the root directory's, to the one on disk.
LEMMA AboveTyped ==
    ASSUME TypeInv, RootInv, NEW d \in Flat
    PROVE  /\ inode_for_name_in_directory(d, "..") \in Flat
           /\ inode_for_name_in_directory(d, "..").id = Root =>
                  inode_for_name_in_directory(d, "..") = inodes[Root]
<1>1. CASE Matches(d, "..") = {}
  BY <1>1, NothingTyped, Constants DEF inode_for_name_in_directory
<1>2. CASE Matches(d, "..") # {}
  <2> DEFINE e == entries[d.first][FirstSlot(Matches(d, ".."))]
  <2>1. Matches(d, "..") \subseteq Slots
    BY DEF Matches
  <2>2. FirstSlot(Matches(d, "..")) \in Matches(d, "..")
    BY <1>2, <2>1, FirstSlotIn
  <2>3. FirstSlot(Matches(d, "..")) \in Slots /\ BeginsWith(e, "..")
    BY <2>2 DEF Matches
  <2>4. e.name = ".."
    BY <2>3, NamesAssumption DEF BeginsWith
  <2>5. d.first \in Blocks
    BY DEF Flat, Inodes
  <2>6. e.id \in Ids
    BY <2>3, <2>4, <2>5 DEF TypeInv, Pages, Found
  <2>7. inodes[e.id] \in Flat /\ inodes[e.id].id \in {0, e.id}
    BY <2>6 DEF TypeInv, RootInv
  <2>8. inode_for_name_in_directory(d, "..") \in {NoInode, inodes[e.id]}
    BY <1>2 DEF inode_for_name_in_directory
  <2> HIDE DEF e
  <2> QED BY <2>7, <2>8, NothingTyped, Constants
<1> QED BY <1>1, <1>2

\* What "/", "." and ".." lead to, and the parent they have.
LEMMA SpecialTyped ==
    ASSUME TypeInv, RootInv, RootKept => root_inode = inodes[Root], NEW path \in SpecialPaths
    PROVE  /\ special_inode(path) \in Flat /\ special_parent(path) \in Flat
           /\ RootKept /\ special_inode(path).id = Root => special_inode(path) = root_inode
           /\ RootKept /\ special_parent(path).id = Root => special_parent(path) = inodes[Root]
<1>1. /\ inodes[Root] \in Flat /\ root_inode \in Flat /\ current_dir_inode \in Flat
      /\ RootKept /\ current_dir_inode.id = Root => current_dir_inode = root_inode
  BY Constants DEF TypeInv, RootInv
<1>2. special_inode(path) \in {root_inode, current_dir_inode,
                             inode_for_name_in_directory(current_dir_inode, "..")}
  BY DEF special_inode
<1>3. special_parent(path) \in {inodes[Root], current_dir_inode}
  BY DEF special_parent
<1>4. /\ inode_for_name_in_directory(current_dir_inode, "..") \in Flat
      /\ inode_for_name_in_directory(current_dir_inode, "..").id = Root =>
             inode_for_name_in_directory(current_dir_inode, "..") = inodes[Root]
  BY <1>1, AboveTyped
<1> QED BY <1>1, <1>2, <1>3, <1>4

LEMMA StartTyped ==
    ASSUME TypeInv, NEW p \in Paths
    PROVE  /\ Start(p) \in Flat
           /\ p.name \in Names /\ (p.dir # NoName => p.dir \in Names)
  BY DEF Start, TypeInv, Paths

LEMMA PathTyped ==
    ASSUME TypeInv, RootInv, NEW p \in Paths
    PROVE  inode_from_path(p) \in Flat /\ inode_from_path(p).id # Root
<1> DEFINE d == IF p.dir = NoName THEN Start(p) ELSE inode_for_name_in_directory(Start(p), p.dir)
<1>1. d \in Flat
  BY StartTyped, LookupTyped
<1>2. inode_from_path(p) = inode_for_name_in_directory(d, p.name)
  BY DEF inode_from_path
<1> HIDE DEF d
<1> QED BY <1>1, <1>2, StartTyped, LookupTyped

\* The parent that a path has, when it is the root directory, is the inode that
\* is kept of it.
LEMMA ParentTyped ==
    ASSUME TypeInv, RootInv, RootKept => root_inode = inodes[Root], NEW p \in Paths
    PROVE  /\ parent_inode_from_path(p) \in Flat
           /\ RootKept /\ parent_inode_from_path(p).id = Root =>
                  parent_inode_from_path(p) = inodes[Root]
<1>1. CASE p.dir # NoName
  <2>1. /\ inode_for_name_in_directory(Start(p), p.dir) \in Flat
        /\ inode_for_name_in_directory(Start(p), p.dir).id # Root
    BY <1>1, StartTyped, LookupTyped
  <2> QED BY <1>1, <2>1 DEF parent_inode_from_path
<1>2. CASE p.dir = NoName /\ p.absolute
  <2>1. inodes[Root] \in Flat
    BY Constants DEF TypeInv
  <2> QED BY <1>2, <2>1 DEF parent_inode_from_path
<1>3. CASE p.dir = NoName /\ ~p.absolute
  BY <1>3 DEF parent_inode_from_path, TypeInv, RootInv
<1> QED BY <1>1, <1>2, <1>3

\* What a page that nobody has cleared holds is no file's.
LEMMA JunkTyped ==
    ASSUME NEW page \in Junk
    PROVE  page \in Pages
<1>1. page \in [Slots -> Entries] /\ \A s \in Slots : page[s].name \in {NoName, GarbageName}
  BY NamesAssumption
<1>2. {NoName, GarbageName} \cap (Names \cup {".."}) = {}
  BY NamesAssumption DEF NoName, GarbageName
<1> QED BY <1>1, <1>2 DEF Pages, Found

LEMMA AtLeastTyped ==
    ASSUME NEW d \in Flat, NEW n \in {1, 2}
    PROVE  AtLeast(d, n) \in Flat /\ AtLeast(d, n).id = d.id /\ AtLeast(d, n).first = d.first
<1>1. n \in 0 .. U32 - 1
  BY Constants
<1>2. [d EXCEPT !.size = n] \in Flat /\ [d EXCEPT !.size = n].id = d.id
      /\ [d EXCEPT !.size = n].first = d.first
  BY <1>1 DEF Flat, Inodes
<1> QED BY <1>2 DEF AtLeast

-----------------------------------------------------------------------------
(* What a write leaves                                                     *)

LEMMA InodeWritten ==
    ASSUME TypeInv, RootInv, NEW d \in Flat, WriteInode(d)
    PROVE  /\ inodes' \in [Ids -> Flat] /\ overwritten' \subseteq Blocks
           /\ \A i \in Ids : inodes'[i].id \in {0, i}
           /\ inodes'[Root].id = Root
           /\ inodes'[Root] = IF d.id = Root THEN d ELSE inodes[Root]
<1>1. d.id \in Ids
  BY DEF Flat, Inodes
<1>2. inodes' = [inodes EXCEPT ![d.id] = d] /\ inodes \in [Ids -> Flat]
  BY DEF WriteInode, TypeInv
<1>3. inodes' \in [Ids -> Flat] /\ \A i \in Ids : inodes'[i] = IF i = d.id THEN d ELSE inodes[i]
  BY <1>1, <1>2
<1>4. overwritten' \subseteq Blocks
  BY Constants DEF WriteInode
<1> QED BY <1>3, <1>4, Constants DEF RootInv

LEMMA BlockWritten ==
    ASSUME TypeInv, NEW b \in Blocks, NEW page \in Pages, WriteBlock(b, page)
    PROVE  entries' \in [Blocks -> Pages] /\ overwritten' \subseteq Blocks
<1>1. entries' = [entries EXCEPT ![b] = page] /\ entries \in [Blocks -> Pages]
  BY DEF WriteBlock, TypeInv
<1>2. overwritten' \subseteq Blocks
  BY DEF WriteBlock
<1> QED BY <1>1, <1>2

\* An entry for a file in a directory's page.
LEMMA EntryWritten ==
    ASSUME NEW page \in Pages, NEW s \in Slots,
           NEW id \in Ids \ {Root}, NEW n \in Names \cup {NoName}
    PROVE  [page EXCEPT ![s] = [id |-> id, name |-> n]] \in Pages
<1>1. Ids \subseteq 0 .. LastInode + 1
  BY SizesAssumption DEF Ids
<1>2. [id |-> id, name |-> n] \in Entries
  BY <1>1 DEF Entries
<1>3. n # ".."
  BY NamesAssumption DEF NoName
<1>4. [id |-> id, name |-> n] \in Found
  BY <1>2, <1>3 DEF Found
<1> HIDE DEF Ids, Entries
<1> QED BY <1>4 DEF Pages

\* The first two entries of a directory.
LEMMA DotsWritten ==
    ASSUME NEW page \in Pages, NEW s \in Slots, NEW id \in Ids, NEW n \in {".", ".."}
    PROVE  [page EXCEPT ![s] = [id |-> id, name |-> n]] \in Pages
<1>1. Ids \subseteq 0 .. LastInode + 1
  BY SizesAssumption DEF Ids
<1>2. [id |-> id, name |-> n] \in Entries
  BY <1>1 DEF Entries
<1>3. n \notin Names
  BY NamesAssumption
<1>4. [id |-> id, name |-> n] \in Found
  BY <1>2, <1>3 DEF Found
<1> QED BY <1>4 DEF Pages

LEMMA CachesRefreshed ==
    ASSUME TypeInv, RootInv, NEW d \in Flat, RefreshCaches(d)
    PROVE  /\ root_inode' \in Flat /\ current_dir_inode' \in Flat
           /\ root_inode'.id = Root
           /\ RootKept /\ current_dir_inode'.id = Root => current_dir_inode' = root_inode'
           /\ root_inode' = IF d.id = Root THEN d ELSE root_inode
<1>1. /\ current_dir_inode' = IF current_dir_inode.id = d.id THEN d ELSE current_dir_inode
      /\ root_inode' = IF root_inode.id = d.id THEN d ELSE root_inode
  BY DEF RefreshCaches, Refreshed
<1>2. root_inode \in Flat /\ current_dir_inode \in Flat
  BY DEF TypeInv
<1> QED BY <1>1, <1>2 DEF RootInv

LEMMA SuperblockTyped ==
    ASSUME NEW s \in Superblocks, NEW i \in Ids, NEW b \in Blocks
    PROVE  /\ s.inode \in Ids /\ s.data \in Blocks
           /\ [s EXCEPT !.inode = i] \in Superblocks
           /\ [s EXCEPT !.inode = i].inode = i /\ [s EXCEPT !.inode = i].data = s.data
           /\ [s EXCEPT !.data = b] \in Superblocks
           /\ [s EXCEPT !.data = b].data = b /\ [s EXCEPT !.data = b].inode = s.inode
  BY DEF Superblocks

\* A call's locals, field by field.
LEMMA JobTyped ==
    ASSUME NEW j \in Jobs
    PROVE  /\ j.call \in Calls \cup {"none"} /\ j.name \in Names \cup {NoName} /\ j.path \in Paths
           /\ j.parent \in Inodes /\ j.inode \in Flat /\ j.dir \in Flat /\ j.page \in Pages
           /\ j.parent.id \in Ids /\ j.parent.first \in Blocks /\ j.parent.size \in 0 .. U32 - 1
           /\ j.parent.past = 0 => j.parent \in Flat
           /\ j.inode.id \in Ids /\ j.inode.first \in Blocks
           /\ j.dir.id \in Ids
<1>1. /\ j.call \in Calls \cup {"none"} /\ j.name \in Names \cup {NoName} /\ j.path \in Paths
      /\ j.parent \in Inodes /\ j.inode \in Flat /\ j.dir \in Flat /\ j.page \in Pages
  BY DEF Jobs
<1>2. \A d \in Inodes : d.id \in Ids /\ d.first \in Blocks /\ d.size \in 0 .. U32 - 1
  BY DEF Inodes
<1>3. Flat \subseteq Inodes /\ \A d \in Inodes : d.past = 0 => d \in Flat
  BY DEF Flat
<1> QED BY <1>1, <1>2, <1>3

LEMMA StoppedIn ==
    ASSUME TypeInv, created + Stopped < MaxCreated
    PROVE  created + 1 \in 0 .. MaxCreated
<1> DEFINE T == Calls \cup {"root made again", "directory made again"}
<1>1. IsFiniteSet(T)
  <2>1. \A S, x : IsFiniteSet(S) => IsFiniteSet(S \cup {x})
    BY FS_AddElement
  <2>2. IsFiniteSet({} \cup {"create"})
    BY <2>1, FS_EmptySet
  <2>3. IsFiniteSet(({} \cup {"create"}) \cup {"mkdir"})
    BY <2>1, <2>2
  <2>4. IsFiniteSet((({} \cup {"create"}) \cup {"mkdir"}) \cup {"rm"})
    BY <2>1, <2>3
  <2>5. IsFiniteSet(Calls)
    <3>1. Calls = (({} \cup {"create"}) \cup {"mkdir"}) \cup {"rm"}
      BY DEF Calls
    <3> QED BY <2>4, <3>1
  <2>6. IsFiniteSet(Calls \cup {"root made again"})
    BY <2>1, <2>5
  <2>7. IsFiniteSet((Calls \cup {"root made again"}) \cup {"directory made again"})
    BY <2>1, <2>6
  <2>8. T = (Calls \cup {"root made again"}) \cup {"directory made again"}
    OBVIOUS
  <2> HIDE DEF T
  <2> QED BY <2>7, <2>8
<1>2. IsFiniteSet(events \cap T)
  <2> HIDE DEF T
  <2> QED BY <1>1, FS_Subset
<1>3. Stopped \in Nat
  BY <1>2, FS_CardinalityType DEF Stopped
<1>4. created \in 0 .. MaxCreated
  BY DEF TypeInv
<1>5. MaxCreated \in Nat
  BY SizesAssumption
<1> QED BY <1>3, <1>4, <1>5

-----------------------------------------------------------------------------
(* The initial states                                                      *)

LEMMA RootTyped == RootInode \in Flat /\ RootInode.id = Root
  BY Constants DEF RootInode, Flat, Inodes

LEMMA InitInv ==
    ASSUME Init
    PROVE  IInv
<1>1. \A d \in {RootInode, NoInode} : d \in Flat /\ d.id \in {0, Root}
  BY RootTyped, NothingTyped
<1>2. inodes \in [Ids -> Flat] /\ \A i \in Ids : inodes[i] = IF i = Root THEN RootInode ELSE NoInode
  BY <1>1 DEF Init
<1>3. entries \in [Blocks -> Pages]
  <2>1. [id |-> Root, name |-> "."] \in Entries /\ [id |-> Root, name |-> ".."] \in Entries
    BY Constants, SizesAssumption DEF Entries, Ids
  <2>2. EmptyBlock \in Pages
    BY NothingTyped
  <2> DEFINE page == [EmptyBlock EXCEPT ![1] = [id |-> Root, name |-> "."]]
  <2>3. page \in Pages
    <3>1. Root \in Ids /\ 1 \in Slots
      BY Constants
    <3> QED BY <2>2, <3>1, DotsWritten
  <2>4. WithDots(EmptyBlock, Root, Root) = [page EXCEPT ![2] = [id |-> Root, name |-> ".."]]
    BY DEF WithDots
  <2> HIDE DEF page
  <2>5. Root \in Ids /\ 2 \in Slots
    BY Constants
  <2>6. [page EXCEPT ![2] = [id |-> Root, name |-> ".."]] \in Pages
    BY <2>3, <2>5, DotsWritten
  <2> QED BY <2>2, <2>4, <2>6 DEF Init
<1>4. superblock \in Superblocks /\ superblock.inode = Root + 1 /\ superblock.data = FirstDataBlock + 1
  BY Constants DEF Init, Superblocks
<1>5. TypeInv
  <2>1. inode_bits \subseteq Ids /\ data_bits \subseteq 0 .. LastBlock + 1
    BY Constants, SizesAssumption DEF Init
  <2>2. superblock \in Superblocks /\ disk_superblock \in Superblocks
    BY <1>4 DEF Init
  <2>3. root_inode \in Flat /\ current_dir_inode \in Flat
    BY RootTyped DEF Init
  <2>4. job \in Jobs /\ job.parent = NoInode
    BY NothingTyped DEF Init
  <2>5. overwritten = {} /\ created \in 0 .. MaxCreated /\ events = {}
    BY SizesAssumption DEF Init
  <2>6. NoInode.past = 0
    BY DEF NoInode
  <2> QED BY <1>2, <1>3, <2>1, <2>2, <2>3, <2>4, <2>5, <2>6 DEF TypeInv
<1>6. RootInv
  <2>1. \A i \in Ids : inodes[i].id \in {0, i}
    BY <1>2, RootTyped, NothingTyped
  <2>2. inodes[Root] = RootInode
    BY <1>2, Constants
  <2>3. job = Idle /\ disk_superblock = superblock /\ Root \in inode_bits
        /\ root_inode = RootInode /\ current_dir_inode = RootInode
    BY DEF Init
  <2>4. Root \notin {superblock.inode, disk_superblock.inode, job.inode.id, job.dir.id}
    BY <1>4, <2>3, NothingTyped DEF Root
  <2> QED BY <2>1, <2>2, <2>3, <2>4, RootTyped DEF RootInv
<1>7. pc = "idle"
  BY DEF Init
<1>8. RootStepInv
  <2>1. inodes[Root] = RootInode
    BY <1>2, Constants
  <2> QED BY <1>7, <2>1 DEF RootStepInv, ParentWritten, ParentRead, Init
<1>9. FreeInv
  <2>1. superblock.inode \notin inode_bits
    BY <1>4 DEF Init, Root
  <2>2. superblock.data \notin data_bits
    BY <1>4, SizesAssumption DEF Init
  <2> QED BY <1>7, <2>1, <2>2 DEF FreeInv, Creating, Init
<1> QED BY <1>5, <1>6, <1>8, <1>9 DEF IInv

-----------------------------------------------------------------------------
(* fs_create_file() keeps the invariant                                    *)

LEMMA SetInodeBitStep ==
    ASSUME IInv, NEW p \in Paths, NEW call \in {"create", "mkdir"}, SetInodeBit(p, call)
    PROVE  IInv'
<1> DEFINE parent == parent_inode_from_path(p)
           file == [NoInode EXCEPT !.id = superblock.inode]
           path == IF call = "mkdir" THEN p ELSE Idle.path
<1>1. TypeInv /\ RootInv /\ RootStepInv /\ FreeInv
  BY DEF IInv
<1>2. pc = "idle" /\ overwritten = {} /\ (RootKept => root_inode = inodes[Root])
  BY <1>1 DEF SetInodeBit, At, RootStepInv, ParentWritten, ParentRead
<1>3. parent \in Flat
  BY <1>1, <1>2, ParentTyped
<1>4. superblock.inode \in Ids \ {Root} /\ superblock.data \in Blocks /\ superblock \in Superblocks
  BY <1>1 DEF TypeInv, RootInv, Superblocks
<1>5. file \in Flat /\ file.id = superblock.inode
  BY <1>4, NothingTyped DEF Flat, Inodes, NoInode
<1>6. Idle.path \in Paths
  BY NothingTyped, JobTyped
<1>7. p.name \in Names
  BY DEF Paths
<1>8. /\ job' = [call |-> call, name |-> p.name, path |-> path, parent |-> parent,
                 inode |-> file, dir |-> NoInode, page |-> EmptyBlock]
      /\ inode_bits' = inode_bits \cup {superblock.inode}
      /\ superblock' = [superblock EXCEPT !.inode = FirstFree(inode_bits', LastInode)]
      /\ pc' = "data bit" /\ created' = created + 1
      /\ events' \in SUBSET (events \cup {"file as directory"}) /\ events \subseteq events'
  BY DEF SetInodeBit, Idle
<1>9. UNCHANGED <<data_bits, inodes, entries, disk_superblock, root_inode, current_dir_inode,
                  overwritten>>
  BY DEF SetInodeBit
<1> HIDE DEF parent, file
<1>10. path \in Paths
  BY <1>6
<1> HIDE DEF path
<1>11. job' \in Jobs /\ job'.parent = parent /\ job'.inode = file /\ job'.dir = NoInode
       /\ job'.call = call
  <2>1. parent \in Inodes /\ parent.past = 0
    BY <1>3 DEF Flat
  <2>2. NoInode \in Flat /\ EmptyBlock \in Pages
    BY NothingTyped
  <2>3. call \in Calls
    BY DEF Calls
  <2> QED BY <1>5, <1>7, <1>8, <1>10, <2>1, <2>2, <2>3 DEF Jobs
<1>12. /\ FirstFree(inode_bits', LastInode) \in Ids
       /\ FirstFree(inode_bits', LastInode) \in inode_bits' => FirstFree(inode_bits', LastInode) = 0
  BY SizesAssumption, FirstFreeIn DEF Ids
<1>13. /\ superblock' \in Superblocks /\ superblock'.data = superblock.data
       /\ superblock'.inode = FirstFree(inode_bits', LastInode)
  BY <1>4, <1>8, <1>12, SuperblockTyped
<1>14. TypeInv'
  <2>1. created + Stopped < MaxCreated
    BY DEF SetInodeBit
  <2>2. created' \in 0 .. MaxCreated
    BY <1>1, <1>8, <2>1, StoppedIn
  <2>3. inode_bits' \subseteq Ids
    BY <1>1, <1>4, <1>8 DEF TypeInv
  <2>4. parent.past = 0
    BY <1>3 DEF Flat
  <2> QED BY <1>1, <1>8, <1>9, <1>11, <1>13, <2>2, <2>3, <2>4 DEF TypeInv
<1>15. RootInv'
  <2>1. Root \in inode_bits'
    BY <1>1, <1>8 DEF RootInv
  <2>2. superblock'.inode # Root
    BY <1>12, <1>13, <2>1, Constants
  <2>3. job'.inode.id # Root /\ job'.dir.id # Root
    BY <1>4, <1>5, <1>11, NothingTyped, Constants
  <2>4. RootKept' => RootKept
    BY <1>8 DEF RootKept
  <2> QED BY <1>1, <1>9, <2>1, <2>2, <2>3, <2>4 DEF RootInv
<1>16. RootStepInv'
  BY <1>2, <1>8, <1>9 DEF RootStepInv, RootKept, ParentWritten, ParentRead
<1>17. FreeInv'
  <2>1. job'.call \in {"create", "mkdir"}
    BY <1>11
  <2>2. events' \cap {"create", "mkdir"} = {} => events \cap {"create", "mkdir"} = {}
    BY <1>8
  <2>3. superblock.data \in data_bits => superblock.data = 0 \/ events \cap {"create", "mkdir"} # {}
    BY <1>1, <1>2 DEF FreeInv
  <2>4. superblock'.inode \in inode_bits' => superblock'.inode = 0
    BY <1>12, <1>13
  <2>5. events' \cap {"create", "mkdir"} = {} =>
            (superblock'.data \in data_bits' => superblock'.data = 0)
    BY <1>9, <1>13, <2>2, <2>3
  <2>6. pc' \in Creating
    BY <1>8 DEF Creating
  <2> QED BY <2>1, <2>4, <2>5, <2>6 DEF FreeInv, Calls
<1> QED BY <1>14, <1>15, <1>16, <1>17 DEF IInv

\* A data bit is taken, for the file or for its directory, and the next is looked for.
LEMMA DataBitTaken ==
    ASSUME IInv, data_bits' = data_bits \cup {superblock.data},
           superblock' = [superblock EXCEPT !.data = FirstFree(data_bits', LastBlock)]
    PROVE  /\ data_bits' \subseteq 0 .. LastBlock + 1
           /\ superblock.data \in Blocks
           /\ superblock' \in Superblocks /\ superblock'.inode = superblock.inode
           /\ superblock'.data \in data_bits' => superblock'.data = 0
<1>1. superblock \in Superblocks /\ data_bits \subseteq 0 .. LastBlock + 1
  BY DEF IInv, TypeInv
<1>2. superblock.data \in Blocks /\ superblock.inode \in Ids
  BY <1>1 DEF Superblocks
<1>3. Blocks \subseteq 0 .. LastBlock + 1
  BY SizesAssumption DEF Blocks
<1> DEFINE b == FirstFree(data_bits', LastBlock)
<1>4. b \in Blocks /\ (b \in data_bits' => b = 0)
  BY SizesAssumption, FirstFreeIn DEF Blocks
<1>5. superblock' = [superblock EXCEPT !.data = b]
  OBVIOUS
<1> HIDE DEF b
<1>6. superblock' \in Superblocks /\ superblock'.inode = superblock.inode /\ superblock'.data = b
  BY <1>1, <1>4, <1>5 DEF Superblocks
<1>7. data_bits' \subseteq 0 .. LastBlock + 1
  BY <1>1, <1>2, <1>3
<1>8. superblock'.data \in data_bits' => superblock'.data = 0
  BY <1>4, <1>6
<1> QED BY <1>2, <1>6, <1>7, <1>8

LEMMA SetDataBitStep ==
    ASSUME IInv, SetDataBit
    PROVE  IInv'
<1> DEFINE file == [job.inode EXCEPT !.first = superblock.data]
<1>1. TypeInv /\ RootInv /\ RootStepInv /\ FreeInv
  BY DEF IInv
<1>2. pc = "data bit" /\ overwritten = {} /\ pc' = "inode"
  BY DEF SetDataBit, At
<1>3. UNCHANGED <<inode_bits, inodes, entries, disk_superblock, root_inode, current_dir_inode,
                  overwritten, created, events>>
  BY DEF SetDataBit, ghosts
<1>4. /\ data_bits' = data_bits \cup {superblock.data}
      /\ superblock' = [superblock EXCEPT !.data = FirstFree(data_bits', LastBlock)]
      /\ job' = [job EXCEPT !.inode = file]
  BY DEF SetDataBit
<1>5. /\ data_bits' \subseteq 0 .. LastBlock + 1
      /\ superblock.data \in Blocks
      /\ superblock' \in Superblocks /\ superblock'.inode = superblock.inode
      /\ superblock'.data \in data_bits' => superblock'.data = 0
  BY <1>4, DataBitTaken
<1>6. job \in Jobs /\ job.inode \in Flat
  BY <1>1, JobTyped DEF TypeInv
<1>7. file \in Flat /\ file.id = job.inode.id
  BY <1>5, <1>6 DEF Flat, Inodes
<1> HIDE DEF file
<1>8. /\ job' \in Jobs /\ job'.parent = job.parent /\ job'.dir = job.dir /\ job'.call = job.call
      /\ job'.inode = file
  BY <1>4, <1>6, <1>7 DEF Jobs
<1>9. TypeInv'
  BY <1>1, <1>2, <1>3, <1>5, <1>8 DEF TypeInv
<1>10. RootInv'
  BY <1>1, <1>2, <1>3, <1>5, <1>7, <1>8 DEF RootInv, RootKept, ParentRead
<1>11. RootStepInv'
  BY <1>1, <1>2, <1>3 DEF RootStepInv, RootKept, ParentWritten, ParentRead
<1>12. FreeInv'
  BY <1>1, <1>2, <1>3, <1>5, <1>8 DEF FreeInv, Creating
<1> QED BY <1>9, <1>10, <1>11, <1>12 DEF IInv

LEMMA WriteNewInodeStep ==
    ASSUME IInv, WriteNewInode
    PROVE  IInv'
<1>1. TypeInv /\ RootInv /\ RootStepInv /\ FreeInv
  BY DEF IInv
<1>2. pc = "inode" /\ overwritten = {} /\ pc' \in {"grow", "parent"} /\ WriteInode(job.inode)
  BY DEF WriteNewInode, At
<1>3. UNCHANGED <<inode_bits, data_bits, entries, disk_superblock, superblock, root_inode,
                  current_dir_inode, job, created, events>>
  BY DEF WriteNewInode, bitmaps, memory
<1>4. job \in Jobs /\ job.inode \in Flat /\ job.inode.id # Root
  BY <1>1, <1>2, JobTyped DEF TypeInv, RootInv, ParentRead
<1>5. /\ inodes' \in [Ids -> Flat] /\ overwritten' \subseteq Blocks
      /\ \A i \in Ids : inodes'[i].id \in {0, i}
      /\ inodes'[Root].id = Root /\ inodes'[Root] = inodes[Root]
  BY <1>1, <1>2, <1>4, InodeWritten
<1>6. TypeInv'
  BY <1>1, <1>2, <1>3, <1>5 DEF TypeInv
<1>7. RootInv'
  BY <1>1, <1>2, <1>3, <1>5 DEF RootInv, RootKept, ParentRead
<1>8. RootStepInv'
  BY <1>1, <1>2, <1>3, <1>5 DEF RootStepInv, RootKept, ParentWritten, ParentRead
<1>9. FreeInv'
  BY <1>1, <1>2, <1>3 DEF FreeInv, Creating
<1> QED BY <1>6, <1>7, <1>8, <1>9 DEF IInv

LEMMA GrowNextBlockStep ==
    ASSUME IInv, GrowNextBlock
    PROVE  IInv'
<1> DEFINE parent == [job.parent EXCEPT !.past = @ + 1]
<1>1. TypeInv /\ RootInv /\ RootStepInv /\ FreeInv
  BY DEF IInv
<1>2. pc = "grow" /\ overwritten = {} /\ pc' = "clear"
  BY DEF GrowNextBlock, At
<1>3. UNCHANGED <<inode_bits, inodes, entries, disk_superblock, superblock, root_inode,
                  current_dir_inode, overwritten, created, events>>
  BY DEF GrowNextBlock, memory, ghosts
<1>4. data_bits' = data_bits \cup {job.parent.first + 1} /\ job' = [job EXCEPT !.parent = parent]
  BY DEF GrowNextBlock
<1>5. job \in Jobs /\ job.parent \in Inodes /\ job.parent.first \in Blocks /\ job.parent.past = 0
  BY <1>1, <1>2, JobTyped DEF TypeInv
<1>6. parent \in Inodes /\ parent.past = 1
  BY <1>5 DEF Inodes
<1>7. job.parent.first + 1 \in 0 .. LastBlock + 1
  BY <1>5, SizesAssumption DEF Blocks
<1> HIDE DEF parent
<1>8. /\ job' \in Jobs /\ job'.parent = parent /\ job'.dir = job.dir /\ job'.call = job.call
      /\ job'.inode = job.inode
  BY <1>4, <1>5, <1>6 DEF Jobs
<1>9. TypeInv'
  BY <1>1, <1>2, <1>3, <1>4, <1>7, <1>8 DEF TypeInv
<1>10. RootInv'
  BY <1>1, <1>2, <1>3, <1>8 DEF RootInv, RootKept, ParentRead
<1>11. RootStepInv'
  BY <1>1, <1>2, <1>3 DEF RootStepInv, RootKept, ParentWritten, ParentRead
<1>12. FreeInv'
  BY <1>1, <1>2, <1>3, <1>6, <1>8 DEF FreeInv, Creating
<1> QED BY <1>9, <1>10, <1>11, <1>12 DEF IInv

LEMMA GrowElsewhereStep ==
    ASSUME IInv, GrowElsewhere
    PROVE  IInv'
<1>1. TypeInv /\ RootInv /\ RootStepInv /\ FreeInv
  BY DEF IInv
<1>2. pc = "grow" /\ overwritten = {} /\ pc' = "clear"
  BY DEF GrowElsewhere, At
<1>3. UNCHANGED <<inode_bits, inodes, entries, disk_superblock, root_inode, current_dir_inode,
                  job, overwritten, created, events>>
  BY DEF GrowElsewhere, ghosts
<1>4. /\ data_bits' = data_bits \cup {superblock.data}
      /\ superblock' = [superblock EXCEPT !.data = FirstFree(data_bits', LastBlock)]
  BY DEF GrowElsewhere
<1>5. /\ data_bits' \subseteq 0 .. LastBlock + 1
      /\ superblock' \in Superblocks /\ superblock'.inode = superblock.inode
      /\ superblock'.data \in data_bits' => superblock'.data = 0
  BY <1>4, DataBitTaken
<1>6. TypeInv'
  BY <1>1, <1>2, <1>3, <1>5 DEF TypeInv
<1>7. RootInv'
  BY <1>1, <1>2, <1>3, <1>5 DEF RootInv, RootKept, ParentRead
<1>8. RootStepInv'
  BY <1>1, <1>2, <1>3 DEF RootStepInv, RootKept, ParentWritten, ParentRead
<1>9. FreeInv'
  BY <1>1, <1>2, <1>3, <1>5 DEF FreeInv, Creating
<1> QED BY <1>6, <1>7, <1>8, <1>9 DEF IInv

\* A parent with a block more has the boot block cleared: nothing follows.
LEMMA ClearNewBlockStep ==
    ASSUME IInv, ClearNewBlock
    PROVE  IInv'
<1>1. TypeInv /\ RootInv /\ RootStepInv /\ FreeInv
  BY DEF IInv
<1>2. pc = "clear" /\ overwritten = {} /\ pc' = "parent"
  BY DEF ClearNewBlock, At
<1>3. UNCHANGED <<inode_bits, data_bits, inodes, disk_superblock, superblock, root_inode,
                  current_dir_inode, job, created, events>>
  BY DEF ClearNewBlock, bitmaps, memory
<1>4. job \in Jobs /\ job.parent.past \in 0 .. 1
  BY <1>1, JobTyped DEF TypeInv, Inodes
<1>5. entries' \in [Blocks -> Pages] /\ overwritten' \subseteq Blocks
      /\ (overwritten' = {} => job.parent.past = 0)
  <2>1. CASE job.parent.past = 0
    BY <1>1, <2>1 DEF ClearNewBlock, TypeInv
  <2>2. CASE job.parent.past = 1
    <3>1. job.parent.past - 1 = 0
      BY <2>2
    <3>2. WriteBlock(0, EmptyBlock)
      BY <2>2, <3>1 DEF ClearNewBlock
    <3>3. entries' \in [Blocks -> Pages] /\ overwritten' \subseteq Blocks
      BY <1>1, <3>2, BlockWritten, NothingTyped, Constants
    <3>4. overwritten' = {0} \cap SystemBlocks
      BY <3>2 DEF WriteBlock
    <3> QED BY <3>3, <3>4, Constants
  <2> QED BY <1>4, <2>1, <2>2
<1>6. TypeInv'
  BY <1>1, <1>3, <1>5 DEF TypeInv
<1>7. RootInv'
  BY <1>1, <1>2, <1>3 DEF RootInv, RootKept, ParentRead
<1>8. RootStepInv'
  BY <1>1, <1>2, <1>3 DEF RootStepInv, RootKept, ParentWritten, ParentRead
<1>9. FreeInv'
  BY <1>1, <1>2, <1>3, <1>5 DEF FreeInv, Creating
<1> QED BY <1>6, <1>7, <1>8, <1>9 DEF IInv

\* The parent is written with one entry more: it is on disk what the call has of it.
LEMMA WriteParentStep ==
    ASSUME IInv, WriteParent
    PROVE  IInv'
<1> DEFINE d == [job.parent EXCEPT !.size = (@ + 1) % U32]
<1>1. TypeInv /\ RootInv /\ RootStepInv /\ FreeInv
  BY DEF IInv
<1>2. /\ pc = "parent" /\ overwritten = {} /\ pc' = "entry"
      /\ WriteInode(d) /\ job' = [job EXCEPT !.parent = d]
  BY DEF WriteParent, At
<1>3. UNCHANGED <<inode_bits, data_bits, entries, disk_superblock, superblock, root_inode,
                  current_dir_inode, created, events>>
  BY DEF WriteParent, bitmaps, memory
<1>4. job \in Jobs /\ job.parent \in Flat /\ job.parent.size \in 0 .. U32 - 1
  BY <1>1, <1>2, JobTyped DEF TypeInv
<1>5. d \in Flat /\ d.id = job.parent.id
  <2>1. (job.parent.size + 1) % U32 \in 0 .. U32 - 1
    BY <1>4, Wraps
  <2> QED BY <1>4, <2>1 DEF Flat, Inodes
<1> HIDE DEF d
<1>6. /\ inodes' \in [Ids -> Flat] /\ overwritten' \subseteq Blocks
      /\ \A i \in Ids : inodes'[i].id \in {0, i}
      /\ inodes'[Root].id = Root /\ inodes'[Root] = IF d.id = Root THEN d ELSE inodes[Root]
  BY <1>1, <1>2, <1>5, InodeWritten
<1>7. /\ job' \in Jobs /\ job'.parent = d /\ job'.dir = job.dir /\ job'.call = job.call
      /\ job'.inode = job.inode
  <2>1. d \in Inodes
    BY <1>5 DEF Flat
  <2> QED BY <1>2, <1>4, <2>1 DEF Jobs
<1>8. TypeInv'
  <2>1. d.past = 0
    BY <1>5 DEF Flat
  <2> QED BY <1>1, <1>3, <1>6, <1>7, <2>1 DEF TypeInv
<1>9. RootInv'
  BY <1>1, <1>2, <1>3, <1>6, <1>7 DEF RootInv, RootKept, ParentRead
<1>10. RootStepInv'
  <2>1. RootKept => root_inode = inodes[Root]
    BY <1>1, <1>2 DEF RootStepInv, ParentWritten
  <2> QED BY <1>2, <1>3, <1>6, <1>7, <2>1 DEF RootStepInv, RootKept, ParentWritten, ParentRead
<1>11. FreeInv'
  BY <1>1, <1>2, <1>3, <1>7 DEF FreeInv, Creating
<1> QED BY <1>8, <1>9, <1>10, <1>11 DEF IInv

LEMMA WriteEntryStep ==
    ASSUME IInv, WriteEntry
    PROVE  IInv'
<1>1. TypeInv /\ RootInv /\ RootStepInv /\ FreeInv
  BY DEF IInv
<1>2. pc = "entry" /\ overwritten = {} /\ pc' = "superblock" /\ RefreshCaches(job.parent)
  BY DEF WriteEntry, At
<1>3. /\ UNCHANGED <<inode_bits, data_bits, inodes, disk_superblock, superblock, job, created>>
      /\ events \subseteq events' /\ events' \subseteq events \cup {"no slot"}
  BY DEF WriteEntry, bitmaps
<1>4. job \in Jobs /\ job.parent \in Flat /\ job.parent.first \in Blocks
  BY <1>1, <1>2, JobTyped DEF TypeInv
<1>5. job.inode.id \in Ids \ {Root} /\ job.name \in Names \cup {NoName}
  BY <1>1, <1>2, <1>4, JobTyped DEF RootInv, ParentRead
<1>6. entries' \in [Blocks -> Pages] /\ overwritten' \subseteq Blocks
  <2>1. CASE FreeSlots(job.parent) = {}
    BY <1>1, <2>1 DEF WriteEntry, TypeInv
  <2>2. CASE FreeSlots(job.parent) # {}
    <3> DEFINE s == FirstSlot(FreeSlots(job.parent))
               page == [entries[job.parent.first] EXCEPT ![s] =
                           [id |-> job.inode.id, name |-> job.name]]
    <3>1. FreeSlots(job.parent) \subseteq Slots
      BY DEF FreeSlots
    <3>2. s \in Slots
      BY <2>2, <3>1, FirstSlotIn
    <3>3. WriteBlock(job.parent.first, page)
      BY <2>2 DEF WriteEntry
    <3>4. entries[job.parent.first] \in Pages
      BY <1>1, <1>4 DEF TypeInv
    <3> HIDE DEF s
    <3>5. page \in Pages
      BY <1>5, <3>2, <3>4, EntryWritten
    <3> HIDE DEF page
    <3> QED BY <1>1, <1>4, <3>3, <3>5, BlockWritten
  <2> QED BY <2>1, <2>2
<1>7. /\ root_inode' \in Flat /\ current_dir_inode' \in Flat
      /\ root_inode'.id = Root
      /\ RootKept /\ current_dir_inode'.id = Root => current_dir_inode' = root_inode'
      /\ root_inode' = IF job.parent.id = Root THEN job.parent ELSE root_inode
  BY <1>1, <1>2, <1>4, CachesRefreshed
<1>8. TypeInv'
  <2>1. job.parent.past = 0
    BY <1>4 DEF Flat
  <2> QED BY <1>1, <1>3, <1>6, <1>7, <2>1 DEF TypeInv
<1>9. RootInv'
  BY <1>1, <1>2, <1>3, <1>7 DEF RootInv, RootKept, ParentRead
<1>10. RootStepInv'
  BY <1>1, <1>2, <1>3, <1>7 DEF RootStepInv, RootKept, ParentWritten, ParentRead
<1>11. FreeInv'
  BY <1>1, <1>2, <1>3 DEF FreeInv, Creating
<1> QED BY <1>8, <1>9, <1>10, <1>11 DEF IInv

\* A call that ends, or is cut short.
LEMMA IdleAgain ==
    ASSUME IInv, pc' = "idle", job' = Idle
    PROVE  /\ job' \in Jobs /\ job'.parent.past = 0
           /\ Root \notin {job'.inode.id, job'.dir.id}
           /\ pc' \notin ParentWritten \cup ParentRead \cup Creating
  BY NothingTyped, Constants DEF NoInode, ParentWritten, ParentRead, Creating

LEMMA update_superblockStep ==
    ASSUME IInv, update_superblock
    PROVE  IInv'
<1>1. TypeInv /\ RootInv /\ RootStepInv /\ FreeInv
  BY DEF IInv
<1>2. pc = "superblock" /\ overwritten = {} /\ disk_superblock' = superblock
  BY DEF update_superblock, At
<1>3. UNCHANGED <<inode_bits, data_bits, inodes, entries, superblock, root_inode,
                  current_dir_inode, overwritten, created, events>>
  BY DEF update_superblock, bitmaps, memory, ghosts
<1>4. /\ job' \in Jobs /\ job'.parent.past = 0
      /\ Root \notin {job'.inode.id, job'.dir.id}
      /\ pc' \notin ParentWritten \cup ParentRead \cup Creating
      /\ pc' = "idle" \/ job'.call = "mkdir"
  <2>1. CASE job.call = "mkdir"
    <3>1. pc' = "dot" /\ job' = job
      BY <2>1 DEF update_superblock
    <3> QED BY <1>1, <1>2, <2>1, <3>1 DEF TypeInv, RootInv, ParentWritten, ParentRead, Creating
  <2>2. CASE job.call # "mkdir"
    BY <2>2, IdleAgain DEF update_superblock
  <2> QED BY <2>1, <2>2
<1>5. TypeInv'
  BY <1>1, <1>2, <1>3, <1>4 DEF TypeInv
<1>6. RootInv'
  BY <1>1, <1>2, <1>3, <1>4 DEF RootInv, RootKept, ParentRead
<1>7. RootStepInv'
  BY <1>1, <1>2, <1>3, <1>4 DEF RootStepInv, RootKept, ParentWritten
<1>8. FreeInv'
  BY <1>1, <1>2, <1>3, <1>4 DEF FreeInv, Calls
<1> QED BY <1>5, <1>6, <1>7, <1>8 DEF IInv

-----------------------------------------------------------------------------
(* fs_make_dir() keeps the invariant                                       *)

LEMMA WriteDotStep ==
    ASSUME IInv, pc \in {"idle", "dot"}, overwritten = {},
           NEW file \in Flat, NEW dir \in Flat, NEW parent \in Flat, WriteDot(file, dir, parent),
           RootKept /\ parent.id = Root => parent = inodes[Root],
           events' \in SUBSET (events \cup MadeAgain), events \subseteq events',
           Root \in {file.id, dir.id} => "root made again" \in events'
    PROVE  IInv'
<1> DEFINE more == AtLeast(file, 1)
<1>1. TypeInv /\ RootInv /\ RootStepInv /\ FreeInv
  BY DEF IInv
<1>2. RootKept => root_inode = inodes[Root]
  BY <1>1 DEF RootStepInv, ParentWritten
<1>5. more \in Flat /\ more.id = file.id
  BY AtLeastTyped
<1>6. PICK page \in Loaded(file) :
          /\ WriteInode(more)
          /\ job' = [Idle EXCEPT !.call = "mkdir", !.parent = parent, !.dir = dir,
                         !.inode = more,
                         !.page = [page EXCEPT ![1] = [id |-> dir.id, name |-> "."]]]
          /\ pc' = "dot data"
          /\ UNCHANGED <<bitmaps, entries, disk_superblock, memory, created>>
  BY DEF WriteDot
<1> HIDE DEF more
<1>7. page \in Pages
  <2>1. CASE file.size = 0
    BY <1>6, <2>1, JunkTyped DEF Loaded
  <2>2. CASE file.size # 0
    <3>1. page = entries[file.first] /\ file.first \in Blocks
      BY <1>6, <2>2 DEF Loaded, Flat, Inodes
    <3> QED BY <1>1, <3>1 DEF TypeInv
  <2> QED BY <2>1, <2>2
<1> DEFINE made == [page EXCEPT ![1] = [id |-> dir.id, name |-> "."]]
<1>8. made \in Pages
  <2>1. dir.id \in Ids
    BY DEF Flat, Inodes
  <2> QED BY <1>7, <2>1, DotsWritten, Constants
<1>9. job' = [call |-> "mkdir", name |-> Idle.name, path |-> Idle.path, parent |-> parent,
              inode |-> more, dir |-> dir, page |-> made]
  BY <1>6 DEF Idle
<1> HIDE DEF made
<1>10. /\ job' \in Jobs /\ job'.parent = parent /\ job'.dir = dir /\ job'.inode = more
       /\ job'.call = "mkdir"
  <2>1. parent \in Inodes /\ parent.past = 0
    BY DEF Flat
  <2>2. Idle.name \in Names \cup {NoName} /\ Idle.path \in Paths
    BY NothingTyped, JobTyped
  <2> QED BY <1>5, <1>8, <1>9, <2>1, <2>2 DEF Jobs, Calls
<1>11. /\ inodes' \in [Ids -> Flat] /\ overwritten' \subseteq Blocks
       /\ \A i \in Ids : inodes'[i].id \in {0, i}
       /\ inodes'[Root].id = Root /\ (RootKept' => inodes'[Root] = inodes[Root])
  BY <1>1, <1>5, <1>6, InodeWritten DEF RootKept
<1>12. UNCHANGED <<inode_bits, data_bits, entries, disk_superblock, superblock, root_inode,
                   current_dir_inode, created>>
  BY <1>6 DEF bitmaps, memory
<1>13. TypeInv'
  <2>1. parent.past = 0
    BY DEF Flat
  <2> QED BY <1>1, <1>10, <1>11, <1>12, <2>1 DEF TypeInv
<1>14. RootInv'
  BY <1>1, <1>5, <1>6, <1>10, <1>11, <1>12 DEF RootInv, RootKept, ParentRead
<1>15. RootStepInv'
  BY <1>2, <1>6, <1>10, <1>11, <1>12 DEF RootStepInv, RootKept, ParentWritten
<1>16. FreeInv'
  <2>1. events' \cap {"create", "mkdir"} = {} => events \cap {"create", "mkdir"} = {}
    OBVIOUS
  <2> QED BY <1>1, <1>6, <1>10, <1>12, <2>1 DEF FreeInv, Creating, Calls
<1> QED BY <1>13, <1>14, <1>15, <1>16 DEF IInv

LEMMA MakeExistingStep ==
    ASSUME IInv, NEW p \in Paths, MakeExisting(p)
    PROVE  IInv'
<1>1. /\ pc = "idle" /\ overwritten = {}
      /\ WriteDot(inode_from_path(p), inode_from_path(p), parent_inode_from_path(p))
      /\ events' = events \cup {"made again"}
  BY DEF MakeExisting, At
<1>2. inode_from_path(p) \in Flat /\ inode_from_path(p).id # Root
  BY PathTyped DEF IInv
<1>3. RootKept => root_inode = inodes[Root]
  BY <1>1 DEF IInv, RootStepInv, ParentWritten
<1>4. /\ parent_inode_from_path(p) \in Flat
      /\ RootKept /\ parent_inode_from_path(p).id = Root =>
             parent_inode_from_path(p) = inodes[Root]
  BY <1>3, ParentTyped DEF IInv
<1>5. events' \in SUBSET (events \cup MadeAgain)
  BY <1>1 DEF MadeAgain
<1> QED BY <1>1, <1>2, <1>4, <1>5, WriteDotStep

\* Made again, the root directory is no longer kept.
LEMMA MakeSpecialStep ==
    ASSUME IInv, NEW path \in SpecialPaths, MakeSpecial(path)
    PROVE  IInv'
<1>1. /\ pc = "idle" /\ overwritten = {}
      /\ WriteDot(special_inode(path), special_inode(path), special_parent(path))
      /\ events' = events \cup
            {IF special_inode(path).id = Root THEN "root made again" ELSE "directory made again"}
  BY DEF MakeSpecial, At
<1>2. RootKept => root_inode = inodes[Root]
  BY <1>1 DEF IInv, RootStepInv, ParentWritten
<1>3. /\ special_inode(path) \in Flat /\ special_parent(path) \in Flat
      /\ RootKept /\ special_parent(path).id = Root => special_parent(path) = inodes[Root]
  BY <1>2, SpecialTyped DEF IInv
<1>4. events' \in SUBSET (events \cup MadeAgain)
  BY <1>1 DEF MadeAgain
<1>5. special_inode(path).id = Root => "root made again" \in events'
  BY <1>1
<1> QED BY <1>1, <1>3, <1>4, <1>5, WriteDotStep

LEMMA MakeCreatedStep ==
    ASSUME IInv, MakeCreated
    PROVE  IInv'
<1> DEFINE dir == inode_from_path(job.path)
           parent == parent_inode_from_path(job.path)
<1>1. pc = "dot" /\ overwritten = {} /\ WriteDot(job.inode, dir, parent) /\ events' = events
  BY DEF MakeCreated, At
<1>2. job.path \in Paths /\ job.inode \in Flat /\ job.inode.id # Root
  BY <1>1, JobTyped DEF IInv, TypeInv, RootInv, ParentRead
<1>3. dir \in Flat /\ dir.id # Root
  BY <1>2, PathTyped DEF IInv
<1>4. RootKept => root_inode = inodes[Root]
  BY <1>1 DEF IInv, RootStepInv, ParentWritten
<1>5. parent \in Flat /\ (RootKept /\ parent.id = Root => parent = inodes[Root])
  BY <1>2, <1>4, ParentTyped DEF IInv
<1> HIDE DEF dir, parent
<1> QED BY <1>1, <1>2, <1>3, <1>5, WriteDotStep

LEMMA SaveDotStep ==
    ASSUME IInv, SaveDot
    PROVE  IInv'
<1> DEFINE more == AtLeast(job.inode, 2)
           page == [job.page EXCEPT ![2] = [id |-> job.parent.id, name |-> ".."]]
<1>1. TypeInv /\ RootInv /\ RootStepInv /\ FreeInv
  BY DEF IInv
<1>2. /\ pc = "dot data" /\ overwritten = {} /\ pc' = "dotdot"
      /\ WriteBlock(job.inode.first, job.page)
  BY DEF SaveDot, At
<1>3. UNCHANGED <<inode_bits, data_bits, inodes, disk_superblock, superblock, root_inode,
                  current_dir_inode, created, events>>
  BY DEF SaveDot, bitmaps, memory
<1>4. /\ job \in Jobs /\ job.inode \in Flat /\ job.inode.first \in Blocks /\ job.page \in Pages
      /\ job.parent.id \in Ids
  BY <1>1, JobTyped DEF TypeInv
<1>5. more \in Flat /\ more.id = job.inode.id
  BY <1>4, AtLeastTyped
<1>6. page \in Pages
  BY <1>4, DotsWritten, Constants
<1>7. job' = [call |-> job.call, name |-> job.name, path |-> job.path, parent |-> job.parent,
              inode |-> more, dir |-> job.dir, page |-> page]
  BY <1>4 DEF SaveDot, Jobs
<1> HIDE DEF more, page
<1>8. /\ job' \in Jobs /\ job'.parent = job.parent /\ job'.dir = job.dir /\ job'.call = job.call
      /\ job'.inode = more
  BY <1>4, <1>5, <1>6, <1>7 DEF Jobs
<1>9. entries' \in [Blocks -> Pages] /\ overwritten' \subseteq Blocks
  BY <1>1, <1>2, <1>4, BlockWritten
<1>10. TypeInv'
  BY <1>1, <1>2, <1>3, <1>8, <1>9 DEF TypeInv
<1>11. RootInv'
  BY <1>1, <1>2, <1>3, <1>5, <1>8 DEF RootInv, RootKept, ParentRead
<1>12. RootStepInv'
  BY <1>1, <1>2, <1>3, <1>8 DEF RootStepInv, RootKept, ParentWritten, ParentRead
<1>13. FreeInv'
  BY <1>1, <1>2, <1>3, <1>8 DEF FreeInv, Creating
<1> QED BY <1>10, <1>11, <1>12, <1>13 DEF IInv

LEMMA WriteDotDotStep ==
    ASSUME IInv, WriteDotDot
    PROVE  IInv'
<1>1. TypeInv /\ RootInv /\ RootStepInv /\ FreeInv
  BY DEF IInv
<1>2. pc = "dotdot" /\ overwritten = {} /\ pc' = "dotdot data" /\ WriteInode(job.inode)
  BY DEF WriteDotDot, At
<1>3. UNCHANGED <<inode_bits, data_bits, entries, disk_superblock, superblock, root_inode,
                  current_dir_inode, job, created, events>>
  BY DEF WriteDotDot, bitmaps, memory
<1>4. job.inode \in Flat /\ (RootKept => job.inode.id # Root)
  BY <1>1, JobTyped DEF TypeInv, RootInv
<1>5. /\ inodes' \in [Ids -> Flat] /\ overwritten' \subseteq Blocks
      /\ \A i \in Ids : inodes'[i].id \in {0, i}
      /\ inodes'[Root].id = Root /\ (RootKept => inodes'[Root] = inodes[Root])
  BY <1>1, <1>2, <1>4, InodeWritten
<1>6. TypeInv'
  BY <1>1, <1>2, <1>3, <1>5 DEF TypeInv
<1>7. RootInv'
  BY <1>1, <1>2, <1>3, <1>5 DEF RootInv, RootKept, ParentRead
<1>8. RootStepInv'
  BY <1>1, <1>2, <1>3, <1>5 DEF RootStepInv, RootKept, ParentWritten, ParentRead
<1>9. FreeInv'
  BY <1>1, <1>2, <1>3 DEF FreeInv, Creating
<1> QED BY <1>6, <1>7, <1>8, <1>9 DEF IInv

LEMMA SaveDotDotStep ==
    ASSUME IInv, SaveDotDot
    PROVE  IInv'
<1>1. TypeInv /\ RootInv /\ RootStepInv /\ FreeInv
  BY DEF IInv
<1>2. /\ pc = "dotdot data" /\ overwritten = {} /\ pc' = "directory"
      /\ WriteBlock(job.inode.first, job.page)
  BY DEF SaveDotDot, At
<1>3. UNCHANGED <<inode_bits, data_bits, inodes, disk_superblock, superblock, root_inode,
                  current_dir_inode, job, created, events>>
  BY DEF SaveDotDot, bitmaps, memory
<1>4. job.inode.first \in Blocks /\ job.page \in Pages
  BY <1>1, JobTyped DEF TypeInv
<1>5. entries' \in [Blocks -> Pages] /\ overwritten' \subseteq Blocks
  BY <1>1, <1>2, <1>4, BlockWritten
<1>6. TypeInv'
  BY <1>1, <1>2, <1>3, <1>5 DEF TypeInv
<1>7. RootInv'
  BY <1>1, <1>2, <1>3 DEF RootInv, RootKept, ParentRead
<1>8. RootStepInv'
  BY <1>1, <1>2, <1>3 DEF RootStepInv, RootKept, ParentWritten, ParentRead
<1>9. FreeInv'
  BY <1>1, <1>2, <1>3 DEF FreeInv, Creating
<1> QED BY <1>6, <1>7, <1>8, <1>9 DEF IInv

LEMMA WriteDirectoryStep ==
    ASSUME IInv, WriteDirectory
    PROVE  IInv'
<1> DEFINE d == [job.dir EXCEPT !.type = "dir", !.size = 2]
<1>1. TypeInv /\ RootInv /\ RootStepInv /\ FreeInv
  BY DEF IInv
<1>2. /\ pc = "directory" /\ overwritten = {} /\ WriteInode(d)
      /\ RefreshCaches(job.parent) /\ pc' = "idle" /\ job' = Idle
  BY DEF WriteDirectory, At
<1>3. UNCHANGED <<inode_bits, data_bits, entries, disk_superblock, superblock, created, events>>
  BY DEF WriteDirectory, bitmaps
<1>4. job.dir \in Flat /\ (RootKept => job.dir.id # Root) /\ job.parent \in Flat
  BY <1>1, <1>2, JobTyped DEF TypeInv, RootInv
<1>5. d \in Flat /\ d.id = job.dir.id
  BY <1>4, Constants DEF Flat, Inodes
<1> HIDE DEF d
<1>6. /\ inodes' \in [Ids -> Flat] /\ overwritten' \subseteq Blocks
      /\ \A i \in Ids : inodes'[i].id \in {0, i}
      /\ inodes'[Root].id = Root /\ (RootKept => inodes'[Root] = inodes[Root])
  BY <1>1, <1>2, <1>4, <1>5, InodeWritten
<1>7. /\ root_inode' \in Flat /\ current_dir_inode' \in Flat
      /\ root_inode'.id = Root
      /\ RootKept /\ current_dir_inode'.id = Root => current_dir_inode' = root_inode'
      /\ root_inode' = IF job.parent.id = Root THEN job.parent ELSE root_inode
  BY <1>1, <1>2, <1>4, CachesRefreshed
<1>8. /\ job' \in Jobs /\ job'.parent.past = 0
      /\ Root \notin {job'.inode.id, job'.dir.id}
      /\ pc' \notin ParentWritten \cup ParentRead \cup Creating
  BY <1>2, IdleAgain
<1>9. TypeInv'
  BY <1>1, <1>3, <1>6, <1>7, <1>8 DEF TypeInv
<1>10. RootInv'
  BY <1>1, <1>2, <1>3, <1>6, <1>7, <1>8 DEF RootInv, RootKept, ParentRead
<1>11. RootStepInv'
  BY <1>1, <1>2, <1>3, <1>6, <1>7, <1>8 DEF RootStepInv, RootKept, ParentWritten, ParentRead
<1>12. FreeInv'
  BY <1>1, <1>2, <1>3, <1>8 DEF FreeInv, Creating
<1> QED BY <1>9, <1>10, <1>11, <1>12 DEF IInv

-----------------------------------------------------------------------------
(* fs_delete_file(), fs_rename_file(), fs_change_dir() and a restart       *)

LEMMA ClearDataStep ==
    ASSUME IInv, NEW p \in Paths, ClearData(p)
    PROVE  IInv'
<1> DEFINE file == inode_from_path(p)
           parent == parent_inode_from_path(p)
<1>1. TypeInv /\ RootInv /\ RootStepInv /\ FreeInv
  BY DEF IInv
<1>2. pc = "idle" /\ overwritten = {} /\ pc' = "rm data bit" /\ WriteBlock(file.first, EmptyBlock)
  BY DEF ClearData, At
<1>3. UNCHANGED <<inode_bits, data_bits, inodes, disk_superblock, superblock, root_inode,
                  current_dir_inode, created, events>>
  BY DEF ClearData, bitmaps, memory
<1>4. RootKept => root_inode = inodes[Root]
  BY <1>1, <1>2 DEF RootStepInv, ParentWritten
<1>5. file \in Flat /\ file.id # Root
  BY <1>1, PathTyped
<1>6. parent \in Flat
  BY <1>1, <1>4, ParentTyped
<1>7. job' = [call |-> "rm", name |-> p.name, path |-> Idle.path, parent |-> parent,
              inode |-> file, dir |-> NoInode, page |-> EmptyBlock]
  BY DEF ClearData, Idle
<1> HIDE DEF file, parent
<1>8. /\ job' \in Jobs /\ job'.parent = parent /\ job'.inode = file /\ job'.dir = NoInode
      /\ job'.call = "rm"
  <2>1. parent \in Inodes
    BY <1>6 DEF Flat
  <2>2. NoInode \in Flat /\ EmptyBlock \in Pages /\ Idle.path \in Paths
    BY NothingTyped, JobTyped
  <2>3. p.name \in Names
    BY DEF Paths
  <2> QED BY <1>5, <1>7, <2>1, <2>2, <2>3 DEF Jobs, Calls
<1>9. entries' \in [Blocks -> Pages] /\ overwritten' \subseteq Blocks
  <2>1. file.first \in Blocks
    BY <1>5 DEF Flat, Inodes
  <2> QED BY <1>1, <1>2, <2>1, BlockWritten, NothingTyped
<1>10. TypeInv'
  <2>1. parent.past = 0
    BY <1>6 DEF Flat
  <2> QED BY <1>1, <1>3, <1>8, <1>9, <2>1 DEF TypeInv
<1>11. RootInv'
  BY <1>1, <1>2, <1>3, <1>5, <1>8, NothingTyped, Constants DEF RootInv, RootKept, ParentRead
<1>12. RootStepInv'
  BY <1>2, <1>3, <1>4 DEF RootStepInv, RootKept, ParentWritten, ParentRead
<1>13. FreeInv'
  BY <1>1, <1>2, <1>3, <1>8 DEF FreeInv, Creating, Calls
<1> QED BY <1>10, <1>11, <1>12, <1>13 DEF IInv

LEMMA ClearDataBitStep ==
    ASSUME IInv, ClearDataBit
    PROVE  IInv'
<1>1. TypeInv /\ RootInv /\ RootStepInv /\ FreeInv
  BY DEF IInv
<1>2. /\ pc = "rm data bit" /\ overwritten = {} /\ pc' = "rm inode"
      /\ data_bits' = data_bits \ {job.inode.first}
  BY DEF ClearDataBit, At
<1>3. UNCHANGED <<inode_bits, inodes, entries, disk_superblock, superblock, root_inode,
                  current_dir_inode, job, overwritten, created, events>>
  BY DEF ClearDataBit, memory, ghosts
<1>4. TypeInv'
  BY <1>1, <1>2, <1>3 DEF TypeInv
<1>5. RootInv'
  BY <1>1, <1>2, <1>3 DEF RootInv, RootKept, ParentRead
<1>6. RootStepInv'
  BY <1>1, <1>2, <1>3 DEF RootStepInv, RootKept, ParentWritten, ParentRead
<1>7. FreeInv'
  BY <1>1, <1>2, <1>3 DEF FreeInv, Creating
<1> QED BY <1>4, <1>5, <1>6, <1>7 DEF IInv

LEMMA ClearInodeStep ==
    ASSUME IInv, ClearInode
    PROVE  IInv'
<1>1. TypeInv /\ RootInv /\ RootStepInv /\ FreeInv
  BY DEF IInv
<1>2. /\ pc = "rm inode" /\ overwritten = {} /\ pc' = "rm inode bit"
      /\ inodes' = [inodes EXCEPT ![job.inode.id] = NoInode]
  BY DEF ClearInode, At
<1>3. UNCHANGED <<inode_bits, data_bits, entries, disk_superblock, superblock, root_inode,
                  current_dir_inode, job, overwritten, created, events>>
  BY DEF ClearInode, bitmaps, memory, ghosts
<1>4. job.inode.id \in Ids /\ job.inode.id # Root
  BY <1>1, <1>2, JobTyped DEF TypeInv, RootInv, ParentRead
<1>5. inodes \in [Ids -> Flat]
  BY <1>1 DEF TypeInv
<1>6. /\ inodes' \in [Ids -> Flat]
      /\ \A i \in Ids : inodes'[i] = IF i = job.inode.id THEN NoInode ELSE inodes[i]
  BY <1>2, <1>4, <1>5, NothingTyped
<1>7. inodes'[Root] = inodes[Root] /\ \A i \in Ids : inodes'[i].id \in {0, i}
  BY <1>1, <1>4, <1>6, NothingTyped, Constants DEF RootInv
<1>8. TypeInv'
  BY <1>1, <1>2, <1>3, <1>6 DEF TypeInv
<1>9. RootInv'
  BY <1>1, <1>2, <1>3, <1>7 DEF RootInv, RootKept, ParentRead
<1>10. RootStepInv'
  BY <1>1, <1>2, <1>3, <1>7 DEF RootStepInv, RootKept, ParentWritten, ParentRead
<1>11. FreeInv'
  BY <1>1, <1>2, <1>3 DEF FreeInv, Creating
<1> QED BY <1>8, <1>9, <1>10, <1>11 DEF IInv

LEMMA ClearInodeBitStep ==
    ASSUME IInv, ClearInodeBit
    PROVE  IInv'
<1>1. TypeInv /\ RootInv /\ RootStepInv /\ FreeInv
  BY DEF IInv
<1>2. /\ pc = "rm inode bit" /\ overwritten = {} /\ pc' = "rm entry"
      /\ inode_bits' = inode_bits \ {job.inode.id}
  BY DEF ClearInodeBit, At
<1>3. UNCHANGED <<data_bits, inodes, entries, disk_superblock, superblock, root_inode,
                  current_dir_inode, job, overwritten, created, events>>
  BY DEF ClearInodeBit, memory, ghosts
<1>4. TypeInv'
  BY <1>1, <1>2, <1>3 DEF TypeInv
<1>5. RootInv'
  BY <1>1, <1>2, <1>3 DEF RootInv, RootKept, ParentRead
<1>6. RootStepInv'
  BY <1>1, <1>2, <1>3 DEF RootStepInv, RootKept, ParentWritten, ParentRead
<1>7. FreeInv'
  BY <1>1, <1>2, <1>3 DEF FreeInv, Creating
<1> QED BY <1>4, <1>5, <1>6, <1>7 DEF IInv

\* The entry is cleared, or there is none.
LEMMA ClearEntryStep ==
    ASSUME IInv, ClearEntry
    PROVE  IInv'
<1>1. TypeInv /\ RootInv /\ RootStepInv /\ FreeInv
  BY DEF IInv
<1>2. pc = "rm entry" /\ overwritten = {}
  BY DEF ClearEntry, At
<1>3. UNCHANGED <<inode_bits, data_bits, inodes, disk_superblock, superblock, root_inode,
                  current_dir_inode, created, events>>
  BY DEF ClearEntry, bitmaps, memory
<1>4. job \in Jobs /\ job.parent.past = 0 /\ job.parent.first \in Blocks
      /\ Root \notin {job.inode.id, job.dir.id}
  BY <1>1, <1>2, JobTyped DEF TypeInv, RootInv, ParentRead
<1>5. /\ entries' \in [Blocks -> Pages] /\ overwritten' \subseteq Blocks
      /\ job' \in Jobs /\ job'.parent.past = 0
      /\ Root \notin {job'.inode.id, job'.dir.id}
      /\ pc' \in {"idle", "rm parent"} /\ (pc' # "idle" => job' = job)
  <2>1. CASE SlotsOf(job.parent, job.inode.id) = {}
    <3>1. pc' = "idle" /\ job' = Idle /\ UNCHANGED <<entries, overwritten>>
      BY <2>1 DEF ClearEntry
    <3> QED BY <1>1, <1>2, <3>1, IdleAgain DEF TypeInv
  <2>2. CASE SlotsOf(job.parent, job.inode.id) # {}
    <3> DEFINE s == FirstSlot(SlotsOf(job.parent, job.inode.id))
               page == [entries[job.parent.first] EXCEPT ![s] = NoEntry]
    <3>1. SlotsOf(job.parent, job.inode.id) \subseteq Slots
      BY DEF SlotsOf
    <3>2. s \in Slots
      BY <2>2, <3>1, FirstSlotIn
    <3>3. WriteBlock(job.parent.first, page) /\ pc' = "rm parent" /\ UNCHANGED job
      BY <2>2 DEF ClearEntry
    <3>4. entries[job.parent.first] \in Pages
      BY <1>1, <1>4 DEF TypeInv
    <3> HIDE DEF s
    <3>5. page \in Pages
      <4>1. EmptyBlock[s] = NoEntry /\ EmptyBlock \in Pages
        BY <3>2, NothingTyped DEF EmptyBlock
      <4> QED BY <3>2, <3>4, <4>1 DEF Pages
    <3> HIDE DEF page
    <3>6. entries' \in [Blocks -> Pages] /\ overwritten' \subseteq Blocks
      BY <1>1, <1>4, <3>3, <3>5, BlockWritten
    <3> QED BY <1>4, <3>3, <3>6
  <2> QED BY <2>1, <2>2
<1>6. TypeInv'
  BY <1>1, <1>3, <1>5 DEF TypeInv
<1>7. RootInv'
  BY <1>1, <1>2, <1>3, <1>5 DEF RootInv, RootKept, ParentRead
<1>8. RootStepInv'
  BY <1>1, <1>2, <1>3, <1>5 DEF RootStepInv, RootKept, ParentWritten, ParentRead
<1>9. FreeInv'
  BY <1>1, <1>2, <1>3, <1>5 DEF FreeInv, Creating
<1> QED BY <1>6, <1>7, <1>8, <1>9 DEF IInv

\* The parent is written with one entry less; the copies follow, at once or when
\* its block is given back.
LEMMA ShrinkParentStep ==
    ASSUME IInv, ShrinkParent
    PROVE  IInv'
<1> DEFINE d == [job.parent EXCEPT !.size = (@ - 1) % U32]
<1>1. TypeInv /\ RootInv /\ RootStepInv /\ FreeInv
  BY DEF IInv
<1>2. pc = "rm parent" /\ overwritten = {} /\ WriteInode(d)
  BY DEF ShrinkParent, At
<1>3. UNCHANGED <<inode_bits, data_bits, entries, disk_superblock, superblock, created, events>>
  BY DEF ShrinkParent, bitmaps
<1>4. job \in Jobs /\ job.parent \in Flat /\ job.parent.size \in 0 .. U32 - 1
  BY <1>1, <1>2, JobTyped DEF TypeInv
<1>5. d \in Flat /\ d.id = job.parent.id
  <2>1. (job.parent.size - 1) % U32 \in 0 .. U32 - 1
    BY <1>4, Wraps
  <2> QED BY <1>4, <2>1 DEF Flat, Inodes
<1>6. \/ /\ job' = [job EXCEPT !.parent = d] /\ pc' = "rm parent bit"
         /\ UNCHANGED <<current_dir_inode, root_inode>>
      \/ job' = Idle /\ pc' = "idle" /\ RefreshCaches(d)
  BY DEF ShrinkParent
<1> HIDE DEF d
<1>7. /\ inodes' \in [Ids -> Flat] /\ overwritten' \subseteq Blocks
      /\ \A i \in Ids : inodes'[i].id \in {0, i}
      /\ inodes'[Root].id = Root /\ inodes'[Root] = IF d.id = Root THEN d ELSE inodes[Root]
  BY <1>1, <1>2, <1>5, InodeWritten
<1>8. RootKept => root_inode = inodes[Root]
  BY <1>1, <1>2 DEF RootStepInv, ParentWritten
<1>9. CASE /\ job' = [job EXCEPT !.parent = d] /\ pc' = "rm parent bit"
           /\ UNCHANGED <<current_dir_inode, root_inode>>
  <2>1. /\ job' \in Jobs /\ job'.parent = d /\ job'.dir = job.dir /\ job'.inode = job.inode
        /\ job'.call = job.call
    <3>1. d \in Inodes
      BY <1>5 DEF Flat
    <3> QED BY <1>4, <1>9, <3>1 DEF Jobs
  <2>2. TypeInv'
    <3>1. d.past = 0
      BY <1>5 DEF Flat
    <3> QED BY <1>1, <1>3, <1>7, <1>9, <2>1, <3>1 DEF TypeInv
  <2>3. RootInv'
    BY <1>1, <1>2, <1>3, <1>7, <1>9, <2>1 DEF RootInv, RootKept, ParentRead
  <2>4. RootStepInv'
    BY <1>3, <1>7, <1>8, <1>9, <2>1 DEF RootStepInv, RootKept, ParentWritten, ParentRead
  <2>5. FreeInv'
    BY <1>1, <1>2, <1>3, <1>9, <2>1 DEF FreeInv, Creating
  <2> QED BY <2>2, <2>3, <2>4, <2>5 DEF IInv
<1>10. CASE job' = Idle /\ pc' = "idle" /\ RefreshCaches(d)
  <2>1. /\ root_inode' \in Flat /\ current_dir_inode' \in Flat
        /\ root_inode'.id = Root
        /\ RootKept /\ current_dir_inode'.id = Root => current_dir_inode' = root_inode'
        /\ root_inode' = IF d.id = Root THEN d ELSE root_inode
    BY <1>1, <1>5, <1>10, CachesRefreshed
  <2>2. /\ job' \in Jobs /\ job'.parent.past = 0
        /\ Root \notin {job'.inode.id, job'.dir.id}
        /\ pc' \notin ParentWritten \cup ParentRead \cup Creating
    BY <1>10, IdleAgain
  <2>3. TypeInv'
    BY <1>1, <1>3, <1>7, <2>1, <2>2 DEF TypeInv
  <2>4. RootInv'
    BY <1>1, <1>2, <1>3, <1>7, <2>1, <2>2 DEF RootInv, RootKept, ParentRead
  <2>5. RootStepInv'
    BY <1>3, <1>7, <1>8, <2>1, <2>2 DEF RootStepInv, RootKept
  <2>6. FreeInv'
    BY <1>1, <1>2, <1>3, <1>10, <2>2 DEF FreeInv, Creating
  <2> QED BY <2>3, <2>4, <2>5, <2>6 DEF IInv
<1> QED BY <1>6, <1>9, <1>10

LEMMA ReleaseBlockStep ==
    ASSUME IInv, ReleaseBlock
    PROVE  IInv'
<1>1. TypeInv /\ RootInv /\ RootStepInv /\ FreeInv
  BY DEF IInv
<1>2. /\ pc = "rm parent bit" /\ overwritten = {} /\ pc' = "idle" /\ job' = Idle
      /\ RefreshCaches(job.parent) /\ data_bits' = data_bits \ {job.parent.first}
  BY DEF ReleaseBlock, At
<1>3. UNCHANGED <<inode_bits, inodes, entries, disk_superblock, superblock, overwritten,
                  created, events>>
  BY DEF ReleaseBlock, ghosts
<1>4. job.parent \in Flat
  BY <1>1, <1>2, JobTyped DEF TypeInv
<1>5. /\ root_inode' \in Flat /\ current_dir_inode' \in Flat
      /\ root_inode'.id = Root
      /\ RootKept /\ current_dir_inode'.id = Root => current_dir_inode' = root_inode'
      /\ root_inode' = IF job.parent.id = Root THEN job.parent ELSE root_inode
  BY <1>1, <1>2, <1>4, CachesRefreshed
<1>6. /\ job' \in Jobs /\ job'.parent.past = 0
      /\ Root \notin {job'.inode.id, job'.dir.id}
      /\ pc' \notin ParentWritten \cup ParentRead \cup Creating
  BY <1>2, IdleAgain
<1>7. TypeInv'
  BY <1>1, <1>2, <1>3, <1>5, <1>6 DEF TypeInv
<1>8. RootInv'
  BY <1>1, <1>2, <1>3, <1>5, <1>6 DEF RootInv, RootKept, ParentRead
<1>9. RootStepInv'
  BY <1>1, <1>2, <1>3, <1>5, <1>6 DEF RootStepInv, RootKept, ParentWritten
<1>10. FreeInv'
  BY <1>1, <1>2, <1>3, <1>6 DEF FreeInv, Creating
<1> QED BY <1>7, <1>8, <1>9, <1>10 DEF IInv

LEMMA RenameStep ==
    ASSUME IInv, NEW p \in Paths, NEW new \in Names, fs_rename_file(p, new)
    PROVE  IInv'
<1> DEFINE file == inode_from_path(p)
           parent == parent_inode_from_path(p)
           s == FirstSlot(SlotsOf(parent, file.id))
           page == [entries[parent.first] EXCEPT ![s] = [id |-> file.id, name |-> new]]
<1>1. TypeInv /\ RootInv /\ RootStepInv /\ FreeInv
  BY DEF IInv
<1>2. /\ pc = "idle" /\ overwritten = {} /\ SlotsOf(parent, file.id) # {}
      /\ WriteBlock(parent.first, page)
  BY DEF fs_rename_file, At
<1>3. UNCHANGED <<inode_bits, data_bits, inodes, disk_superblock, superblock, root_inode,
                  current_dir_inode, pc, job, created, events>>
  BY DEF fs_rename_file, bitmaps, memory
<1>4. file.id \in Ids \ {Root}
  BY <1>1, PathTyped DEF Flat, Inodes
<1>5. RootKept => root_inode = inodes[Root]
  BY <1>1, <1>2 DEF RootStepInv, ParentWritten
<1>6. parent.first \in Blocks
  BY <1>1, <1>5, ParentTyped DEF Flat, Inodes
<1>7. SlotsOf(parent, file.id) \subseteq Slots
  BY DEF SlotsOf
<1>8. s \in Slots
  BY <1>2, <1>7, FirstSlotIn
<1>9. entries[parent.first] \in Pages
  BY <1>1, <1>6 DEF TypeInv
<1> HIDE DEF file, parent, s
<1>10. page \in Pages
  BY <1>4, <1>8, <1>9, EntryWritten
<1> HIDE DEF page
<1>11. entries' \in [Blocks -> Pages] /\ overwritten' \subseteq Blocks
  BY <1>1, <1>2, <1>6, <1>10, BlockWritten
<1>12. TypeInv'
  BY <1>1, <1>2, <1>3, <1>11 DEF TypeInv
<1>13. RootInv'
  BY <1>1, <1>2, <1>3 DEF RootInv, RootKept, ParentRead
<1>14. RootStepInv'
  BY <1>1, <1>2, <1>3 DEF RootStepInv, RootKept, ParentWritten, ParentRead
<1>15. FreeInv'
  BY <1>1, <1>2, <1>3 DEF FreeInv, Creating
<1> QED BY <1>12, <1>13, <1>14, <1>15 DEF IInv

LEMMA ChangeDirStep ==
    ASSUME IInv,
           (\E p \in Paths : fs_change_dir(p)) \/ \E path \in SpecialPaths : ChangeToSpecial(path)
    PROVE  IInv'
<1>1. TypeInv /\ RootInv /\ RootStepInv /\ FreeInv
  BY DEF IInv
<1>2. UNCHANGED <<inode_bits, data_bits, inodes, entries, disk_superblock, superblock, root_inode,
                  pc, job, overwritten, created, events>>
  BY DEF ChangeToSpecial, fs_change_dir, disk, bitmaps, ghosts
<1>3. /\ current_dir_inode' \in Flat
      /\ RootKept /\ current_dir_inode'.id = Root => current_dir_inode' = root_inode
  <2>1. CASE \E path \in SpecialPaths : ChangeToSpecial(path)
    <3>1. PICK path \in SpecialPaths :
              current_dir_inode' = special_inode(path) /\ pc = "idle" /\ overwritten = {}
      BY <2>1 DEF ChangeToSpecial, At
    <3>2. RootKept => root_inode = inodes[Root]
      BY <1>1, <3>1 DEF RootStepInv, ParentWritten
    <3> QED BY <1>1, <3>1, <3>2, SpecialTyped
  <2>2. CASE \E p \in Paths : fs_change_dir(p)
    <3>1. PICK p \in Paths : current_dir_inode' = inode_from_path(p)
      BY <2>2 DEF fs_change_dir
    <3> QED BY <1>1, <3>1, PathTyped
  <2> QED BY <2>1, <2>2
<1>4. TypeInv'
  BY <1>1, <1>2, <1>3 DEF TypeInv
<1>5. RootInv'
  BY <1>1, <1>2, <1>3 DEF RootInv, RootKept
<1>6. RootStepInv'
  BY <1>1, <1>2 DEF RootStepInv, RootKept
<1>7. FreeInv'
  BY <1>1, <1>2 DEF FreeInv
<1> QED BY <1>4, <1>5, <1>6, <1>7 DEF IInv

\* What is in memory comes from disk; a call that created a file leaves its mark.
LEMMA RestartStep ==
    ASSUME IInv, Restart
    PROVE  IInv'
<1>1. TypeInv /\ RootInv /\ RootStepInv /\ FreeInv
  BY DEF IInv
<1>2. /\ overwritten = {} /\ superblock' = disk_superblock
      /\ root_inode' = inodes[Root] /\ current_dir_inode' = inodes[Root]
      /\ pc' = "idle" /\ job' = Idle
      /\ events' = events \cup IF pc = "idle" THEN {} ELSE {job.call}
  BY DEF Restart
<1>3. UNCHANGED <<inode_bits, data_bits, inodes, entries, disk_superblock, overwritten, created>>
  BY DEF Restart, disk, bitmaps
<1>4. /\ job' \in Jobs /\ job'.parent.past = 0
      /\ Root \notin {job'.inode.id, job'.dir.id}
      /\ pc' \notin ParentWritten \cup ParentRead \cup Creating
  BY <1>2, IdleAgain
<1>5. inodes[Root] \in Flat
  BY <1>1, Constants DEF TypeInv
<1>6. pc = "idle" \/ job.call \in Calls
  BY <1>1 DEF FreeInv
<1>7. TypeInv'
  BY <1>1, <1>2, <1>3, <1>4, <1>5, <1>6 DEF TypeInv
<1>8. RootInv'
  BY <1>1, <1>2, <1>3, <1>4 DEF RootInv, RootKept, ParentRead
<1>9. RootStepInv'
  BY <1>2, <1>3, <1>4 DEF RootStepInv, RootKept
<1>10. FreeInv'
  BY <1>1, <1>2, <1>3, <1>4 DEF FreeInv, Creating
<1> QED BY <1>7, <1>8, <1>9, <1>10 DEF IInv

-----------------------------------------------------------------------------
(* The theorems                                                            *)

LEMMA StutterInv ==
    ASSUME IInv, UNCHANGED vars
    PROVE  IInv'
<1>1. UNCHANGED <<inode_bits, data_bits, inodes, entries, disk_superblock, superblock, root_inode,
                  current_dir_inode, pc, job, overwritten, created, events>>
  BY DEF vars, disk, bitmaps, memory, ghosts
<1>2. TypeInv' /\ RootInv'
  BY <1>1 DEF IInv, TypeInv, RootInv, RootKept
<1>3. RootStepInv' /\ FreeInv'
  BY <1>1 DEF IInv, RootStepInv, RootKept, FreeInv
<1> QED BY <1>2, <1>3 DEF IInv

LEMMA NextInv ==
    ASSUME IInv, [Next]_vars
    PROVE  IInv'
<1>1. CASE fs_create_file
  <2>1. CASE \E p \in Paths, call \in {"create", "mkdir"} : SetInodeBit(p, call)
    BY <2>1, SetInodeBitStep
  <2>2. CASE SetDataBit \/ WriteNewInode \/ WriteParent \/ WriteEntry \/ update_superblock
    BY <2>2, SetDataBitStep, WriteNewInodeStep, WriteParentStep, WriteEntryStep,
       update_superblockStep
  <2>3. CASE GrowNextBlock \/ GrowElsewhere \/ ClearNewBlock
    BY <2>3, GrowNextBlockStep, GrowElsewhereStep, ClearNewBlockStep
  <2> QED BY <1>1, <2>1, <2>2, <2>3 DEF fs_create_file
<1>2. CASE fs_make_dir
  BY <1>2, MakeExistingStep, MakeSpecialStep, MakeCreatedStep, SaveDotStep, WriteDotDotStep, SaveDotDotStep,
     WriteDirectoryStep DEF fs_make_dir
<1>3. CASE fs_delete_file
  BY <1>3, ClearDataStep, ClearDataBitStep, ClearInodeStep, ClearInodeBitStep, ClearEntryStep,
     ShrinkParentStep, ReleaseBlockStep DEF fs_delete_file
<1>4. CASE \E p \in Paths : fs_change_dir(p) \/ \E new \in Names : fs_rename_file(p, new)
  BY <1>4, ChangeDirStep, RenameStep
<1>5. CASE (\E path \in SpecialPaths : ChangeToSpecial(path)) \/ Restart
  BY <1>5, ChangeDirStep, RestartStep
<1>6. CASE UNCHANGED vars
  BY <1>6, StutterInv
<1> QED BY <1>1, <1>2, <1>3, <1>4, <1>5, <1>6 DEF Next

\* Through every sequence of calls and of stops, IInv holds (fs_impl.h).
THEOREM Invariant == Spec => []IInv
<1>1. Init => IInv
  BY InitInv
<1>2. IInv /\ [Next]_vars => IInv'
  BY NextInv
<1> QED BY <1>1, <1>2, PTL DEF Spec

\* Every variable has its type: no call works on an inode or a page that is none,
\* whatever a path finds and wherever the machine stops (fs.h).
THEOREM TypeCorrect == Spec => []TypeOK
<1>1. IInv => TypeOK
  <2> SUFFICES ASSUME IInv PROVE TypeOK
    OBVIOUS
  <2>1. TypeInv
    BY DEF IInv
  <2>2. Flat \subseteq Inodes
    BY DEF Flat
  <2>3. \A page \in Pages, s \in Slots : page[s] \in Entries
    BY DEF Pages, Found
  <2>4. inodes \in [Ids -> Inodes]
    BY <2>1, <2>2 DEF TypeInv
  <2>5. \A b \in Blocks, s \in Slots : entries[b][s] \in Entries
    BY <2>1, <2>3 DEF TypeInv
  <2>6. /\ job.path \in Paths /\ job.name \in Names \cup {NoName}
        /\ {job.parent, job.inode, job.dir} \subseteq Inodes
        /\ \A s \in Slots : job.page[s] \in Entries
    BY <2>1, <2>2, <2>3, JobTyped DEF TypeInv
  <2> QED BY <2>1, <2>2, <2>4, <2>5, <2>6 DEF TypeInv, TypeOK, Superblocks
<1> QED BY <1>1, Invariant, PTL

\* The root directory's inode in memory is the one on disk between two calls,
\* whichever directory is current and wherever the machine stopped, as long as
\* nobody makes the root directory itself again (root_inode, fs_impl.h:639-668).
THEOREM RootFollowsDisk == Spec => []RootInStep
<1>1. IInv => RootInStep
  BY DEF IInv, RootStepInv, RootInStep, RootKept, ParentWritten
<1> QED BY <1>1, Invariant, PTL

\* The first free bits that the superblock remembers are free between two calls,
\* until a call that creates a file is cut short (fs_create_file(),
\* fs_delete_file()).
THEOREM RememberedBitsFree == Spec => []FirstFreeIsFree
<1>1. IInv => FirstFreeIsFree
  BY DEF IInv, FreeInv, FirstFreeIsFree
<1> QED BY <1>1, Invariant, PTL

-----------------------------------------------------------------------------
(* That no two files share a block                                         *)

\* Nothing has happened that NoSharedBlocks does not survive.
Ordinary == events \cap ({"rm", "file as directory"} \cup MadeAgain) = {}

\* Nor has a mkdir of what exists met a directory without a slot or a call cut short.
Followed == Ordinary \/ events = {"made again"}

\* That a name leads to a file is followed through directories without a slot, or a
\* mkdir of what exists, and not through both.
Kept == events \in {{}, {"no slot"}, {"made again"}}

\* The inodes on disk that are those of a file or a directory.
Written == {i \in Ids \ {0} : inodes[i].id = i}
Directories == {i \in Written : inodes[i].type = "dir"}

Apart ==
    \A i, j \in Written : i # j /\ inodes[i].first = inodes[j].first => inodes[i].first = 0

\* The id and the block that the superblock on disk has as free may be those of a
\* file whose creation was cut short: of one file, and of no directory.
DiskInv ==
    /\ Written \subseteq inode_bits
    /\ \A i \in Ids \ {0} : inodes[i].id = 0 => inodes[i] = NoInode
    /\ \A i \in Written : inodes[i].first \in data_bits \/ inodes[i].first = 0
                              \/ (pc = "rm inode" /\ i = job.inode.id)
    /\ \A i \in Written : inodes[i].first = disk_superblock.data =>
                              inodes[i].first = 0 \/ i = disk_superblock.inode
    /\ disk_superblock.inode \notin Directories

\* The slots of a page that hold a name.
Named(page) == {s \in Slots : page[s].name \in Names}

\* A directory's page: "." and "..", which lead to directories and which no name
\* in it does.
IsDirectory(k, page, dirs) ==
    /\ page[1] = [id |-> k, name |-> "."]
    /\ page[2].name = ".." /\ page[2].id \in dirs
    /\ \A s \in Named(page) : page[s].id \notin {k, page[2].id}

\* A directory that is made again has no ".." until it is written.
Remade == IF pc \in {"dotdot", "dotdot data"} THEN {job.inode.id} ELSE {}

\* A name is in a directory, and so is the id of a file.
DirectoryInv ==
    /\ Root \in Directories
    /\ \A k \in Directories : inodes[k].first # 0
    /\ \A k \in Directories \ Remade :
           IsDirectory(k, entries[inodes[k].first], Directories)
    /\ \A b \in Blocks : Named(entries[b]) # {} => \E k \in Directories : inodes[k].first = b
    /\ \A b \in Blocks, s \in Slots :
           entries[b][s].id \in Ids \ {0} => s \in Named(entries[b]) \cup {1, 2}

\* What creates a file has not counted it in its directory yet.
Before == {"data bit", "inode", "grow", "clear", "parent"}

\* A directory's size counts its names, and never wraps; one that is made again has
\* size 2, whatever names are in it, and the current directory's is not looked at.
SizeInv ==
    Ordinary =>
        \A k \in Directories :
            /\ Cardinality(Named(entries[inodes[k].first])) + 2 <= inodes[k].size
            /\ inodes[k].size <= created + (IF pc \in Before THEN 1 ELSE 2)

\* A copy of a directory's inode, of which only the size may differ.
Copy(d) == d.first = inodes[d.id].first /\ d.type = "dir"

CacheInv ==
    /\ current_dir_inode.id \in Directories /\ Copy(current_dir_inode)
    /\ root_inode.first = inodes[Root].first
    /\ Ordinary =>
           /\ current_dir_inode.size > 0 /\ root_inode.size > 0
           /\ ~(pc = "entry" /\ job.parent.id = current_dir_inode.id) =>
                  current_dir_inode = inodes[current_dir_inode.id]

\* A file is being created, in a directory.
CreateInv ==
    pc \in Creating =>
        /\ job.parent.id \in Directories /\ Copy(job.parent)
        /\ job.name \in Names
        /\ Ordinary => job.parent.size = inodes[job.parent.id].size
        /\ pc = "entry" => job.parent = inodes[job.parent.id]
        /\ Ordinary /\ pc = "entry" =>
               Cardinality(Named(entries[job.parent.first])) + 3 <= job.parent.size

\* What it takes is what the superblock on disk has as free.
NewFileInv ==
    pc \in Creating =>
        /\ job.inode.id = disk_superblock.inode /\ job.inode.id \in inode_bits
        /\ job.inode.type = "file" /\ job.inode.size = 0
        /\ superblock.inode \in inode_bits => superblock.inode = 0
        /\ pc = "data bit" => superblock.data = disk_superblock.data
        /\ pc # "data bit" =>
               /\ job.inode.first = disk_superblock.data /\ job.inode.first \in data_bits
               /\ superblock.data \in data_bits =>
                      superblock.data = 0 \/ (pc = "clear" /\ job.parent.past = 1)
        /\ pc \notin {"data bit", "inode"} /\ job.inode.id # 0 => inodes[job.inode.id] = job.inode

\* What a name leads to in directory d, in terms of the entries and inodes on disk.
FoundIn(page, n) ==
    LET matches == {s \in Slots : <<n, page[s].name>> \in Prefixes}
    IN  IF matches = {} THEN 0 ELSE page[FirstSlot(matches)].id

Got(pages, nodes, d, n) ==
    IF d.size > 0 /\ FoundIn(pages[d.first], n) # 0 THEN nodes[FoundIn(pages[d.first], n)]
    ELSE NoInode

\* Where the name of a path is looked for.
DirectoryOf(p, pages, nodes, root, current) ==
    LET start == IF p.absolute THEN root ELSE current
    IN  IF p.dir = NoName THEN start ELSE Got(pages, nodes, start, p.dir)

\* Until mkdir looks its path up again, it leads to the file it creates or to none,
\* if the directory is to have room for more than its two first entries.
LookupInv ==
    /\ job.call = "mkdir" /\ pc \in Creating \cup {"dot"}
    /\ pc \in Before => job.parent.size > 1
    /\ pc = "entry" => job.parent.size > 2
    =>
        LET d == DirectoryOf(job.path, entries, inodes, root_inode, current_dir_inode)
        IN  /\ Got(entries, inodes, d, job.path.name).id \in {0, job.inode.id}
            /\ pc \in Before \cup {"entry"} =>
                   /\ job.path.name = job.name
                   /\ d.id = job.parent.id /\ d.first = job.parent.first /\ d.size > 0

\* A file is being made a directory: it is one with the last write, unless it was
\* before.
NewDirectoryInv ==
    pc \in {"dot"} \cup ParentRead =>
        /\ job.call = "mkdir" /\ job.inode.id \in inode_bits
        /\ job.inode.id # 0 =>
               /\ job.inode.id \in Written
               /\ inodes[job.inode.id].first = job.inode.first
               /\ inodes[job.inode.id].type = job.inode.type
        /\ Ordinary \/ pc = "dot" \/ job.inode.id = 0 => job.inode.type = "file"
        /\ pc = "dot" => job.inode.size = 0
        /\ \A i \in Written :
               i # job.inode.id /\ inodes[i].first = job.inode.first => inodes[i].first = 0
        /\ disk_superblock.inode \in inode_bits => disk_superblock.inode = 0

\* Its page, and its parent: only what was a directory before has names in it.
NewPageInv ==
    pc \in ParentRead =>
        /\ job.dir.id # 0 \/ job.inode.type = "dir" =>
               /\ job.dir.id = job.inode.id /\ job.dir.first = job.inode.first
               /\ job.parent.id \in Directories
        /\ job.parent.id \in Directories => Copy(job.parent)
        /\ Ordinary /\ job.parent.id \in Directories => job.parent = inodes[job.parent.id]
        /\ Named(job.page) # {} => job.inode.type = "dir"
        /\ job.page[1] = [id |-> job.dir.id, name |-> "."]
        /\ \A s \in Named(job.page) : job.page[s].id \notin {job.dir.id, job.parent.id}
        /\ \A s \in Slots : job.page[s].id \in Ids \ {0} => s \in Named(job.page) \cup {1, 2}
        /\ pc # "dot data" =>
               job.inode.first # 0 /\ job.page[2] = [id |-> job.parent.id, name |-> ".."]
        /\ pc = "directory" => entries[job.inode.first] = job.page

Removing == {"rm data bit", "rm inode", "rm inode bit", "rm entry", "rm parent"}

\* A file is being deleted, from a directory; the block of a directory is kept.
RemoveInv ==
    /\ pc # "rm parent bit"
    /\ pc \in Removing =>
        /\ job.call = "rm"
        /\ job.parent.id \in Directories /\ Copy(job.parent)
        /\ Ordinary => job.parent = inodes[job.parent.id]
        /\ job.inode.id # 0
        /\ pc \in {"rm data bit", "rm inode"} =>
               job.inode.id \in Written \ Directories
               /\ inodes[job.inode.id].first = job.inode.first
        /\ pc \in {"rm inode bit", "rm entry", "rm parent"} => job.inode.id \notin Written
        /\ Ordinary /\ pc = "rm parent" =>
               Cardinality(Named(entries[job.parent.first])) + 3 <= job.parent.size

FilesInv ==
    /\ DiskInv /\ DirectoryInv /\ SizeInv /\ CacheInv
    /\ CreateInv /\ NewFileInv /\ LookupInv
    /\ NewDirectoryInv /\ NewPageInv /\ RemoveInv

SharedInv == Followed => Apart /\ (overwritten = {} => FilesInv)

\* An id is in one entry.
PlacesUnique ==
    \A b, c \in Blocks : \A s \in Named(entries[b]), t \in Named(entries[c]) :
        entries[b][s].id = entries[c][t].id /\ entries[b][s].id # 0 => b = c /\ s = t

\* What an entry leads to is a file, until its inode is cleared.
Cleared == IF pc \in {"rm inode", "rm inode bit", "rm entry"} THEN {job.inode.id} ELSE {}

PlaceInv ==
    \A b \in Blocks : \A s \in Named(entries[b]) :
        LET i == entries[b][s].id
        IN  i # 0 /\ i \notin Cleared => i \in Written /\ inodes[i].first \in data_bits

\* The directory that a name leads to has its ".." lead back.
ParentInv ==
    \A k \in Directories, s \in Slots :
        LET m == entries[inodes[k].first][s].id
        IN  s \in Named(entries[inodes[k].first]) /\ m \in Directories \ Remade =>
                entries[inodes[m].first][2].id = k

Enters(d, i) == \E s \in Named(entries[d.first]) : entries[d.first][s].id = i

\* Of a call that runs: a new file is in no entry yet, one that is deleted still is,
\* and so is what is made a directory, in another one; its page has the names that
\* its block has.
StepInv ==
    /\ 0 \in data_bits
    /\ pc \in Before \cup {"entry"} =>
           \A b \in Blocks : \A s \in Named(entries[b]) :
               entries[b][s].id = job.inode.id => job.inode.id = 0
    /\ pc \in Removing \ {"rm parent"} => Enters(job.parent, job.inode.id)
    /\ pc = "rm data bit" => job.inode.first # 0
    /\ pc \in ParentRead /\ job.dir.id # 0 =>
           job.parent.id # job.dir.id /\ Enters(job.parent, job.dir.id)
    /\ pc \in ParentRead =>
           \A s \in Named(job.page) :
               s \in Named(entries[job.inode.first]) /\ job.page[s] = entries[job.inode.first][s]

\* A file is entered in a directory, or about to be.
Entering == {"grow", "clear", "parent", "entry"}

EnteredInv ==
    events = {} =>
        \A i \in Written \ {Root} :
            \/ \E b \in Blocks : \E s \in Named(entries[b]) : entries[b][s].id = i
            \/ pc \in Entering /\ i = job.inode.id

EntriesInv == PlacesUnique /\ PlaceInv /\ ParentInv /\ StepInv /\ EnteredInv

KeptInv == Kept /\ overwritten = {} => EntriesInv

\* A page's names: how many there are, and what a write leaves of them.
LEMMA NamesCounted ==
    ASSUME NEW page
    PROVE  /\ Named(page) \subseteq Slots /\ IsFiniteSet(Named(page))
           /\ Cardinality(Named(page)) \in Nat
<1>1. IsFiniteSet(Slots)
  <2>1. EntriesPerBlock \in Nat /\ 1 \in Int
    BY SizesAssumption
  <2> QED BY <2>1, FS_Interval DEF Slots
<1>2. Named(page) \subseteq Slots
  BY DEF Named
<1> QED BY <1>1, <1>2, FS_Subset, FS_CardinalityType

LEMMA NameWritten ==
    ASSUME NEW page \in Pages, NEW s \in Slots, NEW e
    PROVE  /\ \A t \in Slots : [page EXCEPT ![s] = e][t] = IF t = s THEN e ELSE page[t]
           /\ e.name \in Names => Named([page EXCEPT ![s] = e]) = Named(page) \cup {s}
           /\ e.name \notin Names => Named([page EXCEPT ![s] = e]) = Named(page) \ {s}
<1>1. \A t \in Slots : [page EXCEPT ![s] = e][t] = IF t = s THEN e ELSE page[t]
  BY DEF Pages
<1> QED BY <1>1 DEF Named

LEMMA OneNameMore ==
    ASSUME NEW page, NEW s \in Slots
    PROVE  Cardinality(Named(page) \cup {s}) <= Cardinality(Named(page)) + 1
<1>1. IsFiniteSet(Named(page)) /\ Cardinality(Named(page)) \in Nat
  BY NamesCounted
<1> DEFINE n == Cardinality(Named(page))
           more == Cardinality(Named(page) \cup {s})
<1>2. more \in {n, n + 1}
  <2>1. CASE s \in Named(page)
    <3>1. Named(page) \cup {s} = Named(page)
      BY <2>1
    <3> QED BY <3>1
  <2>2. CASE s \notin Named(page)
    <3>1. more = n + 1
      BY <1>1, <2>2, FS_AddElement
    <3> QED BY <3>1
  <2> QED BY <2>1, <2>2
<1>3. n \in Nat
  BY <1>1
<1> HIDE DEF n, more
<1>4. more <= n + 1
  BY <1>2, <1>3
<1> QED BY <1>4 DEF n, more

LEMMA OneNameLess ==
    ASSUME NEW page, NEW s \in Named(page)
    PROVE  Cardinality(Named(page) \ {s}) + 1 = Cardinality(Named(page))
<1>1. IsFiniteSet(Named(page)) /\ Cardinality(Named(page)) \in Nat
  BY NamesCounted
<1>2. Cardinality(Named(page) \ {s}) = Cardinality(Named(page)) - 1
  BY <1>1, FS_RemoveElement
<1> QED BY <1>1, <1>2

LEMMA FirstSlotLeast ==
    ASSUME NEW S, S \subseteq Slots, S # {}
    PROVE  FirstSlot(S) \in S /\ \A t \in S : FirstSlot(S) <= t
<1>1. S \subseteq Nat
  BY Constants
<1>2. \E n \in S : \A m \in S : n <= m
  BY <1>1, LeastElement
<1> QED BY <1>2 DEF FirstSlot

\* What is found is a slot with a name, and none before it matches.
LEMMA FoundAt ==
    ASSUME NEW page, NEW n, FoundIn(page, n) # 0
    PROVE  \E s \in Named(page) :
               /\ <<n, page[s].name>> \in Prefixes /\ page[s].id = FoundIn(page, n)
               /\ \A t \in Slots : <<n, page[t].name>> \in Prefixes => s <= t
<1> DEFINE matches == {s \in Slots : <<n, page[s].name>> \in Prefixes}
<1>1. matches # {} /\ FoundIn(page, n) = page[FirstSlot(matches)].id
  BY DEF FoundIn
<1>2. FirstSlot(matches) \in matches /\ \A t \in matches : FirstSlot(matches) <= t
  BY <1>1, FirstSlotLeast
<1>3. \A s \in matches : s \in Named(page)
  BY NamesAssumption DEF Named
<1> QED BY <1>1, <1>2, <1>3

LEMMA LookupIsGot ==
    ASSUME NEW d, NEW n \in Names
    PROVE  inode_for_name_in_directory(d, n) = Got(entries, inodes, d, n)
<1> DEFINE matches == {s \in Slots : <<n, entries[d.first][s].name>> \in Prefixes}
<1>1. CASE d.size > 0
  <2>1. Matches(d, n) = matches
    BY <1>1, NamesAssumption DEF Matches, BeginsWith
  <2>2. FoundIn(entries[d.first], n) = IF matches = {} THEN 0 ELSE entries[d.first][FirstSlot(matches)].id
    BY DEF FoundIn
  <2> HIDE DEF matches
  <2> QED BY <1>1, <2>1, <2>2 DEF inode_for_name_in_directory, Got
<1>2. CASE ~(d.size > 0)
  BY <1>2 DEF Matches, inode_for_name_in_directory, Got
<1> QED BY <1>1, <1>2

LEMMA GotTyped ==
    ASSUME TypeInv, RootInv, NEW d \in Flat, NEW n \in Names
    PROVE  /\ Got(entries, inodes, d, n) \in Flat
           /\ Got(entries, inodes, d, n).id # Root
           /\ Got(entries, inodes, d, n).id # 0 =>
                  /\ Got(entries, inodes, d, n).id \in Written
                  /\ Got(entries, inodes, d, n) = inodes[Got(entries, inodes, d, n).id]
                  /\ Got(entries, inodes, d, n).id = FoundIn(entries[d.first], n)
                  /\ d.size > 0
<1> DEFINE got == Got(entries, inodes, d, n)
           id == FoundIn(entries[d.first], n)
<1>1. got \in Flat /\ got.id # Root
  BY LookupTyped, LookupIsGot
<1>2. ASSUME got.id # 0
      PROVE  got.id \in Written /\ got = inodes[got.id] /\ got.id = id /\ d.size > 0
  <2>1. d.size > 0 /\ id # 0 /\ got = inodes[id]
    BY <1>2, NothingTyped DEF Got
  <2>2. PICK s \in Named(entries[d.first]) : entries[d.first][s].id = id
    BY <2>1, FoundAt
  <2>3. d.first \in Blocks
    BY DEF Flat, Inodes
  <2>4. id \in Ids
    BY <2>2, <2>3 DEF TypeInv, Pages, Found, Named
  <2>5. inodes[id].id \in {0, id}
    BY <2>4 DEF RootInv
  <2>6. got.id = id
    BY <1>2, <2>1, <2>5
  <2> HIDE DEF got, id
  <2> QED BY <2>1, <2>4, <2>6 DEF Written
<1> QED BY <1>1, <1>2

\* A path's inode and its parent, in these terms.
LEMMA PathIsGot ==
    ASSUME TypeInv, RootInv, NEW p \in Paths,
           NEW d, d = DirectoryOf(p, entries, inodes, root_inode, current_dir_inode)
    PROVE  /\ d \in Flat
           /\ inode_from_path(p) = Got(entries, inodes, d, p.name)
           /\ root_inode = inodes[Root] => parent_inode_from_path(p) = d
<1>1. Start(p) = IF p.absolute THEN root_inode ELSE current_dir_inode
  BY DEF Start
<1>2. Start(p) \in Flat /\ p.name \in Names /\ (p.dir # NoName => p.dir \in Names)
  BY StartTyped
<1>3. d = IF p.dir = NoName THEN Start(p) ELSE inode_for_name_in_directory(Start(p), p.dir)
  BY <1>1, <1>2, LookupIsGot DEF DirectoryOf
<1>4. d \in Flat
  BY <1>2, <1>3, LookupTyped
<1>5. inode_from_path(p) = inode_for_name_in_directory(d, p.name)
  BY <1>3 DEF inode_from_path
<1>6. root_inode = inodes[Root] => parent_inode_from_path(p) = d
  BY <1>1, <1>3 DEF parent_inode_from_path
<1> QED BY <1>2, <1>4, <1>5, <1>6, LookupIsGot

\* Whose block is a directory's, if it leads to anything, is that directory.
LEMMA LeadsFromDirectory ==
    ASSUME TypeInv, RootInv, Apart, DirectoryInv,
           NEW d \in Flat, d.id \in Written, d.first = inodes[d.id].first,
           NEW n \in Names, Got(entries, inodes, d, n).id # 0
    PROVE  d.id \in Directories
<1>1. FoundIn(entries[d.first], n) # 0
  BY GotTyped
<1>2. Named(entries[d.first]) # {}
  BY <1>1, FoundAt
<1>3. d.first \in Blocks
  BY DEF Flat, Inodes
<1>4. PICK k \in Directories : inodes[k].first = d.first
  BY <1>2, <1>3 DEF DirectoryInv
<1>5. k \in Written /\ inodes[k].first # 0
  BY <1>4 DEF DirectoryInv, Directories
<1>6. k = d.id
  BY <1>4, <1>5 DEF Apart
<1> QED BY <1>4, <1>6

\* A path that leads to something leads from a directory.
LEMMA PathFromDirectory ==
    ASSUME TypeInv, RootInv, Apart, FilesInv, NEW p \in Paths,
           NEW d, d = DirectoryOf(p, entries, inodes, root_inode, current_dir_inode),
           d.id # 0
    PROVE  /\ d.id \in Written /\ d.first = inodes[d.id].first
           /\ Got(entries, inodes, d, p.name).id # 0 => d.id \in Directories
<1> DEFINE start == IF p.absolute THEN root_inode ELSE current_dir_inode
<1>1. /\ start.id \in Directories /\ start.first = inodes[start.id].first /\ start \in Flat
  BY DEF FilesInv, CacheInv, Copy, DirectoryInv, RootInv, TypeInv
<1>2. p.name \in Names /\ (p.dir # NoName => p.dir \in Names)
  BY DEF Paths
<1>3. d = IF p.dir = NoName THEN start ELSE Got(entries, inodes, start, p.dir)
  BY DEF DirectoryOf
<1> HIDE DEF start
<1>4. d.id \in Written /\ d.first = inodes[d.id].first
  <2>1. CASE p.dir = NoName
    BY <1>1, <1>3, <2>1 DEF Directories
  <2>2. CASE p.dir # NoName
    BY <1>1, <1>2, <1>3, <2>2, GotTyped
  <2> QED BY <2>1, <2>2
<1>5. d \in Flat
  BY PathIsGot
<1> QED BY <1>2, <1>4, <1>5, LeadsFromDirectory DEF FilesInv

\* What a path leads from, when no inode is on its way, is an inode on disk.
LEMMA PathIsWritten ==
    ASSUME IInv, RootKept, Apart, FilesInv, overwritten = {}, pc \in {"idle", "dot"}, NEW p \in Paths,
           NEW d, d = DirectoryOf(p, entries, inodes, root_inode, current_dir_inode)
    PROVE  /\ d \in Flat /\ d.id \in Written \cup {0}
           /\ d.id # 0 => d.first = inodes[d.id].first /\ d.type = inodes[d.id].type
           /\ Ordinary /\ d.id # 0 => d = inodes[d.id]
           /\ inode_from_path(p) = Got(entries, inodes, d, p.name)
           /\ parent_inode_from_path(p) = d
           /\ inode_from_path(p).id # 0 => d.id \in Directories
<1> DEFINE start == IF p.absolute THEN root_inode ELSE current_dir_inode
           got == Got(entries, inodes, d, p.name)
<1>1. TypeInv /\ RootInv
  BY DEF IInv
<1>2. /\ root_inode = inodes[Root]
      /\ Ordinary => current_dir_inode = inodes[current_dir_inode.id]
      /\ current_dir_inode.first = inodes[current_dir_inode.id].first
      /\ current_dir_inode.id \in Directories /\ current_dir_inode.type = "dir"
  BY DEF IInv, RootStepInv, ParentWritten, FilesInv, CacheInv, Copy
<1>3. d \in Flat /\ inode_from_path(p) = got /\ parent_inode_from_path(p) = d
  BY <1>1, <1>2, PathIsGot
<1>4. p.name \in Names /\ (p.dir # NoName => p.dir \in Names)
  BY DEF Paths
<1>5. /\ start \in Flat /\ start.id \in Directories /\ (Ordinary => start = inodes[start.id])
      /\ start.first = inodes[start.id].first /\ start.type = inodes[start.id].type
  BY <1>1, <1>2 DEF TypeInv, RootInv, FilesInv, DirectoryInv, Directories
<1>6. d = IF p.dir = NoName THEN start ELSE Got(entries, inodes, start, p.dir)
  BY DEF DirectoryOf
<1>7. d.id # 0 => /\ d.id \in Written /\ (Ordinary => d = inodes[d.id])
                  /\ d.first = inodes[d.id].first /\ d.type = inodes[d.id].type
  <2> HIDE DEF start
  <2>1. CASE p.dir = NoName
    BY <1>5, <1>6, <2>1 DEF Directories
  <2>2. CASE p.dir # NoName
    BY <1>1, <1>4, <1>5, <1>6, <2>2, GotTyped
  <2> QED BY <2>1, <2>2
<1> HIDE DEF start, got
<1>8. d.id # 0 /\ got.id # 0 => d.id \in Directories
  BY <1>1, PathFromDirectory DEF got
<1>9. got.id # 0 => d.id # 0
  <2> SUFFICES ASSUME d.id = 0, got.id # 0
               PROVE  FALSE
    OBVIOUS
  <2>1. d = NoInode
    <3>1. p.dir # NoName
      BY <1>5, <1>6 DEF Directories, Written
    <3>2. d = Got(entries, inodes, start, p.dir)
      BY <1>6, <3>1
    <3>3. CASE start.size > 0 /\ FoundIn(entries[start.first], p.dir) # 0
      <4> DEFINE id == FoundIn(entries[start.first], p.dir)
      <4>1. d = inodes[id]
        BY <3>2, <3>3 DEF Got
      <4>2. PICK s \in Named(entries[start.first]) : entries[start.first][s].id = id
        BY <3>3, FoundAt
      <4>3. start.first \in Blocks
        BY <1>5 DEF Flat, Inodes
      <4> HIDE DEF id
      <4>4. id \in Ids
        <5>1. entries[start.first] \in Pages
          BY <1>1, <4>3 DEF TypeInv
        <5>2. entries[start.first][s].name \in Names /\ s \in Slots
          BY DEF Named
        <5> QED BY <4>2, <5>1, <5>2 DEF Pages, Found
      <4>5. id # 0
        BY <3>3 DEF id
      <4> QED BY <4>1, <4>4, <4>5 DEF FilesInv, DiskInv
    <3>4. CASE ~(start.size > 0 /\ FoundIn(entries[start.first], p.dir) # 0)
      BY <3>2, <3>4 DEF Got
    <3> QED BY <3>3, <3>4
  <2>2. got = NoInode
    <3>1. ~(d.size > 0)
      BY <2>1 DEF NoInode
    <3> QED BY <3>1 DEF got, Got
  <2> QED BY <2>2, NothingTyped
<1> QED BY <1>3, <1>7, <1>8, <1>9 DEF got

\* A directory has a name for itself and one for its parent.
LEMMA DirectorySize ==
    ASSUME TypeInv, SizeInv, Ordinary, NEW k \in Directories
    PROVE  /\ k \in Ids \ {0} /\ inodes[k] \in Flat /\ inodes[k].id = k /\ inodes[k].type = "dir"
           /\ inodes[k].first \in Blocks
           /\ inodes[k].size \in 0 .. U32 - 1 /\ inodes[k].size >= 2
<1>1. k \in Ids \ {0} /\ inodes[k] \in Flat /\ inodes[k].id = k /\ inodes[k].type = "dir"
  BY DEF Directories, Written, TypeInv
<1>2. inodes[k].first \in Blocks /\ inodes[k].size \in 0 .. U32 - 1
  BY <1>1 DEF Flat, Inodes
<1> DEFINE n == Cardinality(Named(entries[inodes[k].first]))
<1>3. n \in Nat
  BY NamesCounted
<1>4. n + 2 <= inodes[k].size
  BY DEF SizeInv
<1> HIDE DEF n
<1>5. U32 \in Nat
  BY SizesAssumption
<1>6. inodes[k].size >= 2
  BY <1>2, <1>3, <1>4, <1>5
<1> QED BY <1>1, <1>2, <1>6

LEMMA OrdinaryBefore ==
    ASSUME events \subseteq events'
    PROVE  /\ Ordinary' => Ordinary
           /\ Followed' => Followed
  BY DEF Followed, Ordinary

\* What is followed has the root directory made again by nobody.
LEMMA FollowedRootKept ==
    /\ Followed => RootKept
    /\ Kept => RootKept
<1>1. "root made again" \in MadeAgain
  BY DEF MadeAgain
<1>2. Ordinary => RootKept
  BY <1>1 DEF Ordinary, RootKept
<1>3. ASSUME events \in {{}, {"no slot"}, {"made again"}}
      PROVE  RootKept
  <2>1. CASE events = {}
    BY <2>1 DEF RootKept
  <2>2. CASE events = {"no slot"}
    BY <2>2 DEF RootKept
  <2>3. CASE events = {"made again"}
    BY <2>3 DEF RootKept
  <2> QED BY <1>3, <2>1, <2>2, <2>3
<1> QED BY <1>2, <1>3 DEF Followed, Kept

\* What a step that writes no inode and no page leaves.
LEMMA NoFileWritten ==
    ASSUME inodes' = inodes, entries' = entries, Remade' = Remade
    PROVE  /\ Written' = Written /\ Directories' = Directories /\ Apart' = Apart
           /\ DirectoryInv' = DirectoryInv
<1>1. Written' = Written
  BY DEF Written
<1>2. Directories' = Directories
  BY <1>1 DEF Directories
<1>3. Apart' = Apart
  BY <1>1 DEF Apart
<1> QED BY <1>1, <1>2, <1>3 DEF DirectoryInv

LEMMA NoCall ==
    ASSUME pc' = "idle"
    PROVE  /\ CreateInv' /\ NewFileInv' /\ LookupInv'
           /\ NewDirectoryInv' /\ NewPageInv' /\ RemoveInv' /\ Remade' = {}
  BY DEF CreateInv, NewFileInv, LookupInv, NewDirectoryInv, NewPageInv, RemoveInv,
         Creating, Before, ParentRead, Removing, Remade

LEMMA CreatingOnly ==
    ASSUME pc' \in Creating
    PROVE  NewDirectoryInv' /\ NewPageInv' /\ RemoveInv' /\ Remade' = {}
  BY DEF NewDirectoryInv, NewPageInv, RemoveInv, Creating, ParentRead, Removing, Remade

LEMMA SetInodeBitShared ==
    ASSUME IInv, RootKept, Apart, FilesInv, Followed',
           NEW p \in Paths, NEW call \in {"create", "mkdir"}, SetInodeBit(p, call)
    PROVE  Apart' /\ FilesInv'
<1> DEFINE d == DirectoryOf(p, entries, inodes, root_inode, current_dir_inode)
           file == [NoInode EXCEPT !.id = superblock.inode]
<1>1. /\ pc = "idle" /\ overwritten = {} /\ pc' = "data bit" /\ created' = created + 1
      /\ inode_from_path(p).id = 0 /\ parent_inode_from_path(p).id # 0
      /\ inode_bits' = inode_bits \cup {superblock.inode}
      /\ superblock' = [superblock EXCEPT !.inode = FirstFree(inode_bits', LastInode)]
      /\ events \subseteq events' /\ (Ordinary' => Ordinary) /\ Remade' = {} /\ Remade = {}
      /\ UNCHANGED <<data_bits, inodes, entries, disk_superblock, root_inode,
                     current_dir_inode>>
  BY OrdinaryBefore DEF SetInodeBit, At, Remade
<1>2. /\ job'.call = call /\ job'.name = p.name /\ job'.parent = parent_inode_from_path(p)
      /\ job'.inode = file /\ job'.path = IF call = "mkdir" THEN p ELSE Idle.path
  BY DEF SetInodeBit, Idle
<1>3. parent_inode_from_path(p).type # "file"
  <2>1. parent_inode_from_path(p).type = "file" => "file as directory" \in events'
    BY DEF SetInodeBit
  <2>2. CASE Ordinary'
    BY <2>1, <2>2 DEF Ordinary
  <2>3. CASE events' = {"made again"}
    BY <2>1, <2>3
  <2> QED BY <2>2, <2>3 DEF Followed
<1>4. TypeInv /\ RootInv
  BY DEF IInv
<1>5. DiskInv /\ DirectoryInv /\ SizeInv /\ CacheInv
  BY DEF FilesInv
<1>6. /\ d \in Flat /\ d.id # 0 /\ d.id \in Written /\ (Ordinary => d = inodes[d.id])
      /\ d.first = inodes[d.id].first /\ d.type = inodes[d.id].type
      /\ parent_inode_from_path(p) = d /\ Got(entries, inodes, d, p.name).id = 0
  <2>1. pc \in {"idle", "dot"}
    BY <1>1
  <2>2. /\ d \in Flat /\ d.id \in Written \cup {0}
        /\ d.id # 0 => d.first = inodes[d.id].first /\ d.type = inodes[d.id].type
        /\ Ordinary /\ d.id # 0 => d = inodes[d.id]
        /\ parent_inode_from_path(p) = d
        /\ inode_from_path(p) = Got(entries, inodes, d, p.name)
    BY <1>1, <2>1, PathIsWritten
  <2> HIDE DEF d
  <2> QED BY <1>1, <2>2
<1>7. d.type = "dir" /\ d.first \in Blocks
  BY <1>3, <1>6 DEF Flat, Inodes
<1>8. d.id \in Directories
  BY <1>6, <1>7 DEF Directories
<1>9. d.size \in Nat
  BY <1>6, SizesAssumption DEF Flat, Inodes
<1>10. file.id = superblock.inode /\ file.type = "file" /\ file.size = 0
  BY DEF NoInode
<1>11. superblock = disk_superblock /\ superblock \in Superblocks
  BY <1>1, <1>4 DEF IInv, FreeInv, Creating, TypeInv
<1> HIDE DEF d, file
<1>12. /\ Written' = Written /\ Directories' = Directories /\ Apart' = Apart
       /\ DirectoryInv' = DirectoryInv
  BY <1>1, NoFileWritten
<1>13. DiskInv'
  BY <1>1, <1>5, <1>12 DEF DiskInv
<1>14. SizeInv'
  <2>1. created + 2 = created' + 1
    <3>1. created \in 0 .. MaxCreated
      BY <1>4 DEF TypeInv
    <3>2. created' = created + 1
      BY <1>1
    <3> QED BY <3>1, <3>2, SizesAssumption
  <2>2. pc \notin Before /\ pc' \in Before
    BY <1>1 DEF Before
  <2> QED BY <1>1, <1>5, <1>12, <2>1, <2>2 DEF SizeInv
<1>15. CacheInv'
  BY <1>1, <1>5, <1>12 DEF CacheInv, Copy
<1>16. CreateInv'
  BY <1>1, <1>2, <1>6, <1>7, <1>8, <1>12 DEF CreateInv, Copy, Paths
<1>17. NewFileInv'
  <2>1. /\ superblock'.inode \in inode_bits' => superblock'.inode = 0
        /\ superblock'.data = superblock.data
    <3>1. LastInode \in Nat
      BY SizesAssumption
    <3>2. FirstFree(inode_bits', LastInode) \in Ids
          /\ (FirstFree(inode_bits', LastInode) \in inode_bits' => FirstFree(inode_bits', LastInode) = 0)
      BY <3>1, FirstFreeIn DEF Ids
    <3>3. superblock.data \in Blocks
      BY <1>11 DEF Superblocks
    <3> QED BY <1>1, <1>11, <3>2, <3>3, SuperblockTyped
  <2> QED BY <1>1, <1>2, <1>10, <1>11, <2>1 DEF NewFileInv
<1>18. LookupInv'
  <2> SUFFICES ASSUME job'.call = "mkdir", job'.parent.size > 1
               PROVE  LookupInv'
    BY <1>1 DEF LookupInv, Before
  <2>1. job'.path = p
    BY <1>2
  <2>2. d' = d /\ DirectoryOf(job'.path, entries', inodes', root_inode', current_dir_inode') = d
    BY <1>1, <2>1 DEF d
  <2>3. d.size > 0
    BY <1>2, <1>6, <1>9
  <2> QED BY <1>1, <1>2, <1>6, <2>1, <2>2, <2>3 DEF LookupInv
<1>19. NewDirectoryInv' /\ NewPageInv' /\ RemoveInv'
  BY <1>1, CreatingOnly DEF Creating
<1> QED BY <1>5, <1>12, <1>13, <1>14, <1>15, <1>16, <1>17, <1>18, <1>19 DEF FilesInv

\* A step of a creation that writes only bits, before the directory is written.
LEMMA BitsOnly ==
    ASSUME IInv, FilesInv, pc \in Before, pc' \in Before,
           UNCHANGED <<inodes, entries, root_inode, current_dir_inode, created, events>>,
           job'.call = job.call, job'.name = job.name, job'.path = job.path,
           job'.inode.id = job.inode.id, job'.parent.id = job.parent.id,
           job'.parent.type = job.parent.type, job'.parent.first = job.parent.first,
           job'.parent.size = job.parent.size
    PROVE  /\ Written' = Written /\ Directories' = Directories /\ Apart' = Apart
           /\ DirectoryInv' /\ SizeInv' /\ CacheInv' /\ CreateInv' /\ LookupInv'
           /\ NewDirectoryInv' /\ NewPageInv' /\ RemoveInv'
<1>1. /\ Written' = Written /\ Directories' = Directories /\ Apart' = Apart
      /\ DirectoryInv' = DirectoryInv
  BY NoFileWritten DEF Before, Remade
<1>2. DirectoryInv /\ SizeInv /\ CacheInv /\ CreateInv /\ LookupInv
  BY DEF FilesInv
<1>3. /\ pc \in Creating /\ pc' \in Creating /\ pc' # "entry" /\ pc # "entry"
      /\ Ordinary' = Ordinary
  BY DEF Before, Creating, Ordinary
<1>4. SizeInv'
  BY <1>1, <1>2, <1>3 DEF SizeInv
<1>5. CacheInv'
  BY <1>1, <1>2, <1>3 DEF CacheInv, Copy
<1>6. CreateInv'
  BY <1>1, <1>2, <1>3 DEF CreateInv, Copy
<1>7. LookupInv'
  <2> DEFINE d == DirectoryOf(job.path, entries, inodes, root_inode, current_dir_inode)
  <2>1. d' = d
    BY DEF DirectoryOf
  <2>2. DirectoryOf(job'.path, entries', inodes', root_inode', current_dir_inode') = d
    BY DEF d
  <2>3. job.call = "mkdir" /\ job.parent.size > 1 =>
            /\ Got(entries, inodes, d, job.path.name).id \in {0, job.inode.id}
            /\ job.path.name = job.name
            /\ d.id = job.parent.id /\ d.first = job.parent.first /\ d.size > 0
    BY <1>2, <1>3 DEF LookupInv
  <2> HIDE DEF d
  <2> QED BY <2>2, <2>3 DEF LookupInv
<1> QED BY <1>1, <1>2, <1>3, <1>4, <1>5, <1>6, <1>7, CreatingOnly

LEMMA SetDataBitShared ==
    ASSUME IInv, Apart, FilesInv, SetDataBit
    PROVE  Apart' /\ FilesInv'
<1>1. /\ pc = "data bit" /\ pc' = "inode"
      /\ data_bits' = data_bits \cup {superblock.data}
      /\ superblock' = [superblock EXCEPT !.data = FirstFree(data_bits', LastBlock)]
      /\ job' = [job EXCEPT !.inode.first = superblock.data]
      /\ UNCHANGED <<inode_bits, inodes, entries, disk_superblock, root_inode,
                     current_dir_inode, created, events>>
  BY DEF SetDataBit, At, ghosts
<1>2. job \in Jobs /\ job.inode \in Flat
  BY JobTyped DEF IInv, TypeInv
<1>3. /\ job'.call = job.call /\ job'.name = job.name /\ job'.path = job.path
      /\ job'.parent = job.parent
      /\ job'.inode = [job.inode EXCEPT !.first = superblock.data]
  BY <1>1, <1>2 DEF Jobs
<1>4. /\ job'.inode.id = job.inode.id /\ job'.inode.type = job.inode.type
      /\ job'.inode.size = job.inode.size /\ job'.inode.first = superblock.data
  BY <1>2, <1>3 DEF Flat, Inodes
<1>5. /\ superblock'.inode = superblock.inode
      /\ superblock'.data \in data_bits' => superblock'.data = 0
  BY <1>1, DataBitTaken
<1>6. pc \in Before /\ pc' \in Before
  BY <1>1 DEF Before
<1>7. /\ Written' = Written /\ Directories' = Directories /\ Apart' = Apart
      /\ DirectoryInv' /\ SizeInv' /\ CacheInv' /\ CreateInv' /\ LookupInv'
      /\ NewDirectoryInv' /\ NewPageInv' /\ RemoveInv'
  BY <1>1, <1>3, <1>4, <1>6, BitsOnly
<1>8. DiskInv'
  BY <1>1, <1>7 DEF FilesInv, DiskInv
<1>9. NewFileInv'
  <2>1. /\ job.inode.id = disk_superblock.inode /\ job.inode.id \in inode_bits
        /\ job.inode.type = "file" /\ job.inode.size = 0
        /\ superblock.inode \in inode_bits => superblock.inode = 0
        /\ superblock.data = disk_superblock.data
    BY <1>1 DEF FilesInv, NewFileInv, Creating
  <2>2. disk_superblock' = disk_superblock /\ inode_bits' = inode_bits /\ pc' = "inode"
    BY <1>1
  <2>3. superblock.data \in data_bits' /\ job'.inode.first = superblock.data
    BY <1>1, <1>4

  <2> QED BY <1>4, <1>5, <2>1, <2>2, <2>3 DEF NewFileInv
<1> QED BY <1>7, <1>8, <1>9 DEF FilesInv

LEMMA GrowNextBlockShared ==
    ASSUME IInv, Apart, FilesInv, GrowNextBlock
    PROVE  Apart' /\ FilesInv'
<1>1. /\ pc = "grow" /\ overwritten = {} /\ pc' = "clear"
      /\ data_bits' = data_bits \cup {job.parent.first + 1}
      /\ job' = [job EXCEPT !.parent.past = @ + 1]
      /\ UNCHANGED <<inode_bits, inodes, entries, disk_superblock, superblock, root_inode,
                     current_dir_inode, created, events>>
  BY DEF GrowNextBlock, At, memory, ghosts
<1>2. job \in Jobs /\ job.parent \in Inodes /\ job.parent.past = 0
  BY <1>1, JobTyped DEF IInv, TypeInv
<1>3. /\ job'.call = job.call /\ job'.name = job.name /\ job'.path = job.path
      /\ job'.inode = job.inode
      /\ job'.parent = [job.parent EXCEPT !.past = 1]
  BY <1>1, <1>2 DEF Jobs
<1>4. /\ job'.parent.id = job.parent.id /\ job'.parent.type = job.parent.type
      /\ job'.parent.size = job.parent.size /\ job'.parent.first = job.parent.first
      /\ job'.parent.past = 1
  BY <1>2, <1>3 DEF Inodes
<1>5. pc \in Before /\ pc' \in Before
  BY <1>1 DEF Before
<1>6. /\ Written' = Written /\ Directories' = Directories /\ Apart' = Apart
      /\ DirectoryInv' /\ SizeInv' /\ CacheInv' /\ CreateInv' /\ LookupInv'
      /\ NewDirectoryInv' /\ NewPageInv' /\ RemoveInv'
  BY <1>1, <1>3, <1>4, <1>5, BitsOnly
<1>7. DiskInv'
  BY <1>1, <1>6 DEF FilesInv, DiskInv
<1>8. NewFileInv'
  BY <1>1, <1>3, <1>4 DEF FilesInv, NewFileInv, Creating
<1> QED BY <1>6, <1>7, <1>8 DEF FilesInv

LEMMA GrowElsewhereShared ==
    ASSUME IInv, Apart, FilesInv, GrowElsewhere
    PROVE  Apart' /\ FilesInv'
<1>1. /\ pc = "grow" /\ pc' = "clear"
      /\ data_bits' = data_bits \cup {superblock.data}
      /\ superblock' = [superblock EXCEPT !.data = FirstFree(data_bits', LastBlock)]
      /\ UNCHANGED <<inode_bits, inodes, entries, disk_superblock, root_inode,
                     current_dir_inode, job, created, events>>
  BY DEF GrowElsewhere, At, ghosts
<1>2. /\ superblock'.inode = superblock.inode
      /\ superblock'.data \in data_bits' => superblock'.data = 0
  BY <1>1, DataBitTaken
<1>3. pc \in Before /\ pc' \in Before
  BY <1>1 DEF Before
<1>4. /\ Written' = Written /\ Directories' = Directories /\ Apart' = Apart
      /\ DirectoryInv' /\ SizeInv' /\ CacheInv' /\ CreateInv' /\ LookupInv'
      /\ NewDirectoryInv' /\ NewPageInv' /\ RemoveInv'
  BY <1>1, <1>3, BitsOnly
<1>5. DiskInv'
  BY <1>1, <1>4 DEF FilesInv, DiskInv
<1>6. NewFileInv'
  BY <1>1, <1>2 DEF FilesInv, NewFileInv, Creating
<1> QED BY <1>4, <1>5, <1>6 DEF FilesInv

\* What is written over the boot block ends what is known of the files.
LEMMA ClearNewBlockShared ==
    ASSUME IInv, Apart, FilesInv, ClearNewBlock
    PROVE  Apart' /\ (overwritten' = {} => FilesInv')
<1>1. /\ pc = "clear" /\ pc' = "parent"
      /\ UNCHANGED <<inode_bits, data_bits, inodes, disk_superblock, superblock, root_inode,
                     current_dir_inode, job, created, events>>
      /\ IF job.parent.past = 0 THEN UNCHANGED <<entries, overwritten>>
         ELSE WriteBlock(job.parent.past - 1, EmptyBlock)
  BY DEF ClearNewBlock, At, bitmaps, memory
<1>2. job.parent.past \in 0 .. 1
  BY JobTyped DEF IInv, TypeInv, Inodes
<1>3. CASE job.parent.past = 0
  <2>1. UNCHANGED entries
    BY <1>1, <1>3
  <2>2. pc \in Before /\ pc' \in Before
    BY <1>1 DEF Before
  <2>3. /\ Written' = Written /\ Directories' = Directories /\ Apart' = Apart
        /\ DirectoryInv' /\ SizeInv' /\ CacheInv' /\ CreateInv' /\ LookupInv'
        /\ NewDirectoryInv' /\ NewPageInv' /\ RemoveInv'
    BY <1>1, <2>1, <2>2, BitsOnly
  <2>4. DiskInv'
    BY <1>1, <2>3 DEF FilesInv, DiskInv
  <2>5. NewFileInv'
    BY <1>1, <1>3 DEF FilesInv, NewFileInv, Creating
  <2> QED BY <2>3, <2>4, <2>5 DEF FilesInv
<1>4. CASE job.parent.past # 0
  <2>1. job.parent.past - 1 = 0
    BY <1>2, <1>4
  <2>2. overwritten' = {0} \cap SystemBlocks
    BY <1>1, <1>4, <2>1 DEF WriteBlock
  <2>3. overwritten' # {}
    BY <2>2, Constants
  <2>4. Apart'
    BY <1>1 DEF Apart, Written
  <2> QED BY <2>3, <2>4
<1> QED BY <1>3, <1>4

LEMMA update_superblockShared ==
    ASSUME IInv, Apart, FilesInv, update_superblock
    PROVE  Apart' /\ FilesInv'
<1>1. /\ pc = "superblock" /\ pc \in Creating /\ disk_superblock' = superblock
      /\ pc' = IF job.call = "mkdir" THEN "dot" ELSE "idle"
      /\ job.call = "mkdir" => job' = job
      /\ UNCHANGED <<inode_bits, data_bits, inodes, entries, superblock, root_inode,
                     current_dir_inode, created, events>>
      /\ Remade = {} /\ Remade' = {} /\ Ordinary' = Ordinary
  BY DEF update_superblock, At, bitmaps, memory, ghosts, Creating, Remade, Ordinary
<1>2. TypeInv /\ RootInv
  BY DEF IInv
<1>3. /\ DiskInv /\ DirectoryInv /\ SizeInv /\ CacheInv /\ LookupInv
      /\ job.inode.id = disk_superblock.inode /\ job.inode.id \in inode_bits
      /\ job.inode.type = "file" /\ job.inode.size = 0
      /\ superblock.inode \in inode_bits => superblock.inode = 0
      /\ job.inode.first = disk_superblock.data
      /\ superblock.data \in data_bits => superblock.data = 0
      /\ job.inode.id # 0 => inodes[job.inode.id] = job.inode
  BY <1>1 DEF FilesInv, NewFileInv
<1>4. /\ Written' = Written /\ Directories' = Directories /\ Apart' = Apart
      /\ DirectoryInv' = DirectoryInv
  BY <1>1, NoFileWritten
<1>5. superblock.inode \notin Directories
  BY <1>3 DEF DiskInv, Directories, Written
<1>6. DiskInv'
  <2>1. \A i \in Written : inodes[i].first \in data_bits \/ inodes[i].first = 0
    BY <1>1, <1>3 DEF DiskInv
  <2>2. \A i \in Written : inodes[i].first = superblock.data => inodes[i].first = 0
    BY <1>3, <2>1
  <2> QED BY <1>1, <1>3, <1>4, <1>5, <2>1, <2>2 DEF DiskInv
<1>7. SizeInv'
  BY <1>1, <1>3, <1>4 DEF SizeInv, Before
<1>8. CacheInv'
  BY <1>1, <1>3, <1>4 DEF CacheInv, Copy
<1>9. CASE job.call # "mkdir"
  BY <1>1, <1>3, <1>4, <1>6, <1>7, <1>8, <1>9, NoCall DEF FilesInv
<1>10. CASE job.call = "mkdir"
  <2>1. pc' = "dot" /\ job' = job
    BY <1>1, <1>10
  <2>2. CreateInv' /\ NewFileInv' /\ NewPageInv' /\ RemoveInv'
    BY <2>1 DEF CreateInv, NewFileInv, NewPageInv, RemoveInv, Creating, ParentRead, Removing
  <2>3. LookupInv'
    <3> DEFINE d == DirectoryOf(job.path, entries, inodes, root_inode, current_dir_inode)
    <3>1. DirectoryOf(job'.path, entries', inodes', root_inode', current_dir_inode') = d
      BY <1>1, <2>1
    <3>2. Got(entries, inodes, d, job.path.name).id \in {0, job.inode.id}
      BY <1>1, <1>3, <1>10 DEF LookupInv, Before
    <3> HIDE DEF d
    <3> QED BY <1>1, <2>1, <3>1, <3>2 DEF LookupInv, Before
  <2>4. NewDirectoryInv'
    <3>1. job.inode.id # 0 => job.inode.id \in Written
      BY <1>2, <1>3, JobTyped DEF TypeInv, Written
    <3>2. \A i \in Written :
              i # job.inode.id /\ inodes[i].first = job.inode.first => inodes[i].first = 0
      BY <1>3 DEF DiskInv
    <3> QED BY <1>1, <1>3, <1>4, <1>10, <2>1, <3>1, <3>2 DEF NewDirectoryInv, ParentRead
  <2> QED BY <1>3, <1>4, <1>6, <1>7, <1>8, <2>2, <2>3, <2>4 DEF FilesInv
<1> QED BY <1>9, <1>10

LEMMA ClearDataBitShared ==
    ASSUME IInv, Apart, FilesInv, ClearDataBit
    PROVE  Apart' /\ FilesInv'
<1>1. /\ pc = "rm data bit" /\ pc' = "rm inode"
      /\ data_bits' = data_bits \ {job.inode.first}
      /\ UNCHANGED <<inode_bits, inodes, entries, disk_superblock, superblock, root_inode,
                     current_dir_inode, job, created, events>>
      /\ Remade = {} /\ Remade' = {} /\ Ordinary' = Ordinary
  BY DEF ClearDataBit, At, memory, ghosts, Remade, Ordinary
<1>2. /\ Written' = Written /\ Directories' = Directories /\ Apart' = Apart
      /\ DirectoryInv' = DirectoryInv
  BY <1>1, NoFileWritten
<1>3. /\ DiskInv /\ DirectoryInv /\ SizeInv /\ CacheInv /\ RemoveInv
  BY DEF FilesInv
<1>4. DiskInv'
  <2>1. job.inode.id \in Written /\ inodes[job.inode.id].first = job.inode.first
    BY <1>1, <1>3 DEF RemoveInv, Removing
  <2>2. \A i \in Written :
            inodes[i].first \in data_bits' \/ inodes[i].first = 0 \/ i = job.inode.id
    BY <1>1, <1>3, <2>1 DEF DiskInv, Apart
  <2> QED BY <1>1, <1>2, <1>3, <2>2 DEF DiskInv
<1>5. SizeInv'
  BY <1>1, <1>2, <1>3 DEF SizeInv, Before
<1>6. CacheInv'
  BY <1>1, <1>2, <1>3 DEF CacheInv, Copy
<1>7. RemoveInv'
  BY <1>1, <1>2, <1>3 DEF RemoveInv, Removing, Copy
<1>8. CreateInv' /\ NewFileInv' /\ LookupInv' /\ NewDirectoryInv' /\ NewPageInv'
  BY <1>1 DEF CreateInv, NewFileInv, LookupInv, NewDirectoryInv, NewPageInv, Creating, ParentRead
<1> QED BY <1>2, <1>3, <1>4, <1>5, <1>6, <1>7, <1>8 DEF FilesInv

LEMMA ClearInodeBitShared ==
    ASSUME IInv, Apart, FilesInv, ClearInodeBit
    PROVE  Apart' /\ FilesInv'
<1>1. /\ pc = "rm inode bit" /\ pc' = "rm entry"
      /\ inode_bits' = inode_bits \ {job.inode.id}
      /\ UNCHANGED <<data_bits, inodes, entries, disk_superblock, superblock, root_inode,
                     current_dir_inode, job, created, events>>
      /\ Remade = {} /\ Remade' = {} /\ Ordinary' = Ordinary
  BY DEF ClearInodeBit, At, memory, ghosts, Remade, Ordinary
<1>2. /\ Written' = Written /\ Directories' = Directories /\ Apart' = Apart
      /\ DirectoryInv' = DirectoryInv
  BY <1>1, NoFileWritten
<1>3. /\ DiskInv /\ DirectoryInv /\ SizeInv /\ CacheInv /\ RemoveInv
  BY DEF FilesInv
<1>4. DiskInv'
  <2>1. job.inode.id \notin Written
    BY <1>1, <1>3 DEF RemoveInv, Removing
  <2> QED BY <1>1, <1>2, <1>3, <2>1 DEF DiskInv
<1>5. SizeInv'
  BY <1>1, <1>2, <1>3 DEF SizeInv, Before
<1>6. CacheInv'
  BY <1>1, <1>2, <1>3 DEF CacheInv, Copy
<1>7. RemoveInv'
  BY <1>1, <1>2, <1>3 DEF RemoveInv, Removing, Copy
<1>8. CreateInv' /\ NewFileInv' /\ LookupInv' /\ NewDirectoryInv' /\ NewPageInv'
  BY <1>1 DEF CreateInv, NewFileInv, LookupInv, NewDirectoryInv, NewPageInv, Creating, ParentRead
<1> QED BY <1>2, <1>3, <1>4, <1>5, <1>6, <1>7, <1>8 DEF FilesInv

\* ".." in the current directory leads to a directory, if the copy of its inode has
\* any entries.
LEMMA AboveIsDirectory ==
    ASSUME TypeInv, RootInv, DirectoryInv, CacheInv, Remade = {},
           NEW above, above = inode_for_name_in_directory(current_dir_inode, ".."),
           above.id # 0
    PROVE  above.id \in Directories /\ above = inodes[above.id]
<1> DEFINE page == entries[current_dir_inode.first]
           slots == Matches(current_dir_inode, "..")
<1>1. /\ current_dir_inode.id \in Directories
      /\ current_dir_inode.first = inodes[current_dir_inode.id].first
  BY DEF CacheInv, Copy
<1>2. /\ page[1].name = "." /\ page[2].name = ".." /\ page[2].id \in Directories
  <2>1. IsDirectory(current_dir_inode.id, page, Directories)
    BY <1>1 DEF DirectoryInv
  <2> HIDE DEF page
  <2> QED BY <2>1 DEF IsDirectory
<1>3. slots # {} /\ above \in {NoInode, inodes[page[FirstSlot(slots)].id]}
  BY NothingTyped DEF inode_for_name_in_directory
<1>4. slots = {s \in Slots : page[s].name = ".."}
  <2>1. current_dir_inode.size > 0
    BY <1>3 DEF Matches
  <2>2. \A e : BeginsWith(e, "..") <=> e.name = ".."
    BY NamesAssumption DEF BeginsWith
  <2> HIDE DEF page
  <2> QED BY <2>1, <2>2 DEF Matches, page
<1>5. FirstSlot(slots) = 2
  <2>1. 2 \in slots /\ 1 \notin slots /\ slots \subseteq Slots
    BY <1>2, <1>4, Constants
  <2>2. FirstSlot(slots) \in slots /\ \A t \in slots : FirstSlot(slots) <= t
    BY <1>3, <2>1, FirstSlotLeast
  <2> DEFINE s == FirstSlot(slots)
  <2>3. s \in Slots /\ s # 1 /\ s <= 2
    BY <2>1, <2>2
  <2> HIDE DEF s
  <2>4. s = 2
    BY <2>3, SizesAssumption DEF Slots
  <2> QED BY <2>4 DEF s
<1>6. above = inodes[page[2].id]
  BY <1>3, <1>5, NothingTyped
<1>7. inodes[page[2].id].id = page[2].id
  BY <1>2 DEF Directories, Written
<1> HIDE DEF page, slots
<1> QED BY <1>2, <1>6, <1>7

LEMMA ChangeDirShared ==
    ASSUME IInv, RootKept, Apart, FilesInv,
           (\E p \in Paths : fs_change_dir(p)) \/ \E path \in SpecialPaths : ChangeToSpecial(path)
    PROVE  Apart' /\ FilesInv'
<1>1. /\ pc = "idle" /\ overwritten = {} /\ pc' = "idle"
      /\ UNCHANGED <<inode_bits, data_bits, inodes, entries, disk_superblock, superblock,
                     root_inode, job, created, events>>
      /\ Remade = {} /\ Remade' = {} /\ Ordinary' = Ordinary
  BY DEF ChangeToSpecial, fs_change_dir, At, disk, bitmaps, ghosts, Remade, Ordinary
<1>2. TypeInv /\ RootInv /\ root_inode = inodes[Root]
  BY <1>1 DEF IInv, RootStepInv, ParentWritten
<1>3. DiskInv /\ DirectoryInv /\ SizeInv /\ CacheInv
  BY DEF FilesInv
<1>4. \/ current_dir_inode' = current_dir_inode
      \/ /\ current_dir_inode'.id \in Directories
         /\ current_dir_inode' = inodes[current_dir_inode'.id]
  <2>1. ASSUME NEW path \in SpecialPaths, ChangeToSpecial(path)
        PROVE  \/ current_dir_inode' = current_dir_inode
               \/ /\ current_dir_inode'.id \in Directories
                  /\ current_dir_inode' = inodes[current_dir_inode'.id]
    <3>1. current_dir_inode' = special_inode(path) /\ special_inode(path).id # 0
      BY <2>1 DEF ChangeToSpecial
    <3>2. CASE path = "/"
      BY <1>2, <1>3, <3>1, <3>2 DEF special_inode, RootInv, DirectoryInv
    <3>3. CASE path = "."
      BY <3>1, <3>3 DEF special_inode
    <3>4. CASE path = ".."
      <4> DEFINE above == inode_for_name_in_directory(current_dir_inode, "..")
      <4>1. current_dir_inode' = above /\ above.id # 0
        BY <3>1, <3>4 DEF special_inode
      <4>2. above.id \in Directories /\ above = inodes[above.id]
        <5> HIDE DEF above
        <5> QED BY <1>1, <1>2, <1>3, <4>1, AboveIsDirectory DEF above
      <4> HIDE DEF above
      <4> QED BY <4>1, <4>2
    <3> QED BY <3>2, <3>3, <3>4 DEF SpecialPaths
  <2>2. ASSUME NEW p \in Paths, fs_change_dir(p)
        PROVE  current_dir_inode'.id \in Directories
               /\ current_dir_inode' = inodes[current_dir_inode'.id]
    <3> DEFINE d == DirectoryOf(p, entries, inodes, root_inode, current_dir_inode)
               dir == Got(entries, inodes, d, p.name)
    <3>1. pc \in {"idle", "dot"} /\ p.name \in Names
      BY <1>1 DEF Paths
    <3>2. d \in Flat /\ inode_from_path(p) = dir
      BY <1>1, <3>1, PathIsWritten
    <3>3. dir.id # 0 => dir.id \in Written /\ dir = inodes[dir.id]
      <4> HIDE DEF d
      <4> QED BY <1>2, <3>1, <3>2, GotTyped
    <3> HIDE DEF d, dir
    <3>4. current_dir_inode' = dir /\ dir.id # 0 /\ dir.type = "dir"
      BY <2>2, <3>2 DEF fs_change_dir
    <3> QED BY <3>3, <3>4 DEF Directories
  <2> QED BY <2>1, <2>2
<1>5. /\ Written' = Written /\ Directories' = Directories /\ Apart' = Apart
      /\ DirectoryInv' = DirectoryInv
  BY <1>1, NoFileWritten
<1>6. DiskInv'
  BY <1>1, <1>3, <1>5 DEF DiskInv
<1>7. SizeInv'
  BY <1>1, <1>3, <1>5 DEF SizeInv
<1>8. CacheInv'
  <2>1. CASE current_dir_inode' = current_dir_inode
    BY <1>1, <1>3, <1>5, <2>1 DEF CacheInv, Copy
  <2>2. CASE /\ current_dir_inode'.id \in Directories
             /\ current_dir_inode' = inodes[current_dir_inode'.id]
    <3>1. Ordinary => current_dir_inode'.size > 0
      BY <1>2, <1>3, <2>2, DirectorySize, SizesAssumption
    <3> QED BY <1>1, <1>3, <1>5, <2>2, <3>1 DEF CacheInv, Copy, Directories
  <2> QED BY <1>4, <2>1, <2>2
<1> QED BY <1>1, <1>3, <1>5, <1>6, <1>7, <1>8, NoCall DEF FilesInv

LEMMA RestartShared ==
    ASSUME IInv, Apart, FilesInv, Followed', Restart
    PROVE  Apart' /\ FilesInv'
<1>1. /\ pc' = "idle" /\ root_inode' = inodes[Root] /\ current_dir_inode' = inodes[Root]
      /\ UNCHANGED <<inode_bits, data_bits, inodes, entries, disk_superblock, created>>
      /\ events' = events \cup IF pc = "idle" THEN {} ELSE {job.call}
      /\ pc = "idle" \/ Cardinality(events) < MaxStopped
  BY DEF Restart, disk, bitmaps
<1>2. TypeInv /\ RootInv
  BY DEF IInv
<1>3. DiskInv /\ DirectoryInv /\ SizeInv /\ RemoveInv /\ NewDirectoryInv
  BY DEF FilesInv
<1>4. pc = "idle" \/ (Ordinary' /\ pc # "idle" /\ job.call # "rm")
  <2>1. pc # "idle" => job.call \in Calls /\ job.call \in events'
    BY <1>1 DEF IInv, FreeInv
  <2>2. MadeAgain \cap Calls = {}
    BY DEF Calls, MadeAgain
  <2>3. Ordinary' \/ events' = {"made again"}
    BY DEF Followed
  <2> QED BY <2>1, <2>2, <2>3 DEF Ordinary, MadeAgain
<1>5. pc \notin Removing
  <2>1. pc \in Removing => pc # "idle" /\ job.call = "rm"
    BY <1>3 DEF RemoveInv, Removing
  <2> QED BY <1>4, <2>1
<1>6. (Ordinary' => Ordinary) /\ Remade' = {}
  BY <1>1, OrdinaryBefore, NoCall
<1>7. Written' = Written /\ Directories' = Directories /\ Apart' = Apart
  BY <1>1 DEF Written, Directories, Apart
<1>8. Directories \ Remade = Directories
  <2>1. CASE pc = "idle"
    BY <2>1 DEF Remade
  <2>2. CASE pc # "idle"
    <3>1. pc \in ParentRead => job.inode.id = 0 \/ inodes[job.inode.id].type = "file"
      BY <1>3, <1>4, <1>6, <2>2 DEF NewDirectoryInv
    <3>2. Remade # {} => pc \in ParentRead /\ Remade = {job.inode.id}
      BY DEF Remade, ParentRead
    <3> QED BY <3>1, <3>2 DEF Directories, Written
  <2> QED BY <2>1, <2>2
<1>9. DirectoryInv'
  BY <1>1, <1>3, <1>6, <1>7, <1>8 DEF DirectoryInv
<1>10. DiskInv'
  BY <1>1, <1>3, <1>5, <1>7 DEF DiskInv, Removing
<1>11. SizeInv'
  <2> SUFFICES ASSUME Ordinary'
               PROVE  SizeInv'
    BY DEF SizeInv
  <2>1. \A k \in Directories : inodes[k].size <= created + 2
    <3> SUFFICES ASSUME NEW k \in Directories
                 PROVE  inodes[k].size <= created + 2
      OBVIOUS
    <3>1. inodes[k].size \in 0 .. U32 - 1
      BY <1>2, <1>3, <1>6, DirectorySize
    <3>2. inodes[k].size <= created + 1 \/ inodes[k].size <= created + 2
      BY <1>3, <1>6 DEF SizeInv
    <3>3. created \in 0 .. MaxCreated
      BY <1>2 DEF TypeInv
    <3> QED BY <3>1, <3>2, <3>3, SizesAssumption
  <2> QED BY <1>1, <1>3, <1>6, <1>7, <2>1 DEF SizeInv, Before
<1>12. CacheInv'
  <2>1. Root \in Directories /\ (Ordinary => inodes[Root].size > 0)
    BY <1>2, <1>3, DirectorySize, SizesAssumption DEF DirectoryInv
  <2> QED BY <1>1, <1>2, <1>6, <1>7, <2>1 DEF CacheInv, Copy, RootInv, Directories
<1> QED BY <1>1, <1>3, <1>7, <1>9, <1>10, <1>11, <1>12, NoCall DEF FilesInv

\* An inode that is written again has the block and the type that it had.
LEMMA InodeKept ==
    ASSUME TypeInv, RootInv, NEW d \in Flat, inodes' = [inodes EXCEPT ![d.id] = d],
           d.id # 0 => d.id \in Written /\ d.first = inodes[d.id].first
                       /\ d.type = inodes[d.id].type
    PROVE  /\ d.id \in Ids /\ inodes'[d.id] = d
           /\ \A i \in Ids : i # d.id => inodes'[i] = inodes[i]
           /\ \A i \in Ids \ {0} : /\ inodes'[i].id = inodes[i].id
                                   /\ inodes'[i].type = inodes[i].type
                                   /\ inodes'[i].first = inodes[i].first
           /\ Written' = Written /\ Directories' = Directories /\ Apart' = Apart
           /\ entries' = entries /\ Remade' = Remade /\ DirectoryInv => DirectoryInv'
<1>1. d.id \in Ids
  BY DEF Flat, Inodes
<1>2. \A i \in Ids : inodes'[i] = IF i = d.id THEN d ELSE inodes[i]
  BY <1>1 DEF TypeInv
<1>3. \A i \in Ids \ {0} : /\ inodes'[i].id = inodes[i].id
                           /\ inodes'[i].type = inodes[i].type
                           /\ inodes'[i].first = inodes[i].first
  BY <1>2 DEF Written
<1>4. Written' = Written
  BY <1>3 DEF Written
<1>5. Directories' = Directories
  BY <1>3, <1>4 DEF Directories, Written
<1>6. Apart' = Apart
  BY <1>3, <1>4 DEF Apart, Written
<1>7. ASSUME entries' = entries, Remade' = Remade, DirectoryInv
      PROVE  DirectoryInv'
  <2>1. \A k \in Directories : inodes'[k].first = inodes[k].first
    BY <1>3 DEF Directories, Written
  <2>2. /\ \A k \in Directories' : inodes'[k].first # 0
        /\ \A k \in Directories' \ Remade' :
               IsDirectory(k, entries'[inodes'[k].first], Directories')
    BY <1>5, <1>7, <2>1 DEF DirectoryInv
  <2>3. \A b \in Blocks : Named(entries'[b]) # {} => \E k \in Directories' : inodes'[k].first = b
    BY <1>5, <1>7, <2>1 DEF DirectoryInv
  <2> QED BY <1>5, <1>7, <2>2, <2>3 DEF DirectoryInv
<1> QED BY <1>1, <1>2, <1>3, <1>4, <1>5, <1>6, <1>7

LEMMA DiskKept ==
    ASSUME TypeInv, RootInv, DiskInv, NEW d \in Flat, inodes' = [inodes EXCEPT ![d.id] = d],
           d.id # 0 => d.id \in Written /\ d.first = inodes[d.id].first
                       /\ d.type = inodes[d.id].type,
           UNCHANGED <<inode_bits, data_bits, disk_superblock>>, pc # "rm inode"
    PROVE  DiskInv'
<1>1. /\ Written' = Written /\ Directories' = Directories
      /\ \A i \in Ids \ {0} : inodes'[i].first = inodes[i].first
      /\ \A i \in Ids : i # d.id => inodes'[i] = inodes[i]
      /\ \A i \in Ids \ {0} : inodes'[i].id = inodes[i].id
  BY InodeKept
<1>2. Written' \subseteq inode_bits' /\ disk_superblock'.inode \notin Directories'
  BY <1>1 DEF DiskInv
<1>3. \A i \in Ids \ {0} : inodes'[i].id = 0 => inodes'[i] = NoInode
  BY <1>1 DEF DiskInv, Written
<1>4. \A i \in Written' : inodes'[i].first \in data_bits' \/ inodes'[i].first = 0
  <2>1. \A i \in Written : inodes[i].first \in data_bits \/ inodes[i].first = 0
    BY DEF DiskInv
  <2>2. \A i \in Written : inodes'[i].first = inodes[i].first
    BY <1>1 DEF Written
  <2>3. Written' = Written /\ data_bits' = data_bits
    BY <1>1
  <2> QED BY <2>1, <2>2, <2>3
<1>5. \A i \in Written' : inodes'[i].first = disk_superblock'.data =>
          inodes'[i].first = 0 \/ i = disk_superblock'.inode
  <2>1. \A i \in Written : inodes[i].first = disk_superblock.data =>
            inodes[i].first = 0 \/ i = disk_superblock.inode
    BY DEF DiskInv
  <2>2. \A i \in Written : inodes'[i].first = inodes[i].first
    BY <1>1 DEF Written
  <2>3. Written' = Written /\ disk_superblock' = disk_superblock
    BY <1>1
  <2> QED BY <2>1, <2>2, <2>3
<1> QED BY <1>2, <1>3, <1>4, <1>5 DEF DiskInv

\* What a name leads to depends on the ids, the first blocks and which files are
\* empty.
Alike(d, e) == e.id = d.id /\ e.first = d.first /\ (e.size > 0 <=> d.size > 0)

LEMMA GotIdKept ==
    ASSUME TypeInv, \A i \in Ids \ {0} : inodes'[i].id = inodes[i].id,
           NEW d, NEW e, d.first \in Blocks, Alike(d, e), NEW n
    PROVE  Got(entries, inodes', e, n).id = Got(entries, inodes, d, n).id
<1> DEFINE id == FoundIn(entries[d.first], n)
<1>1. e.first = d.first /\ (e.size > 0 <=> d.size > 0)
  BY DEF Alike
<1>2. CASE d.size > 0 /\ id # 0
  <2>1. id \in Ids \ {0}
    <3>1. PICK s \in Named(entries[d.first]) : entries[d.first][s].id = id
      BY <1>2, FoundAt
    <3>2. entries[d.first] \in Pages
      BY DEF TypeInv
    <3> HIDE DEF id
    <3>3. entries[d.first][s].name \in Names /\ s \in Slots
      BY DEF Named
    <3> QED BY <1>2, <3>1, <3>2, <3>3 DEF Pages, Found
  <2>2. Got(entries, inodes', e, n) = inodes'[id] /\ Got(entries, inodes, d, n) = inodes[id]
    BY <1>1, <1>2 DEF Got
  <2> HIDE DEF id
  <2> QED BY <2>1, <2>2
<1>3. CASE ~(d.size > 0 /\ id # 0)
  <2>1. Got(entries, inodes', e, n) = NoInode /\ Got(entries, inodes, d, n) = NoInode
    BY <1>1, <1>3 DEF Got
  <2> QED BY <2>1
<1> QED BY <1>2, <1>3

LEMMA WriteParentShared ==
    ASSUME IInv, Apart, FilesInv, WriteParent, MaxCreated + 2 < U32
    PROVE  Apart' /\ FilesInv'
<1> DEFINE parent == job.parent
           d == [parent EXCEPT !.size = (@ + 1) % U32]
<1>1. /\ pc = "parent" /\ pc \in Creating /\ overwritten = {} /\ pc' = "entry"
      /\ inodes' = [inodes EXCEPT ![d.id] = d] /\ job' = [job EXCEPT !.parent = d]
      /\ UNCHANGED <<inode_bits, data_bits, entries, disk_superblock, superblock, root_inode,
                     current_dir_inode, created>>
      /\ Remade = {} /\ Remade' = {} /\ Ordinary' = Ordinary
  BY DEF WriteParent, WriteInode, At, bitmaps, memory, Creating, Remade, Ordinary
<1>2. TypeInv /\ RootInv /\ job \in Jobs /\ parent \in Flat
  BY <1>1, JobTyped DEF IInv, TypeInv
<1>3. DiskInv /\ DirectoryInv /\ SizeInv /\ CacheInv /\ CreateInv /\ NewFileInv /\ LookupInv
  BY DEF FilesInv
<1>4. /\ parent.id \in Directories /\ parent.type = "dir" /\ job.name \in Names
      /\ parent.first = inodes[parent.id].first
      /\ Ordinary => parent.size = inodes[parent.id].size
  BY <1>1, <1>3 DEF CreateInv, Copy
<1>5. /\ job'.call = job.call /\ job'.name = job.name /\ job'.path = job.path
      /\ job'.inode = job.inode /\ job'.parent = d
  BY <1>1, <1>2 DEF Jobs
<1>6. ASSUME Ordinary
      PROVE  /\ (parent.size + 1) % U32 = parent.size + 1 /\ parent.size >= 2
             /\ parent.size <= created + 1
  <2>1. parent.size \in 0 .. U32 - 1 /\ parent.size >= 2
    BY <1>2, <1>3, <1>4, <1>6, DirectorySize
  <2>2. parent.size <= created + 1
    BY <1>1, <1>3, <1>4, <1>6 DEF SizeInv, Before
  <2>3. created \in 0 .. MaxCreated
    BY <1>2 DEF TypeInv
  <2> DEFINE n == parent.size
  <2> HIDE DEF n, parent
  <2>4. n \in Nat /\ n + 1 < U32 /\ U32 \in Nat
    BY <2>1, <2>2, <2>3, SizesAssumption DEF n
  <2>5. (n + 1) % U32 = n + 1
    BY <2>4
  <2> QED BY <2>1, <2>2, <2>4, <2>5 DEF n
<1>7. /\ d \in Flat /\ d.id = parent.id /\ d.type = parent.type /\ d.first = parent.first
      /\ d.size = (parent.size + 1) % U32 /\ d.size \in 0 .. U32 - 1
      /\ parent.size \in 0 .. U32 - 1
  <2>1. (parent.size + 1) % U32 \in 0 .. U32 - 1
    BY <1>2, Wraps DEF Flat, Inodes
  <2> HIDE DEF parent
  <2> QED BY <1>2, <2>1 DEF Flat, Inodes
<1> HIDE DEF d, parent
<1>8. d.id \in Written /\ d.first = inodes[d.id].first /\ d.type = inodes[d.id].type
  BY <1>4, <1>7 DEF Directories
<1>9. /\ inodes'[d.id] = d /\ \A i \in Ids : i # d.id => inodes'[i] = inodes[i]
      /\ \A i \in Ids \ {0} : /\ inodes'[i].id = inodes[i].id
                              /\ inodes'[i].type = inodes[i].type
                              /\ inodes'[i].first = inodes[i].first
      /\ Written' = Written /\ Directories' = Directories /\ Apart' = Apart
      /\ DirectoryInv'
  BY <1>1, <1>2, <1>3, <1>7, <1>8, InodeKept
<1>10. DiskInv'
  BY <1>1, <1>2, <1>3, <1>7, <1>8, DiskKept
<1>11. Directories \subseteq Ids \ {0}
  BY DEF Directories, Written
<1>12. SizeInv'
  <2> SUFFICES ASSUME Ordinary, NEW k \in Directories
               PROVE  /\ Cardinality(Named(entries[inodes[k].first])) + 2 <= inodes'[k].size
                      /\ inodes'[k].size <= created + 2
    BY <1>1, <1>9, <1>11 DEF SizeInv, Before
  <2> DEFINE n == Cardinality(Named(entries[inodes[k].first]))
             old == inodes[k].size
             new == inodes'[k].size
  <2>1. n \in Nat
    BY NamesCounted
  <2>2. n + 2 <= old /\ old <= created + 1
    BY <1>1, <1>3 DEF SizeInv, Before
  <2>3. old \in 0 .. U32 - 1
    BY <1>2, <1>3, DirectorySize
  <2>4. new \in {old, old + 1}
    BY <1>4, <1>6, <1>7, <1>9, <1>11
  <2>5. created \in 0 .. MaxCreated
    BY <1>2 DEF TypeInv
  <2> HIDE DEF n, old, new
  <2>6. n + 2 <= new /\ new <= created + 2
    BY <2>1, <2>2, <2>3, <2>4, <2>5, SizesAssumption
  <2> QED BY <2>6 DEF n, new
<1>13. CacheInv'
  <2>1. current_dir_inode.id \in Ids \ {0} /\ Root \in Ids \ {0}
    BY <1>3, <1>11, Constants DEF CacheInv
  <2>2. Ordinary /\ current_dir_inode.id # d.id => current_dir_inode = inodes'[current_dir_inode.id]
    BY <1>1, <1>3, <1>9, <2>1 DEF CacheInv
  <2> QED BY <1>1, <1>3, <1>5, <1>9, <2>1, <2>2 DEF CacheInv, Copy
<1>14. CreateInv'
  <2>1. /\ d.id \in Directories' /\ d.type = "dir" /\ inodes'[d.id] = d
    BY <1>4, <1>7, <1>9
  <2>2. ASSUME Ordinary
        PROVE  Cardinality(Named(entries[d.first])) + 3 <= d.size
    <3> DEFINE n == Cardinality(Named(entries[parent.first]))
    <3>1. n \in Nat
      BY NamesCounted
    <3>2. n + 2 <= parent.size
      BY <1>3, <1>4, <2>2 DEF SizeInv
    <3> HIDE DEF n
    <3>3. n + 3 <= d.size
      BY <1>6, <1>7, <2>2, <3>1, <3>2
    <3> QED BY <1>7, <3>3 DEF n
  <2> QED BY <1>1, <1>4, <1>5, <2>1, <2>2 DEF CreateInv, Copy
<1>15. NewFileInv'
  <2>1. job.inode.id # d.id
    BY <1>1, <1>3, <1>4, <1>7 DEF NewFileInv, DiskInv
  <2>2. job.inode.id \in Ids
    BY <1>2, JobTyped
  <2>3. inodes'[job.inode.id] = inodes[job.inode.id]
    BY <1>9, <2>1, <2>2
  <2> QED BY <1>1, <1>3, <1>5, <2>3 DEF NewFileInv, Creating
<1>16. LookupInv'
  <2> SUFFICES ASSUME job.call = "mkdir", d.size > 2
               PROVE  LookupInv'
    BY <1>1, <1>5 DEF LookupInv
  <2>0. parent.size > 1
    <3> DEFINE z == parent.size
    <3>1. z \in 0 .. U32 - 1 /\ (z + 1) % U32 > 2
      BY <1>7
    <3> HIDE DEF z
    <3>2. U32 \in Nat /\ U32 > 3
      BY SizesAssumption
    <3>3. z = 0 => (z + 1) % U32 = 1
      BY <3>2
    <3>4. z = 1 => (z + 1) % U32 = 2
      BY <3>2
    <3>5. z > 1
      BY <3>1, <3>2, <3>3, <3>4
    <3> QED BY <3>5 DEF z
  <2> DEFINE start == IF job.path.absolute THEN root_inode ELSE current_dir_inode
             from == DirectoryOf(job.path, entries, inodes, root_inode, current_dir_inode)
             to == DirectoryOf(job.path, entries, inodes', root_inode, current_dir_inode)
             m == job.path.dir
             n == job.path.name
  <2>1. /\ Got(entries, inodes, from, n).id \in {0, job.inode.id}
        /\ n = job.name /\ from.id = parent.id /\ from.first = parent.first /\ from.size > 0
    BY <1>1, <1>3, <2>0 DEF LookupInv, Before, parent
  <2>2. d.size > 0
    BY <1>7, SizesAssumption
  <2>3. start.first \in Blocks
    BY <1>2 DEF TypeInv, Flat, Inodes
  <2>4. Alike(from, to)
    <3>1. CASE m = NoName
      BY <3>1 DEF DirectoryOf, Alike
    <3>2. CASE m # NoName
      <4> DEFINE f == FoundIn(entries[start.first], m)
      <4>1. from = Got(entries, inodes, start, m) /\ to = Got(entries, inodes', start, m)
        BY <3>2 DEF DirectoryOf
      <4>2. m \in Names /\ start \in Flat
        BY <1>2, <3>2 DEF Paths, TypeInv, Jobs
      <4> HIDE DEF from, to, start, m
      <4>3. from.id # 0
        BY <1>4, <2>1 DEF Directories, Written
      <4>4. from.id = f /\ start.size > 0
        BY <1>2, <4>1, <4>2, <4>3, GotTyped
      <4> HIDE DEF f
      <4>5. to = inodes'[d.id]
        BY <1>7, <2>1, <4>1, <4>3, <4>4 DEF Got, f
      <4> QED BY <1>7, <1>9, <2>1, <2>2, <4>5 DEF Alike
    <3> QED BY <3>1, <3>2
  <2>5. from.first \in Blocks
    BY <1>2, <2>1 DEF Flat, Inodes
  <2>6. DirectoryOf(job'.path, entries', inodes', root_inode', current_dir_inode') = to
    BY <1>1, <1>5
  <2> HIDE DEF from, to, start, m, n
  <2>7. Got(entries, inodes', to, n).id = Got(entries, inodes, from, n).id
    BY <1>2, <1>9, <2>4, <2>5, GotIdKept
  <2>8. n = job'.path.name
    BY <1>5 DEF n
  <2> QED BY <1>1, <1>5, <1>7, <2>1, <2>4, <2>6, <2>7, <2>8 DEF LookupInv, Alike
<1>17. NewDirectoryInv' /\ NewPageInv' /\ RemoveInv'
  BY <1>1, CreatingOnly DEF Creating
<1> QED BY <1>3, <1>9, <1>10, <1>12, <1>13, <1>14, <1>15, <1>16, <1>17 DEF FilesInv

\* The caches are refreshed with a directory that has been written.
LEMMA CachesKept ==
    ASSUME TypeInv, RootInv, CacheInv, NEW d \in Flat, RefreshCaches(d),
           d.id \in Directories => d.first = inodes'[d.id].first /\ d.type = "dir",
           Ordinary' /\ d.id \in Directories => d.size > 0 /\ inodes'[d.id] = d,
           \A i \in Directories : inodes'[i].first = inodes[i].first,
           Ordinary' => Ordinary /\ \A i \in Directories : i # d.id => inodes'[i] = inodes[i],
           Directories \subseteq Directories', Root \in Directories,
           pc = "entry" => job.parent.id = d.id, pc' # "entry"
    PROVE  CacheInv'
<1> DEFINE current == current_dir_inode
<1>1. current' = IF current.id = d.id THEN d ELSE current
  BY DEF RefreshCaches, Refreshed
<1>2. root_inode' = IF d.id = Root THEN d ELSE root_inode
  BY CachesRefreshed
<1>3. /\ current.id \in Directories /\ current.first = inodes[current.id].first
      /\ current.type = "dir" /\ root_inode.first = inodes[Root].first
  BY DEF CacheInv, Copy
<1>4. Ordinary => /\ root_inode.size > 0 /\ current.size > 0
                  /\ current.id # d.id => current = inodes[current.id]
  BY DEF CacheInv
<1> HIDE DEF current
<1>5. /\ current'.id = current.id /\ current'.first = inodes'[current'.id].first
      /\ current'.type = "dir"
  BY <1>1, <1>3
<1>6. root_inode'.first = inodes'[Root].first
  BY <1>2, <1>3
<1>7. ASSUME Ordinary'
      PROVE  current'.size > 0 /\ root_inode'.size > 0 /\ current' = inodes'[current'.id]
  BY <1>1, <1>2, <1>3, <1>4, <1>7
<1> QED BY <1>3, <1>5, <1>6, <1>7 DEF CacheInv, Copy, current

LEMMA ShrinkParentShared ==
    ASSUME IInv, Apart, FilesInv, ShrinkParent
    PROVE  Apart' /\ FilesInv'
<1> DEFINE parent == job.parent
           d == [parent EXCEPT !.size = (@ - 1) % U32]
           n == Cardinality(Named(entries[parent.first]))
<1>1. /\ pc = "rm parent" /\ overwritten = {} /\ inodes' = [inodes EXCEPT ![d.id] = d]
      /\ UNCHANGED <<inode_bits, data_bits, entries, disk_superblock, superblock, created>>
      /\ Remade = {} /\ Ordinary' = Ordinary
      /\ IF ReleasesBlock(d)
         THEN /\ job' = [job EXCEPT !.parent = d] /\ pc' = "rm parent bit"
              /\ UNCHANGED <<current_dir_inode, root_inode>>
         ELSE job' = Idle /\ pc' = "idle" /\ RefreshCaches(d)
  BY DEF ShrinkParent, WriteInode, At, bitmaps, Remade, Ordinary
<1>2. TypeInv /\ RootInv /\ job \in Jobs /\ parent \in Flat
  BY <1>1, JobTyped DEF IInv, TypeInv
<1>3. DiskInv /\ DirectoryInv /\ SizeInv /\ CacheInv /\ RemoveInv
  BY DEF FilesInv
<1>4. /\ parent.id \in Directories /\ parent.first = inodes[parent.id].first
      /\ parent.type = "dir"
      /\ Ordinary => parent = inodes[parent.id] /\ n + 3 <= parent.size
  BY <1>1, <1>3 DEF RemoveInv, Removing, Copy
<1>5. n \in Nat
  BY NamesCounted
<1>6. parent.size \in 0 .. U32 - 1
  BY <1>2 DEF Flat, Inodes
<1>7. ASSUME Ordinary
      PROVE  (parent.size - 1) % U32 = parent.size - 1
  <2> DEFINE m == parent.size - 1
  <2> HIDE DEF parent, n
  <2>1. m \in 0 .. U32 - 1
    BY <1>4, <1>5, <1>6, <1>7, SizesAssumption
  <2> HIDE DEF m
  <2>2. m % U32 = m
    BY <2>1, SizesAssumption
  <2> QED BY <2>2 DEF m
<1>8. /\ d \in Flat /\ d.id = parent.id /\ d.type = parent.type /\ d.first = parent.first
      /\ d.size = (parent.size - 1) % U32
  <2>1. (parent.size - 1) % U32 \in 0 .. U32 - 1
    BY <1>6, Wraps
  <2> HIDE DEF parent
  <2> QED BY <1>2, <2>1 DEF Flat, Inodes
<1> HIDE DEF d, parent, n
<1>9. ~ReleasesBlock(d)
  <2>1. entries[d.first][1].id = parent.id
    <3>1. d.first = inodes[parent.id].first
      BY <1>4, <1>8
    <3>2. entries[inodes[parent.id].first][1] = [id |-> parent.id, name |-> "."]
      BY <1>1, <1>3, <1>4 DEF DirectoryInv, IsDirectory
    <3> QED BY <3>1, <3>2
  <2>2. parent.id # 0 /\ NoEntry.id = 0
    BY <1>4 DEF Directories, Written, NoEntry
  <2>3. 1 \in Slots /\ 4 * (1 - 1) < EntriesPerBlock
    BY SizesAssumption, Constants
  <2> QED BY <2>1, <2>2, <2>3 DEF ReleasesBlock, LooksEmpty
<1>10. pc' = "idle" /\ RefreshCaches(d) /\ Remade' = Remade
  BY <1>1, <1>9, NoCall
<1>11. d.id \in Written /\ d.first = inodes[d.id].first /\ d.type = inodes[d.id].type
  BY <1>4, <1>8 DEF Directories
<1>12. /\ inodes'[d.id] = d /\ \A i \in Ids : i # d.id => inodes'[i] = inodes[i]
       /\ \A i \in Ids \ {0} : inodes'[i].first = inodes[i].first
       /\ Written' = Written /\ Directories' = Directories /\ Apart' = Apart
       /\ DirectoryInv'
  BY <1>1, <1>2, <1>3, <1>8, <1>10, <1>11, InodeKept
<1>13. DiskInv'
  BY <1>1, <1>2, <1>3, <1>8, <1>11, DiskKept
<1>14. Directories \subseteq Ids \ {0}
  BY DEF Directories, Written
<1>15. SizeInv'
  <2> SUFFICES ASSUME Ordinary, NEW k \in Directories
               PROVE  /\ Cardinality(Named(entries[inodes[k].first])) + 2 <= inodes'[k].size
                      /\ inodes'[k].size <= created + 2
    BY <1>1, <1>10, <1>12, <1>14 DEF SizeInv, Before
  <2>1. inodes[k].size <= created + 2
    BY <1>1, <1>3 DEF SizeInv, Before
  <2>2. CASE k = d.id
    <3>1. n + 2 <= parent.size - 1
      BY <1>4, <1>5, <1>6
    <3>2. Cardinality(Named(entries[inodes[k].first])) = n /\ inodes'[k].size = parent.size - 1
      BY <1>4, <1>7, <1>8, <1>12, <2>2 DEF n
    <3>3. parent.size <= created + 2
      BY <1>4, <1>8, <2>1, <2>2
    <3>4. created \in 0 .. MaxCreated
      BY <1>2 DEF TypeInv
    <3>5. parent.size - 1 <= created + 2
      BY <1>6, <3>3, <3>4, SizesAssumption
    <3> QED BY <3>1, <3>2, <3>5
  <2>3. CASE k # d.id
    BY <1>3, <1>12, <1>14, <2>1, <2>3 DEF SizeInv
  <2> QED BY <2>2, <2>3
<1>16. CacheInv'
  <2>1. Ordinary => d.size > 0
    BY <1>4, <1>5, <1>6, <1>7, <1>8
  <2>2. Root \in Directories /\ pc # "entry" /\ pc' # "entry"
    BY <1>1, <1>3, <1>10 DEF DirectoryInv
  <2>3. d.first = inodes'[d.id].first /\ d.type = "dir"
    BY <1>4, <1>8, <1>12
  <2>4. /\ \A i \in Directories : inodes'[i].first = inodes[i].first
        /\ \A i \in Directories : i # d.id => inodes'[i] = inodes[i]
    BY <1>12, <1>14
  <2> QED BY <1>1, <1>2, <1>3, <1>8, <1>10, <1>12, <2>1, <2>2, <2>3, <2>4, CachesKept
<1> QED BY <1>10, <1>12, <1>13, <1>15, <1>16, NoCall DEF FilesInv

\* A file that is not a directory is written again.
LEMMA FileKept ==
    ASSUME TypeInv, RootInv, FilesInv, NEW d \in Flat, inodes' = [inodes EXCEPT ![d.id] = d],
           d.id # 0 => d.id \in Written /\ d.first = inodes[d.id].first
                       /\ d.type = inodes[d.id].type,
           Ordinary' => Ordinary /\ d.type = "file",
           UNCHANGED <<inode_bits, data_bits, entries, disk_superblock, root_inode,
                       current_dir_inode, created>>,
           pc \in {"idle", "dot"} \cup ParentRead, pc' \in ParentRead, Remade' = Remade
    PROVE  /\ Written' = Written /\ Directories' = Directories /\ Apart' = Apart
           /\ \A i \in Ids \ {0} : inodes'[i].first = inodes[i].first
                                   /\ inodes'[i].type = inodes[i].type
           /\ Ordinary' => \A k \in Directories : inodes'[k] = inodes[k]
           /\ DiskInv' /\ DirectoryInv' /\ SizeInv' /\ CacheInv'
<1>1. DiskInv /\ DirectoryInv /\ SizeInv /\ CacheInv
  BY DEF FilesInv
<1>2. /\ \A i \in Ids : i # d.id => inodes'[i] = inodes[i]
      /\ \A i \in Ids \ {0} : inodes'[i].first = inodes[i].first
                              /\ inodes'[i].type = inodes[i].type
      /\ Written' = Written /\ Directories' = Directories /\ Apart' = Apart
      /\ DirectoryInv'
  BY <1>1, InodeKept
<1>3. \A k \in Directories : k \in Ids \ {0} /\ inodes[k].type = "dir"
  BY DEF Directories, Written
<1>4. ASSUME Ordinary', NEW k \in Directories
      PROVE  inodes'[k] = inodes[k]
  BY <1>2, <1>3, <1>4
<1>5. /\ pc \notin Before \cup {"entry", "rm inode"} /\ pc' \notin Before \cup {"entry"}
  BY DEF ParentRead, Before
<1>6. DiskInv'
  BY <1>1, <1>5, DiskKept
<1>7. SizeInv'
  BY <1>1, <1>2, <1>4, <1>5 DEF SizeInv
<1>8. CacheInv'
  <2>1. /\ current_dir_inode.id \in Ids \ {0} /\ Root \in Ids \ {0}
    BY <1>1, <1>3, Constants DEF CacheInv
  <2>2. ASSUME Ordinary'
        PROVE  /\ current_dir_inode.size > 0 /\ root_inode.size > 0
               /\ current_dir_inode = inodes'[current_dir_inode.id]
    BY <1>1, <1>4, <1>5, <2>2 DEF CacheInv
  <2> QED BY <1>1, <1>2, <2>1, <2>2 DEF CacheInv, Copy
<1> QED BY <1>2, <1>4, <1>6, <1>7, <1>8

LEMMA WriteDotShared ==
    ASSUME IInv, RootKept, Apart, FilesInv, pc \in {"idle", "dot"}, pc' = "dot data", overwritten = {},
           NEW p \in Paths, NEW file \in Flat,
           NEW dir, dir = inode_from_path(p), NEW parent, parent = parent_inode_from_path(p),
           WriteDot(file, dir, parent),
           file.id \in inode_bits, file.id = 0 => file.type = "file",
           file.id # 0 => file.id \in Written /\ file.first = inodes[file.id].first
                          /\ file.type = inodes[file.id].type,
           Ordinary' => Ordinary /\ file.type = "file",
           \A i \in Written :
               i # file.id /\ inodes[i].first = file.first => inodes[i].first = 0,
           disk_superblock.inode \in inode_bits => disk_superblock.inode = 0,
           dir.id \in {0, file.id}, file.type = "dir" => dir.id = file.id,
           \A page \in Loaded(file) :
               /\ page \in Pages
               /\ Named(page) # {} => file.type = "dir"
               /\ \A s \in Named(page) : page[s].id \notin {dir.id, parent.id}
               /\ \A s \in Slots : page[s].id \in Ids \ {0} => s \in Named(page) \cup {1, 2}
    PROVE  Apart' /\ FilesInv'
<1> DEFINE more == AtLeast(file, 1)
           d == DirectoryOf(p, entries, inodes, root_inode, current_dir_inode)
<1>1. pc \in {"idle", "dot"} \cup ParentRead /\ pc' \in ParentRead /\ Remade' = Remade
  BY DEF Remade, ParentRead
<1>2. TypeInv /\ RootInv
  BY DEF IInv
<1>3. PICK page \in Loaded(file) :
          /\ inodes' = [inodes EXCEPT ![more.id] = more]
          /\ job' = [Idle EXCEPT !.call = "mkdir", !.parent = parent, !.dir = dir,
                         !.inode = more,
                         !.page = [page EXCEPT ![1] = [id |-> dir.id, name |-> "."]]]
          /\ UNCHANGED <<inode_bits, data_bits, entries, disk_superblock, superblock,
                         root_inode, current_dir_inode, created>>
  BY DEF WriteDot, WriteInode, bitmaps, memory
<1>4. more \in Flat /\ more.id = file.id /\ more.first = file.first /\ more.type = file.type
  <2>1. more \in Flat /\ more.id = file.id /\ more.first = file.first
    BY AtLeastTyped
  <2>2. more.type = file.type
    BY DEF AtLeast, Flat, Inodes
  <2> QED BY <2>1, <2>2
<1>5. /\ job'.call = "mkdir" /\ job'.parent = parent /\ job'.dir = dir /\ job'.inode = more
      /\ job'.page = [page EXCEPT ![1] = [id |-> dir.id, name |-> "."]]
  <2> HIDE DEF more
  <2> QED BY <1>3 DEF Idle
<1>6. /\ page \in Pages
      /\ Named(page) # {} => file.type = "dir"
      /\ \A s \in Named(page) : page[s].id \notin {dir.id, parent.id}
      /\ \A s \in Slots : page[s].id \in Ids \ {0} => s \in Named(page) \cup {1, 2}
  BY <1>3
<1>7. /\ dir = Got(entries, inodes, d, p.name) /\ parent = d
      /\ d \in Flat /\ (dir.id # 0 => d.id \in Directories)
      /\ d.id # 0 => d.first = inodes[d.id].first /\ d.type = inodes[d.id].type
      /\ Ordinary /\ d.id # 0 => d = inodes[d.id]
  BY <1>2, PathIsWritten
<1>8. dir.id # 0 => dir.first = file.first
  <2> HIDE DEF d
  <2>1. p.name \in Names
    BY DEF Paths
  <2>2. dir.id # 0 => dir = inodes[dir.id]
    BY <1>2, <1>7, <2>1, GotTyped
  <2> QED BY <2>2
<1> HIDE DEF more, d
<1>9. /\ Written' = Written /\ Directories' = Directories /\ Apart' = Apart
      /\ \A i \in Ids \ {0} : inodes'[i].first = inodes[i].first
                              /\ inodes'[i].type = inodes[i].type
      /\ Ordinary' => \A k \in Directories : inodes'[k] = inodes[k]
      /\ DiskInv' /\ DirectoryInv' /\ SizeInv' /\ CacheInv'
  BY <1>1, <1>2, <1>3, <1>4, FileKept
<1>10. NewDirectoryInv'
  <2>1. file.id \in Ids /\ Written \subseteq Ids \ {0}
    BY DEF Flat, Inodes, Written
  <2>2. job'.inode.id # 0 =>
            /\ job'.inode.id \in Written' /\ inodes'[job'.inode.id].first = job'.inode.first
            /\ inodes'[job'.inode.id].type = job'.inode.type
    <3>1. job'.inode.id = file.id /\ job'.inode.first = file.first /\ job'.inode.type = file.type
      BY <1>4, <1>5
    <3>2. file.id # 0 => file.id \in Ids \ {0} /\ file.id \in Written
      BY <2>1
    <3> QED BY <1>9, <3>1, <3>2
  <2>3. \A i \in Written' :
            i # job'.inode.id /\ inodes'[i].first = job'.inode.first => inodes'[i].first = 0
    BY <1>4, <1>5, <1>9, <2>1
  <2>4. /\ job'.inode.id \in inode_bits' /\ pc' # "dot"
        /\ Ordinary' \/ job'.inode.id = 0 => job'.inode.type = "file"
        /\ disk_superblock'.inode \in inode_bits' => disk_superblock'.inode = 0
    <3>1. inode_bits' = inode_bits /\ disk_superblock' = disk_superblock
      BY <1>3
    <3>2. job'.inode.id = file.id /\ job'.inode.type = file.type
      BY <1>4, <1>5
    <3> QED BY <3>1, <3>2
  <2> QED BY <1>5, <2>2, <2>3, <2>4 DEF NewDirectoryInv
<1>11. NewPageInv'
  <2> DEFINE e == [id |-> dir.id, name |-> "."]
  <2>1. 1 \in Slots /\ e.name = "." /\ e.name \notin Names
    BY Constants, NamesAssumption
  <2>2. /\ \A t \in Slots : job'.page[t] = IF t = 1 THEN e ELSE page[t]
        /\ Named(job'.page) = Named(page) \ {1}
    <3>1. job'.page = [page EXCEPT ![1] = e]
      BY <1>5
    <3>2. page \in Pages
      BY <1>6
    <3> HIDE DEF e
    <3>3. \A t \in Slots : job'.page[t] = IF t = 1 THEN e ELSE page[t]
      BY <3>1, <3>2 DEF Pages
    <3> QED BY <2>1, <3>3 DEF Named
  <2>3. job'.page[1] = e /\ \A s \in Named(job'.page) : s \in Named(page) /\ job'.page[s] = page[s]
    BY <2>1, <2>2 DEF Named
  <2>4. \A s \in Slots : job'.page[s].id \in Ids \ {0} => s \in Named(job'.page) \cup {1, 2}
    BY <1>6, <2>2
  <2>5. job'.dir.id # 0 \/ job'.inode.type = "dir" =>
            /\ job'.dir.id = job'.inode.id /\ job'.dir.first = job'.inode.first
            /\ job'.parent.id \in Directories'
    BY <1>4, <1>5, <1>7, <1>8, <1>9
  <2>6. job'.parent.id \in Directories' => Copy(job.parent)'
    <3>1. d.id \in Directories => d.id \in Ids \ {0} /\ d.first = inodes[d.id].first /\ d.type = "dir"
      BY <1>7 DEF Directories, Written
    <3>2. d.id \in Directories' => d.first = inodes'[d.id].first /\ d.type = "dir"
      BY <1>9, <3>1
    <3> QED BY <1>5, <1>7, <3>2 DEF Copy
  <2>7. Ordinary' /\ job'.parent.id \in Directories' => job'.parent = inodes'[job'.parent.id]
    <3>1. d.id \in Directories => d.id # 0
      BY DEF Directories, Written
    <3>2. Ordinary' /\ d.id \in Directories => d = inodes[d.id] /\ inodes'[d.id] = inodes[d.id]
      BY <1>7, <1>9, <3>1
    <3>3. job'.parent = d /\ Directories' = Directories
      BY <1>5, <1>7, <1>9
    <3> QED BY <3>2, <3>3
  <2>8. Named(job'.page) # {} => job'.inode.type = "dir"
    BY <1>4, <1>5, <1>6, <2>2
  <2>9. \A s \in Named(job'.page) : job'.page[s].id \notin {job'.dir.id, job'.parent.id}
    BY <1>5, <1>6, <2>3
  <2> QED BY <1>5, <2>3, <2>4, <2>5, <2>6, <2>7, <2>8, <2>9 DEF NewPageInv
<1>12. CreateInv' /\ NewFileInv' /\ LookupInv' /\ RemoveInv'
  BY DEF CreateInv, NewFileInv, LookupInv, RemoveInv, Creating, Removing
<1> QED BY <1>9, <1>10, <1>11, <1>12 DEF FilesInv

LEMMA MakeCreatedShared ==
    ASSUME IInv, RootKept, Apart, FilesInv, MakeCreated
    PROVE  Apart' /\ FilesInv'
<1> DEFINE file == job.inode
           dir == inode_from_path(job.path)
           parent == parent_inode_from_path(job.path)
           d == DirectoryOf(job.path, entries, inodes, root_inode, current_dir_inode)
<1>1. /\ pc = "dot" /\ pc' = "dot data" /\ overwritten = {} /\ WriteDot(file, dir, parent)
      /\ Ordinary' = Ordinary
  BY DEF MakeCreated, WriteDot, At, Ordinary
<1>2. TypeInv /\ RootInv /\ file \in Flat /\ job.path \in Paths
  BY JobTyped DEF IInv, TypeInv
<1>3. /\ job.call = "mkdir" /\ file.id \in inode_bits /\ file.type = "file" /\ file.size = 0
      /\ file.id # 0 => file.id \in Written /\ file.first = inodes[file.id].first
                        /\ file.type = inodes[file.id].type
      /\ \A i \in Written :
             i # file.id /\ inodes[i].first = file.first => inodes[i].first = 0
      /\ disk_superblock.inode \in inode_bits => disk_superblock.inode = 0
  BY <1>1 DEF FilesInv, NewDirectoryInv
<1>4. \A page \in Loaded(file) :
          page \in Pages /\ \A s \in Slots : page[s].name \notin Names /\ page[s].id \notin Ids \ {0}
  <2> SUFFICES ASSUME NEW page \in Junk
               PROVE  page \in Pages
                      /\ \A s \in Slots : page[s].name \notin Names /\ page[s].id \notin Ids \ {0}
    BY <1>3 DEF Loaded
  <2>1. /\ page \in [Slots -> Entries]
        /\ \A s \in Slots : page[s].name \notin Names /\ page[s].id \notin Ids \ {0}
    BY NamesAssumption
  <2>2. page \in Pages
    BY JunkTyped
  <2> QED BY <2>1, <2>2
<1>5. \A page \in Loaded(file) : page \in Pages /\ Named(page) = {}
  BY <1>4 DEF Named
<1>6. dir.id \in {0, file.id}
  <2>1. dir = Got(entries, inodes, d, job.path.name)
    BY <1>1, <1>2, PathIsWritten
  <2> QED BY <1>1, <1>3, <2>1 DEF FilesInv, LookupInv, Before
<1>7. \A page \in Loaded(file) :
          /\ page \in Pages
          /\ Named(page) # {} => file.type = "dir"
          /\ \A s \in Named(page) : page[s].id \notin {dir.id, parent.id}
          /\ \A s \in Slots : page[s].id \in Ids \ {0} => s \in Named(page) \cup {1, 2}
  BY <1>4, <1>5
<1> HIDE DEF file, dir, parent, d
<1> QED BY <1>1, <1>2, <1>3, <1>6, <1>7, WriteDotShared DEF dir, parent

LEMMA MakeExistingShared ==
    ASSUME IInv, RootKept, Apart, FilesInv, Followed, ParentInv, Followed',
           NEW p \in Paths, MakeExisting(p)
    PROVE  Apart' /\ FilesInv'
<1> DEFINE file == inode_from_path(p)
           parent == parent_inode_from_path(p)
           d == DirectoryOf(p, entries, inodes, root_inode, current_dir_inode)
<1>1. /\ pc = "idle" /\ pc' = "dot data" /\ overwritten = {} /\ WriteDot(file, file, parent)
      /\ file.id # 0 /\ events' = events \cup {"made again"}
  BY DEF MakeExisting, WriteDot, At
<1>2. TypeInv /\ RootInv /\ DiskInv /\ DirectoryInv /\ p.name \in Names
  BY DEF IInv, FilesInv, Paths
<1>3. ~Ordinary' /\ events \cap {"create", "mkdir"} = {}
  BY <1>1 DEF Ordinary, Followed, MadeAgain
<1>4. disk_superblock.inode \in inode_bits => disk_superblock.inode = 0
  BY <1>1, <1>3 DEF IInv, FreeInv, Creating
<1>5. /\ file = Got(entries, inodes, d, p.name) /\ parent = d /\ d \in Flat
      /\ d.id \in Directories /\ d.first = inodes[d.id].first
  <2>1. /\ file = Got(entries, inodes, d, p.name) /\ parent = d /\ d \in Flat
        /\ d.id \in Directories /\ (d.id # 0 => d.first = inodes[d.id].first)
    BY <1>1, PathIsWritten
  <2> HIDE DEF file, parent, d
  <2> QED BY <2>1 DEF Directories, Written
<1> HIDE DEF file, parent, d
<1>6. /\ file \in Flat /\ file.id \in Written /\ file = inodes[file.id]
      /\ file.id = FoundIn(entries[d.first], p.name)
  BY <1>1, <1>2, <1>5, GotTyped
<1>7. file.id \in inode_bits /\ \A i \in Written :
          i # file.id /\ inodes[i].first = file.first => inodes[i].first = 0
  BY <1>2, <1>6 DEF DiskInv, Apart
<1>8. file.first \in Blocks /\ entries[file.first] \in Pages
  <2>1. file.first \in Blocks
    BY <1>6 DEF Flat, Inodes
  <2> QED BY <1>2, <2>1 DEF TypeInv
<1>9. Named(entries[file.first]) # {} => file.id \in Directories
  <2> SUFFICES ASSUME Named(entries[file.first]) # {}
               PROVE  file.id \in Directories
    OBVIOUS
  <2>1. PICK k \in Directories : inodes[k].first = file.first
    BY <1>2, <1>8 DEF DirectoryInv
  <2>2. k \in Written /\ inodes[k].first # 0
    BY <1>2 DEF DirectoryInv, Directories
  <2> QED BY <1>7, <2>1, <2>2
<1>10. \A s \in Named(entries[file.first]) : entries[file.first][s].id \notin {file.id, parent.id}
  <2> SUFFICES ASSUME Named(entries[file.first]) # {}
               PROVE  \A s \in Named(entries[file.first]) :
                          entries[file.first][s].id \notin {file.id, parent.id}
    OBVIOUS
  <2>1. Remade = {} /\ file.id \in Directories
    BY <1>1, <1>9 DEF Remade
  <2>2. IsDirectory(file.id, entries[file.first], Directories)
    BY <1>2, <1>6, <2>1 DEF DirectoryInv
  <2>3. entries[file.first][2].id = d.id
    <3>1. PICK s \in Named(entries[d.first]) : entries[d.first][s].id = file.id
      <4> DEFINE q == entries[d.first]
                 n == p.name
      <4>1. FoundIn(q, n) # 0 /\ FoundIn(q, n) = file.id
        BY <1>1, <1>6
      <4> HIDE DEF q, n
      <4>2. \E s \in Named(q) : q[s].id = FoundIn(q, n)
        BY <4>1, FoundAt
      <4> QED BY <4>1, <4>2 DEF q
    <3>2. s \in Slots
      BY DEF Named
    <3> DEFINE k == d.id
               b == inodes[k].first
    <3>3. k \in Directories /\ b = d.first
      BY <1>5
    <3>4. s \in Named(entries[b]) /\ entries[b][s].id = file.id
      BY <3>1, <3>3
    <3> HIDE DEF k, b
    <3>5. entries[inodes[file.id].first][2].id = k
      BY <2>1, <3>2, <3>3, <3>4 DEF ParentInv, b
    <3> QED BY <1>6, <3>5 DEF k
  <2> QED BY <1>5, <2>2, <2>3 DEF IsDirectory
<1>11. \A s \in Slots :
           entries[file.first][s].id \in Ids \ {0} => s \in Named(entries[file.first]) \cup {1, 2}
  BY <1>2, <1>8 DEF DirectoryInv
<1>12. \A page \in Loaded(file) :
           /\ page \in Pages
           /\ Named(page) # {} => file.type = "dir"
           /\ \A s \in Named(page) : page[s].id \notin {file.id, parent.id}
           /\ \A s \in Slots : page[s].id \in Ids \ {0} => s \in Named(page) \cup {1, 2}
  <2> SUFFICES ASSUME NEW page \in Loaded(file)
               PROVE  /\ page \in Pages
                      /\ Named(page) # {} => file.type = "dir"
                      /\ \A s \in Named(page) : page[s].id \notin {file.id, parent.id}
                      /\ \A s \in Slots : page[s].id \in Ids \ {0} => s \in Named(page) \cup {1, 2}
    OBVIOUS
  <2>1. CASE page \in Junk
    <3>1. /\ page \in [Slots -> Entries]
          /\ \A s \in Slots : page[s].name \notin Names /\ page[s].id \notin Ids \ {0}
      BY <2>1, NamesAssumption
    <3>2. page \in Pages /\ Named(page) = {}
      BY <2>1, <3>1, JunkTyped DEF Named
    <3> QED BY <3>1, <3>2
  <2>2. CASE page = entries[file.first]
    BY <1>6, <1>8, <1>9, <1>10, <1>11, <2>2 DEF Directories
  <2> QED BY <2>1, <2>2 DEF Loaded
<1> QED BY <1>1, <1>3, <1>4, <1>6, <1>7, <1>12, WriteDotShared DEF file, parent

LEMMA WriteDotDotShared ==
    ASSUME IInv, Apart, FilesInv, WriteDotDot
    PROVE  Apart' /\ FilesInv'
<1>1. /\ pc = "dotdot" /\ pc \in ParentRead /\ pc' = "dotdot data" /\ pc' \in ParentRead
      /\ inodes' = [inodes EXCEPT ![job.inode.id] = job.inode]
      /\ UNCHANGED <<inode_bits, data_bits, entries, disk_superblock, superblock, root_inode,
                     current_dir_inode, job, created>>
      /\ Remade' = Remade /\ Ordinary' = Ordinary
  BY DEF WriteDotDot, WriteInode, At, bitmaps, memory, ParentRead, Remade, Ordinary
<1>2. TypeInv /\ RootInv /\ job.inode \in Flat
  BY JobTyped DEF IInv, TypeInv
<1>3. NewDirectoryInv /\ NewPageInv
  BY DEF FilesInv
<1>4. /\ job.inode.id # 0 => job.inode.id \in Written
                             /\ job.inode.first = inodes[job.inode.id].first
                             /\ job.inode.type = inodes[job.inode.id].type
      /\ Ordinary => job.inode.type = "file"
  BY <1>1, <1>3 DEF NewDirectoryInv
<1>5. /\ Written' = Written /\ Directories' = Directories /\ Apart' = Apart
      /\ \A i \in Ids \ {0} : inodes'[i].first = inodes[i].first
                              /\ inodes'[i].type = inodes[i].type
      /\ Ordinary' => \A k \in Directories : inodes'[k] = inodes[k]
      /\ DiskInv' /\ DirectoryInv' /\ SizeInv' /\ CacheInv'
  BY <1>1, <1>2, <1>4, FileKept
<1>6. \A i \in Written : i \in Ids \ {0}
  BY DEF Written
<1>7. NewDirectoryInv'
  BY <1>1, <1>3, <1>5, <1>6 DEF NewDirectoryInv
<1>8. NewPageInv'
  <2>1. \A i \in Directories : i \in Ids \ {0}
    BY DEF Directories, Written
  <2>2. job.parent.id \in Directories => Copy(job.parent)'
    <3>1. job.parent.id \in Directories => Copy(job.parent)
      BY <1>1, <1>3 DEF NewPageInv
    <3>2. job.parent.id \in Directories => inodes'[job.parent.id].first = inodes[job.parent.id].first
      BY <1>5, <2>1
    <3> QED BY <1>1, <3>1, <3>2 DEF Copy
  <2> QED BY <1>1, <1>3, <1>5, <2>2 DEF NewPageInv
<1>9. CreateInv' /\ NewFileInv' /\ LookupInv' /\ RemoveInv'
  BY <1>1 DEF CreateInv, NewFileInv, LookupInv, RemoveInv, Creating, Removing
<1> QED BY <1>5, <1>7, <1>8, <1>9 DEF FilesInv

\* A new file's inode is written: no path leads through it.
LEMMA WriteNewInodeShared ==
    ASSUME IInv, Apart, FilesInv, WriteNewInode
    PROVE  Apart' /\ FilesInv'
<1> DEFINE i == job.inode.id
<1>1. /\ pc = "inode" /\ pc \in Creating /\ pc' \in {"grow", "parent"}
      /\ inodes' = [inodes EXCEPT ![i] = job.inode]
      /\ UNCHANGED <<inode_bits, data_bits, entries, disk_superblock, superblock, root_inode,
                     current_dir_inode, job, created>>
      /\ Remade = {} /\ Remade' = {} /\ Ordinary' = Ordinary
  BY DEF WriteNewInode, WriteInode, At, bitmaps, memory, Creating, Remade, Ordinary
<1>2. TypeInv /\ RootInv /\ job.inode \in Flat /\ i \in Ids
  BY JobTyped DEF IInv, TypeInv
<1>3. /\ DiskInv /\ DirectoryInv /\ SizeInv /\ CacheInv /\ CreateInv /\ LookupInv
      /\ i = disk_superblock.inode /\ i \in inode_bits
      /\ job.inode.type = "file" /\ job.inode.size = 0
      /\ superblock.inode \in inode_bits => superblock.inode = 0
      /\ job.inode.first = disk_superblock.data /\ job.inode.first \in data_bits
      /\ superblock.data \in data_bits => superblock.data = 0
  BY <1>1 DEF FilesInv, NewFileInv
<1>4. inodes'[i] = job.inode /\ \A j \in Ids : j # i => inodes'[j] = inodes[j]
  BY <1>1, <1>2 DEF TypeInv
<1>5. i \notin Directories
  BY <1>3 DEF DiskInv
<1>6. Written' = Written \cup ({i} \ {0})
  BY <1>2, <1>4 DEF Written
<1>7. Directories' = Directories
  BY <1>2, <1>3, <1>4, <1>5 DEF Directories, Written
<1>8. \A k \in Directories : k \in Ids \ {0} /\ inodes'[k] = inodes[k]
  BY <1>4, <1>5 DEF Directories, Written
<1>9. \A j \in Written' : j # i => j \in Written /\ inodes'[j] = inodes[j]
  BY <1>4, <1>6 DEF Written
<1>10. Apart'
  <2>1. ASSUME NEW j \in Written, j # i, inodes[j].first = job.inode.first
        PROVE  inodes[j].first = 0
    BY <1>3, <2>1 DEF DiskInv
  <2>2. \A j \in Written' : j # i /\ inodes'[j].first = inodes'[i].first => inodes'[j].first = 0
    BY <1>4, <1>9, <2>1
  <2>3. \A j, k \in Written' :
            j # i /\ k # i /\ j # k /\ inodes'[j].first = inodes'[k].first => inodes'[j].first = 0
    BY <1>9 DEF Apart
  <2> QED BY <2>2, <2>3 DEF Apart
<1>11. DiskInv'
  <2>1. Written' \subseteq inode_bits' /\ disk_superblock'.inode \notin Directories'
    BY <1>1, <1>3, <1>6, <1>7 DEF DiskInv
  <2>2. \A j \in Ids \ {0} : inodes'[j].id = 0 => inodes'[j] = NoInode
    BY <1>3, <1>4 DEF DiskInv
  <2>3. \A j \in Written : inodes[j].first \in data_bits \/ inodes[j].first = 0
    BY <1>1, <1>3 DEF DiskInv
  <2>4. \A j \in Written' : inodes'[j].first \in data_bits' \/ inodes'[j].first = 0
    <3>1. data_bits' = data_bits
      BY <1>1
    <3> QED BY <1>3, <1>4, <1>9, <2>3, <3>1
  <2>5. \A j \in Written : inodes[j].first = disk_superblock.data =>
            inodes[j].first = 0 \/ j = disk_superblock.inode
    BY <1>3 DEF DiskInv
  <2>6. \A j \in Written' : inodes'[j].first = disk_superblock'.data =>
            inodes'[j].first = 0 \/ j = disk_superblock'.inode
    <3>1. disk_superblock' = disk_superblock
      BY <1>1
    <3> QED BY <1>3, <1>9, <2>5, <3>1
  <2> QED BY <2>1, <2>2, <2>4, <2>6 DEF DiskInv
<1>12. DirectoryInv'
  <2>1. \A k \in Directories' :
            /\ inodes'[k].first # 0
            /\ IsDirectory(k, entries'[inodes'[k].first], Directories')
    BY <1>1, <1>3, <1>7, <1>8 DEF DirectoryInv
  <2>2. \A b \in Blocks : Named(entries'[b]) # {} => \E k \in Directories' : inodes'[k].first = b
    BY <1>1, <1>3, <1>7, <1>8 DEF DirectoryInv
  <2> QED BY <1>1, <1>3, <1>7, <2>1, <2>2 DEF DirectoryInv
<1>13. pc \in Before /\ pc' \in Before /\ pc' # "entry" /\ pc # "entry"
  BY <1>1 DEF Before
<1>14. SizeInv'
  BY <1>1, <1>3, <1>7, <1>8, <1>13 DEF SizeInv
<1>15. CacheInv'
  BY <1>1, <1>3, <1>7, <1>8, <1>13 DEF CacheInv, DirectoryInv, Copy
<1>16. CreateInv'
  BY <1>1, <1>3, <1>7, <1>8, <1>13 DEF CreateInv, Copy
<1>17. NewFileInv'
  BY <1>1, <1>3, <1>4 DEF NewFileInv
<1>18. LookupInv'
  <2> SUFFICES ASSUME job.call = "mkdir", job.parent.size > 1
               PROVE  LookupInv'
    BY <1>1, <1>13 DEF LookupInv
  <2> DEFINE start == IF job.path.absolute THEN root_inode ELSE current_dir_inode
             from == DirectoryOf(job.path, entries, inodes, root_inode, current_dir_inode)
             to == DirectoryOf(job.path, entries, inodes', root_inode, current_dir_inode)
             m == job.path.dir
             n == job.path.name
             f == FoundIn(entries[start.first], m)
             g == FoundIn(entries[from.first], n)
  <2>1. /\ Got(entries, inodes, from, n).id \in {0, i}
        /\ n = job.name /\ from.id = job.parent.id /\ from.first = job.parent.first
        /\ from.size > 0
    BY <1>1, <1>3, <1>13 DEF LookupInv
  <2>2. from.id \in Directories
    BY <1>1, <1>3, <2>1 DEF CreateInv
  <2>3. \A j \in Ids : inodes[j].id \in {0, j}
    BY <1>2 DEF RootInv
  <2>4. to = from
    <3>1. CASE m = NoName
      BY <3>1 DEF DirectoryOf
    <3>2. CASE m # NoName
      <4>1. from = Got(entries, inodes, start, m) /\ to = Got(entries, inodes', start, m)
        BY <3>2 DEF DirectoryOf
      <4>2. m \in Names /\ start \in Flat
        BY <1>2, <3>2, JobTyped DEF Paths, TypeInv
      <4> HIDE DEF from, to, start, m
      <4>3. from.id # 0 /\ from.id # i
        BY <1>5, <2>2 DEF Directories, Written
      <4>4. from.id = f /\ start.size > 0 /\ f \in Ids
        BY <1>2, <4>1, <4>2, <4>3, GotTyped DEF Written
      <4>5. to = inodes'[f] /\ from = inodes[f]
        BY <4>1, <4>3, <4>4 DEF Got
      <4> HIDE DEF f, i
      <4> QED BY <1>4, <4>3, <4>4, <4>5
    <3> QED BY <3>1, <3>2
  <2>5. DirectoryOf(job'.path, entries', inodes', root_inode', current_dir_inode') = to
    BY <1>1
  <2> HIDE DEF from, to, start, m
  <2>6. Got(entries, inodes', from, n).id \in {0, i}
    <3>1. CASE from.size > 0 /\ g # 0
      <4>1. g \in Ids
        <5> DEFINE page == entries[from.first]
        <5>1. FoundIn(page, n) # 0 /\ g = FoundIn(page, n)
          BY <3>1
        <5>2. from.first \in Blocks
          BY <1>2, <2>1, JobTyped DEF TypeInv
        <5>3. page \in Pages
          BY <1>2, <5>2 DEF TypeInv
        <5> HIDE DEF g, n, page
        <5>4. PICK s \in Named(page) : page[s].id = FoundIn(page, n)
          BY <5>1, FoundAt
        <5>5. page[s].name \in Names /\ s \in Slots
          BY DEF Named
        <5> QED BY <5>1, <5>3, <5>4, <5>5 DEF Pages, Found
      <4>2. Got(entries, inodes', from, n) = inodes'[g] /\ Got(entries, inodes, from, n) = inodes[g]
        BY <3>1 DEF Got
      <4> HIDE DEF g, i, n
      <4>3. job.inode.id = i
        BY DEF i
      <4> QED BY <1>4, <2>1, <4>1, <4>2, <4>3
    <3>2. CASE ~(from.size > 0 /\ g # 0)
      BY <3>2, NothingTyped DEF Got
    <3> QED BY <3>1, <3>2
  <2>7. n = job'.path.name /\ i = job'.inode.id
    BY <1>1
  <2> HIDE DEF n, i
  <2> QED BY <1>1, <2>1, <2>4, <2>5, <2>6, <2>7 DEF LookupInv
<1>19. NewDirectoryInv' /\ NewPageInv' /\ RemoveInv'
  BY <1>1, CreatingOnly DEF Creating
<1> QED BY <1>10, <1>11, <1>12, <1>14, <1>15, <1>16, <1>17, <1>18, <1>19 DEF FilesInv

\* A file's inode becomes a directory's: its page has no name in it.
LEMMA WriteDirectoryShared ==
    ASSUME IInv, Apart, FilesInv, WriteDirectory
    PROVE  Apart' /\ FilesInv'
<1> DEFINE k == job.dir.id
           d == [job.dir EXCEPT !.type = "dir", !.size = 2]
<1>1. /\ pc = "directory" /\ pc \in ParentRead /\ pc' = "idle" /\ job' = Idle
      /\ inodes' = [inodes EXCEPT ![d.id] = d] /\ RefreshCaches(job.parent)
      /\ UNCHANGED <<inode_bits, data_bits, entries, disk_superblock, superblock, created>>
      /\ Remade = {} /\ Remade' = {} /\ Ordinary' = Ordinary
  BY DEF WriteDirectory, WriteInode, At, bitmaps, ParentRead, Remade, Ordinary
<1>2. overwritten = {}
  BY DEF WriteDirectory, At
<1>3. /\ TypeInv /\ RootInv /\ job.dir \in Flat /\ job.parent \in Flat /\ k \in Ids
  BY <1>1, <1>2, JobTyped DEF IInv, TypeInv
<1>4. DiskInv /\ DirectoryInv /\ SizeInv /\ CacheInv
  BY DEF FilesInv
<1>5. /\ job.inode.id \in inode_bits
      /\ job.inode.id # 0 =>
             /\ job.inode.id \in Written
             /\ inodes[job.inode.id].first = job.inode.first
             /\ inodes[job.inode.id].type = job.inode.type
      /\ Ordinary => job.inode.type = "file"
      /\ disk_superblock.inode \in inode_bits => disk_superblock.inode = 0
  BY <1>1 DEF FilesInv, NewDirectoryInv
<1>6. /\ k # 0 => /\ k = job.inode.id /\ job.dir.first = job.inode.first
                  /\ job.parent.id \in Directories
      /\ job.parent.id \in Directories => Copy(job.parent)
      /\ Ordinary /\ job.parent.id \in Directories => job.parent = inodes[job.parent.id]
      /\ Named(job.page) # {} => job.inode.type = "dir"
      /\ \A s \in Named(job.page) : job.page[s].id \notin {k, job.parent.id}
      /\ job.page[1] = [id |-> k, name |-> "."]
      /\ job.inode.first # 0 /\ job.page[2] = [id |-> job.parent.id, name |-> ".."]
      /\ entries[job.inode.first] = job.page
  BY <1>1 DEF FilesInv, NewPageInv
<1>7. d \in Flat /\ d.id = k /\ d.first = job.dir.first /\ d.type = "dir" /\ d.size = 2
  <2> DEFINE e == [job.dir EXCEPT !.type = "dir"]
  <2>1. /\ e \in Flat /\ e.id = job.dir.id /\ e.first = job.dir.first /\ e.type = "dir"
    BY <1>3 DEF Flat, Inodes
  <2>2. d = [e EXCEPT !.size = 2]
    OBVIOUS
  <2> HIDE DEF d, e
  <2> QED BY <2>1, <2>2, Constants DEF Flat, Inodes
<1> HIDE DEF d, k
<1>8. inodes'[k] = d /\ \A i \in Ids : i # k => inodes'[i] = inodes[i]
  BY <1>1, <1>3, <1>7 DEF TypeInv
<1>9. /\ k # 0 => k \in Written /\ inodes[k].first = d.first
      /\ Ordinary => k \notin Directories
  BY <1>5, <1>6, <1>7 DEF Directories, Written
<1>10. \A i \in Ids \ {0} : inodes'[i].id = inodes[i].id /\ inodes'[i].first = inodes[i].first
  BY <1>7, <1>8, <1>9 DEF Written
<1>11. Written' = Written /\ Apart'
  <2>1. Written' = Written
    BY <1>10 DEF Written
  <2> QED BY <1>10, <2>1 DEF Apart, Written
<1>12. Directories' = Directories \cup ({k} \ {0})
  <2>1. \A i \in Written : i # k => (i \in Directories' <=> i \in Directories)
    BY <1>8, <1>11 DEF Directories, Written
  <2>2. k # 0 => k \in Directories'
    BY <1>7, <1>8, <1>9, <1>11 DEF Directories
  <2>3. Directories \subseteq Written /\ Directories' \subseteq Written /\ 0 \notin Written
    BY <1>11 DEF Directories, Written
  <2> QED BY <1>9, <2>1, <2>2, <2>3
<1>13. \A i \in Directories : /\ i \in Ids \ {0} /\ (i # k => inodes'[i] = inodes[i])
                              /\ inodes'[i].first = inodes[i].first
                              /\ Ordinary => i # k
  BY <1>8, <1>9, <1>10 DEF Directories, Written
<1>14. DiskInv'
  <2>1. Written' \subseteq inode_bits'
    BY <1>1, <1>4, <1>11 DEF DiskInv
  <2>2. disk_superblock'.inode \notin Directories'
    <3>1. disk_superblock' = disk_superblock
      BY <1>1
    <3>2. k # 0 => k # disk_superblock.inode
      BY <1>5, <1>6
    <3> QED BY <1>4, <1>12, <3>1, <3>2 DEF DiskInv
  <2>3. \A i \in Ids \ {0} : inodes'[i].id = 0 => inodes'[i] = NoInode
    BY <1>4, <1>7, <1>8 DEF DiskInv
  <2>4. \A i \in Written : inodes[i].first \in data_bits \/ inodes[i].first = 0
    BY <1>1, <1>4 DEF DiskInv
  <2>5. \A i \in Written : inodes[i].first = disk_superblock.data =>
            inodes[i].first = 0 \/ i = disk_superblock.inode
    BY <1>4 DEF DiskInv
  <2>6. \A i \in Written : inodes'[i].first = inodes[i].first
    BY <1>10 DEF Written
  <2>7. data_bits' = data_bits /\ disk_superblock' = disk_superblock
    BY <1>1
  <2>8. \A i \in Written' : inodes'[i].first \in data_bits' \/ inodes'[i].first = 0
    BY <1>11, <2>4, <2>6, <2>7
  <2>9. \A i \in Written' : inodes'[i].first = disk_superblock'.data =>
            inodes'[i].first = 0 \/ i = disk_superblock'.inode
    BY <1>11, <2>5, <2>6, <2>7
  <2> QED BY <2>1, <2>2, <2>3, <2>8, <2>9 DEF DiskInv
<1>15. DirectoryInv'
  <2>1. Root \in Directories'
    BY <1>4, <1>12 DEF DirectoryInv
  <2>2. ASSUME NEW i \in Directories'
        PROVE  inodes'[i].first # 0 /\ IsDirectory(i, entries[inodes'[i].first], Directories')
    <3>1. CASE i # k
      BY <1>1, <1>4, <1>12, <1>13, <3>1 DEF DirectoryInv, IsDirectory
    <3>2. CASE i = k
      <4>1. i = k /\ k # 0
        BY <2>2, <3>2 DEF Directories, Written
      <4>2. inodes'[i].first = job.inode.first
        BY <1>6, <1>7, <1>8, <4>1
      <4>3. IsDirectory(i, job.page, Directories')
        BY <1>6, <1>12, <4>1 DEF IsDirectory
      <4> QED BY <1>6, <4>2, <4>3
    <3> QED BY <3>1, <3>2
  <2>3. \A b \in Blocks : Named(entries[b]) # {} => \E i \in Directories' : inodes'[i].first = b
    BY <1>4, <1>12, <1>13 DEF DirectoryInv
  <2> QED BY <1>1, <1>4, <2>1, <2>2, <2>3 DEF DirectoryInv
<1>16. SizeInv'
  <2> SUFFICES ASSUME Ordinary, NEW i \in Directories'
               PROVE  /\ Cardinality(Named(entries[inodes'[i].first])) + 2 <= inodes'[i].size
                      /\ inodes'[i].size <= created + 2
    BY <1>1 DEF SizeInv, Before
  <2>1. CASE i \in Directories
    BY <1>1, <1>4, <1>13, <2>1 DEF SizeInv, Before
  <2>2. CASE i \notin Directories
    <3>1. i = k /\ k # 0
      BY <1>12, <2>2
    <3>2. Named(entries[inodes'[i].first]) = {} /\ inodes'[i].size = 2
      BY <1>5, <1>6, <1>7, <1>8, <3>1
    <3>3. Cardinality(Named(entries[inodes'[i].first])) = 0
      BY <3>2, FS_EmptySet
    <3>4. created \in 0 .. MaxCreated
      BY <1>3 DEF TypeInv
    <3>5. 2 <= created + 2 /\ 0 + 2 <= 2
      BY <3>4, SizesAssumption
    <3> QED BY <3>2, <3>3, <3>5
  <2> QED BY <2>1, <2>2
<1>17. CacheInv'
  <2>1. ASSUME Ordinary, job.parent.id \in Directories
        PROVE  job.parent.size > 0 /\ inodes'[job.parent.id] = job.parent
    <3>1. job.parent = inodes[job.parent.id] /\ inodes'[job.parent.id] = inodes[job.parent.id]
      BY <1>6, <1>13, <2>1
    <3>2. inodes[job.parent.id].size > 0
      BY <1>3, <1>4, <2>1, DirectorySize, SizesAssumption
    <3> QED BY <3>1, <3>2
  <2>2. /\ Root \in Directories /\ Directories \subseteq Directories'
        /\ \A i \in Directories : inodes'[i].first = inodes[i].first
        /\ Ordinary => \A i \in Directories : i # job.parent.id => inodes'[i] = inodes[i]
    BY <1>4, <1>12, <1>13 DEF DirectoryInv
  <2>3. pc # "entry" /\ pc' # "entry"
    BY <1>1
  <2>4. job.parent.id \in Directories =>
            job.parent.first = inodes'[job.parent.id].first /\ job.parent.type = "dir"
    BY <1>6, <1>13 DEF Copy
  <2> QED BY <1>1, <1>3, <1>4, <2>1, <2>2, <2>3, <2>4, CachesKept
<1> QED BY <1>1, <1>11, <1>14, <1>15, <1>16, <1>17, NoCall DEF FilesInv

\* The page of a file is written, which is no directory's.
LEMMA FilePageWritten ==
    ASSUME TypeInv, DirectoryInv, NEW b \in Blocks, NEW page,
           Named(page) = {}, \A s \in Slots : page[s].id \in Ids \ {0} => s \in {1, 2},
           \A k \in Directories : inodes[k].first # b,
           \A k \in Directories : k \in Remade => k \in Remade',
           entries' = [entries EXCEPT ![b] = page], inodes' = inodes
    PROVE  /\ DirectoryInv' /\ entries'[b] = page
           /\ \A k \in Directories : entries'[inodes[k].first] = entries[inodes[k].first]
<1>1. \A c \in Blocks : entries'[c] = IF c = b THEN page ELSE entries[c]
  BY DEF TypeInv
<1>2. Written' = Written /\ Directories' = Directories
  BY DEF Written, Directories
<1>3. \A k \in Directories : entries'[inodes[k].first] = entries[inodes[k].first]
  BY <1>1 DEF Directories, Written, TypeInv, Flat, Inodes
<1>4. /\ \A k \in Directories' : inodes'[k].first # 0
      /\ \A k \in Directories' \ Remade' :
             IsDirectory(k, entries'[inodes'[k].first], Directories')
  BY <1>2, <1>3 DEF DirectoryInv
<1>5. \A c \in Blocks : Named(entries'[c]) # {} => \E k \in Directories' : inodes'[k].first = c
  BY <1>1, <1>2 DEF DirectoryInv
<1>6. \A c \in Blocks, s \in Slots :
          entries'[c][s].id \in Ids \ {0} => s \in Named(entries'[c]) \cup {1, 2}
  BY <1>1 DEF DirectoryInv
<1> QED BY <1>1, <1>2, <1>3, <1>4, <1>5, <1>6 DEF DirectoryInv

\* The page of a directory is written.
LEMMA DirectoryPageWritten ==
    ASSUME TypeInv, Apart, DirectoryInv, NEW k \in Directories, NEW page,
           k \in Remade' \/ IsDirectory(k, page, Directories),
           \A j \in Directories : j # k /\ j \in Remade => j \in Remade',
           \A s \in Slots : page[s].id \in Ids \ {0} => s \in Named(page) \cup {1, 2},
           entries' = [entries EXCEPT ![inodes[k].first] = page], inodes' = inodes
    PROVE  /\ DirectoryInv' /\ entries'[inodes[k].first] = page
           /\ \A j \in Directories :
                  j # k => entries'[inodes[j].first] = entries[inodes[j].first]
<1> DEFINE b == inodes[k].first
<1>1. \A j \in Directories : inodes[j].first \in Blocks /\ j \in Written
  BY DEF Directories, Written, TypeInv, Flat, Inodes
<1>2. \A c \in Blocks : entries'[c] = IF c = b THEN page ELSE entries[c]
  BY <1>1 DEF TypeInv
<1>3. Written' = Written /\ Directories' = Directories
  BY DEF Written, Directories
<1>4. \A j \in Directories : j # k => inodes[j].first # b
  BY <1>1 DEF Apart, DirectoryInv
<1>5. \A j \in Directories : j # k => entries'[inodes[j].first] = entries[inodes[j].first]
  BY <1>1, <1>2, <1>4
<1>6. entries'[b] = page
  BY <1>1, <1>2
<1>7. /\ \A j \in Directories' : inodes'[j].first # 0
      /\ \A j \in Directories' \ Remade' :
             IsDirectory(j, entries'[inodes'[j].first], Directories')
  BY <1>3, <1>5, <1>6 DEF DirectoryInv
<1>8. \A c \in Blocks : Named(entries'[c]) # {} => \E j \in Directories' : inodes'[j].first = c
  BY <1>2, <1>3 DEF DirectoryInv
<1>9. \A c \in Blocks, s \in Slots :
          entries'[c][s].id \in Ids \ {0} => s \in Named(entries'[c]) \cup {1, 2}
  BY <1>2 DEF DirectoryInv
<1> QED BY <1>3, <1>5, <1>6, <1>7, <1>8, <1>9 DEF DirectoryInv

\* A call that makes a directory writes the page of the file it is to be.
LEMMA PageSaved ==
    ASSUME TypeInv, Apart, FilesInv, pc \in ParentRead, pc' \in ParentRead,
           Ordinary' => Ordinary, Remade \subseteq {job.inode.id},
           job.inode.id \in Directories \ Remade' =>
               IsDirectory(job.inode.id, job.page, Directories),
           WriteBlock(job.inode.first, job.page),
           UNCHANGED <<inode_bits, data_bits, inodes, disk_superblock, root_inode,
                       current_dir_inode, created>>
    PROVE  Apart' = Apart /\
           (overwritten' = {} =>
                /\ job.inode.first # 0 /\ entries'[job.inode.first] = job.page
                /\ Written' = Written /\ Directories' = Directories
                /\ DiskInv' /\ DirectoryInv' /\ SizeInv' /\ CacheInv')
<1>1. Apart' = Apart /\ Written' = Written /\ Directories' = Directories
  BY DEF Apart, Written, Directories
<1> SUFFICES ASSUME overwritten' = {}
             PROVE  /\ job.inode.first # 0 /\ entries'[job.inode.first] = job.page
                    /\ DiskInv' /\ DirectoryInv' /\ SizeInv' /\ CacheInv'
  BY <1>1
<1>2. DiskInv /\ DirectoryInv /\ SizeInv /\ CacheInv /\ NewDirectoryInv /\ NewPageInv
  BY DEF FilesInv
<1>3. job.inode.first \in Blocks
  BY JobTyped DEF TypeInv
<1>4. entries' = [entries EXCEPT ![job.inode.first] = job.page] /\ job.inode.first # 0
  <2>1. job.inode.first \notin SystemBlocks
    BY DEF WriteBlock
  <2> QED BY <2>1, Constants DEF WriteBlock
<1>5. \A s \in Slots : job.page[s].id \in Ids \ {0} => s \in Named(job.page) \cup {1, 2}
  BY <1>2 DEF NewPageInv
<1>6. /\ DirectoryInv' /\ entries'[job.inode.first] = job.page
      /\ Ordinary => \A k \in Directories : entries'[inodes[k].first] = entries[inodes[k].first]
  <2>1. CASE job.inode.id \in Directories
    <3>1. inodes[job.inode.id].first = job.inode.first /\ ~Ordinary
      BY <1>2, <2>1 DEF NewDirectoryInv, Directories, Written
    <3>2. job.inode.id \in Remade' \/ IsDirectory(job.inode.id, job.page, Directories)
      BY <2>1
    <3> QED BY <1>2, <1>4, <1>5, <2>1, <3>1, <3>2, DirectoryPageWritten
  <2>2. CASE job.inode.id \notin Directories
    <3>1. \A k \in Directories : inodes[k].first # job.inode.first
      <4>1. \A i \in Written :
                i # job.inode.id /\ inodes[i].first = job.inode.first => inodes[i].first = 0
        BY <1>2 DEF NewDirectoryInv
      <4> QED BY <1>4, <2>2, <4>1 DEF Directories
    <3>2. Named(job.page) = {}
      <4>1. job.inode.type # "dir"
        BY <1>2, <2>2 DEF NewDirectoryInv, Directories
      <4> QED BY <1>2, <4>1 DEF NewPageInv
    <3>3. \A k \in Directories : k \notin Remade
      BY <2>2
    <3> QED BY <1>2, <1>3, <1>4, <1>5, <3>1, <3>2, <3>3, FilePageWritten
  <2> QED BY <2>1, <2>2
<1>7. /\ pc \notin Before \cup {"entry", "rm inode"} /\ pc' \notin Before \cup {"entry"}
  BY DEF ParentRead, Before
<1>8. DiskInv'
  BY <1>1, <1>2, <1>7 DEF DiskInv
<1>9. SizeInv'
  BY <1>1, <1>2, <1>6, <1>7 DEF SizeInv
<1>10. CacheInv'
  BY <1>1, <1>2, <1>7 DEF CacheInv, Copy
<1> QED BY <1>4, <1>6, <1>8, <1>9, <1>10

LEMMA SaveDotShared ==
    ASSUME IInv, Apart, FilesInv, SaveDot
    PROVE  Apart' /\ (overwritten' = {} => FilesInv')
<1> DEFINE page == [job.page EXCEPT ![2] = [id |-> job.parent.id, name |-> ".."]]
<1>1. /\ pc = "dot data" /\ pc \in ParentRead /\ pc' = "dotdot" /\ pc' \in ParentRead
      /\ WriteBlock(job.inode.first, job.page)
      /\ job' = [job EXCEPT !.inode = AtLeast(@, 2),
                            !.page[2] = [id |-> job.parent.id, name |-> ".."]]
      /\ UNCHANGED <<inode_bits, data_bits, inodes, disk_superblock, superblock, root_inode,
                     current_dir_inode, created>>
      /\ Remade = {} /\ Ordinary' = Ordinary
  BY DEF SaveDot, At, bitmaps, memory, ParentRead, Remade, Ordinary
<1>2. TypeInv /\ job \in Jobs /\ job.inode \in Flat /\ job.page \in Pages
  BY JobTyped DEF IInv, TypeInv
<1>3. /\ job'.call = job.call /\ job'.parent = job.parent /\ job'.dir = job.dir
      /\ job'.inode = AtLeast(job.inode, 2) /\ job'.page = page
  <2> DEFINE j == [job EXCEPT !.inode = AtLeast(job.inode, 2)]
  <2>1. /\ j.call = job.call /\ j.parent = job.parent /\ j.dir = job.dir /\ j.page = job.page
        /\ j.inode = AtLeast(job.inode, 2)
    BY <1>2 DEF Jobs
  <2>2. job' = [j EXCEPT !.page = page]
    BY <1>1, <1>2 DEF Jobs
  <2>3. DOMAIN j = DOMAIN job
    OBVIOUS
  <2> HIDE DEF j, page
  <2> QED BY <1>2, <2>1, <2>2, <2>3 DEF Jobs
<1>4. /\ job'.inode.id = job.inode.id /\ job'.inode.first = job.inode.first
      /\ job'.inode.type = job.inode.type
  <2>1. AtLeast(job.inode, 2).id = job.inode.id /\ AtLeast(job.inode, 2).first = job.inode.first
    BY <1>2, AtLeastTyped
  <2>2. AtLeast(job.inode, 2).type = job.inode.type
    BY <1>2 DEF AtLeast, Flat, Inodes
  <2> QED BY <1>3, <2>1, <2>2
<1>5. Apart' = Apart /\
      (overwritten' = {} =>
           /\ job.inode.first # 0
           /\ Written' = Written /\ Directories' = Directories
           /\ DiskInv' /\ DirectoryInv' /\ SizeInv' /\ CacheInv')
  <2>1. job.inode.id \in Remade' /\ Remade \subseteq {job.inode.id}
    BY <1>1, <1>3, <1>4 DEF Remade
  <2> QED BY <1>1, <1>2, <2>1, PageSaved
<1> SUFFICES ASSUME overwritten' = {}
             PROVE  FilesInv'
  BY <1>5
<1>6. NewDirectoryInv /\ NewPageInv
  BY DEF FilesInv
<1>7. NewDirectoryInv'
  <2>1. /\ job.call = "mkdir" /\ job.inode.id \in inode_bits
        /\ Ordinary \/ job.inode.id = 0 => job.inode.type = "file"
        /\ job.inode.id # 0 =>
               job.inode.id \in Written
               /\ inodes[job.inode.id].first = job.inode.first
               /\ inodes[job.inode.id].type = job.inode.type
        /\ \A i \in Written :
               i # job.inode.id /\ inodes[i].first = job.inode.first => inodes[i].first = 0
        /\ disk_superblock.inode \in inode_bits => disk_superblock.inode = 0
    BY <1>1, <1>6 DEF NewDirectoryInv
  <2>2. UNCHANGED <<inode_bits, inodes, disk_superblock>> /\ pc' = "dotdot"
    BY <1>1
  <2> QED BY <1>1, <1>3, <1>4, <1>5, <2>1, <2>2 DEF NewDirectoryInv
<1>8. NewPageInv'
  <2> DEFINE e == [id |-> job.parent.id, name |-> ".."]
  <2>1. 2 \in Slots /\ 1 \in Slots /\ e.name = ".." /\ e.name \notin Names
    BY Constants, NamesAssumption
  <2>2. /\ \A t \in Slots : page[t] = IF t = 2 THEN e ELSE job.page[t]
        /\ Named(page) = Named(job.page) \ {2}
    BY <1>2, <2>1, NameWritten
  <2> HIDE DEF page, e
  <2>3. /\ job.dir.id # 0 \/ job.inode.type = "dir" =>
               /\ job.dir.id = job.inode.id /\ job.dir.first = job.inode.first
               /\ job.parent.id \in Directories
        /\ job.parent.id \in Directories => Copy(job.parent)
        /\ Ordinary /\ job.parent.id \in Directories => job.parent = inodes[job.parent.id]
        /\ Named(job.page) # {} => job.inode.type = "dir"
        /\ job.page[1] = [id |-> job.dir.id, name |-> "."]
        /\ \A s \in Named(job.page) : job.page[s].id \notin {job.dir.id, job.parent.id}
        /\ \A s \in Slots : job.page[s].id \in Ids \ {0} => s \in Named(job.page) \cup {1, 2}
    BY <1>1, <1>6 DEF NewPageInv
  <2>4. /\ Named(page) # {} => job.inode.type = "dir"
        /\ page[1] = [id |-> job.dir.id, name |-> "."] /\ page[2] = e
        /\ \A s \in Named(page) : page[s].id \notin {job.dir.id, job.parent.id}
        /\ \A s \in Slots : page[s].id \in Ids \ {0} => s \in Named(page) \cup {1, 2}
    <3>1. \A s \in Named(page) : s \in Named(job.page) /\ page[s] = job.page[s]
      BY <2>2 DEF Named
    <3> QED BY <2>1, <2>2, <2>3, <3>1
  <2>5. UNCHANGED inodes /\ pc' = "dotdot"
    BY <1>1
  <2>6. job.parent.id \in Directories => Copy(job.parent)'
    BY <1>3, <2>3, <2>5 DEF Copy
  <2> QED BY <1>1, <1>3, <1>4, <1>5, <2>3, <2>4, <2>5, <2>6 DEF NewPageInv, e
<1>9. CreateInv' /\ NewFileInv' /\ LookupInv' /\ RemoveInv'
  BY <1>1 DEF CreateInv, NewFileInv, LookupInv, RemoveInv, Creating, Removing
<1> QED BY <1>5, <1>7, <1>8, <1>9 DEF FilesInv

LEMMA SaveDotDotShared ==
    ASSUME IInv, Apart, FilesInv, SaveDotDot
    PROVE  Apart' /\ (overwritten' = {} => FilesInv')
<1>1. /\ pc = "dotdot data" /\ pc \in ParentRead /\ pc' = "directory" /\ pc' \in ParentRead
      /\ WriteBlock(job.inode.first, job.page)
      /\ UNCHANGED <<inode_bits, data_bits, inodes, disk_superblock, superblock, root_inode,
                     current_dir_inode, job, created>>
      /\ Remade = {job.inode.id} /\ Remade' = {} /\ Ordinary' = Ordinary
  BY DEF SaveDotDot, At, bitmaps, memory, ParentRead, Remade, Ordinary
<1>2. Apart' = Apart /\
      (overwritten' = {} =>
           /\ job.inode.first # 0 /\ entries'[job.inode.first] = job.page
           /\ Written' = Written /\ Directories' = Directories
           /\ DiskInv' /\ DirectoryInv' /\ SizeInv' /\ CacheInv')
  <2>1. ASSUME job.inode.id \in Directories
        PROVE  IsDirectory(job.inode.id, job.page, Directories)
    <3>1. job.inode.type = "dir"
      BY <1>1, <2>1 DEF FilesInv, NewDirectoryInv, Directories, Written
    <3>2. /\ job.dir.id = job.inode.id /\ job.parent.id \in Directories
          /\ job.page[1] = [id |-> job.dir.id, name |-> "."]
          /\ job.page[2] = [id |-> job.parent.id, name |-> ".."]
          /\ \A s \in Named(job.page) : job.page[s].id \notin {job.dir.id, job.parent.id}
      BY <1>1, <3>1 DEF FilesInv, NewPageInv
    <3>3. job.page[2].id = job.parent.id /\ job.page[2].name = ".."
      BY <3>2
    <3> QED BY <3>2, <3>3 DEF IsDirectory
  <2> QED BY <1>1, <2>1, PageSaved DEF IInv
<1> SUFFICES ASSUME overwritten' = {}
             PROVE  FilesInv'
  BY <1>2
<1>3. NewDirectoryInv /\ NewPageInv
  BY DEF FilesInv
<1>4. NewDirectoryInv'
  BY <1>1, <1>2, <1>3 DEF NewDirectoryInv
<1>5. NewPageInv'
  <2>1. job.parent.id \in Directories => Copy(job.parent)'
    BY <1>1, <1>3 DEF NewPageInv, Copy
  <2> QED BY <1>1, <1>2, <1>3, <2>1 DEF NewPageInv
<1>6. CreateInv' /\ NewFileInv' /\ LookupInv' /\ RemoveInv'
  BY <1>1 DEF CreateInv, NewFileInv, LookupInv, RemoveInv, Creating, Removing
<1> QED BY <1>2, <1>4, <1>5, <1>6 DEF FilesInv

LEMMA ClearDataShared ==
    ASSUME IInv, RootKept, Apart, FilesInv, NEW p \in Paths, ClearData(p)
    PROVE  Apart' /\ (overwritten' = {} => FilesInv')
<1> DEFINE d == DirectoryOf(p, entries, inodes, root_inode, current_dir_inode)
           file == inode_from_path(p)
           parent == parent_inode_from_path(p)
<1>1. /\ pc = "idle" /\ overwritten = {} /\ pc' = "rm data bit"
      /\ file.id # 0 /\ file.type = "file" /\ WriteBlock(file.first, EmptyBlock)
      /\ UNCHANGED <<inode_bits, data_bits, inodes, disk_superblock, superblock, root_inode,
                     current_dir_inode, created>>
      /\ Remade = {} /\ Remade' = {} /\ Ordinary' = Ordinary
  BY DEF ClearData, At, bitmaps, memory, Remade, Ordinary
<1>2. job'.call = "rm" /\ job'.parent = parent /\ job'.inode = file
  BY DEF ClearData, Idle
<1>3. TypeInv /\ RootInv /\ DiskInv /\ DirectoryInv /\ SizeInv /\ CacheInv
  BY DEF IInv, FilesInv
<1>4. Apart' = Apart /\ Written' = Written /\ Directories' = Directories
  BY <1>1 DEF Apart, Written, Directories
<1> SUFFICES ASSUME overwritten' = {}
             PROVE  FilesInv'
  BY <1>4
<1>5. /\ parent.id \in Directories /\ Copy(parent)
      /\ Ordinary => parent = inodes[parent.id]
  <2>1. pc \in {"idle", "dot"}
    BY <1>1
  <2>2. /\ d.id # 0 => d.first = inodes[d.id].first /\ d.type = inodes[d.id].type
        /\ Ordinary /\ d.id # 0 => d = inodes[d.id]
        /\ parent = d /\ d.id \in Directories
    BY <1>1, <2>1, PathIsWritten
  <2> HIDE DEF d, parent
  <2> QED BY <2>2 DEF Directories, Written, Copy
<1>6. /\ file.id \in Written \ Directories /\ file = inodes[file.id] /\ file.first \in Blocks
  <2>1. pc \in {"idle", "dot"} /\ p.name \in Names
    BY <1>1 DEF Paths
  <2>2. d \in Flat /\ file = Got(entries, inodes, d, p.name)
    BY <1>1, <2>1, PathIsWritten
  <2> HIDE DEF d, file
  <2>3. file \in Flat /\ file.id \in Written /\ file = inodes[file.id]
    BY <1>1, <1>3, <2>1, <2>2, GotTyped
  <2>4. file.first \in Blocks
    BY <2>3 DEF Flat, Inodes
  <2> QED BY <1>1, <2>3, <2>4 DEF Directories
<1> HIDE DEF d, file, parent
<1>7. entries' = [entries EXCEPT ![file.first] = EmptyBlock] /\ file.first # 0
  <2>1. file.first \notin SystemBlocks
    BY <1>1, <1>6 DEF WriteBlock
  <2> QED BY <1>1, <2>1, Constants DEF WriteBlock
<1>8. \A k \in Directories : inodes[k].first # file.first
  BY <1>6, <1>7 DEF Apart, Directories
<1>9. /\ Named(EmptyBlock) = {}
      /\ \A s \in Slots : EmptyBlock[s].id \in Ids \ {0} => s \in {1, 2}
  <2>1. \A s \in Slots : EmptyBlock[s].id = 0 /\ EmptyBlock[s].name \notin Names
    BY NamesAssumption DEF EmptyBlock, NoEntry
  <2> HIDE DEF EmptyBlock
  <2> QED BY <2>1 DEF Named
<1>10. /\ DirectoryInv'
       /\ \A k \in Directories : entries'[inodes[k].first] = entries[inodes[k].first]
  BY <1>1, <1>3, <1>6, <1>7, <1>8, <1>9, FilePageWritten
<1>11. DiskInv'
  BY <1>1, <1>3, <1>4 DEF DiskInv
<1>12. SizeInv'
  BY <1>1, <1>3, <1>4, <1>10 DEF SizeInv, Before
<1>13. CacheInv'
  BY <1>1, <1>3, <1>4 DEF CacheInv, Copy
<1>14. RemoveInv'
  <2>1. Copy(job.parent)'
    BY <1>1, <1>2, <1>5 DEF Copy
  <2> QED BY <1>1, <1>2, <1>4, <1>5, <1>6, <2>1 DEF RemoveInv, Removing
<1>15. CreateInv' /\ NewFileInv' /\ LookupInv' /\ NewDirectoryInv' /\ NewPageInv'
  BY <1>1 DEF CreateInv, NewFileInv, LookupInv, NewDirectoryInv, NewPageInv, Creating, ParentRead
<1> QED BY <1>10, <1>11, <1>12, <1>13, <1>14, <1>15 DEF FilesInv

LEMMA ClearInodeShared ==
    ASSUME IInv, Apart, FilesInv, ClearInode
    PROVE  Apart' /\ FilesInv'
<1> DEFINE i == job.inode.id
<1>1. /\ pc = "rm inode" /\ pc' = "rm inode bit"
      /\ inodes' = [inodes EXCEPT ![i] = NoInode]
      /\ UNCHANGED <<inode_bits, data_bits, entries, disk_superblock, superblock, root_inode,
                     current_dir_inode, job, created>>
      /\ Remade = {} /\ Remade' = {} /\ Ordinary' = Ordinary
  BY DEF ClearInode, At, bitmaps, memory, ghosts, Remade, Ordinary
<1>2. TypeInv /\ RootInv /\ i \in Ids
  BY JobTyped DEF IInv, TypeInv
<1>3. DiskInv /\ DirectoryInv /\ SizeInv /\ CacheInv /\ RemoveInv
  BY DEF FilesInv
<1>4. i \in Written \ Directories
  BY <1>1, <1>3 DEF RemoveInv, Removing
<1>5. inodes'[i] = NoInode /\ NoInode.id = 0 /\ \A j \in Ids : j # i => inodes'[j] = inodes[j]
  BY <1>1, <1>2, NothingTyped DEF TypeInv
<1> HIDE DEF i
<1>6. Written' = Written \ {i}
  BY <1>4, <1>5 DEF Written
<1>7. \A j \in Written' : j \in Written /\ j # i /\ inodes'[j] = inodes[j]
  BY <1>5, <1>6 DEF Written
<1>8. Directories' = Directories
  BY <1>4, <1>6, <1>7 DEF Directories
<1>9. \A k \in Directories : k \in Ids \ {0} /\ inodes'[k] = inodes[k]
  BY <1>4, <1>5 DEF Directories, Written
<1>10. Apart'
  BY <1>7 DEF Apart
<1>11. DiskInv'
  <2>1. Written' \subseteq inode_bits' /\ disk_superblock'.inode \notin Directories'
    BY <1>1, <1>3, <1>6, <1>8 DEF DiskInv
  <2>2. \A j \in Ids \ {0} : inodes'[j].id = 0 => inodes'[j] = NoInode
    BY <1>3, <1>5 DEF DiskInv
  <2>3. UNCHANGED <<data_bits, disk_superblock>>
    BY <1>1
  <2>4. \A j \in Written' : inodes'[j].first \in data_bits' \/ inodes'[j].first = 0
    <3>1. \A j \in Written : inodes[j].first \in data_bits \/ inodes[j].first = 0 \/ j = i
      BY <1>3 DEF DiskInv, i
    <3>2. data_bits' = data_bits
      BY <2>3
    <3> QED BY <1>7, <3>1, <3>2
  <2>5. \A j \in Written' : inodes'[j].first = disk_superblock'.data =>
            inodes'[j].first = 0 \/ j = disk_superblock'.inode
    BY <1>3, <1>7, <2>3 DEF DiskInv
  <2> QED BY <2>1, <2>2, <2>4, <2>5 DEF DiskInv
<1>12. DirectoryInv'
  <2>1. \A k \in Directories' :
            /\ inodes'[k].first # 0
            /\ IsDirectory(k, entries'[inodes'[k].first], Directories')
    BY <1>1, <1>3, <1>8, <1>9 DEF DirectoryInv
  <2>2. \A b \in Blocks : Named(entries'[b]) # {} => \E k \in Directories' : inodes'[k].first = b
    BY <1>1, <1>3, <1>8, <1>9 DEF DirectoryInv
  <2> QED BY <1>1, <1>3, <1>8, <2>1, <2>2 DEF DirectoryInv
<1>13. SizeInv'
  BY <1>1, <1>3, <1>8, <1>9 DEF SizeInv, Before
<1>14. CacheInv'
  BY <1>1, <1>3, <1>8, <1>9 DEF CacheInv, DirectoryInv, Copy
<1>15. RemoveInv'
  <2>1. pc \in Removing /\ pc' \in Removing
    BY <1>1 DEF Removing
  <2>2. /\ job.parent.id \in Directories' /\ job.parent.type = "dir"
        /\ job.parent.first = inodes'[job.parent.id].first
        /\ Ordinary => job.parent = inodes'[job.parent.id]
    BY <1>3, <1>8, <1>9, <2>1 DEF RemoveInv, Copy
  <2>3. i \notin Written' /\ i # 0 /\ i = job'.inode.id
    BY <1>1, <1>4, <1>6 DEF Written, i
  <2> QED BY <1>1, <1>3, <2>1, <2>2, <2>3 DEF RemoveInv, Copy
<1>16. CreateInv' /\ NewFileInv' /\ LookupInv' /\ NewDirectoryInv' /\ NewPageInv'
  BY <1>1 DEF CreateInv, NewFileInv, LookupInv, NewDirectoryInv, NewPageInv, Creating, ParentRead
<1> QED BY <1>10, <1>11, <1>12, <1>13, <1>14, <1>15, <1>16 DEF FilesInv

\* An entry with an id that no directory has is a name's.
LEMMA SlotIsNamed ==
    ASSUME TypeInv, DirectoryInv, NEW k \in Directories \ Remade, NEW s \in Slots,
           entries[inodes[k].first][s].id \notin
               {0, k, entries[inodes[k].first][2].id},
           entries[inodes[k].first][s].id \in Ids
    PROVE  s \in Named(entries[inodes[k].first]) /\ s \notin {1, 2}
<1> DEFINE page == entries[inodes[k].first]
<1>1. inodes[k].first \in Blocks
  BY DEF Directories, Written, TypeInv, Flat, Inodes
<1>2. s \in Named(page) \cup {1, 2}
  BY <1>1 DEF DirectoryInv
<1>3. page[1].id = k
  <2>1. IsDirectory(k, page, Directories)
    BY DEF DirectoryInv
  <2> HIDE DEF page
  <2> QED BY <2>1 DEF IsDirectory
<1> QED BY <1>2, <1>3

LEMMA ClearEntryShared ==
    ASSUME IInv, Apart, FilesInv, ClearEntry
    PROVE  Apart' /\ (overwritten' = {} => FilesInv')
<1> DEFINE k == job.parent.id
           b == job.parent.first
           page == entries[b]
           slots == SlotsOf(job.parent, job.inode.id)
           s == FirstSlot(slots)
           left == [page EXCEPT ![s] = NoEntry]
<1>1. /\ pc = "rm entry" /\ overwritten = {}
      /\ IF slots = {} THEN pc' = "idle" /\ job' = Idle /\ UNCHANGED <<entries, overwritten>>
         ELSE WriteBlock(b, left) /\ pc' = "rm parent" /\ UNCHANGED job
      /\ UNCHANGED <<inode_bits, data_bits, inodes, disk_superblock, superblock, root_inode,
                     current_dir_inode, created>>
      /\ Remade = {} /\ Ordinary' = Ordinary
  BY DEF ClearEntry, At, bitmaps, memory, Remade, Ordinary
<1>2. TypeInv /\ DiskInv /\ DirectoryInv /\ SizeInv /\ CacheInv /\ RemoveInv
  BY DEF IInv, FilesInv
<1>3. /\ job.call = "rm" /\ k \in Directories /\ b = inodes[k].first /\ Copy(job.parent)
      /\ Ordinary => job.parent = inodes[k]
      /\ job.inode.id # 0 /\ job.inode.id \notin Written
      /\ pc' \in {"idle", "rm parent"} /\ Remade' = {}
  BY <1>1, <1>2 DEF RemoveInv, Removing, Copy, Remade
<1>4. Apart' = Apart /\ Written' = Written /\ Directories' = Directories
  BY <1>1 DEF Apart, Written, Directories
<1>5. DiskInv'
  BY <1>1, <1>2, <1>4 DEF DiskInv
<1>6. CacheInv'
  BY <1>1, <1>2, <1>3, <1>4 DEF CacheInv, Copy
<1>7. CASE slots = {}
  <2>1. UNCHANGED entries /\ pc' = "idle"
    BY <1>1, <1>7
  <2>2. SizeInv'
    BY <1>1, <1>2, <1>4, <2>1 DEF SizeInv, Before
  <2>3. DirectoryInv'
    BY <1>1, <1>2, <1>3, <2>1, NoFileWritten
  <2> QED BY <1>4, <1>5, <1>6, <2>1, <2>2, <2>3, NoCall DEF FilesInv
<1>8. CASE slots # {}
  <2>1. s \in Slots /\ page[s].id = job.inode.id
    <3>1. slots \subseteq Slots
      BY DEF SlotsOf
    <3>2. s \in slots
      BY <1>8, <3>1, FirstSlotIn
    <3> QED BY <3>2 DEF SlotsOf
  <2> HIDE DEF slots, s
  <2>2. b = inodes[k].first /\ job.inode.id \in Ids
    BY <1>2, <1>3, JobTyped DEF TypeInv
  <2>3. IsDirectory(k, page, Directories)
    BY <1>1, <1>2, <1>3, <2>2 DEF DirectoryInv
  <2>4. page[1].id = k /\ page[2].id \in Directories
    BY <2>3 DEF IsDirectory
  <2>5. page[s].id \notin {0, k, page[2].id}
    <3> HIDE DEF page, k
    <3>1. Directories \subseteq Written
      BY DEF Directories
    <3>2. k \in Written
      BY <1>3, <3>1
    <3>3. page[2].id \in Written
      BY <2>4, <3>1
    <3>4. job.inode.id \notin {k, page[2].id}
      BY <1>3, <3>2, <3>3
    <3> QED BY <1>3, <2>1, <3>4
  <2>6. s \in Named(page) /\ s \notin {1, 2}
    BY <1>1, <1>2, <1>3, <2>1, <2>2, <2>5, SlotIsNamed
  <2>7. page \in Pages /\ b \in Blocks
    BY <1>2, JobTyped DEF TypeInv
  <2>8. /\ \A t \in Slots : left[t] = IF t = s THEN NoEntry ELSE page[t]
        /\ Named(left) = Named(page) \ {s}
    <3>1. NoEntry.name \notin Names
      BY NamesAssumption DEF NoEntry
    <3> HIDE DEF page, left
    <3> QED BY <2>1, <2>7, <3>1, NameWritten DEF left
  <2>9. entries' = [entries EXCEPT ![inodes[k].first] = left] /\ pc' = "rm parent" /\ UNCHANGED job
    BY <1>1, <1>8, <2>2 DEF WriteBlock
  <2> HIDE DEF left, page, b, k
  <2>10. NoEntry.id = 0
    BY DEF NoEntry
  <2>11. IsDirectory(k, left, Directories)
    <3>1. left[1] = page[1] /\ left[2] = page[2] /\ \A t \in Named(left) : left[t] = page[t]
      BY <2>6, <2>8, Constants DEF Named
    <3> QED BY <2>3, <2>8, <3>1 DEF IsDirectory
  <2>12. \A t \in Slots : left[t].id \in Ids \ {0} => t \in Named(left) \cup {1, 2}
    <3>1. \A t \in Slots : page[t].id \in Ids \ {0} => t \in Named(page) \cup {1, 2}
      BY <1>2, <2>7 DEF DirectoryInv, page
    <3> QED BY <2>8, <2>10, <3>1
  <2>13. /\ DirectoryInv' /\ entries'[inodes[k].first] = left
         /\ \A j \in Directories : j # k => entries'[inodes[j].first] = entries[inodes[j].first]
    BY <1>1, <1>2, <1>3, <2>9, <2>11, <2>12, DirectoryPageWritten DEF k
  <2>14. ASSUME Ordinary
         PROVE  Cardinality(Named(left)) + 3 <= inodes[k].size
    <3> DEFINE n == Cardinality(Named(page))
               m == Cardinality(Named(left))
    <3>1. n \in Nat /\ m \in Nat
      BY NamesCounted
    <3>2. m + 1 = n
      BY <2>6, <2>8, OneNameLess
    <3>3. n + 2 <= inodes[k].size
      BY <1>2, <1>3, <2>2, <2>14 DEF SizeInv, page, k, b
    <3>4. inodes[k].size \in 0 .. U32 - 1
      BY <1>2, <1>3, <2>14, DirectorySize DEF k
    <3> HIDE DEF n, m
    <3>5. m + 3 <= inodes[k].size
      BY <3>1, <3>2, <3>3, <3>4, SizesAssumption
    <3> QED BY <3>5 DEF m
  <2>15. SizeInv'
    <3> SUFFICES ASSUME Ordinary, NEW j \in Directories
                 PROVE  /\ Cardinality(Named(entries'[inodes[j].first])) + 2 <= inodes[j].size
                        /\ inodes[j].size <= created + 2
      BY <1>1, <1>4, <2>9 DEF SizeInv, Before
    <3>1. inodes[j].size <= created + 2
      BY <1>1, <1>2 DEF SizeInv, Before
    <3>2. CASE j = k
      <4> DEFINE m == Cardinality(Named(left))
      <4>1. m \in Nat
        BY NamesCounted
      <4>2. m + 3 <= inodes[j].size /\ inodes[j].size \in 0 .. U32 - 1
        BY <1>2, <2>14, <3>2, DirectorySize
      <4> HIDE DEF m
      <4>3. m + 2 <= inodes[j].size
        BY <4>1, <4>2, SizesAssumption
      <4> QED BY <2>13, <3>1, <3>2, <4>3 DEF m
    <3>3. CASE j # k
      BY <1>2, <2>13, <3>1, <3>3 DEF SizeInv
    <3> QED BY <3>2, <3>3
  <2>16. RemoveInv'
    <3>1. entries'[job.parent.first] = left /\ (Ordinary => job.parent.size = inodes[k].size)
      BY <1>3, <2>2, <2>13 DEF k, b
    <3>2. Ordinary => Cardinality(Named(entries'[job'.parent.first])) + 3 <= job'.parent.size
      BY <2>9, <2>14, <3>1
    <3>3. Copy(job.parent)'
      BY <1>1, <1>3, <2>9 DEF Copy
    <3> QED BY <1>1, <1>3, <1>4, <2>9, <3>2, <3>3 DEF RemoveInv, Removing, k
  <2>17. CreateInv' /\ NewFileInv' /\ LookupInv' /\ NewDirectoryInv' /\ NewPageInv'
    <3>1. pc' = "rm parent"
      BY <2>9
    <3> QED BY <3>1 DEF CreateInv, NewFileInv, LookupInv, NewDirectoryInv, NewPageInv,
                        Creating, ParentRead
  <2>18. Apart' /\ DirectoryInv'
    BY <1>4, <2>13
  <2>19. DiskInv' /\ DirectoryInv' /\ SizeInv' /\ CacheInv' /\ RemoveInv'
    BY <1>5, <1>6, <2>15, <2>16, <2>18
  <2> QED BY <2>17, <2>18, <2>19 DEF FilesInv
<1> QED BY <1>7, <1>8

LEMMA RenameShared ==
    ASSUME IInv, RootKept, Apart, FilesInv, NEW p \in Paths, NEW new \in Names, fs_rename_file(p, new)
    PROVE  Apart' /\ FilesInv'
<1> DEFINE file == inode_from_path(p)
           parent == parent_inode_from_path(p)
           d == DirectoryOf(p, entries, inodes, root_inode, current_dir_inode)
           k == parent.id
           b == parent.first
           page == entries[b]
           slots == SlotsOf(parent, file.id)
           s == FirstSlot(slots)
           e == [id |-> file.id, name |-> new]
           left == [page EXCEPT ![s] = e]
<1>1. /\ pc = "idle" /\ pc' = "idle" /\ overwritten = {}
      /\ file.id # 0 /\ slots # {} /\ entries' = [entries EXCEPT ![b] = left]
      /\ UNCHANGED <<inode_bits, data_bits, inodes, disk_superblock, superblock, root_inode,
                     current_dir_inode, job, created>>
      /\ Remade = {} /\ Remade' = {} /\ Ordinary' = Ordinary
  BY DEF fs_rename_file, WriteBlock, At, bitmaps, memory, Remade, Ordinary
<1>2. TypeInv /\ RootInv /\ DiskInv /\ DirectoryInv /\ SizeInv /\ CacheInv
  BY DEF IInv, FilesInv
<1>3. Apart' = Apart /\ Written' = Written /\ Directories' = Directories
  BY <1>1 DEF Apart, Written, Directories
<1>4. DiskInv'
  BY <1>1, <1>2, <1>3 DEF DiskInv
<1>5. CacheInv'
  BY <1>1, <1>2, <1>3 DEF CacheInv, Copy
<1>6. s \in Slots /\ page[s].id = file.id
  <2>1. slots \subseteq Slots
    BY DEF SlotsOf
  <2>2. s \in slots
    BY <1>1, <2>1, FirstSlotIn
  <2> QED BY <2>2 DEF SlotsOf
<1>7. /\ k \in Directories /\ b = inodes[k].first
      /\ \E t \in Named(page) : page[t].id = file.id
  <2>1. pc \in {"idle", "dot"} /\ p.name \in Names
    BY <1>1 DEF Paths
  <2>2. /\ d \in Flat /\ file = Got(entries, inodes, d, p.name) /\ parent = d
        /\ (d.id # 0 => d.first = inodes[d.id].first) /\ d.id \in Directories
    BY <1>1, <2>1, PathIsWritten
  <2> HIDE DEF d, file
  <2>3. file.id = FoundIn(entries[d.first], p.name) /\ file.id # 0
    BY <1>1, <1>2, <2>1, <2>2, GotTyped
  <2>4. \E t \in Named(entries[d.first]) : entries[d.first][t].id = file.id
    <3> DEFINE q == entries[d.first]
               n == p.name
    <3>1. FoundIn(q, n) # 0 /\ FoundIn(q, n) = file.id
      BY <2>3
    <3> HIDE DEF q, n
    <3>2. PICK t \in Named(q) : q[t].id = FoundIn(q, n)
      BY <3>1, FoundAt
    <3> QED BY <3>1, <3>2 DEF q
  <2>5. d.id # 0
    BY <2>2 DEF Directories, Written
  <2> HIDE DEF parent
  <2> QED BY <2>2, <2>4, <2>5
<1> HIDE DEF file, parent, slots, s
<1>8. IsDirectory(k, page, Directories)
  BY <1>1, <1>2, <1>7 DEF DirectoryInv
<1>9. b \in Blocks /\ page \in Pages
  <2>1. b \in Blocks
    BY <1>2, <1>7 DEF Directories, Written, TypeInv, Flat, Inodes
  <2> QED BY <1>2, <2>1 DEF TypeInv
<1> HIDE DEF b, k
<1>10. file.id \notin {0, k, page[2].id}
  BY <1>1, <1>7, <1>8 DEF IsDirectory
<1>11. page[s].id \in Ids
  <2>1. PICK t \in Named(page) : page[t].id = file.id
    BY <1>7
  <2> HIDE DEF page
  <2> QED BY <1>6, <1>9, <2>1 DEF Pages, Found, Named
<1>12. s \in Named(page) /\ s \notin {1, 2}
  BY <1>1, <1>2, <1>6, <1>7, <1>10, <1>11, SlotIsNamed
<1>13. /\ \A t \in Slots : left[t] = IF t = s THEN e ELSE page[t]
       /\ Named(left) = Named(page)
  <2>1. e.name \in Names
    OBVIOUS
  <2> HIDE DEF page, e
  <2>2. /\ \A t \in Slots : left[t] = IF t = s THEN e ELSE page[t]
        /\ Named(left) = Named(page) \cup {s}
    BY <1>6, <1>9, <2>1, NameWritten
  <2> QED BY <1>12, <2>2
<1>14. \A t \in Slots : left[t].id = page[t].id
  BY <1>6, <1>13
<1> HIDE DEF left, page, e
<1>15. IsDirectory(k, left, Directories)
  <2>1. left[1] = page[1] /\ left[2] = page[2]
    BY <1>12, <1>13, Constants
  <2>2. Named(page) \subseteq Slots
    BY DEF Named
  <2> QED BY <1>8, <1>13, <1>14, <2>1, <2>2 DEF IsDirectory
<1>16. \A t \in Slots : left[t].id \in Ids \ {0} => t \in Named(left) \cup {1, 2}
  <2>1. \A t \in Slots : page[t].id \in Ids \ {0} => t \in Named(page) \cup {1, 2}
    BY <1>2, <1>9 DEF DirectoryInv, page
  <2> QED BY <1>13, <1>14, <2>1
<1>17. /\ DirectoryInv' /\ entries'[inodes[k].first] = left
       /\ \A j \in Directories : j # k => entries'[inodes[j].first] = entries[inodes[j].first]
  BY <1>1, <1>2, <1>7, <1>15, <1>16, DirectoryPageWritten
<1>18. SizeInv'
  <2>1. \A j \in Directories :
            Named(entries'[inodes[j].first]) = Named(entries[inodes[j].first])
    BY <1>7, <1>13, <1>17 DEF page
  <2> QED BY <1>1, <1>2, <1>3, <2>1 DEF SizeInv
<1> QED BY <1>1, <1>3, <1>4, <1>5, <1>17, <1>18, NoCall DEF FilesInv

\* The entry of a new file, and what its path then leads to.
LEMMA WriteEntryShared ==
    ASSUME IInv, Apart, FilesInv, Followed', WriteEntry
    PROVE  Apart' /\ (overwritten' = {} => FilesInv')
<1> DEFINE k == job.parent.id
           b == job.parent.first
           i == job.inode.id
           page == entries[b]
           free == FreeSlots(job.parent)
           s == FirstSlot(free)
           e == [id |-> i, name |-> job.name]
           left == [page EXCEPT ![s] = e]
<1>1. /\ pc = "entry" /\ pc \in Creating /\ overwritten = {} /\ pc' = "superblock"
      /\ RefreshCaches(job.parent)
      /\ IF free = {} THEN UNCHANGED <<entries, overwritten>> ELSE WriteBlock(b, left)
      /\ UNCHANGED <<inode_bits, data_bits, inodes, disk_superblock, superblock, job, created>>
      /\ events' = events \cup (IF free = {} THEN {"no slot"} ELSE {})
      /\ Remade = {} /\ Remade' = {} /\ Ordinary' = Ordinary
  BY DEF WriteEntry, At, bitmaps, Creating, Remade, Ordinary, MadeAgain
<1>2. TypeInv /\ RootInv /\ job.parent \in Flat /\ b \in Blocks /\ i \in Ids
  BY <1>1, JobTyped DEF IInv, TypeInv
<1>3. /\ DiskInv /\ DirectoryInv /\ SizeInv /\ CacheInv /\ CreateInv /\ NewFileInv /\ LookupInv
  BY DEF FilesInv
<1>4. /\ k \in Directories /\ job.parent = inodes[k] /\ b = inodes[k].first /\ job.name \in Names
      /\ Ordinary => Cardinality(Named(page)) + 3 <= job.parent.size
  BY <1>1, <1>3 DEF CreateInv
<1>5. i \notin Directories
  BY <1>1, <1>3 DEF NewFileInv, DiskInv
<1>6. Apart' = Apart /\ Written' = Written /\ Directories' = Directories
  BY <1>1 DEF Apart, Written, Directories
<1>7. DiskInv'
  BY <1>1, <1>3, <1>6 DEF DiskInv
<1>8. page \in Pages /\ IsDirectory(k, page, Directories)
  BY <1>1, <1>2, <1>3, <1>4 DEF TypeInv, DirectoryInv
<1>9. CacheInv'
  <2>1. Root \in Directories /\ pc' # "entry" /\ job.parent.type = "dir"
    BY <1>1, <1>3, <1>4 DEF DirectoryInv, Directories
  <2>2. Ordinary => job.parent.size > 0
    BY <1>2, <1>3, <1>4, DirectorySize, SizesAssumption
  <2> QED BY <1>1, <1>2, <1>3, <1>4, <1>6, <2>1, <2>2, CachesKept
<1>10. CreateInv' /\ NewFileInv'
  <2>1. Copy(job.parent)'
    BY <1>1, <1>3 DEF CreateInv, Copy
  <2> QED BY <1>1, <1>3, <1>6, <2>1 DEF CreateInv, NewFileInv, Creating
<1>11. NewDirectoryInv' /\ NewPageInv' /\ RemoveInv'
  BY <1>1, CreatingOnly DEF Creating
<1> SUFFICES ASSUME overwritten' = {}
             PROVE  DirectoryInv' /\ SizeInv' /\ LookupInv'
  BY <1>6, <1>7, <1>9, <1>10, <1>11 DEF FilesInv
<1>12. free # {} => s \in Slots /\ page[s].id = 0 /\ entries' = [entries EXCEPT ![b] = left]
  <2> SUFFICES ASSUME free # {}
               PROVE  s \in Slots /\ page[s].id = 0 /\ entries' = [entries EXCEPT ![b] = left]
    OBVIOUS
  <2>1. free \subseteq Slots
    BY DEF FreeSlots
  <2>2. s \in free
    BY <2>1, FirstSlotIn
  <2>3. entries' = [entries EXCEPT ![b] = left]
    BY <1>1 DEF WriteBlock
  <2> QED BY <2>2, <2>3 DEF FreeSlots
<1>13. job.parent.size > 2
  <2>1. CASE Ordinary
    <3> DEFINE n == Cardinality(Named(page))
               size == job.parent.size
    <3>1. n \in Nat /\ n + 3 <= size /\ size \in 0 .. U32 - 1
      BY <1>2, <1>3, <1>4, <2>1, NamesCounted, DirectorySize
    <3> HIDE DEF n, size
    <3>2. size > 2
      BY <3>1, SizesAssumption
    <3> QED BY <3>2 DEF size
  <2>2. CASE ~Ordinary
    <3>1. free # {}
      <4>1. events' = {"made again"}
        BY <1>1, <2>2 DEF Followed
      <4>2. free = {} => "no slot" \in events'
        BY <1>1
      <4> HIDE DEF free
      <4> QED BY <4>1, <4>2
    <3>2. s \in free
      <4>1. free \subseteq Slots
        BY DEF FreeSlots
      <4> QED BY <3>1, <4>1, FirstSlotIn
    <3>3. s \in Slots /\ page[s].id = 0 /\ s <= job.parent.size
      BY <3>2 DEF FreeSlots
    <3> HIDE DEF s, free, page
    <3>4. page[1].id # 0 /\ page[2].id # 0
      BY <1>4, <1>8 DEF IsDirectory, Directories, Written
    <3>5. s # 1 /\ s # 2
      BY <3>3, <3>4
    <3> DEFINE size == job.parent.size
    <3>6. size \in 0 .. U32 - 1 /\ s \in Nat /\ s # 0
      BY <1>2, <3>3, Constants DEF Flat, Inodes, Slots
    <3>7. s <= size
      BY <3>3
    <3> HIDE DEF size
    <3>8. size > 2
      BY <3>5, <3>6, <3>7, SizesAssumption
    <3> QED BY <3>8 DEF size
  <2> QED BY <2>1, <2>2
<1> HIDE DEF free, s
<1>14. free # {} =>
           /\ \A t \in Slots : left[t] = IF t = s THEN e ELSE page[t]
           /\ Named(left) = Named(page) \cup {s} /\ s \notin {1, 2}
  <2> SUFFICES ASSUME free # {}
               PROVE  /\ \A t \in Slots : left[t] = IF t = s THEN e ELSE page[t]
                      /\ Named(left) = Named(page) \cup {s} /\ s \notin {1, 2}
    OBVIOUS
  <2>1. s \in Slots /\ page[s].id = 0
    BY <1>12
  <2>2. e.name \in Names
    BY <1>4
  <2> HIDE DEF page, e
  <2>3. /\ \A t \in Slots : left[t] = IF t = s THEN e ELSE page[t]
        /\ Named(left) = Named(page) \cup {s}
    BY <1>8, <2>1, <2>2, NameWritten
  <2>4. page[1].id # 0 /\ page[2].id # 0
    BY <1>4, <1>8 DEF IsDirectory, Directories, Written
  <2> QED BY <2>1, <2>3, <2>4
<1>15. e.id = i
  OBVIOUS
<1> HIDE DEF left, e
<1>16. free # {} =>
           /\ DirectoryInv' /\ entries'[b] = left
           /\ \A j \in Directories : j # k => entries'[inodes[j].first] = entries[inodes[j].first]
  <2> SUFFICES ASSUME free # {}
               PROVE  /\ DirectoryInv' /\ entries'[b] = left
                      /\ \A j \in Directories :
                             j # k => entries'[inodes[j].first] = entries[inodes[j].first]
    OBVIOUS
  <2>1. s \in Slots /\ entries' = [entries EXCEPT ![b] = left]
    BY <1>12
  <2>2. \A t \in Slots : page[t].id \in Ids \ {0} => t \in Named(page) \cup {1, 2}
    BY <1>2, <1>3 DEF DirectoryInv
  <2> HIDE DEF page, k, b, i
  <2>3. IsDirectory(k, left, Directories)
    <3>1. left[1] = page[1] /\ left[2] = page[2]
      BY <1>14, Constants
    <3>2. \A t \in Named(left) : left[t].id \notin {k, page[2].id}
      <4>1. page[2].id \in Directories /\ \A t \in Named(page) : page[t].id \notin {k, page[2].id}
        BY <1>8 DEF IsDirectory
      <4>2. Named(page) \subseteq Slots
        BY DEF Named
      <4> QED BY <1>4, <1>5, <1>14, <1>15, <2>1, <4>1, <4>2
    <3> QED BY <1>8, <3>1, <3>2 DEF IsDirectory
  <2>4. \A t \in Slots : left[t].id \in Ids \ {0} => t \in Named(left) \cup {1, 2}
    BY <1>14, <2>1, <2>2
  <2>5. entries' = [entries EXCEPT ![inodes[k].first] = left]
    BY <1>4, <2>1
  <2>6. inodes' = inodes
    BY <1>1
  <2>7. k \in Directories /\ b = inodes[k].first
    BY <1>4
  <2>8. /\ DirectoryInv' /\ entries'[inodes[k].first] = left
        /\ \A j \in Directories : j # k => entries'[inodes[j].first] = entries[inodes[j].first]
    BY <1>1, <1>2, <1>3, <2>3, <2>4, <2>5, <2>6, <2>7, DirectoryPageWritten
  <2> QED BY <2>7, <2>8
<1>17. free = {} => entries' = entries
  BY <1>1
<1>18. DirectoryInv'
  <2>1. CASE free = {}
    BY <1>1, <1>3, <1>17, <2>1, NoFileWritten
  <2> QED BY <1>16, <2>1
<1>19. SizeInv'
  <2> SUFFICES ASSUME Ordinary, NEW j \in Directories
               PROVE  /\ Cardinality(Named(entries'[inodes[j].first])) + 2 <= inodes[j].size
                      /\ inodes[j].size <= created + 2
    BY <1>1, <1>6 DEF SizeInv, Before
  <2>1. inodes[j].size <= created + 2
    BY <1>1, <1>3 DEF SizeInv, Before
  <2>2. CASE free # {} /\ j = k
    <3> DEFINE n == Cardinality(Named(page))
               m == Cardinality(Named(left))
               size == inodes[j].size
    <3>1. n \in Nat /\ m \in Nat
      BY NamesCounted
    <3>2. m <= n + 1
      <4>1. s \in Slots /\ Named(left) = Named(page) \cup {s}
        BY <1>12, <1>14, <2>2
      <4> HIDE DEF page
      <4> QED BY <4>1, OneNameMore
    <3>3. n + 3 <= size
      BY <1>4, <2>2
    <3>4. size \in 0 .. U32 - 1
      BY <1>2, <1>3, DirectorySize
    <3> HIDE DEF n, m, size
    <3>5. m + 2 <= size
      BY <3>1, <3>2, <3>3, <3>4, SizesAssumption
    <3>6. entries'[inodes[j].first] = left
      BY <1>4, <1>16, <2>2
    <3> QED BY <2>1, <3>5, <3>6 DEF m, size
  <2>3. CASE free = {} \/ j # k
    <3>1. entries'[inodes[j].first] = entries[inodes[j].first]
      BY <1>16, <1>17, <2>3
    <3> QED BY <1>3, <2>1, <3>1 DEF SizeInv
  <2> QED BY <2>2, <2>3
<1>20. LookupInv'
  <2> SUFFICES ASSUME job.call = "mkdir"
               PROVE  LookupInv'
    BY <1>1 DEF LookupInv
  <2> DEFINE start == IF job.path.absolute THEN root_inode ELSE current_dir_inode
             next == IF job.path.absolute THEN root_inode' ELSE current_dir_inode'
             from == DirectoryOf(job.path, entries, inodes, root_inode, current_dir_inode)
             to == DirectoryOf(job.path, entries', inodes, root_inode', current_dir_inode')
             m == job.path.dir
             n == job.path.name
  <2>1. /\ Got(entries, inodes, from, n).id \in {0, i}
        /\ n = job.name /\ from.id = k /\ from.first = b /\ from.size > 0
    BY <1>1, <1>3, <1>13 DEF LookupInv, Before
  <2>2. start.id \in Directories /\ start.first = inodes[start.id].first /\ start \in Flat
    BY <1>2, <1>3 DEF CacheInv, DirectoryInv, RootInv, TypeInv, Copy
  <2>3. /\ next.id = start.id /\ next.first = start.first
        /\ start.size > 0 => next.size > 0
    <3>1. /\ current_dir_inode' = IF current_dir_inode.id = k THEN job.parent
                                  ELSE current_dir_inode
          /\ root_inode' = IF root_inode.id = k THEN job.parent ELSE root_inode
      BY <1>1 DEF RefreshCaches, Refreshed
    <3>2. next = IF start.id = k THEN job.parent ELSE start
      BY <3>1
    <3> HIDE DEF next, start
    <3>3. job.parent.size > 0
      <4>1. job.parent.size \in 0 .. U32 - 1
        BY <1>2 DEF Flat, Inodes
      <4> QED BY <1>13, <4>1, SizesAssumption
    <3>4. CASE start.id = k
      BY <1>4, <2>2, <3>2, <3>3, <3>4
    <3>5. CASE start.id # k
      BY <3>2, <3>5
    <3> QED BY <3>4, <3>5
  <2>4. to.first = b /\ to.size > 0
    <3>1. CASE m = NoName
      <4>1. from = start /\ to = next
        BY <3>1 DEF DirectoryOf
      <4> HIDE DEF from, to, start, next
      <4> QED BY <2>1, <2>3, <4>1
    <3>2. CASE m # NoName
      <4>1. from = Got(entries, inodes, start, m) /\ to = Got(entries', inodes, next, m)
        BY <3>2 DEF DirectoryOf
      <4>2. m \in Names
        BY <3>2, JobTyped DEF IInv, TypeInv, Paths
      <4> HIDE DEF from, to, start, next, m
      <4>3. from.id = FoundIn(entries[start.first], m) /\ from.id # 0 /\ start.size > 0
        <5>1. from.id # 0
          BY <1>4, <2>1 DEF Directories, Written
        <5> QED BY <1>2, <2>2, <4>1, <4>2, <5>1, GotTyped
      <4>4. start.id # k
        <5> SUFFICES ASSUME start.id = k
                     PROVE  FALSE
          OBVIOUS
        <5>1. \E t \in Named(page) : page[t].id = k
          <6>1. start.first = b
            BY <1>4, <2>2
          <6>2. FoundIn(page, m) = k /\ FoundIn(page, m) # 0
            BY <2>1, <4>3, <6>1
          <6> HIDE DEF page, k
          <6> QED BY <6>2, FoundAt
        <5> HIDE DEF page
        <5> QED BY <1>8, <5>1 DEF IsDirectory
      <4>5. entries'[start.first] = entries[start.first]
        BY <1>16, <1>17, <2>2, <4>4
      <4>6. to = from
        BY <2>2, <2>3, <4>1, <4>3, <4>5 DEF Got
      <4> QED BY <2>1, <4>6
    <3> QED BY <3>1, <3>2
  <2>5. DirectoryOf(job'.path, entries', inodes', root_inode', current_dir_inode') = to
    BY <1>1
  <2> HIDE DEF from, to, start, next, m
  <2>6. FoundIn(entries'[b], n) \in {FoundIn(page, n), i}
    <3>1. CASE free = {}
      BY <1>17, <3>1
    <3>2. CASE free # {}
      <4> DEFINE old == {t \in Slots : <<n, page[t].name>> \in Prefixes}
                 new == {t \in Slots : <<n, left[t].name>> \in Prefixes}
      <4>1. s \in Slots /\ \A t \in Slots : left[t] = IF t = s THEN e ELSE page[t]
        BY <1>12, <1>14, <3>2
      <4>2. <<n, e.name>> \in Prefixes
        BY <1>4, <2>1, NamesAssumption DEF e
      <4>3. new = old \cup {s}
        BY <4>1, <4>2
      <4>4. FirstSlot(new) \in new /\ \A t \in new : FirstSlot(new) <= t
        <5>1. new \subseteq Slots /\ new # {}
          BY <4>3
        <5> QED BY <5>1, FirstSlotLeast
      <4>5. FoundIn(left, n) = left[FirstSlot(new)].id
        BY <4>3 DEF FoundIn
      <4>6. CASE FirstSlot(new) = s
        BY <1>15, <1>16, <3>2, <4>1, <4>5, <4>6
      <4>7. CASE FirstSlot(new) # s
        <5>1. FirstSlot(new) \in old /\ \A t \in old : FirstSlot(new) <= t
          BY <4>3, <4>4, <4>7
        <5>2. old \subseteq Nat
          BY Constants
        <5>3. FirstSlot(old) \in old /\ \A t \in old : FirstSlot(old) <= t
          <6>1. old \subseteq Slots
            OBVIOUS
          <6> HIDE DEF old, new
          <6>2. old # {}
            BY <5>1
          <6> QED BY <6>1, <6>2, FirstSlotLeast
        <5>4. FirstSlot(old) = FirstSlot(new)
          <6> DEFINE x == FirstSlot(old)
                     y == FirstSlot(new)
          <6> HIDE DEF old, new
          <6>1. x \in old /\ y \in old
            BY <5>1, <5>3
          <6>2. x <= y /\ y <= x
            BY <5>1, <5>3, <6>1
          <6>3. x \in Nat /\ y \in Nat
            BY <5>2, <6>1
          <6> HIDE DEF x, y
          <6>4. x = y
            BY <6>2, <6>3
          <6> QED BY <6>4 DEF x, y
        <5>5. FoundIn(page, n) = page[FirstSlot(old)].id
          BY <5>1 DEF FoundIn
        <5>6. left[FirstSlot(new)] = page[FirstSlot(old)]
          BY <4>1, <4>3, <4>4, <4>7, <5>4
        <5> QED BY <1>16, <3>2, <4>5, <5>5, <5>6
      <4> QED BY <4>6, <4>7
    <3> QED BY <3>1, <3>2
  <2>7. Got(entries', inodes, to, n).id \in {0, i}
    <3> DEFINE f == FoundIn(entries'[b], n)
    <3>1. Got(entries', inodes, to, n) = IF f # 0 THEN inodes[f] ELSE NoInode
      BY <2>4 DEF Got
    <3>2. Got(entries, inodes, from, n) =
              IF FoundIn(page, n) # 0 THEN inodes[FoundIn(page, n)] ELSE NoInode
      BY <2>1 DEF Got
    <3>3. inodes[i].id \in {0, i} /\ NoInode.id = 0
      BY <1>2, NothingTyped DEF RootInv
    <3> HIDE DEF f, page, i, n
    <3> QED BY <2>1, <2>6, <3>1, <3>2, <3>3 DEF f
  <2>8. n = job'.path.name /\ i = job'.inode.id
    BY <1>1
  <2> HIDE DEF n, i
  <2> QED BY <1>1, <2>5, <2>7, <2>8 DEF LookupInv, Before
<1> QED BY <1>18, <1>19, <1>20

-----------------------------------------------------------------------------
(* Every step                                                              *)

LEMMA InitShared ==
    ASSUME Init
    PROVE  SharedInv
<1>1. /\ inode_bits = {0, Root} /\ data_bits = 0 .. FirstDataBlock
      /\ inodes = [i \in Ids |-> IF i = Root THEN RootInode ELSE NoInode]
      /\ entries = [b \in Blocks |-> IF b = FirstDataBlock THEN WithDots(EmptyBlock, Root, Root)
                                     ELSE EmptyBlock]
      /\ disk_superblock = [inode |-> Root + 1, data |-> FirstDataBlock + 1]
      /\ root_inode = RootInode /\ current_dir_inode = RootInode /\ pc = "idle" /\ created = 0
      /\ Remade = {}
  BY DEF Init, Remade
<1>2. /\ RootInode.id = Root /\ RootInode.type = "dir" /\ RootInode.size = 2
      /\ RootInode.first = FirstDataBlock /\ NoInode.id = 0
  BY DEF RootInode, NoInode
<1>3. \A i \in Ids : inodes[i] = IF i = Root THEN RootInode ELSE NoInode
  BY <1>1
<1>4. Root \in Ids \ {0} /\ FirstDataBlock \in Blocks
  BY Constants
<1>5. Written = {Root}
  BY <1>2, <1>3, <1>4 DEF Written
<1>6. Directories = {Root}
  BY <1>2, <1>3, <1>4, <1>5 DEF Directories
<1>7. Apart
  BY <1>5 DEF Apart
<1> DEFINE page == WithDots(EmptyBlock, Root, Root)
           self == [id |-> Root, name |-> "."]
           up == [id |-> Root, name |-> ".."]
<1>8. \A t \in Slots : page[t] = IF t = 1 THEN self ELSE IF t = 2 THEN up ELSE NoEntry
  BY Constants DEF WithDots, EmptyBlock
<1>9. \A b \in Blocks : entries[b] = IF b = FirstDataBlock THEN page ELSE EmptyBlock
  BY <1>1
<1>10. /\ self.id = Root /\ self.name \notin Names /\ up.id = Root /\ up.name = ".."
       /\ up.name \notin Names /\ NoEntry.id = 0 /\ NoEntry.name \notin Names
       /\ \A t \in Slots : EmptyBlock[t] = NoEntry
  BY NamesAssumption DEF NoEntry, EmptyBlock
<1> HIDE DEF page
<1>11. Named(page) = {} /\ Named(EmptyBlock) = {}
  <2> HIDE DEF self, up
  <2> QED BY <1>8, <1>10 DEF Named
<1>12. DiskInv
  <2>1. /\ Written \subseteq inode_bits /\ disk_superblock.inode \notin Directories
        /\ inodes[Root].first \in data_bits
    BY <1>1, <1>2, <1>3, <1>4, <1>5, <1>6, SizesAssumption DEF Root
  <2>2. inodes[Root].first # disk_superblock.data
    BY <1>1, <1>2, <1>3, <1>4, SizesAssumption
  <2>3. \A i \in Ids \ {0} : inodes[i].id = 0 => inodes[i] = NoInode
    BY <1>2, <1>3, <1>4
  <2> QED BY <1>5, <2>1, <2>2, <2>3 DEF DiskInv
<1>13. inodes[Root] = RootInode /\ entries[inodes[Root].first] = page
  BY <1>2, <1>3, <1>4, <1>9
<1>14. DirectoryInv
  <2>1. inodes[Root].first # 0
    BY <1>2, <1>13, SizesAssumption
  <2>2. IsDirectory(Root, page, Directories)
    BY <1>6, <1>8, <1>10, <1>11, Constants DEF IsDirectory
  <2>3. \A b \in Blocks : Named(entries[b]) = {}
    BY <1>9, <1>11
  <2>4. \A b \in Blocks, s \in Slots :
            entries[b][s].id \in Ids \ {0} => s \in Named(entries[b]) \cup {1, 2}
    <3> HIDE DEF self, up
    <3> QED BY <1>8, <1>9, <1>10
  <2> QED BY <1>1, <1>6, <1>13, <2>1, <2>2, <2>3, <2>4 DEF DirectoryInv
<1>15. SizeInv
  <2>1. Cardinality(Named(entries[inodes[Root].first])) = 0
    BY <1>11, <1>13, FS_EmptySet
  <2> QED BY <1>1, <1>2, <1>6, <1>13, <2>1 DEF SizeInv, Before
<1>16. CacheInv
  BY <1>1, <1>2, <1>6, <1>13 DEF CacheInv, Copy
<1>17. /\ CreateInv /\ NewFileInv /\ LookupInv /\ NewDirectoryInv /\ NewPageInv /\ RemoveInv
  BY <1>1 DEF CreateInv, NewFileInv, LookupInv, NewDirectoryInv, NewPageInv, RemoveInv,
              Creating, ParentRead, Removing
<1> QED BY <1>7, <1>12, <1>14, <1>15, <1>16, <1>17 DEF SharedInv, FilesInv

\* No step is taken once a block is overwritten, and what has happened stays so.
LEMMA NextActs ==
    ASSUME Next
    PROVE  overwritten = {} /\ events \subseteq events'
<1> DEFINE Acts == overwritten = {} /\ events \subseteq events'
<1>1. ASSUME fs_create_file
      PROVE  Acts
  BY <1>1 DEF fs_create_file, SetInodeBit, SetDataBit, WriteNewInode, GrowNextBlock,
              GrowElsewhere, ClearNewBlock, WriteParent, WriteEntry, update_superblock, At, ghosts
<1>2. ASSUME fs_make_dir
      PROVE  Acts
  BY <1>2 DEF fs_make_dir, MakeExisting, MakeSpecial, MakeCreated, SaveDot, WriteDotDot, SaveDotDot,
              WriteDirectory, At
<1>3. ASSUME fs_delete_file
      PROVE  Acts
  BY <1>3 DEF fs_delete_file, ClearData, ClearDataBit, ClearInode, ClearInodeBit, ClearEntry,
              ShrinkParent, ReleaseBlock, At, ghosts
<1>4. ASSUME NEW p \in Paths, fs_change_dir(p)
      PROVE  Acts
  BY <1>4 DEF fs_change_dir, At, ghosts
<1>5. ASSUME NEW p \in Paths, NEW new \in Names, fs_rename_file(p, new)
      PROVE  Acts
  BY <1>5 DEF fs_rename_file, At
<1>6. ASSUME (\E path \in SpecialPaths : ChangeToSpecial(path)) \/ Restart
      PROVE  Acts
  BY <1>6 DEF ChangeToSpecial, Restart, At, ghosts
<1> HIDE DEF Acts
<1>7. ASSUME NEW p \in Paths, fs_change_dir(p) \/ \E new \in Names : fs_rename_file(p, new)
      PROVE  Acts
  BY <1>4, <1>5, <1>7
<1>8. \/ fs_create_file \/ fs_make_dir \/ fs_delete_file
      \/ (\E path \in SpecialPaths : ChangeToSpecial(path)) \/ Restart
      \/ \E p \in Paths : fs_change_dir(p) \/ \E new \in Names : fs_rename_file(p, new)
  BY DEF Next
<1>9. Acts
  BY <1>1, <1>2, <1>3, <1>6, <1>7, <1>8
<1> QED BY <1>9 DEF Acts

\* A special path that is made again is not followed.
LEMMA MadeAgainLeaves ==
    ASSUME NEW path \in SpecialPaths, MakeSpecial(path)
    PROVE  ~Followed' /\ ~Kept'
<1>1. PICK e \in {"root made again", "directory made again"} : e \in events'
  BY DEF MakeSpecial
<1>2. e \in MadeAgain /\ e \notin {"no slot", "made again"}
  BY DEF MadeAgain
<1>3. ~Ordinary'
  BY <1>1, <1>2 DEF Ordinary
<1>4. events' \notin {{}, {"no slot"}, {"made again"}}
  BY <1>1, <1>2
<1> QED BY <1>3, <1>4 DEF Followed, Kept

LEMMA NextShared ==
    ASSUME IInv, SharedInv, Kept /\ overwritten = {} => ParentInv,
           MaxCreated + 2 < U32, [Next]_vars
    PROVE  SharedInv'
<1>1. CASE UNCHANGED vars
  <2>1. UNCHANGED <<inode_bits, data_bits, inodes, entries, disk_superblock, superblock,
                    root_inode, current_dir_inode, pc, job, overwritten, created, events>>
    BY <1>1 DEF vars, disk, bitmaps, memory, ghosts
  <2>2. /\ Ordinary' = Ordinary /\ Followed' = Followed
        /\ Written' = Written /\ Directories' = Directories
        /\ Apart' = Apart /\ DirectoryInv' = DirectoryInv
    <3>1. Remade' = Remade /\ Ordinary' = Ordinary
      BY <2>1 DEF Remade, Ordinary
    <3> QED BY <2>1, <3>1, NoFileWritten DEF Followed
  <2>3. DiskInv' = DiskInv /\ SizeInv' = SizeInv /\ CacheInv' = CacheInv
    BY <2>1, <2>2 DEF DiskInv, SizeInv, CacheInv, Copy
  <2>4. CreateInv' = CreateInv /\ NewFileInv' = NewFileInv /\ LookupInv' = LookupInv
    BY <2>1, <2>2 DEF CreateInv, NewFileInv, LookupInv, Copy
  <2>5. NewDirectoryInv' = NewDirectoryInv /\ NewPageInv' = NewPageInv /\ RemoveInv' = RemoveInv
    BY <2>1, <2>2 DEF NewDirectoryInv, NewPageInv, RemoveInv, Copy
  <2> QED BY <2>1, <2>2, <2>3, <2>4, <2>5 DEF SharedInv, FilesInv
<1>2. CASE Next
  <2> SUFFICES ASSUME Followed'
               PROVE  Apart' /\ (overwritten' = {} => FilesInv')
    BY DEF SharedInv
  <2>1. Apart /\ FilesInv /\ Followed /\ RootKept /\ overwritten = {}
    BY <1>2, NextActs, OrdinaryBefore, FollowedRootKept DEF SharedInv
  <2>2. CASE fs_create_file
    BY <2>1, <2>2, SetInodeBitShared, SetDataBitShared, WriteNewInodeShared,
       GrowNextBlockShared, GrowElsewhereShared, ClearNewBlockShared, WriteParentShared,
       WriteEntryShared, update_superblockShared DEF fs_create_file
  <2>3. CASE fs_make_dir
    <3>1. ASSUME NEW p \in Paths, MakeExisting(p)
          PROVE  Apart' /\ FilesInv'
      <4>1. events' = events \cup {"made again"} /\ ~Ordinary'
        BY <3>1 DEF MakeExisting, Ordinary, MadeAgain
      <4>2. events \in {{}, {"made again"}}
        BY <4>1 DEF Followed
      <4> QED BY <2>1, <3>1, <4>2, MakeExistingShared DEF Kept
    <3>2. ASSUME NEW path \in SpecialPaths, MakeSpecial(path)
          PROVE  FALSE
      BY <3>2, MadeAgainLeaves
    <3> QED BY <2>1, <2>3, <3>1, <3>2, MakeCreatedShared, SaveDotShared, WriteDotDotShared,
               SaveDotDotShared, WriteDirectoryShared DEF fs_make_dir
  <2>4. CASE fs_delete_file
    <3>1. ~ReleaseBlock
      BY <2>1 DEF ReleaseBlock, At, FilesInv, RemoveInv
    <3> QED BY <2>1, <2>4, <3>1, ClearDataShared, ClearDataBitShared, ClearInodeShared,
               ClearInodeBitShared, ClearEntryShared, ShrinkParentShared DEF fs_delete_file
  <2>5. CASE \/ \E p \in Paths : fs_change_dir(p)
             \/ \E path \in SpecialPaths : ChangeToSpecial(path)
    BY <2>1, <2>5, ChangeDirShared
  <2>6. CASE \E p \in Paths : \E new \in Names : fs_rename_file(p, new)
    BY <2>1, <2>6, RenameShared
  <2>7. CASE Restart
    BY <2>1, <2>7, RestartShared
  <2> QED BY <1>2, <2>2, <2>3, <2>4, <2>5, <2>6, <2>7 DEF Next
<1> QED BY <1>1, <1>2

-----------------------------------------------------------------------------
(* That what is entered is a file, that no id is entered twice, and that   *)
(* every file is entered                                                   *)

\* No page has more names than it had, and what they lead to is the same.
FewerNames ==
    \A b \in Blocks : \A s \in Named(entries'[b]) :
        s \in Named(entries[b]) /\ entries'[b][s].id = entries[b][s].id

LEMMA NamesUnique ==
    ASSUME PlacesUnique, FewerNames
    PROVE  PlacesUnique'
<1> SUFFICES ASSUME NEW b \in Blocks, NEW c \in Blocks,
                    NEW s \in Named(entries'[b]), NEW t \in Named(entries'[c]),
                    entries'[b][s].id = entries'[c][t].id, entries'[b][s].id # 0
             PROVE  b = c /\ s = t
  BY DEF PlacesUnique
<1>1. /\ s \in Named(entries[b]) /\ t \in Named(entries[c])
      /\ entries'[b][s].id = entries[b][s].id /\ entries'[c][t].id = entries[c][t].id
  BY DEF FewerNames
<1>2. entries[b][s].id = entries[c][t].id /\ entries[b][s].id # 0
  BY <1>1
<1>3. \A u \in Named(entries[b]), v \in Named(entries[c]) :
          entries[b][u].id = entries[c][v].id /\ entries[b][u].id # 0 => b = c /\ u = v
  BY DEF PlacesUnique
<1> QED BY <1>1, <1>2, <1>3

LEMMA NamesKept ==
    ASSUME TypeInv, PlacesUnique, ParentInv, FewerNames,
           Directories' = Directories,
           \A k \in Directories : inodes'[k].first = inodes[k].first,
           \A k \in Directories \ Remade' :
               entries'[inodes[k].first][2].id = entries[inodes[k].first][2].id,
           Remade \subseteq Remade'
    PROVE  PlacesUnique' /\ ParentInv'
<1>1. PlacesUnique'
  BY NamesUnique
<1>2. ParentInv'
  <2> SUFFICES ASSUME NEW k \in Directories, NEW s \in Slots,
                      s \in Named(entries'[inodes'[k].first]),
                      entries'[inodes'[k].first][s].id \in Directories,
                      entries'[inodes'[k].first][s].id \notin Remade'
               PROVE  entries'[inodes'[entries'[inodes'[k].first][s].id].first][2].id = k
    BY DEF ParentInv
  <2> DEFINE b == inodes[k].first
             m == entries[b][s].id
  <2>1. inodes'[k].first = b /\ b \in Blocks
    BY DEF Directories, Written, TypeInv, Flat, Inodes
  <2>2. s \in Named(entries[b]) /\ entries'[b][s].id = m
    BY <2>1 DEF FewerNames
  <2>3. m \in Directories /\ m \notin Remade /\ m \notin Remade'
    BY <2>1, <2>2
  <2>4. entries[inodes[m].first][2].id = k
    BY <2>2, <2>3 DEF ParentInv
  <2>5. entries'[inodes'[k].first][s].id = m
    BY <2>1, <2>2
  <2> HIDE DEF m, b
  <2>6. entries'[inodes'[m].first][2].id = k
    BY <2>3, <2>4
  <2> QED BY <2>5, <2>6
<1> QED BY <1>1, <1>2

\* What a step that writes no page leaves.
LEMMA EntriesKept ==
    ASSUME TypeInv, EntriesInv, entries' = entries,
           Written' = Written, Directories' = Directories,
           \A i \in Written : inodes'[i].first = inodes[i].first,
           Remade \subseteq Remade', data_bits \subseteq data_bits', Cleared \subseteq Cleared',
           events \subseteq events',
           pc \in Entering /\ events' = {} =>
               pc' \in Entering /\ job'.inode.id = job.inode.id
    PROVE  PlacesUnique' /\ PlaceInv' /\ ParentInv' /\ EnteredInv' /\ 0 \in data_bits'
<1>1. PlacesUnique /\ PlaceInv /\ ParentInv /\ StepInv /\ EnteredInv
  BY DEF EntriesInv
<1>2. FewerNames
  BY DEF FewerNames
<1>3. PlacesUnique' /\ ParentInv'
  BY <1>1, <1>2, NamesKept DEF Directories
<1>4. PlaceInv'
  <2> SUFFICES ASSUME NEW b \in Blocks, NEW s \in Named(entries[b]),
                      NEW i, i = entries[b][s].id, i # 0, i \notin Cleared'
               PROVE  i \in Written /\ inodes'[i].first \in data_bits'
    BY DEF PlaceInv
  <2>1. i \in Written /\ inodes[i].first \in data_bits
    BY <1>1 DEF PlaceInv
  <2> QED BY <2>1
<1>5. EnteredInv'
  <2> SUFFICES ASSUME events' = {}
               PROVE  EnteredInv'
    BY DEF EnteredInv
  <2>1. events = {}
    OBVIOUS
  <2> QED BY <1>1, <2>1 DEF EnteredInv
<1> QED BY <1>1, <1>3, <1>4, <1>5 DEF StepInv

\* The same, for one that writes no inode either.
LEMMA BitsKept ==
    ASSUME TypeInv, EntriesInv, entries' = entries, inodes' = inodes,
           data_bits \subseteq data_bits', events \subseteq events',
           Remade = {}, Cleared = {} \/ Cleared' = Cleared,
           pc \in Entering /\ events' = {} =>
               pc' \in Entering /\ job'.inode.id = job.inode.id
    PROVE  PlacesUnique' /\ PlaceInv' /\ ParentInv' /\ EnteredInv' /\ 0 \in data_bits'
<1>1. Written' = Written /\ Directories' = Directories
  BY DEF Written, Directories
<1>2. Remade \subseteq Remade' /\ Cleared \subseteq Cleared'
  OBVIOUS
<1> QED BY <1>1, <1>2, EntriesKept

\* A file that is being created is still not entered.
LEMMA StillBefore ==
    ASSUME StepInv, entries' = entries, pc \in Before, pc' \in Before \cup {"entry"},
           job'.inode.id = job.inode.id, 0 \in data_bits'
    PROVE  StepInv'
<1>1. pc' \notin Removing \cup ParentRead
  BY DEF Before, Removing, ParentRead
<1>2. \A b \in Blocks : \A s \in Named(entries[b]) :
          entries[b][s].id = job.inode.id => job.inode.id = 0
  BY DEF StepInv
<1>3. pc' # "rm data bit"
  BY DEF Before
<1> QED BY <1>1, <1>2, <1>3 DEF StepInv

LEMMA NoStep ==
    ASSUME 0 \in data_bits', pc' \in {"idle", "dot", "superblock", "rm parent"}
    PROVE  StepInv'
  BY DEF StepInv, Before, Removing, ParentRead

\* A new id is in no entry: the ids in entries are taken.
LEMMA SetInodeBitEntered ==
    ASSUME IInv, FilesInv, EntriesInv, Kept,
           NEW p \in Paths, NEW call \in {"create", "mkdir"}, SetInodeBit(p, call)
    PROVE  EntriesInv'
<1> DEFINE i == superblock.inode
<1>1. /\ pc = "idle" /\ overwritten = {} /\ pc' = "data bit" /\ job'.inode.id = i
      /\ entries' = entries /\ inodes' = inodes /\ data_bits' = data_bits
      /\ events \subseteq events'
  <2>1. /\ pc = "idle" /\ overwritten = {} /\ pc' = "data bit"
        /\ entries' = entries /\ inodes' = inodes /\ data_bits' = data_bits
        /\ events \subseteq events'
    BY DEF SetInodeBit, At
  <2>2. job'.inode = [NoInode EXCEPT !.id = i]
    BY DEF SetInodeBit, Idle
  <2>3. job'.inode.id = i
    BY <2>2 DEF NoInode
  <2> QED BY <2>1, <2>3
<1>2. Remade = {} /\ Cleared = {} /\ pc \notin Entering
  BY <1>1 DEF Remade, Cleared, Entering
<1>3. PlacesUnique' /\ PlaceInv' /\ ParentInv' /\ EnteredInv' /\ 0 \in data_bits'
  BY <1>1, <1>2, BitsKept DEF IInv
<1>4. i \in inode_bits => i = 0
  <2>1. events \cap {"create", "mkdir"} = {}
    BY DEF Kept
  <2> QED BY <1>1, <2>1 DEF IInv, FreeInv
<1>5. ASSUME NEW b \in Blocks, NEW s \in Named(entries[b]), entries[b][s].id = i
      PROVE  i = 0
  <2>1. i # 0 => i \in Written
    BY <1>2, <1>5 DEF EntriesInv, PlaceInv
  <2>2. Written \subseteq inode_bits
    BY DEF FilesInv, DiskInv
  <2> QED BY <1>4, <2>1, <2>2
<1>6. StepInv'
  <2>1. pc' \notin Removing \cup ParentRead
    BY <1>1 DEF Removing, ParentRead
  <2> HIDE DEF i
  <2> QED BY <1>1, <1>3, <1>5, <2>1 DEF StepInv
<1> QED BY <1>3, <1>6 DEF EntriesInv

LEMMA SetDataBitEntered ==
    ASSUME IInv, EntriesInv, SetDataBit
    PROVE  EntriesInv'
<1>1. /\ pc = "data bit" /\ pc' = "inode" /\ data_bits \subseteq data_bits'
      /\ entries' = entries /\ inodes' = inodes /\ events' = events
      /\ job' = [job EXCEPT !.inode.first = superblock.data]
  BY DEF SetDataBit, At, ghosts
<1>2. job'.inode.id = job.inode.id
  <2>1. job \in Jobs /\ job.inode \in Flat
    BY JobTyped DEF IInv, TypeInv
  <2>2. job'.inode = [job.inode EXCEPT !.first = superblock.data]
    BY <1>1, <2>1 DEF Jobs
  <2> QED BY <2>1, <2>2 DEF Flat, Inodes
<1>3. /\ Remade = {} /\ Cleared = {} /\ pc \notin Entering
      /\ pc \in Before /\ pc' \in Before
  BY <1>1 DEF Remade, Cleared, Entering, Before
<1>4. PlacesUnique' /\ PlaceInv' /\ ParentInv' /\ EnteredInv' /\ 0 \in data_bits'
  BY <1>1, <1>3, BitsKept DEF IInv
<1>5. StepInv'
  BY <1>1, <1>2, <1>3, <1>4, StillBefore DEF EntriesInv
<1> QED BY <1>4, <1>5 DEF EntriesInv

\* The directory may grow, and no entry is lost by it.
LEMMA GrowthEntered ==
    ASSUME IInv, EntriesInv, GrowNextBlock \/ GrowElsewhere \/ ClearNewBlock, overwritten' = {}
    PROVE  EntriesInv'
<1>1. /\ pc \in {"grow", "clear"} /\ pc' \in {"clear", "parent"}
      /\ data_bits \subseteq data_bits' /\ inodes' = inodes /\ events' = events
      /\ job'.inode = job.inode
  <2>1. job \in Jobs
    BY DEF IInv, TypeInv
  <2>2. CASE GrowNextBlock
    <3>1. job' = [job EXCEPT !.parent.past = @ + 1]
      BY <2>2 DEF GrowNextBlock
    <3>2. job'.inode = job.inode
      BY <2>1, <3>1 DEF Jobs
    <3> QED BY <2>2, <3>2 DEF GrowNextBlock, At, ghosts
  <2>3. CASE GrowElsewhere
    BY <2>3 DEF GrowElsewhere, At, ghosts
  <2>4. CASE ClearNewBlock
    BY <2>4 DEF ClearNewBlock, At, bitmaps
  <2> QED BY <2>2, <2>3, <2>4
<1>2. entries' = entries
  <2>1. CASE GrowNextBlock \/ GrowElsewhere
    BY <2>1 DEF GrowNextBlock, GrowElsewhere
  <2>2. CASE ClearNewBlock
    <3>1. job.parent \in Inodes
      BY DEF IInv, TypeInv, Jobs
    <3> DEFINE past == job.parent.past
    <3>2. past \in 0 .. 1
      BY <3>1 DEF Inodes
    <3>3. 0 \in SystemBlocks
      BY SizesAssumption DEF SystemBlocks
    <3>4. past = 0 \/ past - 1 = 0
      BY <3>2
    <3>5. past = 0 \/ overwritten' = {past - 1} \cap SystemBlocks
      BY <2>2 DEF ClearNewBlock, WriteBlock
    <3> HIDE DEF past
    <3>6. past = 0
      BY <3>3, <3>4, <3>5
    <3> QED BY <2>2, <3>6 DEF ClearNewBlock, past
  <2> QED BY <2>1, <2>2
<1>3. /\ Remade = {} /\ Cleared = {} /\ pc' \in Entering
      /\ pc \in Before /\ pc' \in Before
  BY <1>1 DEF Remade, Cleared, Entering, Before
<1>4. PlacesUnique' /\ PlaceInv' /\ ParentInv' /\ EnteredInv' /\ 0 \in data_bits'
  BY <1>1, <1>2, <1>3, BitsKept DEF IInv
<1>5. StepInv'
  BY <1>1, <1>2, <1>3, <1>4, StillBefore DEF EntriesInv
<1> QED BY <1>4, <1>5 DEF EntriesInv

\* A new file's inode: nothing has its id, and it is being entered.
LEMMA WriteNewInodeEntered ==
    ASSUME IInv, FilesInv, EntriesInv, WriteNewInode
    PROVE  EntriesInv'
<1> DEFINE i == job.inode.id
<1>1. /\ pc = "inode" /\ pc' \in {"grow", "parent"} /\ job' = job
      /\ inodes' = [inodes EXCEPT ![i] = job.inode]
      /\ entries' = entries /\ data_bits' = data_bits /\ events' = events
  BY DEF WriteNewInode, WriteInode, At, bitmaps
<1>2. /\ Remade = {} /\ Cleared = {} /\ Remade' = {} /\ Cleared' = {}
      /\ pc \in Before /\ pc' \in Before /\ pc' \in Entering /\ pc \in Creating
  BY <1>1 DEF Remade, Cleared, Entering, Before, Creating
<1>3. TypeInv /\ PlacesUnique /\ PlaceInv /\ ParentInv /\ StepInv /\ EnteredInv
  BY DEF IInv, EntriesInv
<1>4. i \in Ids /\ job.inode.type = "file" /\ i \notin Directories
  <2>1. job.inode \in Inodes
    BY <1>3 DEF TypeInv, Jobs, Flat
  <2>2. i = disk_superblock.inode /\ job.inode.type = "file"
    BY <1>2 DEF FilesInv, NewFileInv
  <2>3. disk_superblock.inode \notin Directories
    BY DEF FilesInv, DiskInv
  <2> QED BY <2>1, <2>2, <2>3 DEF Inodes
<1>5. \A j \in Ids : inodes'[j] = IF j = i THEN job.inode ELSE inodes[j]
  BY <1>1, <1>3, <1>4 DEF TypeInv
<1> HIDE DEF i
<1>6. Written \subseteq Written' /\ Written' \subseteq Written \cup {i}
  <2>1. \A j \in Ids : j # i => inodes'[j] = inodes[j]
    BY <1>5
  <2>2. i \in Written => i \in Written'
    BY <1>4, <1>5 DEF Written, i
  <2> QED BY <2>1, <2>2 DEF Written
<1>7. Directories' = Directories
  BY <1>4, <1>5, <1>6 DEF Directories, Written
<1>8. \A k \in Directories : inodes'[k].first = inodes[k].first
  BY <1>4, <1>5 DEF Directories, Written
<1>9. PlacesUnique' /\ ParentInv'
  <2>1. FewerNames
    BY <1>1 DEF FewerNames
  <2> QED BY <1>1, <1>2, <1>3, <1>7, <1>8, <2>1, NamesKept
<1>10. PlaceInv'
  <2> SUFFICES ASSUME NEW b \in Blocks, NEW s \in Named(entries[b]),
                      NEW j, j = entries[b][s].id, j # 0
               PROVE  j \in Written' /\ inodes'[j].first \in data_bits
    BY <1>1 DEF PlaceInv
  <2>1. j \in Written /\ inodes[j].first \in data_bits
    BY <1>2, <1>3 DEF PlaceInv
  <2>2. j # i
    BY <1>2, <1>3 DEF StepInv, i
  <2>3. inodes'[j] = inodes[j]
    BY <1>5, <2>1, <2>2 DEF Written
  <2> QED BY <1>6, <2>1, <2>3
<1>11. EnteredInv'
  <2> SUFFICES ASSUME events = {}, NEW j \in Written' \ {Root}, j # i
               PROVE  \E b \in Blocks : \E s \in Named(entries[b]) : entries[b][s].id = j
    BY <1>1, <1>2 DEF EnteredInv, i
  <2>1. j \in Written \ {Root}
    BY <1>6
  <2> QED BY <1>3, <2>1 DEF EnteredInv, i
<1>12. StepInv'
  <2>1. 0 \in data_bits'
    BY <1>1, <1>3 DEF StepInv
  <2> QED BY <1>1, <1>2, <1>3, <2>1, StillBefore
<1> QED BY <1>9, <1>10, <1>11, <1>12 DEF EntriesInv

\* A directory's size is in no entry.
LEMMA SizeWrittenEntered ==
    ASSUME IInv, EntriesInv, NEW d \in Flat, inodes' = [inodes EXCEPT ![d.id] = d],
           d.id # 0 => d.id \in Written /\ d.first = inodes[d.id].first
                       /\ d.type = inodes[d.id].type,
           entries' = entries, data_bits' = data_bits, events \subseteq events',
           Remade \subseteq Remade', Cleared = {},
           pc \in Entering => pc' \in Entering /\ job'.inode.id = job.inode.id
    PROVE  PlacesUnique' /\ PlaceInv' /\ ParentInv' /\ EnteredInv' /\ 0 \in data_bits'
<1>1. TypeInv /\ RootInv
  BY DEF IInv
<1>2. /\ Written' = Written /\ Directories' = Directories
      /\ \A i \in Ids \ {0} : inodes'[i].first = inodes[i].first
  BY <1>1, InodeKept
<1>3. \A i \in Written : inodes'[i].first = inodes[i].first
  BY <1>2 DEF Written
<1> QED BY <1>1, <1>2, <1>3, EntriesKept

LEMMA WriteParentEntered ==
    ASSUME IInv, FilesInv, EntriesInv, WriteParent
    PROVE  EntriesInv'
<1> DEFINE parent == job.parent
           d == [parent EXCEPT !.size = (@ + 1) % U32]
<1>1. /\ pc = "parent" /\ overwritten = {} /\ pc' = "entry"
      /\ inodes' = [inodes EXCEPT ![d.id] = d] /\ job' = [job EXCEPT !.parent = d]
      /\ entries' = entries /\ data_bits' = data_bits /\ events' = events
  BY DEF WriteParent, WriteInode, At, bitmaps
<1>2. /\ Remade = {} /\ Cleared = {} /\ pc' \in Entering /\ pc \in Creating
      /\ pc \in Before
  BY <1>1 DEF Remade, Cleared, Entering, Before, Creating
<1>3. job \in Jobs /\ parent \in Flat
  BY <1>1, JobTyped DEF IInv, TypeInv
<1>4. job'.inode = job.inode
  BY <1>1, <1>3 DEF Jobs
<1>5. /\ parent.id \in Directories /\ parent.type = "dir"
      /\ parent.first = inodes[parent.id].first
  BY <1>2 DEF FilesInv, CreateInv, Copy
<1>6. d \in Flat /\ d.id = parent.id /\ d.type = parent.type /\ d.first = parent.first
  <2>1. (parent.size + 1) % U32 \in 0 .. U32 - 1
    BY <1>3, Wraps DEF Flat, Inodes
  <2> HIDE DEF parent
  <2> QED BY <1>3, <2>1 DEF Flat, Inodes
<1> HIDE DEF d, parent
<1>7. d.id \in Written /\ d.first = inodes[d.id].first /\ d.type = inodes[d.id].type
  BY <1>5, <1>6 DEF Directories
<1>8. PlacesUnique' /\ PlaceInv' /\ ParentInv' /\ EnteredInv' /\ 0 \in data_bits'
  <2>1. Remade \subseteq Remade' /\ events \subseteq events'
    BY <1>1, <1>2
  <2>2. inodes' = [inodes EXCEPT ![d.id] = d] /\ job'.inode.id = job.inode.id
    BY <1>1, <1>4
  <2> QED BY <1>1, <1>2, <1>6, <1>7, <2>1, <2>2, SizeWrittenEntered
<1>9. StepInv'
  BY <1>1, <1>2, <1>4, <1>8, StillBefore DEF EntriesInv
<1> QED BY <1>8, <1>9 DEF EntriesInv

LEMMA ShrinkParentEntered ==
    ASSUME IInv, FilesInv, EntriesInv, ShrinkParent, RemoveInv'
    PROVE  EntriesInv'
<1> DEFINE parent == job.parent
           d == [parent EXCEPT !.size = (@ - 1) % U32]
<1>1. /\ pc = "rm parent" /\ overwritten = {} /\ pc' = "idle"
      /\ inodes' = [inodes EXCEPT ![d.id] = d]
      /\ entries' = entries /\ data_bits' = data_bits /\ events' = events
  <2>1. /\ pc = "rm parent" /\ overwritten = {} /\ pc' \in {"idle", "rm parent bit"}
        /\ inodes' = [inodes EXCEPT ![d.id] = d]
        /\ entries' = entries /\ data_bits' = data_bits /\ events' = events
    BY DEF ShrinkParent, WriteInode, At, bitmaps
  <2>2. pc' # "rm parent bit"
    BY DEF RemoveInv
  <2> QED BY <2>1, <2>2
<1>2. Remade = {} /\ Cleared = {} /\ pc \notin Entering /\ pc \in Removing
  BY <1>1 DEF Remade, Cleared, Entering, Removing
<1>3. parent \in Flat
  BY <1>1, JobTyped DEF IInv, TypeInv
<1>4. /\ parent.id \in Directories /\ parent.type = "dir"
      /\ parent.first = inodes[parent.id].first
  BY <1>2 DEF FilesInv, RemoveInv, Copy
<1>5. d \in Flat /\ d.id = parent.id /\ d.type = parent.type /\ d.first = parent.first
  <2>1. (parent.size - 1) % U32 \in 0 .. U32 - 1
    BY <1>3, Wraps DEF Flat, Inodes
  <2> HIDE DEF parent
  <2> QED BY <1>3, <2>1 DEF Flat, Inodes
<1> HIDE DEF d, parent
<1>6. d.id \in Written /\ d.first = inodes[d.id].first /\ d.type = inodes[d.id].type
  BY <1>4, <1>5 DEF Directories
<1>7. PlacesUnique' /\ PlaceInv' /\ ParentInv' /\ EnteredInv' /\ 0 \in data_bits'
  BY <1>1, <1>2, <1>5, <1>6, SizeWrittenEntered
<1>8. StepInv'
  BY <1>1, <1>7, NoStep
<1> QED BY <1>7, <1>8 DEF EntriesInv

\* Steps that write neither a page nor an inode.
LEMMA update_superblockEntered ==
    ASSUME IInv, EntriesInv, update_superblock
    PROVE  EntriesInv'
<1>1. /\ pc = "superblock" /\ pc' \in {"dot", "idle"}
      /\ entries' = entries /\ inodes' = inodes /\ data_bits' = data_bits /\ events' = events
  BY DEF update_superblock, At, bitmaps, ghosts
<1>2. Remade = {} /\ Cleared = {} /\ pc \notin Entering
  BY <1>1 DEF Remade, Cleared, Entering
<1>3. PlacesUnique' /\ PlaceInv' /\ ParentInv' /\ EnteredInv' /\ 0 \in data_bits'
  BY <1>1, <1>2, BitsKept DEF IInv
<1>4. StepInv'
  BY <1>1, <1>3, NoStep
<1> QED BY <1>3, <1>4 DEF EntriesInv

LEMMA BetweenCallsEntered ==
    ASSUME IInv, EntriesInv, pc = "idle", pc' = "idle", entries' = entries, inodes' = inodes,
           data_bits' = data_bits, events' = events
    PROVE  EntriesInv'
<1>1. Remade = {} /\ Cleared = {} /\ pc \notin Entering
  BY DEF Remade, Cleared, Entering
<1>2. PlacesUnique' /\ PlaceInv' /\ ParentInv' /\ EnteredInv' /\ 0 \in data_bits'
  BY <1>1, BitsKept DEF IInv
<1>3. StepInv'
  BY <1>2, NoStep
<1> QED BY <1>2, <1>3 DEF EntriesInv

\* A file that is deleted is still entered, and its block is its own.
LEMMA ClearDataBitEntered ==
    ASSUME IInv, Apart, FilesInv, EntriesInv, ClearDataBit
    PROVE  EntriesInv'
<1> DEFINE i == job.inode.id
           b == job.inode.first
<1>1. /\ pc = "rm data bit" /\ pc' = "rm inode" /\ job' = job /\ data_bits' = data_bits \ {b}
      /\ entries' = entries /\ inodes' = inodes /\ events' = events
  BY DEF ClearDataBit, At, ghosts
<1>2. /\ Remade = {} /\ Cleared = {} /\ Cleared' = {i} /\ pc \notin Entering
      /\ pc \in Removing \ {"rm parent"} /\ pc' \in Removing \ {"rm parent"}
      /\ pc' \notin Before \cup {"entry"} /\ pc' \notin ParentRead
  BY <1>1 DEF Remade, Cleared, Entering, Removing, Before, ParentRead
<1>3. TypeInv /\ PlacesUnique /\ PlaceInv /\ ParentInv /\ StepInv /\ EnteredInv
  BY DEF IInv, EntriesInv
<1>4. i \in Written /\ inodes[i].first = b /\ b # 0
  <2>1. i \in Written /\ inodes[i].first = b
    BY <1>1, <1>2 DEF FilesInv, RemoveInv
  <2> QED BY <1>1, <1>3, <2>1 DEF StepInv
<1>5. Written' = Written /\ Directories' = Directories
  BY <1>1 DEF Written, Directories
<1>6. PlacesUnique' /\ ParentInv'
  <2>1. FewerNames /\ Remade \subseteq Remade'
    BY <1>1, <1>2 DEF FewerNames
  <2> QED BY <1>1, <1>3, <1>5, <2>1, NamesKept
<1> HIDE DEF i, b
<1>7. PlaceInv'
  <2> SUFFICES ASSUME NEW c \in Blocks, NEW s \in Named(entries[c]),
                      NEW j, j = entries[c][s].id, j # 0, j # i
               PROVE  j \in Written /\ inodes[j].first \in data_bits \ {b}
    BY <1>1, <1>2, <1>5 DEF PlaceInv
  <2>1. j \in Written /\ inodes[j].first \in data_bits
    BY <1>2, <1>3 DEF PlaceInv
  <2>2. inodes[j].first # b
    BY <1>4, <2>1 DEF Apart
  <2> QED BY <2>1, <2>2
<1>8. EnteredInv'
  BY <1>1, <1>2, <1>3, <1>5 DEF EnteredInv
<1>9. StepInv'
  <2>1. 0 \in data_bits'
    BY <1>1, <1>3, <1>4 DEF StepInv
  <2>2. Enters(job.parent, job.inode.id)'
    BY <1>1, <1>2, <1>3 DEF StepInv, Enters
  <2> QED BY <1>1, <1>2, <2>1, <2>2 DEF StepInv
<1> QED BY <1>6, <1>7, <1>8, <1>9 DEF EntriesInv

LEMMA ClearInodeEntered ==
    ASSUME IInv, FilesInv, EntriesInv, ClearInode
    PROVE  EntriesInv'
<1> DEFINE i == job.inode.id
<1>1. /\ pc = "rm inode" /\ pc' = "rm inode bit" /\ job' = job /\ data_bits' = data_bits
      /\ entries' = entries /\ inodes' = [inodes EXCEPT ![i] = NoInode] /\ events' = events
  BY DEF ClearInode, At, bitmaps, ghosts
<1>2. /\ Remade = {} /\ Cleared = {i} /\ Cleared' = {i} /\ pc \notin Entering
      /\ pc \in Removing \ {"rm parent"} /\ pc' \in Removing \ {"rm parent"}
      /\ pc' \notin Before \cup {"entry"} /\ pc' \notin ParentRead
  BY <1>1 DEF Remade, Cleared, Entering, Removing, Before, ParentRead
<1>3. TypeInv /\ PlacesUnique /\ PlaceInv /\ ParentInv /\ StepInv /\ EnteredInv
  BY DEF IInv, EntriesInv
<1>4. i \in Written \ Directories
  BY <1>1, <1>2 DEF FilesInv, RemoveInv
<1>5. \A j \in Ids : inodes'[j] = IF j = i THEN NoInode ELSE inodes[j]
  BY <1>1, <1>3, <1>4 DEF TypeInv, Written
<1> HIDE DEF i
<1>6. Written' = Written \ {i}
  <2>1. i \notin Written'
    BY <1>4, <1>5 DEF Written, NoInode
  <2>2. \A j \in Ids : j # i => inodes'[j] = inodes[j]
    BY <1>5
  <2> QED BY <2>1, <2>2 DEF Written
<1>7. \A j \in Written : j # i => inodes'[j] = inodes[j]
  BY <1>5 DEF Written
<1>8. Directories' = Directories
  BY <1>4, <1>6, <1>7 DEF Directories
<1>9. PlacesUnique' /\ ParentInv'
  <2>1. FewerNames /\ Remade \subseteq Remade'
    BY <1>1, <1>2 DEF FewerNames
  <2>2. \A k \in Directories : inodes'[k].first = inodes[k].first
    BY <1>4, <1>7 DEF Directories
  <2> QED BY <1>1, <1>3, <1>8, <2>1, <2>2, NamesKept
<1>10. PlaceInv'
  <2>0. entries' = entries /\ data_bits' = data_bits
    BY <1>1
  <2> SUFFICES ASSUME NEW c \in Blocks, NEW s \in Named(entries[c]),
                      NEW j, j = entries[c][s].id, j # 0, j # i
               PROVE  j \in Written' /\ inodes'[j].first \in data_bits
    BY <1>2, <2>0 DEF PlaceInv
  <2>1. j \in Written /\ inodes[j].first \in data_bits
    BY <1>2, <1>3 DEF PlaceInv
  <2> QED BY <1>6, <1>7, <2>1
<1>11. EnteredInv'
  <2> SUFFICES ASSUME events = {}, NEW j \in Written' \ {Root}
               PROVE  \E c \in Blocks : \E s \in Named(entries[c]) : entries[c][s].id = j
    BY <1>1 DEF EnteredInv
  <2>1. j \in Written \ {Root}
    BY <1>6
  <2> QED BY <1>2, <1>3, <2>1 DEF EnteredInv
<1>12. StepInv'
  <2>1. 0 \in data_bits'
    BY <1>1, <1>3 DEF StepInv
  <2>2. Enters(job.parent, job.inode.id)'
    BY <1>1, <1>2, <1>3 DEF StepInv, Enters
  <2> QED BY <1>1, <1>2, <2>1, <2>2 DEF StepInv
<1> QED BY <1>9, <1>10, <1>11, <1>12 DEF EntriesInv

LEMMA ClearInodeBitEntered ==
    ASSUME IInv, EntriesInv, ClearInodeBit
    PROVE  EntriesInv'
<1>1. /\ pc = "rm inode bit" /\ pc' = "rm entry" /\ job' = job /\ data_bits' = data_bits
      /\ entries' = entries /\ inodes' = inodes /\ events' = events
  BY DEF ClearInodeBit, At, ghosts
<1>2. /\ Remade = {} /\ Cleared' = Cleared /\ pc \notin Entering
      /\ pc \in Removing \ {"rm parent"} /\ pc' \in Removing \ {"rm parent"}
      /\ pc' \notin Before \cup {"entry"} /\ pc' \notin ParentRead
  BY <1>1 DEF Remade, Cleared, Entering, Removing, Before, ParentRead
<1>3. PlacesUnique' /\ PlaceInv' /\ ParentInv' /\ EnteredInv' /\ 0 \in data_bits'
  BY <1>1, <1>2, BitsKept DEF IInv
<1>4. StepInv'
  <2>1. Enters(job.parent, job.inode.id)'
    BY <1>1, <1>2 DEF EntriesInv, StepInv, Enters
  <2> QED BY <1>1, <1>2, <1>3, <2>1 DEF StepInv
<1> QED BY <1>3, <1>4 DEF EntriesInv

LEMMA WriteDotDotEntered ==
    ASSUME IInv, FilesInv, EntriesInv, WriteDotDot
    PROVE  EntriesInv'
<1> DEFINE d == job.inode
<1>1. /\ pc = "dotdot" /\ pc' = "dotdot data" /\ job' = job
      /\ inodes' = [inodes EXCEPT ![d.id] = d]
      /\ entries' = entries /\ data_bits' = data_bits /\ events' = events
  BY DEF WriteDotDot, WriteInode, At, bitmaps
<1>2. /\ Remade' = Remade /\ Cleared = {} /\ pc \notin Entering
      /\ pc \in ParentRead /\ pc' \in ParentRead
      /\ pc' \notin Before \cup {"entry"} /\ pc' \notin Removing /\ pc' # "rm data bit"
  BY <1>1 DEF Remade, Cleared, Entering, ParentRead, Before, Removing
<1>3. d \in Flat
  BY DEF IInv, TypeInv, Jobs
<1>4. d.id # 0 => d.id \in Written /\ d.first = inodes[d.id].first /\ d.type = inodes[d.id].type
  BY <1>2 DEF FilesInv, NewDirectoryInv
<1> HIDE DEF d
<1>5. PlacesUnique' /\ PlaceInv' /\ ParentInv' /\ EnteredInv' /\ 0 \in data_bits'
  BY <1>1, <1>2, <1>3, <1>4, SizeWrittenEntered
<1>6. StepInv'
  <2>1. StepInv
    BY DEF EntriesInv
  <2>2. job'.dir.id # 0 =>
            job'.parent.id # job'.dir.id /\ Enters(job.parent, job.dir.id)'
    BY <1>1, <1>2, <2>1 DEF StepInv, Enters
  <2>3. \A s \in Named(job'.page) :
            s \in Named(entries'[job'.inode.first]) /\ job'.page[s] = entries'[job'.inode.first][s]
    BY <1>1, <1>2, <2>1 DEF StepInv
  <2> QED BY <1>2, <1>5, <2>2, <2>3 DEF StepInv
<1> QED BY <1>5, <1>6 DEF EntriesInv

\* What a step that keeps every name leaves of the rest.
LEMMA PlacesKept ==
    ASSUME TypeInv, EntriesInv, FewerNames,
           \A b \in Blocks : \A s \in Named(entries[b]) :
               s \in Named(entries'[b]) /\ entries'[b][s].id = entries[b][s].id,
           inodes' = inodes, data_bits' = data_bits, events' = events,
           Cleared = {}, pc \notin Entering
    PROVE  PlaceInv' /\ EnteredInv'
<1>1. Written' = Written /\ PlaceInv /\ EnteredInv
  BY DEF Written, EntriesInv
<1>2. PlaceInv'
  <2> SUFFICES ASSUME NEW b \in Blocks, NEW s \in Named(entries'[b]),
                      NEW i, i = entries'[b][s].id, i # 0
               PROVE  i \in Written /\ inodes[i].first \in data_bits
    BY <1>1 DEF PlaceInv
  <2>1. s \in Named(entries[b]) /\ i = entries[b][s].id
    BY DEF FewerNames
  <2> QED BY <1>1, <2>1 DEF PlaceInv
<1>3. EnteredInv'
  <2> SUFFICES ASSUME events = {}, NEW i \in Written \ {Root}
               PROVE  \E b \in Blocks : \E s \in Named(entries'[b]) : entries'[b][s].id = i
    BY <1>1 DEF EnteredInv
  <2>1. PICK b \in Blocks : \E s \in Named(entries[b]) : entries[b][s].id = i
    BY <1>1 DEF EnteredInv
  <2>2. PICK s \in Named(entries[b]) : entries[b][s].id = i
    BY <2>1
  <2> QED BY <2>2
<1> QED BY <1>2, <1>3

\* A file's block has no names, and the file stays entered.
LEMMA ClearDataEntered ==
    ASSUME IInv, RootKept, Apart, FilesInv, EntriesInv, NEW p \in Paths, ClearData(p), overwritten' = {}
    PROVE  EntriesInv'
<1> DEFINE d == DirectoryOf(p, entries, inodes, root_inode, current_dir_inode)
           file == inode_from_path(p)
           b == file.first
<1>1. /\ pc = "idle" /\ overwritten = {} /\ pc' = "rm data bit"
      /\ file.id # 0 /\ file.type = "file" /\ WriteBlock(b, EmptyBlock)
      /\ inodes' = inodes /\ data_bits' = data_bits /\ events' = events
      /\ job'.parent = parent_inode_from_path(p) /\ job'.inode = file
  BY DEF ClearData, At, bitmaps, Idle
<1>2. /\ Remade = {} /\ Remade' = {} /\ Cleared = {} /\ pc \notin Entering
      /\ pc' \notin Before \cup {"entry"} /\ pc' \notin ParentRead
  BY <1>1 DEF Remade, Cleared, Entering, Before, ParentRead
<1>3. TypeInv /\ RootInv /\ PlacesUnique /\ PlaceInv /\ ParentInv /\ StepInv /\ DirectoryInv
  BY DEF IInv, EntriesInv, FilesInv
<1>4. /\ d \in Flat /\ parent_inode_from_path(p) = d /\ d.id \in Directories
      /\ file.id \in Written \ Directories /\ file = inodes[file.id] /\ file.first \in Blocks
      /\ file.id = FoundIn(entries[d.first], p.name)
  <2>1. pc \in {"idle", "dot"} /\ p.name \in Names
    BY <1>1 DEF Paths
  <2>2. /\ d \in Flat /\ file = Got(entries, inodes, d, p.name)
        /\ parent_inode_from_path(p) = d /\ d.id \in Directories
    BY <1>1, <2>1, PathIsWritten
  <2> HIDE DEF d, file
  <2>3. /\ file \in Flat /\ file.id \in Written /\ file = inodes[file.id]
        /\ file.id = FoundIn(entries[d.first], p.name)
    BY <1>1, <1>3, <2>1, <2>2, GotTyped
  <2>4. file.first \in Blocks
    BY <2>3 DEF Flat, Inodes
  <2> QED BY <1>1, <2>2, <2>3, <2>4 DEF Directories
<1> HIDE DEF d, file, b
<1>5. b \in Blocks /\ b = inodes[file.id].first
  BY <1>4 DEF b
<1>6. b # 0 /\ \A c \in Blocks : entries'[c] = IF c = b THEN EmptyBlock ELSE entries[c]
  <2>1. entries' = [entries EXCEPT ![b] = EmptyBlock] /\ b \notin SystemBlocks
    BY <1>1, <1>5 DEF WriteBlock
  <2>2. b # 0
    BY <2>1, Constants
  <2> QED BY <1>3, <2>1, <2>2 DEF TypeInv
<1>7. \A k \in Directories : inodes[k].first # b
  BY <1>4, <1>5, <1>6 DEF Apart, Directories
<1>8. Named(entries[b]) = {} /\ Named(entries'[b]) = {}
  <2>1. Named(entries[b]) = {}
    BY <1>3, <1>5, <1>7 DEF DirectoryInv
  <2>2. \A s \in Slots : EmptyBlock[s].name \notin Names
    BY NamesAssumption DEF EmptyBlock, NoEntry
  <2>3. entries'[b] = EmptyBlock
    BY <1>5, <1>6
  <2> QED BY <2>1, <2>2, <2>3 DEF Named
<1>9. /\ FewerNames
      /\ \A c \in Blocks : \A s \in Named(entries[c]) :
             s \in Named(entries'[c]) /\ entries'[c][s].id = entries[c][s].id
  <2> SUFFICES ASSUME NEW c \in Blocks
               PROVE  /\ \A s \in Named(entries'[c]) :
                             s \in Named(entries[c]) /\ entries'[c][s].id = entries[c][s].id
                      /\ \A s \in Named(entries[c]) :
                             s \in Named(entries'[c]) /\ entries'[c][s].id = entries[c][s].id
    BY DEF FewerNames
  <2>1. CASE c = b
    BY <1>8, <2>1
  <2>2. CASE c # b
    <3>1. entries'[c] = entries[c]
      BY <1>6, <2>2
    <3> QED BY <3>1
  <2> QED BY <2>1, <2>2
<1>10. PlaceInv' /\ EnteredInv'
  BY <1>1, <1>2, <1>3, <1>9, PlacesKept
<1>11. PlacesUnique' /\ ParentInv'
  <2>1. Directories' = Directories /\ Remade \subseteq Remade'
    BY <1>1, <1>2 DEF Directories, Written
  <2>2. \A k \in Directories : entries'[inodes[k].first] = entries[inodes[k].first]
    BY <1>3, <1>6, <1>7 DEF Directories, Written, TypeInv, Flat, Inodes
  <2> QED BY <1>1, <1>3, <1>9, <2>1, <2>2, NamesKept
<1>12. \E s \in Named(entries'[d.first]) : entries'[d.first][s].id = file.id
  <2> DEFINE c == d.first
             n == p.name
             page == entries[c]
  <2>1. c \in Blocks
    BY <1>4 DEF Flat, Inodes
  <2>2. FoundIn(page, n) = file.id /\ FoundIn(page, n) # 0
    BY <1>1, <1>4
  <2> HIDE DEF c, n, page
  <2>3. PICK s \in Named(page) : page[s].id = file.id
    BY <2>2, FoundAt
  <2>4. s \in Named(entries'[c]) /\ entries'[c][s].id = file.id
    BY <1>9, <2>1, <2>3 DEF page
  <2> QED BY <2>4 DEF c
<1>13. StepInv'
  <2>1. 0 \in data_bits'
    BY <1>1, <1>3 DEF StepInv
  <2>2. Enters(job.parent, job.inode.id)'
    BY <1>1, <1>4, <1>12 DEF Enters
  <2>3. job'.inode.first # 0
    BY <1>1, <1>6 DEF b
  <2> QED BY <1>1, <1>2, <2>1, <2>2, <2>3 DEF StepInv
<1> QED BY <1>10, <1>11, <1>13 DEF EntriesInv

\* The only entry of a deleted file goes.
LEMMA ClearEntryEntered ==
    ASSUME IInv, Apart, FilesInv, EntriesInv, ClearEntry, overwritten' = {}
    PROVE  EntriesInv'
<1> DEFINE k == job.parent.id
           b == job.parent.first
           i == job.inode.id
           page == entries[b]
           slots == SlotsOf(job.parent, i)
           s == FirstSlot(slots)
           left == [page EXCEPT ![s] = NoEntry]
<1>1. /\ pc = "rm entry" /\ pc' \in {"idle", "rm parent"}
      /\ IF slots = {} THEN UNCHANGED entries ELSE entries' = [entries EXCEPT ![b] = left]
      /\ inodes' = inodes /\ data_bits' = data_bits /\ events' = events
  BY DEF ClearEntry, WriteBlock, At, bitmaps
<1>2. /\ Remade = {} /\ Cleared = {i} /\ pc \notin Entering /\ pc \in Removing \ {"rm parent"}
      /\ pc' \notin Entering
  BY <1>1 DEF Remade, Cleared, Entering, Removing
<1>3. TypeInv /\ PlacesUnique /\ PlaceInv /\ ParentInv /\ StepInv /\ EnteredInv /\ DirectoryInv
  BY DEF IInv, EntriesInv, FilesInv
<1>4. /\ k \in Directories /\ b = inodes[k].first /\ i # 0 /\ i \notin Written
  BY <1>1, <1>2 DEF FilesInv, RemoveInv, Copy
<1>5. b \in Blocks /\ i \in Ids /\ page \in Pages
  <2>1. b \in Blocks
    BY <1>3, <1>4 DEF Directories, Written, TypeInv, Flat, Inodes
  <2>2. i \in Ids
    BY <1>3 DEF TypeInv, Jobs, Flat, Inodes
  <2> QED BY <1>3, <2>1, <2>2 DEF TypeInv
<1>6. slots # {} /\ s \in Slots /\ page[s].id = i
  <2>1. PICK t \in Named(page) : page[t].id = i
    BY <1>2, <1>3 DEF StepInv, Enters
  <2>2. t \in slots /\ slots \subseteq Slots
    BY <2>1 DEF SlotsOf, Named
  <2>3. s \in slots
    BY <2>2, FirstSlotIn
  <2> QED BY <2>2, <2>3 DEF SlotsOf
<1> HIDE DEF slots, s
<1>7. s \in Named(page) /\ s \notin {1, 2}
  <2>1. IsDirectory(k, page, Directories)
    BY <1>2, <1>3, <1>4 DEF DirectoryInv
  <2>2. k \in Written /\ page[2].id \in Written
    BY <1>4, <2>1 DEF IsDirectory, Directories
  <2>3. page[s].id \notin {0, k, page[2].id} /\ page[s].id \in Ids
    BY <1>4, <1>5, <1>6, <2>2
  <2> HIDE DEF page, i
  <2>4. k \in Directories \ Remade /\ page = entries[inodes[k].first]
    BY <1>2, <1>4 DEF page
  <2> HIDE DEF k, b
  <2> QED BY <1>3, <1>6, <2>3, <2>4, SlotIsNamed
<1>8. \A c \in Blocks : entries'[c] = IF c = b THEN left ELSE entries[c]
  <2>1. entries' = [entries EXCEPT ![b] = left]
    BY <1>1, <1>6
  <2> HIDE DEF left, b
  <2> QED BY <1>3, <2>1 DEF TypeInv
<1>9. \A t \in Slots : left[t] = IF t = s THEN NoEntry ELSE page[t]
  BY <1>5 DEF Pages
<1>10. Named(left) = Named(page) \ {s}
  <2>1. NoEntry.name \notin Names
    BY NamesAssumption DEF NoEntry
  <2> HIDE DEF left, page
  <2> QED BY <1>9, <2>1 DEF Named
<1> HIDE DEF left, page, b, i, k
<1>11. \A t \in Named(left) : t # s /\ t \in Named(page) /\ left[t] = page[t]
  BY <1>9, <1>10 DEF Named
<1>12. page = entries[b]
  BY DEF page
<1>13. FewerNames
  <2> SUFFICES ASSUME NEW c \in Blocks, NEW t \in Named(entries'[c])
               PROVE  t \in Named(entries[c]) /\ entries'[c][t].id = entries[c][t].id
    BY DEF FewerNames
  <2>1. CASE c = b
    BY <1>8, <1>11, <1>12, <2>1
  <2>2. CASE c # b
    BY <1>8, <2>2
  <2> QED BY <2>1, <2>2
<1>14. \A c \in Blocks : \A t \in Named(entries[c]) :
           entries[c][t].id # i => t \in Named(entries'[c]) /\ entries'[c][t].id = entries[c][t].id
  <2> SUFFICES ASSUME NEW c \in Blocks, NEW t \in Named(entries[c]), entries[c][t].id # i
               PROVE  t \in Named(entries'[c]) /\ entries'[c][t].id = entries[c][t].id
    OBVIOUS
  <2>1. CASE c = b
    <3>1. t # s /\ t \in Named(page)
      BY <1>6, <1>12, <2>1
    <3>2. t \in Named(left) /\ left[t] = page[t]
      BY <1>10, <1>11, <3>1
    <3> QED BY <1>8, <1>12, <2>1, <3>2
  <2>2. CASE c # b
    BY <1>8, <2>2
  <2> QED BY <2>1, <2>2
<1>15. Written' = Written /\ Directories' = Directories
  BY <1>1 DEF Directories, Written
<1>16. PlacesUnique' /\ ParentInv'
  <2>1. \A j \in Directories : entries'[inodes[j].first][2].id = entries[inodes[j].first][2].id
    <3>1. left[2] = page[2]
      BY <1>7, <1>9, Constants
    <3>2. \A j \in Directories : inodes[j].first \in Blocks
      BY <1>3 DEF Directories, Written, TypeInv, Flat, Inodes
    <3> QED BY <1>8, <1>12, <3>1, <3>2
  <2>2. Remade \subseteq Remade' /\ \A j \in Directories : inodes'[j].first = inodes[j].first
    BY <1>1, <1>2
  <2> QED BY <1>3, <1>13, <1>15, <2>1, <2>2, NamesKept
<1>17. PlaceInv'
  <2> SUFFICES ASSUME NEW c \in Blocks, NEW t \in Named(entries'[c]),
                      NEW j, j = entries'[c][t].id, j # 0
               PROVE  j \in Written /\ inodes[j].first \in data_bits
    BY <1>1, <1>15 DEF PlaceInv
  <2>1. t \in Named(entries[c]) /\ j = entries[c][t].id
    BY <1>13 DEF FewerNames
  <2>2. j # i
    <3> SUFFICES ASSUME j = i
                 PROVE  FALSE
      OBVIOUS
    <3>1. b \in Blocks /\ s \in Named(entries[b]) /\ entries[b][s].id = i
      BY <1>5, <1>6, <1>7, <1>12
    <3>2. c = b /\ t = s
      BY <1>3, <2>1, <3>1 DEF PlacesUnique
    <3> QED BY <1>5, <1>8, <1>11, <3>2
  <2> QED BY <1>2, <1>3, <2>1, <2>2 DEF PlaceInv
<1>18. EnteredInv'
  <2> SUFFICES ASSUME events = {}, NEW j \in Written \ {Root}
               PROVE  \E c \in Blocks : \E t \in Named(entries'[c]) : entries'[c][t].id = j
    BY <1>1, <1>15 DEF EnteredInv
  <2>1. PICK c \in Blocks : \E t \in Named(entries[c]) : entries[c][t].id = j
    BY <1>2, <1>3 DEF EnteredInv
  <2>2. PICK t \in Named(entries[c]) : entries[c][t].id = j
    BY <2>1
  <2>3. t \in Named(entries'[c]) /\ entries'[c][t].id = j
    BY <1>4, <1>14, <2>2
  <2> QED BY <2>3
<1>19. StepInv'
  <2>1. 0 \in data_bits'
    BY <1>1, <1>3 DEF StepInv
  <2> QED BY <1>1, <2>1, NoStep
<1> QED BY <1>16, <1>17, <1>18, <1>19 DEF EntriesInv

\* A new name leads to the same file.
LEMMA RenameEntered ==
    ASSUME IInv, RootKept, Apart, FilesInv, EntriesInv, NEW p \in Paths, NEW new \in Names,
           fs_rename_file(p, new)
    PROVE  EntriesInv'
<1> DEFINE file == inode_from_path(p)
           parent == parent_inode_from_path(p)
           d == DirectoryOf(p, entries, inodes, root_inode, current_dir_inode)
           k == parent.id
           b == parent.first
           page == entries[b]
           slots == SlotsOf(parent, file.id)
           s == FirstSlot(slots)
           e == [id |-> file.id, name |-> new]
           left == [page EXCEPT ![s] = e]
<1>1. /\ pc = "idle" /\ pc' = "idle" /\ overwritten = {}
      /\ file.id # 0 /\ slots # {} /\ entries' = [entries EXCEPT ![b] = left]
      /\ inodes' = inodes /\ data_bits' = data_bits /\ events' = events
  BY DEF fs_rename_file, WriteBlock, At, bitmaps
<1>2. /\ Remade = {} /\ Cleared = {} /\ pc \notin Entering
  BY <1>1 DEF Remade, Cleared, Entering
<1>3. TypeInv /\ RootInv /\ PlacesUnique /\ ParentInv /\ StepInv /\ DirectoryInv
  BY DEF IInv, EntriesInv, FilesInv
<1>4. s \in Slots /\ page[s].id = file.id
  <2>1. slots \subseteq Slots
    BY DEF SlotsOf
  <2>2. s \in slots
    BY <1>1, <2>1, FirstSlotIn
  <2> QED BY <2>2 DEF SlotsOf
<1>5. /\ k \in Directories /\ b = inodes[k].first
      /\ \E t \in Named(page) : page[t].id = file.id
  <2>1. pc \in {"idle", "dot"} /\ p.name \in Names
    BY <1>1 DEF Paths
  <2>2. /\ d \in Flat /\ file = Got(entries, inodes, d, p.name) /\ parent = d
        /\ (d.id # 0 => d.first = inodes[d.id].first) /\ d.id \in Directories
    BY <1>1, <2>1, PathIsWritten
  <2> HIDE DEF d, file
  <2>3. file.id = FoundIn(entries[d.first], p.name) /\ file.id # 0
    BY <1>1, <1>3, <2>1, <2>2, GotTyped
  <2>4. \E t \in Named(entries[d.first]) : entries[d.first][t].id = file.id
    <3> DEFINE q == entries[d.first]
               n == p.name
    <3>1. FoundIn(q, n) # 0 /\ FoundIn(q, n) = file.id
      BY <2>3
    <3> HIDE DEF q, n
    <3>2. PICK t \in Named(q) : q[t].id = FoundIn(q, n)
      BY <3>1, FoundAt
    <3> QED BY <3>1, <3>2 DEF q
  <2>5. d.id # 0
    BY <2>2 DEF Directories, Written
  <2> HIDE DEF parent
  <2> QED BY <2>2, <2>4, <2>5
<1> HIDE DEF file, parent, slots, s
<1>6. IsDirectory(k, page, Directories)
  BY <1>2, <1>3, <1>5 DEF DirectoryInv
<1>7. b \in Blocks /\ page \in Pages
  <2>1. b \in Blocks
    BY <1>3, <1>5 DEF Directories, Written, TypeInv, Flat, Inodes
  <2> QED BY <1>3, <2>1 DEF TypeInv
<1> HIDE DEF b, k
<1>8. file.id \notin {0, k, page[2].id}
  BY <1>1, <1>5, <1>6 DEF IsDirectory
<1>9. page[s].id \in Ids
  <2>1. PICK t \in Named(page) : page[t].id = file.id
    BY <1>5
  <2> HIDE DEF page
  <2> QED BY <1>4, <1>7, <2>1 DEF Pages, Found, Named
<1>10. s \in Named(page) /\ s \notin {1, 2}
  BY <1>2, <1>3, <1>4, <1>5, <1>8, <1>9, SlotIsNamed
<1>11. \A t \in Slots : left[t] = IF t = s THEN e ELSE page[t]
  BY <1>7 DEF Pages
<1>12. Named(left) = Named(page) /\ \A t \in Slots : left[t].id = page[t].id
  <2>1. e.name \in Names /\ e.id = file.id
    OBVIOUS
  <2> HIDE DEF left, page, e
  <2>2. Named(left) = Named(page)
    BY <1>10, <1>11, <2>1 DEF Named
  <2> QED BY <1>4, <1>11, <2>1, <2>2
<1>13. \A c \in Blocks : entries'[c] = IF c = b THEN left ELSE entries[c]
  <2>1. entries' = [entries EXCEPT ![b] = left]
    BY <1>1
  <2> HIDE DEF left
  <2> QED BY <1>3, <2>1 DEF TypeInv
<1>14. page = entries[b]
  OBVIOUS
<1> HIDE DEF left, page, e
<1>15. \A c \in Blocks : /\ Named(entries'[c]) = Named(entries[c])
                         /\ \A t \in Slots : entries'[c][t].id = entries[c][t].id
  <2> SUFFICES ASSUME NEW c \in Blocks
               PROVE  /\ Named(entries'[c]) = Named(entries[c])
                      /\ \A t \in Slots : entries'[c][t].id = entries[c][t].id
    OBVIOUS
  <2>1. CASE c = b
    BY <1>12, <1>13, <1>14, <2>1
  <2>2. CASE c # b
    BY <1>13, <2>2
  <2> QED BY <2>1, <2>2
<1>16. /\ FewerNames
       /\ \A c \in Blocks : \A t \in Named(entries[c]) :
              t \in Named(entries'[c]) /\ entries'[c][t].id = entries[c][t].id
  BY <1>15 DEF FewerNames, Named
<1>17. PlaceInv' /\ EnteredInv'
  BY <1>1, <1>2, <1>3, <1>16, PlacesKept
<1>18. PlacesUnique' /\ ParentInv'
  <2>1. Directories' = Directories /\ Remade \subseteq Remade'
    BY <1>1, <1>2 DEF Directories, Written
  <2>2. \A j \in Directories : entries'[inodes[j].first][2].id = entries[inodes[j].first][2].id
    <3>1. \A j \in Directories : inodes[j].first \in Blocks
      BY <1>3 DEF Directories, Written, TypeInv, Flat, Inodes
    <3>2. 2 \in Slots
      BY Constants
    <3> QED BY <1>15, <3>1, <3>2
  <2> QED BY <1>1, <1>3, <1>16, <2>1, <2>2, NamesKept
<1>19. StepInv'
  <2>1. 0 \in data_bits'
    BY <1>1, <1>3 DEF StepInv
  <2> QED BY <1>1, <2>1, NoStep
<1> QED BY <1>17, <1>18, <1>19 DEF EntriesInv

\* The new entry is of an id that is in none, and of the file that is being created.
LEMMA WriteEntryEntered ==
    ASSUME IInv, FilesInv, EntriesInv, WriteEntry, overwritten' = {}
    PROVE  EntriesInv'
<1> DEFINE k == job.parent.id
           b == job.parent.first
           i == job.inode.id
           page == entries[b]
           free == FreeSlots(job.parent)
           s == FirstSlot(free)
           e == [id |-> i, name |-> job.name]
           left == [page EXCEPT ![s] = e]
<1>1. /\ pc = "entry" /\ pc' = "superblock"
      /\ IF free = {} THEN UNCHANGED entries ELSE entries' = [entries EXCEPT ![b] = left]
      /\ inodes' = inodes /\ data_bits' = data_bits
      /\ events' = events \cup (IF free = {} THEN {"no slot"} ELSE {})
  BY DEF WriteEntry, WriteBlock, At, bitmaps
<1>2. /\ Remade = {} /\ Cleared = {} /\ Cleared' = {} /\ pc \in Creating
      /\ pc \notin {"data bit", "inode"}
  BY <1>1 DEF Remade, Cleared, Creating
<1>3. TypeInv /\ PlacesUnique /\ PlaceInv /\ ParentInv /\ StepInv /\ EnteredInv /\ DirectoryInv
  BY DEF IInv, EntriesInv, FilesInv
<1>4. /\ k \in Directories /\ b = inodes[k].first /\ job.name \in Names
  BY <1>1, <1>2 DEF FilesInv, CreateInv
<1>5. /\ i \notin Directories
      /\ i # 0 => i \in Written /\ inodes[i].first \in data_bits
  <2>1. i = disk_superblock.inode /\ disk_superblock.inode \notin Directories
    BY <1>2 DEF FilesInv, NewFileInv, DiskInv
  <2>2. /\ job.inode.first \in data_bits
        /\ i # 0 => inodes[i] = job.inode
    BY <1>2 DEF FilesInv, NewFileInv
  <2>3. i \in Ids
    BY <1>3 DEF TypeInv, Jobs, Flat, Inodes
  <2> QED BY <2>1, <2>2, <2>3 DEF Written
<1>6. StepInv'
  <2>1. 0 \in data_bits'
    BY <1>1, <1>3 DEF StepInv
  <2> QED BY <1>1, <2>1, NoStep
<1>7. Written' = Written /\ Directories' = Directories
  BY <1>1 DEF Written, Directories
<1>8. CASE free = {}
  <2>1. entries' = entries /\ events' # {}
    BY <1>1, <1>8
  <2>2. data_bits \subseteq data_bits' /\ events \subseteq events'
    BY <1>1
  <2>3. PlacesUnique' /\ PlaceInv' /\ ParentInv' /\ EnteredInv'
    BY <1>1, <1>2, <1>3, <2>1, <2>2, BitsKept
  <2> QED BY <1>6, <2>3 DEF EntriesInv
<1>9. CASE free # {}
  <2>1. b \in Blocks /\ page \in Pages
    <3>1. b \in Blocks
      BY <1>3, <1>4 DEF Directories, Written, TypeInv, Flat, Inodes
    <3> QED BY <1>3, <3>1 DEF TypeInv
  <2>2. s \in Slots /\ page[s].id = 0
    <3>1. free \subseteq Slots
      BY DEF FreeSlots
    <3>2. s \in free
      BY <1>9, <3>1, FirstSlotIn
    <3> QED BY <3>2 DEF FreeSlots
  <2>3. entries' = [entries EXCEPT ![b] = left] /\ events' = events
    BY <1>1, <1>9
  <2> HIDE DEF free, s
  <2>4. s # 2
    <3>1. IsDirectory(k, page, Directories)
      BY <1>2, <1>3, <1>4 DEF DirectoryInv
    <3>2. page[2].id # 0
      BY <3>1 DEF IsDirectory, Directories, Written
    <3> QED BY <2>2, <3>2
  <2>5. \A c \in Blocks : entries'[c] = IF c = b THEN left ELSE entries[c]
    <3> HIDE DEF left, b
    <3> QED BY <1>3, <2>3 DEF TypeInv
  <2>6. \A t \in Slots : left[t] = IF t = s THEN e ELSE page[t]
    BY <2>1 DEF Pages
  <2>7. e.id = i /\ e.name \in Names /\ page = entries[b]
    BY <1>4
  <2> HIDE DEF left, page, e, b, i, k
  <2>8. Named(left) = Named(page) \cup {s}
    BY <2>2, <2>6, <2>7 DEF Named
  <2>9. \A c \in Blocks : \A t \in Named(entries'[c]) :
            \/ c = b /\ t = s /\ entries'[c][t].id = i
            \/ t \in Named(entries[c]) /\ entries'[c][t].id = entries[c][t].id
    <3> SUFFICES ASSUME NEW c \in Blocks, NEW t \in Named(entries'[c])
                 PROVE  \/ c = b /\ t = s /\ entries'[c][t].id = i
                        \/ t \in Named(entries[c]) /\ entries'[c][t].id = entries[c][t].id
      OBVIOUS
    <3>1. CASE c = b /\ t = s
      <4>1. entries'[c][t] = left[s]
        BY <2>1, <2>5, <3>1
      <4> QED BY <2>2, <2>6, <2>7, <3>1, <4>1
    <3>2. CASE c = b /\ t # s
      <4>1. entries'[c] = left
        BY <2>1, <2>5, <3>2
      <4>2. t \in Named(page) /\ t \in Slots
        BY <2>8, <3>2, <4>1 DEF Named
      <4>3. left[t] = page[t]
        BY <2>6, <3>2, <4>2
      <4> QED BY <2>7, <3>2, <4>1, <4>2, <4>3
    <3>3. CASE c # b
      BY <2>5, <3>3
    <3> QED BY <3>1, <3>2, <3>3
  <2>10. \A c \in Blocks : \A t \in Named(entries[c]) : entries[c][t].id # i \/ i = 0
    BY <1>1, <1>3 DEF StepInv, i
  <2>11. PlacesUnique'
    <3> SUFFICES ASSUME NEW c \in Blocks, NEW f \in Blocks,
                        NEW t \in Named(entries'[c]), NEW u \in Named(entries'[f]),
                        entries'[c][t].id = entries'[f][u].id, entries'[c][t].id # 0
                 PROVE  c = f /\ t = u
      BY DEF PlacesUnique
    <3>1. \/ c = b /\ t = s /\ entries'[c][t].id = i
          \/ t \in Named(entries[c]) /\ entries'[c][t].id = entries[c][t].id
      BY <2>9
    <3>2. \/ f = b /\ u = s /\ entries'[f][u].id = i
          \/ u \in Named(entries[f]) /\ entries'[f][u].id = entries[f][u].id
      BY <2>9
    <3>3. CASE entries'[c][t].id = i
      BY <2>10, <3>1, <3>2, <3>3
    <3>4. CASE entries'[c][t].id # i
      <4>1. /\ t \in Named(entries[c]) /\ u \in Named(entries[f])
            /\ entries[c][t].id = entries[f][u].id /\ entries[c][t].id # 0
        BY <3>1, <3>2, <3>4
      <4>2. \A v \in Named(entries[c]), w \in Named(entries[f]) :
                entries[c][v].id = entries[f][w].id /\ entries[c][v].id # 0 => c = f /\ v = w
        BY <1>3 DEF PlacesUnique
      <4> QED BY <4>1, <4>2
    <3> QED BY <3>3, <3>4
  <2>12. PlaceInv'
    <3> SUFFICES ASSUME NEW c \in Blocks, NEW t \in Named(entries'[c]),
                        NEW j, j = entries'[c][t].id, j # 0
                 PROVE  j \in Written /\ inodes[j].first \in data_bits
      BY <1>1, <1>7 DEF PlaceInv
    <3>1. CASE j = i
      BY <1>5, <3>1 DEF i
    <3>2. CASE j # i
      <4>1. t \in Named(entries[c]) /\ j = entries[c][t].id
        BY <2>9, <3>2
      <4> QED BY <1>2, <1>3, <4>1 DEF PlaceInv
    <3> QED BY <3>1, <3>2
  <2>13. ParentInv'
    <3> SUFFICES ASSUME NEW j \in Directories, NEW t \in Slots,
                        NEW m \in Directories, m = entries'[inodes[j].first][t].id,
                        t \in Named(entries'[inodes[j].first])
                 PROVE  entries'[inodes[m].first][2].id = j
      BY <1>1, <1>7 DEF ParentInv
    <3>1. inodes[j].first \in Blocks /\ inodes[m].first \in Blocks
      BY <1>3 DEF Directories, Written, TypeInv, Flat, Inodes
    <3>2. m # i
      BY <1>5 DEF i
    <3>3. t \in Named(entries[inodes[j].first]) /\ m = entries[inodes[j].first][t].id
      BY <2>9, <3>1, <3>2
    <3>4. entries[inodes[m].first][2].id = j
      BY <1>2, <1>3, <3>3 DEF ParentInv
    <3>5. left[2] = page[2]
      BY <2>4, <2>6, Constants
    <3>6. entries'[inodes[m].first][2] = entries[inodes[m].first][2]
      BY <2>5, <2>7, <3>1, <3>5
    <3> QED BY <3>4, <3>6
  <2>14. EnteredInv'
    <3> SUFFICES ASSUME events = {}, NEW j \in Written \ {Root}
                 PROVE  \E c \in Blocks : \E t \in Named(entries'[c]) : entries'[c][t].id = j
      BY <1>7, <2>3 DEF EnteredInv
    <3>1. CASE j = i
      <4>1. entries'[b] = left
        BY <2>1, <2>5
      <4>2. s \in Named(entries'[b]) /\ entries'[b][s].id = i
        BY <2>2, <2>6, <2>7, <2>8, <4>1
      <4> QED BY <2>1, <3>1, <4>2
    <3>2. CASE j # i
      <4>1. PICK c \in Blocks : \E t \in Named(entries[c]) : entries[c][t].id = j
        BY <1>3, <3>2 DEF EnteredInv, i
      <4>2. PICK t \in Named(entries[c]) : entries[c][t].id = j
        BY <4>1
      <4>3. j # 0
        BY DEF Written
      <4>4. ~(c = b /\ t = s)
        BY <2>2, <2>7, <4>2, <4>3
      <4>5. t \in Named(entries'[c]) /\ entries'[c][t] = entries[c][t]
        <5>1. CASE c = b
          <6>1. t # s /\ t \in Slots /\ t \in Named(page)
            BY <2>7, <4>4, <5>1 DEF Named
          <6>2. left[t] = page[t] /\ t \in Named(left)
            BY <2>6, <2>8, <6>1
          <6> QED BY <2>5, <2>7, <5>1, <6>2
        <5>2. CASE c # b
          BY <2>5, <5>2
        <5> QED BY <5>1, <5>2
      <4> QED BY <4>2, <4>5
    <3> QED BY <3>1, <3>2
  <2> QED BY <1>6, <2>11, <2>12, <2>13, <2>14 DEF EntriesInv
<1> QED BY <1>8, <1>9

\* A file that is made a directory is entered in another one, and has no names but a
\* directory's.
LEMMA WriteDotEntered ==
    ASSUME IInv, RootKept, Apart, FilesInv, EntriesInv, pc \in {"idle", "dot"}, pc' = "dot data",
           overwritten = {}, NEW p \in Paths, NEW file \in Flat,
           WriteDot(file, inode_from_path(p), parent_inode_from_path(p)),
           file.id # 0 => file.id \in Written /\ file.first = inodes[file.id].first
                          /\ file.type = inodes[file.id].type,
           events \subseteq events'
    PROVE  EntriesInv'
<1> DEFINE more == AtLeast(file, 1)
           dir == inode_from_path(p)
           parent == parent_inode_from_path(p)
           d == DirectoryOf(p, entries, inodes, root_inode, current_dir_inode)
<1>1. PICK page \in Loaded(file) :
          /\ inodes' = [inodes EXCEPT ![more.id] = more]
          /\ job' = [Idle EXCEPT !.call = "mkdir", !.parent = parent, !.dir = dir,
                         !.inode = more,
                         !.page = [page EXCEPT ![1] = [id |-> dir.id, name |-> "."]]]
          /\ entries' = entries /\ data_bits' = data_bits
  BY DEF WriteDot, WriteInode, bitmaps
<1>2. more \in Flat /\ more.id = file.id /\ more.first = file.first /\ more.type = file.type
  <2>1. more \in Flat /\ more.id = file.id /\ more.first = file.first
    BY AtLeastTyped
  <2>2. more.type = file.type
    BY DEF AtLeast, Flat, Inodes
  <2> QED BY <2>1, <2>2
<1>3. /\ job'.parent = parent /\ job'.dir = dir /\ job'.inode = more
      /\ job'.page = [page EXCEPT ![1] = [id |-> dir.id, name |-> "."]]
  BY <1>1 DEF Idle
<1>4. /\ Remade = {} /\ Cleared = {} /\ pc \notin Entering
      /\ pc' \notin Before \cup {"entry"} /\ pc' \notin Removing
  BY DEF Remade, Cleared, Entering, Before, Removing
<1>5. TypeInv /\ RootInv /\ StepInv /\ DirectoryInv
  BY DEF IInv, EntriesInv, FilesInv
<1> HIDE DEF more
<1>6. PlacesUnique' /\ PlaceInv' /\ ParentInv' /\ EnteredInv' /\ 0 \in data_bits'
  <2>1. more.id # 0 => more.id \in Written /\ more.first = inodes[more.id].first
                       /\ more.type = inodes[more.id].type
    BY <1>2
  <2>2. inodes' = [inodes EXCEPT ![more.id] = more] /\ entries' = entries
        /\ data_bits' = data_bits /\ Remade \subseteq Remade'
    BY <1>1, <1>4
  <2> QED BY <1>2, <1>4, <2>1, <2>2, SizeWrittenEntered
<1>7. dir.id # 0 =>
          parent.id # dir.id /\ \E s \in Named(entries[parent.first]) :
                                    entries[parent.first][s].id = dir.id
  <2> SUFFICES ASSUME dir.id # 0
               PROVE  parent.id # dir.id /\ \E s \in Named(entries[parent.first]) :
                                                entries[parent.first][s].id = dir.id
    OBVIOUS
  <2>1. /\ d \in Flat /\ (d.id # 0 => d.first = inodes[d.id].first)
        /\ dir = Got(entries, inodes, d, p.name) /\ parent = d /\ d.id \in Directories
    BY PathIsWritten
  <2>2. p.name \in Names
    BY DEF Paths
  <2> HIDE DEF d, dir, parent
  <2>3. dir.id = FoundIn(entries[d.first], p.name)
    BY <1>5, <2>1, <2>2, GotTyped
  <2> DEFINE page1 == entries[d.first]
             n == p.name
             k == d.id
  <2>4. FoundIn(page1, n) = dir.id /\ FoundIn(page1, n) # 0
    BY <2>3
  <2>5. IsDirectory(k, page1, Directories)
    <3>1. d.first = inodes[k].first /\ k \in Directories \ Remade
      BY <1>4, <2>1 DEF Directories, Written
    <3> HIDE DEF k
    <3> QED BY <1>5, <3>1 DEF DirectoryInv
  <2>6. k = parent.id /\ page1 = entries[parent.first]
    BY <2>1
  <2> HIDE DEF page1, n, k
  <2>7. PICK s \in Named(page1) : page1[s].id = dir.id
    BY <2>4, FoundAt
  <2>8. dir.id # k
    BY <2>5, <2>7 DEF IsDirectory
  <2> QED BY <2>6, <2>7, <2>8
<1> HIDE DEF dir, parent, d
<1>8. page \in Pages /\ \A s \in Named(page) :
          s \in Named(entries[file.first]) /\ page[s] = entries[file.first][s]
  <2>1. CASE page \in Junk
    <3>1. /\ page \in [Slots -> Entries]
          /\ \A s \in Slots : page[s].name \notin Names
      BY <2>1, NamesAssumption
    <3> QED BY <2>1, <3>1, JunkTyped DEF Named
  <2>2. CASE page = entries[file.first]
    <3>1. file.first \in Blocks
      BY DEF Flat, Inodes
    <3> QED BY <1>5, <2>2, <3>1 DEF TypeInv
  <2> QED BY <1>1, <2>1, <2>2 DEF Loaded
<1>9. \A s \in Named(job'.page) : s \in Named(page) /\ job'.page[s] = page[s]
  <2> DEFINE new == job'.page
             e == [id |-> dir.id, name |-> "."]
  <2>1. \A s \in Slots : new[s] = IF s = 1 THEN e ELSE page[s]
    BY <1>3, <1>8 DEF Pages
  <2>2. e.name \notin Names
    BY NamesAssumption
  <2> HIDE DEF new, e
  <2>3. \A s \in Named(new) : s \in Named(page) /\ new[s] = page[s]
    BY <2>1, <2>2 DEF Named
  <2> QED BY <2>3 DEF new
<1>10. StepInv'
  <2>1. job'.dir.id # 0 => job'.parent.id # job'.dir.id /\ Enters(job.parent, job.dir.id)'
    BY <1>1, <1>3, <1>7 DEF Enters
  <2>2. \A s \in Named(job'.page) :
            s \in Named(entries'[job'.inode.first]) /\ job'.page[s] = entries'[job'.inode.first][s]
    <3>1. entries'[job'.inode.first] = entries[file.first]
      BY <1>1, <1>2, <1>3
    <3> QED BY <1>8, <1>9, <3>1
  <2>3. pc' # "rm data bit"
    OBVIOUS
  <2> QED BY <1>4, <1>6, <2>1, <2>2, <2>3 DEF StepInv
<1> QED BY <1>6, <1>10 DEF EntriesInv

LEMMA MakeCreatedEntered ==
    ASSUME IInv, RootKept, Apart, FilesInv, EntriesInv, MakeCreated
    PROVE  EntriesInv'
<1>1. /\ pc = "dot" /\ pc' = "dot data" /\ overwritten = {} /\ events' = events
      /\ WriteDot(job.inode, inode_from_path(job.path), parent_inode_from_path(job.path))
  BY DEF MakeCreated, WriteDot, At
<1>2. job.inode \in Flat /\ job.path \in Paths
  BY JobTyped DEF IInv, TypeInv
<1> DEFINE file == job.inode
           p == job.path
<1>3. file.id # 0 => file.id \in Written /\ file.first = inodes[file.id].first
                     /\ file.type = inodes[file.id].type
  BY <1>1 DEF FilesInv, NewDirectoryInv
<1>4. /\ file \in Flat /\ p \in Paths /\ events \subseteq events'
      /\ WriteDot(file, inode_from_path(p), parent_inode_from_path(p))
  BY <1>1, <1>2
<1> HIDE DEF file, p
<1> QED BY <1>1, <1>3, <1>4, WriteDotEntered

LEMMA MakeExistingEntered ==
    ASSUME IInv, RootKept, Apart, FilesInv, EntriesInv, NEW p \in Paths, MakeExisting(p)
    PROVE  EntriesInv'
<1> DEFINE file == inode_from_path(p)
           parent == parent_inode_from_path(p)
           d == DirectoryOf(p, entries, inodes, root_inode, current_dir_inode)
<1>1. /\ pc = "idle" /\ pc' = "dot data" /\ overwritten = {} /\ WriteDot(file, file, parent)
      /\ file.id # 0 /\ events \subseteq events'
  BY DEF MakeExisting, WriteDot, At
<1>2. file \in Flat /\ file.id \in Written /\ file = inodes[file.id]
  <2>1. d \in Flat /\ file = Got(entries, inodes, d, p.name) /\ p.name \in Names
    BY <1>1, PathIsWritten DEF Paths
  <2> HIDE DEF file, d
  <2> QED BY <1>1, <2>1, GotTyped DEF IInv
<1>3. file.id # 0 => file.id \in Written /\ file.first = inodes[file.id].first
                     /\ file.type = inodes[file.id].type
  BY <1>2
<1>4. WriteDot(file, inode_from_path(p), parent_inode_from_path(p))
  BY <1>1
<1> HIDE DEF file, parent
<1> QED BY <1>1, <1>2, <1>3, <1>4, WriteDotEntered

\* The page of a file has no names; that of a directory has those of its block.
LEMMA PageSavedEntered ==
    ASSUME IInv, Apart, FilesInv, EntriesInv, pc \in {"dot data", "dotdot data"},
           pc' \in ParentRead, NEW b, b = job.inode.first,
           WriteBlock(b, job.page), overwritten' = {},
           inodes' = inodes, data_bits' = data_bits, events' = events,
           job'.inode.id = job.inode.id, job'.inode.first = b,
           job'.parent = job.parent, job'.dir = job.dir,
           \A s \in Named(job'.page) : s \in Named(job.page) /\ job'.page[s] = job.page[s]
    PROVE  /\ FewerNames /\ PlaceInv' /\ EnteredInv' /\ StepInv'
           /\ b # 0 /\ entries'[b] = job.page
           /\ \A k \in Directories : inodes[k].first \in Blocks
           /\ \A k \in Directories : k # job.inode.id =>
                  inodes[k].first # b /\ entries'[inodes[k].first] = entries[inodes[k].first]
<1> DEFINE i == job.inode.id
<1>1. /\ Cleared = {} /\ Cleared' = {} /\ pc \in ParentRead /\ pc \notin Entering
      /\ pc' \notin Entering /\ pc' \notin Before \cup {"entry"} /\ pc' \notin Removing
      /\ pc' # "rm data bit"
  BY DEF Cleared, ParentRead, Entering, Before, Removing
<1>2. TypeInv /\ PlaceInv /\ StepInv /\ EnteredInv /\ DirectoryInv
  BY DEF IInv, EntriesInv, FilesInv
<1>3. b \in Blocks
  BY <1>2 DEF TypeInv, Jobs, Flat, Inodes
<1>4. b # 0 /\ \A c \in Blocks : entries'[c] = IF c = b THEN job.page ELSE entries[c]
  <2>1. entries' = [entries EXCEPT ![b] = job.page] /\ b \notin SystemBlocks
    BY <1>3 DEF WriteBlock
  <2> QED BY <1>2, <2>1, Constants DEF TypeInv
<1>5. \A s \in Named(job.page) : s \in Named(entries[b]) /\ job.page[s] = entries[b][s]
  BY <1>1, <1>2 DEF StepInv
<1>6. \A k \in Directories : inodes[k].first \in Blocks
  BY <1>2 DEF Directories, Written, TypeInv, Flat, Inodes
<1>7. \A k \in Directories : k # i =>
          inodes[k].first # b /\ entries'[inodes[k].first] = entries[inodes[k].first]
  <2> SUFFICES ASSUME NEW k \in Directories, k # i
               PROVE  inodes[k].first # b
    BY <1>4, <1>6
  <2> QED BY <1>1, <1>4 DEF FilesInv, NewDirectoryInv, Directories
<1>8. FewerNames
  <2> SUFFICES ASSUME NEW c \in Blocks, NEW s \in Named(entries'[c])
               PROVE  s \in Named(entries[c]) /\ entries'[c][s].id = entries[c][s].id
    BY DEF FewerNames
  <2>1. CASE c = b
    BY <1>4, <1>5, <2>1
  <2>2. CASE c # b
    BY <1>4, <2>2
  <2> QED BY <2>1, <2>2
<1>9. Written' = Written
  BY DEF Written
<1>10. PlaceInv'
  <2> SUFFICES ASSUME NEW c \in Blocks, NEW s \in Named(entries'[c]),
                      NEW j, j = entries'[c][s].id, j # 0
               PROVE  j \in Written /\ inodes[j].first \in data_bits
    BY <1>9 DEF PlaceInv
  <2>1. s \in Named(entries[c]) /\ j = entries[c][s].id
    BY <1>8 DEF FewerNames
  <2> QED BY <1>1, <1>2, <2>1 DEF PlaceInv
<1>11. EnteredInv'
  <2> SUFFICES ASSUME events = {}, NEW j \in Written \ {Root}
               PROVE  \E c \in Blocks : \E s \in Named(entries'[c]) : entries'[c][s].id = j
    BY <1>9 DEF EnteredInv
  <2>1. i \notin Directories
    <3>1. Ordinary
      BY DEF Ordinary
    <3>2. job.inode.type = "file"
      BY <1>1, <3>1 DEF FilesInv, NewDirectoryInv, ParentRead
    <3>3. i # 0 => inodes[i].type = job.inode.type
      BY <1>1 DEF FilesInv, NewDirectoryInv
    <3> QED BY <3>2, <3>3 DEF Directories, Written
  <2>2. Named(entries[b]) = {}
    BY <1>2, <1>3, <1>7, <2>1 DEF DirectoryInv
  <2>3. PICK c \in Blocks : \E s \in Named(entries[c]) : entries[c][s].id = j
    BY <1>1, <1>2 DEF EnteredInv
  <2>4. PICK s \in Named(entries[c]) : entries[c][s].id = j
    BY <2>3
  <2>5. c # b
    BY <2>2, <2>4
  <2> QED BY <1>4, <2>4, <2>5
<1>12. StepInv'
  <2>1. 0 \in data_bits'
    BY <1>2 DEF StepInv
  <2>2. ASSUME job.dir.id # 0
        PROVE  job.parent.id # job.dir.id /\ Enters(job.parent, job.dir.id)'
    <3>1. job.parent.id # job.dir.id /\ Enters(job.parent, job.dir.id)
      BY <1>1, <1>2, <2>2 DEF StepInv
    <3>2. /\ job.dir.id = i /\ job.parent.id \in Directories
          /\ job.parent.first = inodes[job.parent.id].first
      BY <1>1, <2>2 DEF FilesInv, NewPageInv, Copy
    <3>3. entries'[job.parent.first] = entries[job.parent.first]
      BY <1>7, <3>1, <3>2
    <3> QED BY <3>1, <3>3 DEF Enters
  <2>3. \A s \in Named(job'.page) :
            s \in Named(entries'[job'.inode.first]) /\ job'.page[s] = entries'[job'.inode.first][s]
    <3>1. entries'[job'.inode.first] = job.page
      BY <1>3, <1>4
    <3> QED BY <3>1
  <2> QED BY <1>1, <2>1, <2>2, <2>3 DEF StepInv
<1> QED BY <1>3, <1>4, <1>6, <1>7, <1>8, <1>10, <1>11, <1>12

LEMMA SaveDotEntered ==
    ASSUME IInv, Apart, FilesInv, EntriesInv, SaveDot, overwritten' = {}
    PROVE  EntriesInv'
<1> DEFINE b == job.inode.first
           i == job.inode.id
           e == [id |-> job.parent.id, name |-> ".."]
<1>1. /\ pc = "dot data" /\ pc' = "dotdot" /\ WriteBlock(b, job.page)
      /\ inodes' = inodes /\ data_bits' = data_bits /\ events' = events
      /\ job' = [job EXCEPT !.inode = AtLeast(@, 2), !.page[2] = e]
  BY DEF SaveDot, At, bitmaps
<1>2. job \in Jobs /\ job.inode \in Flat /\ job.page \in Pages /\ TypeInv
  BY DEF IInv, TypeInv, Jobs
<1>3. /\ job'.inode = AtLeast(job.inode, 2) /\ job'.parent = job.parent /\ job'.dir = job.dir
      /\ job'.page = [job.page EXCEPT ![2] = e]
  BY <1>1, <1>2 DEF Jobs
<1>4. job'.inode.id = i /\ job'.inode.first = b
  BY <1>2, <1>3, AtLeastTyped
<1>5. \A s \in Named(job'.page) : s \in Named(job.page) /\ job'.page[s] = job.page[s]
  <2> DEFINE page == job.page
             new == job'.page
  <2>1. \A s \in Slots : new[s] = IF s = 2 THEN e ELSE page[s]
    BY <1>2, <1>3 DEF Pages
  <2>2. e.name \notin Names
    BY NamesAssumption
  <2> HIDE DEF new, e, page
  <2>3. \A s \in Named(new) : s \in Named(page) /\ new[s] = page[s]
    BY <2>1, <2>2 DEF Named
  <2> QED BY <2>3 DEF new, page
<1>6. Remade = {} /\ Remade' = {i} /\ pc' \in ParentRead
  BY <1>1, <1>4 DEF Remade, ParentRead
<1>7. b = job.inode.first /\ i = job.inode.id
  OBVIOUS
<1> HIDE DEF b, i, e
<1>8. /\ FewerNames /\ PlaceInv' /\ EnteredInv' /\ StepInv'
      /\ \A k \in Directories : k # i => entries'[inodes[k].first] = entries[inodes[k].first]
  BY <1>1, <1>3, <1>4, <1>5, <1>6, <1>7, PageSavedEntered
<1>9. PlacesUnique' /\ ParentInv'
  <2>1. Directories' = Directories /\ Remade \subseteq Remade'
    BY <1>1, <1>6 DEF Directories, Written
  <2>2. \A k \in Directories \ Remade' :
            entries'[inodes[k].first][2].id = entries[inodes[k].first][2].id
    BY <1>6, <1>8
  <2>3. PlacesUnique /\ ParentInv
    BY DEF EntriesInv
  <2> QED BY <1>1, <1>2, <1>8, <2>1, <2>2, <2>3, NamesKept
<1> QED BY <1>8, <1>9 DEF EntriesInv

\* The directory that leads to the one that call makes again is its parent.
LEMMA LeadsToNew ==
    ASSUME TypeInv, Apart, DirectoryInv, PlacesUnique, NewPageInv, StepInv, pc \in ParentRead,
           job.dir.id # 0, NEW k \in Directories, NEW s \in Named(entries[inodes[k].first]),
           entries[inodes[k].first][s].id = job.dir.id
    PROVE  k = job.parent.id
<1>1. /\ job.parent.id \in Directories /\ job.parent.first = inodes[job.parent.id].first
      /\ Enters(job.parent, job.dir.id)
  BY DEF NewPageInv, Copy, StepInv
<1> DEFINE b == inodes[k].first
           c == job.parent.first
           d == job.dir.id
<1>2. PICK t \in Named(entries[c]) : entries[c][t].id = d
  BY <1>1 DEF Enters
<1>3. b \in Blocks /\ c \in Blocks
  BY <1>1 DEF Directories, Written, TypeInv, Flat, Inodes
<1>4. s \in Named(entries[b]) /\ entries[b][s].id = d /\ d # 0
  OBVIOUS
<1> HIDE DEF b, c, d
<1>5. b = c
  BY <1>2, <1>3, <1>4 DEF PlacesUnique
<1>6. inodes[k].first = inodes[job.parent.id].first
  BY <1>1, <1>5 DEF b, c
<1>7. k \in Written /\ job.parent.id \in Written /\ inodes[k].first # 0
  BY <1>1 DEF Directories, DirectoryInv
<1> QED BY <1>6, <1>7 DEF Apart

LEMMA SaveDotDotEntered ==
    ASSUME IInv, Apart, FilesInv, EntriesInv, SaveDotDot, overwritten' = {}
    PROVE  EntriesInv'
<1> DEFINE b == job.inode.first
           i == job.inode.id
<1>1. /\ pc = "dotdot data" /\ pc' = "directory" /\ WriteBlock(b, job.page) /\ job' = job
      /\ inodes' = inodes /\ data_bits' = data_bits /\ events' = events
  BY DEF SaveDotDot, At, bitmaps
<1>2. Remade = {i} /\ Remade' = {} /\ pc \in ParentRead /\ pc' \in ParentRead
  BY <1>1 DEF Remade, ParentRead
<1>3. /\ TypeInv /\ PlacesUnique /\ ParentInv /\ StepInv /\ DirectoryInv /\ NewPageInv
      /\ NewDirectoryInv
  BY DEF IInv, EntriesInv, FilesInv
<1>4. b = job.inode.first /\ i = job.inode.id
  OBVIOUS
<1> HIDE DEF b, i
<1>5. /\ FewerNames /\ PlaceInv' /\ EnteredInv' /\ StepInv' /\ b # 0 /\ entries'[b] = job.page
      /\ \A k \in Directories : inodes[k].first \in Blocks
      /\ \A k \in Directories : k # i => entries'[inodes[k].first] = entries[inodes[k].first]
  BY <1>1, <1>2, <1>4, PageSavedEntered
<1>6. PlacesUnique'
  BY <1>3, <1>5, NamesUnique
<1>7. ParentInv'
  <2>1. Directories' = Directories
    BY <1>1 DEF Directories, Written
  <2> SUFFICES ASSUME NEW k \in Directories, NEW s \in Named(entries'[inodes[k].first]),
                      NEW m \in Directories, m = entries'[inodes[k].first][s].id
               PROVE  entries'[inodes[m].first][2].id = k
    BY <1>1, <2>1 DEF ParentInv
  <2>2. s \in Named(entries[inodes[k].first]) /\ m = entries[inodes[k].first][s].id /\ s \in Slots
    BY <1>5 DEF FewerNames, Named
  <2>3. CASE m = i
    <3>1. i # 0 /\ inodes[i].type = "dir"
      BY <2>3 DEF Directories, Written
    <3>2. inodes[i].first = b /\ job.inode.type = "dir"
      BY <1>2, <1>3, <1>4, <3>1 DEF NewDirectoryInv
    <3>3. job.dir.id = i
      BY <1>2, <1>3, <1>4, <3>2 DEF NewPageInv
    <3>4. k = job.parent.id
      BY <1>2, <1>3, <2>2, <2>3, <3>1, <3>3, LeadsToNew
    <3>5. job.page[2].id = job.parent.id
      <4>1. pc # "dot data"
        BY <1>1
      <4>2. job.page[2] = [id |-> job.parent.id, name |-> ".."]
        BY <1>2, <1>3, <4>1 DEF NewPageInv
      <4> QED BY <4>2
    <3> QED BY <1>5, <2>3, <3>2, <3>4, <3>5
  <2>4. CASE m # i
    <3>1. entries[inodes[m].first][2].id = k
      BY <1>2, <1>3, <2>2, <2>4 DEF ParentInv
    <3> QED BY <1>5, <2>4, <3>1
  <2> QED BY <2>3, <2>4
<1> QED BY <1>5, <1>6, <1>7 DEF EntriesInv

\* The last write makes it a directory.
LEMMA WriteDirectoryEntered ==
    ASSUME IInv, Apart, FilesInv, EntriesInv, WriteDirectory
    PROVE  EntriesInv'
<1> DEFINE d == [job.dir EXCEPT !.type = "dir", !.size = 2]
           k == d.id
<1>1. /\ pc = "directory" /\ pc' = "idle" /\ inodes' = [inodes EXCEPT ![d.id] = d]
      /\ entries' = entries /\ data_bits' = data_bits /\ events' = events
  BY DEF WriteDirectory, WriteInode, At, bitmaps
<1>2. /\ Remade = {} /\ Cleared = {} /\ Cleared' = {} /\ pc \in ParentRead
      /\ pc \notin Entering /\ pc' \notin Entering /\ pc # "dot data"
  BY <1>1 DEF Remade, Cleared, ParentRead, Entering
<1>3. /\ TypeInv /\ PlacesUnique /\ PlaceInv /\ ParentInv /\ StepInv /\ EnteredInv
      /\ DirectoryInv /\ NewPageInv /\ NewDirectoryInv
  BY DEF IInv, EntriesInv, FilesInv
<1>4. job.dir \in Flat /\ d \in Flat /\ k = job.dir.id /\ d.first = job.dir.first
      /\ d.type = "dir" /\ k \in Ids
  <2>1. job.dir \in Flat
    BY <1>3 DEF TypeInv, Jobs
  <2> QED BY <2>1, Constants DEF Flat, Inodes
<1>5. \A j \in Ids : inodes'[j] = IF j = k THEN d ELSE inodes[j]
  BY <1>1, <1>3, <1>4 DEF TypeInv
<1>6. k # 0 => /\ k = job.inode.id /\ k \in Written /\ d.first = inodes[k].first
               /\ inodes[k].first = job.inode.first
               /\ inodes[k].type = job.inode.type
  <2> SUFFICES ASSUME k # 0
               PROVE  /\ k = job.inode.id /\ k \in Written /\ d.first = inodes[k].first
                      /\ inodes[k].first = job.inode.first
                      /\ inodes[k].type = job.inode.type
    OBVIOUS
  <2>1. k = job.inode.id /\ job.dir.first = job.inode.first
    BY <1>2, <1>3, <1>4 DEF NewPageInv
  <2>2. /\ k \in Written /\ inodes[k].first = job.inode.first
        /\ inodes[k].type = job.inode.type
    BY <1>2, <1>3, <2>1 DEF NewDirectoryInv
  <2> QED BY <1>4, <2>1, <2>2
<1>7. d.id = k
  OBVIOUS
<1> HIDE DEF d, k
<1>8. \A j \in Ids \ {0} : inodes'[j].id = inodes[j].id /\ inodes'[j].first = inodes[j].first
  BY <1>4, <1>5, <1>6, <1>7 DEF Written
<1>9. Written' = Written /\ \A j \in Written : inodes'[j].first = inodes[j].first
  BY <1>8 DEF Written
<1>10. Directories' \subseteq Directories \cup {k} /\ Directories \subseteq Directories'
  <2>1. \A j \in Ids : j # k => inodes'[j] = inodes[j]
    BY <1>5
  <2>2. k \in Directories => k \in Directories'
    BY <1>4, <1>5, <1>9 DEF Directories
  <2> QED BY <1>9, <2>1, <2>2 DEF Directories, Written
<1>11. PlacesUnique'
  <2>1. FewerNames
    BY <1>1 DEF FewerNames
  <2> QED BY <1>3, <2>1, NamesUnique
<1>12. PlaceInv'
  <2> SUFFICES ASSUME NEW c \in Blocks, NEW s \in Named(entries[c]),
                      NEW j, j = entries[c][s].id, j # 0
               PROVE  j \in Written /\ inodes'[j].first \in data_bits
    <3>1. entries' = entries /\ data_bits' = data_bits
      BY <1>1
    <3> QED BY <1>9, <3>1 DEF PlaceInv
  <2>1. j \in Written /\ inodes[j].first \in data_bits
    BY <1>2, <1>3 DEF PlaceInv
  <2> QED BY <1>9, <2>1
<1>13. EnteredInv'
  <2>1. entries' = entries /\ events' = events
    BY <1>1
  <2> QED BY <1>2, <1>3, <1>9, <2>1 DEF EnteredInv
<1>14. ParentInv'
  <2>1. entries' = entries
    BY <1>1
  <2>2. \A j \in Directories' : inodes'[j].first = inodes[j].first /\ j \in Written
    BY <1>9 DEF Directories
  <2> SUFFICES ASSUME NEW j \in Directories', NEW s \in Named(entries[inodes[j].first]),
                      NEW m \in Directories', m = entries[inodes[j].first][s].id
               PROVE  entries[inodes[m].first][2].id = j
    BY <2>1, <2>2 DEF ParentInv
  <2>3. j \in Directories
    <3> SUFFICES ASSUME j = k
                 PROVE  j \in Directories
      BY <1>10
    <3>1. k # 0 /\ k \in Written
      BY <2>2 DEF Written
    <3>2. entries[inodes[k].first] = job.page
      BY <1>1, <1>3, <1>2, <1>6, <3>1 DEF NewPageInv
    <3>3. job.inode.type = "dir"
      BY <1>2, <1>3, <3>2 DEF NewPageInv
    <3> QED BY <1>6, <3>1, <3>3 DEF Directories
  <2>4. CASE m = k
    <3>1. k # 0 /\ job.dir.id # 0
      BY <1>4, <2>2, <2>4 DEF Written
    <3>2. j = job.parent.id
      BY <1>2, <1>3, <1>4, <2>3, <2>4, <3>1, LeadsToNew
    <3>3. entries[inodes[k].first] = job.page /\ job.page[2].id = job.parent.id
      BY <1>1, <1>2, <1>3, <1>6, <3>1 DEF NewPageInv
    <3> QED BY <2>4, <3>2, <3>3
  <2>5. CASE m # k
    <3>1. m \in Directories /\ s \in Slots
      BY <1>10, <2>5 DEF Named
    <3> QED BY <1>2, <1>3, <2>3, <3>1 DEF ParentInv
  <2> QED BY <2>4, <2>5
<1>15. StepInv'
  <2>1. 0 \in data_bits'
    BY <1>1, <1>3 DEF StepInv
  <2> QED BY <1>1, <2>1, NoStep
<1> QED BY <1>11, <1>12, <1>13, <1>14, <1>15 DEF EntriesInv

LEMMA InitEntered ==
    ASSUME Init
    PROVE  EntriesInv
<1>1. /\ data_bits = 0 .. FirstDataBlock /\ pc = "idle"
      /\ inodes = [i \in Ids |-> IF i = Root THEN RootInode ELSE NoInode]
      /\ entries = [b \in Blocks |-> IF b = FirstDataBlock THEN WithDots(EmptyBlock, Root, Root)
                                     ELSE EmptyBlock]
  BY DEF Init
<1>2. \A b \in Blocks : Named(entries[b]) = {}
  <2> DEFINE page == WithDots(EmptyBlock, Root, Root)
             self == [id |-> Root, name |-> "."]
             up == [id |-> Root, name |-> ".."]
  <2>1. \A t \in Slots : page[t] = IF t = 1 THEN self ELSE IF t = 2 THEN up ELSE NoEntry
    BY Constants DEF WithDots, EmptyBlock
  <2>2. /\ self.name \notin Names /\ up.name \notin Names /\ NoEntry.name \notin Names
        /\ \A t \in Slots : EmptyBlock[t] = NoEntry
    BY NamesAssumption DEF NoEntry, EmptyBlock
  <2>3. \A b \in Blocks : entries[b] = IF b = FirstDataBlock THEN page ELSE EmptyBlock
    BY <1>1
  <2> HIDE DEF page, self, up
  <2> QED BY <2>1, <2>2, <2>3 DEF Named
<1>3. Written = {Root}
  <2>1. \A i \in Ids : inodes[i] = IF i = Root THEN RootInode ELSE NoInode
    BY <1>1
  <2>2. RootInode.id = Root /\ NoInode.id = 0 /\ Root \in Ids \ {0}
    BY Constants DEF RootInode, NoInode
  <2> QED BY <2>1, <2>2 DEF Written
<1>4. PlacesUnique /\ PlaceInv /\ EnteredInv
  BY <1>2, <1>3 DEF PlacesUnique, PlaceInv, EnteredInv
<1>5. ParentInv
  <2>1. Directories \subseteq {Root} /\ inodes[Root].first = FirstDataBlock
    BY <1>1, <1>3, Constants DEF Directories, RootInode
  <2> QED BY <1>2, <2>1, Constants DEF ParentInv
<1>6. StepInv
  <2>1. 0 \in data_bits
    BY <1>1, SizesAssumption
  <2> QED BY <1>1, <2>1 DEF StepInv, Before, Removing, ParentRead
<1> QED BY <1>4, <1>5, <1>6 DEF EntriesInv

LEMMA StutterEntered ==
    ASSUME EntriesInv, UNCHANGED vars
    PROVE  EntriesInv'
<1>1. UNCHANGED <<inode_bits, data_bits, inodes, entries, pc, job, events>>
  BY DEF vars, disk, bitmaps, memory, ghosts
<1>2. Written' = Written /\ Directories' = Directories /\ Remade' = Remade /\ Cleared' = Cleared
  BY <1>1 DEF Written, Directories, Remade, Cleared
<1>3. PlacesUnique' /\ PlaceInv' /\ EnteredInv'
  BY <1>1, <1>2 DEF EntriesInv, PlacesUnique, PlaceInv, EnteredInv
<1>4. ParentInv'
  BY <1>1, <1>2 DEF EntriesInv, ParentInv
<1>5. StepInv'
  BY <1>1 DEF EntriesInv, StepInv, Enters
<1> QED BY <1>3, <1>4, <1>5 DEF EntriesInv

LEMMA KeptIsFollowed == Kept => Followed
  BY DEF Kept, Followed, Ordinary, MadeAgain

LEMMA KeptBefore ==
    ASSUME events \subseteq events', Kept'
    PROVE  Kept
<1>1. CASE events' = {}
  BY <1>1 DEF Kept
<1>2. CASE events' = {"no slot"}
  <2>1. events = {} \/ events = {"no slot"}
    BY <1>2
  <2> QED BY <2>1 DEF Kept
<1>3. CASE events' = {"made again"}
  <2>1. events = {} \/ events = {"made again"}
    BY <1>3
  <2> QED BY <2>1 DEF Kept
<1> QED BY <1>1, <1>2, <1>3 DEF Kept

LEMMA NextEntered ==
    ASSUME IInv, SharedInv, KeptInv, MaxCreated + 2 < U32, [Next]_vars
    PROVE  KeptInv'
<1>1. CASE UNCHANGED vars
  <2>1. Kept' = Kept /\ overwritten' = overwritten
    BY <1>1 DEF vars, ghosts, Kept
  <2> QED BY <1>1, <2>1, StutterEntered DEF KeptInv
<1>2. CASE Next
  <2> SUFFICES ASSUME Kept', overwritten' = {}
               PROVE  EntriesInv'
    BY DEF KeptInv
  <2>1. Kept /\ RootKept /\ overwritten = {}
    BY <1>2, NextActs, KeptBefore, FollowedRootKept
  <2>2. EntriesInv /\ Followed
    BY <2>1, KeptIsFollowed DEF KeptInv
  <2>3. Apart /\ FilesInv
    BY <2>1, <2>2 DEF SharedInv
  <2>4. RemoveInv'
    <3>1. SharedInv'
      BY <2>2, NextShared DEF EntriesInv
    <3>2. Followed'
      <4>1. \/ events' = {} \/ events' = {"no slot"} \/ events' = {"made again"}
        BY DEF Kept
      <4>2. Ordinary' \/ events' = {"made again"}
        BY <4>1 DEF Ordinary, MadeAgain
      <4> QED BY <4>2 DEF Followed
    <3> QED BY <3>1, <3>2 DEF SharedInv, FilesInv
  <2>5. CASE fs_create_file
    BY <2>1, <2>2, <2>3, <2>5, SetInodeBitEntered, SetDataBitEntered, WriteNewInodeEntered,
       GrowthEntered, WriteParentEntered, WriteEntryEntered, update_superblockEntered
       DEF fs_create_file
  <2>6. CASE fs_make_dir
    <3>1. ASSUME NEW path \in SpecialPaths, MakeSpecial(path)
          PROVE  FALSE
      BY <3>1, MadeAgainLeaves
    <3> QED BY <2>1, <2>2, <2>3, <2>6, <3>1, MakeExistingEntered, MakeCreatedEntered,
               SaveDotEntered, WriteDotDotEntered, SaveDotDotEntered, WriteDirectoryEntered
               DEF fs_make_dir
  <2>7. CASE fs_delete_file
    <3>1. ~ReleaseBlock
      BY <2>3 DEF ReleaseBlock, At, FilesInv, RemoveInv
    <3> QED BY <2>1, <2>2, <2>3, <2>4, <2>7, <3>1, ClearDataEntered, ClearDataBitEntered,
               ClearInodeEntered, ClearInodeBitEntered, ClearEntryEntered, ShrinkParentEntered
               DEF fs_delete_file
  <2>8. CASE \/ \E p \in Paths : fs_change_dir(p)
             \/ \E path \in SpecialPaths : ChangeToSpecial(path)
    <3>1. /\ pc = "idle" /\ pc' = "idle" /\ entries' = entries /\ inodes' = inodes
          /\ data_bits' = data_bits /\ events' = events
      BY <2>8 DEF ChangeToSpecial, fs_change_dir, At, disk, bitmaps, ghosts
    <3> QED BY <2>2, <3>1, BetweenCallsEntered
  <2>9. CASE \E p \in Paths : \E new \in Names : fs_rename_file(p, new)
    BY <2>1, <2>2, <2>3, <2>9, RenameEntered
  <2>10. CASE Restart
    <3>1. /\ pc' = "idle" /\ entries' = entries /\ inodes' = inodes /\ data_bits' = data_bits
          /\ events' = events \cup (IF pc = "idle" THEN {} ELSE {job.call})
      BY <2>10 DEF Restart, disk, bitmaps
    <3>2. pc = "idle"
      <4> SUFFICES ASSUME pc # "idle"
                   PROVE  FALSE
        OBVIOUS
      <4>1. job.call \in Calls
        BY DEF IInv, FreeInv
      <4>2. job.call \in events'
        BY <3>1
      <4> QED BY <4>1, <4>2 DEF Kept, Calls
    <3> QED BY <2>2, <3>1, <3>2, BetweenCallsEntered
  <2> QED BY <1>2, <2>5, <2>6, <2>7, <2>8, <2>9, <2>10 DEF Next
<1> QED BY <1>1, <1>2

-----------------------------------------------------------------------------
(* What the disk holds                                                     *)

\* As long as fewer files are created than a directory's size can count, the
\* invariants of the disk hold through every sequence of calls and of stops.
THEOREM DiskInvariant ==
    ASSUME MaxCreated + 2 < U32
    PROVE  Spec => [](IInv /\ SharedInv /\ KeptInv)
<1>1. Init => IInv /\ SharedInv /\ KeptInv
  BY InitInv, InitShared, InitEntered DEF KeptInv
<1>2. IInv /\ SharedInv /\ KeptInv /\ [Next]_vars => (IInv /\ SharedInv /\ KeptInv)'
  <2> SUFFICES ASSUME IInv, SharedInv, KeptInv, [Next]_vars
               PROVE  IInv' /\ SharedInv' /\ KeptInv'
    OBVIOUS
  <2>1. Kept /\ overwritten = {} => ParentInv
    BY DEF KeptInv, EntriesInv
  <2> QED BY <2>1, NextInv, NextShared, NextEntered
<1> QED BY <1>1, <1>2, PTL DEF Spec

\* No two files have the same block, through every order of creating, making
\* directories, deleting and renaming, and wherever the machine stops in creating a
\* file or a directory (fs_create_file(), fs_make_dir(), fs_delete_file()), as long
\* as fewer files are created than a directory's size can count.
THEOREM BlocksOfFilesApart ==
    ASSUME MaxCreated + 2 < U32
    PROVE  Spec => []NoSharedBlocks
<1>1. IInv /\ SharedInv /\ KeptInv => NoSharedBlocks
  <2>1. Live \subseteq Written
    BY DEF Live, Written
  <2> QED BY <2>1 DEF SharedInv, NoSharedBlocks, Followed, Ordinary, Apart
<1> QED BY <1>1, DiskInvariant, PTL

\* What a directory enters between two calls is a file, whose bit is set, whose
\* inode is its own and whose block is allocated: the order of the writes in
\* fs_create_file(), fs_make_dir() and fs_delete_file() keeps that whatever
\* directory has no slot left, and whatever directory is made again.
THEOREM EntriesHaveInodes ==
    ASSUME MaxCreated + 2 < U32
    PROVE  Spec => []EntryHasInode
<1>1. IInv /\ SharedInv /\ KeptInv => EntryHasInode
  <2> SUFFICES ASSUME SharedInv, KeptInv, pc = "idle", overwritten = {}, Kept,
                      NEW q \in Places, NEW i, i = entries[q[1]][q[2]].id, i # 0
               PROVE  i \in Live /\ inodes[i].first \in data_bits
    BY DEF EntryHasInode, Kept
  <2>1. FilesInv /\ PlaceInv /\ Cleared = {}
    BY KeptIsFollowed DEF SharedInv, KeptInv, EntriesInv, Cleared
  <2>2. q[1] \in Blocks /\ q[2] \in Named(entries[q[1]])
    BY DEF Places, Named
  <2>3. i \in Written /\ inodes[i].first \in data_bits
    BY <2>1, <2>2 DEF PlaceInv
  <2> QED BY <2>1, <2>3 DEF FilesInv, DiskInv, Live, Written
<1> QED BY <1>1, DiskInvariant, PTL

\* No id is in two entries, also while a call runs: a file that is created takes an
\* id that is in none, and one that is deleted leaves its only entry
\* (fs_create_file(), fs_delete_file(), fs_rename_file()).
THEOREM IdsEnteredOnce ==
    ASSUME MaxCreated + 2 < U32
    PROVE  Spec => []UniqueUntilStopped
<1>1. IInv /\ SharedInv /\ KeptInv => UniqueUntilStopped
  <2> SUFFICES ASSUME KeptInv, overwritten = {}, Kept, NEW q \in Places, NEW r \in Places,
                      entries[q[1]][q[2]].id = entries[r[1]][r[2]].id,
                      entries[q[1]][q[2]].id # 0
               PROVE  q = r
    BY DEF UniqueUntilStopped, Kept
  <2>1. /\ q \in Blocks \X Slots /\ r \in Blocks \X Slots
        /\ q[2] \in Named(entries[q[1]]) /\ r[2] \in Named(entries[r[1]])
    BY DEF Places, Named
  <2>2. PlacesUnique
    BY DEF KeptInv, EntriesInv
  <2>3. q[1] = r[1] /\ q[2] = r[2]
    BY <2>1, <2>2 DEF PlacesUnique
  <2> QED BY <2>1, <2>3
<1> QED BY <1>1, DiskInvariant, PTL

\* Between two calls every file there is is entered in a directory, so that it can be
\* found and deleted, whichever slot fs_create_file() takes and fs_delete_file()
\* clears.
THEOREM FilesAreEntered ==
    ASSUME MaxCreated + 2 < U32
    PROVE  Spec => []EveryFileEntered
<1>1. IInv /\ SharedInv /\ KeptInv => EveryFileEntered
  <2> SUFFICES ASSUME KeptInv, pc = "idle", overwritten = {}, events = {},
                      NEW i \in Live \ {Root}
               PROVE  \E q \in Places : entries[q[1]][q[2]].id = i
    BY DEF EveryFileEntered
  <2>1. EnteredInv
    BY DEF KeptInv, EntriesInv, Kept
  <2>2. pc \notin Entering /\ i \in Written \ {Root}
    BY DEF Entering, Live, Written
  <2>3. PICK b \in Blocks : \E s \in Named(entries[b]) : entries[b][s].id = i
    BY <2>1, <2>2 DEF EnteredInv
  <2>4. PICK s \in Named(entries[b]) : entries[b][s].id = i
    BY <2>3
  <2>5. <<b, s>> \in Places
    BY DEF Places, Named
  <2> QED BY <2>4, <2>5
<1> QED BY <1>1, DiskInvariant, PTL

=============================================================================
