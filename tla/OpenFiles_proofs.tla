--------------------------- MODULE OpenFiles_proofs ---------------------------
(***************************************************************************)
(* Theorems about the calls on open files, for every number of files, size *)
(* of the tables, page size and set of lengths, offsets and flags.         *)
(***************************************************************************)
EXTENDS OpenFiles, FiniteSetTheorems, TLAPS

\* Remainders and quotients, as sizes and counts are computed with them.
LEMMA Division ==
    ASSUME NEW a \in Int, NEW n \in Nat \ {0}
    PROVE  /\ a % n \in 0 .. (n - 1)
           /\ a \in Nat => a \div n \in Nat
OBVIOUS

\* A file has a whole number of pages.
LEMMA PagesForNat ==
    ASSUME NEW n \in Nat
    PROVE  bytes_to_blocks(n) \in Nat /\ PagesFor(n) \in Nat
<1>1. n \div PageSize \in Nat
  BY Division, SizesAssumption
<1> QED BY <1>1 DEF bytes_to_blocks, PagesFor

\* A count kept in ref_count stays a uint8_t.
LEMMA U8Range ==
    ASSUME NEW x \in Int
    PROVE  U8(x) \in 0 .. (RefModulus - 1)
BY Division, SizesAssumption DEF U8

LEMMA U32Nat ==
    ASSUME NEW x \in Int
    PROVE  U32(x) \in Nat
<1>1. x % UintModulus \in 0 .. (UintModulus - 1) /\ UintModulus \in Nat
  BY Division, SizesAssumption
<1> QED BY <1>1 DEF U32

\* A search of the inode table that does not end at an entry of file f has
\* passed every entry: there is none.
LEMMA SearchMisses ==
    ASSUME NEW f \in Files, NEW found \in InodeSlot(f),
           open_inode_table[found].id # f
    PROVE  \A s \in InodeSlots : open_inode_table[s].id # f
<1> SUFFICES ASSUME NEW s \in InodeSlots, open_inode_table[s].id = f
             PROVE  FALSE
  OBVIOUS
<1>1. found = MaxOpenInodes
  BY DEF InodeSlot, SearchEnd
<1>2. MaxOpenInodes <= s
  BY <1>1 DEF InodeSlot, SearchEnd
<1>3. s = MaxOpenInodes
  BY <1>2, SizesAssumption DEF InodeSlots
<1> QED BY <1>1, <1>3

\* A search ends inside the table or at the slot that follows it.
LEMMA SearchInRange ==
    /\ \A f \in Files : InodeSlot(f) \subseteq InodeSlots
    /\ FreeInodeSlot \subseteq InodeSlots
    /\ FreeFdSlot \subseteq FdSlots
BY SizesAssumption DEF InodeSlot, FreeInodeSlot, FreeFdSlot, SearchEnd, InodeSlots, FdSlots

\* The inductive invariant.
IInv ==
    /\ TablesOK
    /\ next_page \in Nat
    /\ OneInodePerId
    /\ InodeCoherent

LEMMA InitIInv == Init => IInv
<1> SUFFICES ASSUME Init PROVE IInv
  OBVIOUS
<1>1. FreeInode \in Inodes /\ ClosedFile \in FileEntries
  BY SizesAssumption DEF FreeInode, ClosedFile, Inodes, FileEntries
<1>2. \A f \in DOMAIN OnDisk : f \in Files /\ OnDisk[f].size \in Nat /\ OnDisk[f].blocks \in Nat
  BY DiskAssumption
<1>3. TablesOK
  <2>1. open_file_table \in [FdSlots -> FileEntries] /\ open_inode_table \in [InodeSlots -> Inodes]
    BY <1>1 DEF Init
  <2>2. \A d \in FdSlots : ~IsOpen(d)
    BY DEF Init, IsOpen, ClosedFile
  <2>3. DOMAIN disk \subseteq Files
    BY <1>2 DEF Init
  <2>4. \A f \in DOMAIN disk : disk[f] \in Inodes /\ disk[f].id = f
    <3> SUFFICES ASSUME NEW f \in DOMAIN disk
                 PROVE  disk[f] \in Inodes /\ disk[f].id = f
      OBVIOUS
    <3>1. f \in DOMAIN OnDisk
      BY DEF Init
    <3>2. disk[f] = [id |-> f, size |-> OnDisk[f].size, ref_count |-> 0,
                     blocks |-> OnDisk[f].blocks]
      BY <3>1 DEF Init
    <3>3. 0 \in 0 .. (RefModulus - 1)
      BY SizesAssumption
    <3> QED BY <1>2, <3>1, <3>2, <3>3 DEF Inodes
  <2> QED BY <2>1, <2>2, <2>3, <2>4 DEF TablesOK
<1>4. OneInodePerId /\ InodeCoherent
  BY DEF Init, OneInodePerId, InodeCoherent, FreeInode
<1>5. next_page \in Nat
  BY DEF Init
<1> QED BY <1>3, <1>4, <1>5 DEF IInv

\* The inode on disk that open() works with is one of file f.
LEMMA OnDiskTyped ==
    ASSUME TablesOK, NEW f \in Files
    PROVE  LET i == IF Exists(f) THEN disk[f] ELSE NewInode(f)
           IN  i \in Inodes /\ i.id = f
<1>1. 0 \in 0 .. (RefModulus - 1)
  BY SizesAssumption
<1>2. NewInode(f) \in Inodes /\ NewInode(f).id = f
  BY <1>1 DEF NewInode, Inodes
<1> QED BY <1>2 DEF TablesOK, Exists

LEMMA OpenKeepsIInv ==
    ASSUME IInv, NEW f \in Files, NEW flags \in OpenFlags,
           NEW found \in InodeSlot(f), NEW free \in FreeInodeSlot, NEW fd \in FreeFdSlot,
           Open(f, flags, found, free, fd)
    PROVE  IInv'
<1> DEFINE onDisk == IF Exists(f) THEN disk[f] ELSE NewInode(f)
           slot == EntryFor(f, found, free)
           e == open_file_table'[fd]
<1>0. found \in InodeSlots /\ free \in InodeSlots /\ fd \in FdSlots /\ slot \in InodeSlots
  BY SearchInRange DEF EntryFor
<1>1. onDisk \in Inodes /\ onDisk.id = f
  BY OnDiskTyped DEF IInv
<1>2. open_inode_table' \in [InodeSlots -> Inodes]
  <2>1. open_inode_table' = InodeUsed(f, onDisk, found, free)
    BY DEF Open
  <2>2. U8(open_inode_table[found].ref_count + 1) \in 0 .. (RefModulus - 1)
    BY <1>0, U8Range, SizesAssumption DEF IInv, TablesOK, Inodes
  <2> QED BY <1>0, <1>1, <2>1, <2>2 DEF InodeUsed, IInv, TablesOK, Inodes
<1>3. open_file_table' \in [FdSlots -> FileEntries] /\ e.inode = slot
  <2> DEFINE size == InodeUsed(f, onDisk, found, free)[slot].size
  <2>1. size \in Nat
    BY <1>0, <1>2 DEF Open, Inodes
  <2>2. PagesFor(size) \in Nat
    BY <2>1, PagesForNat
  <2>3. flags \in SUBSET Flags
    BY FlagsAssumption
  <2> HIDE DEF size
  <2>4. open_file_table' = [open_file_table EXCEPT ![fd] =
              [address |-> next_page,
               offset |-> IF "O_APPEND" \in flags THEN size ELSE 0,
               inode |-> slot,
               ref_count |-> 1,
               flags |-> flags,
               pages_allocated |-> @.pages_allocated + PagesFor(size)]]
    BY DEF Open, size
  <2>5. open_file_table[fd].pages_allocated \in Nat /\ next_page \in Nat
    BY <1>0 DEF IInv, TablesOK, FileEntries
  <2> QED BY <1>0, <2>1, <2>2, <2>3, <2>4, <2>5 DEF IInv, TablesOK, FileEntries
<1>4. /\ DOMAIN disk' = DOMAIN disk \cup {f}
      /\ disk'[f] = onDisk
      /\ \A g \in DOMAIN disk : disk'[g] = disk[g]
  BY DEF Open, Exists
<1>5. \A d \in FdSlots : IsOpen(d)' => open_file_table'[d].inode \in InodeSlots
  <2> SUFFICES ASSUME NEW d \in FdSlots, IsOpen(d)'
               PROVE  open_file_table'[d].inode \in InodeSlots
    OBVIOUS
  <2>1. CASE d = fd
    BY <1>0, <1>3, <2>1
  <2>2. CASE d # fd
    <3>1. open_file_table'[d] = open_file_table[d]
      BY <1>0, <2>2 DEF Open, IInv, TablesOK
    <3> QED BY <3>1 DEF IsOpen, IInv, TablesOK
  <2> QED BY <2>1, <2>2
<1>6. TablesOK' /\ next_page' \in Nat
  <2> DEFINE size == InodeUsed(f, onDisk, found, free)[slot].size
  <2>1. size \in Nat
    BY <1>0, <1>2 DEF Open, Inodes
  <2>2. PagesFor(size) \in Nat
    BY <2>1, PagesForNat
  <2>3. next_page' = next_page + PagesFor(size)
    BY DEF Open
  <2> HIDE DEF size
  <2>4. next_page' \in Nat
    BY <2>2, <2>3 DEF IInv
  <2> QED BY <1>1, <1>2, <1>3, <1>4, <1>5, <2>4 DEF IInv, TablesOK
<1>7. CASE open_inode_table[found].id = f
  <2>1. open_inode_table' =
          [open_inode_table EXCEPT ![found].ref_count = U8(@ + 1)]
    BY <1>7 DEF Open, InodeUsed
  <2>2. \A s \in InodeSlots : /\ open_inode_table'[s].id = open_inode_table[s].id
                              /\ open_inode_table'[s].size = open_inode_table[s].size
                              /\ open_inode_table'[s].blocks = open_inode_table[s].blocks
    BY <1>0, <2>1 DEF IInv, TablesOK, Inodes
  <2>3. OneInodePerId'
    BY <2>2 DEF IInv, OneInodePerId
  <2>4. InodeCoherent'
    BY <1>4, <2>2 DEF IInv, InodeCoherent
  <2> QED BY <1>6, <2>3, <2>4 DEF IInv
<1>8. CASE open_inode_table[found].id # f
  <2>1. open_inode_table' = [open_inode_table EXCEPT ![free] = onDisk]
    BY <1>8 DEF Open, InodeUsed
  <2>2. \A s \in InodeSlots : open_inode_table[s].id # f
    BY <1>8, SearchMisses
  <2>3. /\ open_inode_table'[free] = onDisk
        /\ \A s \in InodeSlots \ {free} : open_inode_table'[s] = open_inode_table[s]
    BY <1>0, <2>1 DEF IInv, TablesOK
  <2>4. OneInodePerId'
    BY <1>0, <1>1, <2>2, <2>3 DEF IInv, OneInodePerId
  <2>5. InodeCoherent'
    BY <1>0, <1>1, <1>4, <2>2, <2>3 DEF IInv, InodeCoherent
  <2> QED BY <1>6, <2>4, <2>5 DEF IInv
<1> QED BY <1>7, <1>8

\* A cleared entry of the inode table is nobody's.
LEMMA CloseKeepsIInv ==
    ASSUME IInv, NEW fd \in FdSlots, syscall_close(fd)
    PROVE  IInv'
<1> DEFINE s == open_file_table[fd].inode
           i == open_inode_table'[s]
<1>1. s \in InodeSlots /\ IsOpen(fd)
  BY DEF syscall_close, IInv, TablesOK
<1>2. /\ i \in Inodes
      /\ i.id \in {0, open_inode_table[s].id}
      /\ i.id # 0 => i.size = open_inode_table[s].size /\ i.blocks = open_inode_table[s].blocks
  <2>1. open_inode_table[s] \in Inodes
    BY <1>1 DEF IInv, TablesOK
  <2>2. U8(open_inode_table[s].ref_count - 1) \in 0 .. (RefModulus - 1)
    BY <2>1, U8Range, SizesAssumption DEF Inodes
  <2>3. FreeInode \in Inodes
    BY SizesAssumption DEF FreeInode, Inodes
  <2>4. i \in {FreeInode, [open_inode_table[s] EXCEPT
                              !.ref_count = U8(open_inode_table[s].ref_count - 1)]}
    BY <1>1 DEF syscall_close, InodeOf, IInv, TablesOK
  <2> QED BY <2>1, <2>2, <2>3, <2>4 DEF Inodes, FreeInode
<1>3. /\ \A t \in InodeSlots \ {s} : open_inode_table'[t] = open_inode_table[t]
      /\ DOMAIN open_inode_table' = InodeSlots
      /\ open_inode_table' = [open_inode_table EXCEPT ![s] = i]
  BY <1>1 DEF syscall_close, IInv, TablesOK
<1>4. /\ open_file_table' = [open_file_table EXCEPT ![fd] = ClosedFile]
      /\ ClosedFile \in FileEntries
      /\ disk' = disk
  BY DEF syscall_close, ClosedFile, FileEntries
<1>5. TablesOK'
  <2>1. \A d \in FdSlots : IsOpen(d)' => open_file_table'[d].inode \in InodeSlots
    BY <1>4 DEF IsOpen, ClosedFile, IInv, TablesOK
  <2>2. open_inode_table' \in [InodeSlots -> Inodes]
    BY <1>2, <1>3 DEF IInv, TablesOK
  <2> QED BY <1>4, <2>1, <2>2 DEF IInv, TablesOK
<1>6. OneInodePerId'
  BY <1>1, <1>2, <1>3 DEF IInv, OneInodePerId
<1>7. InodeCoherent'
  BY <1>1, <1>2, <1>3, <1>4 DEF IInv, InodeCoherent
<1>8. next_page' \in Nat
  BY DEF syscall_close, IInv
<1> QED BY <1>5, <1>6, <1>7, <1>8 DEF IInv

\* Changing the offset of an open descriptor disturbs nothing else.
LEMMA OffsetKeepsIInv ==
    ASSUME IInv, NEW fd \in FdSlots, NEW offset \in Nat,
           open_file_table' = [open_file_table EXCEPT ![fd].offset = offset],
           UNCHANGED <<open_inode_table, disk, next_page>>
    PROVE  IInv'
<1>1. open_file_table' \in [FdSlots -> FileEntries]
  BY DEF IInv, TablesOK, FileEntries
<1>2. \A d \in FdSlots : /\ open_file_table'[d].ref_count = open_file_table[d].ref_count
                         /\ open_file_table'[d].inode = open_file_table[d].inode
  BY DEF IInv, TablesOK, FileEntries
<1>3. TablesOK'
  BY <1>1, <1>2 DEF IInv, TablesOK, IsOpen
<1>4. OneInodePerId' /\ InodeCoherent' /\ next_page' \in Nat
  BY DEF IInv, OneInodePerId, InodeCoherent
<1> QED BY <1>3, <1>4 DEF IInv

\* What write() computes from an open descriptor is in range, and the size it
\* leaves is no smaller than the one it found.
LEMMA WriteRange ==
    ASSUME IInv, NEW fd \in FdSlots, IsOpen(fd), NEW len \in Lengths
    PROVE  /\ WriteOffset(fd) \in Nat
           /\ PagesAdded(fd) \in Nat
           /\ SizeAfter(fd, len) \in Nat
           /\ InodeOf(fd).size \in Nat
           /\ SizeAfter(fd, len) >= InodeOf(fd).size
<1>1. InodeOf(fd).size \in Nat /\ open_file_table[fd].offset \in Nat
  BY DEF IInv, TablesOK, InodeOf, Inodes, FileEntries
<1>2. WriteOffset(fd) \in Nat
  BY <1>1 DEF WriteOffset
<1>3. Gap(fd) \in Nat
  <2>1. U32(WriteOffset(fd) - InodeOf(fd).size) \in Nat
    BY <1>1, <1>2, U32Nat
  <2> QED BY <2>1 DEF Gap
<1>4. PagesAdded(fd) \in Nat
  <2>1. PagesFor(Gap(fd)) \in Nat
    BY <1>3, PagesForNat
  <2> QED BY <2>1 DEF PagesAdded
<1>5. len \in Nat
  BY SizesAssumption
<1>6. SizeAfter(fd, len) \in Nat /\ SizeAfter(fd, len) >= InodeOf(fd).size
  BY <1>1, <1>2, <1>5 DEF SizeAfter
<1> QED BY <1>1, <1>2, <1>4, <1>6

LEMMA WriteKeepsIInv ==
    ASSUME IInv, NEW fd \in FdSlots, NEW len \in Lengths, syscall_write(fd, len)
    PROVE  /\ IInv'
           /\ \A f \in DOMAIN disk : f \in DOMAIN disk' /\ disk'[f].size >= disk[f].size
<1> DEFINE s == open_file_table[fd].inode
           old == open_inode_table[s]
           new == [old EXCEPT !.size = SizeAfter(fd, len)]
<1>1. IsOpen(fd) /\ s \in InodeSlots
  BY DEF syscall_write, Writing, Writable, IInv, TablesOK
<1>2. /\ WriteOffset(fd) \in Nat /\ PagesAdded(fd) \in Nat
      /\ SizeAfter(fd, len) \in Nat /\ SizeAfter(fd, len) >= old.size
  BY <1>1, WriteRange DEF InodeOf
<1>3. /\ new \in Inodes
      /\ new.id = old.id /\ new.size = SizeAfter(fd, len) /\ new.blocks = old.blocks
      /\ old \in Inodes
  BY <1>1, <1>2 DEF IInv, TablesOK, Inodes
<1>4. /\ open_inode_table' = [open_inode_table EXCEPT ![s] = new]
      /\ disk' = InodeWritten(new)
  BY DEF syscall_write, InodeOf
<1> HIDE DEF new
<1>5. /\ open_inode_table' \in [InodeSlots -> Inodes]
      /\ open_inode_table'[s] = new
      /\ \A t \in InodeSlots \ {s} : open_inode_table'[t] = open_inode_table[t]
  BY <1>1, <1>3, <1>4 DEF IInv, TablesOK
<1>6. /\ DOMAIN disk' = DOMAIN disk
      /\ \A f \in DOMAIN disk : disk'[f] = IF f = new.id THEN new ELSE disk[f]
  BY <1>4 DEF InodeWritten
<1>7. next_page' \in Nat
  <2>1. next_page' = next_page + PagesAdded(fd)
    BY DEF syscall_write
  <2> QED BY <1>2, <2>1 DEF IInv
<1>8. open_file_table' \in [FdSlots -> FileEntries]
  <2>1. WriteOffset(fd) + len \in Nat
    BY <1>2, SizesAssumption
  <2>2. open_file_table[fd].pages_allocated + PagesAdded(fd) \in Nat
    BY <1>2 DEF IInv, TablesOK, FileEntries
  <2>3. open_file_table' = [open_file_table EXCEPT
              ![fd].offset = WriteOffset(fd) + len,
              ![fd].pages_allocated = @ + PagesAdded(fd)]
    BY DEF syscall_write
  <2>4. open_file_table[fd] \in FileEntries
    BY DEF IInv, TablesOK
  <2>5. open_file_table'[fd] \in FileEntries
    BY <2>1, <2>2, <2>3, <2>4 DEF IInv, TablesOK, FileEntries
  <2>6. \A d \in FdSlots \ {fd} : open_file_table'[d] = open_file_table[d]
    BY <2>3 DEF IInv, TablesOK
  <2>7. open_file_table' = [d \in FdSlots |-> open_file_table'[d]]
    BY <2>3 DEF IInv, TablesOK
  <2> QED BY <2>5, <2>6, <2>7 DEF IInv, TablesOK
<1>9. \A d \in FdSlots : /\ open_file_table'[d].ref_count = open_file_table[d].ref_count
                         /\ open_file_table'[d].inode = open_file_table[d].inode
  BY DEF syscall_write, IInv, TablesOK, FileEntries
<1>10. TablesOK'
  <2>1. \A d \in FdSlots : IsOpen(d)' => open_file_table'[d].inode \in InodeSlots
    BY <1>9 DEF IsOpen, IInv, TablesOK
  <2>2. \A f \in DOMAIN disk' : disk'[f] \in Inodes /\ disk'[f].id = f
    BY <1>3, <1>6 DEF IInv, TablesOK
  <2> QED BY <1>5, <1>6, <1>8, <2>1, <2>2 DEF IInv, TablesOK
<1>11. OneInodePerId'
  BY <1>1, <1>3, <1>5 DEF IInv, OneInodePerId
<1>12. InodeCoherent'
  <2> SUFFICES ASSUME NEW t \in InodeSlots, open_inode_table'[t].id # 0
               PROVE  LET i == open_inode_table'[t]
                      IN  /\ i.id \in DOMAIN disk'
                          /\ i.size = disk'[i.id].size
                          /\ i.blocks = disk'[i.id].blocks
    BY DEF InodeCoherent
  <2>1. CASE t = s
    <3>1. old.id # 0 /\ old.id \in DOMAIN disk
      BY <1>1, <1>3, <1>5, <2>1 DEF IInv, InodeCoherent
    <3> QED BY <1>3, <1>5, <1>6, <2>1, <3>1
  <2>2. CASE t # s
    <3>1. open_inode_table'[t] = open_inode_table[t]
      BY <1>5, <2>2
    <3>2. open_inode_table[t].id # new.id
      BY <1>1, <1>3, <2>2, <3>1 DEF IInv, OneInodePerId
    <3> QED BY <1>6, <3>1, <3>2 DEF IInv, InodeCoherent
  <2> QED BY <2>1, <2>2
<1>13. \A f \in DOMAIN disk : f \in DOMAIN disk' /\ disk'[f].size >= disk[f].size
  <2> SUFFICES ASSUME NEW f \in DOMAIN disk
               PROVE  disk'[f].size >= disk[f].size
    BY <1>6
  <2>1. disk[f].size \in Nat /\ f # 0
    BY SizesAssumption DEF IInv, TablesOK, Inodes
  <2>2. CASE f = new.id
    <3>1. old.size = disk[f].size
      BY <1>1, <1>3, <2>1, <2>2 DEF IInv, InodeCoherent
    <3> QED BY <1>2, <1>3, <1>6, <2>1, <2>2, <3>1
  <2>3. CASE f # new.id
    BY <1>6, <2>1, <2>3
  <2> QED BY <2>2, <2>3
<1> QED BY <1>7, <1>10, <1>11, <1>12, <1>13 DEF IInv

\* Every step keeps the invariant and cuts no file short.
LEMMA StepKeepsIInv ==
    ASSUME IInv, [Next]_vars
    PROVE  /\ IInv'
           /\ \A f \in DOMAIN disk : f \in DOMAIN disk' /\ disk'[f].size >= disk[f].size
<1> USE DEF tables, pages
<1>1. \A f \in DOMAIN disk : disk[f].size \in Nat
  BY DEF IInv, TablesOK, Inodes
<1>2. ASSUME UNCHANGED <<open_file_table, open_inode_table, disk, next_page>>
      PROVE  IInv'
  BY <1>2 DEF IInv, TablesOK, OneInodePerId, InodeCoherent, IsOpen
<1>3. CASE UNCHANGED vars
  BY <1>1, <1>2, <1>3 DEF vars
<1>4. ASSUME NEW f \in Files, NEW flags \in OpenFlags, syscall_open(f, flags)
      PROVE  /\ IInv'
             /\ \A g \in DOMAIN disk : g \in DOMAIN disk' /\ disk'[g].size >= disk[g].size
  <2>1. PICK found \in InodeSlot(f), free \in FreeInodeSlot, fd \in FreeFdSlot :
           Open(f, flags, found, free, fd)
    BY <1>4 DEF syscall_open
  <2>2. IInv'
    BY <2>1, OpenKeepsIInv
  <2>3. \A g \in DOMAIN disk : g \in DOMAIN disk' /\ disk'[g] = disk[g]
    BY <2>1 DEF Open, Exists
  <2> QED BY <1>1, <2>2, <2>3
<1>5. ASSUME NEW f \in Files, NEW flags \in OpenFlags, OpenRefused(f, flags)
      PROVE  IInv' /\ disk' = disk
  BY <1>2, <1>5 DEF OpenRefused
<1>6. ASSUME NEW fd \in FdSlots, syscall_close(fd)
      PROVE  IInv' /\ disk' = disk
  <2>1. IInv'
    BY <1>6, CloseKeepsIInv
  <2> QED BY <1>6, <2>1 DEF syscall_close
<1>7. ASSUME NEW fd \in FdSlots, AccessRefused(fd)
      PROVE  IInv' /\ disk' = disk
  BY <1>2, <1>7 DEF AccessRefused
<1>13. ASSUME shell
       PROVE  IInv' /\ disk' = disk
  <2>1. next_page' \in Nat
    BY <1>13 DEF shell
  <2> QED BY <1>13, <2>1 DEF shell, IInv, TablesOK, OneInodePerId, InodeCoherent, IsOpen
<1>8. ASSUME NEW fd \in FdSlots, NEW len \in Lengths,
             \/ ReadRunsAway(fd, len) \/ ReadFaults(fd, len)
             \/ WriteRunsAway(fd, len) \/ WriteFaults(fd, len)
      PROVE  IInv' /\ disk' = disk
  BY <1>2, <1>8 DEF ReadRunsAway, ReadFaults, WriteRunsAway, WriteFaults, Stops
<1>9. ASSUME NEW fd \in FdSlots, NEW len \in Lengths, syscall_read(fd, len)
      PROVE  IInv' /\ disk' = disk
  <2> DEFINE offset == open_file_table[fd].offset + ReadCount(fd, len)
  <2>1. IsOpen(fd)
    BY <1>9 DEF syscall_read, Readable
  <2>2. open_file_table[fd].offset \in Nat /\ InodeOf(fd).size \in Nat /\ len \in Nat
    BY <2>1, SizesAssumption DEF IInv, TablesOK, FileEntries, InodeOf, Inodes
  <2>3. U32(InodeOf(fd).size - open_file_table[fd].offset) \in Nat
    BY <2>2, U32Nat
  <2>4. offset \in Nat
    BY <2>2, <2>3 DEF ReadCount
  <2>5. open_file_table' = [open_file_table EXCEPT ![fd].offset = offset]
    BY <1>9 DEF syscall_read
  <2>6. UNCHANGED <<open_inode_table, disk, next_page>>
    BY <1>9 DEF syscall_read
  <2> HIDE DEF offset
  <2> QED BY <2>4, <2>5, <2>6, OffsetKeepsIInv
<1>10. ASSUME NEW fd \in FdSlots, NEW len \in Lengths, syscall_write(fd, len)
       PROVE  /\ IInv'
              /\ \A f \in DOMAIN disk : f \in DOMAIN disk' /\ disk'[f].size >= disk[f].size
  BY <1>10, WriteKeepsIInv
<1>11. ASSUME NEW fd \in FdSlots, NEW position \in Int, Positioned(fd, position)
       PROVE  IInv' /\ disk' = disk
  <2> DEFINE offset == IF position < 0 THEN 0 ELSE position
  <2>1. offset \in Nat
    OBVIOUS
  <2>2. /\ open_file_table' = [open_file_table EXCEPT ![fd].offset = offset]
        /\ UNCHANGED <<open_inode_table, disk, next_page>>
    BY <1>11 DEF Positioned
  <2> HIDE DEF offset
  <2> QED BY <2>1, <2>2, OffsetKeepsIInv
<1>12. ASSUME NEW fd \in FdSlots, NEW shift \in SeekOffsets, syscall_seek(fd, shift)
       PROVE  IInv' /\ disk' = disk
  <2>1. shift \in Int
    BY SizesAssumption
  <2>2. open_file_table[fd].offset \in Nat
    BY DEF IInv, TablesOK, FileEntries
  <2>3. CASE SeekSet(fd, shift)
    BY <1>11, <2>1, <2>3 DEF SeekSet
  <2>4. CASE SeekCur(fd, shift)
    <3>1. open_file_table[fd].offset + shift \in Int
      BY <2>1, <2>2
    <3> QED BY <1>11, <2>4, <3>1 DEF SeekCur
  <2>5. CASE SeekEnd(fd, shift)
    <3>1. InodeOf(fd).size + shift \in Int
      BY <2>1, <2>5 DEF SeekEnd, IInv, TablesOK, InodeOf, Inodes
    <3> QED BY <1>11, <2>5, <3>1 DEF SeekEnd
  <2> QED BY <1>12, <2>3, <2>4, <2>5 DEF syscall_seek
<1> QED
  <2>1. disk' = disk => \A f \in DOMAIN disk : f \in DOMAIN disk' /\ disk'[f].size >= disk[f].size
    BY <1>1
  <2> QED BY <1>3, <1>4, <1>5, <1>6, <1>7, <1>8, <1>9, <1>10, <1>12, <1>13, <2>1 DEF Next

\* The inductive invariant holds in every state (the calls of syscalls.h).
THEOREM Invariant == Spec => []IInv
<1>1. Init => IInv
  BY InitIInv
<1>2. IInv /\ [Next]_vars => IInv'
  BY StepKeepsIInv
<1> QED BY <1>1, <1>2, PTL DEF Spec

\* However a program opens, writes and closes files, in tables of any size, no
\* file ever has two entries of the open inode table (open(), syscalls.h:253-296).
THEOREM OneEntryPerFile == Spec => []OneInodePerId
<1>1. IInv => OneInodePerId
  BY DEF IInv
<1> QED BY <1>1, Invariant, PTL

\* The open inode table and the inodes on disk always agree on a file's size and
\* extent (write(), syscalls.h:208-223).
THEOREM TableAgreesWithDisk == Spec => []InodeCoherent
<1>1. IInv => InodeCoherent
  BY DEF IInv
<1> QED BY <1>1, Invariant, PTL

\* No call ever shortens a file on disk (write(), syscalls.h:208-223).
THEOREM NoFileIsCut == Spec => SizeNeverShrinks
<1>1. IInv /\ [Next]_vars =>
         [\A f \in DOMAIN disk : f \in DOMAIN disk' /\ disk'[f].size >= disk[f].size]_vars
  BY StepKeepsIInv
<1> QED BY <1>1, Invariant, PTL DEF Spec, SizeNeverShrinks

-----------------------------------------------------------------------------
(* The pages of files: the invariant of the file area, which the calls keep *)
(* together with IInv.                                                     *)

FrameUsers == {p \in Pages : page_table[p] = "frame"}

PagesTyped ==
    /\ next_page \in 1 .. (LastPage + 1)
    /\ page_table \in [Pages -> {"none", "frame", "zero"}]
    /\ free_frames \in Nat
    /\ left \subseteq FdSlots /\ exits \in 0 .. MaxExits
    /\ halted \in BOOLEAN

\* The page an open descriptor begins with is none of those that are taken
\* next, unless an earlier program left it open; it is never the null address.
BasesTaken ==
    \A d \in FdSlots : IsOpen(d) =>
        /\ open_file_table[d].address \in Nat \ {0}
        /\ d \notin left => open_file_table[d].address < next_page

PInv == PagesTyped /\ NoDoubleFree /\ BasesTaken /\ BasesDistinct

\* Also an empty file is given a page.
LEMMA PagesForPositive ==
    ASSUME NEW n \in Nat
    PROVE  PagesFor(n) \in Nat /\ PagesFor(n) >= 1
BY PagesForNat DEF PagesFor

LEMMA PagesFinite == IsFiniteSet(Pages) /\ \A ps \in SUBSET Pages : IsFiniteSet(ps) /\ Cardinality(ps) \in Nat
<1>1. IsFiniteSet(Pages)
  BY FS_Interval, SizesAssumption DEF Pages
<1> QED BY <1>1, FS_Subset, FS_CardinalityType

\* allocate_blocks() for n pages takes a free block for each page it maps to
\* one.
LEMMA MappedCount ==
    ASSUME PagesTyped, NoDoubleFree, NEW n \in Nat
    PROVE  /\ Mapped(n) \in [Pages -> {"none", "frame", "zero"}]
           /\ FramesAfter(n) \in Nat
           /\ FramesAfter(n) + Cardinality({p \in Pages : Mapped(n)[p] = "frame"}) <= Frames
<1> DEFINE k == IF n < free_frames THEN n ELSE free_frames
           new == next_page .. (next_page + k - 1)
           used == {p \in Pages : Mapped(n)[p] = "frame"}
<1>1. free_frames \in Nat /\ k \in Nat /\ next_page \in Int /\ Frames \in Nat
  BY SizesAssumption DEF PagesTyped
<1>2. FramesAfter(n) = free_frames - k
  BY <1>1 DEF FramesAfter
<1>3. used \subseteq FrameUsers \cup new
  <2> SUFFICES ASSUME NEW p \in Pages, Mapped(n)[p] = "frame", p \notin FrameUsers
               PROVE  p \in new
    OBVIOUS
  <2>1. p \in Int
    BY DEF Pages
  <2>2. p \in next_page .. (next_page + n - 1) /\ p - next_page < free_frames
    BY DEF Mapped, FrameUsers
  <2> QED BY <1>1, <2>1, <2>2
<1>4. IsFiniteSet(new) /\ Cardinality(new) = k
  BY <1>1, FS_Interval
<1>5. IsFiniteSet(FrameUsers) /\ Cardinality(FrameUsers) \in Nat
  BY PagesFinite DEF FrameUsers
<1> HIDE DEF k, new
<1>6. IsFiniteSet(FrameUsers \cup new)
      /\ Cardinality(FrameUsers \cup new) <= Cardinality(FrameUsers) + k
  <2>1. Cardinality(FrameUsers \cap new) \in Nat
    BY <1>5, FS_Intersection, FS_CardinalityType
  <2>2. IsFiniteSet(FrameUsers \cup new)
        /\ Cardinality(FrameUsers \cup new) =
              Cardinality(FrameUsers) + Cardinality(new) - Cardinality(FrameUsers \cap new)
    BY <1>4, <1>5, FS_Union
  <2> QED BY <1>1, <1>4, <1>5, <2>1, <2>2
<1>7. Cardinality(used) <= Cardinality(FrameUsers) + k /\ Cardinality(used) \in Nat
  <2>1. IsFiniteSet(used) /\ Cardinality(used) \in Nat
    BY PagesFinite
  <2>2. Cardinality(used) <= Cardinality(FrameUsers \cup new)
    BY <1>3, <1>6, FS_Subset
  <2>3. Cardinality(FrameUsers \cup new) \in Nat
    BY <1>6, FS_CardinalityType
  <2> QED BY <1>1, <1>5, <1>6, <2>1, <2>2, <2>3
<1>8. free_frames + Cardinality(FrameUsers) <= Frames
  BY DEF NoDoubleFree, FrameUsers
<1>9. Mapped(n) \in [Pages -> {"none", "frame", "zero"}]
  BY DEF Mapped, PagesTyped
<1>10. FramesAfter(n) \in Nat
  BY <1>1, <1>2 DEF k
<1>11. FramesAfter(n) + Cardinality(used) <= Frames
  BY <1>1, <1>2, <1>5, <1>7, <1>8
<1> QED BY <1>9, <1>10, <1>11

\* page_fault_handler() takes a free block for each page that faults.
LEMMA FaultCount ==
    ASSUME NEW map \in [Pages -> {"none", "frame", "zero"}], NEW frames \in Nat,
           frames + Cardinality({p \in Pages : map[p] = "frame"}) <= Frames,
           NEW ps \in SUBSET Pages, Cardinality(Faults(map, ps)) <= frames
    PROVE  LET faults == Faults(map, ps)
               after == [p \in Pages |-> IF p \in faults THEN "frame" ELSE map[p]]
           IN  /\ after \in [Pages -> {"none", "frame", "zero"}]
               /\ frames - Cardinality(faults) \in Nat
               /\ frames - Cardinality(faults)
                    + Cardinality({p \in Pages : after[p] = "frame"}) <= Frames
<1> DEFINE faults == Faults(map, ps)
           after == [p \in Pages |-> IF p \in faults THEN "frame" ELSE map[p]]
           used == {p \in Pages : map[p] = "frame"}
<1>1. faults \in SUBSET Pages /\ IsFiniteSet(faults) /\ Cardinality(faults) \in Nat
  BY PagesFinite DEF Faults
<1>2. IsFiniteSet(used) /\ Cardinality(used) \in Nat
  BY PagesFinite
<1>3. {p \in Pages : after[p] = "frame"} = used \cup faults
  BY <1>1 DEF Faults
<1>4. used \cap faults = {}
  BY DEF Faults
<1> HIDE DEF faults, used, after
<1>5. Cardinality(used \cup faults) = Cardinality(used) + Cardinality(faults)
  <2>1. Cardinality(used \cap faults) = 0
    BY <1>4, FS_EmptySet
  <2>2. Cardinality(used \cup faults) =
           Cardinality(used) + Cardinality(faults) - Cardinality(used \cap faults)
    BY <1>1, <1>2, FS_Union
  <2> QED BY <1>1, <1>2, <2>1, <2>2
<1>6. frames + Cardinality(used) <= Frames
  BY DEF used
<1>7. Frames \in Nat /\ Cardinality(faults) <= frames
  BY SizesAssumption DEF faults
<1>8. after \in [Pages -> {"none", "frame", "zero"}]
  BY DEF after
<1>9. frames - Cardinality(faults) \in Nat
      /\ frames - Cardinality(faults) + Cardinality(used \cup faults) <= Frames
  BY <1>1, <1>2, <1>5, <1>6, <1>7
<1>10. frames - Cardinality(faults)
         + Cardinality({p \in Pages : after[p] = "frame"}) <= Frames
  BY <1>3, <1>9 DEF after, faults, used
<1> QED BY <1>8, <1>9, <1>10 DEF faults, after

\* Steps that leave who is open where, and take pages only from the front of
\* the file area, keep the descriptors apart.
LEMMA BasesKept ==
    ASSUME PInv, next_page' \in Nat, next_page' >= next_page,
           \A d \in FdSlots :
               IsOpen(d)' => /\ IsOpen(d)
                             /\ d \in left => d \in left'
                             /\ open_file_table'[d].address = open_file_table[d].address
    PROVE  BasesTaken' /\ BasesDistinct'
<1>1. next_page \in Nat
  BY DEF PInv, PagesTyped
<1>2. BasesTaken'
  BY <1>1 DEF PInv, BasesTaken
<1>3. BasesDistinct'
  BY DEF PInv, BasesDistinct
<1> QED BY <1>2, <1>3

LEMMA InitPInv == Init => PInv
<1> SUFFICES ASSUME Init PROVE PInv
  OBVIOUS
<1>1. PagesTyped
  <2>1. 1 \in 1 .. (LastPage + 1) /\ Frames \in Nat /\ 0 \in 0 .. MaxExits
    BY SizesAssumption
  <2>2. page_table \in [Pages -> {"none", "frame", "zero"}]
    BY DEF Init
  <2> QED BY <2>1, <2>2 DEF Init, PagesTyped
<1>2. \A d \in FdSlots : ~IsOpen(d)
  BY DEF Init, IsOpen, ClosedFile
<1>3. NoDoubleFree
  <2>1. {p \in Pages : page_table[p] = "frame"} = {}
    BY DEF Init
  <2>2. Cardinality({}) = 0 /\ free_frames = Frames /\ Frames \in Nat
    BY FS_EmptySet, SizesAssumption DEF Init
  <2> QED BY <2>1, <2>2 DEF NoDoubleFree
<1> QED BY <1>1, <1>2, <1>3 DEF PInv, BasesTaken, BasesDistinct

LEMMA OpenKeepsPInv ==
    ASSUME IInv, PInv, IInv', NEW f \in Files, NEW flags \in OpenFlags,
           NEW found \in InodeSlot(f), NEW free \in FreeInodeSlot, NEW fd \in FreeFdSlot,
           Open(f, flags, found, free, fd)
    PROVE  PInv'
<1> DEFINE onDisk == IF Exists(f) THEN disk[f] ELSE NewInode(f)
           slot == EntryFor(f, found, free)
           n == PagesFor(InodeUsed(f, onDisk, found, free)[slot].size)
<1>1. n \in Nat /\ n >= 1
  <2>1. slot \in InodeSlots
    BY SearchInRange DEF EntryFor
  <2>2. open_inode_table' = InodeUsed(f, onDisk, found, free)
    BY DEF Open
  <2>3. open_inode_table'[slot].size \in Nat
    BY <2>1 DEF IInv, TablesOK, Inodes
  <2> QED BY <2>2, <2>3, PagesForPositive
<1>2. /\ next_page + n - 1 <= LastPage
      /\ next_page' = next_page + n
      /\ page_table' = Mapped(n)
      /\ free_frames' = FramesAfter(n)
      /\ left' = left \ {fd}
      /\ UNCHANGED <<exits, halted>>
  BY DEF Open
<1>3. /\ fd \in FdSlots
      /\ open_file_table'[fd].address = next_page
      /\ \A d \in FdSlots \ {fd} : open_file_table'[d] = open_file_table[d]
  BY SearchInRange DEF Open, IInv, TablesOK
<1> HIDE DEF n
<1>4. next_page \in 1 .. (LastPage + 1) /\ LastPage \in Nat
  BY SizesAssumption DEF PInv, PagesTyped
<1>5. PagesTyped' /\ NoDoubleFree'
  <2>1. /\ Mapped(n) \in [Pages -> {"none", "frame", "zero"}]
        /\ FramesAfter(n) \in Nat
        /\ FramesAfter(n) + Cardinality({p \in Pages : Mapped(n)[p] = "frame"}) <= Frames
    BY <1>1, MappedCount DEF PInv
  <2>2. next_page' \in 1 .. (LastPage + 1)
    BY <1>1, <1>2, <1>4
  <2> QED BY <1>2, <2>1, <2>2 DEF PInv, PagesTyped, NoDoubleFree
<1>6. \A d \in FdSlots \ {fd} : IsOpen(d)' <=> IsOpen(d)
  BY <1>3 DEF IsOpen
<1>7. BasesTaken'
  <2> SUFFICES ASSUME NEW d \in FdSlots, IsOpen(d)'
               PROVE  /\ open_file_table'[d].address \in Nat \ {0}
                      /\ d \notin left' => open_file_table'[d].address < next_page'
    BY DEF BasesTaken
  <2>1. CASE d = fd
    BY <1>1, <1>2, <1>3, <1>4, <2>1
  <2>2. CASE d # fd
    <3>1. open_file_table'[d] = open_file_table[d] /\ IsOpen(d) /\ (d \notin left' => d \notin left)
      BY <1>2, <1>3, <1>6, <2>2
    <3> QED BY <1>1, <1>2, <1>4, <3>1 DEF PInv, BasesTaken
  <2> QED BY <2>1, <2>2
<1>8. BasesDistinct'
  <2>1. \A d \in (FdSlots \ left') \ {fd} : IsOpen(d)' =>
           /\ d \notin left /\ IsOpen(d)
           /\ open_file_table'[d].address = open_file_table[d].address
           /\ open_file_table'[d].address < next_page
    BY <1>2, <1>3, <1>6 DEF PInv, BasesTaken
  <2>2. \A d \in (FdSlots \ left') \ {fd} : IsOpen(d)' => open_file_table'[d].address # next_page
    BY <1>4, <2>1 DEF PInv, BasesTaken
  <2> QED BY <1>3, <2>1, <2>2 DEF PInv, BasesDistinct
<1> QED BY <1>5, <1>7, <1>8 DEF PInv

\* The blocks close() gives back are those its pages were mapped to.
LEMMA CloseKeepsPInv ==
    ASSUME IInv, PInv, NEW fd \in FdSlots, syscall_close(fd)
    PROVE  PInv'
<1> DEFINE gone == ClosedPages(fd)
           back == {p \in gone : page_table[p] = "frame"}
<1>1. /\ gone \in SUBSET Pages
      /\ open_file_table' = [open_file_table EXCEPT ![fd] = ClosedFile]
      /\ page_table' = Unmapped(gone)
      /\ free_frames' = free_frames + Cardinality(back)
      /\ left' = left \ {fd}
      /\ UNCHANGED <<next_page, exits, halted>>
  BY DEF syscall_close, FramesIn
<1> HIDE DEF gone
<1>2. /\ IsFiniteSet(FrameUsers) /\ Cardinality(FrameUsers) \in Nat
      /\ IsFiniteSet(back) /\ Cardinality(back) \in Nat
  BY <1>1, PagesFinite DEF FrameUsers
<1>3. {p \in Pages : page_table'[p] = "frame"} = FrameUsers \ back
  BY <1>1 DEF Unmapped, FrameUsers
<1>4. Cardinality(FrameUsers \ back) = Cardinality(FrameUsers) - Cardinality(back)
  <2>1. FrameUsers \cap back = back
    BY <1>1 DEF FrameUsers
  <2>2. Cardinality(FrameUsers \ back)
          = Cardinality(FrameUsers) - Cardinality(FrameUsers \cap back)
    BY <1>2, FS_Difference
  <2> QED BY <2>1, <2>2
<1>5. free_frames \in Nat /\ Frames \in Nat /\ free_frames + Cardinality(FrameUsers) <= Frames
  BY SizesAssumption DEF PInv, PagesTyped, NoDoubleFree, FrameUsers
<1> HIDE DEF back
<1>6. NoDoubleFree'
  <2>1. free_frames' + Cardinality(FrameUsers \ back) <= Frames
    BY <1>1, <1>2, <1>4, <1>5
  <2> QED BY <1>3, <2>1 DEF NoDoubleFree
<1>7. PagesTyped'
  <2>1. page_table' \in [Pages -> {"none", "frame", "zero"}]
    BY <1>1 DEF Unmapped, PInv, PagesTyped
  <2>2. free_frames' \in Nat
    BY <1>1, <1>2, <1>5
  <2> QED BY <1>1, <2>1, <2>2 DEF PInv, PagesTyped
<1>8. BasesTaken' /\ BasesDistinct'
  <2>1. \A d \in FdSlots : IsOpen(d)' =>
            /\ IsOpen(d)
            /\ d \in left => d \in left'
            /\ open_file_table'[d].address = open_file_table[d].address
    BY <1>1 DEF IsOpen, ClosedFile, IInv, TablesOK
  <2>2. next_page' \in Nat /\ next_page' >= next_page
    BY <1>1 DEF PInv, PagesTyped
  <2> QED BY <2>1, <2>2, BasesKept
<1> QED BY <1>6, <1>7, <1>8 DEF PInv

LEMMA ReadKeepsPInv ==
    ASSUME IInv, PInv, NEW fd \in FdSlots, NEW len \in Lengths, syscall_read(fd, len)
    PROVE  PInv'
<1> DEFINE n == ReadCount(fd, len)
           e == open_file_table[fd]
           reach == Touched(e.address, e.offset, e.offset + n)
           faults == Faults(page_table, reach)
<1>1. /\ reach \in SUBSET Pages
      /\ Cardinality(faults) <= free_frames
      /\ page_table' = [p \in Pages |-> IF p \in faults THEN "frame" ELSE page_table[p]]
      /\ free_frames' = free_frames - Cardinality(faults)
      /\ open_file_table' = [open_file_table EXCEPT ![fd].offset = @ + n]
      /\ UNCHANGED <<left, next_page, exits, halted>>
  BY DEF syscall_read
<1> HIDE DEF reach, n
<1>2. PagesTyped' /\ NoDoubleFree'
  <2>1. /\ page_table \in [Pages -> {"none", "frame", "zero"}] /\ free_frames \in Nat
        /\ free_frames + Cardinality({p \in Pages : page_table[p] = "frame"}) <= Frames
    BY DEF PInv, PagesTyped, NoDoubleFree
  <2> DEFINE after == [p \in Pages |-> IF p \in faults THEN "frame" ELSE page_table[p]]
  <2>2. /\ after \in [Pages -> {"none", "frame", "zero"}]
        /\ free_frames - Cardinality(faults) \in Nat
        /\ free_frames - Cardinality(faults)
             + Cardinality({p \in Pages : after[p] = "frame"}) <= Frames
    BY <1>1, <2>1, FaultCount
  <2>3. page_table' = after
    BY <1>1
  <2> HIDE DEF after
  <2> QED BY <1>1, <2>2, <2>3 DEF PInv, PagesTyped, NoDoubleFree
<1>3. BasesTaken' /\ BasesDistinct'
  <2>1. \A d \in FdSlots : IsOpen(d)' =>
            /\ IsOpen(d)
            /\ d \in left => d \in left'
            /\ open_file_table'[d].address = open_file_table[d].address
    BY <1>1 DEF IsOpen, IInv, TablesOK, FileEntries
  <2>2. next_page' \in Nat /\ next_page' >= next_page
    BY <1>1 DEF PInv, PagesTyped
  <2> QED BY <2>1, <2>2, BasesKept
<1> QED BY <1>2, <1>3 DEF PInv

LEMMA WriteKeepsPInv ==
    ASSUME IInv, PInv, NEW fd \in FdSlots, NEW len \in Lengths, syscall_write(fd, len)
    PROVE  PInv'
<1> DEFINE n == PagesAdded(fd)
           reach == WriteReach(fd, len) \cup SaveReach(fd, len)
           map == Mapped(n)
           frames == FramesAfter(n)
           faults == Faults(map, reach)
<1>1. n \in Nat
  BY WriteRange DEF syscall_write, Writing, Writable
<1>2. /\ reach \in SUBSET Pages
      /\ next_page + n - 1 <= LastPage
      /\ Cardinality(faults) <= frames
      /\ page_table' = [p \in Pages |-> IF p \in faults THEN "frame" ELSE map[p]]
      /\ free_frames' = frames - Cardinality(faults)
      /\ next_page' = next_page + n
      /\ UNCHANGED <<left, exits, halted>>
  BY DEF syscall_write, Writing
<1>3. open_file_table' = [open_file_table EXCEPT
              ![fd].offset = WriteOffset(fd) + len, ![fd].pages_allocated = @ + n]
  BY DEF syscall_write
<1> HIDE DEF n, reach
<1>4. /\ map \in [Pages -> {"none", "frame", "zero"}] /\ frames \in Nat
      /\ frames + Cardinality({p \in Pages : map[p] = "frame"}) <= Frames
  BY <1>1, MappedCount DEF PInv
<1> HIDE DEF map, frames
<1>5. next_page' \in 1 .. (LastPage + 1) /\ next_page' >= next_page
  BY <1>1, <1>2, SizesAssumption DEF PInv, PagesTyped
<1>6. PagesTyped' /\ NoDoubleFree'
  <2> DEFINE after == [p \in Pages |-> IF p \in faults THEN "frame" ELSE map[p]]
  <2>1. /\ after \in [Pages -> {"none", "frame", "zero"}]
        /\ frames - Cardinality(faults) \in Nat
        /\ frames - Cardinality(faults)
             + Cardinality({p \in Pages : after[p] = "frame"}) <= Frames
    BY <1>2, <1>4, FaultCount
  <2>2. page_table' = after
    BY <1>2
  <2> HIDE DEF after
  <2> QED BY <1>2, <1>5, <2>1, <2>2 DEF PInv, PagesTyped, NoDoubleFree
<1>7. BasesTaken' /\ BasesDistinct'
  <2>1. \A d \in FdSlots : IsOpen(d)' =>
            /\ IsOpen(d)
            /\ d \in left => d \in left'
            /\ open_file_table'[d].address = open_file_table[d].address
    BY <1>2, <1>3 DEF IsOpen, IInv, TablesOK, FileEntries
  <2>2. next_page' \in Nat
    BY <1>5
  <2> QED BY <1>5, <2>1, <2>2, BasesKept
<1> QED BY <1>6, <1>7 DEF PInv

\* seek() moves an offset.
LEMMA SeekKeepsPInv ==
    ASSUME IInv, PInv, NEW fd \in FdSlots, NEW offset, Positioned(fd, offset)
    PROVE  PInv'
<1>1. \A d \in FdSlots : IsOpen(d)' =>
          /\ IsOpen(d)
          /\ d \in left => d \in left'
          /\ open_file_table'[d].address = open_file_table[d].address
  BY DEF Positioned, IsOpen, IInv, TablesOK, FileEntries
<1>2. BasesTaken' /\ BasesDistinct'
  <2>1. next_page' \in Nat /\ next_page' >= next_page
    BY DEF Positioned, pages, PInv, PagesTyped
  <2> QED BY <1>1, <2>1, BasesKept
<1>3. PagesTyped' /\ NoDoubleFree'
  BY DEF Positioned, pages, PInv, PagesTyped, NoDoubleFree
<1> QED BY <1>2, <1>3 DEF PInv

\* When the shell starts again no descriptor is the new program's.
LEMMA ShellKeepsPInv ==
    ASSUME IInv, PInv, shell
    PROVE  PInv'
<1>1. /\ open_file_table' = open_file_table /\ next_page' = 1 /\ exits' = exits + 1
      /\ left' = {d \in FdSlots : IsOpen(d)}
      /\ UNCHANGED <<page_table, free_frames, halted>>
  BY DEF shell
<1>2. \A d \in FdSlots : IsOpen(d)' => IsOpen(d) /\ d \in left'
  BY <1>1 DEF IsOpen
<1>3. BasesTaken' /\ BasesDistinct'
  BY <1>1, <1>2 DEF PInv, BasesTaken, BasesDistinct
<1>4. PagesTyped' /\ NoDoubleFree'
  <2>1. next_page' \in 1 .. (LastPage + 1)
    BY <1>1, SizesAssumption
  <2>2. exits' \in 0 .. MaxExits
    BY <1>1, SizesAssumption DEF shell, PInv, PagesTyped
  <2> QED BY <1>1, <2>1, <2>2 DEF PInv, PagesTyped, NoDoubleFree
<1> QED BY <1>3, <1>4 DEF PInv

LEMMA StepKeepsPInv == IInv /\ PInv /\ [Next]_vars => PInv'
<1> SUFFICES ASSUME IInv, PInv, [Next]_vars PROVE PInv'
  OBVIOUS
<1>1. ASSUME UNCHANGED <<open_file_table, left, exits, pages>>, halted' \in BOOLEAN
      PROVE  PInv'
  BY <1>1 DEF pages, PInv, PagesTyped, NoDoubleFree, BasesTaken, BasesDistinct, IsOpen
<1>2. CASE UNCHANGED vars
  BY <1>1, <1>2 DEF vars, tables, PInv, PagesTyped
<1>3. ASSUME NEW f \in Files, NEW flags \in OpenFlags, syscall_open(f, flags)
      PROVE  PInv'
  <2>1. PICK found \in InodeSlot(f), free \in FreeInodeSlot, fd \in FreeFdSlot :
           Open(f, flags, found, free, fd)
    BY <1>3 DEF syscall_open
  <2>2. IInv'
    BY <2>1, OpenKeepsIInv
  <2> QED BY <2>1, <2>2, OpenKeepsPInv
<1>4. ASSUME NEW f \in Files, NEW flags \in OpenFlags, OpenRefused(f, flags)
      PROVE  PInv'
  BY <1>1, <1>4 DEF OpenRefused, tables, PInv, PagesTyped
<1>5. ASSUME NEW fd \in FdSlots, AccessRefused(fd)
      PROVE  PInv'
  BY <1>1, <1>5 DEF AccessRefused, tables, PInv, PagesTyped
<1>6. ASSUME NEW fd \in FdSlots, NEW len \in Lengths,
             \/ ReadRunsAway(fd, len) \/ ReadFaults(fd, len)
             \/ WriteRunsAway(fd, len) \/ WriteFaults(fd, len)
      PROVE  PInv'
  BY <1>1, <1>6 DEF ReadRunsAway, ReadFaults, WriteRunsAway, WriteFaults, Stops, tables
<1>7. ASSUME NEW fd \in FdSlots, NEW shift \in SeekOffsets, syscall_seek(fd, shift)
      PROVE  PInv'
  BY <1>7, SeekKeepsPInv DEF syscall_seek, SeekSet, SeekCur, SeekEnd
<1>8. ASSUME shell
      PROVE  PInv'
  BY <1>8, ShellKeepsPInv
<1> QED BY <1>2, <1>3, <1>4, <1>5, <1>6, <1>7, <1>8, CloseKeepsPInv, ReadKeepsPInv,
           WriteKeepsPInv DEF Next

\* The file area's invariant holds in every state (the calls of syscalls.h).
THEOREM PagesInvariant == Spec => [](IInv /\ PInv)
<1>1. Init => IInv /\ PInv
  BY InitIInv, InitPInv
<1>2. IInv /\ PInv /\ [Next]_vars => (IInv /\ PInv)'
  BY StepKeepsIInv, StepKeepsPInv
<1> QED BY <1>1, <1>2, PTL DEF Spec

\* Type correctness of the tables, the inodes and the file area of syscalls.h, for
\* tables, pages and files of every size.
THEOREM TypeCorrect == Spec => []TypeOK
<1>1. IInv /\ PInv => TypeOK
  <2> SUFFICES ASSUME IInv, PInv PROVE TypeOK
    OBVIOUS
  <2>1. free_frames \in 0 .. Frames
    <3>1. Cardinality({p \in Pages : page_table[p] = "frame"}) \in Nat
      BY PagesFinite
    <3> QED BY <3>1, SizesAssumption DEF PInv, PagesTyped, NoDoubleFree
  <2> QED BY <2>1 DEF IInv, PInv, PagesTyped, TypeOK
<1> QED BY <1>1, PagesInvariant, PTL

\* Whatever earlier programs left open, two descriptors opened since the shell
\* last started never begin on the same page, for any number of files, descriptors
\* and exits, also of empty files (open(), syscalls.h:337-356; kernel.c:223).
THEOREM DescriptorsApart == Spec => []BasesDistinct
<1>1. PInv => BasesDistinct
  BY DEF PInv
<1> QED BY <1>1, PagesInvariant, PTL

\* However files are opened, written beyond their end, read beyond their pages
\* and closed, no physical block is given back twice (close(), syscalls.h:391-401).
THEOREM FramesKept == Spec => []NoDoubleFree
<1>1. PInv => NoDoubleFree
  BY DEF PInv
<1> QED BY <1>1, PagesInvariant, PTL

\* A call changes no entry of open_file_table but its own, and open() takes none
\* that is in use, unless it is the one past the table (syscalls.h:299-335).
THEOREM OwnEntryOnly == Spec => DescriptorsKept
<1> DEFINE Own == \A d \in FdSlots \ {MaxOpenFiles} :
                     open_file_table'[d] # open_file_table[d] =>
                         /\ last'.fd = d
                         /\ last'.call = "open" => open_file_table[d].ref_count = 0
<1>1. IInv /\ PInv /\ [Next]_vars => [Own]_vars
  <2> SUFFICES ASSUME IInv, PInv, Next PROVE Own
    OBVIOUS
  <2> USE DEF Call, tables
  <2>0. ASSUME NEW fd \in FdSlots, last'.fd = fd, last'.call # "open",
               \A d \in FdSlots \ {fd} : open_file_table'[d] = open_file_table[d]
        PROVE  Own
    BY <2>0
  <2>1. ASSUME NEW f \in Files, NEW flags \in OpenFlags, syscall_open(f, flags)
        PROVE  Own
    <3>1. PICK found \in InodeSlot(f), free \in FreeInodeSlot, fd \in FreeFdSlot :
             Open(f, flags, found, free, fd)
      BY <2>1 DEF syscall_open
    <3>2. /\ last'.fd = fd /\ fd \in FdSlots
          /\ \A d \in FdSlots \ {fd} : open_file_table'[d] = open_file_table[d]
      BY <3>1, SearchInRange DEF Open, IInv, TablesOK
    <3>3. ASSUME fd # MaxOpenFiles PROVE open_file_table[fd].ref_count = 0
      <4>1. open_file_table[fd].address = 0 \/ open_file_table[fd].ref_count = 0
        BY <3>3 DEF FreeFdSlot, SearchEnd
      <4>2. open_file_table[fd].address # 0 \/ ~IsOpen(fd)
        BY <3>2 DEF PInv, BasesTaken
      <4>3. open_file_table[fd].ref_count \in {0, 1}
        BY <3>2 DEF IInv, TablesOK, FileEntries
      <4> QED BY <3>2, <4>1, <4>2, <4>3 DEF IsOpen
    <3> QED BY <3>2, <3>3
  <2>2. ASSUME NEW fd \in FdSlots, syscall_close(fd)
        PROVE  Own
    <3>1. last'.fd = fd /\ last'.call # "open"
      BY <2>2 DEF syscall_close
    <3>2. \A d \in FdSlots \ {fd} : open_file_table'[d] = open_file_table[d]
      BY <2>2 DEF syscall_close, IInv, TablesOK
    <3> QED BY <2>0, <3>1, <3>2
  <2>3. ASSUME NEW fd \in FdSlots, NEW len \in Lengths, syscall_read(fd, len)
        PROVE  Own
    <3>1. last'.fd = fd /\ last'.call # "open"
      BY <2>3 DEF syscall_read
    <3>2. \A d \in FdSlots \ {fd} : open_file_table'[d] = open_file_table[d]
      BY <2>3 DEF syscall_read, IInv, TablesOK
    <3> QED BY <2>0, <3>1, <3>2
  <2>4. ASSUME NEW fd \in FdSlots, NEW len \in Lengths, syscall_write(fd, len)
        PROVE  Own
    <3>1. last'.fd = fd /\ last'.call # "open"
      BY <2>4 DEF syscall_write
    <3>2. \A d \in FdSlots \ {fd} : open_file_table'[d] = open_file_table[d]
      BY <2>4 DEF syscall_write, IInv, TablesOK
    <3> QED BY <2>0, <3>1, <3>2
  <2>5. ASSUME NEW fd \in FdSlots, NEW position, Positioned(fd, position)
        PROVE  Own
    <3>1. last'.fd = fd /\ last'.call # "open"
      BY <2>5 DEF Positioned
    <3>2. \A d \in FdSlots \ {fd} : open_file_table'[d] = open_file_table[d]
      BY <2>5 DEF Positioned, IInv, TablesOK
    <3> QED BY <2>0, <3>1, <3>2
  <2>6. ASSUME open_file_table' = open_file_table PROVE Own
    BY <2>6
  <2> HIDE DEF Own
  <2> QED BY <2>1, <2>2, <2>3, <2>4, <2>5, <2>6
          DEF Next, shell, OpenRefused, AccessRefused, ReadRunsAway, ReadFaults, WriteRunsAway,
              WriteFaults, Stops, syscall_seek, SeekSet, SeekCur, SeekEnd
<1> QED BY <1>1, PagesInvariant, PTL DEF Spec, DescriptorsKept

===============================================================================
