------------------------------ MODULE OpenFiles ------------------------------
(***************************************************************************)
(* The file system calls of syscalls.h: open, close, read, write and seek  *)
(* over open_file_table, open_inode_table, the pages files are loaded to   *)
(* and the inodes on disk.  A call runs with interrupts off and is one     *)
(* step.  Programs that do not close their files leave them open: every    *)
(* exit() starts the shell again, which takes pages from the beginning of  *)
(* the file area on, and the tables stay as they are.                      *)
(*                                                                         *)
(* Both tables are searched up to their size and the slot the search stops *)
(* at is used without a test: index MaxOpenFiles (MaxOpenInodes) is the    *)
(* memory that follows the table.  The table starts at the first           *)
(* descriptor after stdin, stdout and stderr, which the shell opens, on    *)
(* the three pages before page 1, and exit() closes: they stay empty here. *)
(* A path is the id of the file it names; a size, an offset and a length   *)
(* count cells, PageSize of them to a page and to a disk block.            *)
(***************************************************************************)
EXTENDS Integers, FiniteSets

CONSTANTS
    Files,          \* ids of the files that are opened; 0 is no file
    MaxOpenFiles,   \* max_open_files (256)
    MaxOpenInodes,  \* max_open_inodes (256)
    PageSize,       \* PAGE_SIZE = FS_BLOCK_SIZE (4096)
    UintModulus,    \* 2^32
    RefModulus,     \* 2^8: inode_t.ref_count is a uint8_t
    OnDisk,         \* the files there are at the start: id -> [size, blocks]
    Frames,         \* physical blocks left for pages of files
    OpenFlags,      \* the sets of flags open() is called with
    Lengths,        \* the lengths read() and write() are called with
    SeekOffsets,    \* the offsets seek() is called with
    LastPage,       \* bound: the last page of the file area
    MaxOffset,      \* bound: no offset grows beyond this
    MaxExits        \* bound: programs that end

ASSUME SizesAssumption ==
    /\ Files \subseteq Nat \ {0}
    /\ MaxOpenFiles \in Nat
    /\ MaxOpenInodes \in Nat
    /\ PageSize \in Nat \ {0}
    /\ UintModulus \in Nat \ {0}
    /\ RefModulus \in Nat \ {0}
    /\ Frames \in Nat
    /\ LastPage \in Nat
    /\ MaxExits \in Nat
    /\ Lengths \subseteq Nat
    /\ SeekOffsets \subseteq Int

ASSUME DiskAssumption ==
    /\ DOMAIN OnDisk \subseteq Files
    /\ \A f \in DOMAIN OnDisk : OnDisk[f] \in [size : Nat, blocks : Nat]

VARIABLES
    open_file_table,
    open_inode_table,
    disk,               \* the inode of every file, as it is on disk
    next_page,          \* next_available_file_virtual_address
    page_table,         \* what each page of the file area is mapped to
    free_frames,        \* physical blocks left
    left,               \* the descriptors an earlier program left open (ghost)
    exits,              \* programs that have ended (bounded)
    halted,             \* the machine has run away or stopped in a fault
    last                \* the call that ran last (ghost)

tables == <<open_file_table, open_inode_table, left, exits>>
pages == <<next_page, page_table, free_frames>>
vars == <<tables, disk, pages, halted, last>>

FdSlots == 0 .. MaxOpenFiles
InodeSlots == 0 .. MaxOpenInodes
Pages == 1 .. LastPage              \* page 0 is the null address
NoInode == -1
NoFd == -1
Flags == {"O_WRONLY", "O_RDWR", "O_CREAT", "O_APPEND", "O_TRUNC"}

ASSUME FlagsAssumption == OpenFlags \subseteq SUBSET Flags

FileEntries == [address : Nat, offset : Nat, inode : InodeSlots \cup {NoInode},
                ref_count : {0, 1}, flags : SUBSET Flags, pages_allocated : Nat]
Inodes == [id : Files \cup {0}, size : Nat, ref_count : 0 .. (RefModulus - 1), blocks : Nat]

ClosedFile == [address |-> 0, offset |-> 0, inode |-> NoInode, ref_count |-> 0,
               flags |-> {}, pages_allocated |-> 0]
FreeInode == [id |-> 0, size |-> 0, ref_count |-> 0, blocks |-> 0]

\* fs_create_file() leaves an empty file with one block.
NewInode(f) == [id |-> f, size |-> 0, ref_count |-> 0, blocks |-> 1]

U32(x) == x % UintModulus

\* Variant: the count does not wrap.
U8Wide(x) == x

U8(x) == x % RefModulus

bytes_to_blocks(n) == (n \div PageSize) + (IF n % PageSize > 0 THEN 1 ELSE 0)

\* Variant: an empty file gets no page.
PagesForData(n) == bytes_to_blocks(n)

PagesFor(n) == IF bytes_to_blocks(n) = 0 THEN 1 ELSE bytes_to_blocks(n)

\* The pages that cells lo up to hi of the memory at page a lie on.
Touched(a, lo, hi) ==
    IF lo < hi THEN (a + (lo \div PageSize)) .. (a + ((hi - 1) \div PageSize)) ELSE {}

-----------------------------------------------------------------------------
(* Pages                                                                   *)

\* allocate_blocks() and map_address() for the next n pages.  A refused
\* allocation answers 0, which is mapped like any block.
Mapped(n) ==
    [p \in Pages |->
        IF p \in next_page .. (next_page + n - 1)
        THEN IF p - next_page < free_frames THEN "frame" ELSE "zero"
        ELSE page_table[p]]

FramesAfter(n) == IF n < free_frames THEN free_frames - n ELSE 0

\* The pages of ps that fault when they are touched.
Faults(map, ps) == {p \in ps : map[p] = "none"}

\* Variant: the page stays mapped to the block given back.
UnmappedNot(ps) == page_table

\* free_page() and unmap_page(): block 0 is not given back.
Unmapped(ps) ==
    [p \in Pages |-> IF p \in ps THEN "none" ELSE page_table[p]]

FramesIn(ps) == Cardinality({p \in ps : page_table[p] = "frame"})

-----------------------------------------------------------------------------
(* The tables                                                              *)

\* Where a search for one of the indices S of a table of size max ends: at the
\* first of them, or past the table.
SearchEnd(S, max) == {i \in S \cup {max} : \A j \in S : i <= j}

\* Variant: the search leaves out the first entry.
InodeSlotSkip(f) ==
    SearchEnd({s \in InodeSlots \ {0} : open_inode_table[s].id = f}, MaxOpenInodes)

InodeSlot(f) ==
    SearchEnd({s \in InodeSlots : open_inode_table[s].id = f}, MaxOpenInodes)

FreeInodeSlot ==
    SearchEnd({s \in InodeSlots : open_inode_table[s].id = 0}, MaxOpenInodes)

\* Variant: an entry at offset 0 passes for free.
FreeFdSlotRewound ==
    SearchEnd({d \in FdSlots : open_file_table[d].offset = 0}, MaxOpenFiles)

FreeFdSlot ==
    SearchEnd({d \in FdSlots : \/ open_file_table[d].address = 0
                               \/ open_file_table[d].ref_count = 0}, MaxOpenFiles)

IsOpen(fd) == fd \in FdSlots /\ open_file_table[fd].ref_count > 0

InodeOf(fd) == open_inode_table[open_file_table[fd].inode]

Exists(f) == f \in DOMAIN disk

\* Variant: the inode on disk is left as it was.
InodeWrittenNot(i) == disk

\* update_inode_on_disk(): a cleared entry is written as inode 0, which is
\* no file's.
InodeWritten(i) == [f \in DOMAIN disk |-> IF f = i.id THEN i ELSE disk[f]]

Call(name, fd) == [call |-> name, fd |-> fd, len |-> 0]

Init ==
    /\ open_file_table = [d \in FdSlots |-> ClosedFile]
    /\ open_inode_table = [s \in InodeSlots |-> FreeInode]
    /\ disk = [f \in DOMAIN OnDisk |->
                  [id |-> f, size |-> OnDisk[f].size, ref_count |-> 0,
                   blocks |-> OnDisk[f].blocks]]
    /\ next_page = 1
    /\ page_table = [p \in Pages |-> "none"]
    /\ free_frames = Frames
    /\ left = {}
    /\ exits = 0
    /\ halted = FALSE
    /\ last = Call("boot", NoFd)

-----------------------------------------------------------------------------
(* open()                                                                  *)

\* The inode entry that a descriptor for file f gets, and the table with it:
\* the one found, used once more, or the first free one, filled from disk.
EntryFor(f, found, free) == IF open_inode_table[found].id = f THEN found ELSE free

InodeUsed(f, i, found, free) ==
    IF open_inode_table[found].id = f
    THEN [open_inode_table EXCEPT ![found].ref_count = U8(@ + 1)]
    ELSE [open_inode_table EXCEPT ![free] = i]

\* fd is the entry of the file table, found and free are those of the inode
\* table where the searches end.
Open(f, flags, found, free, fd) ==
    LET onDisk == IF Exists(f) THEN disk[f] ELSE NewInode(f)
        slot == EntryFor(f, found, free)
        table == InodeUsed(f, onDisk, found, free)
        size == table[slot].size
        n == PagesFor(size)
    IN  /\ ~halted
        /\ Exists(f) \/ "O_CREAT" \in flags
        /\ next_page + n - 1 <= LastPage                          \* bound
        /\ disk' = [g \in DOMAIN disk \cup {f} |-> IF g = f THEN onDisk ELSE disk[g]]
        /\ open_inode_table' = table
        /\ open_file_table' = [open_file_table EXCEPT ![fd] =
              [address |-> next_page,
               offset |-> IF "O_APPEND" \in flags THEN size ELSE 0,
               inode |-> slot,
               ref_count |-> 1,
               flags |-> flags,
               pages_allocated |-> @.pages_allocated + n]]
        /\ page_table' = Mapped(n)
        /\ free_frames' = FramesAfter(n)
        /\ next_page' = next_page + n
        /\ left' = left \ {fd}
        /\ last' = Call("open", fd)
        /\ UNCHANGED <<exits, halted>>

syscall_open(f, flags) ==
    \E found \in InodeSlot(f), free \in FreeInodeSlot, fd \in FreeFdSlot :
        Open(f, flags, found, free, fd)

\* There is no such file, and the caller does not ask for one.
OpenRefused(f, flags) ==
    /\ ~halted
    /\ ~Exists(f) /\ "O_CREAT" \notin flags
    /\ last' = Call("refused", NoFd)
    /\ UNCHANGED <<tables, disk, pages, halted>>

-----------------------------------------------------------------------------
(* close()                                                                 *)

\* The pages of a file are taken to follow its first one, as many as the
\* file's size asks for now.
ClosedPages(fd) ==
    LET a == open_file_table[fd].address
    IN  a .. (a + PagesFor(InodeOf(fd).size) - 1)

\* No call makes a second reference to an entry of open_file_table: closing
\* it always clears it.
syscall_close(fd) ==
    LET e == open_file_table[fd]
        released == [InodeOf(fd) EXCEPT !.ref_count = U8(@ - 1)]
        gone == ClosedPages(fd)
    IN  /\ ~halted
        /\ IsOpen(fd)
        /\ gone \subseteq Pages                                   \* bound
        /\ open_inode_table' = [open_inode_table EXCEPT ![e.inode] =
              IF released.ref_count = 0 THEN FreeInode ELSE released]
        /\ open_file_table' = [open_file_table EXCEPT ![fd] = ClosedFile]
        /\ page_table' = Unmapped(gone)
        /\ free_frames' = free_frames + FramesIn(gone)
        /\ left' = left \ {fd}
        /\ last' = Call("close", fd)
        /\ UNCHANGED <<disk, next_page, exits, halted>>

-----------------------------------------------------------------------------
(* read(), write() and seek()                                              *)

\* The machine stops for good: a copy of 4 GB runs over the kernel, or a
\* page faults when no block is left.
Stops(name, fd) ==
    /\ halted' = TRUE
    /\ last' = Call(name, fd)
    /\ UNCHANGED <<tables, disk, pages>>

Readable(fd) == IsOpen(fd) /\ "O_WRONLY" \notin open_file_table[fd].flags

\* The subtraction and the count are unsigned.
ReadCount(fd, len) ==
    LET size == InodeOf(fd).size
        offset == open_file_table[fd].offset
    IN  IF size < offset + len THEN U32(size - offset) ELSE len

ReadRunsAway(fd, len) ==
    /\ ~halted
    /\ Readable(fd)
    /\ ReadCount(fd, len) > len
    /\ Stops("read", fd)

syscall_read(fd, len) ==
    LET e == open_file_table[fd]
        n == ReadCount(fd, len)
        reach == Touched(e.address, e.offset, e.offset + n)
        faults == Faults(page_table, reach)
    IN  /\ ~halted
        /\ Readable(fd)
        /\ n <= len
        /\ reach \subseteq Pages                                  \* bound
        /\ Cardinality(faults) <= free_frames
        /\ page_table' = [p \in Pages |-> IF p \in faults THEN "frame" ELSE page_table[p]]
        /\ free_frames' = free_frames - Cardinality(faults)
        /\ open_file_table' = [open_file_table EXCEPT ![fd].offset = @ + n]
        /\ last' = Call("read", fd)
        /\ UNCHANGED <<open_inode_table, left, disk, next_page, exits, halted>>

ReadFaults(fd, len) ==
    LET e == open_file_table[fd]
        n == ReadCount(fd, len)
        reach == Touched(e.address, e.offset, e.offset + n)
    IN  /\ ~halted
        /\ Readable(fd)
        /\ n <= len
        /\ reach \subseteq Pages                                  \* bound
        /\ Cardinality(Faults(page_table, reach)) > free_frames
        /\ Stops("read", fd)

Writable(fd) ==
    /\ IsOpen(fd)
    /\ {"O_WRONLY", "O_RDWR"} \cap open_file_table[fd].flags # {}

WriteOffset(fd) ==
    IF "O_APPEND" \in open_file_table[fd].flags
    THEN InodeOf(fd).size ELSE open_file_table[fd].offset

\* The pages write() adds, when the offset lies beyond those it has.
Gap(fd) ==
    IF WriteOffset(fd) > open_file_table[fd].pages_allocated * PageSize
    THEN U32(WriteOffset(fd) - InodeOf(fd).size) ELSE 0

PagesAdded(fd) ==
    IF WriteOffset(fd) > open_file_table[fd].pages_allocated * PageSize
    THEN PagesFor(Gap(fd)) ELSE 0

\* Variant: the file ends where the last write ended.
SizeAfterCut(fd, len) == WriteOffset(fd) + len

SizeAfter(fd, len) ==
    IF WriteOffset(fd) + len > InodeOf(fd).size
    THEN WriteOffset(fd) + len ELSE InodeOf(fd).size

\* The cells that are zeroed, those that are written, and the blocks that
\* fs_save_file() copies, which are those of the extents.
WriteReach(fd, len) ==
    LET a == open_file_table[fd].address
        at == WriteOffset(fd)
        size == InodeOf(fd).size
    IN  Touched(a, size, size + Gap(fd)) \cup Touched(a, at, at + len)

SaveReach(fd, len) ==
    LET a == open_file_table[fd].address
    IN  IF SizeAfter(fd, len) > 0 THEN a .. (a + InodeOf(fd).blocks - 1) ELSE {}

\* The unsigned gap of a file that grew through another descriptor: pages
\* are added and zeroed through the whole address space.
WriteRunsAway(fd, len) ==
    /\ ~halted
    /\ Writable(fd)
    /\ Gap(fd) > WriteOffset(fd)
    /\ Stops("write", fd)

Writing(fd, len) ==
    /\ ~halted
    /\ Writable(fd)
    /\ Gap(fd) <= WriteOffset(fd)
    /\ WriteOffset(fd) + len <= MaxOffset                         \* bound
    /\ next_page + PagesAdded(fd) - 1 <= LastPage                 \* bound
    /\ WriteReach(fd, len) \cup SaveReach(fd, len) \subseteq Pages \* bound

syscall_write(fd, len) ==
    LET reach == WriteReach(fd, len)
        map == Mapped(PagesAdded(fd))
        faults == Faults(map, reach \cup SaveReach(fd, len))
        frames == FramesAfter(PagesAdded(fd))
        inode == [InodeOf(fd) EXCEPT !.size = SizeAfter(fd, len)]
    IN  /\ Writing(fd, len)
        /\ Cardinality(faults) <= frames
        /\ page_table' = [p \in Pages |-> IF p \in faults THEN "frame" ELSE map[p]]
        /\ free_frames' = frames - Cardinality(faults)
        /\ next_page' = next_page + PagesAdded(fd)
        /\ open_file_table' = [open_file_table EXCEPT
              ![fd].offset = WriteOffset(fd) + len,
              ![fd].pages_allocated = @ + PagesAdded(fd)]
        /\ open_inode_table' = [open_inode_table EXCEPT ![open_file_table[fd].inode] = inode]
        /\ disk' = InodeWritten(inode)
        /\ last' = [Call("write", fd) EXCEPT !.len = len]
        /\ UNCHANGED <<left, exits, halted>>

WriteFaults(fd, len) ==
    /\ Writing(fd, len)
    /\ Cardinality(Faults(Mapped(PagesAdded(fd)),
                          WriteReach(fd, len) \cup SaveReach(fd, len)))
         > FramesAfter(PagesAdded(fd))
    /\ Stops("write", fd)

\* A call on a descriptor that is not open, or not open for it.
AccessRefused(fd) ==
    /\ ~halted
    /\ ~IsOpen(fd) \/ ~Readable(fd) \/ ~Writable(fd)
    /\ last' = Call("refused", NoFd)
    /\ UNCHANGED <<tables, disk, pages, halted>>

Positioned(fd, offset) ==
    /\ ~halted
    /\ IsOpen(fd)
    /\ offset <= MaxOffset                                        \* bound
    /\ open_file_table' =
          [open_file_table EXCEPT ![fd].offset = IF offset < 0 THEN 0 ELSE offset]
    /\ last' = Call("seek", fd)
    /\ UNCHANGED <<open_inode_table, left, disk, pages, exits, halted>>

SeekSet(fd, offset) == Positioned(fd, offset)
SeekCur(fd, offset) == Positioned(fd, open_file_table[fd].offset + offset)
SeekEnd(fd, offset) == IsOpen(fd) /\ Positioned(fd, InodeOf(fd).size + offset)

syscall_seek(fd, offset) ==
    SeekSet(fd, offset) \/ SeekCur(fd, offset) \/ SeekEnd(fd, offset)

-----------------------------------------------------------------------------
(* exit()                                                                  *)

\* A program ends and the shell runs again: stdin, stdout and stderr are closed
\* and opened again on the pages they had, and the next file that is opened
\* gets page 1, whatever is still open and mapped there.
shell ==
    /\ ~halted
    /\ exits < MaxExits                                           \* bound
    /\ exits' = exits + 1
    /\ next_page' = 1
    /\ left' = {d \in FdSlots : IsOpen(d)}
    /\ last' = Call("exit", NoFd)
    /\ UNCHANGED <<open_file_table, open_inode_table, disk, page_table, free_frames, halted>>

Next ==
    \/ shell
    \/ \E f \in Files, flags \in OpenFlags : syscall_open(f, flags) \/ OpenRefused(f, flags)
    \/ \E fd \in FdSlots :
          \/ syscall_close(fd)
          \/ AccessRefused(fd)
          \/ \E len \in Lengths :
                \/ syscall_read(fd, len) \/ ReadRunsAway(fd, len) \/ ReadFaults(fd, len)
                \/ syscall_write(fd, len) \/ WriteRunsAway(fd, len) \/ WriteFaults(fd, len)
          \/ \E offset \in SeekOffsets : syscall_seek(fd, offset)

Spec == Init /\ [][Next]_vars

-----------------------------------------------------------------------------
(* What holds                                                              *)

\* The tables and the inodes on disk are in range, and a descriptor in use has
\* an entry of the inode table.
TablesOK ==
    /\ open_file_table \in [FdSlots -> FileEntries]
    /\ open_inode_table \in [InodeSlots -> Inodes]
    /\ \A d \in FdSlots : IsOpen(d) => open_file_table[d].inode \in InodeSlots
    /\ DOMAIN disk \subseteq Files
    /\ \A f \in DOMAIN disk : disk[f] \in Inodes /\ disk[f].id = f

\* Type invariant: the tables, the inodes and the file area stay in range.
TypeOK ==
    /\ TablesOK
    /\ next_page \in 1 .. (LastPage + 1)
    /\ page_table \in [Pages -> {"none", "frame", "zero"}]
    /\ free_frames \in 0 .. Frames
    /\ left \subseteq FdSlots
    /\ exits \in 0 .. MaxExits
    /\ halted \in BOOLEAN

\* Safety: however often a file is opened and closed, in whatever order, and
\* with the table full too, the open inode table never has two entries for it
\* (the search of open(), syscalls.h:253-296).  Two entries would each be
\* saved over the other.
OneInodePerId ==
    \A s, t \in InodeSlots :
        open_inode_table[s].id = open_inode_table[t].id => s = t \/ open_inode_table[s].id = 0

\* Safety: an entry of the open inode table says of its file's size and extent
\* what the disk says, whatever descriptor the file was last written through
\* (write(), syscalls.h:208-220).  open() copies from the disk only when
\* the table has no entry.
InodeCoherent ==
    \A s \in InodeSlots :
        LET i == open_inode_table[s]
        IN  i.id # 0 => /\ i.id \in DOMAIN disk
                        /\ i.size = disk[i.id].size
                        /\ i.blocks = disk[i.id].blocks

\* Safety: two descriptors a program has open never have the same first page,
\* also when the files are empty, when one file is opened twice and whatever
\* earlier programs left open (open(), syscalls.h:337-356): their offsets could
\* then address each other's data.  It is not so of a descriptor that an earlier
\* program left open: the shell's start gave its pages away (kernel.c:223).
BasesDistinct ==
    \A d, e \in FdSlots \ left :
        IsOpen(d) /\ IsOpen(e) /\ open_file_table[d].address = open_file_table[e].address
        => d = e

\* Safety: no history of opens, writes beyond the end, closes and exits gives a
\* physical block back twice (close(), syscalls.h:391-401, free_page() and
\* unmap_page()): the blocks in use and the free ones never exceed what there is.
NoDoubleFree ==
    free_frames + Cardinality({p \in Pages : page_table[p] = "frame"}) <= Frames

\* Action: a call changes no other descriptor's entry than its own, and open()
\* takes none that is in use (open(), syscalls.h:299-335), as far as the table
\* reaches.
DescriptorsKept ==
    [][\A d \in FdSlots \ {MaxOpenFiles} :
          open_file_table'[d] # open_file_table[d] =>
              /\ last'.fd = d
              /\ last'.call = "open" => open_file_table[d].ref_count = 0]_vars

\* Action: a file on disk is never cut short, whatever calls run on the
\* descriptors it is open under, in whatever order (write(), syscalls.h:208-223).
SizeNeverShrinks ==
    [][\A f \in DOMAIN disk : f \in DOMAIN disk' /\ disk'[f].size >= disk[f].size]_vars

-----------------------------------------------------------------------------
(* What a comment says and the code does not do                            *)

\* Action, syscalls.h:205: write() writes "to FD", and so not to the page another
\* descriptor's file begins on, of those no earlier program left open.
WriteKeepsToItsFile ==
    [][last'.call = "write" /\ last'.fd \notin left =>
          \A e \in FdSlots \ (left \cup {last'.fd}) :
              IsOpen(e) => open_file_table[e].address \notin WriteReach(last'.fd, last'.len)]_vars

=============================================================================
