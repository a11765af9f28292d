------------------------------ MODULE FileSystem ------------------------------
(***************************************************************************)
(* The file system on disk (fs_impl.h): the two bitmaps, the inodes, the   *)
(* blocks of directories and the superblock, and what the kernel keeps of  *)
(* them in memory.  Creating a file, making a directory and deleting are   *)
(* sequences of disk writes: each write is a step, and the machine may     *)
(* stop between any two and boot again from what is on disk.               *)
(*                                                                         *)
(* An entry is an inode id and a name; a block holds EntriesPerBlock of    *)
(* them, and sizes are counted in entries.  Every file and directory has   *)
(* one block, the first of its first extent: no code ever adds another.    *)
(* Blocks below FirstDataBlock hold the boot code, the superblock, the     *)
(* bitmaps and the inodes.  When something else is written over one, or an *)
(* inode past the end of the inode blocks, the model puts the block in     *)
(* overwritten and follows the system no further.                          *)
(*                                                                         *)
(* Files are created, renamed and deleted here and never written, so the   *)
(* use count in their inode on disk is 0; what write() does is the subject *)
(* of OpenFiles.                                                           *)
(***************************************************************************)
EXTENDS Integers, FiniteSets

CONSTANTS
    Names,          \* names of files and directories
    Prefixes,       \* the pairs <<n, m>> of names where n is how m begins
    EntriesPerBlock, \* DIR_ENTRIES_PER_BLOCK (64)
    U32,            \* how many sizes there are before they wrap
    FirstDataBlock, \* superblock.first_data_block, the root directory's block
    LastBlock,      \* the last bit of the data bitmap blocks
    InodeRoom,      \* how many inodes the inode blocks hold
    LastInode,      \* the last bit of the inode bitmap blocks
    Junk,           \* what a page may hold that nobody has cleared
    MaxCreated,     \* bound: how many files are created
    MaxStopped      \* bound: calls are cut short, and special paths made
                    \* again, below so many events

NoName == "none"
GarbageName == "garbage"    \* the name in an entry nobody has written
Ids == 0 .. LastInode
Blocks == 0 .. LastBlock
Slots == 1 .. EntriesPerBlock
Root == 1
SystemBlocks == 0 .. FirstDataBlock - 1

Entries == [id : 0 .. LastInode + 1, name : Names \cup {".", "..", NoName, GarbageName}]
Inodes == [id : Ids, type : {"file", "dir"}, size : 0 .. U32 - 1, first : Blocks, past : 0 .. 1]

NoEntry == [id |-> 0, name |-> NoName]
NoInode == [id |-> 0, type |-> "file", size |-> 0, first |-> 0, past |-> 0]
EmptyBlock == [s \in Slots |-> NoEntry]

ASSUME SizesAssumption ==
    /\ EntriesPerBlock \in Nat /\ EntriesPerBlock > 2
    /\ U32 \in Nat /\ U32 > EntriesPerBlock
    /\ FirstDataBlock \in Nat \ {0} /\ LastBlock \in Nat /\ FirstDataBlock < LastBlock
    /\ InodeRoom \in Nat /\ LastInode \in Nat /\ InodeRoom > 2 /\ LastInode > 1
    /\ MaxCreated \in Nat /\ MaxStopped \in Nat

\* What is left in a page is no file's entry.
ASSUME NamesAssumption ==
    /\ Names # {} /\ Prefixes \subseteq Names \X Names /\ \A n \in Names : <<n, n>> \in Prefixes
    /\ Names \cap {NoName, GarbageName, ".", ".."} = {}
    /\ EmptyBlock \in Junk /\ Junk \subseteq [Slots -> Entries]
    /\ \A page \in Junk, s \in Slots :
          page[s].name \in {NoName, GarbageName} /\ page[s].id \notin Ids \ {0}

VARIABLES
    inode_bits,         \* disk: the ids whose bit is set
    data_bits,          \* disk: the blocks whose bit is set
    inodes,             \* disk: the inode blocks
    entries,            \* disk: what each data block holds, as directory entries
    disk_superblock,    \* disk: first_free_inode_bit and first_free_data_bit
    superblock,         \* memory: the same
    root_inode,         \* memory: root's inode
    current_dir_inode,  \* memory: the inode of the current directory
    pc,                 \* the next write of the call that runs, or "idle"
    job,                \* what that call works on
    overwritten,        \* blocks that were written as what they are not (ghost)
    created,            \* how many files were created (ghost)
    events              \* what has gone out of the ordinary so far (ghost)

bitmaps == <<inode_bits, data_bits>>
disk == <<bitmaps, inodes, entries, disk_superblock>>
memory == <<superblock, root_inode, current_dir_inode>>
ghosts == <<overwritten, created, events>>
vars == <<disk, memory, pc, job, ghosts>>

\* What make_disk leaves: the root directory, without files.
RootInode == [id |-> Root, type |-> "dir", size |-> 2, first |-> FirstDataBlock, past |-> 0]

WithDots(page, self, parent) ==
    [page EXCEPT ![1] = [id |-> self, name |-> "."], ![2] = [id |-> parent, name |-> ".."]]

\* find_first_free_bit_in_disk_blocks(): 0 when every bit is set.
FirstFree(bits, last) ==
    IF 0 .. last \subseteq bits THEN 0
    ELSE CHOOSE b \in (0 .. last) \ bits : \A c \in (0 .. last) \ bits : b <= c

\* The first of a set of slots.
FirstSlot(slots) == CHOOSE s \in slots : \A t \in slots : s <= t

bytes_to_blocks(size) ==
    (size \div EntriesPerBlock) + (IF size % EntriesPerBlock > 0 THEN 1 ELSE 0)

-----------------------------------------------------------------------------
(* Paths                                                                   *)

\* A path is absolute or not, names one directory on the way or none, and ends
\* with a name.
Paths == [absolute : BOOLEAN, dir : Names \cup {NoName}, name : Names]

\* No name begins with "..".
BeginsWith(entry, n) == <<n, entry.name>> \in Prefixes \/ (n = ".." /\ entry.name = n)

\* The first entry of a directory's block whose name begins with n.  One that
\* is not in use ends the search of the block.
Matches(d, n) == {s \in Slots : d.size > 0 /\ BeginsWith(entries[d.first][s], n)}

inode_for_name_in_directory(d, n) ==
    IF Matches(d, n) = {} THEN NoInode
    ELSE LET id == entries[d.first][FirstSlot(Matches(d, n))].id
         IN  IF id = 0 THEN NoInode ELSE inodes[id]

Start(p) == IF p.absolute THEN root_inode ELSE current_dir_inode

inode_from_path(p) ==
    inode_for_name_in_directory(
        IF p.dir = NoName THEN Start(p) ELSE inode_for_name_in_directory(Start(p), p.dir),
        p.name)

\* The parent of "/name" is read from disk, that of "name" is the cached inode.
parent_inode_from_path(p) ==
    IF p.dir # NoName THEN inode_for_name_in_directory(Start(p), p.dir)
    ELSE IF p.absolute THEN inodes[Root] ELSE current_dir_inode

\* The paths without a name.  fs_create_file(), fs_delete_file() and
\* fs_rename_file() refuse them; fs_make_dir() and fs_change_dir() do not.
SpecialPaths == {"/", ".", ".."}

\* inode_from_path() of "/" and of "." is the cached inode, as it is.
special_inode(path) ==
    IF path = "/" THEN root_inode
    ELSE IF path = "." THEN current_dir_inode
    ELSE inode_for_name_in_directory(current_dir_inode, "..")

\* parent_inode_from_path() of them: "." and ".." have no slash.
special_parent(path) == IF path = "/" THEN inodes[Root] ELSE current_dir_inode

\* A cached inode once directory d has changed.
Refreshed(cached, d) == IF cached.id = d.id THEN d ELSE cached

\* Variant: one of the two is refreshed.
RefreshCachesOnce(d) ==
    IF current_dir_inode.id = d.id THEN current_dir_inode' = d /\ UNCHANGED root_inode
    ELSE root_inode' = Refreshed(root_inode, d) /\ UNCHANGED current_dir_inode

RefreshCaches(d) ==
    /\ current_dir_inode' = Refreshed(current_dir_inode, d)
    /\ root_inode' = Refreshed(root_inode, d)

Calls == {"create", "mkdir", "rm"}

\* A mkdir of what exists: of a file or directory that a name leads to, of the
\* root directory, of the current directory or the one above it.
MadeAgain == {"made again", "root made again", "directory made again"}

\* The calls that were cut short and the special paths that were made again
\* count as files created, so that what is explored after them stays small.
Stopped == Cardinality(events \cap (Calls \cup {"root made again", "directory made again"}))

\* A call's locals; mkdir's path is looked up again once the file is there.
Idle == [call |-> "none", name |-> NoName, path |-> CHOOSE p \in Paths : TRUE,
         parent |-> NoInode, inode |-> NoInode, dir |-> NoInode, page |-> EmptyBlock]

Init ==
    /\ inode_bits = {0, Root}
    /\ data_bits = 0 .. FirstDataBlock
    /\ inodes = [i \in Ids |-> IF i = Root THEN RootInode ELSE NoInode]
    /\ entries = [b \in Blocks |->
                    IF b = FirstDataBlock THEN WithDots(EmptyBlock, Root, Root) ELSE EmptyBlock]
    /\ disk_superblock = [inode |-> Root + 1, data |-> FirstDataBlock + 1]
    /\ superblock = disk_superblock
    /\ root_inode = RootInode
    /\ current_dir_inode = RootInode
    /\ pc = "idle" /\ job = Idle
    /\ overwritten = {} /\ created = 0 /\ events = {}

-----------------------------------------------------------------------------
(* Writes                                                                  *)

At(step) == pc = step /\ overwritten = {}

\* update_inode_on_disk(): past the end of the inode blocks is the root directory.
WriteInode(i) ==
    /\ inodes' = [inodes EXCEPT ![i.id] = i]
    /\ overwritten' = IF i.id >= InodeRoom THEN {FirstDataBlock} ELSE {}

WriteBlock(b, page) ==
    /\ entries' = [entries EXCEPT ![b] = page]
    /\ overwritten' = {b} \cap SystemBlocks

-----------------------------------------------------------------------------
(* fs_create_file(), called by open() for a path that does not exist       *)

\* Variant: the first free inode bit is not looked for again.
SetInodeBitStale(p, call) ==
    /\ At("idle") /\ created + Stopped < MaxCreated
    /\ inode_from_path(p).id = 0 /\ parent_inode_from_path(p).id # 0
    /\ inode_bits' = inode_bits \cup {superblock.inode}
    /\ job' = [Idle EXCEPT !.call = call, !.name = p.name, !.parent = parent_inode_from_path(p),
                           !.path = IF call = "mkdir" THEN p ELSE @,
                           !.inode = [NoInode EXCEPT !.id = superblock.inode]]
    /\ pc' = "data bit"
    /\ created' = created + 1
    /\ events' = events \cup
         IF parent_inode_from_path(p).type = "file" THEN {"file as directory"} ELSE {}
    /\ UNCHANGED <<data_bits, inodes, entries, disk_superblock, memory, overwritten>>

SetInodeBit(p, call) ==
    /\ At("idle") /\ created + Stopped < MaxCreated
    /\ inode_from_path(p).id = 0 /\ parent_inode_from_path(p).id # 0
    /\ inode_bits' = inode_bits \cup {superblock.inode}
    /\ superblock' = [superblock EXCEPT !.inode = FirstFree(inode_bits', LastInode)]
    /\ job' = [Idle EXCEPT !.call = call, !.name = p.name, !.parent = parent_inode_from_path(p),
                           !.path = IF call = "mkdir" THEN p ELSE @,
                           !.inode = [NoInode EXCEPT !.id = superblock.inode]]
    /\ pc' = "data bit"
    /\ created' = created + 1
    /\ events' = events \cup
         IF parent_inode_from_path(p).type = "file" THEN {"file as directory"} ELSE {}
    /\ UNCHANGED <<data_bits, inodes, entries, disk_superblock, root_inode,
                   current_dir_inode, overwritten>>

\* Variant: the first free data bit is not looked for again.
SetDataBitStale ==
    /\ At("data bit")
    /\ data_bits' = data_bits \cup {superblock.data}
    /\ job' = [job EXCEPT !.inode.first = superblock.data]
    /\ pc' = "inode"
    /\ UNCHANGED <<inode_bits, inodes, entries, disk_superblock, memory, ghosts>>

SetDataBit ==
    /\ At("data bit")
    /\ data_bits' = data_bits \cup {superblock.data}
    /\ superblock' = [superblock EXCEPT !.data = FirstFree(data_bits', LastBlock)]
    /\ job' = [job EXCEPT !.inode.first = superblock.data]
    /\ pc' = "inode"
    /\ UNCHANGED <<inode_bits, inodes, entries, disk_superblock, root_inode,
                   current_dir_inode, ghosts>>

\* Whether one more entry takes the directory to another block.
Grows(d) == bytes_to_blocks((d.size + 1) % U32) > bytes_to_blocks(d.size)

WriteNewInode ==
    /\ At("inode")
    /\ WriteInode(job.inode)
    /\ pc' = IF Grows(job.parent) THEN "grow" ELSE "parent"
    /\ UNCHANGED <<bitmaps, entries, disk_superblock, memory, job, created, events>>

\* The search for the last extent in use ends one past the four there are: the
\* length that grows is in the fields of the indirect blocks.
GrowNextBlock ==
    /\ At("grow") /\ job.parent.first + 1 \notin data_bits
    /\ data_bits' = data_bits \cup {job.parent.first + 1}
    /\ job' = [job EXCEPT !.parent.past = @ + 1]
    /\ pc' = "clear"
    /\ UNCHANGED <<inode_bits, inodes, entries, disk_superblock, memory, ghosts>>

\* Variant: the first free data bit is not looked for again.
GrowElsewhereStale ==
    /\ At("grow") /\ job.parent.first + 1 \in data_bits
    /\ data_bits' = data_bits \cup {superblock.data}
    /\ pc' = "clear"
    /\ UNCHANGED <<inode_bits, inodes, entries, disk_superblock, memory, job, ghosts>>

\* A block is set in the bitmap, and no extent takes it.
GrowElsewhere ==
    /\ At("grow") /\ job.parent.first + 1 \in data_bits
    /\ data_bits' = data_bits \cup {superblock.data}
    /\ superblock' = [superblock EXCEPT !.data = FirstFree(data_bits', LastBlock)]
    /\ pc' = "clear"
    /\ UNCHANGED <<inode_bits, inodes, entries, disk_superblock, root_inode,
                   current_dir_inode, job, ghosts>>

\* The last block of an extent that starts at 0: the disk refuses block -1.
ClearNewBlock ==
    /\ At("clear")
    /\ IF job.parent.past = 0 THEN UNCHANGED <<entries, overwritten>>
       ELSE WriteBlock(job.parent.past - 1, EmptyBlock)
    /\ pc' = "parent"
    /\ UNCHANGED <<bitmaps, inodes, disk_superblock, memory, job, created, events>>

WriteParent ==
    /\ At("parent")
    /\ LET d == [job.parent EXCEPT !.size = (@ + 1) % U32]
       IN  WriteInode(d) /\ job' = [job EXCEPT !.parent = d]
    /\ pc' = "entry"
    /\ UNCHANGED <<bitmaps, entries, disk_superblock, memory, created, events>>

\* Variant: the entry goes to the end of the directory.
FreeSlotsEnd(d) == {d.size} \cap Slots

\* Entries in use are counted on the way, up to the directory's new size.
FreeSlots(d) == {s \in Slots : s <= d.size /\ entries[d.first][s].id = 0}

\* The caches are refreshed, then the superblock is written, whether or not
\* there was a slot for the entry.
WriteEntry ==
    /\ At("entry")
    /\ IF FreeSlots(job.parent) = {} THEN UNCHANGED <<entries, overwritten>>
       ELSE WriteBlock(job.parent.first,
                [entries[job.parent.first] EXCEPT ![FirstSlot(FreeSlots(job.parent))] =
                    [id |-> job.inode.id, name |-> job.name]])
    /\ RefreshCaches(job.parent)
    /\ pc' = "superblock"
    /\ events' = events \cup IF FreeSlots(job.parent) = {} THEN {"no slot"} ELSE {}
    /\ UNCHANGED <<bitmaps, inodes, disk_superblock, superblock, job, created>>

update_superblock ==
    /\ At("superblock")
    /\ disk_superblock' = superblock
    /\ IF job.call = "mkdir" THEN pc' = "dot" /\ UNCHANGED job
       ELSE pc' = "idle" /\ job' = Idle
    /\ UNCHANGED <<bitmaps, inodes, entries, memory, ghosts>>

fs_create_file ==
    \/ \E p \in Paths, call \in {"create", "mkdir"} : SetInodeBit(p, call)
    \/ SetDataBit \/ WriteNewInode
    \/ GrowNextBlock \/ GrowElsewhere \/ ClearNewBlock
    \/ WriteParent \/ WriteEntry \/ update_superblock

-----------------------------------------------------------------------------
(* fs_make_dir(): open() the path, creating it if need be, write the first *)
(* two entries, then make it a directory                                   *)

\* open() loads what there is of the file; the page of an empty one is as it was.
Loaded(file) == IF file.size = 0 THEN Junk ELSE {entries[file.first]}

\* Variant: every write adds to the size, also one that is not at the end.
AtLeastAdded(file, size) == [file EXCEPT !.size = @ + size]

AtLeast(file, size) == IF file.size < size THEN [file EXCEPT !.size = size] ELSE file

\* The first write() of the two updates the inode of the open file; the
\* directory's and its parent's are read again from the path.
WriteDot(file, dir, parent) ==
    \E page \in Loaded(file) :
        /\ WriteInode(AtLeast(file, 1))
        /\ job' = [Idle EXCEPT !.call = "mkdir", !.parent = parent, !.dir = dir,
                       !.inode = AtLeast(file, 1),
                       !.page = [page EXCEPT ![1] = [id |-> dir.id, name |-> "."]]]
        /\ pc' = "dot data"
        /\ UNCHANGED <<bitmaps, entries, disk_superblock, memory, created>>

MakeExisting(p) ==
    /\ At("idle") /\ inode_from_path(p).id # 0
    /\ WriteDot(inode_from_path(p), inode_from_path(p), parent_inode_from_path(p))
    /\ events' = events \cup {"made again"}

\* The root directory or the current one, or the one above it, is made again.
MakeSpecial(path) ==
    /\ At("idle") /\ special_inode(path).id # 0 /\ Cardinality(events) < MaxStopped
    /\ WriteDot(special_inode(path), special_inode(path), special_parent(path))
    /\ events' = events \cup
         {IF special_inode(path).id = Root THEN "root made again" ELSE "directory made again"}

MakeCreated ==
    /\ At("dot")
    /\ WriteDot(job.inode, inode_from_path(job.path), parent_inode_from_path(job.path))
    /\ UNCHANGED events

SaveDot ==
    /\ At("dot data")
    /\ WriteBlock(job.inode.first, job.page)
    /\ job' = [job EXCEPT !.inode = AtLeast(@, 2),
                          !.page[2] = [id |-> job.parent.id, name |-> ".."]]
    /\ pc' = "dotdot"
    /\ UNCHANGED <<bitmaps, inodes, disk_superblock, memory, created, events>>

WriteDotDot ==
    /\ At("dotdot")
    /\ WriteInode(job.inode)
    /\ pc' = "dotdot data"
    /\ UNCHANGED <<bitmaps, entries, disk_superblock, memory, job, created, events>>

SaveDotDot ==
    /\ At("dotdot data")
    /\ WriteBlock(job.inode.first, job.page)
    /\ pc' = "directory"
    /\ UNCHANGED <<bitmaps, inodes, disk_superblock, memory, job, created, events>>

\* A directory that was there before is cut to its first two entries.
WriteDirectory ==
    /\ At("directory")
    /\ WriteInode([job.dir EXCEPT !.type = "dir", !.size = 2])
    /\ RefreshCaches(job.parent)
    /\ pc' = "idle" /\ job' = Idle
    /\ UNCHANGED <<bitmaps, entries, disk_superblock, superblock, created, events>>

fs_make_dir ==
    \/ \E p \in Paths : MakeExisting(p)
    \/ \E path \in SpecialPaths : MakeSpecial(path)
    \/ MakeCreated \/ SaveDot \/ WriteDotDot \/ SaveDotDot \/ WriteDirectory

-----------------------------------------------------------------------------
(* fs_delete_file(), fs_rename_file(), fs_change_dir()                     *)

ClearData(p) ==
    /\ At("idle")
    /\ LET file == inode_from_path(p)
           parent == parent_inode_from_path(p)
       IN  /\ file.id # 0 /\ parent.id # 0 /\ file.type = "file"
           /\ WriteBlock(file.first, EmptyBlock)
           /\ job' = [Idle EXCEPT !.call = "rm", !.name = p.name, !.parent = parent, !.inode = file]
    /\ pc' = "rm data bit"
    /\ UNCHANGED <<bitmaps, inodes, disk_superblock, memory, created, events>>

ClearDataBit ==
    /\ At("rm data bit")
    /\ data_bits' = data_bits \ {job.inode.first}
    /\ pc' = "rm inode"
    /\ UNCHANGED <<inode_bits, inodes, entries, disk_superblock, memory, job, ghosts>>

ClearInode ==
    /\ At("rm inode")
    /\ inodes' = [inodes EXCEPT ![job.inode.id] = NoInode]
    /\ pc' = "rm inode bit"
    /\ UNCHANGED <<bitmaps, entries, disk_superblock, memory, job, ghosts>>

ClearInodeBit ==
    /\ At("rm inode bit")
    /\ inode_bits' = inode_bits \ {job.inode.id}
    /\ pc' = "rm entry"
    /\ UNCHANGED <<data_bits, inodes, entries, disk_superblock, memory, job, ghosts>>

\* Variant: entries past the directory's size are not looked at.
SlotsOfWithin(d, id) == {s \in Slots : s <= d.size /\ entries[d.first][s].id = id}

SlotsOf(d, id) == {s \in Slots : entries[d.first][s].id = id}

ClearEntry ==
    /\ At("rm entry")
    /\ IF SlotsOf(job.parent, job.inode.id) = {}
       THEN pc' = "idle" /\ job' = Idle /\ UNCHANGED <<entries, overwritten>>
       ELSE /\ WriteBlock(job.parent.first,
                   [entries[job.parent.first] EXCEPT
                       ![FirstSlot(SlotsOf(job.parent, job.inode.id))] = NoEntry])
            /\ pc' = "rm parent" /\ UNCHANGED job
    /\ UNCHANGED <<bitmaps, inodes, disk_superblock, memory, created, events>>

\* Only a quarter of the block's bytes are looked at.
LooksEmpty(b) == \A s \in Slots : 4 * (s - 1) < EntriesPerBlock => entries[b][s] = NoEntry

ReleasesBlock(d) == d.size % EntriesPerBlock = 0 /\ LooksEmpty(d.first)

ShrinkParent ==
    /\ At("rm parent")
    /\ LET d == [job.parent EXCEPT !.size = (@ - 1) % U32]
       IN  /\ WriteInode(d)
           /\ IF ReleasesBlock(d)
              THEN /\ job' = [job EXCEPT !.parent = d] /\ pc' = "rm parent bit"
                   /\ UNCHANGED <<current_dir_inode, root_inode>>
              ELSE job' = Idle /\ pc' = "idle" /\ RefreshCaches(d)
    /\ UNCHANGED <<bitmaps, entries, disk_superblock, superblock, created, events>>

ReleaseBlock ==
    /\ At("rm parent bit")
    /\ data_bits' = data_bits \ {job.parent.first}
    /\ RefreshCaches(job.parent)
    /\ job' = Idle /\ pc' = "idle"
    /\ UNCHANGED <<inode_bits, inodes, entries, disk_superblock, superblock, ghosts>>

fs_delete_file ==
    \/ \E p \in Paths : ClearData(p)
    \/ ClearDataBit \/ ClearInode \/ ClearInodeBit
    \/ ClearEntry \/ ShrinkParent \/ ReleaseBlock

\* The new name is not looked up: it may be one that is there already.
fs_rename_file(p, new) ==
    /\ At("idle")
    /\ LET file == inode_from_path(p)
           parent == parent_inode_from_path(p)
           slots == SlotsOf(parent, file.id)
       IN  /\ file.id # 0 /\ parent.id # 0 /\ slots # {}
           /\ WriteBlock(parent.first,
                  [entries[parent.first] EXCEPT ![FirstSlot(slots)] = [id |-> file.id, name |-> new]])
    /\ UNCHANGED <<bitmaps, inodes, disk_superblock, memory, pc, job, created, events>>

fs_change_dir(p) ==
    /\ At("idle")
    /\ inode_from_path(p).id # 0 /\ inode_from_path(p).type = "dir"
    /\ current_dir_inode' = inode_from_path(p)
    /\ UNCHANGED <<disk, superblock, root_inode, pc, job, ghosts>>

\* To "." nothing changes.
ChangeToSpecial(path) ==
    /\ At("idle")
    /\ special_inode(path).id # 0 /\ special_inode(path).type = "dir"
    /\ current_dir_inode' = special_inode(path)
    /\ UNCHANGED <<disk, superblock, root_inode, pc, job, ghosts>>

-----------------------------------------------------------------------------
\* The machine stops, in a call or between two, and init_fs_vars() starts from
\* what is on disk.  Between two calls a program's exit() does the same: it runs
\* the kernel's start again (syscalls.h:90-91, kernel.c:217-248).
Restart ==
    /\ overwritten = {}
    /\ pc = "idle" \/ (Cardinality(events) < MaxStopped /\ created < MaxCreated)
    /\ superblock' = disk_superblock
    /\ root_inode' = inodes[Root] /\ current_dir_inode' = inodes[Root]
    /\ pc' = "idle" /\ job' = Idle
    /\ events' = events \cup IF pc = "idle" THEN {} ELSE {job.call}
    /\ UNCHANGED <<disk, overwritten, created>>

Next ==
    \/ fs_create_file \/ fs_make_dir \/ fs_delete_file
    \/ \E p \in Paths : fs_change_dir(p) \/ \E new \in Names : fs_rename_file(p, new)
    \/ \E path \in SpecialPaths : ChangeToSpecial(path)
    \/ Restart

Spec == Init /\ [][Next]_vars

-----------------------------------------------------------------------------
(* Properties                                                              *)

\* Every variable has its type, and a call works on inodes and pages (fs.h).
TypeOK ==
    /\ inode_bits \subseteq Ids /\ data_bits \subseteq 0 .. LastBlock + 1
    /\ inodes \in [Ids -> Inodes]
    /\ \A b \in Blocks, s \in Slots : entries[b][s] \in Entries
    /\ superblock \in [inode : Ids, data : Blocks]
    /\ disk_superblock \in [inode : Ids, data : Blocks]
    /\ root_inode \in Inodes /\ current_dir_inode \in Inodes
    /\ job.path \in Paths /\ job.name \in Names \cup {NoName} /\ {job.parent, job.inode, job.dir} \subseteq Inodes
    /\ \A s \in Slots : job.page[s] \in Entries
    /\ overwritten \subseteq Blocks /\ created \in 0 .. MaxCreated
    /\ events \subseteq Calls \cup {"file as directory", "no slot"} \cup MadeAgain

\* The files there are: their bit is set and their inode is written.
Live == {i \in Ids \ {0} : i \in inode_bits /\ inodes[i].id = i}

\* Where a file is entered in a directory, other than as "." and "..".
Places == {q \in Blocks \X Slots : entries[q[1]][q[2]].name \in Names}

\* No two files have the same block, through every order of creating, deleting
\* and renaming and wherever creating a file or a directory is cut short
\* (fs_create_file(), fs_delete_file()); stopped deletes, entries made in files
\* and a mkdir of what exists apart, which NoSharedBlocks does not survive.
NoSharedBlocks ==
    events \cap ({"rm", "file as directory"} \cup MadeAgain) = {} =>
        \A i, j \in Live : i # j /\ inodes[i].first = inodes[j].first => inodes[i].first = 0

\* Between two calls, what a directory enters is a file: its bit is set, its
\* inode is its own and its block is allocated (the order of the writes in
\* fs_create_file() and fs_delete_file()); through directories without a slot, or
\* a mkdir of what exists, not through both.
EntryHasInode ==
    pc = "idle" /\ overwritten = {} /\ events \in {{}, {"no slot"}, {"made again"}} =>
        \A q \in Places :
            LET i == entries[q[1]][q[2]].id
            IN  i # 0 => i \in Live /\ inodes[i].first \in data_bits

\* No id is entered twice as long as no call is cut short and no file is used as
\* a directory (fs_create_file() takes an id that is free, fs_delete_file() clears the
\* entry with the id); through directories without a slot, or a mkdir of what
\* exists, not through both.
UniqueUntilStopped ==
    overwritten = {} /\ events \in {{}, {"no slot"}, {"made again"}} =>
        \A q, r \in Places :
            entries[q[1]][q[2]].id = entries[r[1]][r[2]].id /\ entries[q[1]][q[2]].id # 0 => q = r

\* Between two calls, the first free bits the superblock remembers are free ones:
\* deleting, which does not look for them again, and growing a directory into a
\* block elsewhere, which does, keep that so as long as no call is cut short.
\* Growing into the next block (fs_impl.h:423-429) does not look either, but goes
\* on to clear block 0 of the disk, where the model ends (GrowNextBlock).
FirstFreeIsFree ==
    pc = "idle" /\ overwritten = {} /\ events \cap {"create", "mkdir"} = {} =>
        /\ superblock.inode \in inode_bits => superblock.inode = 0
        /\ superblock.data \in data_bits => superblock.data = 0

\* Between two calls the kernel's copy of the root directory's inode, which every
\* absolute path starts from, is the one on disk, whatever directory is current
\* and through whichever path its entries changed, until a mkdir of the root
\* directory itself ("/", "." or ".."): that one writes the inode on disk
\* and puts what it had read before into the copy (fs_impl.h:639-668).
RootInStep ==
    pc = "idle" /\ overwritten = {} /\ "root made again" \notin events =>
        root_inode = inodes[Root]

\* Between two calls every file there is is entered in some directory, so that it
\* can be found and deleted (fs_create_file() takes "the first empty dir_entry",
\* fs_delete_file() and fs_rename_file() find theirs by id); calls cut short, a
\* file that was used as a directory, a directory without a slot and a mkdir of
\* what exists apart.
EveryFileEntered ==
    pc = "idle" /\ overwritten = {} /\ events = {} =>
        \A i \in Live \ {Root} : \E q \in Places : entries[q[1]][q[2]].id = i

=============================================================================
