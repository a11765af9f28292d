------------------------------ MODULE DiskImage ------------------------------
(***************************************************************************)
(* build/make_disk.c: the image of the disk, written in two passes over    *)
(* the directory tree on the machine that builds it.  The first pass       *)
(* counts files and blocks, the superblock and the bitmaps are written     *)
(* from the counts, and the second pass hands out inode ids and blocks     *)
(* as it goes.  Nothing compares the two: that they agree is what the      *)
(* kernel's file system relies on when it boots.                           *)
(*                                                                         *)
(* The image is a function of positions.  A position is as long as an      *)
(* inode or a directory entry (64 bytes both), PerBlock of them to a       *)
(* block; files are as long as the positions they fill.                    *)
(***************************************************************************)
EXTENDS Integers, Sequences, FiniteSets, FiniteSetsExt, SequencesExt, TLC

CONSTANTS
    Trees,          \* the trees the image may be made of
    PerBlock,       \* inodes, and directory entries, in a block
    DiskBlocks,     \* disk_size in blocks
    WordBits,       \* bits of a word of a bitmap
    BitsPerBlock    \* bits of a block

\* The disk of 1.44 MB has 360 blocks, a block of a bitmap 32768 bits.
ASSUME DiskAssumption ==
    /\ {PerBlock, DiskBlocks, WordBits, BitsPerBlock} \subseteq Nat \ {0}
    /\ DiskBlocks <= BitsPerBlock /\ BitsPerBlock % WordBits = 0

(***************************************************************************)
(* A tree is the sequence of what is found below the root, which is 0:     *)
(* its directory, what it is, how long, and whether it is 3rdstage.bin,    *)
(* which every build puts in one place.  What is neither a "file" nor a    *)
(* "dir" is "other", and so is a directory that cannot be opened: it is    *)
(* passed over, as EXIT_FAILURE is true.                                   *)
(***************************************************************************)

Root == 0
Dot == -1
DotDot == -2
BootloaderId == 2
RootId == 1

Null == [is |-> "null"]
Entry(id, name) == [is |-> "entry", id |-> id, name |-> name]
Inode(id, type, size, first, length) ==
    [is |-> "inode", id |-> id, type |-> type, size |-> size,
     first_block |-> first, length_blocks |-> length]
Data(node, at) == [is |-> "data", of |-> node, at |-> at]

VARIABLES
    tree,
    stage,              \* how far main() is
    num_files,
    file_blocks,
    superblock,
    inode_bits,         \* the bits that are set
    data_bits,
    image,              \* what was written, at each position
    next_inode_id,
    first_block,
    stack               \* the calls of write_file_data() under way

vars == <<tree, stage, num_files, file_blocks, superblock, inode_bits,
          data_bits, image, next_inode_id, first_block, stack>>

-----------------------------------------------------------------------------
Nodes == DOMAIN tree

Children(d) == SelectSeq([i \in Nodes |-> i], LAMBDA n : tree[n].parent = d)

Dirs == {Root} \cup {n \in Nodes : tree[n].kind = "dir"}

Files == {n \in Nodes : tree[n].kind = "file"}

bytes_to_blocks(size) == (size + PerBlock - 1) \div PerBlock

BlocksOfBits(n) == (n + BitsPerBlock - 1) \div BitsPerBlock

Written(at, what) == [p \in at .. (at + Len(what) - 1) |-> what[p - at + 1]] @@ image

Area(is, blocks) == [i \in 1 .. blocks * PerBlock |-> [is |-> is]]

Padding(size) == [i \in 1 .. (bytes_to_blocks(size) * PerBlock - size) |-> Null]

\* ftell() at the end of the file, in blocks.
ImageBlocks == bytes_to_blocks(Max(DOMAIN image) + 1)

-----------------------------------------------------------------------------
Init ==
    /\ tree \in Trees
    /\ stage = "count"
    /\ num_files = 0 /\ file_blocks = 0
    /\ superblock = <<>>
    /\ inode_bits = {} /\ data_bits = {}
    /\ image = <<>>
    /\ next_inode_id = 3
    /\ first_block = 0
    /\ stack = <<>>

\* Variant: "." and ".." are not counted.
CountedEntriesListed(d) == Len(Children(d))

\* The first pass starts from 2 and skips the two dots.
CountedEntries(d) == 2 + Len(Children(d))

get_file_info ==
    /\ stage = "count"
    /\ stage' = "superblock"
    /\ num_files' = Len(tree)
    /\ file_blocks' =
         MapThenSumSet(LAMBDA n : bytes_to_blocks(tree[n].size), Files)
         + MapThenSumSet(LAMBDA d : bytes_to_blocks(CountedEntries(d)), Dirs)
    /\ UNCHANGED <<tree, superblock, inode_bits, data_bits, image, next_inode_id,
                   first_block, stack>>

\* The boot block and the superblock, blocks 0 and 1.
write_superblock ==
    /\ stage = "superblock"
    /\ stage' = "bitmaps"
    /\ LET num_inodes == num_files + 2
           inode_bitmap_blocks == BlocksOfBits(num_inodes)
           first_data_bitmap == 2 + inode_bitmap_blocks
           inode_blocks == bytes_to_blocks(num_inodes)
           data_bitmap_blocks ==
             BlocksOfBits(DiskBlocks - first_data_bitmap - inode_blocks - 1)
           first_inode == first_data_bitmap + data_bitmap_blocks
           first_data == first_inode + inode_blocks
       IN  superblock' =
             [num_inodes |-> num_inodes,
              first_inode_bitmap_block |-> 2,
              first_data_bitmap_block |-> first_data_bitmap,
              first_inode_block |-> first_inode,
              first_data_block |-> first_data,
              num_data_blocks |-> first_data + file_blocks,
              first_free_inode_bit |-> num_inodes,
              first_free_data_bit |-> first_data + file_blocks]
    /\ image' = Written(0, Area("boot", 1) \o Area("superblock", 1))
    /\ UNCHANGED <<tree, num_files, file_blocks, inode_bits, data_bits, next_inode_id,
                   first_block, stack>>

\* The bits are set by whole words and then what is left of one.
BitsSet(n) ==
    {w * WordBits + b : w \in 0 .. (n \div WordBits) - 1, b \in 0 .. WordBits - 1}
    \cup {(n \div WordBits) * WordBits + b : b \in 0 .. (n % WordBits) - 1}

Words(n) == (n + WordBits - 1) \div WordBits

\* A bitmap that ends with its block is padded by nothing, and fwrite() of
\* nothing is not 1.
PaddingAsserts(n) == (Words(n) * WordBits) % BitsPerBlock = 0

write_bitmap_blocks ==
    /\ stage = "bitmaps"
    /\ LET i == superblock.num_inodes
           d == superblock.num_data_blocks
       IN  /\ stage' = IF PaddingAsserts(i) \/ PaddingAsserts(d) THEN "aborted" ELSE "root"
           /\ inode_bits' = BitsSet(i)
           /\ data_bits' = BitsSet(d)
           /\ image' = Written(2 * PerBlock, Area("inode_bitmap", BlocksOfBits(i))
                                               \o Area("data_bitmap", BlocksOfBits(d)))
    /\ UNCHANGED <<tree, num_files, file_blocks, superblock, next_inode_id, first_block,
                   stack>>

-----------------------------------------------------------------------------
\* The second pass counts all that readdir() returns.
DirEntries(d) == Len(<<Dot, DotDot>> \o Children(d))

\* What write_file_data() begins with: the directory's inode and its entries
\* "." and "..".  pos is where its next entry goes.
BeginDirectory(d, id, parent, at, written, calls) ==
    LET size == DirEntries(d)
        inode == Inode(id, "dir", size, at, bytes_to_blocks(size))
    IN  /\ image' =
             [p \in {at * PerBlock, at * PerBlock + 1} |->
                IF p = at * PerBlock THEN Entry(id, Dot) ELSE Entry(parent, DotDot)]
             @@ [p \in {superblock.first_inode_block * PerBlock + id} |-> inode]
             @@ written
        /\ first_block' = at + bytes_to_blocks(size)
        /\ stack' = Append(calls, [dir |-> d, id |-> id, next |-> 1, pos |-> at * PerBlock + 2])

write_root ==
    /\ stage = "root"
    /\ stage' = "tree"
    /\ BeginDirectory(Root, RootId, RootId, superblock.first_data_block, image, <<>>)
    /\ UNCHANGED <<tree, num_files, file_blocks, superblock, inode_bits, data_bits,
                   next_inode_id>>

Call == Last(stack)

\* The call with its place in the directory after one more entry.
Advanced == ReplaceAt(stack, Len(stack), [Call EXCEPT !.next = @ + 1, !.pos = @ + 1])

IdFor(n) == IF tree[n].boot THEN BootloaderId ELSE next_inode_id

\* The entry of the next child n, with its id, in the directory's data.
WriteEntry(n) ==
    /\ stage = "tree" /\ stack # <<>>
    /\ Call.next <= Len(Children(Call.dir))
    /\ n = Children(Call.dir)[Call.next]
    /\ next_inode_id' = IF tree[n].boot THEN next_inode_id ELSE next_inode_id + 1
    /\ UNCHANGED <<tree, stage, num_files, file_blocks, superblock, inode_bits, data_bits>>

WithEntry(n) == Written(Call.pos, <<Entry(IdFor(n), n)>>)

WriteFile(n) ==
    /\ WriteEntry(n)
    /\ tree[n].kind = "file"
    /\ LET size == tree[n].size
           inode == Inode(IdFor(n), "file", size, first_block, bytes_to_blocks(size))
           data == [i \in 1 .. size |-> Data(n, i)] \o Padding(size)
           at == first_block * PerBlock
       IN  image' = [p \in at .. (at + Len(data) - 1) |-> data[p - at + 1]]
                    @@ [p \in {superblock.first_inode_block * PerBlock + IdFor(n)} |-> inode]
                    @@ WithEntry(n)
    /\ first_block' = first_block + bytes_to_blocks(tree[n].size)
    /\ stack' = Advanced

WriteDirectory(n) ==
    /\ WriteEntry(n)
    /\ tree[n].kind = "dir"
    /\ BeginDirectory(n, IdFor(n), Call.id, first_block, WithEntry(n), Advanced)

\* What is neither has an entry, an id and no inode.
WriteEntryOnly(n) ==
    /\ WriteEntry(n)
    /\ tree[n].kind = "other"
    /\ image' = WithEntry(n)
    /\ stack' = Advanced
    /\ UNCHANGED first_block

EndDirectory ==
    /\ stage = "tree" /\ stack # <<>>
    /\ Call.next > Len(Children(Call.dir))
    /\ image' = Written(Call.pos, Padding(DirEntries(Call.dir)))
    /\ stack' = Front(stack)
    /\ UNCHANGED <<tree, stage, num_files, file_blocks, superblock, inode_bits, data_bits,
                   next_inode_id, first_block>>

\* The blocks that are missing are counted without a sign: an image that is
\* longer than the disk is padded until there is no more room for it.
PadImage ==
    /\ stage = "tree" /\ stack = <<>>
    /\ stage' = IF ImageBlocks <= DiskBlocks THEN "done" ELSE "padding"
    /\ UNCHANGED <<tree, num_files, file_blocks, superblock, inode_bits, data_bits, image,
                   next_inode_id, first_block, stack>>

Next ==
    \/ get_file_info
    \/ write_superblock
    \/ write_bitmap_blocks
    \/ write_root
    \/ \E n \in Nodes : WriteFile(n) \/ WriteDirectory(n) \/ WriteEntryOnly(n)
    \/ EndDirectory
    \/ PadImage

Spec == Init /\ [][Next]_vars

-----------------------------------------------------------------------------
\* Reading the image as the kernel does, from the superblock on.
Read(p) == IF p \in DOMAIN image THEN image[p] ELSE Null

InodeAt(id) == Read(superblock.first_inode_block * PerBlock + id)

InData(inode, i) == Read(inode.first_block * PerBlock + i - 1)

Entries(id) == [i \in 1 .. InodeAt(id).size |-> InData(InodeAt(id), i)]

\* The id under which each node is entered, found from the root down.
IdOf ==
    LET id[n \in {Root} \cup Nodes] ==
          IF n = Root THEN RootId
          ELSE LET es == Entries(id[tree[n].parent])
               IN  (CHOOSE e \in {es[i] : i \in DOMAIN es} : e = Entry(e.id, n)).id
    IN  id

Kept == Dirs \cup Files

Extent(inode) == inode.first_block .. (inode.first_block + inode.length_blocks - 1)

\* A directory's entries are its own, its parent's and its children's.
HoldsDirectory(d) ==
    LET parent == IF d = Root THEN Root ELSE tree[d].parent
    IN  /\ InodeAt(IdOf[d]).type = "dir"
        /\ Entries(IdOf[d]) =
             <<Entry(IdOf[d], Dot), Entry(IdOf[parent], DotDot)>>
             \o [i \in DOMAIN Children(d) |-> Entry(IdOf[Children(d)[i]], Children(d)[i])]

HoldsFile(n) ==
    /\ InodeAt(IdOf[n]).type = "file" /\ InodeAt(IdOf[n]).size = tree[n].size
    /\ \A i \in 1 .. tree[n].size : InData(InodeAt(IdOf[n]), i) = Data(n, i)

\* Whatever the tree, an image that is finished gives the tree back when it is
\* read from its superblock on, no two files share an id or a block, and the
\* bitmaps and the first free bits the kernel starts from, written before any
\* file was, mark just what the files took: the count of get_file_info() and
\* the layout of write_superblock() against write_file_data().
ImageHoldsTree ==
    stage = "done" =>
      /\ \A d \in Dirs : HoldsDirectory(d)
      /\ \A n \in Files : HoldsFile(n)
      /\ \A n \in Kept : InodeAt(IdOf[n]).id = IdOf[n]
      /\ \A m, n \in Kept :
           m # n => Extent(InodeAt(IdOf[m])) \cap Extent(InodeAt(IdOf[n])) = {}
      /\ \A m, n \in {Root} \cup Nodes : m # n => IdOf[m] # IdOf[n]
      /\ inode_bits = {0} \cup {IdOf[n] : n \in {Root} \cup Nodes}
      /\ data_bits = (0 .. superblock.first_data_block - 1)
                     \cup UNION {Extent(InodeAt(IdOf[n])) : n \in Kept}
      /\ superblock.first_free_inode_bit = Max(inode_bits) + 1
      /\ superblock.first_free_data_bit = Max(data_bits) + 1
      /\ \A p \in 0 .. superblock.first_inode_block * PerBlock - 1 :
           Read(p).is \in {"boot", "superblock", "inode_bitmap", "data_bitmap"}

=============================================================================
