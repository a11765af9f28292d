# QuesOS in TLA+

TLA+ specifications of the kernel in this repository (`queso-fuego/amateuros`), the
TLC configurations that check them on small instances, and proofs, checked by TLAPS,
that hold for every value of the constants. Paths below are those of the repository's
root, for example `src/kernel.c` and `include/fs/fs_impl.h`.

- [1. The system](#1-the-system): inventory of components and of what is hard about them
- [2. The modules](#2-the-modules): which module models what, and how
- [3. The runs](#3-the-runs): what TLC checks, within which bounds
- [4. The proofs](#4-the-proofs)
- [5. What does not hold](#5-what-does-not-hold)
- [6. What is not modelled](#6-what-is-not-modelled)
- [7. What to prove next](#7-what-to-prove-next)

To check a model: `tlc -config MCFileSystem.cfg MCFileSystem.tla`. To check a proof:
`tlapm OpenFiles_proofs.tla`. PROJECT.json lists the runs, the source lines every
definition stands for, the hazards and which property watches each, and a mutation of
the model per property that the property catches.

## 1. The system

A 32 bit protected mode kernel for one processor, one program at a time. A boot
loader reads the BIOS memory map, `3rdstage.c` sets up the physical memory manager and
paging and jumps to `kernel_main()`. The shell runs commands or loads an ELF program,
which calls the kernel through `int 0x80`. There are no threads: what runs concurrently
are the interrupt handlers (timer, keyboard, clock, page fault) and whatever they
interrupt.

### Components

| Component | State | Operations | Talks to |
|---|---|---|---|
| Physical memory manager (`memory/physical_memory_manager.h`) | `memory_map` (a bit per block), `max_blocks`, `used_blocks` | regions set free and reserved at boot; `allocate_blocks`, `free_blocks` | everything that maps memory |
| Virtual memory manager (`memory/virtual_memory_manager.h`) | page directory and tables, `current_page_directory` | `map_page`, `unmap_page`, `allocate_page`, `free_page`, directories per process | physical memory, file calls, heap, processes |
| Heap (`memory/malloc.h`) | list of blocks, number of pages | `malloc_next_block`, split, merge, `malloc_free` | physical and virtual memory |
| File calls (`interrupts/syscalls.h`, `fs/fs.h`) | `open_file_table`, `open_inode_table`, next file address | `open`, `close`, `read`, `write`, `seek` | file system on disk, paging, disk |
| File system on disk (`fs/fs_impl.h`) | superblock, two bitmaps, inodes, directories; in memory the superblock, root's inode and the current directory's | create, mkdir, delete, rename, cd | disk; called by the shell and by `open` and `write` |
| Image builder (`build/make_disk.c`) | counts, superblock, next id and block | count the tree, write the layout, write the tree | runs where the kernel is built; its image is what the kernel boots from |
| Disk driver (`disk/file_ops.h`) | ATA registers, `temp_sector` | `rw_sectors` | file system, file calls |
| Keyboard (`interrupts/pic.h`, `keyboard/keyboard.h`) | shift, control and E0 flags, `rewind_file`; the file stdin | the interrupt handler, `get_key` | file calls on descriptor 0 |
| Timer (`interrupts/pic.h`) | `sleep_timer_ticks` | tick, `syscall_sleep` | whoever sleeps |
| Clock (`interrupts/pic.h`) | date and time read from the CMOS | interrupt, conversion | `time()` |
| Page fault and other exceptions (`interrupts/exceptions.h`) | - | maps a fresh block at the faulting address | paging, physical memory |
| Processes (`process/process.h`, `syscall_exit`) | process, its page directory, stack and arguments | create, execute, exit | paging, file calls, shell |
| Shell (`src/kernel.c`) | input line and its length, current directory, `first_boot` | key loop, tokenizer, commands; started again by every exit | everything |
| ELF loader (`elf/elf.h`) | - | load, relocate | processes |
| Terminal (`terminal/terminal.h`) | cursor, colours, the screen | characters, escapes, scrolling | shell, programs |
| Editor (`pgms/editor.c`) | buffer, cursor, counts, unsaved mark | one handler per key | file calls, keyboard, terminal |
| printf, graphics, sound, fonts, strings | | output, loops over bytes | screen, speaker |
| Calculator, hello, tests, boot loader | | | callers of the above |

### What is hard

- **Interleaving.** `get_key()` is a loop of system calls; the keyboard handler runs
  between any two and moves the offset the two share. `flush_tlb_entry()` ends with
  `sti`, so a system call does not stay uninterruptible. The shell calls the file system
  with interrupts on, and the keyboard handler uses the same sector buffer and the same
  disk registers.
- **Crash and restart.** Creating or deleting a file is up to eight disk writes; the
  superblock with the first free bits comes last, and nothing compares it with the bitmaps
  at boot.
- **Several records of one thing.** The bitmap and `used_blocks`; an inode on disk, in
  `open_inode_table`, as root's and as the current directory's copy; the first free bits and
  the bitmaps; pages mapped and `pages_allocated`.
- **Limits.** Tables of 256, whose search uses the slot behind them when they are full; a
  directory block of 64 entries; a stdin file of 1365 records; refused physical blocks, which
  most callers do not test for; unsigned arithmetic on sizes and offsets.
- **Protocol.** Programs leave files open; a directory is made again; a file is used as a
  directory; two descriptors of one file; blocks of the heap split, merged and extended in any
  order; exit takes a program's address space down and leaves the processor's translations.
- **Hardware that moves.** The clock changes its registers one by one while its handler reads
  them one by one.
- **Two passes that must agree.** `make_disk` writes bitmaps from a first count and files in a
  second pass.

What makes each component correct: the memory manager never hands out a block that is held
or reserved; a descriptor keeps its file, its pages and its table entry; the file system
never shares a block or an id, never loses a file and agrees with its cached copies; a key is
returned once, in order, and in the end; a byte of the heap has one holder; a program runs what
was loaded, in blocks nobody else has; the time is one the clock has shown; the screen shows the
line that enter runs; a key changes no more of a text than its place; an image holds the tree
it was made of.

## 2. The modules

| Module | Extends | What it is |
|---|---|---|
| `FramePool` | | what the physical memory manager promises: runs of blocks nobody else holds |
| `PhysicalMemory` | | the bitmap, boot and the calls after it; `PoolSpec` is `FramePool` |
| `OpenFiles` | | the five file calls over both tables, pages and inodes |
| `FileSystem` | | the file system, write by write, with the machine stopping |
| `Keyboard` | | from the interrupt handler to `get_key()` |
| `HeapRanges` | | what `malloc()` promises: ranges of bytes with one holder |
| `Heap` | | the list of blocks; `RangesSpec` is `HeapRanges` |
| `Processes` | | a program's life in the page table: create, run, fault, grow, exit |
| `TextBuffer` | | what an editor promises: a text edited one character at a time |
| `TextEditor` | | the editor, one action per key; `BufferSpec` is `TextBuffer` |
| `Console` | | the shell's line, the terminal under it, the tokenizer behind it |
| `Clock` | | the CMOS clock and the handler that reads it |
| `DiskImage` | | `make_disk`: both passes and what they write |
| `MC...` | the module of that name | values for the constants |
| `..._proofs` | the module of that name, `TLAPS` | its theorems |

Every module marks variants of a definition with `\* Variant:`. A variant is the
definition with a plausible mistake in it; nothing else in the module uses it. Replacing
the definition by the variant makes the property it is paired with fail.

### PhysicalMemory and FramePool

`memory_map` is the set of blocks whose bit is set. `pc` and `turn` walk through what
`3rdstage.c` does, in its order: `initialize_memory_manager` sets all bits, one
`initialize_memory_region` per usable BIOS area clears some, `ReserveOS`, `ReserveMap` and
`ReserveFont` set some again, a block is requested for each of two page tables, three for the
page directory and one per 4 MB of the framebuffer, which is then reserved.
From `pc = "run"` on, `allocate_blocks(n)` and `free_blocks(b)` come in any order. A caller
gives back only what it holds, as all callers do.

`FirstFree` is `find_first_free_blocks()`: the first start in the words the loop visits
(`Scanned`, whole words only) whose next `n` bits are clear, each looked up as the code does
(`BitTested`, with its step into the next word). `Granted` and `Refused` are the outcomes of
`allocate_blocks()`, which refuses by the count first. `holders` is a ghost: how many callers
hold each block.

### OpenFiles

The two tables are functions over `0 .. MaxOpenFiles` and `0 .. MaxOpenInodes`: the searches
run to the table's size and use the slot they stop at, so the last index is the memory behind
the table. `disk` is the inode of each file, `page_table` says whether a page of the file area
is mapped to a block, to block 0 (a refused allocation) or to nothing, `next_page` is
`next_available_file_virtual_address`. Each call is one action with its early returns
(`OpenRefused`, `AccessRefused`) and its loops; a `read` or `write` that faults or runs over
all of memory is an action of its own (`ReadFaults`, `WriteRunsAway`...) that ends in
`halted`. The page fault handler's mapping of a fresh block is part of the access that faults.
Contents of files are left out; the ghost `last` is the call that ran last.

`shell` is a program's exit and the shell that starts after it, as far as files go: both tables and the
pages stay as they are and `next_page` is the first page again (`kernel.c:223`). The ghost `left` is the
descriptors that were open at the last exit, those an earlier program left included, until they are
closed.

Descriptors are counted after stdin, stdout and stderr, which boot opens and which an exit closes and
opens again where they were; a descriptor number past the table is not modelled.

### FileSystem

On disk: two sets of bits, the inodes, the entries of each data block and the first free bits.
In memory: the superblock and two cached inodes. `fs_create_file`, `fs_make_dir` and
`fs_delete_file` are sequences of steps, one per disk write, with `pc` at the next one and the
call's local variables in `job`; renaming and changing directory are one step. `Restart` stops
the machine at any step and boots from what is on disk; between two calls it stands for a program's
exit as well, which runs `init_fs_vars()` again. Paths have at most one directory before
the name, absolute or relative, and names match as in the code: by prefix (`BeginsWith`), first
entry first. The paths without a name, `/`, `.` and `..` (`SpecialPaths`), are refused by create, `rm` and `ren` and
taken by `mkdir` (`MakeSpecial`) and `cd` (`ChangeToSpecial`).

The ghost `events` records what has gone out of the ordinary, for properties that hold until
then: which calls were cut short, that a file was used as a directory, that a file found no slot
in its directory, that mkdir was called for what exists: for a path with a name, for root, or for another
directory by `.` or `..`. When something is written over a block of
the system, `overwritten` is set and the model goes no further.

Left out: files' contents (they stay empty; writing them is in `OpenFiles`), `ls`, and four shapes of paths:
more than one directory on the way; `.` or `..` with something before or behind it, such as `/.` and `../a`; a slash at the
end (`mkdir a/`), with which the file is its own parent; and `//`. The search loops read one entry past a full block; that
entry is taken not to match. `find_first_free_bit_in_disk_blocks()` is modelled for bitmaps of
one block, which is what `make_disk` writes.

### Keyboard

`slots` is stdin in records of `key_info_t`, `offset` the one offset of descriptor 0.
`get_key()`'s loop is a program counter: read, step back, sleep, read again; then step back
and erase. Each system call is a step. `keyboard_irq1_handler` does its seek, write and test of
the offset in one step, as it runs with interrupts off, between any two of the reader's.
`timer_irq0_handler` counts the sleep down. A record is a key of this session, numbered by its
press, a key of the last session (`OldKey`) or null. Left out: translating scancodes and the
shift, control and E0 keys, which write nothing; that `exit()` closes stdin and the shell opens
it again.

### Heap and HeapRanges

`list` is the list from `malloc_list_head` on, a sequence of nodes with the address of their
header. The cases of `malloc_next_block()` are actions by the node its search ends at (`Found`):
`MallocExact`, `MallocSplit`, `MallocGrows` by pages, and `MallocHangs`, when a `uint8_t` cannot
count the pages that are needed. `malloc_free` has the merge, with the node it skips after each.
`init_malloc` is a new shell: the list starts over. `held` is a ghost, the ranges callers have. The
ghost `damaged` is set by a call in one of two cases (`Damages`), each of which does break the
properties: the search ends at the last node while somebody holds it, or at a node in the middle that
is larger than the size by no more than a header, which is extended over its neighbour.

### Processes

Addresses are the pages that one page table maps from `malloc_start` on; `map` is the table,
`tlb` what the processor has kept of it. An access takes the kept translation or the table's; a
translation may be dropped at any time, and loading cr3 drops all. `create_process` takes
blocks for the file's pages (given back by its close), a table, the program, the stack and the
arguments, writing through whatever translation it meets; `CreateNotElf` is a file the loader
refuses. `execute_process`, `UserFault`, `syscall_malloc` and `syscall_exit` follow. `home` is a
ghost, the block a page's data was written to. `damage` says which of three things happened: a
kept translation was used for a page that had changed ("stale"), the heap grew over the
stack ("overrun"), a block was refused ("refused"). Blocks are below 4 MB, which boot maps one to
one, so that the mapping `create_page_table()` makes of a new table's block is there already; a block from 4 MB up
is not, and clearing it as a table would fault.

### TextEditor and TextBuffer

The buffer, its offset and the cursor are variables as in the code; a character is a letter or a
newline. Every case of the two switches is an action. `UpRunsAway` and `DeleteLineRunsAway` are
searches and copies that leave the buffer. `Damages` lists the seven cases in which a key
loses the text or the place in it (section 5); a session is followed up to the first. Drawing
changes nothing and is left out.

### Console

`cmdString` and `input_length` are the shell's, `terminal` is cursor and cells. A key changes the
string and goes through `terminal_write()`: wrap at the right edge, scroll at the bottom, the
three steps of a backspace. `X` is unsigned: a step back from 0 ends at its largest value, and the next glyph takes it
to column 0, with a line feed if it was more than one step out (`Advanced`). `Enter` cuts the string in place;
`argc` and `argv` are what it finds, in as many slots as the array has. A line with more tokens is written behind the array
(`ArgvOverrun`), and the model does not follow it. `typed` is a ghost, the line as it was
typed. Escape sequences the shell prints are taken at their effect; the
escape key is a key that is held and not shown.

### Clock

The clock raises its flag, changes the registers in any order and lowers it; the handler's steps
are one look at the flag or one register each, then the conversion of BCD and 12 hours. The clock
is external: its definitions are written from the handler's reads and from how such clocks are
documented to behave. Nothing bounds the time between two of the handler's steps.

### DiskImage

The tree is a variable, chosen at the start. `get_file_info` is the first pass. The image is a
function of positions, each as long as an inode or an entry, written by the second pass: `stack`
holds the calls of `write_file_data()` with their place in the directory. Three ways to end: "done",
"aborted" when a bitmap fills its last block and an assertion about its padding fails, and "padding"
when the tree is larger than the disk and the missing blocks are counted without a sign.
Failing calls of the host are left out, but for a directory that cannot be opened: it is then an
entry without an inode, as what is neither file nor directory.

## 3. The runs

| Run | Config | States | Shows |
|---|---|---|---|
| `physical_memory` | `MCPhysicalMemory.cfg` | 4 thousand | no block is held twice, reserved areas stay so also when boot's own requests are refused, the count follows the bits, the manager implements the pool |
| `open_files` | `MCOpenFiles.cfg` | 1.2 million | tables agree with the disk, entries are unique, no block freed twice, no file cut short, also over an exit with files open; what is opened after it is apart |
| `file_system` | `MCFileSystem.cfg` | 903 thousand | no shared blocks or ids, entries and inodes agree, cached copies agree, no file is lost |
| `disk_image` | `MCDiskImage.cfg` | 40 thousand | a finished image gives its tree back and its bitmaps are right |
| `keyboard` | `MCKeyboard.cfg` | 117 thousand | keys come in order and once; a key at the end of the file comes |
| `heap` | `MCHeap.cfg` | 22 thousand | nodes tile the heap, holders have nodes, the list implements ranges |
| `processes` | `MCProcesses.cfg` | 22 thousand | blocks stay apart, a program finds what was loaded |
| `text_editor` | `TextEditor.cfg` | 121 thousand | counts, line and offset in step; the buffer implements a text; unsaved changes show |
| `console` | `Console.cfg` | 259 thousand | the screen shows the line; argv is its words |
| `clock` | `MCClock.cfg` | 106 thousand | what is stored was shown; the handler returns |
| `kernel_not_reserved` | `MCPhysicalMemory_kernel.cfg` | | a comment the code does not keep, section 5 |
| `open_files_write` | `MCOpenFiles_write.cfg` | | likewise |

Every action and every disjunct of every `Next` fires in a passing run.

### Bounds

- *PhysicalMemory*: 17 blocks in words of 3 bits, so that the last word is not whole and
  usable memory ends one block after the manager's count; requests of 1 block and of 4, which
  crosses a word boundary from any start and can run past the last whole word; three memory
  maps, two of them too small for boot's own requests. No caller in the kernel asks
  for more than 33 blocks, that is `WordBits + 1` (`RequestsAssumption`). The word of
  `used_blocks` wraps at `CountModulus`. After boot all orders of allocating and freeing are explored,
  to exhaustion.
- *OpenFiles*: two files, one to be created; two descriptors and one inode entry plus the slot
  behind each, so that both tables overflow; pages of two cells, reads and writes of three and seeks by
  -3 and 4, so that a write stays in its pages, takes the next, or leaves a gap; two physical blocks,
  so that allocations are refused; reference counts modulo 3, so that they wrap. `LastPage` and
  `MaxOffset` are bounds in guards; two pages are enough for a file that grows over its neighbour's, and after an
  exit for one that is opened over another's. One exit, at any moment (`MaxExits`). `open_files_write` has larger tables
  and no exit.
- *FileSystem*: four entries per block, two of them `.` and `..`, so that directories fill up;
  five blocks and five inodes; two names, one how the other begins; three files created
  (`MaxCreated`), one call cut short or one special path made again, while nothing else is out of the
  ordinary (`MaxStopped`);
  pages either clear or full of old data.
- *DiskImage*: all trees of up to four nodes, in every order; files of no, one and two blocks; three
  entries to a block, so that directories and inodes need one block or two; a disk of 13 blocks, so that
  some trees do not fit; bitmaps of 16 bits in words of 2.
- *Keyboard*: a file that is full at four records, up to three of them left over; five
  presses; a sleep of two ticks.
- *Heap*: pages of 8 bytes, headers of 2, up to three pages; sizes of 0, 1, 2, a whole page and one
  beyond what `num_pages`, modulo 4, can count.
- *Processes*: fourteen blocks, three programs of one or two pages, growth by one or two, six pages
  of heap: the heap reaches stack and arguments, and what exit leaves uses memory up.
- *TextEditor*: files of up to two characters, texts of up to four, all keys in all orders. The 64 of
  `U32Modulus` is only far from every count.
- *Console*: three columns, four rows, a line of seven bytes, three arguments, eight keys: lines wrap, scroll,
  overrun their counter and ask for more arguments than there are slots. X goes round at 16, far from the columns.
- *Clock*: three start times, at the end of a year, of a morning and of noon's hour, two interrupts
  that read with two updates after each, BCD or binary, 12 or 24 hours.

`CHECK_DEADLOCK FALSE` is set where the model may stop: when the machine has halted or hangs
(`OpenFiles`, `Heap`), something was overwritten or damaged (`FileSystem`, `TextEditor`), the editor or
the clock's handler has returned, the image is finished, or a bound is reached (`Processes`, `Console`).
`PhysicalMemory` and `Keyboard` never deadlock.

### Fairness

`Keyboard`: weak fairness of the reader, since its program runs whenever no
interrupt handler does and comes back for the next key, and of the timer, whose interrupt is
periodic. Nothing is assumed of the keyboard. `TimelyKeyIsReturned` needs both, and it is
stated for a key typed at the end of the file and not followed by another before it is read: two
presses within one poll of the reader do lose the earlier (section 5).

`Clock`: weak fairness of the handler's next step, which nothing interrupts, and of an update of
the clock once it is begun, which is hardware and takes two milliseconds. Nothing is assumed about
when updates begin, and between two interrupts they are finitely many (`MaxSeconds`): `HandlerReturns` says that the loop
ends once they leave it time for one reading, which in the machine is a second against some
microseconds.

## 4. The proofs

| Theorem | Module | Statement |
|---|---|---|
| `TypeCorrect` | `PhysicalMemory_proofs` | `[]TypeOK` |
| `NoBlockHeldTwice` | | `[]NoBlockTwice` |
| `SystemAreasReserved` | | `[]SystemAreasKept` |
| `ImplementsPool` | | `PoolSpec`: the manager refines `FramePool` |
| `CountMovesWithMap` | | `AccountingConserved`, if `AreasFit` and `CountFits` |
| `OneEntryPerFile` | `OpenFiles_proofs` | `[]OneInodePerId` |
| `TableAgreesWithDisk` | | `[]InodeCoherent` |
| `NoFileIsCut` | | `SizeNeverShrinks` |
| `TypeCorrect` | | `[]TypeOK` |
| `DescriptorsApart` | | `[]BasesDistinct` |
| `FramesKept` | | `[]NoDoubleFree` |
| `OwnEntryOnly` | | `DescriptorsKept` |
| `TypeCorrect` | `Keyboard_proofs` | `[]TypeOK` |
| `KeysInOrder` | | `InOrderUntilFull` |
| `TypeCorrect` | `FileSystem_proofs` | `[]TypeOK` |
| `RootFollowsDisk` | | `[]RootInStep` |
| `RememberedBitsFree` | | `[]FirstFreeIsFree` |
| `BlocksOfFilesApart` | | `[]NoSharedBlocks`, if `MaxCreated + 2 < U32` |
| `EntriesHaveInodes` | | `[]EntryHasInode`, likewise |
| `IdsEnteredOnce` | | `[]UniqueUntilStopped`, likewise |
| `FilesAreEntered` | | `[]EveryFileEntered`, likewise |
| `TypeCorrect` | `Heap_proofs` | `[]TypeOK` |
| `HeapIsTiled` | | `[]Tiled` |
| `HoldersHaveNodes` | | `[]NodesAreHeld` |
| `ImplementsRanges` | | `RangesSpec`: the list refines `HeapRanges` |
| `TypeCorrect` | `Processes_proofs` | `[]TypeOK` |
| `BlocksApart` | | `[]FramesApart` |
| `ProgramIsWhatWasLoaded` | | `[]LoadedIsRun` |
| `TypeCorrect` | `TextEditor_proofs` | `[]TypeOK` |
| `CountsInStep` | | `[]InStep` |
| `ImplementsBuffer` | | `BufferSpec`: the editor refines `TextBuffer` |
| `MarkIsKept` | | `MarkFollowsText` |
| `TypeCorrect` | `Clock_proofs` | `[]TypeOK` |
| `StoresWhatWasShown` | | `[]StoredWasShown`, if `MaxSeconds < 60` |

The theorems that say "if" have hypotheses of their own, which their runs' constants satisfy. The other assumptions are the modules' named ones: sizes are naturals, requests of at most `WordBits + 1`
blocks, flags are flags, file ids are not 0, a heap has a page and a header is smaller than one,
there are more than two physical blocks, all above block 0, a text with one byte more is below 2^32 bytes, what an uncleared page holds is no file's entry
and no `.` or `..`,
the clock starts at times of the calendar.

Induction is over sets: the lemma `Induction` of `Heap_proofs` and `Processes_proofs` says, from the
well-foundedness of finite sets, that a set of naturals with 0 and every successor is `Nat`, and a proof applies
it to the set of numbers its claim holds for. That serves lists of any length, merged lists and the pages a loop maps.

**PhysicalMemory.** `NoBlockTwice` is not inductive: whether `allocate_blocks()` hands out a block
depends on the map, not on who holds it. The invariant adds that a held block's bit is
set, that nothing is held while areas are set free at boot, and that what boot has reserved so far
stays set and is held by nobody. The lemma `TestedBit` says that for a run of at most one
word and one block the bit tested is the bit of the block, which `RunIsFree` turns into: what is
granted was free. The refinement follows: a granted request is the pool's `Grant`, a freed block its
`Release`, everything else a stutter.

`AccountingConserved` is false of a count that goes round: a free at 0 or a grant at 2^32 - 1. `CountInv` says
how far from either it is: after the BIOS map's areas the count is what they leave of `MaxBlocks`, which is not negative
if they add up to no more (`AreasFit`; on a PC there is the hole under 1 MB), and from then on it is at least the number of
blocks held, and more by no more than `MaxBlocks` and the areas reserved by address (`CountFits`: about 2^20 blocks against 2^32).
The count need not be the number of set bits for this, and it is not: areas
are counted twice.

**OpenFiles.** `OneInodePerId` and `InodeCoherent` need each other: `open()` takes the table's
entry for a file if the search finds one and loads the disk's otherwise, so that a second entry
would be a stale one. `SearchMisses` says that a search that ends at another entry has passed every
entry of that file, also at the slot behind the table. With the tables' types the conjunction is
inductive; `SizeNeverShrinks` is proved from it, since the size `write()` saves is at least the
table's, which is the disk's. The theorems are about histories of file calls: deletion
behind an open file is for the composition with `FileSystem`.

The other four rest on a second invariant, `PInv`, of the file area: the bases of open descriptors are
different and below the next page to be given out (`BasesTaken`), but for descriptors an earlier program
left open, and the free blocks are those no page
is mapped to, counted. `close()` frees pages by the file's present size, which can be those of
a neighbour; that no block is freed twice is because a page that is not mapped is passed over, not
because the pages are the descriptor's own, and that covers the pages the shell gives away after an exit. `OwnEntryOnly` needs `BasesTaken` as well: the search for a
free entry tests the address, and an open entry's is never 0.

**FileSystem.** What a path finds is an inode because an entry with a name has an id within the bitmap,
and so a call works on inodes (`TypeInv`); that needs the pages `mkdir` does not clear to hold
no file's entry (`NamesAssumption`). No name leads to the root directory, so until it is made again its inode is written only
as some call's parent (`RootInv`), and from then until `RefreshCaches` the call's copy is the one on disk
(`RootStepInv`). `..` can lead to it, which is why those two end at a `mkdir` of it and not only of `/`. The boot block `GrowNextBlock` leads to is the end of the model, which is why the inode written
is always of one block. `FreeInv` says that the superblock on disk is behind only while a file is
being created. All of it holds wherever the machine stops.

That no two files share a block rests on much more than the bitmaps, since nothing in the code compares a block that is
given out with the files' inodes. The invariant has two layers, proved together (`DiskInvariant`), up to the
write over the boot block or the root's entries that ends the model. The first is `SharedInv`, for histories without the three
events `NoSharedBlocks` leaves out, and for those in which a directory was made again and nothing else has happened (`Followed`).
Its parts are what the proof could not do without:

- `DiskInv`: a file's block is allocated, and the id and the block the superblock *on disk* has as free belong to no
  file, or both to the one whose creation was cut short, which is never a directory. So the next boot gives that
  block to the same inode again.
- `DirectoryInv`: the pages of directories begin with `.` and `..`, which lead to directories and to which no name
  in them leads; only directories' pages have names, so that a file's data is never taken for an entry.
- `SizeInv`: a directory's size counts its names at least, and never goes round. Otherwise it would be 0 while
  names are left, and `mkdir` would take the page for a new one. This is where the hypothesis `MaxCreated + 2 < U32`
  comes from: with `U32` = 2^32, fewer than 2^32 - 2 files are created. A size also counts what a stopped creation
  left uncounted, hence the bound and not an equation.
- `CacheInv`: the copies of the root and the current directory name the block that the disk does.
- `CreateInv`, `NewFileInv`, `LookupInv`, `NewDirectoryInv`, `NewPageInv`, `RemoveInv`: what a call holds between two
  writes agrees with the disk. `LookupInv` is about the path `mkdir` looks up a second time, after the file is created: it leads to that
  file or nowhere, as it led nowhere before.

The second layer, `KeptInv`, says what the entries lead to, while no call was cut short, no file used as a directory, and
directories had no slot left or were made again, not both (`Kept`):

- `PlacesUnique`: an id is in one entry. What a new file gets is in none: the ids in entries are those of inodes
  that are written (`PlaceInv`), whose bits are set, and the superblock's free one is not.
- `PlaceInv`: what an entry leads to has its inode and its block, until the delete under way clears the inode.
- `ParentInv`: the directory a name leads to has its `..` lead back. A second `mkdir` needs it: the parent it
  writes into `..` is the one its path went through, so that the `..` it overwrites is no entry of a file.
- `StepInv`, about the call that runs: a new file is in no entry before it is entered, a deleted one still is in its
  parent, what becomes a directory is entered in another one.
- `EnteredInv`: a file whose inode is written has an entry, or the call that creates it is about to make one.

The layers need each other. A name leads to one directory only because ids are entered once, without which
a directory made again could be its own parent; and that ids are entered once needs that a page belongs to one
directory. There is one lemma for each write of each call in either layer
(`SetInodeBitShared` to `RestartShared`, `SetInodeBitEntered` to `RenameEntered`). The longer histories of section 5
came out of these proofs, as cases in which an earlier form of the invariant, or of the property, does not hold; all are beyond the
run's bounds, and the properties leave them out.

**Keyboard.** That `get_key()` returns keys in order rests on where a key of this session can be.
The handler writes at the offset, so there is none beyond it, but for the record the reader has
just stepped back over (`NoKeyBeyond`). What the reader comes to next is either not a key of this
session or newer than all that were returned (`ComingIsNew`), and so is what it has read (`ReadIsNew`). All
three hold until `rewind_file` is set.

**Heap.** The invariant is `InOrder`: the nodes begin at 0, each where the one before it ends,
and end with the last page; each holder has a node in use, and each node in use a holder or the
heap's end. `SplitList` shows that a node cut in two leaves that so; `MergedList` that merging does, by
induction over the nodes the merge has passed, with `JoinedOnce` (a node that is joined is not one that
takes another). A header has bytes, so that no two nodes start at
the same place (`StartsDiffer`). From this `HandOutApart` proves what `HeapRanges` asks for: what `malloc()` returns overlaps
nothing that is held. A call in one of the cases of `Damages` ends the promise, and those cases are
exactly the ones the proof could not do without.

**Processes.** The bitmap, the page table and its block are one record, and `Apart` says that in it no
block is both free and in use, or in use twice; `kept` stands for blocks in the hands of the operation that
runs. Each of the loops that map pages keeps it (`MapPagesApart`, by induction over the pages). A page
table always finds a block, since after `exit()` at least three are free: the last one, which
`allocate_blocks()` never hands out, the table's and the stack's. `ProgramInOrder` adds that pages of
a program that is not damaged are mapped to the blocks written, from which `LoadedIsRun` follows with `Apart`.

**TextEditor.** `InStep` is about the newlines before the cursor and has no word on the line's end where
no handler looks; the invariant says more: the buffer holds characters up to the count and two 0 bytes behind the longest
text, and the place is in one line (`IsLine`) whose bounds are those the loops find (`LineBegins`, `LineEndIs`),
from which the three places and the length of the line are read off (`InPlace`). `CountSplit` and `CountMoved` count
newlines in the parts a key leaves alone or moves by one. Type correctness also covers the key that damages
the text, where unsigned numbers go round. Each action's lemma needs exactly the cases of
`Damages`; Ctrl-D is one of them wherever there is a line to delete (`DeleteLineDamages`). `InsertText` and `DeleteText` turn the
copying loops into the two halves of a sequence, which is what `TextBuffer` asks for; every other key moves
the place, and `InPlace` says that it stays within the text.

**Clock.** The registers are those of one time only outside an update, and the handler reads them one by one.
`Later(t, n)` is the time n seconds after t in closed form, for less than a minute, in which at most one carry falls
(`LaterNext`). The invariant gives each register read the seconds between which it was read, so that two
readings that agree agree with one second in between the two (`SameBetween`, `Between`): that second is one in which the flag was clear since the
interrupt came, and its registers are the ones read. The
conversions of BCD and of the hour are inverted case by case. `MaxSeconds < 60` is needed: a handler that is held
up for longer can read registers that have come round to the values they had, and store a time that never
was. `MaxSeconds` bounds the updates from one reading interrupt to the next, which in the machine is one; the number of interrupts is any.
The next one can come in the middle of an update, and times are then counted from the one before (`HandlerShown`).

**Model-checked only.** Liveness (`TimelyKeyIsReturned`, `HandlerReturns`), which is beyond the prover. `Console`: its
three properties are about what the prompt and the tokenizer's loop make of a whole string, folds and recursive functions over
it. `DiskImage`: `ImageHoldsTree` compares the finished image with the tree, the result of a recursion over all of it. In both it is
the size of the data that TLC bounds, and all inputs up to that size are explored.

## 5. What does not hold

### Shown by a run

- `kernel_not_reserved`: the kernel image's blocks are never reserved and are handed out when low
  memory is used up (`3rdstage.c:46`).
- `open_files_write`: a write longer than what is left of the descriptor's pages goes over
  the next file's (`syscalls.h:206`).

### Seen while modelling, and left as the code has it

*Memory.* The last partial block of the bitmap itself stays free (`3rdstage.c:48`).
`used_blocks` counts areas that are reserved twice, such as the font, twice, so the
figure `prtmemmap` shows is off by a constant.

*File calls.* With one file open twice, closing one descriptor clears the inode entry of the
other, which then belongs to the next file that is opened (`syscalls.h:404`). The first open of a file leaves its count at 0 and the close wraps it to 255, so
that its inode entry is never released. A read from beyond the end of the file copies almost 4 GB
(`syscalls.h:434`). Data written past a file's extents is not saved (`syscalls.h:201`). Of two
descriptors of one file, the later save takes back the earlier. `O_TRUNC` is ignored. A
refused block is mapped as block 0. After an exit the shell gives out the pages of the file area from the first
one again (`kernel.c:223`): a file the program left open and the next one opened start at the same page, and the one closed
first takes it away from the other. `close()` frees pages by the file's present size: a neighbour's when it
grew, too few when a gap was left.

*File system.* Stopped before the superblock is written, the next boot gives the same id
and block to another file (`fs_impl.h:529`). `rm a` deletes `ab` when that comes first
(`fs_impl.h:90`). `rm` clears a file's data bit before its entry: stopped in between, a file that can be
found shares its block with the next one. A file can be created "in" a regular file, after which `rm` frees that
file's block. `mkdir` of what exists cuts a directory's size to two entries: later files may find no
slot and are lost, and once the size has shrunk to none the next `mkdir` takes the page for a new one
and every entry is lost. Three longer histories, none within the bounds of the run. A create cut short, `mkdir` of the file
it left, `cd` to it, the same id given to another file and that one removed: the kernel's copy of the current directory
is of an inode that is free, and the next file created there writes it back, with a block that is someone else's. Entries hidden
by a second `mkdir`, all others removed, and a `mkdir` of a hidden name: the file it makes a directory
has no `.` and `..`, and its block is given back while it is in use. Where a directory has had no slot as well, the file so made
a directory can share its block with its own parent: a `ren` in it then takes the first slot with the id, which is that of
`..`, for the file's, and the id is entered twice. A directory that needs a second block clears block 0, the boot code, as the loop over its extents ends
one past the last (`fs_impl.h:454`); when the next block is taken the file is lost and a bit leaked. A new directory's page is not cleared, so entries of what used it before can show. An
inode past the inode blocks is written over the root directory's entries. `mkdir` of the current
directory leaves its cached inode stale; of root, as `/`, `.` or `..`, it writes a size of two entries to disk and
keeps the copy read before that as root's (`fs_impl.h:660`, `:668`), so that what files need a slot for differs until the next boot; and `rm`, `mkdir` leave `open_inode_table`'s. `ren` does not look whether the new name
exists.

*Keyboard.* Once stdin has been full the handler writes at its start and the reader polls
elsewhere (`pic.h:252`). Two keys within one poll: the earlier is lost. A key between the reader's last step back and
its erasing is erased in place of the one that was read. A key without a character hides the one before
it. The null record of the reader can move the offset past the exact 1365 the handler tests for; the file then
grows beyond its page. A key the last session left can be returned after one of this session. After E0 a
shift or control code leaves the flag set. Releasing one of two held shifts ends both.

*Heap.* The last block is never freed. A last block in use is handed out again, if its size is asked for,
or extended and split, if it is smaller. A free block in the middle that is larger than the size by no
more than a header is extended over its neighbours. Above 255 pages the count of pages never ends. The merge
skips a node after each.

*Processes.* `exit()` takes the whole table down with its first page, so that the blocks of the
program, its arguments and its heap are not found any more and never freed, whatever the comments
say (`syscalls.h:58`, `:65`). Nothing drops the kept translations between exit and the next program.
Stack and arguments lie just behind the heap, which grows over them. `create_page_table()` clears the table
through its entry, flags included: from 7 bytes into it to 7 bytes behind it
(`virtual_memory_manager.h:223`). A program the loader refuses is entered all the same, at address 0, with a stack
over the low pages: the shell tests for less than 0 and `create_process()` returns 0. A program's page fault maps
without the user bit and faults again until memory is used up.

*Editor.* Ctrl-D leaves a byte of the line behind, does not mark the change, and on the last line of a
file that ends in a newline copies 2^32 - 1 bytes. Ctrl-C clears the unsaved mark (`editor.c:323`). Right goes past a
newline, End on an empty line to column -1, Delete and Backspace at the end of the text shorten the count of the line
only. Up to an empty first line runs below the buffer. Nothing checks the buffer's size, and a
save never shortens the file.

*Shell and terminal.* A blank line runs the first command, as any beginning of a name runs it: `s` shuts
the machine down. An open quote reads on into earlier lines. More than ten arguments go past argv (`kernel.c:316`). At 256
characters the count of the line is 0 again. A backspace at column 0 takes the cursor's column below 0, which is 2^32 - 1, and its
blanks to the row above's end; a second one is followed by a line feed. So does a backspace behind the last column's
character, whose second blank wraps. An escape key is held and not shown. Scrolling leaves
the last row unused.

*Clock.* In 12 hour mode noon and midnight are exchanged (`pic.h:376`). The shell copies the time with
interrupts on and can see half of a change.

*Image builder.* Nothing compares the tree with the disk: a larger one is padded without end. Without a
`3rdstage.bin` the last file's bit is not set. A directory that cannot be opened is
passed over as if it had been written, as `EXIT_FAILURE` is true (`make_disk.c:191`).

*C library, calculator.* Not modelled, seen while reading: `memcmp` reads a byte past the end, `strncpy` does not
terminate, `tolower` and `toupper` shift the wrong way, `islower` and `isupper` know a to f, `printf` of an
unsigned of 2^31 and more indexes its digits below 0; a result of -1 is a syntax error.

## 6. What is not modelled

- The disk driver, its registers and `temp_sector`, which the shell and the keyboard handler share: a
  transfer is one step of the models.
- The composition of `OpenFiles` and `FileSystem`: deleting and creating behind open descriptors.
- The queue of processes in `process.h` nobody calls, ELF relocation, scancode translation, `printf`,
  string functions and the calculator's parser: functions of their input without state between
  calls.
- Boot sectors and `2ndstage.asm`: assembly against the BIOS; the memory map they leave is a
  constant.
- Interrupt tables, PIC and PIT set-up, sound, graphics, fonts: port and memory writes in a fixed order
  without a state that later behaviour depends on.
- `rmdir` and the tests: the first is a stub, the second are callers.
- The interrupt window `flush_tlb_entry()` opens in `open`, `close` and `write`.

## 7. What to prove next

`Console`: `ScreenShowsLine`, from an invariant over the cells before the cursor, with the prompt's fold written
as a closed form. Then `DiskImage`: that what the two passes count is the same, by induction over the
tree's nodes. No operator is RECURSIVE, so both modules can be proved about.
