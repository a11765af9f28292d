------------------------------ MODULE Processes ------------------------------
(***************************************************************************)
(* The life of a program: the shell starts its heap (init_malloc),         *)
(* create_process() loads the program to the heap and maps its stack and   *)
(* arguments behind it, execute_process() enters it, its malloc() lets the *)
(* heap grow, and exit() takes the pages down and starts the shell again.  *)
(* One page directory serves them all.                                     *)
(*                                                                         *)
(* Addresses are pages of the 4 MB from malloc_start on, which one page    *)
(* table maps.  The processor keeps translations it has used until cr3 is  *)
(* loaded, or drops them any time before: an access takes the translation  *)
(* it kept or the one in the table.  allocate_blocks() answers 0 when      *)
(* memory is full, and nobody here looks: block 0 is mapped.               *)
(* The pages of files, which have a table of their own, are in OpenFiles;  *)
(* those of the program's file, open while it is loaded, are taken and     *)
(* given back here.                                                        *)
(***************************************************************************)
EXTENDS Integers, FiniteSetsExt

CONSTANTS
    Frames,        \* the physical blocks left when the shell starts first,
                   \* below 4 MB, which is mapped one to one
    ProgramSizes,  \* pgm_size of the programs, in pages
    Growths,       \* by how many pages a malloc() of a program grows the heap
    LastPage,      \* bound: the last page of the heap area
    MaxRuns        \* bound: programs that are started

ASSUME SizesAssumption ==
    /\ Frames \subseteq Nat \ {0} /\ IsFiniteSet(Frames) /\ Cardinality(Frames) > 2
    /\ ProgramSizes \subseteq Nat \ {0}
    /\ Growths \subseteq Nat \ {0}
    /\ LastPage \in Nat /\ MaxRuns \in Nat

VARIABLES
    free,        \* blocks the bitmap has free
    table,       \* the block of the heap area's page table
    map,         \* what the table maps each page to
    tlb,         \* translations the processor has kept
    heap_pages,  \* total_malloc_pages
    size,        \* pgm_size of the process, in pages
    mode,        \* who runs
    home,        \* the block the data of a page was written to (ghost)
    damage,      \* what has gone wrong so far (ghost)
    runs         \* programs started (bounded)

vars == <<free, table, map, tlb, heap_pages, size, mode, home, damage, runs>>

Pages == 0 .. LastPage
None == -1
NoPages == [p \in Pages |-> None]
Modes == {"shell", "loaded", "user", "halted"}
Damages == {"stale", "overrun", "refused"}

-----------------------------------------------------------------------------
(* Mapping: the bitmap and the page table as a record, changed call after  *)
(* call.                                                                   *)

\* allocate_blocks(1): the first free block, or 0; the last is never given.
Refuses(m) == Cardinality(m.free) <= 1
FirstFree(m) == IF Refuses(m) THEN 0 ELSE Min(m.free)
Taken(m) == IF Refuses(m) THEN m ELSE [m EXCEPT !.free = @ \ {FirstFree(m)}]

\* create_page_table(): nothing is mapped in a new table.  A block for it is
\* always there (FramesApart): exit() has just given two back.
\* It also maps the block at its own address, in the table of the first 4 MB,
\* which boot has filled that way: Frames are blocks from there, and the step
\* changes nothing.  Its memset() begins at the entry with its flags, some bytes
\* into the block: the first two entries it leaves are those of pages 0 and 1,
\* mapped before they are used, and no program has data in the block behind.
WithTable(m) ==
    IF m.table # None THEN m
    ELSE [free |-> Taken(m).free, table |-> FirstFree(m), map |-> NoPages]

\* allocate_blocks(1), then map_address(), which may need a table.
MapNew(m, p) == [WithTable(Taken(m)) EXCEPT !.map[p] = FirstFree(m)]

\* The pages from first to last, one after the other.
MapPages(m, first, last) ==
    LET mapped[p \in first - 1 .. last] ==
            IF p < first THEN m ELSE MapNew(mapped[p - 1], p)
    IN  mapped[last]

Memory == [free |-> free, table |-> table, map |-> map]

SetMemory(m) == free' = m.free /\ table' = m.table /\ map' = m.map

\* Variant: the entry is cleared before the block is read from it.
UnmapTableNone(m) == [m EXCEPT !.free = @ \cup {None}, !.table = None, !.map = NoPages]

\* Variant: the table's block is given back and stays in the directory.
UnmapTableKept(m) == [m EXCEPT !.free = @ \cup {m.table}]

\* unmap_address() takes down the table of the page, with all its pages.
UnmapTable(m) == [free |-> m.free \cup {m.table}, table |-> None, map |-> NoPages]

-----------------------------------------------------------------------------
(* Accesses                                                                *)

\* The blocks accesses to the mapped pages ps can reach.
Changed(ps, m) == {p \in ps : tlb[p] \notin {None, m.map[p]}}
Reached(ps, m) ==
    {[p \in ps |-> IF p \in old THEN tlb[p] ELSE m.map[p]] : old \in SUBSET Changed(ps, m)}

Kept(seen) == [p \in Pages |-> IF p \in DOMAIN seen THEN seen[p] ELSE tlb[p]]
Stale(seen, m) == \E p \in DOMAIN seen : seen[p] # m.map[p]

Written(seen) == [p \in Pages |-> IF p \in DOMAIN seen THEN seen[p] ELSE home[p]]

\* What an operation that left memory m and reached the blocks seen damages.
DamageOf(seen, m, ps) ==
    (IF Stale(seen, m) THEN {"stale"} ELSE {})
    \cup (IF \E p \in ps : m.map[p] = 0 THEN {"refused"} ELSE {})

\* After an access through a stale translation memory holds anything.
Followed == "stale" \notin damage

-----------------------------------------------------------------------------
(* The shell                                                               *)

\* init_malloc() maps one page and writes the head of the list to it.
Boot ==
    LET start == [free |-> Frames, table |-> None, map |-> NoPages]
    IN  MapNew(start, 0)

Init ==
    /\ free = Boot.free /\ table = Boot.table /\ map = Boot.map
    /\ tlb = [p \in Pages |-> IF p = 0 THEN Boot.map[0] ELSE None]
    /\ home = tlb
    /\ heap_pages = 1
    /\ size = 0
    /\ mode = "shell"
    /\ damage = {}
    /\ runs = 0

\* Variant: the stack begins where the program ends.
StackPageLow(n) == n

\* pgm_buf begins a header behind the first page of the heap, its last bytes
\* are on page n, and the stack is one page further.
StackPage(n) == n + 1

ArgsPage(n) == StackPage(n) + 1

\* open() of the program's file, load_elf_file()'s malloc() of n pages,
\* stack and arguments, close(): file is the blocks its pages have in between.
create_process(n) ==
    LET file == IF Refuses(Memory) THEN {} ELSE {FirstFree(Memory)}
        opened == [Memory EXCEPT !.free = @ \ file]
        heap == MapPages(opened, 1, n)
        stack == MapNew(heap, StackPage(n))
        args == MapNew(stack, ArgsPage(n))
        closed == [args EXCEPT !.free = @ \cup file]
    IN  /\ mode = "shell" /\ Followed
        /\ ArgsPage(n) <= LastPage                                    \* bound
        /\ runs < MaxRuns                                             \* bound
        /\ SetMemory(closed)
        /\ \E program \in Reached(0 .. n, heap),
               rest \in Reached({StackPage(n), ArgsPage(n)}, closed) :
               LET seen == [p \in 0 .. ArgsPage(n) |-> IF p <= n THEN program[p] ELSE rest[p]]
               IN  /\ tlb' = Kept(seen)
                   /\ home' = Written(seen)
                   /\ damage' = damage \cup DamageOf(program, heap, 0 .. n)
                                       \cup DamageOf(rest, closed, DOMAIN rest)
        /\ heap_pages' = n + 1
        /\ size' = n
        /\ runs' = runs + 1
        /\ mode' = "loaded"

\* load_elf_file() refuses the file: buffer, size and entry point are 0, and
\* the stack and arguments are mapped over pages 1 and 2 of low memory, where
\* the kernel keeps the addresses of its page directory and its GDT.
CreateNotElf ==
    LET stack == Taken(Memory)
    IN  /\ mode = "shell" /\ Followed
        /\ free' = Taken(stack).free
        /\ mode' = "halted"
        /\ UNCHANGED <<table, map, tlb, heap_pages, size, home, damage, runs>>

\* execute_process() loads cr3 and enters the program.
execute_process ==
    /\ mode = "loaded"
    /\ tlb' = NoPages
    /\ mode' = "user"
    /\ UNCHANGED <<free, table, map, heap_pages, size, home, damage, runs>>

-----------------------------------------------------------------------------
(* The program                                                             *)

\* The program uses a page that is mapped.
UserAccess(p) ==
    /\ mode = "user" /\ Followed
    /\ tlb[p] = None /\ map[p] # None
    /\ tlb' = [tlb EXCEPT ![p] = map[p]]
    /\ UNCHANGED <<free, table, map, heap_pages, size, mode, home, damage, runs>>

\* It uses one that is not.  page_fault_handler() maps a block to it that the
\* user may not use: the access faults again, until no block is given any more.
UserFault ==
    /\ mode = "user" /\ Followed
    /\ free' = {Max(free)}
    /\ mode' = "halted"
    /\ UNCHANGED <<table, map, tlb, heap_pages, size, home, damage, runs>>

\* malloc() of more than the last block of the list has.  It walks the list
\* from page 0 and leaves the header of the rest on the new last page.
syscall_malloc(n) ==
    LET last == heap_pages + n - 1
        grown == MapPages(Memory, heap_pages, last)
    IN  /\ mode = "user" /\ Followed
        /\ last <= LastPage                                           \* bound
        /\ SetMemory(grown)
        /\ heap_pages' = heap_pages + n
        /\ \E seen \in Reached({0, last}, grown) :
               /\ tlb' = Kept(seen)
               /\ home' = Written(seen)
               /\ damage' = damage
                      \cup DamageOf(seen, grown, heap_pages .. last)
                      \cup (IF last >= StackPage(size) THEN {"overrun"} ELSE {})
        /\ UNCHANGED <<size, mode, runs>>

\* exit(): the stack's page is looked up, its table is taken down and its
\* block freed; nothing else is found mapped after that.  Then the shell.
syscall_exit ==
    LET down == [UnmapTable(Memory) EXCEPT !.free = @ \cup {map[StackPage(size)]}]
        shell == MapNew(down, 0)
    IN  /\ mode = "user" /\ Followed
        /\ SetMemory(shell)
        /\ \E seen \in Reached({0}, shell) :
               /\ tlb' = Kept(seen)
               /\ home' = [p \in Pages |-> IF p = 0 THEN seen[0] ELSE None]
               /\ damage' = damage \cup DamageOf(seen, shell, {0})
        /\ heap_pages' = 1
        /\ mode' = "shell"
        /\ UNCHANGED <<size, runs>>

Next ==
    \/ \E n \in ProgramSizes : create_process(n)
    \/ CreateNotElf
    \/ execute_process
    \/ \E p \in Pages : UserAccess(p)
    \/ UserFault
    \/ \E n \in Growths : syscall_malloc(n)
    \/ syscall_exit

Spec == Init /\ [][Next]_vars

-----------------------------------------------------------------------------
(* Properties                                                              *)

\* Type correctness of what create_process(), the page faults and exit() leave;
\* the pages of the heap are mapped.
TypeOK ==
    /\ free \subseteq Frames \cup {0}
    /\ table \in Frames \cup {0, None}
    /\ map \in [Pages -> Frames \cup {0, None}]
    /\ \A p \in 0 .. heap_pages - 1 : map[p] # None
    /\ tlb \in [Pages -> Frames \cup {0, None}]
    /\ home \in [Pages -> Frames \cup {0, None}]
    /\ heap_pages \in 1 .. LastPage + 1
    /\ size \in ProgramSizes \cup {0}
    /\ mode \in Modes /\ damage \subseteq Damages
    /\ runs \in 0 .. MaxRuns

\* Whatever programs were run and left, no block is mapped twice, and neither
\* a mapped block nor that of the page table is free to be handed out: the
\* mappings taken down by exit() with their table leave nothing behind that
\* could be reached twice, and a new table always finds a block.  Block 0
\* stands for every refused one.
FramesApart ==
    "stale" \notin damage =>
        /\ \A p, q \in Pages : p # q /\ map[p] = map[q] => map[p] \in {None, 0}
        /\ \A p \in Pages : map[p] \notin {None, 0} => map[p] \notin free \cup {table}
        /\ table \in Frames \ free

\* While a program runs, each page of it, its stack and its arguments lead to
\* a block of its own, the one create_process() wrote, unless an allocation
\* was refused, the heap has grown over the stack, or a kept translation was
\* used for one that had changed.
LoadedIsRun ==
    mode = "user" /\ damage = {} =>
        \A p \in 0 .. ArgsPage(size) :
            /\ map[p] = home[p]
            /\ tlb[p] \in {None, home[p]}
            /\ \A q \in 0 .. ArgsPage(size) : home[p] = home[q] => p = q

=============================================================================
