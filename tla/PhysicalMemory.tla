--------------------------- MODULE PhysicalMemory ---------------------------
(***************************************************************************)
(* The physical memory manager (physical_memory_manager.h): a bitmap of    *)
(* 4 KB blocks, one bit each, in 32-bit words, and a count of used blocks. *)
(* Boot (3rdstage.c) builds the map from the BIOS memory map, reserves the *)
(* areas the system lives in, allocates the page directory and tables, and *)
(* reserves the framebuffer.  From then on the kernel allocates runs of    *)
(* blocks and frees them one block at a time.                              *)
(*                                                                         *)
(* A block is its number.  memory_map is the set of blocks whose bit is 1; *)
(* it reaches past the manager's own blocks, because the code indexes the  *)
(* words without a bound: the bits of Blocks that lie at or beyond         *)
(* MaxBlocks are whatever memory follows the map.                          *)
(***************************************************************************)
EXTENDS Integers, Sequences, FiniteSets

CONSTANTS
    WordBits,       \* bits of one chunk of the map (32)
    BlocksPerByte,  \* bits of one byte of the map (8)
    BlockSize,      \* bytes of a block (4096)
    CountModulus,   \* 2^32: used_blocks is a uint32_t
    MaxBlocks,      \* max_blocks, total memory over BlockSize
    LastBit,        \* the last bit the code can touch, past the map or not
    BiosMaps,       \* the memory maps the BIOS may give: their type 1 entries,
                    \* each <<first block, blocks>>
    OSBlocks,       \* blocks below 12000h
    MapBase,        \* MEMMAP_AREA, in blocks
    KernelArea,     \* the blocks the kernel image was loaded to (KERNEL_ADDRESS)
    FontArea,       \* <<first block, blocks>> of the font
    Framebuffer,    \* <<first block, blocks>> of the VBE framebuffer
    FramebufferTables, \* page tables its identity mapping needs
    Requests        \* the sizes callers ask allocate_blocks() for after boot

Blocks == 0 .. LastBit

Area(first, n) == {b \in Blocks : first <= b /\ b < first + n}

\* The blocks of the whole words that find_first_free_blocks() scans.
Scanned == {b \in Blocks : b < MaxBlocks - (MaxBlocks % WordBits)}

\* The bytes of the bitmap, as boot computes them.
MapBytes == MaxBlocks \div BlocksPerByte

ASSUME SizesAssumption ==
    /\ WordBits \in Nat \ {0}
    /\ CountModulus \in Nat \ {0}
    /\ BlocksPerByte \in Nat \ {0}
    /\ MaxBlocks \in 0 .. (CountModulus - 1)
    /\ LastBit \in Nat /\ MaxBlocks + WordBits <= LastBit
    /\ OSBlocks \in Nat \ {0}
    /\ BiosMaps \subseteq Seq(Nat \X Nat)
    /\ MapBytes \div BlockSize \in Nat
    /\ FontArea \in Nat \X Nat
    /\ Framebuffer \in Nat \X Nat

\* No caller asks for a run that could need a third word of the map: the
\* kernel asks for 1 block, the set-up of paging once for 3.
ASSUME RequestsAssumption ==
    /\ Requests \subseteq 1 .. (WordBits + 1)
    /\ 3 <= WordBits + 1

VARIABLES
    bios_map,     \* the map the second stage got from the BIOS
    memory_map,   \* the blocks whose bit is set
    used_blocks,  \* the count the manager keeps
    pc,           \* which step of boot is next, "run" when it is over
    turn,         \* the next turn of the loop boot is in
    holders       \* how many callers hold a block they were given (ghost)

vars == <<bios_map, memory_map, used_blocks, pc, turn, holders>>

U32(x) == x % CountModulus

-----------------------------------------------------------------------------
(* find_first_free_blocks()                                                *)

\* The bit tested for block b + c of a run that starts at b: bits beyond the
\* word of b are looked up in the following word, the shift count taken
\* modulo the word size.
BitTested(b, c) ==
    LET j == b % WordBits
    IN  IF j + c >= WordBits
        THEN (b - j) + WordBits + ((j + c - WordBits) % WordBits)
        ELSE b + c

FreeStarts(n) ==
    {b \in Scanned : \A c \in 0 .. (n - 1) : BitTested(b, c) \notin memory_map}

\* The code answers -1 where this set is empty.
FirstFree(n) == {b \in FreeStarts(n) : \A d \in FreeStarts(n) : b <= d}

-----------------------------------------------------------------------------
(* Boot: 3rdstage.c                                                        *)

\* The bytes memset() fills cover whole bytes of the map only.
FilledBits == MaxBlocks - (MaxBlocks % BlocksPerByte)

Init ==
    /\ bios_map \in BiosMaps
    /\ memory_map \in SUBSET (FilledBits .. LastBit)    \* what RAM held at power-on
    /\ used_blocks = 0
    /\ pc = "manager"
    /\ turn = 1
    /\ holders = [b \in Blocks |-> 0]

initialize_memory_manager ==
    /\ pc = "manager"
    /\ memory_map' = memory_map \cup Area(0, FilledBits)
    /\ used_blocks' = MaxBlocks
    /\ pc' = "regions"
    /\ UNCHANGED <<bios_map, turn, holders>>

\* One entry of the BIOS map; block 0 is set again without being counted.
initialize_memory_region ==
    /\ pc = "regions"
    /\ turn <= Len(bios_map)
    /\ memory_map' = (memory_map \ Area(bios_map[turn][1], bios_map[turn][2])) \cup {0}
    /\ used_blocks' = U32(used_blocks - bios_map[turn][2])
    /\ turn' = turn + 1
    /\ UNCHANGED <<bios_map, pc, holders>>

\* Variant: the last block of the area is left out.
ReserveShort(first, n) ==
    /\ memory_map' = memory_map \cup Area(first, n - 1)
    /\ used_blocks' = U32(used_blocks + n)

\* deinitialize_memory_region(): counts every block, set already or not.
Reserve(first, n) ==
    /\ memory_map' = memory_map \cup Area(first, n)
    /\ used_blocks' = U32(used_blocks + n)

ReserveOS ==
    /\ pc = "regions"
    /\ turn > Len(bios_map)
    /\ Reserve(0, OSBlocks)
    /\ pc' = "map"
    /\ turn' = 1
    /\ UNCHANGED <<bios_map, holders>>

ReserveMap ==
    /\ pc = "map"
    /\ Reserve(MapBase, MapBytes \div BlockSize)
    /\ pc' = "font"
    /\ UNCHANGED <<bios_map, turn, holders>>

ReserveFont ==
    /\ pc = "font"
    /\ Reserve(FontArea[1], FontArea[2])
    /\ pc' = "table"
    /\ UNCHANGED <<bios_map, turn, holders>>

\* Variant: one block too few is marked.
GrantedShort(n) ==
    /\ U32(MaxBlocks - used_blocks) > n
    /\ \E b \in FirstFree(n) :
          /\ memory_map' = memory_map \cup Area(b, n - 1)
          /\ holders' = [f \in Blocks |->
                            IF f \in Area(b, n) THEN holders[f] + 1 ELSE holders[f]]
    /\ used_blocks' = U32(used_blocks + n)

\* allocate_blocks() when it finds a run: the first one.  It refuses a request
\* for all the blocks that are left.
Granted(n) ==
    /\ U32(MaxBlocks - used_blocks) > n
    /\ \E b \in FirstFree(n) :
          /\ memory_map' = memory_map \cup Area(b, n)
          /\ holders' = [f \in Blocks |->
                            IF f \in Area(b, n) THEN holders[f] + 1 ELSE holders[f]]
    /\ used_blocks' = U32(used_blocks + n)

Refused(n) ==
    /\ \/ U32(MaxBlocks - used_blocks) <= n
       \/ FirstFree(n) = {}
    /\ UNCHANGED <<memory_map, used_blocks, holders>>

\* initialize_virtual_memory_manager(): the table for 0-4 MB, the table for
\* 3 GB, then three blocks for the directory.  It returns false at the first
\* refusal, and its caller goes on all the same.
BootRequest == [table |-> 1, table3G |-> 1, directory |-> 3]
AfterRequest == [table |-> "table3G", table3G |-> "directory", directory |-> "framebuffer"]

initialize_virtual_memory_manager ==
    /\ pc \in DOMAIN BootRequest
    /\ \/ Granted(BootRequest[pc]) /\ pc' = AfterRequest[pc]
       \/ Refused(BootRequest[pc]) /\ pc' = "framebuffer"
    /\ UNCHANGED <<bios_map, turn>>

\* map_address() over the framebuffer creates each page table it lacks, if
\* there is a block for it.
MapFramebuffer ==
    /\ pc = "framebuffer"
    /\ turn <= FramebufferTables
    /\ Granted(1) \/ Refused(1)
    /\ turn' = turn + 1
    /\ UNCHANGED <<bios_map, pc>>

ReserveFramebuffer ==
    /\ pc = "framebuffer"
    /\ turn > FramebufferTables
    /\ Reserve(Framebuffer[1], Framebuffer[2])
    /\ pc' = "run"
    /\ UNCHANGED <<bios_map, turn, holders>>

-----------------------------------------------------------------------------
(* The running kernel.                                                      *)

allocate_blocks(n) ==
    /\ pc = "run"
    /\ Granted(n) \/ Refused(n)
    /\ UNCHANGED <<bios_map, pc, turn>>

\* Variant: a caller gives back a block it does not hold.
free_blocksUnheld(b) ==
    /\ pc = "run"
    /\ memory_map' = memory_map \ {b}
    /\ used_blocks' = U32(used_blocks - 1)
    /\ holders' = [holders EXCEPT ![b] = @ - 1]
    /\ UNCHANGED <<bios_map, pc, turn>>

\* Variant: the count is not reduced.
free_blocksUncounted(b) ==
    /\ pc = "run"
    /\ holders[b] > 0
    /\ memory_map' = memory_map \ {b}
    /\ holders' = [holders EXCEPT ![b] = @ - 1]
    /\ UNCHANGED <<bios_map, used_blocks, pc, turn>>

\* A caller gives back a block it holds, one at a time as every caller does.
free_blocks(b) ==
    /\ pc = "run"
    /\ holders[b] > 0
    /\ memory_map' = memory_map \ {b}
    /\ used_blocks' = U32(used_blocks - 1)
    /\ holders' = [holders EXCEPT ![b] = @ - 1]
    /\ UNCHANGED <<bios_map, pc, turn>>

Boot ==
    \/ initialize_memory_manager
    \/ initialize_memory_region
    \/ ReserveOS
    \/ ReserveMap
    \/ ReserveFont
    \/ initialize_virtual_memory_manager
    \/ MapFramebuffer
    \/ ReserveFramebuffer

Next ==
    \/ Boot
    \/ \E n \in Requests : allocate_blocks(n)
    \/ \E b \in Blocks : free_blocks(b)

Spec == Init /\ [][Next]_vars

-----------------------------------------------------------------------------
(* Properties                                                              *)

\* Type correctness.
TypeOK ==
    /\ bios_map \in BiosMaps
    /\ memory_map \in SUBSET Blocks
    /\ used_blocks \in 0 .. (CountModulus - 1)
    /\ pc \in {"manager", "regions", "map", "font", "table", "table3G",
              "directory", "framebuffer", "run"}
    /\ turn \in Nat \ {0}
    /\ holders \in [Blocks -> Nat]

\* allocate_blocks() never hands out a block somebody still holds.
NoBlockTwice == \A b \in Blocks : holders[b] <= 1

\* The areas boot reserves by address for the system, as far as the code
\* reserves them.
SystemAreas ==
    Area(0, OSBlocks) \cup Area(MapBase, MapBytes \div BlockSize)
        \cup Area(FontArea[1], FontArea[2])

\* No run of allocations and frees, in boot or after it, gets at a block boot
\* reserved: the BIOS and loader data, the reserved part of the map, the font.
SystemAreasKept ==
    pc = "run" => /\ SystemAreas \subseteq memory_map
                  /\ \A b \in SystemAreas : holders[b] = 0

\* How far used_blocks is from the number of set bits.
Drift == used_blocks - Cardinality(memory_map)

\* Once the kernel runs, the count moves with the bits of the map: neither
\* allocate_blocks() nor free_blocks() loses or invents a block.
AccountingConserved == [][pc = "run" => Drift' = Drift]_vars

\* The manager with its map implements the pool its callers rely on.
Pool == INSTANCE FramePool WITH Blocks <- Blocks, holders <- holders
PoolSpec == Pool!Spec

\* 3rdstage.c:46 says the kernel's memory is reserved: no block of the kernel
\* image is ever handed out.
KernelImageKept == \A b \in KernelArea : holders[b] = 0
=============================================================================
