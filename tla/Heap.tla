-------------------------------- MODULE Heap --------------------------------
(***************************************************************************)
(* malloc() and free() (memory/malloc.h): a list of blocks, each a header  *)
(* followed by its bytes, in one range of virtual pages that grows at its  *)
(* end.  The shell starts it with one page; the calls of programs and of   *)
(* the kernel work on the same list.                                       *)
(*                                                                         *)
(* An address is its distance from malloc_virt_address.  A node of the     *)
(* list is a record with the address of its header; the list is a          *)
(* sequence, which leaves next implicit.                                   *)
(***************************************************************************)
EXTENDS Integers, Sequences, FiniteSetsExt, SequencesExt

CONSTANTS
    PageSize,    \* PAGE_SIZE (4096)
    HeaderSize,  \* sizeof(malloc_block_t) (12)
    PagesModulus,\* 2^8: num_pages is a uint8_t
    Sizes,       \* the sizes malloc() is called with
    MaxPages     \* bound: the heap does not grow beyond this

ASSUME SizesAssumption ==
    /\ HeaderSize \in Nat \ {0}
    /\ PageSize \in Nat /\ HeaderSize < PageSize
    /\ PagesModulus \in Nat \ {0, 1}
    /\ Sizes \subseteq Nat
    /\ MaxPages \in Nat \ {0}

VARIABLES
    list,                \* from malloc_list_head on: [addr, size, free]
    total_malloc_pages,
    held,                \* what callers were given: [start, size] (ghost)
    halted,              \* a call did not return
    damaged              \* a call came in one of the cases of Damages (ghost)

vars == <<list, total_malloc_pages, held, halted, damaged>>

Nodes == 1 .. Len(list)
LastNode == Len(list)
Start(node) == node.addr + HeaderSize
End(node) == Start(node) + node.size

InitialList == << [addr |-> 0, size |-> PageSize - HeaderSize, free |-> TRUE] >>

\* init_malloc()
Init ==
    /\ list = InitialList
    /\ total_malloc_pages = 1
    /\ held = {}
    /\ halted = FALSE
    /\ damaged = FALSE

-----------------------------------------------------------------------------
(* malloc_next_block()                                                     *)

\* The node the search stops at: the first that is free and large enough, or
\* the last, whatever it is.
Found(size) == Min({i \in Nodes : list[i].free /\ list[i].size >= size} \cup {LastNode})

\* malloc_split()
Split(l, i, size) ==
    LET used == [addr |-> l[i].addr, size |-> size, free |-> FALSE]
        rest == [addr |-> l[i].addr + size + HeaderSize,
                 size |-> l[i].size - size - HeaderSize, free |-> TRUE]
    IN  SubSeq(l, 1, i - 1) \o << used, rest >> \o SubSeq(l, i + 1, Len(l))

\* merge_free_blocks() joins a free node with a free node behind it and goes
\* on behind both: in a run of free nodes the first takes the second, the
\* third the fourth.
Joined(l, i) ==
    LET first == Min({s \in 1 .. i : \A j \in s .. i : l[j].free})
    IN  i \in 1 .. Len(l) /\ l[i].free /\ (i - first) % 2 = 1

\* Variant: a joined node's header is lost.
MergedShort(l) ==
    FlattenSeq([i \in 1 .. Len(l) |->
        IF Joined(l, i) THEN <<>>
        ELSE IF Joined(l, i + 1) THEN << [l[i] EXCEPT !.size = @ + l[i + 1].size] >>
        ELSE << l[i] >>])

Merged(l) ==
    FlattenSeq([i \in 1 .. Len(l) |->
        IF Joined(l, i) THEN <<>>
        ELSE IF Joined(l, i + 1) THEN << [l[i] EXCEPT !.size = @ + HeaderSize + l[i + 1].size] >>
        ELSE << l[i] >>])

\* The numbers of pages that make the node large enough to split.
EnoughPages(i, size) ==
    {n \in 1 .. (PagesModulus - 1) : list[i].size + n * PageSize >= size + HeaderSize}

\* The cases in which a call damages the list or what somebody holds.  The
\* heap is followed up to the first of them.
Damages(size) ==
    LET i == Found(size)
    IN  \* the search stopped at the last node, which is held
        \/ ~list[i].free /\ \E r \in held : r.start = Start(list[i])
        \* too large to hand out and too small to split, and pages are added
        \* to it as if nothing came behind it
        \/ i # LastNode /\ list[i].size # size /\ list[i].size <= size + HeaderSize

Handed(i, size) ==
    /\ held' = held \cup {[start |-> Start(list[i]), size |-> size]}
    /\ damaged' = Damages(size)

Running == ~halted /\ ~damaged

MallocNothing ==
    /\ Running
    /\ 0 \in Sizes
    /\ list' = Merged(list)
    /\ UNCHANGED <<total_malloc_pages, held, halted, damaged>>

MallocExact(size) ==
    LET i == Found(size)
    IN  /\ Running
        /\ size > 0 /\ size = list[i].size
        /\ list' = Merged([list EXCEPT ![i].free = FALSE])
        /\ Handed(i, size)
        /\ UNCHANGED <<total_malloc_pages, halted>>

\* Variant: the header of the new node is forgotten.
MallocSplitTight(size) ==
    LET i == Found(size)
    IN  /\ Running
        /\ size > 0 /\ list[i].size > size
        /\ list' = Merged(Split(list, i, size))
        /\ Handed(i, size)
        /\ UNCHANGED <<total_malloc_pages, halted>>

MallocSplit(size) ==
    LET i == Found(size)
    IN  /\ Running
        /\ size > 0 /\ list[i].size > size + HeaderSize
        /\ list' = Merged(Split(list, i, size))
        /\ Handed(i, size)
        /\ UNCHANGED <<total_malloc_pages, halted>>

TooSmall(i, size) == size > 0 /\ size # list[i].size /\ list[i].size <= size + HeaderSize

\* Pages are added behind the last page of the heap, to the size of this node.
MallocGrows(size) ==
    LET i == Found(size)
        pages == Min(EnoughPages(i, size))
        grown == [list EXCEPT ![i].size = @ + pages * PageSize]
    IN  /\ Running
        /\ TooSmall(i, size)
        /\ EnoughPages(i, size) # {}
        /\ total_malloc_pages + pages <= MaxPages                    \* bound
        /\ total_malloc_pages' = total_malloc_pages + pages
        /\ list' = Merged(Split(grown, i, size))
        /\ Handed(i, size)
        /\ UNCHANGED halted

\* num_pages wraps before it is large enough: the loop does not end.
MallocHangs(size) ==
    /\ Running
    /\ TooSmall(Found(size), size)
    /\ EnoughPages(Found(size), size) = {}
    /\ halted' = TRUE
    /\ UNCHANGED <<list, total_malloc_pages, held, damaged>>

syscall_malloc(size) ==
    \/ MallocExact(size) \/ MallocSplit(size) \/ MallocGrows(size) \/ MallocHangs(size)

-----------------------------------------------------------------------------

\* Variant: the node before the one that is given back is freed too.
malloc_freeTwo(r) ==
    /\ Running
    /\ list' = Merged([i \in Nodes |->
                    IF i < LastNode /\ (Start(list[i]) = r.start \/ End(list[i]) + HeaderSize = r.start)
                    THEN [list[i] EXCEPT !.free = TRUE] ELSE list[i]])
    /\ held' = held \ {r}
    /\ UNCHANGED <<total_malloc_pages, halted, damaged>>

\* malloc_free(): the loop looks at every node but the last.
malloc_free(r) ==
    /\ Running
    /\ list' = IF \E i \in Nodes : i < LastNode /\ Start(list[i]) = r.start
               THEN Merged([i \in Nodes |-> IF Start(list[i]) = r.start
                                            THEN [list[i] EXCEPT !.free = TRUE] ELSE list[i]])
               ELSE list
    /\ held' = held \ {r}
    /\ UNCHANGED <<total_malloc_pages, halted, damaged>>

\* exit() starts the shell again, and the shell its heap.
init_malloc ==
    /\ Running
    /\ list' = InitialList
    /\ total_malloc_pages' = 1
    /\ held' = {}
    /\ UNCHANGED <<halted, damaged>>

Next ==
    \/ MallocNothing
    \/ \E size \in Sizes : syscall_malloc(size)
    \/ \E r \in held : malloc_free(r)
    \/ init_malloc

Spec == Init /\ [][Next]_vars

-----------------------------------------------------------------------------
(* Properties                                                              *)

\* Type correctness of the list malloc() and free() edit, and of the counters
\* of malloc.h.
TypeOK ==
    /\ list \in Seq([addr : Nat, size : Nat, free : BOOLEAN]) /\ list # <<>>
    /\ total_malloc_pages \in 1 .. MaxPages
    /\ \A r \in held : r \in [start : Nat, size : Sizes]
    /\ halted \in BOOLEAN /\ damaged \in BOOLEAN

\* Splits, merges and growth in any order: the nodes lie one behind the other
\* and cover the pages of the heap to the last byte.
Tiled ==
    ~damaged =>
        /\ list[1].addr = 0
        /\ \A i \in Nodes : i < LastNode => list[i + 1].addr = End(list[i])
        /\ End(list[LastNode]) = total_malloc_pages * PageSize

\* Who holds a range holds one node, of that size, that is in use; and a node
\* in use has a holder, unless it is the last: that one free() does not find.
NodesAreHeld ==
    ~damaged =>
        /\ \A r \in held : \E i \in Nodes :
               ~list[i].free /\ Start(list[i]) = r.start /\ list[i].size = r.size
        /\ \A i \in Nodes : list[i].free \/ i = LastNode
               \/ \E r \in held : Start(list[i]) = r.start

\* The list malloc() and free() keep implements ranges of bytes that are held
\* by one caller at a time.
Ranges == INSTANCE HeapRanges WITH held <- held, damaged <- damaged
RangesSpec == Ranges!Spec
=============================================================================
