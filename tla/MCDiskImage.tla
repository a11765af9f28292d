----------------------------- MODULE MCDiskImage -----------------------------
(***************************************************************************)
(* DiskImage for every tree of up to four files and directories, in every  *)
(* order readdir() can find them, with three entries to a block.  Nodes    *)
(* are numbered a directory at a time.                                     *)
(***************************************************************************)
EXTENDS DiskImage

\* Files that are empty, end with a block and go on past it.
FileSizes == {0, 3, 4}

MaxNodes == 4

Node(p, k, s, b) == [parent |-> p, kind |-> k, size |-> s, boot |-> b]

HasBoot(t) == \E n \in DOMAIN t : t[n].boot

Added(t) ==
    LET parents == {p \in {Root} \cup {n \in DOMAIN t : t[n].kind = "dir"} :
                      \A n \in DOMAIN t : t[n].parent <= p}
    IN  {Append(t, Node(p, "file", s, b)) :
           p \in parents, s \in FileSizes, b \in IF HasBoot(t) THEN {FALSE} ELSE BOOLEAN}
        \cup {Append(t, Node(p, k, 0, FALSE)) : p \in parents, k \in {"dir", "other"}}

TreesOf[k \in 0 .. MaxNodes] ==
    IF k = 0 THEN {<<>>} ELSE UNION {Added(t) : t \in TreesOf[k - 1]}

MCTrees == {t \in UNION {TreesOf[k] : k \in 1 .. MaxNodes} : HasBoot(t)}

=============================================================================
