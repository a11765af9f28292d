----------------------------- MODULE MCFileSystem -----------------------------
(***************************************************************************)
(* FileSystem with directories of four entries, two of them "." and "..",  *)
(* on a disk with a handful of blocks.  One name is how another begins.    *)
(***************************************************************************)
EXTENDS FileSystem

MCNames == {"a", "ab"}
MCPrefixes == {<<"a", "a">>, <<"ab", "ab">>, <<"a", "ab">>}

\* A page is clear, or one that something else was in: ids and names that
\* nobody else has.
Garbage == [s \in Slots |-> [id |-> LastInode + 1, name |-> GarbageName]]
MCJunk == {EmptyBlock, Garbage}
ClearPages == {EmptyBlock}

=============================================================================
