------------------------------ MODULE MCPaging ------------------------------
(* An instance of Paging for TLC: a composite key, ties and NULLs, pages of *)
(* one and two rows, cursors of every age, and every way to bound a stream. *)
EXTENDS Paging, TLC

MCKeys == {<<1, 1>>, <<1, 2>>, <<2, 1>>}
MCVals == {0, 1}
MCCarried == [v \in MCVals |-> v]

Keyset(kind, dir, byKey, size, start) ==
    [kind |-> kind, dir |-> dir, byKey |-> byKey, size |-> size, start |-> start]
Stream(size, limit, skip, take) ==
    [kind |-> "stream", dir |-> "ASC", byKey |-> TRUE, size |-> size,
     window |-> [limit |-> limit, skip |-> skip, take |-> take]]

Dirs == {"ASC", "DESC"}
Sizes == {1, 2}
OldCursors == {[order |-> 1, at |-> <<>>], [order |-> Null, at |-> <<>>],
               [order |-> 1, at |-> <<1>>], [order |-> Null, at |-> <<1, 1>>]}
MCWalks ==
    {Keyset(kind, dir, byKey, size, Unset) :
        kind \in {"page", "pipeline"}, dir \in Dirs, byKey \in BOOLEAN, size \in Sizes}
    \cup {Keyset("page", dir, byKey, 1, c) : dir \in Dirs, byKey \in BOOLEAN, c \in OldCursors}
    \cup {Stream(size, limit, skip, take) :
            size \in Sizes, skip \in {Unset, 0, 1}, take \in {Unset, 0, 1, 2},
            limit \in {<<>>, <<0>>, <<2>>, <<1, 0>>, <<1, 2>>}}
=============================================================================
