------------------------------- MODULE Paging -------------------------------
(***************************************************************************)
(* One caller reads a table page by page while others change it: by keyset *)
(* (findWithCursor(), getCursor(), a RawPipeline with keyset: true, all on *)
(* src/src/core/entity-manager/CursorKeyset.ts) or by LIMIT and OFFSET     *)
(* (streamBatch() and the pipeline's offset batches). A page is one        *)
(* statement; between two the caller works on what it has.                 *)
(*                                                                         *)
(* A row is its primary key, in declared order and with the discriminator  *)
(* of a table-per-class root at its end, and the value of the order        *)
(* column. The filters every page repeats (where, tenant, soft delete) and *)
(* the shaping of rows are left out: table holds the rows they let through.*)
(***************************************************************************)
EXTENDS Integers, Sequences, FiniteSets

CONSTANTS
    RowKeys,     \* primary keys: sequences of integers
    Width,       \* .. of this length
    Vals,        \* values of the order column
    Carried,     \* [Vals -> Int]: a value once a driver has read it and a
                 \* cursor carries it; a Date keeps milliseconds
    Walks,       \* how a caller may page: see WalkType
    MaxChanges,  \* bound: changes of the table by others
    Null,        \* an order column may be NULL
    Unset

Values == Vals \cup {Null}
TableRows == [key : RowKeys, val : Values]

(* Where a page starts: the order value of the row before it and the keys   *)
(* that break ties, all of them in a cursor of this version, fewer or none  *)
(* in one of an earlier version.                                            *)
Cursors == [order : Int \cup {Null}, at : Seq(Int)]

(* What find() and streamBatch() are told to read; limit is <<>>, <<count>> *)
(* or <<from, count>>.                                                      *)
Windows == [limit : Seq(Nat), skip : Nat \cup {Unset}, take : Nat \cup {Unset}]

(* byKey: ordered by the first column of the key (isPkOrder).               *)
WalkType ==
    [kind : {"page", "pipeline"}, dir : {"ASC", "DESC"}, byKey : BOOLEAN, size : Nat \ {0},
     start : Cursors \cup {Unset}]
    \cup
    [kind : {"stream"}, dir : {"ASC", "DESC"}, byKey : BOOLEAN, size : Nat \ {0},
     window : Windows]

ASSUME PagingAssumption ==
    /\ Width \in Nat \ {0}
    /\ \A k \in RowKeys : k \in Seq(Int) /\ Len(k) = Width
    /\ Vals \subseteq Int /\ Null \notin Int /\ Unset \notin Cursors /\ Unset \notin Int
    /\ Carried \in [Vals -> Int]
    /\ MaxChanges \in Nat
    /\ Walks \subseteq WalkType
    /\ \A w \in Walks :
        IF w.kind = "stream" THEN Len(w.window.limit) <= 2
        ELSE w.start = Unset \/ Len(w.start.at) <= Width

VARIABLES
    table,    \* the rows now
    walk,     \* how this caller pages
    cursor,   \* where its next page starts, or Unset for the first
    offset,   \* .. of a stream
    left,     \* rows a stream may still read; Unset without a limit
    over,     \* the caller has been told there is no more
    got,      \* history: rows delivered, as they were read
    again,    \* history: those delivered twice
    steady,   \* history: rows that were there at the start and did not change
    changes   \* how often others have changed the table

pagingVars == <<table, walk, cursor, offset, left, over, got, again, steady, changes>>

-----------------------------------------------------------------------------
(* The order of the rows *)

Precedes(dir, a, b) == IF dir = "ASC" THEN a < b ELSE a > b

(* buildKeysetOrderBy(): (col IS NULL), col, then the key; or the key alone. *)
SortKey(w, r) ==
    IF w.byKey THEN r.key
    ELSE <<IF r.val = Null THEN 1 ELSE 0, IF r.val = Null THEN 0 ELSE r.val>> \o r.key

Lex(dir, a, b) ==
    \E i \in 1 .. Len(a) : Precedes(dir, a[i], b[i]) /\ \A j \in 1 .. i - 1 : a[j] = b[j]

Before(w, r, s) == Lex(w.dir, SortKey(w, r), SortKey(w, s))

(* ORDER BY .. LIMIT count OFFSET from; no count is no limit. *)
Rank(S, w, r) == Cardinality({s \in S : Before(w, s, r)})
First(S, w, n) == {r \in S : Rank(S, w, r) < n}
Slice(S, w, from, count) ==
    {r \in S : Rank(S, w, r) >= from /\ (count # Unset => Rank(S, w, r) < from + count)}
LastOf(S, w) == CHOOSE r \in S : \A s \in S : ~Before(w, r, s)

-----------------------------------------------------------------------------
(* Where the next page starts *)

OrderValue(w, r) == IF w.byKey THEN r.key[1] ELSE r.val

(* keyAfter() over tiebreakKeys(): k1 > v1 OR (k1 = v1 AND k2 > v2) OR .. *)
KeyAfter_FirstOnly(dir, at, key) == Precedes(dir, at[1], key[1])
KeyAfter(dir, at, key) ==
    \E i \in 1 .. Len(at) :
        /\ Precedes(dir, at[i], key[i])
        /\ \A j \in 1 .. i - 1 : key[j] = at[j]

(* buildKeysetPredicate(); a comparison with NULL is not true. *)
Past(w, c, r) ==
    IF c.at = <<>>
    THEN \/ c.order = Null
         \/ OrderValue(w, r) = Null
         \/ c.order # Null /\ OrderValue(w, r) # Null /\ Precedes(w.dir, c.order, OrderValue(w, r))
    ELSE IF w.byKey THEN KeyAfter(w.dir, c.at, r.key)
    ELSE IF c.order = Null
    THEN \/ r.val = Null /\ KeyAfter(w.dir, c.at, r.key)
         \/ w.dir = "DESC" /\ r.val # Null
    ELSE \/ r.val # Null /\ Precedes(w.dir, c.order, r.val)
         \/ r.val = c.order /\ KeyAfter(w.dir, c.at, r.key)
         \/ w.dir = "ASC" /\ r.val = Null

(* cursorKeyOf(), through encodeCursorKey() and decodeCursorKey(). *)
CursorOf(w, r) ==
    [order |-> IF w.byKey THEN r.key[1] ELSE IF r.val = Null THEN Null ELSE Carried[r.val],
     at |-> r.key]

-----------------------------------------------------------------------------
(* What a stream covers *)

(* applyLimitAndLock(): the window find() reads. *)
FindWindow(o) ==
    IF Len(o.limit) = 2
    THEN [from |-> o.limit[1],
          count |-> IF o.take # Unset /\ o.take # 0 THEN o.take ELSE o.limit[2]]
    ELSE IF o.skip # Unset \/ (o.take # Unset /\ o.limit = <<>>)
    THEN [from |-> IF o.skip = Unset THEN 0 ELSE o.skip, count |-> o.take]
    ELSE [from |-> 0, count |-> IF o.limit = <<>> THEN Unset ELSE o.limit[1]]

(* streamBatch() works its own bounds out of the options .. *)
StreamStart(o) ==
    CASE Len(o.limit) = 2 -> o.limit[1]
      [] Len(o.limit) < 2 /\ o.skip # Unset -> o.skip
      [] OTHER -> 0
StreamBound(o) ==
    CASE Len(o.limit) = 2 -> IF o.take # Unset /\ o.take # 0 THEN o.take ELSE o.limit[2]
      [] Len(o.limit) < 2 /\ (o.skip # Unset \/ o.limit = <<>>) -> o.take
      [] OTHER -> o.limit[1]

(* .. and asks find() for each batch, without them. *)
BatchOptions_TakeStays(o, from, size) == [limit |-> <<from, size>>, skip |-> Unset, take |-> o.take]
BatchOptions(o, from, size) == [limit |-> <<from, size>>, skip |-> Unset, take |-> Unset]

-----------------------------------------------------------------------------
PagingInit ==
    /\ walk \in Walks
    /\ table \in {S \in SUBSET TableRows : IsFiniteSet(S) /\ \A r, s \in S : r.key = s.key => r = s}
    /\ cursor = IF walk.kind = "stream" THEN Unset ELSE walk.start
    /\ offset = IF walk.kind = "stream" THEN StreamStart(walk.window) ELSE 0
    /\ left = IF walk.kind = "stream" THEN StreamBound(walk.window) ELSE Unset
    /\ over = (left = 0)
    /\ got = {} /\ again = {} /\ steady = table /\ changes = 0

Deliver(page) ==
    /\ got' = got \cup page
    /\ again' = again \cup (page \cap got)
    /\ UNCHANGED <<table, walk, steady, changes>>

(* A page of findWithCursor() or getCursor(), which reads one row more to   *)
(* know whether to hand out a cursor (sliceCursorPage()); or a batch of the *)
(* pipeline, which goes on while batches are full.                          *)
ReadPage(kind, probe) ==
    LET found == {r \in table : cursor = Unset \/ Past(walk, cursor, r)}
        rows == First(found, walk, walk.size + probe)
        page == First(rows, walk, walk.size)
        more == Cardinality(rows) >= walk.size + probe
    IN
    /\ ~over /\ walk.kind = kind
    /\ Deliver(page)
    /\ cursor' = IF more THEN CursorOf(walk, LastOf(page, walk)) ELSE cursor
    /\ over' = ~more
    /\ UNCHANGED <<offset, left>>

CursorPage == ReadPage("page", 1)
KeysetBatch == ReadPage("pipeline", 0)

(* One turn of the loop of streamBatch(). *)
StreamBatch ==
    LET size == IF left = Unset \/ left > walk.size THEN walk.size ELSE left
        bounds == FindWindow(BatchOptions(walk.window, offset, size))
        batch == Slice(table, walk, bounds.from, bounds.count)
        rest == IF left = Unset THEN Unset ELSE left - Cardinality(batch)
    IN
    /\ ~over /\ walk.kind = "stream"
    /\ Deliver(batch)
    /\ offset' = offset + Cardinality(batch)
    /\ left' = rest
    /\ over' = (Cardinality(batch) < size \/ (rest # Unset /\ rest <= 0))
    /\ UNCHANGED cursor

(* Others commit a change between two pages. *)
Change(gone, new) ==
    /\ ~over /\ changes < MaxChanges
    /\ changes' = changes + 1
    /\ table' = (table \ gone) \cup new
    /\ steady' = steady \ gone
    /\ UNCHANGED <<walk, cursor, offset, left, over, got, again>>

Insert(r) == (\A s \in table : s.key # r.key) /\ Change({}, {r})
Delete(r) == r \in table /\ Change({r}, {})
Move(r, v) == r \in table /\ r.val # v /\ Change({r}, {[r EXCEPT !.val = v]})

PagingNext ==
    \/ CursorPage \/ KeysetBatch \/ StreamBatch
    \/ \E r \in TableRows : Insert(r) \/ Delete(r) \/ \E v \in Values : Move(r, v)

PagingSpec == PagingInit /\ [][PagingNext]_pagingVars

-----------------------------------------------------------------------------
PagingTypeOK ==
    /\ walk \in Walks
    /\ table \subseteq TableRows /\ IsFiniteSet(table)
    /\ \A r, s \in table : r.key = s.key => r = s
    /\ steady \subseteq table /\ got \subseteq TableRows /\ again \subseteq got
    /\ over \in BOOLEAN /\ changes \in 0 .. MaxChanges

(* What a walk by keyset owes for its first page: everything, or the rows   *)
(* after the cursor it was given.                                           *)
Owed(r) == walk.start = Unset \/ Past(walk, walk.start, r)

(* Rows that share an order value are neither skipped nor repeated at a     *)
(* page boundary, and NULLs page like any other value: whatever others      *)
(* insert, delete or move meanwhile, no row is delivered twice unless it    *)
(* moved, and at the end every row that stayed as it was has been delivered *)
(* (buildKeysetPredicate; docs/pagination.md, docs/raw-pipeline.md).        *)
KeysetWalk ==
    /\ PagingTypeOK
    /\ walk.kind # "stream" =>
        /\ again = {}
        /\ over => \A r \in steady : Owed(r) => r \in got

(* While nobody changes the table, a stream delivers, batch by batch and    *)
(* none twice, exactly the rows find() reads with the same options, however *)
(* limit, skip and take are combined (streamBatch: "with find()'s           *)
(* precedence").                                                            *)
OffsetWalk ==
    walk.kind = "stream" /\ changes = 0 =>
        LET bounds == FindWindow(walk.window)
            asked == Slice(table, walk, bounds.from, bounds.count)
        IN again = {} /\ got \subseteq asked /\ (over => got = asked)
=============================================================================
