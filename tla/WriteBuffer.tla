---------------------------- MODULE WriteBuffer ----------------------------
(***************************************************************************)
(* The write buffer (unit of work) of src/src/core/plugin/buffer: an       *)
(* identity map of tracked objects with their snapshots, queues of what is *)
(* to be inserted and deleted, and flush(), which writes it all in one     *)
(* transaction, statement by statement, and has to leave memory and rows   *)
(* in agreement whether it succeeds, fails or joins a transaction that is  *)
(* rolled back later.                                                      *)
(*                                                                         *)
(* Two entities stand for a schema: parents with a collection of kids      *)
(* (@OneToMany, cascade: true), kids with a foreign key column. Each has a *)
(* generated key and one more column. The caller awaits flush(), so it     *)
(* does nothing else meanwhile. An object stands for whichever instance    *)
(* the caller holds of its row.                                            *)
(***************************************************************************)
EXTENDS Naturals, Sequences, FiniteSets, SequencesExt, Lists

CONSTANTS
    Parents, Kids,  \* objects by entity
    Stored,         \* the objects that are rows at first, tracked by the buffer
    FirstKey,       \* FirstKey[o]: the key of the row of o \in Stored
    FirstHome,      \* FirstHome[o]: the parent whose collection holds it, or itself
    Vals,           \* values of the column that is not a key
    Bulks,          \* updateMany() and deleteMany() calls of the caller
    MaxSize,        \* maxIdentityMapSize
    OrphanModes,    \* values of the option orphanRemoval
    NestedModes,    \* whether the buffer is one of beginNested()
    Mixed,          \* the caller also mixes calls that get in each other's way
    LateFaults,     \* flush() may fail after it re-baselined or evicted an object
    NoSnap,         \* not tracked
    NotLoaded,      \* a collection that is a lazy proxy
    MaxKey,         \* bound: keys the database generates
    MaxOps,         \* bound: calls of the caller before flushes
    MaxFlushes,     \* bound: flushes
    MaxFaults       \* bound: statements, COMMITs and transactions that fail

Objs == Parents \cup Kids
Keys == 1 .. MaxKey

ASSUME WriteBufferAssumption ==
    /\ Parents \cap Kids = {} /\ IsFiniteSet(Objs) /\ Stored \subseteq Objs
    /\ FirstKey \in [Stored -> 1 .. Cardinality(Stored)]
    /\ \A o, x \in Stored : FirstKey[o] = FirstKey[x] => o = x
    /\ Cardinality(Stored) <= MaxKey
    /\ FirstHome \in [Stored -> Stored]
    /\ \A o \in Stored : FirstHome[o] # o => o \in Kids /\ FirstHome[o] \in Parents
    /\ Vals # {} /\ 0 \notin Vals
    /\ Bulks \subseteq [op : {"update", "delete"}, of : SUBSET Objs, from : Vals, to : Vals]
    /\ OrphanModes \subseteq BOOLEAN /\ NestedModes \subseteq BOOLEAN
    /\ Mixed \in BOOLEAN /\ LateFaults \in BOOLEAN
    /\ {MaxSize, MaxKey, MaxOps, MaxFlushes, MaxFaults} \subseteq Nat
    /\ NoSnap \notin [val : Vals \cup {0}, fk : 0 .. MaxKey, kids : (SUBSET Kids) \cup {NotLoaded}]

VARIABLES
    rows,       \* committed rows by key, deleted ones marked
    work,       \* the rows as the connection of the buffer sees them
    nextKey,    \* next generated key, never taken back
    obj,        \* obj[o]: the columns and the collection the object holds
    snap,       \* snap[o]: TrackedEntry.snapshot and collectionSnapshots
    idmap,      \* identityMap, least recently used first
    st,         \* stateMap; an absent entry is DETACHED
    queue,      \* persistQueue, deleteQueue, the bulk queues
    outer,      \* the caller's own transaction: "none", "open", "broken"
    onEnd,      \* what flushes registered with onTransactionEnd()
    flush,      \* the flush under way
    told,       \* what the last flush told its caller
    mode,       \* the options
    ops, flushes, faults

vars == <<rows, work, nextKey, obj, snap, idmap, st, queue, outer, onEnd,
          flush, told, mode, ops, flushes, faults>>
bufVars == <<snap, idmap, st>>
txVars == <<rows, work, nextKey, outer, onEnd>>
flushVars == <<flush, told, mode, flushes, faults>>

-----------------------------------------------------------------------------
(* Objects, rows and tracking *)

FkAtFirst(o) == IF FirstHome[o] = o THEN 0 ELSE FirstKey[FirstHome[o]]

KidsAtFirst(o) == {c \in Stored \ {o} : FirstHome[c] = o}

FirstVal == CHOOSE v \in Vals : TRUE

NewObject == [key |-> 0, val |-> FirstVal, fk |-> 0, kids |-> {}]

KidsOf(o) == IF obj[o].kids = NotLoaded THEN {} ELSE obj[o].kids

Live(w) == {k \in DOMAIN w : w[k].state = "live"}

Tracked(o) == snap[o] # NoSnap

(* SnapshotStrategy.diff is not null. *)
Edited(o) == Tracked(o) /\ (obj[o].val # snap[o].val \/ obj[o].fk # snap[o].fk)

(* diffCollection: a lazy proxy has no difference. *)
AddedKids(o) ==
    IF Tracked(o) /\ snap[o].kids # NotLoaded THEN KidsOf(o) \ snap[o].kids ELSE {}
RemovedKids(o) ==
    IF Tracked(o) /\ snap[o].kids # NotLoaded THEN snap[o].kids \ KidsOf(o) ELSE {}

(* saveCascadeChild skips a tracked kid that is clean and keeps its parent. *)
SkippedKid(c, p) == Tracked(c) /\ ~Edited(c) /\ obj[c].fk = obj[p].key

Baseline(r) == [val |-> r.val, fk |-> r.fk, kids |-> r.kids]

Entry(o) == [key |-> obj[o].key, obj |-> o]

(* The three structures of the buffer, as one value the helpers pass on.   *)
Buffer == [snap |-> snap, idmap |-> idmap, st |-> st]

SetBuffer(b) == snap' = b.snap /\ idmap' = b.idmap /\ st' = b.st

(* detachTracked, untrack: for all of S. *)
Forget(b, S) ==
    [snap  |-> [o \in Objs |-> IF o \in S THEN NoSnap ELSE b.snap[o]],
     idmap |-> Without(b.idmap, {e \in ToSet(b.idmap) : e.obj \in S}),
     st    |-> [o \in Objs |-> IF o \in S THEN "DETACHED" ELSE b.st[o]]]

(* Faulty variant: edits do not matter.                                    *)
Evictable_EditsIgnored(b, os, o) == b.st[o] \notin {"NEW", "REMOVED"}

Evictable(b, os, o) ==
    /\ b.st[o] \notin {"NEW", "REMOVED"}
    /\ b.snap[o] # NoSnap => os[o].val = b.snap[o].val /\ os[o].fk = b.snap[o].fk

(* evictIfNeeded: the oldest evictable ones, as many as are too many. *)
Evict(b, os) ==
    LET old == Without(b.idmap, {e \in ToSet(b.idmap) : ~Evictable(b, os, e.obj)})
        over == IF Len(b.idmap) > MaxSize THEN Len(b.idmap) - MaxSize ELSE 0
        n == IF over < Len(old) THEN over ELSE Len(old)
    IN Forget(b, {old[i].obj : i \in 1 .. n})

(* track(), for an object whose columns are os[o]. *)
Track(b, os, o) ==
    IF b.snap[o] # NoSnap THEN b
    ELSE Evict([snap  |-> [b.snap EXCEPT ![o] = Baseline(os[o])],
                idmap |-> Append(b.idmap, [key |-> os[o].key, obj |-> o]),
                st    |-> [b.st EXCEPT ![o] = "MANAGED"]], os)

NoWork == [persists |-> {}, deletes |-> {}, bulks |-> {}]
Idle == [pc |-> "idle", todo |-> <<>>, visited |-> {}, pre |-> <<>>,
         expanded |-> FALSE, altered |-> {}, start |-> <<>>, goal |-> {}]

Init ==
    /\ rows = [k \in {FirstKey[o] : o \in Stored} |->
                 LET o == CHOOSE x \in Stored : FirstKey[x] = k
                 IN [val |-> FirstVal, fk |-> FkAtFirst(o), by |-> o, state |-> "live"]]
    /\ work = rows
    /\ nextKey = Cardinality(Stored) + 1
    /\ obj = [o \in Objs |->
                IF o \in Stored
                THEN [key |-> FirstKey[o], val |-> FirstVal, fk |-> FkAtFirst(o),
                      kids |-> KidsAtFirst(o)]
                ELSE NewObject]
    /\ snap = [o \in Objs |-> IF o \in Stored THEN Baseline(obj[o]) ELSE NoSnap]
    /\ idmap = SetToSeq({Entry(o) : o \in Stored})
    /\ st = [o \in Objs |-> IF o \in Stored THEN "MANAGED" ELSE "DETACHED"]
    /\ queue = NoWork
    /\ outer = "none"
    /\ onEnd = <<>>
    /\ flush = Idle
    /\ told = "none"
    /\ mode \in [orphans : OrphanModes, nested : NestedModes]
    /\ ops = 0 /\ flushes = 0 /\ faults = 0

-----------------------------------------------------------------------------
(* What the rows mean, and what a flush is to make of them *)

Facts(w) ==
    {[of |-> w[k].by, val |-> w[k].val,
      home |-> CASE w[k].fk = 0 -> "none"
                 [] w[k].fk \in DOMAIN w -> w[w[k].fk].by
                 [] OTHER -> "ghost"] : k \in Live(w)}

(* The caller's intent: an object that is edited or persisted is stored    *)
(* as it is; a kid belongs to the parent whose collection it was put in,   *)
(* or whose row is written; a kid in no collection any more is an orphan;  *)
(* kids go with their parents; bulk statements come last.                  *)
Touched(p) == Edited(p) \/ p \in queue.persists

NewHome(c, p) == c \in AddedKids(p) \/ (Touched(p) /\ c \in KidsOf(p))

Saved(o) ==
    \/ Edited(o) /\ obj[o].key \in Live(work)
    \/ o \in queue.persists
    \/ \E p \in Parents : NewHome(o, p) /\ ~(obj[p].key # 0 /\ SkippedKid(o, p))

FactOf(o) ==
    [of |-> o, val |-> obj[o].val,
     home |-> IF \E p \in Parents : NewHome(o, p)
              THEN CHOOSE p \in Parents : NewHome(o, p)
              ELSE IF obj[o].fk \in DOMAIN work THEN work[obj[o].fk].by ELSE "none"]

Orphans ==
    {c \in Kids : mode.orphans /\ \E p \in Parents : c \in RemovedKids(p)}
        \ UNION {KidsOf(p) : p \in {x \in Parents : Tracked(x) \/ x \in queue.persists}}

Condemned(f) ==
    \/ f.of \in Orphans
    \/ \E d \in queue.deletes : d.key \in DOMAIN work
         /\ \/ d.by = "key" /\ f.of = work[d.key].by
            \/ f.home = work[d.key].by

InBulk(b, f) == f.of \in b.of /\ f.val = b.from

Goal ==
    LET all == {FactOf(o) : o \in {x \in Objs : Saved(x)}}
                 \cup {f \in Facts(work) : ~Saved(f.of)}
        kept == {f \in all : ~Condemned(f)}
        Set(f) == IF \E b \in queue.bulks : b.op = "update" /\ InBulk(b, f)
                  THEN [f EXCEPT !.val = (CHOOSE b \in queue.bulks :
                                            b.op = "update" /\ InBulk(b, f)).to]
                  ELSE f
    IN {f \in {Set(g) : g \in kept} :
          ~\E b \in queue.bulks : b.op = "delete" /\ InBulk(b, f)}

-----------------------------------------------------------------------------
(* The caller *)

Call ==
    /\ flush.pc = "idle" /\ outer # "broken"
    /\ ops < MaxOps
    /\ ops' = ops + 1

(* The object is the caller's to work with. *)
Held(o) == Tracked(o) \/ o \in queue.persists

InCollection(c) == \E p \in Parents : c \in KidsOf(p)

Edit(o, v) ==
    /\ Call
    /\ Held(o) /\ obj[o].val # v
    /\ obj' = [obj EXCEPT ![o].val = v]
    /\ UNCHANGED <<bufVars, txVars, flushVars, queue>>

(* A kid both queued and put in the collection of a tracked parent, or one *)
(* with a row put in the collection of a parent that is only queued.       *)
Entangled(c, p) ==
    \/ c \in queue.persists /\ Tracked(p)
    \/ p \in queue.persists /\ obj[c].key # 0

AddKid(c, p) ==
    /\ Call
    /\ Held(p) /\ obj[p].kids # NotLoaded
    /\ ~InCollection(c) /\ st[c] # "REMOVED"
    /\ Mixed \/ /\ ~Entangled(c, p)
                /\ obj[c].key \in {0} \cup Live(work)
    /\ obj' = [obj EXCEPT ![p].kids = @ \cup {c}]
    /\ UNCHANGED <<bufVars, txVars, flushVars, queue>>

DropKid(c, p) ==
    /\ Call
    /\ Held(p) /\ c \in KidsOf(p)
    /\ obj' = [obj EXCEPT ![p].kids = @ \ {c}]
    /\ UNCHANGED <<bufVars, txVars, flushVars, queue>>

(* persist() of an object without a key: it is queued. *)
PersistNew(o) ==
    /\ Call
    /\ obj[o].key = 0 /\ o \notin queue.persists
    /\ Mixed \/ /\ ~\E p \in Parents : Tracked(p) /\ o \in KidsOf(p)
                /\ ~\E b \in queue.bulks : o \in b.of
    /\ queue' = [queue EXCEPT !.persists = @ \cup {o}]
    /\ st' = [st EXCEPT ![o] = "NEW"]
    /\ UNCHANGED <<snap, idmap, txVars, flushVars, obj>>

Matches(d, o) == d.by = "key" /\ d.key = obj[o].key

CancelQueuedDelete(o) == {d \in queue.deletes : ~Matches(d, o)}

SameAsRow(o) ==
    /\ obj[o].key \in Live(work)
    /\ obj[o].val = work[obj[o].key].val /\ obj[o].fk = work[obj[o].key].fk

(* persist() of an object with a generated key, taken to be as its row is. *)
PersistKnown(o) ==
    /\ Call
    /\ obj[o].key # 0 /\ ~Tracked(o) /\ SameAsRow(o)
    /\ Mixed \/ KidsOf(o) \cap queue.persists = {}
    /\ queue' = [queue EXCEPT !.deletes = CancelQueuedDelete(o)]
    /\ SetBuffer(Track(Buffer, obj, o))
    /\ UNCHANGED <<txVars, flushVars, obj>>

(* persist() of a tracked object: track() is idempotent. *)
PersistTracked(o) ==
    /\ Call
    /\ Tracked(o) /\ CancelQueuedDelete(o) # queue.deletes
    /\ queue' = [queue EXCEPT !.deletes = CancelQueuedDelete(o)]
    /\ UNCHANGED <<bufVars, txVars, flushVars, obj>>

(* merge(), with the loaded kids: a baseline nothing equals. *)
Sentinel == 0
MergeOne(b, o) ==
    IF b.snap[o] # NoSnap THEN b
    ELSE LET t == Track(b, obj, o)
         IN IF t.snap[o] = NoSnap THEN t
            ELSE [t EXCEPT !.snap[o].val = Sentinel]

MergeAll(b, s) ==
    LET after[n \in 0 .. Len(s)] == IF n = 0 THEN b ELSE MergeOne(after[n - 1], s[n])
    IN after[Len(s)]

MergeObject(o) ==
    /\ Call
    /\ ~Tracked(o) /\ st[o] # "REMOVED"
    /\ \A x \in {o} \cup KidsOf(o) : obj[x].key \in Live(work)
    /\ SetBuffer(MergeAll(Buffer, <<o>> \o SetToSeq(KidsOf(o))))
    /\ UNCHANGED <<txVars, flushVars, queue, obj>>

(* remove() of a queued object: its INSERT is cancelled. *)
RemoveQueued(o) ==
    /\ Call
    /\ o \in queue.persists
    /\ queue' = [queue EXCEPT !.persists = @ \ {o}]
    /\ SetBuffer(Forget(Buffer, {o}))
    /\ UNCHANGED <<txVars, flushVars, obj>>

(* remove() of an object with a key: untracked, its DELETE queued. *)
RemoveStored(o) ==
    /\ Call
    /\ o \notin queue.persists /\ obj[o].key # 0 /\ st[o] # "REMOVED"
    /\ queue' = [queue EXCEPT !.deletes = @ \cup
                   {[by |-> "key", key |-> obj[o].key, kid |-> o \in Kids]}]
    /\ SetBuffer([Forget(Buffer, {o}) EXCEPT !.st[o] = "REMOVED"])
    /\ UNCHANGED <<txVars, flushVars, obj>>

(* delete(entity, criteria), the criteria a key: nothing is untracked. *)
DeleteByKey(o) ==
    /\ Call
    /\ obj[o].key # 0
    /\ queue' = [queue EXCEPT !.deletes = @ \cup
                   {[by |-> "key", key |-> obj[o].key, kid |-> o \in Kids]}]
    /\ UNCHANGED <<bufVars, txVars, flushVars, obj>>

(* updateMany(), deleteMany(). *)
QueueBulk(b) ==
    /\ Call
    /\ b \notin queue.bulks
    /\ Mixed \/ queue.persists \cap b.of = {}
    /\ queue' = [queue EXCEPT !.bulks = @ \cup {b}]
    /\ UNCHANGED <<bufVars, txVars, flushVars, obj>>

(* detach(), which takes the loaded kids along. *)
Detach(o) ==
    /\ Call
    /\ Held(o)
    /\ SetBuffer(Forget(Buffer, {o} \cup KidsOf(o)))
    /\ queue' = [queue EXCEPT !.persists = @ \ ({o} \cup KidsOf(o))]
    /\ UNCHANGED <<txVars, flushVars, obj>>

(* findOne() by key, in the map: the object it knows, now the latest used. *)
LoadKnown(o) ==
    /\ Call
    /\ \E i \in DOMAIN idmap :
         /\ idmap[i].obj = o
         /\ i < Len(idmap)
         /\ idmap' = Append(RemoveAt(idmap, i), idmap[i])
    /\ UNCHANGED <<snap, st, txVars, flushVars, queue, obj>>

(* findOne() by key, not in the map: the row, its collection a lazy proxy. *)
LoadRow(o) ==
    /\ Call
    /\ ~Held(o) /\ ~InCollection(o)
    /\ obj[o].key \in Live(work)
    /\ LET row == work[obj[o].key]
       IN obj' = [obj EXCEPT ![o].val = row.val, ![o].fk = row.fk,
                             ![o].kids = IF o \in Parents THEN NotLoaded ELSE {}]
    /\ SetBuffer(Track(Buffer, obj', o))
    /\ UNCHANGED <<txVars, flushVars, queue>>

(* A transaction of the caller's, around the flushes to come. *)
OuterBegin ==
    /\ Call
    /\ outer = "none"
    /\ outer' = "open"
    /\ UNCHANGED <<bufVars, flushVars, rows, work, nextKey, onEnd, queue, obj>>

OuterCommit ==
    /\ flush.pc = "idle" /\ outer = "open"
    /\ outer' = "none"
    /\ rows' = work
    /\ onEnd' = <<>>
    /\ UNCHANGED <<bufVars, flushVars, work, nextKey, queue, obj, ops>>

-----------------------------------------------------------------------------
(* flush() *)

Pending ==
    \/ queue # NoWork
    \/ \E o \in Objs : Edited(o) \/ AddedKids(o) # {} \/ RemovedKids(o) # {}

Jobs(op, S) == {[op |-> op, of |-> o] : o \in S}

(* collectCascadeDeletes: the kids of each parent to be deleted.           *)
CascadeDeletes(ds) == {[by |-> "home", key |-> d.key, kid |-> TRUE] :
                         d \in {x \in ds : x.by = "key" /\ ~x.kid}}

(* Faulty variant: a kid that was added to another parent is deleted too.  *)
Spared_NoReparent(c) == FALSE

(* collectCollectionDiffs: kids added to a tracked parent are no orphans.  *)
Spared(c) == \E p \in Parents : c \in AddedKids(p)

CollectionDiffs ==
    (IF mode.orphans
     THEN Jobs("orphan", {c \in Kids : ~Spared(c) /\ \E p \in Parents : c \in RemovedKids(p)})
     ELSE {})
    \cup UNION {{[op |-> "added", of |-> c, under |-> p] : c \in AddedKids(p)} : p \in Parents}

(* Faulty variant: the order of insertion for deletion, too. *)
DeleteOrder_ParentsFirst(ds) == <<{d \in ds : ~d.kid}, {d \in ds : d.kid}>>

(* The rest of the order is sortByIndex: parents before kids, and the      *)
(* other way round for deletes. Order within a batch is left open.         *)
InsertOrder(S) == <<S \cap Parents, S \cap Kids>>

DeleteOrder(ds) == <<{d \in ds : d.kid}, {d \in ds : ~d.kid}>>

Batches ==
    LET Ups(S) == Jobs("update", S)
        Ins(S) == Jobs("insert", S)
        tracked == {o \in Objs : Tracked(o)}
        dels == DeleteOrder(queue.deletes \cup CascadeDeletes(queue.deletes))
        DelJobs(ds) == {[op |-> "delete", what |-> d] : d \in ds}
        BulkJobs(op) == {[op |-> "bulk", what |-> b] : b \in {x \in queue.bulks : x.op = op}}
        all == <<Ups(InsertOrder(tracked)[1]), Ups(InsertOrder(tracked)[2]),
                 Ins(InsertOrder(queue.persists)[1]), Ins(InsertOrder(queue.persists)[2]),
                 CollectionDiffs,
                 IF queue.deletes = {} THEN {} ELSE {[op |-> "expand"]},
                 DelJobs(dels[1]), DelJobs(dels[2]),
                 BulkJobs("update"), BulkJobs("delete")>>
    IN Without(all, {{}})

(* capturePreFlushColumnState: tracked, queued, and their loaded kids. *)
Columns(o) == [key |-> obj[o].key, val |-> obj[o].val, fk |-> obj[o].fk]

Captured ==
    LET roots == {o \in Objs : Held(o)}
    IN [o \in roots \cup UNION {KidsOf(p) : p \in roots} |-> Columns(o)]

(* restorePreFlushColumnState. *)
Restore(os, pre) ==
    [o \in Objs |-> IF o \in DOMAIN pre
                    THEN [os[o] EXCEPT !.key = pre[o].key, !.val = pre[o].val,
                                       !.fk = pre[o].fk]
                    ELSE os[o]]

(* A kid moved from a tracked parent to one that this flush inserts. *)
Tangled == \E p, q \in Parents : q \in queue.persists /\ RemovedKids(p) \cap KidsOf(q) # {}

(* The call, up to its first statement: queues are copied, columns kept,   *)
(* the transaction begun or joined, in a nested buffer behind a savepoint. *)
FlushBegin ==
    /\ flush.pc = "idle" /\ outer # "broken"
    /\ flushes < MaxFlushes
    /\ flushes' = flushes + 1
    /\ Pending
    /\ Mixed \/ ~Tangled
    /\ flush' = [Idle EXCEPT !.pc = "run", !.todo = Batches, !.pre = Captured,
                             !.start = work, !.goal = Goal]
    /\ told' = "none"
    /\ UNCHANGED <<bufVars, txVars, obj, queue, mode, ops, faults>>

(* The jobs left after j, those in S first. *)
Rest(j, S) ==
    LET head == Head(flush.todo) \ {j}
        rest == IF head = {} THEN Tail(flush.todo) ELSE <<head>> \o Tail(flush.todo)
    IN IF S = {} THEN rest ELSE <<S>> \o rest

(* EntityManager.save of o with foreign key fk: UPDATE when the generated  *)
(* key is there, else INSERT; all columns; the row answered goes back on   *)
(* the object. An UPDATE that meets no row is an error.                    *)
Savable(o) == IF obj[o].key = 0 THEN nextKey <= MaxKey ELSE obj[o].key \in Live(work)

Save(o, fk) ==
    LET new == obj[o].key = 0
        k == IF new THEN nextKey ELSE obj[o].key
    IN /\ Savable(o)
       /\ work' = [x \in DOMAIN work \cup {k} |->
                     IF x # k THEN work[x]
                     ELSE [val |-> obj[o].val, fk |-> fk,
                           by |-> IF new THEN o ELSE work[k].by, state |-> "live"]]
       /\ obj' = [obj EXCEPT ![o].key = k, ![o].fk = fk]
       /\ nextKey' = IF new THEN nextKey + 1 ELSE nextKey

Cascade(p) == {[op |-> "cascade", of |-> c, under |-> p] : c \in KidsOf(p)}

Running(j) ==
    /\ flush.pc = "run"
    /\ flush.todo # <<>>
    /\ j \in Head(flush.todo)

Skip(j) == flush' = [flush EXCEPT !.todo = Rest(j, {})]

Visit(j, o, S) == flush' = [flush EXCEPT !.todo = Rest(j, S), !.visited = @ \cup {o}]

NoStatement == UNCHANGED <<work, nextKey, obj>>

(* An object found dirty, unless a cascade has written it: then its kids.  *)
RunUpdate(j) ==
    /\ Running(j) /\ j.op = "update"
    /\ IF j.of \in flush.visited \/ ~Edited(j.of)
       THEN Skip(j) /\ NoStatement
       ELSE Save(j.of, obj[j.of].fk) /\ Visit(j, j.of, Cascade(j.of))
    /\ UNCHANGED <<bufVars, rows, outer, onEnd, queue, told, mode, ops, flushes, faults>>

RunInsert(j) ==
    /\ Running(j) /\ j.op = "insert"
    /\ Save(j.of, obj[j.of].fk)
    /\ Visit(j, j.of, Cascade(j.of))
    /\ UNCHANGED <<bufVars, rows, outer, onEnd, queue, told, mode, ops, flushes, faults>>

(* saveCascadeChild: another kid is saved and given a new baseline.        *)
SaveKid(j, seen) ==
    LET c == j.of
        next == [flush EXCEPT !.todo = Rest(j, {}), !.visited = seen]
    IN /\ IF SkippedKid(c, j.under)
          THEN NoStatement /\ UNCHANGED snap /\ flush' = next
          ELSE /\ Save(c, obj[j.under].key)
               /\ snap' = IF Tracked(c)
                          THEN [snap EXCEPT ![c].val = obj[c].val, ![c].fk = obj'[c].fk]
                          ELSE snap
               /\ flush' = [next EXCEPT !.altered =
                              IF Tracked(c) THEN @ \cup {c} ELSE @]

(* A kid of a parent just written (processCascadeInsertUpdate). *)
RunCascade(j) ==
    /\ Running(j) /\ j.op = "cascade"
    /\ IF j.of \in flush.visited
       THEN Skip(j) /\ NoStatement /\ UNCHANGED snap
       ELSE SaveKid(j, flush.visited \cup {j.of})
    /\ UNCHANGED <<idmap, st, rows, outer, onEnd, queue, told, mode, ops, flushes, faults>>

AddedDone(c) == ~Tracked(c) /\ c \in flush.visited

(* A kid new in the collection of a tracked parent. *)
RunAdded(j) ==
    /\ Running(j) /\ j.op = "added"
    /\ IF AddedDone(j.of)
       THEN Skip(j) /\ NoStatement /\ UNCHANGED snap
       ELSE SaveKid(j, IF Tracked(j.of) THEN flush.visited ELSE flush.visited \cup {j.of})
    /\ UNCHANGED <<idmap, st, rows, outer, onEnd, queue, told, mode, ops, flushes, faults>>

Erase(S, how) ==
    work' = [k \in DOMAIN work |->
               IF k \in S /\ work[k].state = "live" THEN [work[k] EXCEPT !.state = how]
               ELSE work[k]]

(* A kid in no tracked collection any more; it stays in the identity map.  *)
RunOrphan(j) ==
    /\ Running(j) /\ j.op = "orphan"
    /\ Erase({obj[j.of].key}, "orphaned")
    /\ Skip(j)
    /\ UNCHANGED <<bufVars, rows, nextKey, outer, onEnd, queue, obj, told, mode, ops, flushes, faults>>

(* The kids to be deleted are looked up; they join the copy of the queue   *)
(* that a failure puts back.                                               *)
RunExpand(j) ==
    /\ Running(j) /\ j.op = "expand"
    /\ flush' = [flush EXCEPT !.todo = Rest(j, {}), !.expanded = TRUE]
    /\ UNCHANGED <<bufVars, txVars, obj, queue, told, mode, ops, flushes, faults>>

(* Faulty variant: only the row goes. *)
EvictMatching_Nothing(d) == {}

(* evictTrackedMatching. *)
EvictMatching(d) ==
    {o \in Objs : /\ Tracked(o) /\ (d.kid <=> o \in Kids)
                  /\ IF d.by = "key" THEN obj[o].key = d.key ELSE obj[o].fk = d.key}

RunDelete(j) ==
    /\ Running(j) /\ j.op = "delete"
    /\ LET d == j.what
       IN /\ IF d.by = "key" THEN Erase({d.key}, "deleted")
             ELSE Erase({k \in DOMAIN work : work[k].fk = d.key}, "deleted")
          /\ SetBuffer(Forget(Buffer, EvictMatching(d)))
          /\ flush' = [flush EXCEPT !.todo = Rest(j, {}), !.altered = @ \cup EvictMatching(d)]
    /\ UNCHANGED <<rows, nextKey, outer, onEnd, queue, obj, told, mode, ops, flushes, faults>>

BulkRows(b) == {k \in Live(work) : work[k].by \in b.of /\ work[k].val = b.from}
BulkTracked(b) == {o \in b.of : Tracked(o) /\ obj[o].val = b.from}

(* executeBulkUpdate, syncTrackedAfterBulkUpdate. *)
RunBulkUpdate(j) ==
    /\ Running(j) /\ j.op = "bulk" /\ j.what.op = "update"
    /\ LET b == j.what
           synced == BulkTracked(b)
       IN /\ work' = [k \in DOMAIN work |->
                        IF k \in BulkRows(b) THEN [work[k] EXCEPT !.val = b.to] ELSE work[k]]
          /\ obj' = [o \in Objs |-> IF o \in synced THEN [obj[o] EXCEPT !.val = b.to] ELSE obj[o]]
          /\ snap' = [o \in Objs |-> IF o \in synced
                        THEN [snap[o] EXCEPT !.val = b.to, !.fk = obj[o].fk] ELSE snap[o]]
          /\ flush' = [flush EXCEPT !.todo = Rest(j, {}), !.altered = @ \cup synced]
    /\ UNCHANGED <<idmap, st, rows, nextKey, outer, onEnd, queue, told, mode, ops, flushes, faults>>

(* executeBulkDelete, evictTrackedAfterBulkDelete. *)
RunBulkDelete(j) ==
    /\ Running(j) /\ j.op = "bulk" /\ j.what.op = "delete"
    /\ Erase(BulkRows(j.what), "deleted")
    /\ SetBuffer(Forget(Buffer, BulkTracked(j.what)))
    /\ flush' = [flush EXCEPT !.todo = Rest(j, {}), !.altered = @ \cup BulkTracked(j.what)]
    /\ UNCHANGED <<rows, nextKey, outer, onEnd, queue, obj, told, mode, ops, flushes, faults>>

RunJob == flush.pc = "run" /\ flush.todo # <<>> /\ \E j \in Head(flush.todo) :
    \/ RunUpdate(j) \/ RunInsert(j) \/ RunCascade(j) \/ RunAdded(j) \/ RunOrphan(j)
    \/ RunExpand(j) \/ RunDelete(j) \/ RunBulkUpdate(j) \/ RunBulkDelete(j)

(* All is written and, unless the flush joined a transaction, committed:   *)
(* new baselines, the queues emptied, what was inserted tracked.           *)
Rebaselined ==
    [snap  |-> [o \in Objs |-> IF Tracked(o) THEN Baseline(obj[o]) ELSE NoSnap],
     idmap |-> idmap, st |-> st]

TrackOne(b, o) == [Track(b, obj, o) EXCEPT !.st[o] = "MANAGED"]

TrackAll(b, s) ==
    LET after[n \in 0 .. Len(s)] == IF n = 0 THEN b ELSE TrackOne(after[n - 1], s[n])
    IN after[Len(s)]

FlushDone ==
    /\ flush.pc = "run" /\ flush.todo = <<>>
    /\ rows' = IF outer = "none" THEN work ELSE rows
    /\ onEnd' = IF outer = "none" THEN onEnd
                ELSE Append(onEnd, [pre |-> flush.pre, persists |-> queue.persists])
    /\ SetBuffer(TrackAll(Rebaselined, SetToSeq(queue.persists)))
    /\ queue' = NoWork
    /\ flush' = Idle
    /\ told' = "ok"
    /\ UNCHANGED <<work, nextKey, outer, obj, mode, ops, flushes, faults>>

(* The next statement cannot succeed: an UPDATE of a row that is gone.     *)
Doomed == flush.todo # <<>> /\ \E j \in Head(flush.todo) :
    /\ j.op \in {"update", "insert", "cascade", "added"}
    /\ obj[j.of].key # 0 /\ obj[j.of].key \notin Live(work)
    /\ CASE j.op = "update" -> Edited(j.of) /\ j.of \notin flush.visited
         [] j.op = "insert" -> TRUE
         [] j.op = "cascade" -> j.of \notin flush.visited /\ ~SkippedKid(j.of, j.under)
         [] j.op = "added" -> ~AddedDone(j.of) /\ ~SkippedKid(j.of, j.under)

(* Faulty variant: one of the queues is not put back. *)
PutBack_NoDeletes == [queue EXCEPT !.deletes = {}]

PutBack ==
    IF flush.expanded THEN [queue EXCEPT !.deletes = @ \cup CascadeDeletes(@)] ELSE queue

(* A statement, a savepoint or COMMIT fails: columns and queues go back;   *)
(* the rows do with the flush's own transaction, to the savepoint of a     *)
(* nested buffer, or with the caller's transaction, which must roll back.  *)
FlushFails ==
    /\ flush.pc = "run"
    /\ LateFaults \/ flush.altered = {}
    /\ IF Doomed THEN UNCHANGED faults ELSE faults < MaxFaults /\ faults' = faults + 1
    /\ obj' = Restore(obj, flush.pre)
    /\ queue' = PutBack
    /\ work' = IF outer = "none" \/ mode.nested THEN flush.start ELSE work
    /\ outer' = IF outer = "open" /\ ~mode.nested THEN "broken" ELSE outer
    /\ flush' = [Idle EXCEPT !.goal = flush.goal]
    /\ told' = "error"
    /\ UNCHANGED <<bufVars, rows, nextKey, onEnd, mode, ops, flushes>>

(* Faulty variant: the oldest callback first. *)
RunEnds_OldestFirst(os, es) ==
    LET back[n \in 0 .. Len(es)] ==
          IF n = 0 THEN os ELSE Restore(back[n - 1], es[n].pre)
    IN back[Len(es)]

(* The callbacks es, newest first (TransactionSessionManager). *)
RunEnds(os, es) ==
    LET back[n \in 0 .. Len(es)] ==
          IF n = 0 THEN os ELSE Restore(back[n - 1], es[Len(es) - n + 1].pre)
    IN back[Len(es)]

(* The caller's transaction is rolled back, and with it the flushes in it: *)
(* columns go back, the caches are emptied, queues are not put back.       *)
OuterRollback ==
    /\ flush.pc = "idle" /\ outer \in {"open", "broken"}
    /\ outer' = "none"
    /\ work' = rows
    /\ onEnd' = <<>>
    /\ obj' = RunEnds(obj, onEnd)
    /\ IF onEnd = <<>> THEN UNCHANGED bufVars
       ELSE /\ snap' = [o \in Objs |-> NoSnap]
            /\ idmap' = <<>>
            /\ st' = [o \in Objs |->
                        IF \E i \in DOMAIN onEnd : o \in onEnd[i].persists
                        THEN "DETACHED" ELSE st[o]]
    /\ UNCHANGED <<rows, nextKey, queue, flush, told, mode, ops, flushes, faults>>

Next ==
    \/ \E o \in Objs, v \in Vals : Edit(o, v)
    \/ \E c \in Kids, p \in Parents : AddKid(c, p) \/ DropKid(c, p)
    \/ \E o \in Objs : \/ PersistNew(o) \/ PersistKnown(o) \/ PersistTracked(o)
                       \/ MergeObject(o) \/ RemoveQueued(o) \/ RemoveStored(o) \/ DeleteByKey(o)
                       \/ Detach(o) \/ LoadKnown(o) \/ LoadRow(o)
    \/ \E b \in Bulks : QueueBulk(b)
    \/ OuterBegin \/ OuterCommit \/ OuterRollback
    \/ FlushBegin \/ RunJob \/ FlushDone \/ FlushFails

Spec == Init /\ [][Next]_vars

-----------------------------------------------------------------------------
(* Properties *)

(* Type of the state: rows under generated keys, each object with a        *)
(* snapshot or none, the phases of flush() and of the caller's             *)
(* transaction (fields of WriteBuffer and IdentityMapManager). It is the   *)
(* first part of CacheIsHonest.                                            *)
TypeOK ==
    /\ DOMAIN rows \subseteq DOMAIN work /\ DOMAIN work \subseteq 1 .. nextKey - 1
    /\ \A o \in Objs : /\ obj[o].key \in 0 .. MaxKey /\ obj[o].val \in Vals
                       /\ Tracked(o) => snap[o].val \in Vals \cup {Sentinel}
                       /\ st[o] \in {"NEW", "MANAGED", "REMOVED", "DETACHED"}
    /\ {o \in Objs : Tracked(o)} = {idmap[i].obj : i \in DOMAIN idmap}
    /\ queue.persists = {o \in Objs : st[o] = "NEW"} \/ flush.pc = "run"
    /\ outer \in {"none", "open", "broken"} /\ flush.pc \in {"idle", "run"}
    /\ outer = "none" => onEnd = <<>>

(* flush() that returns has stored what the caller had asked for when it   *)
(* was called, and nothing else: whatever the order of statements, the     *)
(* cascades that write an object before its turn, the kids moved, dropped  *)
(* and deleted with their parents.                                         *)
FlushStores ==
    [][flush.pc = "run" /\ told' = "ok" => Facts(work') = flush.goal]_vars

(* flush() that throws, its rows rolled back, has left every queue and     *)
(* every edit such that calling it again stores the same (docs/            *)
(* write-buffer.md: the queues are preserved so that you can retry).       *)
RetryKeepsWork ==
    [][flush.pc = "run" /\ told' = "error" /\ outer' # "broken" => Goal' = flush.goal]_vars

Calm == flush.pc = "idle" /\ outer # "broken"

(* What findOne() would serve from the identity map has a row, and what    *)
(* the buffer takes to be clean is what the row holds: through joined      *)
(* transactions rolled back, failures, evictions and deletes. Rows of      *)
(* orphans are left out: the map keeps those (see README).                 *)
CacheIsHonest == TypeOK /\ (
    Calm => \A i \in DOMAIN idmap :
        LET o == idmap[i].obj
            k == idmap[i].key
        IN /\ obj[o].key = k /\ k \in DOMAIN work
           /\ work[k].state # "deleted"
           /\ work[k].state = "live" /\ ~Edited(o) =>
                obj[o].val = work[k].val /\ obj[o].fk = work[k].fk)

(* No object names a row that is not there, as its key or its foreign key: *)
(* a key generated in a transaction that was rolled back is taken off      *)
(* again; and no object was inserted twice.                                *)
KeysAreReal ==
    flush.pc = "idle" =>
        /\ \A o \in Objs : /\ obj[o].key # 0 => obj[o].key \in DOMAIN work
                                                 /\ work[obj[o].key].by = o
                          /\ obj[o].fk \in {0} \cup DOMAIN work
        /\ \A k, l \in DOMAIN work : work[k].by = work[l].by => k = l

(* At no statement of a flush is there a row whose foreign key names no    *)
(* row: parents are inserted before their kids and deleted after them,     *)
(* even when a kid was queued first (a database that enforces foreign keys *)
(* at each statement would refuse it).                                     *)
ForeignKeysHold ==
    \A k \in Live(work) : work[k].fk \in {0} \cup Live(work)

(* An object pushed out of the identity map by loading others had no edit  *)
(* that is not stored (docs/write-buffer.md: dirty entities are never      *)
(* evicted).                                                               *)
EvictionKeepsEdits ==
    [][(\E o \in Objs : LoadRow(o) \/ MergeObject(o) \/ PersistKnown(o))
         => \A o \in Objs : Edited(o) => snap'[o] # NoSnap]_vars
=============================================================================
