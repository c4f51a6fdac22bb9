----------------------------- MODULE QueryCache -----------------------------
(***************************************************************************)
(* The query result cache of an EntityManager                              *)
(* (src/src/core/cache/QueryResultCache.ts) with its in-memory store,      *)
(* filled by reads outside any transaction, invalidated by writes when     *)
(* their transaction ends                                                  *)
(* (EntityManager.finishWrite), by user tag, and as a whole.               *)
(*                                                                         *)
(* The rows of a table are its version. A user tag has a version too: how  *)
(* often it was invalidated. A row set is the versions of the moment it    *)
(* was read.                                                               *)
(***************************************************************************)
EXTENDS Naturals, Sequences, SequencesExt, Lists

CONSTANTS
    Tables,         \* table tags
    UserTags,       \* user tags
    Keys,           \* cache keys: namespace, SQL text and binds
    TablesOf,       \* TablesOf[k]: the tables the query reads
    Readers,        \* reads that ask for caching
    KeyOf,          \* KeyOf[r]: the query a read makes
    TagOf,          \* TagOf[r]: the user tag of its cache option, or None
    Writers,        \* transactions that write
    Writes,         \* Writes[w]: the tables w's write can reach
    RawWriters,     \* writers of raw SQL, who call invalidate() themselves
    MaxEntries,     \* capacity of the in-memory store
    MaxInvalidations,   \* bound: invalidations of a user tag
    Configured,     \* register() was given a cache option
    None            \* no tag, entry or rows

Tags == Tables \cup UserTags
Rows == [Tags -> Nat]
Entries == [val : Rows, tags : SUBSET Tags]

ASSUME QueryCacheAssumption ==
    /\ Tables \cap UserTags = {}
    /\ None \notin Tags /\ None \notin Rows /\ None \notin Entries
    /\ TablesOf \in [Keys -> SUBSET Tables]
    /\ KeyOf \in [Readers -> Keys]
    /\ TagOf \in [Readers -> UserTags \cup {None}]
    /\ Writes \in [Writers -> SUBSET Tables]
    /\ RawWriters \subseteq Writers
    /\ MaxEntries \in Nat /\ MaxInvalidations \in Nat
    /\ Configured \in BOOLEAN

VARIABLES
    version,    \* version[t]: what a read of the database finds
    returned,   \* returned[t]: the version a caller was told is in place
    created,    \* EntityManager._queryCache exists
    entry,      \* entry[k]: the stored rows and their tags, or None
    order,      \* keys of the entries Map, least recently used first
    tagIndex,   \* tagIndex[t]: keys indexed under t
    rpc,        \* how far each read has come
    rows,       \* rows[r]: the row set the read has, or None
    floor,      \* floor[r]: history, returned when the read started
    stale,      \* stale[r]: the InFlightRead's flag
    wpc,        \* how far each transaction has come
    wrote,      \* writers whose statement has run
    settled,    \* writers whose write call has finished
    held        \* held[w]: tags held until w's transaction ends

store == <<entry, order, tagIndex>>
readers == <<rpc, rows, floor, stale>>
writers == <<wpc, wrote, settled, held>>
vars == <<version, returned, created, store, readers, writers>>

Init ==
    /\ version = [t \in Tags |-> 0]
    /\ returned = [t \in Tags |-> 0]
    /\ created = Configured
    /\ entry = [k \in Keys |-> None]
    /\ order = <<>>
    /\ tagIndex = [t \in Tags |-> {}]
    /\ rpc = [r \in Readers |-> "idle"]
    /\ rows = [r \in Readers |-> None]
    /\ floor = [r \in Readers |-> returned]
    /\ stale = [r \in Readers |-> FALSE]
    /\ wpc = [w \in Writers |-> "idle"]
    /\ wrote = {}
    /\ settled = {}
    /\ held = [w \in Writers |-> {}]

-----------------------------------------------------------------------------
(* The in-memory store *)

(* QueryCachePolicy.tags *)
ReadTags(r) == TablesOf[KeyOf[r]] \cup ({TagOf[r]} \ {None})

(* Faulty variant: entries go, their places in the index stay. *)
IndexWithout_Kept(gone) == tagIndex

(* remove(): the index forgets the entries that go. *)
IndexWithout(gone) ==
    [t \in Tags |-> tagIndex[t] \ {k \in gone : entry[k] # None /\ t \in entry[k].tags}]

RemoveKeys(gone) ==
    /\ entry' = [k \in Keys |-> IF k \in gone THEN None ELSE entry[k]]
    /\ order' = Without(order, gone)
    /\ tagIndex' = IndexWithout(gone)

(* The keys evicted, oldest first, to make room for k. *)
Evicted(k) ==
    LET others == Without(order, {k})
    IN {others[i] : i \in {j \in DOMAIN others : Len(others) - j + 1 >= MaxEntries}}

(* set() *)
Put(k, value, tags) ==
    LET gone == Evicted(k) \cup {k}
    IN /\ entry' = [j \in Keys |-> IF j = k THEN [val |-> value, tags |-> tags]
                                   ELSE IF j \in gone THEN None ELSE entry[j]]
       /\ order' = Append(Without(order, gone), k)
       /\ tagIndex' = [t \in Tags |-> IndexWithout(gone)[t] \cup (IF t \in tags THEN {k} ELSE {})]

InFlight(r) == rpc[r] \in {"fetching", "read"}

(* Faulty variant: reads under way are not marked. *)
Drop_InFlightForgotten(tags) ==
    /\ RemoveKeys(UNION {tagIndex[t] : t \in tags})
    /\ UNCHANGED stale

(* dropTags(), and dropAll() for all tags: the entries go, and a read of   *)
(* these tables under way will not be stored.                              *)
Drop(tags) ==
    /\ RemoveKeys(UNION {tagIndex[t] : t \in tags})
    /\ stale' = [r \in Readers |->
                   stale[r] \/ (InFlight(r) /\ ReadTags(r) \cap tags # {})]

-----------------------------------------------------------------------------
(* Reads *)

(* policyForFind(), which creates the cache if need be, then runQuery() up *)
(* to the answer of store.get(): a hit.                                    *)
Hit(r) ==
    LET k == KeyOf[r] IN
    /\ rpc[r] = "idle"
    /\ entry[k] # None
    /\ created' = TRUE
    /\ floor' = [floor EXCEPT ![r] = returned]
    /\ rows' = [rows EXCEPT ![r] = entry[k].val]
    /\ order' = Append(Without(order, {k}), k)
    /\ rpc' = [rpc EXCEPT ![r] = "done"]
    /\ UNCHANGED <<version, returned, entry, tagIndex, stale, writers>>

(* No entry, or one that has expired, or a store that failed. *)
Miss(r) ==
    /\ rpc[r] = "idle"
    /\ created' = TRUE
    /\ floor' = [floor EXCEPT ![r] = returned]
    /\ \/ UNCHANGED store
       \/ entry[KeyOf[r]] # None /\ RemoveKeys({KeyOf[r]})
    /\ rpc' = [rpc EXCEPT ![r] = "missed"]
    /\ UNCHANGED <<version, returned, rows, stale, writers>>

(* After the await: the read is registered and its statement sent. *)
Fetch(r) ==
    /\ rpc[r] = "missed"
    /\ rpc' = [rpc EXCEPT ![r] = "fetching"]
    /\ UNCHANGED <<version, returned, created, store, rows, floor, stale, writers>>

(* The database runs it, or fails. *)
Read(r) ==
    /\ rpc[r] = "fetching"
    /\ \/ /\ rpc' = [rpc EXCEPT ![r] = "read"]
          /\ rows' = [rows EXCEPT ![r] = version]
          /\ UNCHANGED stale
       \/ /\ rpc' = [rpc EXCEPT ![r] = "done"]
          /\ stale' = [stale EXCEPT ![r] = FALSE]
          /\ UNCHANGED rows
    /\ UNCHANGED <<version, returned, created, store, floor, writers>>

(* The answer arrives; unless the read went stale or the store fails, its  *)
(* rows are stored under the tags of its own policy.                       *)
Return(r) ==
    /\ rpc[r] = "read"
    /\ \/ ~stale[r] /\ Put(KeyOf[r], rows[r], ReadTags(r))
       \/ UNCHANGED store
    /\ rpc' = [rpc EXCEPT ![r] = "done"]
    /\ stale' = [stale EXCEPT ![r] = FALSE]
    /\ UNCHANGED <<version, returned, created, rows, floor, writers>>

(* The next read of the same query. *)
Again(r) ==
    /\ rpc[r] = "done"
    /\ rpc' = [rpc EXCEPT ![r] = "idle"]
    /\ rows' = [rows EXCEPT ![r] = None]
    /\ floor' = [floor EXCEPT ![r] = [t \in Tags |-> 0]]
    /\ UNCHANGED <<version, returned, created, store, stale, writers>>

-----------------------------------------------------------------------------
(* Writes *)

Begin(w) ==
    /\ wpc[w] = "idle"
    /\ wpc' = [wpc EXCEPT ![w] = "open"]
    /\ UNCHANGED <<version, returned, created, store, readers, wrote, settled, held>>

(* isTransactionActive of w's session: until commit() or rollback() returns. *)
Active(w) == wpc[w] \in {"open", "committed"}

(* The statement of w's write runs. *)
Write(w) ==
    /\ wpc[w] = "open"
    /\ w \notin wrote
    /\ wrote' = wrote \cup {w}
    /\ UNCHANGED <<version, returned, created, store, readers, wpc, settled, held>>

(* When its transaction is committed and its write call has finished, the  *)
(* caller of w relies on its rows.                                         *)
Reported(w, over, finished) ==
    returned' = [t \in Tags |->
        IF over = "committedOver" /\ w \in finished /\ t \in Writes[w]
        THEN version[t] ELSE returned[t]]

(* Faulty variant: the write drops its tags at once. *)
Settle_AtOnce(w) ==
    /\ w \in wrote \ settled
    /\ settled' = settled \cup {w}
    /\ created
    /\ Drop(Writes[w])
    /\ Reported(w, wpc[w], settled')
    /\ UNCHANGED <<version, created, rpc, rows, floor, wpc, wrote, held>>

(* finishWrite(): the write call returns or throws, and its tags are held  *)
(* while its transaction is open, else dropped. Nothing happens as long as *)
(* there is no cache.                                                      *)
Settle(w) ==
    /\ w \in (wrote \ settled) \ RawWriters
    /\ settled' = settled \cup {w}
    /\ \/ /\ ~created
          /\ UNCHANGED <<store, stale, held>>
       \/ /\ created /\ Active(w)
          /\ held' = [held EXCEPT ![w] = @ \cup Writes[w]]
          /\ UNCHANGED <<store, stale>>
       \/ /\ created /\ ~Active(w)
          /\ Drop(Writes[w])
          /\ UNCHANGED held
    /\ Reported(w, wpc[w], settled')
    /\ UNCHANGED <<version, created, rpc, rows, floor, wpc, wrote>>

(* invalidate() after a raw write: now and again when the transaction ends. *)
InvalidateTables(w) ==
    /\ w \in (wrote \ settled) \cap RawWriters
    /\ settled' = settled \cup {w}
    /\ created' = TRUE
    /\ Drop(Writes[w])
    /\ held' = IF Active(w) THEN [held EXCEPT ![w] = @ \cup Writes[w]] ELSE held
    /\ Reported(w, wpc[w], settled')
    /\ UNCHANGED <<version, rpc, rows, floor, wpc, wrote>>

(* The server commits: its rows are there to be read. *)
Commit(w) ==
    /\ wpc[w] = "open"
    /\ wpc' = [wpc EXCEPT ![w] = "committed"]
    /\ version' = [t \in Tags |->
                     IF w \in wrote /\ t \in Writes[w] THEN version[t] + 1 ELSE version[t]]
    /\ UNCHANGED <<returned, created, store, readers, wrote, settled, held>>

(* commit() or rollback() returns when the held tags have been dropped. A  *)
(* write still under way after a rollback has come to nothing.             *)
End(w) ==
    /\ \/ wpc[w] = "open" /\ wpc' = [wpc EXCEPT ![w] = "rolledBackOver"]
       \/ wpc[w] = "committed" /\ wpc' = [wpc EXCEPT ![w] = "committedOver"]
    /\ \/ held[w] = {} /\ UNCHANGED <<store, stale>>
       \/ held[w] # {} /\ Drop(held[w])
    /\ held' = [held EXCEPT ![w] = {}]
    /\ Reported(w, wpc'[w], settled)
    /\ UNCHANGED <<version, created, rpc, rows, floor, wrote, settled>>

-----------------------------------------------------------------------------
(* invalidate() of a user tag, outside any transaction. *)
InvalidateTag(u) ==
    /\ version[u] < MaxInvalidations
    /\ created' = TRUE
    /\ version' = [version EXCEPT ![u] = @ + 1]
    /\ returned' = [returned EXCEPT ![u] = @ + 1]
    /\ Drop({u})
    /\ UNCHANGED <<rpc, rows, floor, writers>>

(* clear(), in w's transaction or outside any. *)
Clear ==
    /\ created' = TRUE
    /\ Drop(Tags)
    /\ \/ UNCHANGED held
       \/ \E w \in Writers : Active(w) /\ held' = [held EXCEPT ![w] = Tags]
    /\ UNCHANGED <<version, returned, rpc, rows, floor, wpc, wrote, settled>>

Next ==
    \/ \E r \in Readers : Hit(r) \/ Miss(r) \/ Fetch(r) \/ Read(r) \/ Return(r)
                          \/ Again(r)
    \/ \E w \in Writers : Begin(w) \/ Write(w) \/ Settle(w) \/ InvalidateTables(w)
                          \/ Commit(w) \/ End(w)
    \/ \E u \in UserTags : InvalidateTag(u)
    \/ Clear

Spec == Init /\ [][Next]_vars

-----------------------------------------------------------------------------
TypeOK ==
    /\ version \in Rows /\ returned \in Rows
    /\ created \in BOOLEAN
    /\ entry \in [Keys -> Entries \cup {None}]
    /\ order \in Seq(Keys)
    /\ tagIndex \in [Tags -> SUBSET Keys]
    /\ rpc \in [Readers -> {"idle", "missed", "fetching", "read", "done"}]
    /\ rows \in [Readers -> Rows \cup {None}]
    /\ floor \in [Readers -> Rows]
    /\ stale \in [Readers -> BOOLEAN]
    /\ wpc \in [Writers -> {"idle", "open", "committed", "rolledBackOver", "committedOver"}]
    /\ wrote \subseteq Writers /\ settled \subseteq Writers
    /\ held \in [Writers -> SUBSET Tags]

(* The entries, their order of use and the tag index tell of the same keys *)
(* (set, get, remove): an entry the index misses could not be invalidated. *)
IndexMatchesEntries ==
    /\ ToSet(order) = {k \in Keys : entry[k] # None}
    /\ IsInjective(order)
    /\ \A t \in Tags : tagIndex[t] = {k \in ToSet(order) : t \in entry[k].tags}

(* "Entry count is bounded by maxEntries" (set). *)
BoundedEntries == Len(order) <= MaxEntries

(* The store after every mixture of sets, hits, expiries, evictions and    *)
(* invalidations.                                                          *)
StoreIsSound == TypeOK /\ IndexMatchesEntries /\ BoundedEntries

(* A row set in the store is not older than what a caller was told is in   *)
(* place: "rows fetched just before a COMMIT never land in the cache after *)
(* it" (runQuery, invalidateEntity, holdUntilTransactionEnd).              *)
NoStaleEntry ==
    \A k \in Keys : entry[k] # None =>
        \A t \in entry[k].tags : entry[k].val[t] >= returned[t]

(* A read finds every write whose call and transaction returned before the *)
(* read began, and nothing its own user tag was invalidated for: "a read   *)
(* after it never sees an entry the transaction made stale" (runQuery).    *)
ReadsAreCurrent ==
    \A r \in Readers : rpc[r] = "done" /\ rows[r] # None =>
        \A t \in ReadTags(r) : rows[r][t] >= floor[r][t]
=============================================================================
