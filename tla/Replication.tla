---------------------------- MODULE Replication ----------------------------
(***************************************************************************)
(* Read replicas: ReplicationManager (src/src/core), which owns one pool   *)
(* per node, and ReplicationRouter (src/src/dialects), which picks the     *)
(* node of a read and whose health checks take slaves out of the rotation. *)
(*                                                                         *)
(* initialize() and shutdown() both release what was there. The release    *)
(* number k, epoch, also numbers the router and the nodePools map made     *)
(* after it, so <<k, n>> names the pool of node n in that map: a pool that *)
(* failed to open is dropped, and opened again under the same name. The    *)
(* same config is registered each time, the harder case: its node objects, *)
(* the keys of the map, come back.                                         *)
(*                                                                         *)
(* Between the choice of a node and the lookup of its pool a read awaits   *)
(* nothing, so connectSession() never finds the options gone.              *)
(***************************************************************************)
EXTENDS Naturals, FiniteSets, Sequences

CONSTANTS
    Master,              \* config.master
    Configs,             \* values of config.slaves
    FailureThreshold, RecoveryThreshold,
    Readers,             \* flows that read, one read at a time
    MaxEpochs,           \* bound, by config: calls of initialize() and shutdown()
    MaxMarks,            \* bound, by config: calls of markSlaveFailed(), ..Recovered()
    Mortal,              \* slaves that break and come back
    Hung,                \* nodes that accept a query and never answer it
    None

SlavesOf(config) == {config[k] : k \in 1 .. Len(config)}
Nodes == {Master} \cup UNION {SlavesOf(config) : config \in Configs}

ASSUME ReplicationAssumption ==
    /\ IsFiniteSet(Configs)
    /\ \A config \in Configs :
        config \in Seq(Nodes) /\ config # <<>> /\ Master \notin SlavesOf(config)
    /\ {FailureThreshold, RecoveryThreshold} \subseteq Nat \ {0}
    /\ MaxEpochs \in [Configs -> Nat] /\ MaxMarks \in [Configs -> Nat]
    /\ None \notin Nat \X Nodes

MostOf(f) == CHOOSE k \in {f[c] : c \in DOMAIN f} : \A c \in DOMAIN f : f[c] <= k
Epochs == 1 .. MostOf(MaxEpochs)
AllIdx == 0 .. MostOf([config \in Configs |-> Len(config)]) - 1
PoolNames == Epochs \X Nodes

VARIABLES
    slaves,     \* config.slaves
    epoch,      \* releases so far
    live,       \* router and connectionOptions are set
    rt,         \* rt[k]: the router made after release k
    nodePools,  \* nodePools[n]: the pool it maps n to, or None
    pool,       \* pool[p]
    closing,    \* pools release() has taken out of a map to close them
    reads,      \* reads[r]: the pool a read awaits or uses
    checks,     \* checks[<<k, i>>]: the check of slave i by router k
    down,       \* slaves that cannot be reached
    marks,      \* calls of markSlave..() so far
    blamed      \* history: slaves that were down or marked since initialize()

vars == <<slaves, epoch, live, rt, nodePools, pool, closing, reads, checks, down, marks, blamed>>

N == Len(slaves)
Idx == 0 .. N - 1
Slave(i) == slaves[i + 1]

Idle == [at |-> "idle", pool |-> None]

(* A new ReplicationRouter, its health check started. *)
NewRouter == [failed |-> {}, index |-> 0, running |-> FALSE,
              fails |-> [i \in AllIdx |-> 0], succs |-> [i \in AllIdx |-> 0]]

Init ==
    /\ slaves \in Configs
    /\ epoch = 0 /\ live = FALSE
    /\ rt = [k \in Epochs |-> NewRouter]
    /\ nodePools = [n \in Nodes |-> None]
    /\ pool = [p \in PoolNames |-> "gone"]
    /\ closing = {}
    /\ reads = [r \in Readers |-> Idle]
    /\ checks = [c \in Epochs \X AllIdx |-> Idle]
    /\ down = {} /\ marks = 0 /\ blamed = {}

-----------------------------------------------------------------------------
(* initialize() and shutdown() *)

(* resetFailedSlaves(). The router is kept only for the cycle it runs. *)
Released(R) == IF R.running THEN [R EXCEPT !.failed = {}] ELSE NewRouter

(* release(): the timer is gone and the old router unreachable, but for a   *)
(* cycle of it that is under way; every promise in the map is taken to be   *)
(* closed, whether its pool is open yet or not.                             *)
Taken_OnlyOpen == {p \in PoolNames : nodePools[p[2]] = p /\ pool[p] = "open"}
Taken == {p \in PoolNames : nodePools[p[2]] = p}

Release ==
    /\ epoch < MaxEpochs[slaves]
    /\ epoch' = epoch + 1
    /\ closing' = closing \cup Taken
    /\ nodePools' = [n \in Nodes |-> None]
    /\ rt' = IF live THEN [rt EXCEPT ![epoch] = Released(@)] ELSE rt
    /\ UNCHANGED <<slaves, pool, reads, checks, down, marks>>

(* initialize() does not await the release. *)
Initialize ==
    /\ Release
    /\ live' = TRUE
    /\ blamed' = down

Shutdown ==
    /\ live
    /\ Release
    /\ live' = FALSE
    /\ UNCHANGED blamed

-----------------------------------------------------------------------------
(* Pools *)

(* nodePool() for the nodes ns, called one after the other: their pools     *)
(* start to open unless the map has them.                                   *)
Missing(ns) == {n \in ns : nodePools[n] = None}

PoolFor(n, ns) == IF n \in Missing(ns) THEN <<epoch, n>> ELSE nodePools[n]

NodePool(ns) ==
    /\ nodePools' = [n \in Nodes |-> PoolFor(n, ns)]
    /\ pool' = [p \in PoolNames |->
                 IF p[1] = epoch /\ p[2] \in Missing(ns) THEN "opening" ELSE pool[p]]

(* The node a failed opening is dropped under: only while the map it was    *)
(* put into still maps it so.                                               *)
StaysMapped_NoIdentity(n, p) == n # p[2]
StaysMapped(n, p) == nodePools[n] # p

PoolOpens(p) ==
    /\ pool[p] = "opening" /\ p[2] \notin down
    /\ pool' = [pool EXCEPT ![p] = "open"]
    /\ UNCHANGED <<slaves, epoch, live, rt, nodePools, closing, reads, checks, down, marks, blamed>>

-----------------------------------------------------------------------------
(* The outcome of a health check, for slave i of router R *)

AtMost(n, max) == IF n > max THEN max ELSE n

(* The counters stop at their thresholds, past which nothing tells them     *)
(* apart.                                                                   *)
Passed(R, i) ==
    LET n == R.succs[i] + 1
        back == i \in R.failed /\ n >= RecoveryThreshold
    IN [R EXCEPT !.fails[i] = 0,
                 !.succs[i] = IF back THEN 0 ELSE AtMost(n, RecoveryThreshold),
                 !.failed = IF back THEN @ \ {i} ELSE @]

Missed_AtThreshold(R, i) ==
    LET n == R.fails[i] + 1
    IN [R EXCEPT !.succs[i] = 0,
                 !.fails[i] = AtMost(n, FailureThreshold),
                 !.failed = IF n = FailureThreshold THEN @ \cup {i} ELSE @]
Missed(R, i) ==
    LET n == R.fails[i] + 1
    IN [R EXCEPT !.succs[i] = 0,
                 !.fails[i] = AtMost(n, FailureThreshold),
                 !.failed = IF n >= FailureThreshold THEN @ \cup {i} ELSE @]

(* The cycle is over once every check of it is. Then nothing refers to a    *)
(* router that was released any more.                                       *)
Settled(R, k, i) ==
    LET running == \E j \in Idx \ {i} : checks[<<k, j>>] # Idle
    IN IF running \/ (live /\ k = epoch) THEN [R EXCEPT !.running = running] ELSE NewRouter

(* Everyone who awaits a pool that fails to open is told before anything    *)
(* else happens: reads throw, checks count a failure.                       *)
PoolFails(p) ==
    LET k == p[1]
        missed == {i \in Idx : checks[<<k, i>>] = [at |-> "opening", pool |-> p]}
    IN
    /\ pool[p] = "opening" /\ p[2] \in down
    /\ pool' = [pool EXCEPT ![p] = "gone"]
    /\ closing' = closing \ {p}
    /\ nodePools' = [n \in Nodes |-> IF StaysMapped(n, p) THEN nodePools[n] ELSE None]
    /\ reads' = [r \in Readers |-> IF reads[r].pool = p THEN Idle ELSE reads[r]]
    /\ checks' = [c \in DOMAIN checks |-> IF checks[c].pool = p THEN Idle ELSE checks[c]]
    /\ rt' = IF missed = {} THEN rt
             ELSE LET i == CHOOSE i \in missed : TRUE
                  IN [rt EXCEPT ![k] = Settled(Missed(@, i), k, i)]
    /\ UNCHANGED <<slaves, epoch, live, down, marks, blamed>>

Uses(p) ==
    \/ \E r \in Readers : reads[r] = [at |-> "using", pool |-> p]
    \/ \E c \in DOMAIN checks : checks[c] = [at |-> "using", pool |-> p]

(* pool.close(), once the opening release() awaits is settled. New sessions *)
(* are refused from then on, and the pool is closed when it has its         *)
(* connections back.                                                        *)
CloseBegins(p) ==
    /\ p \in closing /\ pool[p] = "open"
    /\ pool' = [pool EXCEPT ![p] = "ending"]
    /\ UNCHANGED <<slaves, epoch, live, rt, nodePools, closing, reads, checks, down, marks, blamed>>

CloseEnds(p) ==
    /\ pool[p] = "ending" /\ ~Uses(p)
    /\ pool' = [pool EXCEPT ![p] = "gone"]
    /\ closing' = closing \ {p}
    /\ UNCHANGED <<slaves, epoch, live, rt, nodePools, reads, checks, down, marks, blamed>>

-----------------------------------------------------------------------------
(* Reads *)

Healthy(R) == Idx \ R.failed

(* The slaves getReadNode() may return, by round robin. *)
NextSlave_SkipsOne(R) ==
    LET ahead(i) == (i + N - ((R.index + 1) % N)) % N
    IN CHOOSE i \in Healthy(R) : \A j \in Healthy(R) : ahead(i) <= ahead(j)
NextSlave(R) ==
    LET ahead(i) == (i + N - R.index) % N
    IN CHOOSE i \in Healthy(R) : \A j \in Healthy(R) : ahead(i) <= ahead(j)

(* find(), findAndCount(), findWithCursor() and explain(), with or without  *)
(* useMaster, as far as connectSession()'s await of the pool.               *)
ReadFrom(r, n) ==
    /\ NodePool({n})
    /\ reads' = [reads EXCEPT ![r] = [at |-> "opening", pool |-> PoolFor(n, {n})]]
    /\ UNCHANGED <<slaves, epoch, live, closing, checks, down, marks, blamed>>

ReadMaster(r) ==
    /\ live /\ reads[r] = Idle
    /\ ReadFrom(r, Master)
    /\ UNCHANGED rt

ReadSlave(r) ==
    LET R == rt[epoch]
        i == NextSlave(R)
    IN
    /\ live /\ reads[r] = Idle /\ Healthy(R) # {}
    /\ ReadFrom(r, Slave(i))
    /\ rt' = [rt EXCEPT ![epoch].index = (i + 1) % N]

(* connectWith(): a pool that is ending refuses, and the read throws. *)
ReadConnects(r) ==
    LET p == reads[r].pool IN
    /\ reads[r].at = "opening" /\ pool[p] # "opening"
    /\ reads' = [reads EXCEPT ![r] = IF pool[p] = "open" /\ p[2] \notin down
                                     THEN [at |-> "using", pool |-> p] ELSE Idle]
    /\ UNCHANGED <<slaves, epoch, live, rt, nodePools, pool, closing, checks, down, marks, blamed>>

(* The read has its rows, or an error; session.close() gives the connection *)
(* back.                                                                    *)
ReadEnds(r) ==
    /\ reads[r].at = "using" /\ reads[r].pool[2] \notin Hung
    /\ reads' = [reads EXCEPT ![r] = Idle]
    /\ UNCHANGED <<slaves, epoch, live, rt, nodePools, pool, closing, checks, down, marks, blamed>>

-----------------------------------------------------------------------------
(* Health checks *)

(* The interval fires: one cycle at a time, all slaves at once. *)
Tick ==
    LET ns == {Slave(i) : i \in Idx} IN
    /\ live /\ ~rt[epoch].running
    /\ NodePool(ns)
    /\ checks' = [c \in DOMAIN checks |->
                   IF c[1] = epoch /\ c[2] \in Idx THEN [at |-> "opening", pool |-> PoolFor(Slave(c[2]), ns)]
                   ELSE checks[c]]
    /\ rt' = [rt EXCEPT ![epoch].running = TRUE]
    /\ UNCHANGED <<slaves, epoch, live, closing, reads, down, marks, blamed>>

CheckIsOver(k, i, R) ==
    /\ checks' = [checks EXCEPT ![<<k, i>>] = Idle]
    /\ rt' = [rt EXCEPT ![k] = Settled(R, k, i)]
    /\ UNCHANGED <<slaves, epoch, live, nodePools, pool, closing, reads, down, marks, blamed>>

(* ping() takes a connection. *)
CheckConnects(k, i) ==
    LET c == <<k, i>> p == checks[c].pool IN
    /\ checks[c].at = "opening" /\ pool[p] = "open" /\ p[2] \notin down
    /\ checks' = [checks EXCEPT ![c] = [at |-> "using", pool |-> p]]
    /\ UNCHANGED <<slaves, epoch, live, rt, nodePools, pool, closing, reads, down, marks, blamed>>

CheckRefused(k, i) ==
    LET c == <<k, i>> p == checks[c].pool IN
    /\ checks[c].at = "opening" /\ pool[p] # "opening"
    /\ pool[p] = "open" => p[2] \in down
    /\ CheckIsOver(k, i, Missed(rt[k], i))

(* The query is answered, or its connection breaks. *)
CheckAnswered(k, i) ==
    LET n == checks[<<k, i>>].pool[2] IN
    /\ checks[<<k, i>>].at = "using" /\ n \notin Hung
    /\ CheckIsOver(k, i, IF n \in down THEN Missed(rt[k], i) ELSE Passed(rt[k], i))

(* markSlaveFailed() and markSlaveRecovered() leave the counters alone. *)
MarkSlaveFailed(i) ==
    /\ live /\ marks < MaxMarks[slaves]
    /\ marks' = marks + 1
    /\ blamed' = blamed \cup {Slave(i)}
    /\ rt' = [rt EXCEPT ![epoch].failed = @ \cup {i}]
    /\ UNCHANGED <<slaves, epoch, live, nodePools, pool, closing, reads, checks, down>>

MarkSlaveRecovered(i) ==
    /\ live /\ marks < MaxMarks[slaves]
    /\ marks' = marks + 1
    /\ rt' = [rt EXCEPT ![epoch].failed = @ \ {i}]
    /\ UNCHANGED <<slaves, epoch, live, nodePools, pool, closing, reads, checks, down, blamed>>

(* Slaves break and come back. *)
SlaveGoesDown(n) ==
    /\ n \in Mortal \ down
    /\ down' = down \cup {n} /\ blamed' = blamed \cup {n}
    /\ UNCHANGED <<slaves, epoch, live, rt, nodePools, pool, closing, reads, checks, marks>>

SlaveComesUp(n) ==
    /\ n \in down
    /\ down' = down \ {n}
    /\ UNCHANGED <<slaves, epoch, live, rt, nodePools, pool, closing, reads, checks, marks, blamed>>

-----------------------------------------------------------------------------
PoolSettles(p) == PoolOpens(p) \/ PoolFails(p)
ReadGoesOn(r) == ReadConnects(r) \/ ReadEnds(r)
CheckGoesOn(k, i) == CheckConnects(k, i) \/ CheckRefused(k, i) \/ CheckAnswered(k, i)
PoolCloses(p) == CloseBegins(p) \/ CloseEnds(p)

Next ==
    \/ Initialize \/ Shutdown \/ Tick
    \/ \E p \in PoolNames : PoolSettles(p) \/ PoolCloses(p)
    \/ \E r \in Readers : ReadMaster(r) \/ ReadSlave(r) \/ ReadGoesOn(r)
    \/ \E k \in Epochs, i \in AllIdx : CheckGoesOn(k, i)
    \/ \E i \in Idx :
        \/ MarkSlaveFailed(i) \/ MarkSlaveRecovered(i)
        \/ SlaveGoesDown(Slave(i)) \/ SlaveComesUp(Slave(i))

(* The interval keeps firing, nodes answer or refuse, a read that was given *)
(* a connection ends. Nothing says that anyone reads, shuts down or that a  *)
(* slave breaks or comes back.                                              *)
Fairness ==
    /\ WF_vars(Tick)
    /\ \A p \in PoolNames : WF_vars(PoolSettles(p))
    /\ WF_vars(\E p \in PoolNames : PoolCloses(p))
    /\ \A r \in Readers : WF_vars(ReadGoesOn(r))
    /\ \A k \in Epochs : WF_vars(\E i \in AllIdx : CheckGoesOn(k, i))

Spec == Init /\ [][Next]_vars
FairSpec == Spec /\ Fairness

-----------------------------------------------------------------------------
TypeOK ==
    /\ slaves \in Configs /\ epoch \in 0 .. MaxEpochs[slaves] /\ live \in BOOLEAN
    /\ rt \in [Epochs -> [failed : SUBSET Idx, index : Idx, running : BOOLEAN,
                          fails : [AllIdx -> 0 .. FailureThreshold],
                          succs : [AllIdx -> 0 .. RecoveryThreshold]]]
    /\ nodePools \in [Nodes -> PoolNames \cup {None}]
    /\ pool \in [PoolNames -> {"gone", "opening", "open", "ending"}]
    /\ closing \subseteq PoolNames
    /\ LET Session == [at : {"opening", "using"}, pool : PoolNames] \cup {Idle}
       IN reads \in [Readers -> Session] /\ checks \in [Epochs \X AllIdx -> Session]
    /\ down \subseteq Nodes \ {Master} /\ blamed \subseteq Nodes \ {Master}
    /\ marks \in 0 .. MaxMarks[slaves]

(* A pool that is opening or open belongs to someone: the map has it under  *)
(* its node, or a release is about to close it, never both; and the map has *)
(* no pool that is closed or being closed. So a node has one pool that      *)
(* reads and checks share, however the failure of an old opening, a         *)
(* release and the reads of a new registration interleave.                  *)
PoolsAreOwned ==
    /\ TypeOK
    /\ \A p \in PoolNames :
        pool[p] \in {"opening", "open"} => (nodePools[p[2]] = p) # (p \in closing)
    /\ \A n \in Nodes : nodePools[n] # None =>
        /\ live /\ pool[nodePools[n]] \in {"opening", "open"}
        /\ nodePools[n] = <<epoch, n>>

(* A slave that was neither down nor marked since this router was made is   *)
(* in its rotation: what checks of an earlier router, refused by the pools  *)
(* being closed under them, count is not held against it. And the rotation  *)
(* is fair wherever it stands: the next reads, one for each slave in it,    *)
(* reach them all.                                                          *)
RotationIsSound ==
    live =>
        LET R == rt[epoch]
            index[k \in 0 .. N] ==
                IF k = 0 THEN R.index ELSE (NextSlave([R EXCEPT !.index = index[k - 1]]) + 1) % N
        IN
        /\ \A i \in R.failed : Slave(i) \in blamed
        /\ \A i \in Healthy(R) : \E k \in 1 .. Cardinality(Healthy(R)) : index[k] = (i + 1) % N

(* Health checks do their work: a slave that stays down leaves the          *)
(* rotation, one that stays up comes back, for as long as replication is    *)
(* registered. One slave being down never keeps the other from being        *)
(* checked.                                                                 *)
InStep(n) ==
    live /\ n \in SlavesOf(slaves) =>
        (n \in down <=> \E i \in rt[epoch].failed : Slave(i) = n)

HealthFollows == \A n \in Nodes \ (Hung \cup {Master}) : []<>InStep(n)

(* Every pool a release took is closed in the end, the ones that were still *)
(* opening included.                                                        *)
Lingering == {p \in PoolNames : p[1] < epoch /\ pool[p] # "gone"}

ReleasedPoolsClose == []<>(Lingering = {})
=============================================================================
