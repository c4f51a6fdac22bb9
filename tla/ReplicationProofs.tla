------------------------- MODULE ReplicationProofs -------------------------
(***************************************************************************)
(* Proofs about Replication for every set of configs, slaves, readers and  *)
(* thresholds, and any number of registrations.                            *)
(*                                                                         *)
(* Pools: PoolInv follows each pool from the map to a release to its end.  *)
(* Rotation: CheckInv ties every check under way to the router and the     *)
(* pool it is of, and RouterInv tells what the counters of the router in   *)
(* use stand for.                                                          *)
(***************************************************************************)
EXTENDS Replication, FiniteSetTheorems, WellFoundedInduction, TLAPS

(* A pool that opens or is open has one owner. *)
Owned ==
    \A p \in PoolNames :
        pool[p] \in {"opening", "open"} => (nodePools[p[2]] = p) # (p \in closing)

(* The map is that of the registration now, and has no pool that is closed. *)
Mapped ==
    \A n \in Nodes : nodePools[n] # None =>
        live /\ pool[nodePools[n]] \in {"opening", "open"} /\ nodePools[n] = <<epoch, n>>

(* What is to be closed is of an earlier registration. *)
ClosingInv == \A p \in closing : p[1] < epoch

PoolType ==
    /\ slaves \in Configs /\ epoch \in 0 .. MaxEpochs[slaves] /\ live \in BOOLEAN
    /\ nodePools \in [Nodes -> PoolNames \cup {None}]
    /\ pool \in [PoolNames -> {"gone", "opening", "open", "ending"}]
    /\ closing \subseteq PoolNames
    /\ live => epoch > 0

PoolInv == PoolType /\ Owned /\ Mapped /\ ClosingInv

-----------------------------------------------------------------------------
(* A finite set has an element nothing of it lies below. *)
LEMMA LeastExists ==
    ASSUME NEW S, IsFiniteSet(S), S # {}, NEW R,
           \A x, y, z \in S : <<x, y>> \in R /\ <<y, z>> \in R => <<x, z>> \in R,
           \A x \in S : <<x, x>> \notin R
    PROVE  \E x \in S : \A y \in S : <<y, x>> \notin R
<1> DEFINE Below(x) == {y \in S : <<y, x>> \in R}
           T == {Below(x) : x \in S}
<1>1. T \subseteq FiniteSubsetsOf(S) /\ T # {}
  <2>1. \A x \in S : Below(x) \subseteq S /\ IsFiniteSet(Below(x))
    BY FS_Subset
  <2> HIDE DEF Below
  <2>2. QED
    BY <2>1 DEF FiniteSubsetsOf
<1>2. PICK B \in T : \A C \in T : <<C, B>> \notin StrictSubsetOrdering(S)
  <2> HIDE DEF T
  <2>1. QED
    BY <1>1, FS_StrictSubsetOrderingWellFounded, WFMin
<1>3. PICK x \in S : B = Below(x)
  OBVIOUS
<1>4. ASSUME NEW y \in S, <<y, x>> \in R
      PROVE  FALSE
  <2>1. Below(y) \subseteq Below(x)
    BY <1>4
  <2>2. y \in Below(x) /\ y \notin Below(y)
    BY <1>4
  <2>3. <<Below(y), Below(x)>> \in StrictSubsetOrdering(S)
    <3>1. Below(y) \in SUBSET S /\ Below(x) \in SUBSET S /\ Below(y) # Below(x)
      BY <2>2
    <3> HIDE DEF Below
    <3>2. QED
      BY <2>1, <3>1 DEF StrictSubsetOrdering
  <2>4. Below(y) \in T
    OBVIOUS
  <2>5. QED
    BY <1>2, <1>3, <2>3, <2>4
<1>5. QED
  BY <1>4

(* MostOf() is the largest value of a function on a finite set. *)
LEMMA MostOfFacts ==
    ASSUME NEW C, IsFiniteSet(C), NEW f \in [C -> Nat], NEW c \in C
    PROVE  MostOf(f) \in Nat /\ f[c] <= MostOf(f)
<1> DEFINE R == {p \in C \X C : f[p[1]] > f[p[2]]}
<1>1. \A x, y \in C : <<x, y>> \in R <=> f[x] > f[y]
  OBVIOUS
<1>2. \A x \in C : f[x] \in Nat
  OBVIOUS
<1>3. PICK x \in C : \A y \in C : <<y, x>> \notin R
  <2>1. \A x, y, z \in C : <<x, y>> \in R /\ <<y, z>> \in R => <<x, z>> \in R
    BY <1>1, <1>2
  <2>2. \A x \in C : <<x, x>> \notin R
    BY <1>1, <1>2
  <2> HIDE DEF R
  <2>3. QED
    BY <2>1, <2>2, LeastExists
<1>4. \A y \in C : f[y] <= f[x]
  <2> TAKE y \in C
  <2>1. ~(f[y] > f[x])
    BY <1>1, <1>3
  <2>2. QED
    BY <1>2, <2>1
<1>5. DOMAIN f = C
  OBVIOUS
<1>6. \E k \in {f[d] : d \in DOMAIN f} : \A d \in DOMAIN f : f[d] <= k
  <2>1. f[x] \in {f[d] : d \in DOMAIN f} /\ \A d \in DOMAIN f : f[d] <= f[x]
    BY <1>4, <1>5
  <2>2. QED
    BY <2>1
<1>7. MostOf(f) \in {f[d] : d \in DOMAIN f} /\ \A d \in DOMAIN f : f[d] <= MostOf(f)
  <2> DEFINE S == {f[d] : d \in DOMAIN f}
             B(k) == \A d \in DOMAIN f : f[d] <= k
  <2>1. MostOf(f) = CHOOSE k \in S : B(k)
    BY DEF MostOf
  <2> HIDE DEF S, B
  <2>2. \E k \in S : B(k)
    BY <1>6 DEF S, B
  <2>3. MostOf(f) \in S /\ B(MostOf(f))
    BY <2>1, <2>2
  <2>4. QED
    BY <2>3 DEF S, B
<1>8. QED
  BY <1>2, <1>5, <1>7

(* The bounds of an instance cover what its config needs. *)
LEMMA BoundFacts ==
    ASSUME slaves \in Configs
    PROVE  /\ N \in Nat \ {0} /\ Idx \subseteq AllIdx /\ 0 \in Idx
           /\ \A i \in Idx : i \in Nat /\ i < N /\ Slave(i) \in Nodes \ {Master}
           /\ MaxEpochs[slaves] \in Nat /\ 1 .. MaxEpochs[slaves] \subseteq Epochs
           /\ Epochs \subseteq Nat \ {0}
<1>1. slaves \in Seq(Nodes) /\ slaves # <<>> /\ Master \notin SlavesOf(slaves)
  BY ReplicationAssumption
<1>2. N \in Nat \ {0}
  BY <1>1 DEF N
<1>3. N <= MostOf([config \in Configs |-> Len(config)]) /\ MostOf([config \in Configs |-> Len(config)]) \in Nat
  <2> DEFINE f == [config \in Configs |-> Len(config)]
  <2>1. f \in [Configs -> Nat] /\ f[slaves] = N
    BY ReplicationAssumption DEF N
  <2> HIDE DEF f
  <2>2. f[slaves] <= MostOf(f) /\ MostOf(f) \in Nat
    BY <2>1, ReplicationAssumption, MostOfFacts
  <2>3. QED
    BY <2>1, <2>2 DEF f
<1>4. Idx \subseteq AllIdx /\ 0 \in Idx
  <2> DEFINE most == MostOf([config \in Configs |-> Len(config)])
  <2>1. Idx = 0 .. N - 1 /\ AllIdx = 0 .. most - 1 /\ N <= most /\ most \in Nat
    BY <1>3 DEF Idx, AllIdx
  <2> HIDE DEF most
  <2>2. QED
    BY <1>2, <2>1
<1>5. ASSUME NEW i \in Idx PROVE i \in Nat /\ i < N /\ Slave(i) \in Nodes \ {Master}
  <2>1. i \in Nat /\ i < N /\ i + 1 \in 1 .. Len(slaves)
    BY <1>2 DEF Idx, N
  <2>2. Slave(i) \in Nodes /\ Slave(i) \in SlavesOf(slaves)
    BY <1>1, <2>1 DEF Slave, SlavesOf
  <2>3. QED
    BY <1>1, <2>1, <2>2
<1>6. MaxEpochs[slaves] \in Nat /\ 1 .. MaxEpochs[slaves] \subseteq Epochs /\ Epochs \subseteq Nat \ {0}
  <2>1. MaxEpochs \in [Configs -> Nat] /\ IsFiniteSet(Configs)
    BY ReplicationAssumption
  <2>2. MaxEpochs[slaves] \in Nat /\ MaxEpochs[slaves] <= MostOf(MaxEpochs) /\ MostOf(MaxEpochs) \in Nat
    BY <2>1, MostOfFacts
  <2>3. QED
    BY <2>2 DEF Epochs
<1>7. QED
  BY <1>2, <1>4, <1>5, <1>6

(* While it is registered, a release has its number. *)
LEMMA EpochFacts ==
    ASSUME PoolType, live
    PROVE  epoch \in Epochs /\ \A n \in Nodes : <<epoch, n>> \in PoolNames
BY BoundFacts DEF PoolType, PoolNames

(* A pool name is none, and tells its release and its node. *)
LEMMA NameFacts ==
    ASSUME slaves \in Configs, NEW p \in PoolNames
    PROVE  /\ p # None /\ p = <<p[1], p[2]>> /\ p[1] \in Epochs /\ p[2] \in Nodes
           /\ p[1] \in Nat \ {0}
<1>1. p = <<p[1], p[2]>> /\ p[1] \in Epochs /\ p[2] \in Nodes
  BY DEF PoolNames
<1>2. p[1] \in Nat \ {0}
  BY <1>1, BoundFacts
<1>3. p \in Nat \X Nodes
  BY <1>1, <1>2
<1>4. QED
  BY <1>1, <1>2, <1>3, ReplicationAssumption

-----------------------------------------------------------------------------
(* Pools *)

(* Steps that leave pools, map and registration alone. *)
LEMMA PoolsStay ==
    ASSUME PoolInv, UNCHANGED <<slaves, epoch, live, nodePools, pool, closing>>
    PROVE  PoolInv'
BY DEF PoolInv, PoolType, Owned, Mapped, ClosingInv

(* nodePool() opens pools that nobody has, under names of this registration. *)
LEMMA NodePoolFacts ==
    ASSUME PoolInv, live, NEW ns \in SUBSET Nodes, NodePool(ns)
    PROVE  /\ nodePools' \in [Nodes -> PoolNames \cup {None}]
           /\ pool' \in [PoolNames -> {"gone", "opening", "open", "ending"}]
           /\ \A n \in Nodes :
                /\ n \in ns => nodePools'[n] = <<epoch, n>> /\ PoolFor(n, ns) = <<epoch, n>>
                /\ nodePools[n] # None => nodePools'[n] = nodePools[n]
                /\ n \notin ns => nodePools'[n] = nodePools[n]
           /\ \A p \in PoolNames :
                pool'[p] = IF p[1] = epoch /\ p[2] \in ns /\ nodePools[p[2]] = None
                           THEN "opening" ELSE pool[p]
<1>1. \A n \in Nodes : <<epoch, n>> \in PoolNames
  BY EpochFacts DEF PoolInv
<1>2. \A n \in Nodes : nodePools[n] # None => nodePools[n] = <<epoch, n>>
  BY DEF PoolInv, Mapped
<1>3. \A n \in Nodes : PoolFor(n, ns) = IF n \in ns /\ nodePools[n] = None THEN <<epoch, n>> ELSE nodePools[n]
  BY DEF PoolFor, Missing
<1>4. nodePools' = [n \in Nodes |-> PoolFor(n, ns)]
  BY DEF NodePool
<1>5. pool' = [p \in PoolNames |-> IF p[1] = epoch /\ p[2] \in Missing(ns) THEN "opening" ELSE pool[p]]
  BY DEF NodePool
<1>6. nodePools \in [Nodes -> PoolNames \cup {None}] /\ pool \in [PoolNames -> {"gone", "opening", "open", "ending"}]
  BY DEF PoolInv, PoolType
<1>7. QED
  BY <1>1, <1>2, <1>3, <1>4, <1>5, <1>6 DEF Missing

(* nodePool() gives a node without a pool a new one, owned by the map. *)
LEMMA NodePoolKeeps ==
    ASSUME PoolInv, live, NEW ns \in SUBSET Nodes, NodePool(ns),
           UNCHANGED <<slaves, epoch, live, closing>>
    PROVE  PoolInv'
<1> USE NodePoolFacts
<1>1. PoolType'
  BY DEF PoolInv, PoolType
<1>2. \A p \in PoolNames : p[2] \in Nodes /\ p = <<p[1], p[2]>> /\ p # None
  BY NameFacts DEF PoolInv, PoolType
<1>3. Owned'
  <2> SUFFICES ASSUME NEW p \in PoolNames, pool'[p] \in {"opening", "open"}
               PROVE  (nodePools'[p[2]] = p) # (p \in closing)
    BY DEF Owned
  <2>1. CASE p[1] = epoch /\ p[2] \in ns /\ nodePools[p[2]] = None
    <3>1. nodePools'[p[2]] = p
      BY <1>2, <2>1
    <3>2. p \notin closing
      BY <2>1, EpochFacts, BoundFacts DEF PoolInv, PoolType, ClosingInv
    <3>3. QED
      BY <3>1, <3>2
  <2>2. CASE ~(p[1] = epoch /\ p[2] \in ns /\ nodePools[p[2]] = None)
    <3>1. (nodePools[p[2]] = p) # (p \in closing)
      BY <2>2 DEF PoolInv, Owned
    <3>2. nodePools'[p[2]] = p <=> nodePools[p[2]] = p
      BY <1>2, <2>2
    <3>3. QED
      BY <3>1, <3>2
  <2>3. QED
    BY <2>1, <2>2
<1>4. Mapped'
  <2> SUFFICES ASSUME NEW n \in Nodes, nodePools'[n] # None
               PROVE  pool'[nodePools'[n]] \in {"opening", "open"} /\ nodePools'[n] = <<epoch, n>>
    BY DEF Mapped
  <2>1. <<epoch, n>> \in PoolNames /\ <<epoch, n>>[1] = epoch /\ <<epoch, n>>[2] = n
    BY EpochFacts DEF PoolInv
  <2>2. CASE nodePools[n] = None
    <3>1. n \in ns /\ nodePools'[n] = <<epoch, n>>
      BY <2>2
    <3>2. QED
      BY <2>1, <2>2, <3>1
  <2>3. CASE nodePools[n] # None
    <3>1. nodePools'[n] = <<epoch, n>> /\ pool[<<epoch, n>>] \in {"opening", "open"}
      BY <2>3 DEF PoolInv, Mapped
    <3>2. QED
      BY <2>1, <3>1
  <2>4. QED
    BY <2>2, <2>3
<1>5. ClosingInv'
  BY DEF PoolInv, ClosingInv
<1>6. QED
  BY <1>1, <1>3, <1>4, <1>5 DEF PoolInv

(* initialize() and shutdown() hand every pool of the map to the release. *)
LEMMA ReleaseKeeps ==
    ASSUME PoolInv, Release, live' \in BOOLEAN
    PROVE  PoolInv'
<1>1. /\ slaves' = slaves /\ epoch' = epoch + 1 /\ epoch < MaxEpochs[slaves] /\ pool' = pool
      /\ closing' = closing \cup Taken
      /\ nodePools' = [n \in Nodes |-> None]
  BY DEF Release
<1>2. epoch \in Nat /\ epoch' \in 0 .. MaxEpochs[slaves] /\ epoch' > 0
  BY <1>1, BoundFacts DEF PoolInv, PoolType
<1>3. PoolType'
  BY <1>1, <1>2 DEF PoolInv, PoolType, Taken
<1>4. \A p \in PoolNames : p[2] \in Nodes /\ p # None
  BY NameFacts DEF PoolInv, PoolType
<1>5. Owned'
  BY <1>1, <1>4 DEF PoolInv, Owned, Taken
<1>6. Mapped'
  BY <1>1 DEF Mapped
<1>7. ClosingInv'
  <2> SUFFICES ASSUME NEW p \in closing' PROVE p[1] < epoch'
    BY DEF ClosingInv
  <2>1. CASE p \in closing
    <3>1. p \in PoolNames /\ p[1] < epoch
      BY <2>1 DEF PoolInv, PoolType, ClosingInv
    <3>2. p[1] \in Nat
      BY <3>1, NameFacts DEF PoolInv, PoolType
    <3>3. QED
      BY <1>1, <1>2, <3>1, <3>2
  <2>2. CASE p \in Taken
    <3>1. p \in PoolNames /\ nodePools[p[2]] = p
      BY <2>2 DEF Taken
    <3>2. p[1] = epoch
      BY <1>4, <3>1 DEF PoolInv, Mapped
    <3>3. QED
      BY <1>1, <1>2, <3>2
  <2>3. QED
    BY <1>1, <2>1, <2>2
<1>8. QED
  BY <1>3, <1>5, <1>6, <1>7 DEF PoolInv

(* A pool that opens keeps its owner. *)
LEMMA PoolOpensKeeps ==
    ASSUME PoolInv, NEW p \in PoolNames, PoolOpens(p)
    PROVE  PoolInv'
<1>1. /\ pool' = [pool EXCEPT ![p] = "open"] /\ pool[p] = "opening"
      /\ UNCHANGED <<slaves, epoch, live, nodePools, closing>>
  BY DEF PoolOpens
<1>2. pool \in [PoolNames -> {"gone", "opening", "open", "ending"}]
  BY DEF PoolInv, PoolType
<1>3. \A q \in PoolNames : pool'[q] \in {"opening", "open"} <=> pool[q] \in {"opening", "open"}
  BY <1>1, <1>2
<1>4. PoolType' /\ ClosingInv'
  BY <1>1, <1>2 DEF PoolInv, PoolType, ClosingInv
<1>5. Owned'
  BY <1>1, <1>3 DEF PoolInv, Owned
<1>6. Mapped'
  BY <1>1, <1>3 DEF PoolInv, PoolType, Mapped
<1>7. QED
  BY <1>4, <1>5, <1>6 DEF PoolInv

(* A pool that fails to open leaves the map it was put into, and no other;  *)
(* one that a release took leaves that.                                     *)
LEMMA PoolFailsKeeps ==
    ASSUME PoolInv, NEW p \in PoolNames, PoolFails(p)
    PROVE  PoolInv'
<1>1. /\ pool' = [pool EXCEPT ![p] = "gone"] /\ closing' = closing \ {p}
      /\ nodePools' = [n \in Nodes |-> IF nodePools[n] # p THEN nodePools[n] ELSE None]
      /\ UNCHANGED <<slaves, epoch, live>>
  BY DEF PoolFails, StaysMapped
<1>2. /\ pool \in [PoolNames -> {"gone", "opening", "open", "ending"}]
      /\ nodePools \in [Nodes -> PoolNames \cup {None}]
  BY DEF PoolInv, PoolType
<1>3. \A q \in PoolNames : pool'[q] = IF q = p THEN "gone" ELSE pool[q]
  BY <1>1, <1>2
<1>4. PoolType' /\ ClosingInv'
  BY <1>1, <1>2 DEF PoolInv, PoolType, ClosingInv
<1>5. \A q \in PoolNames : q[2] \in Nodes /\ q # None
  BY NameFacts DEF PoolInv, PoolType
<1>6. Owned'
  BY <1>1, <1>3, <1>5 DEF PoolInv, Owned
<1>7. Mapped'
  <2> SUFFICES ASSUME NEW n \in Nodes, nodePools'[n] # None
               PROVE  live /\ pool'[nodePools'[n]] \in {"opening", "open"} /\ nodePools'[n] = <<epoch, n>>
    BY <1>1 DEF Mapped
  <2>1. nodePools'[n] = nodePools[n] /\ nodePools[n] # p /\ nodePools[n] \in PoolNames
    BY <1>1, <1>2
  <2>2. QED
    BY <1>3, <2>1 DEF PoolInv, Mapped
<1>8. QED
  BY <1>4, <1>6, <1>7 DEF PoolInv

(* Only a pool that a release took is closed. *)
LEMMA PoolClosesKeeps ==
    ASSUME PoolInv, NEW p \in PoolNames, PoolCloses(p)
    PROVE  PoolInv'
<1>1. /\ pool' = [pool EXCEPT ![p] = "ending"] /\ closing' = closing /\ p \in closing /\ pool[p] = "open"
      \/ /\ pool' = [pool EXCEPT ![p] = "gone"] /\ closing' = closing \ {p} /\ pool[p] = "ending"
  BY DEF PoolCloses, CloseBegins, CloseEnds
<1>2. UNCHANGED <<slaves, epoch, live, nodePools>>
  BY DEF PoolCloses, CloseBegins, CloseEnds
<1>3. /\ pool \in [PoolNames -> {"gone", "opening", "open", "ending"}]
      /\ nodePools \in [Nodes -> PoolNames \cup {None}]
  BY DEF PoolInv, PoolType
<1>4. /\ pool'[p] \notin {"opening", "open"} /\ \A q \in PoolNames : q # p => pool'[q] = pool[q]
      /\ pool' \in [PoolNames -> {"gone", "opening", "open", "ending"}]
      /\ \A q \in PoolNames : q # p => (q \in closing' <=> q \in closing)
      /\ closing' \subseteq closing
  BY <1>1, <1>3
<1>5. PoolType' /\ ClosingInv'
  BY <1>2, <1>4 DEF PoolInv, PoolType, ClosingInv
<1>6. Owned'
  BY <1>2, <1>4 DEF PoolInv, Owned
<1>7. Mapped'
  <2> SUFFICES ASSUME NEW n \in Nodes, nodePools[n] # None
               PROVE  live /\ pool'[nodePools[n]] \in {"opening", "open"} /\ nodePools[n] = <<epoch, n>>
    BY <1>2 DEF Mapped
  <2>1. /\ live /\ pool[nodePools[n]] \in {"opening", "open"} /\ nodePools[n] = <<epoch, n>>
        /\ nodePools[n] \in PoolNames
    BY <1>3 DEF PoolInv, Mapped
  <2>2. nodePools[n] # p
    <3>1. SUFFICES ASSUME nodePools[n] = p PROVE FALSE
      OBVIOUS
    <3>2. p[2] = n /\ nodePools[p[2]] = p
      BY <2>1, <3>1
    <3>3. p \notin closing
      BY <2>1, <3>1, <3>2 DEF PoolInv, Owned
    <3>4. QED
      BY <1>1, <2>1, <3>1, <3>3
  <2>3. QED
    BY <1>4, <2>1, <2>2
<1>8. QED
  BY <1>5, <1>6, <1>7 DEF PoolInv

-----------------------------------------------------------------------------
(* Routers *)

Routers == [failed : SUBSET Idx, index : Idx, running : BOOLEAN,
            fails : [AllIdx -> 0 .. FailureThreshold],
            succs : [AllIdx -> 0 .. RecoveryThreshold]]

(* What a router holds against a slave, something in B accounts for. *)
Blames(R, B) == \A i \in Idx : i \in R.failed \/ R.fails[i] > 0 => Slave(i) \in B

(* Of a router's fields, those a check's outcome does not decide. *)
LEMMA RouterFields ==
    ASSUME NEW R \in Routers, slaves \in Configs
    PROVE  /\ R.failed \subseteq Idx /\ R.index \in Idx /\ R.running \in BOOLEAN
           /\ R.fails \in [AllIdx -> 0 .. FailureThreshold]
           /\ R.succs \in [AllIdx -> 0 .. RecoveryThreshold]
           /\ \A b \in BOOLEAN : [R EXCEPT !.running = b] \in Routers
           /\ \A x \in Idx : [R EXCEPT !.index = x] \in Routers
           /\ \A F \in SUBSET Idx : [R EXCEPT !.failed = F] \in Routers
BY DEF Routers

(* A new router holds nothing against anyone. *)
LEMMA NewRouterFacts ==
    ASSUME slaves \in Configs, NEW B
    PROVE  NewRouter \in Routers /\ Blames(NewRouter, B)
<1>1. 0 \in 0 .. FailureThreshold /\ 0 \in 0 .. RecoveryThreshold /\ 0 \in Idx /\ Idx \subseteq AllIdx
  BY BoundFacts, ReplicationAssumption
<1>2. NewRouter \in Routers
  BY <1>1 DEF NewRouter, Routers
<1>3. NewRouter.failed = {} /\ \A i \in AllIdx : NewRouter.fails[i] = 0
  BY DEF NewRouter
<1>4. QED
  BY <1>1, <1>2, <1>3 DEF Blames

(* The counters stop at their thresholds. *)
LEMMA AtMostFacts ==
    ASSUME NEW max \in Nat, NEW n \in 0 .. max
    PROVE  AtMost(n + 1, max) \in 0 .. max /\ (AtMost(n + 1, max) > 0 => max > 0)
BY DEF AtMost

(* A check that passed takes back what was held against its slave. *)
LEMMA PassedFacts ==
    ASSUME slaves \in Configs, NEW R \in Routers, NEW i \in Idx, NEW B
    PROVE  /\ Passed(R, i) \in Routers
           /\ Blames(R, B) => Blames(Passed(R, i), B)
<1> DEFINE n == R.succs[i] + 1
           back == i \in R.failed /\ n >= RecoveryThreshold
           s == IF back THEN 0 ELSE AtMost(n, RecoveryThreshold)
           F == IF back THEN R.failed \ {i} ELSE R.failed
           fails == [R.fails EXCEPT ![i] = 0]
           succs == [R.succs EXCEPT ![i] = s]
<1>1. /\ FailureThreshold \in Nat \ {0} /\ RecoveryThreshold \in Nat \ {0}
      /\ Idx \subseteq AllIdx /\ i \in AllIdx
  BY BoundFacts, ReplicationAssumption
<1>2. /\ R.failed \subseteq Idx /\ R.fails \in [AllIdx -> 0 .. FailureThreshold]
      /\ R.succs \in [AllIdx -> 0 .. RecoveryThreshold] /\ R.index \in Idx /\ R.running \in BOOLEAN
  BY DEF Routers
<1>3. R.succs[i] \in 0 .. RecoveryThreshold
  BY <1>1, <1>2
<1>4. s \in 0 .. RecoveryThreshold
  <2>1. AtMost(n, RecoveryThreshold) \in 0 .. RecoveryThreshold
    BY <1>1, <1>3, AtMostFacts
  <2>2. 0 \in 0 .. RecoveryThreshold
    BY <1>1
  <2> HIDE DEF n
  <2>3. QED
    BY <2>1, <2>2
<1>5. Passed(R, i) = [failed |-> F, index |-> R.index, running |-> R.running, fails |-> fails, succs |-> succs]
  <2>1. Passed(R, i) = [R EXCEPT !.fails = fails, !.succs = succs, !.failed = F]
    BY DEF Passed
  <2> HIDE DEF F, fails, succs
  <2>2. QED
    BY <2>1 DEF Routers
<1> HIDE DEF s
<1>6. /\ fails \in [AllIdx -> 0 .. FailureThreshold] /\ succs \in [AllIdx -> 0 .. RecoveryThreshold]
      /\ fails[i] = 0 /\ \A j \in AllIdx : j # i => fails[j] = R.fails[j]
  BY <1>1, <1>2, <1>4
<1> HIDE DEF n
<1>7. F \subseteq Idx /\ F \subseteq R.failed
  BY <1>2
<1> HIDE DEF F, fails, succs
<1>8. Passed(R, i) \in Routers
  BY <1>2, <1>5, <1>6, <1>7 DEF Routers
<1>9. ASSUME Blames(R, B), NEW j \in Idx, j \in Passed(R, i).failed \/ Passed(R, i).fails[j] > 0
      PROVE  Slave(j) \in B
  <2>1. j \in F \/ fails[j] > 0
    BY <1>5, <1>9
  <2>2. j \in R.failed \/ R.fails[j] > 0
    BY <1>1, <1>6, <1>7, <2>1
  <2>3. QED
    BY <1>9, <2>2 DEF Blames
<1>10. QED
  BY <1>8, <1>9 DEF Blames

(* A check that failed is held against its slave. *)
LEMMA MissedFacts ==
    ASSUME slaves \in Configs, NEW R \in Routers, NEW i \in Idx, NEW B
    PROVE  /\ Missed(R, i) \in Routers
           /\ Blames(R, B) /\ Slave(i) \in B => Blames(Missed(R, i), B)
<1> DEFINE n == R.fails[i] + 1
           m == AtMost(n, FailureThreshold)
           F == IF n >= FailureThreshold THEN R.failed \cup {i} ELSE R.failed
           fails == [R.fails EXCEPT ![i] = m]
           succs == [R.succs EXCEPT ![i] = 0]
<1>1. /\ FailureThreshold \in Nat \ {0} /\ RecoveryThreshold \in Nat \ {0}
      /\ Idx \subseteq AllIdx /\ i \in AllIdx
  BY BoundFacts, ReplicationAssumption
<1>2. /\ R.failed \subseteq Idx /\ R.fails \in [AllIdx -> 0 .. FailureThreshold]
      /\ R.succs \in [AllIdx -> 0 .. RecoveryThreshold] /\ R.index \in Idx /\ R.running \in BOOLEAN
  BY DEF Routers
<1>3. R.fails[i] \in 0 .. FailureThreshold
  BY <1>1, <1>2
<1>4. m \in 0 .. FailureThreshold
  BY <1>1, <1>3, AtMostFacts
<1>5. Missed(R, i) = [failed |-> F, index |-> R.index, running |-> R.running, fails |-> fails, succs |-> succs]
  <2>1. Missed(R, i) = [R EXCEPT !.fails = fails, !.succs = succs, !.failed = F]
    BY DEF Missed
  <2> HIDE DEF F, fails, succs
  <2>2. QED
    BY <2>1 DEF Routers
<1> HIDE DEF m
<1>6. /\ fails \in [AllIdx -> 0 .. FailureThreshold] /\ succs \in [AllIdx -> 0 .. RecoveryThreshold]
      /\ \A j \in AllIdx : j # i => fails[j] = R.fails[j]
  BY <1>1, <1>2, <1>4
<1> HIDE DEF n
<1>7. F \subseteq Idx /\ F \subseteq R.failed \cup {i}
  BY <1>2
<1> HIDE DEF F, fails, succs
<1>8. Missed(R, i) \in Routers
  BY <1>2, <1>5, <1>6, <1>7 DEF Routers
<1>9. ASSUME Blames(R, B), Slave(i) \in B, NEW j \in Idx,
             j \in Missed(R, i).failed \/ Missed(R, i).fails[j] > 0
      PROVE  Slave(j) \in B
  <2>1. j \in F \/ fails[j] > 0
    BY <1>5, <1>9
  <2>2. CASE j = i
    BY <1>9, <2>2
  <2>3. CASE j # i
    <3>1. j \in R.failed \/ R.fails[j] > 0
      BY <1>1, <1>6, <1>7, <2>1, <2>3
    <3>2. QED
      BY <1>9, <3>1 DEF Blames
  <2>4. QED
    BY <2>2, <2>3
<1>10. QED
  BY <1>8, <1>9 DEF Blames

(* The end of a cycle, or of the router. *)
LEMMA SettledFacts ==
    ASSUME slaves \in Configs, NEW R \in Routers, NEW k, NEW i, NEW B
    PROVE  /\ Settled(R, k, i) \in Routers
           /\ Blames(R, B) => Blames(Settled(R, k, i), B)
<1> DEFINE running == \E j \in Idx \ {i} : checks[<<k, j>>] # Idle
<1>1. running \in BOOLEAN
  OBVIOUS
<1>2. Settled(R, k, i) = IF running \/ (live /\ k = epoch) THEN [R EXCEPT !.running = running] ELSE NewRouter
  BY DEF Settled
<1> HIDE DEF running
<1>3. [R EXCEPT !.running = running] \in Routers
  BY <1>1, RouterFields
<1>4. /\ [R EXCEPT !.running = running].failed = R.failed
      /\ [R EXCEPT !.running = running].fails = R.fails
  BY DEF Routers
<1>5. Blames(R, B) => Blames([R EXCEPT !.running = running], B)
  BY <1>4 DEF Blames
<1>6. QED
  BY <1>2, <1>3, <1>5, NewRouterFacts

(* release() lets go of a router. *)
LEMMA ReleasedFacts ==
    ASSUME slaves \in Configs, NEW R \in Routers
    PROVE  Released(R) \in Routers
BY RouterFields, NewRouterFacts DEF Released

-----------------------------------------------------------------------------
(* Reads and checks *)

Sessions == [at : {"opening", "using"}, pool : PoolNames] \cup {Idle}

RestType ==
    /\ rt \in [Epochs -> Routers]
    /\ reads \in [Readers -> Sessions] /\ checks \in [Epochs \X AllIdx -> Sessions]
    /\ down \subseteq Nodes \ {Master} /\ blamed \subseteq Nodes \ {Master}
    /\ marks \in 0 .. MaxMarks[slaves]

(* A check is of the router that made it and of the pool of its slave, and  *)
(* that pool is there while the router is in use.                           *)
CheckInv ==
    \A c \in Epochs \X AllIdx : checks[c] # Idle =>
        /\ c[1] <= epoch /\ c[2] \in Idx /\ checks[c].pool = <<c[1], Slave(c[2])>>
        /\ live /\ c[1] = epoch => pool[checks[c].pool] \in {"opening", "open"}

(* Routers to come are new; what the one in use holds against a slave is    *)
(* something that happened to it.                                           *)
RouterInv ==
    /\ \A k \in Epochs : k > epoch => rt[k] = NewRouter
    /\ down \subseteq blamed
    /\ live => Blames(rt[epoch], blamed)

ReplInv == PoolInv /\ RestType /\ CheckInv /\ RouterInv

(* A session has a pool unless it is idle. *)
LEMMA SessionFacts ==
    ASSUME NEW s \in Sessions
    PROVE  /\ s # Idle <=> s.at # "idle"
           /\ s # Idle => s.at \in {"opening", "using"} /\ s.pool \in PoolNames
           /\ s = Idle => s.pool = None
           /\ \A p \in PoolNames, a \in {"opening", "using"} : [at |-> a, pool |-> p] \in Sessions
           /\ Idle \in Sessions
BY DEF Sessions, Idle

(* Checks go on in the pools they are in, or end. *)
LEMMA ChecksKept ==
    ASSUME CheckInv, UNCHANGED <<slaves, epoch, live>>,
           \A c \in Epochs \X AllIdx : checks'[c] # Idle =>
               /\ checks[c] # Idle /\ checks'[c].pool = checks[c].pool
               /\ live /\ c[1] = epoch /\ pool[checks[c].pool] \in {"opening", "open"}
                    => pool'[checks[c].pool] \in {"opening", "open"}
    PROVE  CheckInv'
<1> SUFFICES ASSUME NEW c \in Epochs \X AllIdx, checks'[c] # Idle
             PROVE  /\ c[1] <= epoch /\ c[2] \in Idx /\ checks'[c].pool = <<c[1], Slave(c[2])>>
                    /\ live /\ c[1] = epoch => pool'[checks'[c].pool] \in {"opening", "open"}
  BY DEF CheckInv, Slave, Idx, N
<1>1. /\ c[1] <= epoch /\ c[2] \in Idx /\ checks[c].pool = <<c[1], Slave(c[2])>>
      /\ live /\ c[1] = epoch => pool[checks[c].pool] \in {"opening", "open"}
  BY DEF CheckInv
<1>2. QED
  BY <1>1


(* One router changes. *)
LEMMA RouterStep ==
    ASSUME PoolInv, RestType, RouterInv, UNCHANGED <<slaves, epoch, live>>,
           NEW k \in Epochs, k <= epoch, NEW R \in Routers, rt' = [rt EXCEPT ![k] = R],
           down' \subseteq blamed', blamed \subseteq blamed',
           live /\ k = epoch => Blames(R, blamed')
    PROVE  rt' \in [Epochs -> Routers'] /\ RouterInv'
<1>1. Routers' = Routers
  BY DEF Routers, Idx, N
<1>2. rt \in [Epochs -> Routers]
  BY DEF RestType
<1>3. rt' \in [Epochs -> Routers]
  BY <1>2
<1>4. \A l \in Epochs : rt'[l] = IF l = k THEN R ELSE rt[l]
  BY <1>2
<1>5. epoch \in Nat /\ k \in Nat
  BY BoundFacts DEF PoolInv, PoolType
<1>6. \A l \in Epochs : l > epoch => rt'[l] = NewRouter
  <2> TAKE l \in Epochs
  <2> HAVE l > epoch
  <2>1. l \in Nat
    BY BoundFacts DEF PoolInv, PoolType
  <2>2. l # k
    BY <1>5, <2>1
  <2>3. QED
    BY <1>4, <2>2 DEF RouterInv
<1>7. live => Blames(rt'[epoch], blamed')
  <2> SUFFICES ASSUME live PROVE Blames(rt'[epoch], blamed')
    OBVIOUS
  <2>1. epoch \in Epochs
    BY EpochFacts DEF PoolInv
  <2>2. CASE k = epoch
    BY <1>4, <2>1, <2>2
  <2>3. CASE k # epoch
    BY <1>4, <2>1, <2>3 DEF RouterInv, Blames
  <2>4. QED
    BY <2>2, <2>3
<1>8. (live => Blames(rt[epoch], blamed))' <=> (live => Blames(rt'[epoch], blamed'))
  BY DEF Blames, Idx, N, Slave
<1>9. RouterInv'
  BY <1>6, <1>7, <1>8 DEF RouterInv
<1>10. QED
  BY <1>1, <1>3, <1>9

(* No router changes. *)
LEMMA RouterStays ==
    ASSUME RestType, RouterInv, UNCHANGED <<slaves, epoch, live, rt>>,
           down' \subseteq blamed', blamed \subseteq blamed'
    PROVE  rt' \in [Epochs -> Routers'] /\ RouterInv'
<1>1. Routers' = Routers
  BY DEF Routers, Idx, N
<1>2. (live => Blames(rt[epoch], blamed))' <=> (live => Blames(rt[epoch], blamed'))
  BY DEF Blames, Idx, N, Slave
<1>3. live => Blames(rt[epoch], blamed')
  BY DEF RouterInv, Blames
<1>4. RouterInv'
  BY <1>2, <1>3 DEF RouterInv
<1>5. QED
  BY <1>1, <1>4 DEF RestType

(* A check is over: it and its cycle. *)
LEMMA CheckIsOverKeeps ==
    ASSUME ReplInv, NEW k \in Epochs, NEW i \in AllIdx, NEW R \in Routers,
           checks[<<k, i>>] # Idle, CheckIsOver(k, i, R),
           live /\ k = epoch => Blames(R, blamed)
    PROVE  RestType' /\ CheckInv' /\ RouterInv'
<1> DEFINE c == <<k, i>>
<1>1. /\ checks' = [checks EXCEPT ![c] = Idle] /\ rt' = [rt EXCEPT ![k] = Settled(R, k, i)]
      /\ UNCHANGED <<slaves, epoch, live, nodePools, pool, closing, reads, down, marks, blamed>>
  BY DEF CheckIsOver
<1>2. c \in Epochs \X AllIdx /\ slaves \in Configs /\ checks \in [Epochs \X AllIdx -> Sessions]
  BY DEF ReplInv, RestType, PoolInv, PoolType
<1>3. k <= epoch
  BY <1>2 DEF ReplInv, CheckInv
<1>4. rt' \in [Epochs -> Routers'] /\ RouterInv'
  <2>1. Settled(R, k, i) \in Routers /\ (live /\ k = epoch => Blames(Settled(R, k, i), blamed))
    BY <1>2, SettledFacts
  <2>2. down' \subseteq blamed' /\ blamed \subseteq blamed'
    BY <1>1 DEF ReplInv, RouterInv
  <2> DEFINE S == Settled(R, k, i)
  <2> HIDE DEF S
  <2>3. S \in Routers /\ (live /\ k = epoch => Blames(S, blamed')) /\ rt' = [rt EXCEPT ![k] = S]
    BY <1>1, <2>1 DEF S
  <2>4. QED
    BY <1>1, <1>3, <2>2, <2>3, RouterStep DEF ReplInv
<1> HIDE DEF c
<1>5. \A d \in Epochs \X AllIdx : checks'[d] # Idle => checks[d] # Idle /\ checks'[d] = checks[d]
  BY <1>1, <1>2
<1>6. CheckInv'
  BY <1>1, <1>5, ChecksKept DEF ReplInv
<1>7. checks' \in [Epochs \X AllIdx -> Sessions]
  BY <1>1, <1>2, SessionFacts
<1>8. QED
  BY <1>1, <1>4, <1>6, <1>7 DEF ReplInv, RestType

(* ping() takes a connection of the pool the check is of. *)
LEMMA CheckConnectsKeeps ==
    ASSUME ReplInv, NEW k \in Epochs, NEW i \in AllIdx, CheckConnects(k, i)
    PROVE  RestType' /\ CheckInv' /\ RouterInv'
<1> DEFINE c == <<k, i>>
           p == checks[c].pool
<1>1. /\ checks[c].at = "opening" /\ checks' = [checks EXCEPT ![c] = [at |-> "using", pool |-> p]]
      /\ UNCHANGED <<slaves, epoch, live, rt, nodePools, pool, closing, reads, down, marks, blamed>>
  BY DEF CheckConnects
<1>2. c \in Epochs \X AllIdx /\ slaves \in Configs /\ checks \in [Epochs \X AllIdx -> Sessions]
  BY DEF ReplInv, RestType, PoolInv, PoolType
<1> HIDE DEF c
<1>3. checks[c] # Idle /\ p \in PoolNames
  BY <1>1, <1>2, SessionFacts
<1> HIDE DEF p
<1>4. [at |-> "using", pool |-> p] \in Sessions
  BY <1>2, <1>3, SessionFacts
<1>5. \A d \in Epochs \X AllIdx : checks'[d] # Idle => checks[d] # Idle /\ checks'[d].pool = checks[d].pool
  BY <1>1, <1>2, <1>3 DEF p
<1>6. CheckInv'
  BY <1>1, <1>5, ChecksKept DEF ReplInv
<1>7. rt' \in [Epochs -> Routers'] /\ RouterInv'
  BY <1>1, RouterStays DEF ReplInv, RouterInv
<1>8. checks' \in [Epochs \X AllIdx -> Sessions]
  BY <1>1, <1>2, <1>4
<1>9. QED
  BY <1>1, <1>6, <1>7, <1>8 DEF ReplInv, RestType

(* A check is refused by a pool that is not open, which is no longer that   *)
(* of the router in use, or by a slave that is down.                        *)
LEMMA CheckRefusedKeeps ==
    ASSUME ReplInv, NEW k \in Epochs, NEW i \in AllIdx, CheckRefused(k, i)
    PROVE  RestType' /\ CheckInv' /\ RouterInv'
<1> DEFINE c == <<k, i>>
           p == checks[c].pool
<1>1. /\ checks[c].at = "opening" /\ pool[p] # "opening" /\ (pool[p] = "open" => p[2] \in down)
      /\ CheckIsOver(k, i, Missed(rt[k], i))
  BY DEF CheckRefused
<1>2. /\ c \in Epochs \X AllIdx /\ slaves \in Configs /\ checks \in [Epochs \X AllIdx -> Sessions]
      /\ rt[k] \in Routers
  BY DEF ReplInv, RestType, PoolInv, PoolType
<1>3. checks[c] # Idle
  BY <1>1, <1>2, SessionFacts
<1>4. i \in Idx /\ p = <<k, Slave(i)>> /\ (live /\ k = epoch => pool[p] \in {"opening", "open"})
  BY <1>2, <1>3 DEF ReplInv, CheckInv
<1>5. live /\ k = epoch => Slave(i) \in blamed
  BY <1>1, <1>4 DEF ReplInv, RouterInv
<1>6. live /\ k = epoch => Blames(rt[k], blamed)
  BY DEF ReplInv, RouterInv
<1>7. /\ Missed(rt[k], i) \in Routers
      /\ live /\ k = epoch => Blames(Missed(rt[k], i), blamed)
  BY <1>2, <1>4, <1>5, <1>6, MissedFacts
<1>8. QED
  BY <1>1, <1>3, <1>7, CheckIsOverKeeps

(* A check ends with an answer or a broken connection. *)
LEMMA CheckAnsweredKeeps ==
    ASSUME ReplInv, NEW k \in Epochs, NEW i \in AllIdx, CheckAnswered(k, i)
    PROVE  RestType' /\ CheckInv' /\ RouterInv'
<1> DEFINE c == <<k, i>>
           n == checks[c].pool[2]
           R == IF n \in down THEN Missed(rt[k], i) ELSE Passed(rt[k], i)
<1>1. checks[c].at = "using" /\ CheckIsOver(k, i, R)
  BY DEF CheckAnswered
<1>2. /\ c \in Epochs \X AllIdx /\ slaves \in Configs /\ checks \in [Epochs \X AllIdx -> Sessions]
      /\ rt[k] \in Routers
  BY DEF ReplInv, RestType, PoolInv, PoolType
<1>3. checks[c] # Idle
  BY <1>1, <1>2, SessionFacts
<1>4. i \in Idx /\ n = Slave(i)
  BY <1>2, <1>3 DEF ReplInv, CheckInv
<1> HIDE DEF n
<1>5. n \in down => Slave(i) \in blamed
  BY <1>4 DEF ReplInv, RouterInv
<1>6. live /\ k = epoch => Blames(rt[k], blamed)
  BY DEF ReplInv, RouterInv
<1>7. R \in Routers /\ (live /\ k = epoch => Blames(R, blamed))
  <2>1. CASE n \in down
    BY <1>2, <1>4, <1>5, <1>6, <2>1, MissedFacts
  <2>2. CASE n \notin down
    BY <1>2, <1>4, <1>6, <2>2, PassedFacts
  <2>3. QED
    BY <2>1, <2>2
<1> HIDE DEF R
<1>8. QED
  BY <1>1, <1>3, <1>7, CheckIsOverKeeps

(* A pool that fails to open: everyone who awaits it is told. *)
LEMMA FailureKeeps ==
    ASSUME ReplInv, NEW p \in PoolNames, PoolFails(p)
    PROVE  RestType' /\ CheckInv' /\ RouterInv'
<1> DEFINE k == p[1]
           missed == {i \in Idx : checks[<<k, i>>] = [at |-> "opening", pool |-> p]}
<1>1. /\ p[2] \in down /\ pool' = [pool EXCEPT ![p] = "gone"]
      /\ reads' = [r \in Readers |-> IF reads[r].pool = p THEN Idle ELSE reads[r]]
      /\ checks' = [c \in DOMAIN checks |-> IF checks[c].pool = p THEN Idle ELSE checks[c]]
      /\ UNCHANGED <<slaves, epoch, live, down, marks, blamed>>
  BY DEF PoolFails
<1>2. rt' = IF missed = {} THEN rt
            ELSE LET i == CHOOSE i \in missed : TRUE
                 IN [rt EXCEPT ![k] = Settled(Missed(@, i), k, i)]
  BY DEF PoolFails
<1>3. /\ slaves \in Configs /\ checks \in [Epochs \X AllIdx -> Sessions]
      /\ reads \in [Readers -> Sessions] /\ rt \in [Epochs -> Routers]
      /\ pool \in [PoolNames -> {"gone", "opening", "open", "ending"}]
  BY DEF ReplInv, RestType, PoolInv, PoolType
<1>4. rt' \in [Epochs -> Routers'] /\ RouterInv'
  <2>1. CASE missed = {}
    BY <1>1, <1>2, <2>1, RouterStays DEF ReplInv, RouterInv
  <2>2. CASE missed # {}
    <3>1. PICK i \in missed : rt' = [rt EXCEPT ![k] = Settled(Missed(rt[k], i), k, i)]
      BY <1>2, <2>2
    <3>2. k \in Epochs /\ i \in Idx /\ i \in AllIdx
      BY <1>3, NameFacts, BoundFacts
    <3>3. checks[<<k, i>>] = [at |-> "opening", pool |-> p] /\ <<k, i>> \in Epochs \X AllIdx
      BY <3>2
    <3> HIDE DEF missed, k
    <3>4. checks[<<k, i>>] # Idle /\ checks[<<k, i>>].pool = p
      BY <1>3, <3>3, SessionFacts
    <3>5. k <= epoch /\ p = <<k, Slave(i)>>
      BY <3>3, <3>4 DEF ReplInv, CheckInv
    <3>6. Slave(i) \in blamed
      BY <1>1, <3>5 DEF ReplInv, RouterInv
    <3>7. live /\ k = epoch => Blames(rt[k], blamed)
      BY DEF ReplInv, RouterInv
    <3>8. Missed(rt[k], i) \in Routers /\ (live /\ k = epoch => Blames(Missed(rt[k], i), blamed))
      BY <1>3, <3>2, <3>6, <3>7, MissedFacts
    <3> DEFINE S == Settled(Missed(rt[k], i), k, i)
    <3>9. S \in Routers /\ (live /\ k = epoch => Blames(S, blamed))
      BY <1>3, <3>8, SettledFacts
    <3>10. rt' = [rt EXCEPT ![k] = S]
      BY <3>1
    <3> HIDE DEF S
    <3>11. down' \subseteq blamed' /\ blamed \subseteq blamed' /\ blamed' = blamed
      BY <1>1 DEF ReplInv, RouterInv
    <3>12. QED
      BY <1>1, <3>2, <3>5, <3>9, <3>10, <3>11, RouterStep DEF ReplInv
  <2>3. QED
    BY <2>1, <2>2
<1>5. \A c \in Epochs \X AllIdx :
        checks'[c] # Idle => checks[c] # Idle /\ checks'[c] = checks[c] /\ checks[c].pool # p
  BY <1>1, <1>3
<1>6. CheckInv'
  <2>1. \A q \in PoolNames : q # p => pool'[q] = pool[q]
    BY <1>1, <1>3
  <2>2. \A c \in Epochs \X AllIdx : checks[c] # Idle => checks[c].pool \in PoolNames
    BY <1>3, SessionFacts
  <2>3. QED
    BY <1>1, <1>5, <2>1, <2>2, ChecksKept DEF ReplInv
<1>7. /\ checks' \in [Epochs \X AllIdx -> Sessions]
      /\ reads' \in [Readers -> Sessions]
  <2> HIDE DEF missed, k
  <2>1. QED
    BY <1>1, <1>3, SessionFacts
<1>8. QED
  BY <1>1, <1>4, <1>6, <1>7 DEF ReplInv, RestType

(* A pool opens, or one that a release took is closed. *)
LEMMA PoolMovesKeep ==
    ASSUME ReplInv, NEW p \in PoolNames, PoolOpens(p) \/ PoolCloses(p)
    PROVE  RestType' /\ CheckInv' /\ RouterInv'
<1>1. /\ \/ pool' = [pool EXCEPT ![p] = "open"]
         \/ pool' = [pool EXCEPT ![p] = "ending"] /\ p \in closing
         \/ pool' = [pool EXCEPT ![p] = "gone"] /\ pool[p] = "ending"
      /\ UNCHANGED <<slaves, epoch, live, rt, reads, checks, down, marks, blamed>>
  BY DEF PoolOpens, PoolCloses, CloseBegins, CloseEnds
<1>2. /\ checks \in [Epochs \X AllIdx -> Sessions] /\ slaves \in Configs
      /\ pool \in [PoolNames -> {"gone", "opening", "open", "ending"}]
  BY DEF ReplInv, RestType, PoolInv, PoolType
<1>3. ASSUME NEW c \in Epochs \X AllIdx, checks[c] # Idle, live, c[1] = epoch,
             pool[checks[c].pool] \in {"opening", "open"}
      PROVE  pool'[checks[c].pool] \in {"opening", "open"}
  <2> DEFINE q == checks[c].pool
  <2>1. q \in PoolNames
    BY <1>2, <1>3, SessionFacts
  <2>2. q[1] = epoch
    BY <1>3 DEF ReplInv, CheckInv
  <2>3. q \notin closing
    BY <1>2, <2>1, <2>2, NameFacts DEF ReplInv, PoolInv, ClosingInv
  <2> HIDE DEF q
  <2>4. pool[q] \in {"opening", "open"}
    BY <1>3 DEF q
  <2>5. pool'[q] \in {"opening", "open"}
    BY <1>1, <1>2, <2>1, <2>3, <2>4
  <2>6. QED
    BY <2>5 DEF q
<1>4. CheckInv'
  BY <1>1, <1>3, ChecksKept DEF ReplInv
<1>5. rt' \in [Epochs -> Routers'] /\ RouterInv'
  BY <1>1, RouterStays DEF ReplInv, RouterInv
<1>6. QED
  BY <1>1, <1>4, <1>5 DEF ReplInv, RestType

(* nodePool() on behalf of a read or a check. *)
LEMMA OpeningKeepsChecks ==
    ASSUME ReplInv, live, NEW ns \in SUBSET Nodes, NodePool(ns),
           UNCHANGED <<slaves, epoch, live, checks>>
    PROVE  CheckInv'
<1>1. /\ checks \in [Epochs \X AllIdx -> Sessions]
      /\ PoolInv
  BY DEF ReplInv, RestType
<1>2. ASSUME NEW c \in Epochs \X AllIdx, checks[c] # Idle, pool[checks[c].pool] \in {"opening", "open"}
      PROVE  pool'[checks[c].pool] \in {"opening", "open"}
  <2>1. checks[c].pool \in PoolNames
    BY <1>1, <1>2, SessionFacts
  <2>2. QED
    BY <1>1, <1>2, <2>1, NodePoolFacts
<1>3. QED
  BY <1>2, ChecksKept DEF ReplInv

(* A read takes the pool of its node from the map, opening it if need be. *)
LEMMA ReadFromKeeps ==
    ASSUME ReplInv, live, NEW r \in Readers, NEW n \in Nodes, ReadFrom(r, n),
           rt' \in [Epochs -> Routers'] /\ RouterInv'
    PROVE  RestType' /\ CheckInv' /\ RouterInv'
<1>1. /\ NodePool({n}) /\ reads' = [reads EXCEPT ![r] = [at |-> "opening", pool |-> PoolFor(n, {n})]]
      /\ UNCHANGED <<slaves, epoch, live, closing, checks, down, marks, blamed>>
  BY DEF ReadFrom
<1>2. {n} \in SUBSET Nodes /\ PoolInv
  BY DEF ReplInv
<1>3. PoolFor(n, {n}) = <<epoch, n>> /\ <<epoch, n>> \in PoolNames
  BY <1>1, <1>2, NodePoolFacts, EpochFacts DEF PoolInv
<1>4. CheckInv'
  BY <1>1, <1>2, OpeningKeepsChecks
<1>5. reads' \in [Readers -> Sessions]
  <2>1. [at |-> "opening", pool |-> <<epoch, n>>] \in Sessions
    <3> DEFINE p == <<epoch, n>>
    <3>1. p \in PoolNames
      BY <1>3
    <3> HIDE DEF p
    <3>2. [at |-> "opening", pool |-> p] \in Sessions
      BY <3>1 DEF Sessions
    <3>3. QED
      BY <3>2 DEF p
  <2>2. reads \in [Readers -> Sessions]
    BY DEF ReplInv, RestType
  <2>3. QED
    BY <1>1, <1>3, <2>1, <2>2
<1>6. QED
  BY <1>1, <1>4, <1>5 DEF ReplInv, RestType

(* Round robin finds a slave while there is one in the rotation. *)
LEMMA NextSlaveFacts ==
    ASSUME slaves \in Configs, NEW R \in Routers, Healthy(R) # {}
    PROVE  /\ NextSlave(R) \in Healthy(R)
           /\ \A j \in Healthy(R) : (NextSlave(R) + N - R.index) % N <= (j + N - R.index) % N
<1> DEFINE ahead(i) == (i + N - R.index) % N
           Less == {q \in Idx \X Idx : ahead(q[1]) < ahead(q[2])}
           H == Healthy(R)
<1>1. N \in Nat \ {0} /\ R.index \in Nat /\ R.index < N /\ H \subseteq Idx /\ \A i \in Idx : i \in Nat
  BY BoundFacts, RouterFields DEF Healthy
<1>2. \A i \in Idx : ahead(i) \in Nat
  BY <1>1
<1> HIDE DEF ahead
<1>3. \A x, y \in H : <<x, y>> \in Less <=> ahead(x) < ahead(y)
  BY <1>1
<1>4. IsFiniteSet(H)
  <2>1. IsFiniteSet(Idx)
    BY <1>1, FS_Interval DEF Idx
  <2>2. QED
    BY <1>1, <2>1, FS_Subset
<1>5. /\ \A x, y, z \in H : <<x, y>> \in Less /\ <<y, z>> \in Less => <<x, z>> \in Less
      /\ \A x \in H : <<x, x>> \notin Less
  <2>1. \A x \in H : ahead(x) \in Nat
    BY <1>1, <1>2
  <2> HIDE DEF Less, H
  <2>2. QED
    BY <1>3, <2>1
<1>6. PICK x \in H : \A y \in H : <<y, x>> \notin Less
  <2> HIDE DEF Less, H
  <2>1. H # {}
    BY DEF H
  <2>2. QED
    BY <1>4, <1>5, <2>1, LeastExists
<1>7. \A y \in H : ahead(x) <= ahead(y)
  <2> TAKE y \in H
  <2>1. ~(ahead(y) < ahead(x)) /\ ahead(x) \in Nat /\ ahead(y) \in Nat
    BY <1>1, <1>2, <1>3, <1>6
  <2>2. QED
    BY <2>1
<1>8. NextSlave(R) = CHOOSE i \in H : \A j \in H : ahead(i) <= ahead(j)
  BY DEF NextSlave, ahead
<1>9. NextSlave(R) \in H /\ \A j \in H : ahead(NextSlave(R)) <= ahead(j)
  <2> HIDE DEF H
  <2>1. QED
    BY <1>7, <1>8
<1>10. QED
  BY <1>9 DEF ahead

(* A read of the master leaves the router alone. *)
LEMMA ReadMasterKeeps ==
    ASSUME ReplInv, NEW r \in Readers, ReadMaster(r)
    PROVE  RestType' /\ CheckInv' /\ RouterInv'
<1>1. live /\ ReadFrom(r, Master) /\ UNCHANGED rt
  BY DEF ReadMaster
<1>2. Master \in Nodes
  BY DEF Nodes
<1>3. rt' \in [Epochs -> Routers'] /\ RouterInv'
  BY <1>1, RouterStays DEF ReplInv, RouterInv, ReadFrom
<1>4. QED
  BY <1>1, <1>2, <1>3, ReadFromKeeps

(* A read of a slave moves the index of the router on, inside the rotation. *)
LEMMA ReadSlaveKeeps ==
    ASSUME ReplInv, NEW r \in Readers, ReadSlave(r)
    PROVE  RestType' /\ CheckInv' /\ RouterInv'
<1> DEFINE R == rt[epoch]
           i == NextSlave(R)
<1>1. live /\ Healthy(R) # {} /\ ReadFrom(r, Slave(i)) /\ rt' = [rt EXCEPT ![epoch].index = (i + 1) % N]
  BY DEF ReadSlave
<1>2. slaves \in Configs /\ rt \in [Epochs -> Routers] /\ PoolInv
  BY DEF ReplInv, RestType, PoolInv, PoolType
<1>3. epoch \in Epochs /\ R \in Routers
  BY <1>1, <1>2, EpochFacts DEF PoolInv
<1>4. i \in Idx
  BY <1>1, <1>2, <1>3, NextSlaveFacts DEF Healthy
<1> HIDE DEF i
<1>5. Slave(i) \in Nodes /\ (i + 1) % N \in Idx
  <2>1. N \in Nat \ {0} /\ i \in Nat /\ Slave(i) \in Nodes
    BY <1>2, <1>4, BoundFacts
  <2>2. (i + 1) % N \in 0 .. N - 1
    BY <2>1
  <2>3. QED
    BY <2>1, <2>2 DEF Idx
<1> DEFINE x == (i + 1) % N
           S == [R EXCEPT !.index = x]
<1>6. rt' = [rt EXCEPT ![epoch] = S]
  BY <1>1, <1>2, <1>3
<1> HIDE DEF x
<1>7. S \in Routers /\ S.failed = R.failed /\ S.fails = R.fails
  <2>1. x \in Idx
    BY <1>5 DEF x
  <2>2. S \in Routers
    BY <1>2, <1>3, <2>1, RouterFields
  <2>3. QED
    BY <1>3, <2>2 DEF Routers
<1> HIDE DEF S
<1>8. Blames(S, blamed)
  BY <1>1, <1>7 DEF ReplInv, RouterInv, Blames
<1>9. UNCHANGED <<slaves, epoch, live, down, blamed>> /\ epoch <= epoch
  BY <1>1, <1>3, BoundFacts, <1>2 DEF ReadFrom
<1>10. rt' \in [Epochs -> Routers'] /\ RouterInv'
  <2>1. down' \subseteq blamed' /\ blamed \subseteq blamed' /\ Blames(S, blamed')
    BY <1>8, <1>9 DEF ReplInv, RouterInv
  <2>2. QED
    BY <1>2, <1>3, <1>6, <1>7, <1>9, <2>1, RouterStep DEF ReplInv
<1>11. QED
  BY <1>1, <1>5, <1>10, ReadFromKeeps

(* A read that goes on or ends changes no pool and no router. *)
LEMMA ReadGoesOnKeeps ==
    ASSUME ReplInv, NEW r \in Readers, ReadGoesOn(r)
    PROVE  RestType' /\ CheckInv' /\ RouterInv'
<1>1. UNCHANGED <<slaves, epoch, live, rt, nodePools, pool, closing, checks, down, marks, blamed>>
  BY DEF ReadGoesOn, ReadConnects, ReadEnds
<1>2. reads \in [Readers -> Sessions]
  BY DEF ReplInv, RestType
<1>3. reads' \in [Readers -> Sessions]
  <2>1. CASE ReadEnds(r)
    BY <1>2, <2>1, SessionFacts DEF ReadEnds
  <2>2. CASE ReadConnects(r)
    <3> DEFINE p == reads[r].pool
    <3>1. /\ reads[r].at = "opening"
          /\ \/ reads' = [reads EXCEPT ![r] = [at |-> "using", pool |-> p]]
             \/ reads' = [reads EXCEPT ![r] = Idle]
      BY <2>2 DEF ReadConnects
    <3>2. p \in PoolNames
      BY <1>2, <3>1, SessionFacts
    <3> HIDE DEF p
    <3>3. [at |-> "using", pool |-> p] \in Sessions /\ Idle \in Sessions
      BY <3>2 DEF Sessions
    <3>4. QED
      BY <1>2, <3>1, <3>3
  <2>3. QED
    BY <2>1, <2>2 DEF ReadGoesOn
<1>4. rt' \in [Epochs -> Routers'] /\ RouterInv'
  BY <1>1, RouterStays DEF ReplInv, RouterInv
<1>5. CheckInv'
  BY <1>1, ChecksKept DEF ReplInv
<1>6. QED
  BY <1>1, <1>3, <1>4, <1>5 DEF ReplInv, RestType

(* A cycle checks every slave, in the pool of its node. *)
LEMMA TickKeeps ==
    ASSUME ReplInv, Tick
    PROVE  RestType' /\ CheckInv' /\ RouterInv'
<1> DEFINE ns == {Slave(i) : i \in Idx}
           S == [rt[epoch] EXCEPT !.running = TRUE]
<1>1. /\ live /\ NodePool(ns) /\ rt' = [rt EXCEPT ![epoch].running = TRUE]
      /\ checks' = [c \in DOMAIN checks |->
                     IF c[1] = epoch /\ c[2] \in Idx
                     THEN [at |-> "opening", pool |-> PoolFor(Slave(c[2]), ns)] ELSE checks[c]]
      /\ UNCHANGED <<slaves, epoch, live, closing, reads, down, marks, blamed>>
  BY DEF Tick
<1>2. /\ slaves \in Configs /\ rt \in [Epochs -> Routers] /\ PoolInv
      /\ checks \in [Epochs \X AllIdx -> Sessions]
  BY DEF ReplInv, RestType, PoolInv, PoolType
<1>3. epoch \in Epochs /\ rt[epoch] \in Routers
  BY <1>1, <1>2, EpochFacts DEF PoolInv
<1>4. ns \in SUBSET Nodes /\ \A i \in Idx : Slave(i) \in ns /\ Slave(i) \in Nodes
  BY <1>2, BoundFacts
<1>5. \A i \in Idx : PoolFor(Slave(i), ns) = <<epoch, Slave(i)>> /\ nodePools'[Slave(i)] = <<epoch, Slave(i)>>
                     /\ <<epoch, Slave(i)>> \in PoolNames
  <2> HIDE DEF ns
  <2>1. QED
    BY <1>1, <1>2, <1>4, NodePoolFacts, EpochFacts DEF PoolInv
<1> HIDE DEF ns
<1>6. \A c \in Epochs \X AllIdx :
        checks'[c] = IF c[1] = epoch /\ c[2] \in Idx
                     THEN [at |-> "opening", pool |-> <<epoch, Slave(c[2])>>] ELSE checks[c]
  BY <1>1, <1>2, <1>5
<1>7. checks' \in [Epochs \X AllIdx -> Sessions]
  <2>1. ASSUME NEW p \in PoolNames PROVE [at |-> "opening", pool |-> p] \in Sessions
    BY DEF Sessions
  <2>2. \A i \in Idx : [at |-> "opening", pool |-> <<epoch, Slave(i)>>] \in Sessions
    <3> TAKE i \in Idx
    <3> DEFINE p == <<epoch, Slave(i)>>
    <3>1. p \in PoolNames
      BY <1>5
    <3> HIDE DEF p
    <3>2. [at |-> "opening", pool |-> p] \in Sessions
      BY <2>1, <3>1
    <3>3. QED
      BY <3>2 DEF p
  <2>3. \A c \in Epochs \X AllIdx : checks'[c] \in Sessions
    BY <1>2, <1>6, <2>2
  <2>4. checks' = [c \in Epochs \X AllIdx |-> checks'[c]]
    BY <1>1, <1>2
  <2>5. QED
    BY <2>3, <2>4
<1>8. CheckInv'
  <2> SUFFICES ASSUME NEW c \in Epochs \X AllIdx, checks'[c] # Idle
               PROVE  /\ c[1] <= epoch /\ c[2] \in Idx /\ checks'[c].pool = <<c[1], Slave(c[2])>>
                      /\ live /\ c[1] = epoch => pool'[checks'[c].pool] \in {"opening", "open"}
    BY <1>1 DEF CheckInv, Slave, Idx, N
  <2>1. CASE c[1] = epoch /\ c[2] \in Idx
    <3> DEFINE n == Slave(c[2])
    <3>1. checks'[c].pool = <<epoch, n>> /\ nodePools'[n] = <<epoch, n>> /\ n \in Nodes
      <4>1. checks'[c] = [at |-> "opening", pool |-> <<epoch, n>>]
        BY <1>6, <2>1
      <4>2. checks'[c].pool = <<epoch, n>>
        BY <4>1
      <4>3. QED
        BY <1>4, <1>5, <2>1, <4>2
    <3> HIDE DEF n
    <3>2. PoolInv'
      BY <1>1, <1>2, <1>4, NodePoolKeeps
    <3>3. <<epoch, n>> # None
      BY <1>2, <1>1, <3>1, EpochFacts, NameFacts DEF PoolInv
    <3>4. pool'[<<epoch, n>>] \in {"opening", "open"}
      BY <3>1, <3>2, <3>3 DEF PoolInv, Mapped
    <3>5. epoch <= epoch
      BY <1>2, <1>3, BoundFacts
    <3>6. QED
      BY <2>1, <3>1, <3>4, <3>5 DEF n
  <2>2. CASE ~(c[1] = epoch /\ c[2] \in Idx)
    <3>1. checks'[c] = checks[c]
      BY <1>6, <2>2
    <3>2. /\ c[1] <= epoch /\ c[2] \in Idx /\ checks[c].pool = <<c[1], Slave(c[2])>>
      BY <3>1 DEF ReplInv, CheckInv
    <3>3. QED
      BY <2>2, <3>1, <3>2
  <2>3. QED
    BY <2>1, <2>2
<1>9. rt' \in [Epochs -> Routers'] /\ RouterInv'
  <2>1. rt' = [rt EXCEPT ![epoch] = S]
    BY <1>1, <1>2, <1>3
  <2>2. S \in Routers /\ S.failed = rt[epoch].failed /\ S.fails = rt[epoch].fails
    <3>1. S \in Routers
      BY <1>2, <1>3, RouterFields
    <3>2. QED
      BY <1>3, <3>1 DEF Routers
  <2> HIDE DEF S
  <2>3. Blames(S, blamed)
    BY <1>1, <2>2 DEF ReplInv, RouterInv, Blames
  <2>4. down' \subseteq blamed' /\ blamed \subseteq blamed' /\ Blames(S, blamed')
    BY <1>1, <2>3 DEF ReplInv, RouterInv
  <2>5. epoch <= epoch
    BY <1>2, <1>3, BoundFacts
  <2>6. QED
    BY <1>1, <1>2, <1>3, <2>1, <2>2, <2>4, <2>5, RouterStep DEF ReplInv
<1>10. QED
  BY <1>1, <1>7, <1>8, <1>9 DEF ReplInv, RestType

(* markSlaveFailed() and markSlaveRecovered(). *)
LEMMA MarkKeeps ==
    ASSUME ReplInv, NEW i \in Idx, MarkSlaveFailed(i) \/ MarkSlaveRecovered(i)
    PROVE  RestType' /\ CheckInv' /\ RouterInv'
<1>1. /\ live /\ marks < MaxMarks[slaves] /\ marks' = marks + 1
      /\ UNCHANGED <<slaves, epoch, live, nodePools, pool, closing, reads, checks, down>>
  BY DEF MarkSlaveFailed, MarkSlaveRecovered
<1>2. PICK F \in SUBSET Idx :
        /\ rt' = [rt EXCEPT ![epoch].failed = F]
        /\ \/ F = rt[epoch].failed \cup {i} /\ blamed' = blamed \cup {Slave(i)}
           \/ F = rt[epoch].failed \ {i} /\ blamed' = blamed
  <2>1. rt[epoch].failed \subseteq Idx
    BY <1>1, EpochFacts DEF ReplInv, RestType, Routers, PoolInv
  <2>2. rt \in [Epochs -> Routers] /\ epoch \in Epochs
    BY <1>1, EpochFacts DEF ReplInv, RestType, PoolInv
  <2>3. CASE MarkSlaveFailed(i)
    BY <2>1, <2>2, <2>3 DEF MarkSlaveFailed
  <2>4. CASE MarkSlaveRecovered(i)
    BY <2>1, <2>2, <2>4 DEF MarkSlaveRecovered
  <2>5. QED
    BY <2>3, <2>4
<1> DEFINE S == [rt[epoch] EXCEPT !.failed = F]
<1>3. slaves \in Configs /\ rt \in [Epochs -> Routers] /\ PoolInv
  BY DEF ReplInv, RestType, PoolInv, PoolType
<1>4. epoch \in Epochs /\ rt[epoch] \in Routers /\ epoch <= epoch
  BY <1>1, <1>3, EpochFacts, BoundFacts DEF PoolInv
<1>5. Slave(i) \in Nodes \ {Master}
  BY <1>3, BoundFacts
<1>6. rt' \in [Epochs -> Routers'] /\ RouterInv'
  <2>1. rt' = [rt EXCEPT ![epoch] = S]
    BY <1>2, <1>3, <1>4
  <2>2. S \in Routers /\ S.failed = F /\ S.fails = rt[epoch].fails
    <3>1. S \in Routers
      BY <1>3, <1>4, RouterFields
    <3>2. QED
      BY <1>4, <3>1 DEF Routers
  <2> HIDE DEF S
  <2>3. Blames(rt[epoch], blamed)
    BY <1>1 DEF ReplInv, RouterInv
  <2>4. Blames(S, blamed')
    BY <1>2, <2>2, <2>3 DEF Blames
  <2>5. down' \subseteq blamed' /\ blamed \subseteq blamed'
    BY <1>1, <1>2 DEF ReplInv, RouterInv
  <2>6. QED
    BY <1>1, <1>3, <1>4, <2>1, <2>2, <2>4, <2>5, RouterStep DEF ReplInv
<1>7. CheckInv'
  BY <1>1, ChecksKept DEF ReplInv
<1>8. blamed' \subseteq Nodes \ {Master}
  BY <1>2, <1>5 DEF ReplInv, RestType
<1>9. marks' \in 0 .. MaxMarks[slaves]
  BY <1>1, <1>3, ReplicationAssumption DEF ReplInv, RestType
<1>10. QED
  BY <1>1, <1>6, <1>7, <1>8, <1>9 DEF ReplInv, RestType

(* A slave breaks or comes back. *)
LEMMA SlaveKeeps ==
    ASSUME ReplInv, NEW i \in Idx, SlaveGoesDown(Slave(i)) \/ SlaveComesUp(Slave(i))
    PROVE  RestType' /\ CheckInv' /\ RouterInv'
<1>1. /\ UNCHANGED <<slaves, epoch, live, rt, nodePools, pool, closing, reads, checks, marks>>
      /\ \/ down' = down \cup {Slave(i)} /\ blamed' = blamed \cup {Slave(i)}
         \/ down' = down \ {Slave(i)} /\ blamed' = blamed
  BY DEF SlaveGoesDown, SlaveComesUp
<1>2. Slave(i) \in Nodes \ {Master}
  BY BoundFacts DEF ReplInv, PoolInv, PoolType
<1>3. down' \subseteq blamed' /\ blamed \subseteq blamed'
  BY <1>1 DEF ReplInv, RouterInv
<1>4. rt' \in [Epochs -> Routers'] /\ RouterInv'
  BY <1>1, <1>3, RouterStays DEF ReplInv
<1>5. CheckInv'
  BY <1>1, ChecksKept DEF ReplInv
<1>6. QED
  BY <1>1, <1>2, <1>4, <1>5 DEF ReplInv, RestType

(* A registration starts with a router that holds nothing against anyone. *)
LEMMA RegistrationKeeps ==
    ASSUME ReplInv, Initialize \/ Shutdown
    PROVE  RestType' /\ CheckInv' /\ RouterInv'
<1>1. /\ epoch < MaxEpochs[slaves] /\ epoch' = epoch + 1
      /\ rt' = IF live THEN [rt EXCEPT ![epoch] = Released(@)] ELSE rt
      /\ UNCHANGED <<slaves, pool, reads, checks, down, marks>>
      /\ \/ live' = TRUE /\ blamed' = down
         \/ live' = FALSE /\ blamed' = blamed
  <2>1. CASE Initialize
    BY <2>1 DEF Initialize, Release
  <2>2. CASE Shutdown
    BY <2>2 DEF Shutdown, Release
  <2>3. QED
    BY <2>1, <2>2
<1>2. /\ slaves \in Configs /\ rt \in [Epochs -> Routers] /\ PoolInv
      /\ checks \in [Epochs \X AllIdx -> Sessions] /\ epoch \in Nat
  BY BoundFacts DEF ReplInv, RestType, PoolInv, PoolType
<1>3. Routers' = Routers
  BY <1>1 DEF Routers, Idx, N
<1>4. rt' \in [Epochs -> Routers] /\ \A k \in Epochs : k # epoch \/ ~live => rt'[k] = rt[k]
  <2>1. CASE live
    <3>1. epoch \in Epochs /\ rt[epoch] \in Routers
      BY <1>2, <2>1, EpochFacts DEF PoolInv
    <3>2. Released(rt[epoch]) \in Routers
      BY <1>2, <3>1, ReleasedFacts
    <3>3. rt' = [rt EXCEPT ![epoch] = Released(rt[epoch])]
      BY <1>1, <2>1
    <3>4. QED
      BY <1>2, <2>1, <3>2, <3>3
  <2>2. CASE ~live
    BY <1>1, <1>2, <2>2
  <2>3. QED
    BY <2>1, <2>2
<1>5. \A k \in Epochs : k > epoch => rt'[k] = NewRouter /\ k \in Nat
  BY <1>2, <1>4, BoundFacts DEF ReplInv, RouterInv
<1>6. epoch' \in Epochs /\ epoch' > epoch /\ epoch' \in Nat
  BY <1>1, <1>2, BoundFacts
<1>7. down' \subseteq blamed'
  BY <1>1 DEF ReplInv, RouterInv
<1>8. RouterInv'
  <2>1. \A k \in Epochs : k > epoch' => rt'[k] = NewRouter
    BY <1>1, <1>2, <1>5, <1>6, BoundFacts
  <2>2. rt'[epoch'] = NewRouter
    BY <1>5, <1>6
  <2>4. Blames(rt[epoch], blamed)'
    <3>1. Blames(NewRouter, blamed')
      BY <1>2, NewRouterFacts
    <3>2. QED
      BY <1>1, <2>2, <3>1 DEF Blames, Idx, N, Slave
  <2>5. QED
    BY <1>7, <2>1, <2>4 DEF RouterInv
<1>9. CheckInv'
  <2> SUFFICES ASSUME NEW c \in Epochs \X AllIdx, checks[c] # Idle
               PROVE  /\ c[1] <= epoch' /\ c[2] \in Idx /\ checks[c].pool = <<c[1], Slave(c[2])>>
                      /\ c[1] # epoch'
    BY <1>1 DEF CheckInv, Slave, Idx, N
  <2>1. c[1] <= epoch /\ c[2] \in Idx /\ checks[c].pool = <<c[1], Slave(c[2])>>
    BY DEF ReplInv, CheckInv
  <2>2. c[1] \in Nat
    BY <1>2, BoundFacts
  <2>3. c[1] <= epoch' /\ c[1] # epoch'
    BY <1>1, <1>2, <2>1, <2>2
  <2>4. QED
    BY <2>1, <2>3
<1>10. QED
  BY <1>1, <1>3, <1>4, <1>8, <1>9 DEF ReplInv, RestType

-----------------------------------------------------------------------------
(* The rotation *)

(* Of a set of numbers up to n one is the least. *)
LEMMA LeastNumber ==
    ASSUME NEW n \in Nat, NEW S, S \subseteq 0 .. n, S # {}
    PROVE  \E k \in S : \A l \in S : ~(l < k)
<1> DEFINE Less == {p \in Int \X Int : p[1] < p[2]}
<1>1. \A x, y \in S : <<x, y>> \in Less <=> x < y
  OBVIOUS
<1>2. IsFiniteSet(S)
  <2>1. IsFiniteSet(0 .. n) /\ S \in SUBSET (0 .. n)
    BY FS_Interval
  <2>2. QED
    BY <2>1, FS_Subset
<1>3. /\ \A x, y, z \in S : <<x, y>> \in Less /\ <<y, z>> \in Less => <<x, z>> \in Less
      /\ \A x \in S : <<x, x>> \notin Less
  <2>1. \A x \in S : x \in Int
    OBVIOUS
  <2> HIDE DEF Less
  <2>2. QED
    BY <1>1, <2>1
<1>4. PICK k \in S : \A l \in S : <<l, k>> \notin Less
  <2> HIDE DEF Less
  <2>1. QED
    BY <1>2, <1>3, LeastExists
<1>5. QED
  BY <1>1, <1>4

(* g follows the position x for n steps. *)
Follows(g, S, step, x, n) ==
    g \in [0 .. n -> S] /\ g[0] = x /\ \A k \in 1 .. n : g[k] = step[g[k - 1]]

(* A step can be repeated n times. *)
LEMMA Iterates ==
    ASSUME NEW S, NEW step \in [S -> S], NEW x \in S, NEW n \in Nat
    PROVE  \E g : Follows(g, S, step, x, n)
<1> SUFFICES \E g \in [0 .. n -> S] : g[0] = x /\ \A k \in 1 .. n : g[k] = step[g[k - 1]]
  BY DEF Follows
<1> DEFINE Is(m, g) == g[0] = x /\ \A k \in 1 .. m : g[k] = step[g[k - 1]]
           Bad == {m \in 0 .. n : ~\E g \in [0 .. m -> S] : Is(m, g)}
<1>1. SUFFICES ASSUME Bad # {} PROVE FALSE
  <2>1. n \in 0 .. n
    OBVIOUS
  <2>2. QED
    BY <1>1, <2>1
<1>2. PICK m \in Bad : \A l \in Bad : ~(l < m)
  <2>1. Bad \subseteq 0 .. n
    OBVIOUS
  <2> HIDE DEF Bad
  <2>2. QED
    BY <1>1, <2>1, LeastNumber
<1>3. m \in Nat /\ m <= n /\ ~\E g \in [0 .. m -> S] : Is(m, g)
  OBVIOUS
<1>4. CASE m = 0
  <2> DEFINE g == [k \in 0 .. 0 |-> x]
  <2>1. g \in [0 .. 0 -> S] /\ Is(0, g)
    OBVIOUS
  <2>2. QED
    BY <1>3, <1>4, <2>1
<1>5. CASE m # 0
  <2>1. m - 1 \in 0 .. n /\ m - 1 \in Nat /\ m - 1 < m
    BY <1>3, <1>5
  <2>2. m - 1 \notin Bad
    BY <1>2, <2>1
  <2>3. PICK h \in [0 .. m - 1 -> S] : Is(m - 1, h)
    BY <2>1, <2>2
  <2> DEFINE g == [k \in 0 .. m |-> IF k = m THEN step[h[m - 1]] ELSE h[k]]
  <2>4. h[m - 1] \in S
    BY <2>1
  <2>5. g \in [0 .. m -> S]
    <3>1. \A k \in 0 .. m : k # m => k \in 0 .. m - 1
      BY <1>3
    <3>2. QED
      BY <2>4, <3>1
  <2>6. g[0] = x
    BY <1>3, <1>5, <2>3
  <2>7. ASSUME NEW k \in 1 .. m PROVE g[k] = step[g[k - 1]]
    <3>1. k \in 0 .. m /\ k - 1 \in 0 .. m /\ k - 1 # m
      BY <1>3
    <3>2. g[k - 1] = h[k - 1]
      BY <3>1
    <3>3. CASE k = m
      BY <3>1, <3>2, <3>3
    <3>4. CASE k # m
      <4>1. k \in 1 .. m - 1
        BY <1>3, <3>4
      <4>2. g[k] = h[k]
        BY <3>1, <3>4
      <4>3. h[k] = step[h[k - 1]]
        BY <2>3, <4>1
      <4>4. QED
        BY <3>2, <4>2, <4>3
    <3>5. QED
      BY <3>3, <3>4
  <2>8. Is(m, g)
    BY <2>6, <2>7
  <2>9. QED
    BY <1>3, <2>5, <2>8
<1>6. QED
  BY <1>4, <1>5

(* How far slave i is ahead of position x, round robin. *)
Ahead(x, i) == (i + N - x) % N
After(i) == (i + 1) % N

(* Distances without the modulus. *)
LEMMA AheadFacts ==
    ASSUME slaves \in Configs, NEW x \in Idx, NEW i \in Idx
    PROVE  /\ Ahead(x, i) = IF i >= x THEN i - x ELSE i - x + N
           /\ Ahead(x, i) \in Idx
           /\ After(i) = IF i = N - 1 THEN 0 ELSE i + 1
           /\ After(i) \in Idx
<1>1. N \in Nat \ {0} /\ x \in 0 .. N - 1 /\ i \in 0 .. N - 1
  BY BoundFacts DEF Idx
<1>2. ASSUME NEW n \in Nat \ {0}, NEW a \in 0 .. n - 1 PROVE a % n = a /\ (a + n) % n = a
  <2>1. a % n = a
    OBVIOUS
  <2>2. (a + n) % n = a
    OBVIOUS
  <2>3. QED
    BY <2>1, <2>2
<1>3. Ahead(x, i) = IF i >= x THEN i - x ELSE i - x + N
  <2>1. CASE i >= x
    <3>1. i - x \in 0 .. N - 1 /\ i + N - x = (i - x) + N
      BY <1>1, <2>1
    <3>2. QED
      BY <1>1, <1>2, <2>1, <3>1 DEF Ahead
  <2>2. CASE i < x
    <3>1. i - x + N \in 0 .. N - 1 /\ i + N - x = i - x + N
      BY <1>1, <2>2
    <3>2. (i - x + N) % N = i - x + N
      BY <1>1, <1>2, <3>1
    <3>3. QED
      BY <1>1, <2>2, <3>1, <3>2 DEF Ahead
  <2>3. QED
    BY <1>1, <2>1, <2>2
<1>4. After(i) = IF i = N - 1 THEN 0 ELSE i + 1
  <2>1. CASE i = N - 1
    <3>1. 0 \in 0 .. N - 1 /\ i + 1 = 0 + N
      BY <1>1, <2>1
    <3>2. QED
      BY <1>1, <1>2, <2>1, <3>1 DEF After
  <2>2. CASE i # N - 1
    <3>1. i + 1 \in 0 .. N - 1
      BY <1>1, <2>2
    <3>2. QED
      BY <1>1, <1>2, <2>2, <3>1 DEF After
  <2>3. QED
    BY <2>1, <2>2
<1>5. QED
  BY <1>1, <1>3, <1>4 DEF Idx

(* Distances tell slaves apart, and move with the position. *)
LEMMA AheadMoves ==
    ASSUME slaves \in Configs, NEW x \in Idx, NEW i \in Idx, NEW j \in Idx
    PROVE  /\ Ahead(x, i) = Ahead(x, j) => i = j
           /\ Ahead(After(j), i) = IF Ahead(x, i) > Ahead(x, j) THEN Ahead(x, i) - Ahead(x, j) - 1
                                   ELSE Ahead(x, i) - Ahead(x, j) - 1 + N
<1>1. N \in Nat \ {0} /\ x \in 0 .. N - 1 /\ i \in 0 .. N - 1 /\ j \in 0 .. N - 1
  BY BoundFacts DEF Idx
<1>2. /\ Ahead(x, i) = IF i >= x THEN i - x ELSE i - x + N
      /\ Ahead(x, j) = IF j >= x THEN j - x ELSE j - x + N
      /\ After(j) = IF j = N - 1 THEN 0 ELSE j + 1
      /\ After(j) \in Idx
  BY AheadFacts
<1>3. Ahead(After(j), i) = IF i >= After(j) THEN i - After(j) ELSE i - After(j) + N
  BY <1>2, AheadFacts
<1>4. QED
  BY <1>1, <1>2, <1>3

(* The next reads, one for each slave in the rotation, reach them all: from *)
(* any position, the k-th read finds the k-th slave ahead of it.            *)
LEMMA RotationFacts ==
    ASSUME slaves \in Configs, NEW R \in Routers
    PROVE  LET index[k \in 0 .. N] ==
                   IF k = 0 THEN R.index ELSE (NextSlave([R EXCEPT !.index = index[k - 1]]) + 1) % N
           IN \A i \in Healthy(R) : \E k \in 1 .. Cardinality(Healthy(R)) : index[k] = (i + 1) % N
<1> DEFINE index[k \in 0 .. N] ==
               IF k = 0 THEN R.index ELSE (NextSlave([R EXCEPT !.index = index[k - 1]]) + 1) % N
           H == Healthy(R)
           At(x) == [R EXCEPT !.index = x]
           step == [x \in Idx |-> After(NextSlave(At(x)))]
           x0 == R.index
           d(i) == Ahead(x0, i)
           Nearer(i) == {j \in H : d(j) < d(i)}
           pos(i) == Cardinality(Nearer(i))
<1>1. N \in Nat \ {0} /\ x0 \in Idx /\ H \subseteq Idx /\ IsFiniteSet(H) /\ Cardinality(H) \in Nat
  <2>1. N \in Nat \ {0} /\ x0 \in Idx /\ H \subseteq Idx
    BY BoundFacts, RouterFields DEF Healthy
  <2>2. IsFiniteSet(Idx)
    BY <2>1, FS_Interval DEF Idx
  <2>3. QED
    BY <2>1, <2>2, FS_Subset, FS_CardinalityType
<1>2. SUFFICES ASSUME H # {} PROVE \A i \in H : \E k \in 1 .. Cardinality(H) : index[k] = After(i)
  BY DEF After
<1>3. \A x \in Idx : /\ At(x) \in Routers /\ At(x).index = x /\ Healthy(At(x)) = H
                     /\ NextSlave(At(x)) \in H
                     /\ \A j \in H : Ahead(x, NextSlave(At(x))) <= Ahead(x, j)
  <2> TAKE x \in Idx
  <2>1. At(x) \in Routers /\ At(x).index = x /\ At(x).failed = R.failed
    <3>1. At(x) \in Routers
      BY RouterFields
    <3>2. QED
      BY <3>1 DEF Routers
  <2> HIDE DEF At
  <2>2. Healthy(At(x)) = H
    BY <2>1 DEF Healthy
  <2>3. QED
    BY <1>2, <2>1, <2>2, NextSlaveFacts DEF Ahead
<1> HIDE DEF At
<1>4. step \in [Idx -> Idx]
  BY <1>1, <1>3, AheadFacts
<1>5. index[0] = x0 /\ \A k \in 1 .. N : index[k] = step[index[k - 1]] /\ index[k - 1] \in Idx
  <2> DEFINE Is(f) == f = [k \in 0 .. N |->
                             IF k = 0 THEN x0 ELSE (NextSlave(At(f[k - 1])) + 1) % N]
  <2>1. index = CHOOSE f : Is(f)
    BY DEF At
  <2> HIDE DEF index
  <2>2. PICK g \in [0 .. N -> Idx] : g[0] = x0 /\ \A k \in 1 .. N : g[k] = step[g[k - 1]]
    <3>1. N \in Nat /\ x0 \in Idx
      BY <1>1
    <3> HIDE DEF step, x0, H
    <3>2. PICK g : Follows(g, Idx, step, x0, N)
      BY <1>4, <3>1, Iterates
    <3>3. QED
      BY <3>2 DEF Follows
  <2>3. Is(g)
    <3>1. ASSUME NEW k \in 0 .. N
          PROVE  g[k] = IF k = 0 THEN x0 ELSE (NextSlave(At(g[k - 1])) + 1) % N
      <4>1. CASE k = 0
        BY <2>2, <4>1
      <4>2. CASE k # 0
        <5>1. k \in 1 .. N /\ k - 1 \in 0 .. N
          BY <1>1, <4>2
        <5>2. g[k] = step[g[k - 1]] /\ g[k - 1] \in Idx
          BY <2>2, <5>1
        <5>3. QED
          BY <4>2, <5>2 DEF After
      <4>3. QED
        BY <4>1, <4>2
    <3>2. QED
      BY <3>1
  <2>4. Is(index)
    <3> HIDE DEF Is
    <3>1. QED
      BY <2>1, <2>3
  <2>5. index[0] = x0
    BY <1>1, <2>4
  <2>6. \A k \in 1 .. N : index[k] = (NextSlave(At(index[k - 1])) + 1) % N
    BY <1>1, <2>4
  <2>7. index \in [0 .. N -> Idx]
    <3> DEFINE Out == {k \in 0 .. N : index[k] \notin Idx}
    <3>1. SUFFICES ASSUME Out # {} PROVE FALSE
      BY <2>4
    <3>2. PICK k \in Out : \A l \in Out : ~(l < k)
      <4>1. Out \subseteq 0 .. N
        OBVIOUS
      <4> HIDE DEF Out
      <4>2. QED
        BY <1>1, <3>1, <4>1, LeastNumber
    <3>3. k \in 1 .. N /\ k - 1 \in 0 .. N /\ k - 1 < k
      BY <1>1, <2>5
    <3>4. index[k - 1] \in Idx
      BY <3>2, <3>3
    <3>5. index[k] = After(NextSlave(At(index[k - 1])))
      BY <2>6, <3>3 DEF After
    <3>6. index[k] \in Idx
      <4>1. NextSlave(At(index[k - 1])) \in Idx
        BY <1>1, <1>3, <3>4
      <4>2. QED
        BY <3>5, <4>1, AheadFacts
    <3>7. QED
      BY <3>6
  <2>8. QED
    <3>1. ASSUME NEW k \in 1 .. N PROVE index[k] = step[index[k - 1]] /\ index[k - 1] \in Idx
      <4>1. k - 1 \in 0 .. N
        BY <1>1
      <4>2. index[k - 1] \in Idx
        BY <2>7, <4>1
      <4>3. QED
        BY <2>6, <4>2 DEF After
    <3>2. QED
      BY <2>5, <3>1
<1> HIDE DEF index, step
<1>6. \A i, j \in H : /\ d(i) \in Nat /\ d(i) < N
                      /\ d(i) = d(j) => i = j
                      /\ Ahead(After(j), i) = IF d(i) > d(j) THEN d(i) - d(j) - 1 ELSE d(i) - d(j) - 1 + N
  <2> TAKE i, j \in H
  <2>1. i \in Idx /\ j \in Idx
    BY <1>1
  <2>2. d(i) \in Idx
    BY <1>1, <2>1, AheadFacts
  <2>3. QED
    BY <1>1, <2>1, <2>2, BoundFacts, AheadMoves
<1>7. \A x \in Idx, i \in H : (\A l \in H : Ahead(x, i) <= Ahead(x, l)) => step[x] = After(i)
  <2> TAKE x \in Idx, i \in H
  <2> HAVE \A l \in H : Ahead(x, i) <= Ahead(x, l)
  <2> DEFINE n == NextSlave(At(x))
  <2>1. n \in H /\ Ahead(x, n) <= Ahead(x, i) /\ Ahead(x, i) <= Ahead(x, n)
    BY <1>3
  <2> HIDE DEF n
  <2>2. Ahead(x, n) \in Nat /\ Ahead(x, i) \in Nat
    BY <1>1, <2>1, AheadFacts, BoundFacts
  <2>3. n = i
    BY <1>1, <2>1, <2>2, AheadMoves
  <2>4. QED
    BY <2>3 DEF step, n
<1> HIDE DEF d, x0
<1>8. \A i \in H : Nearer(i) \subseteq H /\ IsFiniteSet(Nearer(i)) /\ pos(i) \in Nat /\ pos(i) < Cardinality(H)
  <2> TAKE i \in H
  <2>1. Nearer(i) \in SUBSET H /\ Nearer(i) # H
    BY <1>6
  <2> HIDE DEF Nearer
  <2>2. IsFiniteSet(Nearer(i)) /\ pos(i) \in Nat /\ pos(i) <= Cardinality(H) /\ pos(i) # Cardinality(H)
    BY <1>1, <2>1, FS_Subset, FS_CardinalityType
  <2>3. QED
    BY <1>1, <2>1, <2>2
<1>9. Cardinality(H) <= N
  <2>1. IsFiniteSet(Idx) /\ Cardinality(Idx) = N
    BY <1>1, FS_Interval DEF Idx
  <2>2. QED
    BY <1>1, <2>1, FS_Subset
<1>10. \A i \in H : index[pos(i) + 1] = After(i)
  <2> DEFINE Bad == {i \in H : index[pos(i) + 1] # After(i)}
             Less == {q \in H \X H : d(q[1]) < d(q[2])}
  <2>1. SUFFICES ASSUME Bad # {} PROVE FALSE
    OBVIOUS
  <2>2. \A a, b \in H : <<a, b>> \in Less <=> d(a) < d(b)
    OBVIOUS
  <2>3. /\ \A a, b, c \in H : <<a, b>> \in Less /\ <<b, c>> \in Less => <<a, c>> \in Less
        /\ \A a \in H : <<a, a>> \notin Less
    <3> HIDE DEF Less
    <3>1. QED
      BY <1>6, <2>2
  <2>4. PICK i \in Bad : \A j \in Bad : <<j, i>> \notin Less
    <3>1. Bad \in SUBSET H
      OBVIOUS
    <3>2. IsFiniteSet(Bad)
      BY <1>1, <3>1, FS_Subset
    <3>3. /\ \A a, b, c \in Bad : <<a, b>> \in Less /\ <<b, c>> \in Less => <<a, c>> \in Less
          /\ \A a \in Bad : <<a, a>> \notin Less
      BY <2>3, <3>1
    <3> HIDE DEF Less, Bad
    <3>4. QED
      BY <2>1, <3>2, <3>3, LeastExists
  <2>5. i \in H /\ index[pos(i) + 1] # After(i)
    OBVIOUS
  <2>6. \A j \in H : d(j) < d(i) => index[pos(j) + 1] = After(j)
    BY <2>2, <2>4, <2>5
  <2> HIDE DEF Bad, Less
  <2>7. pos(i) \in Nat /\ pos(i) + 1 \in 1 .. N
    <3> DEFINE n == pos(i)
               m == Cardinality(H)
    <3>1. n \in Nat /\ n < m /\ m \in Nat /\ m <= N
      BY <1>1, <1>8, <1>9, <2>5
    <3> HIDE DEF n, m
    <3>2. n \in Nat /\ n + 1 \in 1 .. N
      BY <1>1, <3>1
    <3>3. QED
      BY <3>2 DEF n
  <2>8. CASE Nearer(i) = {}
    <3>1. pos(i) = 0
      BY <2>8, FS_EmptySet
    <3>2. \A l \in H : d(i) <= d(l)
      BY <1>6, <2>5, <2>8
    <3>3. step[x0] = After(i)
      BY <1>1, <1>7, <2>5, <3>2 DEF d
    <3>4. index[0 + 1] = step[index[0]]
      <4>1. 1 \in 1 .. N /\ 1 - 1 = 0
        BY <1>1
      <4>2. QED
        BY <1>5, <4>1
    <3>5. QED
      BY <1>5, <2>5, <3>1, <3>3, <3>4
  <2>9. CASE Nearer(i) # {}
    <3>1. PICK j \in Nearer(i) : \A l \in Nearer(i) : ~(d(l) > d(j))
      <4> DEFINE More == {q \in H \X H : d(q[1]) > d(q[2])}
      <4>1. \A a, b \in H : <<a, b>> \in More <=> d(a) > d(b)
        OBVIOUS
      <4>2. Nearer(i) \subseteq H /\ IsFiniteSet(Nearer(i))
        BY <1>8, <2>5
      <4> HIDE DEF More, Nearer
      <4>3. /\ \A a, b, c \in Nearer(i) : <<a, b>> \in More /\ <<b, c>> \in More => <<a, c>> \in More
            /\ \A a \in Nearer(i) : <<a, a>> \notin More
        BY <1>6, <4>1, <4>2
      <4>4. PICK j \in Nearer(i) : \A l \in Nearer(i) : <<l, j>> \notin More
        BY <2>9, <4>2, <4>3, LeastExists
      <4>5. QED
        BY <4>1, <4>2, <4>4
    <3>2. j \in H /\ d(j) < d(i) /\ d(i) \in Nat /\ d(j) \in Nat /\ d(i) < N /\ d(j) < N
      BY <1>6, <2>5
    <3>3. \A l \in H : d(l) > d(j) => d(l) >= d(i)
      BY <1>6, <2>5, <3>1, <3>2
    <3>4. Nearer(j) = Nearer(i) \ {j}
      <4>1. ASSUME NEW l \in H PROVE d(l) < d(j) <=> d(l) < d(i) /\ l # j
        <5>1. d(l) \in Nat /\ (d(l) = d(j) => l = j) /\ (d(l) > d(j) => d(l) >= d(i))
          BY <1>6, <3>2, <3>3
        <5>2. QED
          BY <3>2, <5>1
      <4>2. QED
        BY <4>1
    <3>5. pos(i) = pos(j) + 1 /\ pos(j) \in Nat
      <4>1. IsFiniteSet(Nearer(i)) /\ j \in Nearer(i) /\ pos(j) \in Nat /\ pos(i) \in Nat
        BY <1>8, <2>5, <3>2
      <4>2. Cardinality(Nearer(i) \ {j}) = Cardinality(Nearer(i)) - 1
        BY <4>1, FS_RemoveElement
      <4>3. pos(j) = pos(i) - 1
        BY <3>4, <4>2
      <4> HIDE DEF pos
      <4>4. QED
        BY <4>1, <4>3
    <3>6. index[pos(i)] = After(j)
      BY <2>6, <3>2, <3>5
    <3> DEFINE n == pos(i)
    <3>7. n + 1 \in 1 .. N /\ (n + 1) - 1 = n
      BY <2>7
    <3>8. index[n + 1] = step[index[n]]
      <4> HIDE DEF n
      <4>1. QED
        BY <1>5, <3>7
    <3>9. step[After(j)] = After(i)
      <4>1. After(j) \in Idx
        BY <1>1, <3>2, AheadFacts
      <4>2. ASSUME NEW l \in H PROVE Ahead(After(j), i) <= Ahead(After(j), l)
        <5>1. Ahead(After(j), i) = d(i) - d(j) - 1
          BY <1>6, <2>5, <3>2
        <5>2. Ahead(After(j), l) = IF d(l) > d(j) THEN d(l) - d(j) - 1 ELSE d(l) - d(j) - 1 + N
          BY <1>6, <3>2
        <5>3. d(l) \in Nat /\ (d(l) > d(j) => d(l) >= d(i))
          BY <1>6, <3>3
        <5>4. QED
          BY <1>1, <3>2, <5>1, <5>2, <5>3
      <4>3. QED
        BY <1>7, <2>5, <4>1, <4>2
    <3>10. QED
      BY <2>5, <3>6, <3>8, <3>9
  <2>10. QED
    BY <2>8, <2>9
<1>11. QED
  <2>1. ASSUME NEW i \in H PROVE \E k \in 1 .. Cardinality(H) : index[k] = After(i)
    <3> DEFINE k == pos(i) + 1
    <3>1. k \in 1 .. Cardinality(H)
      <4> DEFINE n == pos(i)
                 m == Cardinality(H)
      <4>1. n \in Nat /\ n < m /\ m \in Nat
        BY <1>1, <1>8
      <4> HIDE DEF n, m
      <4>2. n + 1 \in 1 .. m
        BY <4>1
      <4>3. QED
        BY <4>2 DEF n, m
    <3>2. index[k] = After(i)
      BY <1>10
    <3>3. QED
      BY <3>1, <3>2
  <2>2. QED
    BY <2>1

-----------------------------------------------------------------------------
(* Nothing is registered at first. *)
LEMMA ReplStarts == Init => ReplInv
<1> SUFFICES ASSUME Init PROVE ReplInv
  OBVIOUS
<1>1. slaves \in Configs /\ epoch = 0 /\ live = FALSE
  BY DEF Init
<1>2. 0 \in 0 .. MaxEpochs[slaves] /\ 0 \in 0 .. MaxMarks[slaves] /\ NewRouter \in Routers
  <2>1. MaxEpochs[slaves] \in Nat /\ MaxMarks[slaves] \in Nat
    BY <1>1, ReplicationAssumption
  <2>2. NewRouter \in Routers
    BY <1>1, NewRouterFacts
  <2>3. QED
    BY <2>1, <2>2
<1>3. PoolInv
  <2>1. PoolType
    BY <1>1, <1>2 DEF Init, PoolType
  <2>2. Owned /\ Mapped /\ ClosingInv
    BY DEF Init, Owned, Mapped, ClosingInv
  <2>3. QED
    BY <2>1, <2>2 DEF PoolInv
<1>4. RestType
  <2>1. Idle \in Sessions
    BY DEF Sessions
  <2>2. rt \in [Epochs -> Routers]
    BY <1>2 DEF Init
  <2>3. reads \in [Readers -> Sessions] /\ checks \in [Epochs \X AllIdx -> Sessions]
    BY <2>1 DEF Init
  <2>4. down \subseteq Nodes \ {Master} /\ blamed \subseteq Nodes \ {Master} /\ marks \in 0 .. MaxMarks[slaves]
    BY <1>2 DEF Init
  <2>5. QED
    BY <2>2, <2>3, <2>4 DEF RestType
<1>5. CheckInv /\ RouterInv
  <2>1. \A c \in Epochs \X AllIdx : checks[c] = Idle
    BY DEF Init
  <2>2. CheckInv
    BY <2>1 DEF CheckInv
  <2>3. \A k \in Epochs : rt[k] = NewRouter
    BY DEF Init
  <2>4. down \subseteq blamed
    BY DEF Init
  <2>5. QED
    BY <1>1, <2>2, <2>3, <2>4 DEF RouterInv
<1>6. QED
  BY <1>3, <1>4, <1>5 DEF ReplInv

(* Every step keeps the invariant. *)
LEMMA ReplKept == ReplInv /\ [Next]_vars => ReplInv'
<1> SUFFICES ASSUME ReplInv, [Next]_vars PROVE ReplInv'
  OBVIOUS
<1> USE DEF ReplInv
<1>1. CASE Initialize \/ Shutdown
  <2>1. Release /\ live' \in BOOLEAN
    BY <1>1 DEF Initialize, Shutdown
  <2>2. QED
    BY <1>1, <2>1, ReleaseKeeps, RegistrationKeeps
<1>2. CASE Tick
  <2> DEFINE ns == {Slave(i) : i \in Idx}
  <2>1. live /\ NodePool(ns) /\ UNCHANGED <<slaves, epoch, live, closing>>
    BY <1>2 DEF Tick
  <2>2. ns \in SUBSET Nodes
    BY BoundFacts DEF PoolInv, PoolType
  <2> HIDE DEF ns
  <2>3. QED
    BY <1>2, <2>1, <2>2, NodePoolKeeps, TickKeeps
<1>3. ASSUME NEW p \in PoolNames, PoolSettles(p)
      PROVE  ReplInv'
  BY <1>3, PoolOpensKeeps, PoolMovesKeep, PoolFailsKeeps, FailureKeeps DEF PoolSettles
<1>4. ASSUME NEW p \in PoolNames, PoolCloses(p)
      PROVE  ReplInv'
  BY <1>4, PoolClosesKeeps, PoolMovesKeep
<1>5. ASSUME NEW r \in Readers, NEW n \in Nodes, live, ReadFrom(r, n)
      PROVE  PoolInv'
  BY <1>5, NodePoolKeeps DEF ReadFrom
<1>6. ASSUME NEW r \in Readers, ReadMaster(r)
      PROVE  ReplInv'
  <2>1. Master \in Nodes
    BY DEF Nodes
  <2>2. PoolInv'
    BY <1>5, <1>6, <2>1 DEF ReadMaster
  <2>3. QED
    BY <1>6, <2>2, ReadMasterKeeps
<1>7. ASSUME NEW r \in Readers, ReadSlave(r)
      PROVE  ReplInv'
  <2>1. live /\ Healthy(rt[epoch]) # {} /\ ReadFrom(r, Slave(NextSlave(rt[epoch])))
    BY <1>7 DEF ReadSlave
  <2>2. slaves \in Configs /\ rt[epoch] \in Routers
    BY <2>1, EpochFacts DEF PoolInv, PoolType, RestType
  <2>3. NextSlave(rt[epoch]) \in Idx
    BY <2>1, <2>2, NextSlaveFacts DEF Healthy
  <2>4. Slave(NextSlave(rt[epoch])) \in Nodes
    BY <2>2, <2>3, BoundFacts
  <2>5. PoolInv'
    BY <1>5, <2>1, <2>4
  <2>6. QED
    BY <1>7, <2>5, ReadSlaveKeeps
<1>8. ASSUME NEW r \in Readers, ReadGoesOn(r)
      PROVE  ReplInv'
  BY <1>8, PoolsStay, ReadGoesOnKeeps DEF ReadGoesOn, ReadConnects, ReadEnds
<1>9. ASSUME NEW k \in Epochs, NEW i \in AllIdx, CheckGoesOn(k, i)
      PROVE  ReplInv'
  <2>1. PoolInv'
    BY <1>9, PoolsStay DEF CheckGoesOn, CheckConnects, CheckRefused, CheckAnswered, CheckIsOver
  <2>2. QED
    BY <1>9, <2>1, CheckConnectsKeeps, CheckRefusedKeeps, CheckAnsweredKeeps DEF CheckGoesOn
<1>10. ASSUME NEW i \in Idx,
              \/ MarkSlaveFailed(i) \/ MarkSlaveRecovered(i)
              \/ SlaveGoesDown(Slave(i)) \/ SlaveComesUp(Slave(i))
       PROVE  ReplInv'
  <2>1. PoolInv'
    BY <1>10, PoolsStay DEF MarkSlaveFailed, MarkSlaveRecovered, SlaveGoesDown, SlaveComesUp
  <2>2. QED
    BY <1>10, <2>1, MarkKeeps, SlaveKeeps
<1>11. CASE UNCHANGED vars
  <2>1. PoolInv' /\ CheckInv'
    BY <1>11, PoolsStay, ChecksKept DEF vars
  <2>2. rt' \in [Epochs -> Routers'] /\ RouterInv'
    BY <1>11, RouterStays DEF vars, RouterInv
  <2>3. QED
    BY <1>11, <2>1, <2>2 DEF vars, RestType
<1>12. QED
  BY <1>1, <1>2, <1>3, <1>4, <1>6, <1>7, <1>8, <1>9, <1>10, <1>11 DEF Next

(* The invariant holds in every state. *)
LEMMA ReplAlways == Spec => []ReplInv
BY ReplStarts, ReplKept, PTL DEF Spec

(* The types are part of the invariant. *)
LEMMA ReplTypes == ReplInv => TypeOK
BY DEF ReplInv, PoolInv, PoolType, RestType, Routers, Sessions, TypeOK

(* A pool that opens or is open has one owner, the map or a release, and    *)
(* the map has no pool that is closed or being closed (PoolsAreOwned),      *)
(* however failures to open, releases, reads and health checks interleave.  *)
THEOREM PoolsHaveOwners == Spec => []PoolsAreOwned
<1>1. ReplInv => PoolsAreOwned
  BY ReplTypes DEF ReplInv, PoolInv, Owned, Mapped, PoolsAreOwned
<1>2. QED
  BY <1>1, ReplAlways, PTL

(* No slave is out of the rotation that nothing happened to, and from any   *)
(* position, with any slaves left out, as many reads as there are slaves in *)
(* the rotation reach them all (RotationIsSound).                           *)
THEOREM RotationHolds == Spec => []RotationIsSound
<1>1. ReplInv => RotationIsSound
  <2> SUFFICES ASSUME ReplInv, live
               PROVE  LET R == rt[epoch]
                          index[k \in 0 .. N] ==
                              IF k = 0 THEN R.index
                              ELSE (NextSlave([R EXCEPT !.index = index[k - 1]]) + 1) % N
                      IN /\ \A i \in R.failed : Slave(i) \in blamed
                         /\ \A i \in Healthy(R) :
                              \E k \in 1 .. Cardinality(Healthy(R)) : index[k] = (i + 1) % N
    BY DEF RotationIsSound
  <2>1. slaves \in Configs /\ rt[epoch] \in Routers
    BY EpochFacts DEF ReplInv, PoolInv, PoolType, RestType
  <2>2. \A i \in rt[epoch].failed : Slave(i) \in blamed
    BY <2>1, RouterFields DEF ReplInv, RouterInv, Blames
  <2>3. LET R == rt[epoch]
            index[k \in 0 .. N] ==
                IF k = 0 THEN R.index
                ELSE (NextSlave([R EXCEPT !.index = index[k - 1]]) + 1) % N
        IN \A i \in Healthy(R) : \E k \in 1 .. Cardinality(Healthy(R)) : index[k] = (i + 1) % N
    BY <2>1, RotationFacts
  <2>4. QED
    BY <2>2, <2>3
<1>2. QED
  BY <1>1, ReplAlways, PTL
=============================================================================
