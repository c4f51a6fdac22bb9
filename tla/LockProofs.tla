------------------------------ MODULE LockProofs ------------------------------
(***************************************************************************)
(* Proofs about the two locks: the connection gate of SQLite (SqliteGate)  *)
(* and the advisory lock of the migration runners (Migrations).            *)
(***************************************************************************)
EXTENDS SqliteGate, Migrations, ListsProofs, TLAPS

-----------------------------------------------------------------------------
(***************************************************************************)
(* Proofs about SqliteGate for every set of transactions and statements.   *)
(*                                                                         *)
(* The safety properties are not inductive by themselves: that turns are   *)
(* not lost depends on where each transaction is and on who is queued, so  *)
(* GateInv ties holder, dbTx, inTx and the queue to the program counters.  *)
(***************************************************************************)

(* The queue holds exactly tasks that wait, each once.                     *)
QueueInv ==
    /\ \A i \in 1..Len(waiters) : pc[waiters[i]] = "waiting"
    /\ \A i, j \in 1..Len(waiters) : waiters[i] = waiters[j] => i = j

(* Where a transaction is decides what it holds.                           *)
HolderInv ==
    /\ \A f \in Flows : holder = f <=> pc[f] \in {"turn", "body", "ending"}
    /\ \A f \in Flows : inTx[f] <=> pc[f] \in {"body", "ending"}
    /\ \A f \in Flows : dbTx = f <=> pc[f] = "body"
    /\ \A s \in Stmts : pc[s] \in StmtStates

GateInv ==
    /\ TypeOK
    /\ QueueInv
    /\ HolderInv
    /\ OneTurn
    /\ NoIdleWait
    /\ NoForeignStatement

-----------------------------------------------------------------------------
(* Leaving the queue keeps it well formed: what remains are the other      *)
(* waiters, in their order.                                                *)
LEMMA QueueAfterTail ==
    ASSUME TypeOK, QueueInv, waiters # <<>>
    PROVE  /\ Tail(waiters) \in Seq(Tasks)
           /\ Head(waiters) \in Tasks
           /\ pc[Head(waiters)] = "waiting"
           /\ \A i \in 1..Len(Tail(waiters)) :
                 Tail(waiters)[i] # Head(waiters) /\ pc[Tail(waiters)[i]] = "waiting"
           /\ \A i, j \in 1..Len(Tail(waiters)) :
                 Tail(waiters)[i] = Tail(waiters)[j] => i = j
<1>1. waiters \in Seq(Tasks)
  BY DEF TypeOK
<1>2. /\ Head(waiters) = waiters[1]
      /\ Len(waiters) \in Nat /\ Len(waiters) > 0
      /\ 1 \in 1..Len(waiters)
  BY <1>1
<1>3. /\ Tail(waiters) \in Seq(Tasks)
      /\ Len(Tail(waiters)) = Len(waiters) - 1
      /\ \A i \in 1..Len(Tail(waiters)) : Tail(waiters)[i] = waiters[i + 1]
  BY <1>1, HeadTailProperties
<1>4. \A i \in 1..Len(Tail(waiters)) : i + 1 \in 1..Len(waiters) /\ i + 1 # 1
  BY <1>2, <1>3
<1>5. waiters[1] \in Tasks
  BY <1>1, <1>2, ElementOfSeq
<1>6. ASSUME NEW i \in 1..Len(Tail(waiters)), NEW j \in 1..Len(Tail(waiters)),
             Tail(waiters)[i] = Tail(waiters)[j]
      PROVE  i = j
  <2>1. i + 1 = j + 1
    BY <1>3, <1>4, <1>6 DEF QueueInv
  <2>2. i \in Int /\ j \in Int
    BY <1>2, <1>3
  <2>3. QED  BY <2>1, <2>2
<1>7. QED
  BY <1>2, <1>3, <1>4, <1>5, <1>6 DEF QueueInv

(* passTurn by the task that has the turn: it moves to the head of the     *)
(* queue or the gate is freed, and nothing else changes.                   *)
LEMMA PassTurnSafe ==
    ASSUME GateInv, NEW t \in Tasks, HasTurn(t), holder' = None,
           NEW outcome \in (FlowStates \cup StmtStates) \ {"waiting", "granted"},
           PassTurn(t, outcome)
    PROVE  /\ taken' \in BOOLEAN
           /\ waiters' \in Seq(Tasks)
           /\ pc' \in [Tasks -> FlowStates \cup StmtStates]
           /\ pc'[t] = outcome
           /\ \A u \in Tasks : u # t =>
                 pc'[u] = pc[u] \/ (pc[u] = "waiting" /\ pc'[u] = "granted")
           /\ QueueInv' /\ OneTurn' /\ NoIdleWait'
<1> USE DEF GateInv
<1>1. /\ \A u \in Tasks : HasTurn(u) => u = t
      /\ pc[t] # "waiting" /\ taken = TRUE /\ None \notin Tasks
  <2>1. \A u \in Tasks : HasTurn(u) => u = t
    BY DEF OneTurn
  <2>2. pc[t] # "waiting"
    <3>1. CASE pc[t] = "granted"
      BY <3>1
    <3>2. CASE holder = t
      BY <3>2, GateAssumption DEF HolderInv, TypeOK, Tasks
    <3>3. QED  BY <3>1, <3>2 DEF HasTurn
  <2>3. taken = TRUE
    BY DEF OneTurn, TypeOK
  <2>4. QED  BY <2>1, <2>2, <2>3, GateAssumption
<1>2. CASE waiters = <<>>
  <2>1. /\ taken' = FALSE /\ waiters' = waiters
        /\ pc' = [pc EXCEPT ![t] = outcome]
    BY <1>2 DEF PassTurn
  <2>2. \A u \in Tasks : ~HasTurn(u)'
    BY <1>1, <2>1 DEF HasTurn, TypeOK
  <2>3. OneTurn'
    BY <2>1, <2>2 DEF OneTurn
  <2>4. QueueInv' /\ NoIdleWait'
    BY <1>2, <2>1 DEF QueueInv, NoIdleWait
  <2>5. QED  BY <2>1, <2>3, <2>4 DEF TypeOK
<1>3. CASE waiters # <<>>
  <2> DEFINE h == Head(waiters)
  <2>1. /\ taken' = taken /\ waiters' = Tail(waiters)
        /\ pc' = [pc EXCEPT ![t] = outcome, ![h] = "granted"]
    BY <1>3 DEF PassTurn
  <2>2. /\ h \in Tasks /\ pc[h] = "waiting" /\ h # t
        /\ waiters' \in Seq(Tasks)
        /\ \A i \in 1..Len(waiters') : waiters'[i] # h /\ pc[waiters'[i]] = "waiting"
        /\ \A i, j \in 1..Len(waiters') : waiters'[i] = waiters'[j] => i = j
    BY <1>1, <1>3, <2>1, QueueAfterTail
  <2> HIDE DEF h
  <2>3. /\ pc' \in [Tasks -> FlowStates \cup StmtStates]
        /\ pc'[t] = outcome /\ pc'[h] = "granted"
        /\ \A u \in Tasks : u # t /\ u # h => pc'[u] = pc[u]
    BY <2>1, <2>2 DEF TypeOK, FlowStates
  <2>4. \A u \in Tasks : HasTurn(u)' <=> u = h
    BY <1>1, <2>2, <2>3 DEF HasTurn
  <2>5. OneTurn' /\ NoIdleWait'
    BY <1>1, <2>1, <2>2, <2>4 DEF OneTurn, NoIdleWait
  <2>6. \A i \in 1..Len(waiters') : waiters'[i] \in Tasks
    BY <2>2, ElementOfSeq
  <2>7. QueueInv'
    BY <1>1, <2>2, <2>3, <2>6 DEF QueueInv
  <2>8. QED  BY <2>1, <2>2, <2>3, <2>5, <2>7 DEF TypeOK
<1>4. QED  BY <1>2, <1>3

-----------------------------------------------------------------------------
(* The fresh gate satisfies the invariant.                                 *)
LEMMA GateInvInit == Init => GateInv
<1> SUFFICES ASSUME Init PROVE GateInv
  OBVIOUS
<1>1. TypeOK
  <2>1. waiters \in Seq(Tasks) /\ taken \in BOOLEAN
    BY EmptySeq DEF Init
  <2>2. pc \in [Tasks -> FlowStates \cup StmtStates]
    <3>1. "idle" \in FlowStates \cup StmtStates
      BY DEF FlowStates
    <3>2. QED  BY <3>1 DEF Init
  <2>3. inTx \in [Flows -> BOOLEAN] /\ ranIn \in [Stmts -> Flows \cup {None}]
    BY DEF Init
  <2>4. QED  BY <2>1, <2>2, <2>3 DEF Init, TypeOK
<1>2. HolderInv
  BY GateAssumption DEF Init, HolderInv, StmtStates, Tasks
<1>3. OneTurn
  BY GateAssumption DEF Init, OneTurn, HasTurn, Tasks
<1>4. QueueInv /\ NoIdleWait /\ NoForeignStatement
  BY GateAssumption DEF Init, QueueInv, NoIdleWait, NoForeignStatement
<1>5. QED  BY <1>1, <1>2, <1>3, <1>4 DEF GateInv

(* Joining the queue of a taken gate, the last clause of begin and run.    *)
LEMMA JoinQueue ==
    ASSUME GateInv, NEW t \in Tasks, pc[t] = "idle", taken,
           waiters' = Append(waiters, t), pc' = [pc EXCEPT ![t] = "waiting"],
           UNCHANGED <<taken, holder>>
    PROVE  /\ waiters' \in Seq(Tasks)
           /\ pc' \in [Tasks -> FlowStates \cup StmtStates]
           /\ QueueInv' /\ OneTurn' /\ NoIdleWait'
<1> USE DEF GateInv
<1>1. /\ waiters \in Seq(Tasks) /\ Len(waiters) \in Nat
      /\ \A i \in 1..Len(waiters) : waiters[i] \in Tasks
  BY ElementOfSeq DEF TypeOK
<1>2. /\ waiters' \in Seq(Tasks) /\ Len(waiters') = Len(waiters) + 1
      /\ \A i \in 1..Len(waiters) : waiters'[i] = waiters[i]
      /\ waiters'[Len(waiters) + 1] = t
  BY <1>1, AppendProperties
<1>3. /\ pc' \in [Tasks -> FlowStates \cup StmtStates]
      /\ pc'[t] = "waiting"
      /\ \A u \in Tasks : u # t => pc'[u] = pc[u]
  BY DEF TypeOK, FlowStates
<1>4. \A i \in 1..Len(waiters) : waiters[i] # t
  BY DEF QueueInv
<1>5. QueueInv'
  <2>1. \A i \in 1..Len(waiters') : i \in 1..Len(waiters) \/ i = Len(waiters) + 1
    BY <1>1, <1>2
  <2>2. \A i \in 1..Len(waiters') : pc'[waiters'[i]] = "waiting"
    BY <2>1, <1>1, <1>2, <1>3 DEF QueueInv
  <2>3. \A i, j \in 1..Len(waiters') : waiters'[i] = waiters'[j] => i = j
    BY <2>1, <1>1, <1>2, <1>4 DEF QueueInv
  <2>4. QED  BY <2>2, <2>3 DEF QueueInv
<1>6. \A u \in Tasks : HasTurn(u)' <=> HasTurn(u)
  BY <1>3 DEF HasTurn
<1>7. OneTurn' /\ NoIdleWait'
  BY <1>6 DEF OneTurn, NoIdleWait
<1>8. QED  BY <1>2, <1>3, <1>5, <1>7

(* The flow that ends gives the turn back: it is the holder.               *)
LEMMA EndTurnSafe ==
    ASSUME GateInv, NEW f \in Flows, holder = f, NEW outcome \in {"done", "failed"},
           EndTurn(f, outcome)
    PROVE  /\ taken' \in BOOLEAN /\ holder' = None
           /\ waiters' \in Seq(Tasks)
           /\ pc' \in [Tasks -> FlowStates \cup StmtStates]
           /\ pc'[f] = outcome
           /\ \A u \in Tasks : u # f =>
                 pc'[u] = pc[u] \/ (pc[u] = "waiting" /\ pc'[u] = "granted")
           /\ QueueInv' /\ OneTurn' /\ NoIdleWait'
<1>1. holder' = None /\ PassTurn(f, outcome)
  BY DEF EndTurn
<1>2. f \in Tasks /\ HasTurn(f)
  BY DEF Tasks, HasTurn
<1>3. outcome \in (FlowStates \cup StmtStates) \ {"waiting", "granted"}
  BY DEF FlowStates
<1>4. QED  BY <1>1, <1>2, <1>3, PassTurnSafe

-----------------------------------------------------------------------------
(* The parts of GateInv that speak of the transactions, after a step in    *)
(* which only f moves and the head of the queue may be granted its turn.   *)
LEMMA HolderAfterEnd ==
    ASSUME GateInv, NEW f \in Flows, holder = f, NEW outcome \in {"done", "failed"},
           EndTurn(f, outcome), dbTx # f, dbTx' = dbTx,
           inTx' = [inTx EXCEPT ![f] = FALSE], ranIn' = ranIn
    PROVE  GateInv'
<1> USE DEF GateInv
<1>1. /\ taken' \in BOOLEAN /\ holder' = None
      /\ waiters' \in Seq(Tasks)
      /\ pc' \in [Tasks -> FlowStates \cup StmtStates]
      /\ pc'[f] = outcome
      /\ \A u \in Tasks : u # f =>
            pc'[u] = pc[u] \/ (pc[u] = "waiting" /\ pc'[u] = "granted")
      /\ QueueInv' /\ OneTurn' /\ NoIdleWait'
  BY EndTurnSafe
<1>2. \A g \in Flows : g # f =>
         pc[g] \notin {"turn", "body", "ending"} /\ pc'[g] \notin {"turn", "body", "ending"}
  BY <1>1 DEF HolderInv, Tasks
<1>3. HolderInv'
  <2>1. \A g \in Flows : (holder = g <=> pc[g] \in {"turn", "body", "ending"})'
    BY <1>1, <1>2, GateAssumption DEF Tasks
  <2>2. \A g \in Flows : (inTx[g] <=> pc[g] \in {"body", "ending"})'
    BY <1>1, <1>2 DEF HolderInv, TypeOK
  <2>3. \A g \in Flows : (dbTx = g <=> pc[g] = "body")'
    BY <1>1, <1>2 DEF HolderInv
  <2>4. \A s \in Stmts : pc'[s] \in StmtStates
    BY <1>1, GateAssumption DEF HolderInv, Tasks, StmtStates
  <2>5. QED  BY <2>1, <2>2, <2>3, <2>4 DEF HolderInv
<1>4. TypeOK' /\ NoForeignStatement'
  BY <1>1 DEF TypeOK, NoForeignStatement
<1>5. QED  BY <1>1, <1>3, <1>4

(* What a statement runs inside is its own transaction or none, when the   *)
(* gate lets it run.                                                       *)
LEMMA StatementFits ==
    ASSUME GateInv, NEW s \in Stmts, ~taken \/ HeldByFlowOf(s) \/ pc[s] = "granted"
    PROVE  dbTx \in Context(s) \cup {None}
<1> USE DEF GateInv
<1>1. dbTx # None => dbTx \in Flows /\ holder = dbTx
  BY DEF TypeOK, HolderInv
<1>2. CASE ~taken
  BY <1>1, <1>2 DEF OneTurn, HasTurn, Tasks
<1>3. CASE HeldByFlowOf(s)
  <2>1. holder \in Context(s) \/ holder = s
    BY <1>3 DEF HeldByFlowOf
  <2>2. QED  BY <1>1, <2>1, GateAssumption
<1>4. CASE pc[s] = "granted"
  <2>1. dbTx # None => HasTurn(dbTx) /\ HasTurn(s) /\ dbTx # s
    BY <1>1, <1>4, GateAssumption DEF HasTurn
  <2>2. QED  BY <1>1, <2>1 DEF OneTurn, Tasks
<1>5. QED  BY <1>2, <1>3, <1>4

(* Every step of the gate, its sessions and its callers keeps GateInv.     *)
LEMMA GateInvStep == GateInv /\ [Next]_vars => GateInv'
<1> SUFFICES ASSUME GateInv, [Next]_vars PROVE GateInv'
  OBVIOUS
<1> USE DEF GateInv
<1>0. /\ waiters \in Seq(Tasks) /\ Len(waiters) \in Nat
      /\ \A i \in 1..Len(waiters) : waiters[i] \in Tasks
      /\ \A i \in 1..Len(waiters) : pc[waiters[i]] = "waiting"
  BY ElementOfSeq DEF TypeOK, QueueInv
<1>1. ASSUME NEW f \in Flows, RequestBegin(f) PROVE GateInv'
  <2>1. f \in Tasks /\ f \notin Stmts /\ f # None /\ pc[f] = "idle"
        /\ UNCHANGED <<dbTx, inTx, ranIn>>
    BY <1>1, GateAssumption DEF RequestBegin, Tasks
  <2>2. CASE HeldByFlowOf(f)
    <3>1. UNCHANGED <<taken, holder, waiters>> /\ pc' = [pc EXCEPT ![f] = "refused"]
      BY <1>1, <2>2 DEF RequestBegin
    <3>2. HasTurn(f) = FALSE /\ \A t \in Tasks : HasTurn(t)' <=> HasTurn(t)
      BY <2>1, <3>1 DEF HasTurn, HolderInv, TypeOK
    <3>3. TypeOK' /\ NoForeignStatement'
      BY <2>1, <3>1 DEF TypeOK, FlowStates, NoForeignStatement
    <3>4. QueueInv' /\ OneTurn' /\ NoIdleWait'
      BY <1>0, <2>1, <3>1, <3>2 DEF QueueInv, OneTurn, NoIdleWait, TypeOK
    <3>5. HolderInv'
      BY <2>1, <3>1 DEF HolderInv, TypeOK, Tasks
    <3>6. QED  BY <3>3, <3>4, <3>5
  <2>3. CASE ~HeldByFlowOf(f) /\ taken
    <3>1. /\ waiters' = Append(waiters, f) /\ pc' = [pc EXCEPT ![f] = "waiting"]
          /\ UNCHANGED <<taken, holder>>
      BY <1>1, <2>3 DEF RequestBegin
    <3>2. /\ waiters' \in Seq(Tasks)
          /\ pc' \in [Tasks -> FlowStates \cup StmtStates]
          /\ QueueInv' /\ OneTurn' /\ NoIdleWait'
      BY <2>1, <2>3, <3>1, JoinQueue
    <3>3. HolderInv'
      BY <2>1, <3>1 DEF HolderInv, TypeOK, Tasks
    <3>4. QED  BY <2>1, <3>1, <3>2, <3>3 DEF TypeOK, NoForeignStatement
  <2>4. CASE ~HeldByFlowOf(f) /\ ~taken
    <3>1. /\ taken' = TRUE /\ holder' = f /\ waiters' = waiters
          /\ pc' = [pc EXCEPT ![f] = "turn"]
      BY <1>1, <2>4 DEF RequestBegin
    <3>2. \A t \in Tasks : ~HasTurn(t)
      BY <2>4 DEF OneTurn
    <3>3. \A t \in Tasks : HasTurn(t)' <=> t = f
      BY <2>1, <3>1, <3>2 DEF HasTurn, TypeOK
    <3>4. TypeOK' /\ NoForeignStatement'
      BY <2>1, <3>1 DEF TypeOK, FlowStates, NoForeignStatement
    <3>5. QueueInv' /\ OneTurn' /\ NoIdleWait'
      BY <1>0, <2>1, <2>4, <3>1, <3>3 DEF QueueInv, OneTurn, NoIdleWait, TypeOK
    <3>6. holder = None
      BY <3>2 DEF HasTurn, TypeOK, Tasks
    <3>7. HolderInv'
      BY <2>1, <3>1, <3>6, GateAssumption DEF HolderInv, TypeOK, Tasks
    <3>8. QED  BY <3>4, <3>5, <3>7
  <2>5. QED  BY <2>2, <2>3, <2>4
<1>2. ASSUME NEW f \in Flows, ResumeBegin(f) PROVE GateInv'
  <2>1. /\ f \in Tasks /\ f \notin Stmts /\ f # None /\ pc[f] = "granted"
        /\ holder' = f /\ pc' = [pc EXCEPT ![f] = "turn"]
        /\ UNCHANGED <<taken, waiters, dbTx, inTx, ranIn>>
    BY <1>2, GateAssumption DEF ResumeBegin, Tasks
  <2>2. taken /\ \A t \in Tasks : HasTurn(t) <=> t = f
    BY <2>1 DEF OneTurn, HasTurn
  <2>3. \A t \in Tasks : HasTurn(t)' <=> t = f
    BY <2>1, <2>2 DEF HasTurn, TypeOK
  <2>4. TypeOK' /\ NoForeignStatement'
    BY <2>1 DEF TypeOK, FlowStates, NoForeignStatement
  <2>5. QueueInv' /\ OneTurn' /\ NoIdleWait'
    BY <1>0, <2>1, <2>2, <2>3 DEF QueueInv, OneTurn, NoIdleWait, TypeOK
  <2>6. \A g \in Flows : g # f => holder # g
    BY <2>2 DEF HasTurn, Tasks
  <2>7. HolderInv'
    BY <2>1, <2>6, GateAssumption DEF HolderInv, TypeOK, Tasks
  <2>8. QED  BY <2>4, <2>5, <2>7
<1>3. ASSUME NEW f \in Flows, ExecBegin(f) PROVE GateInv'
  <2>1. f \in Tasks /\ f \notin Stmts /\ f # None /\ pc[f] = "turn"
        /\ holder = f /\ dbTx # f /\ inTx[f] = FALSE /\ ranIn' = ranIn
    BY <1>3, GateAssumption DEF ExecBegin, HolderInv, Tasks, TypeOK
  <2>2. CASE /\ dbTx = None /\ dbTx' = f
             /\ inTx' = [inTx EXCEPT ![f] = TRUE] /\ pc' = [pc EXCEPT ![f] = "body"]
             /\ UNCHANGED <<taken, holder, waiters>>
    <3>1. \A t \in Tasks : HasTurn(t)' <=> HasTurn(t)
      BY <2>1, <2>2 DEF HasTurn, TypeOK
    <3>2. TypeOK' /\ NoForeignStatement'
      BY <2>1, <2>2 DEF TypeOK, FlowStates, NoForeignStatement
    <3>3. QueueInv' /\ OneTurn' /\ NoIdleWait'
      BY <1>0, <2>1, <2>2, <3>1 DEF QueueInv, OneTurn, NoIdleWait, TypeOK
    <3>4. HolderInv'
      BY <2>1, <2>2, GateAssumption DEF HolderInv, TypeOK, Tasks
    <3>5. QED  BY <3>2, <3>3, <3>4
  <2>3. CASE EndTurn(f, "failed") /\ UNCHANGED <<dbTx, inTx>>
    <3>1. inTx' = [inTx EXCEPT ![f] = FALSE]
      BY <2>1, <2>3 DEF TypeOK
    <3>2. QED  BY <2>1, <2>3, <3>1, HolderAfterEnd
  <2>4. QED  BY <1>3, <2>2, <2>3 DEF ExecBegin
<1>4. ASSUME NEW f \in Flows, ExecEnd(f) PROVE GateInv'
  <2>1. /\ f \in Tasks /\ f \notin Stmts /\ f # None /\ pc[f] = "body"
        /\ dbTx' = None /\ pc' = [pc EXCEPT ![f] = "ending"]
        /\ UNCHANGED <<taken, holder, waiters, inTx, ranIn>>
    BY <1>4, GateAssumption DEF ExecEnd, Tasks
  <2>2. \A t \in Tasks : HasTurn(t)' <=> HasTurn(t)
    BY <2>1 DEF HasTurn, TypeOK
  <2>3. TypeOK' /\ NoForeignStatement'
    BY <2>1 DEF TypeOK, FlowStates, NoForeignStatement
  <2>4. QueueInv' /\ OneTurn' /\ NoIdleWait'
    BY <1>0, <2>1, <2>2 DEF QueueInv, OneTurn, NoIdleWait, TypeOK
  <2>5. HolderInv'
    BY <2>1, GateAssumption DEF HolderInv, TypeOK, Tasks
  <2>6. QED  BY <2>3, <2>4, <2>5
<1>5. ASSUME NEW f \in Flows, FinishEnd(f) PROVE GateInv'
  <2>1. holder = f /\ dbTx # f
    BY <1>5 DEF FinishEnd, HolderInv
  <2>2. QED  BY <1>5, <2>1, HolderAfterEnd DEF FinishEnd
<1>6. ASSUME NEW s \in Stmts, RunStatement(s) PROVE GateInv'
  <2>1. s \in Tasks /\ s \notin Flows /\ pc[s] = "idle"
        /\ UNCHANGED <<taken, holder, dbTx, inTx>>
    BY <1>6, GateAssumption DEF RunStatement, Tasks
  <2>2. CASE ~taken \/ HeldByFlowOf(s)
    <3>1. /\ ranIn' = [ranIn EXCEPT ![s] = dbTx] /\ pc' = [pc EXCEPT ![s] = "done"]
          /\ waiters' = waiters
      BY <1>6, <2>2 DEF RunStatement
    <3>2. \A t \in Tasks : HasTurn(t)' <=> HasTurn(t)
      BY <2>1, <3>1 DEF HasTurn, TypeOK
    <3>3. TypeOK'
      BY <2>1, <3>1 DEF TypeOK, FlowStates
    <3>4. NoForeignStatement'
      BY <2>2, <3>1, StatementFits DEF NoForeignStatement, TypeOK
    <3>5. QueueInv' /\ OneTurn' /\ NoIdleWait'
      BY <1>0, <2>1, <3>1, <3>2 DEF QueueInv, OneTurn, NoIdleWait, TypeOK
    <3>6. HolderInv'
      BY <2>1, <3>1 DEF HolderInv, TypeOK, Tasks, StmtStates
    <3>7. QED  BY <3>3, <3>4, <3>5, <3>6
  <2>3. CASE taken /\ ~HeldByFlowOf(s)
    <3>1. /\ waiters' = Append(waiters, s) /\ pc' = [pc EXCEPT ![s] = "waiting"]
          /\ ranIn' = ranIn
      BY <1>6, <2>3 DEF RunStatement
    <3>2. /\ waiters' \in Seq(Tasks)
          /\ pc' \in [Tasks -> FlowStates \cup StmtStates]
          /\ QueueInv' /\ OneTurn' /\ NoIdleWait'
      BY <2>1, <2>3, <3>1, JoinQueue
    <3>3. HolderInv'
      BY <2>1, <3>1 DEF HolderInv, TypeOK, Tasks, StmtStates
    <3>4. QED  BY <2>1, <3>1, <3>2, <3>3 DEF TypeOK, NoForeignStatement
  <2>4. QED  BY <2>2, <2>3
<1>7. ASSUME NEW s \in Stmts, ResumeStatement(s) PROVE GateInv'
  <2>1. /\ s \in Tasks /\ s \notin Flows /\ pc[s] = "granted"
        /\ ranIn' = [ranIn EXCEPT ![s] = dbTx] /\ PassTurn(s, "done")
        /\ UNCHANGED <<holder, dbTx, inTx>>
    BY <1>7, GateAssumption DEF ResumeStatement, Tasks
  <2>2. HasTurn(s) /\ holder = None
    <3>1. \A f \in Flows : holder = f => HasTurn(f) /\ f \in Tasks
      BY DEF HasTurn, Tasks
    <3>2. QED  BY <2>1, <3>1 DEF OneTurn, HasTurn, TypeOK
  <2>3. "done" \in (FlowStates \cup StmtStates) \ {"waiting", "granted"}
    BY DEF FlowStates
  <2>4. /\ taken' \in BOOLEAN
        /\ waiters' \in Seq(Tasks)
        /\ pc' \in [Tasks -> FlowStates \cup StmtStates]
        /\ pc'[s] = "done"
        /\ \A u \in Tasks : u # s =>
              pc'[u] = pc[u] \/ (pc[u] = "waiting" /\ pc'[u] = "granted")
        /\ QueueInv' /\ OneTurn' /\ NoIdleWait'
    BY <2>1, <2>2, <2>3, PassTurnSafe
  <2>5. HolderInv'
    <3>1. ASSUME NEW f \in Flows
          PROVE  pc'[f] = pc[f] \/ (pc[f] = "waiting" /\ pc'[f] = "granted")
      BY <2>1, <2>4 DEF Tasks
    <3>2. \A u \in Stmts : pc'[u] \in StmtStates
      BY <2>1, <2>4 DEF HolderInv, Tasks, StmtStates
    <3>3. \A f \in Flows : (holder = f <=> pc[f] \in {"turn", "body", "ending"})'
      BY <2>1, <3>1 DEF HolderInv
    <3>4. \A f \in Flows : (inTx[f] <=> pc[f] \in {"body", "ending"})'
      BY <2>1, <3>1 DEF HolderInv
    <3>5. \A f \in Flows : (dbTx = f <=> pc[f] = "body")'
      BY <2>1, <3>1 DEF HolderInv
    <3>6. QED  BY <3>2, <3>3, <3>4, <3>5 DEF HolderInv
  <2>6. NoForeignStatement'
    BY <2>1, StatementFits DEF NoForeignStatement, TypeOK
  <2>7. TypeOK'
    BY <2>1, <2>4 DEF TypeOK
  <2>8. QED  BY <2>4, <2>5, <2>6, <2>7
<1>8. ASSUME NEW t \in Tasks, TimeOut(t) PROVE GateInv'
  <2>1. /\ pc[t] = "waiting" /\ pc' = [pc EXCEPT ![t] = "timedout"]
        /\ UNCHANGED <<taken, holder, dbTx, inTx, ranIn>>
    BY <1>8 DEF TimeOut
  <2>2. PICK i \in 1..Len(waiters) : waiters[i] = t /\ waiters' = RemoveAt(waiters, i)
    BY <1>8 DEF TimeOut
  <2>3. /\ waiters' \in Seq(Tasks) /\ Len(waiters') = Len(waiters) - 1
        /\ \A j \in 1..(Len(waiters) - 1) :
              waiters'[j] = IF j < i THEN waiters[j] ELSE waiters[j + 1]
    BY <1>0, <2>2, RemoveAtFacts
  <2> DEFINE from(j) == IF j < i THEN j ELSE j + 1
  <2>4. \A j \in 1..Len(waiters') :
           from(j) \in 1..Len(waiters) /\ from(j) # i /\ waiters'[j] = waiters[from(j)]
    BY <1>0, <2>3
  <2>5. \A j, k \in 1..Len(waiters') : from(j) = from(k) => j = k
    BY <1>0, <2>3
  <2> HIDE DEF from
  <2>6. \A u \in Tasks : u # t => pc'[u] = pc[u]
    BY <2>1 DEF TypeOK
  <2>7. QueueInv'
    <3>1. ASSUME NEW j \in 1..Len(waiters')
          PROVE  waiters'[j] \in Tasks /\ waiters'[j] # t
      <4>1. from(j) \in 1..Len(waiters) /\ from(j) # i /\ waiters'[j] = waiters[from(j)]
        BY <2>4
      <4>2. waiters[from(j)] # waiters[i]
        BY <2>2, <4>1 DEF QueueInv
      <4>3. QED  BY <1>0, <2>2, <4>1, <4>2
    <3>2. \A j \in 1..Len(waiters') : pc'[waiters'[j]] = "waiting"
      <4>1. \A j \in 1..Len(waiters') : pc[waiters'[j]] = "waiting"
        BY <1>0, <2>4
      <4>2. QED  BY <2>6, <3>1, <4>1
    <3>3. \A j, k \in 1..Len(waiters') : waiters'[j] = waiters'[k] => j = k
      BY <2>4, <2>5 DEF QueueInv
    <3>4. QED  BY <3>2, <3>3 DEF QueueInv
  <2>8. \A u \in Tasks : HasTurn(u)' <=> HasTurn(u)
    BY <2>1 DEF HasTurn, TypeOK
  <2>9. OneTurn' /\ NoIdleWait'
    <3>1. waiters # <<>>
      BY <1>0, <2>2
    <3>2. QED  BY <2>1, <2>8, <3>1 DEF OneTurn, NoIdleWait
  <2>10. TypeOK' /\ NoForeignStatement'
    BY <2>1, <2>3 DEF TypeOK, FlowStates, NoForeignStatement
  <2>11. HolderInv'
    BY <2>1 DEF HolderInv, TypeOK, Tasks, StmtStates
  <2>12. QED  BY <2>7, <2>9, <2>10, <2>11
<1>9. ASSUME NEW f \in Flows, EndAgain(f) PROVE GateInv'
  <2>1. /\ f \in Tasks /\ f \notin Stmts /\ pc[f] \in {"done", "failed", "refused", "timedout"}
        /\ pc' = [pc EXCEPT ![f] = IF pc[f] = "done" THEN "closed" ELSE "left"]
        /\ dbTx' = dbTx /\ UNCHANGED <<taken, holder, waiters, inTx, ranIn>>
    BY <1>9, GateAssumption DEF EndAgain, HolderInv, Tasks
  <2>2. \A t \in Tasks : HasTurn(t)' <=> HasTurn(t)
    BY <2>1 DEF HasTurn, TypeOK
  <2>3. TypeOK' /\ NoForeignStatement'
    BY <2>1 DEF TypeOK, FlowStates, NoForeignStatement
  <2>4. QueueInv' /\ OneTurn' /\ NoIdleWait'
    BY <1>0, <2>1, <2>2 DEF QueueInv, OneTurn, NoIdleWait, TypeOK
  <2>5. HolderInv'
    BY <2>1, GateAssumption DEF HolderInv, TypeOK, Tasks
  <2>6. QED  BY <2>3, <2>4, <2>5
<1>10. ASSUME UNCHANGED vars PROVE GateInv'
  BY <1>10 DEF vars, TypeOK, QueueInv, HolderInv, OneTurn, HasTurn, NoIdleWait,
              NoForeignStatement
<1>11. QED
  BY <1>1, <1>2, <1>3, <1>4, <1>5, <1>6, <1>7, <1>8, <1>9, <1>10 DEF Next

(* The gate invariant holds throughout. *)
LEMMA GateInvAlways == Spec => []GateInv
BY GateInvInit, GateInvStep, PTL DEF Spec

(* Every variable keeps its type, holder and dbTx included: only a         *)
(* transaction ever holds the connection.                                  *)
THEOREM TypeCorrect == Spec => []TypeOK
BY GateInvAlways, PTL DEF GateInv

(* The turn is neither lost nor given twice, whatever transactions and     *)
(* statements share the gate, in whatever order they time out              *)
(* (SqliteTransactionGate.passTurn, waitForTurn and end).                  *)
THEOREM TurnIsUnique == Spec => [](OneTurn /\ NoIdleWait)
BY GateInvAlways, PTL DEF GateInv

(* The transaction open on the handle is the one that holds the gate       *)
(* (SqliteDataSource.startTransaction, commit and rollback).               *)
THEOREM OpenTransactionHolds == Spec => []OpenHoldsTurn
<1>1. GateInv => OpenHoldsTurn
  BY DEF GateInv, TypeOK, HolderInv, OpenHoldsTurn
<1>2. QED  BY <1>1, GateInvAlways, PTL

(* Both at once, as the model-checked instance states them.                *)
THEOREM TurnsStaySound == Spec => []TurnsAreSound
<1>1. TurnsAreSound <=> TypeOK /\ (OneTurn /\ NoIdleWait) /\ OpenHoldsTurn
  BY DEF TurnsAreSound
<1>2. QED  BY <1>1, TypeCorrect, TurnIsUnique, OpenTransactionHolds, PTL

(* No statement ever runs inside another flow's transaction                *)
(* (SqliteTransactionGate.run).                                            *)
THEOREM StatementsStayOutside == Spec => []NoForeignStatement
BY GateInvAlways, PTL DEF GateInv

-----------------------------------------------------------------------------
(* Whoever asked for the connection did so from flows that had begun. That *)
(* is why a flow granted its turn cannot find its own work in the queue.   *)
Begun == {"body", "ending", "done", "closed"}
ContextInv ==
    \A t \in Tasks : pc[t] # "idle" =>
        \A h \in Context(t) : pc[h] \in Begun

(* What one step may do to the program counters.                           *)
LEMMA CountersStep ==
    ASSUME GateInv, [Next]_vars
    PROVE  /\ \A f \in Flows : pc[f] \in Begun => pc'[f] \in Begun
           /\ \A f \in Flows : pc[f] = "idle" /\ pc'[f] # "idle" => Started(Outer[f])
           /\ \A s \in Stmts : pc[s] = "idle" /\ pc'[s] # "idle" => Started(FlowOf[s])
<1> DEFINE Fine ==
      /\ \A f \in Flows : pc[f] \in Begun => pc'[f] \in Begun
      /\ \A f \in Flows : pc[f] = "idle" /\ pc'[f] # "idle" => Started(Outer[f])
      /\ \A s \in Stmts : pc[s] = "idle" /\ pc'[s] # "idle" => Started(FlowOf[s])
<1>0. /\ pc \in [Tasks -> FlowStates \cup StmtStates]
      /\ \A f \in Flows : f \in Tasks /\ f \notin Stmts /\ f # None
      /\ \A s \in Stmts : s \in Tasks /\ s \notin Flows /\ s # None
      /\ waiters # <<>> => Head(waiters) \in Tasks /\ pc[Head(waiters)] = "waiting"
  BY GateAssumption, QueueAfterTail DEF GateInv, TypeOK, Tasks
<1>1. ASSUME NEW t \in Tasks, NEW outcome, PassTurn(t, outcome)
      PROVE  \A u \in Tasks : u # t =>
                pc'[u] = pc[u] \/ (pc[u] = "waiting" /\ pc'[u] = "granted")
  BY <1>0, <1>1 DEF PassTurn
<1>2. ASSUME NEW f \in Flows, NEW outcome, EndTurn(f, outcome)
      PROVE  \A u \in Tasks : u # f =>
                pc'[u] = pc[u] \/ (pc[u] = "waiting" /\ pc'[u] = "granted")
  BY <1>0, <1>1, <1>2 DEF EndTurn
<1>3. ASSUME NEW f \in Flows, RequestBegin(f) PROVE Fine
  <2>1. /\ Started(Outer[f]) /\ pc[f] = "idle"
        /\ \A u \in Tasks : u # f => pc'[u] = pc[u]
    BY <1>0, <1>3 DEF RequestBegin
  <2>2. QED  BY <1>0, <2>1 DEF Begun
<1>4. ASSUME NEW f \in Flows, ResumeBegin(f) PROVE Fine
  <2>1. pc[f] = "granted" /\ \A u \in Tasks : u # f => pc'[u] = pc[u]
    BY <1>0, <1>4 DEF ResumeBegin
  <2>2. QED  BY <1>0, <2>1 DEF Begun
<1>5. ASSUME NEW f \in Flows, ExecBegin(f) PROVE Fine
  <2>1. pc[f] = "turn" /\ \A u \in Tasks : u # f =>
           pc'[u] = pc[u] \/ (pc[u] = "waiting" /\ pc'[u] = "granted")
    BY <1>0, <1>2, <1>5 DEF ExecBegin
  <2>2. QED  BY <1>0, <2>1 DEF Begun
<1>6. ASSUME NEW f \in Flows, ExecEnd(f) PROVE Fine
  <2>1. /\ pc[f] = "body" /\ pc'[f] = "ending"
        /\ \A u \in Tasks : u # f => pc'[u] = pc[u]
    BY <1>0, <1>6 DEF ExecEnd
  <2>2. QED  BY <1>0, <2>1 DEF Begun
<1>7. ASSUME NEW f \in Flows, FinishEnd(f) PROVE Fine
  <2>1. /\ pc[f] = "ending" /\ holder = f
    BY <1>7 DEF FinishEnd, GateInv, HolderInv
  <2>2. /\ pc'[f] = "done"
        /\ \A u \in Tasks : u # f =>
              pc'[u] = pc[u] \/ (pc[u] = "waiting" /\ pc'[u] = "granted")
    BY <1>7, <2>1, EndTurnSafe DEF FinishEnd
  <2>3. QED  BY <1>0, <2>1, <2>2 DEF Begun
<1>8. ASSUME NEW s \in Stmts, RunStatement(s) PROVE Fine
  <2>1. /\ Started(FlowOf[s]) /\ \A u \in Tasks : u # s => pc'[u] = pc[u]
    BY <1>0, <1>8 DEF RunStatement
  <2>2. QED  BY <1>0, <2>1 DEF Begun
<1>9. ASSUME NEW s \in Stmts, ResumeStatement(s) PROVE Fine
  <2>1. pc[s] = "granted" /\ \A u \in Tasks : u # s =>
           pc'[u] = pc[u] \/ (pc[u] = "waiting" /\ pc'[u] = "granted")
    BY <1>0, <1>1, <1>9 DEF ResumeStatement
  <2>2. QED  BY <1>0, <2>1 DEF Begun
<1>10. ASSUME NEW t \in Tasks, TimeOut(t) PROVE Fine
  <2>1. pc[t] = "waiting" /\ \A u \in Tasks : u # t => pc'[u] = pc[u]
    BY <1>0, <1>10 DEF TimeOut
  <2>2. QED  BY <1>0, <2>1 DEF Begun
<1>11. ASSUME NEW f \in Flows, EndAgain(f) PROVE Fine
  <2>1. /\ pc[f] \in Begun => pc'[f] \in Begun
        /\ pc[f] # "idle" /\ \A u \in Tasks : u # f => pc'[u] = pc[u]
    BY <1>0, <1>11 DEF EndAgain, Begun
  <2>2. QED  BY <1>0, <2>1
<1>12. ASSUME UNCHANGED vars PROVE Fine
  BY <1>12 DEF vars
<1>13. QED
  BY <1>3, <1>4, <1>5, <1>6, <1>7, <1>8, <1>9, <1>10, <1>11, <1>12 DEF Next

(* The contexts of open calls stay chains. *)
LEMMA ContextInvStep == GateInv /\ ContextInv /\ [Next]_vars => ContextInv'
<1> SUFFICES ASSUME GateInv, ContextInv, [Next]_vars,
                    NEW t \in Tasks, pc'[t] # "idle", NEW h \in Context(t)
             PROVE  pc'[h] \in Begun
  BY DEF ContextInv, Context, Chain
<1> DEFINE parent == IF t \in Flows THEN Outer[t] ELSE FlowOf[t]
<1>1. /\ parent \in Flows \cup {None} /\ Context(t) = Chain(parent)
      /\ h \in Flows /\ h \in {parent, Outer[parent]} /\ parent # None
  BY GateAssumption DEF Tasks, Context, Chain
<1>2. pc[h] \in Begun
  <2>1. CASE pc[t] # "idle"
    BY <2>1 DEF ContextInv
  <2>2. CASE pc[t] = "idle"
    <3>1. pc[parent] \in Begun
      BY <1>1, <2>2, CountersStep, GateAssumption DEF Tasks, Started, Begun
    <3>2. CASE h = parent
      BY <3>1, <3>2
    <3>3. CASE h = Outer[parent]
      <4>1. h \in Context(parent) /\ parent \in Tasks
        BY <1>1, <3>3, GateAssumption DEF Context, Chain, Tasks
      <4>2. QED  BY <3>1, <4>1 DEF ContextInv, Begun
    <3>4. QED  BY <1>1, <3>2, <3>3
  <2>3. QED  BY <2>1, <2>2
<1>3. QED  BY <1>1, <1>2, CountersStep

(* No step makes a call wait for itself. *)
LEMMA NoSelfWaitStep ==
    GateInv /\ ContextInv /\ NoSelfWait /\ [Next]_vars => NoSelfWait'
<1> SUFFICES ASSUME GateInv, ContextInv, NoSelfWait, [Next]_vars PROVE NoSelfWait'
  OBVIOUS
<1> DEFINE Other(h, t) == h # None => h \notin Context(t) \cup {t}
<1>0. /\ waiters \in Seq(Tasks) /\ Len(waiters) \in Nat
      /\ \A i \in 1..Len(waiters) : waiters[i] \in Tasks /\ pc[waiters[i]] = "waiting"
      /\ \A i \in 1..Len(waiters) : Other(holder, waiters[i])
  BY ElementOfSeq DEF GateInv, TypeOK, QueueInv, NoSelfWait
<1> HIDE DEF Other
<1>a. ASSUME UNCHANGED <<waiters, holder>> PROVE NoSelfWait'
  BY <1>a DEF NoSelfWait, Context, Chain
<1>b. ASSUME holder' = None PROVE NoSelfWait'
  BY <1>b DEF NoSelfWait
<1>c. ASSUME NEW t \in Tasks, waiters' = Append(waiters, t), holder' = holder,
             ~HeldByFlowOf(t)
      PROVE  NoSelfWait'
  <2>1. Other(holder, t)
    BY <1>c DEF HeldByFlowOf, Other
  <2>2. \A i \in 1..Len(waiters') :
           waiters'[i] = t \/ (i \in 1..Len(waiters) /\ waiters'[i] = waiters[i])
    BY <1>0, <1>c, AppendProperties
  <2>3. \A i \in 1..Len(waiters') : Other(holder', waiters'[i])
    BY <1>0, <1>c, <2>1, <2>2
  <2>4. QED  BY <2>3 DEF NoSelfWait, Other, Context, Chain
<1>1. ASSUME NEW f \in Flows, RequestBegin(f) PROVE NoSelfWait'
  <2>1. CASE HeldByFlowOf(f)
    BY <1>1, <1>a, <2>1 DEF RequestBegin
  <2>2. CASE ~HeldByFlowOf(f) /\ taken
    BY <1>1, <1>c, <2>2 DEF RequestBegin, Tasks
  <2>3. CASE ~HeldByFlowOf(f) /\ ~taken
    BY <1>1, <2>3 DEF RequestBegin, GateInv, NoIdleWait, NoSelfWait
  <2>4. QED  BY <2>1, <2>2, <2>3
<1>2. ASSUME NEW f \in Flows, ResumeBegin(f) PROVE NoSelfWait'
  <2>1. holder' = f /\ pc[f] = "granted" /\ waiters' = waiters
    BY <1>2 DEF ResumeBegin
  <2>2. \A i \in 1..Len(waiters) : waiters[i] # f /\ f \notin Context(waiters[i])
    BY <1>0, <2>1 DEF ContextInv, Begun
  <2>3. QED  BY <2>1, <2>2 DEF NoSelfWait, Context, Chain
<1>3. ASSUME NEW f \in Flows, ExecBegin(f) PROVE NoSelfWait'
  BY <1>3, <1>a, <1>b DEF ExecBegin, EndTurn
<1>4. ASSUME NEW f \in Flows, ExecEnd(f) PROVE NoSelfWait'
  BY <1>4, <1>a DEF ExecEnd
<1>5. ASSUME NEW f \in Flows, FinishEnd(f) PROVE NoSelfWait'
  BY <1>5, <1>a, <1>b DEF FinishEnd, EndTurn
<1>6. ASSUME NEW s \in Stmts, RunStatement(s) PROVE NoSelfWait'
  BY <1>6, <1>a, <1>c DEF RunStatement, Tasks
<1>7. ASSUME NEW s \in Stmts, ResumeStatement(s) PROVE NoSelfWait'
  <2>1. pc[s] = "granted" /\ holder' = holder
    BY <1>7 DEF ResumeStatement
  <2>2. holder # None => holder \in Flows /\ HasTurn(holder) /\ HasTurn(s)
    BY <2>1 DEF GateInv, TypeOK, HasTurn
  <2>3. holder = None
    BY <2>2, GateAssumption DEF GateInv, OneTurn, Tasks
  <2>4. QED  BY <1>b, <2>1, <2>3
<1>8. ASSUME NEW t \in Tasks, TimeOut(t) PROVE NoSelfWait'
  <2>1. PICK i \in 1..Len(waiters) : waiters' = RemoveAt(waiters, i)
    BY <1>8 DEF TimeOut
  <2>2. /\ Len(waiters') = Len(waiters) - 1
        /\ \A j \in 1..(Len(waiters) - 1) :
              waiters'[j] = IF j < i THEN waiters[j] ELSE waiters[j + 1]
    BY <1>0, <2>1, RemoveAtFacts
  <2>3. \A j \in 1..Len(waiters') : Other(holder, waiters'[j])
    BY <1>0, <2>2
  <2>4. holder' = holder
    BY <1>8 DEF TimeOut
  <2>5. QED  BY <2>3, <2>4 DEF NoSelfWait, Other, Context, Chain
<1>9. ASSUME NEW f \in Flows, EndAgain(f) PROVE NoSelfWait'
  BY <1>9, <1>a DEF EndAgain
<1>10. ASSUME UNCHANGED vars PROVE NoSelfWait'
  BY <1>10, <1>a DEF vars
<1>11. QED
  BY <1>1, <1>2, <1>3, <1>4, <1>5, <1>6, <1>7, <1>8, <1>9, <1>10 DEF Next

(* The transaction that holds the connection never queues behind itself:   *)
(* no statement or transaction of its own flow waits for it to end         *)
(* (SqliteTransactionGate.begin and run).                                  *)
THEOREM HolderNeverWaitsForItself == Spec => []NoSelfWait
<1>1. Init => ContextInv /\ NoSelfWait
  BY DEF Init, ContextInv, NoSelfWait
<1>2. GateInv /\ ContextInv /\ NoSelfWait /\ [Next]_vars => ContextInv' /\ NoSelfWait'
  BY ContextInvStep, NoSelfWaitStep
<1>3. QED  BY <1>1, <1>2, GateInvAlways, PTL DEF Spec

-----------------------------------------------------------------------------
(* The gate implements the line of SerialConnection. Who has the turn is   *)
(* at its head: GateInv says that there is one such task while the gate is *)
(* taken, so every step moves the line as its abstract action does.        *)

(* A list with one more element in front. *)
LEMMA InFront ==
    ASSUME NEW S, NEW h \in S, NEW w \in Seq(S), NEW l, l = <<h>> \o w
    PROVE  /\ l \in Seq(S) /\ l # <<>> /\ Head(l) = h /\ Tail(l) = w
           /\ Len(l) = Len(w) + 1 /\ l[1] = h
           /\ \A i \in 1 .. Len(w) : l[i + 1] = w[i]
           /\ \A e \in S : Append(l, e) = <<h>> \o Append(w, e)
<1>1. <<h>> \in Seq(S) /\ Len(<<h>>) = 1 /\ <<h>>[1] = h /\ Len(w) \in Nat
  OBVIOUS
<1>2. /\ l \in Seq(S) /\ Len(l) = Len(w) + 1
      /\ \A i \in 1 .. 1 + Len(w) : l[i] = IF i <= 1 THEN <<h>>[i] ELSE w[i - 1]
  BY <1>1, ConcatProperties
<1>3. l[1] = h /\ \A i \in 1 .. Len(w) : l[i + 1] = w[i]
  BY <1>1, <1>2
<1>4. l # <<>> /\ Head(l) = h
  BY <1>1, <1>2, <1>3
<1>5. PICK t : t = Tail(l)
  OBVIOUS
<1>6. t \in Seq(S) /\ Len(t) = Len(w) /\ \A i \in 1 .. Len(w) : t[i] = w[i]
  BY <1>1, <1>2, <1>3, <1>4, <1>5, HeadTailProperties
<1>7. t = w
  BY <1>6, SeqEqual
<1>8. \A e \in S : Append(l, e) = <<h>> \o Append(w, e)
  BY <1>1, ConcatAppend
<1>9. QED
  BY <1>2, <1>3, <1>4, <1>5, <1>7, <1>8

(* Leaving from behind the head. *)
LEMMA LeavesBehind ==
    ASSUME NEW S, NEW h \in S, NEW w \in Seq(S), NEW i \in 1 .. Len(w),
           NEW l, l = <<h>> \o w
    PROVE  RemoveAt(l, i + 1) = <<h>> \o RemoveAt(w, i)
<1>1. PICK v : v = RemoveAt(w, i)
  OBVIOUS
<1>2. PICK m : m = <<h>> \o v
  OBVIOUS
<1>3. PICK k : k = RemoveAt(l, i + 1)
  OBVIOUS
<1>4. /\ Len(w) \in Nat /\ v \in Seq(S) /\ Len(v) = Len(w) - 1
      /\ \A j \in 1 .. Len(w) - 1 : v[j] = IF j < i THEN w[j] ELSE w[j + 1]
  <2>1. /\ RemoveAt(w, i) \in Seq(S)
        /\ Len(RemoveAt(w, i)) = Len(w) - 1
        /\ \A j \in 1 .. (Len(w) - 1) :
              RemoveAt(w, i)[j] = IF j < i THEN w[j] ELSE w[j + 1]
    BY RemoveAtFacts
  <2>2. QED  BY <2>1, <1>1
<1>5. /\ l \in Seq(S) /\ Len(l) = Len(w) + 1 /\ l[1] = h
      /\ \A j \in 1 .. Len(w) : l[j + 1] = w[j]
  BY InFront
<1>6. /\ m \in Seq(S) /\ Len(m) = Len(v) + 1 /\ m[1] = h
      /\ \A j \in 1 .. Len(v) : m[j + 1] = v[j]
  BY <1>2, <1>4, InFront
<1>7. i + 1 \in 1 .. Len(l)
  BY <1>4, <1>5
<1>8. /\ k \in Seq(S) /\ Len(k) = Len(l) - 1
      /\ \A j \in 1 .. Len(l) - 1 : k[j] = IF j < i + 1 THEN l[j] ELSE l[j + 1]
  BY <1>3, <1>5, <1>7, RemoveAtFacts
<1>9. ASSUME NEW j \in 1 .. Len(w) PROVE k[j] = m[j]
  <2>1. CASE j = 1
    BY <2>1, <1>4, <1>5, <1>6, <1>8
  <2>2. CASE j # 1
    <3>1. PICK n \in 1 .. Len(v) : j = n + 1
      BY <2>2, <1>4
    <3>2. m[j] = v[n]
      BY <3>1, <1>6
    <3>3. CASE n < i
      BY <3>1, <3>2, <3>3, <1>4, <1>5, <1>8
    <3>4. CASE ~(n < i)
      <4>1. v[n] = w[n + 1] /\ n + 1 \in 1 .. Len(w) /\ ~(j < i + 1)
        BY <3>1, <3>4, <1>4
      <4>2. l[j + 1] = w[n + 1]
        BY <3>1, <4>1, <1>5
      <4>3. k[j] = l[j + 1]
        BY <4>1, <1>4, <1>5, <1>8
      <4>4. QED  BY <3>2, <4>1, <4>2, <4>3
    <3>5. QED  BY <3>3, <3>4
  <2>3. QED  BY <2>1, <2>2
<1>10. Len(k) = Len(w) /\ Len(m) = Len(w)
  BY <1>4, <1>5, <1>6, <1>8
<1>11. k = m
  BY <1>6, <1>8, <1>9, <1>10, SeqEqual
<1>12. QED
  BY <1>1, <1>2, <1>3, <1>11

(* The line of a gate that is taken begins with the task whose turn it is. *)
LineStands ==
    /\ \A t \in Tasks : HasTurn(t) => taken /\ Line = <<t>> \o waiters
    /\ ~taken => Line = <<>> /\ waiters = <<>>
    /\ taken => \E t \in Tasks : HasTurn(t)

LEMMA LineIs == GateInv => LineStands
<1> SUFFICES ASSUME GateInv PROVE LineStands
  OBVIOUS
<1>1. ASSUME NEW t \in Tasks, HasTurn(t) PROVE taken /\ Line = <<t>> \o waiters
  <2>1. taken /\ \A u \in Tasks : HasTurn(u) => u = t
    BY <1>1 DEF GateInv, OneTurn
  <2>2. PICK c : c = CHOOSE u \in Tasks : HasTurn(u)
    OBVIOUS
  <2>3. c \in Tasks /\ HasTurn(c)
    BY <1>1, <2>2
  <2>4. c = t
    BY <2>1, <2>3
  <2>5. QED  BY <2>1, <2>2, <2>4 DEF Line
<1>2. ~taken => Line = <<>> /\ waiters = <<>>
  BY DEF GateInv, NoIdleWait, Line
<1>3. QED  BY <1>1, <1>2 DEF GateInv, OneTurn, LineStands

LEMMA LineNext == GateInv /\ [Next]_vars => LineStands /\ LineStands'
<1>1. GateInv => LineStands
  BY LineIs
<1>2. GateInv' => LineStands'
  BY LineIs, PTL
<1>3. QED  BY <1>1, <1>2, GateInvStep

(* The turn stays where it is and the queue as it is. *)
LEMMA LineStays ==
    ASSUME LineStands, LineStands', UNCHANGED <<taken, waiters>>,
           \A t \in Tasks : HasTurn(t)' <=> HasTurn(t)
    PROVE  Line' = Line
<1>1. CASE taken
  <2>1. PICK t \in Tasks : HasTurn(t)
    BY <1>1 DEF LineStands
  <2>2. Line = <<t>> \o waiters
    BY <2>1 DEF LineStands
  <2>3. Line' = <<t>> \o waiters'
    BY <2>1 DEF LineStands
  <2>4. QED  BY <2>2, <2>3
<1>2. CASE ~taken
  BY <1>2 DEF LineStands
<1>3. QED  BY <1>1, <1>2

(* A task that has not asked is not in the line. *)
LEMMA NotInLine ==
    ASSUME GateInv, LineStands, NEW t \in Tasks, pc[t] = "idle"
    PROVE  ~HasTurn(t) /\ ~Serial!InLine(t)
<1>1. ~HasTurn(t)
  BY GateAssumption DEF HasTurn, GateInv, HolderInv, TypeOK, Tasks
<1>2. CASE taken
  <2>1. PICK h \in Tasks : HasTurn(h)
    BY <1>2 DEF LineStands
  <2>2. PICK l : l = Line
    OBVIOUS
  <2>3. l = <<h>> \o waiters /\ waiters \in Seq(Tasks) /\ Len(waiters) \in Nat
    BY <2>1, <2>2 DEF LineStands, GateInv, TypeOK
  <2>4. /\ Len(l) = Len(waiters) + 1 /\ l[1] = h
        /\ \A i \in 1 .. Len(waiters) : l[i + 1] = waiters[i]
    BY <2>3, InFront
  <2>5. \A i \in 1 .. Len(waiters) : waiters[i] # t
    BY DEF GateInv, QueueInv
  <2>6. ASSUME NEW i \in 1 .. Len(l) PROVE l[i] # t
    <3>1. CASE i = 1
      BY <3>1, <2>1, <2>4, <1>1
    <3>2. CASE i # 1
      <4>1. i - 1 \in 1 .. Len(waiters) /\ (i - 1) + 1 = i
        BY <2>3, <2>4, <3>2
      <4>2. l[(i - 1) + 1] = waiters[i - 1]
        BY <4>1, <2>4
      <4>3. QED  BY <4>1, <4>2, <2>5
    <3>3. QED  BY <3>1, <3>2
  <2>7. QED  BY <1>1, <2>2, <2>6 DEF Serial!InLine
<1>3. CASE ~taken
  <2>1. Line = <<>>
    BY <1>3 DEF LineStands
  <2>2. QED  BY <1>1, <2>1 DEF Serial!InLine
<1>4. QED  BY <1>2, <1>3

(* Whoever has the turn is served. *)
LEMMA TurnIsServed ==
    ASSUME GateInv, LineStands, NEW t \in Tasks, HasTurn(t)
    PROVE  Serial!Served(t) /\ Tail(Line) = waiters
<1>1. PICK l : l = Line
  OBVIOUS
<1>2. l = <<t>> \o waiters /\ waiters \in Seq(Tasks)
  BY <1>1 DEF LineStands, GateInv, TypeOK
<1>3. l # <<>> /\ Head(l) = t /\ Tail(l) = waiters
  BY <1>2, InFront
<1>4. QED  BY <1>1, <1>3 DEF Serial!Served

(* A task joins at the end, behind whoever has the turn. *)
LEMMA LineJoined ==
    ASSUME GateInv, LineStands, LineStands', NEW t \in Tasks, pc[t] = "idle",
           taken, UNCHANGED taken, waiters' = Append(waiters, t),
           \A u \in Tasks : HasTurn(u)' <=> HasTurn(u)
    PROVE  ~Serial!InLine(t) /\ Line' = Append(Line, t)
<1>1. PICK h \in Tasks : HasTurn(h)
  BY DEF LineStands
<1>2. PICK l : l = Line
  OBVIOUS
<1>3. l = <<h>> \o waiters /\ waiters \in Seq(Tasks)
  BY <1>1, <1>2 DEF LineStands, GateInv, TypeOK
<1>4. Append(l, t) = <<h>> \o Append(waiters, t)
  BY <1>3, InFront
<1>5. Line' = <<h>> \o waiters'
  BY <1>1 DEF LineStands
<1>6. QED  BY <1>2, <1>4, <1>5, NotInLine

(* passTurn by whoever has the turn: the line moves up by one. *)
LEMMA LinePassed ==
    ASSUME GateInv, LineStands, LineStands', NEW t \in Tasks, HasTurn(t), NEW outcome,
           PassTurn(t, outcome)
    PROVE  Line' = Tail(Line)
<1>1. Tail(Line) = waiters
  BY TurnIsServed
<1>2. CASE waiters = <<>>
  <2>1. taken' = FALSE
    BY <1>2 DEF PassTurn
  <2>2. QED  BY <1>1, <1>2, <2>1 DEF LineStands
<1>3. CASE waiters # <<>>
  <2>1. PICK h : h = Head(waiters)
    OBVIOUS
  <2>2. h \in Tasks /\ waiters \in Seq(Tasks) /\ waiters' = Tail(waiters) /\ pc'[h] = "granted"
    BY <1>3, <2>1, QueueAfterTail DEF PassTurn, GateInv, TypeOK
  <2>3. HasTurn(h)'
    BY <2>2 DEF HasTurn
  <2>4. Line' = <<h>> \o waiters'
    BY <2>2, <2>3 DEF LineStands
  <2>5. <<h>> \o Tail(waiters) = waiters
    BY <1>3, <2>1, <2>2
  <2>6. QED  BY <1>1, <2>2, <2>4, <2>5
<1>4. QED  BY <1>2, <1>3

(* The timer of a waiter: it leaves from behind the head. *)
LEMMA LineLeft ==
    ASSUME GateInv, LineStands, LineStands', NEW i \in 1 .. Len(waiters),
           UNCHANGED taken, waiters' = RemoveAt(waiters, i),
           \A u \in Tasks : HasTurn(u)' <=> HasTurn(u)
    PROVE  /\ i + 1 \in 2 .. Len(Line) /\ Line[i + 1] = waiters[i]
           /\ Line' = RemoveAt(Line, i + 1)
<1>1. waiters \in Seq(Tasks) /\ Len(waiters) \in Nat /\ waiters # <<>>
  BY DEF GateInv, TypeOK
<1>2. PICK h \in Tasks : HasTurn(h)
  BY <1>1 DEF LineStands
<1>3. PICK l : l = Line
  OBVIOUS
<1>4. l = <<h>> \o waiters
  BY <1>2, <1>3 DEF LineStands
<1>5. /\ Len(l) = Len(waiters) + 1
      /\ \A j \in 1 .. Len(waiters) : l[j + 1] = waiters[j]
  BY <1>1, <1>4, InFront
<1>6. RemoveAt(l, i + 1) = <<h>> \o RemoveAt(waiters, i)
  BY <1>1, <1>4, LeavesBehind
<1>7. Line' = <<h>> \o waiters'
  BY <1>2 DEF LineStands
<1>8. i + 1 \in 2 .. Len(l) /\ l[i + 1] = waiters[i]
  BY <1>1, <1>5
<1>9. QED  BY <1>3, <1>6, <1>7, <1>8

(* Nothing is open on the handle when the one served has begun nothing.    *)
LEMMA NothingOpen ==
    ASSUME GateInv, NEW t \in Tasks, HasTurn(t), pc[t] # "body"
    PROVE  dbTx = None
<1>1. CASE dbTx # None
  <2>1. dbTx \in Flows /\ holder = dbTx /\ pc[dbTx] = "body"
    BY <1>1 DEF GateInv, TypeOK, HolderInv
  <2>2. dbTx = t
    BY <2>1 DEF GateInv, OneTurn, HasTurn, Tasks
  <2>3. QED  BY <2>1, <2>2
<1>2. QED  BY <1>1

(* The gate serves its callers as one line: transactions and statements    *)
(* take the connection in the order they asked, one at a time, and only    *)
(* the statements of the open transaction run without standing in it. A    *)
(* turn that is granted but not yet taken is nobody else's, and a failed   *)
(* BEGIN or a timer moves the line like a COMMIT or not at all.            *)
THEOREM GateImplementsSerial == Spec => ImplementsSerial
<1> DEFINE doneStmts == {s \in Stmts : pc[s] = "done"}
<1>1. Init => Serial!Init
  BY GateAssumption DEF Init, Serial!Init, Tasks, Line
<1>2. ASSUME GateInv, [Next]_vars PROVE [Serial!Next]_Serial!vars
  <2>0. /\ pc \in [Tasks -> FlowStates \cup StmtStates]
        /\ \A f \in Flows : f \in Tasks /\ f \notin Stmts /\ f # None
        /\ \A s \in Stmts : s \in Tasks /\ s \notin Flows /\ s # None /\ holder # s
        /\ waiters # <<>> => Head(waiters) \in Tasks /\ pc[Head(waiters)] = "waiting"
        /\ holder \in Flows \cup {None}
        /\ \A t, u \in Tasks : HasTurn(t) /\ HasTurn(u) => t = u
    BY <1>2, GateAssumption, QueueAfterTail DEF GateInv, TypeOK, Tasks, OneTurn
  <2>l. LineStands /\ LineStands'
    BY <1>2, LineNext
  <2>a. ASSUME UNCHANGED <<dbTx, Line>>, doneStmts' = doneStmts PROVE UNCHANGED Serial!vars
    BY <2>a DEF Serial!vars
  <2>b. ASSUME NEW t \in Tasks, NEW outcome, PassTurn(t, outcome)
        PROVE  /\ \A u \in Tasks : u # t =>
                     pc'[u] = pc[u] \/ (pc[u] = "waiting" /\ pc'[u] = "granted")
               /\ t \in Stmts => pc'[t] = outcome \/ pc'[t] = "granted"
    BY <2>0, <2>b DEF PassTurn
  <2>c. ASSUME \A s \in Stmts : pc'[s] = pc[s] \/ (pc[s] = "waiting" /\ pc'[s] = "granted")
        PROVE  doneStmts' = doneStmts
    BY <2>c
  <2>d. ASSUME NEW t \in Tasks, pc[t] = "idle", taken, UNCHANGED <<taken, holder, dbTx>>,
               waiters' = Append(waiters, t), pc' = [pc EXCEPT ![t] = "waiting"]
        PROVE  Serial!Next
    <3>1. \A u \in Tasks : HasTurn(u)' <=> HasTurn(u)
      BY <2>0, <2>d DEF HasTurn
    <3>2. ~Serial!InLine(t) /\ Line' = Append(Line, t)
      BY <1>2, <2>l, <2>d, <3>1, LineJoined
    <3>3. doneStmts' = doneStmts
      BY <2>0, <2>d
    <3>4. Serial!Arrive(t)
      BY <2>d, <3>2, <3>3 DEF Serial!Arrive
    <3>5. QED  BY <3>4 DEF Serial!Next, Tasks
  <2>e. ASSUME NEW f \in Flows, holder = f, pc[f] # "body", NEW outcome,
               EndTurn(f, outcome), UNCHANGED dbTx
        PROVE  Serial!Next
    <3>1. PassTurn(f, outcome) /\ HasTurn(f) /\ f \in Tasks
      BY <2>0, <2>e DEF EndTurn, HasTurn
    <3>2. Line' = Tail(Line)
      BY <1>2, <2>l, <3>1, LinePassed
    <3>3. Serial!Served(f) /\ dbTx = None
      BY <1>2, <2>e, <2>l, <3>1, TurnIsServed, NothingOpen
    <3>4. \A s \in Stmts : pc'[s] = pc[s] \/ (pc[s] = "waiting" /\ pc'[s] = "granted")
      BY <2>0, <2>b, <3>1
    <3>5. doneStmts' = doneStmts
      BY <2>c, <3>4
    <3>6. Serial!Depart(f)
      BY <2>e, <3>2, <3>3, <3>5 DEF Serial!Depart
    <3>7. QED  BY <3>6 DEF Serial!Next
  <2>1. ASSUME NEW f \in Flows, RequestBegin(f) PROVE [Serial!Next]_Serial!vars
    <3>1. CASE pc' = [pc EXCEPT ![f] = "refused"] /\ UNCHANGED <<taken, holder, waiters>>
      <4>1. \A u \in Tasks : HasTurn(u)' <=> HasTurn(u)
        BY <2>0, <2>1, <3>1 DEF HasTurn, RequestBegin
      <4>2. Line' = Line
        BY <2>l, <3>1, <4>1, LineStays
      <4>3. QED  BY <2>0, <2>1, <2>a, <2>c, <3>1, <4>2 DEF RequestBegin
    <3>2. CASE taken /\ waiters' = Append(waiters, f) /\ pc' = [pc EXCEPT ![f] = "waiting"]
               /\ UNCHANGED <<taken, holder>>
      BY <2>0, <2>1, <2>d, <3>2 DEF RequestBegin
    <3>3. CASE ~taken /\ taken' = TRUE /\ holder' = f /\ pc' = [pc EXCEPT ![f] = "turn"]
               /\ UNCHANGED waiters
      <4>1. Line = <<>> /\ waiters = <<>>
        BY <2>l, <3>3 DEF LineStands
      <4>2. HasTurn(f)'
        BY <3>3 DEF HasTurn
      <4>3. Line' = <<f>> \o waiters'
        BY <2>0, <2>l, <4>2 DEF LineStands
      <4>4. Line' = Append(Line, f)
        BY <3>3, <4>1, <4>3
      <4>5. ~Serial!InLine(f)
        BY <4>1 DEF Serial!InLine
      <4>6. doneStmts' = doneStmts
        BY <2>0, <3>3
      <4>7. Serial!Arrive(f)
        BY <2>1, <4>4, <4>5, <4>6 DEF Serial!Arrive, RequestBegin
      <4>8. QED  BY <4>7 DEF Serial!Next
    <3>4. QED  BY <2>1, <3>1, <3>2, <3>3 DEF RequestBegin
  <2>2. ASSUME NEW f \in Flows, ResumeBegin(f) PROVE UNCHANGED Serial!vars
    <3>1. /\ HasTurn(f) /\ holder' = f /\ pc' = [pc EXCEPT ![f] = "turn"]
          /\ UNCHANGED <<taken, waiters, dbTx>>
      BY <2>2 DEF ResumeBegin, HasTurn
    <3>2. \A u \in Tasks : HasTurn(u)' <=> HasTurn(u)
      BY <2>0, <3>1 DEF HasTurn
    <3>3. Line' = Line
      BY <2>l, <3>1, <3>2, LineStays
    <3>4. QED  BY <2>0, <2>a, <2>c, <3>1, <3>3
  <2>3. ASSUME NEW f \in Flows, ExecBegin(f) PROVE [Serial!Next]_Serial!vars
    <3>0. holder = f /\ HasTurn(f) /\ f \in Tasks
      BY <1>2, <2>0, <2>3 DEF ExecBegin, GateInv, HolderInv, HasTurn
    <3>1. CASE dbTx = None /\ dbTx' = f /\ pc' = [pc EXCEPT ![f] = "body"]
               /\ UNCHANGED <<taken, holder, waiters>>
      <4>1. \A u \in Tasks : HasTurn(u)' <=> HasTurn(u)
        BY <2>0, <2>3, <3>1 DEF HasTurn, ExecBegin
      <4>2. Line' = Line /\ Serial!Served(f)
        BY <1>2, <2>l, <3>0, <3>1, <4>1, LineStays, TurnIsServed
      <4>3. doneStmts' = doneStmts
        BY <2>0, <3>1
      <4>4. Serial!Open(f)
        BY <3>1, <4>2, <4>3 DEF Serial!Open
      <4>5. QED  BY <4>4 DEF Serial!Next
    <3>2. CASE EndTurn(f, "failed") /\ UNCHANGED dbTx
      <4>1. pc[f] # "body"
        BY <2>3 DEF ExecBegin
      <4>2. QED  BY <2>e, <3>0, <3>2, <4>1
    <3>3. QED  BY <2>3, <3>1, <3>2 DEF ExecBegin
  <2>4. ASSUME NEW f \in Flows, ExecEnd(f) PROVE Serial!Next
    <3>1. /\ dbTx = f /\ dbTx' = None /\ pc' = [pc EXCEPT ![f] = "ending"]
          /\ pc[f] = "body" /\ UNCHANGED <<taken, holder, waiters>>
      BY <1>2, <2>4 DEF ExecEnd, GateInv, HolderInv
    <3>2. doneStmts' = doneStmts
      BY <2>0, <3>1
    <3>3. \A u \in Tasks : HasTurn(u)' <=> HasTurn(u)
      BY <2>0, <3>1 DEF HasTurn
    <3>4. Line' = Line
      BY <2>l, <3>1, <3>3, LineStays
    <3>5. Serial!Close(f)
      BY <3>1, <3>2, <3>4 DEF Serial!Close
    <3>6. QED  BY <3>5 DEF Serial!Next
  <2>5. ASSUME NEW f \in Flows, FinishEnd(f) PROVE Serial!Next
    <3>1. holder = f /\ pc[f] # "body" /\ EndTurn(f, "done") /\ UNCHANGED dbTx
      BY <1>2, <2>5 DEF FinishEnd, GateInv, HolderInv
    <3>2. QED  BY <2>e, <3>1
  <2>6. ASSUME NEW s \in Stmts, RunStatement(s) PROVE Serial!Next
    <3>1. CASE (~taken \/ HeldByFlowOf(s)) /\ pc' = [pc EXCEPT ![s] = "done"]
               /\ UNCHANGED waiters
      <4>0. pc[s] = "idle" /\ UNCHANGED <<taken, holder, dbTx>>
        BY <2>6 DEF RunStatement
      <4>1. dbTx \in Context(s) \cup {None}
        BY <1>2, <3>1, StatementFits
      <4>2. ~Serial!InLine(s) /\ \A u \in Tasks : HasTurn(u)' <=> HasTurn(u)
        BY <1>2, <2>0, <2>l, <3>1, <4>0, NotInLine DEF HasTurn
      <4>3. Line' = Line
        BY <2>l, <3>1, <4>0, <4>2, LineStays
      <4>4. Line = <<>> \/ \E f \in Context(s) : Serial!Served(f)
        <5>1. CASE ~taken
          BY <2>l, <5>1 DEF LineStands
        <5>2. CASE HeldByFlowOf(s)
          <6>1. holder \in Context(s) /\ holder \in Flows
            BY <2>0, <5>2 DEF HeldByFlowOf
          <6>2. HasTurn(holder) /\ holder \in Tasks
            BY <2>0, <6>1 DEF HasTurn
          <6>3. Serial!Served(holder)
            BY <1>2, <2>l, <6>2, TurnIsServed
          <6>4. QED  BY <6>1, <6>3
        <5>3. QED  BY <3>1, <5>1, <5>2
      <4>5. doneStmts' = doneStmts \cup {s} /\ s \notin doneStmts
        BY <2>0, <3>1, <4>0
      <4>6. Serial!Execute(s)
        BY <4>0, <4>1, <4>2, <4>3, <4>4, <4>5 DEF Serial!Execute
      <4>7. QED  BY <4>6 DEF Serial!Next
    <3>2. CASE taken /\ waiters' = Append(waiters, s) /\ pc' = [pc EXCEPT ![s] = "waiting"]
      BY <2>0, <2>6, <2>d, <3>2 DEF RunStatement
    <3>3. QED  BY <2>6, <3>1, <3>2 DEF RunStatement
  <2>7. ASSUME NEW s \in Stmts, ResumeStatement(s) PROVE Serial!Next
    <3>1. pc[s] = "granted" /\ PassTurn(s, "done") /\ UNCHANGED dbTx /\ HasTurn(s) /\ s \in Tasks
      BY <2>0, <2>7 DEF ResumeStatement, HasTurn
    <3>2. Serial!Served(s) /\ dbTx = None
      BY <1>2, <2>l, <3>1, TurnIsServed, NothingOpen
    <3>3. Line' = Tail(Line)
      BY <1>2, <2>l, <3>1, LinePassed
    <3>4. pc'[s] = "done"
      BY <2>0, <3>1 DEF PassTurn
    <3>5. \A u \in Stmts : u # s => pc'[u] = pc[u] \/ (pc[u] = "waiting" /\ pc'[u] = "granted")
      BY <2>0, <2>b, <3>1
    <3>6. doneStmts' = doneStmts \cup {s} /\ s \notin doneStmts
      BY <3>1, <3>4, <3>5
    <3>7. Serial!Execute(s)
      BY <3>1, <3>2, <3>3, <3>6 DEF Serial!Execute
    <3>8. QED  BY <3>7 DEF Serial!Next
  <2>8. ASSUME NEW t \in Tasks, TimeOut(t) PROVE Serial!Next
    <3>1. /\ pc[t] = "waiting" /\ pc' = [pc EXCEPT ![t] = "timedout"]
          /\ UNCHANGED <<taken, holder, dbTx>>
      BY <2>8 DEF TimeOut
    <3>2. PICK i \in 1 .. Len(waiters) : waiters[i] = t /\ waiters' = RemoveAt(waiters, i)
      BY <2>8 DEF TimeOut
    <3>3. \A u \in Tasks : HasTurn(u)' <=> HasTurn(u)
      BY <2>0, <3>1 DEF HasTurn
    <3>4. /\ i + 1 \in 2 .. Len(Line) /\ Line[i + 1] = waiters[i]
          /\ Line' = RemoveAt(Line, i + 1)
      BY <1>2, <2>l, <3>1, <3>2, <3>3, LineLeft
    <3>5. doneStmts' = doneStmts
      BY <2>0, <3>1
    <3>6. PICK k : k = i + 1
      OBVIOUS
    <3>7. k \in 2 .. Len(Line) /\ Line[k] = t /\ Line' = RemoveAt(Line, k)
      BY <3>2, <3>4, <3>6
    <3>8. Line' = Serial!RemoveAt(Line, k)
      BY <3>7 DEF RemoveAt, Serial!RemoveAt
    <3>9. Serial!Leave(t)
      BY <3>1, <3>5, <3>7, <3>8 DEF Serial!Leave
    <3>10. QED  BY <3>9 DEF Serial!Next, Tasks
  <2>9. ASSUME NEW f \in Flows, EndAgain(f) PROVE UNCHANGED Serial!vars
    <3>1. /\ pc[f] \in {"done", "failed", "refused", "timedout"} /\ dbTx' = dbTx
          /\ pc' = [pc EXCEPT ![f] = IF pc[f] = "done" THEN "closed" ELSE "left"]
          /\ UNCHANGED <<taken, holder, waiters>>
      BY <1>2, <2>9 DEF EndAgain, GateInv, HolderInv
    <3>2. \A u \in Tasks : HasTurn(u)' <=> HasTurn(u)
      BY <2>0, <3>1 DEF HasTurn
    <3>3. Line' = Line
      BY <2>l, <3>1, <3>2, LineStays
    <3>4. doneStmts' = doneStmts
      BY <2>0, <3>1
    <3>5. QED  BY <2>a, <3>1, <3>3, <3>4
  <2>10. ASSUME UNCHANGED vars PROVE UNCHANGED Serial!vars
    BY <2>10 DEF vars, Serial!vars, Line, HasTurn
  <2>11. QED
    BY <1>2, <2>1, <2>2, <2>3, <2>4, <2>5, <2>6, <2>7, <2>8, <2>9, <2>10 DEF Next
<1>3. QED  BY <1>1, <1>2, GateInvAlways, PTL DEF Spec, ImplementsSerial, Serial!Spec

-----------------------------------------------------------------------------
(***************************************************************************)
(* Proofs about Migrations for any runners, calls and lists of migrations, *)
(* any number of faults and crashes, when calls do not overlap in the ways *)
(* the lock does not cover.                                                *)
(*                                                                         *)
(* A call works with the lock, or it is revertLast() whose lock is gone    *)
(* and then no other call is under way (LockHeld): so one call at most is  *)
(* between its decision and the end of its work, and what it read and      *)
(* decided can only be changed by its own steps.                           *)
(***************************************************************************)

(* A call that has taken the lock and is not done with it. *)
Holding(c) == stage[c] \in {"locked", "next", "running", "tracking", "releasing"}
Deciding(c) == stage[c] \in {"next", "running", "tracking"}

(* A call that took the lock has it, alone; only revertLast() works on     *)
(* without.                                                                *)
LockHeld ==
    /\ \A c \in Calls : Holding(c) => c \in lock \/ (Kind[c] = "revertLast" /\ Working(c))
    /\ \A c \in lock : Holding(c)
    /\ \A c, d \in lock : c = d
    /\ \A c, d \in Calls : Underway(c) /\ Underway(d) /\ c # d => Apart(c, d)

(* The list a call is to work on, and whether it is the runner's for now. *)
OwnListOf(c) == IF Given[c] = Absent THEN ListOf[RunnerOf[c]] ELSE Given[c]
Lending(c) == Underway(c) /\ Given[c] # Absent

(* A runner has its own list, but while run(list) is under way. *)
ListsInPlace ==
    /\ \A r \in Runners : \/ migrations[r] = ListOf[r]
                          \/ \E c \in Calls : RunnerOf[c] = r /\ Lending(c)
    /\ \A c \in Calls : Lending(c) => /\ migrations[RunnerOf[c]] = Given[c]
                                      /\ saved[c] = ListOf[RunnerOf[c]]
    /\ \A c \in Calls : ~Lending(c) => saved[c] = Absent

(* What a call works on is there, and from its list. *)
WorkAt(c) ==
    /\ Working(c) => todo[c] # <<>> /\ Head(todo[c]) \in ToSet(OwnListOf(c))
    /\ Deciding(c) /\ Up(c) => ToSet(todo[c]) \subseteq ToSet(OwnListOf(c))

(* The migration a call is at: its schema change is in place. *)
TrackAt(c) ==
    stage[c] = "tracking" /\ Head(todo[c]) \notin lost => (Up(c) <=> Head(todo[c]) \in applied)

OrphansLost == \A o \in orphans : o.name \in lost

MigrationsInv ==
    /\ MigrationsTypeOK
    /\ LockHeld
    /\ ListsInPlace
    /\ \A c \in Calls : WorkAt(c) /\ TrackAt(c)
    /\ OrphansLost
    /\ RecordsMatchSchema

Stages == {"idle", "waiting", "locked", "next", "running", "tracking", "releasing", "done",
           "crashed"}
Cut == [up : BOOLEAN, place : {"running", "tracking"}, name : Migration]

(* The constants, as they are used. *)
LEMMA ConstantsAre ==
    /\ ListOf \in [Runners -> Seq(Migration)] /\ RunnerOf \in [Calls -> Runners]
    /\ Kind \in [Calls -> {"run", "revertLast", "rollback"}]
    /\ Given \in [Calls -> Seq(Migration) \cup {Absent}]
    /\ \A c \in Calls : Given[c] # Absent => Kind[c] = "run"
    /\ Count \in [Calls -> Nat] /\ MaxFaults \in Nat /\ MaxCrashes \in Nat
    /\ Absent \notin Seq(Migration)
BY MigrationsAssumption

(* MigrationsTypeOK, part by part. *)
LEMMA TypesAre ==
    MigrationsTypeOK <=>
        /\ applied \subseteq Migration /\ lost \subseteq Migration
        /\ records \in Seq(Migration) /\ IsInjective(records)
        /\ lock \subseteq Calls
        /\ migrations \in [Runners -> Seq(Migration)]
        /\ saved \in [Calls -> Seq(Migration) \cup {Absent}]
        /\ stage \in [Calls -> Stages]
        /\ executed \in [Calls -> Seq(Migration)]
        /\ todo \in [Calls -> Seq(Migration)]
        /\ orphans \subseteq Cut
        /\ faults \in 0..MaxFaults /\ crashes \in 0..MaxCrashes
BY DEF MigrationsTypeOK, Stages, Cut

(* At most one call is between taking the lock and being done with it. *)
LEMMA OneHolder ==
    ASSUME LockHeld, NEW c \in Calls, NEW d \in Calls, Holding(c), Holding(d)
    PROVE  c = d
<1> SUFFICES ASSUME c # d PROVE FALSE
  OBVIOUS
<1>1. Underway(c) /\ Underway(d)
  BY DEF Holding, Underway
<1>2. Kind[c] # "revertLast" /\ Kind[d] # "revertLast"
  BY <1>1 DEF LockHeld, Apart
<1>3. c \in lock /\ d \in lock
  BY <1>2 DEF LockHeld
<1>4. QED
  BY <1>3 DEF LockHeld

(* Two calls never apply or revert at the same time. *)
LEMMA OneWorks == ASSUME LockHeld PROVE OneAtATime
BY OneHolder DEF OneAtATime, Holding, Working

(* While a call is under way its runner's list is the one it is to work on. *)
LEMMA ListUsed ==
    ASSUME LockHeld, ListsInPlace, NEW c \in Calls, Underway(c)
    PROVE  migrations[RunnerOf[c]] = OwnListOf(c)
<1>1. RunnerOf[c] \in Runners
  BY ConstantsAre
<1>2. CASE Given[c] # Absent
  BY <1>2 DEF ListsInPlace, Lending, OwnListOf
<1>3. CASE Given[c] = Absent
  <2>1. ASSUME NEW d \in Calls, RunnerOf[d] = RunnerOf[c], Lending(d) PROVE FALSE
    <3>1. c # d /\ Underway(d)
      BY <1>3, <2>1 DEF Lending
    <3>2. Apart(c, d)
      BY <3>1 DEF LockHeld
    <3>3. QED
      BY <2>1, <3>2 DEF Apart, Lending
  <2>2. QED
    BY <1>1, <1>3, <2>1 DEF ListsInPlace, OwnListOf
<1>4. QED
  BY <1>2, <1>3

-----------------------------------------------------------------------------
(* What rollback() and revertLast() choose: the last records, latest first. *)
LEMMA LatestFacts ==
    ASSUME NEW s \in Seq(Migration), IsInjective(s), NEW n \in Nat
    PROVE  /\ Latest(s, n) \in Seq(Migration) /\ IsInjective(Latest(s, n))
           /\ ToSet(Latest(s, n)) \subseteq ToSet(s)
           /\ \E pre \in Seq(Migration) : s = pre \o Reverse(Latest(s, n))
<1>1. Len(s) \in Nat
  BY LenProperties
<1>2. ASSUME NEW q \in Seq(Migration), IsInjective(q), ToSet(q) \subseteq ToSet(s),
             NEW pre \in Seq(Migration), s = pre \o q, Latest(s, n) = Reverse(q)
      PROVE  /\ Latest(s, n) \in Seq(Migration) /\ IsInjective(Latest(s, n))
             /\ ToSet(Latest(s, n)) \subseteq ToSet(s)
             /\ \E p \in Seq(Migration) : s = p \o Reverse(Latest(s, n))
  <2>1. Reverse(q) \in Seq(Migration) /\ ToSet(Reverse(q)) = ToSet(q) /\ IsInjective(Reverse(q))
    BY <1>2, ReverseFacts
  <2>2. Reverse(Reverse(q)) = q
    BY ReverseTwice
  <2>3. s = pre \o Reverse(Latest(s, n))
    BY <1>2, <2>2
  <2>4. QED
    BY <1>2, <2>1, <2>3
<1>3. CASE n = 0 \/ n >= Len(s)
  <2>1. Latest(s, n) = Reverse(s)
    BY <1>3 DEF Latest
  <2>2. <<>> \in Seq(Migration) /\ s = <<>> \o s
    BY EmptySeq, ConcatEmptySeq
  <2>3. QED
    BY <1>2, <2>1, <2>2
<1>4. CASE ~(n = 0 \/ n >= Len(s))
  <2>1. PICK k : k = Len(s) - n
    OBVIOUS
  <2>2. /\ k \in 0..Len(s) /\ k \in Nat /\ k + 1 = Len(s) - n + 1 /\ k + 1 \in 1..Len(s)
    BY <1>1, <1>4, <2>1
  <2>3. PICK q : q = SubSeq(s, k + 1, Len(s))
    OBVIOUS
  <2>4. Latest(s, n) = Reverse(q)
    BY <1>4, <2>2, <2>3 DEF Latest
  <2>5. PICK pre : pre = SubSeq(s, 1, k)
    OBVIOUS
  <2>6. \A i \in 1..Len(s) : s[i] \in Migration
    BY ElementOfSeq
  <2>7. pre \in Seq(Migration)
    <3>1. \A i \in 1..k : s[i] \in Migration
      BY <1>1, <2>2, <2>6
    <3>2. QED
      BY <2>2, <2>5, <3>1, SubSeqProperties
  <2>8. q \in Seq(Migration) /\ Len(q) = Len(s) - k /\ \A i \in 1..Len(s) - k : q[i] = s[k + i]
    <3>1. \A i \in k + 1..Len(s) : s[i] \in Migration
      BY <1>1, <2>2, <2>6
    <3>2. /\ q \in Seq(Migration)
          /\ Len(q) = IF k + 1 <= Len(s) THEN Len(s) - (k + 1) + 1 ELSE 0
          /\ \A i \in 1..Len(s) - (k + 1) + 1 : q[i] = s[(k + 1) + i - 1]
      BY <1>1, <2>2, <2>3, <3>1, SubSeqProperties
    <3>3. Len(s) - (k + 1) + 1 = Len(s) - k /\ k + 1 <= Len(s)
      BY <1>1, <2>2
    <3>4. \A i \in 1..Len(s) - k : (k + 1) + i - 1 = k + i
      BY <2>2
    <3>5. QED
      BY <3>2, <3>3, <3>4
  <2>9. s = pre \o q
    <3>1. 1 \in 1..Len(s) + 1 /\ k \in 1 - 1..Len(s) /\ Len(s) \in k..Len(s)
      BY <1>1, <2>2
    <3>2. SubSeq(s, 1, k) \o SubSeq(s, k + 1, Len(s)) = SubSeq(s, 1, Len(s))
      BY <3>1, ConcatAdjacentSubSeq
    <3>3. SubSeq(s, 1, Len(s)) = s
      BY SubSeqFull
    <3>4. QED
      BY <2>3, <2>5, <3>2, <3>3
  <2>10. ToSet(q) \subseteq ToSet(s)
    BY <2>7, <2>8, <2>9, ConcatElements
  <2>11. IsInjective(q)
    <3>1. \A a, b \in 1..Len(s) : s[a] = s[b] => a = b
      BY LenProperties DEF IsInjective
    <3>2. DOMAIN q = 1..Len(s) - k
      BY <2>8, LenProperties
    <3>3. ASSUME NEW a \in 1..Len(s) - k, NEW b \in 1..Len(s) - k, q[a] = q[b] PROVE a = b
      <4>1. PICK x \in 1..Len(s) : x = k + a
        BY <1>1, <2>2
      <4>2. PICK y \in 1..Len(s) : y = k + b
        BY <1>1, <2>2
      <4>3. s[x] = s[y]
        BY <2>8, <3>3, <4>1, <4>2
      <4>4. x = y
        BY <3>1, <4>3
      <4>5. QED
        BY <1>1, <2>2, <4>1, <4>2, <4>4
    <3>4. QED
      BY <3>2, <3>3 DEF IsInjective
  <2>12. QED
    BY <1>2, <2>4, <2>7, <2>8, <2>9, <2>10, <2>11
<1>5. QED
  BY <1>3, <1>4

(* What a call chooses to do. *)
LEMMA ChosenFacts ==
    ASSUME MigrationsTypeOK, NEW c \in Calls
    PROVE  /\ Chosen(c) \in Seq(Migration)
           /\ Up(c) => ToSet(Chosen(c)) = ToSet(migrations[RunnerOf[c]]) \ ToSet(records)
           /\ ~Up(c) => /\ IsInjective(Chosen(c)) /\ ToSet(Chosen(c)) \subseteq ToSet(records)
                        /\ \E pre \in Seq(Migration) : records = pre \o Reverse(Chosen(c))
           /\ Up(c) /\ IsInjective(migrations[RunnerOf[c]]) => IsInjective(Chosen(c))
<1>1. /\ records \in Seq(Migration) /\ IsInjective(records)
      /\ migrations[RunnerOf[c]] \in Seq(Migration)
  BY TypesAre, ConstantsAre
<1>2. CASE Up(c)
  <2>1. Chosen(c) = Without(migrations[RunnerOf[c]], ToSet(records))
    BY <1>2 DEF Chosen, Pending
  <2>2. QED
    BY <1>1, <1>2, <2>1, WithoutFacts
<1>3. CASE ~Up(c)
  <2>1. PICK n : n = IF Kind[c] = "revertLast" THEN 1 ELSE Count[c]
    OBVIOUS
  <2>2. n \in Nat
    BY <2>1, ConstantsAre
  <2>3. Chosen(c) = Latest(records, n)
    BY <1>3, <2>1 DEF Chosen
  <2>4. QED
    BY <1>1, <1>3, <2>2, <2>3, LatestFacts
<1>4. QED
  BY <1>2, <1>3

(* A record is added or taken out. *)
LEMMA RecordFacts ==
    ASSUME NEW s \in Seq(Migration), IsInjective(s), NEW m \in Migration
    PROVE  /\ m \notin ToSet(s) => /\ Append(s, m) \in Seq(Migration) /\ IsInjective(Append(s, m))
                                   /\ ToSet(Append(s, m)) = ToSet(s) \cup {m}
           /\ AddTo(s, m) \in Seq(Migration) /\ IsInjective(AddTo(s, m))
           /\ ToSet(AddTo(s, m)) = ToSet(s) \cup {m}
           /\ Without(s, {m}) \in Seq(Migration) /\ IsInjective(Without(s, {m}))
           /\ ToSet(Without(s, {m})) = ToSet(s) \ {m}
<1>1. m \notin ToSet(s) => /\ Append(s, m) \in Seq(Migration) /\ IsInjective(Append(s, m))
                           /\ ToSet(Append(s, m)) = ToSet(s) \cup {m}
  <2>1. /\ ToSet(Append(s, m)) = ToSet(s) \cup {m}
        /\ IsInjective(Append(s, m)) <=> IsInjective(s) /\ m \notin ToSet(s)
    BY AppendFacts
  <2>2. Append(s, m) \in Seq(Migration)
    BY AppendProperties
  <2>3. QED
    BY <2>1, <2>2
<1>2. /\ AddTo(s, m) \in Seq(Migration) /\ IsInjective(AddTo(s, m))
      /\ ToSet(AddTo(s, m)) = ToSet(s) \cup {m}
  BY <1>1 DEF AddTo
<1>3. /\ Without(s, {m}) \in Seq(Migration) /\ IsInjective(Without(s, {m}))
      /\ ToSet(Without(s, {m})) = ToSet(s) \ {m}
  BY WithoutFacts
<1>4. QED
  BY <1>1, <1>2, <1>3

-----------------------------------------------------------------------------
(* The place a call goes to in a step of its own. *)
LEMMA StageMoves ==
    ASSUME MigrationsTypeOK, NEW c \in Calls, Step(c) \/ Call(c) \/ GiveUp(c)
    PROVE  /\ stage' \in [Calls -> Stages]
           /\ \A d \in Calls \ {c} : stage'[d] = stage[d]
           /\ lock' \subseteq Calls /\ lock' \ {c} = lock \ {c}
           /\ c \in lock' => c \in lock \/ (stage[c] = "waiting" /\ Grants(c))
           /\ ~Underway(c)' \/ Underway(c) \/ Call(c)
<1>1. stage \in [Calls -> Stages] /\ lock \subseteq Calls
  BY TypesAre
<1>2. Ended(c) \in {"releasing", "done"}
  BY DEF Ended
<1>3. CASE Call(c)
  BY <1>1, <1>3 DEF Call, GoTo, Stages
<1>4. CASE GiveUp(c)
  BY <1>1, <1>4 DEF GiveUp, GoTo, Stages, Underway
<1>5. CASE Acquire(c)
  BY <1>1, <1>5 DEF Acquire, GoTo, Stages, Underway
<1>6. CASE ReadExecuted(c)
  BY <1>1, <1>6 DEF ReadExecuted, GoTo, Stages, Underway
<1>7. CASE Start(c) \/ Stop(c)
  BY <1>1, <1>2, <1>7 DEF Start, Stop, GoTo, Stages, Underway
<1>8. CASE Migrate(c) \/ Track(c)
  BY <1>1, <1>2, <1>8 DEF Migrate, Track, GoTo, Stages, Underway
<1>9. CASE Release(c)
  BY <1>1, <1>9, ConstantsAre DEF Release, GoTo, Stages, Underway, Working
<1>10. QED
  BY <1>3, <1>4, <1>5, <1>6, <1>7, <1>8, <1>9 DEF Step

(* The place a call is at when it moves, and where it gets to. *)
LEMMA StageMoves2 ==
    ASSUME MigrationsTypeOK, LockHeld, NEW c \in Calls, Step(c) \/ Call(c) \/ GiveUp(c)
    PROVE  /\ Holding(c)' => c \in lock' \/ (Kind[c] = "revertLast" /\ Working(c)')
           /\ c \in lock' => Holding(c)'
<1>1. stage \in [Calls -> Stages] /\ lock \subseteq Calls
  BY TypesAre
<1>2. /\ Holding(c) => c \in lock \/ (Kind[c] = "revertLast" /\ Working(c))
      /\ c \in lock => Holding(c)
  BY DEF LockHeld
<1>3. CASE Call(c)
  BY <1>1, <1>2, <1>3 DEF Call, GoTo, Holding, Working
<1>4. CASE GiveUp(c)
  BY <1>1, <1>2, <1>4 DEF GiveUp, GoTo, Holding, Working
<1>5. CASE Acquire(c)
  BY <1>1, <1>5 DEF Acquire, GoTo, Holding
<1>6. CASE ReadExecuted(c)
  BY <1>1, <1>2, <1>6 DEF ReadExecuted, GoTo, Holding, Working
<1>7. CASE Start(c)
  BY <1>1, <1>2, <1>7 DEF Start, GoTo, Holding, Working
<1>8. CASE Stop(c)
  BY <1>1, <1>2, <1>8 DEF Stop, GoTo, Holding, Working, Ended
<1>9. CASE Migrate(c)
  <2>1. lock' = lock /\ (stage'[c] = "tracking" \/ stage'[c] = Ended(c)) /\ stage[c] = "running"
    BY <1>1, <1>9 DEF Migrate, GoTo
  <2>2. QED
    BY <1>2, <2>1 DEF Holding, Working, Ended
<1>10. CASE Track(c)
  <2>1. /\ lock' = lock /\ stage[c] = "tracking"
        /\ stage'[c] = Ended(c) \/ (stage'[c] = "next" /\ Kind[c] # "revertLast")
    BY <1>1, <1>10 DEF Track, GoTo
  <2>2. QED
    BY <1>2, <2>1 DEF Holding, Working, Ended
<1>11. CASE Release(c)
  <2>1. /\ stage'[c] = "done" \/ (Kind[c] = "revertLast" /\ Working(c) /\ stage' = stage)
        /\ c \notin lock'
    BY <1>1, <1>11 DEF Release, GoTo
  <2>2. QED
    BY <2>1 DEF Holding, Working
<1>12. QED
  BY <1>3, <1>4, <1>5, <1>6, <1>7, <1>8, <1>9, <1>10, <1>11 DEF Step

(* A call's own step keeps the lock to those who have taken it. *)
LEMMA LockStep ==
    ASSUME Overlap = FALSE, MigrationsTypeOK, LockHeld, NEW c \in Calls,
           Step(c) \/ Call(c) \/ GiveUp(c)
    PROVE  LockHeld'
<1>1. /\ \A d \in Calls \ {c} : stage'[d] = stage[d]
      /\ lock \subseteq Calls /\ lock' \subseteq Calls /\ lock' \ {c} = lock \ {c}
      /\ c \in lock' => c \in lock \/ (stage[c] = "waiting" /\ Grants(c))
      /\ ~Underway(c)' \/ Underway(c) \/ Call(c)
  BY StageMoves, TypesAre
<1>2. ASSUME NEW d \in Calls
      PROVE  /\ Holding(d)' => d \in lock' \/ (Kind[d] = "revertLast" /\ Working(d)')
             /\ d \in lock' => Holding(d)'
  <2>1. CASE d = c
    BY <2>1, StageMoves2
  <2>2. CASE d # c
    <3>1. (Holding(d)' <=> Holding(d)) /\ (Working(d)' <=> Working(d))
      BY <1>1, <2>2 DEF Holding, Working
    <3>2. d \in lock' <=> d \in lock
      BY <1>1, <2>2
    <3>3. QED
      BY <3>1, <3>2 DEF LockHeld
  <2>3. QED
    BY <2>1, <2>2
<1>3. ASSUME NEW d \in Calls, NEW e \in Calls, Underway(d)', Underway(e)', d # e PROVE Apart(d, e)
  <2>1. \A x \in Calls \ {c} : Underway(x)' <=> Underway(x)
    BY <1>1 DEF Underway
  <2>2. CASE Underway(c) \/ (d # c /\ e # c)
    BY <1>3, <2>1, <2>2 DEF LockHeld
  <2>3. CASE Call(c) /\ (d = c \/ e = c)
    <3>1. \A x \in Calls \ {c} : Underway(x) => Apart(c, x)
      BY <2>3 DEF Call
    <3>2. \A x \in Calls \ {c} : Underway(x) => Apart(x, c)
      BY <3>1 DEF Apart
    <3>3. QED
      BY <1>3, <2>1, <2>3, <3>1, <3>2
  <2>4. QED
    BY <1>1, <1>3, <2>2, <2>3
<1>4. ASSUME NEW d \in lock', NEW e \in lock' PROVE d = e
  <2>1. CASE c \in lock' /\ c \notin lock
    <3>1. stage[c] = "waiting" /\ Grants(c) /\ Underway(c)
      BY <1>1, <2>1 DEF Underway
    <3>2. ASSUME NEW x \in lock, x # c PROVE FALSE
      <4>1. x \in Calls /\ Underway(x)
        BY <1>1, <3>2 DEF LockHeld, Holding, Underway
      <4>2. Apart(c, x)
        BY <3>1, <3>2, <4>1 DEF LockHeld
      <4>3. QED
        BY <3>1, <3>2, <4>2 DEF Grants, Apart
    <3>3. QED
      BY <1>1, <3>2
  <2>2. CASE ~(c \in lock' /\ c \notin lock)
    BY <1>1, <2>2 DEF LockHeld
  <2>3. QED
    BY <2>1, <2>2
<1>5. QED
  BY <1>1, <1>2, <1>3, <1>4 DEF LockHeld, Apart

(* The lock of a process that dies is free, and its calls are over. *)
LEMMA LockCrash ==
    ASSUME MigrationsTypeOK, LockHeld, NEW r \in Runners, Crash(r)
    PROVE  /\ LockHeld' /\ stage' \in [Calls -> Stages] /\ lock' \subseteq Calls
           /\ \A c \in Calls : IF RunnerOf[c] = r /\ Underway(c) THEN stage'[c] = "crashed"
                               ELSE stage'[c] = stage[c]
<1> DEFINE dead == {c \in Calls : RunnerOf[c] = r /\ Underway(c)}
<1>1. /\ stage' = [c \in Calls |-> IF c \in dead THEN "crashed" ELSE stage[c]]
      /\ lock' = lock \ dead
  BY DEF Crash
<1>2. stage \in [Calls -> Stages] /\ lock \subseteq Calls
  BY TypesAre
<1>3. stage' \in [Calls -> Stages] /\ lock' \subseteq Calls
  BY <1>1, <1>2 DEF Stages
<1>4. \A c \in Calls : IF RunnerOf[c] = r /\ Underway(c) THEN stage'[c] = "crashed"
                       ELSE stage'[c] = stage[c]
  BY <1>1
<1>5. \A c \in Calls : Underway(c)' => c \notin dead /\ Underway(c) /\ stage'[c] = stage[c]
  BY <1>4 DEF Underway
<1>6. ASSUME NEW d \in Calls, Holding(d)' PROVE d \in lock' \/ (Kind[d] = "revertLast" /\ Working(d)')
  <2>1. stage'[d] = stage[d] /\ d \notin dead
    BY <1>5, <1>6 DEF Holding, Underway
  <2>2. Holding(d) /\ (Working(d)' <=> Working(d))
    BY <1>6, <2>1 DEF Holding, Working
  <2>3. QED
    BY <1>1, <2>1, <2>2 DEF LockHeld
<1>7. \A d, e \in Calls : Underway(d)' /\ Underway(e)' /\ d # e => Apart(d, e)
  BY <1>5 DEF LockHeld
<1>8. \A d \in lock' : Holding(d)'
  <2>1. ASSUME NEW d \in lock' PROVE Holding(d)'
    <3>1. d \in Calls /\ d \notin dead /\ Holding(d)
      BY <1>1, <1>2, <2>1 DEF LockHeld
    <3>2. stage'[d] = stage[d]
      BY <1>1, <3>1
    <3>3. QED
      BY <3>1, <3>2 DEF Holding
  <2>2. QED
    BY <2>1
<1>9. \A d, e \in lock' : d = e
  BY <1>1 DEF LockHeld
<1>10. QED
  BY <1>3, <1>4, <1>6, <1>7, <1>8, <1>9 DEF LockHeld, Apart

-----------------------------------------------------------------------------
(* A call under way gives a list back when it ends, or it was given none. *)
LEMMA ListsMove ==
    ASSUME MigrationsTypeOK, LockHeld, NEW c \in Calls, Step(c) \/ GiveUp(c)
    PROVE  \/ UNCHANGED calls /\ (Lending(c)' <=> Lending(c))
           \/ PutBack(c) /\ Underway(c) /\ ~Lending(c)'
<1>1. stage \in [Calls -> Stages] /\ lock \subseteq Calls
  BY TypesAre
<1>2. /\ Holding(c) => c \in lock \/ (Kind[c] = "revertLast" /\ Working(c))
      /\ c \in lock => Holding(c)
  BY DEF LockHeld
<1>3. Kind[c] = "revertLast" => Given[c] = Absent
  BY ConstantsAre
<1>4. CASE GiveUp(c)
  BY <1>1, <1>4 DEF GiveUp, GoTo, Underway, Lending
<1>5. CASE Acquire(c)
  BY <1>1, <1>5 DEF Acquire, GoTo, Underway, Lending
<1>6. CASE ReadExecuted(c)
  <2>1. UNCHANGED calls /\ stage[c] = "locked" /\ stage'[c] \in {"next", "releasing"}
    BY <1>1, <1>6 DEF ReadExecuted, GoTo
  <2>2. QED
    BY <2>1 DEF Underway, Lending
<1>7. CASE Start(c)
  BY <1>1, <1>7 DEF Start, GoTo, Underway, Lending
<1>8. CASE Stop(c) \/ Migrate(c) \/ Track(c)
  <2>1. UNCHANGED calls
    BY <1>8 DEF Stop, Migrate, Track
  <2>2. stage[c] \in {"next", "running", "tracking"}
    BY <1>8 DEF Stop, Migrate, Track
  <2>3. stage'[c] \in {Ended(c), "next", "tracking"}
    BY <1>1, <1>8 DEF Stop, Migrate, Track, GoTo
  <2>4. Ended(c) = "done" => Given[c] = Absent
    BY <1>2, <1>3, <2>2 DEF Ended, Holding, Working
  <2>5. Ended(c) \in {"releasing", "done"}
    BY DEF Ended
  <2>6. QED
    BY <2>1, <2>2, <2>3, <2>4, <2>5 DEF Underway, Lending
<1>9. CASE Release(c)
  <2>1. \/ stage[c] = "releasing" /\ stage'[c] = "done" /\ PutBack(c)
        \/ UNCHANGED calls /\ stage' = stage
    BY <1>1, <1>9 DEF Release, GoTo
  <2>2. QED
    BY <2>1 DEF Underway, Lending
<1>10. QED
  BY <1>4, <1>5, <1>6, <1>7, <1>8, <1>9 DEF Step

(* A list that is lent is given back before the runner's own is used again. *)
LEMMA ListsStep ==
    ASSUME MigrationsTypeOK, LockHeld, ListsInPlace, NEW c \in Calls,
           Step(c) \/ (Call(c) /\ Overlap = FALSE) \/ GiveUp(c)
    PROVE  /\ ListsInPlace'
           /\ migrations' \in [Runners -> Seq(Migration)]
           /\ saved' \in [Calls -> Seq(Migration) \cup {Absent}]
<1>1. /\ migrations \in [Runners -> Seq(Migration)] /\ stage \in [Calls -> Stages]
      /\ saved \in [Calls -> Seq(Migration) \cup {Absent}]
  BY TypesAre
<1>2. \A d \in Calls \ {c} : stage'[d] = stage[d]
  BY StageMoves
<1>3. \A d \in Calls \ {c} : Lending(d)' <=> Lending(d)
  BY <1>2 DEF Lending, Underway
<1>4. RunnerOf[c] \in Runners /\ \A d \in Calls : RunnerOf[d] \in Runners
  BY ConstantsAre
<1>5. CASE UNCHANGED calls /\ (Lending(c)' <=> Lending(c))
  <2>1. UNCHANGED <<migrations, saved>>
    BY <1>5 DEF calls
  <2>2. \A d \in Calls : Lending(d)' <=> Lending(d)
    BY <1>3, <1>5
  <2>3. QED
    BY <1>1, <2>1, <2>2 DEF ListsInPlace
<1>6. CASE PutBack(c) /\ Underway(c) /\ ~Lending(c)'
  <2>1. CASE saved[c] = Absent
    <3>1. UNCHANGED <<migrations, saved>>
      BY <1>6, <2>1 DEF PutBack, calls
    <3>2. ~Lending(c)
      BY <2>1, <1>4, ConstantsAre DEF ListsInPlace
    <3>3. \A d \in Calls : Lending(d)' <=> Lending(d)
      BY <1>3, <1>6, <3>2
    <3>4. QED
      BY <1>1, <3>1, <3>3 DEF ListsInPlace
  <2>2. CASE saved[c] # Absent
    <3>1. Lending(c) /\ saved[c] = ListOf[RunnerOf[c]]
      BY <2>2 DEF ListsInPlace
    <3>2. /\ migrations' = [migrations EXCEPT ![RunnerOf[c]] = ListOf[RunnerOf[c]]]
          /\ saved' = [saved EXCEPT ![c] = Absent]
      BY <1>6, <2>2, <3>1 DEF PutBack
    <3>3. \A d \in Calls : d # c /\ Lending(d) => RunnerOf[d] # RunnerOf[c]
      BY <3>1 DEF LockHeld, Lending, Apart
    <3>4. /\ migrations' \in [Runners -> Seq(Migration)]
          /\ saved' \in [Calls -> Seq(Migration) \cup {Absent}]
      BY <1>1, <1>4, <3>2, ConstantsAre
    <3>5. \A r \in Runners : migrations'[r] = IF r = RunnerOf[c] THEN ListOf[r] ELSE migrations[r]
      BY <1>1, <3>2
    <3>6. \A d \in Calls : saved'[d] = IF d = c THEN Absent ELSE saved[d]
      BY <1>1, <3>2
    <3>7. \A r \in Runners : \/ migrations'[r] = ListOf[r]
                             \/ \E d \in Calls : RunnerOf[d] = r /\ Lending(d)'
      BY <1>3, <3>5 DEF ListsInPlace
    <3>8. \A d \in Calls : Lending(d)' => /\ migrations'[RunnerOf[d]] = Given[d]
                                          /\ saved'[d] = ListOf[RunnerOf[d]]
      BY <1>3, <1>4, <1>6, <3>3, <3>5, <3>6 DEF ListsInPlace
    <3>9. \A d \in Calls : ~Lending(d)' => saved'[d] = Absent
      BY <1>3, <3>6 DEF ListsInPlace
    <3>10. QED
      BY <3>4, <3>7, <3>8, <3>9 DEF ListsInPlace
  <2>3. QED
    BY <2>1, <2>2
<1>7. CASE Call(c) /\ Overlap = FALSE
  <2>1. /\ stage[c] = "idle" /\ stage'[c] = "waiting"
        /\ \A d \in Calls \ {c} : Underway(d) => Apart(c, d)
    BY <1>1, <1>7 DEF Call, GoTo
  <2>2. ~Lending(c) /\ saved[c] = Absent
    BY <2>1 DEF Lending, Underway, ListsInPlace
  <2>3. CASE Given[c] = Absent
    <3>1. UNCHANGED <<migrations, saved>> /\ ~Lending(c)'
      BY <1>7, <2>3 DEF Call, Lending, calls
    <3>2. QED
      BY <1>1, <1>3, <2>2, <3>1 DEF ListsInPlace
  <2>4. CASE Given[c] # Absent
    <3>1. /\ saved' = [saved EXCEPT ![c] = migrations[RunnerOf[c]]]
          /\ migrations' = [migrations EXCEPT ![RunnerOf[c]] = Given[c]]
      BY <1>7, <2>4 DEF Call
    <3>2. Lending(c)'
      BY <2>1, <2>4 DEF Lending, Underway
    <3>3. \A d \in Calls : d # c /\ Lending(d) => RunnerOf[d] # RunnerOf[c]
      BY <2>1, <2>4 DEF Lending, Apart
    <3>4. migrations[RunnerOf[c]] = ListOf[RunnerOf[c]]
      BY <1>4, <2>2, <3>3 DEF ListsInPlace
    <3>5. Given[c] \in Seq(Migration)
      BY <2>4, ConstantsAre
    <3>6. /\ migrations' \in [Runners -> Seq(Migration)]
          /\ saved' \in [Calls -> Seq(Migration) \cup {Absent}]
      BY <1>1, <1>4, <3>1, <3>5
    <3>7. \A r \in Runners : migrations'[r] = IF r = RunnerOf[c] THEN Given[c] ELSE migrations[r]
      BY <1>1, <3>1
    <3>8. \A d \in Calls : saved'[d] = IF d = c THEN ListOf[RunnerOf[c]] ELSE saved[d]
      BY <1>1, <3>1, <3>4
    <3>9. \A r \in Runners : \/ migrations'[r] = ListOf[r]
                             \/ \E d \in Calls : RunnerOf[d] = r /\ Lending(d)'
      BY <1>3, <2>2, <3>2, <3>7 DEF ListsInPlace
    <3>10. \A d \in Calls : Lending(d)' => /\ migrations'[RunnerOf[d]] = Given[d]
                                           /\ saved'[d] = ListOf[RunnerOf[d]]
      BY <1>3, <1>4, <3>3, <3>7, <3>8 DEF ListsInPlace
    <3>11. \A d \in Calls : ~Lending(d)' => saved'[d] = Absent
      BY <1>3, <3>2, <3>8 DEF ListsInPlace
    <3>12. QED
      BY <3>6, <3>9, <3>10, <3>11 DEF ListsInPlace
  <2>5. QED
    BY <2>3, <2>4
<1>8. QED
  BY <1>5, <1>6, <1>7, ListsMove

(* A process that starts again has its runner's own list. *)
LEMMA ListsCrash ==
    ASSUME MigrationsTypeOK, LockHeld, ListsInPlace, NEW r \in Runners, Crash(r)
    PROVE  /\ ListsInPlace'
           /\ migrations' \in [Runners -> Seq(Migration)]
           /\ saved' \in [Calls -> Seq(Migration) \cup {Absent}]
<1> DEFINE dead == {c \in Calls : RunnerOf[c] = r /\ Underway(c)}
<1>1. /\ migrations \in [Runners -> Seq(Migration)]
      /\ saved \in [Calls -> Seq(Migration) \cup {Absent}]
  BY TypesAre
<1>2. /\ migrations' = [migrations EXCEPT ![r] = ListOf[r]]
      /\ saved' = [c \in Calls |-> IF c \in dead THEN Absent ELSE saved[c]]
  BY DEF Crash
<1>3. \A c \in Calls : IF c \in dead THEN stage'[c] = "crashed" ELSE stage'[c] = stage[c]
  BY LockCrash
<1>4. \A c \in Calls : Lending(c)' <=> Lending(c) /\ RunnerOf[c] # r
  BY <1>3 DEF Lending, Underway
<1>5. /\ migrations' \in [Runners -> Seq(Migration)]
      /\ saved' \in [Calls -> Seq(Migration) \cup {Absent}]
  BY <1>1, <1>2, ConstantsAre
<1>6. \A q \in Runners : migrations'[q] = IF q = r THEN ListOf[r] ELSE migrations[q]
  BY <1>1, <1>2
<1>7. \A q \in Runners : \/ migrations'[q] = ListOf[q]
                         \/ \E c \in Calls : RunnerOf[c] = q /\ Lending(c)'
  BY <1>4, <1>6 DEF ListsInPlace
<1>8. \A c \in Calls : Lending(c)' => /\ migrations'[RunnerOf[c]] = Given[c]
                                      /\ saved'[c] = ListOf[RunnerOf[c]]
  BY <1>2, <1>4, <1>6, ConstantsAre DEF ListsInPlace
<1>9. \A c \in Calls : ~Lending(c)' => saved'[c] = Absent
  BY <1>2, <1>4 DEF ListsInPlace, Lending
<1>10. QED
  BY <1>5, <1>7, <1>8, <1>9 DEF ListsInPlace

-----------------------------------------------------------------------------
(* The migration a call works on. *)
LEMMA AtHead ==
    ASSUME MigrationsTypeOK, NEW c \in Calls, WorkAt(c), Working(c)
    PROVE  /\ Head(todo[c]) \in Migration /\ Tail(todo[c]) \in Seq(Migration)
           /\ Head(todo[c]) \in ToSet(todo[c]) /\ ToSet(Tail(todo[c])) \subseteq ToSet(todo[c])
           /\ IsInjective(todo[c]) => /\ IsInjective(Tail(todo[c]))
                                      /\ Head(todo[c]) \notin ToSet(Tail(todo[c]))
<1>1. todo[c] \in Seq(Migration) /\ todo[c] # <<>>
  BY TypesAre DEF WorkAt
<1>2. QED
  BY <1>1, HeadAndTail

(* What a step of a call makes of the server's state, of what it read and  *)
(* of what it has to do.                                                   *)
LEMMA WorkTypes ==
    ASSUME MigrationsTypeOK, NEW c \in Calls, WorkAt(c), Step(c) \/ Call(c) \/ GiveUp(c)
    PROVE  /\ applied' \subseteq Migration /\ lost' \subseteq Migration /\ lost \subseteq lost'
           /\ records' \in Seq(Migration) /\ IsInjective(records')
           /\ \E t \in Seq(Migration) : todo' = [todo EXCEPT ![c] = t]
           /\ \E e \in Seq(Migration) : executed' = [executed EXCEPT ![c] = e]
           /\ orphans' = orphans /\ faults' \in 0..MaxFaults /\ crashes' = crashes
<1>1. /\ applied \subseteq Migration /\ lost \subseteq Migration
      /\ records \in Seq(Migration) /\ IsInjective(records)
      /\ todo \in [Calls -> Seq(Migration)] /\ executed \in [Calls -> Seq(Migration)]
      /\ faults \in 0..MaxFaults
  BY TypesAre
<1>2. <<>> \in Seq(Migration) /\ Chosen(c) \in Seq(Migration)
  BY EmptySeq, ChosenFacts
<1>3. MaxFaults \in Nat
  BY ConstantsAre
<1>4. Fault \/ NoFault => faults' \in 0..MaxFaults
  BY <1>1, <1>3 DEF Fault, NoFault
<1>5. todo = [todo EXCEPT ![c] = todo[c]] /\ executed = [executed EXCEPT ![c] = executed[c]]
  BY <1>1
<1>6. todo[c] \in Seq(Migration) /\ executed[c] \in Seq(Migration)
  BY <1>1
<1>7. /\ UNCHANGED todo => \E t \in Seq(Migration) : todo' = [todo EXCEPT ![c] = t]
      /\ UNCHANGED executed => \E e \in Seq(Migration) : executed' = [executed EXCEPT ![c] = e]
  BY <1>5, <1>6
<1>8. CASE Call(c)
  BY <1>1, <1>7, <1>8 DEF Call, server, counts
<1>9. CASE GiveUp(c)
  BY <1>1, <1>4, <1>7, <1>9 DEF GiveUp, server
<1>10. CASE Acquire(c) \/ Start(c) \/ Release(c)
  BY <1>1, <1>7, <1>10 DEF Acquire, Start, Release, server, counts
<1>11. CASE ReadExecuted(c)
  BY <1>1, <1>2, <1>4, <1>7, <1>11 DEF ReadExecuted, server
<1>12. CASE Stop(c)
  BY <1>1, <1>2, <1>4, <1>7, <1>12 DEF Stop, server
<1>13. CASE Migrate(c)
  <2>1. Head(todo[c]) \in Migration
    BY <1>13, AtHead DEF Migrate, Working
  <2>2. applied' \subseteq Migration
    BY <1>1, <1>13, <2>1 DEF Migrate
  <2>3. /\ UNCHANGED <<records, lost, orphans, executed, crashes>> /\ (Fault \/ NoFault)
        /\ UNCHANGED todo \/ todo' = [todo EXCEPT ![c] = <<>>]
    BY <1>13 DEF Migrate
  <2>4. QED
    BY <1>1, <1>2, <1>4, <1>7, <2>2, <2>3
<1>14. CASE Track(c)
  <2>1. Head(todo[c]) \in Migration /\ Tail(todo[c]) \in Seq(Migration)
    BY <1>14, AtHead DEF Track, Working
  <2>2. /\ UNCHANGED <<applied, orphans, executed, crashes>> /\ (Fault \/ NoFault)
        /\ UNCHANGED records \/ Record(c)
        /\ UNCHANGED lost \/ lost' = lost \cup {Head(todo[c])}
        /\ todo' = [todo EXCEPT ![c] = Tail(todo[c])] \/ todo' = [todo EXCEPT ![c] = <<>>]
    BY <1>14 DEF Track
  <2>3. records' \in Seq(Migration) /\ IsInjective(records')
    <3>1. PICK m \in Migration : m = Head(todo[c])
      BY <2>1
    <3>2. /\ m \notin ToSet(records) => /\ Append(records, m) \in Seq(Migration)
                                        /\ IsInjective(Append(records, m))
          /\ Without(records, {m}) \in Seq(Migration) /\ IsInjective(Without(records, {m}))
      BY <1>1, RecordFacts
    <3>3. \/ records' = records \/ records' = Without(records, {m})
          \/ m \notin ToSet(records) /\ records' = Append(records, m)
      BY <2>2, <3>1 DEF Record
    <3>4. QED
      BY <1>1, <3>2, <3>3
  <2>4. QED
    BY <1>1, <1>2, <1>4, <1>7, <2>1, <2>2, <2>3
<1>15. QED
  BY <1>8, <1>9, <1>10, <1>11, <1>12, <1>13, <1>14 DEF Step

(* What a call works on is there and from its list. *)
LEMMA WorkStep ==
    ASSUME MigrationsTypeOK, LockHeld, ListsInPlace, NEW c \in Calls, WorkAt(c),
           Step(c) \/ Call(c) \/ GiveUp(c)
    PROVE  WorkAt(c)'
<1>1. stage \in [Calls -> Stages] /\ todo \in [Calls -> Seq(Migration)]
  BY TypesAre
<1>2. Underway(c) => migrations[RunnerOf[c]] = OwnListOf(c)
  BY ListUsed
<1>3. CASE Call(c) \/ GiveUp(c) \/ Acquire(c)
  BY <1>1, <1>3 DEF Call, GiveUp, Acquire, GoTo, WorkAt, Working, Deciding
<1>4. CASE ReadExecuted(c)
  <2>1. \/ stage'[c] = "releasing"
        \/ stage'[c] = "next" /\ todo'[c] = Chosen(c)
    BY <1>1, <1>4 DEF ReadExecuted, GoTo
  <2>2. Up(c) => ToSet(Chosen(c)) \subseteq ToSet(migrations[RunnerOf[c]])
    BY ChosenFacts
  <2>3. Underway(c)
    BY <1>4 DEF ReadExecuted, Underway
  <2>4. QED
    BY <1>2, <2>1, <2>2, <2>3 DEF WorkAt, Working, Deciding, Up, OwnListOf
<1>5. CASE Start(c)
  <2>1. /\ stage[c] = "next" /\ todo[c] # <<>> /\ stage'[c] = "running" /\ todo' = todo
        /\ Up(c) \/ Head(todo[c]) \in ToSet(migrations[RunnerOf[c]])
    BY <1>1, <1>5 DEF Start, GoTo
  <2>2. Head(todo[c]) \in ToSet(todo[c])
    BY <1>1, <2>1, HeadAndTail
  <2>3. Up(c) => ToSet(todo[c]) \subseteq ToSet(OwnListOf(c))
    BY <2>1 DEF WorkAt, Deciding
  <2>4. Head(todo[c]) \in ToSet(OwnListOf(c))
    BY <1>2, <2>1, <2>2, <2>3 DEF Underway
  <2>5. QED
    BY <2>1, <2>3, <2>4 DEF WorkAt, Working, Deciding, Up, OwnListOf
<1>6. CASE Stop(c)
  BY <1>1, <1>6 DEF Stop, GoTo, WorkAt, Working, Deciding, Ended
<1>7. CASE Migrate(c)
  <2>1. /\ stage[c] = "running"
        /\ \/ stage'[c] = "tracking" /\ todo' = todo
           \/ stage'[c] \in {"releasing", "done"}
    BY <1>1, <1>7 DEF Migrate, GoTo, Ended
  <2>2. QED
    BY <2>1 DEF WorkAt, Working, Deciding, Up, OwnListOf
<1>8. CASE Track(c)
  <2>1. /\ stage[c] = "tracking"
        /\ \/ stage'[c] = "next" /\ todo'[c] = Tail(todo[c])
           \/ stage'[c] \in {"releasing", "done"}
    BY <1>1, <1>8 DEF Track, GoTo, Ended
  <2>2. ToSet(Tail(todo[c])) \subseteq ToSet(todo[c])
    BY <2>1, AtHead DEF Working
  <2>3. QED
    BY <2>1, <2>2 DEF WorkAt, Working, Deciding, Up, OwnListOf
<1>9. CASE Release(c)
  <2>1. \/ stage'[c] = "done"
        \/ stage' = stage /\ todo' = todo
    BY <1>1, <1>9 DEF Release, GoTo
  <2>2. QED
    BY <2>1 DEF WorkAt, Working, Deciding, Up, OwnListOf
<1>10. QED
  BY <1>3, <1>4, <1>5, <1>6, <1>7, <1>8, <1>9 DEF Step

(* A step of a call leaves the others at what they were at. *)
LEMMA OthersStep ==
    ASSUME MigrationsTypeOK, LockHeld, NEW c \in Calls, WorkAt(c),
           Step(c) \/ Call(c) \/ GiveUp(c), NEW d \in Calls, d # c
    PROVE  /\ stage'[d] = stage[d] /\ todo'[d] = todo[d] /\ executed'[d] = executed[d]
           /\ (WorkAt(d) => WorkAt(d)') /\ (TrackAt(d) => TrackAt(d)')
           /\ Deciding(d) => UNCHANGED <<applied, records, lost>>
<1>1. /\ stage'[d] = stage[d] /\ todo'[d] = todo[d] /\ executed'[d] = executed[d]
      /\ lost \subseteq lost'
  BY StageMoves, WorkTypes, TypesAre
<1>2. WorkAt(d) => WorkAt(d)'
  BY <1>1 DEF WorkAt, Working, Deciding, Up, OwnListOf
<1>3. Deciding(d) => UNCHANGED <<applied, records, lost>>
  <2> SUFFICES ASSUME Deciding(d) PROVE UNCHANGED <<applied, records, lost>>
    OBVIOUS
  <2>1. ~Working(c)
    BY OneHolder DEF Holding, Deciding, Working
  <2>2. ~Migrate(c) /\ ~Track(c)
    BY <2>1 DEF Migrate, Track, Working
  <2>3. Call(c) \/ GiveUp(c) => UNCHANGED server
    BY DEF Call, GiveUp
  <2>4. Step(c) => UNCHANGED server
    BY <2>2 DEF Step, Acquire, ReadExecuted, Start, Stop, Release
  <2>5. QED
    BY <2>3, <2>4 DEF server
<1>4. TrackAt(d) => TrackAt(d)'
  BY <1>1, <1>3 DEF TrackAt, Deciding, Up
<1>5. QED
  BY <1>1, <1>2, <1>3, <1>4

(* Once its schema change is in place, a migration waits for its record. *)
LEMMA TrackStep ==
    ASSUME MigrationsTypeOK, NEW c \in Calls, WorkAt(c), TrackAt(c),
           Step(c) \/ Call(c) \/ GiveUp(c)
    PROVE  TrackAt(c)'
<1>1. stage \in [Calls -> Stages] /\ todo \in [Calls -> Seq(Migration)]
  BY TypesAre
<1>2. CASE Migrate(c)
  <2>1. \/ /\ todo' = todo
           /\ applied' = IF Up(c) THEN applied \cup {Head(todo[c])} ELSE applied \ {Head(todo[c])}
        \/ stage'[c] \in {"releasing", "done"}
    BY <1>1, <1>2 DEF Migrate, GoTo, Ended
  <2>2. QED
    BY <2>1 DEF TrackAt, Up
<1>3. CASE Track(c)
  <2>1. stage'[c] \in {"next", "releasing", "done"}
    BY <1>1, <1>3 DEF Track, GoTo, Ended
  <2>2. QED
    BY <2>1 DEF TrackAt
<1>4. CASE Call(c) \/ GiveUp(c) \/ Acquire(c)
  <2>1. stage'[c] \in {"waiting", "done", "locked"}
    BY <1>1, <1>4 DEF Call, GiveUp, Acquire, GoTo
  <2>2. QED
    BY <2>1 DEF TrackAt
<1>5. CASE ReadExecuted(c) \/ Start(c) \/ Stop(c)
  <2>1. stage'[c] \in {"next", "running", "releasing", "done"}
    BY <1>1, <1>5 DEF ReadExecuted, Start, Stop, GoTo, Ended
  <2>2. QED
    BY <2>1 DEF TrackAt
<1>6. CASE Release(c)
  <2>1. stage'[c] = "done" \/ (stage' = stage /\ todo' = todo /\ applied' = applied /\ lost' = lost)
    BY <1>1, <1>6 DEF Release, GoTo, server
  <2>2. QED
    BY <2>1 DEF TrackAt, Up
<1>7. QED
  BY <1>2, <1>3, <1>4, <1>5, <1>6 DEF Step

-----------------------------------------------------------------------------
(* A migration some call is to record, or to take the record of. *)
AtTracking(m) == \E c \in Calls : stage[c] = "tracking" /\ Head(todo[c]) = m
Recorded(m) == m \in ToSet(records) <=> m \in applied
Matching == \A m \in Migration \ lost : Recorded(m) \/ AtTracking(m)

(* RecordsMatchSchema is Matching, and the types. *)
LEMMA MatchingIs == RecordsMatchSchema <=> MigrationsTypeOK /\ Matching
BY DEF RecordsMatchSchema, Matching, Recorded, AtTracking

(* What a call's record says. *)
LEMMA RecordIs ==
    ASSUME MigrationsTypeOK, NEW c \in Calls, WorkAt(c), Working(c), Record(c)
    PROVE  ToSet(records') = IF Up(c) THEN ToSet(records) \cup {Head(todo[c])}
                             ELSE ToSet(records) \ {Head(todo[c])}
<1>1. records \in Seq(Migration) /\ IsInjective(records)
  BY TypesAre
<1>2. PICK m \in Migration : m = Head(todo[c])
  BY AtHead
<1>3. /\ m \notin ToSet(records) => ToSet(Append(records, m)) = ToSet(records) \cup {m}
      /\ ToSet(Without(records, {m})) = ToSet(records) \ {m}
  BY <1>1, RecordFacts
<1>4. \/ ~Up(c) /\ records' = Without(records, {m})
      \/ Up(c) /\ m \notin ToSet(records) /\ records' = Append(records, m)
  BY <1>2 DEF Record
<1>5. QED
  BY <1>2, <1>3, <1>4

(* A step of a call keeps the records to the schema. *)
LEMMA RecordsStep ==
    ASSUME MigrationsTypeOK, Matching, NEW c \in Calls, WorkAt(c), TrackAt(c),
           Step(c) \/ Call(c) \/ GiveUp(c)
    PROVE  Matching'
<1>1. stage \in [Calls -> Stages] /\ todo \in [Calls -> Seq(Migration)]
  BY TypesAre
<1>2. /\ \A d \in Calls \ {c} : stage'[d] = stage[d]
      /\ \A d \in Calls \ {c} : todo'[d] = todo[d]
  BY StageMoves, WorkTypes, <1>1
<1>3. \A m : AtTracking(m) /\ ~(stage[c] = "tracking" /\ Head(todo[c]) = m) => AtTracking(m)'
  BY <1>2 DEF AtTracking
<1>4. CASE Migrate(c)
  <2>1. stage[c] = "running" /\ records' = records /\ lost' = lost
    BY <1>4 DEF Migrate
  <2>2. \/ applied' = applied
        \/ /\ stage'[c] = "tracking" /\ todo' = todo
           /\ \A m : m # Head(todo[c]) => (m \in applied' <=> m \in applied)
    BY <1>1, <1>4 DEF Migrate, GoTo
  <2>3. \A m : AtTracking(m) => AtTracking(m)'
    BY <1>3, <2>1
  <2>4. \A m : Recorded(m) => Recorded(m)' \/ AtTracking(m)'
    BY <2>1, <2>2 DEF Recorded, AtTracking
  <2>5. QED
    BY <2>1, <2>3, <2>4 DEF Matching
<1>5. CASE Track(c)
  <2>1. stage[c] = "tracking" /\ applied' = applied /\ Working(c)
    BY <1>5 DEF Track, Working
  <2>2. \/ Record(c) /\ lost' = lost
        \/ records' = records /\ lost' = lost \cup {Head(todo[c])}
    BY <1>5 DEF Track
  <2>3. CASE Record(c) /\ lost' = lost
    <3>1. ToSet(records') = IF Up(c) THEN ToSet(records) \cup {Head(todo[c])}
                            ELSE ToSet(records) \ {Head(todo[c])}
      BY <2>1, <2>3, RecordIs
    <3>2. PICK n : n = Head(todo[c])
      OBVIOUS
    <3>3. n \notin lost => (Up(c) <=> n \in applied)
      BY <2>1, <3>2 DEF TrackAt
    <3>4. n \in ToSet(records') <=> Up(c)
      BY <3>1, <3>2
    <3>5. n \notin lost => Recorded(n)'
      BY <2>1, <3>3, <3>4 DEF Recorded
    <3>6. \A m : m # n => (Recorded(m) => Recorded(m)')
      BY <2>1, <3>1, <3>2 DEF Recorded
    <3>7. \A m : m # n => (AtTracking(m) => AtTracking(m)')
      BY <1>3, <3>2
    <3>8. ASSUME NEW m \in Migration \ lost PROVE Recorded(m)' \/ AtTracking(m)'
      BY <3>5, <3>6, <3>7 DEF Matching
    <3>9. QED
      BY <2>3, <3>8 DEF Matching
  <2>4. CASE records' = records /\ lost' = lost \cup {Head(todo[c])}
    <3>1. \A m : Recorded(m) => Recorded(m)'
      BY <2>1, <2>4 DEF Recorded
    <3>2. QED
      BY <1>3, <2>4, <3>1 DEF Matching
  <2>5. QED
    BY <2>2, <2>3, <2>4
<1>6. CASE ~Migrate(c) /\ ~Track(c)
  <2>1. UNCHANGED server
    BY <1>6 DEF Step, Call, GiveUp, Acquire, ReadExecuted, Start, Stop, Release
  <2>2. stage[c] = "tracking" => stage'[c] = "tracking" /\ todo' = todo
    BY <1>6 DEF Step, Call, GiveUp, Acquire, ReadExecuted, Start, Stop, Release
  <2>3. \A m : AtTracking(m) => AtTracking(m)'
    BY <1>2, <2>2 DEF AtTracking
  <2>4. \A m : Recorded(m) => Recorded(m)'
    BY <2>1 DEF Recorded, server
  <2>5. QED
    BY <2>1, <2>3, <2>4 DEF Matching, server
<1>7. QED
  BY <1>4, <1>5, <1>6

(* What a process that dies was at may be recorded or not: it counts as lost. *)
LEMMA CrashKeeps ==
    ASSUME MigrationsTypeOK, Matching, OrphansLost, NEW r \in Runners, Crash(r),
           \A c \in Calls : WorkAt(c) /\ TrackAt(c)
    PROVE  /\ Matching' /\ OrphansLost' /\ \A c \in Calls : (WorkAt(c) /\ TrackAt(c))'
           /\ lost' \subseteq Migration /\ lost \subseteq lost' /\ orphans' \subseteq Cut
<1> DEFINE dead == {c \in Calls : RunnerOf[c] = r /\ Underway(c)}
           cut == {[up |-> Up(c), place |-> stage[c], name |-> Head(todo[c])] :
                     c \in {d \in dead : Working(d)}}
<1>1. /\ lost' = lost \cup {o.name : o \in cut} /\ orphans' = orphans \cup cut
      /\ UNCHANGED <<applied, records, todo>>
      /\ stage' = [c \in Calls |-> IF c \in dead THEN "crashed" ELSE stage[c]]
  BY DEF Crash
<1>2. /\ lost \subseteq Migration /\ orphans \subseteq Cut /\ stage \in [Calls -> Stages]
  BY TypesAre
<1>3. \A c \in Calls : Working(c) => Head(todo[c]) \in Migration
  BY AtHead
<1>4. cut \subseteq Cut
  <2> SUFFICES ASSUME NEW c \in Calls, Working(c)
               PROVE  [up |-> Up(c), place |-> stage[c], name |-> Head(todo[c])] \in Cut
    OBVIOUS
  <2>1. Up(c) \in BOOLEAN
    BY DEF Up
  <2>2. QED
    BY <1>3, <2>1 DEF Cut, Working
<1>5. {o.name : o \in cut} \subseteq Migration
  BY <1>4 DEF Cut
<1>6. \A c \in dead : stage[c] = "tracking" => Head(todo[c]) \in lost'
  <2> SUFFICES ASSUME NEW c \in dead, stage[c] = "tracking" PROVE Head(todo[c]) \in lost'
    OBVIOUS
  <2>1. PICK o : o = [up |-> Up(c), place |-> stage[c], name |-> Head(todo[c])]
    OBVIOUS
  <2>2. o \in cut
    BY <2>1 DEF Working
  <2>3. o.name = Head(todo[c])
    BY <2>1
  <2>4. QED
    BY <1>1, <2>2, <2>3
<1>7. \A m : AtTracking(m) => AtTracking(m)' \/ m \in lost'
  BY <1>1, <1>6 DEF AtTracking
<1>8. \A m : Recorded(m) => Recorded(m)'
  BY <1>1 DEF Recorded
<1>9. Matching'
  BY <1>1, <1>7, <1>8 DEF Matching
<1>10. OrphansLost'
  BY <1>1 DEF OrphansLost
<1>11. ASSUME NEW c \in Calls PROVE (WorkAt(c) /\ TrackAt(c))'
  <2>1. stage'[c] = stage[c] \/ stage'[c] = "crashed"
    BY <1>1
  <2>2. QED
    BY <1>1, <2>1 DEF WorkAt, TrackAt, Working, Deciding, Up, OwnListOf
<1>12. QED
  BY <1>1, <1>2, <1>4, <1>5, <1>9, <1>10, <1>11

(* What the server still does for a dead process concerns lost migrations. *)
LEMMA OrphanKeeps ==
    ASSUME MigrationsTypeOK, Matching, OrphansLost, NEW o \in orphans, Orphan(o),
           \A c \in Calls : WorkAt(c) /\ TrackAt(c)
    PROVE  /\ Matching' /\ OrphansLost' /\ \A c \in Calls : (WorkAt(c) /\ TrackAt(c))'
           /\ applied' \subseteq Migration /\ records' \in Seq(Migration) /\ IsInjective(records')
<1>1. /\ o.name \in lost /\ o.name \in Migration
      /\ UNCHANGED <<lost, stage, todo>> /\ orphans' = orphans \ {o}
  BY TypesAre DEF OrphansLost, Orphan, Cut
<1>2. /\ records \in Seq(Migration) /\ IsInjective(records) /\ applied \subseteq Migration
  BY TypesAre
<1>3. PICK m \in Migration : m = o.name
  BY <1>1
<1>4. /\ records' \in Seq(Migration) /\ IsInjective(records')
      /\ \A x : x # m => (x \in ToSet(records') <=> x \in ToSet(records))
  <2>1. /\ AddTo(records, m) \in Seq(Migration) /\ IsInjective(AddTo(records, m))
        /\ ToSet(AddTo(records, m)) = ToSet(records) \cup {m}
        /\ Without(records, {m}) \in Seq(Migration) /\ IsInjective(Without(records, {m}))
        /\ ToSet(Without(records, {m})) = ToSet(records) \ {m}
    BY <1>2, RecordFacts
  <2>2. \/ records' = records \/ records' = AddTo(records, m) \/ records' = Without(records, {m})
    BY <1>3 DEF Orphan
  <2>3. QED
    BY <1>2, <2>1, <2>2
<1>5. /\ applied' \subseteq Migration
      /\ \A x : x # m => (x \in applied' <=> x \in applied)
  BY <1>2, <1>3 DEF Orphan
<1>6. \A x : x \notin lost => (Recorded(x) => Recorded(x)')
  BY <1>1, <1>3, <1>4, <1>5 DEF Recorded
<1>7. \A x : AtTracking(x) => AtTracking(x)'
  BY <1>1 DEF AtTracking
<1>8. Matching'
  BY <1>1, <1>6, <1>7 DEF Matching
<1>9. OrphansLost'
  BY <1>1 DEF OrphansLost
<1>10. ASSUME NEW c \in Calls PROVE (WorkAt(c) /\ TrackAt(c))'
  <2>1. WorkAt(c)'
    BY <1>1 DEF WorkAt, Working, Deciding, Up, OwnListOf
  <2>2. Head(todo[c]) \notin lost => (Head(todo[c]) \in applied' <=> Head(todo[c]) \in applied)
    BY <1>1, <1>3, <1>5
  <2>3. TrackAt(c)'
    BY <1>1, <2>2 DEF TrackAt, Up
  <2>4. QED
    BY <2>1, <2>3
<1>11. QED
  BY <1>4, <1>5, <1>8, <1>9, <1>10

-----------------------------------------------------------------------------
(* At the start nobody works and nothing is recorded. *)
LEMMA MigrationsStart == MigrationsInit => MigrationsInv
<1> SUFFICES ASSUME MigrationsInit PROVE MigrationsInv
  OBVIOUS
<1>1. /\ applied = {} /\ records = <<>> /\ lock = {} /\ migrations = ListOf
      /\ saved = [c \in Calls |-> Absent] /\ stage = [c \in Calls |-> "idle"]
      /\ executed = [c \in Calls |-> <<>>] /\ todo = [c \in Calls |-> <<>>]
      /\ lost = {} /\ orphans = {} /\ faults = 0 /\ crashes = 0
  BY DEF MigrationsInit
<1>2. <<>> \in Seq(Migration) /\ IsInjective(<<>>) /\ ToSet(<<>>) = {}
  BY EmptySeq DEF IsInjective, ToSet
<1>3. MigrationsTypeOK
  BY <1>1, <1>2, ConstantsAre, TypesAre DEF Stages
<1>4. \A c \in Calls : stage[c] = "idle"
  BY <1>1
<1>5. LockHeld
  BY <1>1, <1>4 DEF LockHeld, Holding, Underway
<1>6. ListsInPlace
  BY <1>1, <1>4 DEF ListsInPlace, Lending, Underway
<1>7. \A c \in Calls : WorkAt(c) /\ TrackAt(c)
  BY <1>4 DEF WorkAt, TrackAt, Working, Deciding
<1>8. Matching /\ OrphansLost
  BY <1>1, <1>2 DEF Matching, Recorded, OrphansLost
<1>9. QED
  BY <1>3, <1>5, <1>6, <1>7, <1>8, MatchingIs DEF MigrationsInv

(* Every step keeps the invariant, if calls do not overlap as Overlap says. *)
LEMMA MigrationsKept ==
    ASSUME Overlap = FALSE, MigrationsInv, [MigrationsNext]_migrationVars
    PROVE  MigrationsInv'
<1>1. /\ MigrationsTypeOK /\ LockHeld /\ ListsInPlace /\ OrphansLost /\ Matching
      /\ \A c \in Calls : WorkAt(c) /\ TrackAt(c)
  BY MatchingIs DEF MigrationsInv
<1>2. ASSUME NEW c \in Calls, Step(c) \/ Call(c) \/ GiveUp(c) PROVE MigrationsInv'
  <2>1. LockHeld'
    BY <1>1, <1>2, LockStep
  <2>2. /\ ListsInPlace' /\ migrations' \in [Runners -> Seq(Migration)]
        /\ saved' \in [Calls -> Seq(Migration) \cup {Absent}]
    BY <1>1, <1>2, ListsStep
  <2>3. /\ applied' \subseteq Migration /\ lost' \subseteq Migration /\ lost \subseteq lost'
        /\ records' \in Seq(Migration) /\ IsInjective(records')
        /\ \E t \in Seq(Migration) : todo' = [todo EXCEPT ![c] = t]
        /\ \E e \in Seq(Migration) : executed' = [executed EXCEPT ![c] = e]
        /\ orphans' = orphans /\ faults' \in 0..MaxFaults /\ crashes' = crashes
    BY <1>1, <1>2, WorkTypes
  <2>4. /\ orphans \subseteq Cut /\ crashes \in 0..MaxCrashes /\ lock \subseteq Calls
        /\ todo \in [Calls -> Seq(Migration)] /\ executed \in [Calls -> Seq(Migration)]
    BY <1>1, TypesAre
  <2>5. todo' \in [Calls -> Seq(Migration)] /\ executed' \in [Calls -> Seq(Migration)]
    BY <2>3, <2>4
  <2>6. stage' \in [Calls -> Stages] /\ lock' \subseteq Calls
    BY <1>1, <1>2, <2>4, StageMoves
  <2>7. MigrationsTypeOK'
    BY <2>2, <2>3, <2>4, <2>5, <2>6 DEF MigrationsTypeOK, Stages, Cut
  <2>8. WorkAt(c)' /\ TrackAt(c)'
    BY <1>1, <1>2, WorkStep, TrackStep
  <2>9. \A d \in Calls : d # c => WorkAt(d)' /\ TrackAt(d)'
    BY <1>1, <1>2, OthersStep
  <2>10. OrphansLost'
    BY <1>1, <2>3 DEF OrphansLost
  <2>11. Matching'
    BY <1>1, <1>2, RecordsStep
  <2>12. RecordsMatchSchema'
    BY <2>7, <2>11 DEF RecordsMatchSchema, Matching, Recorded, AtTracking
  <2>13. QED
    BY <2>1, <2>2, <2>7, <2>8, <2>9, <2>10, <2>12 DEF MigrationsInv
<1>3. ASSUME NEW r \in Runners, Crash(r) PROVE MigrationsInv'
  <2>1. /\ LockHeld' /\ stage' \in [Calls -> Stages] /\ lock' \subseteq Calls
    BY <1>1, <1>3, LockCrash
  <2>2. /\ ListsInPlace' /\ migrations' \in [Runners -> Seq(Migration)]
        /\ saved' \in [Calls -> Seq(Migration) \cup {Absent}]
    BY <1>1, <1>3, ListsCrash
  <2>3. /\ Matching' /\ OrphansLost' /\ \A c \in Calls : (WorkAt(c) /\ TrackAt(c))'
        /\ lost' \subseteq Migration /\ orphans' \subseteq Cut
    BY <1>1, <1>3, CrashKeeps
  <2>4. /\ UNCHANGED <<applied, records, executed, todo, faults>>
        /\ crashes < MaxCrashes /\ crashes' = crashes + 1
    BY <1>3 DEF Crash
  <2>5. /\ applied \subseteq Migration /\ records \in Seq(Migration) /\ IsInjective(records)
        /\ executed \in [Calls -> Seq(Migration)] /\ todo \in [Calls -> Seq(Migration)]
        /\ faults \in 0..MaxFaults /\ crashes \in 0..MaxCrashes
    BY <1>1, TypesAre
  <2>6. crashes' \in 0..MaxCrashes
    BY <2>4, <2>5, ConstantsAre
  <2>7. MigrationsTypeOK'
    BY <2>1, <2>2, <2>3, <2>4, <2>5, <2>6 DEF MigrationsTypeOK, Stages, Cut
  <2>8. RecordsMatchSchema'
    BY <2>3, <2>7 DEF RecordsMatchSchema, Matching, Recorded, AtTracking
  <2>9. QED
    BY <2>1, <2>2, <2>3, <2>7, <2>8 DEF MigrationsInv
<1>4. ASSUME NEW o \in orphans, Orphan(o) PROVE MigrationsInv'
  <2>1. /\ Matching' /\ OrphansLost' /\ \A c \in Calls : (WorkAt(c) /\ TrackAt(c))'
        /\ applied' \subseteq Migration /\ records' \in Seq(Migration) /\ IsInjective(records')
    BY <1>1, <1>4, OrphanKeeps
  <2>2. /\ UNCHANGED <<lost, lock, migrations, saved, stage, executed, todo, faults, crashes>>
        /\ orphans' \subseteq orphans
    BY <1>4 DEF Orphan, calls, counts
  <2>3. MigrationsTypeOK'
    BY <1>1, <2>1, <2>2 DEF MigrationsTypeOK
  <2>4. LockHeld' /\ ListsInPlace'
    BY <1>1, <2>2 DEF LockHeld, ListsInPlace, Holding, Working, Underway, Lending, Apart
  <2>5. RecordsMatchSchema'
    BY <2>1, <2>3 DEF RecordsMatchSchema, Matching, Recorded, AtTracking
  <2>6. QED
    BY <2>1, <2>3, <2>4, <2>5 DEF MigrationsInv
<1>5. ASSUME UNCHANGED migrationVars PROVE MigrationsInv'
  <2>1. UNCHANGED <<applied, records, lost, orphans, lock, migrations, saved, stage, executed,
                    todo, faults, crashes>>
    BY <1>5 DEF migrationVars, server, calls, counts
  <2>2. MigrationsTypeOK' /\ LockHeld' /\ ListsInPlace' /\ OrphansLost'
    BY <1>1, <2>1 DEF MigrationsTypeOK, LockHeld, ListsInPlace, OrphansLost, Holding, Working,
                      Underway, Lending, Apart
  <2>3. \A c \in Calls : (WorkAt(c) /\ TrackAt(c))'
    BY <1>1, <2>1 DEF WorkAt, TrackAt, Working, Deciding, Up, OwnListOf
  <2>4. RecordsMatchSchema'
    BY <1>1, <2>1, <2>2 DEF RecordsMatchSchema, Matching, Recorded, AtTracking
  <2>5. QED
    BY <2>2, <2>3, <2>4 DEF MigrationsInv
<1>6. QED
  BY <1>2, <1>3, <1>4, <1>5 DEF MigrationsNext

(* The invariant of MigrationsSpec. *)
LEMMA MigrationsAlways == ASSUME Overlap = FALSE PROVE MigrationsSpec => []MigrationsInv
<1>1. MigrationsInv /\ [MigrationsNext]_migrationVars => MigrationsInv'
  BY MigrationsKept
<1>2. QED
  BY MigrationsStart, <1>1, PTL DEF MigrationsSpec

(* The advisory lock of MigrationRunner keeps calls apart: no two of them   *)
(* apply or revert at the same time, whichever processes they run in,       *)
(* whatever fails and whichever process dies, if nothing overlaps with      *)
(* revertLast() and nothing on the same runner with run(list).              *)
THEOREM MigrationsTakeTurns == ASSUME Overlap = FALSE PROVE MigrationsSpec => []OneAtATime
<1>1. MigrationsInv => OneAtATime
  BY OneWorks DEF MigrationsInv
<1>2. QED
  BY MigrationsAlways, <1>1, PTL

(* runUp and runDown keep the tracking table to the schema, but for the     *)
(* migration a call is at and those whose tracking failed or was cut off.   *)
THEOREM RecordsStayTrue == ASSUME Overlap = FALSE PROVE MigrationsSpec => []RecordsMatchSchema
<1>1. MigrationsInv => RecordsMatchSchema
  BY DEF MigrationsInv
<1>2. QED
  BY MigrationsAlways, <1>1, PTL

-----------------------------------------------------------------------------
(***************************************************************************)
(* What a call decided on stays right. Nobody else works while it decides  *)
(* (OneHolder), so its own records are the only ones: it adds what was not *)
(* there, or takes the last away, which is what it has to do next. Names   *)
(* that are lost are left out on both sides (Without).                     *)
(***************************************************************************)

(* No list names a migration twice, as the tracking table cannot. *)
NoRepeats ==
    /\ \A r \in Runners : IsInjective(ListOf[r])
    /\ \A c \in Calls : Given[c] # Absent => IsInjective(Given[c])

(* What a call has to do is not done yet. *)
StillDue(c) ==
    /\ IsInjective(todo[c])
    /\ \A m \in ToSet(todo[c]) \ lost : Up(c) <=> m \notin ToSet(records)

(* The records are those read, and more; or they are the first of those    *)
(* read, and what is still to be reverted are the last of them.            *)
ReadUp(before, now) == Begins(Migration, before, now)
ReadDown(before, now, rest) ==
    /\ Begins(Migration, now, before)
    /\ \E x \in Seq(Migration) : now = x \o rest

Reading(c) ==
    IF Up(c) THEN ReadUp(Without(executed[c], lost), Without(records, lost))
    ELSE ReadDown(Without(executed[c], lost), Without(records, lost),
                  Without(Reverse(todo[c]), lost))

Decided(c) == Deciding(c) => StillDue(c) /\ Reading(c)
DecisionsInv == MigrationsInv /\ \A c \in Calls : Decided(c)

(* The lists of names a reading is about. *)
LEMMA ReadingLists ==
    ASSUME MigrationsTypeOK, NEW c \in Calls
    PROVE  /\ executed[c] \in Seq(Migration) /\ todo[c] \in Seq(Migration)
           /\ records \in Seq(Migration) /\ IsInjective(records)
           /\ Without(executed[c], lost) \in Seq(Migration)
           /\ Without(records, lost) \in Seq(Migration) /\ IsInjective(Without(records, lost))
           /\ ToSet(Without(records, lost)) = ToSet(records) \ lost
           /\ Reverse(todo[c]) \in Seq(Migration)
           /\ Without(Reverse(todo[c]), lost) \in Seq(Migration)
<1>1. /\ executed[c] \in Seq(Migration) /\ todo[c] \in Seq(Migration)
      /\ records \in Seq(Migration) /\ IsInjective(records)
  BY TypesAre
<1>2. Reverse(todo[c]) \in Seq(Migration)
  BY <1>1, ReverseFacts
<1>3. \A s \in Seq(Migration) : /\ Without(s, lost) \in Seq(Migration)
                                /\ ToSet(Without(s, lost)) = ToSet(s) \ lost
                                /\ IsInjective(s) => IsInjective(Without(s, lost))
  BY WithoutFacts
<1>4. QED
  BY <1>1, <1>2, <1>3

(* The last name is taken out of what was read. *)
LEMMA ReadDownTakes ==
    ASSUME NEW b \in Seq(Migration), NEW n \in Seq(Migration), IsInjective(n),
           NEW rest \in Seq(Migration), NEW m \in Migration, ReadDown(b, n, Append(rest, m))
    PROVE  ReadDown(b, Without(n, {m}), rest)
<1>1. Begins(Migration, n, b)
  BY DEF ReadDown
<1>2. PICK x \in Seq(Migration) : n = x \o Append(rest, m)
  BY DEF ReadDown
<1>3. PICK y \in Seq(Migration) : y = x \o rest
  BY ConcatProperties
<1>4. n = Append(y, m)
  BY <1>2, <1>3, ConcatAppend
<1>5. m \notin ToSet(y)
  BY <1>4, AppendFacts
<1>6. Without(n, {m}) = y
  <2>1. Without(Append(y, m), {m}) = Without(y, {m})
    BY WithoutAppend
  <2>2. Without(y, {m}) = y
    BY <1>5, WithoutNothing
  <2>3. QED
    BY <1>4, <2>1, <2>2
<1>7. Begins(Migration, y, b)
  BY <1>1, <1>3, <1>4, BeginsLess
<1>8. QED
  BY <1>3, <1>6, <1>7 DEF ReadDown

-----------------------------------------------------------------------------
(* A call decides by what it has just read. *)
LEMMA DecideStep ==
    ASSUME NoRepeats, MigrationsInv, NEW c \in Calls, ReadExecuted(c)
    PROVE  Decided(c)'
<1>1. MigrationsTypeOK /\ LockHeld /\ ListsInPlace
  BY DEF MigrationsInv
<1>2. /\ stage \in [Calls -> Stages] /\ todo \in [Calls -> Seq(Migration)]
      /\ executed \in [Calls -> Seq(Migration)]
  BY <1>1, TypesAre
<1>3. /\ records' = records /\ lost' = lost
      /\ \/ stage'[c] = "releasing"
         \/ executed'[c] = records /\ todo'[c] = Chosen(c)
  BY <1>2 DEF ReadExecuted, GoTo, server
<1>4. CASE stage'[c] = "releasing"
  BY <1>4 DEF Decided, Deciding
<1>5. CASE executed'[c] = records /\ todo'[c] = Chosen(c)
  <2>1. migrations[RunnerOf[c]] = OwnListOf(c)
    BY <1>1, ListUsed DEF ReadExecuted, Underway
  <2>2. IsInjective(OwnListOf(c))
    BY ConstantsAre DEF NoRepeats, OwnListOf
  <2>3. /\ Chosen(c) \in Seq(Migration) /\ IsInjective(Chosen(c))
        /\ Up(c) => ToSet(Chosen(c)) \cap ToSet(records) = {}
        /\ ~Up(c) => /\ ToSet(Chosen(c)) \subseteq ToSet(records)
                     /\ \E pre \in Seq(Migration) : records = pre \o Reverse(Chosen(c))
    BY <1>1, <2>1, <2>2, ChosenFacts
  <2>4. StillDue(c)'
    BY <1>3, <1>5, <2>3 DEF StillDue, Up
  <2>5. PICK now \in Seq(Migration) : now = Without(records, lost)
    BY <1>1, ReadingLists
  <2>6. Begins(Migration, now, now)
    BY BeginsSelf
  <2>7. CASE Up(c)
    <3>1. ReadUp(now, now)
      BY <2>6 DEF ReadUp
    <3>2. QED
      BY <1>3, <1>5, <2>4, <2>5, <2>7, <3>1 DEF Decided, Reading, Up
  <2>8. CASE ~Up(c)
    <3>1. PICK pre \in Seq(Migration) : records = pre \o Reverse(Chosen(c))
      BY <2>3, <2>8
    <3>2. PICK back \in Seq(Migration) : back = Reverse(Chosen(c))
      BY <2>3, ReverseFacts
    <3>3. Without(pre \o back, lost) = Without(pre, lost) \o Without(back, lost)
      BY WithoutConcat
    <3>4. Without(pre, lost) \in Seq(Migration)
      BY WithoutFacts
    <3>5. ReadDown(now, now, Without(back, lost))
      BY <2>5, <2>6, <3>1, <3>2, <3>3, <3>4 DEF ReadDown
    <3>6. QED
      BY <1>3, <1>5, <2>4, <2>5, <2>8, <3>2, <3>5 DEF Decided, Reading, Up
  <2>9. QED
    BY <2>7, <2>8
<1>6. QED
  BY <1>3, <1>4, <1>5

(* A call records what it has done, and has the next to do. *)
LEMMA RecordedStep ==
    ASSUME MigrationsInv, NEW c \in Calls, Decided(c), stage[c] = "tracking", Record(c),
           todo'[c] = Tail(todo[c]), lost' = lost, executed' = executed
    PROVE  StillDue(c)' /\ Reading(c)'
<1>1. MigrationsTypeOK /\ WorkAt(c) /\ Working(c) /\ Deciding(c) /\ StillDue(c) /\ Reading(c)
  BY DEF MigrationsInv, Working, Deciding, Decided
<1>2. PICK m \in Migration : m = Head(todo[c])
  BY <1>1, AtHead
<1>3. PICK t \in Seq(Migration) : t = Tail(todo[c])
  BY <1>1, AtHead
<1>4. /\ ToSet(t) \subseteq ToSet(todo[c]) /\ IsInjective(t) /\ m \notin ToSet(t)
      /\ todo[c] \in Seq(Migration) /\ todo[c] # <<>>
  BY <1>1, <1>2, <1>3, AtHead, TypesAre DEF StillDue, WorkAt
<1>5. ToSet(records') = IF Up(c) THEN ToSet(records) \cup {m} ELSE ToSet(records) \ {m}
  BY <1>1, <1>2, RecordIs
<1>6. StillDue(c)'
  BY <1>1, <1>3, <1>4, <1>5 DEF StillDue, Up
<1>7. /\ executed[c] \in Seq(Migration) /\ records \in Seq(Migration)
      /\ Without(executed[c], lost) \in Seq(Migration)
      /\ Without(records, lost) \in Seq(Migration) /\ IsInjective(Without(records, lost))
      /\ ToSet(Without(records, lost)) = ToSet(records) \ lost
  BY <1>1, ReadingLists
<1>8. PICK now \in Seq(Migration) : now = Without(records, lost)
  BY <1>7
<1>9. PICK before \in Seq(Migration) : before = Without(executed[c], lost)
  BY <1>7
<1>10. CASE Up(c)
  <2>1. records' = Append(records, m)
    BY <1>2, <1>10 DEF Record
  <2>2. Without(Append(records, m), lost) = IF m \in lost THEN now ELSE Append(now, m)
    BY <1>7, <1>8, WithoutAppend
  <2>3. ReadUp(before, now)
    BY <1>1, <1>8, <1>9, <1>10 DEF Reading
  <2>4. ReadUp(before, Append(now, m))
    BY <2>3, BeginsMore DEF ReadUp
  <2>5. ReadUp(before, Without(records', lost))
    BY <2>1, <2>2, <2>3, <2>4
  <2>6. Reading(c)'
    BY <1>9, <1>10, <2>5 DEF Reading, Up
  <2>7. QED
    BY <1>6, <2>6
<1>11. CASE ~Up(c)
  <2>1. records' = Without(records, {m})
    BY <1>2, <1>11 DEF Record
  <2>2. Without(records', lost) = Without(now, {m})
    <3>1. \A s \in Seq(Migration) : \A gone, more :
            Without(Without(s, gone), more) = Without(s, gone \cup more)
      BY WithoutTwice
    <3>2. records \in Seq(Migration)
      BY <1>7
    <3>3. Without(Without(records, {m}), lost) = Without(records, {m} \cup lost)
      BY <3>1, <3>2
    <3>4. Without(Without(records, lost), {m}) = Without(records, lost \cup {m})
      BY <3>1, <3>2
    <3>5. {m} \cup lost = lost \cup {m}
      OBVIOUS
    <3>6. QED
      BY <1>8, <2>1, <3>3, <3>4, <3>5
  <2>3. PICK back \in Seq(Migration) : back = Reverse(t)
    BY ReverseFacts
  <2>4. PICK rest \in Seq(Migration) : rest = Without(back, lost)
    BY WithoutFacts
  <2>5. Without(Reverse(todo[c]), lost) = IF m \in lost THEN rest ELSE Append(rest, m)
    <3>1. Reverse(todo[c]) = Append(back, m)
      BY <1>2, <1>3, <1>4, <2>3, ReverseTail
    <3>2. Without(Append(back, m), lost) = IF m \in lost THEN rest ELSE Append(rest, m)
      BY <2>4, WithoutAppend
    <3>3. QED
      BY <3>1, <3>2
  <2>6. ReadDown(before, now, IF m \in lost THEN rest ELSE Append(rest, m))
    BY <1>1, <1>8, <1>9, <1>11, <2>5 DEF Reading
  <2>7. ReadDown(before, Without(now, {m}), rest)
    <3>1. CASE m \in lost
      <4>1. Without(now, {m}) = now
        <5>1. ToSet(now) \cap {m} = {}
          BY <1>7, <1>8, <3>1
        <5>2. QED
          BY <5>1, WithoutNothing
      <4>2. QED
        BY <2>6, <3>1, <4>1
    <3>2. CASE m \notin lost
      <4>1. IsInjective(now)
        BY <1>7, <1>8
      <4>2. ReadDown(before, now, Append(rest, m))
        BY <2>6, <3>2
      <4>3. QED
        BY <4>1, <4>2, ReadDownTakes
    <3>3. QED
      BY <3>1, <3>2
  <2>8. Reading(c)'
    BY <1>3, <1>9, <1>11, <2>2, <2>3, <2>4, <2>7 DEF Reading, Up
  <2>9. QED
    BY <1>6, <2>8
<1>12. QED
  BY <1>10, <1>11

(* Where nothing it decided by changes, a call's decision stays right. *)
LEMMA DecidedSame ==
    ASSUME NEW c \in Calls, Decided(c), Deciding(c)' => Deciding(c),
           UNCHANGED <<records, lost>>, executed'[c] = executed[c], todo'[c] = todo[c]
    PROVE  Decided(c)'
<1>1. StillDue(c) => StillDue(c)'
  BY DEF StillDue, Up
<1>2. Reading(c) => Reading(c)'
  BY DEF Reading, Up
<1>3. QED
  BY <1>1, <1>2 DEF Decided

(* A call's own step keeps its decision right. *)
LEMMA DecidedStep ==
    ASSUME NoRepeats, MigrationsInv, NEW c \in Calls, Decided(c), Step(c) \/ Call(c) \/ GiveUp(c)
    PROVE  Decided(c)'
<1>1. /\ stage \in [Calls -> Stages] /\ todo \in [Calls -> Seq(Migration)]
  BY TypesAre DEF MigrationsInv
<1>2. CASE Call(c) \/ GiveUp(c) \/ Acquire(c) \/ Stop(c)
  <2>1. stage'[c] \in {"waiting", "done", "locked", "releasing"}
    BY <1>1, <1>2 DEF Call, GiveUp, Acquire, Stop, GoTo, Ended
  <2>2. QED
    BY <2>1 DEF Decided, Deciding
<1>3. CASE ReadExecuted(c)
  BY <1>3, DecideStep
<1>4. CASE Start(c) \/ Migrate(c) \/ Release(c)
  <2>1. /\ UNCHANGED <<records, lost, executed>>
        /\ \/ stage'[c] \in {"releasing", "done"}
           \/ UNCHANGED todo /\ (Deciding(c)' => Deciding(c))
    BY <1>1, <1>4 DEF Start, Migrate, Release, GoTo, Ended, server, Deciding
  <2>2. CASE stage'[c] \in {"releasing", "done"}
    BY <2>2 DEF Decided, Deciding
  <2>3. CASE UNCHANGED todo /\ (Deciding(c)' => Deciding(c))
    BY <2>1, <2>3, DecidedSame
  <2>4. QED
    BY <2>1, <2>2, <2>3
<1>5. CASE Track(c)
  <2>1. /\ stage[c] = "tracking" /\ executed' = executed
        /\ \/ stage'[c] \in {"releasing", "done"}
           \/ Record(c) /\ todo'[c] = Tail(todo[c]) /\ lost' = lost
    BY <1>1, <1>5 DEF Track, GoTo, Ended
  <2>2. CASE stage'[c] \in {"releasing", "done"}
    BY <2>2 DEF Decided, Deciding
  <2>3. CASE Record(c) /\ todo'[c] = Tail(todo[c]) /\ lost' = lost
    BY <2>1, <2>3, RecordedStep DEF Decided
  <2>4. QED
    BY <2>1, <2>2, <2>3
<1>6. QED
  BY <1>2, <1>3, <1>4, <1>5 DEF Step

(* When a process dies nobody else was working, if somebody is left. *)
LEMMA DecidedCrash ==
    ASSUME MigrationsInv, NEW r \in Runners, Crash(r), NEW c \in Calls, Decided(c)
    PROVE  Decided(c)'
<1> SUFFICES ASSUME Deciding(c)' PROVE Decided(c)'
  BY DEF Decided
<1> DEFINE dead == {d \in Calls : RunnerOf[d] = r /\ Underway(d)}
           cut == {[up |-> Up(d), place |-> stage[d], name |-> Head(todo[d])] :
                     d \in {e \in dead : Working(e)}}
<1>1. MigrationsTypeOK /\ LockHeld
  BY DEF MigrationsInv
<1>2. \A d \in Calls : IF d \in dead THEN stage'[d] = "crashed" ELSE stage'[d] = stage[d]
  BY <1>1, LockCrash
<1>3. Deciding(c) /\ c \notin dead
  BY <1>2 DEF Deciding
<1>4. {e \in dead : Working(e)} = {}
  BY <1>1, <1>3, OneHolder DEF Holding, Deciding, Working
<1>5. cut = {}
  BY <1>4
<1>6. lost' = lost \cup {o.name : o \in cut} /\ UNCHANGED <<records, executed, todo>>
  BY DEF Crash
<1>7. lost' = lost
  BY <1>5, <1>6
<1>8. QED
  BY <1>3, <1>6, <1>7, DecidedSame

(* What the server still does for a dead process is about lost names. *)
LEMMA DecidedOrphan ==
    ASSUME MigrationsInv, NEW o \in orphans, Orphan(o), NEW c \in Calls, Decided(c)
    PROVE  Decided(c)'
<1>1. /\ o.name \in lost /\ o.name \in Migration /\ records \in Seq(Migration)
      /\ UNCHANGED <<lost, stage, todo, executed>>
  BY TypesAre DEF MigrationsInv, OrphansLost, Orphan, Cut
<1>2. PICK m \in Migration : m = o.name
  BY <1>1
<1>3. \/ records' = records \/ records' = AddTo(records, m) \/ records' = Without(records, {m})
  BY <1>2 DEF Orphan
<1>4. Without(Append(records, m), lost) = Without(records, lost)
  BY <1>1, <1>2, WithoutAppend
<1>5. Without(Without(records, {m}), lost) = Without(records, lost)
  <2>1. \A s \in Seq(Migration) : \A gone, more :
          Without(Without(s, gone), more) = Without(s, gone \cup more)
    BY WithoutTwice
  <2>2. Without(Without(records, {m}), lost) = Without(records, {m} \cup lost)
    BY <1>1, <2>1
  <2>3. {m} \cup lost = lost
    BY <1>1, <1>2
  <2>4. QED
    BY <2>2, <2>3
<1>6. Without(records', lost) = Without(records, lost)
  BY <1>3, <1>4, <1>5 DEF AddTo
<1>7. \A x : x \notin lost => (x \in ToSet(records') <=> x \in ToSet(records))
  <2>1. records' \in Seq(Migration)
    BY OrphanKeeps, MatchingIs DEF MigrationsInv
  <2>2. /\ ToSet(Without(records', lost)) = ToSet(records') \ lost
        /\ ToSet(Without(records, lost)) = ToSet(records) \ lost
    BY <1>1, <2>1, WithoutFacts
  <2>3. QED
    BY <1>6, <2>2
<1>8. StillDue(c) => StillDue(c)'
  BY <1>1, <1>7 DEF StillDue, Up
<1>9. Reading(c) => Reading(c)'
  BY <1>1, <1>6 DEF Reading, Up
<1>10. QED
  BY <1>1, <1>8, <1>9 DEF Decided, Deciding

(* Every step keeps decisions right. *)
LEMMA DecisionsKept ==
    ASSUME Overlap = FALSE, NoRepeats, DecisionsInv, [MigrationsNext]_migrationVars
    PROVE  DecisionsInv'
<1>1. MigrationsInv /\ MigrationsInv' /\ \A c \in Calls : Decided(c)
  BY MigrationsKept DEF DecisionsInv
<1>2. ASSUME NEW c \in Calls, Step(c) \/ Call(c) \/ GiveUp(c), NEW d \in Calls PROVE Decided(d)'
  <2>1. CASE d = c
    BY <1>1, <1>2, <2>1, DecidedStep
  <2>2. CASE d # c
    <3>1. /\ stage'[d] = stage[d] /\ todo'[d] = todo[d] /\ executed'[d] = executed[d]
          /\ Deciding(d) => UNCHANGED <<applied, records, lost>>
      BY <1>1, <1>2, <2>2, OthersStep DEF MigrationsInv
    <3>2. Deciding(d)' <=> Deciding(d)
      BY <3>1 DEF Deciding
    <3>3. CASE Deciding(d)
      BY <1>1, <3>1, <3>3, DecidedSame
    <3>4. CASE ~Deciding(d)
      BY <3>2, <3>4 DEF Decided
    <3>5. QED
      BY <3>3, <3>4
  <2>3. QED
    BY <2>1, <2>2
<1>3. ASSUME NEW r \in Runners, Crash(r), NEW d \in Calls PROVE Decided(d)'
  BY <1>1, <1>3, DecidedCrash
<1>4. ASSUME NEW o \in orphans, Orphan(o), NEW d \in Calls PROVE Decided(d)'
  BY <1>1, <1>4, DecidedOrphan
<1>5. ASSUME UNCHANGED migrationVars, NEW d \in Calls PROVE Decided(d)'
  <2>1. UNCHANGED <<records, lost, stage, executed, todo>>
    BY <1>5 DEF migrationVars, server
  <2>2. QED
    BY <1>1, <2>1, DecidedSame DEF Deciding
<1>6. \A d \in Calls : Decided(d)'
  BY <1>2, <1>3, <1>4, <1>5 DEF MigrationsNext
<1>7. QED
  BY <1>1, <1>6 DEF DecisionsInv, Decided, Deciding, StillDue, Reading, Up

(* The invariant says that decisions hold. *)
LEMMA DecisionsAre == DecisionsInv => DecisionsHold
<1> SUFFICES ASSUME DecisionsInv PROVE DecisionsHold
  OBVIOUS
<1>1. MigrationsInv /\ MigrationsTypeOK /\ LockHeld /\ Matching /\ \A c \in Calls : Decided(c)
  BY MatchingIs DEF DecisionsInv, MigrationsInv
<1>2. ASSUME NEW c \in Calls, Deciding(c)
      PROVE  LET before == Without(executed[c], lost)
                 now == Without(records, lost)
             IN IF Up(c) THEN IsPrefix(before, now) ELSE IsPrefix(now, before)
  <2>1. PICK before \in Seq(Migration) : before = Without(executed[c], lost)
    BY <1>1, ReadingLists
  <2>2. PICK now \in Seq(Migration) : now = Without(records, lost)
    BY <1>1, ReadingLists
  <2>3. Reading(c)
    BY <1>1, <1>2 DEF Decided
  <2>4. CASE Up(c)
    <3>1. IsPrefix(before, now)
      BY <2>1, <2>2, <2>3, <2>4, BeginsPrefix DEF Reading, ReadUp
    <3>2. QED
      BY <2>1, <2>2, <2>4, <3>1
  <2>5. CASE ~Up(c)
    <3>1. IsPrefix(now, before)
      BY <2>1, <2>2, <2>3, <2>5, BeginsPrefix DEF Reading, ReadDown
    <3>2. QED
      BY <2>1, <2>2, <2>5, <3>1
  <2>6. QED
    BY <2>4, <2>5
<1>3. ReadStaysTrue
  BY <1>2 DEF ReadStaysTrue, Deciding
<1>4. ASSUME NEW c \in Calls, stage[c] = "running", Head(todo[c]) \notin lost
      PROVE  Up(c) <=> Head(todo[c]) \notin applied
  <2>1. PICK m \in Migration : m = Head(todo[c])
    BY <1>1, <1>4, AtHead DEF MigrationsInv, Working
  <2>2. m \in ToSet(todo[c])
    BY <1>1, <1>4, <2>1, AtHead DEF MigrationsInv, Working
  <2>3. Up(c) <=> m \notin ToSet(records)
    BY <1>1, <1>4, <2>1, <2>2 DEF Decided, Deciding, StillDue
  <2>4. ~AtTracking(m)
    <3>1. OneAtATime
      BY <1>1, OneWorks
    <3>2. QED
      BY <1>4, <3>1 DEF AtTracking, OneAtATime, Working
  <2>5. Recorded(m)
    BY <1>1, <1>4, <2>1, <2>4 DEF Matching
  <2>6. QED
    BY <2>1, <2>3, <2>5 DEF Recorded
<1>5. WorkIsDue
  BY <1>4 DEF WorkIsDue
<1>6. OwnList
  BY <1>1 DEF OwnList, MigrationsInv, WorkAt, OwnListOf
<1>7. QED
  BY <1>3, <1>5, <1>6 DEF DecisionsHold

(* runAll, rollback and revertLast work from one reading of the tracking    *)
(* table: it stays true while they work, so that nothing is applied twice   *)
(* or reverted when it is not applied, and what they work on is from the    *)
(* list they were to use, if no list names a migration twice.               *)
THEOREM DecisionsStayTrue ==
    ASSUME Overlap = FALSE, NoRepeats PROVE MigrationsSpec => []DecisionsHold
<1>1. MigrationsInit => DecisionsInv
  <2> SUFFICES ASSUME MigrationsInit PROVE DecisionsInv
    OBVIOUS
  <2>1. \A c \in Calls : Decided(c)
    BY DEF MigrationsInit, Decided, Deciding
  <2>2. QED
    BY <2>1, MigrationsStart DEF DecisionsInv
<1>2. DecisionsInv /\ [MigrationsNext]_migrationVars => DecisionsInv'
  BY DecisionsKept
<1>3. QED
  BY <1>1, <1>2, DecisionsAre, PTL DEF MigrationsSpec
=============================================================================
