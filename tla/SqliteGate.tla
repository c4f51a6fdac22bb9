----------------------------- MODULE SqliteGate -----------------------------
(***************************************************************************)
(* The one SQLite handle and the turns taken on it:                        *)
(* src/src/dialects/sqlite/SqliteTransactionGate.ts, the sessions of       *)
(* SqliteDataSource.ts that use it and the flows of TransactionFlow.ts.    *)
(*                                                                         *)
(* A task is a transaction (named by its flow) or a single statement. One  *)
(* action is the code between two awaits: JavaScript runs it without       *)
(* interruption, and everything else may happen at the await.              *)
(***************************************************************************)
EXTENDS Naturals, Sequences, SequencesExt, FiniteSets

CONSTANTS
    Flows,          \* the transactions the ORM opens, each in a flow of its own
    Stmts,          \* statements run through the connector
    Outer,          \* Outer[f]: the flow f was opened inside, or None
    FlowOf,         \* FlowOf[s]: the flow statement s runs in, or None
    TimeoutEnabled, \* pool.acquireTimeoutMs > 0
    None            \* no flow

Tasks == Flows \cup Stmts

ASSUME GateAssumption ==
    /\ Flows \cap Stmts = {}
    /\ None \notin Tasks
    /\ Outer \in [Flows -> Flows \cup {None}]
    /\ FlowOf \in [Stmts -> Flows \cup {None}]
    /\ TimeoutEnabled \in BOOLEAN
    /\ \A f \in Flows : Outer[f] # f
    /\ \A f, g \in Flows : Outer[f] = g => Outer[g] = None

VARIABLES
    taken,      \* SqliteTransactionGate.taken
    holder,     \* SqliteTransactionGate.holder
    waiters,    \* SqliteTransactionGate.waiters
    pc,         \* where each task is
    dbTx,       \* the transaction open on the handle (SQLite's own state)
    inTx,       \* inTx[f]: SqliteDataSource.inTransaction of f's session
    ranIn       \* history: the transaction each statement ran inside

vars == <<taken, holder, waiters, pc, dbTx, inTx, ranIn>>

FlowStates == {"idle", "waiting", "granted", "turn", "body", "ending", "done",
               "refused", "timedout", "failed", "closed", "left"}
StmtStates == {"idle", "waiting", "granted", "done", "timedout"}

(* The flows the async context of a task runs in: its own and, through     *)
(* `outer`, the one that flow was opened inside.                           *)
Chain(f) == IF f = None THEN {} ELSE {f, Outer[f]} \ {None}
Context(t) == IF t \in Flows THEN Chain(Outer[t]) ELSE Chain(FlowOf[t])

(* Faulty variants: any holder counts as one's own; only the innermost     *)
(* flow is looked at, not the ones it was opened inside.                   *)
HeldByFlowOf_Anyone(t) == holder # None
HeldByFlowOf_Innermost(t) ==
    holder # None /\ holder = IF t \in Flows THEN t ELSE FlowOf[t]

(* runsInFlow(holder) as seen by task t. A transaction asks for the gate   *)
(* from inside the flow runInTransactionFlow gave it, so it counts itself. *)
HeldByFlowOf(t) ==
    /\ holder # None
    /\ holder \in Context(t) \cup {t}

Init ==
    /\ taken = FALSE
    /\ holder = None
    /\ waiters = <<>>
    /\ pc = [t \in Tasks |-> "idle"]
    /\ dbTx = None
    /\ inTx = [f \in Flows |-> FALSE]
    /\ ranIn = [s \in Stmts |-> None]

-----------------------------------------------------------------------------
(* Faulty variant: the gate is freed although the turn was handed on.      *)
PassTurn_Freed(done, outcome) ==
    /\ taken' = FALSE
    /\ waiters' = IF waiters = <<>> THEN waiters ELSE Tail(waiters)
    /\ pc' = IF waiters = <<>> THEN [pc EXCEPT ![done] = outcome]
             ELSE [pc EXCEPT ![done] = outcome, ![Head(waiters)] = "granted"]

(* passTurn: the turn goes straight to the head of the queue, which        *)
(* resumes in a later microtask, or is given up when nobody waits.         *)
PassTurn(done, outcome) ==
    IF waiters = <<>>
    THEN /\ taken' = FALSE
         /\ waiters' = waiters
         /\ pc' = [pc EXCEPT ![done] = outcome]
    ELSE /\ taken' = taken
         /\ waiters' = Tail(waiters)
         /\ pc' = [pc EXCEPT ![done] = outcome, ![Head(waiters)] = "granted"]

(* gate().end(turn): only the flow that holds the connection passes it on. *)
EndTurn(f, outcome) ==
    IF holder = f
    THEN /\ holder' = None
         /\ PassTurn(f, outcome)
    ELSE /\ pc' = [pc EXCEPT ![f] = outcome]
         /\ UNCHANGED <<taken, holder, waiters>>

(* Work of a flow starts once its transaction has begun. It may outlive    *)
(* the transaction: a promise nobody awaited keeps the async context.      *)
Started(f) == f # None => pc[f] \in {"body", "ending", "done", "closed"}

(* begin(flow): a transaction asked for inside the one that holds the      *)
(* connection is refused before BEGIN; otherwise it takes the free         *)
(* connection or queues.                                                   *)
RequestBegin(f) ==
    /\ pc[f] = "idle"
    /\ Started(Outer[f])
    /\ UNCHANGED <<dbTx, inTx, ranIn>>
    /\ \/ /\ HeldByFlowOf(f)
          /\ pc' = [pc EXCEPT ![f] = "refused"]
          /\ UNCHANGED <<taken, holder, waiters>>
       \/ /\ ~HeldByFlowOf(f)
          /\ taken
          /\ waiters' = Append(waiters, f)
          /\ pc' = [pc EXCEPT ![f] = "waiting"]
          /\ UNCHANGED <<taken, holder>>
       \/ /\ ~HeldByFlowOf(f)
          /\ ~taken
          /\ taken' = TRUE
          /\ holder' = f
          /\ pc' = [pc EXCEPT ![f] = "turn"]
          /\ UNCHANGED waiters

(* begin() resumes after the queue granted its turn. *)
ResumeBegin(f) ==
    /\ pc[f] = "granted"
    /\ holder' = f
    /\ pc' = [pc EXCEPT ![f] = "turn"]
    /\ UNCHANGED <<taken, waiters, dbTx, inTx, ranIn>>

(* BEGIN on the handle. It fails when a transaction is already open there, *)
(* and may fail for the database's own reasons; then the turn is given     *)
(* back.                                                                   *)
ExecBegin(f) ==
    /\ pc[f] = "turn"
    /\ UNCHANGED ranIn
    /\ \/ /\ dbTx = None
          /\ dbTx' = f
          /\ inTx' = [inTx EXCEPT ![f] = TRUE]
          /\ pc' = [pc EXCEPT ![f] = "body"]
          /\ UNCHANGED <<taken, holder, waiters>>
       \/ /\ EndTurn(f, "failed")
          /\ UNCHANGED <<dbTx, inTx>>

(* COMMIT or ROLLBACK on the handle. Either ends whatever transaction is   *)
(* open there; a COMMIT that fails is followed by a ROLLBACK.              *)
ExecEnd(f) ==
    /\ pc[f] = "body"
    /\ inTx[f]
    /\ dbTx' = None
    /\ pc' = [pc EXCEPT ![f] = "ending"]
    /\ UNCHANGED <<taken, holder, waiters, inTx, ranIn>>

(* The finally block of commit() and rollback(). *)
FinishEnd(f) ==
    /\ pc[f] = "ending"
    /\ inTx' = [inTx EXCEPT ![f] = FALSE]
    /\ EndTurn(f, "done")
    /\ UNCHANGED <<dbTx, ranIn>>

(* Faulty variant: ROLLBACK whether or not this session has begun.         *)
EndAgain_Unchecked(f) ==
    /\ pc[f] \in {"done", "failed", "refused", "timedout"}
    /\ dbTx' = None
    /\ pc' = [pc EXCEPT ![f] = IF @ = "done" THEN "closed" ELSE "left"]
    /\ UNCHANGED <<taken, holder, waiters, inTx, ranIn>>

(* rollback() of the caller whose COMMIT or BEGIN failed, and close() of   *)
(* every session: ROLLBACK ends whatever transaction is open on the        *)
(* handle, so it is issued only for one this session began.                *)
EndAgain(f) ==
    /\ pc[f] \in {"done", "failed", "refused", "timedout"}
    /\ dbTx' = IF inTx[f] THEN None ELSE dbTx
    /\ pc' = [pc EXCEPT ![f] = IF @ = "done" THEN "closed" ELSE "left"]
    /\ UNCHANGED <<taken, holder, waiters, inTx, ranIn>>

(* Faulty variant: the connection is free when no transaction holds it,    *)
(* also when the turn was just given to a waiter.                          *)
RunStatement_Overtakes(s) ==
    /\ pc[s] = "idle"
    /\ Started(FlowOf[s])
    /\ UNCHANGED <<taken, holder, dbTx, inTx>>
    /\ \/ /\ holder = None \/ HeldByFlowOf(s)
          /\ ranIn' = [ranIn EXCEPT ![s] = dbTx]
          /\ pc' = [pc EXCEPT ![s] = "done"]
          /\ UNCHANGED waiters
       \/ /\ holder # None /\ ~HeldByFlowOf(s)
          /\ waiters' = Append(waiters, s)
          /\ pc' = [pc EXCEPT ![s] = "waiting"]
          /\ UNCHANGED ranIn

(* run(): at once on a free connection and inside the flow's own           *)
(* transaction, in its turn otherwise.                                     *)
RunStatement(s) ==
    /\ pc[s] = "idle"
    /\ Started(FlowOf[s])
    /\ UNCHANGED <<taken, holder, dbTx, inTx>>
    /\ \/ /\ ~taken \/ HeldByFlowOf(s)
          /\ ranIn' = [ranIn EXCEPT ![s] = dbTx]
          /\ pc' = [pc EXCEPT ![s] = "done"]
          /\ UNCHANGED waiters
       \/ /\ taken /\ ~HeldByFlowOf(s)
          /\ waiters' = Append(waiters, s)
          /\ pc' = [pc EXCEPT ![s] = "waiting"]
          /\ UNCHANGED ranIn

(* Faulty variants: a statement in its turn holds the connection like a    *)
(* transaction; it keeps the turn.                                         *)
ResumeStatement_KeepsTurn(s) ==
    /\ pc[s] = "granted"
    /\ ranIn' = [ranIn EXCEPT ![s] = dbTx]
    /\ pc' = [pc EXCEPT ![s] = "done"]
    /\ UNCHANGED <<taken, holder, waiters, dbTx, inTx>>

(* runInTurn() resumes: the statement runs and passes the turn on in the   *)
(* same synchronous stretch.                                               *)
ResumeStatement(s) ==
    /\ pc[s] = "granted"
    /\ ranIn' = [ranIn EXCEPT ![s] = dbTx]
    /\ PassTurn(s, "done")
    /\ UNCHANGED <<holder, dbTx, inTx>>

(* The timer of waitForTurn: the waiter leaves the queue, wherever it is.  *)
TimeOut(t) ==
    /\ TimeoutEnabled
    /\ pc[t] = "waiting"
    /\ \E i \in 1..Len(waiters) :
          /\ waiters[i] = t
          /\ waiters' = RemoveAt(waiters, i)
    /\ pc' = [pc EXCEPT ![t] = "timedout"]
    /\ UNCHANGED <<taken, holder, dbTx, inTx, ranIn>>

Next ==
    \/ \E f \in Flows :
          \/ RequestBegin(f) \/ ResumeBegin(f) \/ ExecBegin(f)
          \/ ExecEnd(f) \/ FinishEnd(f) \/ EndAgain(f)
    \/ \E s \in Stmts : RunStatement(s) \/ ResumeStatement(s)
    \/ \E t \in Tasks : TimeOut(t)

(* A promise that was resolved is resumed, and a transaction's callback    *)
(* returns or throws: the steps that follow a request are not optional.    *)
Fairness ==
    /\ \A f \in Flows :
          WF_vars(ResumeBegin(f) \/ ExecBegin(f) \/ ExecEnd(f) \/ FinishEnd(f))
    /\ \A s \in Stmts : WF_vars(ResumeStatement(s))

Spec == Init /\ [][Next]_vars
FairSpec == Spec /\ Fairness

-----------------------------------------------------------------------------
TypeOK ==
    /\ taken \in BOOLEAN
    /\ holder \in Flows \cup {None}
    /\ waiters \in Seq(Tasks)
    /\ pc \in [Tasks -> FlowStates \cup StmtStates]
    /\ dbTx \in Flows \cup {None}
    /\ inTx \in [Flows -> BOOLEAN]
    /\ ranIn \in [Stmts -> Flows \cup {None}]

(* Who has the turn: the transaction that holds the connection, or a       *)
(* waiter that was granted it and has not resumed.                         *)
HasTurn(t) == pc[t] = "granted" \/ holder = t

(* The turn is neither lost nor given twice: the gate is taken exactly     *)
(* while one task has the turn (passTurn, waitForTurn, end). A lost turn   *)
(* leaves the connection taken with nobody to give it back.                *)
OneTurn ==
    /\ \A t, u \in Tasks : HasTurn(t) /\ HasTurn(u) => t = u
    /\ taken <=> \E t \in Tasks : HasTurn(t)

(* Nobody queues for a connection nobody has (run and begin against        *)
(* passTurn).                                                              *)
NoIdleWait == ~taken => waiters = <<>>

(* A transaction open on the handle has the turn, so two flows never share *)
(* one BEGIN (the class comment of SqliteTransactionGate), and it stays    *)
(* open until its own session ends it (SqliteDataSource.rollback).         *)
OpenHoldsTurn ==
    /\ dbTx # None => holder = dbTx
    /\ \A f \in Flows : pc[f] = "body" => dbTx = f
    /\ \A f \in Flows : inTx[f] => holder = f

(* The three together: one turn, nobody idle in front of a free gate, the  *)
(* open transaction where the turn is, whatever mixture of failed BEGINs,  *)
(* COMMITs, second ROLLBACKs and timers went before (SqliteTransactionGate, SqliteDataSource).*)
TurnsAreSound == TypeOK /\ OneTurn /\ NoIdleWait /\ OpenHoldsTurn

(* A statement never runs inside a transaction of another flow: it cannot  *)
(* read rows that are then rolled back, nor be rolled back with them.      *)
NoForeignStatement ==
    \A s \in Stmts : ranIn[s] \in Context(s) \cup {None}

(* The holder never waits for a task of its own flow, which would wait for *)
(* the holder (the refusal in begin, heldByCurrentFlow in run).            *)
NoSelfWait ==
    \A i \in 1..Len(waiters) :
        holder # None => holder \notin Context(waiters[i]) \cup {waiters[i]}

(* Everyone who queued is served as long as transaction callbacks end,     *)
(* unless its own timer fires first. No timer is under fairness, so none   *)
(* is needed to get the queue moving (waitForTurn, passTurn).              *)
EveryWaiterServed ==
    \A t \in Tasks : pc[t] = "waiting" ~> pc[t] \in {"done", "failed", "timedout"}

(* The gate's callers stand in one line: who has the turn, then whoever    *)
(* waits. They are served in the order they asked, whatever mixture of     *)
(* failed BEGINs, statements that need no turn and timers goes on ("one    *)
(* transaction at a time, in the order they asked for it ... any other     *)
(* statement waits for COMMIT or ROLLBACK and runs in its turn"); nobody   *)
(* comes between the end of a turn and the waiter it was given to.         *)
Line == IF taken THEN <<CHOOSE t \in Tasks : HasTurn(t)>> \o waiters ELSE <<>>

Serial ==
    INSTANCE SerialConnection WITH
        line <- Line,
        open <- dbTx,
        ran <- {s \in Stmts : pc[s] = "done"},
        Family <- [s \in Stmts |-> Context(s)]
ImplementsSerial == Serial!Spec
=============================================================================
