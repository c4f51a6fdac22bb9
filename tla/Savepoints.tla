----------------------------- MODULE Savepoints -----------------------------
(***************************************************************************)
(* Savepoints and the objects a rolled-back write has touched: the session *)
(* (src/src/dialects/TransactionSessionManager.ts), the writes that put    *)
(* generated keys, foreign keys and timestamps on the caller's objects     *)
(* (src/src/core/entity-manager/rollback-restore.ts) and NESTED            *)
(* transactions, which are savepoints on the session they join             *)
(* (TransactionRunner.transaction, Transactional).                         *)
(*                                                                         *)
(* A call has its effect on the server when it is issued, in the order of  *)
(* issue, for a connection answers in order; its effect in memory follows  *)
(* when the caller goes on. The value of an object stands for all that a   *)
(* write puts on it; it is the number of the write or assignment that gave *)
(* it, and 0 before any.                                                   *)
(***************************************************************************)
EXTENDS Naturals, Sequences, SequencesExt, Lists

CONSTANTS
    Objs,       \* the caller's objects
    Names,      \* savepoint names
    Servers,    \* "replace": a savepoint replaces its namesake (MySQL),
                \* "stack": it hides it (PostgreSQL, SQLite)
    MaxValues,  \* bound: writes and assignments
    MaxPoints,  \* bound: savepoints and marks at a time
    Overlap     \* several calls may be under way (Promise.all)

ASSUME SavepointsAssumption ==
    /\ Servers \subseteq {"replace", "stack"}
    /\ MaxValues \in Nat /\ MaxPoints \in Nat
    /\ Overlap \in BOOLEAN

VARIABLES
    server,     \* the kind of server
    log,        \* the writes and assignments so far, in order
    rolledBack, \* those of them the server has rolled back
    points,     \* the server's savepoints, with the length of log at each
    mem,        \* mem[o]: the value the object holds
    transactionActive,
    undos,      \* rollbackUndos
    marks,      \* savepointMarks
    calls       \* calls whose promise has not resolved

rows == <<log, rolledBack>>
session == <<transactionActive, undos, marks>>
savepointsVars == <<server, rows, points, mem, session, calls>>

SavepointsInit ==
    /\ server \in Servers
    /\ log = <<>>
    /\ rolledBack = {}
    /\ points = <<>>
    /\ mem = [o \in Objs |-> 0]
    /\ transactionActive = TRUE
    /\ undos = <<>>
    /\ marks = <<>>
    /\ calls = {}

-----------------------------------------------------------------------------
(* ROLLBACK of the writes after the n-th event; assignments are not of the *)
(* server.                                                                 *)
RollBackAfter(n) ==
    rolledBack' = rolledBack \cup {i \in (n + 1)..Len(log) : log[i].by = "write"}

(* Faulty variant: the value from before the write goes back whatever has  *)
(* become of the object since.                                             *)
Undo_CallerLoses(u, m) == [m EXCEPT ![u.obj] = u.before]

(* undo(): a value assigned since the write stays. *)
Undo(u, m) == IF m[u.obj] = u.after THEN [m EXCEPT ![u.obj] = u.before] ELSE m

(* runRollbackUndos: what is left in memory when all but the first n of the *)
(* undos us have run, newest first.                                        *)
Undoing(us, n) ==
    LET back[k \in 0..Len(us) - n] ==
          IF k = 0 THEN mem ELSE Undo(us[Len(us) - k + 1], back[k - 1])
    IN back[Len(us) - n]

RunUndos(n) == mem' = Undoing(undos, n) /\ undos' = SubSeq(undos, 1, n)

(* The position of the last savepoint or mark of that name. *)
LastNamed(s, n) == CHOOSE i \in DOMAIN s :
    s[i].name = n /\ \A j \in DOMAIN s : j > i => s[j].name # n

Named(s, n) == \E i \in DOMAIN s : s[i].name = n

Writing(o) == \E c \in calls : c.op = "write" /\ c.obj = o

(* The caller may issue the next call. *)
Ready == transactionActive /\ (Overlap \/ calls = {})

-----------------------------------------------------------------------------
(* save() and its like: the object is looked at, the statement is sent. *)
Write(o) ==
    /\ Ready
    /\ ~Writing(o)
    /\ Len(log) < MaxValues
    /\ log' = Append(log, [obj |-> o, by |-> "write"])
    /\ calls' = calls \cup
         {[op |-> "write", obj |-> o, before |-> mem[o], after |-> Len(log) + 1]}
    /\ UNCHANGED <<server, rolledBack, points, mem, session>>

(* The write returns or throws; what it left on the object is compared     *)
(* with what was there, and onRollback() notes the difference.             *)
WriteDone ==
    \E c \in calls :
        /\ c.op = "write"
        /\ calls' = calls \ {c}
        /\ mem' = [mem EXCEPT ![c.obj] = c.after]
        /\ undos' = IF transactionActive
                    THEN Append(undos, [obj |-> c.obj, before |-> c.before, after |-> c.after])
                    ELSE undos
        /\ UNCHANGED <<server, rows, points, transactionActive, marks>>

(* The caller assigns a value of its own. *)
Assign(o) ==
    /\ ~Writing(o)
    /\ Len(log) < MaxValues
    /\ log' = Append(log, [obj |-> o, by |-> "caller"])
    /\ mem' = [mem EXCEPT ![o] = Len(log) + 1]
    /\ UNCHANGED <<server, rolledBack, points, session, calls>>

(* The savepoints left when one of that name is taken. *)
Kept(n) ==
    IF server = "replace" THEN Without(points, {p \in ToSet(points) : p.name = n}) ELSE points

(* savepoint(), also at the start of a NESTED transaction. *)
Savepoint(n) ==
    /\ Ready
    /\ Len(points) < MaxPoints /\ Len(marks) < MaxPoints
    /\ points' = Append(Kept(n), [name |-> n, at |-> Len(log)])
    /\ calls' = calls \cup {[op |-> "savepoint", name |-> n]}
    /\ UNCHANGED <<server, rows, mem, session>>

SavepointDone ==
    \E c \in calls :
        /\ c.op = "savepoint"
        /\ calls' = calls \ {c}
        /\ marks' = Append(marks, [name |-> c.name, undoCount |-> Len(undos)])
        /\ UNCHANGED <<server, rows, points, mem, transactionActive, undos>>

(* rollbackTo(), also when a NESTED transaction throws, by the caller that *)
(* awaited its savepoint(). An unknown name is an error of the server and  *)
(* changes nothing.                                                        *)
RollbackTo(n) ==
    /\ Ready
    /\ Named(points, n)
    /\ [op |-> "savepoint", name |-> n] \notin calls
    /\ LET i == LastNamed(points, n)
       IN points' = SubSeq(points, 1, i) /\ RollBackAfter(points[i].at)
    /\ calls' = calls \cup {[op |-> "rollbackTo", name |-> n]}
    /\ UNCHANGED <<server, log, mem, session>>

(* "The savepoint survives ROLLBACK TO; the ones taken after it do not."   *)
MarksUpTo(i) == SubSeq(marks, 1, i)

(* rollbackTo() returns. *)
RollbackToDone ==
    \E c \in calls :
        /\ c.op = "rollbackTo"
        /\ calls' = calls \ {c}
        /\ IF Named(marks, c.name)
           THEN LET i == LastNamed(marks, c.name)
                IN marks' = MarksUpTo(i) /\ RunUndos(marks[i].undoCount)
           ELSE UNCHANGED <<mem, undos, marks>>
        /\ UNCHANGED <<server, rows, points, transactionActive>>

(* rollback(), when the work of the transaction has been awaited. The      *)
(* undos run even if the ROLLBACK statement fails.                         *)
SessionRollback ==
    /\ transactionActive /\ calls = {}
    /\ RollBackAfter(0)
    /\ points' = <<>>
    /\ RunUndos(0)
    /\ transactionActive' = FALSE
    /\ marks' = <<>>
    /\ UNCHANGED <<server, log, calls>>

(* commit() *)
SessionCommit ==
    /\ transactionActive /\ calls = {}
    /\ transactionActive' = FALSE
    /\ points' = <<>>
    /\ undos' = <<>>
    /\ marks' = <<>>
    /\ UNCHANGED <<server, rows, mem, calls>>

SavepointsNext ==
    \/ \E o \in Objs : Write(o) \/ Assign(o)
    \/ \E n \in Names : Savepoint(n) \/ RollbackTo(n)
    \/ WriteDone \/ SavepointDone \/ RollbackToDone
    \/ SessionRollback \/ SessionCommit

SavepointsSpec == SavepointsInit /\ [][SavepointsNext]_savepointsVars

-----------------------------------------------------------------------------
Values == 0..Len(log)

SavepointsTypeOK ==
    /\ server \in Servers
    /\ log \in Seq([obj : Objs, by : {"write", "caller"}]) /\ Len(log) <= MaxValues
    /\ rolledBack \subseteq 1..Len(log)
    /\ points \in Seq([name : Names, at : Values])
    /\ mem \in [Objs -> Values]
    /\ transactionActive \in BOOLEAN
    /\ undos \in Seq([obj : Objs, before : Values, after : Values])
    /\ marks \in Seq([name : Names, undoCount : 0..Len(undos)])
    /\ calls \subseteq
          [op : {"write"}, obj : Objs, before : Values, after : Values]
          \cup [op : {"savepoint", "rollbackTo"}, name : Names]

(* What happened to the objects and was not rolled back. *)
Surviving == 1..Len(log) \ rolledBack

(* v is the value the last of the events S left on the object, 0 if none. *)
LeftOn(o, v, S) ==
    /\ v = 0 \/ (v \in S /\ log[v].obj = o)
    /\ \A i \in S : log[i].obj = o => i <= v

(* When no call is under way every object holds what its last surviving    *)
(* write left or what the caller assigned after it, whatever mixture of    *)
(* savepoints, writes and rollbacks went before (onRollback, rollbackTo,   *)
(* restoreOnRollback).                                                     *)
ObjectsFollowRows == calls = {} => \A o \in Objs : LeftOn(o, mem[o], Surviving)

(* The undos kept are those of the writes that survive, in their order.    *)
UndosAreWrites ==
    calls = {} /\ transactionActive =>
        /\ {undos[i].after : i \in DOMAIN undos} = {i \in Surviving : log[i].by = "write"}
        /\ \A i, j \in DOMAIN undos : i < j => undos[i].after < undos[j].after

(* The first k undos are those of the writes before the n-th event. *)
Splits(k, n) == \A j \in DOMAIN undos : j <= k <=> undos[j].after <= n

(* Whoever rolls back to a savepoint the server has finds its mark: the    *)
(* marks of the session and the savepoints of the server pair up from the  *)
(* newest to the oldest, and what a mark undoes is what the server rolls   *)
(* back (savepoint, rollbackTo).                                           *)
MarksAreSavepoints ==
    calls = {} /\ server = "stack" =>
        /\ Len(marks) = Len(points)
        /\ \A i \in DOMAIN marks :
              marks[i].name = points[i].name /\ Splits(marks[i].undoCount, points[i].at)

(* Memory and session agree with the server at every rest, after any       *)
(* sequence of writes, assignments, savepoints and partial rollbacks.      *)
SavepointsAgree ==
    SavepointsTypeOK /\ ObjectsFollowRows /\ UndosAreWrites /\ MarksAreSavepoints
=============================================================================
