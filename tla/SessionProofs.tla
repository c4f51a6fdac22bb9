---------------------------- MODULE SessionProofs ----------------------------
(***************************************************************************)
(* Proofs about Transactions for every pool, every number of calls and     *)
(* whatever fails, and about Savepoints for every number of objects,       *)
(* names, writes and savepoints.                                           *)
(*                                                                         *)
(* What a session may have left behind is not to be seen in the pool       *)
(* alone: whether a transaction open on a connection is of a call that     *)
(* still holds it, of one that was abandoned, or can be made durable a     *)
(* second time, depends on how far the call has come and on which error it *)
(* carries. SessionInv ties those to the place of each call, WorkInv the   *)
(* transactions on the server to the calls whose work is in them.          *)
(*                                                                         *)
(* What an object should hold is not to be seen at a rest alone either.    *)
(* SavepointsInv says of every moment which events memory stands for:      *)
(* those that survive, and those rolled back whose undos are still to run, *)
(* but for a write that has not returned. Every undo kept puts back what   *)
(* those events had left on its object before its write, and the           *)
(* savepoints of the server pair up with marks that divide the undos where *)
(* the savepoints divide the log.                                          *)
(***************************************************************************)
EXTENDS Transactions, Savepoints, ListsProofs, TLAPS

(* A hook that reports a deadlock after COMMIT would have committed work   *)
(* done again; the README describes it, and what follows leaves it out.    *)
NoLateDeadlock == "deadlock" \notin HookErrors \/ "afterTransactionCommit" \notin HookFaults

(* Where a call is decides what its session holds and knows.               *)
SessionAt(c) ==
    /\ pc[c] \in {"idle", "acquire", "committed", "rolledback", "backoff", "done"} =>
          conn[c] = None
    /\ pc[c] \in {"connected", "body"} => conn[c] # None
    /\ pc[c] = "body" => active[c]
    /\ active[c] => \/ pc[c] \in {"body", "rolling"}
                    \/ pc[c] \in {"closing", "done"} /\ error[c] = "rollbackFailed"
    /\ pc[c] \in {"idle", "acquire", "connected", "body", "committed"} =>
          error[c] = None /\ cause[c] = None
    /\ pc[c] \in {"rolling", "rolledback", "backoff"} => error[c] # None
    /\ committed[c] => pc[c] \in {"committed", "closing", "done"}
    /\ pc[c] = "committed" => committed[c]
    /\ pc[c] \in {"closing", "done"} /\ error[c] = None => committed[c]
    /\ error[c] = "deadlock" => cause[c] = "deadlock" /\ ~committed[c]
    /\ pc[c] = "backoff" => Retries(c)

SessionInv == \A c \in Callers : SessionAt(c)

(* Callbacks are being told x, or n of them have been.                     *)
Telling(t, n, x) == Len(t) <= n /\ \A i \in 1 .. Len(t) : t[i] = x
Told(t, n, x) == t = [i \in 1 .. n |-> x]

(* The callbacks a session has, and what it told them.                     *)
EndsAt(c) ==
    /\ pc[c] \in {"idle", "acquire", "connected", "body", "rolling"} => told[c] = <<>>
    /\ pc[c] \in {"idle", "acquire", "connected", "rolling"} /\ ~active[c] => ends[c] = 0
    /\ pc[c] \in {"committed", "rolledback"} => Telling(told[c], ends[c], committed[c])

EndsInv == \A c \in Callers : EndsAt(c)

(* A call whose work is in a transaction on the server has not had it made *)
(* durable, holds the connection or has ended without ROLLBACK, and in     *)
(* that case was abandoned or its transaction can only be rolled back.     *)
WorkAt(k, c) ==
    /\ commits[c] = 0
    /\ \/ conn[c] = k /\ pc[c] \in {"body", "rolling", "closing"}
       \/ pc[c] = "done"
    /\ pc[c] = "rolling" => active[c] \/ cause[c] = "begin"
    /\ pc[c] \in {"closing", "done"} =>
          Abandoned(c) \/ (c \in SetFails \cap Decorated /\ k \in aborted)

(* A callback's own transaction is open, and aborted only if it caught.    *)
BodyAt(c) ==
    pc[c] = "body" => c \in tx[conn[c]] /\ (conn[c] \in aborted => c \in Catches)

WorkInv ==
    /\ \A k \in Conns : \A c \in tx[k] : WorkAt(k, c)
    /\ \A k, l \in Conns : tx[k] \cap tx[l] # {} => k = l
    /\ \A c \in Callers : BodyAt(c)

(* What is durable, and who knows of it.                                   *)
DurableAt(c) ==
    /\ commits[c] <= 1
    /\ commits[c] = 1 => committed[c] \/ cause[c] = "lost" \/ (Abandoned(c) /\ pc[c] = "done")
    /\ committed[c] \/ cause[c] = "lost" => commits[c] = 1 \/ c \in Catches
    /\ cause[c] = "lost" => pc[c] \in {"rolling", "rolledback", "closing", "done"}

DurableInv == \A c \in Callers : DurableAt(c)

TransactionsInv ==
    /\ TypeOK
    /\ OneOwner
    /\ SessionInv
    /\ EndsInv
    /\ WorkInv
    /\ DurableInv
    /\ EndsToldOnce

-----------------------------------------------------------------------------
(* A step of Next is one of c. *)
Step(c) == Start(c) \/ AcquireFails(c) \/ Register(c) \/ CatchesError(c) \/ Goes(c)

(* It changes of the calls only c. *)
LEMMA OnlyOwnCall ==
    ASSUME TypeOK, NEW c \in Callers, NEW d \in Callers, d # c, Step(c)
    PROVE  /\ pc'[d] = pc[d] /\ conn'[d] = conn[d] /\ active'[d] = active[d]
           /\ ends'[d] = ends[d] /\ told'[d] = told[d] /\ committed'[d] = committed[d]
           /\ attempt'[d] = attempt[d] /\ error'[d] = error[d] /\ cause'[d] = cause[d]
<1> USE DEF TypeOK, GoTo, Fail
<1>1. CASE Start(c)
  BY <1>1 DEF Start, poolVars, EndOnServer, OpenOnServer, SessionOver
<1>2. CASE AcquireFails(c)
  BY <1>2 DEF AcquireFails, poolVars, EndOnServer, OpenOnServer, SessionOver
<1>3. CASE Register(c)
  BY <1>3 DEF Register, poolVars, EndOnServer, OpenOnServer, SessionOver
<1>4. CASE CatchesError(c)
  BY <1>4 DEF CatchesError, poolVars, EndOnServer, OpenOnServer, SessionOver
<1>5. CASE Acquire(c)
  BY <1>5 DEF Acquire, poolVars, EndOnServer, OpenOnServer, SessionOver
<1>6. CASE StartHookThrows(c)
  BY <1>6 DEF StartHookThrows, poolVars, EndOnServer, OpenOnServer, SessionOver
<1>7. CASE Begin(c)
  BY <1>7 DEF Begin, poolVars, EndOnServer, OpenOnServer, SessionOver
<1>8. CASE BeginFails(c)
  BY <1>8 DEF BeginFails, poolVars, EndOnServer, OpenOnServer, SessionOver
<1>9. CASE BodyThrows(c)
  BY <1>9 DEF BodyThrows, poolVars, EndOnServer, OpenOnServer, SessionOver
<1>10. CASE Commit(c)
  BY <1>10 DEF Commit, poolVars, EndOnServer, OpenOnServer, SessionOver
<1>11. CASE CommitFails(c)
  BY <1>11 DEF CommitFails, poolVars, EndOnServer, OpenOnServer, SessionOver
<1>12. CASE Fire(c)
  BY <1>12 DEF Fire, poolVars, EndOnServer, OpenOnServer, SessionOver
<1>13. CASE AfterCommit(c)
  BY <1>13 DEF AfterCommit, poolVars, EndOnServer, OpenOnServer, SessionOver
<1>14. CASE RollbackHookThrows(c)
  BY <1>14 DEF RollbackHookThrows, poolVars, EndOnServer, OpenOnServer, SessionOver
<1>15. CASE RollbackWithoutConnection(c)
  BY <1>15 DEF RollbackWithoutConnection, poolVars, EndOnServer, OpenOnServer, SessionOver
<1>16. CASE Rollback(c)
  BY <1>16 DEF Rollback, poolVars, EndOnServer, OpenOnServer, SessionOver
<1>17. CASE AfterRollback(c)
  BY <1>17 DEF AfterRollback, poolVars, EndOnServer, OpenOnServer, SessionOver
<1>18. CASE Close(c)
  BY <1>18 DEF Close, poolVars, EndOnServer, OpenOnServer, SessionOver
<1>19. CASE Retry(c)
  BY <1>19 DEF Retry, poolVars, EndOnServer, OpenOnServer, SessionOver
<1>20. QED
  BY <1>1, <1>2, <1>3, <1>4, <1>5, <1>6, <1>7, <1>8, <1>9, <1>10, <1>11, <1>12, <1>13, <1>14, <1>15, <1>16, <1>17, <1>18, <1>19 DEF Step, Goes

(* An error is kept where errors are kept. *)
LEMMA FailType ==
    ASSUME TypeOK, NEW c \in Callers, NEW e \in Errors, NEW place \in Places, Fail(c, e, place)
    PROVE  /\ pc' \in [Callers -> Places]
           /\ error' \in [Callers -> Errors \cup {None}]
           /\ cause' \in [Callers -> Errors \cup {None}]
BY DEF TypeOK, Fail, GoTo

(* COMMIT or ROLLBACK on the server keeps the types. *)
LEMMA EndType ==
    ASSUME TypeOK, NEW c \in Callers, conn[c] # None, NEW applied \in BOOLEAN, EndOnServer(c, applied)
    PROVE  /\ free' \subseteq Conns
           /\ tx' \in [Conns -> SUBSET Callers]
           /\ aborted' \subseteq Conns
           /\ commits' \in [Callers -> Nat]
           /\ conn' \in [Callers -> Conns \cup {None}]
<1>1. conn[c] \in Conns
  BY DEF TypeOK
<1>2. tx' \in [Conns -> SUBSET Callers]
  BY <1>1 DEF TypeOK, EndOnServer
<1>3. commits' \in [Callers -> Nat]
  BY DEF TypeOK, EndOnServer
<1>4. QED
  BY <1>1, <1>2, <1>3 DEF TypeOK, EndOnServer

(* BEGIN on the server keeps the types. *)
LEMMA OpenType ==
    ASSUME TypeOK, NEW c \in Callers, conn[c] # None, OpenOnServer(c)
    PROVE  /\ tx' \in [Conns -> SUBSET Callers]
           /\ commits' \in [Callers -> Nat]
<1>1. conn[c] \in Conns
  BY DEF TypeOK
<1>2. tx' \in [Conns -> SUBSET Callers]
  BY <1>1 DEF TypeOK, OpenOnServer
<1>3. QED
  BY <1>2 DEF TypeOK, OpenOnServer

(* Every step keeps the types. *)
LEMMA TypePreserved ==
    ASSUME TypeOK, SessionInv, NEW c \in Callers, Step(c)
    PROVE  TypeOK'
<1> USE TransactionsAssumption DEF TypeOK, GoTo, Fail, Places, Errors
<1>1. CASE Start(c)
  BY <1>1, SMTT(30) DEF Start, poolVars, EndOnServer, OpenOnServer, SessionOver, SessionInv, SessionAt
<1>2. CASE AcquireFails(c)
  BY <1>2, SMTT(30) DEF AcquireFails, poolVars, EndOnServer, OpenOnServer, SessionOver, SessionInv, SessionAt
<1>3. CASE Register(c)
  BY <1>3, SMTT(30) DEF Register, poolVars, EndOnServer, OpenOnServer, SessionOver, SessionInv, SessionAt
<1>4. CASE CatchesError(c)
  BY <1>4, SMTT(30) DEF CatchesError, poolVars, EndOnServer, OpenOnServer, SessionOver, SessionInv, SessionAt
<1>5. CASE Acquire(c)
  BY <1>5, SMTT(30) DEF Acquire, poolVars, EndOnServer, OpenOnServer, SessionOver, SessionInv, SessionAt
<1>6. CASE StartHookThrows(c)
  BY <1>6, SMTT(30) DEF StartHookThrows, poolVars, EndOnServer, OpenOnServer, SessionOver, SessionInv, SessionAt
<1>7. CASE Begin(c)
  BY <1>7, SMTT(30) DEF Begin, poolVars, EndOnServer, OpenOnServer, SessionOver, SessionInv, SessionAt
<1>8. CASE BeginFails(c)
  <2>1. "begin" \in Errors /\ "rolling" \in Places /\ "closing" \in Places /\ conn[c] # None
    BY <1>8 DEF BeginFails, SessionInv, SessionAt
  <2>2. Fail(c, "begin", IF Managed(c) THEN "rolling" ELSE "closing")
    BY <1>8 DEF BeginFails
  <2>3. /\ pc' \in [Callers -> Places]
        /\ error' \in [Callers -> Errors \cup {None}] /\ cause' \in [Callers -> Errors \cup {None}]
    BY <2>1, <2>2, FailType
  <2>4. CASE UNCHANGED <<poolVars, conn>>
    BY <1>8, <2>3, <2>4 DEF BeginFails, poolVars
  <2>5. CASE OpenOnServer(c) /\ aborted' = aborted \cup {conn[c]}
    <3>1. tx' \in [Conns -> SUBSET Callers] /\ commits' \in [Callers -> Nat]
      BY <2>1, <2>5, OpenType
    <3>2. aborted' \subseteq Conns
      BY <2>1, <2>5
    <3>3. UNCHANGED <<free, conn>>
      BY <2>5 DEF OpenOnServer
    <3>4. QED
      BY <1>8, <2>3, <3>1, <3>2, <3>3 DEF BeginFails
  <2>6. QED
    BY <1>8, <2>4, <2>5 DEF BeginFails
<1>9. CASE BodyThrows(c)
  BY <1>9, SMTT(30) DEF BodyThrows, poolVars, EndOnServer, OpenOnServer, SessionOver, SessionInv, SessionAt
<1>10. CASE Commit(c)
  BY <1>10, SMTT(30) DEF Commit, poolVars, EndOnServer, OpenOnServer, SessionOver, SessionInv, SessionAt
<1>11. CASE CommitFails(c)
  <2>1. conn[c] # None /\ "rolling" \in Places
    BY <1>11 DEF CommitFails, SessionInv, SessionAt
  <2>2. PICK e \in Errors : Fail(c, e, "rolling")
    BY <1>11 DEF CommitFails
  <2>3. /\ pc' \in [Callers -> Places]
        /\ error' \in [Callers -> Errors \cup {None}] /\ cause' \in [Callers -> Errors \cup {None}]
    BY <2>1, <2>2, FailType
  <2>4. PICK applied \in BOOLEAN : EndOnServer(c, applied)
    BY <1>11 DEF CommitFails
  <2>5. QED
    BY <1>11, <2>1, <2>3, <2>4, EndType DEF CommitFails
<1>12. CASE Fire(c)
  BY <1>12, SMTT(30) DEF Fire, poolVars, EndOnServer, OpenOnServer, SessionOver, SessionInv, SessionAt
<1>13. CASE AfterCommit(c)
  <2>1. CASE GoTo(c, "closing") /\ UNCHANGED <<error, cause>>
    BY <1>13, <2>1 DEF AfterCommit, poolVars
  <2>2. CASE \E e \in HookErrors : Fail(c, e, "closing")
    <3>1. PICK e \in Errors : Fail(c, e, "closing")
      BY <2>2
    <3>2. QED
      BY <1>13, <3>1, FailType DEF AfterCommit, poolVars
  <2>3. QED
    BY <1>13, <2>1, <2>2 DEF AfterCommit
<1>14. CASE RollbackHookThrows(c)
  BY <1>14, SMTT(30) DEF RollbackHookThrows, poolVars, EndOnServer, OpenOnServer, SessionOver, SessionInv, SessionAt
<1>15. CASE RollbackWithoutConnection(c)
  BY <1>15, SMTT(30) DEF RollbackWithoutConnection, poolVars, EndOnServer, OpenOnServer, SessionOver, SessionInv, SessionAt
<1>16. CASE Rollback(c)
  <2>1. error' \in [Callers -> Errors \cup {None}] /\ refused' \in [Callers -> BOOLEAN]
    BY <1>16 DEF Rollback
  <2>2. EndOnServer(c, FALSE) /\ conn[c] # None
    BY <1>16 DEF Rollback
  <2>3. active' \in [Callers -> BOOLEAN] /\ pc' \in [Callers -> Places]
    BY <1>16 DEF Rollback, SessionOver
  <2>4. QED
    BY <1>16, <2>1, <2>2, <2>3, EndType DEF Rollback
<1>17. CASE AfterRollback(c)
  <2>1. CASE GoTo(c, "closing") /\ UNCHANGED <<error, cause>>
    BY <1>17, <2>1 DEF AfterRollback, poolVars
  <2>2. CASE Fail(c, "rollbackFailed", "closing")
    BY <1>17, <2>2, FailType DEF AfterRollback, poolVars
  <2>3. QED
    BY <1>17, <2>1, <2>2 DEF AfterRollback
<1>18. CASE Close(c)
  BY <1>18, SMTT(30) DEF Close, poolVars, EndOnServer, OpenOnServer, SessionOver, SessionInv, SessionAt
<1>19. CASE Retry(c)
  <2>1. attempt' \in [Callers -> Nat] /\ \A d \in Callers : attempt'[d] <= MaxRetries[d]
    BY <1>19 DEF Retry, SessionInv, SessionAt, Retries
  <2>2. told' \in [Callers -> Seq(BOOLEAN)] /\ ends' \in [Callers -> Nat]
    BY <1>19 DEF Retry
  <2>3. \A d \in Callers : ends'[d] <= MaxEnds[d]
    BY <1>19 DEF Retry
  <2>4. QED
    BY <1>19, <2>1, <2>2, <2>3 DEF Retry, poolVars
<1>20. QED
  BY <1>1, <1>2, <1>3, <1>4, <1>5, <1>6, <1>7, <1>8, <1>9, <1>10, <1>11, <1>12, <1>13, <1>14, <1>15, <1>16, <1>17, <1>18, <1>19 DEF Step, Goes

-----------------------------------------------------------------------------
(* Steps that touch neither the pool nor what a session holds of it. *)
Quiet(c) ==
    \/ Start(c) \/ AcquireFails(c) \/ StartHookThrows(c) \/ Register(c) \/ BodyThrows(c)
    \/ Fire(c) \/ AfterCommit(c) \/ RollbackHookThrows(c) \/ RollbackWithoutConnection(c)
    \/ AfterRollback(c) \/ Retry(c)

(* A step that is quiet leaves the pool and the server alone. *)
LEMMA QuietLeavesPool ==
    ASSUME NEW c \in Callers, Quiet(c)
    PROVE  UNCHANGED <<free, tx, aborted, commits, conn>>
BY DEF Quiet, poolVars, Start, AcquireFails, StartHookThrows, Register, BodyThrows, Fire,
       AfterCommit, RollbackHookThrows, RollbackWithoutConnection, AfterRollback, Retry

(* A connection belongs to the pool or to one session. *)
LEMMA OneOwnerPreserved ==
    ASSUME TypeOK, OneOwner, SessionInv, NEW c \in Callers, Step(c)
    PROVE  OneOwner'
<1> USE TransactionsAssumption
<1> conn \in [Callers -> Conns \cup {None}] /\ free \subseteq Conns
  BY DEF TypeOK
<1>1. CASE UNCHANGED <<free, conn>>
  BY <1>1 DEF OneOwner
<1>2. CASE Acquire(c)
  <2>1. conn[c] = None
    BY <1>2 DEF SessionInv, SessionAt, Acquire
  <2>2. PICK k \in free : free' = free \ {k} /\ conn' = [conn EXCEPT ![c] = k]
    BY <1>2 DEF Acquire
  <2>3. QED
    BY <2>1, <2>2 DEF OneOwner
<1>3. CASE conn[c] # None /\ free' = free \cup {conn[c]} /\ conn' = [conn EXCEPT ![c] = None]
  BY <1>3 DEF OneOwner
<1>4. CASE conn[c] = None /\ free' = free \cup ({conn[c]} \ {None}) /\ conn' = [conn EXCEPT ![c] = None]
  BY <1>4 DEF OneOwner
<1>5. CASE Quiet(c)
  BY <1>1, <1>5, QuietLeavesPool
<1>6. CASE CatchesError(c) \/ Begin(c) \/ BeginFails(c)
  BY <1>1, <1>6 DEF CatchesError, Begin, BeginFails, OpenOnServer, poolVars
<1>7. CASE Commit(c) \/ CommitFails(c)
  BY <1>3, <1>7 DEF Commit, CommitFails, EndOnServer, SessionInv, SessionAt
<1>8. CASE Rollback(c)
  BY <1>3, <1>8 DEF Rollback, EndOnServer
<1>9. CASE Close(c)
  <2>1. free' = free \cup ({conn[c]} \ {None}) /\ conn' = [conn EXCEPT ![c] = None]
    BY <1>9 DEF Close
  <2>2. conn[c] # None => {conn[c]} \ {None} = {conn[c]}
    OBVIOUS
  <2>3. QED
    BY <1>3, <1>4, <2>1, <2>2
<1>10. QED
  BY <1>2, <1>5, <1>6, <1>7, <1>8, <1>9 DEF Step, Goes, Quiet

(* What a step of c leaves alone of it, and an error it meets. *)
SameHeld(c) == conn'[c] = conn[c] /\ active'[c] = active[c]
SameEnds(c) == ends'[c] = ends[c] /\ told'[c] = told[c]
SameFate(c) == committed'[c] = committed[c] /\ attempt'[c] = attempt[c]
SameError(c) == error'[c] = error[c] /\ cause'[c] = cause[c]
Thrown(c, e) ==
    error'[c] = e /\ cause'[c] = IF cause[c] = None THEN e ELSE cause[c]

(* What each step does to the call whose step it is. *)
LEMMA OwnCall ==
    ASSUME TypeOK, NoLateDeadlock, NEW c \in Callers
    PROVE
    /\ Start(c) =>
          /\ pc[c] = "idle" /\ pc'[c] = "acquire" /\ SameHeld(c) /\ SameEnds(c)
          /\ SameFate(c) /\ SameError(c)
    /\ AcquireFails(c) =>
          /\ pc[c] = "acquire" /\ pc'[c] \in {"rolling", "closing"} /\ Thrown(c, "connect")
          /\ SameHeld(c) /\ SameEnds(c) /\ SameFate(c)
    /\ Register(c) =>
          /\ pc'[c] = pc[c] /\ active[c] /\ ends'[c] = ends[c] + 1 /\ told'[c] = told[c]
          /\ SameHeld(c) /\ SameFate(c) /\ SameError(c)
    /\ CatchesError(c) =>
          /\ pc[c] = "body" /\ pc'[c] = pc[c] /\ SameHeld(c) /\ SameEnds(c) /\ SameFate(c)
          /\ SameError(c)
    /\ Acquire(c) =>
          /\ pc[c] = "acquire" /\ pc'[c] = "connected" /\ conn'[c] \in free
          /\ active'[c] = active[c] /\ SameEnds(c) /\ SameFate(c) /\ SameError(c)
    /\ StartHookThrows(c) =>
          /\ pc[c] = "connected" /\ pc'[c] = "rolling"
          /\ \E e \in {"hook", "deadlock"} : Thrown(c, e)
          /\ SameHeld(c) /\ SameEnds(c) /\ SameFate(c)
    /\ Begin(c) =>
          /\ pc[c] = "connected" /\ pc'[c] = "body" /\ active'[c] = TRUE
          /\ conn'[c] = conn[c] /\ SameEnds(c) /\ SameFate(c) /\ SameError(c)
    /\ BeginFails(c) =>
          /\ pc[c] = "connected" /\ pc'[c] \in {"rolling", "closing"} /\ Thrown(c, "begin")
          /\ SameHeld(c) /\ SameEnds(c) /\ SameFate(c)
    /\ BodyThrows(c) =>
          /\ pc[c] = "body" /\ pc'[c] = "rolling"
          /\ \E e \in {"app", "deadlock"} : Thrown(c, e)
          /\ SameHeld(c) /\ SameEnds(c) /\ SameFate(c)
    /\ Commit(c) =>
          /\ pc[c] = "body" /\ pc'[c] = "committed" /\ conn'[c] = None /\ active'[c] = FALSE
          /\ committed'[c] = TRUE /\ attempt'[c] = attempt[c] /\ SameEnds(c) /\ SameError(c)
    /\ CommitFails(c) =>
          /\ pc[c] = "body" /\ pc'[c] = "rolling" /\ conn'[c] = None
          /\ \E e \in {"commit", "deadlock", "lost"} : Thrown(c, e)
          /\ active'[c] = active[c] /\ SameEnds(c) /\ SameFate(c)
    /\ Fire(c) =>
          /\ pc[c] \in {"committed", "rolledback"} /\ pc'[c] = pc[c]
          /\ Len(told[c]) < ends[c] /\ ends'[c] = ends[c]
          /\ told'[c] = Append(told[c], pc[c] = "committed") /\ SameHeld(c) /\ SameFate(c)
          /\ SameError(c)
    /\ AfterCommit(c) =>
          /\ pc[c] = "committed" /\ pc'[c] = "closing" /\ AllTold(c)
          /\ SameError(c) \/ Thrown(c, "hook")
          /\ SameHeld(c) /\ SameEnds(c) /\ SameFate(c)
    /\ RollbackHookThrows(c) =>
          /\ pc[c] = "rolling" /\ pc'[c] = "closing" /\ Thrown(c, "rollbackFailed")
          /\ SameHeld(c) /\ SameEnds(c) /\ SameFate(c)
    /\ RollbackWithoutConnection(c) =>
          /\ pc[c] = "rolling" /\ pc'[c] = "rolledback"
          /\ conn[c] = None /\ conn'[c] = None /\ active'[c] = FALSE
          /\ error'[c] \in {"rollbackFailed", "noconn"} /\ cause'[c] = cause[c]
          /\ SameEnds(c) /\ SameFate(c)
    /\ Rollback(c) =>
          /\ pc[c] = "rolling" /\ pc'[c] = "rolledback"
          /\ conn[c] # None /\ conn'[c] = None /\ active'[c] = FALSE
          /\ error'[c] \in {error[c], "rollbackFailed", "rollback"} /\ cause'[c] = cause[c]
          /\ SameEnds(c) /\ SameFate(c)
    /\ AfterRollback(c) =>
          /\ pc[c] = "rolledback" /\ pc'[c] = "closing" /\ AllTold(c)
          /\ SameError(c) \/ Thrown(c, "rollbackFailed")
          /\ SameHeld(c) /\ SameEnds(c) /\ SameFate(c)
    /\ Close(c) =>
          /\ pc[c] = "closing" /\ pc'[c] = IF Retries(c) THEN "backoff" ELSE "done"
          /\ conn'[c] = None /\ active'[c] = active[c] /\ SameEnds(c) /\ SameFate(c)
          /\ SameError(c)
    /\ Retry(c) =>
          /\ pc[c] = "backoff" /\ pc'[c] = "acquire"
          /\ active'[c] = FALSE /\ ends'[c] = 0 /\ told'[c] = <<>>
          /\ committed'[c] = FALSE /\ error'[c] = None /\ cause'[c] = None
          /\ conn'[c] = conn[c]
<1> /\ pc \in [Callers -> Places] /\ conn \in [Callers -> Conns \cup {None}]
    /\ active \in [Callers -> BOOLEAN] /\ committed \in [Callers -> BOOLEAN]
    /\ attempt \in [Callers -> Nat] /\ error \in [Callers -> Errors \cup {None}]
    /\ cause \in [Callers -> Errors \cup {None}]
    /\ ends \in [Callers -> Nat] /\ told \in [Callers -> Seq(BOOLEAN)]
  BY DEF TypeOK
<1> USE DEF GoTo, Fail, SameHeld, SameEnds, SameFate, SameError, Thrown
<1> HookErrors \subseteq {"hook", "deadlock"}
  BY TransactionsAssumption
<1>1. Start(c) =>
        /\ pc[c] = "idle" /\ pc'[c] = "acquire" /\ SameHeld(c) /\ SameEnds(c) /\ SameFate(c)
        /\ SameError(c)
  BY DEF Start
<1>2. AcquireFails(c) =>
        /\ pc[c] = "acquire" /\ pc'[c] \in {"rolling", "closing"} /\ Thrown(c, "connect")
        /\ SameHeld(c) /\ SameEnds(c) /\ SameFate(c)
  BY DEF AcquireFails
<1>3. Register(c) =>
        /\ pc'[c] = pc[c] /\ active[c] /\ ends'[c] = ends[c] + 1 /\ told'[c] = told[c]
        /\ SameHeld(c) /\ SameFate(c) /\ SameError(c)
  BY DEF Register
<1>4. CatchesError(c) =>
        /\ pc[c] = "body" /\ pc'[c] = pc[c] /\ SameHeld(c) /\ SameEnds(c) /\ SameFate(c)
        /\ SameError(c)
  BY DEF CatchesError
<1>5. Acquire(c) =>
        /\ pc[c] = "acquire" /\ pc'[c] = "connected" /\ conn'[c] \in free
        /\ active'[c] = active[c] /\ SameEnds(c) /\ SameFate(c) /\ SameError(c)
  BY DEF Acquire
<1>6. StartHookThrows(c) =>
        /\ pc[c] = "connected" /\ pc'[c] = "rolling"
        /\ \E e \in {"hook", "deadlock"} : Thrown(c, e)
        /\ SameHeld(c) /\ SameEnds(c) /\ SameFate(c)
  BY DEF StartHookThrows
<1>7. Begin(c) =>
        /\ pc[c] = "connected" /\ pc'[c] = "body" /\ active'[c] = TRUE /\ conn'[c] = conn[c]
        /\ SameEnds(c) /\ SameFate(c) /\ SameError(c)
  BY DEF Begin, OpenOnServer
<1>8. BeginFails(c) =>
        /\ pc[c] = "connected" /\ pc'[c] \in {"rolling", "closing"} /\ Thrown(c, "begin")
        /\ SameHeld(c) /\ SameEnds(c) /\ SameFate(c)
  BY DEF BeginFails, OpenOnServer
<1>9. BodyThrows(c) =>
        /\ pc[c] = "body" /\ pc'[c] = "rolling"
        /\ \E e \in {"app", "deadlock"} : Thrown(c, e)
        /\ SameHeld(c) /\ SameEnds(c) /\ SameFate(c)
  BY DEF BodyThrows
<1>10. Commit(c) =>
        /\ pc[c] = "body" /\ pc'[c] = "committed" /\ conn'[c] = None /\ active'[c] = FALSE
        /\ committed'[c] = TRUE /\ attempt'[c] = attempt[c] /\ SameEnds(c) /\ SameError(c)
  BY DEF Commit, EndOnServer
<1>11. CommitFails(c) =>
        /\ pc[c] = "body" /\ pc'[c] = "rolling" /\ conn'[c] = None
        /\ \E e \in {"commit", "deadlock", "lost"} : Thrown(c, e)
        /\ active'[c] = active[c] /\ SameEnds(c) /\ SameFate(c)
  BY DEF CommitFails, EndOnServer
<1>12. Fire(c) =>
        /\ pc[c] \in {"committed", "rolledback"} /\ pc'[c] = pc[c]
        /\ Len(told[c]) < ends[c] /\ ends'[c] = ends[c]
        /\ told'[c] = Append(told[c], pc[c] = "committed") /\ SameHeld(c) /\ SameFate(c)
        /\ SameError(c)
  BY DEF Fire
<1>13. AfterCommit(c) =>
        /\ pc[c] = "committed" /\ pc'[c] = "closing" /\ AllTold(c)
        /\ SameError(c) \/ Thrown(c, "hook")
        /\ SameHeld(c) /\ SameEnds(c) /\ SameFate(c)
  BY DEF AfterCommit, NoLateDeadlock
<1>14. RollbackHookThrows(c) =>
        /\ pc[c] = "rolling" /\ pc'[c] = "closing" /\ Thrown(c, "rollbackFailed")
        /\ SameHeld(c) /\ SameEnds(c) /\ SameFate(c)
  BY DEF RollbackHookThrows
<1>15. RollbackWithoutConnection(c) =>
        /\ pc[c] = "rolling" /\ pc'[c] = "rolledback"
        /\ conn[c] = None /\ conn'[c] = None /\ active'[c] = FALSE
        /\ error'[c] \in {"rollbackFailed", "noconn"} /\ cause'[c] = cause[c] /\ SameEnds(c)
        /\ SameFate(c)
  BY DEF RollbackWithoutConnection, SessionOver
<1>16. Rollback(c) =>
        /\ pc[c] = "rolling" /\ pc'[c] = "rolledback"
        /\ conn[c] # None /\ conn'[c] = None /\ active'[c] = FALSE
        /\ error'[c] \in {error[c], "rollbackFailed", "rollback"} /\ cause'[c] = cause[c]
        /\ SameEnds(c) /\ SameFate(c)
  BY DEF Rollback, EndOnServer, SessionOver
<1>17. AfterRollback(c) =>
        /\ pc[c] = "rolledback" /\ pc'[c] = "closing" /\ AllTold(c)
        /\ SameError(c) \/ Thrown(c, "rollbackFailed")
        /\ SameHeld(c) /\ SameEnds(c) /\ SameFate(c)
  BY DEF AfterRollback
<1>18. Close(c) =>
        /\ pc[c] = "closing" /\ pc'[c] = IF Retries(c) THEN "backoff" ELSE "done"
        /\ conn'[c] = None /\ active'[c] = active[c] /\ SameEnds(c) /\ SameFate(c)
        /\ SameError(c)
  BY DEF Close
<1>19. Retry(c) =>
        /\ pc[c] = "backoff" /\ pc'[c] = "acquire"
        /\ active'[c] = FALSE /\ ends'[c] = 0 /\ told'[c] = <<>>
        /\ committed'[c] = FALSE /\ error'[c] = None /\ cause'[c] = None
        /\ conn'[c] = conn[c]
  BY DEF Retry
<1>20. QED
  BY <1>1, <1>2, <1>3, <1>4, <1>5, <1>6, <1>7, <1>8, <1>9, <1>10, <1>11, <1>12, <1>13, <1>14, <1>15, <1>16, <1>17, <1>18, <1>19

(* The place of a call decides what its session holds and knows. *)
LEMMA SessionPreserved ==
    ASSUME TypeOK, SessionInv, NoLateDeadlock, NEW c \in Callers, Step(c)
    PROVE  SessionInv'
<1> SUFFICES ASSUME NEW d \in Callers PROVE SessionAt(d)'
  BY DEF SessionInv
<1>0. CASE d # c
  BY <1>0, OnlyOwnCall DEF SessionInv, SessionAt, Retries
<1> SUFFICES SessionAt(c)'
  BY <1>0
<1> SessionAt(c) /\ None \notin Errors /\ None \notin Conns /\ free \subseteq Conns
  BY TransactionsAssumption DEF SessionInv, Errors, TypeOK
<1> USE OwnCall DEF SessionAt, SameHeld, SameFate, SameError, Thrown, Errors
<1>1. CASE Start(c)
  BY <1>1
<1>2. CASE AcquireFails(c)
  BY <1>2
<1>3. CASE Register(c)
  BY <1>3
<1>4. CASE CatchesError(c)
  BY <1>4
<1>5. CASE Acquire(c)
  BY <1>5
<1>6. CASE StartHookThrows(c)
  BY <1>6, ZenonT(30)
<1>7. CASE Begin(c)
  BY <1>7
<1>8. CASE BeginFails(c)
  BY <1>8
<1>9. CASE BodyThrows(c)
  BY <1>9, ZenonT(30)
<1>10. CASE Commit(c)
  BY <1>10
<1>11. CASE CommitFails(c)
  BY <1>11, ZenonT(30)
<1>12. CASE Fire(c)
  BY <1>12
<1>13. CASE AfterCommit(c)
  BY <1>13
<1>14. CASE RollbackHookThrows(c)
  BY <1>14
<1>15. CASE RollbackWithoutConnection(c)
  BY <1>15
<1>16. CASE Rollback(c)
  BY <1>16
<1>17. CASE AfterRollback(c)
  BY <1>17
<1>18. CASE Close(c)
  BY <1>18 DEF Retries
<1>19. CASE Retry(c)
  BY <1>19
<1>20. QED
  BY <1>1, <1>2, <1>3, <1>4, <1>5, <1>6, <1>7, <1>8, <1>9, <1>10, <1>11, <1>12, <1>13, <1>14, <1>15, <1>16, <1>17, <1>18, <1>19 DEF Step, Goes

(* The callbacks of a session are told of its end, once, and the truth. *)
ToldAt(c) ==
    pc[c] \in {"closing", "backoff", "done"} /\ ~Abandoned(c) =>
        Told(told[c], ends[c], committed[c])

(* The hooks told so far, counted one at a time. *)
LEMMA TellingFacts ==
    ASSUME NEW x \in BOOLEAN, NEW n \in Nat
    PROVE  /\ Told(<<>>, 0, x) /\ Telling(<<>>, n, x)
           /\ \A t \in Seq(BOOLEAN) : Telling(t, n, x) =>
                 /\ Len(t) < n => Telling(Append(t, x), n, x)
                 /\ Len(t) = n => Told(t, n, x)
<1>1. Told(<<>>, 0, x)
  <2>1. 1 .. 0 = {}
    OBVIOUS
  <2>2. QED
    BY <2>1 DEF Told
<1>2. Telling(<<>>, n, x)
  BY DEF Telling
<1>3. ASSUME NEW t \in Seq(BOOLEAN), Telling(t, n, x)
      PROVE  /\ Len(t) < n => Telling(Append(t, x), n, x)
             /\ Len(t) = n => Told(t, n, x)
  <2>1. Len(t) < n => Telling(Append(t, x), n, x)
    BY <1>3 DEF Telling
  <2>2. t = [i \in 1 .. Len(t) |-> t[i]]
    BY <1>3
  <2>3. Len(t) = n => Told(t, n, x)
    BY <1>3, <2>2 DEF Telling, Told
  <2>4. QED
    BY <2>1, <2>3
<1>4. QED
  BY <1>1, <1>2, <1>3

(* Every step keeps what the hooks were told. *)
LEMMA EndsPreserved ==
    ASSUME TypeOK, SessionInv, EndsInv, EndsToldOnce, NoLateDeadlock, NEW c \in Callers, Step(c)
    PROVE  EndsInv' /\ EndsToldOnce'
<1> SUFFICES ASSUME NEW d \in Callers PROVE EndsAt(d)' /\ ToldAt(d)'
  BY DEF EndsInv, EndsToldOnce, ToldAt, Told
<1> EndsAt(d) /\ ToldAt(d) /\ EndsAt(c) /\ ToldAt(c) /\ SessionAt(c)
  BY DEF EndsInv, EndsToldOnce, ToldAt, Told, SessionInv
<1>0. CASE d # c
  BY <1>0, OnlyOwnCall DEF EndsAt, ToldAt, Abandoned
<1> SUFFICES EndsAt(c)' /\ ToldAt(c)'
  BY <1>0
<1> /\ None \notin Errors /\ ends[c] \in Nat /\ told[c] \in Seq(BOOLEAN)
    /\ committed[c] \in BOOLEAN /\ active[c] \in BOOLEAN
  BY TransactionsAssumption DEF TypeOK
<1> /\ Telling(<<>>, ends[c], committed[c])
    /\ \A x \in BOOLEAN : Told(<<>>, 0, x) /\ \A n \in Nat : Telling(<<>>, n, x)
    /\ Telling(told[c], ends[c], committed[c]) =>
          /\ Len(told[c]) < ends[c] =>
                Telling(Append(told[c], committed[c]), ends[c], committed[c])
          /\ Len(told[c]) = ends[c] => Told(told[c], ends[c], committed[c])
  BY TellingFacts
<1> USE OwnCall DEF SessionAt, EndsAt, ToldAt, Abandoned, SameHeld, SameEnds, SameFate, SameError,
                    Thrown, Errors
<1>1. CASE Start(c)
  BY <1>1
<1>2. CASE AcquireFails(c)
  BY <1>2
<1>3. CASE Register(c)
  BY <1>3
<1>4. CASE CatchesError(c)
  BY <1>4
<1>5. CASE Acquire(c)
  BY <1>5
<1>6. CASE StartHookThrows(c)
  BY <1>6
<1>7. CASE Begin(c)
  BY <1>7
<1>8. CASE BeginFails(c)
  BY <1>8
<1>9. CASE BodyThrows(c)
  BY <1>9
<1>10. CASE Commit(c)
  BY <1>10, ZenonT(30)
<1>11. CASE CommitFails(c)
  BY <1>11
<1>12. CASE Fire(c)
  BY <1>12
<1>13. CASE AfterCommit(c)
  BY <1>13 DEF AllTold
<1>14. CASE RollbackHookThrows(c)
  BY <1>14
<1>15. CASE RollbackWithoutConnection(c)
  BY <1>15
<1>16. CASE Rollback(c)
  BY <1>16
<1>17. CASE AfterRollback(c)
  BY <1>17 DEF AllTold
<1>18. CASE Close(c)
  BY <1>18 DEF Retries
<1>19. CASE Retry(c)
  BY <1>19
<1>20. QED
  BY <1>1, <1>2, <1>3, <1>4, <1>5, <1>6, <1>7, <1>8, <1>9, <1>10, <1>11, <1>12, <1>13, <1>14, <1>15, <1>16, <1>17, <1>18, <1>19 DEF Step, Goes

(* A step of another call leaves the work of d where it is, unless it ends *)
(* or takes over the transaction the work is in.                           *)
LEMMA OthersWork ==
    ASSUME TypeOK, NEW c \in Callers, NEW d \in Callers, d # c, Step(c)
    PROVE  /\ Abandoned(d)' <=> Abandoned(d)
           /\ \A k \in Conns : WorkAt(k, d) /\ (k \in aborted => k \in aborted') /\ commits'[d] = 0
                 => WorkAt(k, d)'
           /\ DurableAt(d) /\ commits'[d] = commits[d] => DurableAt(d)'
           /\ /\ BodyAt(d)
              /\ pc[d] = "body" /\ d \in tx[conn[d]] =>
                    d \in tx'[conn[d]] /\ (conn[d] \in aborted' => conn[d] \in aborted)
              => BodyAt(d)'
           /\ /\ pc[d] = "done" /\ Abandoned(d) /\ commits[d] = 0 /\ commits'[d] = 1 /\ DurableAt(d)
              => DurableAt(d)'
<1>1. Abandoned(d)' <=> Abandoned(d)
  BY OnlyOwnCall DEF Abandoned
<1> HIDE DEF Abandoned
<1>2. QED
  BY <1>1, OnlyOwnCall DEF WorkAt, BodyAt, DurableAt

(* The work and the fate of c, where its step leaves the server alone. *)
LEMMA OwnWork ==
    ASSUME TypeOK, SessionInv, DurableInv, NoLateDeadlock, NEW c \in Callers, NEW k,
           Quiet(c) \/ Acquire(c) \/ Close(c) \/ BeginFails(c) \/ CatchesError(c),
           commits' = commits
    PROVE  /\ DurableAt(c)'
           /\ k # None /\ WorkAt(k, c) /\ (k \in aborted => k \in aborted') => WorkAt(k, c)'
<1> SessionAt(c) /\ DurableAt(c)
  BY DEF SessionInv, DurableInv
<1> None \notin Errors /\ commits[c] \in Nat /\ None \notin Conns /\ active[c] \in BOOLEAN
    /\ (c \in Decorated => ~Managed(c))
  BY TransactionsAssumption DEF TypeOK, Managed
<1> USE DEF SessionAt, DurableAt, WorkAt, Abandoned, SameHeld, SameFate, SameError,
                    Thrown, Errors
<1>1. CASE Start(c)
  BY <1>1, OwnCall
<1>2. CASE AcquireFails(c)
  <2>1. pc[c] = "acquire" /\ pc'[c] \in {"rolling", "closing"} /\ ~committed[c]
        /\ cause[c] = None /\ cause'[c] = "connect" /\ committed'[c] = committed[c]
    BY <1>2, OwnCall
  <2>2. QED
    BY <2>1
<1>3. CASE StartHookThrows(c)
  BY <1>3, OwnCall
<1>4. CASE Register(c)
  BY <1>4, OwnCall
<1>5. CASE BodyThrows(c)
  BY <1>5, OwnCall
<1>6. CASE Fire(c)
  BY <1>6, OwnCall
<1>7. CASE AfterCommit(c)
  <2>1. pc[c] = "committed" /\ pc'[c] = "closing" /\ committed[c] /\ committed'[c]
    BY <1>7, OwnCall
  <2>2. QED
    BY <2>1
<1>8. CASE RollbackHookThrows(c)
  BY <1>8, OwnCall
<1>9. CASE RollbackWithoutConnection(c)
  BY <1>9, OwnCall
<1>10. CASE AfterRollback(c)
  BY <1>10, OwnCall
<1>11. CASE Retry(c)
  BY <1>11, OwnCall DEF Retries
<1>12. CASE Acquire(c)
  BY <1>12, OwnCall
<1>13. CASE Close(c)
  BY <1>13, OwnCall DEF Retries
<1>14. CASE BeginFails(c)
  BY <1>14, OwnCall
<1>15. CASE CatchesError(c)
  BY <1>15, OwnCall
<1>16. QED
  BY <1>1, <1>2, <1>3, <1>4, <1>5, <1>6, <1>7, <1>8, <1>9, <1>10, <1>11, <1>12, <1>13, <1>14, <1>15 DEF Quiet

(* BEGIN on a connection: the transaction there is c's own, or c goes on   *)
(* in one that was abandoned.                                              *)
LEMMA OpenWork ==
    ASSUME TypeOK, OneOwner, SessionInv, WorkInv, DurableInv, NoLateDeadlock, NEW c \in Callers,
           OpenOnServer(c),
           \/ Begin(c) /\ aborted' = aborted
           \/ BeginFails(c) /\ c \in SetFails /\ aborted' = aborted \cup {conn[c]}
    PROVE  WorkInv' /\ DurableInv'
<1> DEFINE b == conn[c]
<1>1. /\ pc[c] = "connected" /\ conn'[c] = b /\ committed'[c] = FALSE
      /\ \/ pc'[c] = "body" /\ cause'[c] = None /\ error'[c] = None /\ aborted' = aborted
         \/ /\ pc'[c] \in {"rolling", "closing"} /\ cause'[c] = "begin" /\ error'[c] = "begin"
            /\ c \in SetFails /\ b \in aborted' /\ (pc'[c] = "closing" => c \in Decorated)
      /\ Step(c)
  <2>1. pc[c] = "connected" /\ conn'[c] = b /\ committed'[c] = committed[c] /\ SessionAt(c)
    BY OwnCall DEF SessionInv, SameHeld, SameFate
  <2>2. BeginFails(c) => pc'[c] = IF Managed(c) THEN "rolling" ELSE "closing"
    BY DEF BeginFails, Fail, GoTo, TypeOK
  <2>3. committed[c] = FALSE /\ cause[c] = None /\ error[c] = None
    BY <2>1 DEF SessionAt, TypeOK
  <2>4. Step(c)
    BY DEF Step, Goes
  <2>5. QED
    BY <2>1, <2>2, <2>3, <2>4, OwnCall DEF SameError, Thrown, Managed
<1>2. b \in Conns /\ b \notin aborted /\ (\A k \in aborted : k \in aborted') /\ c \notin tx[b]
      /\ \A k \in Conns : c \notin tx[k]
  BY <1>1, ZenonT(30) DEF SessionInv, SessionAt, TypeOK, OpenOnServer, WorkInv, WorkAt
<1>3. commits[c] = 0 /\ commits'[c] = 0
  <2>1. commits[c] = 0
    BY <1>1, TransactionsAssumption DEF DurableInv, DurableAt, SessionInv, SessionAt, TypeOK, Errors
  <2>2. QED
    BY <1>2, <2>1 DEF OpenOnServer
<1>4. /\ \A k \in Conns \ {b} : tx'[k] = tx[k]
      /\ tx'[b] = IF Postgres THEN tx[b] \cup {c} ELSE {c}
      /\ \A d \in Callers : commits'[d] = IF ~Postgres /\ d \in tx[b] THEN commits[d] + 1 ELSE commits[d]
  BY <1>2 DEF OpenOnServer, TypeOK
<1>5. \A k \in Conns, d \in Callers \ {c} : d \in tx'[k] => d \in tx[k] /\ commits'[d] = commits[d]
  BY <1>2, <1>4 DEF WorkInv
<1>t. tx' \in [Conns -> SUBSET Callers]
  BY <1>2, OpenType, TransactionsAssumption
<1> HIDE DEF b
<1>6. ASSUME NEW k \in Conns, NEW d \in tx'[k] PROVE WorkAt(k, d)'
  <2>1. d \in Callers
    BY <1>t, <1>6
  <2>2. CASE d # c
    <3>1. WorkAt(k, d) /\ commits'[d] = 0
      BY <1>5, <1>6, <2>1, <2>2 DEF WorkInv, WorkAt
    <3>2. QED
      BY <1>1, <1>2, <2>1, <2>2, <3>1, OthersWork
  <2>3. CASE d = c
    <3>1. k = b
      BY <1>2, <1>4, <1>6, <2>3
    <3>2. QED
      BY <1>1, <1>3, <2>3, <3>1 DEF WorkAt
  <2>4. QED
    BY <2>2, <2>3
<1>7. ASSUME NEW k \in Conns, NEW l \in Conns, tx'[k] \cap tx'[l] # {} PROVE k = l
  <2>1. PICK d \in Callers : d \in tx'[k] /\ d \in tx'[l]
    BY <1>t, <1>7
  <2>2. CASE d = c
    BY <1>2, <1>4, <2>1, <2>2
  <2>3. CASE d # c
    BY <1>5, <2>1, <2>3 DEF WorkInv
  <2>4. QED
    BY <2>2, <2>3
<1>8. ASSUME NEW d \in Callers PROVE BodyAt(d)'
  <2>1. CASE d # c
    <3>1. pc[d] = "body" => conn[d] \in Conns \ {b}
      BY <2>1 DEF SessionInv, SessionAt, OneOwner, TypeOK, b
    <3>2. pc[d] = "body" /\ conn[d] \in aborted' => conn[d] \in aborted
      BY <3>1 DEF b
    <3>3. QED
      BY <1>1, <1>4, <2>1, <3>1, <3>2, OthersWork DEF WorkInv
  <2>2. CASE d = c
    BY <1>1, <1>2, <1>4, <2>2 DEF BodyAt
  <2>3. QED
    BY <2>1, <2>2
<1>9. ASSUME NEW d \in Callers PROVE DurableAt(d)'
  <2>1. CASE d # c /\ commits'[d] = commits[d]
    BY <1>1, <2>1, OthersWork DEF DurableInv
  <2>2. CASE d # c /\ commits'[d] # commits[d]
    <3>1. d \in tx[b] /\ commits'[d] = commits[d] + 1 /\ WorkAt(b, d)
      BY <1>2, <1>4, <2>2 DEF WorkInv
    <3>2. conn[d] # b
      BY <1>2, <2>2, TransactionsAssumption DEF OneOwner, b
    <3>3. pc[d] = "done" /\ Abandoned(d) /\ commits[d] = 0
      BY <1>2, <3>1, <3>2 DEF WorkAt
    <3>4. QED
      BY <1>1, <2>2, <3>1, <3>3, OthersWork DEF DurableInv
  <2>3. CASE d = c
    BY <1>1, <1>3, <2>3, TransactionsAssumption DEF DurableAt, Errors
  <2>4. QED
    BY <2>1, <2>2, <2>3
<1>10. QED
  BY <1>6, <1>7, <1>8, <1>9 DEF WorkInv, DurableInv

(* COMMIT or ROLLBACK. *)
LEMMA EndWork ==
    ASSUME TypeOK, OneOwner, SessionInv, WorkInv, DurableInv, NoLateDeadlock, NEW c \in Callers,
           Commit(c) \/ CommitFails(c) \/ Rollback(c)
    PROVE  WorkInv' /\ DurableInv'
<1> DEFINE b == conn[c]
<1>1. pc[c] \in {"body", "rolling"} /\ pc'[c] \in {"committed", "rolling", "rolledback"} /\ Step(c)
      /\ SessionAt(c) /\ BodyAt(c) /\ DurableAt(c)
  BY OwnCall DEF Step, Goes, SessionInv, WorkInv, DurableInv
<1>2. b \in Conns
  BY <1>1 DEF SessionAt, Rollback, TypeOK, Commit, CommitFails
<1>3. PICK applied \in BOOLEAN :
         /\ EndOnServer(c, applied)
         /\ \/ applied /\ pc[c] = "body" /\ (committed'[c] \/ cause'[c] = "lost")
            \/ ~applied /\ ~committed'[c] /\ (cause'[c] = "lost" => cause[c] = "lost")
         /\ (pc[c] = "rolling" => cause'[c] = cause[c])
  <2>1. CASE Commit(c)
    BY <2>1, OwnCall DEF Commit
  <2>2. CASE Rollback(c)
    BY <1>1, <2>2, OwnCall DEF Rollback, SessionAt, SameFate
  <2>3. CASE CommitFails(c)
    <3>1. pc[c] = "body" /\ ~committed[c] /\ cause[c] = None /\ committed'[c] = committed[c]
      BY <1>1, <2>3, OwnCall DEF SessionAt, SameFate
    <3>2. \/ EndOnServer(c, FALSE) /\ cause'[c] \in {"commit", "deadlock"}
          \/ EndOnServer(c, TRUE) /\ cause'[c] = "lost"
      BY <2>3, <3>1 DEF CommitFails, Fail, TypeOK
    <3>3. QED
      BY <3>1, <3>2
  <2>4. QED
    BY <2>1, <2>2, <2>3
<1>4. /\ \A k \in Conns \ {b} : tx'[k] = tx[k] /\ (k \in aborted' <=> k \in aborted)
      /\ tx'[b] = {}
      /\ \A d \in Callers : commits'[d] = IF applied /\ d \in tx[b] /\ b \notin aborted
                                          THEN commits[d] + 1 ELSE commits[d]
  BY <1>2, <1>3 DEF EndOnServer, TypeOK
<1> HIDE DEF b
<1>t. tx' \in [Conns -> SUBSET Callers]
  BY <1>2, <1>3, EndType, TransactionsAssumption DEF b
<1>5. \A k \in Conns : \A d \in tx'[k] : k # b /\ d \in tx[k] /\ d \in Callers /\ commits'[d] = commits[d]
  BY <1>2, <1>4 DEF WorkInv, TypeOK
<1>6. ASSUME NEW k \in Conns, NEW d \in tx'[k] PROVE WorkAt(k, d)'
  <2>1. WorkAt(k, d) /\ commits'[d] = 0 /\ d \in Callers /\ (k \in aborted => k \in aborted')
    BY <1>4, <1>5, <1>6 DEF WorkInv, WorkAt
  <2>2. d # c
    BY <1>1, <1>5, <1>6, <2>1 DEF WorkAt, b
  <2>3. QED
    BY <1>1, <2>1, <2>2, OthersWork
<1>7. ASSUME NEW k \in Conns, NEW l \in Conns, tx'[k] \cap tx'[l] # {} PROVE k = l
  BY <1>2, <1>4, <1>7 DEF WorkInv, TypeOK
<1>8. ASSUME NEW d \in Callers PROVE BodyAt(d)'
  <2>1. CASE d # c
    <3>1. pc[d] = "body" => conn[d] \in Conns \ {b}
      BY <2>1 DEF SessionInv, SessionAt, OneOwner, TypeOK, b
    <3>2. QED
      BY <1>1, <1>4, <2>1, <3>1, OthersWork DEF WorkInv
  <2>2. CASE d = c
    BY <1>1, <2>2 DEF BodyAt
  <2>3. QED
    BY <2>1, <2>2
<1>9. ASSUME NEW d \in Callers PROVE DurableAt(d)'
  <2>1. CASE d # c /\ commits'[d] = commits[d]
    BY <1>1, <2>1, OthersWork DEF DurableInv
  <2>2. CASE d # c /\ commits'[d] # commits[d]
    <3>1. d \in tx[b] /\ b \notin aborted /\ commits'[d] = commits[d] + 1 /\ WorkAt(b, d)
      BY <1>2, <1>4, <2>2 DEF WorkInv
    <3>2. conn[d] # b
      BY <1>2, <2>2, TransactionsAssumption DEF OneOwner, b
    <3>3. pc[d] = "done" /\ Abandoned(d) /\ commits[d] = 0
      BY <3>1, <3>2 DEF WorkAt
    <3>4. QED
      BY <1>1, <2>2, <3>1, <3>3, OthersWork DEF DurableInv
  <2>3. CASE d = c /\ applied
    <3>1. pc[c] = "body" /\ (committed'[c] \/ cause'[c] = "lost")
      BY <1>3, <2>3
    <3>2. c \in tx[b] /\ commits[c] = 0 /\ (b \in aborted => c \in Catches)
      BY <1>1, <1>2, <3>1 DEF BodyAt, WorkInv, WorkAt, b
    <3>3. commits'[c] = IF b \notin aborted THEN 1 ELSE 0
      BY <1>4, <2>3, <3>2
    <3>4. cause'[c] = "lost" => pc'[c] = "rolling"
      BY <1>1, <3>1, OwnCall, TransactionsAssumption DEF SessionAt, SameError, Errors
    <3>5. QED
      BY <2>3, <3>1, <3>2, <3>3, <3>4 DEF DurableAt
  <2>4. CASE d = c /\ ~applied
    <3>1. /\ commits'[c] = commits[c] /\ ~committed'[c] /\ (cause'[c] = "lost" => cause[c] = "lost")
          /\ ~committed[c] /\ commits[c] \in Nat
      BY <1>1, <1>3, <1>4, <2>4 DEF SessionAt, TypeOK
    <3>2. pc[c] = "body" => commits[c] = 0 /\ cause[c] = None
      BY <1>1, <1>2 DEF BodyAt, WorkInv, WorkAt, b, SessionAt
    <3>3. pc[c] = "rolling" => cause'[c] = cause[c] /\ pc'[c] = "rolledback"
      BY <1>3, OwnCall
    <3>4. QED
      BY <1>1, <2>4, <3>1, <3>2, <3>3, TransactionsAssumption DEF DurableAt, Errors
  <2>5. QED
    BY <2>1, <2>2, <2>3, <2>4
<1>10. QED
  BY <1>6, <1>7, <1>8, <1>9 DEF WorkInv, DurableInv

(* No step makes work durable twice, or leaves it in a transaction that    *)
(* somebody else will end.                                                 *)
LEMMA WorkPreserved ==
    ASSUME TypeOK, OneOwner, SessionInv, WorkInv, DurableInv, NoLateDeadlock, NEW c \in Callers, Step(c)
    PROVE  WorkInv' /\ DurableInv'
<1>1. ASSUME Quiet(c) \/ Acquire(c) \/ Close(c) \/ BeginFails(c) \/ CatchesError(c),
             tx' = tx, commits' = commits,
             \A k \in aborted : k \in aborted',
             pc'[c] = "body" => pc[c] = "body" /\ conn'[c] = conn[c],
             \/ aborted' = aborted
             \/ aborted' = aborted \cup {conn[c]} /\ c \in Catches /\ pc[c] = "body"
      PROVE  WorkInv' /\ DurableInv'
  <2>1. ASSUME NEW k \in Conns, NEW d \in tx'[k] PROVE WorkAt(k, d)'
    <3>1. WorkAt(k, d) /\ d \in Callers /\ commits'[d] = 0
      BY <1>1, <2>1 DEF WorkInv, WorkAt, TypeOK
    <3>2. CASE d # c
      BY <1>1, <3>1, <3>2, OthersWork
    <3>3. CASE d = c
      BY <1>1, <3>1, <3>3, OwnWork, TransactionsAssumption
    <3>4. QED
      BY <3>2, <3>3
  <2>2. ASSUME NEW d \in Callers PROVE BodyAt(d)'
    <3>1. CASE d # c
      <4>1. pc[d] = "body" /\ pc[c] = "body" => conn[d] # conn[c]
        BY <3>1 DEF SessionInv, SessionAt, OneOwner
      <4>2. QED
        BY <1>1, <3>1, <4>1, OthersWork DEF WorkInv
    <3>2. CASE d = c
      BY <1>1, <3>2 DEF BodyAt, WorkInv
    <3>3. QED
      BY <3>1, <3>2
  <2>3. ASSUME NEW d \in Callers PROVE DurableAt(d)'
    <3>1. CASE d # c
      BY <1>1, <3>1, OthersWork DEF DurableInv
    <3>2. CASE d = c
      BY <1>1, <3>2, OwnWork
    <3>3. QED
      BY <3>1, <3>2
  <2>4. QED
    BY <1>1, <2>1, <2>2, <2>3 DEF WorkInv, DurableInv
<1>2. CASE Quiet(c)
  <2>1. pc'[c] = "body" => pc[c] = "body" /\ conn'[c] = conn[c]
    BY <1>2, OwnCall DEF Quiet, SameHeld
  <2>2. QED
    BY <1>1, <1>2, <2>1, QuietLeavesPool
<1>3. CASE Acquire(c) \/ Close(c)
  BY <1>1, <1>3, OwnCall DEF Acquire, Close
<1>4. CASE CatchesError(c)
  BY <1>1, <1>4, OwnCall DEF CatchesError
<1>5. CASE Begin(c)
  BY <1>5, OpenWork DEF Begin
<1>6. CASE BeginFails(c)
  <2>1. CASE UNCHANGED <<poolVars, conn>>
    BY <1>1, <1>6, <2>1, OwnCall DEF poolVars
  <2>2. CASE c \in SetFails /\ OpenOnServer(c) /\ aborted' = aborted \cup {conn[c]}
    BY <1>6, <2>2, OpenWork
  <2>3. QED
    BY <1>6, <2>1, <2>2 DEF BeginFails
<1>7. CASE Commit(c) \/ CommitFails(c) \/ Rollback(c)
  BY <1>7, EndWork
<1>8. QED
  BY <1>2, <1>3, <1>4, <1>5, <1>6, <1>7 DEF Step, Goes, Quiet

-----------------------------------------------------------------------------
(* The initial state. *)
LEMMA TransactionsInit == Init => TransactionsInv
<1> SUFFICES ASSUME Init PROVE TransactionsInv
  OBVIOUS
<1> USE TransactionsAssumption DEF Init
<1>1. TypeOK
  BY DEF TypeOK, Places
<1>2. OneOwner
  BY DEF OneOwner
<1>3. SessionInv
  BY DEF SessionInv, SessionAt, Errors
<1>4. EndsInv
  BY DEF EndsInv, EndsAt
<1>5. WorkInv
  BY DEF WorkInv, BodyAt
<1>6. DurableInv
  BY DEF DurableInv, DurableAt, Errors
<1>7. EndsToldOnce
  BY DEF EndsToldOnce
<1>8. QED
  BY <1>1, <1>2, <1>3, <1>4, <1>5, <1>6, <1>7 DEF TransactionsInv

(* Every step keeps what holds of calls, connections and durable work. *)
LEMMA TransactionsNext ==
    NoLateDeadlock /\ TransactionsInv /\ [Next]_vars => TransactionsInv'
<1> SUFFICES ASSUME NoLateDeadlock, TransactionsInv, [Next]_vars PROVE TransactionsInv'
  OBVIOUS
<1> USE DEF TransactionsInv
<1>1. CASE Next
  <2>1. PICK c \in Callers : Step(c)
    BY <1>1 DEF Next, Step
  <2>2. QED
    BY <2>1, TypePreserved, OneOwnerPreserved, SessionPreserved, EndsPreserved, WorkPreserved
<1>2. CASE UNCHANGED vars
  BY <1>2 DEF vars, TypeOK, OneOwner, SessionInv, SessionAt, Retries, EndsInv, EndsAt, WorkInv,
              WorkAt, BodyAt, DurableInv, DurableAt, EndsToldOnce, Abandoned
<1>3. QED
  BY <1>1, <1>2

(* The invariant holds throughout. *)
LEMMA TransactionsAlways == ASSUME NoLateDeadlock PROVE Spec => []TransactionsInv
<1>1. TransactionsInv /\ [Next]_vars => TransactionsInv'
  BY TransactionsNext
<1>2. QED
  BY <1>1, TransactionsInit, PTL DEF Spec

(* Whatever fails, every connection is in the pool or with one session, so *)
(* none leaks and none is released twice, and one in the pool has no       *)
(* transaction open that somebody could still commit (openTransaction,     *)
(* commit, rollback and close of the data sources). @Transactional closes  *)
(* a session whose search_path could not be set inside its transaction;    *)
(* without such a statement, that is the hypothesis.                       *)
THEOREM PoolSound ==
    ASSUME NoLateDeadlock, SetFails \cap Decorated = {}
    PROVE  Spec => []PoolIsSound
<1>1. ASSUME TransactionsInv PROVE PoolIsSound
  <2>1. ASSUME NEW k \in free, NEW c \in tx[k] PROVE Abandoned(c)
    <3>1. k \in Conns /\ c \in Callers /\ WorkAt(k, c) /\ conn[c] # k
      BY <1>1, <2>1 DEF TransactionsInv, TypeOK, OneOwner, WorkInv
    <3>2. QED
      BY <3>1 DEF WorkAt
  <2>2. QED
    BY <1>1, <2>1 DEF TransactionsInv, PoolIsSound, FreeConnectionsClean
<1>2. QED
  BY <1>1, TransactionsAlways, PTL

(* The work of a call is made durable once or not at all, and the caller   *)
(* is told which, but for a COMMIT whose answer was lost and a transaction *)
(* the server aborted under a callback that went on (runInNewSession).     *)
THEOREM DurableOnce ==
    ASSUME NoLateDeadlock
    PROVE  Spec => []AllOrNothing
<1>1. ASSUME TransactionsInv PROVE AllOrNothing
  BY <1>1 DEF TransactionsInv, AllOrNothing, DurableInv, DurableAt, SessionInv, SessionAt
<1>2. QED
  BY <1>1, TransactionsAlways, PTL

(* Callbacks of onTransactionEnd are told of the end once, and the truth,  *)
(* whether the attempt committed, rolled back, or failed to do either.     *)
THEOREM EndsTold ==
    ASSUME NoLateDeadlock
    PROVE  Spec => []EndsToldOnce
<1>1. TransactionsInv => EndsToldOnce
  BY DEF TransactionsInv
<1>2. QED
  BY <1>1, TransactionsAlways, PTL

(* A connection in the pool may be inside the transaction of a call that   *)
(* @Transactional made, when the search_path could not be set: it is then  *)
(* aborted, and its next borrower meets an error instead of the work.      *)
Leftovers == \A k \in free : \A c \in tx[k] : Abandoned(c) \/ (c \in Decorated /\ k \in aborted)

(* What a session leaves open on a connection it gives back, if its hook   *)
(* did not abandon it, can never be made durable (the TransactionAspect's  *)
(* close without ROLLBACK in Transactional.ts).                            *)
THEOREM LeftoversAborted ==
    ASSUME NoLateDeadlock
    PROVE  Spec => []Leftovers
<1>1. ASSUME TransactionsInv, NEW k \in free, NEW c \in tx[k]
      PROVE  Abandoned(c) \/ (c \in Decorated /\ k \in aborted)
  <2>1. k \in Conns /\ c \in Callers /\ WorkAt(k, c) /\ conn[c] # k
    BY <1>1 DEF TransactionsInv, TypeOK, OneOwner, WorkInv
  <2>2. QED
    BY <2>1 DEF WorkAt
<1>2. TransactionsInv => Leftovers
  BY <1>1 DEF Leftovers
<1>3. QED
  BY <1>2, TransactionsAlways, PTL

-----------------------------------------------------------------------------
(* What the undos tell of, and what memory takes for the events that count: *)
(* a rollback under way has still to undo some, a write under way is not on *)
(* its object yet.                                                         *)
AfterOf(us) == {us[i].after : i \in DOMAIN us}
Undone == AfterOf(undos)
Underway == {c.after : c \in {d \in calls : d.op = "write"}}
View == (Surviving \cup Undone) \ Underway

(* LeftOn, with the log lg. *)
LeftIn(lg, o, v, S) ==
    /\ v = 0 \/ (v \in S /\ lg[v].obj = o)
    /\ \A i \in S : lg[i].obj = o => i <= v

(* The undo u puts back what the object held before its write. *)
UndoFits(lg, V, u) ==
    /\ u.after \in 1..Len(lg) /\ lg[u.after].obj = u.obj /\ lg[u.after].by = "write"
    /\ LeftIn(lg, u.obj, u.before, {i \in V : i < u.after})

UndosFit(lg, V, us) ==
    /\ \A i \in DOMAIN us : UndoFits(lg, V, us[i])
    /\ \A i, j \in DOMAIN us : i < j => us[i].after < us[j].after

MemoryFits(lg, V, m) == \A o \in Objs : LeftIn(lg, o, m[o], V)

(* Every surviving write is among the undos, or still under way. *)
WritesNoted ==
    transactionActive => \A i \in Surviving : log[i].by = "write" => i \in Undone \cup Underway

(* One call at a time, while the transaction is open. *)
OneCall == /\ \A c, d \in calls : c = d
           /\ calls # {} => transactionActive

(* A write under way: nothing has become of its object since. *)
WriteAt(c) ==
    /\ c.before = mem[c.obj] /\ c.after \in Surviving
    /\ log[c.after].obj = c.obj /\ log[c.after].by = "write"
    /\ \A i \in 1..Len(log) : log[i].obj = c.obj => i <= c.after
    /\ \A i \in DOMAIN undos : undos[i].after < c.after
    /\ \A i \in DOMAIN points : points[i].at < c.after

(* The savepoints s and the marks m pair up by f, in their order: all of    *)
(* them on a server that stacks savepoints, else those of each name's last. *)
Divides(us, k, n) == \A j \in DOMAIN us : j <= k <=> us[j].after <= n
Pairs(sv, us, s, m, f) ==
    /\ \A i \in DOMAIN s : /\ m[f[i]].name = s[i].name
                           /\ Divides(us, m[f[i]].undoCount, s[i].at)
    /\ \A i, j \in DOMAIN s : i < j => f[i] < f[j]
    /\ \A i \in DOMAIN s, k \in DOMAIN m :
          k > f[i] /\ m[k].name = s[i].name => \E j \in DOMAIN s : f[j] = k
    /\ sv = "stack" => Len(m) = Len(s) /\ \A i \in DOMAIN s : f[i] = i

Paired(sv, us, s, m) == \E f \in [DOMAIN s -> DOMAIN m] : Pairs(sv, us, s, m, f)

(* A savepoint under way: the server has it, its mark is still to come. *)
SavepointAt(c) ==
    /\ Len(points) > 0
    /\ points[Len(points)].name = c.name
    /\ \A j \in DOMAIN undos : undos[j].after <= points[Len(points)].at
    /\ Paired(server, undos, SubSeq(points, 1, Len(points) - 1), marks)

(* A rollback under way: what its mark undoes is what was rolled back. *)
RollbackAt(c) ==
    \E k \in DOMAIN marks :
        /\ marks[k].name = c.name /\ \A j \in DOMAIN marks : j > k => marks[j].name # c.name
        /\ \A j \in DOMAIN undos : undos[j].after \in rolledBack <=> j > marks[k].undoCount
        /\ Paired(server, undos, points, SubSeq(marks, 1, k))

CallsAt ==
    /\ \A c \in calls : /\ c.op = "write" => WriteAt(c)
                        /\ c.op = "savepoint" => SavepointAt(c)
                        /\ c.op = "rollbackTo" => RollbackAt(c)
    /\ (\A c \in calls : c.op = "write") => Paired(server, undos, points, marks)
    /\ (\A c \in calls : c.op # "rollbackTo") => Undone \cap rolledBack = {}

InOrder(m) == \A i, j \in DOMAIN m : i <= j => m[i].undoCount <= m[j].undoCount

SavepointsInv ==
    /\ SavepointsTypeOK /\ OneCall
    /\ UndosFit(log, View, undos) /\ WritesNoted /\ MemoryFits(log, View, mem)
    /\ CallsAt /\ InOrder(marks)

Event == [obj : Objs, by : {"write", "caller"}]
Point == [name : Names, at : Values]
UndoRecord == [obj : Objs, before : Values, after : Values]
Mark == [name : Names, undoCount : 0..Len(undos)]
CallRecord == [op : {"write"}, obj : Objs, before : Values, after : Values]
              \cup [op : {"savepoint", "rollbackTo"}, name : Names]

(* SavepointsTypeOK, part by part. *)
LEMMA SavepointTypes ==
    SavepointsTypeOK <=>
        /\ server \in Servers
        /\ log \in Seq(Event) /\ Len(log) <= MaxValues
        /\ rolledBack \subseteq 1..Len(log)
        /\ points \in Seq(Point)
        /\ mem \in [Objs -> Values]
        /\ transactionActive \in BOOLEAN
        /\ undos \in Seq(UndoRecord)
        /\ marks \in Seq(Mark)
        /\ calls \subseteq CallRecord
BY DEF SavepointsTypeOK, Event, Point, UndoRecord, Mark, CallRecord

(* What a list element is. *)
LEMMA ElementsAre ==
    ASSUME SavepointsTypeOK
    PROVE  /\ Len(log) \in Nat /\ Len(undos) \in Nat /\ Len(points) \in Nat /\ Len(marks) \in Nat
           /\ DOMAIN log = 1..Len(log) /\ DOMAIN undos = 1..Len(undos)
           /\ DOMAIN points = 1..Len(points) /\ DOMAIN marks = 1..Len(marks)
           /\ \A i \in 1..Len(log) : log[i].obj \in Objs
           /\ \A i \in 1..Len(undos) : /\ undos[i].obj \in Objs
                                       /\ undos[i].before \in Values /\ undos[i].after \in Values
           /\ \A i \in 1..Len(points) : points[i].name \in Names /\ points[i].at \in Values
           /\ \A i \in 1..Len(marks) : /\ marks[i].name \in Names
                                       /\ marks[i].undoCount \in 0..Len(undos)
<1>1. log \in Seq(Event) /\ undos \in Seq(UndoRecord) /\ points \in Seq(Point) /\ marks \in Seq(Mark)
  BY SavepointTypes
<1>2. /\ Len(log) \in Nat /\ Len(undos) \in Nat /\ Len(points) \in Nat /\ Len(marks) \in Nat
      /\ DOMAIN log = 1..Len(log) /\ DOMAIN undos = 1..Len(undos)
      /\ DOMAIN points = 1..Len(points) /\ DOMAIN marks = 1..Len(marks)
  BY <1>1, LenProperties
<1>3. /\ \A i \in 1..Len(log) : log[i] \in Event
      /\ \A i \in 1..Len(undos) : undos[i] \in UndoRecord
      /\ \A i \in 1..Len(points) : points[i] \in Point
      /\ \A i \in 1..Len(marks) : marks[i] \in Mark
  BY <1>1, ElementOfSeq
<1>4. /\ \A i \in 1..Len(log) : log[i].obj \in Objs
      /\ \A i \in 1..Len(points) : points[i].name \in Names /\ points[i].at \in Values
  BY <1>3 DEF Event, Point
<1>5. /\ \A i \in 1..Len(undos) : /\ undos[i].obj \in Objs
                                  /\ undos[i].before \in Values /\ undos[i].after \in Values
      /\ \A i \in 1..Len(marks) : /\ marks[i].name \in Names
                                  /\ marks[i].undoCount \in 0..Len(undos)
  BY <1>3 DEF UndoRecord, Mark
<1>6. QED
  BY <1>2, <1>4, <1>5

-----------------------------------------------------------------------------
(* Some function is the one Undoing is defined by. *)
LEMMA UndoingFunction ==
    ASSUME NEW us, NEW n, Len(us) - n \in Nat
    PROVE  \E f : /\ f = [k \in 0..Len(us) - n |->
                           IF k = 0 THEN mem ELSE Undo(us[Len(us) - k + 1], f[k - 1])]
                  /\ Undoing(us, n) = f[Len(us) - n]
<1> DEFINE Fits(f, x) == f = [k \in 0..x |->
                                IF k = 0 THEN mem ELSE Undo(us[Len(us) - k + 1], f[k - 1])]
           T == {x \in Nat : \E f : Fits(f, x)}
           F == CHOOSE f : Fits(f, Len(us) - n)
<1>1. Undoing(us, n) = F[Len(us) - n]
  BY DEF Undoing
<1>2. 0 \in T
  <2>1. Fits([k \in 0..0 |-> mem], 0)
    OBVIOUS
  <2>2. QED
    BY <2>1
<1>3. ASSUME NEW x \in Nat, x \in T PROVE x + 1 \in T
  <2>1. PICK f : Fits(f, x)
    BY <1>3
  <2> DEFINE g == [k \in 0..x + 1 |->
                     IF k = x + 1 THEN Undo(us[Len(us) - k + 1], f[k - 1]) ELSE f[k]]
  <2>2. ASSUME NEW k \in 0..x + 1
        PROVE  g[k] = IF k = 0 THEN mem ELSE Undo(us[Len(us) - k + 1], g[k - 1])
    <3>1. CASE k = x + 1
      <4>1. k - 1 \in 0..x + 1 /\ k - 1 # x + 1 /\ k # 0
        BY <3>1
      <4>2. QED
        BY <3>1, <4>1
    <3>2. CASE k = 0
      BY <2>1, <3>2
    <3>3. CASE k # x + 1 /\ k # 0
      <4>1. k - 1 \in 0..x + 1 /\ k - 1 # x + 1 /\ k \in 0..x
        BY <3>3
      <4>2. f[k] = IF k = 0 THEN mem ELSE Undo(us[Len(us) - k + 1], f[k - 1])
        BY <2>1, <4>1
      <4>3. QED
        BY <3>3, <4>1, <4>2
    <3>4. QED
      BY <3>1, <3>2, <3>3
  <2>3. Fits(g, x + 1)
    BY <2>2, Zenon
  <2> HIDE DEF Fits, g
  <2>4. \E h : Fits(h, x + 1)
    BY <2>3, Zenon
  <2>5. QED
    BY <2>4
<1>4. Len(us) - n \in T
  <2> HIDE DEF T
  <2>1. Nat \subseteq T
    BY <1>2, <1>3, NumbersIn
  <2>2. QED
    BY <2>1
<1>5. Fits(F, Len(us) - n)
  <2>1. \E f : Fits(f, Len(us) - n)
    BY <1>4
  <2> HIDE DEF Fits
  <2>2. QED
    BY <2>1, Zenon
<1>6. QED
  BY <1>1, <1>5

(* One undo: the write it is of no longer counts for memory. *)
LEMMA UndoOne ==
    ASSUME SavepointsTypeOK, NEW S \in SUBSET (1..Len(log)), NEW m \in [Objs -> Values],
           \A o \in Objs : LeftIn(log, o, m[o], S),
           NEW u \in UndoRecord, u.after \in S, log[u.after].obj = u.obj,
           LeftIn(log, u.obj, u.before, {i \in S : i < u.after})
    PROVE  /\ Undo(u, m) \in [Objs -> Values]
           /\ \A o \in Objs : LeftIn(log, o, Undo(u, m)[o], S \ {u.after})
<1>1. u.obj \in Objs /\ u.before \in Values /\ u.after \in Values /\ Len(log) \in Nat
  BY ElementsAre DEF UndoRecord
<1>2. \A i \in S : i \in Nat /\ i # 0
  BY <1>1
<1>3. m[u.obj] \in Values /\ u.after <= m[u.obj]
  BY <1>1 DEF LeftIn
<1>4. CASE m[u.obj] = u.after
  <2>1. Undo(u, m) = [m EXCEPT ![u.obj] = u.before]
    BY <1>4 DEF Undo
  <2>2. LeftIn(log, u.obj, u.before, S \ {u.after})
    <3>1. \A i \in S : log[i].obj = u.obj => i <= u.after
      BY <1>1, <1>4 DEF LeftIn
    <3>2. \A i \in S \ {u.after} : log[i].obj = u.obj => i < u.after
      BY <1>1, <1>2, <3>1 DEF Values
    <3>3. \A i \in S \ {u.after} : log[i].obj = u.obj => i <= u.before
      BY <3>2 DEF LeftIn
    <3>4. u.before = 0 \/ (u.before \in S /\ u.before < u.after /\ log[u.before].obj = u.obj)
      BY DEF LeftIn
    <3>5. u.before \in S => u.before < u.after
      BY <1>2, <3>4
    <3>6. u.before \in S => u.before # u.after
      BY <1>1, <3>5 DEF Values
    <3>7. QED
      BY <3>3, <3>4, <3>6 DEF LeftIn
  <2>3. ASSUME NEW o \in Objs, o # u.obj PROVE LeftIn(log, o, m[o], S \ {u.after})
    BY <2>3 DEF LeftIn
  <2>4. QED
    BY <1>1, <2>1, <2>2, <2>3
<1>5. CASE m[u.obj] # u.after
  <2>1. Undo(u, m) = m
    BY <1>5 DEF Undo
  <2>2. ASSUME NEW o \in Objs PROVE LeftIn(log, o, m[o], S \ {u.after})
    <3>1. m[o] # u.after
      BY <1>1, <1>2, <1>5 DEF LeftIn
    <3>2. QED
      BY <3>1 DEF LeftIn
  <2>3. QED
    BY <2>1, <2>2
<1>6. QED
  BY <1>4, <1>5

(* The writes of the undos past the n-th. *)
Past(us, n) == {us[i].after : i \in {j \in DOMAIN us : j > n}}
After(n) == Past(undos, n)

(* Undoing all but the first n leaves what the other events left. *)
LEMMA UndoingRight ==
    ASSUME SavepointsTypeOK, UndosFit(log, View, undos), MemoryFits(log, View, mem), Underway = {}, NEW n \in 0..Len(undos)
    PROVE  /\ Undoing(undos, n) \in [Objs -> Values]
           /\ \A o \in Objs : LeftIn(log, o, Undoing(undos, n)[o], View \ After(n))
<1>1. /\ Len(undos) \in Nat /\ DOMAIN undos = 1..Len(undos) /\ Len(log) \in Nat
      /\ \A i \in 1..Len(undos) : undos[i] \in UndoRecord
  BY ElementsAre, SavepointTypes, ElementOfSeq
<1>2. PICK l \in Nat : l = Len(undos)
  BY <1>1
<1>3. n \in Nat /\ n <= l /\ l - n \in Nat
  BY <1>2
<1>4. PICK f : /\ f = [k \in 0..l - n |-> IF k = 0 THEN mem ELSE Undo(undos[l - k + 1], f[k - 1])]
               /\ Undoing(undos, n) = f[l - n]
  BY <1>2, <1>3, UndoingFunction
<1>5. f[0] = mem /\ \A k \in 0..l - n : k # 0 => f[k] = Undo(undos[l - k + 1], f[k - 1])
  BY <1>3, <1>4
<1>6. /\ \A i \in 1..l : UndoFits(log, View, undos[i])
      /\ \A i, j \in 1..l : i < j => undos[i].after < undos[j].after
  BY <1>1, <1>2 DEF UndosFit
<1>7. View \subseteq 1..Len(log) /\ \A i \in 1..l : undos[i].after \in View
  BY <1>1, <1>2, <1>6 DEF View, Surviving, Undone, AfterOf, UndoFits
<1> DEFINE P(k) == /\ f[k] \in [Objs -> Values]
                   /\ \A o \in Objs : LeftIn(log, o, f[k][o], View \ After(l - k))
           T == {k \in Nat : k <= l - n => P(k)}
<1>8. 0 \in T
  <2>1. After(l - 0) = {}
    BY <1>1, <1>2 DEF After, Past
  <2>2. mem \in [Objs -> Values] /\ \A o \in Objs : LeftIn(log, o, mem[o], View)
    BY SavepointTypes DEF MemoryFits
  <2>3. View \ After(l - 0) = View
    BY <2>1
  <2>4. QED
    BY <1>5, <2>2, <2>3
<1>9. ASSUME NEW k \in Nat, k \in T, k + 1 <= l - n PROVE P(k + 1)
  <2>1. P(k)
    <3>1. k <= l - n
      BY <1>3, <1>9
    <3> HIDE DEF P
    <3>2. QED
      BY <1>9, <3>1
  <2>2. PICK i \in 1..l : i = l - k
    BY <1>3, <1>9
  <2>3. PICK u \in UndoRecord : u = undos[i]
    BY <1>1, <1>2
  <2>4. PICK S : S = View \ After(i)
    OBVIOUS
  <2>5. PICK m \in [Objs -> Values] : m = f[k]
    BY <2>1
  <2>6. \A o \in Objs : LeftIn(log, o, m[o], S)
    BY <2>1, <2>2, <2>4, <2>5
  <2>7. \A j \in 1..l : j > i => u.after < undos[j].after
    BY <1>6, <2>3
  <2>8. \A j \in 1..l : undos[j].after \in Nat
    BY <1>1, <1>2 DEF UndoRecord, Values
  <2>9. \A x \in After(i) : u.after < x /\ x \in Nat
    BY <1>1, <1>2, <2>7, <2>8 DEF After, Past
  <2>10. u.after \in S
    BY <1>7, <2>3, <2>4, <2>8, <2>9
  <2>11. {x \in S : x < u.after} = {x \in View : x < u.after}
    <3>1. u.after \in Nat
      BY <2>3, <2>8
    <3>2. \A x \in After(i) : ~(x < u.after)
      BY <2>9, <3>1
    <3>3. QED
      BY <2>4, <3>2
  <2>12. /\ log[u.after].obj = u.obj /\ LeftIn(log, u.obj, u.before, {x \in S : x < u.after})
    BY <1>6, <2>3, <2>11 DEF UndoFits
  <2>13. S \in SUBSET (1..Len(log))
    BY <1>7, <2>4
  <2>14. /\ Undo(u, m) \in [Objs -> Values]
         /\ \A o \in Objs : LeftIn(log, o, Undo(u, m)[o], S \ {u.after})
    BY <2>6, <2>10, <2>12, <2>13, UndoOne
  <2>15. f[k + 1] = Undo(u, m)
    <3>1. k + 1 \in 0..l - n /\ k + 1 # 0 /\ (k + 1) - 1 = k /\ l - (k + 1) + 1 = i
      BY <1>3, <1>9, <2>2
    <3>2. f[k + 1] = Undo(undos[l - (k + 1) + 1], f[(k + 1) - 1])
      BY <1>5, <3>1
    <3>3. QED
      BY <2>3, <2>5, <3>1, <3>2
  <2>16. S \ {u.after} = View \ After(l - (k + 1))
    <3>1. l - (k + 1) = i - 1
      BY <2>2
    <3>2. \A j \in 1..l : j > i - 1 <=> j = i \/ j > i
      OBVIOUS
    <3>3. After(i - 1) = After(i) \cup {u.after}
      BY <1>1, <1>2, <2>3, <3>2 DEF After, Past
    <3>4. QED
      BY <2>4, <3>1, <3>3
  <2>17. QED
    BY <2>14, <2>15, <2>16
<1>10. \A k \in Nat : k \in T => k + 1 \in T
  <2> SUFFICES ASSUME NEW k \in Nat, k \in T PROVE k + 1 \in T
    OBVIOUS
  <2>1. k + 1 <= l - n => P(k + 1)
    BY <1>9
  <2> HIDE DEF P
  <2>2. QED
    BY <2>1
<1>11. P(l - n)
  <2>1. Nat \subseteq T
    <3> HIDE DEF T
    <3>1. QED
      BY <1>8, <1>10, NumbersIn
  <2> HIDE DEF P
  <2>2. QED
    BY <1>3, <2>1
<1>12. l - (l - n) = n
  BY <1>3
<1>13. QED
  BY <1>4, <1>11, <1>12

-----------------------------------------------------------------------------
(* Nothing pairs up with nothing. *)
LEMMA PairedNone == ASSUME NEW sv, NEW us PROVE Paired(sv, us, <<>>, <<>>)
<1>1. DOMAIN <<>> = {} /\ Len(<<>>) = 0
  BY EmptySeq
<1>2. PICK f : f = [i \in {} |-> 0]
  OBVIOUS
<1>3. f \in [{} -> {}]
  BY <1>2
<1>4. Pairs(sv, us, <<>>, <<>>, f)
  BY <1>1 DEF Pairs
<1>5. QED
  BY <1>1, <1>3, <1>4 DEF Paired

(* Other undos that the marks divide at the same events. *)
LEMMA PairedUndos ==
    ASSUME NEW sv, NEW us, NEW vs, NEW s, NEW m, Paired(sv, us, s, m),
           \A i \in DOMAIN s, k \in DOMAIN m :
              Divides(us, m[k].undoCount, s[i].at) => Divides(vs, m[k].undoCount, s[i].at)
    PROVE  Paired(sv, vs, s, m)
<1>1. PICK f \in [DOMAIN s -> DOMAIN m] : Pairs(sv, us, s, m, f)
  BY DEF Paired
<1>2. \A i \in DOMAIN s : f[i] \in DOMAIN m
  BY <1>1
<1>3. Pairs(sv, vs, s, m, f)
  BY <1>1, <1>2 DEF Pairs
<1>4. QED
  BY <1>1, <1>3 DEF Paired

(* A savepoint and its mark are added. *)
LEMMA PairedMore ==
    ASSUME NEW sv, NEW us, NEW P, NEW M, NEW s \in Seq(P), NEW m \in Seq(M),
           Paired(sv, us, s, m), NEW p \in P, NEW q \in M, q.name = p.name,
           Divides(us, q.undoCount, p.at)
    PROVE  Paired(sv, us, Append(s, p), Append(m, q))
<1>1. PICK a \in Nat : a = Len(s)
  BY LenProperties
<1>2. PICK b \in Nat : b = Len(m)
  BY LenProperties
<1>3. DOMAIN s = 1..a /\ DOMAIN m = 1..b
  BY <1>1, <1>2, LenProperties
<1>4. PICK s2 : s2 = Append(s, p)
  OBVIOUS
<1>5. PICK m2 : m2 = Append(m, q)
  OBVIOUS
<1>6. /\ Len(s2) = a + 1 /\ DOMAIN s2 = 1..a + 1 /\ s2[a + 1] = p /\ \A i \in 1..a : s2[i] = s[i]
      /\ Len(m2) = b + 1 /\ DOMAIN m2 = 1..b + 1 /\ m2[b + 1] = q /\ \A i \in 1..b : m2[i] = m[i]
  <2>1. s2 \in Seq(P) /\ m2 \in Seq(M)
    BY <1>4, <1>5, AppendProperties
  <2>2. /\ Len(s2) = a + 1 /\ s2[a + 1] = p /\ \A i \in 1..a : s2[i] = s[i]
        /\ Len(m2) = b + 1 /\ m2[b + 1] = q /\ \A i \in 1..b : m2[i] = m[i]
    BY <1>1, <1>2, <1>4, <1>5, AppendProperties
  <2>3. QED
    BY <2>1, <2>2, LenProperties
<1>7. PICK f \in [1..a -> 1..b] : Pairs(sv, us, s, m, f)
  BY <1>3 DEF Paired
<1>8. /\ \A i \in 1..a : /\ m[f[i]].name = s[i].name
                         /\ Divides(us, m[f[i]].undoCount, s[i].at)
      /\ \A i, j \in 1..a : i < j => f[i] < f[j]
      /\ \A i \in 1..a, k \in 1..b : k > f[i] /\ m[k].name = s[i].name => \E j \in 1..a : f[j] = k
      /\ sv = "stack" => b = a /\ \A i \in 1..a : f[i] = i
  BY <1>1, <1>2, <1>3, <1>7 DEF Pairs
<1>9. PICK g : g = [i \in 1..a + 1 |-> IF i = a + 1 THEN b + 1 ELSE f[i]]
  OBVIOUS
<1>10. /\ \A i \in 1..a : g[i] = f[i] /\ g[i] \in 1..b
       /\ g[a + 1] = b + 1 /\ g \in [1..a + 1 -> 1..b + 1]
  BY <1>7, <1>9
<1>11. \A i \in 1..a + 1 : m2[g[i]].name = s2[i].name /\ Divides(us, m2[g[i]].undoCount, s2[i].at)
  <2>1. ASSUME NEW i \in 1..a
        PROVE  m2[g[i]].name = s2[i].name /\ Divides(us, m2[g[i]].undoCount, s2[i].at)
    <3>1. PICK k \in 1..b : k = g[i]
      BY <1>10
    <3>2. k = f[i] /\ m2[k] = m[k] /\ s2[i] = s[i]
      BY <1>6, <1>10, <3>1
    <3>3. m[k].name = s[i].name /\ Divides(us, m[k].undoCount, s[i].at)
      BY <1>8, <3>2
    <3>4. QED
      BY <3>1, <3>2, <3>3
  <2>2. m2[g[a + 1]].name = s2[a + 1].name /\ Divides(us, m2[g[a + 1]].undoCount, s2[a + 1].at)
    BY <1>6, <1>10
  <2>3. \A i \in 1..a + 1 : i \in 1..a \/ i = a + 1
    OBVIOUS
  <2>4. QED
    BY <2>1, <2>2, <2>3
<1>12. \A i, j \in 1..a + 1 : i < j => g[i] < g[j]
  <2> SUFFICES ASSUME NEW i \in 1..a + 1, NEW j \in 1..a + 1, i < j PROVE g[i] < g[j]
    OBVIOUS
  <2>1. i \in 1..a
    OBVIOUS
  <2>2. g[i] = f[i] /\ g[i] \in 1..b
    BY <1>10, <2>1
  <2>3. CASE j = a + 1
    <3>1. g[j] = b + 1
      BY <1>10, <2>3
    <3>2. QED
      BY <1>2, <2>2, <3>1
  <2>4. CASE j \in 1..a
    <3>1. g[j] = f[j] /\ f[i] < f[j]
      BY <1>8, <1>10, <2>1, <2>4
    <3>2. QED
      BY <2>2, <3>1
  <2>5. j \in 1..a \/ j = a + 1
    BY <1>1
  <2>6. QED
    BY <2>3, <2>4, <2>5
<1>13. ASSUME NEW i \in 1..a + 1, NEW k \in 1..b + 1, k > g[i], m2[k].name = s2[i].name
       PROVE  \E j \in 1..a + 1 : g[j] = k
  <2>1. CASE k = b + 1
    BY <1>10, <2>1
  <2>2. CASE k \in 1..b
    <3>1. i \in 1..a
      BY <1>10, <1>13, <2>2
    <3>2. k > f[i] /\ m[k].name = s[i].name
      BY <1>6, <1>10, <1>13, <2>2, <3>1
    <3>3. PICK j \in 1..a : f[j] = k
      BY <1>8, <2>2, <3>1, <3>2
    <3>4. j \in 1..a + 1 /\ g[j] = k
      BY <1>10, <3>3
    <3>5. QED
      BY <3>4
  <2>3. QED
    BY <2>1, <2>2
<1>14. sv = "stack" => b + 1 = a + 1 /\ \A i \in 1..a + 1 : g[i] = i
  BY <1>8, <1>10
<1>15. Pairs(sv, us, s2, m2, g)
  BY <1>6, <1>11, <1>12, <1>13, <1>14 DEF Pairs
<1>16. QED
  BY <1>4, <1>5, <1>6, <1>10, <1>15 DEF Paired

(* The last savepoint of a name and the last mark of that name: up to them  *)
(* the others pair up too.                                                 *)
LEMMA PairedCut ==
    ASSUME NEW sv, NEW us, NEW P, NEW M, NEW s \in Seq(P), NEW m \in Seq(M),
           Paired(sv, us, s, m), NEW i \in 1..Len(s),
           \A j \in 1..Len(s) : j > i => s[j].name # s[i].name
    PROVE  \E k \in 1..Len(m) :
              /\ m[k].name = s[i].name /\ \A j \in 1..Len(m) : j > k => m[j].name # s[i].name
              /\ Divides(us, m[k].undoCount, s[i].at)
              /\ Paired(sv, us, SubSeq(s, 1, i), SubSeq(m, 1, k))
<1>1. PICK a \in Nat : a = Len(s)
  BY LenProperties
<1>2. PICK b \in Nat : b = Len(m)
  BY LenProperties
<1>3. DOMAIN s = 1..a /\ DOMAIN m = 1..b
  BY <1>1, <1>2, LenProperties
<1>4. PICK f \in [1..a -> 1..b] : Pairs(sv, us, s, m, f)
  BY <1>3 DEF Paired
<1>5. /\ \A x \in 1..a : /\ m[f[x]].name = s[x].name
                         /\ Divides(us, m[f[x]].undoCount, s[x].at)
      /\ \A x, y \in 1..a : x < y => f[x] < f[y]
      /\ \A x \in 1..a, k \in 1..b : k > f[x] /\ m[k].name = s[x].name => \E y \in 1..a : f[y] = k
      /\ sv = "stack" => b = a /\ \A x \in 1..a : f[x] = x
  BY <1>1, <1>2, <1>3, <1>4 DEF Pairs
<1>6. i \in 1..a /\ i \in Nat
  BY <1>1
<1>7. PICK k \in 1..b : k = f[i]
  BY <1>4, <1>6
<1>8. m[k].name = s[i].name /\ Divides(us, m[k].undoCount, s[i].at)
  BY <1>5, <1>6, <1>7
<1>9. ASSUME NEW j \in 1..b, j > k, m[j].name = s[i].name PROVE FALSE
  <2>1. PICK y \in 1..a : f[y] = j
    BY <1>5, <1>6, <1>7, <1>9
  <2>2. y > i
    <3>1. ~(y < i)
      <4>1. ASSUME y < i PROVE FALSE
        <5>1. f[y] < f[i]
          BY <1>5, <1>6, <2>1, <4>1
        <5>2. QED
          BY <1>7, <1>9, <2>1, <5>1
      <4>2. QED
        BY <4>1
    <3>2. y # i
      BY <1>7, <1>9, <2>1
    <3>3. QED
      BY <1>6, <3>1, <3>2
  <2>3. s[y].name = s[i].name
    BY <1>5, <1>9, <2>1
  <2>4. QED
    BY <1>1, <2>1, <2>2, <2>3
<1>10. PICK s2 : s2 = SubSeq(s, 1, i)
  OBVIOUS
<1>11. PICK m2 : m2 = SubSeq(m, 1, k)
  OBVIOUS
<1>12. /\ Len(s2) = i /\ DOMAIN s2 = 1..i /\ \A x \in 1..i : s2[x] = s[x]
       /\ Len(m2) = k /\ DOMAIN m2 = 1..k /\ \A x \in 1..k : m2[x] = m[x]
  <2>1. \A x \in 1..a : s[x] \in P
    BY <1>1, ElementOfSeq
  <2>2. \A x \in 1..b : m[x] \in M
    BY <1>2, ElementOfSeq
  <2>3. /\ s2 \in Seq(P) /\ Len(s2) = i /\ \A x \in 1..i : s2[x] = s[x]
    <3>1. \A x \in 1..i : s[x] \in P
      BY <1>6, <2>1
    <3>2. QED
      BY <1>6, <1>10, <3>1, SubSeqProperties
  <2>4. /\ m2 \in Seq(M) /\ Len(m2) = k /\ \A x \in 1..k : m2[x] = m[x]
    <3>1. \A x \in 1..k : m[x] \in M
      BY <2>2
    <3>2. QED
      BY <1>11, <3>1, SubSeqProperties
  <2>5. QED
    BY <2>3, <2>4, LenProperties
<1>13. PICK g : g = [x \in 1..i |-> f[x]]
  OBVIOUS
<1>14. ASSUME NEW x \in 1..i PROVE x \in 1..a /\ g[x] = f[x] /\ f[x] \in 1..k
  <2>1. x \in 1..a /\ g[x] = f[x]
    BY <1>6, <1>13
  <2>2. x < i => f[x] < f[i]
    BY <1>5, <1>6, <2>1
  <2>3. f[x] \in 1..b
    BY <1>4, <2>1
  <2>4. QED
    BY <1>7, <2>1, <2>2, <2>3
<1>15. g \in [1..i -> 1..k]
  BY <1>13, <1>14
<1>16. ASSUME NEW x \in 1..i, NEW l \in 1..k, l > g[x], m2[l].name = s2[x].name
       PROVE  \E y \in 1..i : g[y] = l
  <2>1. l \in 1..b /\ l > f[x] /\ m[l].name = s[x].name /\ x \in 1..a
    BY <1>12, <1>14, <1>16
  <2>2. PICK y \in 1..a : f[y] = l
    BY <1>5, <2>1
  <2>3. y <= i
    <3>1. i < y => f[i] < f[y]
      BY <1>5, <1>6
    <3>2. QED
      BY <1>6, <1>7, <2>2, <3>1
  <2>4. y \in 1..i
    BY <2>3
  <2>5. QED
    BY <1>14, <2>2, <2>4
<1>17. /\ \A x \in 1..i : /\ m2[g[x]].name = s2[x].name
                          /\ Divides(us, m2[g[x]].undoCount, s2[x].at)
       /\ \A x, y \in 1..i : x < y => g[x] < g[y]
       /\ sv = "stack" => k = i /\ \A x \in 1..i : g[x] = x
  <2>1. ASSUME NEW x \in 1..i
        PROVE  /\ m2[g[x]].name = s2[x].name
               /\ Divides(us, m2[g[x]].undoCount, s2[x].at)
    <3>1. PICK l \in 1..k : l = f[x]
      BY <1>14
    <3>2. x \in 1..a /\ g[x] = l /\ m2[l] = m[l] /\ s2[x] = s[x]
      BY <1>12, <1>14, <3>1
    <3>3. m[l].name = s[x].name /\ Divides(us, m[l].undoCount, s[x].at)
      BY <1>5, <3>1, <3>2
    <3>4. QED
      BY <3>2, <3>3
  <2>2. ASSUME NEW x \in 1..i, NEW y \in 1..i, x < y PROVE g[x] < g[y]
    <3>1. f[x] < f[y]
      BY <1>5, <1>14, <2>2
    <3>2. QED
      BY <1>14, <3>1
  <2>3. sv = "stack" => k = i /\ \A x \in 1..i : g[x] = x
    BY <1>5, <1>6, <1>7, <1>14
  <2>4. QED
    BY <2>1, <2>2, <2>3
<1>18. Pairs(sv, us, s2, m2, g)
  BY <1>12, <1>16, <1>17 DEF Pairs
<1>19. Paired(sv, us, s2, m2)
  BY <1>12, <1>15, <1>18 DEF Paired
<1>20. QED
  BY <1>2, <1>8, <1>9, <1>10, <1>11, <1>19

(* The savepoints of one name are replaced: the others pair up as before. *)
LEMMA PairedWithout ==
    ASSUME NEW sv, NEW us, NEW P, NEW M, NEW s \in Seq(P), NEW m \in Seq(M),
           Paired(sv, us, s, m), sv # "stack", NEW n, NEW gone,
           \A p \in ToSet(s) : p \in gone <=> p.name = n
    PROVE  Paired(sv, us, Without(s, gone), m)
<1>1. \A k \in 1..Len(s) : s[k] \in ToSet(s)
  BY LenProperties DEF ToSet
<1>2. PICK w : w = Without(s, gone)
  OBVIOUS
<1>3. w \in Seq(P)
  BY <1>2, WithoutFacts
<1>4. PICK a \in Nat : a = Len(s)
  BY LenProperties
<1>5. PICK b \in Nat : b = Len(m)
  BY LenProperties
<1>6. PICK l \in Nat : l = Len(w)
  BY <1>3, LenProperties
<1>7. DOMAIN s = 1..a /\ DOMAIN m = 1..b /\ DOMAIN w = 1..l
  BY <1>3, <1>4, <1>5, <1>6, LenProperties
<1>8. PICK f \in [1..a -> 1..b] : Pairs(sv, us, s, m, f)
  BY <1>7 DEF Paired
<1>9. /\ \A x \in 1..a : /\ m[f[x]].name = s[x].name
                         /\ Divides(us, m[f[x]].undoCount, s[x].at)
      /\ \A x, y \in 1..a : x < y => f[x] < f[y]
      /\ \A x \in 1..a, k \in 1..b : k > f[x] /\ m[k].name = s[x].name => \E y \in 1..a : f[y] = k
  BY <1>7, <1>8 DEF Pairs
<1>10. PICK g \in [1..l -> 1..a] : InPlaces(g, s, gone)
  BY <1>2, <1>4, <1>6, WithoutPlaces
<1>11. /\ \A x \in 1..l : w[x] = s[g[x]]
       /\ \A x, y \in 1..l : x < y => g[x] < g[y]
       /\ \A k \in 1..a : s[k] \notin gone => \E x \in 1..l : g[x] = k
  BY <1>2, <1>4, <1>6, <1>10 DEF InPlaces
<1>12. \A k \in 1..a : s[k].name # n => s[k] \notin gone
  BY <1>1, <1>4
<1>13. \A x \in 1..l : w[x].name # n
  <2>1. ToSet(w) = ToSet(s) \ gone
    BY <1>2, WithoutFacts
  <2>2. \A x \in 1..l : w[x] \in ToSet(w)
    BY <1>7 DEF ToSet
  <2>3. QED
    BY <1>1, <2>1, <2>2
<1>14. PICK h : h = [x \in 1..l |-> f[g[x]]]
  OBVIOUS
<1>15. \A x \in 1..l : g[x] \in 1..a /\ h[x] = f[g[x]] /\ f[g[x]] \in 1..b
  BY <1>8, <1>10, <1>14
<1>16. h \in [1..l -> 1..b]
  BY <1>14, <1>15
<1>17. \A x \in 1..l : m[h[x]].name = w[x].name /\ Divides(us, m[h[x]].undoCount, w[x].at)
  <2> SUFFICES ASSUME NEW x \in 1..l
               PROVE  m[h[x]].name = w[x].name /\ Divides(us, m[h[x]].undoCount, w[x].at)
    OBVIOUS
  <2>1. PICK y \in 1..a : y = g[x]
    BY <1>15
  <2>2. w[x] = s[y] /\ h[x] = f[y]
    BY <1>11, <1>15, <2>1
  <2>3. m[f[y]].name = s[y].name /\ Divides(us, m[f[y]].undoCount, s[y].at)
    BY <1>9
  <2>4. QED
    BY <2>2, <2>3
<1>18. \A x, y \in 1..l : x < y => h[x] < h[y]
  BY <1>9, <1>11, <1>15
<1>19. ASSUME NEW x \in 1..l, NEW k \in 1..b, k > h[x], m[k].name = w[x].name
       PROVE  \E y \in 1..l : h[y] = k
  <2>1. PICK j \in 1..a : f[j] = k
    <3>1. PICK y \in 1..a : y = g[x]
      BY <1>15
    <3>2. k > f[y] /\ m[k].name = s[y].name
      BY <1>11, <1>15, <1>19, <3>1
    <3>3. QED
      BY <1>9, <3>2
  <2>2. s[j].name # n
    BY <1>9, <1>13, <1>19, <2>1
  <2>3. PICK y \in 1..l : g[y] = j
    BY <1>11, <1>12, <2>2
  <2>4. QED
    BY <1>15, <2>1, <2>3
<1>20. Pairs(sv, us, w, m, h)
  BY <1>7, <1>17, <1>18, <1>19 DEF Pairs
<1>21. QED
  BY <1>2, <1>7, <1>16, <1>20 DEF Paired

-----------------------------------------------------------------------------
(* LeftIn is LeftOn with the log of the moment. *)
LEMMA LeftOnIn == \A o, v, S : LeftOn(o, v, S) <=> LeftIn(log, o, v, S)
BY DEF LeftOn, LeftIn

(* More has been logged, and counts or not: an undo stays right when the    *)
(* same events count before its write.                                     *)
LEMMA UndoStays ==
    ASSUME NEW lg, NEW kg, NEW V, NEW W, NEW u, UndoFits(lg, V, u),
           Len(lg) \in Nat, Len(kg) \in Nat, Len(lg) <= Len(kg),
           \A j \in 1..Len(lg) : kg[j] = lg[j],
           V \subseteq 1..Len(lg), W \subseteq 1..Len(kg),
           \A j \in Nat : j < u.after => (j \in V <=> j \in W)
    PROVE  UndoFits(kg, W, u)
<1>1. /\ u.after \in 1..Len(lg) /\ u.after \in 1..Len(kg)
      /\ kg[u.after].obj = u.obj /\ kg[u.after].by = "write"
  BY DEF UndoFits
<1>2. PICK S : S = {i \in V : i < u.after}
  OBVIOUS
<1>3. {i \in W : i < u.after} = S
  <2>1. \A i \in V : i \in Nat
    OBVIOUS
  <2>2. \A i \in W : i \in Nat
    OBVIOUS
  <2>3. QED
    BY <1>2, <2>1, <2>2
<1>4. LeftIn(lg, u.obj, u.before, S)
  BY <1>2 DEF UndoFits
<1>5. \A i \in S : i \in 1..Len(lg) /\ kg[i] = lg[i]
  BY <1>2
<1>6. LeftIn(kg, u.obj, u.before, S)
  BY <1>4, <1>5 DEF LeftIn
<1>7. QED
  BY <1>1, <1>3, <1>6 DEF UndoFits

(* The same of all undos. *)
LEMMA UndosStay ==
    ASSUME NEW lg, NEW kg, NEW V, NEW W, NEW us, UndosFit(lg, V, us),
           Len(lg) \in Nat, Len(kg) \in Nat, Len(lg) <= Len(kg),
           \A j \in 1..Len(lg) : kg[j] = lg[j],
           V \subseteq 1..Len(lg), W \subseteq 1..Len(kg),
           \A i \in DOMAIN us, j \in Nat : j < us[i].after => (j \in V <=> j \in W)
    PROVE  UndosFit(kg, W, us)
<1>1. ASSUME NEW i \in DOMAIN us PROVE UndoFits(kg, W, us[i])
  <2>1. PICK u : u = us[i]
    OBVIOUS
  <2>2. UndoFits(lg, V, u)
    BY <2>1 DEF UndosFit
  <2>3. \A j \in Nat : j < u.after => (j \in V <=> j \in W)
    BY <2>1
  <2>4. UndoFits(kg, W, u)
    BY <2>2, <2>3, UndoStays
  <2>5. QED
    BY <2>1, <2>4
<1>2. QED
  BY <1>1 DEF UndosFit

(* An undo is added, of a later write. *)
LEMMA UndosMore ==
    ASSUME NEW lg, NEW V, NEW S, NEW us \in Seq(S), NEW u \in S,
           UndosFit(lg, V, us), UndoFits(lg, V, u),
           \A i \in DOMAIN us : us[i].after < u.after
    PROVE  UndosFit(lg, V, Append(us, u)) /\ AfterOf(Append(us, u)) = AfterOf(us) \cup {u.after}
<1>1. PICK n \in Nat : n = Len(us)
  BY LenProperties
<1>2. PICK t : t = Append(us, u)
  OBVIOUS
<1>3. DOMAIN us = 1..n /\ DOMAIN t = 1..n + 1 /\ t[n + 1] = u /\ \A i \in 1..n : t[i] = us[i]
  <2>1. t \in Seq(S) /\ Len(t) = n + 1 /\ t[n + 1] = u /\ \A i \in 1..n : t[i] = us[i]
    BY <1>1, <1>2, AppendProperties
  <2>2. QED
    BY <1>1, <2>1, LenProperties
<1>4. \A i \in 1..n + 1 : i \in 1..n \/ i = n + 1
  BY <1>1
<1>5. /\ \A i \in 1..n : UndoFits(lg, V, us[i])
      /\ \A i, j \in 1..n : i < j => us[i].after < us[j].after
  BY <1>3 DEF UndosFit
<1>6. \A i \in 1..n + 1 : UndoFits(lg, V, t[i])
  BY <1>3, <1>4, <1>5
<1>7. ASSUME NEW i \in 1..n + 1, NEW j \in 1..n + 1, i < j PROVE t[i].after < t[j].after
  <2>1. i \in 1..n
    BY <1>7
  <2>2. CASE j = n + 1
    BY <1>3, <2>1, <2>2
  <2>3. CASE j \in 1..n
    BY <1>3, <1>5, <1>7, <2>1, <2>3
  <2>4. QED
    BY <1>4, <2>2, <2>3
<1>8. AfterOf(t) = AfterOf(us) \cup {u.after}
  <2>1. \A x : x \in AfterOf(t) <=> \E i \in 1..n + 1 : x = t[i].after
    BY <1>3 DEF AfterOf
  <2>2. \A x : x \in AfterOf(us) <=> \E i \in 1..n : x = us[i].after
    BY <1>3 DEF AfterOf
  <2>3. \A i \in 1..n : i \in 1..n + 1 /\ t[i].after = us[i].after
    BY <1>1, <1>3
  <2>4. n + 1 \in 1..n + 1 /\ t[n + 1].after = u.after
    BY <1>1, <1>3
  <2>5. QED
    BY <1>4, <2>1, <2>2, <2>3, <2>4
<1>9. UndosFit(lg, V, t)
  BY <1>3, <1>6, <1>7 DEF UndosFit
<1>10. QED
  BY <1>2, <1>8, <1>9

(* The first n undos are left, and the events of the others no longer count. *)
LEMMA UndosCut ==
    ASSUME NEW lg, NEW V, NEW S, NEW us \in Seq(S), NEW n \in 0..Len(us),
           UndosFit(lg, V, us), Len(lg) \in Nat, V \subseteq 1..Len(lg)
    PROVE  /\ UndosFit(lg, V \ Past(us, n), SubSeq(us, 1, n))
           /\ SubSeq(us, 1, n) \in Seq(S) /\ Len(SubSeq(us, 1, n)) = n
           /\ \A i \in 1..n : SubSeq(us, 1, n)[i] = us[i]
<1>0. PICK W : W = V \ Past(us, n)
  OBVIOUS
<1>1. PICK l \in Nat : l = Len(us)
  BY LenProperties
<1>2. n \in Nat /\ n <= l
  BY <1>1
<1>3. DOMAIN us = 1..l /\ \A i \in 1..l : us[i] \in S
  BY <1>1, LenProperties, ElementOfSeq
<1>4. PICK t : t = SubSeq(us, 1, n)
  OBVIOUS
<1>5. t \in Seq(S) /\ Len(t) = n /\ \A i \in 1..n : t[i] = us[i]
  <2>1. \A i \in 1..n : us[i] \in S
    BY <1>2, <1>3
  <2>2. QED
    BY <1>2, <1>4, <2>1, SubSeqProperties
<1>6. DOMAIN t = 1..n
  BY <1>5, LenProperties
<1>7. /\ \A i \in 1..l : UndoFits(lg, V, us[i])
      /\ \A i, j \in 1..l : i < j => us[i].after < us[j].after
  BY <1>3 DEF UndosFit
<1>8. ASSUME NEW i \in 1..l PROVE us[i].after \in Nat
  <2>1. PICK u : u = us[i]
    OBVIOUS
  <2>2. u.after \in 1..Len(lg)
    BY <1>7, <2>1 DEF UndoFits
  <2>3. QED
    BY <2>1, <2>2
<1>9. ASSUME NEW i \in 1..n, NEW j \in Nat, j < us[i].after PROVE j \in V <=> j \in W
  <2>1. ASSUME NEW k \in 1..l, k > n PROVE us[k].after # j
    <3>1. i \in 1..l /\ i < k
      BY <1>2, <2>1
    <3>2. us[i].after < us[k].after
      BY <1>7, <3>1
    <3>3. QED
      BY <1>8, <1>9, <3>1, <3>2
  <2>2. j \notin Past(us, n)
    BY <1>3, <2>1 DEF Past
  <2>3. QED
    BY <1>0, <2>2
<1>10. ASSUME NEW i \in 1..n PROVE UndoFits(lg, W, us[i])
  <2>1. PICK u : u = us[i]
    OBVIOUS
  <2>2. UndoFits(lg, V, u)
    BY <1>2, <1>7, <2>1
  <2>3. \A j \in Nat : j < u.after => (j \in V <=> j \in W)
    BY <1>9, <2>1
  <2>4. W \subseteq V
    BY <1>0
  <2>5. W \subseteq 1..Len(lg)
    BY <2>4
  <2>6. Len(lg) <= Len(lg)
    OBVIOUS
  <2>7. UndoFits(lg, W, u)
    BY <2>2, <2>3, <2>5, <2>6, UndoStays
  <2>8. QED
    BY <2>1, <2>7
<1>11. \A i, j \in 1..n : i < j => us[i].after < us[j].after
  BY <1>2, <1>7
<1>12. UndosFit(lg, W, t)
  BY <1>5, <1>6, <1>10, <1>11 DEF UndosFit
<1>13. QED
  BY <1>0, <1>4, <1>5, <1>12

(* The newest event of an object counts from now on. *)
LEMMA MemoryMore ==
    ASSUME NEW lg, NEW kg, NEW V, NEW m, NEW T, m \in [Objs -> T], MemoryFits(lg, V, m),
           Len(lg) \in Nat, \A j \in 1..Len(lg) : kg[j] = lg[j], V \subseteq 1..Len(lg),
           NEW o \in Objs, NEW a \in Nat, kg[a].obj = o,
           \A i \in V : kg[i].obj = o => i <= a
    PROVE  MemoryFits(kg, V \cup {a}, [m EXCEPT ![o] = a])
<1>1. PICK r : r = [m EXCEPT ![o] = a]
  OBVIOUS
<1>2. r[o] = a /\ \A x \in Objs : x # o => r[x] = m[x]
  BY <1>1
<1>3. LeftIn(kg, o, r[o], V \cup {a})
  BY <1>2 DEF LeftIn
<1>4. ASSUME NEW x \in Objs, x # o PROVE LeftIn(kg, x, r[x], V \cup {a})
  <2>1. PICK v : v = r[x]
    OBVIOUS
  <2>2. LeftIn(lg, x, v, V)
    BY <1>2, <1>4, <2>1 DEF MemoryFits
  <2>3. \A j \in V : kg[j] = lg[j]
    OBVIOUS
  <2>4. kg[a].obj # x
    BY <1>4
  <2>5. LeftIn(kg, x, v, V \cup {a})
    BY <2>2, <2>3, <2>4 DEF LeftIn
  <2>6. QED
    BY <2>1, <2>5
<1>5. MemoryFits(kg, V \cup {a}, r)
  BY <1>3, <1>4 DEF MemoryFits
<1>6. QED
  BY <1>1, <1>5

(* More has been logged that does not count. *)
LEMMA MemoryStays ==
    ASSUME NEW lg, NEW kg, NEW V, NEW m, MemoryFits(lg, V, m),
           Len(lg) \in Nat, \A j \in 1..Len(lg) : kg[j] = lg[j], V \subseteq 1..Len(lg)
    PROVE  MemoryFits(kg, V, m)
<1>1. ASSUME NEW x \in Objs PROVE LeftIn(kg, x, m[x], V)
  <2>1. PICK v : v = m[x]
    OBVIOUS
  <2>2. LeftIn(lg, x, v, V)
    BY <2>1 DEF MemoryFits
  <2>3. \A j \in V : kg[j] = lg[j]
    OBVIOUS
  <2>4. LeftIn(kg, x, v, V)
    BY <2>2, <2>3 DEF LeftIn
  <2>5. QED
    BY <2>1, <2>4
<1>2. QED
  BY <1>1 DEF MemoryFits

-----------------------------------------------------------------------------
(* What the invariant says of the numbers of events. *)
LEMMA SavepointsBasics ==
    ASSUME SavepointsInv
    PROVE  /\ SavepointsTypeOK /\ OneCall /\ UndosFit(log, View, undos) /\ WritesNoted
           /\ MemoryFits(log, View, mem) /\ CallsAt /\ InOrder(marks)
           /\ Len(log) \in Nat /\ rolledBack \subseteq 1..Len(log)
           /\ Surviving = 1..Len(log) \ rolledBack
           /\ Undone \subseteq 1..Len(log) /\ View \subseteq 1..Len(log)
           /\ \A i \in DOMAIN undos : undos[i].after \in Undone
<1>1. SavepointsTypeOK /\ UndosFit(log, View, undos)
  BY DEF SavepointsInv
<1>2. Len(log) \in Nat /\ rolledBack \subseteq 1..Len(log)
  BY <1>1, SavepointTypes, ElementsAre
<1>3. Undone \subseteq 1..Len(log)
  BY <1>1 DEF UndosFit, UndoFits, Undone, AfterOf
<1>4. View \subseteq 1..Len(log)
  BY <1>3 DEF View, Surviving
<1>5. \A i \in DOMAIN undos : undos[i].after \in Undone
  BY DEF Undone, AfterOf
<1>6. QED
  BY <1>2, <1>3, <1>4, <1>5 DEF Surviving, SavepointsInv

(* What it says when no call is under way. *)
LEMMA AtRest ==
    ASSUME SavepointsInv, calls = {}
    PROVE  /\ Underway = {} /\ Paired(server, undos, points, marks)
           /\ Undone \subseteq Surviving /\ View = Surviving
<1>1. CallsAt /\ Undone \subseteq 1..Len(log)
  BY SavepointsBasics
<1>2. Underway = {}
  BY DEF Underway
<1>3. Paired(server, undos, points, marks) /\ Undone \cap rolledBack = {}
  BY <1>1 DEF CallsAt
<1>4. Undone \subseteq Surviving
  BY <1>1, <1>3 DEF Surviving
<1>5. QED
  BY <1>2, <1>3, <1>4 DEF View

(* Types that depend on the length of the log stay right as it grows. *)
LEMMA TypesGrow ==
    ASSUME SavepointsTypeOK, log' \in Seq(Event), Len(log') \in Nat, Len(log) <= Len(log')
    PROVE  /\ Values \subseteq Values' /\ Seq(Point) \subseteq Seq(Point')
           /\ Seq(UndoRecord) \subseteq Seq(UndoRecord') /\ CallRecord \subseteq CallRecord'
<1>1. Len(log) \in Nat
  BY ElementsAre
<1>2. Values \subseteq Values'
  BY <1>1 DEF Values
<1>3. Point \subseteq Point' /\ UndoRecord \subseteq UndoRecord' /\ CallRecord \subseteq CallRecord'
  BY <1>2 DEF Point, UndoRecord, CallRecord
<1>4. QED
  BY <1>2, <1>3, WiderSeq

(* SavepointTypes, of the next state. *)
LEMMA SavepointTypesNext ==
    SavepointsTypeOK' <=>
        /\ server' \in Servers
        /\ log' \in Seq(Event) /\ Len(log') <= MaxValues
        /\ rolledBack' \subseteq 1..Len(log')
        /\ points' \in Seq(Point')
        /\ mem' \in [Objs -> Values']
        /\ transactionActive' \in BOOLEAN
        /\ undos' \in Seq(UndoRecord')
        /\ marks' \in Seq(Mark')
        /\ calls' \subseteq CallRecord'
BY DEF SavepointsTypeOK, Event, Point, UndoRecord, Mark, CallRecord

-----------------------------------------------------------------------------
(* A write is logged and under way, and does not count yet. *)
LEMMA WriteKeeps ==
    ASSUME SavepointsAssumption, Overlap = FALSE, SavepointsInv, NEW o \in Objs, Write(o)
    PROVE  SavepointsInv'
<1>1. /\ SavepointsTypeOK /\ UndosFit(log, View, undos) /\ WritesNoted
      /\ MemoryFits(log, View, mem) /\ CallsAt /\ InOrder(marks)
      /\ Len(log) \in Nat /\ rolledBack \subseteq 1..Len(log)
      /\ Surviving = 1..Len(log) \ rolledBack
      /\ Undone \subseteq 1..Len(log) /\ View \subseteq 1..Len(log)
      /\ \A i \in DOMAIN undos : undos[i].after \in Undone
  BY SavepointsBasics
<1>2. transactionActive /\ calls = {}
  BY DEF Write, Ready
<1>3. /\ Paired(server, undos, points, marks) /\ Undone \subseteq Surviving /\ View = Surviving
  BY <1>2, AtRest
<1>4. PICK l \in Nat : l = Len(log)
  BY <1>1
<1>5. PICK e \in Event : e = [obj |-> o, by |-> "write"]
  BY DEF Event
<1>6. PICK c : c = [op |-> "write", obj |-> o, before |-> mem[o], after |-> l + 1]
  OBVIOUS
<1>7. /\ log' = Append(log, e) /\ calls' = {c} /\ l < MaxValues
      /\ UNCHANGED <<server, rolledBack, points, mem, transactionActive, undos, marks>>
  BY <1>2, <1>4, <1>5, <1>6 DEF Write, session
<1>8. log' \in Seq(Event) /\ Len(log') = l + 1 /\ log'[l + 1] = e /\ \A j \in 1..l : log'[j] = log[j]
  <2>1. PICK k : k = log'
    OBVIOUS
  <2>2. k = Append(log, e)
    BY <1>7, <2>1
  <2>3. k \in Seq(Event) /\ Len(k) = l + 1 /\ k[l + 1] = e /\ \A j \in 1..l : k[j] = log[j]
    <3>1. log \in Seq(Event)
      BY <1>1, SavepointTypes
    <3>2. QED
      BY <1>4, <2>2, <3>1, AppendProperties
  <2>4. QED
    BY <2>1, <2>3
<1>9. e.obj = o /\ e.by = "write" /\ c.op = "write" /\ c.obj = o /\ c.before = mem[o] /\ c.after = l + 1
  BY <1>5, <1>6
<1>10. Surviving' = Surviving \cup {l + 1} /\ Undone' = Undone /\ Underway' = {l + 1}
  <2>1. Surviving' = Surviving \cup {l + 1}
    BY <1>1, <1>4, <1>7, <1>8 DEF Surviving
  <2>2. Undone' = Undone
    BY <1>7 DEF Undone
  <2>3. Underway' = {l + 1}
    BY <1>7, <1>9 DEF Underway
  <2>4. QED
    BY <2>1, <2>2, <2>3
<1>11. View' = View
  <2>1. l + 1 \notin Surviving /\ l + 1 \notin Undone
    BY <1>1, <1>4
  <2>2. View' = (Surviving \cup {l + 1} \cup Undone) \ {l + 1}
    BY <1>10 DEF View
  <2>3. QED
    BY <1>3, <2>1, <2>2
<1>12. SavepointsTypeOK'
  <2>1. /\ server \in Servers /\ points \in Seq(Point) /\ mem \in [Objs -> Values]
        /\ transactionActive \in BOOLEAN /\ undos \in Seq(UndoRecord) /\ marks \in Seq(Mark)
    BY <1>1, SavepointTypes
  <2>2. /\ Values \subseteq Values' /\ Seq(Point) \subseteq Seq(Point')
        /\ Seq(UndoRecord) \subseteq Seq(UndoRecord')
    BY <1>1, <1>4, <1>8, TypesGrow
  <2>3. Len(log') <= MaxValues
    BY <1>7, <1>8 DEF SavepointsAssumption
  <2>4. rolledBack' \subseteq 1..Len(log')
    BY <1>1, <1>4, <1>7, <1>8
  <2>5. Mark' = Mark
    BY <1>7 DEF Mark
  <2>6. mem' \in [Objs -> Values']
    BY <1>7, <2>1, <2>2
  <2>7. c \in CallRecord'
    <3>1. mem[o] \in Values'
      BY <2>1, <2>2
    <3>2. l + 1 \in Values'
      BY <1>8 DEF Values
    <3>3. QED
      BY <1>6, <3>1, <3>2 DEF CallRecord
  <2>8. QED
    BY <1>7, <1>8, <2>1, <2>2, <2>3, <2>4, <2>5, <2>6, <2>7, SavepointTypesNext
<1>13. UndosFit(log', View', undos')
  <2>1. /\ Len(log') \in Nat /\ Len(log) <= Len(log') /\ \A j \in 1..Len(log) : log'[j] = log[j]
        /\ View \subseteq 1..Len(log')
    BY <1>1, <1>4, <1>8
  <2>2. UndosFit(log', View, undos)
    BY <1>1, <2>1, UndosStay
  <2>3. QED
    BY <1>7, <1>11, <2>2
<1>14. MemoryFits(log', View', mem')
  <2>1. \A j \in 1..Len(log) : log'[j] = log[j]
    BY <1>4, <1>8
  <2>2. MemoryFits(log', View, mem)
    BY <1>1, <2>1, MemoryStays
  <2>3. QED
    BY <1>7, <1>11, <2>2
<1>15. WritesNoted'
  <2>1. \A i \in Surviving : log[i].by = "write" => i \in Undone
    BY <1>1, <1>2, <1>3, AtRest DEF WritesNoted
  <2>2. \A i \in Surviving : log'[i] = log[i]
    BY <1>1, <1>4, <1>8
  <2>3. QED
    BY <1>10, <2>1, <2>2 DEF WritesNoted
<1>16. WriteAt(c)'
  <2>1. \A i \in 1..Len(log') : i <= l + 1
    BY <1>8
  <2>2. ASSUME NEW i \in DOMAIN undos PROVE undos[i].after < l + 1
    <3>1. undos[i].after \in 1..l
      BY <1>1, <1>4
    <3>2. QED
      BY <3>1
  <2>3. \A i \in DOMAIN points : points[i].at < l + 1
    BY <1>1, <1>4, ElementsAre DEF Values
  <2>4. QED
    BY <1>7, <1>8, <1>9, <1>10, <2>1, <2>2, <2>3 DEF WriteAt
<1>17. CallsAt'
  <2>1. Undone \cap rolledBack = {}
    BY <1>1, <1>3
  <2>2. \A d \in calls' : d = c
    BY <1>7
  <2>3. Paired(server, undos, points, marks)' /\ (Undone \cap rolledBack)' = {}
    BY <1>3, <1>7, <1>10, <2>1
  <2>4. QED
    BY <1>9, <1>16, <2>2, <2>3 DEF CallsAt
<1>18. OneCall' /\ InOrder(marks)'
  BY <1>1, <1>2, <1>7 DEF OneCall, InOrder
<1>19. QED
  BY <1>12, <1>13, <1>14, <1>15, <1>17, <1>18 DEF SavepointsInv

(* The write returns: its event counts, and its undo is noted. *)
LEMMA WriteDoneKeeps ==
    ASSUME SavepointsAssumption, SavepointsInv, WriteDone
    PROVE  SavepointsInv'
<1>1. /\ SavepointsTypeOK /\ OneCall /\ UndosFit(log, View, undos) /\ WritesNoted
      /\ MemoryFits(log, View, mem) /\ CallsAt /\ InOrder(marks)
      /\ Len(log) \in Nat /\ rolledBack \subseteq 1..Len(log)
      /\ Surviving = 1..Len(log) \ rolledBack
      /\ Undone \subseteq 1..Len(log) /\ View \subseteq 1..Len(log)
      /\ \A i \in DOMAIN undos : undos[i].after \in Undone
  BY SavepointsBasics
<1>2. PICK c \in calls :
        /\ c.op = "write"
        /\ calls' = calls \ {c}
        /\ mem' = [mem EXCEPT ![c.obj] = c.after]
        /\ undos' = IF transactionActive
                    THEN Append(undos, [obj |-> c.obj, before |-> c.before, after |-> c.after])
                    ELSE undos
        /\ UNCHANGED <<server, rows, points, transactionActive, marks>>
  BY DEF WriteDone
<1>3. calls = {c} /\ calls' = {} /\ transactionActive
  BY <1>1, <1>2 DEF OneCall
<1>4. WriteAt(c) /\ Paired(server, undos, points, marks) /\ Undone \cap rolledBack = {}
  BY <1>1, <1>2, <1>3 DEF CallsAt
<1>5. PICK o \in Objs : o = c.obj
  BY <1>1, <1>2, SavepointTypes DEF CallRecord
<1>6. PICK a \in Nat : a = c.after /\ a \in 1..Len(log)
  BY <1>1, <1>4 DEF WriteAt
<1>7. PICK b : b = c.before
  OBVIOUS
<1>8. c \in CallRecord /\ b \in Values /\ a \in Values
  <2>1. c \in CallRecord
    BY <1>1, <1>2, SavepointTypes
  <2>2. QED
    BY <1>2, <1>6, <1>7, <2>1 DEF CallRecord
<1>9. PICK u \in UndoRecord : u = [obj |-> o, before |-> b, after |-> a]
  BY <1>8 DEF UndoRecord
<1>10. u.obj = o /\ u.before = b /\ u.after = a
  BY <1>9
<1>11. /\ mem' = [mem EXCEPT ![o] = a] /\ undos' = Append(undos, u)
       /\ UNCHANGED <<server, log, rolledBack, points, transactionActive, marks>>
  BY <1>2, <1>3, <1>5, <1>6, <1>7, <1>9 DEF rows
<1>12. /\ b = mem[o] /\ a \in Surviving /\ log[a].obj = o /\ log[a].by = "write"
       /\ \A i \in 1..Len(log) : log[i].obj = o => i <= a
       /\ \A i \in DOMAIN undos : undos[i].after < a
       /\ \A i \in DOMAIN points : points[i].at < a
  BY <1>4, <1>5, <1>6, <1>7 DEF WriteAt
<1>13. Underway = {a} /\ Underway' = {}
  BY <1>2, <1>3, <1>6 DEF Underway
<1>14. undos \in Seq(UndoRecord)
  BY <1>1, SavepointTypes
<1>15. a \notin View /\ \A i \in View : i \in 1..Len(log)
  BY <1>1, <1>13 DEF View
<1>16. UndosFit(log, View \cup {a}, undos)
  <2>1. ASSUME NEW i \in DOMAIN undos, NEW j \in Nat, j < undos[i].after
        PROVE  j \in View <=> j \in View \cup {a}
    <3>1. undos[i].after \in 1..Len(log) /\ undos[i].after < a
      BY <1>1, <1>12
    <3>2. j < a
      BY <2>1, <3>1
    <3>3. j # a
      BY <3>2
    <3>4. QED
      BY <3>3
  <2>2. View \cup {a} \subseteq 1..Len(log)
    BY <1>1, <1>6
  <2>3. Len(log) <= Len(log)
    BY <1>1
  <2>4. QED
    BY <1>1, <2>1, <2>2, <2>3, UndosStay
<1>17. UndoFits(log, View \cup {a}, u)
  <2>1. LeftIn(log, o, b, View)
    BY <1>1, <1>12 DEF MemoryFits
  <2>2. \A i \in View : log[i].obj = o => i < a
    BY <1>1, <1>12, <1>15
  <2>3. LeftIn(log, o, b, {i \in View \cup {a} : i < a})
    <3>1. b \in View /\ log[b].obj = o => b \in {i \in View \cup {a} : i < a}
      BY <2>2
    <3>2. \A i \in {j \in View \cup {a} : j < a} : i \in View
      BY <1>6
    <3>3. QED
      BY <2>1, <3>1, <3>2 DEF LeftIn
  <2>4. QED
    BY <1>6, <1>10, <1>12, <2>3 DEF UndoFits
<1>18. /\ UndosFit(log, View \cup {a}, undos') /\ AfterOf(undos') = AfterOf(undos) \cup {a}
       /\ undos' \in Seq(UndoRecord)
  BY <1>10, <1>11, <1>12, <1>14, <1>16, <1>17, UndosMore, AppendProperties
<1>19. Undone' = Undone \cup {a} /\ Surviving' = Surviving
  BY <1>11, <1>18 DEF Undone, Surviving
<1>20. View' = View \cup {a}
  BY <1>12, <1>13, <1>19 DEF View
<1>21. MemoryFits(log, View \cup {a}, mem')
  <2>1. mem \in [Objs -> Values]
    BY <1>1, SavepointTypes
  <2>2. \A i \in View : log[i].obj = o => i <= a
    BY <1>1, <1>12
  <2>3. QED
    BY <1>1, <1>11, <1>12, <2>1, <2>2, MemoryMore
<1>22. PICK n \in Nat : n = Len(undos) /\ Len(undos') = n + 1 /\ DOMAIN undos = 1..n
                        /\ DOMAIN undos' = 1..n + 1 /\ undos'[n + 1] = u
                        /\ \A i \in 1..n : undos'[i] = undos[i]
  <2>1. PICK n \in Nat : n = Len(undos)
    BY <1>14, LenProperties
  <2>2. Len(undos') = n + 1 /\ undos'[n + 1] = u /\ \A i \in 1..n : undos'[i] = undos[i]
    BY <1>11, <1>14, <2>1, AppendProperties
  <2>3. DOMAIN undos = 1..n /\ DOMAIN undos' = 1..n + 1
    BY <1>14, <1>18, <2>1, <2>2, LenProperties
  <2>4. QED
    BY <2>1, <2>2, <2>3
<1>23. SavepointsTypeOK'
  <2>1. /\ server \in Servers /\ log \in Seq(Event) /\ Len(log) <= MaxValues
        /\ points \in Seq(Point) /\ mem \in [Objs -> Values]
        /\ transactionActive \in BOOLEAN /\ marks \in Seq(Mark)
    BY <1>1, SavepointTypes
  <2>2. Point' = Point /\ UndoRecord' = UndoRecord /\ Values' = Values
    BY <1>11 DEF Point, UndoRecord, Values
  <2>3. Mark \subseteq Mark'
    BY <1>22 DEF Mark
  <2>4. marks \in Seq(Mark')
    BY <2>1, <2>3, WiderSeq
  <2>5. mem' \in [Objs -> Values']
    BY <1>8, <1>11, <2>1, <2>2
  <2>6. QED
    BY <1>1, <1>3, <1>11, <1>18, <2>1, <2>2, <2>4, <2>5, SavepointTypesNext
<1>24. Paired(server, undos', points, marks)
  <2>1. \A i \in DOMAIN points, k \in DOMAIN marks :
           Divides(undos, marks[k].undoCount, points[i].at)
              => Divides(undos', marks[k].undoCount, points[i].at)
    <3> SUFFICES ASSUME NEW i \in DOMAIN points, NEW k \in DOMAIN marks,
                        Divides(undos, marks[k].undoCount, points[i].at)
                 PROVE  Divides(undos', marks[k].undoCount, points[i].at)
      OBVIOUS
    <3>1. PICK x \in Nat : x = marks[k].undoCount /\ x <= n
      BY <1>1, <1>22, ElementsAre
    <3>2. PICK y \in Nat : y = points[i].at /\ y < a
      BY <1>1, <1>12, ElementsAre DEF Values
    <3>3. \A j \in 1..n : j <= x <=> undos'[j].after <= y
      BY <1>22, <3>1, <3>2 DEF Divides
    <3>4. ~(n + 1 <= x) /\ ~(undos'[n + 1].after <= y)
      BY <1>10, <1>22, <3>1, <3>2
    <3>5. \A j \in 1..n + 1 : j \in 1..n \/ j = n + 1
      OBVIOUS
    <3>6. QED
      BY <1>22, <3>1, <3>2, <3>3, <3>4, <3>5 DEF Divides
  <2>2. QED
    BY <1>4, <2>1, PairedUndos
<1>25. WritesNoted'
  BY <1>1, <1>11, <1>13, <1>19 DEF WritesNoted
<1>26. CallsAt'
  <2>1. (Undone \cap rolledBack)' = {}
    BY <1>1, <1>4, <1>11, <1>12, <1>19
  <2>2. QED
    BY <1>3, <1>11, <1>24, <2>1 DEF CallsAt
<1>27. OneCall' /\ InOrder(marks)'
  BY <1>1, <1>3, <1>11 DEF OneCall, InOrder
<1>28. QED
  BY <1>11, <1>18, <1>20, <1>21, <1>23, <1>25, <1>26, <1>27 DEF SavepointsInv

(* What the caller assigns is logged and counts, whatever is under way. *)
LEMMA AssignKeeps ==
    ASSUME SavepointsAssumption, SavepointsInv, NEW o \in Objs, Assign(o)
    PROVE  SavepointsInv'
<1>1. /\ SavepointsTypeOK /\ OneCall /\ UndosFit(log, View, undos) /\ WritesNoted
      /\ MemoryFits(log, View, mem) /\ CallsAt /\ InOrder(marks)
      /\ Len(log) \in Nat /\ rolledBack \subseteq 1..Len(log)
      /\ Surviving = 1..Len(log) \ rolledBack
      /\ Undone \subseteq 1..Len(log) /\ View \subseteq 1..Len(log)
      /\ \A i \in DOMAIN undos : undos[i].after \in Undone
  BY SavepointsBasics
<1>2. PICK l \in Nat : l = Len(log)
  BY <1>1
<1>3. PICK e \in Event : e = [obj |-> o, by |-> "caller"]
  BY DEF Event
<1>4. /\ log' = Append(log, e) /\ mem' = [mem EXCEPT ![o] = l + 1] /\ l < MaxValues
      /\ UNCHANGED <<server, rolledBack, points, transactionActive, undos, marks, calls>>
  BY <1>2, <1>3 DEF Assign, session
<1>5. log' \in Seq(Event) /\ Len(log') = l + 1 /\ log'[l + 1] = e /\ \A j \in 1..l : log'[j] = log[j]
  <2>1. log \in Seq(Event)
    BY <1>1, SavepointTypes
  <2>2. PICK k : k = log'
    OBVIOUS
  <2>3. k = Append(log, e)
    BY <1>4, <2>2
  <2>4. k \in Seq(Event) /\ Len(k) = l + 1 /\ k[l + 1] = e /\ \A j \in 1..l : k[j] = log[j]
    BY <1>2, <2>1, <2>3, AppendProperties
  <2>5. QED
    BY <2>2, <2>4
<1>6. e.obj = o /\ e.by = "caller"
  BY <1>3
<1>7. Surviving' = Surviving \cup {l + 1} /\ Undone' = Undone /\ Underway' = Underway
  <2>1. Surviving' = Surviving \cup {l + 1}
    BY <1>1, <1>2, <1>4, <1>5 DEF Surviving
  <2>2. QED
    BY <1>4, <2>1 DEF Undone, Underway
<1>8. Underway \subseteq 1..l
  <2>1. ASSUME NEW c \in calls, c.op = "write" PROVE c.after \in 1..l
    BY <1>1, <1>2, <2>1 DEF CallsAt, WriteAt
  <2>2. QED
    BY <2>1 DEF Underway
<1>9. View' = View \cup {l + 1}
  <2>1. l + 1 \notin Underway
    BY <1>8
  <2>2. QED
    BY <1>7, <2>1 DEF View
<1>10. SavepointsTypeOK'
  <2>1. /\ server \in Servers /\ points \in Seq(Point) /\ mem \in [Objs -> Values]
        /\ transactionActive \in BOOLEAN /\ undos \in Seq(UndoRecord) /\ marks \in Seq(Mark)
        /\ calls \subseteq CallRecord
    BY <1>1, SavepointTypes
  <2>2. /\ Values \subseteq Values' /\ Seq(Point) \subseteq Seq(Point')
        /\ Seq(UndoRecord) \subseteq Seq(UndoRecord') /\ CallRecord \subseteq CallRecord'
    BY <1>1, <1>2, <1>5, TypesGrow
  <2>3. Len(log') <= MaxValues
    BY <1>4, <1>5 DEF SavepointsAssumption
  <2>4. rolledBack' \subseteq 1..Len(log')
    BY <1>1, <1>2, <1>4, <1>5
  <2>5. Mark' = Mark
    BY <1>4 DEF Mark
  <2>6. mem' \in [Objs -> Values']
    <3>1. l + 1 \in Values'
      BY <1>5 DEF Values
    <3>2. QED
      BY <1>4, <2>1, <2>2, <3>1
  <2>7. QED
    BY <1>4, <1>5, <2>1, <2>2, <2>3, <2>4, <2>5, <2>6, SavepointTypesNext
<1>11. UndosFit(log', View', undos')
  <2>1. ASSUME NEW i \in DOMAIN undos, NEW j \in Nat, j < undos[i].after
        PROVE  j \in View <=> j \in View \cup {l + 1}
    <3>1. undos[i].after \in 1..l
      BY <1>1, <1>2
    <3>2. j # l + 1
      BY <2>1, <3>1
    <3>3. QED
      BY <3>2
  <2>2. Len(log') \in Nat /\ Len(log) <= Len(log') /\ \A j \in 1..Len(log) : log'[j] = log[j]
    BY <1>2, <1>5
  <2>3. View \cup {l + 1} \subseteq 1..Len(log')
    <3>1. View \subseteq 1..l + 1
      BY <1>1, <1>2
    <3>2. QED
      BY <1>5, <3>1
  <2>4. UndosFit(log', View \cup {l + 1}, undos)
    BY <1>1, <2>1, <2>2, <2>3, UndosStay
  <2>5. QED
    BY <1>4, <1>9, <2>4
<1>12. MemoryFits(log', View', mem')
  <2>1. \A j \in 1..Len(log) : log'[j] = log[j]
    BY <1>2, <1>5
  <2>2. mem \in [Objs -> Values] /\ l + 1 \in Nat /\ log'[l + 1].obj = o
    BY <1>1, <1>5, <1>6, SavepointTypes
  <2>3. \A i \in View : log'[i].obj = o => i <= l + 1
    BY <1>1, <1>2
  <2>4. MemoryFits(log', View \cup {l + 1}, [mem EXCEPT ![o] = l + 1])
    BY <1>1, <2>1, <2>2, <2>3, MemoryMore
  <2>5. QED
    BY <1>4, <1>9, <2>4
<1>13. WritesNoted'
  <2>1. \A i \in Surviving : log'[i] = log[i]
    BY <1>1, <1>2, <1>5
  <2>2. log'[l + 1].by # "write"
    BY <1>5, <1>6
  <2>3. QED
    BY <1>1, <1>4, <1>7, <2>1, <2>2 DEF WritesNoted
<1>14. ASSUME NEW c \in calls, c.op = "write" PROVE WriteAt(c)'
  <2>1. c.obj # o /\ c.obj \in Objs
    <3>1. c \in CallRecord
      BY <1>1, SavepointTypes
    <3>2. c.obj \in Objs
      BY <1>14, <3>1 DEF CallRecord
    <3>3. QED
      BY <1>14, <3>2 DEF Assign, Writing
  <2>2. WriteAt(c)
    BY <1>1, <1>14 DEF CallsAt
  <2>3. mem'[c.obj] = mem[c.obj]
    BY <1>1, <1>4, <2>1, SavepointTypes
  <2>4. c.after \in 1..l
    BY <1>1, <1>2, <2>2 DEF WriteAt
  <2>5. log'[c.after] = log[c.after] /\ c.after \in Surviving'
    BY <1>5, <1>7, <2>2, <2>4 DEF WriteAt
  <2>6. ASSUME NEW i \in 1..l + 1, log'[i].obj = c.obj PROVE i <= c.after
    <3>1. i # l + 1
      BY <1>5, <1>6, <2>1, <2>6
    <3>2. i \in 1..l
      BY <3>1
    <3>3. log[i].obj = c.obj
      BY <1>5, <2>6, <3>2
    <3>4. QED
      BY <1>2, <2>2, <3>2, <3>3 DEF WriteAt
  <2>7. QED
    BY <1>4, <1>5, <2>2, <2>3, <2>5, <2>6 DEF WriteAt
<1>15. CallsAt'
  <2>1. ASSUME NEW c \in calls, c.op = "savepoint" PROVE SavepointAt(c)'
    BY <1>1, <1>4, <2>1 DEF CallsAt, SavepointAt
  <2>2. ASSUME NEW c \in calls, c.op = "rollbackTo" PROVE RollbackAt(c)'
    BY <1>1, <1>4, <2>2 DEF CallsAt, RollbackAt
  <2>3. (\A c \in calls : c.op = "write") => Paired(server, undos, points, marks)'
    BY <1>1, <1>4 DEF CallsAt
  <2>4. (\A c \in calls : c.op # "rollbackTo") => (Undone \cap rolledBack)' = {}
    BY <1>1, <1>4, <1>7 DEF CallsAt
  <2>5. QED
    BY <1>4, <1>14, <2>1, <2>2, <2>3, <2>4 DEF CallsAt
<1>16. OneCall' /\ InOrder(marks)'
  BY <1>1, <1>4 DEF OneCall, InOrder
<1>17. QED
  BY <1>10, <1>11, <1>12, <1>13, <1>15, <1>16 DEF SavepointsInv

-----------------------------------------------------------------------------
(* The server takes a savepoint: the others pair up with the marks. *)
LEMMA SavepointKeeps ==
    ASSUME SavepointsAssumption, Overlap = FALSE, SavepointsInv, NEW n \in Names, Savepoint(n)
    PROVE  SavepointsInv'
<1>1. /\ SavepointsTypeOK /\ UndosFit(log, View, undos) /\ WritesNoted
      /\ MemoryFits(log, View, mem) /\ CallsAt /\ InOrder(marks)
      /\ Len(log) \in Nat /\ Undone \subseteq 1..Len(log)
      /\ \A i \in DOMAIN undos : undos[i].after \in Undone
  BY SavepointsBasics
<1>2. transactionActive /\ calls = {}
  BY DEF Savepoint, Ready
<1>3. Underway = {} /\ Paired(server, undos, points, marks) /\ Undone \cap rolledBack = {}
  BY <1>1, <1>2, AtRest DEF Surviving
<1>4. PICK c : c = [op |-> "savepoint", name |-> n]
  OBVIOUS
<1>5. PICK p \in Point : p = [name |-> n, at |-> Len(log)]
  <2>1. Len(log) \in Values
    BY <1>1 DEF Values
  <2>2. QED
    BY <2>1 DEF Point
<1>6. c.op = "savepoint" /\ c.name = n /\ p.name = n /\ p.at = Len(log)
  BY <1>4, <1>5
<1>7. /\ points' = Append(Kept(n), p) /\ calls' = {c}
      /\ UNCHANGED <<server, log, rolledBack, mem, transactionActive, undos, marks>>
  BY <1>2, <1>4, <1>5 DEF Savepoint, rows, session
<1>8. points \in Seq(Point) /\ server \in {"replace", "stack"}
  BY <1>1, SavepointTypes DEF SavepointsAssumption
<1>9. PICK k \in Seq(Point) : k = Kept(n) /\ Paired(server, undos, k, marks)
  <2>1. CASE server = "replace"
    <3>1. PICK gone : gone = {q \in ToSet(points) : q.name = n}
      OBVIOUS
    <3>2. Kept(n) = Without(points, gone)
      BY <2>1, <3>1 DEF Kept
    <3>3. Without(points, gone) \in Seq(Point)
      BY <1>8, WithoutFacts
    <3>4. marks \in Seq(Mark) /\ server # "stack"
      BY <1>1, <2>1, SavepointTypes
    <3>5. \A q \in ToSet(points) : q \in gone <=> q.name = n
      BY <3>1
    <3>6. Paired(server, undos, Without(points, gone), marks)
      BY <1>3, <1>8, <3>4, <3>5, PairedWithout
    <3>7. QED
      BY <3>2, <3>3, <3>6
  <2>2. CASE server # "replace"
    <3>1. Kept(n) = points
      BY <2>2 DEF Kept
    <3>2. QED
      BY <1>3, <1>8, <3>1
  <2>3. QED
    BY <2>1, <2>2
<1>10. PICK t : t = Append(k, p)
  OBVIOUS
<1>11. points' = t /\ t \in Seq(Point) /\ Len(t) > 0 /\ t[Len(t)] = p /\ SubSeq(t, 1, Len(t) - 1) = k
  <2>1. t \in Seq(Point) /\ Len(t) = Len(k) + 1 /\ t[Len(k) + 1] = p /\ Len(k) \in Nat
    BY <1>10, AppendProperties, LenProperties
  <2>2. SubSeq(t, 1, Len(t) - 1) = k
    BY <1>10, FrontOfAppend
  <2>3. QED
    BY <1>7, <1>9, <1>10, <2>1, <2>2
<1>12. SavepointAt(c)'
  <2>1. ASSUME NEW j \in DOMAIN undos PROVE undos[j].after <= p.at
    <3>1. undos[j].after \in 1..Len(log)
      BY <1>1
    <3>2. QED
      BY <1>1, <1>6, <3>1
  <2>2. QED
    BY <1>6, <1>7, <1>9, <1>11, <2>1 DEF SavepointAt
<1>13. Underway' = Underway /\ Undone' = Undone /\ Surviving' = Surviving
  <2>1. Underway' = {}
    BY <1>6, <1>7 DEF Underway
  <2>2. QED
    BY <1>3, <1>7, <2>1 DEF Undone, Surviving
<1>14. View' = View
  BY <1>13 DEF View
<1>15. SavepointsTypeOK'
  <2>1. /\ server \in Servers /\ log \in Seq(Event) /\ Len(log) <= MaxValues
        /\ rolledBack \subseteq 1..Len(log) /\ mem \in [Objs -> Values]
        /\ transactionActive \in BOOLEAN /\ undos \in Seq(UndoRecord) /\ marks \in Seq(Mark)
    BY <1>1, SavepointTypes
  <2>2. /\ Point' = Point /\ UndoRecord' = UndoRecord /\ Mark' = Mark /\ Values' = Values
        /\ CallRecord' = CallRecord
    BY <1>7 DEF Point, UndoRecord, Mark, Values, CallRecord
  <2>3. c \in CallRecord
    BY <1>4 DEF CallRecord
  <2>4. QED
    BY <1>7, <1>11, <2>1, <2>2, <2>3, SavepointTypesNext
<1>16. WritesNoted'
  BY <1>1, <1>7, <1>13 DEF WritesNoted
<1>17. CallsAt'
  <2>1. \A d \in calls' : d = c
    BY <1>7
  <2>2. c \in calls' /\ c.op # "write"
    BY <1>6, <1>7
  <2>3. (Undone \cap rolledBack)' = {}
    BY <1>3, <1>7, <1>13
  <2>4. QED
    BY <1>6, <1>12, <2>1, <2>2, <2>3 DEF CallsAt
<1>18. OneCall' /\ InOrder(marks)'
  BY <1>1, <1>2, <1>7 DEF OneCall, InOrder
<1>19. QED
  BY <1>1, <1>7, <1>14, <1>15, <1>16, <1>17, <1>18 DEF SavepointsInv

(* savepoint() returns: the mark pairs up with the savepoint taken. *)
LEMMA SavepointDoneKeeps ==
    ASSUME SavepointsInv, SavepointDone
    PROVE  SavepointsInv'
<1>1. /\ SavepointsTypeOK /\ OneCall /\ UndosFit(log, View, undos) /\ WritesNoted
      /\ MemoryFits(log, View, mem) /\ CallsAt /\ InOrder(marks)
  BY SavepointsBasics
<1>2. PICK c \in calls :
        /\ c.op = "savepoint"
        /\ calls' = calls \ {c}
        /\ marks' = Append(marks, [name |-> c.name, undoCount |-> Len(undos)])
        /\ UNCHANGED <<server, rows, points, mem, transactionActive, undos>>
  BY DEF SavepointDone
<1>3. calls = {c} /\ calls' = {} /\ UNCHANGED <<log, rolledBack>>
  BY <1>1, <1>2 DEF OneCall, rows
<1>4. SavepointAt(c) /\ Undone \cap rolledBack = {}
  BY <1>1, <1>2, <1>3 DEF CallsAt
<1>5. c.name \in Names
  BY <1>1, <1>2, SavepointTypes DEF CallRecord
<1>6. PICK u \in Nat : u = Len(undos)
  BY <1>1, ElementsAre
<1>7. PICK q \in Mark : q = [name |-> c.name, undoCount |-> u]
  <2>1. u \in 0..Len(undos)
    BY <1>6
  <2>2. QED
    BY <1>5, <2>1 DEF Mark
<1>8. marks' = Append(marks, q) /\ q.name = c.name /\ q.undoCount = u
  BY <1>2, <1>6, <1>7
<1>9. points \in Seq(Point) /\ marks \in Seq(Mark)
  BY <1>1, SavepointTypes
<1>10. PICK s : s = SubSeq(points, 1, Len(points) - 1)
  OBVIOUS
<1>11. PICK p : p = points[Len(points)]
  OBVIOUS
<1>12. s \in Seq(Point) /\ p \in Point /\ points = Append(s, p)
  BY <1>4, <1>9, <1>10, <1>11, FrontAndLast DEF SavepointAt
<1>13. Paired(server, undos, s, marks) /\ q.name = p.name
  BY <1>4, <1>8, <1>10, <1>11 DEF SavepointAt
<1>14. Divides(undos, q.undoCount, p.at)
  <2>1. \A j \in DOMAIN undos : j <= u
    BY <1>1, <1>6, ElementsAre
  <2>2. \A j \in DOMAIN undos : undos[j].after <= p.at
    BY <1>4, <1>11 DEF SavepointAt
  <2>3. QED
    BY <1>8, <2>1, <2>2 DEF Divides
<1>15. Paired(server, undos, points, marks')
  BY <1>8, <1>9, <1>12, <1>13, <1>14, PairedMore
<1>16. marks' \in Seq(Mark)
  BY <1>8, <1>9, AppendProperties
<1>17. InOrder(marks')
  <2>1. PICK n \in Nat : n = Len(marks)
    BY <1>9, LenProperties
  <2>2. Len(marks') = n + 1 /\ marks'[n + 1] = q /\ \A i \in 1..n : marks'[i] = marks[i]
    BY <1>8, <1>9, <2>1, AppendProperties
  <2>3. DOMAIN marks = 1..n /\ DOMAIN marks' = 1..n + 1
    BY <1>9, <1>16, <2>1, <2>2, LenProperties
  <2> SUFFICES ASSUME NEW i \in 1..n + 1, NEW j \in 1..n + 1, i <= j
               PROVE  marks'[i].undoCount <= marks'[j].undoCount
    BY <2>3 DEF InOrder
  <2>4. CASE j = n + 1
    <3>1. marks'[i] \in Mark
      BY <1>16, <2>2, ElementOfSeq
    <3>2. marks'[i].undoCount \in 0..u
      BY <1>6, <3>1 DEF Mark
    <3>3. QED
      BY <1>8, <2>2, <2>4, <3>2
  <2>5. CASE j \in 1..n
    <3>1. i \in 1..n
      BY <2>5
    <3>2. QED
      BY <1>1, <2>2, <2>3, <2>5, <3>1 DEF InOrder
  <2>6. QED
    BY <2>4, <2>5
<1>18. Underway' = Underway /\ Undone' = Undone /\ Surviving' = Surviving
  <2>1. Underway' = {}
    BY <1>3 DEF Underway
  <2>2. Underway = {}
    BY <1>2, <1>3 DEF Underway
  <2>3. QED
    BY <1>2, <1>3, <2>1, <2>2 DEF Undone, Surviving
<1>19. View' = View
  BY <1>18 DEF View
<1>20. SavepointsTypeOK'
  <2>1. /\ server \in Servers /\ log \in Seq(Event) /\ Len(log) <= MaxValues
        /\ rolledBack \subseteq 1..Len(log) /\ mem \in [Objs -> Values]
        /\ transactionActive \in BOOLEAN /\ undos \in Seq(UndoRecord)
    BY <1>1, SavepointTypes
  <2>2. Point' = Point /\ UndoRecord' = UndoRecord /\ Mark' = Mark /\ Values' = Values
    BY <1>2, <1>3 DEF Point, UndoRecord, Mark, Values
  <2>3. QED
    BY <1>2, <1>3, <1>9, <1>16, <2>1, <2>2, SavepointTypesNext
<1>21. WritesNoted' /\ OneCall'
  BY <1>1, <1>2, <1>3, <1>18 DEF WritesNoted, OneCall
<1>22. CallsAt'
  BY <1>2, <1>3, <1>4, <1>15, <1>18 DEF CallsAt
<1>23. UndosFit(log', View', undos') /\ MemoryFits(log', View', mem')
  BY <1>1, <1>2, <1>3, <1>19
<1>24. QED
  BY <1>17, <1>20, <1>21, <1>22, <1>23 DEF SavepointsInv

-----------------------------------------------------------------------------
(* The last place of a name, in a list that has the name. *)
LEMMA LastNamedIs ==
    ASSUME NEW S, NEW s \in Seq(S), NEW n, Named(s, n)
    PROVE  /\ LastNamed(s, n) \in DOMAIN s /\ s[LastNamed(s, n)].name = n
           /\ \A j \in DOMAIN s : j > LastNamed(s, n) => s[j].name # n
<1> DEFINE IsLast(i) == i \in DOMAIN s /\ s[i].name = n
                        /\ \A j \in DOMAIN s : j > i => s[j].name # n
           T == {x \in Nat : \E i \in DOMAIN s : s[i].name = n /\ i > x}
<1>1. PICK l \in Nat : l = Len(s) /\ DOMAIN s = 1..l
  BY LenProperties
<1>2. \E i : IsLast(i)
  <2> SUFFICES ASSUME \A i : ~IsLast(i) PROVE FALSE
    OBVIOUS
  <2>1. 0 \in T
    BY <1>1 DEF Named
  <2>2. ASSUME NEW x \in Nat, x \in T PROVE x + 1 \in T
    <3>1. PICK i \in DOMAIN s : s[i].name = n /\ i > x
      BY <2>2
    <3>2. PICK j \in DOMAIN s : j > i /\ s[j].name = n
      BY <3>1
    <3>3. j > x + 1
      BY <1>1, <3>1, <3>2
    <3>4. QED
      BY <3>2, <3>3
  <2>3. l \in T
    <3> HIDE DEF T
    <3>1. QED
      BY <2>1, <2>2, NumbersIn
  <2>4. QED
    BY <1>1, <2>3
<1>3. PICK i : IsLast(i)
  BY <1>2
<1>4. LastNamed(s, n) = CHOOSE x \in DOMAIN s : s[x].name = n
                          /\ \A j \in DOMAIN s : j > x => s[j].name # n
  BY DEF LastNamed
<1>5. QED
  BY <1>3, <1>4

(* No other place is the last one. *)
LEMMA LastNamedOnly ==
    ASSUME NEW S, NEW s \in Seq(S), NEW n, NEW k \in DOMAIN s, s[k].name = n,
           \A j \in DOMAIN s : j > k => s[j].name # n
    PROVE  Named(s, n) /\ LastNamed(s, n) = k
<1>1. Named(s, n)
  BY DEF Named
<1>2. PICK i : i = LastNamed(s, n)
  OBVIOUS
<1>3. i \in DOMAIN s /\ s[i].name = n /\ \A j \in DOMAIN s : j > i => s[j].name # n
  BY <1>1, <1>2, LastNamedIs
<1>4. i \in Nat /\ k \in Nat
  BY <1>3, LenProperties
<1>5. ~(i > k) /\ ~(k > i)
  BY <1>3
<1>6. i = k
  BY <1>4, <1>5
<1>7. QED
  BY <1>1, <1>2, <1>6

(* The server rolls back to a savepoint: what it undoes still counts in     *)
(* memory, and is what the last mark of the name undoes.                   *)
LEMMA RollbackToKeeps ==
    ASSUME SavepointsAssumption, Overlap = FALSE, SavepointsInv, NEW n \in Names, RollbackTo(n)
    PROVE  SavepointsInv'
<1>1. /\ SavepointsTypeOK /\ UndosFit(log, View, undos) /\ WritesNoted
      /\ MemoryFits(log, View, mem) /\ CallsAt /\ InOrder(marks)
      /\ Len(log) \in Nat /\ rolledBack \subseteq 1..Len(log)
      /\ Surviving = 1..Len(log) \ rolledBack
      /\ \A i \in DOMAIN undos : undos[i].after \in Undone
  BY SavepointsBasics
<1>2. transactionActive /\ calls = {}
  BY DEF RollbackTo, Ready
<1>3. /\ Underway = {} /\ Paired(server, undos, points, marks)
      /\ Undone \subseteq Surviving /\ View = Surviving
  BY <1>2, AtRest
<1>4. PICK c : c = [op |-> "rollbackTo", name |-> n]
  OBVIOUS
<1>5. c.op = "rollbackTo" /\ c.name = n
  BY <1>4
<1>6. points \in Seq(Point) /\ marks \in Seq(Mark)
  BY <1>1, SavepointTypes
<1>7. PICK i : i = LastNamed(points, n)
  OBVIOUS
<1>8. i \in DOMAIN points /\ points[i].name = n /\ \A j \in DOMAIN points : j > i => points[j].name # n
  BY <1>6, <1>7, LastNamedIs DEF RollbackTo
<1>9. PICK a \in Nat : a = points[i].at /\ DOMAIN points = 1..Len(points) /\ DOMAIN marks = 1..Len(marks)
  BY <1>1, <1>8, ElementsAre DEF Values
<1>10. PICK W : W = {x \in (a + 1)..Len(log) : log[x].by = "write"}
  OBVIOUS
<1>11. /\ points' = SubSeq(points, 1, i) /\ rolledBack' = rolledBack \cup W /\ calls' = {c}
       /\ UNCHANGED <<server, log, mem, transactionActive, undos, marks>>
  BY <1>2, <1>4, <1>7, <1>9, <1>10 DEF RollbackTo, RollBackAfter, session
<1>12. PICK k \in 1..Len(marks) :
          /\ marks[k].name = n /\ \A j \in 1..Len(marks) : j > k => marks[j].name # n
          /\ Divides(undos, marks[k].undoCount, a)
          /\ Paired(server, undos, SubSeq(points, 1, i), SubSeq(marks, 1, k))
  <2>1. i \in 1..Len(points) /\ \A j \in 1..Len(points) : j > i => points[j].name # points[i].name
    BY <1>8, <1>9
  <2>2. PICK k \in 1..Len(marks) :
          /\ marks[k].name = points[i].name
          /\ \A j \in 1..Len(marks) : j > k => marks[j].name # points[i].name
          /\ Divides(undos, marks[k].undoCount, points[i].at)
          /\ Paired(server, undos, SubSeq(points, 1, i), SubSeq(marks, 1, k))
    BY <1>3, <1>6, <2>1, PairedCut
  <2>3. QED
    BY <1>8, <1>9, <2>2
<1>13. ASSUME NEW j \in DOMAIN undos
       PROVE  undos[j].after \in rolledBack' <=> j > marks[k].undoCount
  <2>1. PICK x : x = undos[j].after
    OBVIOUS
  <2>2. x \in 1..Len(log) /\ log[x].by = "write" /\ x \notin rolledBack
    BY <1>1, <1>3, <2>1 DEF UndosFit, UndoFits
  <2>3. x \in rolledBack' <=> x > a
    BY <1>1, <1>10, <1>11, <2>2
  <2>4. j <= marks[k].undoCount <=> x <= a
    BY <1>12, <2>1 DEF Divides
  <2>5. j \in Nat /\ marks[k].undoCount \in Nat
    BY <1>1, <1>12, ElementsAre
  <2>6. QED
    BY <1>1, <2>1, <2>2, <2>3, <2>4, <2>5
<1>14. RollbackAt(c)'
  <2>1. k \in DOMAIN marks
    BY <1>9, <1>12
  <2>2. QED
    BY <1>5, <1>9, <1>11, <1>12, <1>13, <2>1 DEF RollbackAt
<1>15. Underway' = {} /\ Undone' = Undone /\ Surviving' = Surviving \ W
  <2>1. Underway' = {}
    BY <1>5, <1>11 DEF Underway
  <2>2. Surviving' = Surviving \ W
    BY <1>1, <1>11 DEF Surviving
  <2>3. QED
    BY <1>11, <2>1, <2>2 DEF Undone
<1>16. View' = View
  <2>1. \A x \in Surviving : x \in W => x \in Undone
    BY <1>1, <1>2, <1>3, <1>10 DEF WritesNoted
  <2>2. QED
    BY <1>3, <1>15, <2>1 DEF View
<1>17. SavepointsTypeOK'
  <2>1. /\ server \in Servers /\ log \in Seq(Event) /\ Len(log) <= MaxValues
        /\ rolledBack \subseteq 1..Len(log) /\ mem \in [Objs -> Values]
        /\ transactionActive \in BOOLEAN /\ undos \in Seq(UndoRecord)
    BY <1>1, SavepointTypes
  <2>2. /\ Point' = Point /\ UndoRecord' = UndoRecord /\ Mark' = Mark /\ Values' = Values
        /\ CallRecord' = CallRecord
    BY <1>11 DEF Point, UndoRecord, Mark, Values, CallRecord
  <2>3. c \in CallRecord
    BY <1>4 DEF CallRecord
  <2>4. W \subseteq 1..Len(log)
    BY <1>1, <1>10
  <2>5. points' \in Seq(Point)
    <3>1. i \in Nat /\ \A x \in 1..i : points[x] \in Point
      BY <1>6, <1>8, <1>9, ElementOfSeq, LenProperties
    <3>2. QED
      BY <1>11, <3>1, SubSeqProperties
  <2>6. QED
    BY <1>6, <1>11, <2>1, <2>2, <2>3, <2>4, <2>5, SavepointTypesNext
<1>18. WritesNoted'
  BY <1>1, <1>3, <1>11, <1>15 DEF WritesNoted
<1>19. CallsAt'
  <2>1. \A d \in calls' : d = c
    BY <1>11
  <2>2. c \in calls'
    BY <1>11
  <2>3. QED
    BY <1>5, <1>14, <2>1, <2>2 DEF CallsAt
<1>20. OneCall' /\ InOrder(marks)'
  BY <1>1, <1>2, <1>11 DEF OneCall, InOrder
<1>21. QED
  BY <1>1, <1>11, <1>16, <1>17, <1>18, <1>19, <1>20 DEF SavepointsInv

(* The undos past the n-th have run, and the marks past the k-th are gone. *)
LEMMA RollbackToDoneKeeps ==
    ASSUME SavepointsInv, RollbackToDone
    PROVE  SavepointsInv'
<1>1. /\ SavepointsTypeOK /\ OneCall /\ UndosFit(log, View, undos) /\ WritesNoted
      /\ MemoryFits(log, View, mem) /\ CallsAt /\ InOrder(marks)
      /\ Len(log) \in Nat /\ rolledBack \subseteq 1..Len(log)
      /\ Surviving = 1..Len(log) \ rolledBack
      /\ Undone \subseteq 1..Len(log) /\ View \subseteq 1..Len(log)
      /\ \A i \in DOMAIN undos : undos[i].after \in Undone
  BY SavepointsBasics
<1>2. PICK c \in calls :
        /\ c.op = "rollbackTo"
        /\ calls' = calls \ {c}
        /\ IF Named(marks, c.name)
           THEN LET i == LastNamed(marks, c.name)
                IN marks' = MarksUpTo(i) /\ RunUndos(marks[i].undoCount)
           ELSE UNCHANGED <<mem, undos, marks>>
        /\ UNCHANGED <<server, rows, points, transactionActive>>
  BY DEF RollbackToDone
<1>3. calls = {c} /\ calls' = {} /\ UNCHANGED <<log, rolledBack>>
  BY <1>1, <1>2 DEF OneCall, rows
<1>4. PICK k \in DOMAIN marks :
        /\ marks[k].name = c.name /\ \A j \in DOMAIN marks : j > k => marks[j].name # c.name
        /\ \A j \in DOMAIN undos : undos[j].after \in rolledBack <=> j > marks[k].undoCount
        /\ Paired(server, undos, points, SubSeq(marks, 1, k))
  BY <1>1, <1>2, <1>3 DEF CallsAt, RollbackAt
<1>5. points \in Seq(Point) /\ marks \in Seq(Mark) /\ undos \in Seq(UndoRecord)
  BY <1>1, SavepointTypes
<1>6. Named(marks, c.name) /\ LastNamed(marks, c.name) = k
  BY <1>4, <1>5, LastNamedOnly
<1>7. PICK l \in Nat : /\ l = Len(undos) /\ DOMAIN undos = 1..l
                       /\ DOMAIN marks = 1..Len(marks) /\ Len(marks) \in Nat
  BY <1>1, ElementsAre
<1>8. PICK n \in 0..Len(undos) : n = marks[k].undoCount
  BY <1>1, <1>4, <1>7, ElementsAre
<1>9. /\ marks' = SubSeq(marks, 1, k) /\ mem' = Undoing(undos, n) /\ undos' = SubSeq(undos, 1, n)
      /\ UNCHANGED <<server, points, transactionActive>>
  BY <1>2, <1>6, <1>8 DEF MarksUpTo, RunUndos
<1>10. Underway = {} /\ Underway' = {}
  BY <1>2, <1>3 DEF Underway
<1>11. PICK W : W = View \ After(n)
  OBVIOUS
<1>12. /\ UndosFit(log, W, undos')
       /\ \A x : x \in AfterOf(undos') <=> \E i \in 1..n : x = undos[i].after
       /\ undos' \in Seq(UndoRecord) /\ Len(undos') = n /\ \A i \in 1..n : undos'[i] = undos[i]
  <2>1. W = View \ Past(undos, n)
    BY <1>11 DEF After
  <2>2. PICK us : us = undos'
    OBVIOUS
  <2>3. us = SubSeq(undos, 1, n)
    BY <1>9, <2>2
  <2>4. undos \in Seq(UndoRecord) /\ n \in 0..Len(undos)
    BY <1>5, <1>8
  <2>5. UndosFit(log, View, undos) /\ Len(log) \in Nat /\ View \subseteq 1..Len(log)
    BY <1>1
  <2>6. UndosFit(log, View \ Past(undos, n), SubSeq(undos, 1, n))
    BY <2>4, <2>5, UndosCut
  <2>7. SubSeq(undos, 1, n) \in Seq(UndoRecord) /\ Len(SubSeq(undos, 1, n)) = n
    BY <2>4, <2>5, UndosCut
  <2>8. \A i \in 1..n : SubSeq(undos, 1, n)[i] = undos[i]
    BY <2>4, <2>5, UndosCut
  <2>9. us \in Seq(UndoRecord) /\ Len(us) = n /\ \A i \in 1..n : us[i] = undos[i]
    BY <2>3, <2>7, <2>8
  <2>10. DOMAIN us = 1..n
    BY <2>9, LenProperties
  <2>11. \A x : x \in AfterOf(us) <=> \E i \in 1..n : x = undos[i].after
    BY <2>9, <2>10 DEF AfterOf
  <2>12. UndosFit(log, W, us)
    BY <2>1, <2>3, <2>6
  <2>13. QED
    BY <2>2, <2>9, <2>11, <2>12
<1>13. DOMAIN undos' = 1..n /\ n \in Nat /\ n <= l
  BY <1>7, <1>12, LenProperties
<1>14. \A x : x \in Undone' <=> x \in Undone /\ x \notin rolledBack
  <2>1. \A x : x \in Undone' <=> \E i \in 1..n : x = undos[i].after
    BY <1>12 DEF Undone
  <2>2. \A x : x \in Undone <=> \E i \in 1..l : x = undos[i].after
    BY <1>7 DEF Undone, AfterOf
  <2>3. \A i \in 1..l : undos[i].after \in rolledBack <=> i > n
    BY <1>4, <1>7, <1>8
  <2>4. \A i \in 1..n : i \in 1..l /\ ~(i > n)
    BY <1>13
  <2>5. \A i \in 1..l : ~(i > n) => i \in 1..n
    BY <1>13
  <2>6. QED
    BY <2>1, <2>2, <2>3, <2>4, <2>5
<1>15. \A x : x \in After(n) <=> x \in Undone /\ x \in rolledBack
  <2>1. \A x : x \in After(n) <=> \E i \in 1..l : i > n /\ x = undos[i].after
    BY <1>7 DEF After, Past
  <2>2. \A x : x \in Undone <=> \E i \in 1..l : x = undos[i].after
    BY <1>7 DEF Undone, AfterOf
  <2>3. \A i \in 1..l : undos[i].after \in rolledBack <=> i > n
    BY <1>4, <1>7, <1>8
  <2>4. QED
    BY <2>1, <2>2, <2>3
<1>16. Surviving' = Surviving
  BY <1>3 DEF Surviving
<1>17. View' = W
  <2>1. View = Surviving \cup Undone /\ View' = Surviving \cup Undone'
    BY <1>10, <1>16 DEF View
  <2>2. \A x \in Surviving : x \notin rolledBack
    BY <1>1
  <2>3. QED
    BY <1>11, <1>14, <1>15, <2>1, <2>2
<1>18. mem' \in [Objs -> Values] /\ MemoryFits(log, W, mem')
  <2>1. /\ Undoing(undos, n) \in [Objs -> Values]
        /\ \A o \in Objs : LeftIn(log, o, Undoing(undos, n)[o], View \ After(n))
    BY <1>1, <1>10, UndoingRight
  <2>2. QED
    BY <1>9, <1>11, <2>1 DEF MemoryFits
<1>19. PICK ms : ms = marks'
  OBVIOUS
<1>20. Len(ms) = k /\ DOMAIN ms = 1..k /\ \A i \in 1..k : ms[i] = marks[i] /\ ms[i].undoCount <= n
  <2>1. \A i \in 1..k : marks[i] \in Mark /\ i \in DOMAIN marks /\ i <= k
    BY <1>4, <1>5, <1>7, ElementOfSeq
  <2>2. k \in Nat
    BY <1>4, <1>7
  <2>3. ms \in Seq(Mark) /\ Len(ms) = k /\ \A i \in 1..k : ms[i] = marks[i]
    BY <1>9, <1>19, <2>1, <2>2, SubSeqProperties
  <2>4. \A i \in 1..k : marks[i].undoCount <= n
    BY <1>1, <1>4, <1>8, <2>1 DEF InOrder
  <2>5. QED
    BY <2>3, <2>4, LenProperties
<1>21. SavepointsTypeOK'
  <2>1. /\ server \in Servers /\ log \in Seq(Event) /\ Len(log) <= MaxValues
        /\ rolledBack \subseteq 1..Len(log) /\ transactionActive \in BOOLEAN
    BY <1>1, SavepointTypes
  <2>2. Point' = Point /\ UndoRecord' = UndoRecord /\ Values' = Values
    BY <1>3 DEF Point, UndoRecord, Values
  <2>3. ms \in Seq(Mark')
    <3>1. ASSUME NEW i \in 1..k PROVE marks[i] \in Mark'
      <4>1. marks[i] \in Mark /\ marks[i].undoCount <= n
        BY <1>4, <1>5, <1>7, <1>20, ElementOfSeq
      <4>2. marks[i].undoCount \in 0..n
        BY <1>7, <1>13, <4>1 DEF Mark
      <4>3. QED
        BY <1>12, <4>1, <4>2 DEF Mark
    <3>2. k \in Nat
      BY <1>4, <1>7
    <3>3. QED
      BY <1>9, <1>19, <3>1, <3>2, SubSeqProperties
  <2>4. QED
    BY <1>3, <1>5, <1>9, <1>12, <1>18, <1>19, <2>1, <2>2, <2>3, SavepointTypesNext
<1>22. Paired(server, undos', points, ms)
  <2>1. ASSUME NEW i \in DOMAIN points, NEW x \in DOMAIN ms,
               Divides(undos, ms[x].undoCount, points[i].at)
        PROVE  Divides(undos', ms[x].undoCount, points[i].at)
    <3>1. \A j \in 1..n : j \in 1..l
      BY <1>13
    <3>2. QED
      BY <1>7, <1>12, <1>13, <2>1, <3>1 DEF Divides
  <2>2. Paired(server, undos, points, ms)
    BY <1>4, <1>9, <1>19
  <2>3. QED
    BY <2>1, <2>2, PairedUndos
<1>23. WritesNoted'
  BY <1>1, <1>3, <1>9, <1>10, <1>14, <1>16 DEF WritesNoted
<1>24. CallsAt'
  <2>1. (Undone \cap rolledBack)' = {}
    BY <1>3, <1>14
  <2>2. QED
    BY <1>3, <1>9, <1>19, <1>22, <2>1 DEF CallsAt
<1>25. InOrder(ms)
  <2>1. \A i \in 1..k : i \in DOMAIN marks
    BY <1>4, <1>7
  <2>2. QED
    BY <1>1, <1>20, <2>1 DEF InOrder
<1>26. OneCall'
  BY <1>3 DEF OneCall
<1>27. QED
  BY <1>3, <1>12, <1>17, <1>18, <1>19, <1>21, <1>23, <1>24, <1>25, <1>26 DEF SavepointsInv

-----------------------------------------------------------------------------
(* ROLLBACK: all undos run. *)
LEMMA SessionRollbackKeeps ==
    ASSUME SavepointsInv, SessionRollback
    PROVE  SavepointsInv'
<1>1. /\ SavepointsTypeOK /\ UndosFit(log, View, undos) /\ WritesNoted
      /\ MemoryFits(log, View, mem)
      /\ Len(log) \in Nat /\ rolledBack \subseteq 1..Len(log)
      /\ Surviving = 1..Len(log) \ rolledBack
  BY SavepointsBasics
<1>2. /\ transactionActive /\ calls = {} /\ calls' = {}
      /\ points' = <<>> /\ marks' = <<>> /\ transactionActive' = FALSE
      /\ mem' = Undoing(undos, 0) /\ undos' = SubSeq(undos, 1, 0)
      /\ UNCHANGED <<server, log>>
  BY DEF SessionRollback, RunUndos
<1>3. Underway = {} /\ Undone \subseteq Surviving /\ View = Surviving
  BY <1>2, AtRest
<1>4. PICK W : W = {x \in (0 + 1)..Len(log) : log[x].by = "write"}
  OBVIOUS
<1>5. rolledBack' = rolledBack \cup W
  BY <1>4 DEF SessionRollback, RollBackAfter
<1>6. undos' = <<>>
  BY <1>2, SubSeqEmpty
<1>7. DOMAIN <<>> = {}
  BY EmptySeq
<1>8. Underway' = {} /\ Undone' = {} /\ Surviving' = Surviving \ W
  <2>1. Underway' = {}
    BY <1>2 DEF Underway
  <2>2. Undone' = {}
    BY <1>6, <1>7 DEF Undone, AfterOf
  <2>3. Surviving' = Surviving \ W
    BY <1>1, <1>2, <1>5 DEF Surviving
  <2>4. QED
    BY <2>1, <2>2, <2>3
<1>9. After(0) = Undone
  <2>1. PICK l \in Nat : DOMAIN undos = 1..l
    BY <1>1, ElementsAre
  <2>2. {j \in DOMAIN undos : j > 0} = DOMAIN undos
    BY <2>1
  <2>3. QED
    BY <2>2 DEF After, Past, Undone, AfterOf
<1>10. View' = View \ After(0)
  <2>1. \A x \in Surviving : x \in W => x \in Undone
    BY <1>1, <1>2, <1>3, <1>4 DEF WritesNoted
  <2>2. ASSUME NEW x \in Undone PROVE x \in W
    <3>1. PICK i \in DOMAIN undos : x = undos[i].after
      BY DEF Undone, AfterOf
    <3>2. x \in 1..Len(log) /\ log[x].by = "write"
      BY <1>1, <3>1 DEF UndosFit, UndoFits
    <3>3. QED
      BY <1>4, <3>2
  <2>3. View' = Surviving \ W
    BY <1>8 DEF View
  <2>4. QED
    BY <1>3, <1>9, <2>1, <2>2, <2>3
<1>11. mem' \in [Objs -> Values] /\ MemoryFits(log, View', mem')
  <2>1. 0 \in 0..Len(undos)
    BY <1>1, ElementsAre
  <2>2. /\ Undoing(undos, 0) \in [Objs -> Values]
        /\ \A o \in Objs : LeftIn(log, o, Undoing(undos, 0)[o], View \ After(0))
    BY <1>1, <1>3, <2>1, UndoingRight
  <2>3. QED
    BY <1>2, <1>10, <2>2 DEF MemoryFits
<1>12. UndosFit(log, View', undos')
  BY <1>6, <1>7 DEF UndosFit
<1>13. SavepointsTypeOK'
  <2>1. server \in Servers /\ log \in Seq(Event) /\ Len(log) <= MaxValues /\ rolledBack \subseteq 1..Len(log)
    BY <1>1, SavepointTypes
  <2>2. Values' = Values
    BY <1>2 DEF Values
  <2>3. W \subseteq 1..Len(log)
    BY <1>4
  <2>4. <<>> \in Seq(Point') /\ <<>> \in Seq(UndoRecord') /\ <<>> \in Seq(Mark')
    BY EmptySeq
  <2>5. QED
    BY <1>2, <1>5, <1>6, <1>11, <2>1, <2>2, <2>3, <2>4, SavepointTypesNext
<1>14. WritesNoted' /\ OneCall'
  BY <1>2 DEF WritesNoted, OneCall
<1>15. CallsAt'
  <2>1. Paired(server, undos, points, marks)'
    BY <1>2, PairedNone
  <2>2. (Undone \cap rolledBack)' = {}
    BY <1>8
  <2>3. QED
    BY <1>2, <2>1, <2>2 DEF CallsAt
<1>16. InOrder(marks')
  BY <1>2, <1>7 DEF InOrder
<1>17. QED
  BY <1>2, <1>11, <1>12, <1>13, <1>14, <1>15, <1>16 DEF SavepointsInv

(* COMMIT: nothing is left to undo. *)
LEMMA SessionCommitKeeps ==
    ASSUME SavepointsInv, SessionCommit
    PROVE  SavepointsInv'
<1>1. /\ SavepointsTypeOK /\ MemoryFits(log, View, mem)
  BY SavepointsBasics
<1>2. /\ calls = {} /\ calls' = {}
      /\ points' = <<>> /\ marks' = <<>> /\ undos' = <<>> /\ transactionActive' = FALSE
      /\ UNCHANGED <<server, log, rolledBack, mem>>
  BY DEF SessionCommit, rows
<1>3. View = Surviving
  BY <1>2, AtRest
<1>4. DOMAIN <<>> = {}
  BY EmptySeq
<1>5. Underway' = {} /\ Undone' = {} /\ Surviving' = Surviving
  <2>1. Underway' = {}
    BY <1>2 DEF Underway
  <2>2. Undone' = {}
    BY <1>2, <1>4 DEF Undone, AfterOf
  <2>3. Surviving' = Surviving
    BY <1>2 DEF Surviving
  <2>4. QED
    BY <2>1, <2>2, <2>3
<1>6. View' = View
  BY <1>3, <1>5 DEF View
<1>7. UndosFit(log, View', undos')
  BY <1>2, <1>4 DEF UndosFit
<1>8. SavepointsTypeOK'
  <2>1. /\ server \in Servers /\ log \in Seq(Event) /\ Len(log) <= MaxValues
        /\ rolledBack \subseteq 1..Len(log) /\ mem \in [Objs -> Values]
    BY <1>1, SavepointTypes
  <2>2. Values' = Values
    BY <1>2 DEF Values
  <2>3. <<>> \in Seq(Point') /\ <<>> \in Seq(UndoRecord') /\ <<>> \in Seq(Mark')
    BY EmptySeq
  <2>4. QED
    BY <1>2, <2>1, <2>2, <2>3, SavepointTypesNext
<1>9. WritesNoted' /\ OneCall'
  BY <1>2 DEF WritesNoted, OneCall
<1>10. CallsAt'
  <2>1. Paired(server, undos, points, marks)'
    BY <1>2, PairedNone
  <2>2. (Undone \cap rolledBack)' = {}
    BY <1>5
  <2>3. QED
    BY <1>2, <2>1, <2>2 DEF CallsAt
<1>11. InOrder(marks')
  BY <1>2, <1>4 DEF InOrder
<1>12. MemoryFits(log', View', mem')
  BY <1>1, <1>2, <1>6
<1>13. QED
  BY <1>2, <1>7, <1>8, <1>9, <1>10, <1>11, <1>12 DEF SavepointsInv

-----------------------------------------------------------------------------
(* An open transaction, no event yet. *)
LEMMA SavepointsStart ==
    ASSUME SavepointsAssumption, SavepointsInit
    PROVE  SavepointsInv
<1>1. /\ server \in Servers /\ log = <<>> /\ rolledBack = {} /\ points = <<>>
      /\ mem = [o \in Objs |-> 0] /\ transactionActive = TRUE
      /\ undos = <<>> /\ marks = <<>> /\ calls = {}
  BY DEF SavepointsInit
<1>2. DOMAIN <<>> = {} /\ Len(<<>>) = 0 /\ 1..0 = {}
  BY EmptySeq
<1>3. 0 \in Values
  BY <1>1, <1>2 DEF Values
<1>4. SavepointsTypeOK
  <2>1. <<>> \in Seq(Event) /\ <<>> \in Seq(Point) /\ <<>> \in Seq(UndoRecord) /\ <<>> \in Seq(Mark)
    BY EmptySeq
  <2>2. mem \in [Objs -> Values]
    BY <1>1, <1>3
  <2>3. Len(log) <= MaxValues
    BY <1>1, <1>2 DEF SavepointsAssumption
  <2>4. QED
    BY <1>1, <2>1, <2>2, <2>3, SavepointTypes
<1>5. Surviving = {} /\ Undone = {} /\ Underway = {} /\ View = {}
  BY <1>1, <1>2 DEF Surviving, Undone, AfterOf, Underway, View
<1>6. UndosFit(log, View, undos) /\ InOrder(marks)
  BY <1>1, <1>2 DEF UndosFit, InOrder
<1>7. MemoryFits(log, View, mem)
  BY <1>1, <1>5 DEF MemoryFits, LeftIn
<1>8. WritesNoted /\ OneCall
  BY <1>1, <1>5 DEF WritesNoted, OneCall
<1>9. CallsAt
  <2>1. Paired(server, undos, points, marks)
    BY <1>1, PairedNone
  <2>2. QED
    BY <1>1, <1>5, <2>1 DEF CallsAt
<1>10. QED
  BY <1>4, <1>6, <1>7, <1>8, <1>9 DEF SavepointsInv

(* Every step keeps the invariant. *)
LEMMA SavepointsStep ==
    ASSUME SavepointsAssumption, Overlap = FALSE, SavepointsInv, [SavepointsNext]_savepointsVars
    PROVE  SavepointsInv'
<1>1. CASE UNCHANGED savepointsVars
  <2>1. UNCHANGED <<server, log, rolledBack, points, mem, transactionActive, undos, marks, calls>>
    BY <1>1 DEF savepointsVars, rows, session
  <2>2. SavepointsTypeOK' /\ OneCall' /\ WritesNoted'
    BY <2>1 DEF SavepointsInv, SavepointsTypeOK, Values, OneCall, WritesNoted,
                Surviving, Undone, Underway
  <2>3. View' = View
    BY <2>1 DEF View, Surviving, Undone, Underway
  <2>4. CallsAt'
    BY <2>1 DEF SavepointsInv, CallsAt, WriteAt, SavepointAt, RollbackAt, Undone, Surviving
  <2>5. QED
    BY <2>1, <2>2, <2>3, <2>4 DEF SavepointsInv
<1>2. ASSUME NEW o \in Objs, Write(o) PROVE SavepointsInv'
  BY <1>2, WriteKeeps
<1>3. ASSUME NEW o \in Objs, Assign(o) PROVE SavepointsInv'
  BY <1>3, AssignKeeps
<1>4. ASSUME NEW n \in Names, Savepoint(n) PROVE SavepointsInv'
  BY <1>4, SavepointKeeps
<1>5. ASSUME NEW n \in Names, RollbackTo(n) PROVE SavepointsInv'
  BY <1>5, RollbackToKeeps
<1>6. WriteDone => SavepointsInv'
  BY WriteDoneKeeps
<1>7. SavepointDone => SavepointsInv'
  BY SavepointDoneKeeps
<1>8. RollbackToDone => SavepointsInv'
  BY RollbackToDoneKeeps
<1>9. SessionRollback => SavepointsInv'
  BY SessionRollbackKeeps
<1>10. SessionCommit => SavepointsInv'
  BY SessionCommitKeeps
<1>11. QED
  BY <1>1, <1>2, <1>3, <1>4, <1>5, <1>6, <1>7, <1>8, <1>9, <1>10 DEF SavepointsNext

(* What the invariant says of a rest. *)
LEMMA RestAgrees == ASSUME SavepointsInv PROVE SavepointsAgree
<1>1. /\ SavepointsTypeOK /\ UndosFit(log, View, undos) /\ WritesNoted
      /\ MemoryFits(log, View, mem)
  BY SavepointsBasics
<1>2. calls = {} => /\ Underway = {} /\ Paired(server, undos, points, marks)
                    /\ Undone \subseteq Surviving /\ View = Surviving
  BY AtRest
<1>3. ObjectsFollowRows
  BY <1>1, <1>2, LeftOnIn DEF ObjectsFollowRows, MemoryFits
<1>4. UndosAreWrites
  <2> SUFFICES ASSUME calls = {}, transactionActive
               PROVE  /\ {undos[i].after : i \in DOMAIN undos} = {i \in Surviving : log[i].by = "write"}
                      /\ \A i, j \in DOMAIN undos : i < j => undos[i].after < undos[j].after
    BY DEF UndosAreWrites
  <2>1. ASSUME NEW x \in Undone PROVE x \in Surviving /\ log[x].by = "write"
    <3>1. PICK i \in DOMAIN undos : x = undos[i].after
      BY DEF Undone, AfterOf
    <3>2. QED
      BY <1>1, <1>2, <3>1 DEF UndosFit, UndoFits
  <2>2. \A x \in Surviving : log[x].by = "write" => x \in Undone
    BY <1>1, <1>2 DEF WritesNoted
  <2>3. Undone = {i \in Surviving : log[i].by = "write"}
    BY <2>1, <2>2
  <2>4. {undos[i].after : i \in DOMAIN undos} = {i \in Surviving : log[i].by = "write"}
    BY <2>3 DEF Undone, AfterOf
  <2>5. QED
    BY <1>1, <2>4 DEF UndosFit
<1>5. MarksAreSavepoints
  <2> SUFFICES ASSUME calls = {}, server = "stack"
               PROVE  /\ Len(marks) = Len(points)
                      /\ \A i \in DOMAIN marks :
                            marks[i].name = points[i].name /\ Splits(marks[i].undoCount, points[i].at)
    BY DEF MarksAreSavepoints
  <2>1. PICK f \in [DOMAIN points -> DOMAIN marks] : Pairs(server, undos, points, marks, f)
    BY <1>2 DEF Paired
  <2>2. Len(marks) = Len(points) /\ DOMAIN marks = DOMAIN points
    BY <1>1, <2>1, ElementsAre DEF Pairs
  <2>3. ASSUME NEW i \in DOMAIN marks
        PROVE  marks[i].name = points[i].name /\ Splits(marks[i].undoCount, points[i].at)
    <3>1. f[i] = i /\ i \in DOMAIN points
      BY <2>1, <2>2 DEF Pairs
    <3>2. marks[i].name = points[i].name /\ Divides(undos, marks[i].undoCount, points[i].at)
      BY <2>1, <3>1 DEF Pairs
    <3>3. QED
      BY <3>2 DEF Splits, Divides
  <2>4. QED
    BY <2>2, <2>3
<1>6. QED
  BY <1>1, <1>3, <1>4, <1>5 DEF SavepointsAgree

(* Where calls are awaited one by one (Overlap is FALSE), memory and session *)
(* agree with the server whenever none is under way: every object holds     *)
(* what its last surviving write or assignment left, the undos kept are     *)
(* those of the surviving writes, and a server that stacks savepoints has   *)
(* one for every mark (savepoint, rollbackTo, onRollback,                   *)
(* restoreOnRollback).                                                     *)
THEOREM ObjectsStayTrue ==
    ASSUME Overlap = FALSE
    PROVE  SavepointsSpec => []SavepointsAgree
<1>1. SavepointsInit => SavepointsInv
  BY SavepointsAssumption, SavepointsStart
<1>2. SavepointsInv /\ [SavepointsNext]_savepointsVars => SavepointsInv'
  BY SavepointsAssumption, SavepointsStep
<1>3. SavepointsInv => SavepointsAgree
  BY RestAgrees
<1>4. QED
  BY <1>1, <1>2, <1>3, PTL DEF SavepointsSpec
=============================================================================
