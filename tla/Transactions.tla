---------------------------- MODULE Transactions ----------------------------
(***************************************************************************)
(* Managed transactions on a pool of connections (PostgreSQL and MySQL):   *)
(* em.transaction() and every write that opens one                         *)
(* (src/src/core/entity-manager/TransactionRunner.ts), @Transactional      *)
(* (src/src/decorators/Transactional.ts), the session they run on          *)
(* (TransactionSessionManager.ts) and the data source and connector that   *)
(* hold its connection.                                                    *)
(*                                                                         *)
(* A caller runs one transaction; the attempts of a retried one follow     *)
(* each other. A transaction with an Outer one is a REQUIRES_NEW inside    *)
(* the outer's callback, which awaits it. What joins an open transaction   *)
(* (REQUIRED) is part of its callback.                                     *)
(***************************************************************************)
EXTENDS Naturals, Sequences, FiniteSets

CONSTANTS
    Callers,        \* calls that open a transaction of their own
    Decorated,      \* those made through @Transactional
    Outer,          \* Outer[c]: the caller whose callback awaits c, or None
    Conns,          \* the pool's connections
    MaxRetries,     \* MaxRetries[c]: maxRetries, 0 without retryOnDeadlock
    MaxEnds,        \* MaxEnds[c], bound: transaction-end callbacks of a session
    AcquireFaults,  \* acquiring a connection may fail or time out
    SetFails,       \* callers for whom a statement after BEGIN may fail
    HookFaults,     \* subscriber hooks that may throw
    HookErrors,     \* what they throw: "hook", or "deadlock" of their own work
    Catches,        \* callers whose callback may catch a statement's error
    Postgres,       \* the pool is PostgreSQL's, otherwise MySQL's
    None            \* no caller, connection or error

(* What an attempt can fail with. *)
Errors == {"connect", "begin", "app", "hook", "deadlock", "commit", "lost",
           "noconn", "rollback", "rollbackFailed"}

ASSUME TransactionsAssumption ==
    /\ None \notin Callers /\ None \notin Conns /\ None \notin Errors
    /\ Decorated \subseteq Callers /\ SetFails \subseteq Callers
    /\ Outer \in [Callers -> Callers \cup {None}]
    /\ MaxRetries \in [Callers -> Nat] /\ MaxEnds \in [Callers -> Nat]
    /\ \A c \in Decorated : MaxRetries[c] = 0
    /\ AcquireFaults \in BOOLEAN /\ Postgres \in BOOLEAN
    /\ Catches \subseteq Callers
    /\ Postgres \/ SetFails = {}
    /\ HookErrors \subseteq {"hook", "deadlock"}

VARIABLES
    free,       \* connections in the pool
    tx,         \* tx[k]: whose work is in the transaction open on k
    aborted,    \* connections whose transaction PostgreSQL has aborted
    commits,    \* commits[c]: how often c's work was made durable
    pc,         \* how far each call has come
    conn,       \* conn[c]: the data source's connection
    active,     \* active[c]: TransactionSessionManager.transactionActive
    ends,       \* ends[c]: transaction-end callbacks of this attempt
    told,       \* told[c]: what those that fired were told
    committed,  \* committed[c]: COMMIT returned
    attempt,    \* attempt[c]: the retry loop's counter
    error,      \* error[c]: the error on its way to the caller
    cause,      \* cause[c]: history, the first error of the attempt
    refused     \* refused[c]: history, the server failed a ROLLBACK

poolVars == <<free, tx, aborted, commits>>
vars == <<free, tx, aborted, commits, pc, conn, active, ends, told, committed, attempt,
          error, cause, refused>>

Places == {"idle", "acquire", "connected", "body", "rolling", "committed",
           "rolledback", "closing", "backoff", "done"}

Managed(c) == c \notin Decorated

Init ==
    /\ free = Conns
    /\ tx = [k \in Conns |-> {}]
    /\ aborted = {}
    /\ commits = [c \in Callers |-> 0]
    /\ pc = [c \in Callers |-> "idle"]
    /\ conn = [c \in Callers |-> None]
    /\ active = [c \in Callers |-> FALSE]
    /\ ends = [c \in Callers |-> 0]
    /\ told = [c \in Callers |-> <<>>]
    /\ committed = [c \in Callers |-> FALSE]
    /\ attempt = [c \in Callers |-> 0]
    /\ error = [c \in Callers |-> None]
    /\ cause = [c \in Callers |-> None]
    /\ refused = [c \in Callers |-> FALSE]

-----------------------------------------------------------------------------
GoTo(c, place) == pc' = [pc EXCEPT ![c] = place]

(* An error is thrown and caught at the given place. *)
Fail(c, e, place) ==
    /\ GoTo(c, place)
    /\ error' = [error EXCEPT ![c] = e]
    /\ cause' = [cause EXCEPT ![c] = IF @ = None THEN e ELSE @]

(* The transaction on c's connection ends and the connector gives the      *)
(* connection back to the pool, or destroys it and the pool opens another. *)
EndOnServer(c, applied) ==
    /\ free' = free \cup {conn[c]}
    /\ tx' = [tx EXCEPT ![conn[c]] = {}]
    /\ aborted' = aborted \ {conn[c]}
    /\ commits' = [d \in Callers |->
                     IF applied /\ d \in tx[conn[c]] /\ conn[c] \notin aborted
                     THEN commits[d] + 1 ELSE commits[d]]
    /\ conn' = [conn EXCEPT ![c] = None]

(* BEGIN. On a connection returned with a transaction open, MySQL commits  *)
(* that one first and PostgreSQL goes on in it.                            *)
OpenOnServer(c) ==
    LET k == conn[c] IN
    /\ k \notin aborted
    /\ tx' = [tx EXCEPT ![k] = IF Postgres THEN @ \cup {c} ELSE {c}]
    /\ commits' = [d \in Callers |->
                     IF ~Postgres /\ d \in tx[k] THEN commits[d] + 1 ELSE commits[d]]
    /\ UNCHANGED <<free, conn>>

(* The work of c's callback is done: nothing it awaits is under way. *)
BodyDone(c) ==
    \A d \in Callers : Outer[d] = c => pc[d] \in {"idle", "done"}

(* The call is made, from the outer transaction's callback if it has one. *)
Start(c) ==
    /\ pc[c] = "idle"
    /\ Outer[c] # None => pc[Outer[c]] = "body"
    /\ GoTo(c, "acquire")
    /\ UNCHANGED <<poolVars, conn, active, ends, told, committed, attempt, error, cause, refused>>

(* session.connect(): the data source checks a connection out. *)
Acquire(c) ==
    /\ pc[c] = "acquire"
    /\ \E k \in free :
          /\ free' = free \ {k}
          /\ conn' = [conn EXCEPT ![c] = k]
    /\ GoTo(c, "connected")
    /\ UNCHANGED <<tx, aborted, commits, active, ends, told, committed, attempt, error, cause, refused>>

(* It fails: em.transaction() goes on to its catch block, the decorator    *)
(* has not entered its try yet.                                            *)
AcquireFails(c) ==
    /\ pc[c] = "acquire"
    /\ AcquireFaults
    /\ Fail(c, "connect", IF Managed(c) THEN "rolling" ELSE "closing")
    /\ UNCHANGED <<poolVars, conn, active, ends, told, committed, attempt, refused>>

(* A beforeTransactionStart hook throws. *)
StartHookThrows(c) ==
    /\ pc[c] = "connected"
    /\ Managed(c) /\ "beforeTransactionStart" \in HookFaults
    /\ \E e \in HookErrors : Fail(c, e, "rolling")
    /\ UNCHANGED <<poolVars, conn, active, ends, told, committed, attempt, refused>>

(* startTransaction() succeeds. *)
Begin(c) ==
    /\ pc[c] = "connected"
    /\ OpenOnServer(c)
    /\ UNCHANGED aborted
    /\ active' = [active EXCEPT ![c] = TRUE]
    /\ GoTo(c, "body")
    /\ UNCHANGED <<ends, told, committed, attempt, error, cause, refused>>

(* startTransaction() fails: BEGIN itself, or, once BEGIN has run, the     *)
(* statement that sets the isolation level or the search_path. The         *)
(* decorator closes the session, em.transaction() goes to its catch block. *)
BeginFails(c) ==
    /\ pc[c] = "connected"
    /\ Fail(c, "begin", IF Managed(c) THEN "rolling" ELSE "closing")
    /\ \/ UNCHANGED <<poolVars, conn>>
       \/ /\ c \in SetFails
          /\ OpenOnServer(c)
          /\ aborted' = aborted \cup {conn[c]}
    /\ UNCHANGED <<active, ends, told, committed, attempt, refused>>

(* onTransactionEnd(), by work of the callback or work it did not await.   *)
Register(c) ==
    /\ active[c]
    /\ ends[c] < MaxEnds[c]
    /\ ends' = [ends EXCEPT ![c] = @ + 1]
    /\ UNCHANGED <<poolVars, pc, conn, active, told, committed, attempt, error, cause, refused>>

(* The callback catches the error of one of its statements and goes on:    *)
(* PostgreSQL has aborted the transaction and answers the COMMIT to come   *)
(* with a ROLLBACK, which the driver reports as success.                   *)
CatchesError(c) ==
    /\ pc[c] = "body"
    /\ Postgres /\ c \in Catches
    /\ conn[c] \notin aborted
    /\ aborted' = aborted \cup {conn[c]}
    /\ UNCHANGED <<free, tx, commits, pc, conn, active, ends, told, committed, attempt, error, cause, refused>>

(* The callback throws, or a hook between BEGIN and COMMIT does. *)
BodyThrows(c) ==
    /\ pc[c] = "body"
    /\ BodyDone(c)
    /\ \E e \in {"app", "deadlock"} : Fail(c, e, "rolling")
    /\ UNCHANGED <<poolVars, conn, active, ends, told, committed, attempt, refused>>

(* commit(): COMMIT succeeds. *)
Commit(c) ==
    /\ pc[c] = "body"
    /\ BodyDone(c)
    /\ EndOnServer(c, TRUE)
    /\ active' = [active EXCEPT ![c] = FALSE]
    /\ committed' = [committed EXCEPT ![c] = TRUE]
    /\ GoTo(c, "committed")
    /\ UNCHANGED <<ends, told, attempt, error, cause, refused>>

(* COMMIT fails: the connector rolls back and releases, and the session    *)
(* does not know it is over; or the connection breaks and the answer of a  *)
(* COMMIT that did take effect is lost.                                    *)
CommitFails(c) ==
    /\ pc[c] = "body"
    /\ BodyDone(c)
    /\ \/ /\ EndOnServer(c, FALSE)
          /\ \E e \in {"commit", "deadlock"} : Fail(c, e, "rolling")
       \/ /\ EndOnServer(c, TRUE)
          /\ Fail(c, "lost", "rolling")
    /\ UNCHANGED <<active, ends, told, committed, attempt, refused>>

(* fireTransactionEnd(): the callbacks run one after the other and are     *)
(* awaited; one that throws is logged.                                     *)
Fire(c) ==
    /\ pc[c] \in {"committed", "rolledback"}
    /\ Len(told[c]) < ends[c]
    /\ told' = [told EXCEPT ![c] = Append(@, pc[c] = "committed")]
    /\ UNCHANGED <<poolVars, pc, conn, active, ends, committed, attempt, error, cause, refused>>

AllTold(c) == Len(told[c]) = ends[c]

(* commit() returned: the afterTransactionCommit hooks of em.transaction() *)
(* may still throw, which no longer rolls anything back.                   *)
AfterCommit(c) ==
    /\ pc[c] = "committed"
    /\ AllTold(c)
    /\ \/ /\ GoTo(c, "closing")
          /\ UNCHANGED <<error, cause>>
       \/ /\ Managed(c) /\ "afterTransactionCommit" \in HookFaults
          /\ \E e \in HookErrors : Fail(c, e, "closing")
    /\ UNCHANGED <<poolVars, conn, active, ends, told, committed, attempt, refused>>

(* A beforeTransactionRollback hook throws in the catch block: the         *)
(* rollback is reported as failed, and session.rollback() is not reached.  *)
RollbackHookThrows(c) ==
    /\ pc[c] = "rolling"
    /\ Managed(c) /\ "beforeTransactionRollback" \in HookFaults
    /\ Fail(c, "rollbackFailed", "closing")
    /\ UNCHANGED <<poolVars, conn, active, ends, told, committed, attempt, refused>>

(* Faulty variant: the callbacks wait for a ROLLBACK that worked. *)
SessionOver_IfRolledBack(c) ==
    /\ active' = [active EXCEPT ![c] = FALSE]
    /\ GoTo(c, IF conn[c] = None THEN "closing" ELSE "rolledback")

(* The finally block of session.rollback(). *)
SessionOver(c) ==
    /\ active' = [active EXCEPT ![c] = FALSE]
    /\ GoTo(c, "rolledback")

(* session.rollback() when the data source has no connection: it never got *)
(* one, or commit() has dropped it. The data source throws.                *)
RollbackWithoutConnection(c) ==
    /\ pc[c] = "rolling"
    /\ conn[c] = None
    /\ SessionOver(c)
    /\ error' = [error EXCEPT ![c] = IF Managed(c) THEN "rollbackFailed" ELSE "noconn"]
    /\ UNCHANGED <<poolVars, conn, ends, told, committed, attempt, cause, refused>>

(* Faulty variant: nothing is sent to the server. *)
Rollback_NotSent(c) ==
    /\ pc[c] = "rolling"
    /\ conn[c] # None
    /\ SessionOver(c)
    /\ UNCHANGED <<poolVars, conn, error, refused, ends, told, committed, attempt, cause>>

(* session.rollback(): ROLLBACK works, or fails and the connection is      *)
(* destroyed, which ends the transaction too.                              *)
Rollback(c) ==
    /\ pc[c] = "rolling"
    /\ conn[c] # None
    /\ EndOnServer(c, FALSE)
    /\ SessionOver(c)
    /\ \/ UNCHANGED <<error, refused>>
       \/ /\ error' = [error EXCEPT ![c] = IF Managed(c) THEN "rollbackFailed" ELSE "rollback"]
          /\ refused' = [refused EXCEPT ![c] = TRUE]
    /\ UNCHANGED <<ends, told, committed, attempt, cause>>

(* rollback() returned; an afterTransactionRollback hook that throws is    *)
(* reported as a failed rollback.                                          *)
AfterRollback(c) ==
    /\ pc[c] = "rolledback"
    /\ AllTold(c)
    /\ \/ /\ GoTo(c, "closing")
          /\ UNCHANGED <<error, cause>>
       \/ /\ Managed(c) /\ "afterTransactionRollback" \in HookFaults
          /\ error[c] # "rollbackFailed"
          /\ Fail(c, "rollbackFailed", "closing")
    /\ UNCHANGED <<poolVars, conn, active, ends, told, committed, attempt, refused>>

(* Faulty variant: every failure is retried. *)
Retries_AnyError(c) == Managed(c) /\ error[c] # None /\ attempt[c] < MaxRetries[c]

(* isDeadlockError(e) with attempts left. *)
Retries(c) == Managed(c) /\ error[c] = "deadlock" /\ attempt[c] < MaxRetries[c]

(* Faulty variant: a session that was not committed or rolled back keeps   *)
(* its connection.                                                         *)
Close_NoRelease(c) ==
    /\ pc[c] = "closing"
    /\ GoTo(c, IF Retries(c) THEN "backoff" ELSE "done")
    /\ UNCHANGED <<free, conn, tx, aborted, commits, active, ends, told, committed, attempt, error, cause, refused>>

(* session.close() in the finally block gives back the connection that     *)
(* neither COMMIT nor ROLLBACK did. Then the call returns, or waits to     *)
(* retry.                                                                  *)
Close(c) ==
    /\ pc[c] = "closing"
    /\ free' = free \cup ({conn[c]} \ {None})
    /\ conn' = [conn EXCEPT ![c] = None]
    /\ GoTo(c, IF Retries(c) THEN "backoff" ELSE "done")
    /\ UNCHANGED <<tx, aborted, commits, active, ends, told, committed, attempt, error, cause, refused>>

(* The next attempt, on a new session. *)
Retry(c) ==
    /\ pc[c] = "backoff"
    /\ GoTo(c, "acquire")
    /\ attempt' = [attempt EXCEPT ![c] = @ + 1]
    /\ error' = [error EXCEPT ![c] = None]
    /\ cause' = [cause EXCEPT ![c] = None]
    /\ active' = [active EXCEPT ![c] = FALSE]
    /\ ends' = [ends EXCEPT ![c] = 0]
    /\ told' = [told EXCEPT ![c] = <<>>]
    /\ committed' = [committed EXCEPT ![c] = FALSE]
    /\ refused' = [refused EXCEPT ![c] = FALSE]
    /\ UNCHANGED <<poolVars, conn>>

-----------------------------------------------------------------------------
(* What follows a call on its own: promises that resolve or reject. *)
Goes(c) ==
    \/ Acquire(c)
    \/ StartHookThrows(c) \/ Begin(c) \/ BeginFails(c)
    \/ BodyThrows(c) \/ Commit(c) \/ CommitFails(c)
    \/ Fire(c) \/ AfterCommit(c)
    \/ RollbackHookThrows(c) \/ RollbackWithoutConnection(c) \/ Rollback(c)
    \/ AfterRollback(c) \/ Close(c) \/ Retry(c)

Next == \E c \in Callers :
    Start(c) \/ AcquireFails(c) \/ Register(c) \/ CatchesError(c) \/ Goes(c)

Spec == Init /\ [][Next]_vars

(* The database answers, or the connection breaks; callbacks end. No call  *)
(* for a connection is helped by its timeout.                              *)
FairSpec == Spec /\ \A c \in Callers : WF_vars(Goes(c))

-----------------------------------------------------------------------------
TypeOK ==
    /\ free \subseteq Conns
    /\ tx \in [Conns -> SUBSET Callers]
    /\ aborted \subseteq Conns
    /\ commits \in [Callers -> Nat]
    /\ pc \in [Callers -> Places]
    /\ conn \in [Callers -> Conns \cup {None}]
    /\ active \in [Callers -> BOOLEAN]
    /\ ends \in [Callers -> Nat] /\ \A c \in Callers : ends[c] <= MaxEnds[c]
    /\ told \in [Callers -> Seq(BOOLEAN)]
    /\ committed \in [Callers -> BOOLEAN]
    /\ attempt \in [Callers -> Nat] /\ \A c \in Callers : attempt[c] <= MaxRetries[c]
    /\ error \in [Callers -> Errors \cup {None}]
    /\ cause \in [Callers -> Errors \cup {None}]
    /\ refused \in [Callers -> BOOLEAN]

(* The session of c was left without ROLLBACK: a beforeTransactionRollback *)
(* hook threw. The connection goes back inside its transaction; that is    *)
(* described in the README, and left out of what follows.                  *)
Abandoned(c) == error[c] = "rollbackFailed" /\ (active[c] \/ cause[c] = "begin")

(* Every connection is in the pool or with one session, never both: none   *)
(* leaks and none is released twice, which would hand it to two callers    *)
(* (MySqlDataSource.commit, rollback and close; openTransaction).          *)
OneOwner ==
    /\ \A c, d \in Callers : conn[c] # None /\ conn[c] = conn[d] => c = d
    /\ \A k \in Conns : k \in free <=> ~\E c \in Callers : conn[c] = k

(* A connection in the pool has no transaction open: the next borrower     *)
(* would commit or lose somebody else's work (the ROLLBACK "On error" of   *)
(* Transactional, the catch block of runInNewSession).                     *)
FreeConnectionsClean == \A k \in free : \A c \in tx[k] : Abandoned(c)

(* The pool is sound after whatever failed: BEGIN, the statement that sets *)
(* the search_path, COMMIT, ROLLBACK or a hook around them.                *)
PoolIsSound == TypeOK /\ OneOwner /\ FreeConnectionsClean

(* The work of a call is made durable once or not at all, and once exactly *)
(* when COMMIT returned. Only a COMMIT whose answer was lost leaves the    *)
(* caller with an error for durable work (runInNewSession, transaction);   *)
(* a callback that catches the error of a statement on PostgreSQL has its  *)
(* COMMIT answered although nothing is durable (see the README).           *)
AllOrNothing ==
    \A c \in Callers :
        /\ commits[c] <= 1
        /\ pc[c] = "done" /\ ~Abandoned(c) =>
              /\ commits[c] = 1 => committed[c] \/ cause[c] = "lost"
              /\ committed[c] \/ cause[c] = "lost" => commits[c] = 1 \/ c \in Catches
              /\ error[c] = None => committed[c]

(* A callback registered on a transaction is told of its end once, and     *)
(* told the truth: TRUE after COMMIT returned, FALSE otherwise             *)
(* (onTransactionEnd).                                                     *)
EndsToldOnce ==
    \A c \in Callers : pc[c] \in {"closing", "backoff", "done"} /\ ~Abandoned(c) =>
        told[c] = [i \in 1..ends[c] |-> committed[c]]

(* Whoever waits for a connection gets one and comes to an end.            *)
CallsFinish == \A c \in Callers : pc[c] = "acquire" ~> pc[c] = "done"
=============================================================================
