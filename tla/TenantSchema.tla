---------------------------- MODULE TenantSchema ----------------------------
(***************************************************************************)
(* A PostgreSQL transaction several tenants work in, strategy              *)
(* "search_path" (src/src/dialects/postgres/PostgresDataSource.ts): before *)
(* a statement of a tenant whose schema search_path does not name, SET     *)
(* LOCAL points it there, and the statements issued meanwhile queue.       *)
(*                                                                         *)
(* The wire is the queue of the pg client: the server runs commands in the *)
(* order they were sent. An answer is handled where its command runs,      *)
(* since the client can only add to the end of the wire in between. The    *)
(* chain of promises behind enqueue() is the sequence queue; its head is   *)
(* under way, and starts in the step that ends the work before it.         *)
(***************************************************************************)
EXTENDS Naturals, Sequences, FiniteSets

CONSTANTS
    Schemas,    \* the tenants' schemas
    Public,     \* the schema a pooled connection starts on
    Names,      \* savepoint names
    Late,       \* the caller issues statements after it asked for the end
    Reuse,      \* the caller uses a savepoint name again
    Unknown,    \* searchPath = null
    MaxWork,    \* bound: statements, savepoints and rollbacks to them
    MaxErrors   \* bound: statements the server refuses

ASSUME TenantSchemaAssumption ==
    /\ Public \in Schemas /\ Unknown \notin Schemas
    /\ Late \in BOOLEAN /\ Reuse \in BOOLEAN
    /\ MaxWork \in Nat /\ MaxErrors \in Nat

VARIABLES
    \* PostgresDataSource
    searchPath, savepointPaths, queue,
    ending,     \* commit() or rollback(): "no", "asked", "sent", "done"
    \* the client and the server
    wire,       \* commands sent and not answered yet
    tx,         \* the transaction: "open", "aborted", "over"
    path,       \* the schema search_path names
    saves,      \* savepoints, each with the path it was taken under
    \* the caller
    used,       \* names given to savepoint()
    issued, errors

client == <<searchPath, savepointPaths, queue, ending>>
server == <<tx, path, saves>>
vars == <<client, wire, server, used, issued, errors>>

Paths == Schemas \cup {Unknown}

(* startTransaction() has named the schema of the tenant active at BEGIN. *)
Init ==
    /\ path \in Schemas /\ searchPath = path
    /\ savepointPaths = <<>> /\ queue = <<>> /\ ending = "no"
    /\ wire = <<>> /\ tx = "open" /\ saves = <<>>
    /\ used = {} /\ issued = 0 /\ errors = 0

-----------------------------------------------------------------------------
(* The client *)

Statement(schema) == [kind |-> "statement", schema |-> schema]
Savepoint(name) == [kind |-> "savepoint", name |-> name]
RollbackTo(name) == [kind |-> "rollbackTo", name |-> name]
Switch(schema) == [kind |-> "switch", schema |-> schema]
End == [kind |-> "end"]

(* The last savepoint of that name in a sequence, or 0. *)
Find(marks, name) ==
    LET at == {k \in 1 .. Len(marks) : marks[k].name = name}
    IN IF at = {} THEN 0 ELSE CHOOSE k \in at : \A l \in at : l <= k

(* What sending a command does to searchPath and savepointPaths. ROLLBACK   *)
(* TO brings the path of the savepoint back before it is answered: what     *)
(* comes next is sent after it.                                             *)
PathAfter_BackKeepsPath(c, P, marks) ==
    IF c.kind = "switch" THEN Unknown ELSE P
PathAfter(c, P, marks) ==
    CASE c.kind = "switch" -> Unknown
      [] c.kind = "rollbackTo" ->
            LET k == Find(marks, c.name) IN IF k = 0 THEN Unknown ELSE marks[k].path
      [] OTHER -> P

MarksAfter(c, P, marks) ==
    CASE c.kind = "savepoint" -> Append(marks, [name |-> c.name, path |-> P])
      [] c.kind = "rollbackTo" /\ Find(marks, c.name) # 0 ->
            SubSeq(marks, 1, Find(marks, c.name))
      [] OTHER -> marks

(* Whether a statement needs search_path switched before it. *)
Elsewhere(work, P) == work.kind = "statement" /\ work.schema # P

FirstOf(work, P) == IF Elsewhere(work, P) THEN Switch(work.schema) ELSE work

(* A command is sent, for the head of the queue or directly. *)
Send(c, mine, w) ==
    /\ wire' = Append(w, [cmd |-> c, queued |-> mine])
    /\ searchPath' = PathAfter(c, searchPath, savepointPaths)
    /\ savepointPaths' = MarksAfter(c, searchPath, savepointPaths)

(* The head of the queue is done, with P as the path: the next work starts. *)
(* commit() and rollback() wait for the queue they found; whoever was       *)
(* queued after that starts behind them.                                    *)
Advance(P, w) ==
    LET rest == Tail(queue)
        ends == rest # <<>> /\ Head(rest) = End
        next == IF ends THEN Tail(rest) ELSE rest
        sent == IF ends THEN Append(w, [cmd |-> End, queued |-> FALSE]) ELSE w
    IN
    /\ queue' = next
    /\ ending' = IF ends THEN "sent" ELSE ending
    /\ IF next = <<>>
       THEN wire' = sent /\ searchPath' = P /\ UNCHANGED savepointPaths
       ELSE LET c == FirstOf(Head(next), P) IN
            /\ wire' = Append(sent, [cmd |-> c, queued |-> TRUE])
            /\ searchPath' = PathAfter(c, P, savepointPaths)
            /\ savepointPaths' = MarksAfter(c, P, savepointPaths)

(* inTenantSchema() and inOrder(): at once when nothing is queued and the   *)
(* path is right, through enqueue() otherwise.                              *)
Issue(work) ==
    /\ issued < MaxWork /\ ending # "done"
    /\ Late \/ ending = "no"
    /\ issued' = issued + 1
    /\ IF queue # <<>>
       THEN queue' = Append(queue, work) /\ UNCHANGED <<wire, searchPath, savepointPaths>>
       ELSE /\ queue' = IF Elsewhere(work, searchPath) THEN <<work>> ELSE <<>>
            /\ Send(FirstOf(work, searchPath), Elsewhere(work, searchPath), wire)
    /\ UNCHANGED <<ending, server, errors>>

IssueStatement(schema) == Issue(Statement(schema)) /\ UNCHANGED used

IssueSavepoint(name) ==
    /\ Reuse \/ name \notin used
    /\ Issue(Savepoint(name))
    /\ used' = used \cup {name}

IssueRollbackTo(name) ==
    /\ name \in used
    /\ Issue(RollbackTo(name))
    /\ UNCHANGED used

(* commit() or rollback() *)
AskEnd_AtOnce ==
    /\ ending = "no"
    /\ ending' = "sent" /\ wire' = Append(wire, [cmd |-> End, queued |-> FALSE])
    /\ UNCHANGED <<searchPath, savepointPaths, queue, server, used, issued, errors>>
AskEnd ==
    /\ ending = "no"
    /\ IF queue = <<>>
       THEN /\ ending' = "sent" /\ wire' = Append(wire, [cmd |-> End, queued |-> FALSE])
            /\ UNCHANGED queue
       ELSE ending' = "asked" /\ queue' = Append(queue, End) /\ UNCHANGED wire
    /\ UNCHANGED <<searchPath, savepointPaths, server, used, issued, errors>>

-----------------------------------------------------------------------------
(* The server runs the first command on the wire and the client handles the *)
(* answer. External: PostgreSQL, by what src/ relies on.                    *)

Cmd == Head(wire).cmd
Queued == Head(wire).queued

(* A command fails because the transaction is aborted or over, or there is  *)
(* no such savepoint; a statement, in an open transaction, for any reason.  *)
MustFail ==
    CASE Cmd.kind \in {"statement", "switch"} -> tx = "aborted"
      [] Cmd.kind = "savepoint" -> tx # "open"
      [] Cmd.kind = "rollbackTo" -> tx = "over" \/ Find(saves, Cmd.name) = 0
      [] OTHER -> FALSE

(* What the command does when it succeeds. *)
Runs ==
    CASE Cmd.kind = "switch" ->
            /\ path' = IF tx = "open" THEN Cmd.schema ELSE path
            /\ UNCHANGED <<tx, saves>>
      [] Cmd.kind = "savepoint" ->
            /\ saves' = Append(saves, [name |-> Cmd.name, path |-> path])
            /\ UNCHANGED <<tx, path>>
      [] Cmd.kind = "rollbackTo" ->
            LET k == Find(saves, Cmd.name) IN
            /\ tx' = "open" /\ path' = saves[k].path /\ saves' = SubSeq(saves, 1, k)
      [] Cmd.kind = "end" ->
            tx' = "over" /\ path' = Public /\ saves' = <<>>
      [] OTHER -> UNCHANGED server

Rest == Tail(wire)

(* The head of the queue goes on to its statement, or is over. *)
AnswerHead(ok) ==
    IF Cmd.kind = "switch" /\ ok
    THEN /\ searchPath' = Cmd.schema
         /\ wire' = Append(Rest, [cmd |-> Head(queue), queued |-> TRUE])
         /\ UNCHANGED <<savepointPaths, queue, ending>>
    ELSE Advance(IF Cmd.kind = "rollbackTo" /\ ~ok THEN Unknown ELSE searchPath, Rest)

AnswerDirect(ok) ==
    /\ wire' = Rest
    /\ searchPath' = IF Cmd.kind = "rollbackTo" /\ ~ok THEN Unknown ELSE searchPath
    /\ UNCHANGED <<savepointPaths, queue, ending>>

(* After the answer to COMMIT or ROLLBACK the client is released. A work of *)
(* the queue that has not started finds no connection; one whose switch is  *)
(* under way still holds the client.                                        *)
AnswerEnd ==
    /\ ending' = "done"
    /\ queue' = IF queue = <<>> THEN <<>> ELSE <<Head(queue)>>
    /\ wire' = Rest /\ searchPath' = Unknown /\ savepointPaths' = <<>>

(* settled resolves whether the work does or not. *)
Answer_Settles(ok) == IF Queued THEN ok /\ AnswerHead(ok) ELSE AnswerDirect(ok)
Answer(ok) == IF Queued THEN AnswerHead(ok) ELSE AnswerDirect(ok)

Succeeds ==
    /\ wire # <<>> /\ ~MustFail
    /\ Runs
    /\ IF Cmd = End THEN AnswerEnd ELSE Answer(TRUE)
    /\ UNCHANGED <<used, issued, errors>>

Fails ==
    /\ wire # <<>>
    /\ MustFail \/ (Cmd.kind = "statement" /\ errors < MaxErrors)
    /\ errors' = IF MustFail THEN errors ELSE errors + 1
    /\ tx' = IF tx = "open" THEN "aborted" ELSE tx
    /\ UNCHANGED <<path, saves>>
    /\ Answer(FALSE)
    /\ UNCHANGED <<used, issued>>

Next ==
    \/ \E schema \in Schemas : IssueStatement(schema)
    \/ \E name \in Names : IssueSavepoint(name) \/ IssueRollbackTo(name)
    \/ AskEnd \/ Succeeds \/ Fails

(* The server answers; the caller ends its transaction. *)
Fairness == WF_vars(Succeeds \/ Fails) /\ WF_vars(AskEnd)

Spec == Init /\ [][Next]_vars
FairSpec == Spec /\ Fairness

-----------------------------------------------------------------------------
TypeOK ==
    LET Work == {Statement(s) : s \in Schemas} \cup {Savepoint(n) : n \in Names}
                \cup {RollbackTo(n) : n \in Names} \cup {End}
        Command == Work \cup {Switch(s) : s \in Schemas}
        Marks(S) == [name : Names, path : S]
    IN
    /\ searchPath \in Paths /\ path \in Schemas
    /\ savepointPaths \in Seq(Marks(Paths)) /\ saves \in Seq(Marks(Schemas))
    /\ queue \in Seq(Work) /\ wire \in Seq([cmd : Command, queued : BOOLEAN])
    /\ ending \in {"no", "asked", "sent", "done"} /\ tx \in {"open", "aborted", "over"}
    /\ used \subseteq Names /\ issued \in 0 .. MaxWork /\ errors \in 0 .. MaxErrors

(* A statement that is about to run, runs under the schema of its own       *)
(* tenant, whatever other tenants' statements, switches, errors, savepoints *)
(* and rollbacks to them were sent before it and are not answered yet.      *)
RunsInOwnSchema ==
    /\ TypeOK
    /\ (wire # <<>> /\ Cmd.kind = "statement" /\ tx = "open") => path = Cmd.schema

(* All the work of a transaction commits or rolls back together: a          *)
(* statement its session accepted does not run after COMMIT or ROLLBACK, on *)
(* its own and under the schema the connection falls back to.               *)
StaysInside == (wire # <<>> /\ Cmd.kind = "statement") => tx # "over"

(* Whoever issued a statement is answered, and the transaction ends: an     *)
(* error in the queue does not strand what waits behind it.                 *)
WorkDrains == <>[](queue = <<>> /\ wire = <<>> /\ ending = "done")
=============================================================================
