------------------------------ MODULE Ambient ------------------------------
(***************************************************************************)
(* Which transaction a piece of work joins: ambientSessionFor() and the    *)
(* frames behind it, the propagation of @Transactional                     *)
(* (src/src/decorators/Transactional.ts) and of em.transaction()           *)
(* (TransactionRunner), and the savepoints of NESTED, on pooled            *)
(* connections.                                                            *)
(*                                                                         *)
(* A call is one of either kind, with its callback; calls nest, run next   *)
(* to each other (Promise.all), and those in a top-level callback may      *)
(* outlive it. A session is named by the call that opened it. That BEGIN,  *)
(* COMMIT, ROLLBACK or a connection can fail is in Transactions; here they *)
(* work.                                                                   *)
(***************************************************************************)
EXTENDS Naturals, Sequences, FiniteSets

CONSTANTS
    Managers,    \* EntityManagers
    ConnOf,      \* the connection each is registered on
    Default,     \* the connection of @Transactional() without a name
    Forms,       \* calls: [by |-> "em" or "decorator", mgr, conn], conn the
                 \* connectionName option; mgr or conn may be None
    MaxCalls,    \* bound: calls, of which one is not in another's callback
    MaxWorks,    \* bound: writes of the callbacks
    None

ASSUME AmbientAssumption ==
    /\ MaxCalls \in Nat /\ MaxWorks \in Nat
    /\ \A form \in Forms : form.by = "em" => form.mgr \in Managers

Propagations == {"REQUIRED", "REQUIRES_NEW", "NESTED"}
Conns == {Default} \cup {ConnOf[m] : m \in Managers}
         \cup ({form.conn : form \in Forms} \ {None})

VARIABLES
    calls,    \* calls made: form, fresh (REQUIRES_NEW), parent, around (itself
              \* and the calls it is in), mode, session, conn, name of the
              \* savepoint, frames of the callback
    at,       \* at[i]: "running", "ok", "failed" or "late"
    log,      \* log[s]: what s has written and not undone, with its savepoints
    over,     \* over[s]: "open", "committed" or "rolledBack"
    works     \* history: every write with its call, manager, session and connection

vars == <<calls, at, log, over, works>>

Ids == 1 .. MaxCalls
Made == 1 .. Len(calls)

Init ==
    /\ calls = <<>> /\ works = <<>>
    /\ at = <<>>
    /\ log = [s \in Ids |-> <<>>]
    /\ over = [s \in Ids |-> "open"]

-----------------------------------------------------------------------------
(* The context of a callback: the ambient sessions it runs in, innermost    *)
(* first, each with the manager its frame redirects. 0 is outside any call. *)
FramesOf(i) == IF i = 0 THEN <<>> ELSE calls[i].frames

(* ambientSessionFor(), or 0. *)
AmbientFor_TopOnly(frames, conn, mgr) ==
    IF frames # <<>> /\ calls[frames[1].session].conn = conn THEN frames[1].session ELSE 0
AmbientFor(frames, conn, mgr) ==
    LET fits == {k \in 1 .. Len(frames) :
                    \/ calls[frames[k].session].conn = conn
                    \/ mgr # None /\ frames[k].mgr = mgr}
    IN IF fits = {} THEN 0
       ELSE frames[CHOOSE k \in fits : \A l \in fits : k <= l].session

(* The connection a call is on, and the session it finds there. *)
Wanted(form) ==
    IF form.conn # None THEN form.conn
    ELSE IF form.by = "em" THEN ConnOf[form.mgr] ELSE Default

Found(form, i) ==
    AmbientFor(FramesOf(i), Wanted(form),
               IF form.by = "em" /\ form.conn = None THEN form.mgr ELSE None)

(* The manager whose work runInSession() takes along. *)
Redirected(form) ==
    IF form.by = "em" /\ form.conn \notin {None, ConnOf[form.mgr]} THEN form.mgr ELSE None

Mode(form, prop, i) ==
    IF Found(form, i) = 0 \/ prop = "REQUIRES_NEW" THEN "new"
    ELSE IF prop = "NESTED" THEN "nested" ELSE "joined"

(* em.transaction() runs its callback in a frame of its own, the decorator  *)
(* only when it opened the session.                                         *)
Pushed(form, mode, s, i) ==
    IF form.by = "em" \/ mode = "new"
    THEN <<[session |-> s, mgr |-> Redirected(form)]>> \o FramesOf(i)
    ELSE FramesOf(i)

(* Savepoints are numbered per process: sp_em_1, sp_em_2, .., sp_1, .. *)
Numbered(form) ==
    {j \in Made : calls[j].mode = "nested" /\ calls[j].form.by = form.by}
Name_OnePrefix(form) == <<"em", Cardinality(Numbered(form)) + 1>>
Name(form) == <<form.by, Cardinality(Numbered(form)) + 1>>

-----------------------------------------------------------------------------
(* Who may call and write: code outside any call, and running callbacks. *)
Running == {0} \cup {i \in Made : at[i] = "running"}

(* i and the calls around it. *)
Around(i) == IF i = 0 THEN {} ELSE calls[i].around

(* While a NESTED call runs, only what it awaits uses its session: with     *)
(* siblings at work, ROLLBACK TO takes their work along (Savepoints).       *)
Alone(i, s) ==
    \A n \in Made :
        at[n] = "running" /\ calls[n].mode = "nested" /\ calls[n].session = s => n \in Around(i)

Enter(form, prop, i, mode, s, name) ==
    /\ Len(calls) < MaxCalls /\ i \in Running /\ (i = 0 => calls = <<>>)
    /\ Mode(form, prop, i) = mode
    /\ calls' = Append(calls, [form |-> form, fresh |-> prop = "REQUIRES_NEW", parent |-> i,
                               around |-> Around(i) \cup {Len(calls) + 1},
                               mode |-> mode, session |-> s, name |-> name,
                               conn |-> IF mode = "new" THEN Wanted(form) ELSE calls[s].conn,
                               frames |-> Pushed(form, mode, s, i)])
    /\ at' = Append(at, "running")
    /\ UNCHANGED <<over, works>>

EnterNew(form, prop, i) ==
    /\ Enter(form, prop, i, "new", Len(calls) + 1, None)
    /\ UNCHANGED log

(* Joining looks at no state of the session. *)
EnterJoined(form, prop, i) ==
    /\ Enter(form, prop, i, "joined", Found(form, i), None)
    /\ UNCHANGED log

Mark(name) == [mark |-> name, work |-> 0]
Write(w) == [mark |-> None, work |-> w]

(* savepoint() throws when the session is over. *)
EnterNested(form, prop, i) ==
    LET s == Found(form, i) IN
    /\ Enter(form, prop, i, "nested", s, Name(form))
    /\ over[s] = "open" /\ Alone(i, s)
    /\ log' = [log EXCEPT ![s] = Append(@, Mark(Name(form)))]

(* ROLLBACK TO name, which keeps the savepoint. *)
Undone(s, name) ==
    LET found == {k \in 1 .. Len(log[s]) : log[s][k] = Mark(name)}
        last == CHOOSE k \in found : \A l \in found : l <= k
    IN SubSeq(log[s], 1, last)

(* The callback has returned, and COMMIT; or thrown, and ROLLBACK or        *)
(* ROLLBACK TO. A callback awaits the calls it makes, but one at the top    *)
(* may leave some running.                                                  *)
Return(i, outcome) ==
    LET call == calls[i]
        s == call.session
        cut == outcome = "failed" /\ call.mode = "nested"
    IN
    /\ at[i] = "running"
    /\ \A j \in Made : calls[j].parent = i => at[j] # "running" \/ call.parent = 0
    /\ at' = [at EXCEPT ![i] = IF cut /\ over[s] # "open" THEN "late" ELSE outcome]
    /\ over' = IF call.mode # "new" THEN over
               ELSE [over EXCEPT ![s] = IF outcome = "ok" THEN "committed" ELSE "rolledBack"]
    /\ log' = IF cut /\ over[s] = "open" THEN [log EXCEPT ![s] = Undone(s, call.name)] ELSE log
    /\ UNCHANGED <<calls, works>>

(* A write of manager m in the callback of i joins the session it finds, or *)
(* commits in a transaction of its own. A session that is over refuses it.  *)
Did(i, m, s) ==
    [call |-> i, mgr |-> m, session |-> s, conn |-> IF s = 0 THEN ConnOf[m] ELSE calls[s].conn,
     missed |-> {j \in Around(i) : calls[j].mode = "new" /\ over[j] = "open" /\ calls[j].conn = ConnOf[m]}]

WorkJoins(i, m) ==
    LET s == AmbientFor(FramesOf(i), ConnOf[m], m) IN
    /\ Len(works) < MaxWorks /\ i \in Running
    /\ s # 0 /\ over[s] = "open" /\ Alone(i, s)
    /\ works' = Append(works, Did(i, m, s))
    /\ log' = [log EXCEPT ![s] = Append(@, Write(Len(works) + 1))]
    /\ UNCHANGED <<calls, at, over>>

WorkAlone(i, m) ==
    /\ Len(works) < MaxWorks /\ i \in Running \ {0}
    /\ AmbientFor(FramesOf(i), ConnOf[m], m) = 0
    /\ works' = Append(works, Did(i, m, 0))
    /\ UNCHANGED <<calls, at, log, over>>

Next ==
    \/ \E form \in Forms, prop \in Propagations, i \in 0 .. Len(calls) :
        EnterNew(form, prop, i) \/ EnterNested(form, prop, i) \/ EnterJoined(form, prop, i)
    \/ \E i \in Made : Return(i, "ok") \/ Return(i, "failed")
    \/ \E i \in 0 .. Len(calls), m \in Managers : WorkJoins(i, m) \/ WorkAlone(i, m)

Spec == Init /\ [][Next]_vars

-----------------------------------------------------------------------------
Sessions == {i \in Made : calls[i].mode = "new"}

TypeOK ==
    /\ Len(calls) <= MaxCalls /\ Len(at) = Len(calls) /\ Len(works) <= MaxWorks
    /\ \A i \in Made :
        /\ calls[i].form \in Forms /\ calls[i].fresh \in BOOLEAN
        /\ calls[i].parent \in 0 .. i - 1 /\ calls[i].mode \in {"new", "nested", "joined"}
        /\ calls[i].session \in Sessions /\ calls[i].conn = calls[calls[i].session].conn
        /\ at[i] \in {"running", "ok", "failed", "late"}
    /\ \A s \in Ids : over[s] \in {"open", "committed", "rolledBack"}
    /\ \A w \in 1 .. Len(works) :
        works[w].session \in Sessions \cup {0} /\ works[w].conn \in Conns

Kept(w) == \E k \in 1 .. Len(log[works[w].session]) : log[works[w].session][k].work = w

(* A NESTED call that fails undoes what it and the calls in it wrote in its *)
(* transaction, and nothing else does: a write is part of its transaction   *)
(* exactly unless a NESTED call around it, on that session, threw. However  *)
(* em.transaction() of several managers and the decorator nest, and         *)
(* whatever calls next to them or after them do ("rollback only the         *)
(* savepoint on failure").                                                  *)
NestedUndoesItsOwn ==
    /\ TypeOK
    /\ \A w \in 1 .. Len(works) : works[w].session # 0 =>
        (Kept(w) <=> ~\E n \in Around(works[w].call) :
            calls[n].mode = "nested" /\ calls[n].session = works[w].session /\ at[n] = "failed")

(* Work ends up where its code asked. On its manager's connection, unless a *)
(* call of that manager around it names another; never on its own while a   *)
(* transaction on that connection is open around it, however many on other  *)
(* connections lie between; and inside a REQUIRES_NEW call of its           *)
(* connection never in a transaction from outside that call, unless a call  *)
(* in between, of a manager that works on another connection, has gone      *)
(* back there (ambientSessionFor: "the innermost session").                 *)
WorkLandsWhereAsked ==
    \A w \in 1 .. Len(works) :
        LET work == works[w] around == Around(work.call)
            Inside(j) == {k \in around : j \in Around(k)}
        IN
        /\ \/ work.conn = ConnOf[work.mgr]
           \/ \E j \in around : calls[j].form.by = "em" /\ calls[j].form.mgr = work.mgr
                                /\ calls[j].form.conn = work.conn
        /\ work.session = 0 => work.missed = {}
        /\ \A j \in around :
            /\ calls[j].fresh /\ calls[j].conn = ConnOf[work.mgr] /\ work.conn = ConnOf[work.mgr]
            /\ \A k \in Inside(j) : j \in Around(calls[k].session)
            => work.session # 0 /\ j \in Around(work.session)
=============================================================================
