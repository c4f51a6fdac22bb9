-------------------------- MODULE SerialConnection --------------------------
(***************************************************************************)
(* What the SQLite connector promises to the sessions that share its one   *)
(* handle. Transactions and single statements stand in one line and are    *)
(* served one at a time, in the order they asked; a statement of the       *)
(* transaction that is being served need not stand in the line.            *)
(*                                                                         *)
(* There is one event per thing a caller sees. Turns, grants, holders and  *)
(* timers are how SqliteGate implements it.                                *)
(***************************************************************************)
EXTENDS Naturals, Sequences, SequencesExt

CONSTANTS
    Flows,      \* transactions
    Stmts,      \* single statements
    Family,     \* Family[s]: the transactions statement s is part of
    None        \* no transaction

VARIABLES
    line,       \* who has asked and is not done, in that order; the head is served
    open,       \* the transaction open on the handle, or None
    ran         \* the statements that have run

vars == <<line, open, ran>>

Init ==
    /\ line = <<>>
    /\ open = None
    /\ ran = {}

InLine(t) == \E i \in 1 .. Len(line) : line[i] = t
Served(t) == line # <<>> /\ Head(line) = t

(* A task asks for the connection. *)
Arrive(t) ==
    /\ ~InLine(t)
    /\ line' = Append(line, t)
    /\ UNCHANGED <<open, ran>>

(* It has waited too long and gives up. *)
Leave(t) ==
    /\ \E i \in 2 .. Len(line) : line[i] = t /\ line' = RemoveAt(line, i)
    /\ UNCHANGED <<open, ran>>

(* BEGIN of the transaction that is served. *)
Open(f) ==
    /\ Served(f)
    /\ open = None
    /\ open' = f
    /\ UNCHANGED <<line, ran>>

(* COMMIT or ROLLBACK of the open transaction. *)
Close(f) ==
    /\ open = f
    /\ open' = None
    /\ UNCHANGED <<line, ran>>

(* A transaction that is over, or never began, makes way for the next. *)
Depart(f) ==
    /\ Served(f)
    /\ open = None
    /\ line' = Tail(line)
    /\ UNCHANGED <<open, ran>>

(* A statement that stood in the line runs when it is served, outside any  *)
(* transaction; one that did not runs inside the transaction it is part    *)
(* of, while that one is served, or when nobody has asked before it.       *)
Execute(s) ==
    /\ s \notin ran
    /\ ran' = ran \cup {s}
    /\ UNCHANGED open
    /\ \/ /\ Served(s)
          /\ open = None
          /\ line' = Tail(line)
       \/ /\ ~InLine(s)
          /\ line = <<>> \/ \E f \in Family[s] : Served(f)
          /\ open \in Family[s] \cup {None}
          /\ UNCHANGED line

Next ==
    \/ \E t \in Flows \cup Stmts : Arrive(t) \/ Leave(t)
    \/ \E f \in Flows : Open(f) \/ Close(f) \/ Depart(f)
    \/ \E s \in Stmts : Execute(s)

Spec == Init /\ [][Next]_vars
=============================================================================
