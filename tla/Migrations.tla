----------------------------- MODULE Migrations -----------------------------
(***************************************************************************)
(* Migration runners (src/src/migration/MigrationRunner.ts) of several     *)
(* processes on one MySQL or PostgreSQL database. A runner takes an        *)
(* advisory lock on a connection of its own, or on the only one its pool   *)
(* has, reads the tracking table, and applies or reverts migrations one by *)
(* one, each with its record.                                              *)
(*                                                                         *)
(* A migration is a name; the schema is the set of those applied. The      *)
(* statements of one migration are one step of the server.                 *)
(***************************************************************************)
EXTENDS Naturals, Sequences, SequencesExt, Lists

CONSTANTS
    Migration,      \* names of migrations
    Runners,        \* runner objects, each in a process of its own
    ListOf,         \* ListOf[r]: the migrations r is built with, in order
    Calls,          \* calls of a runner's operations
    RunnerOf,       \* RunnerOf[c]: the runner c calls
    Kind,           \* Kind[c]: "run", "revertLast" or "rollback"
    Given,          \* Given[c]: the list handed to run(), or Absent
    Count,          \* Count[c]: how many migrations rollback() is to revert
    OneConnection,  \* runners whose pool has a single connection
    Overlap,        \* calls overlap in the ways the lock does not cover: any
                    \* with revertLast(), and on one runner with run(list) or
                    \* with a single connection
    MaxFaults,      \* bound: failures of migrations, hooks and queries
    MaxCrashes,     \* bound: crashes of a process
    Absent          \* no list

ASSUME MigrationsAssumption ==
    /\ ListOf \in [Runners -> Seq(Migration)]
    /\ RunnerOf \in [Calls -> Runners]
    /\ Kind \in [Calls -> {"run", "revertLast", "rollback"}]
    /\ Given \in [Calls -> Seq(Migration) \cup {Absent}]
    /\ \A c \in Calls : Given[c] # Absent => Kind[c] = "run"
    /\ Count \in [Calls -> Nat]
    /\ OneConnection \subseteq Runners
    /\ Overlap \in BOOLEAN
    /\ MaxFaults \in Nat /\ MaxCrashes \in Nat
    /\ Absent \notin Seq(Migration)

VARIABLES
    applied,        \* migrations whose schema change is in place
    records,        \* names in the tracking table, in order of id
    lock,           \* the calls that hold the advisory lock
    migrations,     \* migrations[r]: the runner's list
    saved,          \* saved[c]: the list run(list) puts back
    stage,          \* how far each call has come
    executed,       \* executed[c]: the names c read from the tracking table
    todo,           \* todo[c]: what c has still to apply or revert
    lost,           \* migrations whose record may no longer be right
    orphans,        \* statements the server runs for a process that died
    faults, crashes

server == <<applied, records, lost, orphans>>
calls == <<migrations, saved>>
counts == <<faults, crashes>>
migrationVars == <<server, lock, calls, stage, executed, todo, counts>>

MigrationsInit ==
    /\ applied = {}
    /\ records = <<>>
    /\ lock = {}
    /\ migrations = ListOf
    /\ saved = [c \in Calls |-> Absent]
    /\ stage = [c \in Calls |-> "idle"]
    /\ executed = [c \in Calls |-> <<>>]
    /\ todo = [c \in Calls |-> <<>>]
    /\ lost = {}
    /\ orphans = {}
    /\ faults = 0
    /\ crashes = 0

-----------------------------------------------------------------------------
Up(c) == Kind[c] = "run"
Working(c) == stage[c] \in {"running", "tracking"}
Underway(c) == stage[c] \notin {"idle", "done", "crashed"}

GoTo(c, place) == stage' = [stage EXCEPT ![c] = place]

Fault == faults < MaxFaults /\ faults' = faults + 1
NoFault == UNCHANGED faults

(* runAll: the migrations not executed yet, in the order of the list. *)
Pending(c) == Without(migrations[RunnerOf[c]], ToSet(records))

(* Faulty variant: oldest first. *)
Latest_OldestFirst(names, n) ==
    IF n = 0 \/ n >= Len(names) THEN names ELSE SubSeq(names, 1, n)

(* rollback: executed.slice(-n).reverse(), and slice(-0) is all of them. *)
Latest(names, n) ==
    IF n = 0 \/ n >= Len(names) THEN Reverse(names)
    ELSE Reverse(SubSeq(names, Len(names) - n + 1, Len(names)))

(* Faulty variant: nothing is done in the end. *)
Ended_LockKept(c) == "done"

(* Where a call goes when it has no more to do: its finally block, if that *)
(* has not run yet.                                                        *)
Ended(c) == IF c \in lock THEN "releasing" ELSE "done"

(* The finally block of run(list). *)
PutBack(c) ==
    IF saved[c] = Absent THEN UNCHANGED calls
    ELSE /\ migrations' = [migrations EXCEPT ![RunnerOf[c]] = saved[c]]
         /\ saved' = [saved EXCEPT ![c] = Absent]

-----------------------------------------------------------------------------
(* The overlap a careful caller rules out. *)
Apart(c, d) ==
    /\ "revertLast" \notin {Kind[c], Kind[d]}
    /\ RunnerOf[c] = RunnerOf[d] =>
          Given[c] = Absent /\ Given[d] = Absent /\ RunnerOf[c] \notin OneConnection

(* runAll(), run(), revertLast() or rollback() is called. *)
Call(c) ==
    /\ stage[c] = "idle"
    /\ Overlap \/ \A d \in Calls \ {c} : Underway(d) => Apart(c, d)
    /\ GoTo(c, "waiting")
    /\ IF Given[c] = Absent THEN UNCHANGED calls
       ELSE /\ saved' = [saved EXCEPT ![c] = migrations[RunnerOf[c]]]
            /\ migrations' = [migrations EXCEPT ![RunnerOf[c]] = Given[c]]
    /\ UNCHANGED <<server, lock, executed, todo, counts>>

(* Faulty variant: a lock somebody has is taken too. *)
Grants_Anyone(c) == TRUE

(* The server grants the lock to one session at a time, and to that one    *)
(* again. Every call has a connection of its own for it, but calls of a    *)
(* runner with a single connection share that.                             *)
Grants(c) ==
    \A d \in lock : RunnerOf[d] = RunnerOf[c] /\ RunnerOf[c] \in OneConnection

(* acquireAdvisoryLock. *)
Acquire(c) ==
    /\ stage[c] = "waiting"
    /\ Grants(c)
    /\ lock' = lock \cup {c}
    /\ GoTo(c, "locked")
    /\ UNCHANGED <<server, calls, executed, todo, counts>>

(* The lock is not free in time (AdvisoryLockError), or the query fails. *)
GiveUp(c) ==
    /\ stage[c] = "waiting"
    /\ (~Grants(c) /\ NoFault) \/ Fault
    /\ GoTo(c, "done")
    /\ PutBack(c)
    /\ UNCHANGED <<server, lock, executed, todo, crashes>>

(* What to do: revertLast() looks at the last record only. *)
Chosen(c) ==
    IF Up(c) THEN Pending(c)
    ELSE Latest(records, IF Kind[c] = "revertLast" THEN 1 ELSE Count[c])

(* ensureMigrationTable, getExecutedMigrations, the hook beforeAll, and    *)
(* the choice of what to do.                                               *)
ReadExecuted(c) ==
    /\ stage[c] = "locked"
    /\ \/ /\ NoFault
          /\ executed' = [executed EXCEPT ![c] = records]
          /\ todo' = [todo EXCEPT ![c] = Chosen(c)]
          /\ GoTo(c, "next")
       \/ /\ Fault
          /\ GoTo(c, "releasing")
          /\ UNCHANGED <<executed, todo>>
    /\ UNCHANGED <<server, lock, calls, crashes>>

(* runUp or runDown of the next migration: the hook beforeEach and the     *)
(* first statement are under way when it returns its promise.              *)
Start(c) ==
    /\ stage[c] = "next"
    /\ todo[c] # <<>>
    /\ Up(c) \/ Head(todo[c]) \in ToSet(migrations[RunnerOf[c]])
    /\ GoTo(c, "running")
    /\ UNCHANGED <<server, lock, calls, executed, todo, counts>>

(* Nothing is left, a name is unknown (revertLast() and rollback() stop), *)
(* or the hook beforeEach throws.                                         *)
Stop(c) ==
    /\ stage[c] = "next"
    /\ \/ NoFault /\ todo[c] = <<>>
       \/ NoFault /\ ~Up(c) /\ todo[c] # <<>>
                  /\ Head(todo[c]) \notin ToSet(migrations[RunnerOf[c]])
       \/ Fault
    /\ GoTo(c, Ended(c))
    /\ todo' = [todo EXCEPT ![c] = <<>>]
    /\ UNCHANGED <<server, lock, calls, executed, crashes>>

(* migration.up() or migration.down() has run, or has failed. *)
Migrate(c) ==
    LET m == Head(todo[c]) IN
    /\ stage[c] = "running"
    /\ \/ /\ NoFault
          /\ applied' = IF Up(c) THEN applied \cup {m} ELSE applied \ {m}
          /\ GoTo(c, "tracking")
          /\ UNCHANGED todo
       \/ /\ Fault
          /\ GoTo(c, Ended(c))
          /\ todo' = [todo EXCEPT ![c] = <<>>]
          /\ UNCHANGED applied
    /\ UNCHANGED <<records, lost, orphans, lock, calls, executed, crashes>>

AddTo(names, m) == IF m \in ToSet(names) THEN names ELSE Append(names, m)

(* Faulty variant: a reverted migration keeps its record. *)
Record_StaysOnDown(c) ==
    \/ Up(c) /\ records' = AddTo(records, Head(todo[c]))
    \/ ~Up(c) /\ UNCHANGED records

(* recordMigration, which needs a name not yet there (it is UNIQUE), and   *)
(* removeMigrationRecord.                                                  *)
Record(c) ==
    \/ /\ Up(c) /\ Head(todo[c]) \notin ToSet(records)
       /\ records' = Append(records, Head(todo[c]))
    \/ ~Up(c) /\ records' = Without(records, {Head(todo[c])})

(* The record is written, after which the hook afterEach may throw, or it  *)
(* cannot be: the desync the runner logs as critical.                      *)
Track(c) ==
    LET m == Head(todo[c]) IN
    /\ stage[c] = "tracking"
    /\ \/ /\ NoFault
          /\ Record(c)
          /\ todo' = [todo EXCEPT ![c] = Tail(@)]
          /\ IF Kind[c] = "revertLast" THEN GoTo(c, Ended(c)) ELSE GoTo(c, "next")
          /\ UNCHANGED lost
       \/ /\ Fault
          /\ Record(c)
          /\ todo' = [todo EXCEPT ![c] = <<>>]
          /\ GoTo(c, Ended(c))
          /\ UNCHANGED lost
       \/ /\ IF Up(c) /\ m \in ToSet(records) THEN NoFault ELSE Fault
          /\ lost' = lost \cup {m}
          /\ todo' = [todo EXCEPT ![c] = <<>>]
          /\ GoTo(c, Ended(c))
          /\ UNCHANGED records
    /\ UNCHANGED <<applied, orphans, lock, calls, executed, crashes>>

(* releaseAdvisoryLock, once for each time it was acquired; a connection   *)
(* of its own is discarded when that fails. The finally block of           *)
(* revertLast() does not wait for runDown().                               *)
Release(c) ==
    /\ c \in lock
    /\ \/ /\ stage[c] = "releasing"
          /\ GoTo(c, "done")
          /\ PutBack(c)
       \/ /\ Kind[c] = "revertLast" /\ Working(c)
          /\ UNCHANGED <<stage, calls>>
    /\ lock' = lock \ {c}
    /\ UNCHANGED <<server, executed, todo, counts>>

(* The process of runner r dies and starts again. Its sessions end, and    *)
(* with them the lock; a statement it had sent may still run.              *)
Crash(r) ==
    LET dead == {c \in Calls : RunnerOf[c] = r /\ Underway(c)}
        cut == {[up |-> Up(c), place |-> stage[c], name |-> Head(todo[c])] :
                  c \in {d \in dead : Working(d)}}
    IN
    /\ crashes < MaxCrashes /\ crashes' = crashes + 1
    /\ dead # {}
    /\ stage' = [c \in Calls |-> IF c \in dead THEN "crashed" ELSE stage[c]]
    /\ lock' = lock \ dead
    /\ migrations' = [migrations EXCEPT ![r] = ListOf[r]]
    /\ saved' = [c \in Calls |-> IF c \in dead THEN Absent ELSE saved[c]]
    /\ lost' = lost \cup {o.name : o \in cut}
    /\ orphans' = orphans \cup cut
    /\ UNCHANGED <<applied, records, executed, todo, faults>>

(* What the server was running for a process that died comes to its end. *)
Orphan(o) ==
    /\ o \in orphans
    /\ orphans' = orphans \ {o}
    /\ \/ /\ o.place = "running"
          /\ applied' = IF o.up THEN applied \cup {o.name} ELSE applied \ {o.name}
          /\ UNCHANGED records
       \/ /\ o.place = "tracking"
          /\ records' = IF o.up THEN AddTo(records, o.name) ELSE Without(records, {o.name})
          /\ UNCHANGED applied
       \/ UNCHANGED <<applied, records>>
    /\ UNCHANGED <<lost, lock, calls, stage, executed, todo, counts>>

Step(c) ==
    \/ Acquire(c) \/ ReadExecuted(c) \/ Start(c) \/ Stop(c)
    \/ Migrate(c) \/ Track(c) \/ Release(c)

MigrationsNext ==
    \/ \E c \in Calls : Step(c) \/ Call(c) \/ GiveUp(c)
    \/ \E r \in Runners : Crash(r)
    \/ \E o \in orphans : Orphan(o)

(* The event loop runs what is ready and the server answers. *)
MigrationsFairness == \A c \in Calls : WF_migrationVars(Step(c))

MigrationsSpec == MigrationsInit /\ [][MigrationsNext]_migrationVars /\ MigrationsFairness

-----------------------------------------------------------------------------
MigrationsTypeOK ==
    /\ applied \subseteq Migration /\ lost \subseteq Migration
    /\ records \in Seq(Migration) /\ IsInjective(records)
    /\ lock \subseteq Calls
    /\ migrations \in [Runners -> Seq(Migration)]
    /\ saved \in [Calls -> Seq(Migration) \cup {Absent}]
    /\ stage \in [Calls -> {"idle", "waiting", "locked", "next", "running", "tracking",
                         "releasing", "done", "crashed"}]
    /\ executed \in [Calls -> Seq(Migration)]
    /\ todo \in [Calls -> Seq(Migration)]
    /\ orphans \subseteq [up : BOOLEAN, place : {"running", "tracking"}, name : Migration]
    /\ faults \in 0..MaxFaults /\ crashes \in 0..MaxCrashes

(* Two calls never apply or revert at the same time: "Uses an advisory     *)
(* lock to prevent concurrent execution" (runAll, revertLast, rollback).   *)
OneAtATime == \A c, d \in Calls : Working(c) /\ Working(d) => c = d

(* What a call read from the tracking table stays true while it works,     *)
(* save for its own records: runAll has only added to it, and a rollback   *)
(* only taken from its end; lost migrations apart.                         *)
ReadStaysTrue ==
    \A c \in Calls : stage[c] \in {"next", "running", "tracking"} =>
        LET before == Without(executed[c], lost)
            now == Without(records, lost)
        IN IF Up(c) THEN IsPrefix(before, now) ELSE IsPrefix(now, before)

(* No migration is applied twice or reverted when it is not applied, but   *)
(* for those whose tracking failed (runUp, runDown).                       *)
WorkIsDue ==
    \A c \in Calls : stage[c] = "running" /\ Head(todo[c]) \notin lost =>
        (Up(c) <=> Head(todo[c]) \notin applied)

(* The tracking table tells what the schema is, but for the migration a    *)
(* call is at and those whose tracking failed or was cut off by a crash.   *)
RecordsMatchSchema == MigrationsTypeOK /\
    \A m \in Migration \ lost :
        \/ m \in ToSet(records) <=> m \in applied
        \/ \E c \in Calls : stage[c] = "tracking" /\ Head(todo[c]) = m

(* A call of run() applies migrations of the list it was given, any other  *)
(* call works with the runner's own: "migrations to run. If omitted, uses  *)
(* the list passed to the constructor" (run).                              *)
OwnList ==
    \A c \in Calls : Working(c) =>
        Head(todo[c]) \in ToSet(IF Given[c] = Absent THEN ListOf[RunnerOf[c]] ELSE Given[c])

(* What one runner decided on stays right until it is done with it, and is *)
(* from the list it was to work on.                                        *)
DecisionsHold == ReadStaysTrue /\ WorkIsDue /\ OwnList

(* Every call ends, so none keeps the lock for ever. *)
CallsFinish == \A c \in Calls : stage[c] = "waiting" ~> stage[c] \in {"done", "crashed"}
=============================================================================
