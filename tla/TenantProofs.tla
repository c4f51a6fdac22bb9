---------------------------- MODULE TenantProofs ----------------------------
(***************************************************************************)
(* Proofs about the two ways tenants share a database server: TenantSchema *)
(* (a queue per connection that switches search_path) and TenantRouter (a  *)
(* connection pool per tenant).                                            *)
(***************************************************************************)
EXTENDS TenantSchema, TenantRouter, FiniteSetTheorems, WellFoundedInduction, TLAPS

(***************************************************************************)
(* Proofs about TenantSchema for any set of schemas and savepoint names    *)
(* and any number of statements and errors.                                *)
(*                                                                         *)
(* What the client believes about search_path is true of the server only   *)
(* when everything it sent has run. The proof runs the wire ahead: a       *)
(* forecast names, for each command sent and not answered, the schema the  *)
(* server will be on when the command runs, if it runs in an open          *)
(* transaction, and for each savepoint name the schema a rollback to it    *)
(* leads back to. The client's belief is what the forecast ends with.      *)
(***************************************************************************)

Works == {Statement(s) : s \in Schemas} \cup {Savepoint(n) : n \in Names}
         \cup {RollbackTo(n) : n \in Names} \cup {End}
Commands == Works \cup {Switch(s) : s \in Schemas}
Marks(S) == [name : Names, path : S]
Sent == [cmd : Commands, queued : BOOLEAN]

(* A command runs where P is forecast, and leaves Q; h is where rollbacks  *)
(* to each savepoint lead.                                                 *)
Foreseen(c, P, Q, h) ==
    /\ c.kind = "statement" => P = c.schema /\ Q = P
    /\ c.kind = "savepoint" => h[c.name] \in {Unknown, P} /\ Q = P
    /\ c.kind = "rollbackTo" => Q \in {Unknown, h[c.name]}
    /\ c.kind = "switch" => Q = Unknown

(* The forecast G, h for the commands w is true of a server in transaction *)
(* t, on path p with savepoints sv, and ends with what the client believes.*)
Forecast(w, S, marks, t, p, sv, G, h) ==
    /\ G \in [1 .. Len(w) + 1 -> Paths] /\ h \in [Names -> Paths]
    /\ S \in {Unknown, G[Len(w) + 1]}
    /\ t = "open" => G[1] \in {Unknown, p}
    /\ \A i \in 1 .. Len(w) : Foreseen(w[i].cmd, G[i], G[i + 1], h)
    /\ \A k \in 1 .. Len(marks) : marks[k].path \in {Unknown, h[marks[k].name]}
    /\ \A k \in 1 .. Len(sv) : h[sv[k].name] \in {Unknown, sv[k].path}

Foretold(w, S, marks, t, p, sv) ==
    \E G \in [1 .. Len(w) + 1 -> Paths], h \in [Names -> Paths] :
        Forecast(w, S, marks, t, p, sv, G, h)

(* Nothing of savepoint n was sent. *)
Unsent(n, w, marks, sv) ==
    /\ \A i \in 1 .. Len(w) : w[i].cmd \notin {Savepoint(n), RollbackTo(n)}
    /\ \A k \in 1 .. Len(marks) : marks[k].name # n
    /\ \A k \in 1 .. Len(sv) : sv[k].name # n

(* The queue: its head is the last command of the wire, or the switch      *)
(* before it is; what waits behind it has not been sent.                   *)
QueueInv ==
    /\ queue = <<>> => \A i \in 1 .. Len(wire) : ~wire[i].queued
    /\ queue # <<>> =>
          /\ wire # <<>> /\ wire[Len(wire)].queued /\ Head(queue) # End
          /\ \/ wire[Len(wire)].cmd = Head(queue)
             \/ Head(queue).kind = "statement" /\ wire[Len(wire)].cmd = Switch(Head(queue).schema)
          /\ \A i \in 1 .. Len(wire) - 1 : ~wire[i].queued
    /\ \A i \in 1 .. Len(wire) : ~wire[i].queued => wire[i].cmd.kind # "switch"
    /\ \A i, j \in 1 .. Len(queue) : queue[i] = End /\ queue[j] = End => i = j
    /\ (\E i \in 1 .. Len(queue) : queue[i] = End) => ending = "asked"

NamesInv ==
    /\ \A n \in Names \ used : Unsent(n, wire, savepointPaths, saves)
    /\ \A n \in Names \ used : \A i \in 1 .. Len(queue) : queue[i] \notin {Savepoint(n), RollbackTo(n)}
    /\ \A n \in Names : \A i \in 2 .. Len(queue) : queue[i] = Savepoint(n) =>
          /\ Unsent(n, wire, savepointPaths, saves)
          /\ \A j \in 1 .. Len(queue) : queue[j] = Savepoint(n) => i = j
          /\ \A j \in 1 .. i - 1 : queue[j] # RollbackTo(n)

ForecastInv == Foretold(wire, searchPath, savepointPaths, tx, path, saves)

(* Where the end of the transaction is, when nothing is issued after it.   *)
EndInv ==
    /\ ending = "no" => /\ \A i \in 1 .. Len(wire) : wire[i].cmd # End
                        /\ \A i \in 1 .. Len(queue) : queue[i] # End
    /\ ending = "asked" => /\ \A i \in 1 .. Len(wire) : wire[i].cmd # End
                           /\ queue # <<>> /\ queue[Len(queue)] = End
    /\ ending = "sent" => /\ queue = <<>> /\ wire # <<>> /\ wire[Len(wire)].cmd = End
                          /\ \A i \in 1 .. Len(wire) - 1 : wire[i].cmd # End
    /\ ending = "done" => queue = <<>> /\ wire = <<>>
    /\ tx = "over" <=> ending = "done"

SchemaInv == TypeOK /\ QueueInv /\ NamesInv /\ ForecastInv

-----------------------------------------------------------------------------
(* The type invariant, with the sets of works, marks and commands named. *)
LEMMA TypeIs ==
    TypeOK <=>
        /\ searchPath \in Paths /\ path \in Schemas
        /\ savepointPaths \in Seq(Marks(Paths)) /\ saves \in Seq(Marks(Schemas))
        /\ queue \in Seq(Works) /\ wire \in Seq(Sent)
        /\ ending \in {"no", "asked", "sent", "done"} /\ tx \in {"open", "aborted", "over"}
        /\ used \subseteq Names /\ issued \in 0 .. MaxWork /\ errors \in 0 .. MaxErrors
BY DEF TypeOK, Marks, Works, Commands, Sent

(* What a command is, is seen from its kind. *)
LEMMA Kinds ==
    ASSUME NEW c \in Commands
    PROVE  /\ c.kind \in {"statement", "savepoint", "rollbackTo", "switch", "end"}
           /\ c.kind = "statement" => c.schema \in Schemas /\ c = Statement(c.schema)
           /\ c.kind = "savepoint" => c.name \in Names /\ c = Savepoint(c.name)
           /\ c.kind = "rollbackTo" => c.name \in Names /\ c = RollbackTo(c.name)
           /\ c.kind = "switch" => c.schema \in Schemas /\ c = Switch(c.schema)
           /\ c.kind = "end" <=> c = End
           /\ c \in Works <=> c.kind # "switch"
BY DEF Commands, Works, Statement, Savepoint, RollbackTo, Switch, End

(* A savepoint that is found has the name that was asked for. *)
LEMMA FindFacts ==
    ASSUME NEW S, NEW marks \in Seq(Marks(S)), NEW name
    PROVE  /\ Find(marks, name) \in 0 .. Len(marks)
           /\ Find(marks, name) # 0 => marks[Find(marks, name)].name = name
<1> DEFINE at == {k \in 1 .. Len(marks) : marks[k].name = name}
<1>1. CASE at = {}
  BY <1>1 DEF Find
<1>2. CASE at # {}
  <2> DEFINE back == {Len(marks) - k : k \in at}
  <2>1. Len(marks) \in Nat /\ at \subseteq 1 .. Len(marks)
    OBVIOUS
  <2>2. back \subseteq Nat /\ back # {}
    BY <1>2, <2>1
  <2>3. PICK m \in back : \A n \in back : ~(n < m)
    <3>1. PICK m \in back : \A n \in back : ~(<<n, m>> \in OpToRel(<, Nat))
      <4> HIDE DEF back
      <4> QED
        BY <2>2, NatLessThanWellFounded, WFMin
    <3>2. QED
      BY <2>2, <3>1 DEF OpToRel
  <2>4. PICK k \in at : m = Len(marks) - k
    OBVIOUS
  <2>5. \A l \in at : l <= k
    <3> TAKE l \in at
    <3>1. ~(Len(marks) - l < Len(marks) - k)
      BY <2>3, <2>4
    <3>2. QED
      BY <2>1, <3>1
  <2>6. Find(marks, name) \in at
    BY <1>2, <2>5 DEF Find
  <2>7. QED
    BY <2>6
<1>3. QED
  BY <1>1, <1>2

(* Sending adds at most the mark of a savepoint. *)
LEMMA MarksAfterFacts ==
    ASSUME NEW P \in Paths, NEW marks \in Seq(Marks(Paths)), NEW c \in Commands
    PROVE  /\ MarksAfter(c, P, marks) \in Seq(Marks(Paths))
           /\ \A k \in 1 .. Len(MarksAfter(c, P, marks)) :
                 \/ \E l \in 1 .. Len(marks) : MarksAfter(c, P, marks)[k] = marks[l]
                 \/ c.kind = "savepoint" /\ MarksAfter(c, P, marks)[k] = [name |-> c.name, path |-> P]
<1>1. CASE c.kind = "savepoint"
  <2>1. [name |-> c.name, path |-> P] \in Marks(Paths)
    BY <1>1, Kinds DEF Marks
  <2>2. MarksAfter(c, P, marks) = Append(marks, [name |-> c.name, path |-> P])
    BY <1>1 DEF MarksAfter
  <2>3. QED
    BY <1>1, <2>1, <2>2
<1>2. CASE c.kind = "rollbackTo" /\ Find(marks, c.name) # 0
  <2>1. MarksAfter(c, P, marks) = SubSeq(marks, 1, Find(marks, c.name))
    BY <1>2 DEF MarksAfter
  <2>2. Find(marks, c.name) \in 1 .. Len(marks)
    BY <1>2, FindFacts
  <2>3. QED
    BY <2>1, <2>2
<1>3. CASE MarksAfter(c, P, marks) = marks
  BY <1>3
<1>4. QED
  BY <1>1, <1>2, <1>3 DEF MarksAfter

(* A savepoint mark has a name and a path. *)
LEMMA MarkFacts ==
    ASSUME NEW S, NEW marks \in Seq(Marks(S)), NEW k \in 1 .. Len(marks)
    PROVE  marks[k].name \in Names /\ marks[k].path \in S
<1>1. marks[k] \in Marks(S)
  OBVIOUS
<1>2. QED
  BY <1>1 DEF Marks

(* What was sent is a command, for the queue or directly. *)
LEMMA SentFacts ==
    ASSUME NEW w \in Seq(Sent), NEW i \in 1 .. Len(w)
    PROVE  w[i].cmd \in Commands /\ w[i].queued \in BOOLEAN
<1>1. w[i] \in Sent
  OBVIOUS
<1>2. QED
  BY <1>1 DEF Sent

(* What the client believes after it sent a command is a schema or Unknown. *)
LEMMA PathAfterFacts ==
    ASSUME NEW P \in Paths, NEW marks \in Seq(Marks(Paths)), NEW c \in Commands
    PROVE  PathAfter(c, P, marks) \in Paths
<1>1. Find(marks, c.name) \in 0 .. Len(marks)
  BY FindFacts
<1>2. Find(marks, c.name) # 0 => marks[Find(marks, c.name)].path \in Paths
  BY <1>1, MarkFacts
<1>3. QED
  BY <1>2 DEF PathAfter, Paths

-----------------------------------------------------------------------------
(* A command is sent: the forecast goes on from what the client believes. *)
LEMMA SendKeeps ==
    ASSUME NEW w \in Seq(Sent), NEW S \in Paths, NEW marks \in Seq(Marks(Paths)),
           NEW t, NEW p, NEW sv \in Seq(Marks(Schemas)), Foretold(w, S, marks, t, p, sv),
           NEW c \in Commands, NEW b \in BOOLEAN,
           c.kind = "statement" => c.schema = S,
           c.kind = "savepoint" => Unsent(c.name, w, marks, sv)
    PROVE  Foretold(Append(w, [cmd |-> c, queued |-> b]), PathAfter(c, S, marks),
                    MarksAfter(c, S, marks), t, p, sv)
<1>1. PICK G \in [1 .. Len(w) + 1 -> Paths], h \in [Names -> Paths] :
         Forecast(w, S, marks, t, p, sv, G, h)
  BY DEF Foretold
<1> DEFINE n == Len(w)
           w2 == Append(w, [cmd |-> c, queued |-> b])
           S2 == PathAfter(c, S, marks)
           m2 == MarksAfter(c, S, marks)
           Q == IF c.kind \in {"switch", "rollbackTo"} THEN S2 ELSE G[n + 1]
           G2 == [i \in 1 .. n + 2 |-> IF i <= n + 1 THEN G[i] ELSE Q]
           h2 == IF c.kind = "savepoint" THEN [h EXCEPT ![c.name] = G[n + 1]] ELSE h
<1>2. n \in Nat /\ Len(w2) = n + 1 /\ w2[n + 1].cmd = c /\ \A i \in 1 .. n : w2[i] = w[i]
  OBVIOUS
<1>3. S2 \in Paths /\ G[n + 1] \in Paths /\ Q \in Paths
  BY <1>2, PathAfterFacts, SMTT(30)
<1>4. /\ G2 \in [1 .. n + 2 -> Paths] /\ h2 \in [Names -> Paths]
      /\ \A i \in 1 .. n + 1 : G2[i] = G[i]
      /\ G2[n + 2] = Q
  BY <1>2, <1>3, Kinds
<1>5. S2 \in {Unknown, Q}
  BY <1>1 DEF PathAfter, Forecast
<1>6. /\ c.kind = "savepoint" => c.name \in Names /\ h2[c.name] = G[n + 1]
      /\ \A x \in Names : ~(c.kind = "savepoint" /\ x = c.name) => h2[x] = h[x]
  BY Kinds
<1>7. Len(w2) + 1 = n + 2 /\ (n + 1) + 1 = n + 2
  BY <1>2
<1>8. ASSUME c.kind = "rollbackTo" PROVE Q \in {Unknown, h2[c.name]}
  <2>1. Find(marks, c.name) # 0 =>
           /\ Find(marks, c.name) \in 1 .. Len(marks)
           /\ marks[Find(marks, c.name)].name = c.name
    BY FindFacts
  <2>2. h2 = h
    BY <1>8
  <2>3. QED
    BY <1>1, <1>8, <2>1, <2>2 DEF Forecast, PathAfter
<1>9. \A i \in 1 .. n : Foreseen(w[i].cmd, G2[i], G2[i + 1], h2)
  <2> SUFFICES ASSUME NEW i \in 1 .. n PROVE Foreseen(w[i].cmd, G2[i], G2[i + 1], h2)
    OBVIOUS
  <2>1. Foreseen(w[i].cmd, G[i], G[i + 1], h)
    BY <1>1 DEF Forecast
  <2>2. G2[i] = G[i] /\ G2[i + 1] = G[i + 1] /\ G[i] \in Paths
    <3>1. i \in 1 .. n + 1 /\ i + 1 \in 1 .. n + 1
      BY <1>2
    <3>2. G[i] \in Paths
      BY <3>1
    <3> HIDE DEF G2, n
    <3>3. QED
      BY <1>4, <3>1, <3>2
  <2>3. w[i].cmd \in Commands
    BY SentFacts
  <2>4. w[i].cmd.kind \in {"savepoint", "rollbackTo"} => h2[w[i].cmd.name] = h[w[i].cmd.name]
    BY <1>6, <2>3, Kinds DEF Unsent
  <2>5. QED
    BY <2>1, <2>2, <2>4 DEF Foreseen
<1>10. Foreseen(c, G2[n + 1], G2[n + 2], h2)
  <2>1. c.kind = "statement" => G[n + 1] = S /\ Q = S
    BY <1>1, Kinds, TenantSchemaAssumption DEF Forecast
  <2>2. c.kind = "switch" => Q = Unknown
    BY DEF PathAfter
  <2>3. G2[n + 1] = G[n + 1] /\ G2[n + 2] = Q
    BY <1>2, <1>4
  <2> HIDE DEF G2, h2
  <2>4. QED
    BY <1>6, <1>8, <2>1, <2>2, <2>3 DEF Foreseen
<1>11. ASSUME NEW k \in 1 .. Len(m2) PROVE m2[k].path \in {Unknown, h2[m2[k].name]}
  <2>1. CASE \E l \in 1 .. Len(marks) : m2[k] = marks[l]
    <3>1. PICK l \in 1 .. Len(marks) : m2[k] = marks[l]
      BY <2>1
    <3>2. marks[l].path \in {Unknown, h[marks[l].name]} /\ marks[l].name \in Names
      BY <1>1, MarkFacts DEF Forecast
    <3>3. h2[marks[l].name] = h[marks[l].name]
      BY <1>6, <3>2 DEF Unsent
    <3>4. QED
      BY <3>1, <3>2, <3>3
  <2>2. CASE c.kind = "savepoint" /\ m2[k] = [name |-> c.name, path |-> S]
    <3>1. h2[c.name] = G[n + 1] /\ S \in {Unknown, G[n + 1]}
      BY <1>1, <1>6, <2>2 DEF Forecast
    <3>2. QED
      BY <2>2, <3>1
  <2>3. QED
    BY <2>1, <2>2, MarksAfterFacts
<1>12. ASSUME NEW k \in 1 .. Len(sv) PROVE h2[sv[k].name] \in {Unknown, sv[k].path}
  <2>1. sv[k].name \in Names /\ h[sv[k].name] \in {Unknown, sv[k].path}
    BY <1>1, MarkFacts DEF Forecast
  <2>2. h2[sv[k].name] = h[sv[k].name]
    BY <1>6, <2>1 DEF Unsent
  <2>3. QED
    BY <2>1, <2>2
<1>13. t = "open" => G2[1] \in {Unknown, p}
  BY <1>1, <1>2, <1>4 DEF Forecast
<1>14. \A i \in 1 .. Len(w2) : Foreseen(w2[i].cmd, G2[i], G2[i + 1], h2)
  <2> TAKE i \in 1 .. Len(w2)
  <2> HIDE DEF G2, h2, w2
  <2>1. CASE i \in 1 .. n
    <3>1. w2[i] = w[i]
      BY <1>2, <2>1
    <3>2. QED
      BY <1>9, <2>1, <3>1
  <2>2. CASE i = n + 1
    BY <1>2, <1>7, <1>10, <2>2
  <2>3. QED
    BY <1>2, <2>1, <2>2
<1> HIDE DEF G2, h2, w2, S2, m2, Q
<1>15. Forecast(w2, S2, m2, t, p, sv, G2, h2)
  BY <1>2, <1>4, <1>5, <1>7, <1>11, <1>12, <1>13, <1>14 DEF Forecast
<1>16. QED
  BY <1>4, <1>7, <1>15 DEF Foretold, w2, S2, m2

(* The first command of the wire runs, or fails. *)
LEMMA RunKeeps ==
    ASSUME TypeOK, wire # <<>>,
           Foretold(wire, searchPath, savepointPaths, tx, path, saves),
           \/ ~MustFail /\ Cmd # End /\ Runs
           \/ tx' # "open" /\ UNCHANGED <<path, saves>>,
           NEW S \in {Unknown, searchPath}
    PROVE  Foretold(Tail(wire), S, savepointPaths, tx', path', saves')
<1>1. PICK G \in [1 .. Len(wire) + 1 -> Paths], h \in [Names -> Paths] :
         Forecast(wire, searchPath, savepointPaths, tx, path, saves, G, h)
  BY DEF Foretold
<1> DEFINE n == Len(wire)
           w2 == Tail(wire)
           G2 == [i \in 1 .. n |-> G[i + 1]]
<1>2. /\ wire \in Seq(Sent) /\ n \in Nat \ {0} /\ Len(w2) = n - 1
      /\ \A i \in 1 .. n - 1 : w2[i] = wire[i + 1]
      /\ Cmd = wire[1].cmd /\ Cmd \in Commands /\ saves \in Seq(Marks(Schemas))
  <2>1. wire \in Seq(Sent) /\ saves \in Seq(Marks(Schemas))
    BY TypeIs
  <2>2. n \in Nat \ {0} /\ Len(w2) = n - 1 /\ (\A i \in 1 .. n - 1 : w2[i] = wire[i + 1])
        /\ Head(wire) = wire[1]
    BY <2>1
  <2>3. QED
    BY <2>1, <2>2, SentFacts DEF Cmd
<1>3. G2 \in [1 .. n -> Paths] /\ \A i \in 1 .. n : G2[i] = G[i + 1]
  BY <1>2
<1>4. Foreseen(Cmd, G[1], G[2], h)
  BY <1>1, <1>2 DEF Forecast
<1>5. /\ tx' = "open" => G[2] \in {Unknown, path'}
      /\ \A k \in 1 .. Len(saves') : h[saves'[k].name] \in {Unknown, saves'[k].path}
  <2>1. /\ tx = "open" => G[1] \in {Unknown, path}
        /\ \A k \in 1 .. Len(saves) : h[saves[k].name] \in {Unknown, saves[k].path}
    BY <1>1 DEF Forecast
  <2>2. CASE tx' # "open" /\ UNCHANGED <<path, saves>>
    BY <2>1, <2>2
  <2>3. CASE ~MustFail /\ Cmd # End /\ Runs
    <3>1. CASE Cmd.kind = "statement"
      BY <1>4, <2>1, <2>3, <3>1 DEF Runs, server, Foreseen
    <3>2. CASE Cmd.kind = "switch"
      BY <1>4, <2>1, <2>3, <3>2 DEF Runs, Foreseen
    <3>3. CASE Cmd.kind = "savepoint"
      <4>1. tx = "open" /\ tx' = tx /\ path' = path
            /\ saves' = Append(saves, [name |-> Cmd.name, path |-> path])
        BY <2>3, <3>3 DEF Runs, MustFail
      <4>2. h[Cmd.name] \in {Unknown, path} /\ G[2] = G[1]
        BY <1>4, <2>1, <3>3, <4>1 DEF Foreseen
      <4>3. \A k \in 1 .. Len(saves') :
               IF k <= Len(saves) THEN saves'[k] = saves[k]
               ELSE saves'[k] = [name |-> Cmd.name, path |-> path]
        BY <1>2, <4>1
      <4>4. QED
        BY <1>2, <2>1, <4>1, <4>2, <4>3
    <3>4. CASE Cmd.kind = "rollbackTo"
      <4> DEFINE k == Find(saves, Cmd.name)
      <4>1. k \in 1 .. Len(saves) /\ saves[k].name = Cmd.name
        BY <1>2, <2>3, <3>4, FindFacts DEF MustFail
      <4>2. path' = saves[k].path /\ saves' = SubSeq(saves, 1, k)
        BY <2>3, <3>4 DEF Runs
      <4> HIDE DEF k
      <4>3. \A l \in 1 .. Len(saves') : l \in 1 .. Len(saves) /\ saves'[l] = saves[l]
        BY <1>2, <4>1, <4>2
      <4>4. G[2] \in {Unknown, h[Cmd.name]}
        BY <1>4, <3>4 DEF Foreseen
      <4>5. QED
        BY <2>1, <4>1, <4>2, <4>3, <4>4
    <3>5. QED
      BY <1>2, <2>3, <3>1, <3>2, <3>3, <3>4, Kinds
  <2>4. QED
    BY <2>2, <2>3
<1>6. \A i \in 1 .. n - 1 : Foreseen(w2[i].cmd, G2[i], G2[i + 1], h)
  <2> TAKE i \in 1 .. n - 1
  <2>1. Foreseen(wire[i + 1].cmd, G[i + 1], G[(i + 1) + 1], h)
    BY <1>1, <1>2 DEF Forecast
  <2>2. w2[i] = wire[i + 1] /\ G2[i] = G[i + 1] /\ G2[i + 1] = G[(i + 1) + 1]
    BY <1>2, <1>3
  <2>3. QED
    BY <2>1, <2>2
<1>7. S \in {Unknown, G2[n]}
  BY <1>1, <1>2, <1>3 DEF Forecast
<1>8. \A k \in 1 .. Len(savepointPaths) :
         savepointPaths[k].path \in {Unknown, h[savepointPaths[k].name]}
  BY <1>1 DEF Forecast
<1>9. G2[1] = G[2]
  BY <1>2, <1>3
<1> HIDE DEF G2, w2
<1>10. Forecast(w2, S, savepointPaths, tx', path', saves', G2, h)
  BY <1>2, <1>3, <1>5, <1>6, <1>7, <1>8, <1>9 DEF Forecast
<1>11. QED
  BY <1>2, <1>3, <1>10 DEF Foretold, w2

-----------------------------------------------------------------------------
(* What is sent of a work is the work, or a switch to where it belongs. *)
LEMMA FirstOfFacts ==
    ASSUME NEW work \in Works, NEW P \in Paths
    PROVE  /\ FirstOf(work, P) \in Commands
           /\ FirstOf(work, P).kind = "statement" => FirstOf(work, P).schema = P
           /\ ~Elsewhere(work, P) => FirstOf(work, P) = work /\ FirstOf(work, P).kind # "switch"
           /\ Elsewhere(work, P) => /\ work.kind = "statement" /\ work.schema \in Schemas
                                    /\ FirstOf(work, P) = Switch(work.schema)
                                    /\ FirstOf(work, P).kind = "switch"
           /\ FirstOf(work, P).kind = "savepoint" => FirstOf(work, P) = work
           /\ \A n : FirstOf(work, P) \in {Savepoint(n), RollbackTo(n)} => FirstOf(work, P) = work
<1>1. work \in Commands
  BY DEF Commands
<1>2. CASE Elsewhere(work, P)
  BY <1>1, <1>2, Kinds DEF FirstOf, Elsewhere, Commands, Switch, Savepoint, RollbackTo
<1>3. CASE ~Elsewhere(work, P)
  BY <1>1, <1>3, Kinds DEF FirstOf, Elsewhere
<1>4. QED
  BY <1>2, <1>3

(* Sending something else sends nothing of savepoint m. *)
LEMMA SendNames ==
    ASSUME NEW w \in Seq(Sent), NEW P \in Paths, NEW marks \in Seq(Marks(Paths)), NEW sv,
           NEW c \in Commands, NEW b \in BOOLEAN, NEW m, Unsent(m, w, marks, sv),
           c \notin {Savepoint(m), RollbackTo(m)}
    PROVE  Unsent(m, Append(w, [cmd |-> c, queued |-> b]), MarksAfter(c, P, marks), sv)
<1> DEFINE w2 == Append(w, [cmd |-> c, queued |-> b])
           m2 == MarksAfter(c, P, marks)
<1>1. \A i \in 1 .. Len(w2) : w2[i].cmd \notin {Savepoint(m), RollbackTo(m)}
  <2>1. \A i \in 1 .. Len(w2) : \/ i \in 1 .. Len(w) /\ w2[i] = w[i]
                                \/ w2[i] = [cmd |-> c, queued |-> b]
    OBVIOUS
  <2> HIDE DEF w2
  <2>2. QED
    BY <2>1 DEF Unsent
<1>2. \A k \in 1 .. Len(m2) : m2[k].name # m
  <2> TAKE k \in 1 .. Len(m2)
  <2>1. CASE \E l \in 1 .. Len(marks) : m2[k] = marks[l]
    BY <2>1 DEF Unsent
  <2>2. CASE c.kind = "savepoint" /\ m2[k] = [name |-> c.name, path |-> P]
    BY <2>2, Kinds
  <2>3. QED
    BY <2>1, <2>2, MarksAfterFacts
<1> HIDE DEF w2, m2
<1>3. Unsent(m, w2, m2, sv)
  BY <1>1, <1>2 DEF Unsent
<1>4. QED
  BY <1>3 DEF w2, m2

(* Running the first command sends nothing. *)
LEMMA RunNames ==
    ASSUME TypeOK, wire # <<>>, NEW m, Unsent(m, wire, savepointPaths, saves),
           (~MustFail /\ Runs) \/ UNCHANGED saves
    PROVE  Unsent(m, Tail(wire), savepointPaths, saves')
<1>1. /\ wire \in Seq(Sent) /\ saves \in Seq(Marks(Schemas)) /\ path \in Schemas
      /\ \A i \in 1 .. Len(Tail(wire)) : i + 1 \in 1 .. Len(wire) /\ Tail(wire)[i] = wire[i + 1]
      /\ 1 \in 1 .. Len(wire) /\ Cmd = wire[1].cmd
  BY TypeIs DEF Cmd
<1>2. Cmd \in Commands /\ Cmd # Savepoint(m)
  BY <1>1, SentFacts DEF Unsent
<1>3. \A k \in 1 .. Len(saves') : saves'[k].name # m
  <2>1. CASE UNCHANGED saves
    BY <2>1 DEF Unsent
  <2>2. CASE Cmd.kind = "savepoint" /\ Runs
    <3>1. saves' = Append(saves, [name |-> Cmd.name, path |-> path]) /\ Cmd.name # m
      BY <1>2, <2>2, Kinds DEF Runs
    <3>2. \A k \in 1 .. Len(saves') :
             \/ k \in 1 .. Len(saves) /\ saves'[k] = saves[k]
             \/ saves'[k] = [name |-> Cmd.name, path |-> path]
      BY <1>1, <3>1
    <3>3. QED
      BY <3>1, <3>2 DEF Unsent
  <2>3. CASE Cmd.kind = "rollbackTo" /\ Runs /\ ~MustFail
    <3>1. Find(saves, Cmd.name) \in 1 .. Len(saves)
      BY <1>1, <2>3, FindFacts DEF MustFail
    <3>2. saves' = SubSeq(saves, 1, Find(saves, Cmd.name))
      BY <2>3 DEF Runs
    <3>3. \A k \in 1 .. Len(saves') : k \in 1 .. Len(saves) /\ saves'[k] = saves[k]
      BY <1>1, <3>1, <3>2
    <3>4. QED
      BY <3>3 DEF Unsent
  <2>4. CASE Cmd.kind \notin {"savepoint", "rollbackTo"} /\ Runs
    <3>1. saves' = saves \/ saves' = <<>>
      BY <2>4 DEF Runs, server
    <3>2. QED
      BY <3>1 DEF Unsent
  <2>5. QED
    BY <2>1, <2>2, <2>3, <2>4
<1>4. QED
  BY <1>1, <1>3 DEF Unsent

(* What the server has stays what a server has. *)
LEMMA RunType ==
    ASSUME TypeOK, wire # <<>>,
           \/ ~MustFail /\ Runs
           \/ tx' = (IF tx = "open" THEN "aborted" ELSE tx) /\ UNCHANGED <<path, saves>>
    PROVE  /\ path' \in Schemas /\ saves' \in Seq(Marks(Schemas)) /\ tx' \in {"open", "aborted", "over"}
           /\ Tail(wire) \in Seq(Sent)
<1>1. /\ wire \in Seq(Sent) /\ saves \in Seq(Marks(Schemas)) /\ path \in Schemas
      /\ tx \in {"open", "aborted", "over"} /\ Cmd = wire[1].cmd /\ 1 \in 1 .. Len(wire)
      /\ Tail(wire) \in Seq(Sent)
  BY TypeIs DEF Cmd
<1>2. Cmd \in Commands
  BY <1>1, SentFacts
<1>3. CASE UNCHANGED <<path, saves>> /\ tx' = (IF tx = "open" THEN "aborted" ELSE tx)
  BY <1>1, <1>3
<1>4. CASE ~MustFail /\ Runs
  <2>1. CASE Cmd.kind = "switch"
    BY <1>1, <1>2, <1>4, <2>1, Kinds DEF Runs
  <2>2. CASE Cmd.kind = "savepoint"
    <3>1. [name |-> Cmd.name, path |-> path] \in Marks(Schemas)
      BY <1>1, <1>2, <2>2, Kinds DEF Marks
    <3>2. QED
      BY <1>1, <1>4, <2>2, <3>1, SMTT(30) DEF Runs
  <2>3. CASE Cmd.kind = "rollbackTo"
    <3>1. Find(saves, Cmd.name) \in 1 .. Len(saves)
      BY <1>1, <1>4, <2>3, FindFacts DEF MustFail
    <3>2. saves[Find(saves, Cmd.name)].path \in Schemas
      BY <1>1, <3>1, MarkFacts
    <3> DEFINE k == Find(saves, Cmd.name)
    <3>3. tx' = "open" /\ path' = saves[k].path /\ saves' = SubSeq(saves, 1, k)
      BY <1>4, <2>3 DEF Runs
    <3> HIDE DEF k
    <3>4. k \in 1 .. Len(saves) /\ saves[k].path \in Schemas
      BY <3>1, <3>2 DEF k
    <3>5. SubSeq(saves, 1, k) \in Seq(Marks(Schemas))
      BY <1>1, <3>4
    <3>6. QED
      BY <1>1, <3>3, <3>4, <3>5
  <2>4. CASE Cmd.kind = "end"
    BY <1>1, <1>4, <2>4, TenantSchemaAssumption DEF Runs
  <2>5. CASE Cmd.kind = "statement"
    BY <1>1, <1>4, <2>5 DEF Runs, server
  <2>6. QED
    BY <1>2, <2>1, <2>2, <2>3, <2>4, <2>5, Kinds
<1>5. QED
  BY <1>3, <1>4

-----------------------------------------------------------------------------
(* The head of the queue is done. The wire is empty by then: the head was  *)
(* the last command on it. The next work starts, behind the end of the     *)
(* transaction if that comes first.                                        *)
LEMMA AdvanceKeeps ==
    ASSUME TypeOK, QueueInv, queue # <<>>, NEW P \in Paths, Advance(P, <<>>),
           saves' \in Seq(Marks(Schemas)), used' = used
    PROVE  /\ searchPath' \in Paths /\ savepointPaths' \in Seq(Marks(Paths))
           /\ queue' \in Seq(Works) /\ wire' \in Seq(Sent)
           /\ ending' \in {"no", "asked", "sent", "done"}
           /\ QueueInv'
           /\ /\ NamesInv /\ Foretold(<<>>, P, savepointPaths, tx', path', saves')
              /\ \A m \in Names : Unsent(m, wire, savepointPaths, saves)
                                     => Unsent(m, <<>>, savepointPaths, saves')
              => NamesInv' /\ ForecastInv'
<1> DEFINE ends == Tail(queue) # <<>> /\ Head(Tail(queue)) = End
           next == IF ends THEN Tail(Tail(queue)) ELSE Tail(queue)
           sent == IF ends THEN Append(<<>>, [cmd |-> End, queued |-> FALSE]) ELSE <<>>
           o == IF ends THEN 2 ELSE 1
           c == FirstOf(Head(next), P)
           Clear == /\ NamesInv /\ Foretold(<<>>, P, savepointPaths, tx', path', saves')
                    /\ \A m \in Names : Unsent(m, wire, savepointPaths, saves)
                                           => Unsent(m, <<>>, savepointPaths, saves')
<1>1. /\ queue \in Seq(Works) /\ savepointPaths \in Seq(Marks(Paths))
      /\ ending \in {"no", "asked", "sent", "done"}
  BY TypeIs
<1>2. /\ next \in Seq(Works) /\ Len(next) = Len(queue) - o /\ o \in {1, 2}
      /\ \A i \in 1 .. Len(next) : i + o \in 2 .. Len(queue) /\ next[i] = queue[i + o]
      /\ ends => 2 \in 2 .. Len(queue) /\ queue[2] = End
      /\ next # <<>> => 1 \in 1 .. Len(next) /\ Head(next) = next[1] /\ Head(next) \in Works
  <2>1. /\ Tail(queue) \in Seq(Works) /\ Len(queue) \in Nat \ {0} /\ Len(Tail(queue)) = Len(queue) - 1
        /\ \A i \in 1 .. Len(Tail(queue)) : i + 1 \in 2 .. Len(queue) /\ Tail(queue)[i] = queue[i + 1]
    BY <1>1
  <2>2. CASE ~ends
    <3>1. next = Tail(queue) /\ o = 1
      BY <2>2
    <3>2. Tail(queue) # <<>> => Head(Tail(queue)) = Tail(queue)[1] /\ 1 \in 1 .. Len(Tail(queue))
      BY <2>1
    <3> HIDE DEF next, o, ends
    <3>3. QED
      BY <2>1, <2>2, <3>1, <3>2
  <2>3. CASE ends
    <3>1. /\ Tail(Tail(queue)) \in Seq(Works) /\ Len(Tail(Tail(queue))) = Len(queue) - 2
          /\ Len(Tail(queue)) \in Nat \ {0} /\ Head(Tail(queue)) = Tail(queue)[1]
          /\ \A i \in 1 .. Len(Tail(Tail(queue))) :
                i + 2 \in 2 .. Len(queue) /\ Tail(Tail(queue))[i] = queue[i + 2]
      BY <2>1, <2>3
    <3>2. next = Tail(Tail(queue)) /\ o = 2
      BY <2>3
    <3> HIDE DEF next
    <3>3. QED
      BY <2>1, <2>3, <3>1, <3>2, SMTT(30)
  <2>4. QED
    BY <2>2, <2>3
<1>3. /\ queue' = next
      /\ ending' = IF ends THEN "sent" ELSE ending
      /\ next = <<>> => wire' = sent /\ searchPath' = P /\ savepointPaths' = savepointPaths
      /\ next # <<>> => /\ wire' = Append(sent, [cmd |-> c, queued |-> TRUE])
                        /\ searchPath' = PathAfter(c, P, savepointPaths)
                        /\ savepointPaths' = MarksAfter(c, P, savepointPaths)
  <2>1. CASE ends
    BY <2>1 DEF Advance
  <2>2. CASE ~ends
    BY <2>2 DEF Advance
  <2>3. QED
    BY <2>1, <2>2
<1>4. End \in Commands /\ sent \in Seq(Sent) /\ End.kind = "end"
      /\ \A i \in 1 .. Len(sent) : sent[i] = [cmd |-> End, queued |-> FALSE]
  <2>1. End \in Commands /\ End.kind = "end"
    BY DEF Commands, Works, End
  <2>2. [cmd |-> End, queued |-> FALSE] \in Sent
    BY <2>1 DEF Sent
  <2>3. CASE ends
    <3>1. sent = Append(<<>>, [cmd |-> End, queued |-> FALSE])
      BY <2>3
    <3>2. Len(sent) = 1 /\ sent[1] = [cmd |-> End, queued |-> FALSE] /\ sent \in Seq(Sent)
      BY <2>2, <3>1
    <3> HIDE DEF sent
    <3>3. QED
      BY <2>1, <3>2
  <2>4. CASE ~ends
    BY <2>1, <2>4
  <2>5. QED
    BY <2>3, <2>4
<1>5. \A i \in 1 .. Len(next) : next[i] = End => ~ends
  BY <1>2 DEF QueueInv
<1>6. next # <<>> => Head(next) # End
  <2>1. ASSUME next # <<>>, Head(next) = End, ~ends PROVE FALSE
    BY <2>1
  <2>2. QED
    BY <1>2, <1>5, <2>1
<1>7. ASSUME Clear PROVE Foretold(sent, P, savepointPaths, tx', path', saves')
  <2>1. CASE ends
    <3>1. sent = Append(<<>>, [cmd |-> End, queued |-> FALSE])
      BY <2>1
    <3>4. <<>> \in Seq(Sent)
      OBVIOUS
    <3>2. PathAfter(End, P, savepointPaths) = P /\ MarksAfter(End, P, savepointPaths) = savepointPaths
      BY DEF PathAfter, MarksAfter, End
    <3> HIDE DEF sent
    <3>3. QED
      BY <1>1, <1>4, <1>7, <3>1, <3>2, <3>4, SendKeeps
  <2>2. CASE ~ends
    BY <1>7, <2>2
  <2>3. QED
    BY <2>1, <2>2
<1>8. ASSUME Clear, NEW m \in Names, Unsent(m, wire, savepointPaths, saves)
      PROVE  Unsent(m, sent, savepointPaths, saves')
  <2>1. \A i \in 1 .. Len(sent) : sent[i].cmd \notin {Savepoint(m), RollbackTo(m)}
    BY <1>4 DEF End, Savepoint, RollbackTo
  <2>2. QED
    BY <1>8, <2>1 DEF Unsent
<1> HIDE DEF ends, next, sent, o, c, Clear
<1>9. CASE next = <<>>
  <2>1. QueueInv'
    BY <1>3, <1>4, <1>9 DEF QueueInv, End
  <2>2. ASSUME Clear PROVE NamesInv'
    <3>1. NamesInv
      BY <2>2 DEF Clear
    <3>2. QED
      BY <1>3, <1>8, <1>9, <2>2, <3>1 DEF NamesInv
  <2>3. QED
    BY <1>1, <1>2, <1>3, <1>4, <1>7, <1>9, <2>1, <2>2 DEF ForecastInv, Clear
<1>10. CASE next # <<>>
  <2>1. /\ Head(next) \in Works /\ c \in Commands
        /\ c.kind = "statement" => c.schema = P
        /\ \A m : c \in {Savepoint(m), RollbackTo(m)} => Head(next) = c
        /\ c.kind = "savepoint" => c.name \in Names /\ Head(next) = Savepoint(c.name)
        /\ c = Head(next) \/ (Head(next).kind = "statement" /\ c = Switch(Head(next).schema))
    BY <1>2, <1>10, FirstOfFacts, Kinds DEF c
  <2>2. ASSUME Clear, NEW m \in Names, NEW i \in 2 .. Len(queue), queue[i] = Savepoint(m)
        PROVE  Unsent(m, wire, savepointPaths, saves) /\ (o + 1 < i => c \notin {Savepoint(m), RollbackTo(m)})
    <3>1. /\ Unsent(m, wire, savepointPaths, saves)
          /\ \A j \in 1 .. Len(queue) : queue[j] = Savepoint(m) => i = j
          /\ \A j \in 1 .. i - 1 : queue[j] # RollbackTo(m)
      BY <2>2 DEF NamesInv, Clear
    <3>2. Head(next) = queue[o + 1] /\ o + 1 \in 2 .. Len(queue) /\ Len(queue) \in Nat
      BY <1>1, <1>2, <1>10
    <3>3. o + 1 < i => o + 1 \in 1 .. i - 1
      BY <3>2
    <3>4. QED
      BY <2>1, <3>1, <3>2, <3>3
  <2>3. ASSUME Clear, c.kind = "savepoint" PROVE Unsent(c.name, sent, savepointPaths, saves')
    <3>1. o + 1 \in 2 .. Len(queue) /\ Head(next) = queue[o + 1]
      BY <1>2, <1>10
    <3>2. QED
      BY <1>8, <2>1, <2>2, <2>3, <3>1
  <2>4. ASSUME Clear PROVE ForecastInv'
    BY <1>1, <1>3, <1>4, <1>7, <1>10, <2>1, <2>3, <2>4, SendKeeps DEF ForecastInv
  <2>5. [cmd |-> c, queued |-> TRUE] \in Sent /\ Len(sent) \in Nat /\ Len(wire') = Len(sent) + 1
        /\ wire' \in Seq(Sent) /\ wire'[Len(wire')] = [cmd |-> c, queued |-> TRUE]
        /\ \A i \in 1 .. Len(wire') - 1 : wire'[i] = [cmd |-> End, queued |-> FALSE]
    <3>1. [cmd |-> c, queued |-> TRUE] \in Sent
      BY <2>1 DEF Sent
    <3>2. wire' = Append(sent, [cmd |-> c, queued |-> TRUE])
      BY <1>3, <1>10
    <3>3. QED
      <4>1. /\ Len(wire') = Len(sent) + 1 /\ wire' \in Seq(Sent) /\ Len(sent) \in Nat
            /\ wire'[Len(sent) + 1] = [cmd |-> c, queued |-> TRUE]
            /\ \A i \in 1 .. Len(sent) : wire'[i] = sent[i]
        BY <1>4, <3>1, <3>2
      <4>2. Len(wire') = Len(sent) + 1 /\ Len(wire') - 1 = Len(sent)
        BY <4>1
      <4>3. QED
        BY <1>4, <3>1, <4>1, <4>2
  <2>6. QueueInv'
    <3>1. queue' # <<>> /\ wire' # <<>> /\ Head(queue') # End
      BY <1>3, <1>6, <1>10, <2>5
    <3>2. \A i \in 1 .. Len(wire') : ~wire'[i].queued => wire'[i].cmd.kind # "switch"
      BY <1>4, <2>5
    <3>3. \A i, j \in 1 .. Len(queue') : queue'[i] = End /\ queue'[j] = End => i = j
      <4> SUFFICES ASSUME NEW i \in 1 .. Len(next), NEW j \in 1 .. Len(next),
                          next[i] = End, next[j] = End
                   PROVE  i = j
        BY <1>3
      <4>1. i + o \in 1 .. Len(queue) /\ j + o \in 1 .. Len(queue) /\ queue[i + o] = End /\ queue[j + o] = End
        BY <1>2
      <4>2. i + o = j + o
        BY <4>1 DEF QueueInv
      <4>3. QED
        BY <1>2, <4>2
    <3>4. (\E i \in 1 .. Len(queue') : queue'[i] = End) => ending' = "asked"
      BY <1>2, <1>3, <1>5 DEF QueueInv
    <3>5. QED
      BY <1>3, <2>1, <2>5, <3>1, <3>2, <3>3, <3>4 DEF QueueInv
  <2>7. ASSUME Clear PROVE NamesInv'
    <3>0. NamesInv
      BY <2>7 DEF Clear
    <3>1. ASSUME NEW m \in Names, Unsent(m, wire, savepointPaths, saves),
                 c \notin {Savepoint(m), RollbackTo(m)}
          PROVE  Unsent(m, wire', savepointPaths', saves')
      BY <1>1, <1>3, <1>4, <1>8, <1>10, <2>1, <2>7, <3>1, SendNames
    <3>2. ASSUME NEW m \in Names \ used'
          PROVE  /\ Unsent(m, wire', savepointPaths', saves')
                 /\ \A i \in 1 .. Len(queue') : queue'[i] \notin {Savepoint(m), RollbackTo(m)}
      <4>1. \A i \in 1 .. Len(queue) : queue[i] \notin {Savepoint(m), RollbackTo(m)}
        BY <3>0, <3>2 DEF NamesInv
      <4>2. c \notin {Savepoint(m), RollbackTo(m)}
        BY <1>2, <1>10, <2>1, <4>1
      <4>3. QED
        <5>1. m \in Names /\ Unsent(m, wire, savepointPaths, saves)
          BY <3>0, <3>2 DEF NamesInv
        <5>2. \A i \in 1 .. Len(next) : i + o \in 1 .. Len(queue) /\ next[i] = queue[i + o]
          BY <1>2
        <5>3. QED
          BY <1>3, <3>1, <4>1, <4>2, <5>1, <5>2
    <3>3. ASSUME NEW m \in Names, NEW i \in 2 .. Len(queue'), queue'[i] = Savepoint(m)
          PROVE  /\ Unsent(m, wire', savepointPaths', saves')
                 /\ \A j \in 1 .. Len(queue') : queue'[j] = Savepoint(m) => i = j
                 /\ \A j \in 1 .. i - 1 : queue'[j] # RollbackTo(m)
      <4>1. /\ i + o \in 2 .. Len(queue) /\ queue[i + o] = Savepoint(m) /\ o + 1 < i + o
            /\ i \in Nat /\ o \in Nat /\ Len(next) = Len(queue) - o /\ Len(queue) \in Nat
        BY <1>1, <1>2, <1>3, <3>3
      <4>2. /\ \A j \in 1 .. Len(queue) : queue[j] = Savepoint(m) => i + o = j
            /\ \A j \in 1 .. i + o - 1 : queue[j] # RollbackTo(m)
        BY <3>0, <4>1 DEF NamesInv
      <4>3. \A j \in 1 .. Len(next) : next[j] = queue[j + o] /\ j + o \in 1 .. Len(queue)
        BY <1>2, <4>1
      <4>4. \A j \in 1 .. Len(queue') : queue'[j] = Savepoint(m) => i = j
        BY <1>3, <4>1, <4>2, <4>3
      <4>5. \A j \in 1 .. i - 1 : queue'[j] # RollbackTo(m)
        <5> TAKE j \in 1 .. i - 1
        <5>1. j \in 1 .. Len(next) /\ j + o \in 1 .. i + o - 1
          BY <1>3, <3>3, <4>1
        <5>2. QED
          BY <1>3, <4>2, <4>3, <5>1
      <4>6. QED
        BY <2>2, <2>7, <3>1, <4>1, <4>4, <4>5
    <3>4. QED
      BY <3>2, <3>3 DEF NamesInv
  <2>8. searchPath' \in Paths /\ savepointPaths' \in Seq(Marks(Paths))
    <3>1. searchPath' = PathAfter(c, P, savepointPaths) /\ savepointPaths' = MarksAfter(c, P, savepointPaths)
      BY <1>3, <1>10
    <3>2. PathAfter(c, P, savepointPaths) \in Paths
      BY <1>1, <2>1, PathAfterFacts
    <3>3. MarksAfter(c, P, savepointPaths) \in Seq(Marks(Paths))
      BY <1>1, <2>1, MarksAfterFacts
    <3>4. QED
      BY <3>1, <3>2, <3>3
  <2>9. QED
    BY <1>1, <1>2, <1>3, <2>4, <2>5, <2>6, <2>7, <2>8 DEF Clear
<1>11. QED
  BY <1>9, <1>10

(* The elements of a sequence with one more at its end. *)
LEMMA AppendFacts ==
    ASSUME NEW S, NEW w \in Seq(S), NEW e \in S
    PROVE  /\ Append(w, e) \in Seq(S) /\ Append(w, e) # <<>> /\ Len(w) \in Nat
           /\ Len(Append(w, e)) = Len(w) + 1 /\ Len(Append(w, e)) - 1 = Len(w)
           /\ Append(w, e)[Len(w) + 1] = e /\ Append(w, e)[Len(Append(w, e))] = e
           /\ \A i \in 1 .. Len(w) : Append(w, e)[i] = w[i]
           /\ \A i \in 1 .. Len(Append(w, e)) : i \in 1 .. Len(w) \/ i = Len(w) + 1
<1> DEFINE a == Append(w, e)
<1>1. a \in Seq(S) /\ Len(w) \in Nat /\ Len(a) = Len(w) + 1 /\ a[Len(w) + 1] = e
      /\ \A i \in 1 .. Len(w) : a[i] = w[i]
  OBVIOUS
<1> HIDE DEF a
<1>2. a # <<>> /\ Len(a) - 1 = Len(w) /\ a[Len(a)] = e
      /\ \A i \in 1 .. Len(a) : i \in 1 .. Len(w) \/ i = Len(w) + 1
  BY <1>1
<1>3. QED
  BY <1>1, <1>2 DEF a

(* The caller issues a statement, a savepoint under a new name, or a       *)
(* rollback to a savepoint it has named.                                   *)
LEMMA IssueKeeps ==
    ASSUME TypeOK, QueueInv, NEW work \in Works \ {End}, Issue(work),
           used \subseteq used', used' \subseteq Names
    PROVE  /\ TypeOK' /\ QueueInv'
           /\ /\ NamesInv /\ ForecastInv
              /\ \A m \in Names : /\ work = Savepoint(m) => m \notin used /\ m \in used'
                                  /\ work = RollbackTo(m) => m \in used
              => NamesInv' /\ ForecastInv'
<1> DEFINE Fresh == /\ NamesInv /\ ForecastInv
                    /\ \A m \in Names : /\ work = Savepoint(m) => m \notin used /\ m \in used'
                                        /\ work = RollbackTo(m) => m \in used
<1>1. /\ queue \in Seq(Works) /\ savepointPaths \in Seq(Marks(Paths)) /\ saves \in Seq(Marks(Schemas))
      /\ wire \in Seq(Sent) /\ searchPath \in Paths /\ path \in Schemas
      /\ ending \in {"no", "asked", "sent", "done"} /\ tx \in {"open", "aborted", "over"}
      /\ issued \in 0 .. MaxWork /\ errors \in 0 .. MaxErrors
      /\ QueueInv
  BY TypeIs
<1>2. issued' \in 0 .. MaxWork /\ UNCHANGED <<ending, tx, path, saves, errors>>
  BY <1>1, TenantSchemaAssumption DEF Issue, server
<1>3. Fresh => \A m \in Names \ used' : m \in Names \ used /\ work \notin {Savepoint(m), RollbackTo(m)}
  OBVIOUS
<1>4. CASE queue # <<>>
  <2>1. queue' = Append(queue, work) /\ UNCHANGED <<wire, searchPath, savepointPaths>>
    BY <1>4 DEF Issue
  <2> DEFINE n == Len(queue)
  <2>2. /\ queue' \in Seq(Works) /\ queue' # <<>> /\ Head(queue') = Head(queue)
        /\ n \in Nat \ {0} /\ Len(queue') = n + 1 /\ queue'[n + 1] = work
        /\ \A i \in 1 .. n : queue'[i] = queue[i]
    BY <1>1, <1>4, <2>1
  <2> HIDE DEF n
  <2>3. QueueInv'
    <3>1. \A i \in 1 .. Len(queue') : queue'[i] = End => i \in 1 .. n /\ queue[i] = End
      BY <2>2
    <3>2. QED
      BY <1>1, <1>2, <1>4, <2>1, <2>2, <3>1 DEF QueueInv, n
  <2>4. ASSUME Fresh PROVE NamesInv'
    <3>1. ASSUME NEW m \in Names \ used'
          PROVE  /\ Unsent(m, wire', savepointPaths', saves')
                 /\ \A i \in 1 .. Len(queue') : queue'[i] \notin {Savepoint(m), RollbackTo(m)}
      BY <1>1, <1>2, <1>3, <2>1, <2>2, <2>4 DEF NamesInv, n
    <3>2. ASSUME NEW m \in Names, NEW i \in 2 .. Len(queue'), queue'[i] = Savepoint(m)
          PROVE  /\ Unsent(m, wire', savepointPaths', saves')
                 /\ \A j \in 1 .. Len(queue') : queue'[j] = Savepoint(m) => i = j
                 /\ \A j \in 1 .. i - 1 : queue'[j] # RollbackTo(m)
      <4>1. CASE i \in 1 .. n
        <5>1. i \in 2 .. n /\ queue[i] = Savepoint(m) /\ i - 1 \in 1 .. n
          BY <2>2, <3>2, <4>1
        <5>2. work # Savepoint(m)
          BY <1>1, <2>4, <5>1 DEF NamesInv, n
        <5>3. Unsent(m, wire, savepointPaths, saves)
              /\ (\A j \in 1 .. n : queue[j] = Savepoint(m) => i = j)
              /\ \A j \in 1 .. i - 1 : queue[j] # RollbackTo(m)
          BY <1>1, <2>4, <5>1 DEF NamesInv, n
        <5>4. QED
          BY <1>2, <2>1, <2>2, <5>1, <5>2, <5>3
      <4>2. CASE i = n + 1
        <5>1. work = Savepoint(m) /\ m \in Names \ used
          BY <2>2, <2>4, <3>2, <4>2
        <5>2. Unsent(m, wire, savepointPaths, saves)
              /\ \A j \in 1 .. n : queue[j] \notin {Savepoint(m), RollbackTo(m)}
          BY <1>1, <2>4, <5>1 DEF NamesInv, n
        <5>3. QED
          BY <1>2, <2>1, <2>2, <4>2, <5>2
      <4>3. QED
        BY <2>2, <4>1, <4>2
    <3>3. QED
      BY <3>1, <3>2 DEF NamesInv
  <2>5. TypeOK'
    BY <1>1, <1>2, <2>1, <2>2, TypeIs DEF TypeOK, Marks, Works, Sent, Commands
  <2>6. ASSUME Fresh PROVE ForecastInv'
    BY <1>1, <1>2, <2>1, <2>6 DEF ForecastInv
  <2>7. QED
    BY <2>3, <2>4, <2>5, <2>6
<1>5. CASE queue = <<>>
  <2> DEFINE c == FirstOf(work, searchPath)
             b == Elsewhere(work, searchPath)
  <2>1. /\ queue' = IF b THEN <<work>> ELSE <<>>
        /\ wire' = Append(wire, [cmd |-> c, queued |-> b])
        /\ searchPath' = PathAfter(c, searchPath, savepointPaths)
        /\ savepointPaths' = MarksAfter(c, searchPath, savepointPaths)
    BY <1>5 DEF Issue, Send
  <2>2. /\ c \in Commands /\ b \in BOOLEAN /\ work # End
        /\ c.kind = "statement" => c.schema = searchPath
        /\ c.kind = "savepoint" => c.name \in Names /\ work = Savepoint(c.name)
        /\ b => work.kind = "statement" /\ c = Switch(work.schema)
        /\ ~b => c = work /\ c.kind # "switch"
        /\ \A m : c \in {Savepoint(m), RollbackTo(m)} => work = c
    BY <1>1, FirstOfFacts, Kinds DEF Elsewhere
  <2> HIDE DEF c, b
  <2>3. ASSUME Fresh, c.kind = "savepoint" PROVE Unsent(c.name, wire, savepointPaths, saves)
    BY <2>2, <2>3 DEF NamesInv
  <2>4. ASSUME Fresh PROVE ForecastInv'
    BY <1>1, <1>2, <2>1, <2>2, <2>3, <2>4, SendKeeps DEF ForecastInv
  <2>5. [cmd |-> c, queued |-> b] \in Sent
    BY <2>2 DEF Sent
  <2>6. /\ wire' \in Seq(Sent) /\ Len(wire) \in Nat /\ Len(wire') = Len(wire) + 1
        /\ Len(wire') - 1 = Len(wire)
        /\ wire'[Len(wire')] = [cmd |-> c, queued |-> b] /\ wire' # <<>>
        /\ \A i \in 1 .. Len(wire) : wire'[i] = wire[i]
    BY <1>1, <2>1, <2>5, AppendFacts
  <2>7. queue' \in Seq(Works) /\ (b => Head(queue') = work /\ Len(queue') = 1 /\ queue'[1] = work)
        /\ (~b => queue' = <<>>) /\ (b => queue' # <<>>)
    BY <2>1
  <2>8. QueueInv'
    <3>1. \A i \in 1 .. Len(wire) : ~wire[i].queued /\ wire[i].cmd.kind # "switch"
      BY <1>1, <1>5 DEF QueueInv
    <3>2. \A i \in 1 .. Len(wire') : ~wire'[i].queued => wire'[i].cmd.kind # "switch"
      BY <2>2, <2>6, <3>1
    <3>3. \A i \in 1 .. Len(queue') : queue'[i] # End
      BY <2>2, <2>7
    <3>4. b => \A i \in 1 .. Len(wire') - 1 : ~wire'[i].queued
      BY <2>6, <3>1
    <3>5. ~b => \A i \in 1 .. Len(wire') : ~wire'[i].queued
      BY <2>6, <3>1
    <3>6. QED
      BY <2>2, <2>6, <2>7, <3>2, <3>3, <3>4, <3>5 DEF QueueInv
  <2>9. ASSUME Fresh PROVE NamesInv'
    <3>1. ASSUME NEW m \in Names \ used' PROVE Unsent(m, wire', savepointPaths', saves')
      <4>1. Unsent(m, wire, savepointPaths, saves) /\ c \notin {Savepoint(m), RollbackTo(m)}
        BY <1>1, <1>3, <2>2, <2>9 DEF NamesInv
      <4>2. QED
        BY <1>1, <1>2, <2>1, <2>2, <4>1, SendNames
    <3>2. \A m \in Names \ used' : \A i \in 1 .. Len(queue') :
             queue'[i] \notin {Savepoint(m), RollbackTo(m)}
      BY <1>3, <2>7, <2>9
    <3>3. \A i \in 2 .. Len(queue') : FALSE
      <4>1. b => Len(queue') = 1
        BY <2>7
      <4>2. ~b => Len(queue') = 0
        <5>1. Len(<<>>) = 0
          OBVIOUS
        <5>2. QED
          BY <2>7, <5>1
      <4>3. CASE b
        <5>1. Len(queue') = 1
          BY <4>1, <4>3
        <5>2. QED
          BY <5>1
      <4>4. CASE ~b
        <5>1. Len(queue') = 0
          BY <4>2, <4>4
        <5>2. QED
          BY <5>1
      <4>5. QED
        BY <4>3, <4>4
    <3>4. QED
      BY <3>1, <3>2, <3>3 DEF NamesInv
  <2>10. searchPath' \in Paths /\ savepointPaths' \in Seq(Marks(Paths))
    BY <1>1, <2>1, <2>2, PathAfterFacts, MarksAfterFacts
  <2>11. TypeOK'
    BY <1>1, <1>2, <2>6, <2>7, <2>10, TypeIs DEF TypeOK, Marks, Works, Sent, Commands
  <2>12. QED
    BY <2>4, <2>8, <2>9, <2>11
<1>6. QED
  BY <1>4, <1>5

(* The caller asks for the end. *)
LEMMA AskEndKeeps ==
    ASSUME TypeOK, QueueInv, AskEnd
    PROVE  TypeOK' /\ QueueInv' /\ (NamesInv /\ ForecastInv => NamesInv' /\ ForecastInv')
<1>1. /\ queue \in Seq(Works) /\ savepointPaths \in Seq(Marks(Paths)) /\ saves \in Seq(Marks(Schemas))
      /\ wire \in Seq(Sent) /\ searchPath \in Paths /\ path \in Schemas
      /\ tx \in {"open", "aborted", "over"} /\ used \subseteq Names
      /\ issued \in 0 .. MaxWork /\ errors \in 0 .. MaxErrors
      /\ QueueInv
  BY TypeIs
<1>2. /\ ending = "no" /\ ending' \in {"sent", "asked"}
      /\ UNCHANGED <<searchPath, savepointPaths, tx, path, saves, used, issued, errors>>
  BY DEF AskEnd, server
<1>3. /\ End \in Commands /\ End \in Works /\ [cmd |-> End, queued |-> FALSE] \in Sent
      /\ End.kind = "end" /\ \A m : End \notin {Savepoint(m), RollbackTo(m)}
  BY DEF Commands, Works, Sent, End, Savepoint, RollbackTo
<1>4. CASE queue = <<>>
  <2>1. wire' = Append(wire, [cmd |-> End, queued |-> FALSE]) /\ queue' = <<>>
    BY <1>4 DEF AskEnd
  <2>2. /\ wire' \in Seq(Sent)
        /\ \A i \in 1 .. Len(wire') : \/ i \in 1 .. Len(wire) /\ wire'[i] = wire[i]
                                      \/ wire'[i] = [cmd |-> End, queued |-> FALSE]
    BY <1>1, <1>3, <2>1
  <2>3. PathAfter(End, searchPath, savepointPaths) = searchPath
        /\ MarksAfter(End, searchPath, savepointPaths) = savepointPaths
    BY DEF PathAfter, MarksAfter, End
  <2>4. ASSUME ForecastInv PROVE ForecastInv'
    <3>1. Foretold(Append(wire, [cmd |-> End, queued |-> FALSE]), PathAfter(End, searchPath, savepointPaths),
                   MarksAfter(End, searchPath, savepointPaths), tx, path, saves)
      BY <1>1, <1>3, <2>4, SendKeeps DEF ForecastInv
    <3>2. QED
      BY <1>2, <2>1, <2>3, <3>1 DEF ForecastInv
  <2>5. QueueInv'
    <3>1. \A i \in 1 .. Len(wire') : ~wire'[i].queued /\ wire'[i].cmd.kind # "switch"
      <4>1. \A i \in 1 .. Len(wire) : ~wire[i].queued /\ wire[i].cmd.kind # "switch"
        BY <1>1, <1>4 DEF QueueInv
      <4>2. QED
        BY <1>3, <2>2, <4>1
    <3>2. QED
      BY <2>1, <3>1 DEF QueueInv
  <2>6. ASSUME NamesInv PROVE NamesInv'
    <3>1. ASSUME NEW m \in Names \ used PROVE Unsent(m, wire', savepointPaths', saves')
      <4>1. Unsent(m, wire, savepointPaths, saves)
        BY <2>6, <3>1 DEF NamesInv
      <4>2. \A i \in 1 .. Len(wire') : wire'[i].cmd \notin {Savepoint(m), RollbackTo(m)}
        BY <1>3, <2>2, <4>1 DEF Unsent
      <4>3. QED
        BY <1>2, <4>1, <4>2 DEF Unsent
    <3>2. QED
      <4>1. queue' = <<>> /\ used' = used
        BY <1>2, <2>1
      <4>2. QED
        BY <2>6, <3>1, <4>1 DEF NamesInv
  <2>7. TypeOK'
    BY <1>1, <1>2, <2>1, <2>2 DEF TypeOK, Marks, Works, Sent, Commands
  <2>8. QED
    BY <2>4, <2>5, <2>6, <2>7
<1>5. CASE queue # <<>>
  <2>1. queue' = Append(queue, End) /\ wire' = wire /\ ending' = "asked"
    BY <1>5 DEF AskEnd
  <2> DEFINE n == Len(queue)
  <2>2. /\ queue' \in Seq(Works) /\ queue' # <<>> /\ Head(queue') = Head(queue)
        /\ n \in Nat \ {0} /\ Len(queue') = n + 1 /\ queue'[n + 1] = End
        /\ \A i \in 1 .. n : queue'[i] = queue[i]
    BY <1>1, <1>3, <1>5, <2>1
  <2> HIDE DEF n
  <2>3. \A i \in 1 .. n : queue[i] # End
    BY <1>1, <1>2 DEF QueueInv, n
  <2>4. QueueInv'
    <3>1. \A i, j \in 1 .. Len(queue') : queue'[i] = End /\ queue'[j] = End => i = j
      BY <2>2, <2>3
    <3>2. QED
      BY <1>1, <1>5, <2>1, <2>2, <3>1 DEF QueueInv
  <2>5. ASSUME NamesInv PROVE NamesInv'
    <3>1. \A m \in Names \ used : \A i \in 1 .. Len(queue') :
             queue'[i] \notin {Savepoint(m), RollbackTo(m)}
      <4> TAKE m \in Names \ used
      <4>1. \A i \in 1 .. n : queue[i] \notin {Savepoint(m), RollbackTo(m)}
        BY <2>5 DEF NamesInv, n
      <4>2. QED
        BY <1>3, <2>2, <4>1
    <3>2. ASSUME NEW m \in Names, NEW i \in 2 .. Len(queue'), queue'[i] = Savepoint(m)
          PROVE  /\ Unsent(m, wire, savepointPaths, saves)
                 /\ \A j \in 1 .. Len(queue') : queue'[j] = Savepoint(m) => i = j
                 /\ \A j \in 1 .. i - 1 : queue'[j] # RollbackTo(m)
      <4>1. i \in 2 .. n /\ queue[i] = Savepoint(m) /\ \A j \in 1 .. i - 1 : j \in 1 .. n
        BY <1>3, <2>2, <3>2
      <4>2. Unsent(m, wire, savepointPaths, saves)
            /\ (\A j \in 1 .. n : queue[j] = Savepoint(m) => i = j)
            /\ \A j \in 1 .. i - 1 : queue[j] # RollbackTo(m)
        BY <2>5, <4>1 DEF NamesInv, n
      <4>3. QED
        BY <1>3, <2>2, <4>1, <4>2
    <3>3. QED
      BY <1>1, <1>2, <2>1, <2>5, <3>1, <3>2 DEF NamesInv
  <2>6. TypeOK'
    BY <1>1, <1>2, <2>1, <2>2 DEF TypeOK, Marks, Works, Sent, Commands
  <2>7. QED
    BY <1>1, <1>2, <2>1, <2>4, <2>5, <2>6 DEF ForecastInv
<1>6. QED
  BY <1>4, <1>5

-----------------------------------------------------------------------------
(* The answer to a command sent directly takes it off the wire. *)
LEMMA DirectKeeps ==
    ASSUME TypeOK, QueueInv, wire # <<>>, ~Queued, Cmd # End, NEW ok, AnswerDirect(ok),
           \/ ~MustFail /\ Runs
           \/ tx' = (IF tx = "open" THEN "aborted" ELSE tx) /\ UNCHANGED <<path, saves>>,
           UNCHANGED <<used, issued>>, errors' \in 0 .. MaxErrors
    PROVE  TypeOK' /\ QueueInv' /\ (NamesInv /\ ForecastInv => NamesInv' /\ ForecastInv')
<1>1. /\ queue \in Seq(Works) /\ savepointPaths \in Seq(Marks(Paths)) /\ wire \in Seq(Sent)
      /\ searchPath \in Paths /\ ending \in {"no", "asked", "sent", "done"}
      /\ used \subseteq Names /\ issued \in 0 .. MaxWork /\ tx \in {"open", "aborted", "over"}
  BY TypeIs
<1>2. /\ wire' = Tail(wire) /\ searchPath' \in {Unknown, searchPath}
      /\ UNCHANGED <<savepointPaths, queue, ending>>
  BY DEF AnswerDirect, Rest
<1> DEFINE n == Len(wire)
<1>3. /\ n \in Nat \ {0} /\ Len(wire') = n - 1 /\ wire' \in Seq(Sent)
      /\ \A i \in 1 .. n - 1 : wire'[i] = wire[i + 1]
      /\ ~wire[1].queued
  BY <1>1, <1>2 DEF Queued
<1> HIDE DEF n
<1>4. QueueInv'
  <2>1. CASE queue = <<>>
    BY <1>2, <1>3, <2>1 DEF QueueInv, n
  <2>2. CASE queue # <<>>
    <3>1. wire[n].queued /\ \A i \in 1 .. n - 1 : ~wire[i].queued
      BY <2>2 DEF QueueInv, n
    <3>2. n - 1 \in Nat \ {0} /\ wire'[n - 1] = wire[n] /\ \A i \in 1 .. n - 2 : ~wire'[i].queued
      BY <1>3, <3>1
    <3>3. wire' # <<>> /\ Len(wire') - 1 = n - 2
      BY <1>3, <3>2
    <3>4. \A i \in 1 .. Len(wire') : ~wire'[i].queued => wire'[i].cmd.kind # "switch"
      BY <1>3 DEF QueueInv, n
    <3>5. QED
      BY <1>2, <1>3, <2>2, <3>1, <3>2, <3>3, <3>4 DEF QueueInv, n
  <2>3. QED
    BY <2>1, <2>2
<1>5. TypeOK'
  <2>1. path' \in Schemas /\ saves' \in Seq(Marks(Schemas)) /\ tx' \in {"open", "aborted", "over"}
    BY RunType
  <2>2. QED
    BY <1>1, <1>2, <1>3, <2>1 DEF TypeOK, Marks, Works, Sent, Commands, Paths
<1>6. ASSUME ForecastInv PROVE ForecastInv'
  <2>1. Foretold(Tail(wire), searchPath', savepointPaths, tx', path', saves')
    BY <1>2, <1>6, RunKeeps DEF ForecastInv
  <2>2. QED
    BY <1>2, <2>1 DEF ForecastInv
<1>7. ASSUME NamesInv PROVE NamesInv'
  <2>1. ASSUME NEW m, Unsent(m, wire, savepointPaths, saves)
        PROVE  Unsent(m, wire', savepointPaths', saves')
    BY <1>2, <2>1, RunNames
  <2>2. QED
    BY <1>2, <1>7, <2>1 DEF NamesInv
<1>8. QED
  BY <1>4, <1>5, <1>6, <1>7

(* A queued command is the only one on the wire. *)
LEMMA QueuedAlone ==
    ASSUME TypeOK, QueueInv, wire # <<>>, Queued
    PROVE  /\ queue # <<>> /\ Tail(wire) = <<>> /\ Head(queue) \in Works /\ Cmd # End
           /\ Cmd.kind = "switch" => Head(queue).kind = "statement" /\ Cmd = Switch(Head(queue).schema)
<1>1. wire \in Seq(Sent) /\ queue \in Seq(Works) /\ Len(wire) \in Nat \ {0}
      /\ wire[1].queued /\ Cmd = wire[1].cmd
  BY TypeIs DEF Queued, Cmd
<1>2. queue # <<>>
  BY <1>1 DEF QueueInv
<1>3. Tail(wire) = <<>> /\ Len(wire) = 1
  <2>1. \A i \in 1 .. Len(wire) - 1 : ~wire[i].queued
    BY <1>2 DEF QueueInv
  <2>2. Len(wire) = 1
    <3> SUFFICES ASSUME Len(wire) # 1 PROVE FALSE
      OBVIOUS
    <3>1. 1 \in 1 .. Len(wire) - 1
      <4> DEFINE n == Len(wire)
      <4>1. n \in Nat \ {0} /\ n # 1
        BY <1>1
      <4> HIDE DEF n
      <4>2. 1 \in 1 .. n - 1
        BY <4>1
      <4>3. QED
        BY <4>2 DEF n
    <3>2. QED
      BY <1>1, <2>1, <3>1
  <2> DEFINE t == Tail(wire)
  <2>3. t \in Seq(Sent) /\ Len(t) = 0
    BY <1>1, <2>2
  <2> HIDE DEF t
  <2>4. t = <<>>
    BY <2>3
  <2>5. QED
    BY <2>2, <2>4 DEF t
<1>4. Head(queue) \in Works /\ Head(queue).kind # "switch"
  <2>1. Head(queue) \in Works
    BY <1>1, <1>2
  <2>2. QED
    BY <2>1, Kinds DEF Commands
<1>5. /\ Head(queue) # End
      /\ \/ Cmd = Head(queue)
         \/ Head(queue).kind = "statement" /\ Cmd = Switch(Head(queue).schema)
  BY <1>1, <1>2, <1>3 DEF QueueInv
<1>6. Switch(Head(queue).schema) # End
  BY DEF Switch, End
<1>7. QED
  BY <1>2, <1>3, <1>4, <1>5, <1>6

(* The answer to a command of the queue: its statement follows its switch, *)
(* or the next work starts.                                                *)
LEMMA HeadKeeps ==
    ASSUME TypeOK, QueueInv, wire # <<>>, Queued, NEW ok \in BOOLEAN, AnswerHead(ok),
           \/ ~MustFail /\ Runs
           \/ ok = FALSE /\ tx' = (IF tx = "open" THEN "aborted" ELSE tx) /\ UNCHANGED <<path, saves>>,
           UNCHANGED <<used, issued>>, errors' \in 0 .. MaxErrors
    PROVE  TypeOK' /\ QueueInv' /\ (NamesInv /\ ForecastInv => NamesInv' /\ ForecastInv')
<1>1. /\ queue \in Seq(Works) /\ savepointPaths \in Seq(Marks(Paths)) /\ wire \in Seq(Sent)
      /\ searchPath \in Paths /\ ending \in {"no", "asked", "sent", "done"}
      /\ used \subseteq Names /\ issued \in 0 .. MaxWork /\ tx \in {"open", "aborted", "over"}
  BY TypeIs
<1>2. /\ queue # <<>> /\ Tail(wire) = <<>> /\ Head(queue) \in Works /\ Cmd # End
      /\ Cmd.kind = "switch" => Head(queue).kind = "statement" /\ Cmd = Switch(Head(queue).schema)
  BY QueuedAlone
<1>3. path' \in Schemas /\ saves' \in Seq(Marks(Schemas)) /\ tx' \in {"open", "aborted", "over"}
  BY RunType
<1>4. ASSUME NEW m, Unsent(m, wire, savepointPaths, saves)
      PROVE  Unsent(m, <<>>, savepointPaths, saves')
  BY <1>2, <1>4, RunNames
<1>5. ASSUME ForecastInv, NEW S \in {Unknown, searchPath}
      PROVE  Foretold(<<>>, S, savepointPaths, tx', path', saves')
  BY <1>2, <1>5, RunKeeps DEF ForecastInv
<1>6. CASE Cmd.kind = "switch" /\ ok
  <2> DEFINE s == Head(queue).schema
             c == Head(queue)
  <2>1. /\ c.kind = "statement" /\ s \in Schemas /\ Cmd.schema = s /\ c \in Commands
        /\ [cmd |-> c, queued |-> TRUE] \in Sent /\ c # End
        /\ \A m : c \notin {Savepoint(m), RollbackTo(m)}
    <3>1. c \in Commands /\ c.kind = "statement" /\ Cmd.schema = s
      BY <1>2, <1>6 DEF Commands, Switch
    <3>2. QED
      BY <3>1, Kinds DEF Sent, End, Savepoint, RollbackTo, Statement
  <2>2. /\ searchPath' = s /\ UNCHANGED <<savepointPaths, queue, ending>>
        /\ wire' = Append(<<>>, [cmd |-> c, queued |-> TRUE])
    BY <1>2, <1>6, <2>1 DEF AnswerHead, Rest
  <2>3. tx' = "open" => path' = s
    <3>1. ~MustFail /\ Runs
      BY <1>6
    <3>2. QED
      BY <1>6, <2>1, <3>1 DEF Runs
  <2> HIDE DEF s, c
  <2>4. /\ wire' \in Seq(Sent) /\ Len(wire') = 1 /\ wire' # <<>>
        /\ wire'[1] = [cmd |-> c, queued |-> TRUE]
    BY <2>1, <2>2
  <2>5. QueueInv'
    <3>1. wire'[Len(wire')].queued /\ wire'[Len(wire')].cmd = c
          /\ (\A i \in 1 .. Len(wire') - 1 : FALSE)
          /\ \A i \in 1 .. Len(wire') : wire'[i].queued
      BY <2>4
    <3>2. QED
      BY <1>2, <2>1, <2>2, <2>4, <3>1 DEF QueueInv, c
  <2>6. TypeOK'
    BY <1>1, <1>3, <2>1, <2>2, <2>4 DEF TypeOK, Marks, Works, Sent, Commands, Paths
  <2>7. ASSUME ForecastInv PROVE ForecastInv'
    <3>1. Foretold(<<>>, s, savepointPaths, tx', path', saves')
      <4>1. Foretold(<<>>, searchPath, savepointPaths, tx', path', saves')
        BY <1>5, <2>7
      <4>2. PICK G \in [1 .. Len(<<>>) + 1 -> Paths], h \in [Names -> Paths] :
               Forecast(<<>>, searchPath, savepointPaths, tx', path', saves', G, h)
        BY <4>1 DEF Foretold
      <4> DEFINE G2 == [i \in 1 .. Len(<<>>) + 1 |-> s]
      <4>3. Len(<<>>) = 0 /\ s \in Paths
        BY <2>1 DEF Paths
      <4>4. G2 \in [1 .. Len(<<>>) + 1 -> Paths] /\ G2[1] = s /\ G2[Len(<<>>) + 1] = s
        BY <4>3
      <4> HIDE DEF G2
      <4>5. Forecast(<<>>, s, savepointPaths, tx', path', saves', G2, h)
        BY <2>3, <4>2, <4>3, <4>4 DEF Forecast
      <4>6. QED
        BY <4>4, <4>5 DEF Foretold
    <3>2. PathAfter(c, s, savepointPaths) = s /\ MarksAfter(c, s, savepointPaths) = savepointPaths
      BY <2>1 DEF PathAfter, MarksAfter
    <3>3. <<>> \in Seq(Sent) /\ s \in Paths /\ c.schema = s
      BY <2>1 DEF Paths, s, c
    <3>4. Foretold(Append(<<>>, [cmd |-> c, queued |-> TRUE]), PathAfter(c, s, savepointPaths),
                   MarksAfter(c, s, savepointPaths), tx', path', saves')
      BY <1>1, <1>3, <2>1, <3>1, <3>3, SendKeeps
    <3>5. QED
      BY <2>2, <3>2, <3>4 DEF ForecastInv
  <2>8. ASSUME NamesInv PROVE NamesInv'
    <3>1. ASSUME NEW m, Unsent(m, wire, savepointPaths, saves)
          PROVE  Unsent(m, wire', savepointPaths', saves')
      <4>1. \A i \in 1 .. Len(wire') : wire'[i].cmd = c
        BY <2>4
      <4>2. QED
        BY <1>4, <2>1, <2>2, <3>1, <4>1 DEF Unsent
    <3>2. QED
      BY <2>2, <2>8, <3>1 DEF NamesInv
  <2>9. QED
    BY <2>5, <2>6, <2>7, <2>8
<1>7. CASE ~(Cmd.kind = "switch" /\ ok)
  <2> DEFINE P == IF Cmd.kind = "rollbackTo" /\ ~ok THEN Unknown ELSE searchPath
  <2>1. Advance(P, <<>>) /\ P \in {Unknown, searchPath} /\ P \in Paths
    BY <1>1, <1>2, <1>7 DEF AnswerHead, Rest, Paths
  <2> HIDE DEF P
  <2>2. /\ searchPath' \in Paths /\ savepointPaths' \in Seq(Marks(Paths))
        /\ queue' \in Seq(Works) /\ wire' \in Seq(Sent)
        /\ ending' \in {"no", "asked", "sent", "done"}
        /\ QueueInv'
        /\ NamesInv /\ ForecastInv => NamesInv' /\ ForecastInv'
    BY <1>2, <1>3, <1>4, <1>5, <2>1, AdvanceKeeps
  <2>3. TypeOK'
    BY <1>1, <1>3, <2>2 DEF TypeOK, Marks, Works, Sent, Commands
  <2>4. QED
    BY <2>2, <2>3
<1>8. QED
  BY <1>6, <1>7

(* The answer to the end: what the client knew is forgotten, and nothing of *)
(* the queue is left but a work whose switch is under way.                  *)
LEMMA EndKeeps ==
    ASSUME TypeOK, QueueInv, wire # <<>>, Cmd = End, ~MustFail, Runs, AnswerEnd,
           UNCHANGED <<used, issued, errors>>
    PROVE  TypeOK' /\ QueueInv' /\ (NamesInv /\ ForecastInv => NamesInv' /\ ForecastInv')
<1>1. /\ queue \in Seq(Works) /\ wire \in Seq(Sent) /\ path \in Schemas
      /\ used \subseteq Names /\ issued \in 0 .. MaxWork /\ errors \in 0 .. MaxErrors
  BY TypeIs
<1>2. /\ ending' = "done" /\ wire' = Tail(wire) /\ searchPath' = Unknown /\ savepointPaths' = <<>>
      /\ tx' = "over" /\ path' = Public /\ saves' = <<>>
      /\ UNCHANGED <<used, issued, errors>>
      /\ queue' = IF queue = <<>> THEN <<>> ELSE <<Head(queue)>>
  BY DEF AnswerEnd, Rest, Runs, End
<1> DEFINE n == Len(wire)
<1>3. /\ n \in Nat \ {0} /\ Len(wire') = n - 1 /\ wire' \in Seq(Sent) /\ (n - 1) + 1 = n
      /\ \A i \in 1 .. n - 1 : wire'[i] = wire[i + 1] /\ i + 1 \in 1 .. n
      /\ Cmd = wire[1].cmd
      /\ ~wire[1].queued
  <2>1. ~Queued
    BY QueuedAlone
  <2>2. QED
    BY <1>1, <1>2, <2>1 DEF Queued, Cmd
<1> HIDE DEF n
<1>4. queue # <<>> => Head(queue) \in Works /\ Len(queue) \in Nat \ {0}
  BY <1>1
<1>5. QueueInv'
  <2>1. \A i \in 1 .. Len(wire') : ~wire'[i].queued => wire'[i].cmd.kind # "switch"
    BY <1>3 DEF QueueInv, n
  <2>2. CASE queue = <<>>
    <3>1. queue' = <<>>
      BY <1>2, <2>2
    <3>2. QED
      BY <1>3, <2>1, <2>2, <3>1 DEF QueueInv, n
  <2>3. CASE queue # <<>>
    <3>1. /\ wire[n].queued /\ Head(queue) # End /\ \A i \in 1 .. n - 1 : ~wire[i].queued
          /\ \/ wire[n].cmd = Head(queue)
             \/ Head(queue).kind = "statement" /\ wire[n].cmd = Switch(Head(queue).schema)
      BY <2>3 DEF QueueInv, n
    <3>2. n - 1 \in Nat \ {0} /\ wire'[n - 1] = wire[n] /\ \A i \in 1 .. n - 2 : ~wire'[i].queued
      BY <1>3, <3>1
    <3>3. wire' # <<>> /\ Len(wire') - 1 = n - 2
      BY <1>3, <3>2
    <3> DEFINE e == Head(queue)
    <3>4. queue' = <<e>>
      BY <1>2, <2>3
    <3> HIDE DEF e
    <3>5. queue' # <<>> /\ Head(queue') = e /\ Len(queue') = 1 /\ queue'[1] = e
      BY <3>4
    <3>6. QED
      BY <1>3, <2>1, <3>1, <3>2, <3>3, <3>5 DEF QueueInv, e
  <2>4. QED
    BY <2>2, <2>3
<1>6. TypeOK'
  <2>1. queue' \in Seq(Works)
    BY <1>2, <1>4
  <2>2. QED
    BY <1>1, <1>2, <1>3, <2>1, TenantSchemaAssumption DEF TypeOK, Marks, Works, Sent, Commands, Paths
<1>7. Len(saves') = 0 /\ Len(savepointPaths') = 0
  BY <1>2
<1>8. ASSUME ForecastInv PROVE ForecastInv'
  <2>1. PICK G \in [1 .. Len(wire) + 1 -> Paths], h \in [Names -> Paths] :
           Forecast(wire, searchPath, savepointPaths, tx, path, saves, G, h)
    BY <1>8 DEF ForecastInv, Foretold
  <2> DEFINE G2 == [i \in 1 .. n |-> G[i + 1]]
  <2>2. G2 \in [1 .. n -> Paths] /\ \A i \in 1 .. n : G2[i] = G[i + 1]
    BY <1>3 DEF n
  <2>3. \A i \in 1 .. n - 1 : Foreseen(wire'[i].cmd, G2[i], G2[i + 1], h)
    <3> TAKE i \in 1 .. n - 1
    <3>1. Foreseen(wire[i + 1].cmd, G[i + 1], G[(i + 1) + 1], h)
      BY <1>3, <2>1 DEF Forecast, n
    <3>2. wire'[i] = wire[i + 1] /\ G2[i] = G[i + 1] /\ G2[i + 1] = G[(i + 1) + 1]
      BY <1>3, <2>2
    <3>3. QED
      BY <3>1, <3>2
  <2> HIDE DEF G2
  <2>4. Forecast(wire', Unknown, savepointPaths', tx', path', saves', G2, h)
    BY <1>2, <1>3, <1>7, <2>1, <2>2, <2>3 DEF Forecast
  <2>5. QED
    BY <1>2, <1>3, <2>2, <2>4 DEF ForecastInv, Foretold
<1>9. ASSUME NamesInv PROVE NamesInv'
  <2>1. ASSUME NEW m, Unsent(m, wire, savepointPaths, saves)
        PROVE  Unsent(m, wire', savepointPaths', saves')
    BY <1>3, <1>7, <2>1 DEF Unsent, n
  <2>2. \A i \in 1 .. Len(queue') : queue'[i] = queue[i] /\ i = 1 /\ 1 \in 1 .. Len(queue)
    <3>1. CASE queue = <<>>
      <4>1. Len(queue') = 0
        BY <1>2, <3>1
      <4>2. QED
        BY <4>1
    <3>2. CASE queue # <<>>
      <4>1. queue' = <<queue[1]>> /\ Len(queue) \in Nat \ {0}
        BY <1>1, <1>2, <3>2
      <4>2. QED
        BY <4>1
    <3>3. QED
      BY <3>1, <3>2
  <2>3. \A i \in 2 .. Len(queue') : FALSE
    BY <2>2
  <2>4. QED
    BY <1>2, <1>9, <2>1, <2>2, <2>3 DEF NamesInv
<1>10. QED
  BY <1>5, <1>6, <1>8, <1>9

(* The transaction begins with nothing sent, on the schema the client named. *)
LEMMA SchemaInit == Init => TypeOK /\ QueueInv /\ NamesInv /\ ForecastInv
<1> SUFFICES ASSUME Init PROVE TypeOK /\ QueueInv /\ NamesInv /\ ForecastInv
  OBVIOUS
<1>1. /\ path \in Schemas /\ searchPath = path /\ savepointPaths = <<>> /\ queue = <<>>
      /\ ending = "no" /\ wire = <<>> /\ tx = "open" /\ saves = <<>>
      /\ used = {} /\ issued = 0 /\ errors = 0
  BY DEF Init
<1>2. Len(<<>>) = 0 /\ path \in Paths
  BY <1>1 DEF Paths
<1>3. TypeOK
  <2>1. \A S : <<>> \in Seq(S)
    OBVIOUS
  <2>2. QED
    BY <1>1, <1>2, <2>1, TenantSchemaAssumption DEF TypeOK
<1>4. QueueInv /\ NamesInv
  BY <1>1, <1>2 DEF QueueInv, NamesInv, Unsent
<1>5. ForecastInv
  <2> DEFINE G == [i \in 1 .. Len(wire) + 1 |-> path]
             h == [n \in Names |-> path]
  <2>1. Len(wire) = 0 /\ Len(savepointPaths) = 0 /\ Len(saves) = 0
    BY <1>1
  <2>2. G \in [1 .. Len(wire) + 1 -> Paths] /\ G[1] = path /\ G[Len(wire) + 1] = path
    BY <1>2, <2>1
  <2>3. h \in [Names -> Paths]
    BY <1>2
  <2> HIDE DEF G, h
  <2>4. Forecast(wire, searchPath, savepointPaths, tx, path, saves, G, h)
    BY <1>1, <2>1, <2>2, <2>3 DEF Forecast
  <2>5. QED
    BY <2>2, <2>3, <2>4 DEF ForecastInv, Foretold
<1>6. QED
  BY <1>3, <1>4, <1>5

(* Every step keeps the queue in order; while no savepoint name is used a  *)
(* second time, it keeps the forecast as well.                             *)
LEMMA SchemaNext ==
    ASSUME TypeOK, QueueInv, [Next]_vars
    PROVE  TypeOK' /\ QueueInv' /\ (Reuse = FALSE /\ NamesInv /\ ForecastInv => NamesInv' /\ ForecastInv')
<1>1. ASSUME NEW schema \in Schemas, IssueStatement(schema)
      PROVE  TypeOK' /\ QueueInv' /\ (NamesInv /\ ForecastInv => NamesInv' /\ ForecastInv')
  <2>1. Statement(schema) \in Works \ {End}
        /\ \A m : Statement(schema) \notin {Savepoint(m), RollbackTo(m)}
    BY DEF Works, Statement, End, Savepoint, RollbackTo
  <2>2. Issue(Statement(schema)) /\ used' = used /\ used \subseteq Names
    BY <1>1, TypeIs DEF IssueStatement
  <2>3. QED
    BY <2>1, <2>2, IssueKeeps
<1>2. ASSUME NEW name \in Names, IssueSavepoint(name)
      PROVE  TypeOK' /\ QueueInv' /\ (Reuse = FALSE /\ NamesInv /\ ForecastInv => NamesInv' /\ ForecastInv')
  <2>1. Savepoint(name) \in Works \ {End}
        /\ \A m : Savepoint(name) # RollbackTo(m) /\ (Savepoint(name) = Savepoint(m) => m = name)
    BY DEF Works, End, Savepoint, RollbackTo
  <2>2. Issue(Savepoint(name)) /\ used' = used \cup {name} /\ used \subseteq Names
        /\ (Reuse = FALSE => name \notin used)
    BY <1>2, TypeIs DEF IssueSavepoint
  <2>3. QED
    BY <2>1, <2>2, IssueKeeps
<1>3. ASSUME NEW name \in Names, IssueRollbackTo(name)
      PROVE  TypeOK' /\ QueueInv' /\ (NamesInv /\ ForecastInv => NamesInv' /\ ForecastInv')
  <2>1. RollbackTo(name) \in Works \ {End}
        /\ \A m : RollbackTo(name) # Savepoint(m) /\ (RollbackTo(name) = RollbackTo(m) => m = name)
    BY DEF Works, End, Savepoint, RollbackTo
  <2>2. Issue(RollbackTo(name)) /\ used' = used /\ used \subseteq Names /\ name \in used
    BY <1>3, TypeIs DEF IssueRollbackTo
  <2>3. QED
    BY <2>1, <2>2, IssueKeeps
<1>4. CASE AskEnd
  BY <1>4, AskEndKeeps
<1>5. CASE Succeeds
  <2>1. /\ wire # <<>> /\ ~MustFail /\ Runs /\ UNCHANGED <<used, issued, errors>>
        /\ errors \in 0 .. MaxErrors
    BY <1>5, TypeIs DEF Succeeds
  <2>2. CASE Cmd = End
    BY <1>5, <2>1, <2>2, EndKeeps DEF Succeeds
  <2>3. CASE Cmd # End /\ Queued
    <3>1. AnswerHead(TRUE) /\ TRUE \in BOOLEAN
      BY <1>5, <2>3 DEF Succeeds, Answer
    <3>2. QED
      BY <2>1, <2>3, <3>1, HeadKeeps
  <2>4. CASE Cmd # End /\ ~Queued
    <3>1. AnswerDirect(TRUE)
      BY <1>5, <2>4 DEF Succeeds, Answer
    <3>2. QED
      BY <2>1, <2>4, <3>1, DirectKeeps
  <2>5. QED
    BY <2>2, <2>3, <2>4
<1>6. CASE Fails
  <2>1. /\ wire # <<>> /\ tx' = (IF tx = "open" THEN "aborted" ELSE tx)
        /\ UNCHANGED <<path, saves, used, issued>>
        /\ errors' \in 0 .. MaxErrors
    <3>1. errors \in 0 .. MaxErrors /\ MaxErrors \in Nat
      BY TypeIs, TenantSchemaAssumption
    <3>2. MustFail \/ errors < MaxErrors
      BY <1>6 DEF Fails
    <3>3. errors' = IF MustFail THEN errors ELSE errors + 1
      BY <1>6 DEF Fails
    <3>4. errors' \in 0 .. MaxErrors
      BY <3>1, <3>2, <3>3
    <3>5. QED
      BY <1>6, <3>4 DEF Fails
  <2>2. Cmd # End
    BY <1>6 DEF Fails, MustFail, End
  <2>3. CASE Queued
    <3>1. AnswerHead(FALSE) /\ FALSE \in BOOLEAN
      BY <1>6, <2>3 DEF Fails, Answer
    <3>2. QED
      BY <2>1, <2>3, <3>1, HeadKeeps
  <2>4. CASE ~Queued
    <3>1. AnswerDirect(FALSE)
      BY <1>6, <2>4 DEF Fails, Answer
    <3>2. QED
      BY <2>1, <2>2, <2>4, <3>1, DirectKeeps
  <2>5. QED
    BY <2>3, <2>4
<1>7. CASE UNCHANGED vars
  BY <1>7 DEF vars, client, server, TypeOK, QueueInv, NamesInv, ForecastInv
<1>8. QED
  BY <1>1, <1>2, <1>3, <1>4, <1>5, <1>6, <1>7 DEF Next

(* The queue and the wire agree, whatever names and ends the caller uses. *)
LEMMA QueueAlways == Spec => [](TypeOK /\ QueueInv)
<1>1. Init => TypeOK /\ QueueInv
  BY SchemaInit
<1>2. TypeOK /\ QueueInv /\ [Next]_vars => TypeOK' /\ QueueInv'
  BY SchemaNext
<1>3. QED
  BY <1>1, <1>2, PTL DEF Spec

(* A statement that is about to run, runs under the schema of its own       *)
(* tenant (PostgresDataSource.inTenantSchema), when no savepoint name is    *)
(* used twice and whatever else the tenants sent: the forecast names the    *)
(* statement's schema for the first command of the wire, and the server is  *)
(* where the forecast says.                                                 *)
THEOREM OwnSchema == ASSUME Reuse = FALSE PROVE Spec => []RunsInOwnSchema
<1>1. Init => SchemaInv
  BY SchemaInit DEF SchemaInv
<1>2. SchemaInv /\ [Next]_vars => SchemaInv'
  BY SchemaNext DEF SchemaInv
<1>3. SchemaInv => RunsInOwnSchema
  <2> SUFFICES ASSUME SchemaInv, wire # <<>>, Cmd.kind = "statement", tx = "open"
               PROVE  path = Cmd.schema
    BY DEF SchemaInv, RunsInOwnSchema
  <2>1. wire \in Seq(Sent) /\ 1 \in 1 .. Len(wire) /\ Cmd = wire[1].cmd
    BY TypeIs DEF SchemaInv, Cmd
  <2>2. PICK G \in [1 .. Len(wire) + 1 -> Paths], h \in [Names -> Paths] :
           Forecast(wire, searchPath, savepointPaths, tx, path, saves, G, h)
    BY DEF SchemaInv, ForecastInv, Foretold
  <2>3. G[1] \in {Unknown, path} /\ Foreseen(Cmd, G[1], G[1 + 1], h)
    BY <2>1, <2>2 DEF Forecast
  <2>4. G[1] = Cmd.schema /\ Cmd.schema \in Schemas
    BY <2>1, <2>3, SentFacts, Kinds DEF Foreseen
  <2>5. QED
    BY <2>3, <2>4, TenantSchemaAssumption
<1>4. QED
  BY <1>1, <1>2, <1>3, PTL DEF Spec

-----------------------------------------------------------------------------
(* Only the end ends the transaction, and nothing reopens it. *)
LEMMA OverStays ==
    ASSUME TypeOK, wire # <<>>, Cmd # End,
           \/ ~MustFail /\ Runs
           \/ tx' = (IF tx = "open" THEN "aborted" ELSE tx)
    PROVE  tx' = "over" <=> tx = "over"
<1>1. Cmd \in Commands
  <2>1. wire \in Seq(Sent)
    BY TypeIs
  <2>2. Len(wire) \in Nat /\ Len(wire) # 0
    BY <2>1
  <2>3. 1 \in 1 .. Len(wire) /\ Head(wire) = wire[1]
    BY <2>1, <2>2
  <2>4. QED
    BY <2>1, <2>3, SentFacts DEF Cmd
<1>2. CASE tx' = (IF tx = "open" THEN "aborted" ELSE tx)
  BY <1>2
<1>3. CASE ~MustFail /\ Runs /\ Cmd.kind = "rollbackTo"
  BY <1>3 DEF MustFail, Runs
<1>4. CASE Runs /\ Cmd.kind \in {"statement", "savepoint", "switch"}
  BY <1>4 DEF Runs, server
<1>5. QED
  BY <1>1, <1>2, <1>3, <1>4, Kinds

(* The head of the queue is done before the end was sent: the end waits    *)
(* behind what is left of the queue, or it is its turn.                    *)
LEMMA AdvanceEnds ==
    ASSUME TypeOK, QueueInv, EndInv, queue # <<>>, NEW P \in Paths, Advance(P, <<>>),
           tx' = "over" <=> tx = "over"
    PROVE  EndInv'
<1> DEFINE rest == Tail(queue)
           n == Len(queue)
           c == FirstOf(Head(rest), P)
<1>1. /\ queue \in Seq(Works) /\ ending \in {"no", "asked"} /\ Head(queue) # End /\ tx # "over"
      /\ ending = "no" => \A i \in 1 .. n : queue[i] # End
      /\ ending = "asked" => queue[n] = End
      /\ \A i, j \in 1 .. n : queue[i] = End /\ queue[j] = End => i = j
  BY TypeIs DEF EndInv, QueueInv
<1>2. /\ n \in Nat \ {0} /\ rest \in Seq(Works) /\ Len(rest) = n - 1 /\ Head(queue) = queue[1]
      /\ \A i \in 1 .. n - 1 : rest[i] = queue[i + 1] /\ i + 1 \in 1 .. n
      /\ rest # <<>> <=> n # 1
      /\ rest # <<>> => Head(rest) = rest[1] /\ Head(rest) \in Works
  <2>1. /\ n \in Nat \ {0} /\ rest \in Seq(Works) /\ Len(rest) = n - 1 /\ Head(queue) = queue[1]
        /\ \A i \in 1 .. n - 1 : rest[i] = queue[i + 1] /\ i + 1 \in 1 .. n
    BY <1>1
  <2> HIDE DEF rest, n
  <2>2. /\ rest # <<>> <=> Len(rest) # 0
        /\ rest # <<>> => Head(rest) = rest[1] /\ Head(rest) \in Works
    BY <2>1
  <2>3. QED
    BY <2>1, <2>2
<1>3. ASSUME rest # <<>>, Head(rest) # End PROVE c # End
  <2>1. CASE Elsewhere(Head(rest), P)
    BY <2>1 DEF FirstOf, Switch, End
  <2>2. CASE ~Elsewhere(Head(rest), P)
    BY <1>3, <2>2 DEF FirstOf
  <2>3. QED
    BY <2>1, <2>2
<1>4. CASE rest # <<>> /\ Head(rest) = End
  <2>1. ending = "asked" /\ n = 2
    BY <1>1, <1>2, <1>4
  <2>2. Tail(rest) = <<>>
    <3> DEFINE t == Tail(rest)
    <3> HIDE DEF rest
    <3>1. t \in Seq(Works) /\ Len(t) = 0
      BY <1>2, <1>4, <2>1
    <3> HIDE DEF t
    <3>2. t = <<>>
      BY <3>1
    <3>3. QED
      BY <3>2 DEF t
  <2>3. queue' = <<>> /\ ending' = "sent" /\ wire' = Append(<<>>, [cmd |-> End, queued |-> FALSE])
    BY <1>4, <2>2 DEF Advance
  <2>4. Len(wire') = 1 /\ wire'[1] = [cmd |-> End, queued |-> FALSE] /\ wire' # <<>>
    BY <2>3
  <2>5. wire'[Len(wire')].cmd = End /\ \A i \in 1 .. Len(wire') - 1 : FALSE
    BY <2>4
  <2>6. QED
    BY <1>1, <2>3, <2>4, <2>5 DEF EndInv
<1>5. CASE ~(rest # <<>> /\ Head(rest) = End)
  <2>1. queue' = rest /\ ending' = ending
    BY <1>5 DEF Advance
  <2>2. \A i \in 1 .. Len(wire') : wire'[i].cmd # End
    <3>1. CASE rest = <<>>
      <4>1. wire' = <<>>
        BY <1>5, <3>1 DEF Advance
      <4>2. QED
        BY <4>1
    <3>2. CASE rest # <<>>
      <4>1. wire' = Append(<<>>, [cmd |-> c, queued |-> TRUE])
        BY <1>5, <3>2 DEF Advance
      <4>2. c # End
        BY <1>3, <1>5, <3>2
      <4> HIDE DEF c
      <4>3. \A i \in 1 .. Len(wire') : wire'[i] = [cmd |-> c, queued |-> TRUE]
        <5>1. Len(wire') = 1 /\ wire'[1] = [cmd |-> c, queued |-> TRUE]
          BY <4>1
        <5>2. QED
          BY <5>1
      <4>4. QED
        BY <4>2, <4>3
    <3>3. QED
      BY <3>1, <3>2
  <2> HIDE DEF rest, n, c
  <2>3. ending = "no" => \A i \in 1 .. Len(queue') : queue'[i] # End
    BY <1>1, <1>2, <2>1
  <2>4. ending = "asked" => queue' # <<>> /\ queue'[Len(queue')] = End
    <3>1. ending = "asked" => n # 1
      BY <1>1, <1>2
    <3>2. ending = "asked" => n - 1 \in 1 .. n - 1 /\ (n - 1) + 1 = n
      BY <1>2, <3>1
    <3>3. QED
      BY <1>1, <1>2, <2>1, <3>1, <3>2
  <2>5. QED
    BY <1>1, <2>1, <2>2, <2>3, <2>4 DEF EndInv
<1>6. QED
  BY <1>4, <1>5

(* Nothing is issued after the end was asked for: the end stays last. *)
LEMMA EndNext ==
    ASSUME Late = FALSE, TypeOK, QueueInv, EndInv, [Next]_vars
    PROVE  EndInv'
<1>1. /\ queue \in Seq(Works) /\ wire \in Seq(Sent) /\ searchPath \in Paths
      /\ ending \in {"no", "asked", "sent", "done"}
  BY TypeIs
<1>2. ASSUME NEW work \in Works \ {End}, Issue(work) PROVE EndInv'
  <2>1. ending = "no" /\ ending' = "no" /\ tx' = tx
    BY <1>2 DEF Issue, server
  <2>2. (\A i \in 1 .. Len(wire) : wire[i].cmd # End) /\ (\A i \in 1 .. Len(queue) : queue[i] # End)
        /\ tx # "over"
    BY <2>1 DEF EndInv
  <2>3. \A i \in 1 .. Len(queue') : queue'[i] # End
    <3>1. CASE queue # <<>>
      <4>1. queue' = Append(queue, work)
        BY <1>2, <3>1 DEF Issue
      <4>2. QED
        BY <1>1, <2>2, <4>1
    <3>2. CASE queue' = <<work>>
      BY <3>2
    <3>3. CASE queue' = <<>>
      <4>1. Len(queue') = 0
        BY <3>3
      <4>2. QED
        BY <4>1
    <3>4. QED
      BY <1>2, <3>1, <3>2, <3>3 DEF Issue
  <2>4. \A i \in 1 .. Len(wire') : wire'[i].cmd # End
    <3>1. CASE queue # <<>>
      <4>1. wire' = wire
        BY <1>2, <3>1 DEF Issue
      <4>2. QED
        BY <2>2, <4>1
    <3>2. CASE queue = <<>>
      <4> DEFINE c == FirstOf(work, searchPath)
                 b == Elsewhere(work, searchPath)
      <4>1. wire' = Append(wire, [cmd |-> c, queued |-> b])
        BY <1>2, <3>2 DEF Issue, Send
      <4>2. c # End
        <5>1. CASE b
          BY <5>1 DEF FirstOf, Switch, End
        <5>2. CASE ~b
          BY <5>2 DEF FirstOf
        <5>3. QED
          BY <5>1, <5>2
      <4> HIDE DEF c, b
      <4>3. \A i \in 1 .. Len(wire') : \/ i \in 1 .. Len(wire) /\ wire'[i] = wire[i]
                                       \/ wire'[i] = [cmd |-> c, queued |-> b]
        BY <1>1, <4>1
      <4>4. QED
        BY <2>2, <4>2, <4>3
    <3>3. QED
      BY <3>1, <3>2
  <2>5. QED
    BY <2>1, <2>2, <2>3, <2>4 DEF EndInv
<1>3. ASSUME NEW schema \in Schemas, IssueStatement(schema) PROVE EndInv'
  <2>1. Statement(schema) \in Works \ {End}
    BY DEF Works, Statement, End
  <2>2. QED
    BY <1>2, <1>3, <2>1 DEF IssueStatement
<1>4. ASSUME NEW name \in Names, IssueSavepoint(name) \/ IssueRollbackTo(name) PROVE EndInv'
  <2>1. Savepoint(name) \in Works \ {End} /\ RollbackTo(name) \in Works \ {End}
    BY DEF Works, Savepoint, RollbackTo, End
  <2>2. QED
    BY <1>2, <1>4, <2>1 DEF IssueSavepoint, IssueRollbackTo
<1>5. CASE AskEnd
  <2>1. ending = "no" /\ tx' = tx
    BY <1>5 DEF AskEnd, server
  <2>2. (\A i \in 1 .. Len(wire) : wire[i].cmd # End) /\ tx # "over"
    BY <2>1 DEF EndInv
  <2>3. CASE queue = <<>>
    <3>1. ending' = "sent" /\ wire' = Append(wire, [cmd |-> End, queued |-> FALSE]) /\ queue' = <<>>
      BY <1>5, <2>3 DEF AskEnd
    <3>2. /\ wire' # <<>> /\ Len(wire') - 1 = Len(wire)
          /\ wire'[Len(wire')] = [cmd |-> End, queued |-> FALSE]
          /\ \A i \in 1 .. Len(wire) : wire'[i] = wire[i]
      <4>1. [cmd |-> End, queued |-> FALSE] \in Sent
        BY DEF Sent, Commands, Works
      <4>2. QED
        BY <1>1, <3>1, <4>1, AppendFacts
    <3>3. QED
      BY <2>1, <2>2, <3>1, <3>2 DEF EndInv
  <2>4. CASE queue # <<>>
    <3>1. ending' = "asked" /\ wire' = wire /\ queue' = Append(queue, End)
      BY <1>5, <2>4 DEF AskEnd
    <3>2. queue' # <<>> /\ queue'[Len(queue')] = End
      <4>1. End \in Works
        BY DEF Works
      <4>2. QED
        BY <1>1, <3>1, <4>1, AppendFacts
    <3>3. QED
      BY <2>1, <2>2, <3>1, <3>2 DEF EndInv
  <2>5. QED
    BY <2>3, <2>4
<1>6. ASSUME wire # <<>>, Cmd = End, Runs, AnswerEnd PROVE EndInv'
  <2>1. Cmd = wire[1].cmd /\ Len(wire) \in Nat \ {0} /\ Len(Tail(wire)) = Len(wire) - 1
        /\ Tail(wire) \in Seq(Sent)
    BY <1>1, <1>6 DEF Cmd
  <2>2. ending = "sent" /\ queue = <<>> /\ Len(wire) = 1
    <3>1. ending = "sent"
      BY <1>1, <1>6, <2>1 DEF EndInv
    <3>2. queue = <<>> /\ \A i \in 1 .. Len(wire) - 1 : wire[i].cmd # End
      BY <3>1 DEF EndInv
    <3>3. Len(wire) = 1
      <4> DEFINE n == Len(wire)
      <4>1. n \in Nat \ {0} /\ ~(1 \in 1 .. n - 1)
        BY <1>6, <2>1, <3>2
      <4> HIDE DEF n
      <4>2. n = 1
        BY <4>1
      <4>3. QED
        BY <4>2 DEF n
    <3>4. QED
      BY <3>1, <3>2, <3>3
  <2>3. ending' = "done" /\ queue' = <<>> /\ wire' = Tail(wire) /\ tx' = "over"
    BY <1>6, <2>2 DEF AnswerEnd, Rest, Runs, End
  <2>4. wire' = <<>>
    <3>1. wire' \in Seq(Sent) /\ Len(wire') = 0
      BY <2>1, <2>2, <2>3
    <3>2. QED
      BY <3>1
  <2>5. QED
    BY <2>3, <2>4 DEF EndInv
<1>7. ASSUME wire # <<>>, Cmd # End, NEW ok \in BOOLEAN, Answer(ok), tx' = "over" <=> tx = "over"
      PROVE  EndInv'
  <2>1. Cmd = wire[1].cmd /\ ending # "done"
    BY <1>1, <1>7 DEF Cmd, EndInv
  <2>2. CASE ~Queued
    <3> DEFINE n == Len(wire)
    <3>1. wire' = Tail(wire) /\ UNCHANGED <<queue, ending>>
      BY <1>7, <2>2 DEF Answer, AnswerDirect, Rest
    <3>2. n \in Nat \ {0} /\ Len(wire') = n - 1 /\ \A i \in 1 .. n - 1 : wire'[i] = wire[i + 1]
      BY <1>1, <1>7, <3>1
    <3> HIDE DEF n
    <3>3. CASE ending = "sent"
      <4>1. /\ queue = <<>> /\ wire[n].cmd = End /\ tx # "over"
            /\ \A i \in 1 .. n - 1 : wire[i].cmd # End
        BY <3>3 DEF EndInv, n
      <4>2. n # 1
        BY <1>7, <2>1, <4>1
      <4>3. n - 1 \in Nat \ {0} /\ (n - 1) + 1 = n /\ \A i \in 1 .. (n - 1) - 1 : i + 1 \in 1 .. n - 1 /\ i \in 1 .. n - 1
        BY <3>2, <4>2
      <4>4. wire' # <<>> /\ wire'[n - 1] = wire[n]
        BY <3>2, <4>3
      <4>5. \A i \in 1 .. (n - 1) - 1 : wire'[i].cmd # End
        BY <3>2, <4>1, <4>3
      <4>6. QED
        BY <1>7, <3>1, <3>2, <3>3, <4>1, <4>4, <4>5 DEF EndInv
    <3>4. CASE ending \in {"no", "asked"}
      <4>1. \A i \in 1 .. n : wire[i].cmd # End
        BY <3>4 DEF EndInv, n
      <4>2. \A i \in 1 .. Len(wire') : wire'[i].cmd # End
        BY <3>2, <4>1
      <4>3. QED
        BY <1>7, <3>1, <3>4, <4>2 DEF EndInv
    <3>5. QED
      BY <1>1, <2>1, <3>3, <3>4
  <2>3. CASE Queued
    <3>1. queue # <<>> /\ Tail(wire) = <<>> /\ Head(queue) # End /\ AnswerHead(ok)
      <4>1. queue # <<>> /\ Tail(wire) = <<>>
        BY <1>7, <2>3, QueuedAlone
      <4>2. QED
        BY <1>7, <2>3, <4>1 DEF QueueInv, Answer
    <3>2. CASE Cmd.kind = "switch" /\ ok
      <4>1. wire' = Append(<<>>, [cmd |-> Head(queue), queued |-> TRUE]) /\ UNCHANGED <<queue, ending>>
        BY <3>1, <3>2 DEF AnswerHead, Rest
      <4> DEFINE e == Head(queue)
      <4> HIDE DEF e
      <4>2. \A i \in 1 .. Len(wire') : wire'[i] = [cmd |-> e, queued |-> TRUE]
        <5>1. Len(wire') = 1 /\ wire'[1] = [cmd |-> e, queued |-> TRUE]
          BY <4>1 DEF e
        <5>2. QED
          BY <5>1
      <4>3. \A i \in 1 .. Len(wire') : wire'[i].cmd # End
        BY <3>1, <4>2 DEF e
      <4>4. ending \in {"no", "asked"}
        BY <1>1, <2>1, <3>1 DEF EndInv
      <4>5. QED
        BY <1>7, <4>1, <4>3, <4>4 DEF EndInv
    <3>3. CASE ~(Cmd.kind = "switch" /\ ok)
      <4> DEFINE P == IF Cmd.kind = "rollbackTo" /\ ~ok THEN Unknown ELSE searchPath
      <4>1. Advance(P, <<>>) /\ P \in Paths
        BY <1>1, <3>1, <3>3 DEF AnswerHead, Rest, Paths
      <4> HIDE DEF P
      <4>2. QED
        BY <1>7, <3>1, <4>1, AdvanceEnds
    <3>4. QED
      BY <3>2, <3>3
  <2>4. QED
    BY <2>2, <2>3
<1>8. CASE Succeeds
  <2>1. wire # <<>> /\ ~MustFail /\ Runs
    BY <1>8 DEF Succeeds
  <2>2. CASE Cmd = End
    BY <1>6, <1>8, <2>1, <2>2 DEF Succeeds
  <2>3. CASE Cmd # End
    <3>1. Answer(TRUE) /\ TRUE \in BOOLEAN
      BY <1>8, <2>3 DEF Succeeds
    <3>2. tx' = "over" <=> tx = "over"
      BY <2>1, <2>3, OverStays
    <3>3. QED
      BY <1>7, <2>1, <2>3, <3>1, <3>2
  <2>4. QED
    BY <2>2, <2>3
<1>9. CASE Fails
  <2>1. wire # <<>> /\ tx' = (IF tx = "open" THEN "aborted" ELSE tx)
        /\ Answer(FALSE) /\ FALSE \in BOOLEAN
    BY <1>9 DEF Fails
  <2>2. Cmd # End
    BY <1>9 DEF Fails, MustFail, End
  <2>3. tx' = "over" <=> tx = "over"
    BY <2>1, <2>2, OverStays
  <2>4. QED
    BY <1>7, <2>1, <2>2, <2>3
<1>10. CASE UNCHANGED vars
  BY <1>10 DEF vars, client, server, EndInv
<1>11. QED
  BY <1>3, <1>4, <1>5, <1>8, <1>9, <1>10 DEF Next

(* A statement its session accepted runs inside the transaction             *)
(* (PostgresDataSource.commit and rollback wait for the queue), when the    *)
(* caller issues nothing after it asked for the end: the end is the last    *)
(* command of the queue, and then of the wire.                              *)
THEOREM Inside == ASSUME Late = FALSE PROVE Spec => []StaysInside
<1>1. Init => EndInv
  <2> SUFFICES ASSUME Init PROVE EndInv
    OBVIOUS
  <2>1. ending = "no" /\ tx = "open" /\ Len(wire) = 0 /\ Len(queue) = 0
    BY DEF Init
  <2>2. QED
    BY <2>1 DEF EndInv
<1>2. TypeOK /\ QueueInv /\ EndInv /\ [Next]_vars => EndInv'
  BY EndNext
<1>3. EndInv => StaysInside
  BY DEF EndInv, StaysInside
<1>4. QED
  BY <1>1, <1>2, <1>3, QueueAlways, PTL DEF Spec

-----------------------------------------------------------------------------
(***************************************************************************)
(* Proofs about TenantRouter for every set of tenants and requests and     *)
(* every TTL.                                                              *)
(*                                                                         *)
(* RouterInv ties the two maps of the router to the provisionings they     *)
(* name (Routes), the pools to the places that account for them (Pools),   *)
(* and bounds the provisionings by the requests that asked (Counted).      *)
(***************************************************************************)

Asked == {r \in Requests : pc[r] # "idle"}

(* No more provisionings than requests. *)
Counted == started <= Cardinality(Asked)

(* What the router's maps and timers name is what they are about.          *)
Routes ==
    /\ \A n \in Ids : place[n] # "none" => n <= started /\ tenantOf[n] \in Tenants
    /\ \A n \in Ids : Running(n) =>
          inFlight[tenantOf[n]] = n /\ entry[tenantOf[n]] = None
    /\ \A t \in Tenants : inFlight[t] # None =>
          Running(inFlight[t]) /\ tenantOf[inFlight[t]] = t
    /\ \A t \in Tenants : entry[t] # None =>
          place[entry[t]] = "ready" /\ tenantOf[entry[t]] = t
    /\ \A n \in Ids : timer[n] # None =>
          place[n] = "ready" /\ entry[tenantOf[n]] = n
    /\ \A r \in Requests : pc[r] = "waiting" => em[r] \in Ids /\ Running(em[r])

(* Only a shutdown touches the connections the user registered.            *)
UsersConnected == stopping = "no" => userOpen = Mapped

(* Where a provisioning is decides what its pool can be.                   *)
Pools ==
    /\ \A n \in Ids : place[n] \in {"none", "resolving", "attaching"} => pool[n] = "none"
    /\ \A n \in Ids : place[n] = "attaching" => ~Owned(n)
    /\ \A n \in Ids : place[n] = "connecting" => pool[n] = "opening" /\ Owned(n)
    /\ \A n \in Ids : place[n] = "setup" => pool[n] = "open" /\ Owned(n)
    /\ \A n \in Ids : place[n] = "ready" /\ ~Owned(n) => pool[n] = "none"
    /\ NoOrphan
    /\ UsersConnected
    /\ stopping = "no" =>
          \A t \in Tenants : entry[t] # None /\ Owned(entry[t]) => pool[entry[t]] = "open"

RouterInv == RouterTypeOK /\ Counted /\ Routes /\ Pools

USE TenantRouterAssumption DEF Ids

-----------------------------------------------------------------------------
(* The numbers of provisionings are numbers, and None is not one.          *)
LEMMA IdsFacts == Ids \subseteq Nat /\ None \notin Ids
<1>1. Cardinality(Requests) \in Nat
  BY FS_CardinalityType
<1>2. QED  BY <1>1

(* An idle request leaves room for one more provisioning.                  *)
LEMMA RoomForOne ==
    ASSUME RouterTypeOK, Counted, NEW r \in Requests, pc[r] = "idle"
    PROVE  started + 1 \in Ids
<1>1. IsFiniteSet(Asked) /\ Cardinality(Asked) \in Nat
  BY FS_Subset, FS_CardinalityType DEF Asked
<1>2. r \notin Asked /\ Asked \cup {r} \subseteq Requests
  BY DEF Asked
<1>3. Cardinality(Asked \cup {r}) = Cardinality(Asked) + 1
  BY <1>1, <1>2, FS_AddElement
<1>4. Cardinality(Asked \cup {r}) <= Cardinality(Requests)
  BY <1>2, FS_Subset
<1>5. Cardinality(Requests) \in Nat
  BY FS_CardinalityType
<1>6. QED  BY <1>1, <1>3, <1>4, <1>5 DEF Counted, RouterTypeOK

(* The initial state. *)
LEMMA RouterInvInit == RouterInit => RouterInv
<1> SUFFICES ASSUME RouterInit PROVE RouterInv
  OBVIOUS
<1>1. RouterTypeOK
  BY IdsFacts DEF RouterInit, RouterTypeOK, Places
<1>2. Counted
  <2>1. Asked = {}
    BY DEF RouterInit, Asked
  <2>2. QED  BY <2>1, FS_EmptySet DEF RouterInit, Counted
<1>3. Routes
  BY DEF RouterInit, Routes, Running
<1>4. Pools
  BY DEF RouterInit, Pools, Owned, NoOrphan, UsersConnected, Held
<1>5. QED  BY <1>1, <1>2, <1>3, <1>4 DEF RouterInv

(* A step that starts no provisioning and takes no request back to idle    *)
(* leaves enough requests.                                                 *)
LEMMA CountedStep ==
    ASSUME RouterTypeOK, Counted, started' = started, Asked \subseteq Asked',
           pc' \in [Requests -> {"idle", "waiting", "given", "failed"}]
    PROVE  Counted'
<1>1. IsFiniteSet(Asked')
  BY FS_Subset DEF Asked
<1>2. Cardinality(Asked) <= Cardinality(Asked')
  BY <1>1, FS_Subset
<1>3. Cardinality(Asked) \in Nat /\ Cardinality(Asked') \in Nat
  BY <1>1, FS_Subset, FS_CardinalityType
<1>4. QED  BY <1>2, <1>3 DEF Counted, RouterTypeOK
-----------------------------------------------------------------------------
(* One lemma per action: each part of RouterInv is preserved.              *)

(* resolve() of a tenant with an entry moves only its timer.               *)
LEMMA ResolveCachedStep ==
    ASSUME RouterInv, NEW r \in Requests, NEW t \in Tenants, ResolveCached(r, t)
    PROVE  RouterInv'
<1> USE IdsFacts
<1>1. RouterTypeOK'
  BY DEF RouterInv, RouterTypeOK, Places, Routes, Running, Owned, ResolveCached, Touch
<1>2. Counted'
  BY <1>1, CountedStep DEF RouterInv, RouterTypeOK, Asked, ResolveCached
<1>3. Routes'
  BY DEF RouterInv, RouterTypeOK, Routes, Running, ResolveCached, Touch
<1>4. Pools'
  BY DEF RouterInv, RouterTypeOK, Routes, Running, Pools, NoOrphan, UsersConnected, Held, Owned, ResolveCached, Touch
<1>5. QED  BY <1>1, <1>2, <1>3, <1>4 DEF RouterInv

(* resolve() that joins the provisioning in flight waits for a running one.*)
LEMMA ResolveSharedStep ==
    ASSUME RouterInv, NEW r \in Requests, NEW t \in Tenants, ResolveShared(r, t)
    PROVE  RouterInv'
<1> USE IdsFacts
<1>1. RouterTypeOK'
  BY DEF RouterInv, RouterTypeOK, Places, Routes, Running, Owned, ResolveShared
<1>2. Counted'
  BY <1>1, CountedStep DEF RouterInv, RouterTypeOK, Asked, ResolveShared
<1>3. Routes'
  BY DEF RouterInv, RouterTypeOK, Routes, Running, ResolveShared
<1>4. Pools'
  BY DEF RouterInv, RouterTypeOK, Routes, Running, Pools, NoOrphan, UsersConnected, Held, Owned, ResolveShared
<1>5. QED  BY <1>1, <1>2, <1>3, <1>4 DEF RouterInv

(* The answer of the resolver decides who owns the pool.                   *)
LEMMA TargetStep ==
    ASSUME RouterInv, NEW n \in Ids, Target(n)
    PROVE  RouterInv'
<1> USE IdsFacts
<1>1. RouterTypeOK'
  BY DEF RouterInv, RouterTypeOK, Places, Routes, Running, Owned, Target
<1>2. Counted'
  BY <1>1, CountedStep DEF RouterInv, RouterTypeOK, Asked, Target
<1>3. Routes'
  BY DEF RouterInv, RouterTypeOK, Routes, Running, Target
<1>4. Pools'
  BY DEF RouterInv, RouterTypeOK, Routes, Running, Pools, NoOrphan, UsersConnected, Held, Owned, Target
<1>5. QED  BY <1>1, <1>2, <1>3, <1>4 DEF RouterInv

(* A pool that is open is being set up until provision() returns.          *)
LEMMA ConnectedStep ==
    ASSUME RouterInv, NEW n \in Ids, Connected(n)
    PROVE  RouterInv'
<1> USE IdsFacts
<1>1. RouterTypeOK'
  BY DEF RouterInv, RouterTypeOK, Places, Routes, Running, Owned, Connected
<1>2. Counted'
  BY <1>1, CountedStep DEF RouterInv, RouterTypeOK, Asked, Connected
<1>3. Routes'
  BY DEF RouterInv, RouterTypeOK, Routes, Running, Connected
<1>4. Pools'
  BY DEF RouterInv, RouterTypeOK, Routes, Running, Pools, NoOrphan, UsersConnected, Held, Owned, Connected
<1>5. QED  BY <1>1, <1>2, <1>3, <1>4 DEF RouterInv

(* provision() that throws takes its waiters and its inFlight slot with it;*)
(* a pool that was open is leaked.                                         *)
LEMMA ProvisionFailsStep ==
    ASSUME RouterInv, NEW n \in Ids, ProvisionFails(n)
    PROVE  RouterInv'
<1> USE IdsFacts
<1>1. RouterTypeOK'
  BY DEF RouterInv, RouterTypeOK, Places, Routes, Running, Owned, ProvisionFails, Settle
<1>2. Counted'
  BY <1>1, CountedStep DEF RouterInv, RouterTypeOK, Asked, ProvisionFails, Settle
<1>3. Routes'
  BY DEF RouterInv, RouterTypeOK, Routes, Running, ProvisionFails, Settle
<1>4. Pools'
  BY DEF RouterInv, RouterTypeOK, Routes, Running, Pools, NoOrphan, UsersConnected, Held, Owned, ProvisionFails, Settle
<1>5. QED  BY <1>1, <1>2, <1>3, <1>4 DEF RouterInv

(* provision() that returns hands its open pool over to the entry.         *)
LEMMA ProvisionedStep ==
    ASSUME RouterInv, NEW n \in Ids, Provisioned(n)
    PROVE  RouterInv'
<1> USE IdsFacts
<1>1. RouterTypeOK'
  BY DEF RouterInv, RouterTypeOK, Places, Routes, Running, Owned, Provisioned, Settle, Touch
<1>2. Counted'
  BY <1>1, CountedStep DEF RouterInv, RouterTypeOK, Asked, Provisioned, Settle
<1>3. Routes'
  BY DEF RouterInv, RouterTypeOK, Routes, Running, Provisioned, Settle, Touch
<1>4. Pools'
  <2> DEFINE t == tenantOf[n]
  <2>1. /\ t \in Tenants /\ entry[t] = None
        /\ entry' = [entry EXCEPT ![t] = n] /\ place' = [place EXCEPT ![n] = "ready"]
        /\ n \in Ids /\ None \notin Ids
        /\ UNCHANGED <<tenantOf, pool, userOpen, leaked, stopping>>
    BY DEF RouterInv, RouterTypeOK, Routes, Running, Provisioned
  <2>2. /\ \A m \in Ids : m \in Held => m \in Held'
        /\ n \in Held'
    BY <2>1 DEF RouterInv, RouterTypeOK, Held
  <2>3. NoOrphan'
    BY <2>1, <2>2 DEF RouterInv, RouterTypeOK, Pools, NoOrphan
  <2>4. pool[n] = "open" \/ (~Owned(n) /\ pool[n] = "none")
    BY DEF RouterInv, RouterTypeOK, Pools, Provisioned, NoOrphan
  <2>5. (stopping = "no" =>
          \A u \in Tenants : entry[u] # None /\ Owned(entry[u]) => pool[entry[u]] = "open")'
    BY <2>1, <2>4 DEF RouterInv, RouterTypeOK, Pools, Owned
  <2>6. \A m \in Ids : place'[m] = (IF m = n THEN "ready" ELSE place[m]) /\ pool'[m] = pool[m]
    BY <2>1 DEF RouterInv, RouterTypeOK
  <2>7. \A m \in Ids : /\ place'[m] \in {"none", "resolving", "attaching"} => pool'[m] = "none"
                       /\ place'[m] = "attaching" => ~Owned(m)
                       /\ place'[m] = "connecting" => pool'[m] = "opening" /\ Owned(m)
                       /\ place'[m] = "setup" => pool'[m] = "open" /\ Owned(m)
                       /\ place'[m] = "ready" /\ ~Owned(m) => pool'[m] = "none"
    BY <2>4, <2>6 DEF RouterInv, Pools, Provisioned
  <2>8. \A m : Owned(m)' = Owned(m)
    BY <2>1 DEF Owned
  <2>9. UsersConnected'
    BY <2>1 DEF RouterInv, Pools, UsersConnected
  <2>10. QED  BY <2>3, <2>5, <2>7, <2>8, <2>9 DEF Pools
<1>5. QED  BY <1>1, <1>2, <1>3, <1>4 DEF RouterInv

(* release() closes the pool of the entry it deletes, and clears its timer.*)
LEMMA ReleaseStep ==
    ASSUME RouterInv, NEW t \in Tenants, Release(t)
    PROVE  RouterInv'
<1> USE IdsFacts
<1>1. RouterTypeOK'
  BY DEF RouterInv, RouterTypeOK, Places, Routes, Running, Owned, Release, Drop, ClosePools
<1>2. Counted'
  BY <1>1, CountedStep DEF RouterInv, RouterTypeOK, Asked, Release
<1>3. Routes'
  BY DEF RouterInv, RouterTypeOK, Routes, Running, Release, Drop, ClosePools
<1>4. Pools'
  BY DEF RouterInv, RouterTypeOK, Routes, Running, Pools, NoOrphan, UsersConnected, Held, Owned, Release, Drop, ClosePools
<1>5. QED  BY <1>1, <1>2, <1>3, <1>4 DEF RouterInv

(* A pool whose close failed is open and leaked.                           *)
LEMMA PoolClosesStep ==
    ASSUME RouterInv, NEW n \in Ids, PoolCloses(n)
    PROVE  RouterInv'
<1> USE IdsFacts
<1>1. RouterTypeOK'
  <2>1. pool' \in [Ids -> {"none", "opening", "open", "closing", "closed"}] /\ leaked' \subseteq Ids
    <3>1. CASE pool' = [pool EXCEPT ![n] = "closed"] /\ leaked' = leaked
      BY <3>1 DEF RouterInv, RouterTypeOK
    <3>2. CASE pool' = [pool EXCEPT ![n] = "open"] /\ leaked' = leaked \cup {n}
      BY <3>2 DEF RouterInv, RouterTypeOK
    <3>3. QED  BY <3>1, <3>2 DEF PoolCloses
  <2>2. QED  BY <2>1 DEF RouterInv, RouterTypeOK, PoolCloses
<1>2. Counted'
  BY <1>1, CountedStep DEF RouterInv, RouterTypeOK, Asked, PoolCloses
<1>3. Routes'
  BY DEF RouterInv, RouterTypeOK, Routes, Running, PoolCloses
<1>4. Pools'
  <2>1. pool[n] = "closing" /\ UNCHANGED <<tenantOf, place, userOpen, entry, stopping>>
    BY DEF PoolCloses
  <2>2. \A m \in Ids : m # n => pool'[m] = pool[m]
    BY DEF RouterInv, RouterTypeOK, PoolCloses
  <2>3. leaked \subseteq leaked' /\ (pool'[n] = "open" => n \in leaked')
    BY DEF RouterInv, RouterTypeOK, PoolCloses
  <2>4. NoOrphan'
    BY <2>1, <2>2, <2>3 DEF RouterInv, Pools, NoOrphan, Held
  <2>5. QED  BY <2>1, <2>2, <2>4 DEF RouterInv, RouterTypeOK, Pools, Owned, UsersConnected
<1>5. QED  BY <1>1, <1>2, <1>3, <1>4 DEF RouterInv

(* The eviction timer releases the entry it was set for, or only stops.    *)
LEMMA EvictStep ==
    ASSUME RouterInv, NEW n \in Ids, Evict(n)
    PROVE  RouterInv'
<1> USE IdsFacts
<1>1. RouterTypeOK'
  BY DEF RouterInv, RouterTypeOK, Places, Routes, Running, Owned, Evict, Drop, ClosePools
<1>2. Counted'
  BY <1>1, CountedStep DEF RouterInv, RouterTypeOK, Asked, Evict
<1>3. Routes'
  BY DEF RouterInv, RouterTypeOK, Routes, Running, Evict, Drop, ClosePools
<1>4. Pools'
  BY DEF RouterInv, RouterTypeOK, Routes, Running, Pools, NoOrphan, UsersConnected, Held, Owned, Evict, Drop, ClosePools
<1>5. QED  BY <1>1, <1>2, <1>3, <1>4 DEF RouterInv

(* Time moves only timers and ages.                                        *)
LEMMA TickStep ==
    ASSUME RouterInv, Tick
    PROVE  RouterInv'
<1> USE IdsFacts
<1>1. RouterTypeOK'
  BY DEF RouterInv, RouterTypeOK, Places, Routes, Running, Owned, Tick
<1>2. Counted'
  BY <1>1, CountedStep DEF RouterInv, RouterTypeOK, Asked, Tick
<1>3. Routes'
  BY DEF RouterInv, RouterTypeOK, Routes, Running, Tick
<1>4. Pools'
  BY DEF RouterInv, RouterTypeOK, Routes, Running, Pools, NoOrphan, UsersConnected, Held, Owned, Tick
<1>5. QED  BY <1>1, <1>2, <1>3, <1>4 DEF RouterInv

(* propagateShutdown() closes pools that entries still hold.               *)
LEMMA ShutdownStep ==
    ASSUME RouterInv, Shutdown
    PROVE  RouterInv'
<1> USE IdsFacts
<1>1. RouterTypeOK'
  BY DEF RouterInv, RouterTypeOK, Places, Routes, Running, Owned, Shutdown, ClosePools
<1>2. Counted'
  BY <1>1, CountedStep DEF RouterInv, RouterTypeOK, Asked, Shutdown
<1>3. Routes'
  BY DEF RouterInv, RouterTypeOK, Routes, Running, Shutdown, ClosePools
<1>4. Pools'
  <2>1. /\ stopping' # "no" /\ UNCHANGED <<tenantOf, place, entry, leaked>>
        /\ \A m \in Ids : pool'[m] = pool[m] \/ (m \in Held /\ pool'[m] = "closing")
    <3>1. CASE CloseConnections
      BY <3>1 DEF RouterInv, RouterTypeOK, Shutdown, ClosePools
    <3>2. CASE ~CloseConnections
      BY <3>2 DEF RouterInv, RouterTypeOK, Shutdown
    <3>3. QED  BY <3>1, <3>2
  <2>2. \A m \in Held : m \in Ids /\ place[m] = "ready"
    BY DEF RouterInv, RouterTypeOK, Routes, Held
  <2>3. NoOrphan'
    BY <2>1, <2>2 DEF RouterInv, Pools, NoOrphan, Held
  <2>4. \A m \in Ids : place[m] = "ready" /\ ~Owned(m) => pool'[m] = "none"
    <3>1. CASE CloseConnections
      BY <3>1 DEF RouterInv, RouterTypeOK, Pools, Shutdown, ClosePools
    <3>2. CASE ~CloseConnections
      BY <3>2 DEF RouterInv, RouterTypeOK, Pools, Shutdown
    <3>3. QED  BY <3>1, <3>2
  <2>5. QED  BY <2>1, <2>2, <2>3, <2>4 DEF RouterInv, Pools, Owned, UsersConnected
<1>5. QED  BY <1>1, <1>2, <1>3, <1>4 DEF RouterInv

(* releaseAll() drops every entry and closes its pool.                     *)
LEMMA ReleaseAllStep ==
    ASSUME RouterInv, ReleaseAll
    PROVE  RouterInv'
<1> USE IdsFacts
<1>1. RouterTypeOK'
  BY DEF RouterInv, RouterTypeOK, Places, Routes, Running, Owned, ReleaseAll, Drop, ClosePools
<1>2. Counted'
  BY <1>1, CountedStep DEF RouterInv, RouterTypeOK, Asked, ReleaseAll
<1>3. Routes'
  BY DEF RouterInv, RouterTypeOK, Routes, Running, ReleaseAll, Drop, ClosePools
<1>4. Pools'
  BY DEF RouterInv, RouterTypeOK, Routes, Running, Pools, NoOrphan, UsersConnected, Held, Owned, ReleaseAll, Drop, ClosePools
<1>5. QED  BY <1>1, <1>2, <1>3, <1>4 DEF RouterInv

(* resolve() that starts provision() takes a number nothing names yet.     *)
LEMMA ResolveFirstStep ==
    ASSUME RouterInv, NEW r \in Requests, NEW t \in Tenants, ResolveFirst(r, t)
    PROVE  RouterInv'
<1> USE IdsFacts
<1>0. started + 1 \in Ids
  BY RoomForOne DEF RouterInv, ResolveFirst
<1>1. PICK n \in Ids : n = started + 1 /\ n # None
  BY <1>0
<1>2. place[n] = "none" /\ pool[n] = "none" /\ timer[n] = None
  <2>1. place[n] = "none"
    BY <1>1 DEF RouterInv, RouterTypeOK, Routes
  <2>2. QED  BY <1>1, <2>1 DEF RouterInv, Routes, Pools, RouterTypeOK
<1>3. /\ pc[r] = "idle" /\ entry[t] = None /\ inFlight[t] = None
      /\ started' = n
      /\ tenantOf' = [tenantOf EXCEPT ![n] = t]
      /\ place' = [place EXCEPT ![n] = "resolving"]
      /\ inFlight' = [inFlight EXCEPT ![t] = n]
      /\ pc' = [pc EXCEPT ![r] = "waiting"]
      /\ em' = [em EXCEPT ![r] = n]
      /\ UNCHANGED <<pool, userOpen, entry, age, timer, leaked, releases, stopping>>
  BY <1>1 DEF ResolveFirst, StartProvision
<1>4. RouterTypeOK'
  BY <1>1, <1>3 DEF RouterInv, RouterTypeOK, Places
<1>5. Counted'
  <2>1. r \notin Asked /\ Asked' = Asked \cup {r}
    BY <1>3 DEF Asked, RouterInv, RouterTypeOK
  <2>2. IsFiniteSet(Asked) /\ Cardinality(Asked) \in Nat
    BY FS_Subset, FS_CardinalityType DEF Asked
  <2>3. Cardinality(Asked') = Cardinality(Asked) + 1
    BY <2>1, <2>2, FS_AddElement
  <2>4. QED  BY <1>1, <1>3, <2>2, <2>3 DEF RouterInv, RouterTypeOK, Counted
<1>6. Routes'
  <2>1. \A m \in Ids : m # n => /\ place'[m] = place[m]
                                /\ tenantOf'[m] = tenantOf[m]
                                /\ Running(m)' = Running(m)
    BY <1>3 DEF RouterInv, RouterTypeOK, Running
  <2>2. place'[n] = "resolving" /\ tenantOf'[n] = t /\ Running(n)'
    BY <1>1, <1>3 DEF RouterInv, RouterTypeOK, Running
  <2>3. \A m \in Ids : place'[m] # "none" => m <= started' /\ tenantOf'[m] \in Tenants
    BY <1>1, <1>3, <2>1, <2>2 DEF RouterInv, RouterTypeOK, Routes
  <2>4. \A m \in Ids : Running(m)' =>
           inFlight'[tenantOf'[m]] = m /\ entry'[tenantOf'[m]] = None
    <3> SUFFICES ASSUME NEW m \in Ids, Running(m)'
                 PROVE  inFlight'[tenantOf'[m]] = m /\ entry'[tenantOf'[m]] = None
      OBVIOUS
    <3>1. CASE m = n
      BY <1>3, <2>2, <3>1 DEF RouterInv, RouterTypeOK
    <3>2. CASE m # n
      <4>1. Running(m) /\ tenantOf[m] \in Tenants /\ inFlight[tenantOf[m]] = m
            /\ entry[tenantOf[m]] = None /\ m # None
        BY <2>1, <3>2 DEF RouterInv, Routes, Running
      <4>2. tenantOf[m] # t
        BY <1>3, <4>1
      <4>3. QED  BY <1>3, <2>1, <3>2, <4>1, <4>2 DEF RouterInv, RouterTypeOK
    <3>3. QED  BY <3>1, <3>2
  <2>5. \A u \in Tenants : inFlight'[u] # None =>
           Running(inFlight[u])' /\ tenantOf'[inFlight'[u]] = u /\ inFlight'[u] \in Ids
    <3> SUFFICES ASSUME NEW u \in Tenants, inFlight'[u] # None
                 PROVE  (Running(inFlight[u]) /\ tenantOf[inFlight[u]] = u /\ inFlight[u] \in Ids)'
      OBVIOUS
    <3>1. CASE u = t
      BY <1>1, <1>3, <2>2, <3>1 DEF RouterInv, RouterTypeOK, Running
    <3>2. CASE u # t
      <4>1. inFlight'[u] = inFlight[u] /\ inFlight[u] \in Ids
        BY <1>3, <3>2 DEF RouterInv, RouterTypeOK
      <4>2. Running(inFlight[u]) /\ tenantOf[inFlight[u]] = u
        BY <4>1 DEF RouterInv, Routes
      <4>3. inFlight[u] # n
        BY <1>2, <4>2 DEF Running
      <4>4. QED  BY <2>1, <4>1, <4>2, <4>3 DEF Running
    <3>3. QED  BY <3>1, <3>2
  <2>6. \A u \in Tenants : entry'[u] # None =>
           place'[entry'[u]] = "ready" /\ tenantOf'[entry'[u]] = u
    BY <1>2, <1>3, <2>1 DEF RouterInv, RouterTypeOK, Routes
  <2>7. \A m \in Ids : timer'[m] # None => place'[m] = "ready" /\ entry'[tenantOf'[m]] = m
    BY <1>2, <1>3, <2>1 DEF RouterInv, Routes
  <2>8. \A q \in Requests : pc'[q] = "waiting" => em'[q] \in Ids /\ Running(em[q])'
    BY <1>1, <1>3, <2>1, <2>2 DEF RouterInv, RouterTypeOK, Routes, Running
  <2>9. QED  BY <2>3, <2>4, <2>5, <2>6, <2>7, <2>8 DEF Routes, Running
<1>7. Pools'
  <2>1. \A m \in Ids : m # n => place'[m] = place[m] /\ tenantOf'[m] = tenantOf[m]
    BY <1>3 DEF RouterInv, RouterTypeOK
  <2>2. place'[n] = "resolving"
    BY <1>1, <1>3 DEF RouterInv, RouterTypeOK
  <2>3. NoOrphan'
    BY <1>2, <1>3, <2>1 DEF RouterInv, Pools, NoOrphan, Held
  <2>4. \A u \in Tenants : entry[u] # None => entry[u] \in Ids /\ entry[u] # n
    BY <1>2 DEF RouterInv, RouterTypeOK, Routes
  <2>5. (stopping = "no" =>
          \A u \in Tenants : entry[u] # None /\ Owned(entry[u]) => pool[entry[u]] = "open")'
    BY <1>3, <2>1, <2>4 DEF RouterInv, Pools, Owned
  <2>6. UsersConnected'
    BY <1>3 DEF RouterInv, Pools, UsersConnected
  <2>7. QED  BY <1>2, <1>3, <2>1, <2>2, <2>3, <2>5, <2>6 DEF RouterInv, Pools, Owned
<1>8. QED  BY <1>4, <1>5, <1>6, <1>7 DEF RouterInv

(* Every step of the router preserves RouterInv.                           *)
LEMMA RouterInvStep == RouterInv /\ [RouterNext]_routerVars => RouterInv'
<1> SUFFICES ASSUME RouterInv, [RouterNext]_routerVars PROVE RouterInv'
  OBVIOUS
<1>1. CASE RouterNext
  <2>1. ASSUME NEW r \in Requests, NEW t \in Tenants,
               ResolveCached(r, t) \/ ResolveShared(r, t) \/ ResolveFirst(r, t)
        PROVE  RouterInv'
    BY <2>1, ResolveCachedStep, ResolveSharedStep, ResolveFirstStep
  <2>2. ASSUME NEW n \in Ids, Proceeds(n)
        PROVE  RouterInv'
    BY <2>2, TargetStep, ConnectedStep, ProvisionFailsStep, ProvisionedStep, PoolClosesStep,
       EvictStep DEF Proceeds
  <2>3. ASSUME NEW t \in Tenants, Release(t)
        PROVE  RouterInv'
    BY <2>3, ReleaseStep
  <2>4. QED  BY <1>1, <2>1, <2>2, <2>3, TickStep, ShutdownStep, ReleaseAllStep DEF RouterNext
<1>2. CASE UNCHANGED routerVars
  BY <1>2 DEF routerVars, RouterInv, RouterTypeOK, Counted, Asked, Routes, Running, Pools, NoOrphan,
     UsersConnected, Held, Owned
<1>3. QED  BY <1>1, <1>2

(* The router invariant holds throughout. *)
LEMMA RouterInvAlways == RouterSpec => []RouterInv
<1>1. QED  BY RouterInvInit, RouterInvStep, PTL DEF RouterSpec

-----------------------------------------------------------------------------
(* Every variable keeps its type: in particular the requests never need a  *)
(* provisioning beyond Ids, so the bound of the model cuts nothing off.    *)
THEOREM TypeCorrect == RouterSpec => []RouterTypeOK
<1>1. RouterInv => RouterTypeOK
  BY DEF RouterInv
<1>2. QED  BY <1>1, RouterInvAlways, PTL

(* Concurrent resolves of a tenant share one provision() (inFlight).       *)
THEOREM SharedProvision == RouterSpec => []OneProvision
<1>1. RouterInv => OneProvision
  BY DEF RouterInv, Routes, OneProvision
<1>2. QED  BY <1>1, RouterInvAlways, PTL

(* release(), eviction and provision() lose no open pool, but for those    *)
(* whose set-up or close failed.                                           *)
THEOREM PoolsAccounted == RouterSpec => []NoOrphan
<1>1. RouterInv => NoOrphan
  BY DEF RouterInv, Pools
<1>2. QED  BY <1>1, RouterInvAlways, PTL

(* resolve() gives out an open pool, whatever release() or eviction ran    *)
(* before it or since it began.                                            *)
THEOREM ResolvesToLivePool == RouterSpec => GivenLivePool
<1> DEFINE Given == \A r \in Requests :
          pc[r] # "given" /\ pc'[r] = "given" /\ stopping = "no" =>
              IF Owned(em[r])' THEN pool'[em'[r]] = "open" ELSE tenantOf'[em'[r]] \in userOpen
<1>1. ASSUME RouterInv, [RouterNext]_routerVars, NEW r \in Requests,
             pc[r] # "given", pc'[r] = "given", stopping = "no"
      PROVE  IF Owned(em[r])' THEN pool'[em'[r]] = "open" ELSE tenantOf'[em'[r]] \in userOpen
  <2> USE IdsFacts
  <2>1. userOpen = Mapped
    BY <1>1 DEF RouterInv, Pools, UsersConnected
  <2>2. ASSUME NEW q \in Requests, NEW t \in Tenants, ResolveCached(q, t)
        PROVE  Owned(em[r])' => pool'[em'[r]] = "open"
    <3>1. q = r /\ em'[r] = entry[t] /\ pool' = pool /\ tenantOf' = tenantOf
      BY <1>1, <2>2 DEF ResolveCached, RouterInv, RouterTypeOK
    <3>2. Owned(entry[t]) => pool[entry[t]] = "open"
      BY <1>1, <2>2 DEF ResolveCached, RouterInv, Pools
    <3>3. QED  BY <3>1, <3>2 DEF Owned
  <2>3. ASSUME NEW n \in Ids, Provisioned(n)
        PROVE  Owned(em[r])' => pool'[em'[r]] = "open"
    <3>1. em'[r] = n /\ pool' = pool /\ tenantOf' = tenantOf
      BY <1>1, <2>3 DEF Provisioned, Settle, RouterInv, RouterTypeOK
    <3>2. Owned(n) => pool[n] = "open"
      BY <1>1, <2>3 DEF Provisioned, RouterInv, Pools
    <3>3. QED  BY <3>1, <3>2 DEF Owned
  <2>4. \A q \in Requests, t \in Tenants : ~ResolveShared(q, t) /\ ~ResolveFirst(q, t)
    BY <1>1 DEF ResolveShared, ResolveFirst, StartProvision, RouterInv, RouterTypeOK
  <2>5. \A n \in Ids : ~ProvisionFails(n)
    BY <1>1 DEF ProvisionFails, Settle, RouterInv, RouterTypeOK
  <2>6. pc' # pc
    BY <1>1
  <2>7. Owned(em[r])' => pool'[em'[r]] = "open"
    BY <1>1, <2>2, <2>3, <2>4, <2>5, <2>6 DEF RouterNext, Proceeds, Target, Connected, PoolCloses, Evict,
       Release, Tick, Shutdown, ReleaseAll, routerVars
  <2>8. tenantOf'[em'[r]] \in Mapped => tenantOf'[em'[r]] \in userOpen
    BY <2>1
  <2>9. QED  BY <2>7, <2>8 DEF Owned
<1>2. RouterInv /\ [RouterNext]_routerVars => [Given]_routerVars
  BY <1>1
<1>3. QED  BY <1>2, RouterInvAlways, PTL DEF RouterSpec, GivenLivePool

(* A timer that fires evicts a tenant only when nobody resolved it for the *)
(* whole TTL: the age of the entry is checked again, and release() clears  *)
(* the timer of the entry it replaces.                                     *)
THEOREM EvictsOnlyIdle == RouterSpec => EvictedOnlyIdle
<1> DEFINE Idle == \A t \in Tenants :
          entry[t] # None /\ entry'[t] = None /\ releases' = releases /\ stopping' = stopping =>
              age[entry[t]] >= Ttl
<1>1. ASSUME RouterInv, [RouterNext]_routerVars, NEW t \in Tenants,
             entry[t] # None, entry'[t] = None, releases' = releases, stopping' = stopping
      PROVE  age[entry[t]] >= Ttl
  <2> USE IdsFacts
  <2>1. entry' # entry
    BY <1>1
  <2>2. ASSUME NEW n \in Ids, Evict(n)
        PROVE  age[entry[t]] >= Ttl
    <3>1. t \in {u \in Tenants : u = tenantOf[n] /\ entry[u] # None /\ age[n] >= Ttl}
      BY <1>1, <2>2 DEF Evict, Drop
    <3>2. entry[tenantOf[n]] = n
      BY <1>1, <2>2 DEF Evict, RouterInv, Routes
    <3>3. QED  BY <3>1, <3>2
  <2>3. \A n \in Ids : ~Provisioned(n)
    BY <1>1 DEF Provisioned, RouterInv, RouterTypeOK
  <2>4. \A u \in Tenants : ~Release(u)
    BY <1>1 DEF Release, RouterInv, RouterTypeOK
  <2>5. ~ReleaseAll /\ ~Shutdown
    BY <1>1 DEF ReleaseAll, Shutdown
  <2>6. QED
    BY <1>1, <2>1, <2>2, <2>3, <2>4, <2>5 DEF RouterNext, Proceeds, Target, Connected, PoolCloses,
       ProvisionFails, ResolveCached, ResolveShared, ResolveFirst, StartProvision, Tick, routerVars
<1>2. RouterInv /\ [RouterNext]_routerVars => [Idle]_routerVars
  BY <1>1
<1>3. QED  BY <1>2, RouterInvAlways, PTL DEF RouterSpec, EvictedOnlyIdle
=============================================================================
