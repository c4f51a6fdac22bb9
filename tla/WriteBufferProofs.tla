-------------------------- MODULE WriteBufferProofs --------------------------
(***************************************************************************)
(* Proofs about WriteBuffer for every set of objects, keys and values, any *)
(* number of calls, flushes and faults, and every mixture of calls.        *)
(*                                                                         *)
(* Whether an object's key is real is decided when a transaction ends,     *)
(* which may be long after the flush that set it. BufferInv therefore says *)
(* it of three moments at once: of the objects and rows as they are; of    *)
(* what a failure of the flush under way would put back, with the rows it  *)
(* began with; and of what the callbacks would leave of that, with the     *)
(* rows that are committed.                                                *)
(*                                                                         *)
(* That the identity map can be served from is of the same three moments,  *)
(* and of what each job of a flush leaves to be done: CacheInv. It holds   *)
(* for callers that keep calls out of each other's way, and flushes that   *)
(* do not fail late (Careful): without either, TLC finds it violated.      *)
(*                                                                         *)
(* That foreign keys name live rows holds for all mixtures again, as long  *)
(* as no bulk statement deletes parents: RefersInv, of what each job of a  *)
(* flush relies on.                                                        *)
(*                                                                         *)
(* That a flush that failed can be called again holds for all mixtures if  *)
(* none fails late: RetryInv, that the goal of a flush is that of what its *)
(* failure would leave.                                                    *)
(***************************************************************************)
EXTENDS WriteBuffer, ListsProofs, FiniteSetTheorems, TLAPS

Columned == [key : 0 .. MaxKey, val : Vals, fk : 0 .. MaxKey]
ObjState == [key : 0 .. MaxKey, val : Vals, fk : 0 .. MaxKey,
             kids : (SUBSET Kids) \cup {NotLoaded}]
Objects == [Objs -> ObjState]
Row == [val : Vals, fk : 0 .. MaxKey, by : Objs, state : {"live", "orphaned", "deleted"}]
Rows == UNION {[D -> Row] : D \in SUBSET (1 .. nextKey - 1)}
Captures == UNION {[S -> Columned] : S \in SUBSET Objs}
Deletes == [by : {"key", "home"}, key : Nat, kid : BOOLEAN]
Ends == [pre : Captures, persists : SUBSET Objs]

JobsOn(S) ==
    [op : {"update", "insert"}, of : S]
    \cup [op : {"cascade", "added"}, of : S \cap Kids, under : Parents]
    \cup [op : {"orphan"}, of : Kids]
    \cup [op : {"expand"}]
    \cup [op : {"delete"}, what : Deletes]
    \cup [op : {"bulk"}, what : Bulks]

(* The objects and rows a failure of the flush under way would leave. *)
Then == IF flush.pc = "run" THEN Restore(obj, flush.pre) ELSE obj
ThenRows == IF flush.pc = "run" THEN flush.start ELSE work

(* Each object of os with a key has the row of that key in w, is the only  *)
(* one that has, and has its foreign key, which names a row; rows of       *)
(* parents have none.                                                      *)
RealIn(os, w) ==
    /\ \A o \in Objs : os[o].key # 0 => os[o].key \in DOMAIN w /\ w[os[o].key].by = o
    /\ \A o \in Objs : os[o].fk = IF os[o].key = 0 THEN 0 ELSE w[os[o].key].fk
    /\ \A k \in DOMAIN w : os[w[k].by].key = k /\ w[k].fk \in {0} \cup DOMAIN w
    /\ \A k \in DOMAIN w : w[k].by \in Parents => w[k].fk = 0

(* The rows of v are rows of w, whatever they hold. *)
Among(v, w) == \A k \in DOMAIN v : k \in DOMAIN w /\ v[k].by = w[k].by

Noted(es, o) == \E i \in DOMAIN es : o \in DOMAIN es[i].pre

(* The fields of a flush, whatever they hold. *)
IsFlush(f) ==
    f = [pc |-> f.pc, todo |-> f.todo, visited |-> f.visited, pre |-> f.pre,
         expanded |-> f.expanded, altered |-> f.altered, start |-> f.start, goal |-> f.goal]

BufferTypes ==
    /\ nextKey \in 1 .. MaxKey + 1
    /\ rows \in Rows /\ work \in Rows
    /\ obj \in Objects
    /\ \A c \in Kids : obj[c].kids = {}
    /\ queue \in [persists : SUBSET Objs, deletes : SUBSET Deletes, bulks : SUBSET Bulks]
    /\ outer \in {"none", "open", "broken"}
    /\ onEnd \in Seq(Ends)
    /\ outer = "none" => onEnd = <<>>
    /\ IsFlush(flush)
    /\ flush.pc \in {"idle", "run"}

(* A flush writes only objects it can put back. *)
RunInv ==
    flush.pc = "run" =>
        /\ outer # "broken"
        /\ flush.start \in Rows
        /\ flush.pre \in Captures
        /\ \A o \in DOMAIN flush.pre : KidsOf(o) \subseteq DOMAIN flush.pre
        /\ flush.todo \in Seq(SUBSET JobsOn(DOMAIN flush.pre))
        /\ RealIn(obj, work)
        /\ Among(flush.start, work)

(* What a failure would leave; a transaction that must be rolled back has  *)
(* rows of objects that have lost the key.                                 *)
ThenInv ==
    /\ Among(rows, ThenRows)
    /\ IF outer = "broken"
       THEN KeysAreReal
       ELSE RealIn(Then, ThenRows) /\ (onEnd = <<>> => rows = ThenRows)

(* What the end of the caller's transaction would leave. *)
EndInv == RealIn(RunEnds(Then, onEnd), rows)

BufferInv == BufferTypes /\ RunInv /\ ThenInv /\ EndInv

-----------------------------------------------------------------------------
(* The fields of an object, *)
LEMMA ObjectFields ==
    ASSUME NEW os \in Objects, NEW o \in Objs
    PROVE  /\ os[o] \in ObjState
           /\ os[o] = [key |-> os[o].key, val |-> os[o].val, fk |-> os[o].fk, kids |-> os[o].kids]
           /\ os[o].key \in 0 .. MaxKey /\ os[o].key \in Nat
           /\ os[o].val \in Vals
           /\ os[o].fk \in 0 .. MaxKey /\ os[o].fk \in Nat
           /\ os[o].kids = NotLoaded \/ os[o].kids \in SUBSET Kids
<1>1. os[o] \in ObjState
  BY DEF Objects
<1>2. PICK x \in ObjState : x = os[o]
  BY <1>1
<1>3. /\ x = [key |-> x.key, val |-> x.val, fk |-> x.fk, kids |-> x.kids]
      /\ x.key \in 0 .. MaxKey /\ x.val \in Vals /\ x.fk \in 0 .. MaxKey
      /\ x.kids \in (SUBSET Kids) \cup {NotLoaded}
  BY DEF ObjState
<1>4. \A k \in 0 .. MaxKey : k \in Nat
  OBVIOUS
<1>5. QED
  BY <1>2, <1>3, <1>4

(* and what it takes to be one. *)
LEMMA IsObject ==
    ASSUME NEW key \in 0 .. MaxKey, NEW val \in Vals, NEW fk \in 0 .. MaxKey, NEW kids,
           kids = NotLoaded \/ kids \in SUBSET Kids
    PROVE  [key |-> key, val |-> val, fk |-> fk, kids |-> kids] \in ObjState
<1>1. kids \in (SUBSET Kids) \cup {NotLoaded}
  OBVIOUS
<1>2. QED
  BY <1>1 DEF ObjState

(* Some function is the one RunEnds is defined by. *)
LEMMA RunEndsFunction ==
    ASSUME NEW S, NEW es \in Seq(S), NEW os
    PROVE  \E f : /\ f = [n \in 0..Len(es) |->
                           IF n = 0 THEN os ELSE Restore(f[n - 1], es[Len(es) - n + 1].pre)]
                  /\ RunEnds(os, es) = f[Len(es)]
<1> DEFINE Fits(f, x) == f = [n \in 0..x |->
                                IF n = 0 THEN os
                                ELSE Restore(f[n - 1], es[Len(es) - n + 1].pre)]
           T == {x \in Nat : \E f : Fits(f, x)}
           F == CHOOSE f : Fits(f, Len(es))
<1>1. RunEnds(os, es) = F[Len(es)]
  BY DEF RunEnds
<1>2. 0 \in T
  <2>1. Fits([n \in 0..0 |-> os], 0)
    OBVIOUS
  <2>2. QED
    BY <2>1
<1>3. ASSUME NEW x \in Nat, x \in T PROVE x + 1 \in T
  <2>1. PICK f : Fits(f, x)
    BY <1>3
  <2> DEFINE g == [n \in 0..x + 1 |->
                     IF n = x + 1 THEN Restore(f[n - 1], es[Len(es) - n + 1].pre) ELSE f[n]]
  <2>2. ASSUME NEW n \in 0..x + 1
        PROVE  g[n] = IF n = 0 THEN os ELSE Restore(g[n - 1], es[Len(es) - n + 1].pre)
    <3>1. CASE n = x + 1
      <4>1. n - 1 \in 0..x + 1 /\ n - 1 # x + 1 /\ n # 0
        BY <3>1
      <4>2. QED
        BY <3>1, <4>1
    <3>2. CASE n = 0
      BY <2>1, <3>2
    <3>3. CASE n # x + 1 /\ n # 0
      <4>1. n - 1 \in 0..x + 1 /\ n - 1 # x + 1 /\ n \in 0..x
        BY <3>3
      <4>2. f[n] = IF n = 0 THEN os ELSE Restore(f[n - 1], es[Len(es) - n + 1].pre)
        BY <2>1, <4>1
      <4>3. QED
        BY <3>3, <4>1, <4>2
    <3>4. QED
      BY <3>1, <3>2, <3>3
  <2>3. Fits(g, x + 1)
    BY <2>2, Zenon
  <2> HIDE DEF Fits, g
  <2>4. \E h : Fits(h, x + 1)
    BY <2>3, Zenon
  <2>5. QED
    BY <2>4
<1>4. Len(es) \in T
  <2> HIDE DEF T
  <2>1. Nat \subseteq T
    BY <1>2, <1>3, NumbersIn
  <2>2. QED
    BY <2>1, LenProperties
<1>5. Fits(F, Len(es))
  <2>1. \E f : Fits(f, Len(es))
    BY <1>4
  <2> HIDE DEF Fits
  <2>2. QED
    BY <2>1, Zenon
<1>6. QED
  BY <1>1, <1>5

(* Without callbacks nothing goes back. *)
LEMMA RunEndsEmpty == ASSUME NEW os PROVE RunEnds(os, <<>>) = os
<1>1. <<>> \in Seq({}) /\ Len(<<>>) = 0
  BY EmptySeq
<1>2. PICK f : /\ f = [n \in 0..Len(<<>>) |->
                         IF n = 0 THEN os
                         ELSE Restore(f[n - 1], <<>>[Len(<<>>) - n + 1].pre)]
               /\ RunEnds(os, <<>>) = f[Len(<<>>)]
  BY <1>1, RunEndsFunction, Zenon
<1>3. 0 \in 0..Len(<<>>)
  BY <1>1
<1>4. f[0] = os
  BY <1>2, <1>3
<1>5. QED
  BY <1>1, <1>2, <1>4

(* The callback registered last is the first to run. *)
LEMMA RunEndsAppend ==
    ASSUME NEW S, NEW es \in Seq(S), NEW e \in S, NEW os
    PROVE  RunEnds(os, Append(es, e)) = RunEnds(Restore(os, e.pre), es)
<1>1. PICK t : t = Append(es, e)
  OBVIOUS
<1>2. PICK l \in Nat : l = Len(es)
  BY LenProperties
<1>3. /\ t \in Seq(S) /\ Len(t) = l + 1
      /\ \A i \in 1..l : t[i] = es[i]
      /\ t[l + 1] = e
  BY <1>1, <1>2, AppendProperties
<1>4. PICK f : /\ f = [n \in 0..Len(t) |->
                         IF n = 0 THEN os ELSE Restore(f[n - 1], t[Len(t) - n + 1].pre)]
               /\ RunEnds(os, t) = f[Len(t)]
  BY <1>3, RunEndsFunction, Zenon
<1>5. PICK g : /\ g = [n \in 0..Len(es) |->
                         IF n = 0 THEN Restore(os, e.pre)
                         ELSE Restore(g[n - 1], es[Len(es) - n + 1].pre)]
               /\ RunEnds(Restore(os, e.pre), es) = g[Len(es)]
  BY RunEndsFunction, Zenon
<1>6. f[0] = os /\ \A n \in 1..l + 1 : f[n] = Restore(f[n - 1], t[(l + 1) - n + 1].pre)
  <2>1. ASSUME NEW n \in 0..l + 1
        PROVE  f[n] = IF n = 0 THEN os ELSE Restore(f[n - 1], t[(l + 1) - n + 1].pre)
    BY <1>3, <1>4
  <2>2. QED
    BY <2>1
<1>7. g[0] = Restore(os, e.pre) /\ \A n \in 1..l : g[n] = Restore(g[n - 1], es[l - n + 1].pre)
  <2>1. ASSUME NEW n \in 0..l
        PROVE  g[n] = IF n = 0 THEN Restore(os, e.pre) ELSE Restore(g[n - 1], es[l - n + 1].pre)
    BY <1>2, <1>5
  <2>2. QED
    BY <2>1
<1> DEFINE T == {n \in Nat : n <= l => f[n + 1] = g[n]}
<1>8. 0 \in T
  <2>1. f[1] = Restore(f[0], t[(l + 1) - 1 + 1].pre)
    <3>1. 1 \in 1..l + 1 /\ 1 - 1 = 0
      OBVIOUS
    <3>2. QED
      BY <1>6, <3>1
  <2>2. (l + 1) - 1 + 1 = l + 1 /\ 0 + 1 = 1
    OBVIOUS
  <2>3. QED
    BY <1>3, <1>6, <1>7, <2>1, <2>2
<1>9. ASSUME NEW n \in Nat, n \in T PROVE n + 1 \in T
  <2>1. CASE n + 1 <= l
    <3>1. /\ n + 1 \in 1..l /\ (n + 1) + 1 \in 1..l + 1 /\ n <= l
          /\ ((n + 1) + 1) - 1 = n + 1 /\ (n + 1) - 1 = n
          /\ (l + 1) - ((n + 1) + 1) + 1 = l - (n + 1) + 1
          /\ l - (n + 1) + 1 \in 1..l
      BY <2>1
    <3>2. f[(n + 1) + 1] = Restore(f[n + 1], t[l - (n + 1) + 1].pre)
      BY <1>6, <3>1
    <3>3. g[n + 1] = Restore(g[n], es[l - (n + 1) + 1].pre)
      BY <1>7, <3>1
    <3>4. t[l - (n + 1) + 1] = es[l - (n + 1) + 1] /\ f[n + 1] = g[n]
      BY <1>3, <1>9, <3>1
    <3>5. QED
      BY <3>2, <3>3, <3>4
  <2>2. QED
    BY <2>1
<1>10. l \in T
  <2> HIDE DEF T
  <2>1. Nat \subseteq T
    BY <1>8, <1>9, NumbersIn
  <2>2. QED
    BY <2>1
<1>11. QED
  BY <1>1, <1>2, <1>3, <1>4, <1>5, <1>10

-----------------------------------------------------------------------------
(* What goes back when the columns of a capture do. *)
LEMMA RestoreFacts ==
    ASSUME NEW os \in Objects, NEW pre \in Captures
    PROVE  /\ Restore(os, pre) \in Objects
           /\ DOMAIN pre \subseteq Objs
           /\ \A o \in Objs :
                 /\ Restore(os, pre)[o].kids = os[o].kids
                 /\ o \in DOMAIN pre =>
                       Restore(os, pre)[o].key = pre[o].key /\ Restore(os, pre)[o].fk = pre[o].fk
                 /\ o \notin DOMAIN pre => Restore(os, pre)[o] = os[o]
<1>1. PICK S \in SUBSET Objs : pre \in [S -> Columned]
  BY DEF Captures
<1>2. ASSUME NEW o \in Objs
      PROVE  /\ Restore(os, pre)[o] \in ObjState
             /\ Restore(os, pre)[o].kids = os[o].kids
             /\ o \in DOMAIN pre =>
                   Restore(os, pre)[o].key = pre[o].key /\ Restore(os, pre)[o].fk = pre[o].fk
             /\ o \notin DOMAIN pre => Restore(os, pre)[o] = os[o]
  <2>1. CASE o \in S
    BY <1>1, <2>1 DEF Restore, Objects, ObjState, Columned
  <2>2. CASE o \notin S
    BY <1>1, <2>2 DEF Restore, Objects
  <2>3. QED
    BY <2>1, <2>2
<1>3. Restore(os, pre) = [o \in Objs |-> Restore(os, pre)[o]]
  BY DEF Restore
<1>4. QED
  BY <1>1, <1>2, <1>3 DEF Objects

(* Same(os, ot, o): the key and the foreign key of o are as in the other.  *)
Same(os, ot, o) == os[o].key = ot[o].key /\ os[o].fk = ot[o].fk

(* A noted object gets back what a capture has, whatever it holds now.     *)
LEMMA RunEndsFacts ==
    ASSUME NEW es \in Seq(Ends), NEW os \in Objects
    PROVE  /\ RunEnds(os, es) \in Objects
           /\ \A o \in Objs : /\ RunEnds(os, es)[o].kids = os[o].kids
                              /\ ~Noted(es, o) => Same(RunEnds(os, es), os, o)
           /\ \A ot \in Objects : \A o \in Objs :
                 Noted(es, o) \/ Same(os, ot, o) => Same(RunEnds(os, es), RunEnds(ot, es), o)
<1> DEFINE P(x) == \A a \in Objects :
              /\ RunEnds(a, x) \in Objects
              /\ \A o \in Objs : /\ RunEnds(a, x)[o].kids = a[o].kids
                                 /\ ~Noted(x, o) => Same(RunEnds(a, x), a, o)
              /\ \A b \in Objects : \A o \in Objs :
                    Noted(x, o) \/ Same(a, b, o) => Same(RunEnds(a, x), RunEnds(b, x), o)
           T == {x \in Seq(Ends) : P(x)}
<1>1. <<>> \in T
  <2>1. <<>> \in Seq(Ends) /\ \A a : RunEnds(a, <<>>) = a
    BY EmptySeq, RunEndsEmpty
  <2>2. \A o : ~Noted(<<>>, o)
    BY DEF Noted
  <2>3. QED
    BY <2>1, <2>2 DEF Same
<1>2. ASSUME NEW x \in Seq(Ends), x \in T, NEW e \in Ends PROVE Append(x, e) \in T
  <2>1. PICK y : y = Append(x, e)
    OBVIOUS
  <2>2. y \in Seq(Ends) /\ e.pre \in Captures /\ \A a : RunEnds(a, y) = RunEnds(Restore(a, e.pre), x)
    BY <2>1, AppendProperties, RunEndsAppend DEF Ends
  <2>3. \A o : Noted(y, o) <=> Noted(x, o) \/ o \in DOMAIN e.pre
    <3>1. PICK l \in Nat : l = Len(x)
      BY LenProperties
    <3>2. /\ DOMAIN x = 1..l /\ DOMAIN y = 1..l + 1
          /\ \A i \in 1..l : y[i] = x[i]
          /\ y[l + 1] = e
      BY <2>1, <3>1, AppendProperties, LenProperties
    <3>3. \A i : i \in DOMAIN y <=> i \in DOMAIN x \/ i = l + 1
      BY <3>2
    <3>4. QED
      BY <3>2, <3>3 DEF Noted
  <2>4. ASSUME NEW a \in Objects
        PROVE  /\ RunEnds(a, y) \in Objects
               /\ \A o \in Objs : /\ RunEnds(a, y)[o].kids = a[o].kids
                                  /\ ~Noted(y, o) => Same(RunEnds(a, y), a, o)
    <3>1. PICK r : r = Restore(a, e.pre)
      OBVIOUS
    <3>2. /\ r \in Objects
          /\ \A o \in Objs : r[o].kids = a[o].kids /\ (o \notin DOMAIN e.pre => r[o] = a[o])
      BY <2>2, <3>1, RestoreFacts
    <3>3. /\ RunEnds(r, x) \in Objects
          /\ \A o \in Objs : /\ RunEnds(r, x)[o].kids = r[o].kids
                             /\ ~Noted(x, o) => Same(RunEnds(r, x), r, o)
      BY <1>2, <3>2
    <3>4. RunEnds(a, y) = RunEnds(r, x)
      BY <2>2, <3>1
    <3>5. QED
      BY <2>3, <3>2, <3>3, <3>4 DEF Same
  <2>5. ASSUME NEW a \in Objects, NEW b \in Objects, NEW o \in Objs,
               Noted(y, o) \/ Same(a, b, o)
        PROVE  Same(RunEnds(a, y), RunEnds(b, y), o)
    <3>1. PICK r : r = Restore(a, e.pre)
      OBVIOUS
    <3>2. PICK s : s = Restore(b, e.pre)
      OBVIOUS
    <3>3. r \in Objects /\ s \in Objects
      BY <2>2, <3>1, <3>2, RestoreFacts
    <3>4. Noted(x, o) \/ Same(r, s, o)
      <4>1. CASE o \in DOMAIN e.pre
        <5>1. r[o].key = e.pre[o].key /\ r[o].fk = e.pre[o].fk
          BY <2>2, <3>1, <4>1, RestoreFacts
        <5>2. s[o].key = e.pre[o].key /\ s[o].fk = e.pre[o].fk
          BY <2>2, <3>2, <4>1, RestoreFacts
        <5>3. QED
          BY <5>1, <5>2 DEF Same
      <4>2. CASE o \notin DOMAIN e.pre
        <5>1. r[o] = a[o] /\ s[o] = b[o]
          BY <2>2, <3>1, <3>2, <4>2, RestoreFacts
        <5>2. QED
          BY <2>3, <2>5, <4>2, <5>1 DEF Same
      <4>3. QED
        BY <4>1, <4>2
    <3>5. Same(RunEnds(r, x), RunEnds(s, x), o)
      BY <1>2, <3>3, <3>4
    <3>6. QED
      BY <2>2, <3>1, <3>2, <3>5
  <2>6. P(y)
    BY <2>4, <2>5
  <2>7. QED
    BY <2>1, <2>2, <2>6
<1>3. Seq(Ends) \subseteq T
  <2> HIDE DEF T
  <2>1. QED
    BY <1>1, <1>2, ListsIn
<1>4. QED
  BY <1>3

-----------------------------------------------------------------------------
(* Only keys and foreign keys matter to whether keys are real. *)
LEMMA RealSame ==
    ASSUME NEW os, NEW ot, NEW w, \A k \in DOMAIN w : w[k].by \in Objs,
           \A o \in Objs : Same(os, ot, o), RealIn(os, w)
    PROVE  RealIn(ot, w)
BY DEF RealIn, Same

(* Rows are functions on keys that were generated. *)
LEMMA RowsAre ==
    ASSUME BufferTypes, NEW w \in Rows
    PROVE  /\ DOMAIN w \subseteq 1 .. nextKey - 1 /\ DOMAIN w \subseteq 1 .. MaxKey
           /\ w \in [DOMAIN w -> Row]
           /\ \A k \in DOMAIN w : w[k] \in Row /\ w[k].by \in Objs
<1>1. PICK D \in SUBSET (1 .. nextKey - 1) : w \in [D -> Row]
  BY DEF Rows
<1>2. MaxKey \in Nat /\ nextKey \in 1 .. MaxKey + 1
  BY WriteBufferAssumption DEF BufferTypes
<1>3. \A k \in D : k \in 1 .. MaxKey /\ w[k] \in Row /\ w[k].by \in Objs
  BY <1>1, <1>2 DEF Row
<1>4. QED
  BY <1>1, <1>3

(* The keys generated so far are among those generated later. *)
LEMMA RangeGrows ==
    ASSUME NEW m \in Nat, NEW n \in Nat, n >= m
    PROVE  \A k \in 1 .. m - 1 : k \in 1 .. n - 1
OBVIOUS

(* More rows are possible when a key is generated. *)
LEMMA RowsGrow ==
    ASSUME BufferTypes, nextKey' \in 1 .. MaxKey + 1, nextKey' >= nextKey
    PROVE  Rows \subseteq Rows'
<1>1. \A D \in SUBSET (1 .. nextKey - 1) : D \in SUBSET (1 .. nextKey' - 1)
  <2>1. MaxKey \in Nat /\ nextKey \in 1 .. MaxKey + 1
    BY WriteBufferAssumption DEF BufferTypes
  <2>2. nextKey \in Nat /\ nextKey' \in Nat
    BY <2>1
  <2>3. \A k \in 1 .. nextKey - 1 : k \in 1 .. nextKey' - 1
    <3>1. PICK m \in Nat, n \in Nat : m = nextKey /\ n = nextKey' /\ n >= m
      BY <2>2
    <3>2. QED
      BY <3>1, RangeGrows
  <2>4. QED
    BY <2>3
<1>2. QED
  BY <1>1 DEF Rows

(* Callbacks leave the same when what they start from differs only in what *)
(* they put back.                                                          *)
LEMMA EndsSame ==
    ASSUME BufferTypes, NEW os \in Objects, NEW ot \in Objects,
           \A o \in Objs : Noted(onEnd, o) \/ Same(os, ot, o),
           RealIn(RunEnds(os, onEnd), rows)
    PROVE  RealIn(RunEnds(ot, onEnd), rows)
<1>1. onEnd \in Seq(Ends) /\ \A k \in DOMAIN rows : rows[k].by \in Objs
  BY RowsAre DEF BufferTypes
<1>2. \A o \in Objs : Same(RunEnds(os, onEnd), RunEnds(ot, onEnd), o)
  BY <1>1, RunEndsFacts
<1>3. QED
  BY <1>1, <1>2, RealSame

(* A call between flushes: the objects keep their keys and foreign keys.   *)
LEMMA CallerStep ==
    ASSUME BufferInv, flush.pc = "idle", outer # "broken",
           UNCHANGED <<rows, work, nextKey, outer, onEnd, flush>>,
           obj' \in Objects, \A c \in Kids : obj'[c].kids = {},
           queue' \in [persists : SUBSET Objs, deletes : SUBSET Deletes, bulks : SUBSET Bulks],
           \A o \in Objs : Same(obj, obj', o)
    PROVE  BufferInv'
<1>1. Rows' = Rows
  BY DEF Rows
<1>2. BufferTypes'
  BY <1>1 DEF BufferInv, BufferTypes
<1>3. RunInv'
  BY DEF RunInv
<1>4. /\ Then = obj /\ Then' = obj' /\ ThenRows = work /\ ThenRows' = work
      /\ RealIn(obj, work) /\ obj \in Objects /\ Among(rows, work)
      /\ onEnd = <<>> => rows = work
      /\ RealIn(RunEnds(obj, onEnd), rows)
      /\ onEnd \in Seq(Ends)
  BY DEF Then, ThenRows, BufferInv, ThenInv, EndInv, BufferTypes
<1>5. /\ \A k \in DOMAIN work : work[k].by \in Objs
      /\ \A k \in DOMAIN rows : rows[k].by \in Objs
  BY RowsAre DEF BufferInv, BufferTypes
<1>6. RealIn(obj', work)
  BY <1>4, <1>5, RealSame
<1>7. ThenInv'
  BY <1>4, <1>6 DEF ThenInv
<1>8. RealIn(RunEnds(obj', onEnd), rows)
  BY <1>4, EndsSame DEF BufferInv
<1>9. EndInv'
  BY <1>4, <1>8 DEF EndInv
<1>10. QED
  BY <1>2, <1>3, <1>7, <1>9 DEF BufferInv

(* A step of a flush: it writes objects it can put back, and their rows.   *)
JobStep ==
    /\ flush.pc = "run" /\ UNCHANGED <<rows, outer, onEnd, queue>>
    /\ IsFlush(flush') /\ flush'.pc = "run"
    /\ flush'.pre = flush.pre /\ flush'.start = flush.start
    /\ flush'.todo \in Seq(SUBSET JobsOn(DOMAIN flush.pre))
    /\ nextKey' \in 1 .. MaxKey + 1 /\ nextKey' >= nextKey
    /\ work' \in Rows' /\ obj' \in Objects
    /\ \A o \in Objs : /\ obj'[o].kids = obj[o].kids
                       /\ o \notin DOMAIN flush.pre => Same(obj, obj', o)
    /\ RealIn(obj', work')
    /\ Among(work, work')

(* What a failure would leave stays the same at such a step, *)
LEMMA ThenStays ==
    ASSUME BufferInv, JobStep
    PROVE  /\ Then \in Objects /\ Then' \in Objects
           /\ ThenRows = flush.start /\ ThenRows' = flush.start
           /\ \A o \in Objs : Same(Then, Then', o)
<1>1. obj \in Objects /\ flush.pre \in Captures /\ obj' \in Objects
  BY DEF BufferInv, BufferTypes, RunInv, JobStep
<1>2. /\ Then = Restore(obj, flush.pre) /\ Then' = Restore(obj', flush.pre)
      /\ ThenRows = flush.start /\ ThenRows' = flush.start
  BY DEF Then, ThenRows, JobStep
<1>3. PICK r : r = Restore(obj, flush.pre)
  OBVIOUS
<1>4. PICK s : s = Restore(obj', flush.pre)
  OBVIOUS
<1>5. /\ r \in Objects
      /\ \A o \in Objs :
            /\ o \in DOMAIN flush.pre =>
                  r[o].key = flush.pre[o].key /\ r[o].fk = flush.pre[o].fk
            /\ o \notin DOMAIN flush.pre => r[o] = obj[o]
  BY <1>1, <1>3, RestoreFacts
<1>6. /\ s \in Objects
      /\ \A o \in Objs :
            /\ o \in DOMAIN flush.pre =>
                  s[o].key = flush.pre[o].key /\ s[o].fk = flush.pre[o].fk
            /\ o \notin DOMAIN flush.pre => s[o] = obj'[o]
  BY <1>1, <1>4, RestoreFacts
<1>7. \A o \in Objs : o \notin DOMAIN flush.pre => Same(obj, obj', o)
  BY DEF JobStep
<1>8. QED
  BY <1>2, <1>3, <1>4, <1>5, <1>6, <1>7 DEF Same

(* and so does what is said of it. *)
LEMMA RunStep == ASSUME BufferInv, JobStep PROVE BufferInv'
<1> USE DEF JobStep
<1>1. BufferTypes /\ obj \in Objects /\ flush.pre \in Captures /\ flush.start \in Rows
      /\ rows \in Rows /\ outer # "broken"
  BY DEF BufferInv, BufferTypes, RunInv
<1>2. Rows \subseteq Rows'
  BY <1>1, RowsGrow
<1>3. \A c \in Kids : obj'[c].kids = {}
  BY <1>1 DEF BufferTypes, Objs
<1>4. BufferTypes'
  BY <1>1, <1>2, <1>3 DEF BufferTypes
<1>5. \A o \in DOMAIN flush.pre : o \in Objs
  BY <1>1, RestoreFacts
<1>6. \A o \in DOMAIN flush.pre : KidsOf(o)' \subseteq DOMAIN flush.pre
  BY <1>5 DEF BufferInv, RunInv, KidsOf
<1>7. Among(flush.start, work')
  BY DEF BufferInv, RunInv, Among
<1>8. RunInv'
  BY <1>1, <1>2, <1>6, <1>7 DEF RunInv
<1>9. /\ Then \in Objects /\ Then' \in Objects /\ \A o \in Objs : Same(Then, Then', o)
      /\ ThenRows = flush.start /\ ThenRows' = flush.start
  BY ThenStays
<1>10. \A k \in DOMAIN flush.start : flush.start[k].by \in Objs
  BY <1>1, RowsAre
<1>11. RealIn(Then', flush.start)
  <2>1. RealIn(Then, flush.start)
    <3>1. RealIn(Then, ThenRows)
      BY <1>1 DEF BufferInv, ThenInv
    <3>2. QED
      BY <1>9, <3>1
  <2>2. PICK r : r = Then
    OBVIOUS
  <2>3. PICK s : s = Then'
    OBVIOUS
  <2>4. RealIn(s, flush.start)
    BY <1>9, <1>10, <2>1, <2>2, <2>3, RealSame
  <2>5. QED
    BY <2>3, <2>4
<1>12. ThenInv'
  <2>1. /\ Among(rows, ThenRows) /\ (onEnd = <<>> => rows = ThenRows)
        /\ rows' = rows /\ outer' = outer /\ onEnd' = onEnd
    BY <1>1 DEF BufferInv, ThenInv
  <2>2. QED
    BY <1>1, <1>9, <1>11, <2>1 DEF ThenInv
<1>13. EndInv'
  <2>1. PICK r : r = Then
    OBVIOUS
  <2>2. PICK s : s = Then'
    OBVIOUS
  <2>3. RealIn(RunEnds(r, onEnd), rows)
    BY <2>1 DEF BufferInv, EndInv
  <2>4. RealIn(RunEnds(s, onEnd), rows)
    BY <1>1, <1>9, <2>1, <2>2, <2>3, EndsSame
  <2>5. QED
    BY <2>2, <2>4 DEF EndInv
<1>14. QED
  BY <1>4, <1>8, <1>12, <1>13 DEF BufferInv

-----------------------------------------------------------------------------
(* At first the stored objects have their rows. *)
LEMMA BufferInit == ASSUME Init PROVE BufferInv
<1> DEFINE n == Cardinality(Stored)
           Of(k) == CHOOSE x \in Stored : FirstKey[x] = k
<1>1. MaxKey \in Nat /\ n \in Nat /\ n <= MaxKey /\ nextKey = n + 1 /\ \A o \in Stored : FirstKey[o] \in 1..n
  <2>1. IsFiniteSet(Stored)
    BY FS_Subset, WriteBufferAssumption
  <2>2. QED
    BY <2>1, FS_CardinalityType, WriteBufferAssumption DEF Init
<1>2. \A o \in Stored : Of(FirstKey[o]) = o
  BY WriteBufferAssumption, Zenon
<1>3. \A o \in Stored : o \in Objs /\ FkAtFirst(o) \in 0..n
                        /\ (FkAtFirst(o) # 0 => \E x \in Stored : FkAtFirst(o) = FirstKey[x])
  BY <1>1, WriteBufferAssumption DEF FkAtFirst
<1>4. FirstVal \in Vals
  BY WriteBufferAssumption DEF FirstVal
<1>5. /\ DOMAIN rows = {FirstKey[o] : o \in Stored}
      /\ \A o \in Stored : /\ FirstKey[o] \in DOMAIN rows
                           /\ rows[FirstKey[o]] = [val |-> FirstVal, fk |-> FkAtFirst(o),
                                                   by |-> o, state |-> "live"]
  BY <1>2 DEF Init
<1> HIDE DEF n, Of
<1>6. rows \in Rows
  <2> DEFINE D == {FirstKey[o] : o \in Stored}
  <2>1. D \in SUBSET (1 .. nextKey - 1)
    BY <1>1
  <2>2. ASSUME NEW k \in D PROVE rows[k] \in Row
    <3>1. PICK o \in Stored : k = FirstKey[o]
      OBVIOUS
    <3>2. FkAtFirst(o) \in 0 .. MaxKey /\ o \in Objs
      BY <1>1, <1>3
    <3>3. [val |-> FirstVal, fk |-> FkAtFirst(o), by |-> o, state |-> "live"] \in Row
      BY <1>4, <3>2 DEF Row
    <3>4. QED
      BY <1>5, <3>1, <3>3
  <2>3. rows = [k \in D |-> rows[k]]
    BY <1>5 DEF Init
  <2>4. rows \in [D -> Row]
    BY <2>2, <2>3
  <2> HIDE DEF D
  <2>5. QED
    BY <2>1, <2>4, Zenon DEF Rows
<1>7. /\ \A o \in Objs : o \in Stored =>
             obj[o] = [key |-> FirstKey[o], val |-> FirstVal, fk |-> FkAtFirst(o),
                       kids |-> KidsAtFirst(o)]
      /\ \A o \in Objs : o \notin Stored =>
             obj[o] = [key |-> 0, val |-> FirstVal, fk |-> 0, kids |-> {}]
  BY DEF Init, NewObject
<1>8. \A o \in Stored : KidsAtFirst(o) \subseteq Kids /\ (o \in Kids => KidsAtFirst(o) = {})
  BY WriteBufferAssumption DEF KidsAtFirst
<1>9. obj \in Objects /\ \A c \in Kids : obj[c].kids = {}
  <2>1. \A o \in Objs : obj[o] \in ObjState
    <3>1. \A o \in Stored : FirstKey[o] \in 0 .. MaxKey /\ FkAtFirst(o) \in 0 .. MaxKey
      BY <1>1, <1>3
    <3>2. ASSUME NEW o \in Objs PROVE obj[o] \in ObjState
      <4>1. CASE o \in Stored
        <5>1. PICK k \in 0 .. MaxKey : k = FirstKey[o]
          BY <3>1, <4>1
        <5>2. PICK f \in 0 .. MaxKey : f = FkAtFirst(o)
          BY <3>1, <4>1
        <5>3. PICK c \in SUBSET Kids : c = KidsAtFirst(o)
          BY <1>8, <4>1
        <5>4. [key |-> k, val |-> FirstVal, fk |-> f, kids |-> c] \in ObjState
          BY <1>4, IsObject
        <5>5. QED
          BY <1>7, <4>1, <5>1, <5>2, <5>3, <5>4
      <4>2. CASE o \notin Stored
        <5>1. 0 \in 0 .. MaxKey /\ {} \in SUBSET Kids
          BY <1>1
        <5>2. [key |-> 0, val |-> FirstVal, fk |-> 0, kids |-> {}] \in ObjState
          BY <1>4, <5>1, IsObject
        <5>3. QED
          BY <1>7, <4>2, <5>2
      <4>3. QED
        BY <4>1, <4>2
    <3>3. QED
      BY <3>2
  <2>2. obj = [o \in Objs |-> obj[o]]
    BY DEF Init
  <2>3. ASSUME NEW c \in Kids PROVE obj[c].kids = {}
    <3>1. c \in Objs
      BY DEF Objs
    <3>2. CASE c \in Stored
      <4>1. PICK x : x = [key |-> FirstKey[c], val |-> FirstVal, fk |-> FkAtFirst(c),
                          kids |-> KidsAtFirst(c)]
        OBVIOUS
      <4>2. x.kids = KidsAtFirst(c)
        BY <4>1
      <4>3. QED
        BY <1>7, <1>8, <3>1, <3>2, <4>1, <4>2
    <3>3. CASE c \notin Stored
      BY <1>7, <3>1, <3>3
    <3>4. QED
      BY <3>2, <3>3
  <2>4. QED
    BY <2>1, <2>2, <2>3 DEF Objects
<1>10. /\ work = rows /\ flush.pc = "idle" /\ onEnd = <<>> /\ outer = "none"
       /\ Then = obj /\ ThenRows = rows
  BY DEF Init, Idle, Then, ThenRows
<1>11. BufferTypes
  <2>1. IsFlush(flush)
    BY DEF Init, Idle, IsFlush
  <2>2. queue \in [persists : SUBSET Objs, deletes : SUBSET Deletes, bulks : SUBSET Bulks]
    BY DEF Init, NoWork
  <2>3. nextKey \in 1 .. MaxKey + 1
    BY <1>1
  <2>4. onEnd \in Seq(Ends)
    BY <1>10, EmptySeq
  <2>5. QED
    BY <1>6, <1>9, <1>10, <2>1, <2>2, <2>3, <2>4 DEF BufferTypes
<1>12. RealIn(obj, rows)
  <2>1. /\ \A o \in Stored : obj[o].key = FirstKey[o] /\ obj[o].fk = FkAtFirst(o)
        /\ \A o \in Objs \ Stored : obj[o].key = 0 /\ obj[o].fk = 0
    <3>1. ASSUME NEW o \in Stored PROVE obj[o].key = FirstKey[o] /\ obj[o].fk = FkAtFirst(o)
      <4>1. PICK x : x = [key |-> FirstKey[o], val |-> FirstVal, fk |-> FkAtFirst(o),
                          kids |-> KidsAtFirst(o)]
        OBVIOUS
      <4>2. x.key = FirstKey[o] /\ x.fk = FkAtFirst(o)
        BY <4>1
      <4>3. QED
        BY <1>3, <1>7, <4>1, <4>2
    <3>2. \A o \in Objs \ Stored : obj[o].key = 0 /\ obj[o].fk = 0
      BY <1>7
    <3>3. QED
      BY <3>1, <3>2
  <2>2. ASSUME NEW o \in Stored
        PROVE  rows[FirstKey[o]].by = o /\ rows[FirstKey[o]].fk = FkAtFirst(o)
    <3>1. PICK x : x = [val |-> FirstVal, fk |-> FkAtFirst(o), by |-> o, state |-> "live"]
      OBVIOUS
    <3>2. x.by = o /\ x.fk = FkAtFirst(o)
      BY <3>1
    <3>3. QED
      BY <1>5, <3>1, <3>2
  <2>3. \A o \in Objs : obj[o].key # 0 => obj[o].key \in DOMAIN rows /\ rows[obj[o].key].by = o
    BY <1>5, <2>1, <2>2
  <2>4. \A o \in Objs : obj[o].fk = IF obj[o].key = 0 THEN 0 ELSE rows[obj[o].key].fk
    <3>1. \A o \in Stored : FirstKey[o] # 0
      BY <1>1
    <3>2. QED
      BY <2>1, <2>2, <3>1
  <2>5. ASSUME NEW k \in DOMAIN rows
        PROVE  /\ obj[rows[k].by].key = k /\ rows[k].fk \in {0} \cup DOMAIN rows
               /\ rows[k].by \in Parents => rows[k].fk = 0
    <3>1. PICK o \in Stored : k = FirstKey[o]
      BY <1>5
    <3>2. rows[k].by = o /\ rows[k].fk = FkAtFirst(o)
      BY <2>2, <3>1
    <3>3. o \in Parents => FkAtFirst(o) = 0
      BY WriteBufferAssumption DEF FkAtFirst
    <3>4. QED
      BY <1>3, <1>5, <2>1, <3>1, <3>2, <3>3
  <2>6. QED
    BY <2>3, <2>4, <2>5 DEF RealIn
<1>13. ThenInv /\ RunInv
  BY <1>10, <1>12 DEF ThenInv, RunInv, Among
<1>14. EndInv
  BY <1>10, <1>12, RunEndsEmpty DEF EndInv
<1>15. QED
  BY <1>11, <1>13, <1>14 DEF BufferInv

-----------------------------------------------------------------------------
(* The caller edits objects and collections, which leaves keys as they are. *)
LEMMA EditSteps ==
    ASSUME BufferInv,
           \/ \E o \in Objs, v \in Vals : Edit(o, v)
           \/ \E c \in Kids, p \in Parents : AddKid(c, p) \/ DropKid(c, p)
    PROVE  BufferInv'
<1>1. obj \in Objects /\ BufferTypes /\ \A o \in Objs : obj[o] \in ObjState
  BY DEF BufferInv, BufferTypes, Objects
<1>2. ASSUME NEW o \in Objs, NEW v \in Vals, Edit(o, v) PROVE BufferInv'
  <2>1. /\ flush.pc = "idle" /\ outer # "broken"
        /\ UNCHANGED <<rows, work, nextKey, outer, onEnd, flush, queue>>
        /\ obj' = [obj EXCEPT ![o].val = v]
    BY <1>2 DEF Edit, Call, txVars, flushVars
  <2>2. /\ obj' \in Objects
        /\ \A x \in Objs : Same(obj, obj', x) /\ obj'[x].kids = obj[x].kids
    <3>1. PICK y : y = [obj[o] EXCEPT !.val = v]
      OBVIOUS
    <3>2. y \in ObjState /\ y.key = obj[o].key /\ y.fk = obj[o].fk /\ y.kids = obj[o].kids
      BY <1>1, <3>1 DEF ObjState
    <3>3. obj' = [obj EXCEPT ![o] = y]
      BY <2>1, <3>1
    <3>4. obj' \in Objects /\ obj'[o] = y /\ \A x \in Objs : x # o => obj'[x] = obj[x]
      BY <1>1, <3>2, <3>3 DEF Objects
    <3>5. QED
      BY <3>2, <3>4 DEF Same
  <2>3. \A c \in Kids : obj'[c].kids = {}
    BY <1>1, <2>2 DEF BufferTypes, Objs
  <2>4. QED
    BY <1>1, <2>1, <2>2, <2>3, CallerStep DEF BufferTypes
<1>3. ASSUME NEW c \in Kids, NEW p \in Parents, NEW K \in SUBSET Kids,
             flush.pc = "idle", outer # "broken",
             UNCHANGED <<rows, work, nextKey, outer, onEnd, flush, queue>>,
             obj' = [obj EXCEPT ![p].kids = K]
      PROVE  BufferInv'
  <2>1. p \in Objs /\ p \notin Kids
    BY WriteBufferAssumption DEF Objs
  <2>2. /\ obj' \in Objects
        /\ \A x \in Objs : Same(obj, obj', x) /\ (x # p => obj'[x].kids = obj[x].kids)
    <3>1. PICK y : y = [obj[p] EXCEPT !.kids = K]
      OBVIOUS
    <3>2. y \in ObjState /\ y.key = obj[p].key /\ y.fk = obj[p].fk
      BY <1>1, <2>1, <3>1 DEF ObjState
    <3>3. obj' = [obj EXCEPT ![p] = y]
      BY <1>3, <3>1
    <3>4. obj' \in Objects /\ obj'[p] = y /\ \A x \in Objs : x # p => obj'[x] = obj[x]
      BY <1>1, <2>1, <3>2, <3>3 DEF Objects
    <3>5. QED
      BY <3>2, <3>4 DEF Same
  <2>3. \A x \in Kids : obj'[x].kids = {}
    BY <1>1, <2>1, <2>2 DEF BufferTypes, Objs
  <2>4. QED
    BY <1>1, <1>3, <2>2, <2>3, CallerStep DEF BufferTypes
<1>4. ASSUME NEW c \in Kids, NEW p \in Parents, AddKid(c, p) \/ DropKid(c, p) PROVE BufferInv'
  <2>1. /\ flush.pc = "idle" /\ outer # "broken"
        /\ UNCHANGED <<rows, work, nextKey, outer, onEnd, flush, queue>>
        /\ \/ obj' = [obj EXCEPT ![p].kids = @ \cup {c}] /\ obj[p].kids # NotLoaded
           \/ obj' = [obj EXCEPT ![p].kids = @ \ {c}] /\ c \in KidsOf(p)
    BY <1>4 DEF AddKid, DropKid, Call, txVars, flushVars
  <2>2. p \in Objs
    BY DEF Objs
  <2>3. obj[p].kids # NotLoaded => obj[p].kids \subseteq Kids
    BY <1>1, <2>2, ObjectFields
  <2>4. c \in KidsOf(p) => obj[p].kids # NotLoaded
    BY DEF KidsOf
  <2>5. \/ obj[p].kids \cup {c} \in SUBSET Kids /\ obj' = [obj EXCEPT ![p].kids = obj[p].kids \cup {c}]
        \/ obj[p].kids \ {c} \in SUBSET Kids /\ obj' = [obj EXCEPT ![p].kids = obj[p].kids \ {c}]
    BY <2>1, <2>3, <2>4
  <2>6. QED
    BY <1>3, <2>1, <2>5
<1>5. QED
  BY <1>2, <1>4

(* Calls that change the queues and the buffer leave the objects alone. *)
LEMMA QueueSteps ==
    ASSUME BufferInv,
           \/ \E o \in Objs : \/ PersistNew(o) \/ PersistKnown(o) \/ PersistTracked(o)
                              \/ MergeObject(o) \/ RemoveQueued(o) \/ RemoveStored(o)
                              \/ DeleteByKey(o) \/ Detach(o) \/ LoadKnown(o)
           \/ \E b \in Bulks : QueueBulk(b)
    PROVE  BufferInv'
<1>1. /\ obj \in Objects /\ \A c \in Kids : obj[c].kids = {}
      /\ queue \in [persists : SUBSET Objs, deletes : SUBSET Deletes, bulks : SUBSET Bulks]
  BY DEF BufferInv, BufferTypes
<1>2. ASSUME flush.pc = "idle", outer # "broken",
             UNCHANGED <<rows, work, nextKey, outer, onEnd, flush, obj>>,
             queue' \in [persists : SUBSET Objs, deletes : SUBSET Deletes, bulks : SUBSET Bulks]
      PROVE  BufferInv'
  BY <1>1, <1>2, CallerStep DEF Same
<1>3. \A o \in Objs : [by |-> "key", key |-> obj[o].key, kid |-> o \in Kids] \in Deletes
  <2>1. \A o \in Objs : obj[o].key \in Nat
    BY <1>1, ObjectFields
  <2>2. QED
    BY <2>1 DEF Deletes
<1> USE DEF Call, txVars, flushVars
<1>4. ASSUME NEW o \in Objs, PersistNew(o) PROVE BufferInv'
  BY <1>1, <1>2, <1>4 DEF PersistNew
<1>5. ASSUME NEW o \in Objs, PersistKnown(o) PROVE BufferInv'
  BY <1>1, <1>2, <1>5 DEF PersistKnown, CancelQueuedDelete
<1>6. ASSUME NEW o \in Objs, MergeObject(o) PROVE BufferInv'
  BY <1>1, <1>2, <1>6 DEF MergeObject
<1>7. ASSUME NEW o \in Objs, RemoveQueued(o) PROVE BufferInv'
  BY <1>1, <1>2, <1>7 DEF RemoveQueued
<1>8. ASSUME NEW o \in Objs, RemoveStored(o) PROVE BufferInv'
  BY <1>1, <1>2, <1>3, <1>8 DEF RemoveStored
<1>9. ASSUME NEW o \in Objs, DeleteByKey(o) PROVE BufferInv'
  BY <1>1, <1>2, <1>3, <1>9 DEF DeleteByKey
<1>10. ASSUME NEW o \in Objs, Detach(o) PROVE BufferInv'
  BY <1>1, <1>2, <1>10 DEF Detach
<1>11. ASSUME NEW o \in Objs, LoadKnown(o) PROVE BufferInv'
  BY <1>1, <1>2, <1>11 DEF LoadKnown
<1>12. ASSUME NEW b \in Bulks, QueueBulk(b) PROVE BufferInv'
  BY <1>1, <1>2, <1>12 DEF QueueBulk
<1>13. ASSUME NEW o \in Objs, PersistTracked(o) PROVE BufferInv'
  BY <1>1, <1>2, <1>13 DEF PersistTracked, CancelQueuedDelete
<1>14. QED
  BY <1>4, <1>5, <1>6, <1>7, <1>8, <1>9, <1>10, <1>11, <1>12, <1>13

(* A row that is loaded gives its columns to the object. *)
LEMMA RowLoaded ==
    ASSUME BufferInv, NEW o \in Objs, LoadRow(o), NEW k, k = obj[o].key
    PROVE  /\ obj' \in Objects
           /\ k \in DOMAIN work /\ work[k] \in Row /\ k # 0
           /\ \A y \in Objs : y # o => obj'[y] = obj[y]
           /\ obj'[o] = [key |-> k, val |-> work[k].val, fk |-> work[k].fk,
                         kids |-> IF o \in Parents THEN NotLoaded ELSE {}]
<1>1. /\ flush.pc = "idle" /\ outer # "broken"
      /\ UNCHANGED <<rows, work, nextKey, outer, onEnd, flush, queue>>
      /\ obj[o].key \in Live(work)
      /\ obj' = [obj EXCEPT ![o].val = work[obj[o].key].val, ![o].fk = work[obj[o].key].fk,
                            ![o].kids = IF o \in Parents THEN NotLoaded ELSE {}]
  BY DEF LoadRow, Call, txVars, flushVars
<1>2. /\ obj \in Objects /\ \A c \in Kids : obj[c].kids = {}
      /\ queue \in [persists : SUBSET Objs, deletes : SUBSET Deletes, bulks : SUBSET Bulks]
  BY DEF BufferInv, BufferTypes
<1>3. k \in DOMAIN work
  BY <1>1 DEF Live
<1>4. work[k] \in Row /\ k # 0
  <2>1. work \in Rows /\ BufferTypes
    BY DEF BufferInv, BufferTypes
  <2>2. work[k] \in Row /\ k \in 1 .. MaxKey
    BY <1>3, <2>1, RowsAre
  <2>3. QED
    BY <2>2
<1>5. PICK K : K = IF o \in Parents THEN NotLoaded ELSE {}
  OBVIOUS
<1>6. PICK x : x = [key |-> k, val |-> work[k].val, fk |-> work[k].fk, kids |-> K]
  OBVIOUS
<1>7. /\ obj' \in Objects
      /\ \A y \in Objs : y # o => obj'[y] = obj[y]
      /\ obj'[o] = x
  <2>1. PICK y \in ObjState : y = obj[o]
    BY <1>2, ObjectFields
  <2>2. y.key = k /\ y.key \in 0 .. MaxKey
    BY <1>3, <2>1 DEF ObjState
  <2>3. work[k].val \in Vals /\ work[k].fk \in 0 .. MaxKey /\ (K = NotLoaded \/ K \in SUBSET Kids)
    BY <1>4, <1>5 DEF Row
  <2>4. x \in ObjState
    BY <1>6, <2>2, <2>3, IsObject
  <2>5. PICK v : v = work[k].val
    OBVIOUS
  <2>6. PICK f : f = work[k].fk
    OBVIOUS
  <2>7. [[[y EXCEPT !.val = v] EXCEPT !.fk = f] EXCEPT !.kids = K]
          = [key |-> y.key, val |-> v, fk |-> f, kids |-> K]
    <3>1. y = [key |-> y.key, val |-> y.val, fk |-> y.fk, kids |-> y.kids]
      BY DEF ObjState
    <3>2. PICK k0, v0, f0, c0 : y = [key |-> k0, val |-> v0, fk |-> f0, kids |-> c0]
      BY <3>1
    <3>3. y.key = k0
      BY <3>2
    <3>4. PICK y1 : y1 = [key |-> k0, val |-> v, fk |-> f0, kids |-> c0]
      OBVIOUS
    <3>5. PICK y2 : y2 = [key |-> k0, val |-> v, fk |-> f, kids |-> c0]
      OBVIOUS
    <3>6. [y EXCEPT !.val = v] = y1
      BY <3>2, <3>4
    <3>7. [y1 EXCEPT !.fk = f] = y2
      BY <3>4, <3>5
    <3>8. [y2 EXCEPT !.kids = K] = [key |-> k0, val |-> v, fk |-> f, kids |-> K]
      BY <3>5
    <3>9. QED
      BY <3>3, <3>6, <3>7, <3>8
  <2>8. obj' = [obj EXCEPT ![o] = x]
    <3>1. obj' = [obj EXCEPT ![o].val = v, ![o].fk = f, ![o].kids = K]
      BY <1>1, <1>3, <1>5, <2>5, <2>6
    <3>2. obj' = [obj EXCEPT ![o] = [[[obj[o] EXCEPT !.val = v] EXCEPT !.fk = f] EXCEPT !.kids = K]]
      BY <1>2, <3>1 DEF Objects
    <3>3. QED
      BY <1>6, <2>1, <2>2, <2>5, <2>6, <2>7, <3>2
  <2>9. QED
    BY <1>2, <2>4, <2>8 DEF Objects
<1>8. QED
  BY <1>3, <1>4, <1>5, <1>6, <1>7

(* Columns are loaded from a row, keys are not. *)
LEMMA LoadStep ==
    ASSUME BufferInv, NEW o \in Objs, LoadRow(o)
    PROVE  BufferInv'
<1>1. /\ flush.pc = "idle" /\ outer # "broken"
      /\ UNCHANGED <<rows, work, nextKey, outer, onEnd, flush, queue>>
  BY DEF LoadRow, Call, txVars, flushVars
<1>2. /\ obj \in Objects /\ \A c \in Kids : obj[c].kids = {}
      /\ queue \in [persists : SUBSET Objs, deletes : SUBSET Deletes, bulks : SUBSET Bulks]
  BY DEF BufferInv, BufferTypes
<1>3. PICK k : k = obj[o].key
  OBVIOUS
<1>4. k \in DOMAIN work /\ k # 0
  BY <1>3, RowLoaded
<1>5. PICK K : K = IF o \in Parents THEN NotLoaded ELSE {}
  OBVIOUS
<1>6. PICK x : x = [key |-> k, val |-> work[k].val, fk |-> work[k].fk, kids |-> K]
  OBVIOUS
<1>7. /\ obj' \in Objects
      /\ \A y \in Objs : y # o => obj'[y] = obj[y]
      /\ obj'[o] = x
  BY <1>3, <1>5, <1>6, RowLoaded
<1>8. \A c \in Kids : obj'[c].kids = {}
  <2>1. \A c \in Kids : c \in Objs /\ c \notin Parents
    BY WriteBufferAssumption DEF Objs
  <2>2. o \in Parents \/ K = {}
    BY <1>5
  <2>3. QED
    BY <1>2, <1>6, <1>7, <2>1, <2>2
<1>9. \A y \in Objs : Same(obj, obj', y)
  <2>1. x.key = k /\ x.fk = work[k].fk
    BY <1>6
  <2>2. RealIn(obj, work)
    BY <1>1 DEF BufferInv, ThenInv, Then, ThenRows
  <2>3. obj[o].fk = work[k].fk
    BY <1>3, <1>4, <2>2 DEF RealIn
  <2>4. QED
    BY <1>3, <1>7, <2>1, <2>3 DEF Same
<1>10. QED
  BY <1>1, <1>2, <1>7, <1>8, <1>9, CallerStep

-----------------------------------------------------------------------------
(* The caller's transaction begins, is committed, is rolled back. *)
LEMMA OuterSteps ==
    ASSUME BufferInv, OuterBegin \/ OuterCommit \/ OuterRollback
    PROVE  BufferInv'
<1>1. /\ flush.pc = "idle" /\ UNCHANGED <<flush, queue, nextKey>>
  BY DEF OuterBegin, OuterCommit, OuterRollback, Call, flushVars
<1>2. /\ BufferTypes /\ RunInv' /\ Rows' = Rows
      /\ obj \in Objects /\ onEnd \in Seq(Ends) /\ <<>> \in Seq(Ends)
      /\ Then = obj /\ Then' = obj' /\ ThenRows = work /\ ThenRows' = work'
      /\ RealIn(RunEnds(obj, onEnd), rows)
  BY <1>1, EmptySeq DEF BufferInv, BufferTypes, RunInv, Rows, Then, ThenRows, EndInv
<1>3. ASSUME OuterBegin PROVE BufferInv'
  <2>1. /\ outer = "none" /\ outer' = "open" /\ UNCHANGED <<obj, rows, work, onEnd>>
        /\ RealIn(obj, work) /\ rows = work
    BY <1>2, <1>3 DEF OuterBegin, BufferInv, BufferTypes, ThenInv
  <2>2. BufferTypes'
    BY <1>1, <1>2, <2>1 DEF BufferTypes
  <2>3. ThenInv' /\ EndInv'
    BY <1>2, <2>1 DEF ThenInv, EndInv, Among
  <2>4. QED
    BY <1>2, <2>2, <2>3 DEF BufferInv
<1>4. ASSUME OuterCommit PROVE BufferInv'
  <2>1. /\ outer = "open" /\ outer' = "none" /\ UNCHANGED <<obj, work>>
        /\ rows' = work /\ onEnd' = <<>>
        /\ RealIn(obj, work)
    BY <1>2, <1>4 DEF OuterCommit, BufferInv, ThenInv
  <2>2. BufferTypes'
    BY <1>1, <1>2, <2>1 DEF BufferTypes
  <2>3. ThenInv' /\ EndInv'
    BY <1>2, <2>1, RunEndsEmpty DEF ThenInv, EndInv, Among
  <2>4. QED
    BY <1>2, <2>2, <2>3 DEF BufferInv
<1>5. ASSUME OuterRollback PROVE BufferInv'
  <2>1. /\ outer' = "none" /\ UNCHANGED rows
        /\ work' = rows /\ onEnd' = <<>>
        /\ obj' = RunEnds(obj, onEnd)
    BY <1>5 DEF OuterRollback
  <2>2. RunEnds(obj, onEnd) \in Objects /\ \A o \in Objs : RunEnds(obj, onEnd)[o].kids = obj[o].kids
    BY <1>2, RunEndsFacts
  <2>3. obj' \in Objects /\ \A c \in Kids : obj'[c].kids = {}
    BY <1>2, <2>1, <2>2 DEF BufferTypes, Objs
  <2>4. BufferTypes'
    BY <1>1, <1>2, <2>1, <2>3 DEF BufferTypes
  <2>5. RealIn(obj', rows)
    BY <1>2, <2>1
  <2>6. ThenInv' /\ EndInv'
    BY <1>2, <2>1, <2>5, RunEndsEmpty DEF ThenInv, EndInv, Among
  <2>7. QED
    BY <1>2, <2>4, <2>6 DEF BufferInv
<1>6. QED
  BY <1>3, <1>4, <1>5

-----------------------------------------------------------------------------
(* The jobs of a flush are for objects whose columns were kept. *)
LEMMA BatchesAre ==
    ASSUME BufferTypes
    PROVE  /\ Captured \in Captures
           /\ \A o \in Objs : o \in DOMAIN Captured => Captured[o] = Columns(o)
           /\ \A o \in DOMAIN Captured : o \in Objs /\ KidsOf(o) \subseteq DOMAIN Captured
           /\ Batches \in Seq(SUBSET JobsOn(DOMAIN Captured))
<1> DEFINE roots == {o \in Objs : Held(o)}
           S == DOMAIN Captured
           J == JobsOn(S)
<1>1. S = roots \cup UNION {KidsOf(p) : p \in roots}
  BY DEF Captured
<1>2. /\ obj \in Objects /\ \A c \in Kids : obj[c].kids = {}
      /\ queue \in [persists : SUBSET Objs, deletes : SUBSET Deletes, bulks : SUBSET Bulks]
  BY DEF BufferTypes
<1>3. \A p \in Objs : KidsOf(p) \subseteq Kids
  BY <1>2, ObjectFields DEF KidsOf
<1>4. \A c \in Kids : c \in Objs /\ KidsOf(c) = {}
  BY <1>2 DEF KidsOf, Objs
<1>5. /\ S \subseteq Objs
      /\ \A o \in S : KidsOf(o) \subseteq S
  BY <1>1, <1>3, <1>4
<1>6. /\ Captured \in Captures
      /\ \A o \in Objs : o \in S => Captured[o] = Columns(o)
  <2>1. ASSUME NEW o \in S PROVE Captured[o] = Columns(o) /\ Captured[o] \in Columned
    <3>1. Captured[o] = Columns(o)
      BY DEF Captured
    <3>2. obj[o].key \in 0 .. MaxKey /\ obj[o].val \in Vals /\ obj[o].fk \in 0 .. MaxKey
      BY <1>2, <1>5, ObjectFields
    <3>3. QED
      BY <3>1, <3>2 DEF Columns, Columned
  <2>2. Captured = [o \in S |-> Captured[o]]
    BY DEF Captured
  <2>3. Captured \in [S -> Columned]
    BY <2>1, <2>2
  <2> HIDE DEF S
  <2>4. Captured \in Captures
    BY <1>5, <2>3, Zenon DEF Captures
  <2>5. QED
    BY <2>1, <2>4
<1>7. /\ \A o \in Objs : Tracked(o) => o \in S
      /\ queue.persists \subseteq S
  BY <1>1, <1>2 DEF Held
<1> HIDE DEF S
<1>8. ASSUME NEW T \in SUBSET S PROVE Jobs("update", T) \in SUBSET J /\ Jobs("insert", T) \in SUBSET J
  BY DEF Jobs, JobsOn
<1>9. CollectionDiffs \in SUBSET J
  <2>1. ASSUME NEW p \in Parents, NEW c \in AddedKids(p)
        PROVE  [op |-> "added", of |-> c, under |-> p] \in J
    <3>1. p \in Objs /\ Tracked(p) /\ c \in KidsOf(p)
      BY DEF AddedKids, Objs
    <3>2. c \in S \cap Kids
      BY <1>3, <1>5, <1>7, <3>1
    <3>3. QED
      BY <3>1, <3>2 DEF JobsOn
  <2>2. \A T \in SUBSET Kids : Jobs("orphan", T) \subseteq J
    BY DEF Jobs, JobsOn
  <2>3. \A p \in Parents : {[op |-> "added", of |-> c, under |-> p] : c \in AddedKids(p)} \subseteq J
    BY <2>1
  <2> HIDE DEF J
  <2>4. UNION {{[op |-> "added", of |-> c, under |-> p] : c \in AddedKids(p)} : p \in Parents} \subseteq J
    BY <2>3
  <2>5. Jobs("orphan", {c \in Kids : ~Spared(c) /\ \E p \in Parents : c \in RemovedKids(p)}) \subseteq J
    BY <2>2
  <2>6. PICK D \in SUBSET J :
           D = UNION {{[op |-> "added", of |-> c, under |-> p] : c \in AddedKids(p)} : p \in Parents}
    BY <2>4
  <2>7. PICK E \in SUBSET J :
           E = IF mode.orphans
               THEN Jobs("orphan", {c \in Kids : ~Spared(c) /\ \E p \in Parents : c \in RemovedKids(p)})
               ELSE {}
    BY <2>5
  <2>8. CollectionDiffs = D \cup E
    BY <2>6, <2>7, Zenon DEF CollectionDiffs
  <2>9. QED
    BY <2>8
<1>10. {[op |-> "expand"]} \in SUBSET J /\ {} \in SUBSET J
  BY DEF JobsOn
<1>11. \A ds \in SUBSET Deletes : {[op |-> "delete", what |-> d] : d \in ds} \in SUBSET J
  BY DEF JobsOn
<1>12. \A bs \in SUBSET Bulks : {[op |-> "bulk", what |-> b] : b \in bs} \in SUBSET J
  BY DEF JobsOn
<1>13. queue.deletes \cup CascadeDeletes(queue.deletes) \in SUBSET Deletes
  <2>1. \A d \in Deletes : [by |-> "home", key |-> d.key, kid |-> TRUE] \in Deletes
    BY DEF Deletes
  <2>2. queue.deletes \in SUBSET Deletes
    BY <1>2
  <2> HIDE DEF J
  <2>3. QED
    BY <2>1, <2>2 DEF CascadeDeletes
<1> DEFINE tracked == {o \in Objs : Tracked(o)}
           all == queue.deletes \cup CascadeDeletes(queue.deletes)
           b1 == Jobs("update", tracked \cap Parents)
           b2 == Jobs("update", tracked \cap Kids)
           b3 == Jobs("insert", queue.persists \cap Parents)
           b4 == Jobs("insert", queue.persists \cap Kids)
           b6 == IF queue.deletes = {} THEN {} ELSE {[op |-> "expand"]}
           b7 == {[op |-> "delete", what |-> d] : d \in {x \in all : x.kid}}
           b8 == {[op |-> "delete", what |-> d] : d \in {x \in all : ~x.kid}}
           b9 == {[op |-> "bulk", what |-> b] : b \in {x \in queue.bulks : x.op = "update"}}
           b10 == {[op |-> "bulk", what |-> b] : b \in {x \in queue.bulks : x.op = "delete"}}
<1>14. Batches = Without(<<b1, b2, b3, b4, CollectionDiffs, b6, b7, b8, b9, b10>>, {{}})
  BY DEF Batches, InsertOrder, DeleteOrder
<1>15. /\ b1 \in SUBSET J /\ b2 \in SUBSET J /\ b3 \in SUBSET J /\ b4 \in SUBSET J
  <2>1. /\ tracked \cap Parents \in SUBSET S /\ tracked \cap Kids \in SUBSET S
        /\ queue.persists \cap Parents \in SUBSET S /\ queue.persists \cap Kids \in SUBSET S
    BY <1>7
  <2> HIDE DEF tracked, J
  <2>2. QED
    BY <1>8, <2>1
<1>16. b6 \in SUBSET J /\ b7 \in SUBSET J /\ b8 \in SUBSET J /\ b9 \in SUBSET J /\ b10 \in SUBSET J
  <2>1. /\ {x \in all : x.kid} \in SUBSET Deletes /\ {x \in all : ~x.kid} \in SUBSET Deletes
        /\ {x \in queue.bulks : x.op = "update"} \in SUBSET Bulks
        /\ {x \in queue.bulks : x.op = "delete"} \in SUBSET Bulks
    BY <1>2, <1>13
  <2> HIDE DEF all, J
  <2>2. QED
    BY <1>10, <1>11, <1>12, <2>1
<1> HIDE DEF J, b1, b2, b3, b4, b6, b7, b8, b9, b10
<1>17. <<b1, b2, b3, b4, CollectionDiffs, b6, b7, b8, b9, b10>> \in Seq(SUBSET J)
  BY <1>9, <1>15, <1>16
<1>18. Batches \in Seq(SUBSET J)
  BY <1>14, <1>17, WithoutFacts
<1>19. QED
  BY <1>5, <1>6, <1>18 DEF J, S

(* What is left to do is still for such objects. *)
LEMMA RestIs ==
    ASSUME NEW J, flush.todo \in Seq(SUBSET J), flush.todo # <<>>, NEW j, NEW S \in SUBSET J
    PROVE  Rest(j, S) \in Seq(SUBSET J)
<1>1. Head(flush.todo) \in SUBSET J /\ Tail(flush.todo) \in Seq(SUBSET J)
  BY HeadAndTail
<1>2. Head(flush.todo) \ {j} \in SUBSET J
  BY <1>1
<1>3. \A T \in SUBSET J, r \in Seq(SUBSET J) : <<T>> \o r \in Seq(SUBSET J)
  <2>1. ASSUME NEW T \in SUBSET J, NEW r \in Seq(SUBSET J) PROVE <<T>> \o r \in Seq(SUBSET J)
    <3>1. <<T>> \in Seq(SUBSET J)
      OBVIOUS
    <3>2. QED
      BY <3>1, ConcatProperties
  <2>2. QED
    BY <2>1
<1>4. QED
  BY <1>1, <1>2, <1>3 DEF Rest

(* A flush begins: what a failure would leave is what there is. *)
LEMMA BeginStep == ASSUME BufferInv, FlushBegin PROVE BufferInv'
<1>1. /\ flush.pc = "idle" /\ outer # "broken"
      /\ flush' = [pc |-> "run", todo |-> Batches, visited |-> {}, pre |-> Captured,
                   expanded |-> FALSE, altered |-> {}, start |-> work, goal |-> Goal]
      /\ UNCHANGED <<rows, work, nextKey, outer, onEnd, obj, queue>>
  BY DEF FlushBegin, Idle, txVars
<1>2. /\ BufferTypes /\ Rows' = Rows
      /\ obj \in Objects /\ onEnd \in Seq(Ends) /\ work \in Rows
      /\ Then = obj /\ ThenRows = work
      /\ RealIn(RunEnds(obj, onEnd), rows)
  BY <1>1 DEF BufferInv, BufferTypes, Rows, Then, ThenRows, EndInv
<1>3. /\ flush'.pc = "run" /\ flush'.pre = Captured /\ flush'.start = work
      /\ flush'.todo = Batches /\ IsFlush(flush')
  BY <1>1 DEF IsFlush
<1>4. /\ RealIn(obj, work) /\ Among(rows, work)
      /\ onEnd = <<>> => rows = work
  BY <1>1, <1>2 DEF BufferInv, ThenInv
<1>5. BufferTypes'
  BY <1>1, <1>2, <1>3 DEF BufferTypes
<1>6. /\ Captured \in Captures
      /\ \A o \in Objs : o \in DOMAIN Captured => Captured[o] = Columns(o)
      /\ \A o \in DOMAIN Captured : o \in Objs /\ KidsOf(o) \subseteq DOMAIN Captured
      /\ Batches \in Seq(SUBSET JobsOn(DOMAIN Captured))
  BY <1>2, BatchesAre
<1>7. RunInv'
  <2>1. \A o : KidsOf(o)' = KidsOf(o)
    BY <1>1 DEF KidsOf
  <2>2. QED
    BY <1>1, <1>2, <1>3, <1>4, <1>6, <2>1 DEF RunInv, Among
<1>8. PICK r : r = Restore(obj, Captured)
  OBVIOUS
<1>9. r \in Objects /\ \A o \in Objs : Same(obj, r, o)
  <2>1. /\ r \in Objects
        /\ \A o \in Objs :
              /\ o \in DOMAIN Captured =>
                    r[o].key = Captured[o].key /\ r[o].fk = Captured[o].fk
              /\ o \notin DOMAIN Captured => r[o] = obj[o]
    BY <1>2, <1>6, <1>8, RestoreFacts
  <2>2. \A o \in Objs : o \in DOMAIN Captured =>
           Captured[o].key = obj[o].key /\ Captured[o].fk = obj[o].fk
    BY <1>6 DEF Columns
  <2>3. QED
    BY <2>1, <2>2 DEF Same
<1>10. Then' = r /\ ThenRows' = work
  BY <1>1, <1>3, <1>8 DEF Then, ThenRows
<1>11. RealIn(r, work)
  <2>1. \A k \in DOMAIN work : work[k].by \in Objs
    BY <1>2, RowsAre
  <2>2. QED
    BY <1>4, <1>9, <2>1, RealSame
<1>12. RealIn(RunEnds(r, onEnd), rows)
  BY <1>2, <1>9, EndsSame
<1>13. ThenInv' /\ EndInv'
  BY <1>1, <1>4, <1>10, <1>11, <1>12 DEF ThenInv, EndInv
<1>14. QED
  BY <1>5, <1>7, <1>13 DEF BufferInv

-----------------------------------------------------------------------------
(* The fields of a flush that its steps leave. *)
Onward(f, g) == IsFlush(g) /\ g.pc = f.pc /\ g.pre = f.pre /\ g.start = f.start

(* Any of the fields they set can be any value. *)
LEMMA FlushEdits ==
    ASSUME NEW f, IsFlush(f), NEW x, NEW g,
           g = [f EXCEPT !.visited = x] \/ g = [f EXCEPT !.expanded = x] \/ g = [f EXCEPT !.altered = x]
    PROVE  Onward(f, g) /\ g.todo = f.todo
BY DEF IsFlush, Onward

(* The job at hand, and the flush when it is done. *)
LEMMA JobFlush ==
    ASSUME BufferInv, NEW j, Running(j), NEW S \in SUBSET JobsOn(DOMAIN flush.pre)
    PROVE  /\ j \in JobsOn(DOMAIN flush.pre)
           /\ \A g : Onward(flush, g) /\ g.todo = Rest(j, S) =>
                 /\ IsFlush(g) /\ g.pc = "run" /\ g.pre = flush.pre /\ g.start = flush.start
                 /\ g.todo \in Seq(SUBSET JobsOn(DOMAIN flush.pre))
<1>1. /\ flush.pc = "run" /\ flush.todo # <<>> /\ j \in Head(flush.todo)
      /\ flush.todo \in Seq(SUBSET JobsOn(DOMAIN flush.pre))
  BY DEF Running, BufferInv, RunInv
<1>2. Rest(j, S) \in Seq(SUBSET JobsOn(DOMAIN flush.pre))
  BY <1>1, RestIs
<1>3. Head(flush.todo) \in SUBSET JobsOn(DOMAIN flush.pre)
  BY <1>1, HeadAndTail
<1>4. QED
  BY <1>1, <1>2, <1>3 DEF Onward

(* What a job sets besides the jobs left: kids visited, deletes expanded,   *)
(* objects altered.                                                        *)
JobSets(t, v, e, a) ==
    \/ flush' = [flush EXCEPT !.todo = t]
    \/ flush' = [flush EXCEPT !.todo = t, !.visited = v]
    \/ flush' = [flush EXCEPT !.todo = t, !.expanded = e]
    \/ flush' = [flush EXCEPT !.todo = t, !.altered = a]
    \/ flush' = [[flush EXCEPT !.todo = t, !.visited = v] EXCEPT !.altered = a]

(* A flush that has done a job: what it keeps, whichever fields the job set. *)
LEMMA JobDone ==
    ASSUME BufferInv, NEW j, Running(j), NEW S \in SUBSET JobsOn(DOMAIN flush.pre),
           NEW t, t = Rest(j, S), NEW v, NEW e, NEW a, JobSets(t, v, e, a)
    PROVE  /\ IsFlush(flush') /\ flush'.pc = "run" /\ flush'.pre = flush.pre
           /\ flush'.start = flush.start /\ flush'.todo \in Seq(SUBSET JobsOn(DOMAIN flush.pre))
<1>1. IsFlush(flush)
  BY DEF BufferInv, RunInv, BufferTypes
<1>2. PICK g, h : g = flush' /\ h = [flush EXCEPT !.todo = t]
  OBVIOUS
<1>3. Onward(flush, h) /\ h.todo = t
  BY <1>1, <1>2 DEF IsFlush, Onward
<1>4. Onward(flush, g) /\ g.todo = t
  <2>1. CASE g = h
    BY <1>3, <2>1
  <2>2. CASE g = [h EXCEPT !.visited = v] \/ g = [h EXCEPT !.expanded = e] \/ g = [h EXCEPT !.altered = a]
    BY <1>3, <2>2, FlushEdits DEF Onward
  <2>3. CASE g = [[h EXCEPT !.visited = v] EXCEPT !.altered = a]
    <3>1. PICK i : i = [h EXCEPT !.visited = v]
      OBVIOUS
    <3>2. Onward(h, i) /\ i.todo = h.todo /\ g = [i EXCEPT !.altered = a]
      BY <1>3, <2>3, <3>1, FlushEdits DEF Onward
    <3>3. Onward(i, g) /\ g.todo = i.todo
      BY <3>2, FlushEdits DEF Onward
    <3>4. QED
      BY <1>3, <3>2, <3>3 DEF Onward
  <2>4. QED
    BY <1>2, <2>1, <2>2, <2>3 DEF JobSets
<1>5. QED
  BY <1>2, <1>4, JobFlush

(* What a job is for. *)
LEMMA JobIs ==
    ASSUME NEW S, NEW j \in JobsOn(S)
    PROVE  /\ j.op \in {"update", "insert", "cascade", "added"} => j.of \in S
           /\ j.op \in {"cascade", "added"} => j.of \in Kids /\ j.under \in Parents
           /\ j.op = "orphan" => j.of \in Kids
           /\ j.op = "delete" => j.what \in Deletes
           /\ j.op = "bulk" => j.what \in Bulks
BY DEF JobsOn

(* Jobs that give no row or object another key or foreign key. *)
LEMMA QuietStep ==
    ASSUME BufferInv, flush.pc = "run", UNCHANGED <<rows, outer, onEnd, queue, nextKey>>,
           IsFlush(flush'), flush'.pc = "run", flush'.pre = flush.pre, flush'.start = flush.start,
           flush'.todo \in Seq(SUBSET JobsOn(DOMAIN flush.pre)),
           work' \in Rows, DOMAIN work' = DOMAIN work,
           \A k \in DOMAIN work : work'[k].by = work[k].by /\ work'[k].fk = work[k].fk,
           obj' \in Objects,
           \A o \in Objs : obj'[o].kids = obj[o].kids /\ Same(obj, obj', o)
    PROVE  JobStep
<1>1. BufferTypes /\ work \in Rows /\ Rows' = Rows /\ RealIn(obj, work)
      /\ nextKey' \in 1 .. MaxKey + 1 /\ nextKey' >= nextKey
  BY DEF BufferInv, BufferTypes, RunInv, Rows
<1>2. \A k \in DOMAIN work : work[k].by \in Objs
  BY <1>1, RowsAre
<1>3. RealIn(obj', work')
  BY <1>1, <1>2 DEF RealIn, Same
<1>4. Among(work, work')
  BY DEF Among
<1>5. QED
  BY <1>1, <1>3, <1>4 DEF JobStep

(* An object is written, its columns being kept. *)
LEMMA SaveStep ==
    ASSUME BufferInv, flush.pc = "run", UNCHANGED <<rows, outer, onEnd, queue>>,
           IsFlush(flush'), flush'.pc = "run", flush'.pre = flush.pre, flush'.start = flush.start,
           flush'.todo \in Seq(SUBSET JobsOn(DOMAIN flush.pre)),
           NEW o \in DOMAIN flush.pre, NEW fk \in {0} \cup DOMAIN work, Save(o, fk),
           o \in Parents => fk = 0
    PROVE  JobStep
<1>1. /\ BufferTypes /\ work \in Rows /\ obj \in Objects /\ flush.pre \in Captures
      /\ RealIn(obj, work) /\ nextKey \in 1 .. MaxKey + 1
  BY DEF BufferInv, BufferTypes, RunInv
<1>2. o \in Objs /\ MaxKey \in Nat
  BY <1>1, RestoreFacts, WriteBufferAssumption
<1>3. /\ DOMAIN work \subseteq 1 .. nextKey - 1 /\ DOMAIN work \subseteq 1 .. MaxKey
      /\ \A x \in DOMAIN work : work[x] \in Row /\ work[x].by \in Objs
  BY <1>1, RowsAre
<1>4. fk \in 0 .. MaxKey
  BY <1>2, <1>3
<1> DEFINE new == obj[o].key = 0
           k == IF new THEN nextKey ELSE obj[o].key
           row == [val |-> obj[o].val, fk |-> fk, by |-> IF new THEN o ELSE work[k].by,
                   state |-> "live"]
<1>5. /\ work' = [x \in DOMAIN work \cup {k} |-> IF x # k THEN work[x] ELSE row]
      /\ obj' = [obj EXCEPT ![o].key = k, ![o].fk = fk]
      /\ nextKey' = IF new THEN nextKey + 1 ELSE nextKey
      /\ new => nextKey <= MaxKey
      /\ ~new => k \in Live(work)
  BY DEF Save, Savable
<1>6. /\ ~new => k \in DOMAIN work /\ k = obj[o].key /\ work[k].by = o
      /\ new => k \notin DOMAIN work /\ k = nextKey
  <2>1. nextKey \notin 1 .. nextKey - 1
    BY <1>1
  <2>2. QED
    BY <1>1, <1>2, <1>3, <1>5, <2>1 DEF Live, RealIn
<1>7. k \in 1 .. nextKey' - 1 /\ k \in 1 .. MaxKey /\ nextKey' \in 1 .. MaxKey + 1 /\ nextKey' >= nextKey
  BY <1>1, <1>2, <1>3, <1>5, <1>6
<1>8. row.by = o /\ row.fk = fk /\ row \in Row
  <2>1. obj[o].val \in Vals
    BY <1>1, <1>2, ObjectFields
  <2>2. PICK v \in Vals : v = obj[o].val
    BY <2>1
  <2>3. row = [val |-> v, fk |-> fk, by |-> o, state |-> "live"]
    BY <1>6, <2>2
  <2>4. [val |-> v, fk |-> fk, by |-> o, state |-> "live"] \in Row
    BY <1>2, <1>4 DEF Row
  <2>5. QED
    BY <2>3, <2>4
<1> HIDE DEF new, k, row
<1>9. /\ DOMAIN work' = DOMAIN work \cup {k}
      /\ work'[k] = row
      /\ \A x \in DOMAIN work : x # k => work'[x] = work[x]
  BY <1>5
<1>10. work' \in Rows'
  <2>1. DOMAIN work' \in SUBSET (1 .. nextKey' - 1)
    BY <1>1, <1>3, <1>7, <1>9
  <2>2. \A x \in DOMAIN work' : work'[x] \in Row
    BY <1>3, <1>8, <1>9
  <2>3. work' = [x \in DOMAIN work' |-> work'[x]]
    BY <1>5
  <2>4. work' \in [DOMAIN work' -> Row]
    BY <2>2, <2>3
  <2>5. QED
    BY <2>1, <2>4, Zenon DEF Rows
<1>11. PICK y : y = [[obj[o] EXCEPT !.key = k] EXCEPT !.fk = fk]
  OBVIOUS
<1>12. y \in ObjState /\ y.key = k /\ y.fk = fk /\ y.kids = obj[o].kids
  <2>1. PICK x \in ObjState : x = obj[o]
    BY <1>1, <1>2, ObjectFields
  <2>2. PICK z : z = [x EXCEPT !.key = k]
    OBVIOUS
  <2>3. k \in 0 .. MaxKey
    BY <1>2, <1>7
  <2>4. z \in ObjState /\ z.key = k /\ z.kids = x.kids
    BY <2>2, <2>3 DEF ObjState
  <2>5. y = [z EXCEPT !.fk = fk]
    BY <1>11, <2>1, <2>2
  <2>6. y \in ObjState /\ y.key = z.key /\ y.fk = fk /\ y.kids = z.kids
    BY <1>4, <2>4, <2>5 DEF ObjState
  <2>7. QED
    BY <2>1, <2>4, <2>6
<1>13. obj' \in Objects /\ obj'[o] = y /\ \A x \in Objs : x # o => obj'[x] = obj[x]
  <2>1. obj' = [obj EXCEPT ![o] = y]
    BY <1>1, <1>5, <1>11 DEF Objects
  <2>2. QED
    BY <1>1, <1>2, <1>12, <2>1 DEF Objects
<1>14. RealIn(obj', work')
  <2>1. ASSUME NEW x \in Objs, obj'[x].key # 0
        PROVE  obj'[x].key \in DOMAIN work' /\ work'[obj'[x].key].by = x
    <3>1. CASE x = o
      BY <1>8, <1>9, <1>12, <1>13, <3>1
    <3>2. CASE x # o
      <4>1. obj[x].key # 0 /\ obj'[x].key = obj[x].key
        BY <1>13, <2>1, <3>2
      <4>2. obj[x].key \in DOMAIN work /\ work[obj[x].key].by = x
        BY <1>1, <4>1 DEF RealIn
      <4>3. obj[x].key # k
        BY <1>6, <3>2, <4>2
      <4>4. QED
        BY <1>9, <4>1, <4>2, <4>3
    <3>3. QED
      BY <3>1, <3>2
  <2>2. ASSUME NEW x \in Objs
        PROVE  obj'[x].fk = IF obj'[x].key = 0 THEN 0 ELSE work'[obj'[x].key].fk
    <3>1. CASE x = o
      <4>1. k # 0
        BY <1>7
      <4>2. QED
        BY <1>8, <1>9, <1>12, <1>13, <3>1, <4>1
    <3>2. CASE x # o
      <4>1. obj'[x] = obj[x] /\ obj[x].fk = IF obj[x].key = 0 THEN 0 ELSE work[obj[x].key].fk
        BY <1>1, <1>13, <3>2 DEF RealIn
      <4>2. obj[x].key # 0 => obj[x].key \in DOMAIN work /\ obj[x].key # k
        BY <1>1, <1>6, <3>2 DEF RealIn
      <4>3. QED
        BY <1>9, <4>1, <4>2
    <3>3. QED
      BY <3>1, <3>2
  <2>3. ASSUME NEW x \in DOMAIN work'
        PROVE  obj'[work'[x].by].key = x /\ work'[x].fk \in {0} \cup DOMAIN work'
    <3>1. CASE x = k
      BY <1>8, <1>9, <1>12, <1>13, <3>1
    <3>2. CASE x # k
      <4>1. x \in DOMAIN work /\ work'[x] = work[x] /\ work[x].by \in Objs
        BY <1>3, <1>9, <3>2
      <4>2. obj[work[x].by].key = x /\ work[x].fk \in {0} \cup DOMAIN work
        BY <1>1, <4>1 DEF RealIn
      <4>3. work[x].by # o
        <5>1. x # 0
          BY <1>3, <4>1
        <5>2. QED
          BY <1>6, <3>2, <4>2, <5>1 DEF new
      <4>4. QED
        BY <1>9, <1>13, <4>1, <4>2, <4>3
    <3>3. QED
      BY <3>1, <3>2
  <2>4. ASSUME NEW x \in DOMAIN work', work'[x].by \in Parents PROVE work'[x].fk = 0
    BY <1>1, <1>8, <1>9, <2>4 DEF RealIn
  <2>5. QED
    BY <2>1, <2>2, <2>3, <2>4 DEF RealIn
<1>15. \A x \in Objs : /\ obj'[x].kids = obj[x].kids
                       /\ x \notin DOMAIN flush.pre => Same(obj, obj', x)
  BY <1>12, <1>13 DEF Same
<1>16. Among(work, work')
  BY <1>6, <1>8, <1>9 DEF Among
<1>17. QED
  BY <1>7, <1>10, <1>13, <1>14, <1>15, <1>16 DEF JobStep

-----------------------------------------------------------------------------
(* Objects that are found dirty, or queued, are written. *)
LEMMA RunOwn == ASSUME BufferInv, NEW j, RunUpdate(j) \/ RunInsert(j) PROVE JobStep
<1> DEFINE J == JobsOn(DOMAIN flush.pre)
<1>1. /\ Running(j) /\ flush.pc = "run" /\ j.op \in {"update", "insert"}
      /\ UNCHANGED <<rows, outer, onEnd, queue>>
      /\ \/ Skip(j) /\ NoStatement
         \/ Save(j.of, obj[j.of].fk) /\ Visit(j, j.of, Cascade(j.of))
  BY DEF RunUpdate, RunInsert, Running
<1>2. /\ IsFlush(flush) /\ RealIn(obj, work) /\ flush.pre \in Captures /\ work \in Rows
      /\ obj \in Objects
      /\ \A o \in DOMAIN flush.pre : KidsOf(o) \subseteq DOMAIN flush.pre
  BY <1>1 DEF BufferInv, BufferTypes, RunInv
<1>3. j.of \in DOMAIN flush.pre /\ j.of \in Objs
  <2>1. {} \in SUBSET J
    OBVIOUS
  <2>2. j \in J
    BY <1>1, <2>1, JobFlush
  <2>3. QED
    BY <1>1, <1>2, <2>2, JobIs, RestoreFacts
<1>4. CASE Skip(j) /\ NoStatement
  <2>1. {} \in SUBSET J
    OBVIOUS
  <2>2. PICK t : t = Rest(j, {}) /\ JobSets(t, t, t, t)
    BY <1>4 DEF Skip, JobSets
  <2>3. /\ IsFlush(flush') /\ flush'.pc = "run" /\ flush'.pre = flush.pre
        /\ flush'.start = flush.start /\ flush'.todo \in Seq(SUBSET J)
    BY <1>1, <2>1, <2>2, JobDone
  <2>4. QED
    BY <1>1, <1>2, <1>4, <2>3, QuietStep DEF NoStatement, Same
<1>5. CASE Save(j.of, obj[j.of].fk) /\ Visit(j, j.of, Cascade(j.of))
  <2>1. Cascade(j.of) \in SUBSET J
    <3>1. \A c \in KidsOf(j.of) : c \in DOMAIN flush.pre /\ c \in Kids /\ j.of \in Parents
      <4>1. \A c \in Kids : KidsOf(c) = {}
        BY DEF BufferInv, BufferTypes, KidsOf
      <4>2. KidsOf(j.of) \subseteq Kids
        BY <1>2, <1>3, ObjectFields DEF KidsOf
      <4>3. QED
        BY <1>2, <1>3, <4>1, <4>2 DEF Objs
    <3>2. QED
      BY <1>3, <3>1 DEF Cascade, JobsOn
  <2>2. PICK t, v : t = Rest(j, Cascade(j.of)) /\ JobSets(t, v, v, v)
    BY <1>5 DEF Visit, JobSets
  <2>3. /\ IsFlush(flush') /\ flush'.pc = "run" /\ flush'.pre = flush.pre
        /\ flush'.start = flush.start /\ flush'.todo \in Seq(SUBSET J)
    BY <1>1, <2>1, <2>2, JobDone
  <2>4. obj[j.of].fk \in {0} \cup DOMAIN work /\ (j.of \in Parents => obj[j.of].fk = 0)
    BY <1>2, <1>3 DEF RealIn
  <2>5. QED
    BY <1>1, <1>3, <1>5, <2>3, <2>4, SaveStep
<1>6. QED
  BY <1>1, <1>4, <1>5

(* Kids are written, under the key of a parent. *)
LEMMA RunKid == ASSUME BufferInv, NEW j, RunCascade(j) \/ RunAdded(j) PROVE JobStep
<1> DEFINE J == JobsOn(DOMAIN flush.pre)
<1>1. PICK seen :
         /\ Running(j) /\ flush.pc = "run" /\ j.op \in {"cascade", "added"}
         /\ UNCHANGED <<rows, outer, onEnd, queue>>
         /\ \/ Skip(j) /\ NoStatement
            \/ SaveKid(j, seen)
  BY DEF RunCascade, RunAdded, Running
<1>2. /\ IsFlush(flush) /\ RealIn(obj, work) /\ flush.pre \in Captures /\ work \in Rows
      /\ obj \in Objects
  BY <1>1 DEF BufferInv, BufferTypes, RunInv
<1>3. {} \in SUBSET J
  OBVIOUS
<1>4. j.of \in DOMAIN flush.pre /\ j.of \in Kids /\ j.under \in Objs
  <2>1. j \in J
    BY <1>1, <1>3, JobFlush
  <2>2. QED
    BY <1>1, <2>1, JobIs DEF Objs
<1> DEFINE Moved == /\ IsFlush(flush') /\ flush'.pc = "run" /\ flush'.pre = flush.pre
                    /\ flush'.start = flush.start /\ flush'.todo \in Seq(SUBSET J)
<1>5. ASSUME Moved, NoStatement PROVE JobStep
  BY <1>1, <1>2, <1>5, QuietStep DEF NoStatement, Same
<1>6. ASSUME Moved, Save(j.of, obj[j.under].key) PROVE JobStep
  <2>1. obj[j.under].key \in {0} \cup DOMAIN work /\ j.of \notin Parents
    BY <1>2, <1>4, WriteBufferAssumption DEF RealIn
  <2>2. QED
    BY <1>1, <1>4, <1>6, <2>1, SaveStep
<1>7. PICK t : t = Rest(j, {})
  OBVIOUS
<1>8. CASE Skip(j) /\ NoStatement
  <2>1. JobSets(t, t, t, t)
    BY <1>8, <1>7 DEF Skip, JobSets
  <2>2. Moved
    BY <1>1, <1>3, <1>7, <2>1, JobDone
  <2>3. QED
    BY <1>5, <1>8, <2>2
<1>9. CASE SaveKid(j, seen)
  <2>1. CASE SkippedKid(j.of, j.under)
    <3>1. NoStatement /\ JobSets(t, seen, t, t)
      BY <1>9, <1>7, <2>1 DEF SaveKid, JobSets
    <3>2. Moved
      BY <1>1, <1>3, <1>7, <3>1, JobDone
    <3>3. QED
      BY <1>5, <3>1, <3>2
  <2>2. CASE ~SkippedKid(j.of, j.under)
    <3>1. /\ Save(j.of, obj[j.under].key)
          /\ \E a : flush' = [[flush EXCEPT !.todo = Rest(j, {}), !.visited = seen] EXCEPT !.altered = a]
      BY <1>9, <2>2 DEF SaveKid
    <3>2. PICK a : JobSets(t, seen, t, a)
      BY <1>7, <3>1 DEF JobSets
    <3>3. Moved
      BY <1>1, <1>3, <1>7, <3>2, JobDone
    <3>4. QED
      BY <1>6, <3>1, <3>3
  <2>3. QED
    BY <2>1, <2>2
<1>10. QED
  BY <1>1, <1>8, <1>9

(* Rows that are marked as deleted keep their columns. *)
LEMMA EraseFacts ==
    ASSUME BufferTypes, NEW S, NEW how \in {"orphaned", "deleted"}, Erase(S, how)
    PROVE  /\ work' \in Rows /\ DOMAIN work' = DOMAIN work
           /\ \A k \in DOMAIN work : work'[k].by = work[k].by /\ work'[k].fk = work[k].fk
<1>1. /\ work \in Rows /\ DOMAIN work \in SUBSET (1 .. nextKey - 1)
      /\ \A k \in DOMAIN work : work[k] \in Row
  BY RowsAre DEF BufferTypes
<1>2. work' = [k \in DOMAIN work |->
                 IF k \in S /\ work[k].state = "live" THEN [work[k] EXCEPT !.state = how]
                 ELSE work[k]]
  BY DEF Erase
<1>3. \A r \in Row : /\ [r EXCEPT !.state = how] \in Row
                     /\ [r EXCEPT !.state = how].by = r.by /\ [r EXCEPT !.state = how].fk = r.fk
  BY DEF Row
<1>4. \A k \in DOMAIN work : work'[k] \in Row /\ work'[k].by = work[k].by /\ work'[k].fk = work[k].fk
  BY <1>1, <1>2, <1>3
<1>5. work' \in [DOMAIN work -> Row]
  BY <1>2, <1>4
<1>6. work' \in Rows
  BY <1>1, <1>5, Zenon DEF Rows
<1>7. QED
  BY <1>2, <1>4, <1>6

(* The jobs that delete: kids of a removed parent, objects, bulk deletes. *)
LEMMA RunRemoval ==
    ASSUME BufferInv, NEW j, RunOrphan(j) \/ RunExpand(j) \/ RunDelete(j) \/ RunBulkDelete(j)
    PROVE  JobStep
<1>1. /\ Running(j) /\ flush.pc = "run"
      /\ UNCHANGED <<rows, outer, onEnd, queue, nextKey, obj>>
      /\ UNCHANGED work \/ \E S : Erase(S, "orphaned") \/ Erase(S, "deleted")
      /\ \/ flush' = [flush EXCEPT !.todo = Rest(j, {})]
         \/ \E e : flush' = [flush EXCEPT !.todo = Rest(j, {}), !.expanded = e]
         \/ \E a : flush' = [flush EXCEPT !.todo = Rest(j, {}), !.altered = a]
  BY DEF RunOrphan, RunExpand, RunDelete, RunBulkDelete, Running, Skip, txVars
<1>2. IsFlush(flush) /\ BufferTypes /\ obj \in Objects /\ work \in Rows
  BY DEF BufferInv, BufferTypes
<1>3. PICK t, e, a : t = Rest(j, {}) /\ JobSets(t, t, e, a)
  BY <1>1 DEF JobSets
<1>4. {} \in SUBSET JobsOn(DOMAIN flush.pre)
  OBVIOUS
<1>5. /\ IsFlush(flush') /\ flush'.pc = "run" /\ flush'.pre = flush.pre
      /\ flush'.start = flush.start /\ flush'.todo \in Seq(SUBSET JobsOn(DOMAIN flush.pre))
  BY <1>1, <1>3, <1>4, JobDone
<1>6. /\ work' \in Rows /\ DOMAIN work' = DOMAIN work
      /\ \A k \in DOMAIN work : work'[k].by = work[k].by /\ work'[k].fk = work[k].fk
  BY <1>1, <1>2, EraseFacts
<1>7. QED
  BY <1>1, <1>2, <1>5, <1>6, QuietStep DEF Same

(* updateMany() changes values only. *)
LEMMA RunValues == ASSUME BufferInv, NEW j, RunBulkUpdate(j) PROVE JobStep
<1> DEFINE b == j.what
           synced == BulkTracked(b)
<1>1. /\ Running(j) /\ flush.pc = "run" /\ j.op = "bulk"
      /\ UNCHANGED <<rows, outer, onEnd, queue, nextKey>>
      /\ work' = [k \in DOMAIN work |->
                    IF k \in BulkRows(b) THEN [work[k] EXCEPT !.val = b.to] ELSE work[k]]
      /\ obj' = [o \in Objs |-> IF o \in synced THEN [obj[o] EXCEPT !.val = b.to] ELSE obj[o]]
      /\ flush' = [flush EXCEPT !.todo = Rest(j, {}), !.altered = @ \cup synced]
  BY DEF RunBulkUpdate, Running
<1>2. IsFlush(flush) /\ BufferTypes /\ obj \in Objects /\ work \in Rows
  BY DEF BufferInv, BufferTypes
<1>3. {} \in SUBSET JobsOn(DOMAIN flush.pre)
  OBVIOUS
<1>4. b.to \in Vals
  <2>1. b \in Bulks
    BY <1>1, <1>3, JobFlush, JobIs
  <2>2. QED
    BY <2>1, WriteBufferAssumption
<1>5. PICK v \in Vals : v = b.to
  BY <1>4
<1>6. PICK t, a : t = Rest(j, {}) /\ JobSets(t, t, t, a)
  BY <1>1 DEF JobSets
<1>7. /\ IsFlush(flush') /\ flush'.pc = "run" /\ flush'.pre = flush.pre
      /\ flush'.start = flush.start /\ flush'.todo \in Seq(SUBSET JobsOn(DOMAIN flush.pre))
  BY <1>1, <1>3, <1>6, JobDone
<1>8. \A r \in Row : /\ [r EXCEPT !.val = v] \in Row
                     /\ [r EXCEPT !.val = v].by = r.by /\ [r EXCEPT !.val = v].fk = r.fk
  BY DEF Row
<1>9. \A x \in ObjState : /\ [x EXCEPT !.val = v] \in ObjState
                          /\ [x EXCEPT !.val = v].key = x.key /\ [x EXCEPT !.val = v].fk = x.fk
                          /\ [x EXCEPT !.val = v].kids = x.kids
  BY DEF ObjState
<1> HIDE DEF b, synced
<1>10. /\ work' \in Rows /\ DOMAIN work' = DOMAIN work
       /\ \A k \in DOMAIN work : work'[k].by = work[k].by /\ work'[k].fk = work[k].fk
  <2>1. DOMAIN work \in SUBSET (1 .. nextKey - 1) /\ \A k \in DOMAIN work : work[k] \in Row
    BY <1>2, RowsAre
  <2>2. \A k \in DOMAIN work : work'[k] \in Row /\ work'[k].by = work[k].by /\ work'[k].fk = work[k].fk
    BY <1>1, <1>5, <1>8, <2>1
  <2>3. work' \in [DOMAIN work -> Row]
    BY <1>1, <2>2
  <2>4. work' \in Rows
    BY <2>1, <2>3, Zenon DEF Rows
  <2>5. QED
    BY <1>1, <2>2, <2>4
<1>11. obj' \in Objects /\ \A o \in Objs : obj'[o].kids = obj[o].kids /\ Same(obj, obj', o)
  <2>1. \A o \in Objs : obj[o] \in ObjState
    BY <1>2 DEF Objects
  <2>2. \A o \in Objs : obj'[o] \in ObjState /\ obj'[o].kids = obj[o].kids /\ Same(obj, obj', o)
    BY <1>1, <1>5, <1>9, <2>1 DEF Same
  <2>3. QED
    BY <1>1, <2>2 DEF Objects
<1>12. QED
  BY <1>1, <1>2, <1>7, <1>10, <1>11, QuietStep

-----------------------------------------------------------------------------
(* A flush that is done leaves its columns to the end of the transaction.  *)
LEMMA DoneStep == ASSUME BufferInv, FlushDone PROVE BufferInv'
<1>1. /\ flush.pc = "run" /\ flush' = Idle
      /\ UNCHANGED <<work, nextKey, outer, obj>>
      /\ rows' = IF outer = "none" THEN work ELSE rows
      /\ onEnd' = IF outer = "none" THEN onEnd
                  ELSE Append(onEnd, [pre |-> flush.pre, persists |-> queue.persists])
      /\ queue' = NoWork
  BY DEF FlushDone
<1>2. /\ BufferTypes /\ Rows' = Rows
      /\ obj \in Objects /\ onEnd \in Seq(Ends) /\ work \in Rows /\ rows \in Rows
      /\ flush.start \in Rows /\ flush.pre \in Captures /\ outer # "broken"
      /\ RealIn(obj, work) /\ queue.persists \in SUBSET Objs
      /\ Then = Restore(obj, flush.pre) /\ ThenRows = flush.start
  BY <1>1 DEF BufferInv, BufferTypes, RunInv, Rows, Then, ThenRows
<1>3. flush'.pc = "idle" /\ IsFlush(flush')
  BY <1>1 DEF Idle, IsFlush
<1>4. Then' = obj /\ ThenRows' = work
  BY <1>1, <1>3 DEF Then, ThenRows
<1>5. RunInv'
  BY <1>3 DEF RunInv
<1>6. queue' \in [persists : SUBSET Objs, deletes : SUBSET Deletes, bulks : SUBSET Bulks]
  BY <1>1 DEF NoWork
<1>7. CASE outer = "none"
  <2>1. rows' = work /\ onEnd' = <<>> /\ onEnd = <<>>
    BY <1>1, <1>2, <1>7 DEF BufferTypes
  <2>2. BufferTypes'
    BY <1>1, <1>2, <1>3, <1>6, <1>7, <2>1 DEF BufferTypes
  <2>3. ThenInv' /\ EndInv'
    BY <1>1, <1>2, <1>4, <1>7, <2>1, RunEndsEmpty DEF ThenInv, EndInv, Among
  <2>4. QED
    BY <1>5, <2>2, <2>3 DEF BufferInv
<1>8. CASE outer # "none"
  <2>1. PICK e : e = [pre |-> flush.pre, persists |-> queue.persists]
    OBVIOUS
  <2>2. e \in Ends /\ e.pre = flush.pre
    BY <1>2, <2>1 DEF Ends
  <2>3. /\ rows' = rows /\ onEnd' = Append(onEnd, e)
        /\ onEnd' \in Seq(Ends)
        /\ RunEnds(obj, onEnd') = RunEnds(Restore(obj, flush.pre), onEnd)
    BY <1>1, <1>2, <1>8, <2>1, <2>2, AppendProperties, RunEndsAppend
  <2>4. BufferTypes'
    BY <1>1, <1>2, <1>3, <1>6, <1>8, <2>3 DEF BufferTypes
  <2>5. EndInv'
    BY <1>2, <1>4, <2>3 DEF BufferInv, EndInv
  <2>6. onEnd' # <<>> /\ Among(rows, work)
    <3>1. onEnd' # <<>>
      BY <1>2, <2>2, <2>3, AppendProperties
    <3>2. QED
      BY <1>1, <1>2, <3>1 DEF BufferInv, RunInv, ThenInv, Among
  <2>7. ThenInv'
    BY <1>1, <1>2, <1>4, <1>8, <2>3, <2>6 DEF ThenInv
  <2>8. QED
    BY <1>5, <2>4, <2>5, <2>7 DEF BufferInv
<1>9. QED
  BY <1>7, <1>8

(* A flush that fails leaves what it would have left at any moment. *)
LEMMA FailStep == ASSUME BufferInv, FlushFails PROVE BufferInv'
<1>1. /\ flush.pc = "run" /\ flush' = [Idle EXCEPT !.goal = flush.goal]
      /\ UNCHANGED <<rows, nextKey, onEnd>>
      /\ obj' = Restore(obj, flush.pre)
      /\ queue' = PutBack
      /\ work' = IF outer = "none" \/ mode.nested THEN flush.start ELSE work
      /\ outer' = IF outer = "open" /\ ~mode.nested THEN "broken" ELSE outer
  BY DEF FlushFails
<1>2. /\ BufferTypes /\ Rows' = Rows
      /\ obj \in Objects /\ onEnd \in Seq(Ends) /\ work \in Rows /\ rows \in Rows
      /\ flush.start \in Rows /\ flush.pre \in Captures
      /\ outer \in {"none", "open"}
      /\ RealIn(obj, work)
      /\ queue \in [persists : SUBSET Objs, deletes : SUBSET Deletes, bulks : SUBSET Bulks]
      /\ Then = Restore(obj, flush.pre) /\ ThenRows = flush.start
      /\ RealIn(Then, ThenRows) /\ RealIn(RunEnds(Then, onEnd), rows)
  BY <1>1 DEF BufferInv, BufferTypes, RunInv, Rows, Then, ThenRows, ThenInv, EndInv
<1>3. flush'.pc = "idle" /\ IsFlush(flush')
  BY <1>1 DEF Idle, IsFlush
<1>4. Then' = obj' /\ ThenRows' = work' /\ obj' = Then
  BY <1>1, <1>2, <1>3 DEF Then, ThenRows
<1>5. RunInv'
  BY <1>3 DEF RunInv
<1>6. queue' \in [persists : SUBSET Objs, deletes : SUBSET Deletes, bulks : SUBSET Bulks]
  <2>1. \A d \in Deletes : [by |-> "home", key |-> d.key, kid |-> TRUE] \in Deletes
    BY DEF Deletes
  <2>2. queue.deletes \in SUBSET Deletes
    BY <1>2
  <2>3. queue.deletes \cup CascadeDeletes(queue.deletes) \in SUBSET Deletes
    BY <2>1, <2>2 DEF CascadeDeletes
  <2>4. PICK D \in SUBSET Deletes : D = queue.deletes \cup CascadeDeletes(queue.deletes)
    BY <2>3
  <2>5. queue' = queue \/ queue' = [queue EXCEPT !.deletes = D]
    BY <1>1, <2>4 DEF PutBack
  <2>6. QED
    BY <1>2, <2>5
<1>7. obj' \in Objects /\ \A c \in Kids : obj'[c].kids = {}
  <2>1. obj' \in Objects /\ \A o \in Objs : obj'[o].kids = obj[o].kids
    BY <1>1, <1>2, RestoreFacts
  <2>2. QED
    BY <1>2, <2>1 DEF BufferTypes, Objs
<1>8. BufferTypes'
  BY <1>1, <1>2, <1>3, <1>6, <1>7 DEF BufferTypes
<1>9. EndInv'
  BY <1>1, <1>2, <1>4 DEF EndInv
<1>10. CASE outer' = "broken"
  <2>1. work' = work
    BY <1>1, <1>2, <1>10
  <2>2. Among(flush.start, work) /\ Among(rows, flush.start)
    BY <1>1, <1>2 DEF BufferInv, RunInv, ThenInv
  <2>3. RealIn(obj', flush.start)
    BY <1>2, <1>4
  <2>4. \A o \in Objs : /\ obj'[o].key # 0 => obj'[o].key \in DOMAIN work
                                              /\ work[obj'[o].key].by = o
                        /\ obj'[o].fk \in {0} \cup DOMAIN work
    BY <2>2, <2>3 DEF RealIn, Among
  <2>5. \A k, l \in DOMAIN work : work[k].by = work[l].by => k = l
    BY <1>2 DEF RealIn
  <2>6. KeysAreReal'
    BY <2>1, <2>4, <2>5 DEF KeysAreReal
  <2>7. ThenInv'
    BY <1>1, <1>4, <1>10, <2>1, <2>2, <2>6 DEF ThenInv, Among
  <2>8. QED
    BY <1>5, <1>8, <1>9, <2>7 DEF BufferInv
<1>11. CASE outer' # "broken"
  <2>1. work' = flush.start /\ outer' = outer
    BY <1>1, <1>2, <1>11
  <2>2. Among(rows, flush.start) /\ (onEnd = <<>> => rows = flush.start)
    BY <1>2 DEF BufferInv, ThenInv
  <2>3. ThenInv'
    BY <1>1, <1>2, <1>4, <1>11, <2>1, <2>2 DEF ThenInv
  <2>4. QED
    BY <1>5, <1>8, <1>9, <2>3 DEF BufferInv
<1>12. QED
  BY <1>10, <1>11

-----------------------------------------------------------------------------
(* One step for each disjunct of Next. *)
LEMMA BufferNext == ASSUME BufferInv, [Next]_vars PROVE BufferInv'
<1>1. CASE \/ \E o \in Objs, v \in Vals : Edit(o, v)
           \/ \E c \in Kids, p \in Parents : AddKid(c, p) \/ DropKid(c, p)
  BY <1>1, EditSteps
<1>2. CASE \/ \E o \in Objs : \/ PersistNew(o) \/ PersistKnown(o) \/ PersistTracked(o)
                              \/ MergeObject(o) \/ RemoveQueued(o) \/ RemoveStored(o)
                              \/ DeleteByKey(o) \/ Detach(o) \/ LoadKnown(o)
           \/ \E b \in Bulks : QueueBulk(b)
  BY <1>2, QueueSteps
<1>3. ASSUME NEW o \in Objs, LoadRow(o) PROVE BufferInv'
  BY <1>3, LoadStep
<1>4. CASE OuterBegin \/ OuterCommit \/ OuterRollback
  BY <1>4, OuterSteps
<1>5. CASE FlushBegin
  BY <1>5, BeginStep
<1>6. CASE RunJob
  <2>1. PICK j : \/ RunUpdate(j) \/ RunInsert(j) \/ RunCascade(j) \/ RunAdded(j) \/ RunOrphan(j)
                 \/ RunExpand(j) \/ RunDelete(j) \/ RunBulkUpdate(j) \/ RunBulkDelete(j)
    BY <1>6 DEF RunJob
  <2>2. QED
    BY <2>1, RunOwn, RunKid, RunRemoval, RunValues, RunStep
<1>7. CASE FlushDone
  BY <1>7, DoneStep
<1>8. CASE FlushFails
  BY <1>8, FailStep
<1>9. CASE UNCHANGED vars
  BY <1>9 DEF vars, bufVars, BufferInv, BufferTypes, RunInv, ThenInv, EndInv, Then, ThenRows,
              KeysAreReal, KidsOf, Rows
<1>10. QED
  BY <1>1, <1>2, <1>3, <1>4, <1>5, <1>6, <1>7, <1>8, <1>9 DEF Next

(* Between flushes no object of the caller names a row that is not there,  *)
(* and none was inserted twice, whatever failed, was rolled back, or got   *)
(* in each other's way before (flush, capturePreFlushColumnState,          *)
(* restorePreFlushColumnState, onTransactionEnd).                          *)
THEOREM KeysStayReal == Spec => []KeysAreReal
<1>1. BufferInv => KeysAreReal
  BY RowsAre DEF BufferInv, BufferTypes, ThenInv, Then, ThenRows, KeysAreReal, RealIn
<1>2. Init => BufferInv
  BY BufferInit
<1>3. BufferInv /\ [Next]_vars => BufferInv'
  BY BufferNext
<1>4. QED
  BY <1>1, <1>2, <1>3, PTL DEF Spec

-----------------------------------------------------------------------------
(* Whatever order is chosen for a set, it has the elements of the set. *)
LEMMA SetToSeqFacts ==
    ASSUME NEW S, IsFiniteSet(S)
    PROVE  SetToSeq(S) \in Seq(S) /\ ToSet(SetToSeq(S)) = S
<1>1. PICK n \in Nat : n = Cardinality(S)
  BY FS_CardinalityType
<1>2. PICK b \in [1..n -> S] : IsInjective(b)
  <2>1. ExistsBijection(1..n, S)
    BY <1>1, FS_CardinalityType
  <2>2. PICK b : b \in Bijection(1..n, S)
    BY <2>1 DEF ExistsBijection
  <2>3. b \in [1..n -> S] /\ IsInjective(b)
    BY <2>2 DEF Bijection, Injection
  <2>4. QED
    BY <2>3
<1>3. PICK f : f = SetToSeq(S)
  OBVIOUS
<1>4. f \in [1..n -> S] /\ IsInjective(f)
  BY <1>1, <1>2, <1>3, Zenon DEF SetToSeq
<1>5. f \in Seq(S)
  BY <1>4
<1>6. f \in Surjection(1..n, S)
  <2>1. f \in Injection(1..n, S)
    BY <1>4 DEF Injection
  <2>2. Cardinality(1..n) = n
    <3>1. Cardinality(1..n) = IF 1 > n THEN 0 ELSE n - 1 + 1
      BY FS_Interval
    <3>2. QED
      BY <3>1
  <2>3. QED
    BY <1>1, <2>1, <2>2, FS_Injection
<1>7. DOMAIN f = 1..n
  BY <1>4
<1>8. \A x \in S : \E i \in DOMAIN f : f[i] = x
  BY <1>6, <1>7 DEF Surjection
<1>9. ToSet(f) = S
  BY <1>4, <1>7, <1>8 DEF ToSet
<1>10. QED
  BY <1>3, <1>5, <1>9

-----------------------------------------------------------------------------
(* The buffer by itself *)

Entries == [key : 0 .. MaxKey, obj : Objs]
Snaps == [val : Vals \cup {Sentinel}, fk : 0 .. MaxKey, kids : (SUBSET Kids) \cup {NotLoaded}]
States == {"NEW", "MANAGED", "REMOVED", "DETACHED"}

(* The identity map has the objects that have a snapshot. *)
IsBuffer(b) ==
    /\ b \in [snap : [Objs -> Snaps \cup {NoSnap}], idmap : Seq(Entries), st : [Objs -> States]]
    /\ \A o \in Objs : b.snap[o] # NoSnap <=> \E e \in ToSet(b.idmap) : e.obj = o

(* t is b after objects of S were given new baselines with vals, and others *)
(* perhaps put out of the map.                                             *)
Grown(b, t, os, S, vals) ==
    /\ IsBuffer(t)
    /\ \A x \in Objs : t.snap[x] # NoSnap =>
          t.snap[x] = b.snap[x] \/ (x \in S /\ t.snap[x].val = vals[x])
    /\ \A x \in Objs : b.snap[x] # NoSnap /\ (os[x].val # b.snap[x].val \/ os[x].fk # b.snap[x].fk)
                       => t.snap[x] = b.snap[x]
    /\ \A e \in ToSet(t.idmap) : e \in ToSet(b.idmap) \/ (e.obj \in S /\ e.key = os[e.obj].key)
    /\ \A x \in Objs : t.st[x] = "NEW" => b.st[x] = "NEW"
    /\ \A x \in Objs \ S : b.st[x] = "NEW" => t.st[x] = "NEW"

(* The fields of a buffer, *)
LEMMA BufferFields ==
    ASSUME NEW b, IsBuffer(b)
    PROVE  /\ b = [snap |-> b.snap, idmap |-> b.idmap, st |-> b.st]
           /\ b.snap \in [Objs -> Snaps \cup {NoSnap}]
           /\ b.idmap \in Seq(Entries)
           /\ b.st \in [Objs -> States]
BY DEF IsBuffer

(* what makes one, *)
LEMMA BufferOf ==
    ASSUME NEW sn \in [Objs -> Snaps \cup {NoSnap}], NEW im \in Seq(Entries), NEW ss \in [Objs -> States],
           \A o \in Objs : sn[o] # NoSnap <=> \E e \in ToSet(im) : e.obj = o
    PROVE  IsBuffer([snap |-> sn, idmap |-> im, st |-> ss])
BY DEF IsBuffer

(* and what is no snapshot. *)
LEMMA NoSnapIsNone == NoSnap \notin Snaps
BY WriteBufferAssumption DEF Snaps, Sentinel

(* Objects that are put out of the map are out of all of it. *)
LEMMA ForgetFacts ==
    ASSUME NEW b, IsBuffer(b), NEW S
    PROVE  /\ IsBuffer(Forget(b, S))
           /\ ToSet(Forget(b, S).idmap) = {e \in ToSet(b.idmap) : e.obj \notin S}
           /\ \A o \in Objs : Forget(b, S).snap[o] = IF o \in S THEN NoSnap ELSE b.snap[o]
           /\ \A o \in Objs : Forget(b, S).st[o] = IF o \in S THEN "DETACHED" ELSE b.st[o]
<1> DEFINE sn == [o \in Objs |-> IF o \in S THEN NoSnap ELSE b.snap[o]]
           im == Without(b.idmap, {e \in ToSet(b.idmap) : e.obj \in S})
           ss == [o \in Objs |-> IF o \in S THEN "DETACHED" ELSE b.st[o]]
<1>1. Forget(b, S) = [snap |-> sn, idmap |-> im, st |-> ss]
  BY DEF Forget
<1>2. /\ b.snap \in [Objs -> Snaps \cup {NoSnap}]
      /\ b.idmap \in Seq(Entries)
      /\ b.st \in [Objs -> States]
      /\ \A o \in Objs : b.snap[o] # NoSnap <=> \E e \in ToSet(b.idmap) : e.obj = o
  BY DEF IsBuffer
<1>3. /\ im \in Seq(Entries)
      /\ ToSet(im) = ToSet(b.idmap) \ {e \in ToSet(b.idmap) : e.obj \in S}
  BY <1>2, WithoutFacts
<1>4. sn \in [Objs -> Snaps \cup {NoSnap}]
  BY <1>2
<1>5. ss \in [Objs -> States]
  BY <1>2 DEF States
<1>6. ToSet(im) = {e \in ToSet(b.idmap) : e.obj \notin S}
  BY <1>3
<1>7. \A o \in Objs : sn[o] = (IF o \in S THEN NoSnap ELSE b.snap[o])
                     /\ ss[o] = (IF o \in S THEN "DETACHED" ELSE b.st[o])
  OBVIOUS
<1> HIDE DEF sn, im, ss
<1>8. \A o \in Objs : sn[o] # NoSnap <=> \E e \in ToSet(im) : e.obj = o
  BY <1>2, <1>6, <1>7
<1>9. IsBuffer([snap |-> sn, idmap |-> im, st |-> ss])
  BY <1>3, <1>4, <1>5, <1>8, BufferOf
<1>10. QED
  BY <1>1, <1>6, <1>7, <1>9

(* Nothing added, nothing edited lost: a step and another. *)
LEMMA GrownTwice ==
    ASSUME NEW b, NEW t, NEW u, NEW os, NEW S, NEW R, NEW vals,
           Grown(b, t, os, S, vals), Grown(t, u, os, R, vals)
    PROVE  Grown(b, u, os, S \cup R, vals)
<1>1. IsBuffer(u)
  BY DEF Grown
<1>2. \A x \in Objs : u.snap[x] # NoSnap =>
         u.snap[x] = b.snap[x] \/ (x \in S \cup R /\ u.snap[x].val = vals[x])
  BY DEF Grown
<1>3. \A x \in Objs : b.snap[x] # NoSnap /\ (os[x].val # b.snap[x].val \/ os[x].fk # b.snap[x].fk)
                     => u.snap[x] = b.snap[x]
  BY DEF Grown
<1>4. \A e \in ToSet(u.idmap) : e \in ToSet(b.idmap) \/ (e.obj \in S \cup R /\ e.key = os[e.obj].key)
  BY DEF Grown
<1>5. \A x \in Objs : u.st[x] = "NEW" => b.st[x] = "NEW"
  BY DEF Grown
<1>6. \A x \in Objs \ (S \cup R) : b.st[x] = "NEW" => u.st[x] = "NEW"
  BY DEF Grown
<1>7. QED
  BY <1>1, <1>2, <1>3, <1>4, <1>5, <1>6 DEF Grown

(* A buffer that nothing happened to. *)
LEMMA GrownNot == ASSUME NEW b, IsBuffer(b), NEW os, NEW S, NEW vals PROVE Grown(b, b, os, S, vals)
BY DEF Grown

(* Only what may be evicted is. *)
LEMMA EvictFacts ==
    ASSUME NEW b, IsBuffer(b), NEW os, NEW vals
    PROVE  Grown(b, Evict(b, os), os, {}, vals)
<1> DEFINE old == Without(b.idmap, {e \in ToSet(b.idmap) : ~Evictable(b, os, e.obj)})
           over == IF Len(b.idmap) > MaxSize THEN Len(b.idmap) - MaxSize ELSE 0
           n == IF over < Len(old) THEN over ELSE Len(old)
           D == {old[i].obj : i \in 1 .. n}
<1>1. Evict(b, os) = Forget(b, D)
  BY DEF Evict
<1>2. /\ b.idmap \in Seq(Entries)
      /\ \A o \in Objs : b.snap[o] # NoSnap <=> \E e \in ToSet(b.idmap) : e.obj = o
  BY DEF IsBuffer
<1>3. old \in Seq(Entries) /\ ToSet(old) = ToSet(b.idmap) \ {e \in ToSet(b.idmap) : ~Evictable(b, os, e.obj)}
  BY <1>2, WithoutFacts
<1>4. \A o \in D : Evictable(b, os, o)
  <2>1. Len(old) \in Nat /\ DOMAIN old = 1 .. Len(old)
    BY <1>3, LenProperties
  <2>2. over \in Int
    <3>1. Len(b.idmap) \in Nat /\ MaxSize \in Nat
      BY <1>2, LenProperties, WriteBufferAssumption
    <3>2. QED
      BY <3>1
  <2> HIDE DEF old, over
  <2>3. \A i \in 1 .. n : i \in DOMAIN old
    BY <2>1, <2>2
  <2>4. \A i \in DOMAIN old : old[i] \in ToSet(old)
    BY DEF ToSet
  <2>5. QED
    BY <1>3, <2>3, <2>4
<1>5. PICK f : f = Forget(b, D)
  OBVIOUS
<1> HIDE DEF D
<1>6. /\ IsBuffer(f)
      /\ ToSet(f.idmap) = {e \in ToSet(b.idmap) : e.obj \notin D}
      /\ \A o \in Objs : f.snap[o] = IF o \in D THEN NoSnap ELSE b.snap[o]
      /\ \A o \in Objs : f.st[o] = IF o \in D THEN "DETACHED" ELSE b.st[o]
  BY <1>5, ForgetFacts
<1>7. \A o \in D : /\ b.st[o] # "NEW"
                   /\ b.snap[o] # NoSnap => os[o].val = b.snap[o].val /\ os[o].fk = b.snap[o].fk
  BY <1>4 DEF Evictable
<1> HIDE DEF old, over, n
<1>8. \A x \in Objs : f.snap[x] # NoSnap => f.snap[x] = b.snap[x]
  BY <1>6
<1>9. \A x \in Objs : b.snap[x] # NoSnap /\ (os[x].val # b.snap[x].val \/ os[x].fk # b.snap[x].fk)
                     => f.snap[x] = b.snap[x]
  <2>1. \A x \in Objs : b.snap[x] # NoSnap /\ (os[x].val # b.snap[x].val \/ os[x].fk # b.snap[x].fk)
                         => x \notin D
    BY <1>7
  <2>2. QED
    BY <1>6, <2>1
<1>10. \A e \in ToSet(f.idmap) : e \in ToSet(b.idmap)
  BY <1>6
<1>11. ASSUME NEW x \in Objs PROVE f.st[x] = "NEW" <=> b.st[x] = "NEW"
  <2>1. CASE x \in D
    <3>1. f.st[x] = "DETACHED" /\ b.st[x] # "NEW"
      BY <1>6, <1>7, <2>1
    <3>2. QED
      BY <3>1
  <2>2. CASE x \notin D
    BY <1>6, <2>2
  <2>3. QED
    BY <2>1, <2>2
<1>12. Grown(b, f, os, {}, vals)
  BY <1>6, <1>8, <1>9, <1>10, <1>11 DEF Grown
<1>13. QED
  BY <1>1, <1>5, <1>12

(* An object that is tracked is new to the buffer, which others may leave. *)
LEMMA TrackFacts ==
    ASSUME NEW b, IsBuffer(b), NEW os \in Objects, NEW o \in Objs, NEW vals, vals[o] = os[o].val
    PROVE  /\ Grown(b, Track(b, os, o), os, {o}, vals)
           /\ b.snap[o] = NoSnap => Track(b, os, o).st[o] # "NEW"
           /\ b.snap[o] # NoSnap => Track(b, os, o) = b
<1>1. CASE b.snap[o] # NoSnap
  BY <1>1, GrownNot DEF Track
<1>2. CASE b.snap[o] = NoSnap
  <2> DEFINE en == [key |-> os[o].key, obj |-> o]
             sn == [b.snap EXCEPT ![o] = Baseline(os[o])]
             im == Append(b.idmap, en)
             ss == [b.st EXCEPT ![o] = "MANAGED"]
  <2>1. PICK m : m = [snap |-> sn, idmap |-> im, st |-> ss]
    OBVIOUS
  <2>2. Track(b, os, o) = Evict(m, os)
    BY <1>2, <2>1 DEF Track
  <2>3. m.snap = sn /\ m.idmap = im /\ m.st = ss
    BY <2>1
  <2>4. /\ b.snap \in [Objs -> Snaps \cup {NoSnap}]
        /\ b.idmap \in Seq(Entries)
        /\ b.st \in [Objs -> States]
        /\ \A x \in Objs : b.snap[x] # NoSnap <=> \E e \in ToSet(b.idmap) : e.obj = x
    BY DEF IsBuffer
  <2>5. /\ os[o].key \in 0 .. MaxKey /\ os[o].val \in Vals /\ os[o].fk \in 0 .. MaxKey
        /\ os[o].kids \in (SUBSET Kids) \cup {NotLoaded}
    BY ObjectFields
  <2>6. Baseline(os[o]) \in Snaps /\ Baseline(os[o]).val = os[o].val /\ Baseline(os[o]) # NoSnap
    BY <2>5, NoSnapIsNone DEF Baseline, Snaps
  <2>7. en \in Entries /\ en.obj = o /\ en.key = os[o].key
    BY <2>5 DEF Entries
  <2> HIDE DEF en
  <2>8. im \in Seq(Entries) /\ ToSet(im) = ToSet(b.idmap) \cup {en}
    BY <2>4, <2>7, AppendProperties, AppendFacts
  <2>9. /\ sn \in [Objs -> Snaps \cup {NoSnap}]
        /\ ss \in [Objs -> States]
        /\ sn[o] = Baseline(os[o]) /\ ss[o] = "MANAGED"
        /\ \A x \in Objs : x # o => sn[x] = b.snap[x] /\ ss[x] = b.st[x]
    BY <2>4, <2>6 DEF States
  <2> HIDE DEF sn, im, ss
  <2>10. IsBuffer(m)
    <3>1. \A x \in Objs : sn[x] # NoSnap <=> \E e \in ToSet(im) : e.obj = x
      BY <1>2, <2>4, <2>6, <2>7, <2>8, <2>9
    <3>2. QED
      BY <2>1, <2>8, <2>9, <3>1, BufferOf
  <2>11. Grown(b, m, os, {o}, vals)
    <3>1. \A x \in Objs : m.snap[x] # NoSnap =>
             m.snap[x] = b.snap[x] \/ (x \in {o} /\ m.snap[x].val = vals[x])
      BY <2>3, <2>6, <2>9
    <3>2. \A x \in Objs : b.snap[x] # NoSnap => m.snap[x] = b.snap[x]
      BY <1>2, <2>3, <2>9
    <3>3. \A e \in ToSet(m.idmap) : e \in ToSet(b.idmap) \/ (e.obj \in {o} /\ e.key = os[e.obj].key)
      BY <2>3, <2>7, <2>8
    <3>4. \A x \in Objs : m.st[x] = "NEW" => b.st[x] = "NEW"
      BY <2>3, <2>9
    <3>5. \A x \in Objs \ {o} : b.st[x] = "NEW" => m.st[x] = "NEW"
      BY <2>3, <2>9
    <3>6. QED
      BY <2>10, <3>1, <3>2, <3>3, <3>4, <3>5 DEF Grown
  <2>12. PICK t : t = Evict(m, os)
    OBVIOUS
  <2>13. Grown(m, t, os, {}, vals)
    BY <2>10, <2>12, EvictFacts
  <2>14. Grown(b, t, os, {o} \cup {}, vals) /\ {o} \cup {} = {o}
    BY <2>11, <2>13, GrownTwice
  <2>15. t.st[o] # "NEW"
    BY <2>3, <2>9, <2>13 DEF Grown
  <2>16. QED
    BY <1>2, <2>2, <2>12, <2>14, <2>15
<1>3. QED
  BY <1>1, <1>2

(* merge() gives an object a baseline that nothing equals. *)
LEMMA MergeOneFacts ==
    ASSUME NEW b, IsBuffer(b), obj \in Objects, NEW o \in Objs, NEW vals, vals[o] = Sentinel
    PROVE  Grown(b, MergeOne(b, o), obj, {o}, vals)
<1>1. CASE b.snap[o] # NoSnap
  BY <1>1, GrownNot DEF MergeOne
<1>2. CASE b.snap[o] = NoSnap
  <2>1. PICK t : t = Track(b, obj, o)
    OBVIOUS
  <2>2. PICK v : v = [x \in Objs |-> obj[x].val]
    OBVIOUS
  <2>3. Grown(b, t, obj, {o}, v)
    BY <2>1, <2>2, TrackFacts
  <2>4. /\ IsBuffer(t)
        /\ \A x \in Objs : x # o /\ t.snap[x] # NoSnap => t.snap[x] = b.snap[x]
    BY <2>3 DEF Grown
  <2>5. CASE t.snap[o] = NoSnap
    <3>1. MergeOne(b, o) = t
      BY <1>2, <2>1, <2>5 DEF MergeOne
    <3>2. \A x \in Objs : t.snap[x] # NoSnap =>
             t.snap[x] = b.snap[x] \/ (x \in {o} /\ t.snap[x].val = vals[x])
      BY <2>4, <2>5
    <3>3. Grown(b, t, obj, {o}, vals)
      BY <2>3, <3>2 DEF Grown
    <3>4. QED
      BY <3>1, <3>3
  <2>6. CASE t.snap[o] # NoSnap
    <3>1. PICK sn, im, ss : sn = t.snap /\ im = t.idmap /\ ss = t.st
      OBVIOUS
    <3>2. /\ t = [snap |-> sn, idmap |-> im, st |-> ss]
          /\ sn \in [Objs -> Snaps \cup {NoSnap}]
          /\ im \in Seq(Entries)
          /\ ss \in [Objs -> States]
          /\ \A x \in Objs : sn[x] # NoSnap <=> \E e \in ToSet(im) : e.obj = x
      BY <2>4, <3>1 DEF IsBuffer
    <3>3. PICK y : y = [sn[o] EXCEPT !.val = Sentinel]
      OBVIOUS
    <3>4. sn[o] \in Snaps
      BY <2>6, <3>1, <3>2
    <3>5. y \in Snaps /\ y.val = Sentinel /\ y # NoSnap
      BY <3>3, <3>4, NoSnapIsNone DEF Snaps
    <3>6. PICK u : u = [sn EXCEPT ![o] = y]
      OBVIOUS
    <3>7. u \in [Objs -> Snaps \cup {NoSnap}] /\ u[o] = y /\ \A x \in Objs : x # o => u[x] = sn[x]
      BY <3>2, <3>5, <3>6
    <3>8. PICK m : m = [snap |-> u, idmap |-> im, st |-> ss]
      OBVIOUS
    <3>9. MergeOne(b, o) = m
      <4>1. MergeOne(b, o) = [t EXCEPT !.snap[o].val = Sentinel]
        BY <1>2, <2>1, <2>6 DEF MergeOne
      <4>2. [t EXCEPT !.snap[o].val = Sentinel]
              = [t EXCEPT !.snap = [sn EXCEPT ![o] = [sn[o] EXCEPT !.val = Sentinel]]]
        BY <3>1
      <4>3. [t EXCEPT !.snap = u] = m
        BY <3>2, <3>8
      <4>4. QED
        BY <3>3, <3>6, <4>1, <4>2, <4>3
    <3>10. m.snap = u /\ m.idmap = im /\ m.st = ss
      BY <3>8
    <3>11. \A x \in Objs : u[x] # NoSnap <=> \E e \in ToSet(im) : e.obj = x
      BY <2>6, <3>1, <3>2, <3>5, <3>7
    <3>12. IsBuffer(m)
      BY <3>2, <3>7, <3>8, <3>11, BufferOf
    <3>13. \A x \in Objs : m.snap[x] # NoSnap =>
              m.snap[x] = b.snap[x] \/ (x \in {o} /\ m.snap[x].val = vals[x])
      BY <2>4, <3>1, <3>5, <3>7, <3>10
    <3>14. \A x \in Objs : b.snap[x] # NoSnap /\ (obj[x].val # b.snap[x].val \/ obj[x].fk # b.snap[x].fk)
                            => m.snap[x] = b.snap[x]
      <4>1. \A x \in Objs : b.snap[x] # NoSnap => x # o /\ m.snap[x] = t.snap[x]
        BY <1>2, <3>1, <3>7, <3>10
      <4>2. QED
        BY <2>3, <4>1 DEF Grown
    <3>15. Grown(b, m, obj, {o}, vals)
      <4>1. /\ \A e \in ToSet(t.idmap) : e \in ToSet(b.idmap) \/ (e.obj \in {o} /\ e.key = obj[e.obj].key)
            /\ \A x \in Objs : t.st[x] = "NEW" => b.st[x] = "NEW"
            /\ \A x \in Objs \ {o} : b.st[x] = "NEW" => t.st[x] = "NEW"
        BY <2>3 DEF Grown
      <4>2. m.idmap = t.idmap /\ m.st = t.st
        BY <3>1, <3>10
      <4>3. QED
        BY <3>12, <3>13, <3>14, <4>1, <4>2 DEF Grown
    <3>16. QED
      BY <3>9, <3>15
  <2>7. QED
    BY <2>5, <2>6
<1>3. QED
  BY <1>1, <1>2

(* Some function is the one MergeAll is defined by, *)
LEMMA MergeAllFunction ==
    ASSUME NEW S, NEW s \in Seq(S), NEW b
    PROVE  \E f : /\ f = [n \in 0..Len(s) |-> IF n = 0 THEN b ELSE MergeOne(f[n - 1], s[n])]
                  /\ MergeAll(b, s) = f[Len(s)]
<1> DEFINE Fits(f, x) == f = [n \in 0..x |-> IF n = 0 THEN b ELSE MergeOne(f[n - 1], s[n])]
           T == {x \in Nat : \E f : Fits(f, x)}
           F == CHOOSE f : Fits(f, Len(s))
<1>1. MergeAll(b, s) = F[Len(s)]
  BY DEF MergeAll
<1>2. 0 \in T
  <2>1. Fits([n \in 0..0 |-> b], 0)
    OBVIOUS
  <2>2. QED
    BY <2>1
<1>3. ASSUME NEW x \in Nat, x \in T PROVE x + 1 \in T
  <2>1. PICK f : Fits(f, x)
    BY <1>3
  <2> DEFINE g == [n \in 0..x + 1 |-> IF n = x + 1 THEN MergeOne(f[n - 1], s[n]) ELSE f[n]]
  <2>2. ASSUME NEW n \in 0..x + 1
        PROVE  g[n] = IF n = 0 THEN b ELSE MergeOne(g[n - 1], s[n])
    <3>1. CASE n = x + 1
      <4>1. n - 1 \in 0..x + 1 /\ n - 1 # x + 1 /\ n # 0
        BY <3>1
      <4>2. QED
        BY <3>1, <4>1
    <3>2. CASE n = 0
      BY <2>1, <3>2
    <3>3. CASE n # x + 1 /\ n # 0
      <4>1. n - 1 \in 0..x + 1 /\ n - 1 # x + 1 /\ n \in 0..x
        BY <3>3
      <4>2. f[n] = IF n = 0 THEN b ELSE MergeOne(f[n - 1], s[n])
        BY <2>1, <4>1
      <4>3. QED
        BY <3>3, <4>1, <4>2
    <3>4. QED
      BY <3>1, <3>2, <3>3
  <2>3. Fits(g, x + 1)
    BY <2>2, Zenon
  <2> HIDE DEF Fits, g
  <2>4. \E h : Fits(h, x + 1)
    BY <2>3, Zenon
  <2>5. QED
    BY <2>4
<1>4. Len(s) \in T
  <2> HIDE DEF T
  <2>1. Nat \subseteq T
    BY <1>2, <1>3, NumbersIn
  <2>2. QED
    BY <2>1, LenProperties
<1>5. Fits(F, Len(s))
  <2>1. \E f : Fits(f, Len(s))
    BY <1>4
  <2> HIDE DEF Fits
  <2>2. QED
    BY <2>1, Zenon
<1>6. QED
  BY <1>1, <1>5

(* and TrackAll. *)
LEMMA TrackAllFunction ==
    ASSUME NEW S, NEW s \in Seq(S), NEW b
    PROVE  \E f : /\ f = [n \in 0..Len(s) |-> IF n = 0 THEN b ELSE TrackOne(f[n - 1], s[n])]
                  /\ TrackAll(b, s) = f[Len(s)]
<1> DEFINE Fits(f, x) == f = [n \in 0..x |-> IF n = 0 THEN b ELSE TrackOne(f[n - 1], s[n])]
           T == {x \in Nat : \E f : Fits(f, x)}
           F == CHOOSE f : Fits(f, Len(s))
<1>1. TrackAll(b, s) = F[Len(s)]
  BY DEF TrackAll
<1>2. 0 \in T
  <2>1. Fits([n \in 0..0 |-> b], 0)
    OBVIOUS
  <2>2. QED
    BY <2>1
<1>3. ASSUME NEW x \in Nat, x \in T PROVE x + 1 \in T
  <2>1. PICK f : Fits(f, x)
    BY <1>3
  <2> DEFINE g == [n \in 0..x + 1 |-> IF n = x + 1 THEN TrackOne(f[n - 1], s[n]) ELSE f[n]]
  <2>2. ASSUME NEW n \in 0..x + 1
        PROVE  g[n] = IF n = 0 THEN b ELSE TrackOne(g[n - 1], s[n])
    <3>1. CASE n = x + 1
      <4>1. n - 1 \in 0..x + 1 /\ n - 1 # x + 1 /\ n # 0
        BY <3>1
      <4>2. QED
        BY <3>1, <4>1
    <3>2. CASE n = 0
      BY <2>1, <3>2
    <3>3. CASE n # x + 1 /\ n # 0
      <4>1. n - 1 \in 0..x + 1 /\ n - 1 # x + 1 /\ n \in 0..x
        BY <3>3
      <4>2. f[n] = IF n = 0 THEN b ELSE TrackOne(f[n - 1], s[n])
        BY <2>1, <4>1
      <4>3. QED
        BY <3>3, <4>1, <4>2
    <3>4. QED
      BY <3>1, <3>2, <3>3
  <2>3. Fits(g, x + 1)
    BY <2>2, Zenon
  <2> HIDE DEF Fits, g
  <2>4. \E h : Fits(h, x + 1)
    BY <2>3, Zenon
  <2>5. QED
    BY <2>4
<1>4. Len(s) \in T
  <2> HIDE DEF T
  <2>1. Nat \subseteq T
    BY <1>2, <1>3, NumbersIn
  <2>2. QED
    BY <2>1, LenProperties
<1>5. Fits(F, Len(s))
  <2>1. \E f : Fits(f, Len(s))
    BY <1>4
  <2> HIDE DEF Fits
  <2>2. QED
    BY <2>1, Zenon
<1>6. QED
  BY <1>1, <1>5

(* merge() of an object with its kids. *)
LEMMA MergeAllFacts ==
    ASSUME NEW b, IsBuffer(b), obj \in Objects, NEW S \in SUBSET Objs, NEW s \in Seq(S),
           NEW vals, \A o \in Objs : vals[o] = Sentinel
    PROVE  Grown(b, MergeAll(b, s), obj, S, vals)
<1>1. PICK f : /\ f = [n \in 0..Len(s) |-> IF n = 0 THEN b ELSE MergeOne(f[n - 1], s[n])]
               /\ MergeAll(b, s) = f[Len(s)]
  BY MergeAllFunction, Zenon
<1>2. PICK l \in Nat : l = Len(s)
  BY LenProperties
<1>3. f[0] = b /\ \A n \in 1..l : f[n] = MergeOne(f[n - 1], s[n])
  <2>1. ASSUME NEW n \in 0..l PROVE f[n] = IF n = 0 THEN b ELSE MergeOne(f[n - 1], s[n])
    BY <1>1, <1>2
  <2>2. QED
    BY <2>1
<1> DEFINE T == {n \in Nat : n <= l => Grown(b, f[n], obj, S, vals)}
<1>4. 0 \in T
  BY <1>3, GrownNot
<1>5. ASSUME NEW n \in Nat, n \in T PROVE n + 1 \in T
  <2>1. CASE n + 1 <= l
    <3>1. n <= l /\ n + 1 \in 1..l /\ (n + 1) - 1 = n
      BY <2>1
    <3>2. PICK o \in S : o = s[n + 1]
      BY <1>2, <3>1, ElementOfSeq
    <3>3. PICK x : x = f[n]
      OBVIOUS
    <3>4. Grown(b, x, obj, S, vals) /\ IsBuffer(x)
      BY <1>5, <3>1, <3>3 DEF Grown
    <3>5. f[n + 1] = MergeOne(x, o)
      BY <1>3, <3>1, <3>2, <3>3
    <3>6. PICK y : y = MergeOne(x, o)
      OBVIOUS
    <3>7. Grown(x, y, obj, {o}, vals)
      BY <3>4, <3>6, MergeOneFacts
    <3>8. Grown(b, y, obj, S, vals)
      <4>1. PICK R : R = S \cup {o}
        OBVIOUS
      <4>2. Grown(b, y, obj, R, vals)
        BY <3>4, <3>7, <4>1, GrownTwice
      <4>3. R = S
        BY <4>1
      <4>4. QED
        BY <4>2, <4>3
    <3>9. QED
      BY <3>5, <3>6, <3>8
  <2>2. QED
    BY <2>1
<1>6. l \in T
  <2> HIDE DEF T
  <2>1. Nat \subseteq T
    BY <1>4, <1>5, NumbersIn
  <2>2. QED
    BY <2>1
<1>7. QED
  BY <1>1, <1>2, <1>6

(* Tracking what a flush inserted. *)
LEMMA TrackOneFacts ==
    ASSUME NEW b, IsBuffer(b), obj \in Objects, NEW o \in Objs, NEW vals, vals[o] = obj[o].val
    PROVE  Grown(b, TrackOne(b, o), obj, {o}, vals) /\ TrackOne(b, o).st[o] # "NEW"
<1>1. PICK t : t = Track(b, obj, o)
  OBVIOUS
<1>2. Grown(b, t, obj, {o}, vals)
  BY <1>1, TrackFacts
<1>3. PICK sn, im, ss : sn = t.snap /\ im = t.idmap /\ ss = t.st
  OBVIOUS
<1>4. /\ t = [snap |-> sn, idmap |-> im, st |-> ss]
      /\ sn \in [Objs -> Snaps \cup {NoSnap}]
      /\ im \in Seq(Entries)
      /\ ss \in [Objs -> States]
      /\ \A x \in Objs : sn[x] # NoSnap <=> \E e \in ToSet(im) : e.obj = x
  BY <1>2, <1>3 DEF Grown, IsBuffer
<1>5. PICK z : z = [ss EXCEPT ![o] = "MANAGED"]
  OBVIOUS
<1>6. z \in [Objs -> States] /\ z[o] = "MANAGED" /\ \A x \in Objs : x # o => z[x] = ss[x]
  BY <1>4, <1>5 DEF States
<1>7. PICK m : m = [snap |-> sn, idmap |-> im, st |-> z]
  OBVIOUS
<1>8. TrackOne(b, o) = m
  BY <1>1, <1>4, <1>5, <1>7 DEF TrackOne
<1>9. m.snap = sn /\ m.idmap = im /\ m.st = z
  BY <1>7
<1>10. IsBuffer(m)
  BY <1>4, <1>6, <1>7, BufferOf
<1>11. /\ \A x \in Objs : m.st[x] = "NEW" => b.st[x] = "NEW"
       /\ \A x \in Objs \ {o} : b.st[x] = "NEW" => m.st[x] = "NEW"
  BY <1>2, <1>3, <1>6, <1>9 DEF Grown
<1>12. Grown(b, m, obj, {o}, vals)
  <2>1. /\ \A x \in Objs : t.snap[x] # NoSnap =>
              t.snap[x] = b.snap[x] \/ (x \in {o} /\ t.snap[x].val = vals[x])
        /\ \A x \in Objs : b.snap[x] # NoSnap /\ (obj[x].val # b.snap[x].val \/ obj[x].fk # b.snap[x].fk)
                          => t.snap[x] = b.snap[x]
        /\ \A e \in ToSet(t.idmap) : e \in ToSet(b.idmap) \/ (e.obj \in {o} /\ e.key = obj[e.obj].key)
    BY <1>2 DEF Grown
  <2>2. QED
    BY <1>3, <1>9, <1>10, <1>11, <2>1 DEF Grown
<1>13. QED
  BY <1>6, <1>8, <1>9, <1>12

(* Tracking all that it inserted. *)
LEMMA TrackAllFacts ==
    ASSUME NEW b, IsBuffer(b), obj \in Objects, NEW S \in SUBSET Objs, NEW s \in Seq(S),
           ToSet(s) = S, NEW vals, \A o \in Objs : vals[o] = obj[o].val
    PROVE  Grown(b, TrackAll(b, s), obj, S, vals) /\ \A o \in S : TrackAll(b, s).st[o] # "NEW"
<1>1. PICK f : /\ f = [n \in 0..Len(s) |-> IF n = 0 THEN b ELSE TrackOne(f[n - 1], s[n])]
               /\ TrackAll(b, s) = f[Len(s)]
  BY TrackAllFunction, Zenon
<1>2. PICK l \in Nat : l = Len(s)
  BY LenProperties
<1>3. f[0] = b /\ \A n \in 1..l : f[n] = TrackOne(f[n - 1], s[n])
  <2>1. ASSUME NEW n \in 0..l PROVE f[n] = IF n = 0 THEN b ELSE TrackOne(f[n - 1], s[n])
    BY <1>1, <1>2
  <2>2. QED
    BY <2>1
<1> DEFINE T == {n \in Nat : n <= l =>
                   /\ Grown(b, f[n], obj, S, vals)
                   /\ \A i \in 1..n : f[n].st[s[i]] # "NEW"}
<1>4. 0 \in T
  BY <1>3, GrownNot
<1>5. ASSUME NEW n \in Nat, n \in T PROVE n + 1 \in T
  <2>1. CASE n + 1 <= l
    <3>1. n <= l /\ n + 1 \in 1..l /\ (n + 1) - 1 = n
      BY <2>1
    <3>2. PICK o \in S : o = s[n + 1]
      BY <1>2, <3>1, ElementOfSeq
    <3>3. PICK x : x = f[n]
      OBVIOUS
    <3>4. Grown(b, x, obj, S, vals) /\ IsBuffer(x) /\ \A i \in 1..n : x.st[s[i]] # "NEW"
      BY <1>5, <3>1, <3>3 DEF Grown
    <3>5. f[n + 1] = TrackOne(x, o)
      BY <1>3, <3>1, <3>2, <3>3
    <3>6. PICK y : y = TrackOne(x, o)
      OBVIOUS
    <3>7. Grown(x, y, obj, {o}, vals) /\ y.st[o] # "NEW"
      BY <3>4, <3>6, TrackOneFacts
    <3>8. Grown(b, y, obj, S, vals)
      <4>1. PICK R : R = S \cup {o}
        OBVIOUS
      <4>2. Grown(b, y, obj, R, vals)
        BY <3>4, <3>7, <4>1, GrownTwice
      <4>3. R = S
        BY <4>1
      <4>4. QED
        BY <4>2, <4>3
    <3>9. ASSUME NEW i \in 1..n + 1 PROVE y.st[s[i]] # "NEW"
      <4>1. CASE i = n + 1
        BY <3>2, <3>7, <4>1
      <4>2. CASE i # n + 1
        <5>1. i \in 1..n /\ i \in 1..l
          BY <3>1, <4>2
        <5>2. s[i] \in S /\ S \subseteq Objs
          BY <1>2, <5>1, ElementOfSeq
        <5>3. x.st[s[i]] # "NEW"
          BY <3>4, <5>1
        <5>4. QED
          BY <3>7, <5>2, <5>3 DEF Grown
      <4>3. QED
        BY <4>1, <4>2
    <3>10. QED
      BY <3>5, <3>6, <3>8, <3>9
  <2>2. QED
    BY <2>1
<1>6. l \in T
  <2> HIDE DEF T
  <2>1. Nat \subseteq T
    BY <1>4, <1>5, NumbersIn
  <2>2. QED
    BY <2>1
<1>7. DOMAIN s = 1..l
  BY <1>2, LenProperties
<1>8. \A o \in S : \E i \in 1..l : o = s[i]
  BY <1>7 DEF ToSet
<1>9. QED
  BY <1>1, <1>2, <1>6, <1>8

-----------------------------------------------------------------------------
(* The buffer stays one, whatever is called *)

(* The buffer that an action sets. *)
LEMMA BufferSet ==
    ASSUME NEW b, IsBuffer(b), SetBuffer(b)
    PROVE  IsBuffer(Buffer)' /\ snap' = b.snap /\ idmap' = b.idmap /\ st' = b.st
<1>1. snap' = b.snap /\ idmap' = b.idmap /\ st' = b.st
  BY DEF SetBuffer
<1>2. b = [snap |-> b.snap, idmap |-> b.idmap, st |-> b.st]
  BY BufferFields
<1>3. Buffer' = b
  BY <1>1, <1>2 DEF Buffer
<1>4. QED
  BY <1>1, <1>3

(* Its three structures. *)
LEMMA BufferIs ==
    /\ Buffer.snap = snap /\ Buffer.idmap = idmap /\ Buffer.st = st
    /\ IsBuffer(Buffer) <=>
          /\ snap \in [Objs -> Snaps \cup {NoSnap}]
          /\ idmap \in Seq(Entries)
          /\ st \in [Objs -> States]
          /\ \A o \in Objs : snap[o] # NoSnap <=> \E e \in ToSet(idmap) : e.obj = o
<1>1. PICK b : b = Buffer
  OBVIOUS
<1>2. b = [snap |-> snap, idmap |-> idmap, st |-> st]
  BY <1>1 DEF Buffer
<1>3. b.snap = snap /\ b.idmap = idmap /\ b.st = st
  BY <1>2
<1>4. ASSUME IsBuffer(b)
      PROVE  /\ b.snap \in [Objs -> Snaps \cup {NoSnap}]
             /\ b.idmap \in Seq(Entries)
             /\ b.st \in [Objs -> States]
             /\ \A o \in Objs : b.snap[o] # NoSnap <=> \E e \in ToSet(b.idmap) : e.obj = o
  BY <1>4 DEF IsBuffer
<1>5. ASSUME /\ snap \in [Objs -> Snaps \cup {NoSnap}]
             /\ idmap \in Seq(Entries)
             /\ st \in [Objs -> States]
             /\ \A o \in Objs : snap[o] # NoSnap <=> \E e \in ToSet(idmap) : e.obj = o
      PROVE  IsBuffer(b)
  BY <1>2, <1>5, BufferOf
<1>6. QED
  BY <1>1, <1>3, <1>4, <1>5

(* A snapshot of an object that is tracked gets other columns. *)
LEMMA SnapEdited ==
    ASSUME NEW sn \in Snaps, NEW v \in Vals, NEW f \in 0 .. MaxKey
    PROVE  /\ [sn EXCEPT !.val = v, !.fk = f] \in Snaps
           /\ [sn EXCEPT !.val = v, !.fk = f].val = v
           /\ [sn EXCEPT !.val = v, !.fk = f] # NoSnap
<1>1. PICK y : y = [sn EXCEPT !.val = v, !.fk = f]
  OBVIOUS
<1>2. y \in Snaps /\ y.val = v
  BY <1>1 DEF Snaps
<1>3. QED
  BY <1>1, <1>2, NoSnapIsNone

(* What the calls between flushes that change the buffer make of it.       *)
LEMMA CallBuffers ==
    ASSUME BufferInv, IsBuffer(Buffer), NEW o \in Objs
    PROVE  /\ PersistKnown(o) => \E v : /\ \A x \in Objs : v[x] = obj[x].val
                                        /\ Grown(Buffer, Buffer', obj, {o}, v)
           /\ MergeObject(o) => \E v : /\ \A x \in Objs : v[x] = Sentinel
                                       /\ Grown(Buffer, Buffer', obj, {o} \cup KidsOf(o), v)
           /\ LoadRow(o) => \E v : /\ \A x \in Objs : v[x] = obj'[x].val
                                   /\ Grown(Buffer, Buffer', obj', {o}, v)
<1>1. obj \in Objects /\ \A p \in Objs : KidsOf(p) \in SUBSET Kids /\ IsFiniteSet(KidsOf(p))
  <2>1. obj \in Objects
    BY DEF BufferInv, BufferTypes
  <2>2. \A p \in Objs : KidsOf(p) \in SUBSET Kids
    BY <2>1, ObjectFields DEF KidsOf
  <2>3. IsFiniteSet(Objs) /\ Kids \subseteq Objs
    BY WriteBufferAssumption DEF Objs
  <2>4. QED
    BY <2>1, <2>2, <2>3, FS_Subset
<1>2. PICK b : b = Buffer
  OBVIOUS
<1>3. \A t : IsBuffer(t) /\ SetBuffer(t) => Buffer' = t
  <2>1. ASSUME NEW t, IsBuffer(t), SetBuffer(t) PROVE Buffer' = t
    <3>1. t = [snap |-> t.snap, idmap |-> t.idmap, st |-> t.st]
      BY <2>1, BufferFields
    <3>2. snap' = t.snap /\ idmap' = t.idmap /\ st' = t.st
      BY <2>1 DEF SetBuffer
    <3>3. QED
      BY <3>1, <3>2 DEF Buffer
  <2>2. QED
    BY <2>1
<1>4. ASSUME PersistKnown(o)
      PROVE  \E v : (\A x \in Objs : v[x] = obj[x].val) /\ Grown(Buffer, Buffer', obj, {o}, v)
  <2>1. PICK v : v = [x \in Objs |-> obj[x].val]
    OBVIOUS
  <2>2. PICK t : t = Track(b, obj, o)
    OBVIOUS
  <2>3. Grown(b, t, obj, {o}, v) /\ IsBuffer(t)
    BY <1>1, <1>2, <2>1, <2>2, TrackFacts DEF Grown
  <2>4. SetBuffer(t)
    BY <1>2, <1>4, <2>2 DEF PersistKnown
  <2>5. QED
    BY <1>2, <1>3, <2>1, <2>3, <2>4
<1>5. ASSUME MergeObject(o)
      PROVE  \E v : (\A x \in Objs : v[x] = Sentinel)
                    /\ Grown(Buffer, Buffer', obj, {o} \cup KidsOf(o), v)
  <2>1. PICK v : v = [x \in Objs |-> Sentinel]
    OBVIOUS
  <2>2. PICK S : S = {o} \cup KidsOf(o)
    OBVIOUS
  <2>3. PICK s : s = <<o>> \o SetToSeq(KidsOf(o))
    OBVIOUS
  <2>4. S \in SUBSET Objs /\ s \in Seq(S)
    <3>1. PICK q : q = SetToSeq(KidsOf(o))
      OBVIOUS
    <3>2. PICK K : K = KidsOf(o)
      OBVIOUS
    <3>3. q \in Seq(K)
      BY <1>1, <3>1, <3>2, SetToSeqFacts
    <3>4. K \subseteq S /\ o \in S
      BY <2>2, <3>2
    <3>5. q \in Seq(S) /\ <<o>> \in Seq(S)
      BY <3>3, <3>4
    <3>6. s \in Seq(S)
      BY <2>3, <3>1, <3>5, ConcatProperties
    <3>7. QED
      BY <1>1, <2>2, <3>6 DEF Objs
  <2>5. PICK t : t = MergeAll(b, s)
    OBVIOUS
  <2>6. Grown(b, t, obj, S, v) /\ IsBuffer(t)
    BY <1>1, <1>2, <2>1, <2>4, <2>5, MergeAllFacts DEF Grown
  <2>7. SetBuffer(t)
    BY <1>2, <1>5, <2>3, <2>5 DEF MergeObject
  <2>8. QED
    BY <1>2, <1>3, <2>1, <2>2, <2>6, <2>7
<1>6. ASSUME LoadRow(o)
      PROVE  \E v : (\A x \in Objs : v[x] = obj'[x].val) /\ Grown(Buffer, Buffer', obj', {o}, v)
  <2>1. PICK os : os = obj'
    OBVIOUS
  <2>2. os \in Objects
    <3>1. BufferInv'
      BY <1>6, LoadStep
    <3>2. obj' \in Objects'
      BY <3>1 DEF BufferInv, BufferTypes
    <3>3. Objects' = Objects
      BY DEF Objects, ObjState
    <3>4. QED
      BY <2>1, <3>2, <3>3
  <2>3. PICK v : v = [x \in Objs |-> os[x].val]
    OBVIOUS
  <2>4. PICK t : t = Track(b, os, o)
    OBVIOUS
  <2>5. Grown(b, t, os, {o}, v) /\ IsBuffer(t)
    BY <1>2, <2>2, <2>3, <2>4, TrackFacts DEF Grown
  <2>6. SetBuffer(t)
    BY <1>2, <1>6, <2>1, <2>4 DEF LoadRow
  <2>7. QED
    BY <1>2, <1>3, <2>1, <2>3, <2>5, <2>6
<1>7. QED
  BY <1>4, <1>5, <1>6

(* Objects that are put out of the buffer. *)
LEMMA CallForgets ==
    ASSUME IsBuffer(Buffer), NEW S, SetBuffer(Forget(Buffer, S))
    PROVE  /\ IsBuffer(Buffer)'
           /\ ToSet(idmap') = {e \in ToSet(idmap) : e.obj \notin S}
           /\ \A o \in Objs : /\ snap'[o] = IF o \in S THEN NoSnap ELSE snap[o]
                              /\ st'[o] = IF o \in S THEN "DETACHED" ELSE st[o]
<1>1. PICK b : b = Buffer
  OBVIOUS
<1>2. b.snap = snap /\ b.idmap = idmap /\ b.st = st /\ IsBuffer(b)
  BY <1>1, BufferIs
<1>3. PICK t : t = Forget(b, S)
  OBVIOUS
<1>4. /\ IsBuffer(t)
      /\ ToSet(t.idmap) = {e \in ToSet(b.idmap) : e.obj \notin S}
      /\ \A o \in Objs : t.snap[o] = IF o \in S THEN NoSnap ELSE b.snap[o]
      /\ \A o \in Objs : t.st[o] = IF o \in S THEN "DETACHED" ELSE b.st[o]
  BY <1>2, <1>3, ForgetFacts
<1>5. SetBuffer(t)
  BY <1>1, <1>3
<1>6. IsBuffer(Buffer)' /\ snap' = t.snap /\ idmap' = t.idmap /\ st' = t.st
  BY <1>4, <1>5, BufferSet
<1>7. QED
  BY <1>2, <1>4, <1>6

(* One that is removed is told apart from those. *)
LEMMA CallRemoves ==
    ASSUME IsBuffer(Buffer), NEW o \in Objs, RemoveStored(o)
    PROVE  /\ IsBuffer(Buffer)'
           /\ ToSet(idmap') = {e \in ToSet(idmap) : e.obj # o}
           /\ \A x \in Objs : /\ snap'[x] = IF x = o THEN NoSnap ELSE snap[x]
                              /\ st'[x] = IF x = o THEN "REMOVED" ELSE st[x]
<1>1. PICK b : b = Buffer
  OBVIOUS
<1>2. b.snap = snap /\ b.idmap = idmap /\ b.st = st /\ IsBuffer(b)
  BY <1>1, BufferIs
<1>3. PICK S : S = {o}
  OBVIOUS
<1>4. PICK t : t = Forget(b, S)
  OBVIOUS
<1>5. /\ IsBuffer(t)
      /\ ToSet(t.idmap) = {e \in ToSet(b.idmap) : e.obj \notin S}
      /\ \A x \in Objs : t.snap[x] = IF x \in S THEN NoSnap ELSE b.snap[x]
      /\ \A x \in Objs : t.st[x] = IF x \in S THEN "DETACHED" ELSE b.st[x]
  BY <1>2, <1>4, ForgetFacts
<1>6. PICK sn, im, ss : sn = t.snap /\ im = t.idmap /\ ss = t.st
  OBVIOUS
<1>7. /\ t = [snap |-> sn, idmap |-> im, st |-> ss]
      /\ sn \in [Objs -> Snaps \cup {NoSnap}]
      /\ im \in Seq(Entries)
      /\ ss \in [Objs -> States]
      /\ \A x \in Objs : sn[x] # NoSnap <=> \E e \in ToSet(im) : e.obj = x
  BY <1>5, <1>6 DEF IsBuffer
<1>8. PICK z : z = [ss EXCEPT ![o] = "REMOVED"]
  OBVIOUS
<1>9. z \in [Objs -> States] /\ z[o] = "REMOVED" /\ \A x \in Objs : x # o => z[x] = ss[x]
  BY <1>7, <1>8 DEF States
<1>10. PICK m : m = [snap |-> sn, idmap |-> im, st |-> z]
  OBVIOUS
<1>11. IsBuffer(m) /\ m.snap = sn /\ m.idmap = im /\ m.st = z
  BY <1>7, <1>9, <1>10, BufferOf
<1>12. SetBuffer(m)
  <2>1. SetBuffer([t EXCEPT !.st[o] = "REMOVED"])
    BY <1>1, <1>3, <1>4 DEF RemoveStored
  <2>2. [t EXCEPT !.st[o] = "REMOVED"] = m
    BY <1>7, <1>8, <1>10
  <2>3. QED
    BY <2>1, <2>2
<1>13. IsBuffer(Buffer)' /\ snap' = sn /\ idmap' = im /\ st' = z
  BY <1>11, <1>12, BufferSet
<1>14. QED
  BY <1>2, <1>3, <1>5, <1>6, <1>9, <1>13

(* A kid that is written gets a new baseline, *)
LEMMA KidBuffer ==
    ASSUME BufferInv, IsBuffer(Buffer), NEW j, RunCascade(j) \/ RunAdded(j)
    PROVE  /\ IsBuffer(Buffer)' /\ idmap' = idmap /\ st' = st
           /\ \A o \in Objs :
                 \/ snap'[o] = snap[o]
                 \/ /\ o = j.of /\ Tracked(o) /\ snap'[o] # NoSnap
                    /\ snap'[o].val = obj[o].val
                    /\ flush'.altered # {}
<1>1. /\ JobStep /\ obj \in Objects /\ IsFlush(flush)
      /\ Running(j) /\ j.op \in {"cascade", "added"}
  BY RunKid DEF BufferInv, BufferTypes, RunCascade, RunAdded
<1>2. obj' \in Objects /\ idmap' = idmap /\ st' = st
  BY <1>1 DEF JobStep, RunCascade, RunAdded
<1>3. /\ snap \in [Objs -> Snaps \cup {NoSnap}]
      /\ idmap \in Seq(Entries)
      /\ st \in [Objs -> States]
      /\ \A o \in Objs : snap[o] # NoSnap <=> \E e \in ToSet(idmap) : e.obj = o
  BY BufferIs
<1>4. j.of \in Objs
  <2>1. {} \in SUBSET JobsOn(DOMAIN flush.pre)
    OBVIOUS
  <2>2. j \in JobsOn(DOMAIN flush.pre)
    BY <1>1, <2>1, JobFlush
  <2>3. QED
    BY <1>1, <2>2, JobIs DEF Objs
<1>5. PICK c \in Objs : c = j.of
  BY <1>4
<1>6. \/ snap' = snap
      \/ /\ Tracked(c)
         /\ snap' = [snap EXCEPT ![c].val = obj[c].val, ![c].fk = obj'[c].fk]
         /\ \E seen : flush' = [[flush EXCEPT !.todo = Rest(j, {}), !.visited = seen]
                                  EXCEPT !.altered = @ \cup {c}]
  BY <1>5 DEF RunCascade, RunAdded, SaveKid
<1>7. CASE snap' = snap
  <2>1. IsBuffer(Buffer)'
    BY <1>2, <1>7 DEF Buffer
  <2>2. QED
    BY <1>2, <1>7, <2>1
<1>8. CASE /\ Tracked(c)
           /\ snap' = [snap EXCEPT ![c].val = obj[c].val, ![c].fk = obj'[c].fk]
           /\ \E seen : flush' = [[flush EXCEPT !.todo = Rest(j, {}), !.visited = seen]
                                    EXCEPT !.altered = @ \cup {c}]
  <2>1. PICK v, f : v = obj[c].val /\ f = obj'[c].fk
    OBVIOUS
  <2>2. v \in Vals /\ f \in 0 .. MaxKey
    BY <1>1, <1>2, <2>1, ObjectFields
  <2>3. PICK x \in Snaps : x = snap[c]
    BY <1>3, <1>8 DEF Tracked
  <2>4. PICK y : y = [x EXCEPT !.val = v, !.fk = f]
    OBVIOUS
  <2>5. y \in Snaps /\ y.val = v /\ y # NoSnap
    BY <2>2, <2>4, SnapEdited
  <2>6. snap' = [snap EXCEPT ![c] = y]
    BY <1>3, <1>8, <2>1, <2>3, <2>4
  <2>7. /\ snap' \in [Objs -> Snaps \cup {NoSnap}] /\ snap'[c] = y
        /\ \A o \in Objs : o # c => snap'[o] = snap[o]
    BY <1>3, <2>5, <2>6
  <2>8. IsBuffer(Buffer)'
    <3>1. \A o \in Objs : snap'[o] # NoSnap <=> \E e \in ToSet(idmap') : e.obj = o
      BY <1>2, <1>3, <1>8, <2>5, <2>7 DEF Tracked
    <3>2. PICK sn, im, ss : sn = snap' /\ im = idmap' /\ ss = st'
      OBVIOUS
    <3>3. IsBuffer([snap |-> sn, idmap |-> im, st |-> ss])
      BY <1>2, <1>3, <2>7, <3>1, <3>2, BufferOf
    <3>4. QED
      BY <3>2, <3>3 DEF Buffer
  <2>9. flush'.altered # {}
    <3>1. PICK seen : flush' = [[flush EXCEPT !.todo = Rest(j, {}), !.visited = seen]
                                  EXCEPT !.altered = @ \cup {c}]
      BY <1>8
    <3>2. PICK r : r = Rest(j, {})
      OBVIOUS
    <3>3. flush' = [[flush EXCEPT !.todo = r, !.visited = seen] EXCEPT !.altered = @ \cup {c}]
      BY <3>1, <3>2
    <3>4. c \in flush'.altered
      BY <1>1, <3>3 DEF IsFlush
    <3>5. QED
      BY <3>4
  <2>10. QED
    BY <1>2, <1>5, <1>8, <2>1, <2>5, <2>7, <2>8, <2>9
<1>9. QED
  BY <1>6, <1>7, <1>8

(* and so does what an updateMany() meets. *)
LEMMA BulkBuffer ==
    ASSUME BufferInv, IsBuffer(Buffer), NEW j, RunBulkUpdate(j)
    PROVE  /\ IsBuffer(Buffer)' /\ idmap' = idmap /\ st' = st
           /\ \A o \in Objs :
                 \/ snap'[o] = snap[o] /\ o \notin BulkTracked(j.what)
                 \/ /\ o \in BulkTracked(j.what) /\ Tracked(o) /\ snap'[o] # NoSnap
                    /\ flush'.altered # {}
<1>1. /\ JobStep /\ obj \in Objects /\ IsFlush(flush) /\ j.what \in Bulks
      /\ idmap' = idmap /\ st' = st
  <2>1. {} \in SUBSET JobsOn(DOMAIN flush.pre)
    OBVIOUS
  <2>2. j \in JobsOn(DOMAIN flush.pre) /\ j.op = "bulk"
    BY <2>1, JobFlush DEF RunBulkUpdate
  <2>3. j.what \in Bulks
    BY <2>2, JobIs
  <2>4. QED
    BY <2>3, RunValues DEF BufferInv, BufferTypes, RunBulkUpdate
<1>2. /\ snap \in [Objs -> Snaps \cup {NoSnap}]
      /\ idmap \in Seq(Entries)
      /\ st \in [Objs -> States]
      /\ \A o \in Objs : snap[o] # NoSnap <=> \E e \in ToSet(idmap) : e.obj = o
  BY BufferIs
<1>3. PICK T, v : T = BulkTracked(j.what) /\ v = j.what.to
  OBVIOUS
<1>4. /\ \A o \in T : Tracked(o)
      /\ v \in Vals
  BY <1>1, <1>3, WriteBufferAssumption DEF BulkTracked
<1>5. PICK r : r = Rest(j, {})
  OBVIOUS
<1>6. /\ snap' = [o \in Objs |-> IF o \in T THEN [snap[o] EXCEPT !.val = v, !.fk = obj[o].fk] ELSE snap[o]]
      /\ flush' = [flush EXCEPT !.todo = r, !.altered = @ \cup T]
  BY <1>3, <1>5 DEF RunBulkUpdate
<1>7. ASSUME NEW o \in Objs
      PROVE  /\ o \in T => snap'[o] \in Snaps /\ snap'[o] # NoSnap
             /\ o \notin T => snap'[o] = snap[o]
  <2>1. CASE o \in T
    <3>1. PICK x \in Snaps : x = snap[o]
      BY <1>2, <1>4, <2>1 DEF Tracked
    <3>2. PICK f : f = obj[o].fk
      OBVIOUS
    <3>3. f \in 0 .. MaxKey
      BY <1>1, <3>2, ObjectFields
    <3>4. PICK y : y = [x EXCEPT !.val = v, !.fk = f]
      OBVIOUS
    <3>5. snap'[o] = y
      BY <1>6, <2>1, <3>1, <3>2, <3>4
    <3>6. y \in Snaps /\ y # NoSnap
      BY <1>4, <3>3, <3>4, SnapEdited
    <3>7. QED
      BY <2>1, <3>5, <3>6
  <2>2. CASE o \notin T
    BY <1>6, <2>2
  <2>3. QED
    BY <2>1, <2>2
<1>8. snap' \in [Objs -> Snaps \cup {NoSnap}]
  <2>1. \A o \in Objs : snap'[o] \in Snaps \cup {NoSnap}
    BY <1>2, <1>7
  <2>2. snap' = [o \in Objs |-> snap'[o]]
    BY <1>6
  <2>3. QED
    BY <2>1, <2>2
<1>9. IsBuffer(Buffer)'
  <2>1. \A o \in Objs : snap'[o] # NoSnap <=> \E e \in ToSet(idmap') : e.obj = o
    BY <1>1, <1>2, <1>4, <1>7 DEF Tracked
  <2>2. PICK sn, im, ss : sn = snap' /\ im = idmap' /\ ss = st'
    OBVIOUS
  <2>3. IsBuffer([snap |-> sn, idmap |-> im, st |-> ss])
    BY <1>1, <1>2, <1>8, <2>1, <2>2, BufferOf
  <2>4. QED
    BY <2>2, <2>3 DEF Buffer
<1>10. \A o \in T : flush'.altered # {}
  <2>1. \A o \in T : o \in flush'.altered
    BY <1>1, <1>6 DEF IsFlush
  <2>2. QED
    BY <2>1
<1>11. QED
  BY <1>1, <1>3, <1>4, <1>7, <1>9, <1>10

(* Tracked objects have their baselines anew, and what was inserted has one. *)
LEMMA DoneBuffer ==
    ASSUME BufferInv, IsBuffer(Buffer), FlushDone
    PROVE  /\ IsBuffer(Buffer)'
           /\ \A e \in ToSet(idmap') : \/ e \in ToSet(idmap)
                                       \/ e.obj \in queue.persists /\ e.key = obj[e.obj].key
           /\ \A o \in Objs : snap'[o] # NoSnap => snap'[o].val = obj[o].val
           /\ \A o \in Objs : st'[o] = "NEW" => st[o] = "NEW" /\ o \notin queue.persists
<1>1. obj \in Objects /\ queue.persists \in SUBSET Objs
  BY DEF BufferInv, BufferTypes
<1>2. /\ snap \in [Objs -> Snaps \cup {NoSnap}]
      /\ idmap \in Seq(Entries)
      /\ st \in [Objs -> States]
      /\ \A o \in Objs : snap[o] # NoSnap <=> \E e \in ToSet(idmap) : e.obj = o
  BY BufferIs
<1>3. PICK sn : sn = [o \in Objs |-> IF Tracked(o) THEN Baseline(obj[o]) ELSE NoSnap]
  OBVIOUS
<1>4. PICK im, ss : im = idmap /\ ss = st
  OBVIOUS
<1>5. PICK b : b = [snap |-> sn, idmap |-> im, st |-> ss]
  OBVIOUS
<1>6. b = Rebaselined /\ b.snap = sn /\ b.idmap = im /\ b.st = ss
  BY <1>3, <1>4, <1>5 DEF Rebaselined
<1>7. \A o \in Objs : /\ Baseline(obj[o]) \in Snaps /\ Baseline(obj[o]).val = obj[o].val
                      /\ Baseline(obj[o]) # NoSnap
  <2>1. ASSUME NEW o \in Objs
        PROVE  /\ Baseline(obj[o]) \in Snaps /\ Baseline(obj[o]).val = obj[o].val
               /\ Baseline(obj[o]) # NoSnap
    <3>1. /\ obj[o].val \in Vals /\ obj[o].fk \in 0 .. MaxKey
          /\ obj[o].kids \in (SUBSET Kids) \cup {NotLoaded}
      BY <1>1, ObjectFields
    <3>2. QED
      BY <3>1, NoSnapIsNone DEF Baseline, Snaps
  <2>2. QED
    BY <2>1
<1>8. \A o \in Objs : /\ sn[o] # NoSnap <=> snap[o] # NoSnap
                      /\ sn[o] # NoSnap => sn[o].val = obj[o].val
                      /\ sn[o] \in Snaps \cup {NoSnap}
  BY <1>3, <1>7 DEF Tracked
<1>9. IsBuffer(b)
  <2>1. sn \in [Objs -> Snaps \cup {NoSnap}]
    BY <1>3, <1>8
  <2>2. \A o \in Objs : sn[o] # NoSnap <=> \E e \in ToSet(im) : e.obj = o
    BY <1>2, <1>4, <1>8
  <2>3. QED
    BY <1>2, <1>4, <1>5, <2>1, <2>2, BufferOf
<1>10. PICK S : S = queue.persists
  OBVIOUS
<1>11. PICK s : s = SetToSeq(S)
  OBVIOUS
<1>12. S \in SUBSET Objs /\ s \in Seq(S) /\ ToSet(s) = S
  <2>1. IsFiniteSet(S)
    BY <1>1, <1>10, FS_Subset, WriteBufferAssumption
  <2>2. QED
    BY <1>1, <1>10, <1>11, <2>1, SetToSeqFacts
<1>13. PICK v : v = [x \in Objs |-> obj[x].val]
  OBVIOUS
<1>14. PICK t : t = TrackAll(b, s)
  OBVIOUS
<1>15. Grown(b, t, obj, S, v) /\ (\A o \in S : t.st[o] # "NEW") /\ IsBuffer(t)
  BY <1>1, <1>9, <1>12, <1>13, <1>14, TrackAllFacts DEF Grown
<1>16. SetBuffer(t)
  BY <1>6, <1>10, <1>11, <1>14 DEF FlushDone
<1>17. IsBuffer(Buffer)' /\ snap' = t.snap /\ idmap' = t.idmap /\ st' = t.st
  BY <1>15, <1>16, BufferSet
<1>18. \A e \in ToSet(t.idmap) : e \in ToSet(idmap) \/ (e.obj \in S /\ e.key = obj[e.obj].key)
  BY <1>4, <1>6, <1>15 DEF Grown
<1>19. \A o \in Objs : t.snap[o] # NoSnap => t.snap[o].val = obj[o].val
  BY <1>6, <1>8, <1>13, <1>15 DEF Grown
<1>20. \A o \in Objs : t.st[o] = "NEW" => st[o] = "NEW" /\ o \notin S
  BY <1>4, <1>6, <1>15 DEF Grown
<1>21. QED
  BY <1>10, <1>17, <1>18, <1>19, <1>20

(* An object that is found is the latest used. *)
LEMMA KnownBuffer ==
    ASSUME IsBuffer(Buffer), NEW o, LoadKnown(o)
    PROVE  IsBuffer(Buffer)' /\ snap' = snap /\ st' = st /\ ToSet(idmap') = ToSet(idmap)
<1>1. /\ snap \in [Objs -> Snaps \cup {NoSnap}]
      /\ idmap \in Seq(Entries)
      /\ st \in [Objs -> States]
      /\ \A x \in Objs : snap[x] # NoSnap <=> \E e \in ToSet(idmap) : e.obj = x
  BY BufferIs
<1>2. PICK i \in DOMAIN idmap : idmap' = Append(RemoveAt(idmap, i), idmap[i])
  BY DEF LoadKnown
<1>3. i \in 1..Len(idmap)
  BY <1>1, LenProperties
<1>4. idmap' \in Seq(Entries) /\ ToSet(idmap') = ToSet(idmap)
  BY <1>1, <1>2, <1>3, MovedToEnd
<1>5. snap' = snap /\ st' = st
  BY DEF LoadKnown
<1>6. PICK sn, im, ss : sn = snap' /\ im = idmap' /\ ss = st'
  OBVIOUS
<1>7. IsBuffer([snap |-> sn, idmap |-> im, st |-> ss])
  BY <1>1, <1>4, <1>5, <1>6, BufferOf
<1>8. QED
  BY <1>4, <1>5, <1>6, <1>7 DEF Buffer

(* The caches after the caller's transaction is rolled back. *)
LEMMA EndBuffer ==
    ASSUME BufferInv, IsBuffer(Buffer), OuterRollback
    PROVE  /\ IsBuffer(Buffer)'
           /\ \/ onEnd = <<>> /\ snap' = snap /\ idmap' = idmap /\ st' = st
              \/ /\ ToSet(idmap') = {} /\ \A o \in Objs : snap'[o] = NoSnap
                 /\ \A o \in Objs : st'[o] = IF \E i \in DOMAIN onEnd : o \in onEnd[i].persists
                                             THEN "DETACHED" ELSE st[o]
<1>1. /\ snap \in [Objs -> Snaps \cup {NoSnap}]
      /\ idmap \in Seq(Entries)
      /\ st \in [Objs -> States]
  BY BufferIs
<1>2. CASE onEnd = <<>>
  <2>1. snap' = snap /\ idmap' = idmap /\ st' = st
    BY <1>2 DEF OuterRollback, bufVars
  <2>2. QED
    BY <1>2, <2>1 DEF Buffer
<1>3. CASE onEnd # <<>>
  <2>1. PICK sn, im, ss :
          /\ sn = [o \in Objs |-> NoSnap] /\ im = <<>>
          /\ ss = [o \in Objs |->
                     IF \E i \in DOMAIN onEnd : o \in onEnd[i].persists THEN "DETACHED" ELSE st[o]]
    OBVIOUS
  <2>2. snap' = sn /\ idmap' = im /\ st' = ss
    BY <1>3, <2>1 DEF OuterRollback
  <2>3. im \in Seq(Entries) /\ ToSet(im) = {}
    BY <2>1, EmptySeq DEF ToSet
  <2>4. sn \in [Objs -> Snaps \cup {NoSnap}] /\ \A o \in Objs : sn[o] = NoSnap
    BY <2>1
  <2>5. ss \in [Objs -> States]
    BY <1>1, <2>1 DEF States
  <2>6. \A o \in Objs : sn[o] # NoSnap <=> \E e \in ToSet(im) : e.obj = o
    BY <2>3, <2>4
  <2>7. IsBuffer([snap |-> sn, idmap |-> im, st |-> ss])
    BY <2>3, <2>4, <2>5, <2>6, BufferOf
  <2>8. IsBuffer(Buffer)'
    BY <2>2, <2>7 DEF Buffer
  <2>9. QED
    BY <2>1, <2>2, <2>3, <2>4, <2>8
<1>4. QED
  BY <1>2, <1>3

(* One step for each disjunct of Next. *)
LEMMA BufferStays == ASSUME BufferInv, IsBuffer(Buffer), [Next]_vars PROVE IsBuffer(Buffer)'
<1>1. ASSUME UNCHANGED bufVars PROVE IsBuffer(Buffer)'
  BY <1>1 DEF bufVars, Buffer
<1>2. /\ snap \in [Objs -> Snaps \cup {NoSnap}]
      /\ idmap \in Seq(Entries)
      /\ st \in [Objs -> States]
      /\ \A o \in Objs : snap[o] # NoSnap <=> \E e \in ToSet(idmap) : e.obj = o
  BY BufferIs
<1>3. CASE \/ \E o \in Objs, v \in Vals : Edit(o, v)
           \/ \E c \in Kids, p \in Parents : AddKid(c, p) \/ DropKid(c, p)
           \/ \E o \in Objs : DeleteByKey(o) \/ PersistTracked(o)
           \/ \E b \in Bulks : QueueBulk(b)
           \/ OuterBegin \/ OuterCommit \/ FlushBegin \/ FlushFails
           \/ UNCHANGED vars
  <2>1. UNCHANGED bufVars
    BY <1>3 DEF Edit, AddKid, DropKid, DeleteByKey, PersistTracked, QueueBulk, OuterBegin,
                OuterCommit, FlushBegin, FlushFails, vars, bufVars
  <2>2. QED
    BY <1>1, <2>1
<1>4. ASSUME NEW o \in Objs, PersistNew(o) PROVE IsBuffer(Buffer)'
  <2>1. snap' = snap /\ idmap' = idmap /\ st' = [st EXCEPT ![o] = "NEW"]
    BY <1>4 DEF PersistNew
  <2>2. st' \in [Objs -> States]
    BY <1>2, <2>1 DEF States
  <2>3. PICK sn, im, ss : sn = snap' /\ im = idmap' /\ ss = st'
    OBVIOUS
  <2>4. IsBuffer([snap |-> sn, idmap |-> im, st |-> ss])
    BY <1>2, <2>1, <2>2, <2>3, BufferOf
  <2>5. QED
    BY <2>3, <2>4 DEF Buffer
<1>5. ASSUME NEW o \in Objs, PersistKnown(o) \/ MergeObject(o) \/ LoadRow(o)
      PROVE  IsBuffer(Buffer)'
  BY <1>5, CallBuffers DEF Grown
<1>6. ASSUME NEW o \in Objs, RemoveQueued(o) \/ Detach(o) PROVE IsBuffer(Buffer)'
  <2>1. \E S : SetBuffer(Forget(Buffer, S))
    BY <1>6 DEF RemoveQueued, Detach
  <2>2. QED
    BY <2>1, CallForgets
<1>7. ASSUME NEW o \in Objs, RemoveStored(o) PROVE IsBuffer(Buffer)'
  BY <1>7, CallRemoves
<1>8. ASSUME NEW o \in Objs, LoadKnown(o) PROVE IsBuffer(Buffer)'
  BY <1>8, KnownBuffer
<1>9. CASE OuterRollback
  BY <1>9, EndBuffer
<1>10. CASE RunJob
  <2>1. PICK j : \/ RunUpdate(j) \/ RunInsert(j) \/ RunCascade(j) \/ RunAdded(j) \/ RunOrphan(j)
                 \/ RunExpand(j) \/ RunDelete(j) \/ RunBulkUpdate(j) \/ RunBulkDelete(j)
    BY <1>10 DEF RunJob
  <2>2. CASE RunUpdate(j) \/ RunInsert(j) \/ RunOrphan(j) \/ RunExpand(j)
    <3>1. UNCHANGED bufVars
      BY <2>2 DEF RunUpdate, RunInsert, RunOrphan, RunExpand
    <3>2. QED
      BY <1>1, <3>1
  <2>3. CASE RunDelete(j) \/ RunBulkDelete(j)
    <3>1. \E S : SetBuffer(Forget(Buffer, S))
      BY <2>3 DEF RunDelete, RunBulkDelete
    <3>2. QED
      BY <3>1, CallForgets
  <2>4. QED
    BY <2>1, <2>2, <2>3, KidBuffer, BulkBuffer
<1>11. CASE FlushDone
  BY <1>11, DoneBuffer
<1>12. QED
  BY <1>3, <1>4, <1>5, <1>6, <1>7, <1>8, <1>9, <1>10, <1>11 DEF Next

(* At first the map has what is stored. *)
LEMMA BuffersAtFirst ==
    ASSUME Init
    PROVE  /\ IsBuffer(Buffer)
           /\ \A e \in ToSet(idmap) : \E o \in Stored : o \in Objs /\ e.obj = o /\ e.key = obj[o].key
<1>1. obj \in Objects
  BY BufferInit DEF BufferInv, BufferTypes
<1>2. /\ snap = [o \in Objs |-> IF o \in Stored THEN Baseline(obj[o]) ELSE NoSnap]
      /\ idmap = SetToSeq({Entry(o) : o \in Stored})
      /\ st = [o \in Objs |-> IF o \in Stored THEN "MANAGED" ELSE "DETACHED"]
  BY DEF Init
<1>3. Stored \subseteq Objs /\ IsFiniteSet(Stored)
  BY FS_Subset, WriteBufferAssumption
<1>4. \A o \in Objs : Baseline(obj[o]) \in Snaps /\ Entry(o) \in Entries /\ Entry(o).obj = o
                      /\ Entry(o).key = obj[o].key
  <2>1. ASSUME NEW o \in Objs
        PROVE  /\ Baseline(obj[o]) \in Snaps /\ Entry(o) \in Entries /\ Entry(o).obj = o
               /\ Entry(o).key = obj[o].key
    <3>1. /\ obj[o].key \in 0 .. MaxKey /\ obj[o].val \in Vals /\ obj[o].fk \in 0 .. MaxKey
          /\ obj[o].kids \in (SUBSET Kids) \cup {NotLoaded}
      BY <1>1, ObjectFields
    <3>2. QED
      BY <3>1 DEF Baseline, Snaps, Entry, Entries
  <2>2. QED
    BY <2>1
<1>5. PICK M : M = {Entry(o) : o \in Stored}
  OBVIOUS
<1>6. idmap \in Seq(M) /\ ToSet(idmap) = M
  <2>1. IsFiniteSet(M)
    <3>1. PICK f : f = [o \in Stored |-> Entry(o)]
      OBVIOUS
    <3>2. M = {f[o] : o \in Stored}
      BY <1>5, <3>1
    <3>3. f \in Surjection(Stored, M)
      BY <1>5, <3>1 DEF Surjection
    <3>4. QED
      BY <1>3, <3>3, FS_Surjection
  <2>2. QED
    BY <1>2, <1>5, <2>1, SetToSeqFacts
<1>7. M \subseteq Entries
  BY <1>3, <1>4, <1>5
<1>8. idmap \in Seq(Entries)
  BY <1>6, <1>7
<1>9. snap \in [Objs -> Snaps \cup {NoSnap}] /\ st \in [Objs -> States]
  BY <1>2, <1>4 DEF States
<1>10. \A o \in Objs : snap[o] # NoSnap <=> \E e \in ToSet(idmap) : e.obj = o
  <2>1. \A o \in Objs : snap[o] # NoSnap <=> o \in Stored
    BY <1>2, <1>4, NoSnapIsNone
  <2>2. \A o \in Objs : o \in Stored <=> \E e \in M : e.obj = o
    BY <1>3, <1>4, <1>5
  <2>3. QED
    BY <1>6, <2>1, <2>2
<1>11. \A e \in ToSet(idmap) : \E o \in Stored : o \in Objs /\ e.obj = o /\ e.key = obj[o].key
  BY <1>3, <1>4, <1>5, <1>6
<1>12. QED
  BY <1>8, <1>9, <1>10, <1>11, BufferIs

(* Objects that are put out of the identity map to make room have no edit  *)
(* that is not stored, however many calls, flushes and failures preceded   *)
(* (evictIfNeeded, track, merge).                                          *)
THEOREM NoEditEvicted == Spec => EvictionKeepsEdits
<1> DEFINE Both == BufferInv /\ IsBuffer(Buffer)
           Keeps == (\E o \in Objs : LoadRow(o) \/ MergeObject(o) \/ PersistKnown(o))
                       => \A o \in Objs : Edited(o) => snap'[o] # NoSnap
<1>1. Init => Both
  BY BufferInit, BuffersAtFirst
<1>2. Both /\ [Next]_vars => Both'
  BY BufferNext, BufferStays
<1>3. Both /\ [Next]_vars => [Keeps]_vars
  <2> SUFFICES ASSUME Both, NEW o \in Objs, LoadRow(o) \/ MergeObject(o) \/ PersistKnown(o),
                      NEW x \in Objs, Edited(x)
               PROVE  snap'[x] # NoSnap
    BY DEF Keeps
  <2>1. PICK b, t : b = Buffer /\ t = Buffer'
    OBVIOUS
  <2>2. b.snap = snap /\ t.snap = snap'
    BY <2>1 DEF Buffer
  <2>3. /\ snap[x] # NoSnap
        /\ obj[x].val # snap[x].val \/ obj[x].fk # snap[x].fk
    BY DEF Edited, Tracked
  <2>4. CASE MergeObject(o) \/ PersistKnown(o)
    <3>1. PICK S, v : Grown(b, t, obj, S, v)
      BY <2>1, <2>4, CallBuffers
    <3>2. QED
      BY <2>2, <2>3, <3>1 DEF Grown
  <2>5. CASE LoadRow(o)
    <3>1. PICK os : os = obj'
      OBVIOUS
    <3>2. PICK v : Grown(b, t, os, {o}, v)
      BY <2>1, <2>5, <3>1, CallBuffers
    <3>3. x # o
      BY <2>3, <2>5 DEF LoadRow, Held, Tracked
    <3>4. os[x] = obj[x]
      <4>1. obj \in [Objs -> ObjState]
        BY DEF BufferInv, BufferTypes, Objects
      <4>2. QED
        BY <2>5, <3>1, <3>3, <4>1 DEF LoadRow
    <3>5. QED
      BY <2>2, <2>3, <3>2, <3>4 DEF Grown
  <2>6. QED
    BY <2>4, <2>5
<1>4. QED
  BY <1>1, <1>2, <1>3, PTL DEF Spec, EvictionKeepsEdits, Keeps

-----------------------------------------------------------------------------
(* What the map would serve *)

(* Each entry of the map is for an object with the row of that key in w,   *)
(* which is not deleted, and has a baseline that is what the row holds, or *)
(* nothing equals.                                                         *)
Honest(im, sn, os, w) ==
    \A e \in ToSet(im) :
        /\ os[e.obj].key = e.key /\ e.key \in DOMAIN w
        /\ w[e.key].state # "deleted"
        /\ w[e.key].state = "live" => sn[e.obj].val \in {Sentinel, w[e.key].val}

(* What is queued: new objects, which a callback takes no key from; keys   *)
(* that were generated; nothing that is in the way of another call.        *)
QueuedNew(o) == snap[o] = NoSnap /\ Then[o].key = 0 /\ RunEnds(Then, onEnd)[o].key = 0

DeleteFits(d) ==
    /\ d.key \in 1 .. nextKey - 1
    /\ d.by = "key" /\ d.key \in DOMAIN work => (d.kid <=> work[d.key].by \in Kids)
    /\ d.by = "home" => d.kid

QueueInv ==
    /\ queue.persists = {o \in Objs : st[o] = "NEW"}
    /\ \A o \in queue.persists : QueuedNew(o)
    /\ \A d \in queue.deletes : DeleteFits(d)
    /\ \A p \in Parents : Tracked(p) => KidsOf(p) \cap queue.persists = {}
    /\ \A b \in queue.bulks : b.of \cap queue.persists = {}
    /\ \A i \in DOMAIN onEnd : \A o \in onEnd[i].persists : Then[o].key # 0

(* What a failure would leave in the map, and the end of a transaction that *)
(* only can be rolled back.                                                *)
MapInv ==
    (flush.pc = "run" => flush.altered = {}) =>
        IF outer = "broken" THEN onEnd = <<>> => Honest(idmap, snap, Then, rows)
        ELSE Honest(idmap, snap, Then, ThenRows)

Pend(j) == \E i \in DOMAIN flush.todo : j \in flush.todo[i]

JobFits(j) ==
    /\ j.op = "insert" => j.of \in queue.persists
    /\ j.op \in {"cascade", "added"} /\ j.of \in queue.persists => j.under \in queue.persists
    /\ j.op = "delete" => j.what \in queue.deletes \cup CascadeDeletes(queue.deletes)
    /\ j.op = "bulk" => j.what \in queue.bulks

(* The order of jobs: what is written, deleted and what bulk statements do. *)
Rank(j) ==
    CASE j.op = "expand" -> 1
      [] j.op = "delete" -> IF j.what.kid THEN 2 ELSE 3
      [] j.op = "bulk" -> 4
      [] OTHER -> 0

InOrder(todo) ==
    \A i, k \in DOMAIN todo : i <= k => \A x \in todo[i], y \in todo[k] : Rank(x) <= Rank(y)

(* What is tracked holds what its row does, or is still to be written. *)
EntryFits(e) ==
    /\ obj[e.obj].key = e.key /\ e.key \in DOMAIN work
    /\ work[e.key].state # "deleted"
    /\ work[e.key].state = "live" =>
          \/ obj[e.obj].val = work[e.key].val
          \/ /\ snap[e.obj].val \in {Sentinel, work[e.key].val}
             /\ e.obj \notin flush.visited
             /\ Pend([op |-> "update", of |-> e.obj])

(* What is queued has its row, or is still to be inserted; no delete meets *)
(* it.                                                                     *)
QueuedFits(o) ==
    /\ \A d \in queue.deletes : d.key # obj[o].key /\ d.key # obj[o].fk
    /\ IF obj[o].key = 0 THEN Pend([op |-> "insert", of |-> o])
       ELSE /\ work[obj[o].key].state # "deleted"
            /\ work[obj[o].key].state = "live" => work[obj[o].key].val = obj[o].val

RunCache ==
    flush.pc = "run" =>
        /\ \A i \in DOMAIN flush.todo : \A j \in flush.todo[i] : JobFits(j)
        /\ InOrder(flush.todo)
        /\ \A e \in ToSet(idmap) : EntryFits(e)
        /\ \A o \in queue.persists : QueuedFits(o)

CacheInv == BufferInv /\ IsBuffer(Buffer) /\ QueueInv /\ MapInv /\ RunCache

(* The caller keeps calls out of each other's way, and flush() does not    *)
(* fail after it re-baselined or evicted an object.                        *)
Careful == ~Mixed /\ ~LateFaults

-----------------------------------------------------------------------------
(* What is left to do, and in which order *)

PendIn(todo, x) == \E i \in DOMAIN todo : x \in todo[i]

(* The order is of five ranks. *)
LEMMA RankIs == ASSUME NEW j PROVE Rank(j) \in 0 .. 4 /\ Rank(j) \in Nat
<1>1. CASE j.op = "expand"
  BY <1>1 DEF Rank
<1>2. CASE j.op = "delete"
  BY <1>2 DEF Rank
<1>3. CASE j.op = "bulk"
  BY <1>3 DEF Rank
<1>4. CASE j.op \notin {"expand", "delete", "bulk"}
  <2>1. Rank(j) = 0
    BY <1>4 DEF Rank
  <2>2. QED
    BY <2>1
<1>5. QED
  BY <1>1, <1>2, <1>3, <1>4

(* Jobs that may be done before others. *)
Leads(T, r) ==
    /\ \A x \in T, y \in T : Rank(x) <= Rank(y)
    /\ \A x \in T : \A y : PendIn(r, y) => Rank(x) <= Rank(y)

(* Jobs put before others. *)
LEMMA JobsBefore ==
    ASSUME NEW J, NEW r \in Seq(SUBSET J), NEW T \in SUBSET J, NEW q, q = <<T>> \o r
    PROVE  /\ q \in Seq(SUBSET J)
           /\ \A x : PendIn(q, x) <=> x \in T \/ PendIn(r, x)
           /\ InOrder(q) => InOrder(r) /\ Leads(T, r)
           /\ InOrder(r) /\ Leads(T, r) => InOrder(q)
<1>1. PICK l \in Nat : l = Len(r)
  BY LenProperties
<1>2. /\ <<T>> \in Seq(SUBSET J) /\ Len(<<T>>) = 1 /\ <<T>>[1] = T
  OBVIOUS
<1>3. /\ q \in Seq(SUBSET J) /\ Len(q) = 1 + l
      /\ \A i \in 1..1 + l : q[i] = IF i <= 1 THEN <<T>>[i] ELSE r[i - 1]
  BY <1>1, <1>2, ConcatProperties
<1>4. DOMAIN q = 1..1 + l /\ DOMAIN r = 1..l
  BY <1>1, <1>3, LenProperties
<1>5. q[1] = T /\ 1 \in DOMAIN q
  BY <1>2, <1>3, <1>4
<1>6. \A i \in DOMAIN r : i + 1 \in DOMAIN q /\ q[i + 1] = r[i] /\ 1 <= i + 1 /\ ~(i + 1 <= 1) /\ i \in Nat
  <2>1. ASSUME NEW i \in 1..l
        PROVE  i + 1 \in 1..1 + l /\ q[i + 1] = r[i] /\ 1 <= i + 1 /\ ~(i + 1 <= 1) /\ i \in Nat
    <3>1. i + 1 \in 1..1 + l /\ ~(i + 1 <= 1) /\ (i + 1) - 1 = i
      OBVIOUS
    <3>2. QED
      BY <1>3, <3>1
  <2>2. QED
    BY <1>4, <2>1
<1>7. \A i \in DOMAIN q : i = 1 \/ \E k \in DOMAIN r : i = k + 1
  <2>1. ASSUME NEW i \in 1..1 + l, i # 1 PROVE \E k \in 1..l : i = k + 1
    <3>1. i - 1 \in 1..l /\ i = (i - 1) + 1
      BY <2>1
    <3>2. QED
      BY <3>1
  <2>2. QED
    BY <1>4, <2>1
<1>8. \A x : PendIn(q, x) <=> x \in T \/ PendIn(r, x)
  BY <1>5, <1>6, <1>7 DEF PendIn
<1>9. ASSUME InOrder(q)
      PROVE  /\ InOrder(r)
             /\ \A x \in T, y \in T : Rank(x) <= Rank(y)
             /\ \A x \in T : \A y : PendIn(r, y) => Rank(x) <= Rank(y)
  <2>1. ASSUME NEW i \in DOMAIN r, NEW k \in DOMAIN r, i <= k, NEW x \in r[i], NEW y \in r[k]
        PROVE  Rank(x) <= Rank(y)
    <3>1. i + 1 <= k + 1
      BY <1>6, <2>1
    <3>2. QED
      BY <1>6, <1>9, <2>1, <3>1 DEF InOrder
  <2>2. \A x \in T, y \in T : Rank(x) <= Rank(y)
    <3>1. 1 <= 1
      OBVIOUS
    <3>2. QED
      BY <1>5, <1>9, <3>1 DEF InOrder
  <2>3. ASSUME NEW x \in T, NEW k \in DOMAIN r, NEW y \in r[k] PROVE Rank(x) <= Rank(y)
    BY <1>5, <1>6, <1>9 DEF InOrder
  <2>4. QED
    BY <2>1, <2>2, <2>3 DEF InOrder, PendIn
<1>10. ASSUME InOrder(r), \A x \in T, y \in T : Rank(x) <= Rank(y),
              \A x \in T : \A y : PendIn(r, y) => Rank(x) <= Rank(y)
       PROVE  InOrder(q)
  <2>1. ASSUME NEW i \in DOMAIN q, NEW k \in DOMAIN q, i <= k, NEW x \in q[i], NEW y \in q[k]
        PROVE  Rank(x) <= Rank(y)
    <3>1. CASE i = 1 /\ k = 1
      BY <1>5, <1>10, <3>1
    <3>2. CASE i = 1 /\ k # 1
      <4>1. PendIn(r, y)
        BY <1>6, <1>7, <3>2 DEF PendIn
      <4>2. QED
        BY <1>5, <1>10, <3>2, <4>1
    <3>3. CASE i # 1
      <4>1. PICK a \in DOMAIN r : i = a + 1
        BY <1>7, <3>3
      <4>2. k # 1
        BY <1>6, <2>1, <4>1
      <4>3. PICK c \in DOMAIN r : k = c + 1
        BY <1>7, <4>2
      <4>4. a <= c
        BY <1>6, <2>1, <4>1, <4>3
      <4>5. x \in r[a] /\ y \in r[c]
        BY <1>6, <4>1, <4>3
      <4>6. QED
        BY <1>10, <4>4, <4>5 DEF InOrder
    <3>4. QED
      BY <3>1, <3>2, <3>3
  <2>2. QED
    BY <2>1 DEF InOrder
<1>11. QED
  BY <1>3, <1>8, <1>9, <1>10 DEF Leads

(* What is left after a job, and was to be done before it. *)
Left(j, S, t) ==
    /\ \A x : PendIn(t, x) => x \in S \/ PendIn(flush.todo, x)
    /\ \A x : PendIn(flush.todo, x) /\ x # j => PendIn(t, x)
    /\ \A x : PendIn(flush.todo, x) => Rank(j) <= Rank(x)
    /\ PendIn(flush.todo, j)

(* That is what the next batches are. *)
LEMMA JobsLeft ==
    ASSUME NEW J, flush.todo \in Seq(SUBSET J), flush.todo # <<>>, NEW j \in Head(flush.todo),
           InOrder(flush.todo), NEW S \in SUBSET J, \A x \in S : Rank(x) = 0,
           NEW t, t = Rest(j, S)
    PROVE  InOrder(t) /\ Left(j, S, t)
<1>1. PICK h, u, q : h = Head(flush.todo) /\ u = Tail(flush.todo) /\ q = flush.todo
  OBVIOUS
<1>2. /\ h \in SUBSET J /\ u \in Seq(SUBSET J) /\ q = <<h>> \o u
      /\ InOrder(q) /\ j \in h
  BY <1>1, HeadAndTail
<1>3. \A x : PendIn(q, x) <=> x \in h \/ PendIn(u, x)
  BY <1>2, JobsBefore
<1>4. InOrder(u) /\ Leads(h, u)
  BY <1>2, JobsBefore
<1>5. PICK d \in SUBSET J : d = h \ {j}
  BY <1>2
<1>6. PICK c : c = IF d = {} THEN u ELSE <<d>> \o u
  OBVIOUS
<1>7. /\ c \in Seq(SUBSET J) /\ InOrder(c)
      /\ \A x : PendIn(c, x) <=> x \in d \/ PendIn(u, x)
  <2>1. CASE d = {}
    BY <1>2, <1>4, <1>6, <2>1
  <2>2. CASE d # {}
    <3>1. c = <<d>> \o u
      BY <1>6, <2>2
    <3>2. Leads(d, u)
      BY <1>4, <1>5 DEF Leads
    <3>3. /\ c \in Seq(SUBSET J)
          /\ \A x : PendIn(c, x) <=> x \in d \/ PendIn(u, x)
      <4>1. c \in Seq(SUBSET J)
        BY <1>2, <3>1, JobsBefore
      <4>2. \A x : PendIn(c, x) <=> x \in d \/ PendIn(u, x)
        <5>1. PICK r : r = u
          OBVIOUS
        <5>2. r \in Seq(SUBSET J) /\ c = <<d>> \o r
          BY <1>2, <3>1, <5>1
        <5>3. \A x : PendIn(c, x) <=> x \in d \/ PendIn(r, x)
          BY <5>2, JobsBefore
        <5>4. QED
          BY <5>1, <5>3
      <4>3. QED
        BY <4>1, <4>2
    <3>4. InOrder(c)
      BY <1>2, <1>4, <3>1, <3>2, JobsBefore
    <3>5. QED
      BY <3>3, <3>4
  <2>3. QED
    BY <2>1, <2>2
<1>8. t = IF S = {} THEN c ELSE <<S>> \o c
  BY <1>1, <1>5, <1>6 DEF Rest
<1>9. /\ InOrder(t)
      /\ \A x : PendIn(t, x) <=> x \in S \/ PendIn(c, x)
  <2>1. CASE S = {}
    BY <1>7, <1>8, <2>1
  <2>2. CASE S # {}
    <3>1. t = <<S>> \o c
      BY <1>8, <2>2
    <3>2. Leads(S, c)
      <4>1. \A y : Rank(y) \in Nat
        BY RankIs
      <4>2. \A n \in Nat : 0 <= n
        OBVIOUS
      <4>3. QED
        BY <4>1, <4>2 DEF Leads
    <3>3. \A x : PendIn(t, x) <=> x \in S \/ PendIn(c, x)
      BY <1>7, <3>1, JobsBefore
    <3>4. InOrder(t)
      BY <1>7, <3>1, <3>2, JobsBefore
    <3>5. QED
      BY <3>3, <3>4
  <2>3. QED
    BY <2>1, <2>2
<1>10. \A x : PendIn(q, x) => Rank(j) <= Rank(x)
  BY <1>2, <1>3, <1>4 DEF Leads
<1>11. QED
  BY <1>1, <1>2, <1>3, <1>5, <1>7, <1>9, <1>10 DEF Left

(* A job is to be done when some batch has it. *)
LEMMA PendSet ==
    ASSUME NEW J, NEW s \in Seq(SUBSET J), NEW x
    PROVE  PendIn(s, x) <=> \E T \in ToSet(s) : x \in T
BY DEF PendIn, ToSet

(* Jobs that are done after others. *)
Follows(s, T) ==
    /\ \A x \in T, y \in T : Rank(x) <= Rank(y)
    /\ \A y \in T : \A x : PendIn(s, x) => Rank(x) <= Rank(y)

(* Jobs put after others. *)
LEMMA JobsAfter ==
    ASSUME NEW J, NEW s \in Seq(SUBSET J), NEW T \in SUBSET J, NEW q, q = Append(s, T)
    PROVE  /\ InOrder(q) => InOrder(s) /\ Follows(s, T)
           /\ InOrder(s) /\ Follows(s, T) => InOrder(q)
<1>1. PICK l \in Nat : l = Len(s)
  BY LenProperties
<1>2. /\ q \in Seq(SUBSET J) /\ Len(q) = l + 1
      /\ \A i \in 1..l : q[i] = s[i]
      /\ q[l + 1] = T
  BY <1>1, AppendProperties
<1>3. DOMAIN q = 1..l + 1 /\ DOMAIN s = 1..l
  BY <1>1, <1>2, LenProperties
<1>4. /\ \A i \in DOMAIN s : i \in DOMAIN q /\ q[i] = s[i] /\ i <= l + 1 /\ i # l + 1
      /\ \A i \in DOMAIN q : i = l + 1 \/ i \in DOMAIN s
      /\ l + 1 \in DOMAIN q /\ l + 1 <= l + 1
      /\ \A i \in DOMAIN s : ~(l + 1 <= i)
  BY <1>2, <1>3
<1>5. ASSUME InOrder(q) PROVE InOrder(s) /\ Follows(s, T)
  <2>1. InOrder(s)
    BY <1>4, <1>5 DEF InOrder
  <2>2. \A x \in T, y \in T : Rank(x) <= Rank(y)
    BY <1>2, <1>4, <1>5 DEF InOrder
  <2>3. \A y \in T : \A i \in DOMAIN s : \A x \in s[i] : Rank(x) <= Rank(y)
    BY <1>2, <1>4, <1>5 DEF InOrder
  <2>4. QED
    BY <2>1, <2>2, <2>3 DEF Follows, PendIn
<1>6. ASSUME InOrder(s), Follows(s, T) PROVE InOrder(q)
  <2>1. ASSUME NEW i \in DOMAIN q, NEW k \in DOMAIN q, i <= k, NEW x \in q[i], NEW y \in q[k]
        PROVE  Rank(x) <= Rank(y)
    <3>1. CASE k = l + 1 /\ i = l + 1
      BY <1>2, <1>6, <3>1 DEF Follows
    <3>2. CASE k = l + 1 /\ i # l + 1
      BY <1>2, <1>4, <1>6, <3>2 DEF Follows, PendIn
    <3>3. CASE k # l + 1
      <4>1. k \in DOMAIN s /\ i \in DOMAIN s
        BY <1>4, <2>1, <3>3
      <4>2. QED
        BY <1>4, <1>6, <2>1, <4>1 DEF InOrder
    <3>4. QED
      BY <3>1, <3>2, <3>3
  <2>2. QED
    BY <2>1 DEF InOrder
<1>7. QED
  BY <1>5, <1>6

(* Batches that are left out do not change the order. *)
LEMMA WithoutInOrder ==
    ASSUME NEW J, NEW s \in Seq(SUBSET J), NEW gone, InOrder(s)
    PROVE  InOrder(Without(s, gone))
<1> DEFINE T == {r \in Seq(SUBSET J) : InOrder(r) => InOrder(Without(r, gone))}
<1>1. <<>> \in T
  BY EmptySeq, WithoutEmpty
<1>2. ASSUME NEW r \in Seq(SUBSET J), r \in T, NEW e \in SUBSET J PROVE Append(r, e) \in T
  <2>1. PICK q, w, v : q = Append(r, e) /\ w = Without(r, gone) /\ v = Without(q, gone)
    OBVIOUS
  <2>2. /\ q \in Seq(SUBSET J) /\ w \in Seq(SUBSET J) /\ ToSet(w) = ToSet(r) \ gone
        /\ v = IF e \in gone THEN w ELSE Append(w, e)
    <3>1. q \in Seq(SUBSET J)
      BY <2>1, AppendProperties
    <3>2. w \in Seq(SUBSET J) /\ ToSet(w) = ToSet(r) \ gone
      BY <2>1, WithoutFacts
    <3>3. v = IF e \in gone THEN w ELSE Append(w, e)
      BY <2>1, WithoutAppend
    <3>4. QED
      BY <3>1, <3>2, <3>3
  <2>3. ASSUME InOrder(q) PROVE InOrder(v)
    <3>1. InOrder(r) /\ Follows(r, e)
      BY <2>1, <2>3, JobsAfter
    <3>2. InOrder(w)
      BY <1>2, <2>1, <3>1
    <3>3. Follows(w, e)
      <4>1. \A x : PendIn(w, x) => PendIn(r, x)
        BY <2>2, PendSet
      <4>2. QED
        BY <3>1, <4>1 DEF Follows
    <3>4. CASE e \in gone
      BY <2>2, <3>2, <3>4
    <3>5. CASE e \notin gone
      <4>1. v = Append(w, e)
        BY <2>2, <3>5
      <4>2. QED
        BY <2>2, <3>2, <3>3, <4>1, JobsAfter
    <3>6. QED
      BY <3>4, <3>5
  <2>4. QED
    BY <2>1, <2>2, <2>3
<1>3. Seq(SUBSET J) \subseteq T
  <2> HIDE DEF T
  <2>1. QED
    BY <1>1, <1>2, ListsIn
<1>4. QED
  BY <1>3

(* The batches of a flush, and what each of them has. *)
Batch(n) ==
    CASE n = 1 -> Jobs("update", {o \in Objs : Tracked(o)} \cap Parents)
      [] n = 2 -> Jobs("update", {o \in Objs : Tracked(o)} \cap Kids)
      [] n = 3 -> Jobs("insert", queue.persists \cap Parents)
      [] n = 4 -> Jobs("insert", queue.persists \cap Kids)
      [] n = 5 -> CollectionDiffs
      [] n = 6 -> IF queue.deletes = {} THEN {} ELSE {[op |-> "expand"]}
      [] n = 7 -> {[op |-> "delete", what |-> d] :
                     d \in {x \in queue.deletes \cup CascadeDeletes(queue.deletes) : x.kid}}
      [] n = 8 -> {[op |-> "delete", what |-> d] :
                     d \in {x \in queue.deletes \cup CascadeDeletes(queue.deletes) : ~x.kid}}
      [] n = 9 -> {[op |-> "bulk", what |-> b] : b \in {x \in queue.bulks : x.op = "update"}}
      [] n = 10 -> {[op |-> "bulk", what |-> b] : b \in {x \in queue.bulks : x.op = "delete"}}

(* The batches of a flush are in order, and have the jobs of their kinds. *)
LEMMA BatchesFacts ==
    ASSUME BufferTypes
    PROVE  /\ InOrder(Batches)
           /\ \A x : PendIn(Batches, x) <=> \E n \in 1..10 : x \in Batch(n)
<1>1. PICK q : q = <<Batch(1), Batch(2), Batch(3), Batch(4), Batch(5), Batch(6), Batch(7),
                     Batch(8), Batch(9), Batch(10)>>
  OBVIOUS
<1>2. Batches = Without(q, {{}})
  BY <1>1 DEF Batches, InsertOrder, DeleteOrder, Batch
<1>3. PICK J : J = UNION {Batch(n) : n \in 1..10}
  OBVIOUS
<1>4. \A n \in 1..10 : Batch(n) \in SUBSET J
  BY <1>3
<1>5. q \in Seq(SUBSET J) /\ DOMAIN q = 1..10 /\ \A n \in 1..10 : q[n] = Batch(n)
  <2>1. DOMAIN q = 1..10
    BY <1>1
  <2>2. /\ q[1] = Batch(1) /\ q[2] = Batch(2) /\ q[3] = Batch(3) /\ q[4] = Batch(4)
        /\ q[5] = Batch(5) /\ q[6] = Batch(6) /\ q[7] = Batch(7) /\ q[8] = Batch(8)
        /\ q[9] = Batch(9) /\ q[10] = Batch(10)
    BY <1>1
  <2>3. \A n \in 1..10 : n = 1 \/ n = 2 \/ n = 3 \/ n = 4 \/ n = 5 \/ n = 6 \/ n = 7 \/ n = 8
                         \/ n = 9 \/ n = 10
    OBVIOUS
  <2>4. \A n \in 1..10 : q[n] = Batch(n)
    BY <2>2, <2>3
  <2>5. /\ Batch(1) \in SUBSET J /\ Batch(2) \in SUBSET J /\ Batch(3) \in SUBSET J
        /\ Batch(4) \in SUBSET J /\ Batch(5) \in SUBSET J /\ Batch(6) \in SUBSET J
        /\ Batch(7) \in SUBSET J /\ Batch(8) \in SUBSET J /\ Batch(9) \in SUBSET J
        /\ Batch(10) \in SUBSET J
    BY <1>4
  <2>6. q \in Seq(SUBSET J)
    BY <1>1, <2>5
  <2>7. QED
    BY <2>1, <2>4, <2>6
<1> DEFINE R(n) == IF n <= 5 THEN 0 ELSE IF n = 6 THEN 1 ELSE IF n = 7 THEN 2 ELSE IF n = 8 THEN 3 ELSE 4
<1>6. ASSUME NEW n \in 1..10, NEW x \in Batch(n) PROVE Rank(x) = R(n)
  <2>1. CASE n = 1 \/ n = 2 \/ n = 3 \/ n = 4
    BY <2>1 DEF Batch, Jobs, Rank
  <2>2. CASE n = 5
    <3>1. x.op = "orphan" \/ x.op = "added"
      BY <2>2 DEF Batch, CollectionDiffs, Jobs
    <3>2. QED
      BY <2>2, <3>1 DEF Rank
  <2>3. CASE n = 6
    BY <2>3 DEF Batch, Rank
  <2>4. CASE n = 7 \/ n = 8
    BY <2>4 DEF Batch, Rank
  <2>5. CASE n = 9 \/ n = 10
    BY <2>5 DEF Batch, Rank
  <2>6. QED
    BY <2>1, <2>2, <2>3, <2>4, <2>5
<1>7. \A n, m \in 1..10 : n <= m => R(n) <= R(m)
  OBVIOUS
<1> HIDE DEF R
<1>8. InOrder(q)
  BY <1>5, <1>6, <1>7 DEF InOrder
<1>9. PICK w : w = Without(q, {{}})
  OBVIOUS
<1>10. w \in Seq(SUBSET J) /\ ToSet(w) = ToSet(q) \ {{}}
  BY <1>5, <1>9, WithoutFacts
<1>11. InOrder(w)
  BY <1>5, <1>8, <1>9, WithoutInOrder
<1>12. \A x : PendIn(w, x) <=> PendIn(q, x)
  BY <1>5, <1>10, PendSet
<1>13. QED
  BY <1>2, <1>5, <1>9, <1>11, <1>12 DEF PendIn

-----------------------------------------------------------------------------
(* The caller's calls leave the map honest *)

(* Between flushes, what a failure would leave is what is there. *)
LEMMA IdleFacts ==
    ASSUME CacheInv, flush.pc = "idle", outer # "broken"
    PROVE  /\ Then = obj /\ ThenRows = work /\ obj \in Objects /\ work \in Rows /\ BufferTypes
           /\ RealIn(obj, work) /\ Among(rows, work) /\ RealIn(RunEnds(obj, onEnd), rows)
           /\ Honest(idmap, snap, obj, work)
           /\ queue.persists = {o \in Objs : st[o] = "NEW"}
           /\ \A o \in queue.persists : o \in Objs /\ snap[o] = NoSnap /\ obj[o].key = 0
           /\ \A k \in DOMAIN work : k \in Nat /\ k # 0 /\ k \in 1 .. nextKey - 1
<1>1. Then = obj /\ ThenRows = work
  BY DEF Then, ThenRows
<1>2. BufferTypes /\ obj \in Objects /\ work \in Rows
  BY DEF CacheInv, BufferInv, BufferTypes
<1>3. RealIn(obj, work) /\ Among(rows, work) /\ RealIn(RunEnds(obj, onEnd), rows)
  BY <1>1 DEF CacheInv, BufferInv, ThenInv, EndInv
<1>4. Honest(idmap, snap, obj, work)
  BY <1>1 DEF CacheInv, MapInv
<1>5. /\ queue.persists = {o \in Objs : st[o] = "NEW"}
      /\ \A o \in queue.persists : o \in Objs /\ snap[o] = NoSnap /\ obj[o].key = 0
  BY <1>1 DEF CacheInv, QueueInv, QueuedNew
<1>6. \A k \in DOMAIN work : k \in Nat /\ k # 0 /\ k \in 1 .. nextKey - 1
  <2>1. DOMAIN work \subseteq 1 .. nextKey - 1 /\ DOMAIN work \subseteq 1 .. MaxKey
    BY <1>2, RowsAre
  <2>2. \A k \in 1 .. MaxKey : k \in Nat /\ k # 0
    OBVIOUS
  <2>3. QED
    BY <2>1, <2>2
<1>7. QED
  BY <1>1, <1>2, <1>3, <1>4, <1>5, <1>6

(* An object without a key has none after the callbacks either. *)
LEMMA NewStaysNew ==
    ASSUME NEW os, NEW et, NEW w, NEW v, RealIn(os, w), RealIn(et, v), Among(v, w),
           NEW o \in Objs, os[o].key = 0, \A k \in DOMAIN w : k # 0
    PROVE  et[o].key = 0
<1> SUFFICES ASSUME et[o].key # 0 PROVE FALSE
  OBVIOUS
<1>1. et[o].key \in DOMAIN v /\ v[et[o].key].by = o
  BY DEF RealIn
<1>2. et[o].key \in DOMAIN w /\ w[et[o].key].by = o
  BY <1>1 DEF Among
<1>3. os[o].key = et[o].key
  BY <1>2 DEF RealIn
<1>4. QED
  BY <1>3

(* The three structures after a step. *)
LEMMA BufferNow ==
    ASSUME IsBuffer(Buffer)'
    PROVE  /\ snap' \in [Objs -> Snaps \cup {NoSnap}]
           /\ idmap' \in Seq(Entries)
           /\ st' \in [Objs -> States]
           /\ \A e \in ToSet(idmap') : e \in Entries /\ e.obj \in Objs
<1>1. PICK b : b = Buffer'
  OBVIOUS
<1>2. IsBuffer(b)
  BY <1>1
<1>3. b.snap = snap' /\ b.idmap = idmap' /\ b.st = st'
  BY <1>1 DEF Buffer
<1>4. /\ b.snap \in [Objs -> Snaps \cup {NoSnap}]
      /\ b.idmap \in Seq(Entries)
      /\ b.st \in [Objs -> States]
  BY <1>2, BufferFields
<1>5. \A e \in ToSet(b.idmap) : e \in Entries /\ e.obj \in Objs
  <2>1. PICK im : im = b.idmap
    OBVIOUS
  <2>2. \A e \in ToSet(im) : e \in Entries
    BY <1>4, <2>1 DEF ToSet
  <2>3. QED
    BY <2>1, <2>2 DEF Entries
<1>6. QED
  BY <1>3, <1>4, <1>5

(* A call that leaves keys and rows alone: what is left to show of it. *)
LEMMA CacheCaller ==
    ASSUME CacheInv, BufferInv', IsBuffer(Buffer)', flush.pc = "idle", outer # "broken",
           UNCHANGED <<rows, work, nextKey, outer, onEnd, flush>>,
           \A o \in Objs : Same(obj, obj', o),
           queue'.persists = {o \in Objs : st'[o] = "NEW"},
           \A o \in queue'.persists : snap'[o] = NoSnap /\ obj[o].key = 0,
           \A d \in queue'.deletes : DeleteFits(d),
           \A p \in Parents : snap'[p] # NoSnap => KidsOf(p)' \cap queue'.persists = {},
           \A b \in queue'.bulks : b.of \cap queue'.persists = {},
           Honest(idmap', snap', obj, work)
    PROVE  CacheInv'
<1>1. /\ Then = obj /\ ThenRows = work /\ RealIn(obj, work) /\ Among(rows, work)
      /\ \A k \in DOMAIN work : k # 0
  BY IdleFacts
<1>2. Then' = obj' /\ ThenRows' = work
  BY DEF Then, ThenRows
<1>3. PICK os, et : os = obj' /\ et = RunEnds(obj', onEnd)
  OBVIOUS
<1>4. \A o \in Objs : os[o].key = obj[o].key
  BY <1>3 DEF Same
<1>5. RealIn(os, work) /\ RealIn(et, rows)
  BY <1>2, <1>3 DEF BufferInv, ThenInv, EndInv
<1>6. \A o \in queue'.persists : o \in Objs /\ os[o].key = 0
  BY <1>4
<1>7. \A o \in queue'.persists : et[o].key = 0
  <2>1. ASSUME NEW o \in queue'.persists PROVE et[o].key = 0
    BY <1>1, <1>5, <1>6, NewStaysNew
  <2>2. QED
    BY <2>1
<1>8. QueueInv'
  <2>1. \A o \in queue'.persists : QueuedNew(o)'
    BY <1>2, <1>3, <1>6, <1>7 DEF QueuedNew
  <2>2. \A d \in queue'.deletes : DeleteFits(d)'
    BY DEF DeleteFits
  <2>3. \A i \in DOMAIN onEnd : \A o \in onEnd[i].persists : o \in Objs /\ obj[o].key # 0
    <3>1. \A i \in DOMAIN onEnd : \A o \in onEnd[i].persists : obj[o].key # 0
      BY <1>1 DEF CacheInv, QueueInv
    <3>2. \A i \in DOMAIN onEnd : onEnd[i] \in Ends
      BY ElementOfSeq, LenProperties DEF CacheInv, BufferInv, BufferTypes
    <3>3. QED
      BY <3>1, <3>2 DEF Ends
  <2>4. \A i \in DOMAIN onEnd' : \A o \in onEnd'[i].persists : Then'[o].key # 0
    BY <1>2, <1>3, <1>4, <2>3
  <2>5. QED
    BY <2>1, <2>2, <2>4 DEF QueueInv, Tracked
<1>9. Honest(idmap', snap', os, work)
  <2>1. \A e \in ToSet(idmap') : e.obj \in Objs
    BY BufferNow
  <2>2. QED
    BY <1>4, <2>1 DEF Honest
<1>10. MapInv'
  BY <1>2, <1>3, <1>9 DEF MapInv
<1>11. RunCache'
  BY DEF RunCache
<1>12. QED
  BY <1>8, <1>10, <1>11 DEF CacheInv

(* A call that tracks the objects in S, and may evict others. *)
LEMMA CacheGrows ==
    ASSUME CacheInv, BufferInv', IsBuffer(Buffer)', flush.pc = "idle", outer # "broken",
           UNCHANGED <<rows, work, nextKey, outer, onEnd, flush>>,
           \A o \in Objs : Same(obj, obj', o),
           queue'.persists = queue.persists, queue'.bulks = queue.bulks,
           queue'.deletes \subseteq queue.deletes,
           NEW S \in SUBSET Objs, NEW os, NEW vals, Grown(Buffer, Buffer', os, S, vals),
           \A x \in Objs : os[x].key = obj[x].key,
           \A x \in S : /\ obj[x].key \in Live(work)
                        /\ vals[x] \in {Sentinel, work[obj[x].key].val},
           \A p \in Parents \cap S : KidsOf(p)' \cap queue.persists = {},
           \A p \in Parents \ S : KidsOf(p)' = KidsOf(p)
    PROVE  CacheInv'
<1>1. /\ Honest(idmap, snap, obj, work)
      /\ queue.persists = {o \in Objs : st[o] = "NEW"}
      /\ \A o \in queue.persists : o \in Objs /\ snap[o] = NoSnap /\ obj[o].key = 0
      /\ \A k \in DOMAIN work : k # 0
  BY IdleFacts
<1>2. PICK b, t : b = Buffer /\ t = Buffer'
  OBVIOUS
<1>3. /\ b.snap = snap /\ b.idmap = idmap /\ b.st = st
      /\ t.snap = snap' /\ t.idmap = idmap' /\ t.st = st'
  BY <1>2 DEF Buffer
<1>4. IsBuffer(b) /\ IsBuffer(t) /\ Grown(b, t, os, S, vals)
  BY <1>2 DEF CacheInv
<1>5. \A x \in S : x \in Objs /\ obj[x].key # 0 /\ x \notin queue.persists
  BY <1>1 DEF Live
<1>6. queue'.persists = {o \in Objs : st'[o] = "NEW"}
  <2>1. \A x \in Objs : t.st[x] = "NEW" <=> b.st[x] = "NEW"
    BY <1>1, <1>3, <1>4, <1>5 DEF Grown
  <2>2. QED
    BY <1>1, <1>3, <2>1
<1>7. \A o \in queue.persists : t.snap[o] = NoSnap
  BY <1>1, <1>3, <1>4, <1>5 DEF Grown
<1>8. \A d \in queue'.deletes : DeleteFits(d)
  BY DEF CacheInv, QueueInv
<1>9. \A p \in Parents : snap'[p] # NoSnap => KidsOf(p)' \cap queue'.persists = {}
  <2>1. ASSUME NEW p \in Parents, t.snap[p] # NoSnap, p \notin S PROVE b.snap[p] # NoSnap
    BY <1>4, <2>1 DEF Grown, Objs
  <2>2. \A p \in Parents : snap[p] # NoSnap => KidsOf(p) \cap queue.persists = {}
    BY DEF CacheInv, QueueInv, Tracked
  <2>3. QED
    BY <1>3, <2>1, <2>2
<1>10. \A x \in queue'.bulks : x.of \cap queue'.persists = {}
  BY DEF CacheInv, QueueInv
<1>11. Honest(t.idmap, t.snap, obj, work)
  <2> SUFFICES ASSUME NEW e \in ToSet(t.idmap)
               PROVE  /\ obj[e.obj].key = e.key /\ e.key \in DOMAIN work
                      /\ work[e.key].state # "deleted"
                      /\ work[e.key].state = "live" =>
                            t.snap[e.obj].val \in {Sentinel, work[e.key].val}
    BY DEF Honest
  <2>1. PICK x : x = e.obj
    OBVIOUS
  <2>2. x \in Objs /\ t.snap[x] # NoSnap
    <3>1. x \in Objs
      BY <1>3, <2>1, BufferNow
    <3>2. QED
      BY <1>4, <2>1, <3>1 DEF IsBuffer
  <2>3. /\ t.snap[x] = b.snap[x] \/ (x \in S /\ t.snap[x].val = vals[x])
        /\ e \in ToSet(b.idmap) \/ (x \in S /\ e.key = os[x].key)
    BY <1>4, <2>1, <2>2 DEF Grown
  <2>4. PICK k : k = obj[x].key
    OBVIOUS
  <2>5. ASSUME b.snap[x] # NoSnap
        PROVE  /\ k \in DOMAIN work /\ work[k].state # "deleted"
               /\ work[k].state = "live" => b.snap[x].val \in {Sentinel, work[k].val}
    <3>1. PICK a \in ToSet(b.idmap) : a.obj = x
      BY <1>4, <2>2, <2>5 DEF IsBuffer
    <3>2. QED
      BY <1>1, <1>3, <2>4, <3>1 DEF Honest
  <2>6. ASSUME x \in S
        PROVE  /\ k \in DOMAIN work /\ work[k].state = "live"
               /\ vals[x] \in {Sentinel, work[k].val}
    BY <2>4, <2>6 DEF Live
  <2>7. e.key = k
    <3>1. CASE e \in ToSet(b.idmap)
      BY <1>1, <1>3, <2>1, <2>4, <3>1 DEF Honest
    <3>2. CASE x \in S /\ e.key = os[x].key
      BY <2>4, <3>2
    <3>3. QED
      BY <2>3, <3>1, <3>2
  <2>8. CASE x \in S /\ t.snap[x].val = vals[x]
    BY <2>1, <2>4, <2>6, <2>7, <2>8
  <2>9. CASE t.snap[x] = b.snap[x]
    BY <2>1, <2>2, <2>4, <2>5, <2>7, <2>9
  <2>10. QED
    BY <2>3, <2>8, <2>9
<1>12. \A o \in queue'.persists : snap'[o] = NoSnap /\ obj[o].key = 0
  BY <1>1, <1>3, <1>7
<1>13. Honest(idmap', snap', obj, work)
  BY <1>3, <1>11
<1>14. QED
  BY <1>6, <1>8, <1>9, <1>10, <1>12, <1>13, CacheCaller

(* A call that forgets the objects in S. *)
LEMMA CacheForgets ==
    ASSUME CacheInv, BufferInv', IsBuffer(Buffer)', flush.pc = "idle", outer # "broken",
           UNCHANGED <<rows, work, nextKey, outer, onEnd, flush, obj>>,
           NEW S, queue'.persists = queue.persists \ S, queue'.bulks = queue.bulks,
           \A d \in queue'.deletes : DeleteFits(d),
           ToSet(idmap') = {e \in ToSet(idmap) : e.obj \notin S},
           \A o \in Objs : /\ snap'[o] = IF o \in S THEN NoSnap ELSE snap[o]
                           /\ o \in S => st'[o] # "NEW"
                           /\ o \notin S => st'[o] = st[o]
    PROVE  CacheInv'
<1>1. /\ Honest(idmap, snap, obj, work)
      /\ queue.persists = {o \in Objs : st[o] = "NEW"}
      /\ \A o \in queue.persists : o \in Objs /\ snap[o] = NoSnap /\ obj[o].key = 0
  BY IdleFacts
<1>2. queue'.persists = {o \in Objs : st'[o] = "NEW"}
  BY <1>1
<1>3. \A o \in queue'.persists : snap'[o] = NoSnap /\ obj[o].key = 0
  BY <1>1
<1>4. \A p \in Parents : snap'[p] # NoSnap => KidsOf(p)' \cap queue'.persists = {}
  <2>1. \A p \in Parents : snap[p] # NoSnap => KidsOf(p) \cap queue.persists = {}
    BY DEF CacheInv, QueueInv, Tracked
  <2>2. \A p \in Parents : KidsOf(p)' = KidsOf(p) /\ p \in Objs
    BY DEF KidsOf, Objs
  <2>3. QED
    BY <2>1, <2>2
<1>5. \A b \in queue'.bulks : b.of \cap queue'.persists = {}
  BY DEF CacheInv, QueueInv
<1>6. Honest(idmap', snap', obj, work)
  <2>1. \A e \in ToSet(idmap') : e \in ToSet(idmap) /\ snap'[e.obj] = snap[e.obj]
    BY BufferNow
  <2>2. QED
    BY <1>1, <2>1 DEF Honest
<1>7. \A o \in Objs : Same(obj, obj', o)
  BY DEF Same
<1>8. QED
  BY <1>2, <1>3, <1>4, <1>5, <1>6, <1>7, CacheCaller

(* A call that changes no more than values and collections. *)
LEMMA CacheQuiet ==
    ASSUME CacheInv, BufferInv', flush.pc = "idle", outer # "broken",
           UNCHANGED <<rows, work, nextKey, outer, onEnd, flush, queue>>, UNCHANGED bufVars,
           \A o \in Objs : Same(obj, obj', o),
           \A p \in Parents : Tracked(p) => KidsOf(p)' \cap queue.persists = {}
    PROVE  CacheInv'
<1>1. /\ Honest(idmap, snap, obj, work)
      /\ queue.persists = {o \in Objs : st[o] = "NEW"}
      /\ \A o \in queue.persists : o \in Objs /\ snap[o] = NoSnap /\ obj[o].key = 0
  BY IdleFacts
<1>2. snap' = snap /\ idmap' = idmap /\ st' = st /\ queue' = queue
  BY DEF bufVars
<1>3. IsBuffer(Buffer)'
  BY <1>2 DEF CacheInv, Buffer
<1>4. /\ \A d \in queue.deletes : DeleteFits(d)
      /\ \A b \in queue.bulks : b.of \cap queue.persists = {}
  BY DEF CacheInv, QueueInv
<1>5. \A p \in Parents : snap'[p] # NoSnap => KidsOf(p)' \cap queue'.persists = {}
  BY <1>2 DEF Tracked
<1>6. QED
  BY <1>1, <1>2, <1>3, <1>4, <1>5, CacheCaller

(* The delete that is queued for an object with a key. *)
LEMMA NewDelete ==
    ASSUME CacheInv, flush.pc = "idle", outer # "broken", NEW o \in Objs, obj[o].key # 0,
           queue'.deletes = queue.deletes \cup
                               {[by |-> "key", key |-> obj[o].key, kid |-> o \in Kids]}
    PROVE  \A d \in queue'.deletes : DeleteFits(d)
<1>1. PICK d : d = [by |-> "key", key |-> obj[o].key, kid |-> o \in Kids]
  OBVIOUS
<1>2. d.by = "key" /\ d.key = obj[o].key /\ (d.kid <=> o \in Kids)
  BY <1>1
<1>3. /\ RealIn(obj, work) /\ \A k \in DOMAIN work : k \in 1 .. nextKey - 1
  BY IdleFacts
<1>4. d.key \in DOMAIN work /\ work[d.key].by = o
  BY <1>2, <1>3 DEF RealIn
<1>5. DeleteFits(d)
  BY <1>2, <1>3, <1>4 DEF DeleteFits
<1>6. \A x \in queue.deletes : DeleteFits(x)
  BY DEF CacheInv, QueueInv
<1>7. QED
  BY <1>1, <1>5, <1>6

(* Edits of objects and collections. *)
LEMMA CacheEdits ==
    ASSUME CacheInv, BufferInv', ~Mixed,
           \/ \E o \in Objs, v \in Vals : Edit(o, v)
           \/ \E c \in Kids, p \in Parents : AddKid(c, p) \/ DropKid(c, p)
    PROVE  CacheInv'
<1>1. /\ obj \in Objects /\ \A o \in Objs : obj[o] \in ObjState
      /\ \A p \in Parents : Tracked(p) => KidsOf(p) \cap queue.persists = {}
  BY DEF CacheInv, BufferInv, BufferTypes, QueueInv, Objects
<1>2. /\ flush.pc = "idle" /\ outer # "broken"
      /\ UNCHANGED <<rows, work, nextKey, outer, onEnd, flush, queue>> /\ UNCHANGED bufVars
  BY DEF Edit, AddKid, DropKid, Call, txVars, flushVars
<1>3. CASE \E o \in Objs, v \in Vals : Edit(o, v)
  <2>1. PICK o \in Objs, v \in Vals : obj' = [obj EXCEPT ![o].val = v]
    BY <1>3 DEF Edit
  <2>2. PICK y : y = [obj[o] EXCEPT !.val = v]
    OBVIOUS
  <2>3. y.key = obj[o].key /\ y.fk = obj[o].fk /\ y.kids = obj[o].kids
    BY <1>1, <2>2 DEF ObjState
  <2>4. obj' = [obj EXCEPT ![o] = y]
    BY <2>1, <2>2
  <2>5. obj'[o] = y /\ \A x \in Objs : x # o => obj'[x] = obj[x]
    BY <1>1, <2>4 DEF Objects
  <2>6. \A x \in Objs : Same(obj, obj', x) /\ KidsOf(x)' = KidsOf(x)
    BY <2>3, <2>5 DEF Same, KidsOf
  <2>7. QED
    BY <1>1, <1>2, <2>6, CacheQuiet DEF Objs
<1>4. CASE \E c \in Kids, p \in Parents : AddKid(c, p) \/ DropKid(c, p)
  <2>1. PICK c \in Kids, p \in Parents : AddKid(c, p) \/ DropKid(c, p)
    BY <1>4
  <2>2. p \in Objs
    BY DEF Objs
  <2>3. PICK K : /\ obj' = [obj EXCEPT ![p].kids = K]
                 /\ \/ K = obj[p].kids \cup {c} /\ obj[p].kids # NotLoaded
                       /\ (c \in queue.persists => ~Tracked(p))
                    \/ K = obj[p].kids \ {c} /\ c \in KidsOf(p)
    BY <2>1 DEF AddKid, DropKid, Entangled
  <2>4. PICK y : y = [obj[p] EXCEPT !.kids = K]
    OBVIOUS
  <2>5. y.key = obj[p].key /\ y.fk = obj[p].fk /\ y.kids = K
    BY <1>1, <2>2, <2>4 DEF ObjState
  <2>6. obj' = [obj EXCEPT ![p] = y]
    BY <2>3, <2>4
  <2>7. obj'[p] = y /\ \A x \in Objs : x # p => obj'[x] = obj[x]
    BY <1>1, <2>2, <2>6 DEF Objects
  <2>8. \A x \in Objs : Same(obj, obj', x) /\ (x # p => KidsOf(x)' = KidsOf(x))
    BY <2>5, <2>7 DEF Same, KidsOf
  <2>9. Tracked(p) => KidsOf(p)' \cap queue.persists = {}
    <3>1. KidsOf(p)' = IF K = NotLoaded THEN {} ELSE K
      BY <2>2, <2>5, <2>7 DEF KidsOf
    <3>2. ASSUME Tracked(p) PROVE \A x \in KidsOf(p)' : x \notin queue.persists
      <4>1. obj[p].kids # NotLoaded
        BY <2>3 DEF KidsOf
      <4>2. \A x \in obj[p].kids : x \notin queue.persists
        BY <1>1, <3>2, <4>1 DEF KidsOf
      <4>3. QED
        BY <2>3, <3>1, <3>2, <4>2
    <3>3. QED
      BY <3>2
  <2>10. QED
    BY <1>1, <1>2, <2>8, <2>9, CacheQuiet DEF Objs
<1>5. QED
  BY <1>3, <1>4

(* Calls that change the queues, and what is forgotten for them. *)
LEMMA CacheQueues ==
    ASSUME CacheInv, BufferInv', IsBuffer(Buffer)', ~Mixed,
           \/ \E o \in Objs : \/ PersistNew(o) \/ PersistTracked(o) \/ RemoveQueued(o)
                              \/ RemoveStored(o) \/ DeleteByKey(o) \/ Detach(o)
                              \/ LoadKnown(o)
           \/ \E b \in Bulks : QueueBulk(b)
    PROVE  CacheInv'
<1>1. /\ flush.pc = "idle" /\ outer # "broken"
      /\ UNCHANGED <<rows, work, nextKey, outer, onEnd, flush, obj>>
  BY DEF PersistNew, PersistTracked, RemoveQueued, RemoveStored, DeleteByKey, Detach, LoadKnown,
         QueueBulk, Call, txVars, flushVars
<1>2. /\ Honest(idmap, snap, obj, work)
      /\ queue.persists = {o \in Objs : st[o] = "NEW"}
      /\ \A o \in queue.persists : o \in Objs /\ snap[o] = NoSnap /\ obj[o].key = 0
  BY <1>1, IdleFacts
<1>3. /\ \A d \in queue.deletes : DeleteFits(d)
      /\ \A p \in Parents : Tracked(p) => KidsOf(p) \cap queue.persists = {}
      /\ \A b \in queue.bulks : b.of \cap queue.persists = {}
      /\ IsBuffer(Buffer)
  BY DEF CacheInv, QueueInv
<1>4. st \in [Objs -> States] /\ queue \in [persists : SUBSET Objs, deletes : SUBSET Deletes,
                                            bulks : SUBSET Bulks]
  BY <1>3, BufferIs DEF CacheInv, BufferInv, BufferTypes
<1>5. /\ \A o \in Objs : Same(obj, obj', o)
      /\ \A p \in Parents : KidsOf(p)' = KidsOf(p) /\ p \in Objs
  BY <1>1 DEF Same, KidsOf, Objs
<1>6. ASSUME NEW o \in Objs, PersistNew(o) PROVE CacheInv'
  <2>1. /\ snap' = snap /\ idmap' = idmap
        /\ st' = [st EXCEPT ![o] = "NEW"]
        /\ queue' = [queue EXCEPT !.persists = queue.persists \cup {o}]
        /\ obj[o].key = 0
        /\ ~\E p \in Parents : Tracked(p) /\ o \in KidsOf(p)
        /\ ~\E b \in queue.bulks : o \in b.of
    BY <1>6 DEF PersistNew
  <2>2. /\ queue'.persists = queue.persists \cup {o}
        /\ queue'.deletes = queue.deletes /\ queue'.bulks = queue.bulks
    BY <1>4, <2>1
  <2>3. queue'.persists = {x \in Objs : st'[x] = "NEW"}
    BY <1>2, <1>4, <2>1, <2>2
  <2>4. snap[o] = NoSnap
    <3>1. ASSUME snap[o] # NoSnap PROVE FALSE
      <4>1. PICK e \in ToSet(idmap) : e.obj = o
        BY <1>3, <3>1, BufferIs
      <4>2. e.key = 0 /\ e.key \in DOMAIN work
        BY <1>2, <2>1, <4>1 DEF Honest
      <4>3. QED
        BY <1>1, <4>2, IdleFacts
    <3>2. QED
      BY <3>1
  <2>5. \A x \in queue'.persists : snap'[x] = NoSnap /\ obj[x].key = 0
    BY <1>2, <2>1, <2>2, <2>4
  <2>6. \A p \in Parents : snap'[p] # NoSnap => KidsOf(p)' \cap queue'.persists = {}
    BY <1>3, <1>5, <2>1, <2>2 DEF Tracked
  <2>7. \A b \in queue'.bulks : b.of \cap queue'.persists = {}
    BY <1>3, <2>1, <2>2
  <2>8. Honest(idmap', snap', obj, work)
    BY <1>2, <2>1
  <2>9. \A d \in queue'.deletes : DeleteFits(d)
    BY <1>3, <2>2
  <2>10. QED
    BY <1>1, <1>5, <2>3, <2>5, <2>6, <2>7, <2>8, <2>9, CacheCaller
<1>7. ASSUME NEW o \in Objs, RemoveQueued(o) PROVE CacheInv'
  <2>1. /\ SetBuffer(Forget(Buffer, {o}))
        /\ queue' = [queue EXCEPT !.persists = queue.persists \ {o}]
    BY <1>7 DEF RemoveQueued
  <2>2. /\ queue'.persists = queue.persists \ {o}
        /\ queue'.deletes = queue.deletes /\ queue'.bulks = queue.bulks
    BY <1>4, <2>1
  <2>3. /\ ToSet(idmap') = {e \in ToSet(idmap) : e.obj \notin {o}}
        /\ \A x \in Objs : /\ snap'[x] = IF x \in {o} THEN NoSnap ELSE snap[x]
                           /\ st'[x] = IF x \in {o} THEN "DETACHED" ELSE st[x]
    BY <1>3, <2>1, CallForgets
  <2>4. QED
    BY <1>1, <1>3, <2>2, <2>3, CacheForgets
<1>8. ASSUME NEW o \in Objs, RemoveStored(o) PROVE CacheInv'
  <2>1. /\ queue' = [queue EXCEPT !.deletes = queue.deletes \cup
                       {[by |-> "key", key |-> obj[o].key, kid |-> o \in Kids]}]
        /\ o \notin queue.persists /\ obj[o].key # 0
    BY <1>8 DEF RemoveStored
  <2>2. /\ queue'.persists = queue.persists \ {o} /\ queue'.bulks = queue.bulks
        /\ queue'.deletes = queue.deletes \cup
                              {[by |-> "key", key |-> obj[o].key, kid |-> o \in Kids]}
    BY <1>4, <2>1
  <2>3. /\ ToSet(idmap') = {e \in ToSet(idmap) : e.obj \notin {o}}
        /\ \A x \in Objs : /\ snap'[x] = IF x \in {o} THEN NoSnap ELSE snap[x]
                           /\ x \in {o} => st'[x] # "NEW"
                           /\ x \notin {o} => st'[x] = st[x]
    BY <1>3, <1>8, CallRemoves
  <2>4. \A d \in queue'.deletes : DeleteFits(d)
    BY <1>1, <2>1, <2>2, NewDelete
  <2>5. QED
    BY <1>1, <2>2, <2>3, <2>4, CacheForgets
<1>9. ASSUME NEW o \in Objs, DeleteByKey(o) PROVE CacheInv'
  <2>0. PICK S : S = {}
    OBVIOUS
  <2>1. /\ queue' = [queue EXCEPT !.deletes = queue.deletes \cup
                       {[by |-> "key", key |-> obj[o].key, kid |-> o \in Kids]}]
        /\ obj[o].key # 0 /\ snap' = snap /\ idmap' = idmap /\ st' = st
    BY <1>9 DEF DeleteByKey, bufVars
  <2>2. /\ queue'.persists = queue.persists \ S /\ queue'.bulks = queue.bulks
        /\ queue'.deletes = queue.deletes \cup
                              {[by |-> "key", key |-> obj[o].key, kid |-> o \in Kids]}
    BY <1>4, <2>0, <2>1
  <2>3. /\ ToSet(idmap') = {e \in ToSet(idmap) : e.obj \notin S}
        /\ \A x \in Objs : /\ snap'[x] = IF x \in S THEN NoSnap ELSE snap[x]
                           /\ x \in S => st'[x] # "NEW"
                           /\ x \notin S => st'[x] = st[x]
    BY <2>0, <2>1
  <2>4. \A d \in queue'.deletes : DeleteFits(d)
    BY <1>1, <2>1, <2>2, NewDelete
  <2>5. QED
    BY <1>1, <2>2, <2>3, <2>4, CacheForgets
<1>10. ASSUME NEW o \in Objs, Detach(o) PROVE CacheInv'
  <2>1. PICK S : S = {o} \cup KidsOf(o)
    OBVIOUS
  <2>2. /\ SetBuffer(Forget(Buffer, S))
        /\ queue' = [queue EXCEPT !.persists = queue.persists \ S]
    BY <1>10, <2>1 DEF Detach
  <2>3. /\ queue'.persists = queue.persists \ S
        /\ queue'.deletes = queue.deletes /\ queue'.bulks = queue.bulks
    BY <1>4, <2>2
  <2>4. /\ ToSet(idmap') = {e \in ToSet(idmap) : e.obj \notin S}
        /\ \A x \in Objs : /\ snap'[x] = IF x \in S THEN NoSnap ELSE snap[x]
                           /\ st'[x] = IF x \in S THEN "DETACHED" ELSE st[x]
    BY <1>3, <2>2, CallForgets
  <2>5. QED
    BY <1>1, <1>3, <2>3, <2>4, CacheForgets
<1>11. ASSUME NEW o \in Objs, LoadKnown(o) PROVE CacheInv'
  <2>1. snap' = snap /\ st' = st /\ ToSet(idmap') = ToSet(idmap)
    BY <1>3, <1>11, KnownBuffer
  <2>2. queue' = queue
    BY <1>11 DEF LoadKnown
  <2>3. /\ ToSet(idmap') = {e \in ToSet(idmap) : e.obj \notin {}}
        /\ \A x \in Objs : /\ snap'[x] = IF x \in {} THEN NoSnap ELSE snap[x]
                           /\ x \in {} => st'[x] # "NEW"
                           /\ x \notin {} => st'[x] = st[x]
        /\ queue'.persists = queue.persists \ {}
    BY <2>1, <2>2
  <2>4. QED
    BY <1>1, <1>3, <2>2, <2>3, CacheForgets
<1>12. ASSUME NEW b \in Bulks, QueueBulk(b) PROVE CacheInv'
  <2>1. /\ queue' = [queue EXCEPT !.bulks = queue.bulks \cup {b}]
        /\ queue.persists \cap b.of = {} /\ snap' = snap /\ idmap' = idmap /\ st' = st
    BY <1>12 DEF QueueBulk, bufVars
  <2>2. /\ queue'.bulks = queue.bulks \cup {b}
        /\ queue'.deletes = queue.deletes /\ queue'.persists = queue.persists
    BY <1>4, <2>1
  <2>3. \A x \in queue'.bulks : x.of \cap queue'.persists = {}
    BY <1>3, <2>1, <2>2
  <2>4. /\ queue'.persists = {x \in Objs : st'[x] = "NEW"}
        /\ \A x \in queue'.persists : snap'[x] = NoSnap /\ obj[x].key = 0
        /\ \A p \in Parents : snap'[p] # NoSnap => KidsOf(p)' \cap queue'.persists = {}
        /\ \A d \in queue'.deletes : DeleteFits(d)
        /\ Honest(idmap', snap', obj, work)
    BY <1>2, <1>3, <1>5, <2>1, <2>2 DEF Tracked
  <2>5. QED
    BY <1>1, <1>5, <2>3, <2>4, CacheCaller
<1>13. ASSUME NEW o \in Objs, PersistTracked(o) PROVE CacheInv'
  <2>0. PICK S, D : S = {} /\ D = CancelQueuedDelete(o)
    OBVIOUS
  <2>1. queue' = [queue EXCEPT !.deletes = D] /\ snap' = snap /\ idmap' = idmap /\ st' = st
    BY <1>13, <2>0 DEF PersistTracked, bufVars
  <2>2. /\ queue'.persists = queue.persists \ S /\ queue'.bulks = queue.bulks
        /\ queue'.deletes = D /\ D \subseteq queue.deletes
    BY <1>4, <2>0, <2>1 DEF CancelQueuedDelete
  <2>3. /\ ToSet(idmap') = {e \in ToSet(idmap) : e.obj \notin S}
        /\ \A x \in Objs : /\ snap'[x] = IF x \in S THEN NoSnap ELSE snap[x]
                           /\ x \in S => st'[x] # "NEW"
                           /\ x \notin S => st'[x] = st[x]
    BY <2>0, <2>1
  <2>4. \A d \in queue'.deletes : DeleteFits(d)
    BY <1>3, <2>2
  <2>5. QED
    BY <1>1, <2>2, <2>3, <2>4, CacheForgets
<1>14. QED
  BY <1>6, <1>7, <1>8, <1>9, <1>10, <1>11, <1>12, <1>13

(* Calls that track objects that have a row. *)
LEMMA CacheLoads ==
    ASSUME CacheInv, BufferInv', IsBuffer(Buffer)', ~Mixed, NEW o \in Objs,
           PersistKnown(o) \/ MergeObject(o) \/ LoadRow(o)
    PROVE  CacheInv'
<1>1. /\ flush.pc = "idle" /\ outer # "broken"
      /\ UNCHANGED <<rows, work, nextKey, outer, onEnd, flush>>
  BY DEF PersistKnown, MergeObject, LoadRow, Call, txVars, flushVars
<1>2. /\ Then = obj /\ obj \in Objects /\ RealIn(obj, work)
      /\ \A x \in queue.persists : x \in Objs /\ obj[x].key = 0
      /\ \A k \in DOMAIN work : k # 0
  BY <1>1, IdleFacts
<1>3. BufferInv /\ IsBuffer(Buffer)
  BY DEF CacheInv
<1>4. queue \in [persists : SUBSET Objs, deletes : SUBSET Deletes, bulks : SUBSET Bulks]
  BY DEF CacheInv, BufferInv, BufferTypes
<1>5. \A p \in Objs : KidsOf(p) \in SUBSET Kids
  BY <1>2, ObjectFields DEF KidsOf
<1>6. \A p \in Parents : p \in Objs /\ p \notin Kids
  BY WriteBufferAssumption DEF Objs
<1>7. CASE PersistKnown(o)
  <2>1. /\ SameAsRow(o) /\ KidsOf(o) \cap queue.persists = {} /\ obj' = obj
        /\ queue' = [queue EXCEPT !.deletes = CancelQueuedDelete(o)]
    BY <1>7 DEF PersistKnown
  <2>2. /\ queue'.persists = queue.persists /\ queue'.bulks = queue.bulks
        /\ queue'.deletes \subseteq queue.deletes
    BY <1>4, <2>1 DEF CancelQueuedDelete
  <2>3. PICK v : (\A x \in Objs : v[x] = obj[x].val) /\ Grown(Buffer, Buffer', obj, {o}, v)
    BY <1>3, <1>7, CallBuffers
  <2>4. \A x \in {o} : /\ obj[x].key \in Live(work)
                       /\ v[x] \in {Sentinel, work[obj[x].key].val}
    BY <2>1, <2>3 DEF SameAsRow
  <2>5. /\ \A x \in Objs : Same(obj, obj', x) /\ obj[x].key = obj[x].key
        /\ \A p \in Parents : KidsOf(p)' = KidsOf(p)
        /\ \A p \in Parents \cap {o} : KidsOf(p)' \cap queue.persists = {}
    BY <2>1 DEF Same, KidsOf
  <2>6. {o} \in SUBSET Objs
    OBVIOUS
  <2>7. QED
    BY <1>1, <2>2, <2>3, <2>4, <2>5, <2>6, CacheGrows
<1>8. CASE MergeObject(o)
  <2>1. /\ obj' = obj /\ queue' = queue
        /\ \A x \in {o} \cup KidsOf(o) : obj[x].key \in Live(work)
    BY <1>8 DEF MergeObject
  <2>2. PICK S : S = {o} \cup KidsOf(o)
    OBVIOUS
  <2>3. PICK v : (\A x \in Objs : v[x] = Sentinel) /\ Grown(Buffer, Buffer', obj, S, v)
    BY <1>3, <1>8, <2>2, CallBuffers
  <2>4. S \in SUBSET Objs /\ \A x \in S : x \in Objs
    BY <1>5, <2>2 DEF Objs
  <2>5. \A x \in S : /\ obj[x].key \in Live(work)
                     /\ v[x] \in {Sentinel, work[obj[x].key].val}
    BY <2>1, <2>2, <2>3, <2>4
  <2>6. \A x \in S : x \notin queue.persists
    BY <1>2, <2>5 DEF Live
  <2>7. /\ \A x \in Objs : Same(obj, obj', x) /\ obj[x].key = obj[x].key
        /\ \A p \in Parents : KidsOf(p)' = KidsOf(p)
    BY <2>1 DEF Same, KidsOf
  <2>8. \A p \in Parents \cap S : KidsOf(p)' \cap queue.persists = {}
    BY <1>5, <1>6, <2>2, <2>6, <2>7
  <2>9. queue'.persists = queue.persists /\ queue'.bulks = queue.bulks
        /\ queue'.deletes \subseteq queue.deletes
    BY <2>1
  <2>10. QED
    BY <1>1, <2>3, <2>4, <2>5, <2>7, <2>8, <2>9, CacheGrows
<1>9. CASE LoadRow(o)
  <2>1. queue' = queue /\ obj[o].key \in Live(work)
    BY <1>9 DEF LoadRow
  <2>2. PICK os : os = obj'
    OBVIOUS
  <2>3. PICK k : k = obj[o].key
    OBVIOUS
  <2>4. PICK x : x = [key |-> k, val |-> work[k].val, fk |-> work[k].fk,
                      kids |-> IF o \in Parents THEN NotLoaded ELSE {}]
    OBVIOUS
  <2>5. k \in DOMAIN work /\ k # 0 /\ os[o] = x /\ \A y \in Objs : y # o => os[y] = obj[y]
    BY <1>3, <1>9, <2>2, <2>3, <2>4, RowLoaded
  <2>6. /\ x.key = k /\ x.val = work[k].val /\ x.fk = work[k].fk
        /\ o \in Parents => x.kids = NotLoaded
    BY <2>4
  <2>7. PICK v : (\A y \in Objs : v[y] = os[y].val) /\ Grown(Buffer, Buffer', os, {o}, v)
    BY <1>3, <1>9, <2>2, CallBuffers
  <2>8. obj[o].fk = work[k].fk
    BY <1>2, <2>3, <2>5 DEF RealIn
  <2>9. \A y \in Objs : Same(obj, os, y) /\ os[y].key = obj[y].key
    BY <2>3, <2>5, <2>6, <2>8 DEF Same
  <2>10. \A p \in Parents \ {o} : KidsOf(p)' = KidsOf(p)
    BY <1>6, <2>2, <2>5 DEF KidsOf
  <2>11. \A p \in Parents \cap {o} : KidsOf(p)' \cap queue.persists = {}
    BY <1>6, <2>2, <2>5, <2>6 DEF KidsOf
  <2>12. \A y \in {o} : /\ obj[y].key \in Live(work)
                        /\ v[y] \in {Sentinel, work[obj[y].key].val}
    BY <2>1, <2>3, <2>5, <2>6, <2>7
  <2>13. /\ {o} \in SUBSET Objs /\ queue'.persists = queue.persists
         /\ queue'.bulks = queue.bulks /\ queue'.deletes \subseteq queue.deletes
    BY <2>1
  <2>14. \A y \in Objs : Same(obj, obj', y)
    BY <2>2, <2>9
  <2>15. QED
    BY <1>1, <2>7, <2>9, <2>10, <2>11, <2>12, <2>13, <2>14, CacheGrows
<1>10. QED
  BY <1>7, <1>8, <1>9

-----------------------------------------------------------------------------
(* The caller's transaction *)

(* It begins, is committed or rolled back. *)
LEMMA CacheOuter ==
    ASSUME CacheInv, BufferInv', IsBuffer(Buffer)', OuterBegin \/ OuterCommit \/ OuterRollback
    PROVE  CacheInv'
<1>1. /\ flush.pc = "idle" /\ UNCHANGED <<flush, queue, nextKey>>
  BY DEF OuterBegin, OuterCommit, OuterRollback, Call, flushVars
<1>2. /\ Then = obj /\ Then' = obj' /\ ThenRows = work /\ ThenRows' = work' /\ RunCache'
      /\ obj \in Objects /\ onEnd \in Seq(Ends)
  BY <1>1 DEF Then, ThenRows, RunCache, CacheInv, BufferInv, BufferTypes
<1>3. QueueInv /\ MapInv /\ BufferInv /\ IsBuffer(Buffer)
  BY DEF CacheInv
<1>4. /\ queue.persists = {o \in Objs : st[o] = "NEW"}
      /\ \A o \in queue.persists : /\ o \in Objs /\ snap[o] = NoSnap /\ obj[o].key = 0
                                   /\ RunEnds(obj, onEnd)[o].key = 0
      /\ \A d \in queue.deletes : DeleteFits(d)
      /\ \A p \in Parents : Tracked(p) => KidsOf(p) \cap queue.persists = {}
      /\ \A b \in queue.bulks : b.of \cap queue.persists = {}
      /\ \A i \in DOMAIN onEnd : \A o \in onEnd[i].persists : obj[o].key # 0
  BY <1>2, <1>3 DEF QueueInv, QueuedNew
<1>5. ASSUME OuterBegin PROVE CacheInv'
  <2>1. /\ outer = "none" /\ outer' = "open"
        /\ UNCHANGED <<obj, rows, work, onEnd, snap, idmap, st>>
    BY <1>5 DEF OuterBegin, bufVars
  <2>2. /\ \A o \in queue.persists : QueuedNew(o)'
        /\ \A d \in queue.deletes : DeleteFits(d)'
        /\ \A p \in Parents : Tracked(p)' = Tracked(p) /\ KidsOf(p)' = KidsOf(p)
    BY <1>1, <1>2, <1>4, <2>1 DEF QueuedNew, DeleteFits, Tracked, KidsOf
  <2>3. QueueInv'
    BY <1>1, <1>2, <1>4, <2>1, <2>2 DEF QueueInv
  <2>4. MapInv'
    BY <1>1, <1>2, <1>3, <2>1 DEF MapInv
  <2>5. QED
    BY <1>2, <2>3, <2>4 DEF CacheInv
<1>6. ASSUME OuterCommit PROVE CacheInv'
  <2>1. /\ outer = "open" /\ outer' = "none" /\ onEnd' = <<>> /\ rows' = work
        /\ UNCHANGED <<obj, work, snap, idmap, st>>
    BY <1>6 DEF OuterCommit, bufVars
  <2>2. \A o \in queue.persists : QueuedNew(o)'
    BY <1>2, <1>4, <2>1, RunEndsEmpty DEF QueuedNew
  <2>3. /\ \A d \in queue.deletes : DeleteFits(d)'
        /\ \A p \in Parents : Tracked(p)' = Tracked(p) /\ KidsOf(p)' = KidsOf(p)
    BY <1>1, <1>4, <2>1 DEF DeleteFits, Tracked, KidsOf
  <2>4. DOMAIN onEnd' = {}
    BY <2>1
  <2>5. QueueInv'
    BY <1>1, <1>4, <2>1, <2>2, <2>3, <2>4 DEF QueueInv
  <2>6. MapInv'
    BY <1>1, <1>2, <1>3, <2>1 DEF MapInv
  <2>7. QED
    BY <1>2, <2>5, <2>6 DEF CacheInv
<1>7. ASSUME OuterRollback PROVE CacheInv'
  <2>1. /\ outer \in {"open", "broken"} /\ outer' = "none" /\ onEnd' = <<>>
        /\ work' = rows /\ rows' = rows /\ obj' = RunEnds(obj, onEnd)
    BY <1>7 DEF OuterRollback
  <2>2. \/ onEnd = <<>> /\ snap' = snap /\ idmap' = idmap /\ st' = st
        \/ /\ ToSet(idmap') = {} /\ \A o \in Objs : snap'[o] = NoSnap
           /\ \A o \in Objs : st'[o] = IF \E i \in DOMAIN onEnd : o \in onEnd[i].persists
                                       THEN "DETACHED" ELSE st[o]
    BY <1>3, <1>7, EndBuffer
  <2>3. \A o \in queue.persists : snap'[o] = NoSnap
    BY <1>4, <2>2
  <2>4. \A o \in queue.persists : QueuedNew(o)'
    BY <1>2, <1>4, <2>1, <2>3, RunEndsEmpty DEF QueuedNew
  <2>5. queue.persists = {o \in Objs : st'[o] = "NEW"}
    <3>1. \A o \in Objs : st'[o] = "NEW" <=> st[o] = "NEW"
      BY <1>4, <2>2
    <3>2. QED
      BY <1>4, <3>1
  <2>6. \A d \in queue.deletes : DeleteFits(d)'
    <3>1. Among(rows, work)
      BY <1>2, <1>3 DEF BufferInv, ThenInv
    <3>2. QED
      BY <1>1, <1>4, <2>1, <3>1 DEF DeleteFits, Among
  <2>7. \A p \in Parents : Tracked(p)' => KidsOf(p)' \cap queue.persists = {}
    <3>1. PICK os : os = obj'
      OBVIOUS
    <3>2. \A p \in Objs : os[p].kids = obj[p].kids
      BY <1>2, <2>1, <3>1, RunEndsFacts
    <3>3. \A p \in Parents : p \in Objs /\ KidsOf(p)' = KidsOf(p)
      BY <3>1, <3>2 DEF KidsOf, Objs
    <3>4. \A p \in Parents : snap'[p] # NoSnap => snap[p] # NoSnap
      BY <2>2, <3>3
    <3>5. QED
      BY <1>4, <3>3, <3>4 DEF Tracked
  <2>8. DOMAIN onEnd' = {}
    BY <2>1
  <2>9. QueueInv'
    BY <1>1, <1>4, <2>4, <2>5, <2>6, <2>7, <2>8 DEF QueueInv
  <2>10. Honest(idmap', snap', obj', rows)
    <3>1. CASE onEnd = <<>> /\ snap' = snap /\ idmap' = idmap
      <4>1. obj' = obj
        BY <2>1, <3>1, RunEndsEmpty
      <4>2. outer # "broken" => rows = work
        BY <1>2, <1>3, <3>1 DEF BufferInv, ThenInv
      <4>3. QED
        BY <1>1, <1>2, <1>3, <3>1, <4>1, <4>2 DEF MapInv
    <3>2. CASE ToSet(idmap') = {}
      BY <3>2 DEF Honest
    <3>3. QED
      BY <2>2, <3>1, <3>2
  <2>11. MapInv'
    BY <1>2, <2>1, <2>10 DEF MapInv
  <2>12. QED
    BY <1>2, <2>9, <2>11 DEF CacheInv
<1>8. QED
  BY <1>5, <1>6, <1>7

-----------------------------------------------------------------------------
(* The start of a flush *)

(* Every edit and every queued object has its job. *)
LEMMA CacheBegin ==
    ASSUME CacheInv, BufferInv', FlushBegin
    PROVE  CacheInv'
<1>1. /\ flush.pc = "idle" /\ outer # "broken"
      /\ flush' = [pc |-> "run", todo |-> Batches, visited |-> {}, pre |-> Captured,
                   expanded |-> FALSE, altered |-> {}, start |-> work, goal |-> Goal]
      /\ UNCHANGED <<rows, work, nextKey, outer, onEnd, obj, queue, snap, idmap, st>>
  BY DEF FlushBegin, Idle, txVars, bufVars
<1>2. /\ flush'.pc = "run" /\ flush'.todo = Batches /\ flush'.visited = {}
      /\ flush'.altered = {} /\ flush'.pre = Captured /\ flush'.start = work
  BY <1>1
<1>3. /\ Honest(idmap, snap, obj, work)
      /\ BufferTypes /\ obj \in Objects /\ work \in Rows /\ RealIn(obj, work)
      /\ Then = obj /\ ThenRows = work
      /\ queue.persists = {o \in Objs : st[o] = "NEW"}
      /\ \A o \in queue.persists : o \in Objs /\ snap[o] = NoSnap /\ obj[o].key = 0
      /\ \A k \in DOMAIN work : k \in Nat /\ k # 0
  BY <1>1, IdleFacts
<1>4. QueueInv /\ IsBuffer(Buffer) /\ onEnd \in Seq(Ends)
  BY DEF CacheInv, BufferInv, BufferTypes
<1>5. PICK r : r = Restore(obj, Captured)
  OBVIOUS
<1>6. Then' = r /\ ThenRows' = work
  BY <1>1, <1>2, <1>5 DEF Then, ThenRows
<1>7. r \in Objects /\ \A o \in Objs : Same(obj, r, o)
  <2>1. /\ Captured \in Captures
        /\ \A o \in Objs : o \in DOMAIN Captured => Captured[o] = Columns(o)
    BY <1>3, BatchesAre
  <2>2. /\ r \in Objects
        /\ \A o \in Objs :
              /\ o \in DOMAIN Captured =>
                    r[o].key = Captured[o].key /\ r[o].fk = Captured[o].fk
              /\ o \notin DOMAIN Captured => r[o] = obj[o]
    BY <1>3, <1>5, <2>1, RestoreFacts
  <2>3. \A o \in Objs : o \in DOMAIN Captured =>
           Captured[o].key = obj[o].key /\ Captured[o].fk = obj[o].fk
    BY <2>1 DEF Columns
  <2>4. QED
    BY <2>2, <2>3 DEF Same
<1>8. \A o \in Objs : RunEnds(r, onEnd)[o].key = RunEnds(obj, onEnd)[o].key
  BY <1>3, <1>4, <1>7, RunEndsFacts DEF Same
<1>9. QueueInv'
  <2>1. \A o \in queue.persists : QueuedNew(o)'
    BY <1>1, <1>3, <1>4, <1>6, <1>7, <1>8 DEF QueueInv, QueuedNew, Same
  <2>2. /\ \A d \in queue.deletes : DeleteFits(d)'
        /\ \A p \in Parents : Tracked(p)' = Tracked(p) /\ KidsOf(p)' = KidsOf(p)
    BY <1>1, <1>4 DEF QueueInv, DeleteFits, Tracked, KidsOf
  <2>3. \A i \in DOMAIN onEnd : \A o \in onEnd[i].persists : r[o].key # 0
    <3>1. \A i \in DOMAIN onEnd : \A o \in onEnd[i].persists : obj[o].key # 0
      BY <1>3, <1>4 DEF QueueInv
    <3>2. \A i \in DOMAIN onEnd : onEnd[i] \in Ends
      BY <1>4, ElementOfSeq, LenProperties
    <3>3. QED
      BY <1>7, <3>1, <3>2 DEF Ends, Same
  <2>4. QED
    BY <1>1, <1>4, <1>6, <2>1, <2>2, <2>3 DEF QueueInv
<1>10. \A e \in ToSet(idmap) : e.obj \in Objs /\ snap[e.obj] # NoSnap
  <2>1. idmap \in Seq(Entries)
    BY <1>4, BufferIs
  <2>2. \A e \in ToSet(idmap) : e \in Entries
    BY <2>1 DEF ToSet
  <2>3. QED
    BY <1>4, <2>2, BufferIs DEF Entries
<1>11. MapInv'
  <2>1. Honest(idmap, snap, r, work)
    BY <1>3, <1>7, <1>10 DEF Honest, Same
  <2>2. QED
    BY <1>1, <1>6, <2>1 DEF MapInv
<1>12. PICK B : B = Batches
  OBVIOUS
<1>13. InOrder(B) /\ \A x : PendIn(B, x) <=> \E n \in 1..10 : x \in Batch(n)
  BY <1>3, <1>12, BatchesFacts
<1>14. \A x : Pend(x)' <=> PendIn(B, x)
  BY <1>2, <1>12 DEF Pend, PendIn
<1>15. \A j : PendIn(B, j) => JobFits(j)
  <2> SUFFICES ASSUME NEW j, NEW n \in 1..10, j \in Batch(n) PROVE JobFits(j)
    BY <1>13
  <2>1. CASE n = 1 \/ n = 2
    BY <2>1 DEF Batch, Jobs, JobFits
  <2>2. CASE n = 3 \/ n = 4
    BY <2>2 DEF Batch, Jobs, JobFits
  <2>3. CASE n = 5
    <3>1. CASE j.op = "orphan"
      BY <3>1 DEF JobFits
    <3>2. CASE j.op # "orphan"
      <4>1. PICK p \in Parents : \E a \in AddedKids(p) : j = [op |-> "added", of |-> a, under |-> p]
        BY <2>3, <3>2 DEF Batch, CollectionDiffs, Jobs
      <4>2. PICK c \in AddedKids(p) : j = [op |-> "added", of |-> c, under |-> p]
        BY <4>1
      <4>3. c \notin queue.persists
        BY <1>4, <4>2 DEF QueueInv, AddedKids
      <4>4. QED
        BY <4>2, <4>3 DEF JobFits
    <3>3. QED
      BY <3>1, <3>2
  <2>4. CASE n = 6
    BY <2>4 DEF Batch, JobFits
  <2>5. CASE n = 7 \/ n = 8
    BY <2>5 DEF Batch, JobFits
  <2>6. CASE n = 9 \/ n = 10
    BY <2>6 DEF Batch, JobFits
  <2>7. QED
    BY <2>1, <2>2, <2>3, <2>4, <2>5, <2>6
<1>16. \A e \in ToSet(idmap) : EntryFits(e)'
  <2> SUFFICES ASSUME NEW e \in ToSet(idmap) PROVE EntryFits(e)'
    OBVIOUS
  <2>1. PICK o : o = e.obj
    OBVIOUS
  <2>2. o \in Objs /\ Tracked(o)
    BY <1>10, <2>1 DEF Tracked
  <2>3. PICK u : u = [op |-> "update", of |-> o]
    OBVIOUS
  <2>4. u \in Batch(1) \/ u \in Batch(2)
    BY <2>2, <2>3 DEF Batch, Jobs, Objs
  <2>5. PendIn(B, u)
    BY <1>13, <2>4
  <2>6. Pend([op |-> "update", of |-> e.obj])'
    BY <1>14, <2>1, <2>3, <2>5
  <2>7. QED
    BY <1>1, <1>2, <1>3, <2>6 DEF EntryFits, Honest
<1>17. \A o \in queue.persists : QueuedFits(o)'
  <2> SUFFICES ASSUME NEW o \in queue.persists PROVE QueuedFits(o)'
    OBVIOUS
  <2>1. o \in Objs /\ obj[o].key = 0 /\ obj[o].fk = 0
    BY <1>3 DEF RealIn
  <2>2. PICK u : u = [op |-> "insert", of |-> o]
    OBVIOUS
  <2>3. u \in Batch(3) \/ u \in Batch(4)
    BY <2>1, <2>2 DEF Batch, Jobs, Objs
  <2>4. PendIn(B, u)
    BY <1>13, <2>3
  <2>5. Pend([op |-> "insert", of |-> o])'
    BY <1>14, <2>2, <2>4
  <2>6. \A d \in queue.deletes : d.key # 0
    <3>1. \A d \in queue.deletes : d.key \in 1 .. nextKey - 1
      BY <1>4 DEF QueueInv, DeleteFits
    <3>2. QED
      BY <3>1
  <2>7. QED
    BY <1>1, <2>1, <2>5, <2>6 DEF QueuedFits
<1>18. RunCache'
  <2>1. /\ \A i \in DOMAIN B : \A j \in B[i] : JobFits(j)
    BY <1>15 DEF PendIn
  <2>2. \A j : JobFits(j)' <=> JobFits(j)
    BY <1>1 DEF JobFits
  <2>3. flush'.todo = B /\ InOrder(B)
    BY <1>2, <1>12, <1>13
  <2>4. QED
    BY <1>1, <1>16, <1>17, <2>1, <2>2, <2>3 DEF RunCache
<1>19. IsBuffer(Buffer)'
  BY <1>1, <1>4 DEF Buffer
<1>20. QED
  BY <1>9, <1>11, <1>18, <1>19 DEF CacheInv

-----------------------------------------------------------------------------
(* What a job leaves *)

(* The fields of a flush that jobs set. *)
LEMMA FlushFields ==
    ASSUME IsFlush(flush), NEW t, NEW v, NEW e, NEW a
    PROVE  /\ flush' = [flush EXCEPT !.todo = t] \/ flush' = [flush EXCEPT !.todo = t, !.expanded = e]
                => flush'.todo = t /\ flush'.visited = flush.visited /\ flush'.altered = flush.altered
           /\ flush' = [flush EXCEPT !.todo = t, !.visited = v]
                => flush'.todo = t /\ flush'.visited = v /\ flush'.altered = flush.altered
           /\ flush' = [flush EXCEPT !.todo = t, !.altered = a]
                => flush'.todo = t /\ flush'.visited = flush.visited /\ flush'.altered = a
           /\ flush' = [[flush EXCEPT !.todo = t, !.visited = v] EXCEPT !.altered = a]
                => flush'.todo = t /\ flush'.visited = v /\ flush'.altered = a
<1>1. PICK pc, todo, visited, pre, expanded, altered, start, goal :
         flush = [pc |-> pc, todo |-> todo, visited |-> visited, pre |-> pre,
                  expanded |-> expanded, altered |-> altered, start |-> start, goal |-> goal]
  BY DEF IsFlush
<1>2. flush.visited = visited /\ flush.altered = altered
  BY <1>1
<1>3. flush' = [flush EXCEPT !.todo = t]
        => flush'.todo = t /\ flush'.visited = flush.visited /\ flush'.altered = flush.altered
  BY <1>1, <1>2
<1>4. flush' = [flush EXCEPT !.todo = t, !.expanded = e]
        => flush'.todo = t /\ flush'.visited = flush.visited /\ flush'.altered = flush.altered
  BY <1>1, <1>2
<1>5. flush' = [flush EXCEPT !.todo = t, !.visited = v]
        => flush'.todo = t /\ flush'.visited = v /\ flush'.altered = flush.altered
  BY <1>1, <1>2
<1>6. flush' = [flush EXCEPT !.todo = t, !.altered = a]
        => flush'.todo = t /\ flush'.visited = flush.visited /\ flush'.altered = a
  BY <1>1, <1>2
<1>7. flush' = [[flush EXCEPT !.todo = t, !.visited = v] EXCEPT !.altered = a]
        => flush'.todo = t /\ flush'.visited = v /\ flush'.altered = a
  BY <1>1, <1>2
<1>8. QED
  BY <1>3, <1>4, <1>5, <1>6, <1>7

(* A job's part in the invariant: what is left to show of each.            *)
LEMMA CacheJob ==
    ASSUME CacheInv, BufferInv', JobStep, IsBuffer(Buffer)', NEW j, Running(j),
           NEW S \in SUBSET JobsOn(DOMAIN flush.pre), flush'.todo = Rest(j, S),
           \A x \in S : Rank(x) = 0 /\ JobFits(x),
           \A k \in DOMAIN work' : k \in DOMAIN work \/ k = nextKey,
           ToSet(idmap') \subseteq ToSet(idmap),
           \A o \in Objs : /\ snap'[o] # NoSnap => snap[o] # NoSnap
                           /\ st'[o] = st[o] \/ (snap[o] # NoSnap /\ st'[o] # "NEW"),
           flush'.altered = {} => flush.altered = {} /\ \A o \in Objs : snap'[o] = snap[o],
           \A e \in ToSet(idmap') : EntryFits(e)',
           \A o \in queue.persists : QueuedFits(o)'
    PROVE  CacheInv'
<1>1. QueueInv /\ MapInv /\ BufferInv /\ RunCache
  BY DEF CacheInv
<1>2. /\ flush.pc = "run" /\ flush'.pc = "run" /\ UNCHANGED <<rows, outer, onEnd, queue>>
      /\ nextKey' >= nextKey /\ nextKey \in Nat /\ nextKey' \in Nat
      /\ Among(work, work')
      /\ \A o \in Objs : obj'[o].kids = obj[o].kids
  <2>1. nextKey \in Nat /\ nextKey' \in Nat
    <3>1. nextKey \in 1 .. MaxKey + 1 /\ nextKey' \in 1 .. MaxKey + 1
      BY <1>1 DEF JobStep, BufferInv, BufferTypes
    <3>2. QED
      BY <3>1
  <2>2. QED
    BY <2>1 DEF JobStep
<1>3. PICK r, s : r = Then /\ s = Then'
  OBVIOUS
<1>4. /\ r \in Objects /\ s \in Objects /\ onEnd \in Seq(Ends)
      /\ ThenRows = flush.start /\ ThenRows' = flush.start
      /\ \A o \in Objs : Same(r, s, o)
  BY <1>1, <1>3, ThenStays DEF BufferInv, BufferTypes
<1>5. \A o \in Objs : RunEnds(s, onEnd)[o].key = RunEnds(r, onEnd)[o].key
  BY <1>4, RunEndsFacts DEF Same
<1>6. QueueInv'
  <2>1. /\ queue.persists = {o \in Objs : st[o] = "NEW"}
        /\ \A o \in queue.persists : /\ o \in Objs /\ snap[o] = NoSnap /\ r[o].key = 0
                                     /\ RunEnds(r, onEnd)[o].key = 0
    BY <1>1, <1>3 DEF QueueInv, QueuedNew
  <2>2. queue.persists = {o \in Objs : st'[o] = "NEW"}
    <3>1. \A o \in Objs : st'[o] = "NEW" <=> st[o] = "NEW"
      BY <2>1
    <3>2. QED
      BY <2>1, <3>1
  <2>3. \A o \in queue.persists : QueuedNew(o)'
    BY <1>2, <1>3, <1>4, <1>5, <2>1 DEF QueuedNew, Same
  <2>4. \A d \in queue.deletes : DeleteFits(d)'
    <3> SUFFICES ASSUME NEW d \in queue.deletes PROVE DeleteFits(d)'
      OBVIOUS
    <3>1. DeleteFits(d)
      BY <1>1 DEF QueueInv
    <3>2. d.key \in 1 .. nextKey - 1
      BY <3>1 DEF DeleteFits
    <3>3. d.key \in 1 .. nextKey' - 1 /\ d.key # nextKey
      BY <1>2, <3>2
    <3>4. d.key \in DOMAIN work' => d.key \in DOMAIN work /\ work'[d.key].by = work[d.key].by
      BY <1>2, <3>3 DEF Among
    <3>5. QED
      BY <3>1, <3>3, <3>4 DEF DeleteFits
  <2>5. \A p \in Parents : Tracked(p)' => KidsOf(p)' \cap queue.persists = {}
    <3>1. \A p \in Parents : p \in Objs /\ (Tracked(p)' => Tracked(p))
      BY DEF Tracked, Objs
    <3>2. \A p \in Parents : KidsOf(p)' = KidsOf(p)
      BY <1>2, <3>1 DEF KidsOf
    <3>3. QED
      BY <1>1, <3>1, <3>2 DEF QueueInv
  <2>6. \A i \in DOMAIN onEnd : \A o \in onEnd[i].persists : s[o].key # 0
    <3>1. \A i \in DOMAIN onEnd : \A o \in onEnd[i].persists : r[o].key # 0
      BY <1>1, <1>3 DEF QueueInv
    <3>2. \A i \in DOMAIN onEnd : onEnd[i] \in Ends
      BY <1>4, ElementOfSeq, LenProperties
    <3>3. QED
      BY <1>4, <3>1, <3>2 DEF Ends, Same
  <2>7. QED
    BY <1>1, <1>2, <1>3, <2>2, <2>3, <2>4, <2>5, <2>6 DEF QueueInv
<1>7. MapInv'
  <2>1. outer # "broken"
    BY <1>1, <1>2 DEF BufferInv, RunInv
  <2>2. ASSUME flush'.altered = {} PROVE Honest(idmap', snap', s, flush.start)
    <3>1. flush.altered = {} /\ \A o \in Objs : snap'[o] = snap[o]
      BY <2>2
    <3>2. Honest(idmap, snap, r, flush.start)
      BY <1>1, <1>3, <1>4, <2>1, <3>1 DEF MapInv
    <3>3. \A e \in ToSet(idmap') : e \in ToSet(idmap) /\ e.obj \in Objs
      BY BufferNow
    <3>4. QED
      BY <1>4, <3>1, <3>2, <3>3 DEF Honest, Same
  <2>3. QED
    BY <1>2, <1>3, <1>4, <2>1, <2>2 DEF MapInv
<1>8. RunCache'
  <2>1. /\ flush.todo \in Seq(SUBSET JobsOn(DOMAIN flush.pre)) /\ flush.todo # <<>>
        /\ j \in Head(flush.todo) /\ InOrder(flush.todo)
    BY <1>1, <1>2 DEF Running, BufferInv, RunInv, RunCache
  <2>2. PICK J, t : J = JobsOn(DOMAIN flush.pre) /\ t = Rest(j, S)
    OBVIOUS
  <2>3. InOrder(t) /\ \A x : PendIn(t, x) => x \in S \/ PendIn(flush.todo, x)
    <3>1. /\ flush.todo \in Seq(SUBSET J) /\ flush.todo # <<>> /\ j \in Head(flush.todo)
          /\ InOrder(flush.todo) /\ S \in SUBSET J /\ \A x \in S : Rank(x) = 0
      BY <2>1, <2>2
    <3>2. InOrder(t) /\ Left(j, S, t)
      BY <2>2, <3>1, JobsLeft
    <3>3. QED
      BY <3>2 DEF Left
  <2>4. \A x : JobFits(x)' <=> JobFits(x)
    BY <1>2 DEF JobFits
  <2>5. \A i \in DOMAIN flush.todo : \A x \in flush.todo[i] : JobFits(x)
    BY <1>1, <1>2 DEF RunCache
  <2>6. \A i \in DOMAIN t : \A x \in t[i] : JobFits(x)
    BY <2>3, <2>5 DEF PendIn
  <2>7. flush'.todo = t
    BY <2>2
  <2>8. QED
    BY <1>2, <2>3, <2>4, <2>6, <2>7 DEF RunCache
<1>9. QED
  BY <1>6, <1>7, <1>8 DEF CacheInv

(* What is left to do after a job, and what has been done before it.       *)
LEMMA PendLeft ==
    ASSUME CacheInv, NEW j, Running(j), NEW S \in SUBSET JobsOn(DOMAIN flush.pre),
           flush'.todo = Rest(j, S), \A x \in S : Rank(x) = 0
    PROVE  /\ \A x : Pend(x) /\ x # j => Pend(x)'
           /\ Pend(j) /\ JobFits(j)
           /\ \A x : Pend(x) => Rank(j) <= Rank(x)
<1>1. /\ flush.todo \in Seq(SUBSET JobsOn(DOMAIN flush.pre)) /\ flush.todo # <<>>
      /\ j \in Head(flush.todo) /\ InOrder(flush.todo)
      /\ \A i \in DOMAIN flush.todo : \A x \in flush.todo[i] : JobFits(x)
  BY DEF CacheInv, Running, BufferInv, RunInv, RunCache
<1>2. PICK J, t : J = JobsOn(DOMAIN flush.pre) /\ t = Rest(j, S)
  OBVIOUS
<1>3. /\ \A x : PendIn(flush.todo, x) /\ x # j => PendIn(t, x)
      /\ \A x : PendIn(flush.todo, x) => Rank(j) <= Rank(x)
      /\ PendIn(flush.todo, j)
  <2>1. /\ flush.todo \in Seq(SUBSET J) /\ flush.todo # <<>> /\ j \in Head(flush.todo)
        /\ InOrder(flush.todo) /\ S \in SUBSET J /\ \A x \in S : Rank(x) = 0
    BY <1>1, <1>2
  <2>2. Left(j, S, t)
    BY <1>2, <2>1, JobsLeft
  <2>3. QED
    BY <2>2 DEF Left
<1>4. \A x : (Pend(x) <=> PendIn(flush.todo, x)) /\ (Pend(x)' <=> PendIn(t, x))
  BY <1>2 DEF Pend, PendIn
<1>5. JobFits(j)
  BY <1>1, <1>3 DEF PendIn
<1>6. QED
  BY <1>3, <1>4, <1>5

(* A job leaves the updates and inserts that are to be done, but itself;   *)
(* there is none any more when it is no write.                             *)
LEMMA PendKept ==
    ASSUME CacheInv, NEW j, Running(j), NEW S \in SUBSET JobsOn(DOMAIN flush.pre),
           flush'.todo = Rest(j, S), \A x \in S : Rank(x) = 0
    PROVE  /\ JobFits(j)
           /\ \A o : Pend([op |-> "update", of |-> o]) /\ (j.op # "update" \/ j.of # o)
                        => Pend([op |-> "update", of |-> o])'
           /\ \A o : Pend([op |-> "insert", of |-> o]) /\ (j.op # "insert" \/ j.of # o)
                        => Pend([op |-> "insert", of |-> o])'
           /\ Rank(j) # 0 => \A o : /\ ~Pend([op |-> "update", of |-> o])
                                    /\ ~Pend([op |-> "insert", of |-> o])
<1>1. /\ \A x : Pend(x) /\ x # j => Pend(x)'
      /\ Pend(j) /\ JobFits(j)
      /\ \A x : Pend(x) => Rank(j) <= Rank(x)
  BY PendLeft
<1>2. ASSUME NEW o, NEW op \in {"update", "insert"}, Pend([op |-> op, of |-> o]),
             j.op # op \/ j.of # o
      PROVE  Pend([op |-> op, of |-> o])'
  <2>1. PICK x : x = [op |-> op, of |-> o]
    OBVIOUS
  <2>2. x # j
    BY <1>2, <2>1
  <2>3. Pend(x)'
    BY <1>1, <1>2, <2>1, <2>2
  <2>4. QED
    BY <2>1, <2>3
<1>3. ASSUME Rank(j) # 0, NEW o, NEW op \in {"update", "insert"}
      PROVE  ~Pend([op |-> op, of |-> o])
  <2>1. PICK x : x = [op |-> op, of |-> o]
    OBVIOUS
  <2>2. Rank(x) = 0
    BY <1>3, <2>1 DEF Rank
  <2>3. Rank(j) \in Nat
    BY RankIs
  <2>4. ~(Rank(j) <= Rank(x))
    BY <1>3, <2>2, <2>3
  <2>5. QED
    BY <1>1, <2>1, <2>4
<1>4. QED
  BY <1>1, <1>2, <1>3

(* What an object that is written looks like then, and its row.            *)
Written(o, fk, k) ==
    /\ DOMAIN work' = DOMAIN work \cup {k}
    /\ work'[k].val = obj[o].val /\ work'[k].state = "live"
    /\ \A x \in DOMAIN work : x # k => work'[x] = work[x]
    /\ obj'[o].key = k /\ obj'[o].val = obj[o].val /\ obj'[o].fk = fk
    /\ \A x \in Objs : x # o => obj'[x] = obj[x]
    /\ obj[o].key = 0 => k = nextKey
    /\ obj[o].key # 0 => k = obj[o].key
    /\ k # 0
    /\ \A x \in Objs : x # o /\ obj[x].key # 0 => obj[x].key \in DOMAIN work /\ obj[x].key # k
    /\ \A x \in DOMAIN work' : x \in DOMAIN work \/ x = nextKey

(* This is what a save leaves. *)
LEMMA SaveIs ==
    ASSUME BufferInv, flush.pc = "run", NEW o \in Objs, NEW fk, Save(o, fk),
           NEW k, k = IF obj[o].key = 0 THEN nextKey ELSE obj[o].key
    PROVE  Written(o, fk, k)
<1>1. /\ BufferTypes /\ work \in Rows /\ obj \in Objects /\ RealIn(obj, work)
      /\ nextKey \in 1 .. MaxKey + 1
  BY DEF BufferInv, BufferTypes, RunInv
<1>2. DOMAIN work \subseteq 1 .. nextKey - 1
  BY <1>1, RowsAre
<1>3. nextKey \notin 1 .. nextKey - 1 /\ nextKey # 0 /\ 0 \notin 1 .. nextKey - 1
  BY <1>1
<1>4. obj[o].key # 0 => obj[o].key \in DOMAIN work /\ work[obj[o].key].by = o
  BY <1>1 DEF RealIn
<1> DEFINE row == [val |-> obj[o].val, fk |-> fk,
                   by |-> IF obj[o].key = 0 THEN o ELSE work[k].by, state |-> "live"]
<1>5. /\ work' = [x \in DOMAIN work \cup {k} |-> IF x # k THEN work[x] ELSE row]
      /\ obj' = [obj EXCEPT ![o].key = k, ![o].fk = fk]
  BY DEF Save
<1>6. row.val = obj[o].val /\ row.state = "live"
  OBVIOUS
<1> HIDE DEF row
<1>7. /\ DOMAIN work' = DOMAIN work \cup {k} /\ work'[k] = row
      /\ \A x \in DOMAIN work : x # k => work'[x] = work[x]
  BY <1>5
<1>8. PICK y : y = [[obj[o] EXCEPT !.key = k] EXCEPT !.fk = fk]
  OBVIOUS
<1>9. y.key = k /\ y.fk = fk /\ y.val = obj[o].val
  <2>1. PICK x \in ObjState : x = obj[o]
    BY <1>1, ObjectFields
  <2>2. PICK z : z = [x EXCEPT !.key = k]
    OBVIOUS
  <2>3. PICK a, v, f, c : x = [key |-> a, val |-> v, fk |-> f, kids |-> c]
    BY DEF ObjState
  <2>4. z = [key |-> k, val |-> v, fk |-> f, kids |-> c]
    BY <2>2, <2>3
  <2>5. y = [z EXCEPT !.fk = fk]
    BY <1>8, <2>1, <2>2
  <2>6. y = [key |-> k, val |-> v, fk |-> fk, kids |-> c]
    BY <2>4, <2>5
  <2>7. x.val = v
    BY <2>3
  <2>8. y.key = k /\ y.fk = fk /\ y.val = v
    BY <2>6
  <2>9. QED
    BY <2>1, <2>7, <2>8
<1>10. obj'[o] = y /\ \A x \in Objs : x # o => obj'[x] = obj[x]
  <2>1. obj' = [obj EXCEPT ![o] = y]
    BY <1>1, <1>5, <1>8 DEF Objects
  <2>2. QED
    BY <1>1, <2>1 DEF Objects
<1>11. \A x \in Objs : x # o /\ obj[x].key # 0 => obj[x].key \in DOMAIN work /\ obj[x].key # k
  <2>1. ASSUME NEW x \in Objs, x # o, obj[x].key # 0
        PROVE  obj[x].key \in DOMAIN work /\ obj[x].key # k
    <3>1. obj[x].key \in DOMAIN work /\ work[obj[x].key].by = x
      BY <1>1, <2>1 DEF RealIn
    <3>2. QED
      BY <1>2, <1>3, <1>4, <2>1, <3>1
  <2>2. QED
    BY <2>1
<1>12. k # 0 /\ (k \in DOMAIN work \/ k = nextKey)
  BY <1>3, <1>4
<1>13. QED
  BY <1>6, <1>7, <1>9, <1>10, <1>11, <1>12 DEF Written

(* The part of a job that writes an object o. *)
LEMMA CacheSave ==
    ASSUME CacheInv, BufferInv', JobStep, IsBuffer(Buffer)', NEW j, Running(j),
           NEW S \in SUBSET JobsOn(DOMAIN flush.pre), flush'.todo = Rest(j, S),
           \A x \in S : Rank(x) = 0 /\ JobFits(x),
           NEW o \in Objs, o = j.of, NEW fk, Save(o, fk),
           flush'.visited \subseteq flush.visited \cup {o},
           idmap' = idmap, st' = st,
           \A x \in Objs : snap'[x] = snap[x] \/ (x = o /\ snap[x] # NoSnap /\ flush'.altered # {}),
           flush'.altered = {} => flush.altered = {},
           o \in queue.persists => \A d \in queue.deletes : d.key # fk
    PROVE  CacheInv'
<1>1. /\ BufferInv /\ IsBuffer(Buffer) /\ flush.pc = "run" /\ RunCache /\ QueueInv
      /\ UNCHANGED <<rows, outer, onEnd, queue>>
  BY DEF CacheInv, JobStep
<1>2. PICK k : k = IF obj[o].key = 0 THEN nextKey ELSE obj[o].key
  OBVIOUS
<1>3. PICK w, os : w = work' /\ os = obj'
  OBVIOUS
<1>4. /\ DOMAIN w = DOMAIN work \cup {k}
      /\ w[k].val = obj[o].val /\ w[k].state = "live"
      /\ \A x \in DOMAIN work : x # k => w[x] = work[x]
      /\ os[o].key = k /\ os[o].val = obj[o].val /\ os[o].fk = fk
      /\ \A x \in Objs : x # o => os[x] = obj[x]
      /\ obj[o].key = 0 => k = nextKey
      /\ obj[o].key # 0 => k = obj[o].key
      /\ k # 0
      /\ \A x \in Objs : x # o /\ obj[x].key # 0 => obj[x].key \in DOMAIN work /\ obj[x].key # k
      /\ \A x \in DOMAIN w : x \in DOMAIN work \/ x = nextKey
  <2>1. Written(o, fk, k)
    BY <1>1, <1>2, SaveIs
  <2>2. QED
    BY <1>3, <2>1 DEF Written
<1>5. /\ \A x : Pend([op |-> "update", of |-> x]) /\ x # o => Pend([op |-> "update", of |-> x])'
      /\ \A x : Pend([op |-> "insert", of |-> x]) /\ x # o => Pend([op |-> "insert", of |-> x])'
  <2>1. \A x \in S : Rank(x) = 0
    OBVIOUS
  <2>2. /\ \A x : Pend([op |-> "update", of |-> x]) /\ (j.op # "update" \/ j.of # x)
                    => Pend([op |-> "update", of |-> x])'
        /\ \A x : Pend([op |-> "insert", of |-> x]) /\ (j.op # "insert" \/ j.of # x)
                    => Pend([op |-> "insert", of |-> x])'
    BY <2>1, PendKept
  <2>3. QED
    BY <2>2
<1>6. \A d \in queue.deletes : d.key # nextKey
  <2>1. nextKey \in 1 .. MaxKey + 1
    BY <1>1 DEF BufferInv, BufferTypes
  <2>2. nextKey \notin 1 .. nextKey - 1
    BY <2>1
  <2>3. QED
    BY <1>1, <2>2 DEF QueueInv, DeleteFits
<1>7. \A e \in ToSet(idmap) : EntryFits(e)'
  <2> SUFFICES ASSUME NEW e \in ToSet(idmap) PROVE EntryFits(e)'
    OBVIOUS
  <2>1. EntryFits(e) /\ e.obj \in Objs
    <3>1. e \in ToSet(idmap')
      OBVIOUS
    <3>2. QED
      BY <1>1, <3>1, BufferNow DEF RunCache
  <2>2. PICK x : x = e.obj
    OBVIOUS
  <2>3. obj[x].key = e.key /\ e.key \in DOMAIN work /\ e.key # 0
    <3>1. \A a \in DOMAIN work : a # 0
      <4>1. BufferTypes /\ work \in Rows
        BY <1>1 DEF BufferInv, BufferTypes
      <4>2. DOMAIN work \subseteq 1 .. MaxKey
        BY <4>1, RowsAre
      <4>3. QED
        BY <4>2
    <3>2. QED
      BY <2>1, <2>2, <3>1 DEF EntryFits
  <2>4. CASE x = o
    <3>1. e.key = k /\ os[x].key = e.key /\ e.key \in DOMAIN w
      BY <1>4, <2>3, <2>4
    <3>2. w[e.key].state # "deleted" /\ os[x].val = w[e.key].val
      BY <1>4, <2>4, <3>1
    <3>3. QED
      BY <1>3, <2>2, <3>1, <3>2 DEF EntryFits
  <2>5. CASE x # o
    <3>1. os[x] = obj[x] /\ e.key # k /\ w[e.key] = work[e.key] /\ e.key \in DOMAIN w
      BY <1>4, <2>1, <2>2, <2>3, <2>5
    <3>2. snap'[x] = snap[x] /\ (x \notin flush.visited => x \notin flush'.visited)
      BY <2>1, <2>2, <2>5
    <3>3. Pend([op |-> "update", of |-> x]) => Pend([op |-> "update", of |-> x])'
      BY <1>5, <2>5
    <3>4. QED
      BY <1>3, <2>1, <2>2, <3>1, <3>2, <3>3 DEF EntryFits
  <2>6. QED
    BY <2>4, <2>5
<1>8. \A x \in queue.persists : QueuedFits(x)'
  <2> SUFFICES ASSUME NEW x \in queue.persists PROVE QueuedFits(x)'
    OBVIOUS
  <2>1. QueuedFits(x) /\ x \in Objs
    BY <1>1 DEF RunCache, QueueInv
  <2>2. CASE x = o
    <3>1. \A d \in queue.deletes : d.key # k /\ d.key # fk
      BY <1>4, <1>6, <2>1, <2>2 DEF QueuedFits
    <3>2. QED
      BY <1>1, <1>3, <1>4, <2>2, <3>1 DEF QueuedFits
  <2>3. CASE x # o
    <3>1. os[x] = obj[x]
      BY <1>4, <2>1, <2>3
    <3>2. obj[x].key = 0 => Pend([op |-> "insert", of |-> x])'
      BY <1>5, <2>1, <2>3 DEF QueuedFits
    <3>3. obj[x].key # 0 => w[obj[x].key] = work[obj[x].key]
      BY <1>4, <2>1, <2>3
    <3>4. QED
      BY <1>1, <1>3, <2>1, <3>1, <3>2, <3>3 DEF QueuedFits
  <2>4. QED
    BY <2>2, <2>3
<1>9. \A x \in DOMAIN work' : x \in DOMAIN work \/ x = nextKey
  BY <1>3, <1>4
<1>10. /\ \A x \in Objs : /\ snap'[x] # NoSnap => snap[x] # NoSnap
                          /\ st'[x] = st[x] \/ (snap[x] # NoSnap /\ st'[x] # "NEW")
       /\ flush'.altered = {} => flush.altered = {} /\ \A x \in Objs : snap'[x] = snap[x]
       /\ ToSet(idmap') \subseteq ToSet(idmap)
       /\ \A e \in ToSet(idmap') : EntryFits(e)'
  BY <1>7
<1>11. QED
  BY <1>8, <1>9, <1>10, CacheJob

(* What is found clean, or written before its turn, holds what its row does. *)
LEMMA CleanHolds ==
    ASSUME CacheInv, flush.pc = "run", NEW e \in ToSet(idmap),
           e.obj \in flush.visited \/ ~Edited(e.obj)
    PROVE  work[e.key].state = "live" => obj[e.obj].val = work[e.key].val
<1>1. EntryFits(e) /\ IsBuffer(Buffer) /\ obj \in Objects
  BY DEF CacheInv, RunCache, BufferInv, BufferTypes
<1>2. PICK o : o = e.obj
  OBVIOUS
<1>3. o \in Objs /\ snap[o] # NoSnap
  <2>1. idmap \in Seq(Entries)
    BY <1>1, BufferIs
  <2>2. e \in Entries
    BY <2>1 DEF ToSet
  <2>3. QED
    BY <1>1, <1>2, <2>2, BufferIs DEF Entries
<1>4. obj[o].val # Sentinel
  <2>1. obj[o].val \in Vals
    BY <1>1, <1>3, ObjectFields
  <2>2. QED
    BY <2>1, WriteBufferAssumption DEF Sentinel
<1>5. o \notin flush.visited => obj[o].val = snap[o].val
  BY <1>2, <1>3 DEF Edited, Tracked
<1>6. QED
  BY <1>1, <1>2, <1>4, <1>5 DEF EntryFits

(* The part of a job that writes nothing, or only takes orphans away. *)
LEMMA CacheStill ==
    ASSUME CacheInv, BufferInv', JobStep, NEW j, Running(j), flush'.todo = Rest(j, {}),
           idmap' = idmap, snap' = snap, st' = st, obj' = obj,
           flush'.altered = flush.altered,
           DOMAIN work' = DOMAIN work,
           \A k \in DOMAIN work : work'[k] = work[k] \/ work'[k].state = "orphaned",
           j.op # "insert",
           \A o \in Objs : snap[o] # NoSnap
                           /\ (o \in flush'.visited \/ (j.op = "update" /\ j.of = o))
                             => o \in flush.visited \/ ~Edited(o)
    PROVE  CacheInv'
<1>1. /\ BufferInv /\ IsBuffer(Buffer) /\ flush.pc = "run" /\ RunCache /\ QueueInv
      /\ UNCHANGED <<rows, outer, onEnd, queue>>
  BY DEF CacheInv, JobStep
<1>2. IsBuffer(Buffer)'
  BY <1>1 DEF Buffer
<1>3. PICK S : S = {} /\ S \in SUBSET JobsOn(DOMAIN flush.pre) /\ flush'.todo = Rest(j, S)
               /\ (\A x \in S : Rank(x) = 0 /\ JobFits(x)) /\ (\A x \in S : Rank(x) = 0)
  OBVIOUS
<1>4. /\ \A o : Pend([op |-> "update", of |-> o]) /\ (j.op # "update" \/ j.of # o)
                  => Pend([op |-> "update", of |-> o])'
      /\ \A o : Pend([op |-> "insert", of |-> o]) => Pend([op |-> "insert", of |-> o])'
  BY <1>3, PendKept
<1>5. PICK w : w = work'
  OBVIOUS
<1>6. \A e \in ToSet(idmap) : EntryFits(e)'
  <2> SUFFICES ASSUME NEW e \in ToSet(idmap) PROVE EntryFits(e)'
    OBVIOUS
  <2>1. EntryFits(e)
    BY <1>1 DEF RunCache
  <2>2. PICK o, k : o = e.obj /\ k = e.key
    OBVIOUS
  <2>3. /\ obj[o].key = k /\ k \in DOMAIN work /\ work[k].state # "deleted"
        /\ w[k] = work[k] \/ w[k].state = "orphaned"
    BY <1>5, <2>1, <2>2 DEF EntryFits
  <2>4. o \in Objs /\ snap[o] # NoSnap
    <3>1. idmap \in Seq(Entries)
      BY <1>1, BufferIs
    <3>2. e \in Entries
      BY <3>1 DEF ToSet
    <3>3. QED
      BY <1>1, <2>2, <3>2, BufferIs DEF Entries
  <2>5. CASE o \in flush.visited \/ ~Edited(o)
    <3>1. work[k].state = "live" => obj[o].val = work[k].val
      BY <1>1, <2>2, <2>5, CleanHolds
    <3>2. QED
      BY <1>5, <2>2, <2>3, <3>1 DEF EntryFits
  <2>6. CASE ~(o \in flush.visited \/ ~Edited(o))
    <3>1. o \notin flush'.visited /\ (j.op # "update" \/ j.of # o)
      BY <2>4, <2>6
    <3>2. Pend([op |-> "update", of |-> o]) => Pend([op |-> "update", of |-> o])'
      BY <1>4, <3>1
    <3>3. QED
      BY <1>5, <2>1, <2>2, <2>3, <3>1, <3>2 DEF EntryFits
  <2>7. QED
    BY <2>5, <2>6
<1>7. \A x \in queue.persists : QueuedFits(x)'
  <2> SUFFICES ASSUME NEW x \in queue.persists PROVE QueuedFits(x)'
    OBVIOUS
  <2>1. QueuedFits(x) /\ x \in Objs /\ RealIn(obj, work)
    BY <1>1 DEF RunCache, QueueInv, BufferInv, RunInv
  <2>2. obj[x].key # 0 => obj[x].key \in DOMAIN work
    BY <2>1 DEF RealIn
  <2>3. obj[x].key # 0 => w[obj[x].key] = work[obj[x].key] \/ w[obj[x].key].state = "orphaned"
    BY <1>5, <2>2
  <2>4. obj[x].key = 0 => Pend([op |-> "insert", of |-> x])'
    BY <1>4, <2>1 DEF QueuedFits
  <2>5. QED
    BY <1>1, <1>5, <2>1, <2>3, <2>4 DEF QueuedFits
<1>8. /\ \A k \in DOMAIN work' : k \in DOMAIN work \/ k = nextKey
      /\ \A o \in Objs : /\ snap'[o] # NoSnap => snap[o] # NoSnap
                         /\ st'[o] = st[o] \/ (snap[o] # NoSnap /\ st'[o] # "NEW")
      /\ flush'.altered = {} => flush.altered = {} /\ \A o \in Objs : snap'[o] = snap[o]
      /\ ToSet(idmap') \subseteq ToSet(idmap)
      /\ \A e \in ToSet(idmap') : EntryFits(e)'
  BY <1>6
<1>9. QED
  BY <1>2, <1>3, <1>7, <1>8, CacheJob

(* Objects found dirty, and objects that are queued, are written. *)
LEMMA CacheOwn ==
    ASSUME CacheInv, BufferInv', IsBuffer(Buffer)', NEW j, RunUpdate(j) \/ RunInsert(j)
    PROVE  CacheInv'
<1> DEFINE J == JobsOn(DOMAIN flush.pre)
<1>1. /\ Running(j) /\ flush.pc = "run"
      /\ UNCHANGED bufVars /\ idmap' = idmap /\ snap' = snap /\ st' = st
      /\ \/ j.op = "update" /\ (j.of \in flush.visited \/ ~Edited(j.of)) /\ Skip(j) /\ NoStatement
         \/ /\ j.op = "insert" \/ (j.op = "update" /\ Edited(j.of))
            /\ Save(j.of, obj[j.of].fk) /\ Visit(j, j.of, Cascade(j.of))
  BY DEF RunUpdate, RunInsert, Running, bufVars
<1>2. /\ BufferInv /\ JobStep /\ IsFlush(flush) /\ QueueInv /\ IsBuffer(Buffer) /\ RunCache
      /\ flush.pre \in Captures /\ obj \in Objects
      /\ \A o \in DOMAIN flush.pre : KidsOf(o) \subseteq DOMAIN flush.pre
  BY <1>1, RunOwn DEF CacheInv, BufferInv, BufferTypes, RunInv
<1>3. /\ j.of \in DOMAIN flush.pre /\ j.of \in Objs /\ j \in Head(flush.todo)
      /\ flush.todo \in Seq(SUBSET J) /\ flush.todo # <<>>
  <2>1. {} \in SUBSET J
    OBVIOUS
  <2>2. j \in J
    BY <1>1, <1>2, <2>1, JobFlush
  <2>3. QED
    BY <1>1, <1>2, <2>2, JobIs, RestoreFacts DEF Running, BufferInv, RunInv
<1>4. CASE j.op = "update" /\ (j.of \in flush.visited \/ ~Edited(j.of)) /\ Skip(j) /\ NoStatement
  <2>1. PICK t : t = Rest(j, {}) /\ flush' = [flush EXCEPT !.todo = t]
    BY <1>4 DEF Skip
  <2>2. /\ flush'.todo = Rest(j, {}) /\ flush'.visited = flush.visited
        /\ flush'.altered = flush.altered
    BY <1>2, <2>1, FlushFields
  <2>3. work' = work /\ obj' = obj
    BY <1>4 DEF NoStatement
  <2>4. j.op # "insert"
    BY <1>4
  <2>5. \A o \in Objs : snap[o] # NoSnap
                        /\ (o \in flush'.visited \/ (j.op = "update" /\ j.of = o))
                          => o \in flush.visited \/ ~Edited(o)
    BY <1>4, <2>2
  <2>6. /\ DOMAIN work' = DOMAIN work
        /\ \A k \in DOMAIN work : work'[k] = work[k] \/ work'[k].state = "orphaned"
    BY <2>3
  <2>7. QED
    BY <1>1, <1>2, <2>2, <2>3, <2>4, <2>5, <2>6, CacheStill
<1>5. CASE /\ j.op = "insert" \/ (j.op = "update" /\ Edited(j.of))
           /\ Save(j.of, obj[j.of].fk) /\ Visit(j, j.of, Cascade(j.of))
  <2>1. PICK o \in Objs : o = j.of
    BY <1>3
  <2>2. PICK S, t, v : /\ S = Cascade(o) /\ t = Rest(j, S) /\ v = flush.visited \cup {o}
                       /\ flush' = [flush EXCEPT !.todo = t, !.visited = v]
    BY <1>5, <2>1 DEF Visit
  <2>3. flush'.todo = Rest(j, S) /\ flush'.visited = v /\ flush'.altered = flush.altered
    BY <1>2, <2>2, FlushFields
  <2>4. \A c \in KidsOf(o) : c \in DOMAIN flush.pre /\ c \in Kids /\ o \in Parents
    <3>1. \A c \in Kids : KidsOf(c) = {}
      BY <1>2 DEF BufferInv, BufferTypes, KidsOf
    <3>2. KidsOf(o) \subseteq Kids
      BY <1>2, ObjectFields DEF KidsOf
    <3>3. QED
      BY <1>2, <1>3, <2>1, <3>1, <3>2 DEF Objs
  <2>5. S \in SUBSET J
    BY <2>2, <2>4 DEF Cascade, JobsOn
  <2>6. JobFits(j)
    <3>1. flush.todo \in Seq(SUBSET J) /\ j \in Head(flush.todo) /\ flush.todo # <<>>
      BY <1>3
    <3>2. Head(flush.todo) = flush.todo[1] /\ 1 \in DOMAIN flush.todo
      BY <3>1, LenProperties, EmptySeq
    <3>3. QED
      BY <1>1, <1>2, <3>1, <3>2 DEF RunCache
  <2>7. \A c \in KidsOf(o) : c \in queue.persists => o \in queue.persists
    <3>1. CASE j.op = "insert"
      BY <2>1, <2>6, <3>1 DEF JobFits
    <3>2. CASE Edited(j.of)
      <4>1. Tracked(o)
        BY <2>1, <3>2 DEF Edited
      <4>2. QED
        BY <1>2, <2>4, <4>1 DEF QueueInv
    <3>3. QED
      BY <1>5, <3>1, <3>2
  <2>8. \A x \in S : Rank(x) = 0 /\ JobFits(x)
    <3> SUFFICES ASSUME NEW x \in S PROVE Rank(x) = 0 /\ JobFits(x)
      OBVIOUS
    <3>1. PICK c \in KidsOf(o) : x = [op |-> "cascade", of |-> c, under |-> o]
      BY <2>2 DEF Cascade
    <3>2. QED
      BY <2>7, <3>1 DEF Rank, JobFits
  <2>9. PICK fk : fk = obj[o].fk /\ Save(o, fk)
    BY <1>5, <2>1
  <2>10. o \in queue.persists => \A d \in queue.deletes : d.key # fk
    <3>1. o \in queue.persists => QueuedFits(o)
      BY <1>1, <1>2 DEF RunCache
    <3>2. QED
      BY <2>9, <3>1 DEF QueuedFits
  <2>11. /\ flush'.visited \subseteq flush.visited \cup {o}
         /\ flush'.altered = {} => flush.altered = {}
         /\ \A x \in Objs : snap'[x] = snap[x] \/ (x = o /\ snap[x] # NoSnap /\ flush'.altered # {})
    BY <1>1, <2>2, <2>3
  <2>12. QED
    BY <1>1, <1>2, <2>1, <2>3, <2>5, <2>8, <2>9, <2>10, <2>11, CacheSave
<1>6. QED
  BY <1>1, <1>4, <1>5

(* Kids are written after their parents, unless they are clean or done. *)
LEMMA CacheKids ==
    ASSUME CacheInv, BufferInv', NEW j, RunCascade(j) \/ RunAdded(j)
    PROVE  CacheInv'
<1>1. PICK seen :
         /\ Running(j) /\ flush.pc = "run" /\ j.op \in {"cascade", "added"}
         /\ idmap' = idmap /\ st' = st
         /\ seen \subseteq flush.visited \cup {j.of}
         /\ \/ Skip(j) /\ NoStatement /\ UNCHANGED snap
            \/ SaveKid(j, seen)
  BY DEF RunCascade, RunAdded, Running
<1>2. /\ BufferInv /\ JobStep /\ IsFlush(flush) /\ QueueInv /\ IsBuffer(Buffer) /\ RunCache
  BY <1>1, RunKid DEF CacheInv, BufferInv, BufferTypes
<1>3. /\ IsBuffer(Buffer)'
      /\ \A o \in Objs :
            \/ snap'[o] = snap[o]
            \/ o = j.of /\ Tracked(o) /\ snap'[o] # NoSnap /\ flush'.altered # {}
  BY <1>2, KidBuffer
<1>4. PICK t : t = Rest(j, {})
  OBVIOUS
<1>5. j.op # "insert" /\ j.op # "update"
  BY <1>1
<1>6. CASE Skip(j) /\ NoStatement /\ UNCHANGED snap
  <2>1. flush' = [flush EXCEPT !.todo = t]
    BY <1>4, <1>6 DEF Skip
  <2>2. /\ flush'.todo = Rest(j, {}) /\ flush'.visited = flush.visited
        /\ flush'.altered = flush.altered
    BY <1>2, <1>4, <2>1, FlushFields
  <2>3. work' = work /\ obj' = obj /\ snap' = snap
    BY <1>6 DEF NoStatement
  <2>4. \A o \in Objs : snap[o] # NoSnap
                        /\ (o \in flush'.visited \/ (j.op = "update" /\ j.of = o))
                          => o \in flush.visited \/ ~Edited(o)
    BY <1>5, <2>2
  <2>5. /\ DOMAIN work' = DOMAIN work
        /\ \A k \in DOMAIN work : work'[k] = work[k] \/ work'[k].state = "orphaned"
    BY <2>3
  <2>6. QED
    BY <1>1, <1>2, <1>5, <2>2, <2>3, <2>4, <2>5, CacheStill
<1>7. CASE SaveKid(j, seen) /\ SkippedKid(j.of, j.under)
  <2>1. /\ flush' = [flush EXCEPT !.todo = t, !.visited = seen]
        /\ work' = work /\ obj' = obj /\ snap' = snap
    BY <1>4, <1>7 DEF SaveKid, NoStatement
  <2>2. flush'.todo = Rest(j, {}) /\ flush'.visited = seen /\ flush'.altered = flush.altered
    BY <1>2, <1>4, <2>1, FlushFields
  <2>3. ~Edited(j.of)
    BY <1>7 DEF SkippedKid
  <2>4. \A o \in Objs : snap[o] # NoSnap
                        /\ (o \in flush'.visited \/ (j.op = "update" /\ j.of = o))
                          => o \in flush.visited \/ ~Edited(o)
    BY <1>1, <1>5, <2>2, <2>3
  <2>5. /\ DOMAIN work' = DOMAIN work
        /\ \A k \in DOMAIN work : work'[k] = work[k] \/ work'[k].state = "orphaned"
    BY <2>1
  <2>6. QED
    BY <1>1, <1>2, <1>5, <2>1, <2>2, <2>4, <2>5, CacheStill
<1>8. CASE SaveKid(j, seen) /\ ~SkippedKid(j.of, j.under)
  <2>1. PICK fk, a : /\ fk = obj[j.under].key /\ Save(j.of, fk)
                     /\ a = IF Tracked(j.of) THEN flush.altered \cup {j.of} ELSE flush.altered
                     /\ flush' = [[flush EXCEPT !.todo = t, !.visited = seen] EXCEPT !.altered = a]
    <3>1. /\ Save(j.of, obj[j.under].key)
          /\ flush' = [[flush EXCEPT !.todo = Rest(j, {}), !.visited = seen] EXCEPT
                         !.altered = IF Tracked(j.of) THEN @ \cup {j.of} ELSE @]
      BY <1>8 DEF SaveKid
    <3>2. PICK f : f = [flush EXCEPT !.todo = t, !.visited = seen]
      OBVIOUS
    <3>3. f.altered = flush.altered
      BY <1>2, <3>2 DEF IsFlush
    <3>4. flush' = [f EXCEPT !.altered = IF Tracked(j.of) THEN f.altered \cup {j.of} ELSE f.altered]
      BY <1>4, <3>1, <3>2
    <3>5. QED
      BY <3>1, <3>2, <3>3, <3>4
  <2>2. flush'.todo = Rest(j, {}) /\ flush'.visited = seen /\ flush'.altered = a
    <3>1. flush' = [[flush EXCEPT !.todo = t, !.visited = seen] EXCEPT !.altered = a]
      BY <2>1
    <3>2. flush'.todo = t /\ flush'.visited = seen /\ flush'.altered = a
      BY <1>2, <3>1, FlushFields
    <3>3. QED
      BY <1>4, <3>2
  <2>3. PICK S : S = {} /\ S \in SUBSET JobsOn(DOMAIN flush.pre) /\ flush'.todo = Rest(j, S)
                 /\ (\A x \in S : Rank(x) = 0 /\ JobFits(x)) /\ (\A x \in S : Rank(x) = 0)
    BY <2>2
  <2>4. JobFits(j)
    BY <1>1, <2>3, PendKept
  <2>5. j.of \in Objs
    <3>1. j \in JobsOn(DOMAIN flush.pre)
      BY <1>1, <1>2, <2>3, JobFlush
    <3>2. QED
      BY <1>1, <3>1, JobIs DEF Objs
  <2>6. PICK o \in Objs : o = j.of /\ Save(o, fk)
    BY <2>1, <2>5
  <2>7. o \in queue.persists => \A d \in queue.deletes : d.key # fk
    <3>1. o \in queue.persists => j.under \in queue.persists
      BY <1>1, <2>4, <2>6 DEF JobFits
    <3>2. j.under \in queue.persists => QueuedFits(j.under)
      BY <1>1, <1>2 DEF RunCache
    <3>3. QED
      BY <2>1, <3>1, <3>2 DEF QueuedFits
  <2>8. /\ flush'.visited \subseteq flush.visited \cup {o}
        /\ flush'.altered = {} => flush.altered = {}
        /\ \A x \in Objs : snap'[x] = snap[x] \/ (x = o /\ snap[x] # NoSnap /\ flush'.altered # {})
    <3>1. flush'.altered = {} => flush.altered = {}
      BY <2>1, <2>2
    <3>2. QED
      BY <1>1, <1>3, <2>2, <2>6, <3>1 DEF Tracked
  <2>9. QED
    BY <1>1, <1>2, <1>3, <2>3, <2>6, <2>7, <2>8, CacheSave
<1>9. QED
  BY <1>1, <1>6, <1>7, <1>8

(* What Erase() does to a row. *)
LEMMA ErasedRows ==
    ASSUME BufferTypes, NEW S, NEW how \in {"orphaned", "deleted"}, Erase(S, how)
    PROVE  /\ DOMAIN work' = DOMAIN work
           /\ \A k \in DOMAIN work : work'[k] = work[k] \/ (k \in S /\ work'[k].state = how)
<1>1. \A k \in DOMAIN work : work[k] \in Row
  BY RowsAre DEF BufferTypes
<1>2. work' = [k \in DOMAIN work |->
                 IF k \in S /\ work[k].state = "live" THEN [work[k] EXCEPT !.state = how]
                 ELSE work[k]]
  BY DEF Erase
<1>3. \A r \in Row : [r EXCEPT !.state = how].state = how
  BY DEF Row
<1>4. QED
  BY <1>1, <1>2, <1>3

(* Orphans are taken away, deletes expanded. *)
LEMMA CacheOrphans ==
    ASSUME CacheInv, BufferInv', NEW j, RunOrphan(j) \/ RunExpand(j)
    PROVE  CacheInv'
<1>1. /\ Running(j) /\ j.op \in {"orphan", "expand"} /\ obj' = obj
      /\ UNCHANGED work \/ \E S : Erase(S, "orphaned")
      /\ \/ flush' = [flush EXCEPT !.todo = Rest(j, {})]
         \/ flush' = [flush EXCEPT !.todo = Rest(j, {}), !.expanded = TRUE]
      /\ idmap' = idmap /\ snap' = snap /\ st' = st
  BY DEF RunOrphan, RunExpand, Skip, bufVars, txVars
<1>2. BufferInv /\ BufferTypes /\ IsFlush(flush) /\ JobStep
  BY RunRemoval DEF CacheInv, BufferInv, BufferTypes
<1>3. PICK t, e : /\ t = Rest(j, {}) /\ e = TRUE
                  /\ \/ flush' = [flush EXCEPT !.todo = t]
                     \/ flush' = [flush EXCEPT !.todo = t, !.expanded = e]
  BY <1>1
<1>4. /\ flush'.todo = Rest(j, {}) /\ flush'.visited = flush.visited
      /\ flush'.altered = flush.altered
  BY <1>2, <1>3, FlushFields
<1>5. /\ DOMAIN work' = DOMAIN work
      /\ \A k \in DOMAIN work : work'[k] = work[k] \/ work'[k].state = "orphaned"
  BY <1>1, <1>2, ErasedRows
<1>6. /\ j.op # "insert"
      /\ \A o \in Objs : snap[o] # NoSnap
                         /\ (o \in flush'.visited \/ (j.op = "update" /\ j.of = o))
                           => o \in flush.visited \/ ~Edited(o)
  BY <1>1, <1>4
<1>7. QED
  BY <1>1, <1>2, <1>4, <1>5, <1>6, CacheStill

(* The part of a job that deletes rows and forgets the objects in X. *)
LEMMA CacheTaken ==
    ASSUME CacheInv, BufferInv', JobStep, NEW j, Running(j), flush'.todo = Rest(j, {}),
           NEW X, flush'.altered = flush.altered \cup X, obj' = obj,
           SetBuffer(Forget(Buffer, X)), \A o \in X : o \in Objs /\ snap[o] # NoSnap,
           DOMAIN work' = DOMAIN work, Rank(j) # 0,
           \A e \in ToSet(idmap) : e.obj \notin X => work'[e.key] = work[e.key],
           \A o \in queue.persists : obj[o].key # 0 => work'[obj[o].key] = work[obj[o].key]
    PROVE  CacheInv'
<1>1. /\ BufferInv /\ IsBuffer(Buffer) /\ flush.pc = "run" /\ RunCache /\ QueueInv
      /\ UNCHANGED <<rows, outer, onEnd, queue>>
  BY DEF CacheInv, JobStep
<1>2. /\ IsBuffer(Buffer)'
      /\ ToSet(idmap') = {e \in ToSet(idmap) : e.obj \notin X}
      /\ \A o \in Objs : /\ snap'[o] = IF o \in X THEN NoSnap ELSE snap[o]
                         /\ st'[o] = IF o \in X THEN "DETACHED" ELSE st[o]
  BY <1>1, CallForgets
<1>3. PICK S : S = {} /\ S \in SUBSET JobsOn(DOMAIN flush.pre) /\ flush'.todo = Rest(j, S)
               /\ (\A x \in S : Rank(x) = 0 /\ JobFits(x)) /\ (\A x \in S : Rank(x) = 0)
  OBVIOUS
<1>4. \A o : ~Pend([op |-> "update", of |-> o]) /\ ~Pend([op |-> "insert", of |-> o])
  BY <1>3, PendKept
<1>5. PICK w : w = work'
  OBVIOUS
<1>6. \A e \in ToSet(idmap') : EntryFits(e)'
  <2> SUFFICES ASSUME NEW e \in ToSet(idmap), e.obj \notin X PROVE EntryFits(e)'
    BY <1>2
  <2>1. EntryFits(e) /\ w[e.key] = work[e.key]
    BY <1>1, <1>5 DEF RunCache
  <2>2. work[e.key].state = "live" => obj[e.obj].val = work[e.key].val
    BY <1>4, <2>1 DEF EntryFits
  <2>3. QED
    BY <1>5, <2>1, <2>2 DEF EntryFits
<1>7. \A x \in queue.persists : QueuedFits(x)'
  <2> SUFFICES ASSUME NEW x \in queue.persists PROVE QueuedFits(x)'
    OBVIOUS
  <2>1. QueuedFits(x)
    BY <1>1 DEF RunCache
  <2>2. obj[x].key # 0 /\ w[obj[x].key] = work[obj[x].key]
    BY <1>4, <1>5, <2>1 DEF QueuedFits
  <2>3. QED
    BY <1>1, <1>5, <2>1, <2>2 DEF QueuedFits
<1>8. /\ \A k \in DOMAIN work' : k \in DOMAIN work \/ k = nextKey
      /\ \A o \in Objs : /\ snap'[o] # NoSnap => snap[o] # NoSnap
                         /\ st'[o] = st[o] \/ (snap[o] # NoSnap /\ st'[o] # "NEW")
      /\ flush'.altered = {} => flush.altered = {} /\ \A o \in Objs : snap'[o] = snap[o]
      /\ ToSet(idmap') \subseteq ToSet(idmap)
  BY <1>2
<1>9. QED
  BY <1>2, <1>3, <1>6, <1>7, <1>8, CacheJob

(* The kids of a parent, or the row with a key, are deleted. *)
LEMMA CacheDelete ==
    ASSUME CacheInv, BufferInv', NEW j, RunDelete(j)
    PROVE  CacheInv'
<1>1. PICK d, X, E :
         /\ d = j.what /\ X = EvictMatching(d)
         /\ E = IF d.by = "key" THEN {d.key} ELSE {k \in DOMAIN work : work[k].fk = d.key}
  OBVIOUS
<1>2. /\ Running(j) /\ flush.pc = "run" /\ j.op = "delete" /\ obj' = obj
      /\ Erase(E, "deleted") /\ SetBuffer(Forget(Buffer, X))
      /\ flush' = [flush EXCEPT !.todo = Rest(j, {}), !.altered = @ \cup X]
  BY <1>1 DEF RunDelete, Running
<1>3. /\ BufferInv /\ BufferTypes /\ IsFlush(flush) /\ JobStep /\ RealIn(obj, work)
      /\ IsBuffer(Buffer) /\ RunCache /\ QueueInv
  BY <1>2, RunRemoval DEF CacheInv, BufferInv, BufferTypes, RunInv
<1>4. PICK t, a : /\ t = Rest(j, {}) /\ a = flush.altered \cup X
                  /\ flush' = [flush EXCEPT !.todo = t, !.altered = a]
  BY <1>2
<1>5. flush'.todo = Rest(j, {}) /\ flush'.altered = flush.altered \cup X
  <2>1. flush' = [flush EXCEPT !.todo = t, !.altered = a]
    BY <1>4
  <2>2. flush'.todo = t /\ flush'.altered = a
    BY <1>3, <2>1, FlushFields
  <2>3. QED
    BY <1>4, <2>2
<1>6. /\ DOMAIN work' = DOMAIN work
      /\ \A k \in DOMAIN work : k \notin E => work'[k] = work[k]
  BY <1>2, <1>3, ErasedRows
<1>7. PICK S : S = {} /\ S \in SUBSET JobsOn(DOMAIN flush.pre) /\ flush'.todo = Rest(j, S)
               /\ (\A x \in S : Rank(x) = 0)
  BY <1>5
<1>8. JobFits(j) /\ Rank(j) # 0
  BY <1>2, <1>7, PendKept DEF Rank
<1>9. /\ d.by \in {"key", "home"} /\ d.key # 0
      /\ d.by = "key" /\ d.key \in DOMAIN work => (d.kid <=> work[d.key].by \in Kids)
      /\ d.by = "home" => d.kid
      /\ \A o \in queue.persists : d.key # obj[o].key /\ d.key # obj[o].fk
  <2>1. d \in queue.deletes \cup CascadeDeletes(queue.deletes)
    BY <1>1, <1>2, <1>8 DEF JobFits
  <2>2. /\ \A x \in queue.deletes : DeleteFits(x) /\ x \in Deletes
        /\ \A o \in queue.persists : QueuedFits(o)
    BY <1>2, <1>3 DEF QueueInv, RunCache, BufferTypes
  <2>3. \A x \in queue.deletes : x.key # 0 /\ \A o \in queue.persists : x.key # obj[o].key /\ x.key # obj[o].fk
    <3>1. \A k \in 1 .. nextKey - 1 : k # 0
      OBVIOUS
    <3>2. QED
      BY <2>2, <3>1 DEF DeleteFits, QueuedFits
  <2>4. CASE d \in queue.deletes
    BY <2>2, <2>3, <2>4 DEF DeleteFits, Deletes
  <2>5. CASE d \in CascadeDeletes(queue.deletes)
    <3>1. PICK x \in queue.deletes : d = [by |-> "home", key |-> x.key, kid |-> TRUE]
      BY <2>5 DEF CascadeDeletes
    <3>2. d.by = "home" /\ d.key = x.key /\ d.kid
      BY <3>1
    <3>3. QED
      BY <2>3, <3>2
  <2>6. QED
    BY <2>1, <2>4, <2>5
<1>10. \A o \in X : o \in Objs /\ snap[o] # NoSnap
  BY <1>1 DEF EvictMatching, Tracked
<1>11. \A e \in ToSet(idmap) : e.obj \notin X => work'[e.key] = work[e.key]
  <2> SUFFICES ASSUME NEW e \in ToSet(idmap), e.key \in E PROVE e.obj \in X
    <3>1. \A e \in ToSet(idmap) : e.key \in DOMAIN work
      BY <1>2, <1>3 DEF RunCache, EntryFits
    <3>2. QED
      BY <1>6, <3>1
  <2>1. obj[e.obj].key = e.key /\ e.key \in DOMAIN work
    BY <1>2, <1>3 DEF RunCache, EntryFits
  <2>2. PICK o : o = e.obj
    OBVIOUS
  <2>3. o \in Objs /\ snap[o] # NoSnap
    <3>1. idmap \in Seq(Entries)
      BY <1>3, BufferIs
    <3>2. e \in Entries
      BY <3>1 DEF ToSet
    <3>3. QED
      BY <1>3, <2>2, <3>2, BufferIs DEF Entries
  <2>4. e.key # 0
    <3>1. work \in Rows /\ BufferTypes
      BY <1>3 DEF BufferTypes
    <3>2. DOMAIN work \subseteq 1 .. MaxKey
      BY <3>1, RowsAre
    <3>3. QED
      BY <2>1, <3>2
  <2>5. obj[o].key = e.key /\ work[e.key].by = o /\ obj[o].fk = work[e.key].fk
    BY <1>3, <2>1, <2>2, <2>3, <2>4 DEF RealIn
  <2>6. CASE d.by = "key"
    <3>1. e.key = d.key
      BY <1>1, <2>6
    <3>2. d.kid <=> o \in Kids
      BY <1>9, <2>1, <2>5, <2>6, <3>1
    <3>3. QED
      BY <1>1, <2>2, <2>3, <2>5, <2>6, <3>1, <3>2 DEF EvictMatching, Tracked
  <2>7. CASE d.by = "home"
    <3>1. work[e.key].fk = d.key /\ d.kid /\ d.by # "key"
      BY <1>1, <1>9, <2>7
    <3>2. o \in Kids
      <4>1. o \notin Parents
        BY <1>3, <1>9, <2>1, <2>5, <3>1 DEF RealIn
      <4>2. QED
        BY <2>3, <4>1 DEF Objs
    <3>3. QED
      BY <1>1, <2>2, <2>3, <2>5, <3>1, <3>2 DEF EvictMatching, Tracked
  <2>8. QED
    BY <1>9, <2>6, <2>7
<1>12. \A o \in queue.persists : obj[o].key # 0 => work'[obj[o].key] = work[obj[o].key]
  <2> SUFFICES ASSUME NEW o \in queue.persists, obj[o].key # 0
               PROVE  obj[o].key \in DOMAIN work /\ obj[o].key \notin E
    BY <1>6
  <2>1. o \in Objs
    BY <1>3 DEF QueueInv
  <2>2. obj[o].key \in DOMAIN work /\ obj[o].fk = work[obj[o].key].fk
    BY <1>3, <2>1 DEF RealIn
  <2>3. QED
    BY <1>1, <1>9, <2>2
<1>13. QED
  BY <1>2, <1>3, <1>5, <1>6, <1>8, <1>10, <1>11, <1>12, CacheTaken

(* What bulk statements do to an entry and its row. *)
LEMMA BulkFits ==
    ASSUME CacheInv, NEW j, Running(j), j.op = "bulk", flush'.todo = Rest(j, {})
    PROVE  /\ Rank(j) # 0 /\ \A o \in queue.persists : o \notin j.what.of
           /\ \A e \in ToSet(idmap) :
                 /\ e.obj \in Objs /\ snap[e.obj] # NoSnap
                 /\ e.key \in DOMAIN work /\ work[e.key].by = e.obj
                 /\ work[e.key].state = "live" => (e.key \in BulkRows(j.what) <=> e.obj \in BulkTracked(j.what))
                 /\ e.key \in BulkRows(j.what) => e.obj \in BulkTracked(j.what)
           /\ \A o : ~Pend([op |-> "update", of |-> o]) /\ ~Pend([op |-> "insert", of |-> o])
<1>1. PICK b : b = j.what
  OBVIOUS
<1>2. /\ flush.pc = "run" /\ BufferTypes /\ work \in Rows /\ RealIn(obj, work) /\ IsBuffer(Buffer)
      /\ QueueInv /\ RunCache
  BY DEF CacheInv, BufferInv, BufferTypes, RunInv, Running
<1>3. PICK S : S = {} /\ S \in SUBSET JobsOn(DOMAIN flush.pre) /\ flush'.todo = Rest(j, S)
               /\ (\A x \in S : Rank(x) = 0)
  OBVIOUS
<1>4. Rank(j) # 0
  BY DEF Rank
<1>5. JobFits(j) /\ \A o : ~Pend([op |-> "update", of |-> o]) /\ ~Pend([op |-> "insert", of |-> o])
  BY <1>3, <1>4, PendKept
<1>6. b \in queue.bulks
  BY <1>1, <1>5 DEF JobFits
<1>7. \A o \in queue.persists : o \notin b.of
  BY <1>2, <1>6 DEF QueueInv
<1>8. ASSUME NEW e \in ToSet(idmap)
      PROVE  /\ e.obj \in Objs /\ snap[e.obj] # NoSnap
             /\ e.key \in DOMAIN work /\ work[e.key].by = e.obj
             /\ work[e.key].state = "live" => (e.key \in BulkRows(b) <=> e.obj \in BulkTracked(b))
             /\ e.key \in BulkRows(b) => e.obj \in BulkTracked(b)
  <2>1. EntryFits(e)
    BY <1>2 DEF RunCache
  <2>2. PICK o : o = e.obj
    OBVIOUS
  <2>3. o \in Objs /\ snap[o] # NoSnap
    <3>1. idmap \in Seq(Entries)
      BY <1>2, BufferIs
    <3>2. e \in Entries
      BY <3>1 DEF ToSet
    <3>3. QED
      BY <1>2, <2>2, <3>2, BufferIs DEF Entries
  <2>4. e.key \in DOMAIN work /\ e.key # 0 /\ obj[o].key = e.key
    <3>1. DOMAIN work \subseteq 1 .. MaxKey
      BY <1>2, RowsAre
    <3>2. e.key \in DOMAIN work /\ obj[o].key = e.key
      BY <2>1, <2>2 DEF EntryFits
    <3>3. QED
      BY <3>1, <3>2
  <2>5. work[e.key].by = o
    BY <1>2, <2>3, <2>4 DEF RealIn
  <2>6. work[e.key].state = "live" => obj[o].val = work[e.key].val
    BY <1>5, <2>1, <2>2 DEF EntryFits
  <2>7. e.key \in BulkRows(b) <=>
          e.key \in DOMAIN work /\ work[e.key].state = "live" /\ o \in b.of /\ work[e.key].val = b.from
    BY <2>5 DEF BulkRows, Live
  <2>8. o \in BulkTracked(b) <=> o \in b.of /\ obj[o].val = b.from
    BY <2>3 DEF BulkTracked, Tracked
  <2>9. QED
    BY <2>2, <2>3, <2>4, <2>5, <2>6, <2>7, <2>8
<1>9. QED
  BY <1>1, <1>4, <1>5, <1>7, <1>8

-----------------------------------------------------------------------------
(* Rows are deleted in bulk, and what is tracked with them is forgotten. *)
LEMMA CacheBulkDelete ==
    ASSUME CacheInv, BufferInv', NEW j, RunBulkDelete(j)
    PROVE  CacheInv'
<1>1. PICK X, E : X = BulkTracked(j.what) /\ E = BulkRows(j.what)
  OBVIOUS
<1>2. /\ Running(j) /\ flush.pc = "run" /\ j.op = "bulk" /\ obj' = obj
      /\ Erase(E, "deleted") /\ SetBuffer(Forget(Buffer, X))
      /\ flush' = [flush EXCEPT !.todo = Rest(j, {}), !.altered = @ \cup X]
  BY <1>1 DEF RunBulkDelete, Running
<1>3. /\ BufferInv /\ BufferTypes /\ IsFlush(flush) /\ JobStep /\ RealIn(obj, work)
      /\ QueueInv
  BY <1>2, RunRemoval DEF CacheInv, BufferInv, BufferTypes, RunInv
<1>4. PICK t, a : /\ t = Rest(j, {}) /\ a = flush.altered \cup X
                  /\ flush' = [flush EXCEPT !.todo = t, !.altered = a]
  BY <1>2
<1>5. flush'.todo = Rest(j, {}) /\ flush'.altered = flush.altered \cup X
  <2>1. flush' = [flush EXCEPT !.todo = t, !.altered = a]
    BY <1>4
  <2>2. flush'.todo = t /\ flush'.altered = a
    BY <1>3, <2>1, FlushFields
  <2>3. QED
    BY <1>4, <2>2
<1>6. /\ DOMAIN work' = DOMAIN work
      /\ \A k \in DOMAIN work : k \notin E => work'[k] = work[k]
  BY <1>2, <1>3, ErasedRows
<1>7. /\ Rank(j) # 0
      /\ \A o \in queue.persists : o \notin j.what.of
      /\ \A e \in ToSet(idmap) : e.key \in DOMAIN work /\ (e.key \in E => e.obj \in X)
  BY <1>1, <1>2, <1>5, BulkFits
<1>8. X \subseteq Objs /\ \A o \in X : snap[o] # NoSnap
  <2>1. {} \in SUBSET JobsOn(DOMAIN flush.pre)
    OBVIOUS
  <2>2. j \in JobsOn(DOMAIN flush.pre)
    BY <1>2, <1>3, <2>1, JobFlush
  <2>3. j.what \in Bulks
    BY <1>2, <2>2, JobIs
  <2>4. QED
    BY <1>1, <2>3, WriteBufferAssumption DEF BulkTracked, Tracked
<1>9. \A o \in queue.persists : obj[o].key # 0 => work'[obj[o].key] = work[obj[o].key]
  <2> SUFFICES ASSUME NEW o \in queue.persists, obj[o].key # 0
               PROVE  obj[o].key \in DOMAIN work /\ obj[o].key \notin E
    BY <1>6
  <2>1. o \in Objs
    BY <1>3 DEF QueueInv
  <2>2. obj[o].key \in DOMAIN work /\ work[obj[o].key].by = o
    BY <1>3, <2>1 DEF RealIn
  <2>3. QED
    BY <1>1, <1>7, <2>2 DEF BulkRows
<1>10. QED
  BY <1>2, <1>3, <1>5, <1>6, <1>7, <1>8, <1>9, CacheTaken

(* Values are changed in bulk, in rows and in what is tracked. *)
LEMMA CacheBulkUpdate ==
    ASSUME CacheInv, BufferInv', NEW j, RunBulkUpdate(j)
    PROVE  CacheInv'
<1>1. PICK b, X, E : b = j.what /\ X = BulkTracked(b) /\ E = BulkRows(b)
  OBVIOUS
<1>2. /\ Running(j) /\ flush.pc = "run" /\ j.op = "bulk"
      /\ work' = [k \in DOMAIN work |-> IF k \in E THEN [work[k] EXCEPT !.val = b.to] ELSE work[k]]
      /\ obj' = [o \in Objs |-> IF o \in X THEN [obj[o] EXCEPT !.val = b.to] ELSE obj[o]]
      /\ flush' = [flush EXCEPT !.todo = Rest(j, {}), !.altered = @ \cup X]
      /\ idmap' = idmap /\ st' = st
  BY <1>1 DEF RunBulkUpdate, Running
<1>3. /\ BufferInv /\ BufferTypes /\ IsFlush(flush) /\ JobStep /\ RealIn(obj, work)
      /\ QueueInv /\ RunCache /\ work \in Rows /\ obj \in Objects
  BY <1>2, RunValues DEF CacheInv, BufferInv, BufferTypes, RunInv
<1>4. PICK t, a : /\ t = Rest(j, {}) /\ a = flush.altered \cup X
                  /\ flush' = [flush EXCEPT !.todo = t, !.altered = a]
  BY <1>2
<1>5. /\ flush'.todo = Rest(j, {}) /\ flush'.altered = flush.altered \cup X
      /\ flush'.visited = flush.visited
  <2>1. flush' = [flush EXCEPT !.todo = t, !.altered = a]
    BY <1>4
  <2>2. flush'.todo = t /\ flush'.altered = a /\ flush'.visited = flush.visited
    BY <1>3, <2>1, FlushFields
  <2>3. QED
    BY <1>4, <2>2
<1>6. /\ \A o \in queue.persists : o \notin b.of
      /\ \A e \in ToSet(idmap) :
            /\ e.obj \in Objs /\ e.key \in DOMAIN work
            /\ work[e.key].state = "live" => (e.key \in E <=> e.obj \in X)
      /\ \A o : ~Pend([op |-> "update", of |-> o]) /\ ~Pend([op |-> "insert", of |-> o])
  BY <1>1, <1>2, <1>5, BulkFits
<1>7. /\ DOMAIN work' = DOMAIN work
      /\ \A k \in DOMAIN work : /\ work'[k].state = work[k].state
                                /\ work'[k].val = IF k \in E THEN b.to ELSE work[k].val
  <2>1. PICK v : v = b.to
    OBVIOUS
  <2>2. \A r \in Row : [r EXCEPT !.val = v].state = r.state /\ [r EXCEPT !.val = v].val = v
    BY DEF Row
  <2>3. \A k \in DOMAIN work : work[k] \in Row
    BY <1>3, RowsAre
  <2>4. QED
    BY <1>2, <2>1, <2>2, <2>3
<1>8. \A o \in Objs : /\ obj'[o].key = obj[o].key /\ obj'[o].fk = obj[o].fk
                      /\ obj'[o].val = IF o \in X THEN b.to ELSE obj[o].val
  <2>1. PICK v : v = b.to
    OBVIOUS
  <2>2. \A x \in ObjState : /\ [x EXCEPT !.val = v].key = x.key /\ [x EXCEPT !.val = v].fk = x.fk
                            /\ [x EXCEPT !.val = v].val = v
    BY DEF ObjState
  <2>3. \A o \in Objs : obj[o] \in ObjState
    BY <1>3 DEF Objects
  <2>4. QED
    BY <1>2, <2>1, <2>2, <2>3
<1>9. /\ IsBuffer(Buffer)'
      /\ \A o \in Objs : \/ snap'[o] = snap[o]
                         \/ snap[o] # NoSnap /\ snap'[o] # NoSnap /\ flush'.altered # {}
  BY <1>3, BulkBuffer DEF CacheInv, Tracked
<1>10. PICK S : S = {} /\ S \in SUBSET JobsOn(DOMAIN flush.pre) /\ flush'.todo = Rest(j, S)
               /\ (\A x \in S : Rank(x) = 0 /\ JobFits(x)) /\ (\A x \in S : Rank(x) = 0)
  BY <1>5
<1>11. PICK w, os : w = work' /\ os = obj'
  OBVIOUS
<1>12. \A e \in ToSet(idmap') : EntryFits(e)'
  <2> SUFFICES ASSUME NEW e \in ToSet(idmap) PROVE EntryFits(e)'
    BY <1>2
  <2>1. EntryFits(e)
    BY <1>2, <1>3 DEF RunCache
  <2>2. /\ obj[e.obj].key = e.key /\ e.key \in DOMAIN work /\ work[e.key].state # "deleted"
        /\ work[e.key].state = "live" => obj[e.obj].val = work[e.key].val
    BY <1>6, <2>1 DEF EntryFits
  <2>3. os[e.obj].key = e.key /\ w[e.key].state = work[e.key].state /\ e.key \in DOMAIN w
    BY <1>6, <1>7, <1>8, <1>11, <2>2
  <2>4. w[e.key].state = "live" => os[e.obj].val = w[e.key].val
    BY <1>6, <1>7, <1>8, <1>11, <2>2
  <2>5. QED
    BY <1>11, <2>2, <2>3, <2>4 DEF EntryFits
<1>13. \A o \in queue.persists : QueuedFits(o)'
  <2> SUFFICES ASSUME NEW o \in queue.persists PROVE QueuedFits(o)'
    BY <1>3 DEF JobStep
  <2>1. QueuedFits(o) /\ o \in Objs /\ o \notin X /\ queue' = queue
    BY <1>1, <1>2, <1>3, <1>6 DEF RunCache, QueueInv, BulkTracked, JobStep
  <2>2. obj[o].key # 0
    BY <1>6, <2>1 DEF QueuedFits
  <2>3. obj[o].key \in DOMAIN work /\ work[obj[o].key].by = o
    BY <1>3, <2>1, <2>2 DEF RealIn
  <2>4. obj[o].key \notin E
    BY <1>1, <1>6, <2>3 DEF BulkRows
  <2>5. /\ os[o].key = obj[o].key /\ os[o].fk = obj[o].fk /\ os[o].val = obj[o].val
        /\ w[obj[o].key].state = work[obj[o].key].state /\ w[obj[o].key].val = work[obj[o].key].val
    BY <1>7, <1>8, <1>11, <2>1, <2>3, <2>4
  <2>6. QED
    BY <1>11, <2>1, <2>2, <2>5 DEF QueuedFits
<1>14. /\ \A k \in DOMAIN work' : k \in DOMAIN work \/ k = nextKey
       /\ ToSet(idmap') \subseteq ToSet(idmap)
       /\ \A o \in Objs : /\ snap'[o] # NoSnap => snap[o] # NoSnap
                          /\ st'[o] = st[o] \/ (snap[o] # NoSnap /\ st'[o] # "NEW")
       /\ flush'.altered = {} => flush.altered = {} /\ \A o \in Objs : snap'[o] = snap[o]
  BY <1>2, <1>5, <1>7, <1>9
<1>15. QED
  BY <1>2, <1>3, <1>9, <1>10, <1>12, <1>13, <1>14, CacheJob

-----------------------------------------------------------------------------
(* The end of a flush *)

(* All is done: the new baselines are what the rows hold. *)
LEMMA CacheDone ==
    ASSUME CacheInv, BufferInv', FlushDone
    PROVE  CacheInv'
<1>1. /\ flush.pc = "run" /\ flush.todo = <<>> /\ flush' = Idle
      /\ UNCHANGED <<work, nextKey, outer, obj>>
      /\ onEnd' = IF outer = "none" THEN onEnd
                  ELSE Append(onEnd, [pre |-> flush.pre, persists |-> queue.persists])
      /\ queue' = NoWork
  BY DEF FlushDone
<1>2. /\ BufferInv /\ BufferTypes /\ IsBuffer(Buffer) /\ QueueInv /\ RunCache
      /\ obj \in Objects /\ work \in Rows /\ onEnd \in Seq(Ends)
      /\ flush.pre \in Captures /\ queue.persists \in SUBSET Objs
      /\ RealIn(obj, work) /\ RealIn(Then, flush.start) /\ Among(flush.start, work)
  BY <1>1 DEF CacheInv, BufferInv, BufferTypes, RunInv, ThenInv, ThenRows
<1>3. /\ IsBuffer(Buffer)'
      /\ \A e \in ToSet(idmap') : \/ e \in ToSet(idmap)
                                  \/ e.obj \in queue.persists /\ e.key = obj[e.obj].key
      /\ \A o \in Objs : snap'[o] # NoSnap => snap'[o].val = obj[o].val
      /\ \A o \in Objs : st'[o] = "NEW" => st[o] = "NEW" /\ o \notin queue.persists
  BY <1>2, DoneBuffer
<1>4. flush'.pc = "idle" /\ Then' = obj /\ ThenRows' = work
  BY <1>1 DEF Idle, Then, ThenRows
<1>5. queue'.persists = {} /\ queue'.deletes = {} /\ queue'.bulks = {}
  BY <1>1 DEF NoWork
<1>6. \A x : ~Pend(x)
  BY <1>1 DEF Pend
<1>7. \A o \in queue.persists :
         /\ o \in Objs /\ obj[o].key # 0 /\ obj[o].key \in DOMAIN work
         /\ work[obj[o].key].state # "deleted"
         /\ work[obj[o].key].state = "live" => work[obj[o].key].val = obj[o].val
  BY <1>1, <1>2, <1>6 DEF RunCache, QueuedFits, RealIn
<1>8. \A o \in Objs : Then[o].key # 0 => obj[o].key # 0
  <2> SUFFICES ASSUME NEW o \in Objs, Then[o].key # 0 PROVE obj[o].key # 0
    OBVIOUS
  <2>1. PICK k : k = Then[o].key
    OBVIOUS
  <2>2. k \in DOMAIN work /\ work[k].by = o
    BY <1>2, <2>1 DEF RealIn, Among
  <2>3. QED
    BY <1>2, <2>1, <2>2 DEF RealIn
<1>9. \A i \in DOMAIN onEnd' : \A o \in onEnd'[i].persists : obj[o].key # 0
  <2>1. \A i \in DOMAIN onEnd : \A o \in onEnd[i].persists : obj[o].key # 0
    <3>1. \A i \in DOMAIN onEnd : onEnd[i] \in Ends
      BY <1>2, ElementOfSeq, LenProperties
    <3>2. QED
      BY <1>2, <1>8, <3>1 DEF QueueInv, Ends
  <2>2. CASE outer = "none"
    BY <1>1, <2>1, <2>2
  <2>3. CASE outer # "none"
    <3>1. PICK e : e = [pre |-> flush.pre, persists |-> queue.persists]
      OBVIOUS
    <3>2. e \in Ends /\ e.persists = queue.persists
      BY <1>2, <3>1 DEF Ends
    <3>3. PICK l \in Nat : l = Len(onEnd)
      BY <1>2, LenProperties
    <3>4. onEnd' = Append(onEnd, e)
      BY <1>1, <2>3, <3>1
    <3>5. /\ onEnd' \in Seq(Ends) /\ Len(onEnd') = l + 1 /\ onEnd'[l + 1] = e
          /\ \A i \in 1..l : onEnd'[i] = onEnd[i]
      BY <1>2, <3>2, <3>3, <3>4, AppendProperties
    <3>6. DOMAIN onEnd' = 1..l + 1 /\ DOMAIN onEnd = 1..l
      BY <1>2, <3>3, <3>5, LenProperties
    <3>7. \A i \in 1..l + 1 : i = l + 1 \/ i \in 1..l
      OBVIOUS
    <3>8. QED
      BY <1>7, <2>1, <3>2, <3>5, <3>6, <3>7
  <2>4. QED
    BY <2>2, <2>3
<1>10. QueueInv'
  <2>1. queue'.persists = {o \in Objs : st'[o] = "NEW"}
    BY <1>2, <1>3, <1>5 DEF QueueInv
  <2>2. QED
    BY <1>4, <1>5, <1>9, <2>1 DEF QueueInv
<1>11. Honest(idmap', snap', obj, work)
  <2> SUFFICES ASSUME NEW e \in ToSet(idmap')
               PROVE  /\ obj[e.obj].key = e.key /\ e.key \in DOMAIN work
                      /\ work[e.key].state # "deleted"
                      /\ work[e.key].state = "live" => snap'[e.obj].val = work[e.key].val
    BY DEF Honest
  <2>1. e.obj \in Objs /\ snap'[e.obj] # NoSnap
    <3>1. PICK sn, im : sn = snap' /\ im = idmap'
      OBVIOUS
    <3>2. PICK b : b = Buffer'
      OBVIOUS
    <3>3. IsBuffer(b) /\ b.snap = sn /\ b.idmap = im
      BY <1>3, <3>1, <3>2 DEF Buffer
    <3>4. e.obj \in Objs
      BY <1>3, BufferNow
    <3>5. QED
      BY <3>1, <3>3, <3>4 DEF IsBuffer
  <2>2. snap'[e.obj].val = obj[e.obj].val
    BY <1>3, <2>1
  <2>3. CASE e \in ToSet(idmap)
    <3>1. EntryFits(e)
      BY <1>1, <1>2, <2>3 DEF RunCache
    <3>2. QED
      BY <1>6, <2>2, <3>1 DEF EntryFits
  <2>4. CASE e.obj \in queue.persists /\ e.key = obj[e.obj].key
    BY <1>7, <2>2, <2>4
  <2>5. QED
    BY <1>3, <2>3, <2>4
<1>12. MapInv'
  <2>1. outer # "broken"
    BY <1>1, <1>2 DEF BufferInv, RunInv
  <2>2. QED
    BY <1>1, <1>4, <1>11, <2>1 DEF MapInv
<1>13. RunCache'
  BY <1>4 DEF RunCache
<1>14. QED
  BY <1>3, <1>10, <1>12, <1>13 DEF CacheInv

(* It fails: what was to be put back fits. *)
LEMMA CacheFails ==
    ASSUME CacheInv, BufferInv', ~LateFaults, FlushFails
    PROVE  CacheInv'
<1>1. /\ flush.pc = "run" /\ flush.altered = {} /\ flush' = [Idle EXCEPT !.goal = flush.goal]
      /\ UNCHANGED <<rows, nextKey, onEnd, snap, idmap, st>>
      /\ obj' = Restore(obj, flush.pre)
      /\ queue' = PutBack
      /\ work' = IF outer = "none" \/ mode.nested THEN flush.start ELSE work
      /\ outer' = IF outer = "open" /\ ~mode.nested THEN "broken" ELSE outer
  BY DEF FlushFails, bufVars
<1>2. /\ BufferInv /\ BufferTypes /\ IsBuffer(Buffer) /\ QueueInv /\ MapInv
      /\ obj \in Objects /\ flush.pre \in Captures /\ Among(flush.start, work)
      /\ outer \in {"none", "open"} /\ (onEnd = <<>> => rows = flush.start)
      /\ queue \in [persists : SUBSET Objs, deletes : SUBSET Deletes, bulks : SUBSET Bulks]
      /\ Then = Restore(obj, flush.pre) /\ ThenRows = flush.start
  BY <1>1 DEF CacheInv, BufferInv, BufferTypes, RunInv, Then, ThenRows, ThenInv
<1>3. flush'.pc = "idle" /\ Then' = Then /\ obj' = Then /\ ThenRows' = work'
  <2>1. flush'.pc = "idle"
    BY <1>1 DEF Idle
  <2>2. QED
    BY <1>1, <1>2, <2>1 DEF Then, ThenRows
<1>4. \A k \in DOMAIN work' : k \in DOMAIN work /\ work'[k].by = work[k].by
  BY <1>1, <1>2 DEF Among
<1>5. /\ queue'.persists = queue.persists /\ queue'.bulks = queue.bulks
      /\ queue'.deletes \subseteq queue.deletes \cup CascadeDeletes(queue.deletes)
  <2>1. PICK D : D = queue.deletes \cup CascadeDeletes(queue.deletes)
    OBVIOUS
  <2>2. queue' = queue \/ queue' = [queue EXCEPT !.deletes = D]
    BY <1>1, <2>1 DEF PutBack
  <2>3. QED
    BY <1>2, <2>1, <2>2
<1>6. \A d \in queue'.deletes : DeleteFits(d)'
  <2> SUFFICES ASSUME NEW d \in queue'.deletes PROVE DeleteFits(d)'
    OBVIOUS
  <2>1. CASE d \in queue.deletes
    <3>1. DeleteFits(d)
      BY <1>2, <2>1 DEF QueueInv
    <3>2. QED
      BY <1>1, <1>4, <3>1 DEF DeleteFits
  <2>2. CASE d \in CascadeDeletes(queue.deletes)
    <3>1. PICK x \in queue.deletes : d = [by |-> "home", key |-> x.key, kid |-> TRUE]
      BY <2>2 DEF CascadeDeletes
    <3>2. d.by = "home" /\ d.by # "key" /\ d.key = x.key /\ d.kid
      BY <3>1
    <3>3. DeleteFits(x)
      BY <1>2 DEF QueueInv
    <3>4. QED
      BY <1>1, <3>2, <3>3 DEF DeleteFits
  <2>3. QED
    BY <1>5, <2>1, <2>2
<1>7. QueueInv'
  <2>1. \A o \in queue.persists : QueuedNew(o)'
    <3>1. \A o \in queue.persists : QueuedNew(o)
      BY <1>2 DEF QueueInv
    <3>2. QED
      BY <1>1, <1>3, <3>1 DEF QueuedNew
  <2>2. \A p \in Parents : Tracked(p)' => KidsOf(p)' \cap queue.persists = {}
    <3>1. \A p \in Parents : p \in Objs /\ (Tracked(p)' <=> Tracked(p))
      BY <1>1 DEF Tracked, Objs
    <3>2. \A o \in Objs : obj'[o].kids = obj[o].kids
      BY <1>1, <1>2, RestoreFacts
    <3>3. \A p \in Parents : KidsOf(p)' = KidsOf(p)
      BY <3>1, <3>2 DEF KidsOf
    <3>4. QED
      BY <1>2, <3>1, <3>3 DEF QueueInv
  <2>3. QED
    BY <1>1, <1>2, <1>3, <1>5, <1>6, <2>1, <2>2 DEF QueueInv
<1>8. MapInv'
  <2>1. Honest(idmap, snap, Then, flush.start)
    BY <1>1, <1>2 DEF MapInv
  <2>2. CASE outer' = "broken"
    BY <1>1, <1>2, <1>3, <2>1, <2>2 DEF MapInv
  <2>3. CASE outer' # "broken"
    <3>1. work' = flush.start
      BY <1>1, <1>2, <2>3
    <3>2. QED
      BY <1>1, <1>3, <2>1, <2>3, <3>1 DEF MapInv
  <2>4. QED
    BY <2>2, <2>3
<1>9. RunCache'
  BY <1>3 DEF RunCache
<1>10. IsBuffer(Buffer)'
  BY <1>1, <1>2 DEF Buffer
<1>11. QED
  BY <1>7, <1>8, <1>9, <1>10 DEF CacheInv

-----------------------------------------------------------------------------
(* The invariant *)

(* At first the map has the rows that are stored. *)
LEMMA CacheInit == ASSUME Init PROVE CacheInv
<1>1. /\ BufferInv /\ IsBuffer(Buffer) /\ RealIn(obj, rows) /\ obj \in Objects
      /\ \A e \in ToSet(idmap) : \E o \in Stored : o \in Objs /\ e.obj = o /\ e.key = obj[o].key
  <2>1. Then = obj /\ ThenRows = rows /\ outer # "broken"
    BY DEF Init, Idle, Then, ThenRows
  <2>2. QED
    BY <2>1, BufferInit, BuffersAtFirst DEF BufferInv, BufferTypes, ThenInv
<1>2. /\ queue.persists = {} /\ queue.deletes = {} /\ queue.bulks = {} /\ onEnd = <<>>
      /\ \A o \in Objs : st[o] # "NEW"
      /\ flush.pc = "idle" /\ outer = "none" /\ work = rows
  BY DEF Init, NoWork, Idle
<1>3. QueueInv
  BY <1>2 DEF QueueInv
<1>4. \A k \in DOMAIN rows : rows[k].state = "live" /\ rows[k].val = FirstVal
  <2>1. PICK D, f : rows = [k \in D |-> [val |-> FirstVal, fk |-> f[k].fk, by |-> f[k].by, state |-> "live"]]
    <3>1. PICK f : f = [k \in {FirstKey[o] : o \in Stored} |->
                          LET o == CHOOSE x \in Stored : FirstKey[x] = k
                          IN [fk |-> FkAtFirst(o), by |-> o]]
      OBVIOUS
    <3>2. rows = [k \in {FirstKey[o] : o \in Stored} |->
                    [val |-> FirstVal, fk |-> f[k].fk, by |-> f[k].by, state |-> "live"]]
      BY <3>1 DEF Init
    <3>3. QED
      BY <3>2
  <2>2. QED
    BY <2>1
<1>5. \A o \in Stored : /\ o \in Objs => obj[o].val = FirstVal /\ snap[o] = Baseline(obj[o])
                        /\ obj[o].key # 0
  <2>1. \A o \in Stored : FirstKey[o] # 0 /\ o \in Objs
    <3>1. \A n \in Nat : 0 \notin 1 .. n
      OBVIOUS
    <3>2. Cardinality(Stored) \in Nat
      BY FS_Subset, FS_CardinalityType, WriteBufferAssumption
    <3>3. 0 \notin 1 .. Cardinality(Stored)
      BY <3>1, <3>2
    <3>4. QED
      BY <3>3, WriteBufferAssumption
  <2> SUFFICES ASSUME NEW o \in Stored
               PROVE  obj[o].val = FirstVal /\ snap[o] = Baseline(obj[o]) /\ obj[o].key # 0
    OBVIOUS
  <2>2. PICK x : x = [key |-> FirstKey[o], val |-> FirstVal, fk |-> FkAtFirst(o), kids |-> KidsAtFirst(o)]
    OBVIOUS
  <2>3. obj[o] = x /\ snap[o] = Baseline(obj[o])
    BY <2>1, <2>2 DEF Init
  <2>4. x.key = FirstKey[o] /\ x.val = FirstVal
    BY <2>2
  <2>5. QED
    BY <2>1, <2>3, <2>4
<1>6. Honest(idmap, snap, obj, rows)
  <2> SUFFICES ASSUME NEW e \in ToSet(idmap)
               PROVE  /\ obj[e.obj].key = e.key /\ e.key \in DOMAIN rows
                      /\ rows[e.key].state # "deleted"
                      /\ snap[e.obj].val = rows[e.key].val
    BY DEF Honest
  <2>1. PICK o \in Stored : o \in Objs /\ e.obj = o /\ e.key = obj[o].key
    BY <1>1
  <2>2. e.key \in DOMAIN rows
    BY <1>1, <1>5, <2>1 DEF RealIn
  <2>3. snap[o].val = FirstVal
    <3>1. PICK x : x = Baseline(obj[o])
      OBVIOUS
    <3>2. x.val = obj[o].val
      BY <3>1 DEF Baseline
    <3>3. QED
      BY <1>5, <2>1, <3>1, <3>2
  <2>4. QED
    BY <1>4, <2>1, <2>2, <2>3
<1>7. MapInv
  BY <1>2, <1>6 DEF MapInv, Then, ThenRows
<1>8. RunCache
  BY <1>2 DEF RunCache
<1>9. QED
  BY <1>1, <1>3, <1>7, <1>8 DEF CacheInv

(* One step for each disjunct of Next. *)
LEMMA CacheNext == ASSUME Careful, CacheInv, [Next]_vars PROVE CacheInv'
<1>1. /\ BufferInv' /\ IsBuffer(Buffer)' /\ ~Mixed /\ ~LateFaults
  BY BufferNext, BufferStays DEF CacheInv, Careful
<1>2. CASE \/ \E o \in Objs, v \in Vals : Edit(o, v)
           \/ \E c \in Kids, p \in Parents : AddKid(c, p) \/ DropKid(c, p)
  BY <1>1, <1>2, CacheEdits
<1>3. CASE \/ \E o \in Objs : \/ PersistNew(o) \/ PersistTracked(o) \/ RemoveQueued(o)
                              \/ RemoveStored(o) \/ DeleteByKey(o) \/ Detach(o)
                              \/ LoadKnown(o)
           \/ \E b \in Bulks : QueueBulk(b)
  BY <1>1, <1>3, CacheQueues
<1>4. ASSUME NEW o \in Objs, PersistKnown(o) \/ MergeObject(o) \/ LoadRow(o) PROVE CacheInv'
  BY <1>1, <1>4, CacheLoads
<1>5. CASE OuterBegin \/ OuterCommit \/ OuterRollback
  BY <1>1, <1>5, CacheOuter
<1>6. CASE FlushBegin
  BY <1>1, <1>6, CacheBegin
<1>7. CASE RunJob
  <2>1. PICK j : \/ RunUpdate(j) \/ RunInsert(j) \/ RunCascade(j) \/ RunAdded(j) \/ RunOrphan(j)
                 \/ RunExpand(j) \/ RunDelete(j) \/ RunBulkUpdate(j) \/ RunBulkDelete(j)
    BY <1>7 DEF RunJob
  <2>2. QED
    BY <1>1, <2>1, CacheOwn, CacheKids, CacheOrphans, CacheDelete, CacheBulkUpdate, CacheBulkDelete
<1>8. CASE FlushDone
  BY <1>1, <1>8, CacheDone
<1>9. CASE FlushFails
  BY <1>1, <1>9, CacheFails
<1>10. CASE UNCHANGED vars
  <2>1. UNCHANGED <<rows, work, nextKey, obj, snap, idmap, st, queue, outer, onEnd, flush>>
    BY <1>10 DEF vars
  <2>2. Then' = Then /\ ThenRows' = ThenRows
    BY <2>1 DEF Then, ThenRows
  <2>3. QueueInv'
    BY <2>1, <2>2 DEF CacheInv, QueueInv, QueuedNew, DeleteFits, KidsOf, Tracked
  <2>4. MapInv'
    BY <2>1, <2>2 DEF CacheInv, MapInv
  <2>5. RunCache'
    BY <2>1 DEF CacheInv, RunCache, JobFits, EntryFits, QueuedFits, Pend
  <2>6. QED
    BY <1>1, <2>3, <2>4, <2>5 DEF CacheInv
<1>11. QED
  BY <1>2, <1>3, <1>4, <1>5, <1>6, <1>7, <1>8, <1>9, <1>10 DEF Next

(* The type of the state follows. *)
LEMMA CacheTyped == ASSUME CacheInv PROVE TypeOK
<1>1. /\ BufferInv /\ BufferTypes /\ QueueInv /\ work \in Rows /\ obj \in Objects
      /\ snap \in [Objs -> Snaps \cup {NoSnap}] /\ idmap \in Seq(Entries) /\ st \in [Objs -> States]
      /\ \A o \in Objs : snap[o] # NoSnap <=> \E e \in ToSet(idmap) : e.obj = o
  BY BufferIs DEF CacheInv, BufferInv, BufferTypes
<1>2. DOMAIN rows \subseteq DOMAIN work
  BY <1>1 DEF BufferInv, ThenInv, RunInv, BufferTypes, ThenRows, Among
<1>3. DOMAIN work \subseteq 1 .. nextKey - 1
  BY <1>1, RowsAre
<1>4. \A o \in Objs : /\ obj[o].key \in 0 .. MaxKey /\ obj[o].val \in Vals
                      /\ Tracked(o) => snap[o].val \in Vals \cup {Sentinel}
                      /\ st[o] \in {"NEW", "MANAGED", "REMOVED", "DETACHED"}
  <2>1. \A x \in Snaps : x.val \in Vals \cup {Sentinel}
    BY DEF Snaps
  <2>2. QED
    BY <1>1, <2>1, ObjectFields DEF Tracked, States
<1>5. {o \in Objs : Tracked(o)} = {idmap[i].obj : i \in DOMAIN idmap}
  <2>1. {idmap[i].obj : i \in DOMAIN idmap} = {e.obj : e \in ToSet(idmap)}
    BY DEF ToSet
  <2>2. \A e \in ToSet(idmap) : e.obj \in Objs
    <3>1. \A e \in ToSet(idmap) : e \in Entries
      BY <1>1 DEF ToSet
    <3>2. QED
      BY <3>1 DEF Entries
  <2>3. QED
    BY <1>1, <2>1, <2>2 DEF Tracked
<1>6. QED
  BY <1>1, <1>2, <1>3, <1>4, <1>5 DEF TypeOK, QueueInv, BufferTypes

(* What findOne() would serve between flushes has a row, and what the      *)
(* buffer takes to be clean is what the row holds, for callers that keep   *)
(* calls out of each other's way and as long as no flush fails after it    *)
(* re-baselined or evicted an object (identity map, SnapshotStrategy,      *)
(* evictTrackedMatching, syncTrackedAfterBulkUpdate, restorePreFlush-      *)
(* ColumnState).                                                           *)
THEOREM CacheStaysHonest ==
    ASSUME Careful
    PROVE  Spec => []CacheIsHonest
<1>1. CacheInv => CacheIsHonest
  <2> SUFFICES ASSUME CacheInv, Calm, NEW i \in DOMAIN idmap
               PROVE  LET o == idmap[i].obj
                          k == idmap[i].key
                      IN /\ obj[o].key = k /\ k \in DOMAIN work
                         /\ work[k].state # "deleted"
                         /\ work[k].state = "live" /\ ~Edited(o) =>
                              obj[o].val = work[k].val /\ obj[o].fk = work[k].fk
    BY CacheTyped DEF CacheIsHonest
  <2>1. /\ Honest(idmap, snap, obj, work) /\ RealIn(obj, work) /\ obj \in Objects
        /\ \A k \in DOMAIN work : k # 0
    BY IdleFacts DEF Calm
  <2>2. PICK e : e = idmap[i]
    OBVIOUS
  <2>3. PICK o, k : o = e.obj /\ k = e.key
    OBVIOUS
  <2>4. e \in ToSet(idmap) /\ idmap \in Seq(Entries)
    BY <2>2, BufferIs DEF ToSet, CacheInv
  <2>5. o \in Objs /\ Tracked(o)
    <3>1. e \in Entries
      BY <2>4 DEF ToSet
    <3>2. QED
      BY <2>3, <2>4, <3>1, BufferIs DEF Entries, Tracked, CacheInv
  <2>6. /\ obj[o].key = k /\ k \in DOMAIN work /\ work[k].state # "deleted"
        /\ work[k].state = "live" => snap[o].val \in {Sentinel, work[k].val}
    BY <2>1, <2>3, <2>4 DEF Honest
  <2>7. obj[o].fk = work[k].fk
    BY <2>1, <2>5, <2>6 DEF RealIn
  <2>8. work[k].state = "live" /\ ~Edited(o) => obj[o].val = work[k].val
    <3>1. obj[o].val \in Vals /\ 0 \notin Vals
      BY <2>1, <2>5, ObjectFields, WriteBufferAssumption
    <3>2. QED
      BY <2>5, <2>6, <3>1 DEF Edited, Sentinel
  <2>9. QED
    BY <2>2, <2>3, <2>6, <2>7, <2>8
<1>2. Init => CacheInv
  BY CacheInit
<1>3. CacheInv /\ [Next]_vars => CacheInv'
  BY CacheNext
<1>4. QED
  BY <1>1, <1>2, <1>3, PTL DEF Spec

-----------------------------------------------------------------------------
(* What refers to what *)

(* Every live row of w that names another names a live one; a row that is  *)
(* named is a parent's, whether or not either is there still; only kids    *)
(* are orphans.                                                            *)
Refers(w) ==
    /\ \A k \in Live(w) : w[k].fk \in {0} \cup Live(w)
    /\ \A k \in DOMAIN w : w[k].fk # 0 => w[k].fk \in DOMAIN w /\ w[w[k].fk].by \in Parents
    /\ \A k \in DOMAIN w : w[k].state = "orphaned" => w[k].by \in Kids

(* The parents in the map have live rows in w. *)
Stands(im, os, w) ==
    \A e \in ToSet(im) : e.obj \in Parents => os[e.obj].key = e.key /\ e.key \in Live(w)

(* What is queued fits, and is new at each of the three moments. *)
QueueFits ==
    /\ \A d \in queue.deletes : DeleteFits(d)
    /\ \A o \in queue.persists : Then[o].key = 0 /\ RunEnds(Then, onEnd)[o].key = 0

(* What a failure would leave of the parents in the map. *)
StandsInv ==
    IF outer = "broken" THEN onEnd = <<>> => Stands(idmap, Then, rows)
    ELSE Stands(idmap, Then, ThenRows)

(* The delete of the kids of a parent, which precedes that of the parent.  *)
Home(d) == [op |-> "delete", what |-> [by |-> "home", key |-> d.key, kid |-> TRUE]]

(* A kid is written under a parent that has its row; a parent goes after   *)
(* its kids, and none is written any more.                                 *)
JobRefers(j) ==
    /\ j.op \in {"cascade", "added"} => obj[j.under].key \in Live(work)
    /\ j.op = "delete" => j.what \in queue.deletes \cup CascadeDeletes(queue.deletes)
    /\ j.op = "delete" /\ ~j.what.kid =>
          \/ Pend(Home(j.what))
          \/ /\ \A x : Pend(x) => Rank(x) # 0
             /\ \A k \in Live(work) : work[k].fk # j.what.key

(* A queued parent has its row, or is still to be inserted; no delete      *)
(* meets it.                                                               *)
ParentFits(o) ==
    /\ \A d \in queue.deletes : d.key # obj[o].key
    /\ IF obj[o].key = 0 THEN Pend([op |-> "insert", of |-> o]) ELSE obj[o].key \in Live(work)

RunRefers ==
    flush.pc = "run" =>
        /\ Refers(flush.start)
        /\ InOrder(flush.todo)
        /\ Stands(idmap, obj, work)
        /\ \A x : Pend(x) => JobRefers(x)
        /\ \A o \in queue.persists \cap Parents : ParentFits(o)

RefersInv ==
    /\ BufferInv /\ IsBuffer(Buffer) /\ QueueFits /\ StandsInv
    /\ Refers(work) /\ Refers(rows) /\ RunRefers

(* deleteMany() is not called for parents: it would leave their kids. *)
KidBulks == \A b \in Bulks : b.op = "delete" => b.of \subseteq Kids

(* A row that is written under a live parent, or none, *)
LEMMA RowWritten ==
    ASSUME NEW w, NEW v, NEW k, Refers(w), DOMAIN v = DOMAIN w \cup {k},
           v[k].state = "live", v[k].fk \in {0} \cup Live(w),
           v[k].fk # 0 => w[v[k].fk].by \in Parents,
           k \in DOMAIN w => v[k].by = w[k].by,
           \A x \in DOMAIN w : x # k => v[x] = w[x]
    PROVE  Refers(v) /\ Live(w) \subseteq Live(v) /\ k \in Live(v)
<1>1. Live(w) \subseteq Live(v) /\ k \in Live(v) /\ \A x \in Live(v) : x = k \/ x \in Live(w)
  BY DEF Live
<1>2. \A x \in DOMAIN w : x \in DOMAIN v /\ v[x].by = w[x].by
  OBVIOUS
<1>3. \A x \in Live(v) : v[x].fk \in {0} \cup Live(v)
  <2>1. \A x \in Live(w) : x # k => v[x].fk \in {0} \cup Live(w)
    BY DEF Refers, Live
  <2>2. QED
    BY <1>1, <2>1
<1>4. \A x \in DOMAIN v : v[x].fk # 0 => v[x].fk \in DOMAIN v /\ v[v[x].fk].by \in Parents
  <2>1. ASSUME NEW x \in DOMAIN w, x # k, v[x].fk # 0
        PROVE  v[x].fk \in DOMAIN v /\ v[v[x].fk].by \in Parents
    BY <1>2, <2>1 DEF Refers
  <2>2. v[k].fk # 0 => v[k].fk \in DOMAIN v /\ v[v[k].fk].by \in Parents
    BY <1>2 DEF Live
  <2>3. QED
    BY <2>1, <2>2
<1>5. \A x \in DOMAIN v : v[x].state = "orphaned" => v[x].by \in Kids
  BY DEF Refers
<1>6. QED
  BY <1>1, <1>3, <1>4, <1>5 DEF Refers

(* and rows that are taken away: those of kids, or that none refers to.    *)
LEMMA RowsTaken ==
    ASSUME NEW w, NEW v, Refers(w), Parents \cap Kids = {}, DOMAIN v = DOMAIN w,
           \A k \in DOMAIN w : /\ v[k].by = w[k].by /\ v[k].fk = w[k].fk
                               /\ v[k].state = "orphaned" => w[k].state = "orphaned" \/ w[k].by \in Kids,
           Live(v) \subseteq Live(w),
           \A k \in Live(w) \ Live(v) : w[k].by \in Kids \/ \A x \in Live(v) : w[x].fk # k
    PROVE  Refers(v)
<1>1. \A k \in Live(v) : v[k].fk \in {0} \cup Live(v)
  <2> SUFFICES ASSUME NEW k \in Live(v), v[k].fk # 0 PROVE v[k].fk \in Live(v)
    OBVIOUS
  <2>1. k \in Live(w) /\ k \in DOMAIN w /\ v[k].fk = w[k].fk
    BY DEF Live
  <2>2. w[k].fk \in Live(w) /\ w[w[k].fk].by \in Parents
    BY <2>1 DEF Refers
  <2>3. QED
    BY <2>1, <2>2
<1>2. \A k \in DOMAIN v : v[k].fk # 0 => v[k].fk \in DOMAIN v /\ v[v[k].fk].by \in Parents
  BY DEF Refers
<1>3. \A k \in DOMAIN v : v[k].state = "orphaned" => v[k].by \in Kids
  BY DEF Refers
<1>4. QED
  BY <1>1, <1>2, <1>3 DEF Refers

-----------------------------------------------------------------------------
(* What a job leaves of what refers to what *)

(* The jobs that are left, in order, and where they come from. *)
LEMMA JobsKept ==
    ASSUME RefersInv, NEW j, Running(j), NEW S \in SUBSET JobsOn(DOMAIN flush.pre),
           flush'.todo = Rest(j, S), \A x \in S : Rank(x) = 0
    PROVE  /\ InOrder(flush'.todo)
           /\ \A x : Pend(x)' => x \in S \/ Pend(x)
           /\ \A x : Pend(x) /\ x # j => Pend(x)'
           /\ \A x : Pend(x) => Rank(j) <= Rank(x)
           /\ Pend(j) /\ JobRefers(j)
<1>1. /\ flush.todo \in Seq(SUBSET JobsOn(DOMAIN flush.pre)) /\ flush.todo # <<>>
      /\ j \in Head(flush.todo) /\ InOrder(flush.todo)
      /\ \A x : Pend(x) => JobRefers(x)
  BY DEF RefersInv, Running, BufferInv, RunInv, RunRefers
<1>2. PICK J, t : J = JobsOn(DOMAIN flush.pre) /\ t = Rest(j, S)
  OBVIOUS
<1>3. InOrder(t) /\ Left(j, S, t)
  <2>1. /\ flush.todo \in Seq(SUBSET J) /\ flush.todo # <<>> /\ j \in Head(flush.todo)
        /\ InOrder(flush.todo) /\ S \in SUBSET J /\ \A x \in S : Rank(x) = 0
    BY <1>1, <1>2
  <2>2. QED
    BY <1>2, <2>1, JobsLeft
<1>4. \A x : (Pend(x) <=> PendIn(flush.todo, x)) /\ (Pend(x)' <=> PendIn(t, x))
  BY <1>2 DEF Pend, PendIn
<1>5. /\ \A x : PendIn(t, x) => x \in S \/ PendIn(flush.todo, x)
      /\ \A x : PendIn(flush.todo, x) /\ x # j => PendIn(t, x)
      /\ \A x : PendIn(flush.todo, x) => Rank(j) <= Rank(x)
      /\ PendIn(flush.todo, j)
  BY <1>3 DEF Left
<1>6. InOrder(flush'.todo)
  BY <1>2, <1>3
<1>7. QED
  BY <1>1, <1>4, <1>5, <1>6

(* A delete that is queued names no key that is generated later. *)
LEMMA DeletesStayFit ==
    ASSUME BufferInv, JobStep, NEW d, DeleteFits(d),
           \A k \in DOMAIN work' : k \in DOMAIN work \/ k = nextKey
    PROVE  DeleteFits(d)' /\ d.key # nextKey
<1>1. nextKey \in Nat /\ nextKey' \in Nat /\ nextKey' >= nextKey /\ Among(work, work')
  <2>1. nextKey \in 1 .. MaxKey + 1 /\ nextKey' \in 1 .. MaxKey + 1
    BY DEF JobStep, BufferInv, BufferTypes
  <2>2. QED
    BY <2>1 DEF JobStep
<1>2. d.key \in 1 .. nextKey - 1
  BY DEF DeleteFits
<1>3. d.key \in 1 .. nextKey' - 1 /\ d.key # nextKey
  BY <1>1, <1>2
<1>4. d.key \in DOMAIN work' => d.key \in DOMAIN work /\ work'[d.key].by = work[d.key].by
  BY <1>1, <1>3 DEF Among
<1>5. QED
  BY <1>3, <1>4 DEF DeleteFits

(* A job's part in the invariant: what is left to show of each.            *)
LEMMA RefersJob ==
    ASSUME RefersInv, BufferInv', JobStep, IsBuffer(Buffer)', NEW j, Running(j),
           NEW S \in SUBSET JobsOn(DOMAIN flush.pre), flush'.todo = Rest(j, S),
           \A x \in S : Rank(x) = 0,
           \A k \in DOMAIN work' : k \in DOMAIN work \/ k = nextKey,
           ToSet(idmap') \subseteq ToSet(idmap),
           Refers(work'), Stands(idmap', obj', work'),
           \A x : Pend(x)' => JobRefers(x)',
           \A o \in queue.persists \cap Parents : ParentFits(o)'
    PROVE  RefersInv'
<1>1. BufferInv /\ QueueFits /\ StandsInv /\ Refers(rows) /\ RunRefers
  BY DEF RefersInv
<1>2. /\ flush.pc = "run" /\ flush'.pc = "run" /\ flush'.start = flush.start
      /\ rows' = rows /\ outer' = outer /\ onEnd' = onEnd /\ queue' = queue
      /\ outer # "broken"
  BY <1>1 DEF JobStep, BufferInv, RunInv
<1>3. PICK r, s : r = Then /\ s = Then'
  OBVIOUS
<1>4. /\ r \in Objects /\ s \in Objects /\ onEnd \in Seq(Ends)
      /\ ThenRows = flush.start /\ ThenRows' = flush.start
      /\ \A o \in Objs : Same(r, s, o)
  BY <1>1, <1>3, ThenStays DEF BufferInv, BufferTypes
<1>5. \A o \in Objs : RunEnds(s, onEnd)[o].key = RunEnds(r, onEnd)[o].key
  BY <1>4, RunEndsFacts DEF Same
<1>6. QueueFits'
  <2>1. \A o \in queue.persists : o \in Objs
    BY <1>1 DEF BufferInv, BufferTypes
  <2>2. \A o \in queue.persists : s[o].key = 0 /\ RunEnds(s, onEnd)[o].key = 0
    BY <1>1, <1>3, <1>4, <1>5, <2>1 DEF QueueFits, Same
  <2>3. \A d \in queue.deletes : DeleteFits(d)'
    <3>1. \A d \in queue.deletes : DeleteFits(d)
      BY <1>1 DEF QueueFits
    <3>2. QED
      BY <1>1, <3>1, DeletesStayFit
  <2>4. QED
    BY <1>2, <1>3, <2>2, <2>3 DEF QueueFits
<1>7. StandsInv'
  <2>1. Stands(idmap, r, flush.start)
    BY <1>1, <1>2, <1>3, <1>4 DEF StandsInv
  <2>2. \A e \in ToSet(idmap') : e \in ToSet(idmap) /\ e.obj \in Objs
    BY BufferNow
  <2>3. Stands(idmap', s, flush.start)
    BY <1>4, <2>1, <2>2 DEF Stands, Same
  <2>4. QED
    BY <1>2, <1>3, <1>4, <2>3 DEF StandsInv
<1>8. RunRefers'
  <2>1. InOrder(flush'.todo)
    BY JobsKept
  <2>2. Refers(flush'.start)
    BY <1>1, <1>2 DEF RunRefers
  <2>3. QED
    BY <1>2, <2>1, <2>2 DEF RunRefers
<1>9. Refers(rows')
  BY <1>1, <1>2
<1>10. QED
  BY <1>6, <1>7, <1>8, <1>9 DEF RefersInv

(* The part of a job that writes an object o, under a live parent or none; *)
(* its kids come next.                                                     *)
LEMMA RefersWrites ==
    ASSUME RefersInv, BufferInv', JobStep, IsBuffer(Buffer)', NEW j, Running(j), Rank(j) = 0,
           NEW S \in SUBSET JobsOn(DOMAIN flush.pre), flush'.todo = Rest(j, S),
           NEW o \in Objs, o = j.of,
           \A x \in S : Rank(x) = 0 /\ x.op = "cascade" /\ x.under = o,
           NEW fk, Save(o, fk), fk \in {0} \cup Live(work), fk # 0 => work[fk].by \in Parents,
           idmap' = idmap
    PROVE  RefersInv'
<1>1. /\ BufferInv /\ IsBuffer(Buffer) /\ flush.pc = "run" /\ RunRefers /\ QueueFits
      /\ Refers(work) /\ RealIn(obj, work) /\ queue' = queue
      /\ queue.persists \subseteq Objs
  BY DEF RefersInv, JobStep, BufferInv, RunInv, BufferTypes
<1>2. PICK k : k = IF obj[o].key = 0 THEN nextKey ELSE obj[o].key
  OBVIOUS
<1>3. PICK w, os : w = work' /\ os = obj'
  OBVIOUS
<1>4. /\ DOMAIN w = DOMAIN work \cup {k} /\ w[k].state = "live"
      /\ \A x \in DOMAIN work : x # k => w[x] = work[x]
      /\ os[o].key = k
      /\ \A x \in Objs : x # o => os[x] = obj[x]
      /\ obj[o].key = 0 => k = nextKey
      /\ obj[o].key # 0 => k = obj[o].key
      /\ \A x \in DOMAIN w : x \in DOMAIN work \/ x = nextKey
  <2>1. Written(o, fk, k)
    BY <1>1, <1>2, SaveIs
  <2>2. QED
    BY <1>3, <2>1 DEF Written
<1>5. w[k].fk = fk
  <2>1. PICK b : w = [x \in DOMAIN work \cup {k} |->
                        IF x # k THEN work[x]
                        ELSE [val |-> obj[o].val, fk |-> fk, by |-> b, state |-> "live"]]
    BY <1>2, <1>3 DEF Save
  <2>2. QED
    BY <2>1
<1>6. k \in DOMAIN work => w[k].by = work[k].by
  BY <1>3 DEF JobStep, Among
<1>7. Refers(w) /\ Live(work) \subseteq Live(w) /\ k \in Live(w)
  BY <1>1, <1>4, <1>5, <1>6, RowWritten
<1>8. \A x \in Objs : obj[x].key # 0 => os[x].key = obj[x].key
  BY <1>4
<1>9. \A x \in DOMAIN work : x # 0
  <2>1. BufferTypes /\ work \in Rows
    BY <1>1 DEF BufferInv, BufferTypes
  <2>2. DOMAIN work \subseteq 1 .. MaxKey
    BY <2>1, RowsAre
  <2>3. QED
    BY <2>2
<1>10. Stands(idmap', os, w)
  <2>1. Stands(idmap, obj, work)
    BY <1>1 DEF RunRefers
  <2>2. \A e \in ToSet(idmap') : e \in ToSet(idmap) /\ e.obj \in Objs
    BY BufferNow
  <2>3. \A x \in Live(work) : x # 0
    BY <1>9 DEF Live
  <2>4. QED
    BY <1>7, <1>8, <2>1, <2>2, <2>3 DEF Stands
<1>11. /\ \A x : Pend(x)' => x \in S \/ Pend(x)
       /\ \A x : Pend(x) /\ x # j => Pend(x)'
       /\ Pend(j)
  <2>1. \A x \in S : Rank(x) = 0
    OBVIOUS
  <2>2. QED
    BY <2>1, JobsKept
<1>12. \A x : Pend(x)' => JobRefers(x)'
  <2>1. ASSUME NEW x \in S PROVE JobRefers(x)'
    <3>1. x.op = "cascade" /\ os[x.under].key \in Live(w)
      BY <1>4, <1>7
    <3>2. QED
      BY <1>3, <3>1 DEF JobRefers
  <2>2. ASSUME NEW x, Pend(x) PROVE JobRefers(x)'
    <3>1. JobRefers(x)
      BY <1>1, <2>2 DEF RunRefers
    <3>2. x.op \in {"cascade", "added"} => os[x.under].key \in Live(w)
      <4> SUFFICES ASSUME x.op \in {"cascade", "added"} PROVE os[x.under].key \in Live(w)
        OBVIOUS
      <4>1. PICK p : p = x.under
        OBVIOUS
      <4>2. p \in Parents
        <5>1. flush.todo \in Seq(SUBSET JobsOn(DOMAIN flush.pre))
          BY <1>1 DEF BufferInv, RunInv
        <5>2. PICK i \in DOMAIN flush.todo : x \in flush.todo[i]
          BY <2>2 DEF Pend
        <5>3. x \in JobsOn(DOMAIN flush.pre)
          BY <5>1, <5>2, ElementOfSeq, LenProperties
        <5>4. QED
          BY <4>1, <5>3, JobIs
      <4>3. obj[p].key \in Live(work)
        BY <3>1, <4>1 DEF JobRefers
      <4>4. obj[p].key # 0 /\ p \in Objs
        BY <1>9, <4>2, <4>3 DEF Live, Objs
      <4>5. QED
        BY <1>7, <1>8, <4>1, <4>3, <4>4
    <3>3. x.op = "delete" /\ ~x.what.kid => Pend(Home(x.what))'
      <4> SUFFICES ASSUME x.op = "delete", ~x.what.kid PROVE Pend(Home(x.what))'
        OBVIOUS
      <4>1. PICK h : h = Home(x.what)
        OBVIOUS
      <4>2. Pend(h)
        BY <1>11, <3>1, <4>1 DEF JobRefers
      <4>3. h # j
        BY <4>1 DEF Home, Rank
      <4>4. Pend(h)'
        BY <1>11, <4>2, <4>3
      <4>5. QED
        BY <4>1, <4>4
    <3>4. x.op = "delete" => x.what \in queue.deletes \cup CascadeDeletes(queue.deletes)
      BY <3>1 DEF JobRefers
    <3>5. QED
      BY <1>1, <1>3, <3>2, <3>3, <3>4 DEF JobRefers
  <2>3. QED
    BY <1>11, <2>1, <2>2
<1>13. \A x \in queue.persists \cap Parents : ParentFits(x)'
  <2> SUFFICES ASSUME NEW x \in queue.persists \cap Parents PROVE ParentFits(x)'
    OBVIOUS
  <2>1. ParentFits(x) /\ x \in Objs
    BY <1>1 DEF RunRefers
  <2>2. \A d \in queue.deletes : d.key # nextKey
    <3>1. \A d \in queue.deletes : DeleteFits(d)
      BY <1>1 DEF QueueFits
    <3>2. QED
      BY <1>1, <1>3, <1>4, <3>1, DeletesStayFit
  <2>3. CASE x = o
    <3>1. \A d \in queue.deletes : d.key # k
      BY <1>4, <2>1, <2>2, <2>3 DEF ParentFits
    <3>2. k # 0
      BY <1>1, <1>4, <1>7, <1>3 DEF Live, BufferInv, BufferTypes
    <3>3. QED
      BY <1>1, <1>3, <1>4, <1>7, <2>3, <3>1, <3>2 DEF ParentFits
  <2>4. CASE x # o
    <3>1. os[x] = obj[x]
      BY <1>4, <2>1, <2>4
    <3>2. PICK u : u = [op |-> "insert", of |-> x]
      OBVIOUS
    <3>3. Pend(u) => Pend(u)'
      BY <1>11, <2>4, <3>2
    <3>4. obj[x].key = 0 => Pend([op |-> "insert", of |-> x])'
      BY <2>1, <3>2, <3>3 DEF ParentFits
    <3>5. obj[x].key # 0 => obj[x].key \in Live(w)
      BY <1>7, <2>1 DEF ParentFits
    <3>6. QED
      BY <1>1, <1>3, <2>1, <3>1, <3>4, <3>5 DEF ParentFits
  <2>5. QED
    BY <2>3, <2>4
<1>14. \A x \in S : Rank(x) = 0
  OBVIOUS
<1>15. ToSet(idmap') \subseteq ToSet(idmap)
  OBVIOUS
<1>16. \A x \in DOMAIN work' : x \in DOMAIN work \/ x = nextKey
  BY <1>3, <1>4
<1>17. Refers(work') /\ Stands(idmap', obj', work')
  BY <1>3, <1>7, <1>10
<1>18. QED
  BY <1>12, <1>13, <1>14, <1>15, <1>16, <1>17, RefersJob

(* The part of a job that takes rows away, or writes none: what goes are   *)
(* rows of kids, or one that is deleted by its key after its kids.         *)
LEMMA RefersTakes ==
    ASSUME RefersInv, BufferInv', JobStep, IsBuffer(Buffer)', NEW j, Running(j), j.op # "insert",
           flush'.todo = Rest(j, {}),
           \A o \in Objs : obj'[o].key = obj[o].key,
           NEW w, w = work', DOMAIN w = DOMAIN work,
           \A k \in DOMAIN work :
               /\ w[k].by = work[k].by /\ w[k].fk = work[k].fk
               /\ w[k].state = "orphaned" => work[k].state = "orphaned" \/ work[k].by \in Kids,
           Live(w) \subseteq Live(work),
           \A k \in Live(work) \ Live(w) :
               \/ work[k].by \in Kids
               \/ /\ Rank(j) # 0
                  /\ \A x \in Live(w) : work[x].fk # k
                  /\ \E d \in queue.deletes : d.key = k
                  /\ \A e \in ToSet(idmap') : e.obj \in Parents => e.key # k,
           \A d : j = Home(d) => \A k \in Live(w) : work[k].fk # d.key,
           ToSet(idmap') \subseteq ToSet(idmap)
    PROVE  RefersInv'
<1>1. /\ BufferInv /\ IsBuffer(Buffer) /\ flush.pc = "run" /\ RunRefers /\ QueueFits
      /\ Refers(work) /\ RealIn(obj, work) /\ queue' = queue
      /\ queue.persists \subseteq Objs /\ work \in Rows /\ BufferTypes
  BY DEF RefersInv, JobStep, BufferInv, RunInv, BufferTypes
<1>2. Parents \cap Kids = {}
  BY WriteBufferAssumption
<1>3. PICK S : S = {} /\ S \in SUBSET JobsOn(DOMAIN flush.pre) /\ flush'.todo = Rest(j, S)
               /\ (\A x \in S : Rank(x) = 0) /\ \A x : x \notin S
  OBVIOUS
<1>4. /\ \A x : Pend(x)' => Pend(x)
      /\ \A x : Pend(x) /\ x # j => Pend(x)'
      /\ \A x : Pend(x) => Rank(j) <= Rank(x)
      /\ Pend(j) /\ JobRefers(j)
  BY <1>3, JobsKept
<1>5. Rank(j) # 0 => \A x : Pend(x) => Rank(x) # 0
  <2>1. Rank(j) \in Nat /\ \A x : Rank(x) \in Nat
    BY RankIs
  <2>2. QED
    BY <1>4, <2>1
<1>6. Refers(w)
  BY <1>1, <1>2, RowsTaken
<1>7. PICK os : os = obj'
  OBVIOUS
<1>8. \A o \in Parents : obj[o].key \in Live(work) =>
         \/ obj[o].key \in Live(w)
         \/ Rank(j) # 0 /\ (\E d \in queue.deletes : d.key = obj[o].key)
            /\ \A e \in ToSet(idmap') : e.obj \in Parents => e.key # obj[o].key
  <2> SUFFICES ASSUME NEW o \in Parents, obj[o].key \in Live(work), obj[o].key \notin Live(w)
               PROVE  /\ Rank(j) # 0 /\ \E d \in queue.deletes : d.key = obj[o].key
                      /\ \A e \in ToSet(idmap') : e.obj \in Parents => e.key # obj[o].key
    OBVIOUS
  <2>1. PICK k : k = obj[o].key /\ k \in Live(work) \ Live(w)
    OBVIOUS
  <2>2. work[k].by = o
    <3>1. \A x \in DOMAIN work : x # 0
      <4>1. DOMAIN work \subseteq 1 .. MaxKey
        BY <1>1, RowsAre
      <4>2. QED
        BY <4>1
    <3>2. QED
      BY <1>1, <2>1, <3>1 DEF RealIn, Live, Objs
  <2>3. QED
    BY <1>2, <2>1, <2>2
<1>9. Stands(idmap', os, w)
  <2>1. Stands(idmap, obj, work)
    BY <1>1 DEF RunRefers
  <2>2. \A e \in ToSet(idmap') : e \in ToSet(idmap) /\ e.obj \in Objs
    BY BufferNow
  <2>3. QED
    BY <1>7, <1>8, <2>1, <2>2 DEF Stands
<1>10. \A x : Pend(x)' => JobRefers(x)'
  <2> SUFFICES ASSUME NEW x, Pend(x) PROVE JobRefers(x)'
    BY <1>4
  <2>1. JobRefers(x)
    BY <1>1 DEF RunRefers
  <2>2. x.op \in {"cascade", "added"} => os[x.under].key \in Live(w)
    <3> SUFFICES ASSUME x.op \in {"cascade", "added"} PROVE os[x.under].key \in Live(w)
      OBVIOUS
    <3>1. PICK p : p = x.under
      OBVIOUS
    <3>2. p \in Parents
      <4>1. flush.todo \in Seq(SUBSET JobsOn(DOMAIN flush.pre))
        BY <1>1 DEF BufferInv, RunInv
      <4>2. PICK i \in DOMAIN flush.todo : x \in flush.todo[i]
        BY DEF Pend
      <4>3. x \in JobsOn(DOMAIN flush.pre)
        BY <4>1, <4>2, ElementOfSeq, LenProperties
      <4>4. QED
        BY <3>1, <4>3, JobIs
    <3>3. obj[p].key \in Live(work) /\ Rank(x) = 0
      BY <2>1, <3>1 DEF JobRefers, Rank
    <3>4. obj[p].key \in Live(w)
      BY <1>5, <1>8, <3>2, <3>3
    <3>5. QED
      BY <1>7, <3>1, <3>2, <3>4 DEF Objs
  <2>3. x.op = "delete" /\ ~x.what.kid =>
           \/ Pend(Home(x.what))'
           \/ /\ \A y : Pend(y)' => Rank(y) # 0
              /\ \A k \in Live(w) : w[k].fk # x.what.key
    <3> SUFFICES ASSUME x.op = "delete", ~x.what.kid
                 PROVE  \/ Pend(Home(x.what))'
                        \/ /\ \A y : Pend(y)' => Rank(y) # 0
                           /\ \A k \in Live(w) : w[k].fk # x.what.key
      OBVIOUS
    <3>1. PICK d, h : d = x.what /\ h = Home(d)
      OBVIOUS
    <3>2. \A k \in Live(w) : k \in Live(work) /\ w[k].fk = work[k].fk
      BY DEF Live
    <3>3. CASE Pend(h) /\ h # j
      BY <1>4, <3>1, <3>3
    <3>4. CASE h = j
      <4>1. Rank(j) # 0
        BY <3>1, <3>4 DEF Home, Rank
      <4>2. \A k \in Live(w) : work[k].fk # d.key
        BY <3>1, <3>4
      <4>3. QED
        BY <1>4, <1>5, <3>1, <3>2, <4>1, <4>2
    <3>5. CASE (\A y : Pend(y) => Rank(y) # 0) /\ \A k \in Live(work) : work[k].fk # d.key
      BY <1>4, <3>1, <3>2, <3>5
    <3>6. QED
      BY <2>1, <3>1, <3>3, <3>4, <3>5 DEF JobRefers
  <2>4. x.op = "delete" => x.what \in queue.deletes \cup CascadeDeletes(queue.deletes)
    BY <2>1 DEF JobRefers
  <2>5. QED
    BY <1>1, <1>7, <2>2, <2>3, <2>4 DEF JobRefers
<1>11. \A o \in queue.persists \cap Parents : ParentFits(o)'
  <2> SUFFICES ASSUME NEW o \in queue.persists \cap Parents PROVE ParentFits(o)'
    OBVIOUS
  <2>1. ParentFits(o) /\ os[o].key = obj[o].key
    BY <1>1, <1>7 DEF RunRefers
  <2>2. CASE obj[o].key = 0
    <3>1. PICK u : u = [op |-> "insert", of |-> o]
      OBVIOUS
    <3>2. Pend(u) /\ u # j
      BY <2>1, <2>2, <3>1 DEF ParentFits
    <3>3. Pend(u)'
      BY <1>4, <3>2
    <3>4. QED
      BY <1>1, <1>7, <2>1, <2>2, <3>1, <3>3 DEF ParentFits
  <2>3. CASE obj[o].key # 0
    <3>1. obj[o].key \in Live(w)
      BY <1>8, <2>1, <2>3 DEF ParentFits
    <3>2. QED
      BY <1>1, <1>7, <2>1, <2>3, <3>1 DEF ParentFits
  <2>4. QED
    BY <2>2, <2>3
<1>12. /\ ToSet(idmap') \subseteq ToSet(idmap) /\ \A x \in S : Rank(x) = 0
       /\ \A k \in DOMAIN work' : k \in DOMAIN work \/ k = nextKey
  BY <1>3
<1>13. Refers(work') /\ Stands(idmap', obj', work')
  BY <1>6, <1>7, <1>9
<1>14. QED
  BY <1>3, <1>10, <1>11, <1>12, <1>13, RefersJob

(* A job that writes nothing. *)
LEMMA RefersStill ==
    ASSUME RefersInv, BufferInv', JobStep, IsBuffer(Buffer)', NEW j, Running(j), j.op # "insert",
           j.op # "delete", flush'.todo = Rest(j, {}), idmap' = idmap,
           \A o \in Objs : obj'[o].key = obj[o].key,
           DOMAIN work' = DOMAIN work,
           \A k \in DOMAIN work : /\ work'[k].by = work[k].by /\ work'[k].fk = work[k].fk
                                  /\ work'[k].state = work[k].state
    PROVE  RefersInv'
<1>1. PICK w : w = work'
  OBVIOUS
<1>2. Live(w) = Live(work)
  BY <1>1 DEF Live
<1>3. \A k \in DOMAIN work :
         /\ w[k].by = work[k].by /\ w[k].fk = work[k].fk
         /\ w[k].state = "orphaned" => work[k].state = "orphaned" \/ work[k].by \in Kids
  BY <1>1
<1>4. \A d : j # Home(d)
  BY DEF Home
<1>5. ToSet(idmap') \subseteq ToSet(idmap)
  OBVIOUS
<1>6. DOMAIN w = DOMAIN work
  BY <1>1
<1>7. QED
  BY <1>1, <1>2, <1>3, <1>4, <1>5, <1>6, RefersTakes

(* Objects found dirty, and objects that are queued, are written. *)
LEMMA RefersOwn ==
    ASSUME RefersInv, BufferInv', IsBuffer(Buffer)', NEW j, RunUpdate(j) \/ RunInsert(j)
    PROVE  RefersInv'
<1> DEFINE J == JobsOn(DOMAIN flush.pre)
<1>1. /\ Running(j) /\ flush.pc = "run" /\ idmap' = idmap
      /\ \/ j.op = "update" /\ Skip(j) /\ NoStatement
         \/ /\ j.op \in {"insert", "update"}
            /\ Save(j.of, obj[j.of].fk) /\ Visit(j, j.of, Cascade(j.of))
  BY DEF RunUpdate, RunInsert, Running, bufVars
<1>2. /\ BufferInv /\ JobStep /\ IsFlush(flush) /\ Refers(work) /\ RealIn(obj, work)
      /\ obj \in Objects /\ flush.pre \in Captures
      /\ \A o \in DOMAIN flush.pre : KidsOf(o) \subseteq DOMAIN flush.pre
  BY <1>1, RunOwn DEF RefersInv, BufferInv, BufferTypes, RunInv
<1>3. CASE j.op = "update" /\ Skip(j) /\ NoStatement
  <2>1. PICK t : t = Rest(j, {}) /\ flush' = [flush EXCEPT !.todo = t]
    BY <1>3 DEF Skip
  <2>2. flush'.todo = Rest(j, {})
    BY <1>2, <2>1, FlushFields
  <2>3. work' = work /\ obj' = obj /\ j.op # "insert" /\ j.op # "delete"
    BY <1>3 DEF NoStatement
  <2>4. QED
    BY <1>1, <1>2, <2>2, <2>3, RefersStill
<1>4. CASE /\ j.op \in {"insert", "update"}
           /\ Save(j.of, obj[j.of].fk) /\ Visit(j, j.of, Cascade(j.of))
  <2>1. PICK o \in Objs : o = j.of /\ o \in DOMAIN flush.pre
    <3>1. {} \in SUBSET J
      OBVIOUS
    <3>2. j \in J
      BY <1>1, <1>2, <3>1, JobFlush
    <3>3. QED
      BY <1>2, <1>4, <3>2, JobIs, RestoreFacts
  <2>2. PICK S, t, v : /\ S = Cascade(o) /\ t = Rest(j, S) /\ v = flush.visited \cup {o}
                       /\ flush' = [flush EXCEPT !.todo = t, !.visited = v]
    BY <1>4, <2>1 DEF Visit
  <2>3. flush'.todo = Rest(j, S)
    BY <1>2, <2>2, FlushFields
  <2>4. \A c \in KidsOf(o) : c \in DOMAIN flush.pre /\ c \in Kids /\ o \in Parents
    <3>1. \A c \in Kids : KidsOf(c) = {}
      BY <1>2 DEF BufferInv, BufferTypes, KidsOf
    <3>2. KidsOf(o) \subseteq Kids
      BY <1>2, ObjectFields DEF KidsOf
    <3>3. QED
      BY <1>2, <2>1, <3>1, <3>2 DEF Objs
  <2>5. S \in SUBSET J
    BY <2>2, <2>4 DEF Cascade, JobsOn
  <2>6. \A x \in S : Rank(x) = 0 /\ x.op = "cascade" /\ x.under = o
    <3> SUFFICES ASSUME NEW x \in S PROVE Rank(x) = 0 /\ x.op = "cascade" /\ x.under = o
      OBVIOUS
    <3>1. PICK c \in KidsOf(o) : x = [op |-> "cascade", of |-> c, under |-> o]
      BY <2>2 DEF Cascade
    <3>2. QED
      BY <3>1 DEF Rank
  <2>7. PICK fk : fk = obj[o].fk /\ Save(o, fk)
    BY <1>4, <2>1
  <2>8. fk \in {0} \cup Live(work) /\ (fk # 0 => work[fk].by \in Parents)
    <3>1. CASE obj[o].key = 0
      BY <1>2, <2>7, <3>1 DEF RealIn
    <3>2. CASE obj[o].key # 0
      <4>1. PICK k : k = obj[o].key
        OBVIOUS
      <4>2. k \in Live(work) /\ k \in DOMAIN work
        BY <2>7, <3>2, <4>1 DEF Save, Savable, Live
      <4>3. fk = work[k].fk
        BY <1>2, <2>7, <3>2, <4>1 DEF RealIn
      <4>4. QED
        BY <1>2, <4>2, <4>3 DEF Refers
    <3>3. QED
      BY <3>1, <3>2
  <2>9. Rank(j) = 0
    BY <1>4 DEF Rank
  <2>10. QED
    BY <1>1, <1>2, <2>1, <2>3, <2>5, <2>6, <2>7, <2>8, <2>9, RefersWrites
<1>5. QED
  BY <1>1, <1>3, <1>4

(* Kids are written under a parent that has its row. *)
LEMMA RefersKids ==
    ASSUME RefersInv, BufferInv', IsBuffer(Buffer)', NEW j, RunCascade(j) \/ RunAdded(j)
    PROVE  RefersInv'
<1>1. PICK seen :
         /\ Running(j) /\ flush.pc = "run" /\ j.op \in {"cascade", "added"} /\ idmap' = idmap
         /\ \/ Skip(j) /\ NoStatement
            \/ SaveKid(j, seen)
  BY DEF RunCascade, RunAdded, Running
<1>2. /\ BufferInv /\ JobStep /\ IsFlush(flush) /\ RealIn(obj, work)
  BY <1>1, RunKid DEF RefersInv, BufferInv, BufferTypes, RunInv
<1>3. PICK t : t = Rest(j, {})
  OBVIOUS
<1>4. j.op # "insert" /\ j.op # "delete"
  BY <1>1
<1>5. CASE Skip(j) /\ NoStatement
  <2>1. flush' = [flush EXCEPT !.todo = t]
    BY <1>3, <1>5 DEF Skip
  <2>2. flush'.todo = Rest(j, {})
    BY <1>2, <1>3, <2>1, FlushFields
  <2>3. work' = work /\ obj' = obj
    BY <1>5 DEF NoStatement
  <2>4. QED
    BY <1>1, <1>2, <1>4, <2>2, <2>3, RefersStill
<1>6. CASE SaveKid(j, seen) /\ SkippedKid(j.of, j.under)
  <2>1. /\ flush' = [flush EXCEPT !.todo = t, !.visited = seen]
        /\ work' = work /\ obj' = obj
    BY <1>3, <1>6 DEF SaveKid, NoStatement
  <2>2. flush' = [flush EXCEPT !.todo = t, !.visited = seen]
    BY <2>1
  <2>3. flush'.todo = Rest(j, {})
    BY <1>2, <1>3, <2>2, FlushFields
  <2>4. QED
    BY <1>1, <1>2, <1>4, <2>1, <2>3, RefersStill
<1>7. CASE SaveKid(j, seen) /\ ~SkippedKid(j.of, j.under)
  <2>1. PICK fk, a : /\ fk = obj[j.under].key /\ Save(j.of, fk)
                     /\ flush' = [[flush EXCEPT !.todo = t, !.visited = seen] EXCEPT !.altered = a]
    <3>1. /\ Save(j.of, obj[j.under].key)
          /\ flush' = [[flush EXCEPT !.todo = Rest(j, {}), !.visited = seen] EXCEPT
                         !.altered = IF Tracked(j.of) THEN @ \cup {j.of} ELSE @]
      BY <1>7 DEF SaveKid
    <3>2. PICK f : f = [flush EXCEPT !.todo = t, !.visited = seen]
      OBVIOUS
    <3>3. flush' = [f EXCEPT !.altered = IF Tracked(j.of) THEN f.altered \cup {j.of} ELSE f.altered]
      BY <1>3, <3>1, <3>2
    <3>4. QED
      BY <3>1, <3>2, <3>3
  <2>2. flush' = [[flush EXCEPT !.todo = t, !.visited = seen] EXCEPT !.altered = a]
    BY <2>1
  <2>3. flush'.todo = t
    BY <1>2, <2>2, FlushFields
  <2>4. PICK S : S = {} /\ S \in SUBSET JobsOn(DOMAIN flush.pre) /\ flush'.todo = Rest(j, S)
                 /\ (\A x \in S : Rank(x) = 0) /\ \A x : x \notin S
    BY <1>3, <2>3
  <2>5. JobRefers(j)
    BY <1>1, <2>4, JobsKept
  <2>6. j.of \in Objs /\ j.under \in Parents
    <3>1. j \in JobsOn(DOMAIN flush.pre)
      BY <1>1, <1>2, <2>4, JobFlush
    <3>2. QED
      BY <1>1, <3>1, JobIs DEF Objs
  <2>7. PICK o \in Objs : o = j.of /\ Save(o, fk)
    BY <2>1, <2>6
  <2>8. fk \in Live(work) /\ (fk # 0 => work[fk].by \in Parents)
    BY <1>1, <1>2, <2>1, <2>5, <2>6 DEF JobRefers, RealIn, Objs
  <2>9. Rank(j) = 0
    BY <1>1 DEF Rank
  <2>10. \A x \in S : Rank(x) = 0 /\ x.op = "cascade" /\ x.under = o
    BY <2>4
  <2>11. QED
    BY <1>1, <1>2, <2>4, <2>7, <2>8, <2>9, <2>10, RefersWrites
<1>8. QED
  BY <1>1, <1>5, <1>6, <1>7

(* The rows that are left when some are taken away. *)
LEMMA ErasedLive ==
    ASSUME BufferTypes, NEW S, NEW how \in {"orphaned", "deleted"}, Erase(S, how), NEW w, w = work'
    PROVE  /\ DOMAIN w = DOMAIN work /\ Live(w) = Live(work) \ S
           /\ \A k \in DOMAIN work :
                 /\ w[k].by = work[k].by /\ w[k].fk = work[k].fk
                 /\ w[k].state = "orphaned" =>
                       work[k].state = "orphaned"
                       \/ (k \in S /\ work[k].state = "live" /\ how = "orphaned")
<1>1. \A k \in DOMAIN work : work[k] \in Row
  BY RowsAre DEF BufferTypes
<1>2. w = [k \in DOMAIN work |->
             IF k \in S /\ work[k].state = "live" THEN [work[k] EXCEPT !.state = how]
             ELSE work[k]]
  BY DEF Erase
<1>3. \A r \in Row : [r EXCEPT !.state = how].state = how
  BY DEF Row
<1>4. DOMAIN w = DOMAIN work
  BY <1>2
<1>5. \A k \in DOMAIN work : IF k \in S /\ work[k].state = "live" THEN w[k].state = how ELSE w[k] = work[k]
  BY <1>1, <1>2, <1>3
<1>6. Live(w) = Live(work) \ S
  BY <1>4, <1>5 DEF Live
<1>7. \A k \in DOMAIN work : w[k].by = work[k].by /\ w[k].fk = work[k].fk
  BY EraseFacts
<1>8. QED
  BY <1>4, <1>5, <1>6, <1>7

(* Orphans are taken away, deletes expanded. *)
LEMMA RefersOrphans ==
    ASSUME RefersInv, BufferInv', IsBuffer(Buffer)', NEW j, RunOrphan(j) \/ RunExpand(j)
    PROVE  RefersInv'
<1>1. /\ Running(j) /\ flush.pc = "run" /\ j.op \in {"orphan", "expand"} /\ obj' = obj
      /\ \/ flush' = [flush EXCEPT !.todo = Rest(j, {})]
         \/ flush' = [flush EXCEPT !.todo = Rest(j, {}), !.expanded = TRUE]
      /\ idmap' = idmap
  BY DEF RunOrphan, RunExpand, Running, Skip, bufVars
<1>2. BufferInv /\ BufferTypes /\ IsFlush(flush) /\ JobStep /\ RealIn(obj, work) /\ work \in Rows
  BY <1>1, RunRemoval DEF RefersInv, BufferInv, BufferTypes, RunInv
<1>3. PICK t, e : /\ t = Rest(j, {}) /\ e = TRUE
                  /\ \/ flush' = [flush EXCEPT !.todo = t]
                     \/ flush' = [flush EXCEPT !.todo = t, !.expanded = e]
  BY <1>1
<1>4. flush'.todo = Rest(j, {})
  BY <1>2, <1>3, FlushFields
<1>5. CASE RunExpand(j)
  <2>1. work' = work /\ j.op # "insert" /\ j.op # "delete"
    BY <1>1, <1>5 DEF RunExpand, txVars
  <2>2. QED
    BY <1>1, <1>2, <1>4, <2>1, RefersStill
<1>6. CASE RunOrphan(j)
  <2>1. PICK w, E : w = work' /\ E = {obj[j.of].key}
    OBVIOUS
  <2>2. Erase(E, "orphaned") /\ j.op = "orphan"
    BY <1>6, <2>1 DEF RunOrphan
  <2>3. /\ DOMAIN w = DOMAIN work /\ Live(w) = Live(work) \ E
        /\ \A k \in DOMAIN work :
              /\ w[k].by = work[k].by /\ w[k].fk = work[k].fk
              /\ w[k].state = "orphaned" =>
                    work[k].state = "orphaned" \/ (k \in E /\ work[k].state = "live")
    BY <1>2, <2>1, <2>2, ErasedLive
  <2>4. \A k \in DOMAIN work : k \in E => work[k].by \in Kids
    <3>1. j.of \in Kids
      <4>1. {} \in SUBSET JobsOn(DOMAIN flush.pre)
        OBVIOUS
      <4>2. j \in JobsOn(DOMAIN flush.pre)
        BY <1>1, <1>2, <4>1, JobFlush
      <4>3. QED
        BY <2>2, <4>2, JobIs
    <3>2. \A k \in DOMAIN work : k # 0
      <4>1. DOMAIN work \subseteq 1 .. MaxKey
        BY <1>2, RowsAre
      <4>2. QED
        BY <4>1
    <3>3. QED
      BY <1>2, <2>1, <3>1, <3>2 DEF RealIn, Objs
  <2>5. \A k \in DOMAIN work :
           /\ w[k].by = work[k].by /\ w[k].fk = work[k].fk
           /\ w[k].state = "orphaned" => work[k].state = "orphaned" \/ work[k].by \in Kids
    BY <2>3, <2>4
  <2>6. Live(w) \subseteq Live(work) /\ \A k \in Live(work) \ Live(w) : work[k].by \in Kids
    BY <2>3, <2>4 DEF Live
  <2>7. j.op # "insert" /\ \A d : j # Home(d)
    BY <2>2 DEF Home
  <2>8. ToSet(idmap') \subseteq ToSet(idmap)
    BY <1>1
  <2>9. QED
    BY <1>1, <1>2, <1>4, <2>1, <2>3, <2>5, <2>6, <2>7, <2>8, RefersTakes
<1>7. QED
  BY <1>5, <1>6

(* The delete at hand, and what is known of it. *)
LEMMA DeleteIs ==
    ASSUME RefersInv, NEW j, Running(j), j.op = "delete", flush'.todo = Rest(j, {}),
           NEW d, d = j.what
    PROVE  /\ d.by \in {"key", "home"} /\ d.key # 0 /\ d.kid \in BOOLEAN
           /\ d.by = "key" /\ d.key \in DOMAIN work => (d.kid <=> work[d.key].by \in Kids)
           /\ d.by = "home" => d.kid
           /\ ~d.kid => d \in queue.deletes /\ \A k \in Live(work) : work[k].fk # d.key
<1>1. PICK S : S = {} /\ S \in SUBSET JobsOn(DOMAIN flush.pre) /\ flush'.todo = Rest(j, S)
               /\ (\A x \in S : Rank(x) = 0)
  OBVIOUS
<1>2. /\ \A x : Pend(x) => Rank(j) <= Rank(x)
      /\ JobRefers(j)
  BY <1>1, JobsKept
<1>3. d \in queue.deletes \cup CascadeDeletes(queue.deletes)
  BY <1>2 DEF JobRefers
<1>4. \A x \in queue.deletes : DeleteFits(x) /\ x \in Deletes /\ x.key # 0
  <2>1. \A x \in queue.deletes : DeleteFits(x) /\ x \in Deletes
    BY DEF RefersInv, QueueFits, BufferInv, BufferTypes
  <2>2. \A k \in 1 .. nextKey - 1 : k # 0
    OBVIOUS
  <2>3. QED
    BY <2>1, <2>2 DEF DeleteFits
<1>5. ASSUME ~d.kid PROVE \A k \in Live(work) : work[k].fk # d.key
  <2>1. PICK h : h = Home(d)
    OBVIOUS
  <2>2. Rank(h) = 2 /\ Rank(j) = 3
    BY <1>5, <2>1 DEF Home, Rank
  <2>3. ~Pend(h)
    BY <1>2, <2>2
  <2>4. QED
    BY <1>2, <1>5, <2>1, <2>3 DEF JobRefers
<1>6. CASE d \in queue.deletes
  BY <1>4, <1>5, <1>6 DEF DeleteFits, Deletes
<1>7. CASE d \in CascadeDeletes(queue.deletes)
  <2>1. PICK x \in queue.deletes : d = [by |-> "home", key |-> x.key, kid |-> TRUE]
    BY <1>7 DEF CascadeDeletes
  <2>2. d.by = "home" /\ d.key = x.key /\ d.kid = TRUE
    BY <2>1
  <2>3. QED
    BY <1>4, <2>2
<1>8. QED
  BY <1>3, <1>6, <1>7

(* The kids of a parent, or the row with a key, are deleted. *)
LEMMA RefersDelete ==
    ASSUME RefersInv, BufferInv', IsBuffer(Buffer)', NEW j, RunDelete(j)
    PROVE  RefersInv'
<1>1. PICK d, X, E, w :
         /\ d = j.what /\ X = EvictMatching(d) /\ w = work'
         /\ E = IF d.by = "key" THEN {d.key} ELSE {k \in DOMAIN work : work[k].fk = d.key}
  OBVIOUS
<1>2. /\ Running(j) /\ flush.pc = "run" /\ j.op = "delete" /\ obj' = obj
      /\ Erase(E, "deleted") /\ SetBuffer(Forget(Buffer, X))
      /\ flush' = [flush EXCEPT !.todo = Rest(j, {}), !.altered = @ \cup X]
  BY <1>1 DEF RunDelete, Running
<1>3. /\ BufferInv /\ BufferTypes /\ IsFlush(flush) /\ JobStep /\ RealIn(obj, work)
      /\ IsBuffer(Buffer) /\ RunRefers /\ work \in Rows
  BY <1>2, RunRemoval DEF RefersInv, BufferInv, BufferTypes, RunInv
<1>4. PICK t, a : /\ t = Rest(j, {}) /\ flush' = [flush EXCEPT !.todo = t, !.altered = a]
  BY <1>2
<1>5. flush'.todo = Rest(j, {})
  <2>1. flush' = [flush EXCEPT !.todo = t, !.altered = a]
    BY <1>4
  <2>2. flush'.todo = t
    BY <1>3, <2>1, FlushFields
  <2>3. QED
    BY <1>4, <2>2
<1>6. /\ d.by \in {"key", "home"} /\ d.key # 0 /\ d.kid \in BOOLEAN
      /\ d.by = "key" /\ d.key \in DOMAIN work => (d.kid <=> work[d.key].by \in Kids)
      /\ d.by = "home" => d.kid
      /\ ~d.kid => d \in queue.deletes /\ \A k \in Live(work) : work[k].fk # d.key
  BY <1>1, <1>2, <1>5, DeleteIs
<1>7. /\ DOMAIN w = DOMAIN work /\ Live(w) = Live(work) \ E
      /\ \A k \in DOMAIN work :
            /\ w[k].by = work[k].by /\ w[k].fk = work[k].fk
            /\ w[k].state = "orphaned" => work[k].state = "orphaned"
  BY <1>1, <1>2, <1>3, ErasedLive
<1>8. ToSet(idmap') = {e \in ToSet(idmap) : e.obj \notin X}
  BY <1>2, <1>3, CallForgets
<1>9. ASSUME ~d.kid, NEW e \in ToSet(idmap'), e.obj \in Parents PROVE e.key # d.key
  <2> SUFFICES ASSUME e.key = d.key PROVE FALSE
    OBVIOUS
  <2>1. e \in ToSet(idmap) /\ e.obj \notin X
    BY <1>8, <1>9
  <2>2. PICK o : o = e.obj /\ o \in Objs /\ o \in Parents
    BY <1>9 DEF Objs
  <2>3. obj[o].key = d.key
    BY <1>2, <1>3, <1>9, <2>1, <2>2 DEF RunRefers, Stands
  <2>4. snap[o] # NoSnap
    BY <1>3, <2>1, <2>2, BufferIs
  <2>5. o \notin Kids /\ d.by = "key"
    BY <1>6, <1>9, <2>2, WriteBufferAssumption
  <2>6. o \in EvictMatching(d)
    BY <1>9, <2>2, <2>3, <2>4, <2>5 DEF EvictMatching, Tracked
  <2>7. QED
    BY <1>1, <2>1, <2>2, <2>6
<1>10. Rank(j) # 0
  BY <1>2 DEF Rank
<1>11. \A k \in Live(work) \ Live(w) :
          \/ work[k].by \in Kids
          \/ /\ Rank(j) # 0
             /\ \A x \in Live(w) : work[x].fk # k
             /\ \E x \in queue.deletes : x.key = k
             /\ \A e \in ToSet(idmap') : e.obj \in Parents => e.key # k
  <2> SUFFICES ASSUME NEW k \in Live(work), k \in E, work[k].by \notin Kids
               PROVE  /\ \A x \in Live(w) : work[x].fk # k
                      /\ \E x \in queue.deletes : x.key = k
                      /\ \A e \in ToSet(idmap') : e.obj \in Parents => e.key # k
    BY <1>7, <1>10
  <2>1. k \in DOMAIN work /\ work[k].by \in Objs
    <3>1. k \in DOMAIN work
      BY DEF Live
    <3>2. QED
      BY <1>3, <3>1, RowsAre
  <2>2. d.by = "key"
    <3>1. d.by = "home" => work[k].fk # 0
      BY <1>1, <1>6
    <3>2. work[k].by \in Parents
      BY <2>1 DEF Objs
    <3>3. QED
      BY <1>3, <1>6, <2>1, <3>1, <3>2 DEF RealIn
  <2>3. k = d.key /\ ~d.kid
    BY <1>1, <1>6, <2>1, <2>2
  <2>4. QED
    BY <1>6, <1>7, <1>9, <2>3
<1>12. \A x : j = Home(x) => \A k \in Live(w) : work[k].fk # x.key
  <2> SUFFICES ASSUME NEW x, j = Home(x), NEW k \in Live(w) PROVE work[k].fk # x.key
    OBVIOUS
  <2>1. d.by = "home" /\ d.key = x.key
    BY <1>1 DEF Home
  <2>2. k \in DOMAIN work /\ k \notin E
    BY <1>7 DEF Live
  <2>3. QED
    BY <1>1, <2>1, <2>2
<1>13. /\ j.op # "insert" /\ Live(w) \subseteq Live(work)
       /\ ToSet(idmap') \subseteq ToSet(idmap) /\ \A o \in Objs : obj'[o].key = obj[o].key
       /\ \A k \in DOMAIN work :
             /\ w[k].by = work[k].by /\ w[k].fk = work[k].fk
             /\ w[k].state = "orphaned" => work[k].state = "orphaned" \/ work[k].by \in Kids
  BY <1>2, <1>7, <1>8
<1>14. QED
  BY <1>1, <1>2, <1>3, <1>5, <1>7, <1>11, <1>12, <1>13, RefersTakes

(* Bulk statements change values, or take rows of kids away. *)
LEMMA RefersBulks ==
    ASSUME KidBulks, RefersInv, BufferInv', IsBuffer(Buffer)', NEW j,
           RunBulkUpdate(j) \/ RunBulkDelete(j)
    PROVE  RefersInv'
<1>1. PICK b, X, E, w : /\ b = j.what /\ X = BulkTracked(b) /\ E = BulkRows(b) /\ w = work'
  OBVIOUS
<1>2. /\ Running(j) /\ flush.pc = "run" /\ j.op = "bulk"
      /\ flush' = [flush EXCEPT !.todo = Rest(j, {}), !.altered = @ \cup X]
  BY <1>1 DEF RunBulkUpdate, RunBulkDelete, Running
<1>3. /\ BufferInv /\ BufferTypes /\ IsFlush(flush) /\ JobStep
      /\ IsBuffer(Buffer) /\ work \in Rows /\ obj \in Objects
  BY RunValues, RunRemoval DEF RefersInv, BufferInv, BufferTypes
<1>4. PICK t, a : /\ t = Rest(j, {}) /\ flush' = [flush EXCEPT !.todo = t, !.altered = a]
  BY <1>2
<1>5. flush'.todo = Rest(j, {})
  <2>1. flush' = [flush EXCEPT !.todo = t, !.altered = a]
    BY <1>4
  <2>2. flush'.todo = t
    BY <1>3, <2>1, FlushFields
  <2>3. QED
    BY <1>4, <2>2
<1>6. j.op # "insert" /\ j.op # "delete" /\ \A d : j # Home(d)
  BY <1>2 DEF Home
<1>7. CASE RunBulkUpdate(j)
  <2>1. /\ work' = [k \in DOMAIN work |-> IF k \in E THEN [work[k] EXCEPT !.val = b.to] ELSE work[k]]
        /\ obj' = [o \in Objs |-> IF o \in X THEN [obj[o] EXCEPT !.val = b.to] ELSE obj[o]]
        /\ idmap' = idmap
    BY <1>1, <1>7 DEF RunBulkUpdate
  <2>2. PICK v : v = b.to
    OBVIOUS
  <2>3. \A r \in Row : /\ [r EXCEPT !.val = v].by = r.by /\ [r EXCEPT !.val = v].fk = r.fk
                       /\ [r EXCEPT !.val = v].state = r.state
    BY DEF Row
  <2>4. \A k \in DOMAIN work : work[k] \in Row
    BY <1>3, RowsAre
  <2>5. /\ DOMAIN work' = DOMAIN work
        /\ \A k \in DOMAIN work : /\ work'[k].by = work[k].by /\ work'[k].fk = work[k].fk
                                  /\ work'[k].state = work[k].state
    BY <2>1, <2>2, <2>3, <2>4
  <2>6. \A o \in Objs : obj'[o].key = obj[o].key
    <3>1. \A x \in ObjState : [x EXCEPT !.val = v].key = x.key
      BY DEF ObjState
    <3>2. \A o \in Objs : obj[o] \in ObjState
      BY <1>3 DEF Objects
    <3>3. QED
      BY <2>1, <2>2, <3>1, <3>2
  <2>7. QED
    BY <1>2, <1>3, <1>5, <1>6, <2>1, <2>5, <2>6, RefersStill
<1>8. CASE RunBulkDelete(j)
  <2>1. Erase(E, "deleted") /\ SetBuffer(Forget(Buffer, X)) /\ obj' = obj /\ b.op = "delete"
    BY <1>1, <1>8 DEF RunBulkDelete
  <2>2. b.of \subseteq Kids
    <3>1. {} \in SUBSET JobsOn(DOMAIN flush.pre)
      OBVIOUS
    <3>2. j \in JobsOn(DOMAIN flush.pre)
      BY <1>2, <1>3, <3>1, JobFlush
    <3>3. b \in Bulks
      BY <1>1, <1>2, <3>2, JobIs
    <3>4. QED
      BY <2>1, <3>3 DEF KidBulks
  <2>3. /\ DOMAIN w = DOMAIN work /\ Live(w) = Live(work) \ E
        /\ \A k \in DOMAIN work :
              /\ w[k].by = work[k].by /\ w[k].fk = work[k].fk
              /\ w[k].state = "orphaned" => work[k].state = "orphaned"
    BY <1>1, <1>3, <2>1, ErasedLive
  <2>4. ToSet(idmap') = {e \in ToSet(idmap) : e.obj \notin X}
    BY <1>3, <2>1, CallForgets
  <2>5. \A k \in Live(work) \ Live(w) : work[k].by \in Kids
    BY <1>1, <2>2, <2>3 DEF BulkRows
  <2>6. /\ Live(w) \subseteq Live(work)
        /\ ToSet(idmap') \subseteq ToSet(idmap) /\ \A o \in Objs : obj'[o].key = obj[o].key
        /\ \A k \in DOMAIN work :
              /\ w[k].by = work[k].by /\ w[k].fk = work[k].fk
              /\ w[k].state = "orphaned" => work[k].state = "orphaned" \/ work[k].by \in Kids
    BY <2>1, <2>3, <2>4
  <2>7. QED
    BY <1>1, <1>2, <1>3, <1>5, <1>6, <2>3, <2>5, <2>6, RefersTakes
<1>9. QED
  BY <1>7, <1>8

-----------------------------------------------------------------------------
(* The caller's calls leave what refers to what *)

(* Between flushes, what a failure would leave is what is there. *)
LEMMA RefersIdle ==
    ASSUME RefersInv, flush.pc = "idle", outer # "broken"
    PROVE  /\ Then = obj /\ ThenRows = work /\ obj \in Objects /\ BufferTypes
           /\ RealIn(obj, work) /\ Among(rows, work)
           /\ Stands(idmap, obj, work)
           /\ \A o \in queue.persists : o \in Objs /\ obj[o].key = 0
           /\ \A d \in queue.deletes : DeleteFits(d)
           /\ \A k \in DOMAIN work : k # 0 /\ k \in 1 .. nextKey - 1
<1>1. Then = obj /\ ThenRows = work
  BY DEF Then, ThenRows
<1>2. /\ BufferInv /\ BufferTypes /\ obj \in Objects /\ work \in Rows
      /\ \A o \in queue.persists : o \in Objs
  BY DEF RefersInv, BufferInv, BufferTypes
<1>3. RealIn(obj, work) /\ Among(rows, work)
  BY <1>1, <1>2 DEF BufferInv, ThenInv
<1>4. Stands(idmap, obj, work)
  BY <1>1 DEF RefersInv, StandsInv
<1>5. /\ \A o \in queue.persists : obj[o].key = 0
      /\ \A d \in queue.deletes : DeleteFits(d)
  BY <1>1 DEF RefersInv, QueueFits
<1>6. \A k \in DOMAIN work : k # 0 /\ k \in 1 .. nextKey - 1
  <2>1. DOMAIN work \subseteq 1 .. nextKey - 1 /\ DOMAIN work \subseteq 1 .. MaxKey
    BY <1>2, RowsAre
  <2>2. \A k \in 1 .. MaxKey : k # 0
    OBVIOUS
  <2>3. QED
    BY <2>1, <2>2
<1>7. QED
  BY <1>1, <1>2, <1>3, <1>4, <1>5, <1>6

(* A call that leaves keys and rows alone: what is left to show of it. *)
LEMMA RefersCaller ==
    ASSUME RefersInv, BufferInv', IsBuffer(Buffer)', flush.pc = "idle", outer # "broken",
           UNCHANGED <<rows, work, nextKey, outer, onEnd, flush>>,
           \A o \in Objs : Same(obj, obj', o),
           \A o \in queue'.persists : o \in Objs /\ obj[o].key = 0,
           \A d \in queue'.deletes : DeleteFits(d),
           Stands(idmap', obj, work)
    PROVE  RefersInv'
<1>1. RealIn(obj, work) /\ Among(rows, work) /\ \A k \in DOMAIN work : k # 0
  BY RefersIdle
<1>2. Then' = obj' /\ ThenRows' = work
  BY DEF Then, ThenRows
<1>3. PICK os, et : os = obj' /\ et = RunEnds(obj', onEnd)
  OBVIOUS
<1>4. \A o \in Objs : os[o].key = obj[o].key
  BY <1>3 DEF Same
<1>5. RealIn(os, work) /\ RealIn(et, rows)
  BY <1>2, <1>3 DEF BufferInv, ThenInv, EndInv
<1>6. ASSUME NEW o \in queue'.persists PROVE os[o].key = 0 /\ et[o].key = 0
  <2>1. o \in Objs /\ os[o].key = 0
    BY <1>4
  <2>2. et[o].key = 0
    BY <1>1, <1>5, <2>1, NewStaysNew
  <2>3. QED
    BY <2>1, <2>2
<1>7. QueueFits'
  <2>1. \A d \in queue'.deletes : DeleteFits(d)'
    BY DEF DeleteFits
  <2>2. QED
    BY <1>2, <1>3, <1>6, <2>1 DEF QueueFits
<1>8. StandsInv'
  <2>1. \A e \in ToSet(idmap') : e.obj \in Objs
    BY BufferNow
  <2>2. Stands(idmap', os, work)
    BY <1>4, <2>1 DEF Stands
  <2>3. QED
    BY <1>2, <1>3, <2>2 DEF StandsInv
<1>9. RunRefers' /\ Refers(work)' /\ Refers(rows)'
  BY DEF RunRefers, Refers, Live, RefersInv
<1>10. QED
  BY <1>7, <1>8, <1>9 DEF RefersInv

(* Edits of objects and collections. *)
LEMMA RefersEdits ==
    ASSUME RefersInv, BufferInv', IsBuffer(Buffer)',
           \/ \E o \in Objs, v \in Vals : Edit(o, v)
           \/ \E c \in Kids, p \in Parents : AddKid(c, p) \/ DropKid(c, p)
    PROVE  RefersInv'
<1>1. obj \in Objects /\ \A o \in Objs : obj[o] \in ObjState
  BY DEF RefersInv, BufferInv, BufferTypes, Objects
<1>2. /\ flush.pc = "idle" /\ outer # "broken"
      /\ UNCHANGED <<rows, work, nextKey, outer, onEnd, flush, queue, idmap>>
  BY DEF Edit, AddKid, DropKid, Call, txVars, flushVars, bufVars
<1>3. ASSUME NEW p \in Objs, NEW y, obj' = [obj EXCEPT ![p] = y],
             y.key = obj[p].key, y.fk = obj[p].fk
      PROVE  \A o \in Objs : Same(obj, obj', o)
  BY <1>1, <1>3 DEF Objects, Same
<1>4. \A o \in Objs : Same(obj, obj', o)
  <2>1. CASE \E o \in Objs, v \in Vals : Edit(o, v)
    <3>1. PICK o \in Objs, v \in Vals : obj' = [obj EXCEPT ![o].val = v]
      BY <2>1 DEF Edit
    <3>2. PICK y : y = [obj[o] EXCEPT !.val = v]
      OBVIOUS
    <3>3. obj' = [obj EXCEPT ![o] = y] /\ y.key = obj[o].key /\ y.fk = obj[o].fk
      BY <1>1, <3>1, <3>2 DEF ObjState
    <3>4. QED
      BY <1>3, <3>3
  <2>2. CASE \E c \in Kids, p \in Parents : AddKid(c, p) \/ DropKid(c, p)
    <3>1. PICK p \in Parents : \E K : obj' = [obj EXCEPT ![p].kids = K]
      BY <2>2 DEF AddKid, DropKid
    <3>2. PICK K : obj' = [obj EXCEPT ![p].kids = K]
      BY <3>1
    <3>3. PICK y : y = [obj[p] EXCEPT !.kids = K]
      OBVIOUS
    <3>4. p \in Objs
      BY DEF Objs
    <3>5. obj' = [obj EXCEPT ![p] = y] /\ y.key = obj[p].key /\ y.fk = obj[p].fk
      BY <1>1, <3>2, <3>3, <3>4 DEF ObjState
    <3>6. QED
      BY <1>3, <3>4, <3>5
  <2>3. QED
    BY <2>1, <2>2
<1>5. /\ Stands(idmap, obj, work)
      /\ \A o \in queue.persists : o \in Objs /\ obj[o].key = 0
      /\ \A d \in queue.deletes : DeleteFits(d)
  BY <1>2, RefersIdle
<1>6. QED
  BY <1>2, <1>4, <1>5, RefersCaller

(* Calls that change the queues, and what is forgotten for them. *)
LEMMA RefersQueues ==
    ASSUME RefersInv, BufferInv', IsBuffer(Buffer)',
           \/ \E o \in Objs : \/ PersistNew(o) \/ PersistTracked(o) \/ RemoveQueued(o)
                              \/ RemoveStored(o) \/ DeleteByKey(o) \/ Detach(o)
                              \/ LoadKnown(o)
           \/ \E b \in Bulks : QueueBulk(b)
    PROVE  RefersInv'
<1>1. /\ flush.pc = "idle" /\ outer # "broken"
      /\ UNCHANGED <<rows, work, nextKey, outer, onEnd, flush, obj>>
  BY DEF PersistNew, PersistTracked, RemoveQueued, RemoveStored, DeleteByKey, Detach, LoadKnown,
         QueueBulk, Call, txVars, flushVars
<1>2. /\ RealIn(obj, work) /\ Stands(idmap, obj, work)
      /\ \A o \in queue.persists : o \in Objs /\ obj[o].key = 0
      /\ \A d \in queue.deletes : DeleteFits(d)
      /\ \A k \in DOMAIN work : k \in 1 .. nextKey - 1
  BY <1>1, RefersIdle
<1>3. /\ IsBuffer(Buffer)
      /\ queue \in [persists : SUBSET Objs, deletes : SUBSET Deletes, bulks : SUBSET Bulks]
  BY DEF RefersInv, BufferInv, BufferTypes
<1>4. ASSUME ToSet(idmap') \subseteq ToSet(idmap),
             \A o \in queue'.persists : o \in Objs /\ obj[o].key = 0,
             \A d \in queue'.deletes : DeleteFits(d)
      PROVE  RefersInv'
  <2>1. Stands(idmap', obj, work)
    BY <1>2, <1>4 DEF Stands
  <2>2. \A o \in Objs : Same(obj, obj', o)
    BY <1>1 DEF Same
  <2>3. QED
    BY <1>1, <1>4, <2>1, <2>2, RefersCaller
<1>5. ASSUME NEW o \in Objs, PersistNew(o) PROVE RefersInv'
  <2>1. /\ queue' = [queue EXCEPT !.persists = queue.persists \cup {o}]
        /\ idmap' = idmap /\ obj[o].key = 0
    BY <1>5 DEF PersistNew
  <2>2. queue'.persists = queue.persists \cup {o} /\ queue'.deletes = queue.deletes
    BY <1>3, <2>1
  <2>3. QED
    BY <1>2, <1>4, <2>1, <2>2
<1>6. ASSUME NEW o \in Objs, RemoveQueued(o) PROVE RefersInv'
  <2>1. PICK S : S = {o}
    OBVIOUS
  <2>2. SetBuffer(Forget(Buffer, S)) /\ queue' = [queue EXCEPT !.persists = queue.persists \ S]
    BY <1>6, <2>1 DEF RemoveQueued
  <2>3. queue'.persists = queue.persists \ S /\ queue'.deletes = queue.deletes
    BY <1>3, <2>2
  <2>4. ToSet(idmap') \subseteq ToSet(idmap)
    BY <1>3, <2>2, CallForgets
  <2>5. QED
    BY <1>2, <1>4, <2>3, <2>4
<1>7. ASSUME NEW o \in Objs, obj[o].key # 0, ToSet(idmap') \subseteq ToSet(idmap),
             queue' = [queue EXCEPT !.deletes = @ \cup
                         {[by |-> "key", key |-> obj[o].key, kid |-> o \in Kids]}]
      PROVE  RefersInv'
  <2>1. PICK d : d = [by |-> "key", key |-> obj[o].key, kid |-> o \in Kids]
    OBVIOUS
  <2>2. d.by = "key" /\ d.key = obj[o].key /\ (d.kid <=> o \in Kids)
    BY <2>1
  <2>3. queue'.persists = queue.persists /\ queue'.deletes = queue.deletes \cup {d}
    BY <1>3, <1>7, <2>1
  <2>4. d.key \in DOMAIN work /\ work[d.key].by = o
    BY <1>2, <1>7, <2>2 DEF RealIn
  <2>5. DeleteFits(d)
    BY <1>2, <2>2, <2>4 DEF DeleteFits
  <2>6. QED
    BY <1>2, <1>4, <1>7, <2>3, <2>5
<1>8. ASSUME NEW o \in Objs, RemoveStored(o) PROVE RefersInv'
  <2>1. ToSet(idmap') \subseteq ToSet(idmap)
    BY <1>3, <1>8, CallRemoves
  <2>2. QED
    BY <1>7, <1>8, <2>1 DEF RemoveStored
<1>9. ASSUME NEW o \in Objs, DeleteByKey(o) PROVE RefersInv'
  BY <1>7, <1>9 DEF DeleteByKey, bufVars
<1>10. ASSUME NEW o \in Objs, Detach(o) PROVE RefersInv'
  <2>1. PICK S : S = {o} \cup KidsOf(o)
    OBVIOUS
  <2>2. SetBuffer(Forget(Buffer, S)) /\ queue' = [queue EXCEPT !.persists = queue.persists \ S]
    BY <1>10, <2>1 DEF Detach
  <2>3. queue'.persists = queue.persists \ S /\ queue'.deletes = queue.deletes
    BY <1>3, <2>2
  <2>4. ToSet(idmap') \subseteq ToSet(idmap)
    BY <1>3, <2>2, CallForgets
  <2>5. QED
    BY <1>2, <1>4, <2>3, <2>4
<1>11. ASSUME NEW o \in Objs, LoadKnown(o) PROVE RefersInv'
  <2>1. ToSet(idmap') = ToSet(idmap)
    BY <1>3, <1>11, KnownBuffer
  <2>2. queue' = queue
    BY <1>11 DEF LoadKnown
  <2>3. QED
    BY <1>2, <1>4, <2>1, <2>2
<1>12. ASSUME NEW b \in Bulks, QueueBulk(b) PROVE RefersInv'
  <2>1. queue' = [queue EXCEPT !.bulks = queue.bulks \cup {b}] /\ idmap' = idmap
    BY <1>12 DEF QueueBulk, bufVars
  <2>2. queue'.deletes = queue.deletes /\ queue'.persists = queue.persists
    BY <1>3, <2>1
  <2>3. QED
    BY <1>2, <1>4, <2>1, <2>2
<1>13. ASSUME NEW o \in Objs, PersistTracked(o) PROVE RefersInv'
  <2>1. PICK D : D = CancelQueuedDelete(o)
    OBVIOUS
  <2>2. queue' = [queue EXCEPT !.deletes = D] /\ idmap' = idmap
    BY <1>13, <2>1 DEF PersistTracked, bufVars
  <2>3. queue'.deletes = D /\ queue'.persists = queue.persists /\ D \subseteq queue.deletes
    BY <1>3, <2>1, <2>2 DEF CancelQueuedDelete
  <2>4. QED
    BY <1>2, <1>4, <2>2, <2>3
<1>14. QED
  BY <1>5, <1>6, <1>8, <1>9, <1>10, <1>11, <1>12, <1>13

(* Calls that track objects that have a row. *)
LEMMA RefersLoads ==
    ASSUME RefersInv, BufferInv', IsBuffer(Buffer)', NEW o \in Objs,
           PersistKnown(o) \/ MergeObject(o) \/ LoadRow(o)
    PROVE  RefersInv'
<1>1. /\ flush.pc = "idle" /\ outer # "broken"
      /\ UNCHANGED <<rows, work, nextKey, outer, onEnd, flush>>
  BY DEF PersistKnown, MergeObject, LoadRow, Call, txVars, flushVars
<1>2. /\ RealIn(obj, work) /\ Stands(idmap, obj, work) /\ obj \in Objects
      /\ \A x \in queue.persists : x \in Objs /\ obj[x].key = 0
      /\ \A d \in queue.deletes : DeleteFits(d)
  BY <1>1, RefersIdle
<1>3. /\ BufferInv /\ IsBuffer(Buffer)
      /\ queue \in [persists : SUBSET Objs, deletes : SUBSET Deletes, bulks : SUBSET Bulks]
  BY DEF RefersInv, BufferInv, BufferTypes
<1>4. queue'.persists = queue.persists /\ queue'.deletes \subseteq queue.deletes
  <2>1. PICK D : D = CancelQueuedDelete(o)
    OBVIOUS
  <2>2. D \subseteq queue.deletes
    BY <2>1 DEF CancelQueuedDelete
  <2>3. queue' = queue \/ queue' = [queue EXCEPT !.deletes = D]
    BY <2>1 DEF PersistKnown, MergeObject, LoadRow
  <2>4. QED
    BY <1>3, <2>2, <2>3
<1>5. ASSUME NEW S, NEW os, NEW vals, Grown(Buffer, Buffer', os, S, vals),
             \A x \in Objs : Same(obj, os, x) /\ Same(obj, obj', x),
             \A x \in S : obj[x].key \in Live(work)
      PROVE  RefersInv'
  <2>1. PICK b, t : b = Buffer /\ t = Buffer'
    OBVIOUS
  <2>2. b.idmap = idmap /\ t.idmap = idmap'
    BY <2>1 DEF Buffer
  <2>3. \A e \in ToSet(t.idmap) : e \in ToSet(b.idmap) \/ (e.obj \in S /\ e.key = os[e.obj].key)
    BY <1>5, <2>1 DEF Grown
  <2>4. \A e \in ToSet(idmap') : e.obj \in Objs
    BY BufferNow
  <2>5. \A x \in Objs : os[x].key = obj[x].key
    BY <1>5 DEF Same
  <2>6. Stands(idmap', obj, work)
    BY <1>2, <1>5, <2>2, <2>3, <2>4, <2>5 DEF Stands
  <2>7. QED
    BY <1>1, <1>2, <1>4, <1>5, <2>6, RefersCaller
<1>6. CASE PersistKnown(o)
  <2>1. obj[o].key \in Live(work) /\ obj' = obj
    BY <1>6 DEF PersistKnown, SameAsRow
  <2>2. PICK v : Grown(Buffer, Buffer', obj, {o}, v)
    BY <1>3, <1>6, CallBuffers
  <2>3. \A x \in Objs : Same(obj, obj, x) /\ Same(obj, obj', x)
    BY <2>1 DEF Same
  <2>4. \A x \in {o} : obj[x].key \in Live(work)
    BY <2>1
  <2>5. QED
    BY <1>5, <2>2, <2>3, <2>4
<1>7. CASE MergeObject(o)
  <2>1. obj' = obj /\ \A x \in {o} \cup KidsOf(o) : obj[x].key \in Live(work)
    BY <1>7 DEF MergeObject
  <2>2. PICK v : Grown(Buffer, Buffer', obj, {o} \cup KidsOf(o), v)
    BY <1>3, <1>7, CallBuffers
  <2>3. \A x \in Objs : Same(obj, obj, x) /\ Same(obj, obj', x)
    BY <2>1 DEF Same
  <2>4. QED
    BY <1>5, <2>1, <2>2, <2>3
<1>8. CASE LoadRow(o)
  <2>1. obj[o].key \in Live(work)
    BY <1>8 DEF LoadRow
  <2>2. PICK os : os = obj'
    OBVIOUS
  <2>3. PICK k : k = obj[o].key
    OBVIOUS
  <2>4. PICK x : x = [key |-> k, val |-> work[k].val, fk |-> work[k].fk,
                      kids |-> IF o \in Parents THEN NotLoaded ELSE {}]
    OBVIOUS
  <2>5. k \in DOMAIN work /\ k # 0 /\ os[o] = x /\ \A y \in Objs : y # o => os[y] = obj[y]
    BY <1>3, <1>8, <2>2, <2>3, <2>4, RowLoaded
  <2>6. x.key = k /\ x.fk = work[k].fk
    BY <2>4
  <2>7. PICK v : Grown(Buffer, Buffer', os, {o}, v)
    BY <1>3, <1>8, <2>2, CallBuffers
  <2>8. obj[o].fk = work[k].fk
    BY <1>2, <2>3, <2>5 DEF RealIn
  <2>9. \A y \in Objs : Same(obj, os, y)
    BY <2>3, <2>5, <2>6, <2>8 DEF Same
  <2>10. \A y \in {o} : obj[y].key \in Live(work)
    BY <2>1
  <2>11. \A y \in Objs : Same(obj, os, y) /\ Same(obj, obj', y)
    BY <2>2, <2>9
  <2>12. QED
    BY <1>5, <2>7, <2>10, <2>11
<1>9. QED
  BY <1>6, <1>7, <1>8

-----------------------------------------------------------------------------
(* The caller's transaction, and the start of a flush *)

(* It begins, is committed or rolled back. *)
LEMMA RefersOuter ==
    ASSUME RefersInv, BufferInv', IsBuffer(Buffer)', OuterBegin \/ OuterCommit \/ OuterRollback
    PROVE  RefersInv'
<1>1. /\ flush.pc = "idle" /\ UNCHANGED <<flush, queue, nextKey>>
  BY DEF OuterBegin, OuterCommit, OuterRollback, Call, flushVars
<1>2. /\ Then = obj /\ Then' = obj' /\ ThenRows = work /\ ThenRows' = work' /\ RunRefers'
      /\ BufferInv /\ IsBuffer(Buffer) /\ StandsInv /\ Refers(work) /\ Refers(rows)
      /\ Among(rows, work)
  BY <1>1 DEF Then, ThenRows, RunRefers, RefersInv, BufferInv, ThenInv
<1>3. /\ \A o \in queue.persists : obj[o].key = 0 /\ RunEnds(obj, onEnd)[o].key = 0
      /\ \A d \in queue.deletes : DeleteFits(d)
  BY <1>2 DEF RefersInv, QueueFits
<1>4. CASE OuterBegin
  <2>1. /\ outer = "none" /\ outer' = "open"
        /\ UNCHANGED <<obj, rows, work, onEnd, idmap>>
    BY <1>4 DEF OuterBegin, bufVars
  <2>2. QueueFits'
    BY <1>1, <1>2, <1>3, <2>1 DEF QueueFits, DeleteFits
  <2>3. StandsInv'
    BY <1>2, <2>1 DEF StandsInv
  <2>4. QED
    BY <1>2, <2>1, <2>2, <2>3 DEF RefersInv
<1>5. CASE OuterCommit
  <2>1. /\ outer = "open" /\ outer' = "none" /\ onEnd' = <<>> /\ rows' = work
        /\ UNCHANGED <<obj, work, idmap>>
    BY <1>5 DEF OuterCommit, bufVars
  <2>2. QueueFits'
    BY <1>1, <1>2, <1>3, <2>1, RunEndsEmpty DEF QueueFits, DeleteFits
  <2>3. StandsInv'
    BY <1>2, <2>1 DEF StandsInv
  <2>4. QED
    BY <1>2, <2>1, <2>2, <2>3 DEF RefersInv
<1>6. CASE OuterRollback
  <2>1. /\ outer' = "none" /\ onEnd' = <<>>
        /\ work' = rows /\ rows' = rows /\ obj' = RunEnds(obj, onEnd)
    BY <1>6 DEF OuterRollback
  <2>2. (onEnd = <<>> /\ idmap' = idmap) \/ ToSet(idmap') = {}
    BY <1>2, <1>6, EndBuffer
  <2>3. QueueFits'
    <3>1. \A d \in queue.deletes : DeleteFits(d)'
      BY <1>1, <1>2, <1>3, <2>1 DEF DeleteFits, Among
    <3>2. \A o \in queue.persists : Then'[o].key = 0 /\ RunEnds(Then', onEnd')[o].key = 0
      BY <1>2, <1>3, <2>1, RunEndsEmpty
    <3>3. QED
      BY <1>1, <3>1, <3>2 DEF QueueFits
  <2>4. Stands(idmap', obj', rows)
    <3>1. CASE onEnd = <<>> /\ idmap' = idmap
      <4>1. obj' = obj
        BY <2>1, <3>1, RunEndsEmpty
      <4>2. outer # "broken" => rows = work
        BY <1>2, <3>1 DEF BufferInv, ThenInv
      <4>3. QED
        BY <1>2, <3>1, <4>1, <4>2 DEF StandsInv
    <3>2. CASE ToSet(idmap') = {}
      BY <3>2 DEF Stands
    <3>3. QED
      BY <2>2, <3>1, <3>2
  <2>5. StandsInv'
    BY <1>2, <2>1, <2>4 DEF StandsInv
  <2>6. QED
    BY <1>2, <2>1, <2>3, <2>5 DEF RefersInv
<1>7. QED
  BY <1>4, <1>5, <1>6

(* The delete of a parent has that of its kids before it; what is written  *)
(* under a parent that is tracked is so under a live row.                  *)
LEMMA BatchesRefer ==
    ASSUME RefersInv, flush.pc = "idle", outer # "broken",
           NEW n \in 1..10, NEW j, j \in Batch(n)
    PROVE  /\ j.op \in {"cascade", "added"} => obj[j.under].key \in Live(work)
           /\ j.op = "delete" => j.what \in queue.deletes \cup CascadeDeletes(queue.deletes)
           /\ j.op = "delete" /\ ~j.what.kid => Home(j.what) \in Batch(7)
<1>1. CASE n = 1 \/ n = 2 \/ n = 3 \/ n = 4
  BY <1>1 DEF Batch, Jobs
<1>2. CASE n = 5
  <2>1. CASE j.op = "orphan"
    BY <2>1
  <2>2. CASE j.op # "orphan"
    <3>1. PICK p \in Parents : \E a \in AddedKids(p) : j = [op |-> "added", of |-> a, under |-> p]
      BY <1>2, <2>2 DEF Batch, CollectionDiffs, Jobs
    <3>2. j.op = "added" /\ j.under = p /\ AddedKids(p) # {}
      BY <3>1
    <3>3. p \in Objs /\ snap[p] # NoSnap
      BY <3>2 DEF AddedKids, Tracked, Objs
    <3>4. PICK e \in ToSet(idmap) : e.obj = p
      BY <3>3, BufferIs DEF RefersInv
    <3>5. Stands(idmap, obj, work)
      BY RefersIdle
    <3>6. obj[p].key \in Live(work)
      BY <3>4, <3>5 DEF Stands
    <3>7. QED
      BY <3>2, <3>6
  <2>3. QED
    BY <2>1, <2>2
<1>3. CASE n = 6
  BY <1>3 DEF Batch
<1>4. CASE n = 7 \/ n = 8
  <2>1. PICK ds : ds = queue.deletes \cup CascadeDeletes(queue.deletes)
    OBVIOUS
  <2>2. PICK d \in ds : j = [op |-> "delete", what |-> d]
    BY <1>4, <2>1 DEF Batch
  <2>3. j.op = "delete" /\ j.what = d
    BY <2>2
  <2>4. ASSUME ~d.kid PROVE Home(d) \in Batch(7)
    <3>1. \A x \in CascadeDeletes(queue.deletes) : x.kid
      BY DEF CascadeDeletes
    <3>2. d \in queue.deletes
      BY <2>1, <2>4, <3>1
    <3>3. d \in Deletes /\ DeleteFits(d)
      BY <3>2, RefersIdle DEF BufferTypes
    <3>4. d.by = "key"
      BY <2>4, <3>3 DEF Deletes, DeleteFits
    <3>5. PICK c : c = [by |-> "home", key |-> d.key, kid |-> TRUE]
      OBVIOUS
    <3>6. c \in CascadeDeletes(queue.deletes) /\ c.kid
      BY <2>4, <3>2, <3>4, <3>5 DEF CascadeDeletes
    <3>7. [op |-> "delete", what |-> c] \in Batch(7)
      BY <3>6 DEF Batch
    <3>8. QED
      BY <3>5, <3>7 DEF Home
  <2>5. QED
    BY <2>1, <2>3, <2>4
<1>5. CASE n = 9 \/ n = 10
  BY <1>5 DEF Batch
<1>6. QED
  BY <1>1, <1>2, <1>3, <1>4, <1>5

(* So a flush begins with its jobs in order. *)
LEMMA RefersBegin ==
    ASSUME RefersInv, BufferInv', FlushBegin
    PROVE  RefersInv'
<1>1. /\ flush.pc = "idle" /\ outer # "broken"
      /\ flush' = [pc |-> "run", todo |-> Batches, visited |-> {}, pre |-> Captured,
                   expanded |-> FALSE, altered |-> {}, start |-> work, goal |-> Goal]
      /\ UNCHANGED <<rows, work, nextKey, outer, onEnd, obj, queue, snap, idmap, st>>
  BY DEF FlushBegin, Idle, txVars, bufVars
<1>2. /\ flush'.pc = "run" /\ flush'.todo = Batches /\ flush'.pre = Captured
      /\ flush'.start = work
  BY <1>1
<1>3. /\ Then = obj /\ BufferTypes /\ obj \in Objects /\ onEnd \in Seq(Ends)
      /\ Stands(idmap, obj, work)
      /\ \A o \in queue.persists : o \in Objs /\ obj[o].key = 0
      /\ \A d \in queue.deletes : DeleteFits(d)
  BY <1>1, RefersIdle DEF BufferTypes
<1>4. IsBuffer(Buffer) /\ Refers(work) /\ Refers(rows) /\ QueueFits
  BY DEF RefersInv
<1>5. PICK r : r = Restore(obj, Captured)
  OBVIOUS
<1>6. Then' = r /\ ThenRows' = work
  BY <1>1, <1>2, <1>5 DEF Then, ThenRows
<1>7. r \in Objects /\ \A o \in Objs : Same(obj, r, o)
  <2>1. /\ Captured \in Captures
        /\ \A o \in Objs : o \in DOMAIN Captured => Captured[o] = Columns(o)
    BY <1>3, BatchesAre
  <2>2. /\ r \in Objects
        /\ \A o \in Objs :
              /\ o \in DOMAIN Captured =>
                    r[o].key = Captured[o].key /\ r[o].fk = Captured[o].fk
              /\ o \notin DOMAIN Captured => r[o] = obj[o]
    BY <1>3, <1>5, <2>1, RestoreFacts
  <2>3. \A o \in Objs : o \in DOMAIN Captured =>
           Captured[o].key = obj[o].key /\ Captured[o].fk = obj[o].fk
    BY <2>1 DEF Columns
  <2>4. QED
    BY <2>2, <2>3 DEF Same
<1>8. \A o \in Objs : RunEnds(r, onEnd)[o].key = RunEnds(obj, onEnd)[o].key
  BY <1>3, <1>7, RunEndsFacts DEF Same
<1>9. QueueFits'
  <2>1. \A o \in queue.persists : r[o].key = 0 /\ RunEnds(r, onEnd)[o].key = 0
    BY <1>3, <1>4, <1>7, <1>8 DEF QueueFits, Same
  <2>2. \A d \in queue.deletes : DeleteFits(d)'
    BY <1>1, <1>3 DEF DeleteFits
  <2>3. QED
    BY <1>1, <1>6, <2>1, <2>2 DEF QueueFits
<1>10. IsBuffer(Buffer)'
  BY <1>1, <1>4 DEF Buffer
<1>11. StandsInv'
  <2>1. \A e \in ToSet(idmap) : e.obj \in Objs
    BY <1>1, <1>10, BufferNow
  <2>2. Stands(idmap, r, work)
    BY <1>3, <1>7, <2>1 DEF Stands, Same
  <2>3. QED
    BY <1>1, <1>6, <2>2 DEF StandsInv
<1>12. PICK B : B = Batches
  OBVIOUS
<1>13. InOrder(B) /\ \A x : PendIn(B, x) <=> \E n \in 1..10 : x \in Batch(n)
  BY <1>3, <1>12, BatchesFacts
<1>14. \A x : Pend(x)' <=> PendIn(B, x)
  BY <1>2, <1>12 DEF Pend, PendIn
<1>15. ASSUME NEW x, Pend(x)' PROVE JobRefers(x)'
  <2>1. PICK n \in 1..10 : x \in Batch(n)
    BY <1>13, <1>14, <1>15
  <2>2. /\ x.op \in {"cascade", "added"} => obj[x.under].key \in Live(work)
        /\ x.op = "delete" => x.what \in queue.deletes \cup CascadeDeletes(queue.deletes)
        /\ x.op = "delete" /\ ~x.what.kid => Home(x.what) \in Batch(7)
    BY <1>1, <2>1, BatchesRefer
  <2>3. x.op = "delete" /\ ~x.what.kid => Pend(Home(x.what))'
    BY <1>13, <1>14, <2>2
  <2>4. QED
    BY <1>1, <2>2, <2>3 DEF JobRefers
<1>16. ASSUME NEW o \in queue.persists \cap Parents PROVE ParentFits(o)'
  <2>1. PICK u : u = [op |-> "insert", of |-> o]
    OBVIOUS
  <2>2. u \in Batch(3)
    BY <2>1 DEF Batch, Jobs
  <2>3. Pend(u)'
    BY <1>13, <1>14, <2>2
  <2>4. \A d \in queue.deletes : d.key # 0
    <3>1. \A d \in queue.deletes : d.key \in 1 .. nextKey - 1
      BY <1>3 DEF DeleteFits
    <3>2. QED
      BY <3>1
  <2>5. QED
    BY <1>1, <1>3, <2>1, <2>3, <2>4 DEF ParentFits
<1>17. RunRefers'
  <2>1. flush'.todo = B /\ InOrder(B)
    BY <1>2, <1>12, <1>13
  <2>2. Refers(flush'.start) /\ Stands(idmap', obj', work')
    BY <1>1, <1>2, <1>3, <1>4
  <2>3. QED
    BY <1>1, <1>15, <1>16, <2>1, <2>2 DEF RunRefers
<1>18. Refers(work') /\ Refers(rows')
  BY <1>1, <1>4
<1>19. QED
  BY <1>9, <1>10, <1>11, <1>17, <1>18 DEF RefersInv

-----------------------------------------------------------------------------
(* The end of a flush *)

(* All is written: what was queued has its row. *)
LEMMA RefersDone ==
    ASSUME RefersInv, BufferInv', FlushDone
    PROVE  RefersInv'
<1>1. /\ flush.pc = "run" /\ flush.todo = <<>> /\ flush' = Idle
      /\ UNCHANGED <<work, nextKey, outer, obj>>
      /\ rows' = IF outer = "none" THEN work ELSE rows
      /\ queue' = NoWork
  BY DEF FlushDone
<1>2. /\ BufferInv /\ IsBuffer(Buffer) /\ RunRefers /\ Refers(work) /\ Refers(rows)
      /\ outer # "broken"
  BY <1>1 DEF RefersInv, BufferInv, RunInv
<1>3. flush'.pc = "idle" /\ Then' = obj /\ ThenRows' = work
  BY <1>1 DEF Idle, Then, ThenRows
<1>4. /\ IsBuffer(Buffer)'
      /\ \A e \in ToSet(idmap') : \/ e \in ToSet(idmap)
                                  \/ e.obj \in queue.persists /\ e.key = obj[e.obj].key
  BY <1>2, DoneBuffer
<1>5. QueueFits'
  <2>1. queue'.persists = {} /\ queue'.deletes = {}
    BY <1>1 DEF NoWork
  <2>2. QED
    BY <2>1 DEF QueueFits
<1>6. Stands(idmap', obj, work)
  <2>1. \A x : ~Pend(x)
    BY <1>1 DEF Pend
  <2>2. \A o \in queue.persists \cap Parents : obj[o].key \in Live(work)
    BY <1>1, <1>2, <2>1 DEF RunRefers, ParentFits
  <2>3. Stands(idmap, obj, work)
    BY <1>1, <1>2 DEF RunRefers
  <2>4. QED
    BY <1>4, <2>2, <2>3 DEF Stands
<1>7. StandsInv'
  BY <1>1, <1>2, <1>3, <1>6 DEF StandsInv
<1>8. RunRefers'
  BY <1>3 DEF RunRefers
<1>9. Refers(work') /\ Refers(rows')
  BY <1>1, <1>2
<1>10. QED
  BY <1>4, <1>5, <1>7, <1>8, <1>9 DEF RefersInv

(* It fails: the rows it began with are there, or are still to come back.  *)
LEMMA RefersFails ==
    ASSUME RefersInv, BufferInv', FlushFails
    PROVE  RefersInv'
<1>1. /\ flush.pc = "run" /\ flush' = [Idle EXCEPT !.goal = flush.goal]
      /\ UNCHANGED <<rows, nextKey, onEnd, snap, idmap, st>>
      /\ obj' = Restore(obj, flush.pre)
      /\ queue' = PutBack
      /\ work' = IF outer = "none" \/ mode.nested THEN flush.start ELSE work
      /\ outer' = IF outer = "open" /\ ~mode.nested THEN "broken" ELSE outer
  BY DEF FlushFails, bufVars
<1>2. /\ BufferInv /\ IsBuffer(Buffer) /\ QueueFits /\ StandsInv /\ RunRefers
      /\ Refers(work) /\ Refers(rows) /\ Among(flush.start, work)
      /\ outer \in {"none", "open"} /\ (onEnd = <<>> => rows = flush.start)
      /\ queue \in [persists : SUBSET Objs, deletes : SUBSET Deletes, bulks : SUBSET Bulks]
      /\ Then = Restore(obj, flush.pre) /\ ThenRows = flush.start
  BY <1>1 DEF RefersInv, BufferInv, BufferTypes, RunInv, Then, ThenRows, ThenInv
<1>3. flush'.pc = "idle" /\ Then' = Then /\ ThenRows' = work'
  <2>1. flush'.pc = "idle"
    BY <1>1 DEF Idle
  <2>2. QED
    BY <1>1, <1>2, <2>1 DEF Then, ThenRows
<1>4. \A k \in DOMAIN work' : k \in DOMAIN work /\ work'[k].by = work[k].by
  BY <1>1, <1>2 DEF Among
<1>5. /\ queue'.persists = queue.persists
      /\ queue'.deletes \subseteq queue.deletes \cup CascadeDeletes(queue.deletes)
  <2>1. PICK D : D = queue.deletes \cup CascadeDeletes(queue.deletes)
    OBVIOUS
  <2>2. queue' = queue \/ queue' = [queue EXCEPT !.deletes = D]
    BY <1>1, <2>1 DEF PutBack
  <2>3. QED
    BY <1>2, <2>1, <2>2
<1>6. \A d \in queue'.deletes : DeleteFits(d)'
  <2> SUFFICES ASSUME NEW d \in queue'.deletes PROVE DeleteFits(d)'
    OBVIOUS
  <2>1. CASE d \in queue.deletes
    <3>1. DeleteFits(d)
      BY <1>2, <2>1 DEF QueueFits
    <3>2. QED
      BY <1>1, <1>4, <3>1 DEF DeleteFits
  <2>2. CASE d \in CascadeDeletes(queue.deletes)
    <3>1. PICK x \in queue.deletes : d = [by |-> "home", key |-> x.key, kid |-> TRUE]
      BY <2>2 DEF CascadeDeletes
    <3>2. d.by = "home" /\ d.by # "key" /\ d.key = x.key /\ d.kid
      BY <3>1
    <3>3. DeleteFits(x)
      BY <1>2 DEF QueueFits
    <3>4. QED
      BY <1>1, <3>2, <3>3 DEF DeleteFits
  <2>3. QED
    BY <1>5, <2>1, <2>2
<1>7. QueueFits'
  BY <1>1, <1>2, <1>3, <1>5, <1>6 DEF QueueFits
<1>8. StandsInv'
  <2>1. Stands(idmap, Then, flush.start)
    BY <1>2 DEF StandsInv
  <2>2. CASE outer' = "broken"
    BY <1>1, <1>2, <1>3, <2>1, <2>2 DEF StandsInv
  <2>3. CASE outer' # "broken"
    <3>1. work' = flush.start
      BY <1>1, <1>2, <2>3
    <3>2. QED
      BY <1>1, <1>3, <2>1, <2>3, <3>1 DEF StandsInv
  <2>4. QED
    BY <2>2, <2>3
<1>9. Refers(work') /\ Refers(rows')
  <2>1. Refers(flush.start)
    BY <1>1, <1>2 DEF RunRefers
  <2>2. QED
    BY <1>1, <1>2, <2>1
<1>10. RunRefers' /\ IsBuffer(Buffer)'
  BY <1>1, <1>2, <1>3 DEF RunRefers, Buffer
<1>11. QED
  BY <1>7, <1>8, <1>9, <1>10 DEF RefersInv

-----------------------------------------------------------------------------
(* That foreign keys hold *)

(* At first the stored kids have their parents. *)
LEMMA RefersInit == ASSUME Init PROVE RefersInv
<1>1. /\ BufferInv /\ IsBuffer(Buffer) /\ RealIn(obj, rows)
      /\ \A e \in ToSet(idmap) : \E o \in Stored : o \in Objs /\ e.obj = o /\ e.key = obj[o].key
  <2>1. Then = obj /\ ThenRows = rows /\ outer # "broken"
    BY DEF Init, Idle, Then, ThenRows
  <2>2. QED
    BY <2>1, BufferInit, BuffersAtFirst DEF BufferInv, ThenInv
<1>2. /\ queue.persists = {} /\ queue.deletes = {}
      /\ flush.pc = "idle" /\ outer = "none" /\ work = rows
  BY DEF Init, NoWork, Idle
<1>3. \A k \in DOMAIN rows : rows[k].state = "live"
  <2>1. PICK D, f : rows = [k \in D |-> [val |-> FirstVal, fk |-> f[k].fk, by |-> f[k].by, state |-> "live"]]
    <3>1. PICK f : f = [k \in {FirstKey[o] : o \in Stored} |->
                          LET o == CHOOSE x \in Stored : FirstKey[x] = k
                          IN [fk |-> FkAtFirst(o), by |-> o]]
      OBVIOUS
    <3>2. rows = [k \in {FirstKey[o] : o \in Stored} |->
                    [val |-> FirstVal, fk |-> f[k].fk, by |-> f[k].by, state |-> "live"]]
      BY <3>1 DEF Init
    <3>3. QED
      BY <3>2
  <2>2. QED
    BY <2>1
<1>4. /\ \A o \in Stored : o \in Objs /\ FirstKey[o] # 0
      /\ \A o \in Stored : obj[o].key = FirstKey[o] /\ obj[o].fk = FkAtFirst(o)
      /\ \A o \in Objs : o \notin Stored => obj[o].key = 0
  <2>1. \A o \in Stored : FirstKey[o] # 0 /\ o \in Objs
    <3>1. \A n \in Nat : 0 \notin 1 .. n
      OBVIOUS
    <3>2. Cardinality(Stored) \in Nat
      BY FS_Subset, FS_CardinalityType, WriteBufferAssumption
    <3>3. 0 \notin 1 .. Cardinality(Stored)
      BY <3>1, <3>2
    <3>4. QED
      BY <3>3, WriteBufferAssumption
  <2>2. ASSUME NEW o \in Stored PROVE obj[o].key = FirstKey[o] /\ obj[o].fk = FkAtFirst(o)
    <3>1. PICK x : x = [key |-> FirstKey[o], val |-> FirstVal, fk |-> FkAtFirst(o), kids |-> KidsAtFirst(o)]
      OBVIOUS
    <3>2. x.key = FirstKey[o] /\ x.fk = FkAtFirst(o)
      BY <3>1
    <3>3. obj[o] = x
      BY <2>1, <3>1 DEF Init
    <3>4. QED
      BY <3>2, <3>3
  <2>3. \A o \in Objs : o \notin Stored => obj[o].key = 0
    BY DEF Init, NewObject
  <2>4. QED
    BY <2>1, <2>2, <2>3
<1>5. \A k \in DOMAIN rows : rows[k].fk # 0 => rows[k].fk \in DOMAIN rows /\ rows[rows[k].fk].by \in Parents
  <2> SUFFICES ASSUME NEW k \in DOMAIN rows, rows[k].fk # 0
               PROVE  rows[k].fk \in DOMAIN rows /\ rows[rows[k].fk].by \in Parents
    OBVIOUS
  <2>1. PICK o : o = rows[k].by
    OBVIOUS
  <2>2. o \in Objs /\ obj[o].key = k
    <3>1. o \in Objs
      BY <1>1, <2>1, RowsAre DEF BufferInv, BufferTypes
    <3>2. QED
      BY <1>1, <2>1, <3>1 DEF RealIn
  <2>3. k # 0
    <3>1. rows \in Rows /\ BufferTypes
      BY <1>1 DEF BufferInv, BufferTypes
    <3>2. k \in 1 .. MaxKey
      BY <3>1, RowsAre
    <3>3. QED
      BY <3>2
  <2>4. o \in Stored /\ rows[k].fk = FkAtFirst(o)
    BY <1>1, <1>4, <2>2, <2>3 DEF RealIn
  <2>5. PICK h : h = FirstHome[o]
    OBVIOUS
  <2>6. h # o /\ rows[k].fk = FirstKey[h]
    BY <2>4, <2>5 DEF FkAtFirst
  <2>7. h \in Stored /\ h \in Parents
    BY <2>4, <2>5, <2>6, WriteBufferAssumption
  <2>8. FirstKey[h] \in DOMAIN rows /\ rows[FirstKey[h]].by = h
    BY <1>1, <1>4, <2>7 DEF RealIn
  <2>9. QED
    BY <2>6, <2>7, <2>8
<1>6. Refers(rows)
  BY <1>3, <1>5 DEF Refers, Live
<1>7. StandsInv
  <2>1. \A e \in ToSet(idmap) : obj[e.obj].key = e.key /\ e.key \in Live(rows)
    <3>1. \A o \in Stored : obj[o].key \in DOMAIN rows
      BY <1>1, <1>4 DEF RealIn
    <3>2. QED
      BY <1>1, <1>3, <3>1 DEF Live
  <2>2. QED
    BY <1>2, <2>1 DEF StandsInv, Stands, Then, ThenRows
<1>8. QueueFits /\ RunRefers
  BY <1>2 DEF QueueFits, RunRefers
<1>9. QED
  BY <1>1, <1>2, <1>6, <1>7, <1>8 DEF RefersInv

(* One step for each disjunct of Next. *)
LEMMA RefersNext == ASSUME KidBulks, RefersInv, [Next]_vars PROVE RefersInv'
<1>1. BufferInv' /\ IsBuffer(Buffer)'
  BY BufferNext, BufferStays DEF RefersInv
<1>2. CASE \/ \E o \in Objs, v \in Vals : Edit(o, v)
           \/ \E c \in Kids, p \in Parents : AddKid(c, p) \/ DropKid(c, p)
  BY <1>1, <1>2, RefersEdits
<1>3. CASE \/ \E o \in Objs : \/ PersistNew(o) \/ PersistTracked(o) \/ RemoveQueued(o)
                              \/ RemoveStored(o) \/ DeleteByKey(o) \/ Detach(o)
                              \/ LoadKnown(o)
           \/ \E b \in Bulks : QueueBulk(b)
  BY <1>1, <1>3, RefersQueues
<1>4. ASSUME NEW o \in Objs, PersistKnown(o) \/ MergeObject(o) \/ LoadRow(o) PROVE RefersInv'
  BY <1>1, <1>4, RefersLoads
<1>5. CASE OuterBegin \/ OuterCommit \/ OuterRollback
  BY <1>1, <1>5, RefersOuter
<1>6. CASE FlushBegin
  BY <1>1, <1>6, RefersBegin
<1>7. CASE RunJob
  <2>1. PICK j : \/ RunUpdate(j) \/ RunInsert(j) \/ RunCascade(j) \/ RunAdded(j) \/ RunOrphan(j)
                 \/ RunExpand(j) \/ RunDelete(j) \/ RunBulkUpdate(j) \/ RunBulkDelete(j)
    BY <1>7 DEF RunJob
  <2>2. QED
    BY <1>1, <2>1, RefersOwn, RefersKids, RefersOrphans, RefersDelete, RefersBulks
<1>8. CASE FlushDone
  BY <1>1, <1>8, RefersDone
<1>9. CASE FlushFails
  BY <1>1, <1>9, RefersFails
<1>10. CASE UNCHANGED vars
  <2>1. UNCHANGED <<rows, work, nextKey, obj, idmap, queue, outer, onEnd, flush>>
    BY <1>10 DEF vars
  <2>2. Then' = Then /\ ThenRows' = ThenRows
    BY <2>1 DEF Then, ThenRows
  <2>3. QueueFits' /\ StandsInv'
    BY <2>1, <2>2 DEF RefersInv, QueueFits, StandsInv, DeleteFits
  <2>4. RunRefers'
    BY <2>1 DEF RefersInv, RunRefers, JobRefers, ParentFits, Pend
  <2>5. Refers(work') /\ Refers(rows')
    BY <2>1 DEF RefersInv
  <2>6. QED
    BY <1>1, <2>3, <2>4, <2>5 DEF RefersInv
<1>11. QED
  BY <1>2, <1>3, <1>4, <1>5, <1>6, <1>7, <1>8, <1>9, <1>10 DEF Next

(* A row that the foreign key of a live row names is live, after every     *)
(* statement of every flush, whatever calls are mixed and wherever a flush *)
(* fails, unless deleteMany() is called for parents: parents are inserted  *)
(* before kids and deleted after them (sortByIndex), the kids of a removed *)
(* parent are deleted with it (collectCascadeDeletes), and a kid is        *)
(* written with the key its parent has by then.                            *)
THEOREM KidsKeepParents ==
    ASSUME KidBulks
    PROVE  Spec => []ForeignKeysHold
<1>1. RefersInv => ForeignKeysHold
  BY DEF RefersInv, Refers, ForeignKeysHold, Live
<1>2. Init => RefersInv
  BY RefersInit
<1>3. RefersInv /\ [Next]_vars => RefersInv'
  BY RefersNext
<1>4. QED
  BY <1>1, <1>2, <1>3, PTL DEF Spec

-----------------------------------------------------------------------------
(* What a flush is to make of any objects, snapshots, queues and rows: Goal *)
(* and what it is made of, for os, sn, q and w, with orphan removal or not. *)
KidsIn(os, o) == IF os[o].kids = NotLoaded THEN {} ELSE os[o].kids

EditedIn(os, sn, o) == sn[o] # NoSnap /\ (os[o].val # sn[o].val \/ os[o].fk # sn[o].fk)

AddedIn(os, sn, o) ==
    IF sn[o] # NoSnap /\ sn[o].kids # NotLoaded THEN KidsIn(os, o) \ sn[o].kids ELSE {}
RemovedIn(os, sn, o) ==
    IF sn[o] # NoSnap /\ sn[o].kids # NotLoaded THEN sn[o].kids \ KidsIn(os, o) ELSE {}

NewHomeIn(os, sn, ps, c, p) ==
    \/ c \in AddedIn(os, sn, p)
    \/ (EditedIn(os, sn, p) \/ p \in ps) /\ c \in KidsIn(os, p)

SavedIn(os, sn, ps, w, o) ==
    \/ EditedIn(os, sn, o) /\ os[o].key \in Live(w)
    \/ o \in ps
    \/ \E p \in Parents : /\ NewHomeIn(os, sn, ps, o, p)
                          /\ ~(os[p].key # 0 /\ sn[o] # NoSnap /\ ~EditedIn(os, sn, o)
                                 /\ os[o].fk = os[p].key)

FactIn(os, sn, ps, w, o) ==
    [of |-> o, val |-> os[o].val,
     home |-> IF \E p \in Parents : NewHomeIn(os, sn, ps, o, p)
              THEN CHOOSE p \in Parents : NewHomeIn(os, sn, ps, o, p)
              ELSE IF os[o].fk \in DOMAIN w THEN w[os[o].fk].by ELSE "none"]

OrphansIn(os, sn, ps, on) ==
    {c \in Kids : on /\ \E p \in Parents : c \in RemovedIn(os, sn, p)}
        \ UNION {KidsIn(os, p) : p \in {x \in Parents : sn[x] # NoSnap \/ x \in ps}}

DoomedBy(ds, w, f) ==
    \E d \in ds : d.key \in DOMAIN w
      /\ \/ d.by = "key" /\ f.of = w[d.key].by
         \/ f.home = w[d.key].by

KeptIn(os, sn, ps, ds, w, on) ==
    {f \in {FactIn(os, sn, ps, w, o) : o \in {x \in Objs : SavedIn(os, sn, ps, w, x)}}
             \cup {f \in Facts(w) : ~SavedIn(os, sn, ps, w, f.of)} :
       ~(f.of \in OrphansIn(os, sn, ps, on) \/ DoomedBy(ds, w, f))}

Bulked(bs, f) ==
    IF \E b \in bs : b.op = "update" /\ InBulk(b, f)
    THEN [f EXCEPT !.val = (CHOOSE b \in bs : b.op = "update" /\ InBulk(b, f)).to]
    ELSE f

GoalOf(os, sn, q, w, on) ==
    {f \in {Bulked(q.bulks, g) : g \in KeptIn(os, sn, q.persists, q.deletes, w, on)} :
       ~\E b \in q.bulks : b.op = "delete" /\ InBulk(b, f)}

(* It is the goal, of a state *)
LEMMA GoalIs == Goal = GoalOf(obj, snap, queue, work, mode.orphans)
BY Zenon DEF Goal, GoalOf, Bulked, KeptIn, DoomedBy, OrphansIn, FactIn, SavedIn, NewHomeIn,
   RemovedIn, AddedIn, EditedIn, KidsIn, Condemned, Orphans, FactOf, Saved, NewHome, Touched,
   SkippedKid, RemovedKids, AddedKids, Edited, Tracked, KidsOf

(* and of the one after a step. *)
LEMMA GoalNext == Goal' = GoalOf(obj', snap', queue', work', mode'.orphans)
BY Zenon DEF Goal, GoalOf, Bulked, KeptIn, DoomedBy, OrphansIn, FactIn, SavedIn, NewHomeIn,
   RemovedIn, AddedIn, EditedIn, KidsIn, Condemned, Orphans, FactOf, Saved, NewHome, Touched,
   SkippedKid, RemovedKids, AddedKids, Edited, Tracked, KidsOf

(* It depends on the queued deletes by the rows they take only: that those *)
(* of a parent's kids were added to the queue changes nothing.             *)
LEMMA DeletesAgain ==
    ASSUME NEW os, NEW sn, NEW w, NEW on, NEW q, NEW r,
           r.persists = q.persists, r.bulks = q.bulks,
           r.deletes = q.deletes \cup CascadeDeletes(q.deletes)
    PROVE  GoalOf(os, sn, r, w, on) = GoalOf(os, sn, q, w, on)
<1>1. PICK ds, es : ds = q.deletes /\ es = r.deletes
  OBVIOUS
<1>2. es = ds \cup {[by |-> "home", key |-> d.key, kid |-> TRUE] : d \in {x \in ds : x.by = "key" /\ ~x.kid}}
  BY <1>1 DEF CascadeDeletes
<1>3. ASSUME NEW f PROVE DoomedBy(es, w, f) <=> DoomedBy(ds, w, f)
  <2>1. ASSUME DoomedBy(ds, w, f) PROVE DoomedBy(es, w, f)
    BY <1>2, <2>1 DEF DoomedBy
  <2>2. ASSUME DoomedBy(es, w, f) PROVE DoomedBy(ds, w, f)
    <3>1. PICK d \in es : d.key \in DOMAIN w /\ \/ d.by = "key" /\ f.of = w[d.key].by
                                                \/ f.home = w[d.key].by
      BY <2>2 DEF DoomedBy
    <3>2. CASE d \in ds
      BY <3>1, <3>2 DEF DoomedBy
    <3>3. CASE d \notin ds
      <4>1. PICK x \in ds : d = [by |-> "home", key |-> x.key, kid |-> TRUE]
        BY <1>2, <3>3
      <4>2. d.key = x.key /\ d.by # "key"
        BY <4>1
      <4>3. QED
        BY <3>1, <4>2 DEF DoomedBy
    <3>4. QED
      BY <3>2, <3>3
  <2>3. QED
    BY <2>1, <2>2
<1>4. PICK ps : ps = q.persists
  OBVIOUS
<1>5. KeptIn(os, sn, ps, es, w, on) = KeptIn(os, sn, ps, ds, w, on)
  <2>1. PICK all : all = {FactIn(os, sn, ps, w, o) : o \in {x \in Objs : SavedIn(os, sn, ps, w, x)}}
                           \cup {f \in Facts(w) : ~SavedIn(os, sn, ps, w, f.of)}
    OBVIOUS
  <2>2. {f \in all : ~(f.of \in OrphansIn(os, sn, ps, on) \/ DoomedBy(es, w, f))}
          = {f \in all : ~(f.of \in OrphansIn(os, sn, ps, on) \/ DoomedBy(ds, w, f))}
    BY <1>3
  <2>3. QED
    BY <2>1, <2>2, Zenon DEF KeptIn
<1>6. QED
  BY <1>1, <1>4, <1>5, Zenon DEF GoalOf

-----------------------------------------------------------------------------
(* While a flush runs and has altered nothing that a failure does not put  *)
(* back, what it was to make of the rows is what a flush would be to make  *)
(* of them if it failed now.                                               *)
RetryInv ==
    flush.pc = "run" =>
        /\ told = "none"
        /\ flush.altered = {} =>
              flush.goal = GoalOf(Then, snap, queue, flush.start, mode.orphans)

(* The objects a job leaves are as they were, once put back.               *)
LEMMA ThenSame ==
    ASSUME BufferInv, JobStep, \A o \in Objs : o \in DOMAIN flush.pre \/ obj'[o] = obj[o]
    PROVE  Then' = Then
<1>1. obj \in Objects /\ flush.pre \in Captures /\ obj' \in Objects
  BY DEF BufferInv, BufferTypes, RunInv, JobStep
<1>2. Then = Restore(obj, flush.pre) /\ Then' = Restore(obj', flush.pre)
  BY DEF Then, JobStep
<1>3. PICK pre, os, ot : pre = flush.pre /\ os = obj /\ ot = obj'
  OBVIOUS
<1>4. ASSUME NEW o \in Objs, o \in DOMAIN pre
      PROVE  [ot[o] EXCEPT !.key = pre[o].key, !.val = pre[o].val, !.fk = pre[o].fk]
               = [os[o] EXCEPT !.key = pre[o].key, !.val = pre[o].val, !.fk = pre[o].fk]
  <2>1. PICK x, y : x = os[o] /\ y = ot[o]
    OBVIOUS
  <2>2. /\ x = [key |-> x.key, val |-> x.val, fk |-> x.fk, kids |-> x.kids]
        /\ y = [key |-> y.key, val |-> y.val, fk |-> y.fk, kids |-> y.kids]
    BY <1>1, <1>3, <2>1, ObjectFields
  <2>3. y.kids = x.kids
    BY <1>3, <2>1 DEF JobStep
  <2>4. PICK k, v, f : k = pre[o].key /\ v = pre[o].val /\ f = pre[o].fk
    OBVIOUS
  <2>5. [y EXCEPT !.key = k, !.val = v, !.fk = f] = [x EXCEPT !.key = k, !.val = v, !.fk = f]
    BY <2>2, <2>3
  <2>6. QED
    BY <2>1, <2>4, <2>5
<1>5. \A o \in Objs : o \in DOMAIN pre \/ ot[o] = os[o]
  BY <1>3
<1>6. Restore(ot, pre) = Restore(os, pre)
  BY <1>4, <1>5 DEF Restore
<1>7. QED
  BY <1>2, <1>3, <1>6

(* A job's part in the invariant: what is left to show of each.            *)
LEMMA RetryJob ==
    ASSUME BufferInv, RetryInv, JobStep, UNCHANGED <<mode, told>>, flush'.goal = flush.goal,
           flush'.altered = {} =>
               /\ flush.altered = {} /\ snap' = snap
               /\ \A o \in Objs : o \in DOMAIN flush.pre \/ obj'[o] = obj[o]
    PROVE  RetryInv'
<1>1. /\ flush.pc = "run" /\ told' = "none" /\ mode' = mode /\ queue' = queue
      /\ flush'.start = flush.start
  BY DEF JobStep, RetryInv
<1>2. ASSUME flush'.altered = {}
      PROVE  flush'.goal = GoalOf(Then', snap', queue', flush'.start, mode'.orphans)
  <2>1. snap' = snap /\ Then' = Then
    BY <1>2, ThenSame
  <2>2. flush.goal = GoalOf(Then, snap, queue, flush.start, mode.orphans)
    BY <1>1, <1>2 DEF RetryInv
  <2>3. QED
    BY <1>1, <2>1, <2>2
<1>3. QED
  BY <1>1, <1>2 DEF RetryInv

(* The goal of a flush stays; objects altered stay so. *)
LEMMA GoalStays ==
    ASSUME IsFlush(flush), NEW t, NEW v, NEW e, NEW a, JobSets(t, v, e, a)
    PROVE  flush'.goal = flush.goal /\ (flush'.altered = flush.altered \/ flush'.altered = a)
<1>1. PICK pc, todo, visited, pre, expanded, altered, start, goal :
         flush = [pc |-> pc, todo |-> todo, visited |-> visited, pre |-> pre,
                  expanded |-> expanded, altered |-> altered, start |-> start, goal |-> goal]
  BY DEF IsFlush
<1>2. CASE flush' = [flush EXCEPT !.todo = t]
  BY <1>1, <1>2
<1>3. CASE flush' = [flush EXCEPT !.todo = t, !.visited = v]
  BY <1>1, <1>3
<1>4. CASE flush' = [flush EXCEPT !.todo = t, !.expanded = e]
  BY <1>1, <1>4
<1>5. CASE flush' = [flush EXCEPT !.todo = t, !.altered = a]
  BY <1>1, <1>5
<1>6. CASE flush' = [[flush EXCEPT !.todo = t, !.visited = v] EXCEPT !.altered = a]
  BY <1>1, <1>6
<1>7. QED
  BY <1>2, <1>3, <1>4, <1>5, <1>6 DEF JobSets

(* What a save leaves of the other objects. *)
LEMMA SaveLeaves ==
    ASSUME obj \in Objects, NEW o \in Objs, NEW fk, Save(o, fk)
    PROVE  \A x \in Objs : x # o => obj'[x] = obj[x]
<1>1. PICK k : obj' = [obj EXCEPT ![o].key = k, ![o].fk = fk]
  BY DEF Save
<1>2. QED
  BY <1>1 DEF Objects

(* Objects of the caller's are written. *)
LEMMA RetryOwn ==
    ASSUME BufferInv, RetryInv, NEW j, RunUpdate(j) \/ RunInsert(j)
    PROVE  RetryInv'
<1>1. /\ JobStep /\ IsFlush(flush) /\ obj \in Objects /\ flush.pre \in Captures
      /\ Running(j) /\ j.op \in {"update", "insert"}
      /\ snap' = snap /\ UNCHANGED <<mode, told>>
      /\ \/ Skip(j) /\ NoStatement
         \/ Save(j.of, obj[j.of].fk) /\ Visit(j, j.of, Cascade(j.of))
  BY RunOwn DEF BufferInv, BufferTypes, RunInv, RunUpdate, RunInsert, Running, bufVars
<1>2. j.of \in DOMAIN flush.pre /\ j.of \in Objs
  <2>1. {} \in SUBSET JobsOn(DOMAIN flush.pre)
    OBVIOUS
  <2>2. j \in JobsOn(DOMAIN flush.pre)
    BY <1>1, <2>1, JobFlush
  <2>3. QED
    BY <1>1, <2>2, JobIs, RestoreFacts
<1>3. PICK a : a = flush.altered
  OBVIOUS
<1>4. \E t, v : JobSets(t, v, v, a)
  <2>1. CASE Skip(j)
    BY <2>1 DEF Skip, JobSets
  <2>2. CASE Visit(j, j.of, Cascade(j.of))
    BY <2>2 DEF Visit, JobSets
  <2>3. QED
    BY <1>1, <2>1, <2>2
<1>5. flush'.goal = flush.goal /\ flush'.altered = flush.altered
  BY <1>1, <1>3, <1>4, GoalStays
<1>6. \A o \in Objs : o \in DOMAIN flush.pre \/ obj'[o] = obj[o]
  <2>1. CASE NoStatement
    BY <2>1 DEF NoStatement
  <2>2. CASE Save(j.of, obj[j.of].fk)
    BY <1>1, <1>2, <2>2, SaveLeaves
  <2>3. QED
    BY <1>1, <2>1, <2>2
<1>7. QED
  BY <1>1, <1>5, <1>6, RetryJob

(* Kids are. *)
LEMMA RetryKids ==
    ASSUME BufferInv, IsBuffer(Buffer), RetryInv, NEW j, RunCascade(j) \/ RunAdded(j)
    PROVE  RetryInv'
<1>1. PICK seen :
      /\ Running(j) /\ j.op \in {"cascade", "added"}
      /\ \/ Skip(j) /\ NoStatement /\ UNCHANGED snap
         \/ SaveKid(j, seen)
  BY DEF RunCascade, RunAdded, Running
<1>2. /\ JobStep /\ IsFlush(flush) /\ obj \in Objects /\ flush.pre \in Captures
      /\ UNCHANGED <<mode, told>>
  BY RunKid DEF BufferInv, BufferTypes, RunInv, RunCascade, RunAdded, Running
<1>3. j.of \in DOMAIN flush.pre /\ j.of \in Objs
  <2>1. {} \in SUBSET JobsOn(DOMAIN flush.pre)
    OBVIOUS
  <2>2. j \in JobsOn(DOMAIN flush.pre)
    BY <1>1, <2>1, JobFlush
  <2>3. QED
    BY <1>1, <1>2, <2>2, JobIs, RestoreFacts
<1>4. PICK r : r = Rest(j, {})
  OBVIOUS
<1>5. PICK a : a = IF ~SkippedKid(j.of, j.under) /\ Tracked(j.of)
                   THEN flush.altered \cup {j.of} ELSE flush.altered
  OBVIOUS
<1>6. a = {} => flush.altered = {} /\ (SkippedKid(j.of, j.under) \/ ~Tracked(j.of))
  BY <1>5
<1>7. \/ /\ NoStatement /\ snap' = snap
         /\ flush' = [flush EXCEPT !.todo = r] \/ flush' = [flush EXCEPT !.todo = r, !.visited = seen]
      \/ /\ Save(j.of, obj[j.under].key)
         /\ a = {} => snap' = snap
         /\ flush' = [[flush EXCEPT !.todo = r, !.visited = seen] EXCEPT !.altered = a]
  <2>1. CASE Skip(j) /\ NoStatement /\ UNCHANGED snap
    BY <1>4, <2>1 DEF Skip
  <2>2. CASE SaveKid(j, seen) /\ SkippedKid(j.of, j.under)
    BY <1>4, <2>2 DEF SaveKid
  <2>3. CASE SaveKid(j, seen) /\ ~SkippedKid(j.of, j.under)
    <3>1. /\ Save(j.of, obj[j.under].key)
          /\ ~Tracked(j.of) => snap' = snap
          /\ flush' = [[flush EXCEPT !.todo = r, !.visited = seen] EXCEPT
                          !.altered = IF Tracked(j.of) THEN @ \cup {j.of} ELSE @]
      BY <1>4, <2>3 DEF SaveKid
    <3>2. flush' = [[flush EXCEPT !.todo = r, !.visited = seen] EXCEPT !.altered = a]
      <4>1. PICK g : g = [flush EXCEPT !.todo = r, !.visited = seen]
        OBVIOUS
      <4>2. g.altered = flush.altered
        BY <1>2, <4>1 DEF IsFlush
      <4>3. QED
        BY <1>5, <2>3, <3>1, <4>1, <4>2
    <3>3. QED
      BY <1>6, <2>3, <3>1, <3>2
  <2>4. QED
    BY <1>1, <2>1, <2>2, <2>3
<1>8. flush'.goal = flush.goal
  <2>1. JobSets(r, seen, seen, a)
    BY <1>7 DEF JobSets
  <2>2. QED
    BY <1>2, <2>1, GoalStays
<1>9. flush'.altered = {} => flush.altered = {} /\ snap' = snap
  <2>1. CASE /\ snap' = snap
             /\ flush' = [flush EXCEPT !.todo = r] \/ flush' = [flush EXCEPT !.todo = r, !.visited = seen]
    <3>1. flush'.altered = flush.altered
      BY <1>2, <2>1, FlushFields
    <3>2. QED
      BY <2>1, <3>1
  <2>2. CASE /\ a = {} => snap' = snap
             /\ flush' = [[flush EXCEPT !.todo = r, !.visited = seen] EXCEPT !.altered = a]
    <3>1. flush'.altered = a
      BY <1>2, <2>2, FlushFields
    <3>2. QED
      BY <1>6, <2>2, <3>1
  <2>3. QED
    BY <1>7, <2>1, <2>2
<1>10. \A o \in Objs : o \in DOMAIN flush.pre \/ obj'[o] = obj[o]
  <2>1. CASE NoStatement
    BY <2>1 DEF NoStatement
  <2>2. CASE Save(j.of, obj[j.under].key)
    BY <1>2, <1>3, <2>2, SaveLeaves
  <2>3. QED
    BY <1>7, <2>1, <2>2
<1>11. QED
  BY <1>2, <1>8, <1>9, <1>10, RetryJob

(* Rows are deleted, and what is tracked with them put out of the map. *)
LEMMA RetryTaken ==
    ASSUME BufferInv, IsBuffer(Buffer), RetryInv, NEW j,
           RunOrphan(j) \/ RunExpand(j) \/ RunDelete(j) \/ RunBulkDelete(j)
    PROVE  RetryInv'
<1>1. /\ JobStep /\ IsFlush(flush) /\ obj' = obj /\ UNCHANGED <<mode, told>>
      /\ snap \in [Objs -> Snaps \cup {NoSnap}]
  BY RunRemoval, BufferIs
     DEF BufferInv, BufferTypes, RunOrphan, RunExpand, RunDelete, RunBulkDelete, txVars
<1>2. PICK r : r = Rest(j, {})
  OBVIOUS
<1>3. ASSUME NEW S, SetBuffer(Forget(Buffer, S)),
             flush' = [flush EXCEPT !.todo = r, !.altered = @ \cup S]
      PROVE  RetryInv'
  <2>1. PICK a : a = flush.altered \cup S
    OBVIOUS
  <2>2. flush' = [flush EXCEPT !.todo = r, !.altered = a]
    BY <1>3, <2>1
  <2>3. flush'.altered = a
    BY <1>1, <2>2, FlushFields
  <2>4. flush'.goal = flush.goal
    <3>1. JobSets(r, r, r, a)
      BY <2>2 DEF JobSets
    <3>2. QED
      BY <1>1, <3>1, GoalStays
  <2>5. ASSUME flush'.altered = {} PROVE snap' = snap
    <3>1. \A o \in Objs : o \notin S
      BY <2>1, <2>3, <2>5
    <3>2. \A o \in Objs : snap'[o] = snap[o]
      BY <1>3, <3>1, CallForgets
    <3>3. snap' \in [Objs -> Snaps \cup {NoSnap}]
      BY <1>3, CallForgets, BufferNow
    <3>4. QED
      BY <1>1, <3>2, <3>3
  <2>6. flush'.altered = {} => flush.altered = {}
    BY <2>1, <2>3
  <2>7. QED
    BY <1>1, <2>4, <2>5, <2>6, RetryJob
<1>4. ASSUME snap' = snap,
             flush' = [flush EXCEPT !.todo = r] \/ \E e : flush' = [flush EXCEPT !.todo = r, !.expanded = e]
      PROVE  RetryInv'
  <2>1. PICK e : flush' = [flush EXCEPT !.todo = r] \/ flush' = [flush EXCEPT !.todo = r, !.expanded = e]
    BY <1>4
  <2>2. flush'.altered = flush.altered
    BY <1>1, <2>1, FlushFields
  <2>3. JobSets(r, r, e, r)
    BY <2>1 DEF JobSets
  <2>4. flush'.goal = flush.goal
    BY <1>1, <2>3, GoalStays
  <2>5. QED
    BY <1>1, <1>4, <2>2, <2>4, RetryJob
<1>5. CASE RunOrphan(j) \/ RunExpand(j)
  <2>1. /\ snap' = snap
        /\ flush' = [flush EXCEPT !.todo = r] \/ flush' = [flush EXCEPT !.todo = r, !.expanded = TRUE]
    BY <1>2, <1>5 DEF RunOrphan, RunExpand, Skip, bufVars
  <2>2. QED
    BY <1>4, <2>1
<1>6. CASE RunDelete(j)
  <2>1. PICK S : S = EvictMatching(j.what)
    OBVIOUS
  <2>2. SetBuffer(Forget(Buffer, S)) /\ flush' = [flush EXCEPT !.todo = r, !.altered = @ \cup S]
    BY <1>2, <1>6, <2>1 DEF RunDelete
  <2>3. QED
    BY <1>3, <2>2
<1>7. CASE RunBulkDelete(j)
  <2>1. PICK S : S = BulkTracked(j.what)
    OBVIOUS
  <2>2. SetBuffer(Forget(Buffer, S)) /\ flush' = [flush EXCEPT !.todo = r, !.altered = @ \cup S]
    BY <1>2, <1>7, <2>1 DEF RunBulkDelete
  <2>3. QED
    BY <1>3, <2>2
<1>8. QED
  BY <1>5, <1>6, <1>7

(* Columns are set by an updateMany(). *)
LEMMA RetryBulk ==
    ASSUME BufferInv, IsBuffer(Buffer), RetryInv, NEW j, RunBulkUpdate(j)
    PROVE  RetryInv'
<1>1. /\ JobStep /\ IsFlush(flush) /\ UNCHANGED <<mode, told>>
      /\ obj \in Objects /\ snap \in [Objs -> Snaps \cup {NoSnap}]
  BY RunValues, BufferIs DEF BufferInv, BufferTypes, RunBulkUpdate
<1>2. PICK r, S, a, v : /\ r = Rest(j, {}) /\ S = BulkTracked(j.what) /\ v = j.what.to
                        /\ a = flush.altered \cup S
  OBVIOUS
<1>3. /\ obj' = [o \in Objs |-> IF o \in S THEN [obj[o] EXCEPT !.val = v] ELSE obj[o]]
      /\ snap' = [o \in Objs |-> IF o \in S THEN [snap[o] EXCEPT !.val = v, !.fk = obj[o].fk] ELSE snap[o]]
      /\ flush' = [flush EXCEPT !.todo = r, !.altered = a]
  BY <1>2 DEF RunBulkUpdate
<1>4. flush'.altered = a
  BY <1>1, <1>3, FlushFields
<1>5. flush'.goal = flush.goal
  <2>1. JobSets(r, r, r, a)
    BY <1>3 DEF JobSets
  <2>2. QED
    BY <1>1, <2>1, GoalStays
<1>6. ASSUME flush'.altered = {} PROVE flush.altered = {} /\ snap' = snap /\ obj' = obj
  <2>1. flush.altered = {} /\ \A o \in Objs : o \notin S
    BY <1>2, <1>4, <1>6
  <2>2. snap' = [o \in Objs |-> snap[o]] /\ obj' = [o \in Objs |-> obj[o]]
    BY <1>3, <2>1
  <2>3. QED
    BY <1>1, <2>1, <2>2 DEF Objects
<1>7. QED
  BY <1>1, <1>5, <1>6, RetryJob

(* When a flush begins, nothing has been altered. *)
LEMMA RetryBegin ==
    ASSUME BufferInv, BufferInv', FlushBegin
    PROVE  RetryInv'
<1>1. /\ flush' = [pc |-> "run", todo |-> Batches, visited |-> {}, pre |-> Captured,
                   expanded |-> FALSE, altered |-> {}, start |-> work, goal |-> Goal]
      /\ told' = "none"
      /\ UNCHANGED <<snap, work, obj, queue, mode>>
  BY DEF FlushBegin, Idle, txVars, bufVars
<1>2. PICK g, b, pre : g = Goal /\ b = Batches /\ pre = Captured
  OBVIOUS
<1>3. /\ flush'.pc = "run" /\ flush'.pre = pre /\ flush'.start = work /\ flush'.goal = g
  BY <1>1, <1>2
<1>4. obj \in Objects /\ \A c \in Kids : obj[c].kids = {}
  BY DEF BufferInv, BufferTypes
<1>5. /\ pre \in Captures
      /\ \A o \in Objs : o \in DOMAIN pre => pre[o] = Columns(o)
  BY <1>2, BatchesAre DEF BufferInv
<1>6. Restore(obj, pre) = obj
  <2>1. ASSUME NEW o \in Objs, o \in DOMAIN pre
        PROVE  [obj[o] EXCEPT !.key = pre[o].key, !.val = pre[o].val, !.fk = pre[o].fk] = obj[o]
    <3>1. PICK x : x = obj[o]
      OBVIOUS
    <3>2. x = [key |-> x.key, val |-> x.val, fk |-> x.fk, kids |-> x.kids]
      BY <1>4, <3>1, ObjectFields
    <3>3. pre[o] = [key |-> x.key, val |-> x.val, fk |-> x.fk]
      BY <1>5, <2>1, <3>1 DEF Columns
    <3>4. pre[o].key = x.key /\ pre[o].val = x.val /\ pre[o].fk = x.fk
      BY <3>3
    <3>5. [x EXCEPT !.key = x.key, !.val = x.val, !.fk = x.fk] = x
      BY <3>2
    <3>6. QED
      BY <3>1, <3>4, <3>5
  <2>2. Restore(obj, pre) = [o \in Objs |-> obj[o]]
    BY <2>1 DEF Restore
  <2>3. QED
    BY <1>4, <2>2 DEF Objects
<1>7. Then' = obj
  BY <1>1, <1>3, <1>6 DEF Then
<1>8. g = GoalOf(obj, snap, queue, work, mode.orphans)
  BY <1>2, GoalIs
<1>9. flush'.goal = GoalOf(Then', snap', queue', flush'.start, mode'.orphans)
  BY <1>1, <1>3, <1>7, <1>8
<1>10. QED
  BY <1>1, <1>9 DEF RetryInv

(* The invariant is kept at each step, *)
LEMMA RetryNext ==
    ASSUME BufferInv, BufferInv', IsBuffer(Buffer), RetryInv, [Next]_vars
    PROVE  RetryInv'
<1>1. CASE FlushBegin
  BY <1>1, RetryBegin
<1>2. CASE RunJob
  <2>1. PICK j : \/ RunUpdate(j) \/ RunInsert(j) \/ RunCascade(j) \/ RunAdded(j) \/ RunOrphan(j)
                 \/ RunExpand(j) \/ RunDelete(j) \/ RunBulkUpdate(j) \/ RunBulkDelete(j)
    BY <1>2 DEF RunJob
  <2>2. QED
    BY <2>1, RetryOwn, RetryKids, RetryTaken, RetryBulk
<1>3. CASE FlushDone \/ FlushFails
  <2>1. flush'.pc = "idle"
    BY <1>3 DEF FlushDone, FlushFails, Idle
  <2>2. QED
    BY <2>1 DEF RetryInv
<1>4. CASE /\ flush.pc = "idle" /\ flush' = flush
  BY <1>4 DEF RetryInv
<1>5. CASE UNCHANGED vars
  <2>1. Then' = Then
    BY <1>5 DEF vars, Then
  <2>2. /\ flush' = flush /\ told' = told /\ snap' = snap /\ queue' = queue /\ mode' = mode
    BY <1>5 DEF vars, bufVars
  <2>3. QED
    BY <2>1, <2>2 DEF RetryInv
<1>6. CASE \/ \E o \in Objs, v \in Vals : Edit(o, v)
           \/ \E c \in Kids, p \in Parents : AddKid(c, p) \/ DropKid(c, p)
           \/ \E o \in Objs : \/ PersistNew(o) \/ PersistKnown(o) \/ PersistTracked(o)
                              \/ MergeObject(o) \/ RemoveQueued(o) \/ RemoveStored(o)
                              \/ DeleteByKey(o) \/ Detach(o) \/ LoadKnown(o) \/ LoadRow(o)
           \/ \E b \in Bulks : QueueBulk(b)
           \/ OuterBegin \/ OuterCommit \/ OuterRollback
  <2>1. flush.pc = "idle" /\ flush' = flush
    BY <1>6 DEF Edit, AddKid, DropKid, PersistNew, PersistKnown, PersistTracked, MergeObject,
                RemoveQueued, RemoveStored, DeleteByKey, Detach, LoadKnown, LoadRow, QueueBulk,
                OuterBegin, OuterCommit, OuterRollback, Call, flushVars
  <2>2. QED
    BY <1>4, <2>1
<1>7. QED
  BY <1>1, <1>2, <1>3, <1>5, <1>6 DEF Next

(* and is what a failure needs, which puts all back that it names. *)
LEMMA FailureKeeps ==
    ASSUME ~LateFaults, BufferInv, RetryInv, FlushFails, outer' # "broken"
    PROVE  Goal' = flush.goal
<1>1. /\ flush.pc = "run" /\ flush.altered = {}
      /\ obj' = Restore(obj, flush.pre) /\ queue' = PutBack
      /\ work' = IF outer = "none" \/ mode.nested THEN flush.start ELSE work
      /\ outer' = IF outer = "open" /\ ~mode.nested THEN "broken" ELSE outer
      /\ snap' = snap /\ mode' = mode
  BY DEF FlushFails, bufVars
<1>2. /\ outer \in {"none", "open", "broken"} /\ outer # "broken"
      /\ queue \in [persists : SUBSET Objs, deletes : SUBSET Deletes, bulks : SUBSET Bulks]
  BY <1>1 DEF BufferInv, BufferTypes, RunInv
<1>3. work' = flush.start
  BY <1>1, <1>2
<1>4. obj' = Then
  BY <1>1 DEF Then
<1>5. PICK q, r, ds : q = queue /\ r = queue' /\ ds = queue.deletes \cup CascadeDeletes(queue.deletes)
  OBVIOUS
<1>6. r = q \/ r = [q EXCEPT !.deletes = ds]
  BY <1>1, <1>5 DEF PutBack
<1>7. GoalOf(obj', snap', r, work', mode'.orphans) = GoalOf(obj', snap', q, work', mode'.orphans)
  <2>1. CASE r = q
    BY <2>1
  <2>2. CASE r = [q EXCEPT !.deletes = ds]
    <3>1. r.persists = q.persists /\ r.bulks = q.bulks /\ r.deletes = ds
      BY <1>2, <1>5, <2>2
    <3>2. ds = q.deletes \cup CascadeDeletes(q.deletes)
      BY <1>5
    <3>3. r.deletes = q.deletes \cup CascadeDeletes(q.deletes)
      BY <3>1, <3>2
    <3>4. QED
      BY <3>1, <3>3, DeletesAgain
  <2>3. QED
    BY <1>6, <2>1, <2>2
<1>8. flush.goal = GoalOf(Then, snap, queue, flush.start, mode.orphans)
  BY <1>1 DEF RetryInv
<1>9. GoalOf(obj', snap', q, work', mode'.orphans) = flush.goal
  BY <1>1, <1>3, <1>4, <1>5, <1>8
<1>10. QED
  BY <1>5, <1>7, <1>9, GoalNext

(* A flush that fails, and whose caller need not roll back more than it,   *)
(* has left objects, snapshots and queues such that another flush would    *)
(* be to store the same: for all mixtures of calls, as long as nothing     *)
(* fails after it re-baselined or evicted an object, which is not put back *)
(* (restorePreFlushColumnState and the queues in flush; saveCascadeChild,  *)
(* syncTrackedAfterBulkUpdate and evictTrackedMatching alter the map).     *)
THEOREM FailuresKeepWork == ASSUME ~LateFaults PROVE Spec => RetryKeepsWork
<1> DEFINE I == BufferInv /\ IsBuffer(Buffer) /\ RetryInv
           Kept == flush.pc = "run" /\ told' = "error" /\ outer' # "broken" => Goal' = flush.goal
<1>1. Init => I
  <2>1. Init => RetryInv
    BY DEF Init, Idle, RetryInv
  <2>2. QED
    BY <2>1, BufferInit, BuffersAtFirst
<1>2. I /\ [Next]_vars => I'
  BY BufferNext, BufferStays, RetryNext
<1>3. I /\ [Next]_vars => [Kept]_vars
  <2> SUFFICES ASSUME I, Next, flush.pc = "run", told' = "error", outer' # "broken"
               PROVE  Goal' = flush.goal
    OBVIOUS
  <2>1. told = "none"
    BY DEF RetryInv
  <2>2. CASE FlushFails
    BY <2>2, FailureKeeps
  <2>3. CASE FlushBegin
    BY <2>3 DEF FlushBegin
  <2>4. CASE FlushDone
    BY <2>4 DEF FlushDone
  <2>5. CASE RunJob
    <3>1. told' = told
      BY <2>5 DEF RunJob, RunUpdate, RunInsert, RunCascade, RunAdded, RunOrphan, RunExpand,
                  RunDelete, RunBulkUpdate, RunBulkDelete
    <3>2. QED
      BY <2>1, <3>1
  <2>6. CASE flush.pc = "idle"
    BY <2>6
  <2>7. QED
    BY <2>2, <2>3, <2>4, <2>5, <2>6
       DEF Next, Edit, AddKid, DropKid, PersistNew, PersistKnown, PersistTracked, MergeObject,
           RemoveQueued, RemoveStored, DeleteByKey, Detach, LoadKnown, LoadRow, QueueBulk,
           OuterBegin, OuterCommit, OuterRollback, Call
<1>4. QED
  BY <1>1, <1>2, <1>3, PTL DEF Spec, RetryKeepsWork
=============================================================================
