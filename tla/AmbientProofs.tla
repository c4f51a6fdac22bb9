--------------------------- MODULE AmbientProofs ---------------------------
(***************************************************************************)
(* Proofs about Ambient for every set of managers, connections and forms   *)
(* of a call, any number of calls, however they nest or run next to each   *)
(* other, and any number of writes.                                        *)
(*                                                                         *)
(* Where work lands: FrameInv says what the frames of a callback are for   *)
(* the calls around it. What NESTED undoes: LogInv puts the work of a      *)
(* running NESTED call after its savepoint, and the work of nobody else.   *)
(***************************************************************************)
EXTENDS Ambient, FiniteSetTheorems, WellFoundedInduction, TLAPS

Nested(n) == calls[n].mode = "nested"

(* Frames, savepoint names and the entries of a log. *)
Frames == [session : Ids, mgr : Managers \cup {None}]
Names == {None} \cup ({form.by : form \in Forms} \X Nat)
Entries == [mark : Names, work : 0 .. MaxWorks]

CallType == [form : Forms, fresh : BOOLEAN, parent : 0 .. MaxCalls, around : SUBSET Ids,
             mode : {"new", "nested", "joined"}, session : Ids, conn : Conns, name : Names,
             frames : Seq(Frames)]

WorkType == [call : Ids, mgr : Managers, session : 0 .. MaxCalls, conn : Conns,
             missed : SUBSET Ids]

AmbType ==
    /\ calls \in Seq(CallType) /\ Len(calls) <= MaxCalls
    /\ at \in Seq({"running", "ok", "failed", "late"}) /\ Len(at) = Len(calls)
    /\ log \in [Ids -> Seq(Entries)]
    /\ over \in [Ids -> {"open", "committed", "rolledBack"}]
    /\ works \in Seq(WorkType) /\ Len(works) <= MaxWorks
    /\ \A w \in 1 .. Len(works) :
        works[w].call \in Made /\ works[w].session \in Sessions \cup {0}

(* The calls around a call are made before it, and it is in each of them by *)
(* way of another one.                                                      *)
ParentInv ==
    \A i \in Made :
        /\ calls[i].parent < i /\ i \in Around(i) /\ Around(i) \subseteq 1 .. i
        /\ \A n \in Around(i) \ {i} : \E j \in Around(i) : calls[j].parent = n

(* A frame that ambientSessionFor() takes. *)
Fits(f, conn, mgr) == calls[f.session].conn = conn \/ (mgr # None /\ f.mgr = mgr)

(* The NESTED calls of its kind that a call is numbered after. *)
Namesakes(n) == {j \in 1 .. n - 1 : Nested(j) /\ calls[j].form.by = calls[n].form.by}

SessionInv ==
    \A i \in Made :
        /\ calls[i].session \in 1 .. i
        /\ calls[calls[i].session].mode = "new" /\ calls[calls[i].session].conn = calls[i].conn
        /\ calls[i].mode = "new" => calls[i].session = i
        /\ calls[i].fresh => calls[i].mode = "new"
        /\ Nested(i) => /\ calls[i].parent # 0
                        /\ calls[i].name = <<calls[i].form.by, Cardinality(Namesakes(i)) + 1>>

(* Frame f is there for a call in i, and in j: it has the session of one. *)
FrameIn(f, i, j) == \E k \in Around(i) : j \in Around(k) /\ f.session = calls[k].session

(* A frame that redirects a manager was pushed by a call of that manager    *)
(* that named the connection.                                               *)
Redirects(f, i) ==
    \E j \in Around(i) : /\ calls[j].form.by = "em" /\ calls[j].form.mgr = f.mgr
                         /\ calls[j].form.conn = calls[f.session].conn

GoodFrame(f, i) == f.session \in Sessions /\ (f.mgr # None => Redirects(f, i))

(* The session of a call has its frame in the context of what is in that    *)
(* call, and what lies on top of it are sessions of calls in it as well.    *)
FrameOf(j, i) ==
    \E p \in 1 .. Len(FramesOf(i)) :
        /\ FramesOf(i)[p].session = j
        /\ \A x \in 1 .. p : FrameIn(FramesOf(i)[x], i, j)

FrameInv ==
    \A i \in Made :
        /\ \A x \in 1 .. Len(FramesOf(i)) : GoodFrame(FramesOf(i)[x], i)
        /\ \A j \in Around(i) : calls[j].mode = "new" => FrameOf(j, i)

(* What is around a running call runs, but for calls at the top. *)
RunInv ==
    \A i \in Made : at[i] = "running" =>
        \A n \in Around(i) : calls[n].parent # 0 => at[n] = "running"

(* Entry e of the log of s comes from call i. *)
Makes(i, s, e) ==
    \/ \E w \in 1 .. Len(works) : e = Write(w) /\ works[w].session = s /\ works[w].call = i
    \/ Nested(i) /\ calls[i].session = s /\ e = Mark(calls[i].name)

(* Position p of the log of s, from which on it is the work of n. *)
Divides(p, n, s) ==
    /\ p \in 1 .. Len(log[s]) /\ log[s][p] = Mark(calls[n].name)
    /\ \A k \in 1 .. Len(log[s]), i \in Made : Makes(i, s, log[s][k]) =>
        /\ k < p => n \notin Around(i)
        /\ k > p => n \in Around(i)

MadeBySomeone(s) == \A k \in 1 .. Len(log[s]) : \E i \in Made : Makes(i, s, log[s][k])

MarkedOnce(n, s) ==
    \A k, l \in 1 .. Len(log[s]) :
        log[s][k] = Mark(calls[n].name) /\ log[s][l] = Mark(calls[n].name) => k = l

LogOf(s) ==
    /\ MadeBySomeone(s)
    /\ \A n \in Made : Nested(n) /\ calls[n].session = s =>
        /\ MarkedOnce(n, s)
        /\ at[n] = "running" => \E p \in Nat : Divides(p, n, s)

LogInv == \A s \in Ids : LogOf(s)

(* A NESTED call around write w that has thrown. *)
Thrown(w) ==
    \E n \in Around(works[w].call) :
        calls[n].mode = "nested" /\ calls[n].session = works[w].session /\ at[n] = "failed"

KeptInv == \A w \in 1 .. Len(works) : works[w].session # 0 => (Kept(w) <=> ~Thrown(w))

Landed(work) ==
    /\ \/ work.conn = ConnOf[work.mgr]
       \/ \E j \in Around(work.call) : calls[j].form.by = "em" /\ calls[j].form.mgr = work.mgr
                                       /\ calls[j].form.conn = work.conn
    /\ work.session = 0 => work.missed = {}
    /\ \A j \in Around(work.call) :
        /\ calls[j].fresh /\ calls[j].conn = ConnOf[work.mgr] /\ work.conn = ConnOf[work.mgr]
        /\ \A k \in {c \in Around(work.call) : j \in Around(c)} : j \in Around(calls[k].session)
        => work.session # 0 /\ j \in Around(work.session)

LandInv == \A w \in 1 .. Len(works) : Landed(works[w])

CallsInv == AmbType /\ ParentInv /\ SessionInv /\ FrameInv /\ RunInv
AmbInv == CallsInv /\ LogInv /\ KeptInv /\ LandInv

-----------------------------------------------------------------------------
(* Calls are appended, so nothing that is said of the calls made changes. *)
LEMMA CallsGrow ==
    ASSUME AmbType, NEW form, NEW prop, NEW i, NEW mode, NEW s, NEW name,
           Enter(form, prop, i, mode, s, name), NEW n, n = Len(calls) + 1
    PROVE  /\ n \in Ids /\ n # 0 /\ n \notin Made /\ Made' = Made \cup {n} /\ Len(calls)' = n
           /\ \A c \in Made : c # 0 /\ c < n /\ calls'[c] = calls[c] /\ at'[c] = at[c]
           /\ calls'[n].form = form /\ calls'[n].parent = i
           /\ calls'[n].fresh <=> prop = "REQUIRES_NEW"
           /\ calls'[n].around = Around(i) \cup {n}
           /\ calls'[n].mode = mode /\ calls'[n].session = s /\ calls'[n].name = name
           /\ calls'[n].conn = IF mode = "new" THEN Wanted(form) ELSE calls[s].conn
           /\ calls'[n].frames = Pushed(form, mode, s, i)
           /\ at'[n] = "running"
<1> DEFINE new == [form |-> form, fresh |-> prop = "REQUIRES_NEW", parent |-> i,
                   around |-> Around(i) \cup {n},
                   mode |-> mode, session |-> s, name |-> name,
                   conn |-> IF mode = "new" THEN Wanted(form) ELSE calls[s].conn,
                   frames |-> Pushed(form, mode, s, i)]
<1>1. calls' = Append(calls, new) /\ at' = Append(at, "running") /\ Len(calls) < MaxCalls
  BY DEF Enter
<1>2. calls \in Seq(CallType) /\ at \in Seq({"running", "ok", "failed", "late"}) /\ Len(at) = Len(calls)
  BY DEF AmbType
<1>7. /\ new.form = form /\ new.parent = i /\ (new.fresh <=> prop = "REQUIRES_NEW")
      /\ new.around = Around(i) \cup {n}
      /\ new.mode = mode /\ new.session = s /\ new.name = name
      /\ new.conn = IF mode = "new" THEN Wanted(form) ELSE calls[s].conn
      /\ new.frames = Pushed(form, mode, s, i)
  OBVIOUS
<1> HIDE DEF new
<1>3. Len(calls) \in Nat /\ Len(calls') = n /\ calls'[n] = new
      /\ \A c \in 1 .. Len(calls) : calls'[c] = calls[c]
  BY <1>1, <1>2
<1>4. at'[n] = "running" /\ \A c \in 1 .. Len(calls) : at'[c] = at[c]
  BY <1>1, <1>2
<1>5. n \in Ids /\ n # 0 /\ n \notin Made /\ Made' = Made \cup {n} /\ \A c \in Made : c # 0 /\ c < n
  BY <1>1, <1>3, AmbientAssumption DEF Ids, Made
<1>6. QED
  BY <1>3, <1>4, <1>5, <1>7 DEF Made

(* The context of the calls made stays, and that of the new one is its own. *)
LEMMA ContextGrows ==
    ASSUME AmbType, NEW form, NEW prop, NEW i, NEW mode, NEW s, NEW name,
           Enter(form, prop, i, mode, s, name), NEW n, n = Len(calls) + 1
    PROVE  /\ \A c \in Made \cup {0} : Around(c)' = Around(c) /\ FramesOf(c)' = FramesOf(c)
           /\ Around(n)' = Around(i) \cup {n} /\ FramesOf(n)' = Pushed(form, mode, s, i)
           /\ \A c \in Made : Nested(c)' <=> Nested(c)
           /\ Nested(n)' <=> mode = "nested"
           /\ Sessions \subseteq Sessions' /\ Sessions \subseteq Made
<1>1. /\ Made' = Made \cup {n} /\ n # 0
      /\ \A c \in Made : c # 0 /\ calls'[c] = calls[c]
      /\ calls'[n].around = Around(i) \cup {n} /\ calls'[n].frames = Pushed(form, mode, s, i)
      /\ calls'[n].mode = mode
  BY CallsGrow
<1>2. \A c \in Made \cup {0} : Around(c)' = Around(c) /\ FramesOf(c)' = FramesOf(c)
  BY <1>1 DEF Around, FramesOf
<1>3. Around(n)' = Around(i) \cup {n} /\ FramesOf(n)' = Pushed(form, mode, s, i)
  <2>1. Around(n)' = calls'[n].around /\ FramesOf(n)' = calls'[n].frames
    BY <1>1 DEF Around, FramesOf
  <2>2. QED
    BY <1>1, <2>1
<1>4. (\A c \in Made : Nested(c)' <=> Nested(c)) /\ (Nested(n)' <=> mode = "nested")
  BY <1>1 DEF Nested
<1>5. Sessions \subseteq Sessions' /\ Sessions \subseteq Made
  BY <1>1 DEF Sessions
<1>6. QED
  BY <1>2, <1>3, <1>4, <1>5

(* Of numbers one is the least. *)
LEMMA LeastNumber ==
    ASSUME NEW S, S \subseteq Nat, S # {}
    PROVE  \E k \in S : \A l \in S : k <= l
<1>1. PICK k \in S : \A l \in S : <<l, k>> \notin OpToRel(<, Nat)
  BY NatLessThanWellFounded, WFMin
<1>2. \A l \in S : ~(l < k)
  BY <1>1 DEF OpToRel
<1>3. QED
  BY <1>2

(* ambientSessionFor() finds the innermost session that fits, if one does. *)
LEMMA SessionFound ==
    ASSUME NEW frames, frames \in Seq(Frames), NEW conn, NEW mgr
    PROVE  \/ /\ AmbientFor(frames, conn, mgr) = 0
              /\ \A k \in 1 .. Len(frames) : ~Fits(frames[k], conn, mgr)
           \/ \E k \in 1 .. Len(frames) :
                /\ AmbientFor(frames, conn, mgr) = frames[k].session
                /\ Fits(frames[k], conn, mgr)
                /\ \A l \in 1 .. Len(frames) : Fits(frames[l], conn, mgr) => k <= l
<1> DEFINE fits == {k \in 1 .. Len(frames) : Fits(frames[k], conn, mgr)}
           first == CHOOSE k \in fits : \A l \in fits : k <= l
<1>1. AmbientFor(frames, conn, mgr) = IF fits = {} THEN 0 ELSE frames[first].session
  BY DEF AmbientFor, Fits
<1>2. CASE fits = {}
  BY <1>1, <1>2
<1>3. CASE fits # {}
  <2>1. \E k \in fits : \A l \in fits : k <= l
    <3>1. fits \subseteq Nat
      OBVIOUS
    <3> HIDE DEF fits
    <3>2. QED
      BY <1>3, <3>1, LeastNumber
  <2>2. first \in fits /\ \A l \in fits : first <= l
    <3> HIDE DEF fits
    <3>1. QED
      BY <2>1
  <2> HIDE DEF first
  <2>3. QED
    BY <1>1, <1>3, <2>2
<1>4. QED
  BY <1>2, <1>3

-----------------------------------------------------------------------------
(* A call is entered *)

(* What a call is entered with, by its mode. *)
Entry(form, i, mode, s, name) ==
    \/ mode = "new" /\ s = Len(calls) + 1 /\ name = None
    \/ mode = "joined" /\ s = Found(form, i) /\ name = None
    \/ mode = "nested" /\ s = Found(form, i) /\ name = Name(form)

(* The connection of a form of a call and the manager it redirects. *)
LEMMA FormFacts ==
    ASSUME NEW form \in Forms
    PROVE  /\ Wanted(form) \in Conns
           /\ form.conn # None => Wanted(form) = form.conn
           /\ Redirected(form) \in Managers \cup {None}
           /\ Redirected(form) # None =>
                form.by = "em" /\ form.conn # None /\ Redirected(form) = form.mgr
<1>1. form.by = "em" => form.mgr \in Managers
  BY AmbientAssumption
<1>2. Wanted(form) \in Conns
  BY <1>1 DEF Wanted, Conns
<1>3. form.conn # None => Wanted(form) = form.conn
  BY DEF Wanted
<1>4. CASE form.by = "em" /\ form.conn \notin {None, ConnOf[form.mgr]}
  BY <1>1, <1>2, <1>3, <1>4 DEF Redirected
<1>5. CASE ~(form.by = "em" /\ form.conn \notin {None, ConnOf[form.mgr]})
  <2>1. Redirected(form) = None
    BY <1>5 DEF Redirected
  <2>2. QED
    BY <1>2, <1>3, <2>1
<1>6. QED
  BY <1>4, <1>5

(* The frames of a context are typed. *)
LEMMA FramesTyped ==
    ASSUME AmbType, NEW i \in Made \cup {0}
    PROVE  /\ FramesOf(i) \in Seq(Frames) /\ Around(i) \subseteq Ids
           /\ Len(FramesOf(i)) \in Nat
           /\ \A k \in 1 .. Len(FramesOf(i)) : FramesOf(i)[k] \in Frames /\ FramesOf(i)[k].session # 0
           /\ FramesOf(i) # <<>> => i \in Made
<1>1. CASE i = 0
  BY <1>1 DEF FramesOf, Around
<1>2. CASE i \in Made
  <2>1. calls[i] \in CallType
    BY <1>2 DEF AmbType, Made
  <2>2. FramesOf(i) \in Seq(Frames) /\ Around(i) \subseteq Ids
    <3>1. i # 0
      BY <1>2 DEF Made
    <3>2. QED
      BY <2>1, <3>1 DEF FramesOf, Around, CallType
  <2>3. Len(FramesOf(i)) \in Nat /\ \A k \in 1 .. Len(FramesOf(i)) : FramesOf(i)[k] \in Frames
    <3> HIDE DEF FramesOf, Frames
    <3>1. QED
      BY <2>2
  <2>4. \A f \in Frames : f.session # 0
    BY DEF Frames, Ids
  <2>5. QED
    BY <1>2, <2>2, <2>3, <2>4
<1>3. QED
  BY <1>1, <1>2

(* A call that opens no session joins one whose frame it finds. *)
LEMMA EntryJoins ==
    ASSUME AmbType, FrameInv, NEW form \in Forms, NEW prop, NEW i \in 0 .. Len(calls),
           NEW mode, NEW s, NEW name, Enter(form, prop, i, mode, s, name),
           Entry(form, i, mode, s, name), mode # "new"
    PROVE  /\ i \in Made /\ s \in Sessions /\ prop # "REQUIRES_NEW"
           /\ form.conn # None => calls[s].conn = form.conn
           /\ \E k \in 1 .. Len(FramesOf(i)) : s = FramesOf(i)[k].session
<1> DEFINE mgr == IF form.by = "em" /\ form.conn = None THEN form.mgr ELSE None
<1>1. i \in Made \cup {0}
  BY DEF Made
<1>2. s # 0 /\ s = AmbientFor(FramesOf(i), Wanted(form), mgr) /\ prop # "REQUIRES_NEW"
  <2>1. Mode(form, prop, i) = mode
    BY DEF Enter
  <2>2. Found(form, i) = 0 \/ prop = "REQUIRES_NEW" => Mode(form, prop, i) = "new"
    BY DEF Mode
  <2>3. s = Found(form, i)
    BY DEF Entry
  <2>4. Found(form, i) = AmbientFor(FramesOf(i), Wanted(form), mgr)
    BY DEF Found
  <2>5. QED
    BY <2>1, <2>2, <2>3, <2>4
<1>3. PICK k \in 1 .. Len(FramesOf(i)) :
        s = FramesOf(i)[k].session /\ Fits(FramesOf(i)[k], Wanted(form), mgr)
  BY <1>1, <1>2, FramesTyped, SessionFound
<1>4. i \in Made
  <2>1. FramesOf(i) # <<>>
    BY <1>3
  <2>2. QED
    BY <1>1, <2>1, FramesTyped
<1>5. s \in Sessions
  BY <1>3, <1>4 DEF FrameInv, GoodFrame
<1>6. form.conn # None => calls[s].conn = form.conn
  BY <1>3, FormFacts DEF Fits
<1>7. QED
  BY <1>2, <1>3, <1>4, <1>5, <1>6

(* The new call is typed, its savepoint and its frames included. *)
LEMMA EntryTyped ==
    ASSUME AmbType, SessionInv, FrameInv, NEW form \in Forms, NEW prop, NEW i \in 0 .. Len(calls),
           NEW mode, NEW s, NEW name, Enter(form, prop, i, mode, s, name),
           Entry(form, i, mode, s, name)
    PROVE  /\ s \in Ids /\ s \in 1 .. Len(calls) + 1 /\ name \in Names
           /\ (IF mode = "new" THEN Wanted(form) ELSE calls[s].conn) \in Conns
           /\ Pushed(form, mode, s, i) \in Seq(Frames)
<1>1. i \in Made \cup {0} /\ Len(calls) \in Nat /\ Len(calls) < MaxCalls
  BY DEF Made, Enter, AmbType
<1>2. s \in 1 .. Len(calls) + 1
  <2>1. CASE mode = "new"
    BY <1>1, <2>1 DEF Entry
  <2>2. CASE mode # "new"
    <3>1. s \in Sessions
      BY <2>2, EntryJoins
    <3>2. QED
      BY <1>1, <3>1 DEF Sessions, Made
  <2>3. QED
    BY <2>1, <2>2
<1>3. s \in Ids
  BY <1>1, <1>2, AmbientAssumption DEF Ids
<1>4. name \in Names
  <2>1. CASE mode = "nested"
    <3>1. name = <<form.by, Cardinality(Numbered(form)) + 1>>
      BY <2>1 DEF Entry, Name
    <3>2. IsFiniteSet(Numbered(form))
      <4>1. IsFiniteSet(Made) /\ Numbered(form) \in SUBSET Made
        BY <1>1, FS_Interval DEF Made, Numbered
      <4>2. QED
        BY <4>1, FS_Subset
    <3>3. Cardinality(Numbered(form)) + 1 \in Nat
      BY <3>2, FS_CardinalityType
    <3>4. QED
      BY <3>1, <3>3 DEF Names
  <2>2. CASE mode # "nested"
    BY <2>2 DEF Entry, Names
  <2>3. QED
    BY <2>1, <2>2
<1>5. (IF mode = "new" THEN Wanted(form) ELSE calls[s].conn) \in Conns
  <2>1. CASE mode = "new"
    BY <2>1, FormFacts
  <2>2. CASE mode # "new"
    <3>1. s \in Made
      BY <2>2, EntryJoins DEF Sessions
    <3>2. calls[s] \in CallType
      BY <3>1 DEF AmbType, Made
    <3>3. QED
      BY <2>2, <3>2 DEF CallType
  <2>3. QED
    BY <2>1, <2>2
<1>6. Pushed(form, mode, s, i) \in Seq(Frames)
  <2> DEFINE f == [session |-> s, mgr |-> Redirected(form)]
  <2>1. f \in Frames
    BY <1>3, FormFacts DEF Frames
  <2>2. FramesOf(i) \in Seq(Frames)
    BY <1>1, FramesTyped
  <2>3. Pushed(form, mode, s, i) = <<f>> \o FramesOf(i) \/ Pushed(form, mode, s, i) = FramesOf(i)
    BY DEF Pushed
  <2> HIDE DEF f
  <2>4. QED
    BY <2>1, <2>2, <2>3, SMTT(30)
<1>7. QED
  BY <1>2, <1>3, <1>4, <1>5, <1>6

(* The call that is entered is typed as the others are. *)
LEMMA EntryKeepsTypes ==
    ASSUME CallsInv, NEW form \in Forms, NEW prop, NEW i \in 0 .. Len(calls),
           NEW mode \in {"new", "nested", "joined"}, NEW s, NEW name,
           Enter(form, prop, i, mode, s, name),
           Entry(form, i, mode, s, name), log' \in [Ids -> Seq(Entries)]
    PROVE  AmbType'
<1> USE DEF CallsInv
<1> DEFINE n == Len(calls) + 1
           new == [form |-> form, fresh |-> prop = "REQUIRES_NEW", parent |-> i,
                   around |-> Around(i) \cup {n},
                   mode |-> mode, session |-> s, name |-> name,
                   conn |-> IF mode = "new" THEN Wanted(form) ELSE calls[s].conn,
                   frames |-> Pushed(form, mode, s, i)]
<1>1. calls' = Append(calls, new) /\ at' = Append(at, "running") /\ Len(calls) < MaxCalls
      /\ UNCHANGED <<over, works>>
  BY DEF Enter
<1>2. /\ calls \in Seq(CallType) /\ at \in Seq({"running", "ok", "failed", "late"})
      /\ Len(at) = Len(calls) /\ over \in [Ids -> {"open", "committed", "rolledBack"}]
      /\ works \in Seq(WorkType) /\ Len(works) <= MaxWorks
      /\ \A w \in 1 .. Len(works) : works[w].call \in Made /\ works[w].session \in Sessions \cup {0}
  BY DEF AmbType
<1>3. new \in CallType
  <2>1. s \in Ids /\ name \in Names /\ Pushed(form, mode, s, i) \in Seq(Frames)
        /\ (IF mode = "new" THEN Wanted(form) ELSE calls[s].conn) \in Conns
    BY EntryTyped
  <2>2. Around(i) \subseteq Ids /\ n \in Ids /\ i \in 0 .. MaxCalls
    <3>1. i \in Made \cup {0}
      BY DEF Made
    <3>2. QED
      BY <1>1, <1>2, <3>1, FramesTyped, AmbientAssumption DEF Ids
  <2>3. (prop = "REQUIRES_NEW") \in BOOLEAN
    OBVIOUS
  <2> HIDE DEF n
  <2>4. QED
    BY <2>1, <2>2, <2>3 DEF CallType
<1>4. calls' \in Seq(CallType) /\ Len(calls') = Len(calls) + 1
  <2> HIDE DEF new, n
  <2>1. QED
    BY <1>1, <1>2, <1>3
<1>5. at' \in Seq({"running", "ok", "failed", "late"}) /\ Len(at') = Len(calls) + 1
  BY <1>1, <1>2
<1>6. Len(calls') <= MaxCalls
  BY <1>1, <1>2, <1>4, AmbientAssumption
<1>7. \A w \in 1 .. Len(works) : works[w].call \in Made' /\ works[w].session \in Sessions' \cup {0}
  <2>1. Made \subseteq Made' /\ Sessions \subseteq Sessions'
    BY CallsGrow, ContextGrows
  <2> HIDE DEF new, n
  <2>2. QED
    BY <1>2, <2>1
<1>8. QED
  BY <1>1, <1>2, <1>4, <1>5, <1>6, <1>7 DEF AmbType

(* What is around a call that is entered: its parent, and what is around that. *)
LEMMA EntryKeepsParents ==
    ASSUME CallsInv, NEW form \in Forms, NEW prop, NEW i \in 0 .. Len(calls),
           NEW mode, NEW s, NEW name, Enter(form, prop, i, mode, s, name),
           NEW n, n = Len(calls) + 1
    PROVE  ParentInv'
<1> USE DEF CallsInv
<1>1. n \in Nat /\ i \in Made \cup {0} /\ i < n /\ Len(calls) \in Nat
  BY DEF Made, AmbType
<1>2. /\ Made' = Made \cup {n} /\ calls'[n].parent = i
      /\ \A c \in Made : calls'[c] = calls[c]
      /\ \A c \in Made \cup {0} : Around(c)' = Around(c)
      /\ Around(n)' = Around(i) \cup {n}
  <2>1. /\ Made' = Made \cup {n} /\ calls'[n].parent = i
        /\ \A c \in Made : calls'[c] = calls[c]
    BY CallsGrow
  <2>2. /\ \A c \in Made \cup {0} : Around(c)' = Around(c)
        /\ Around(n)' = Around(i) \cup {n}
    BY ContextGrows
  <2>3. QED
    BY <2>1, <2>2
<1>3. Around(i) \subseteq 1 .. n - 1 /\ (i # 0 => i \in Around(i))
  <2>1. CASE i = 0
    BY <2>1 DEF Around
  <2>2. CASE i # 0
    <3>1. i \in Made /\ i <= n - 1
      BY <1>1, <2>2
    <3>2. i \in Around(i) /\ Around(i) \subseteq 1 .. i
      BY <3>1 DEF ParentInv
    <3>3. QED
      BY <1>1, <3>1, <3>2
  <2>3. QED
    BY <2>1, <2>2
<1>4. ASSUME NEW c \in Made
      PROVE  /\ calls'[c].parent < c /\ c \in Around(c)' /\ Around(c)' \subseteq 1 .. c
             /\ \A m \in Around(c)' \ {c} : \E j \in Around(c)' : calls'[j].parent = m
  <2>1. Around(c) \subseteq Made
    BY DEF ParentInv, Made
  <2>2. QED
    BY <1>2, <2>1 DEF ParentInv
<1>5. /\ calls'[n].parent < n /\ n \in Around(n)' /\ Around(n)' \subseteq 1 .. n
      /\ \A m \in Around(n)' \ {n} : \E j \in Around(n)' : calls'[j].parent = m
  <2>1. Around(n)' \subseteq 1 .. n
    BY <1>1, <1>2, <1>3
  <2>2. ASSUME NEW m \in Around(i)
        PROVE  \E j \in Around(n)' : calls'[j].parent = m
    <3>1. CASE m = i
      BY <1>2, <3>1
    <3>2. CASE m # i
      <4>1. i \in Made
        BY <1>1 DEF Around
      <4>2. PICK j \in Around(i) : calls[j].parent = m
        BY <3>2, <4>1 DEF ParentInv
      <4>3. j \in Made
        BY <4>1 DEF ParentInv, Made
      <4>4. QED
        BY <1>2, <4>2, <4>3
    <3>3. QED
      BY <3>1, <3>2
  <2>3. QED
    BY <1>1, <1>2, <2>1, <2>2
<1>6. ASSUME NEW c \in Made'
      PROVE  /\ calls'[c].parent < c /\ c \in Around(c)' /\ Around(c)' \subseteq 1 .. c
             /\ \A m \in Around(c)' \ {c} : \E j \in Around(c)' : calls'[j].parent = m
  BY <1>2, <1>4, <1>5
<1>7. QED
  BY <1>6 DEF ParentInv

(* Savepoints are numbered after those of the calls before. *)
LEMMA NamesakesGrow ==
    ASSUME AmbType, NEW form \in Forms, NEW prop, NEW i,
           NEW mode, NEW s, NEW name, Enter(form, prop, i, mode, s, name),
           NEW n, n = Len(calls) + 1
    PROVE  /\ \A c \in Made : Namesakes(c)' = Namesakes(c)
           /\ Namesakes(n)' = Numbered(form)
<1>1. /\ Made' = Made \cup {n} /\ calls'[n].form = form
      /\ \A c \in Made : calls'[c] = calls[c]
  BY CallsGrow
<1>2. Made = 1 .. n - 1 /\ n \in Nat
  BY DEF Made, AmbType
<1>3. ASSUME NEW c \in Made
      PROVE  Namesakes(c)' = Namesakes(c)
  <2>1. 1 .. c - 1 \subseteq Made
    BY <1>2
  <2>2. QED
    BY <1>1, <2>1 DEF Namesakes, Nested
<1>4. Namesakes(n)' = Numbered(form)
  BY <1>1, <1>2 DEF Namesakes, Nested, Numbered
<1>5. QED
  BY <1>3, <1>4

(* A call has a session of its own or one that a call before it opened. *)
LEMMA EntryKeepsSessions ==
    ASSUME CallsInv, NEW form \in Forms, NEW prop, NEW i \in 0 .. Len(calls),
           NEW mode, NEW s, NEW name, Enter(form, prop, i, mode, s, name),
           Entry(form, i, mode, s, name), NEW n, n = Len(calls) + 1
    PROVE  SessionInv'
<1> USE DEF CallsInv
<1>1. /\ Made' = Made \cup {n} /\ n \notin Made
      /\ \A c \in Made : calls'[c] = calls[c]
      /\ calls'[n].form = form /\ calls'[n].parent = i /\ (calls'[n].fresh <=> prop = "REQUIRES_NEW")
      /\ calls'[n].mode = mode /\ calls'[n].session = s /\ calls'[n].name = name
      /\ calls'[n].conn = IF mode = "new" THEN Wanted(form) ELSE calls[s].conn
  BY CallsGrow
<1>2. /\ \A c \in Made : Nested(c)' <=> Nested(c)
      /\ Nested(n)' <=> mode = "nested"
  BY ContextGrows
<1>3. Made = 1 .. n - 1 /\ n \in Nat
  BY DEF Made, AmbType
<1>4. ASSUME NEW c \in Made
      PROVE  /\ calls'[c].session \in 1 .. c
             /\ calls'[calls'[c].session].mode = "new" /\ calls'[calls'[c].session].conn = calls'[c].conn
             /\ calls'[c].mode = "new" => calls'[c].session = c
             /\ calls'[c].fresh => calls'[c].mode = "new"
             /\ Nested(c)' => /\ calls'[c].parent # 0
                              /\ calls'[c].name = <<calls'[c].form.by, Cardinality(Namesakes(c)') + 1>>
  <2>1. calls[c].session \in 1 .. c
    BY DEF SessionInv
  <2>2. calls[c].session \in Made
    BY <1>3, <2>1
  <2>3. calls'[c] = calls[c] /\ calls'[calls[c].session] = calls[calls[c].session]
    BY <1>1, <2>2
  <2>4. Namesakes(c)' = Namesakes(c)
    BY NamesakesGrow
  <2>5. QED
    BY <1>2, <2>3, <2>4 DEF SessionInv
<1>5. s \in 1 .. n
  BY EntryTyped
<1>6. calls'[s].mode = "new" /\ calls'[s].conn = calls'[n].conn
  <2>1. CASE mode = "new"
    BY <1>1, <2>1 DEF Entry
  <2>2. CASE mode # "new"
    <3>1. s \in Sessions
      BY <2>2, EntryJoins
    <3>2. s \in Made /\ calls[s].mode = "new"
      BY <3>1 DEF Sessions
    <3>3. QED
      BY <1>1, <2>2, <3>2
  <2>3. QED
    BY <2>1, <2>2
<1>7. mode = "new" => s = n
  BY DEF Entry
<1>8. calls'[n].fresh => mode = "new"
  BY <1>1, EntryJoins
<1>9. ASSUME mode = "nested"
      PROVE  i # 0 /\ name = <<form.by, Cardinality(Namesakes(n)') + 1>>
  <2>1. i \in Made
    BY <1>9, EntryJoins
  <2>2. name = <<form.by, Cardinality(Numbered(form)) + 1>>
    BY <1>9 DEF Entry, Name
  <2>3. Namesakes(n)' = Numbered(form)
    BY NamesakesGrow
  <2>4. QED
    BY <1>3, <2>1, <2>2, <2>3
<1>10. ASSUME NEW c \in Made'
       PROVE  /\ calls'[c].session \in 1 .. c
              /\ calls'[calls'[c].session].mode = "new" /\ calls'[calls'[c].session].conn = calls'[c].conn
              /\ calls'[c].mode = "new" => calls'[c].session = c
              /\ calls'[c].fresh => calls'[c].mode = "new"
              /\ Nested(c)' => /\ calls'[c].parent # 0
                               /\ calls'[c].name = <<calls'[c].form.by, Cardinality(Namesakes(c)') + 1>>
  <2>1. CASE c = n
    BY <1>1, <1>2, <1>5, <1>6, <1>7, <1>8, <1>9, <2>1
  <2>2. CASE c \in Made
    BY <1>4, <2>2
  <2>3. QED
    BY <1>1, <2>1, <2>2
<1>11. QED
  BY <1>10 DEF SessionInv

(* Its frame goes on top of those of its parent, whose sessions stay in reach. *)
LEMMA EntryKeepsFrames ==
    ASSUME CallsInv, NEW form \in Forms, NEW prop, NEW i \in 0 .. Len(calls),
           NEW mode, NEW s, NEW name, Enter(form, prop, i, mode, s, name),
           Entry(form, i, mode, s, name), NEW n, n = Len(calls) + 1
    PROVE  FrameInv'
<1> USE DEF CallsInv
<1> DEFINE new == [session |-> s, mgr |-> Redirected(form)]
<1>1. /\ Made' = Made \cup {n} /\ n \notin Made
      /\ \A c \in Made : calls'[c] = calls[c]
      /\ calls'[n].form = form /\ calls'[n].mode = mode /\ calls'[n].session = s
      /\ calls'[n].conn = IF mode = "new" THEN Wanted(form) ELSE calls[s].conn
  BY CallsGrow
<1>2. /\ \A c \in Made \cup {0} : Around(c)' = Around(c) /\ FramesOf(c)' = FramesOf(c)
      /\ Around(n)' = Around(i) \cup {n} /\ FramesOf(n)' = Pushed(form, mode, s, i)
      /\ Sessions \subseteq Sessions' /\ Sessions \subseteq Made
  BY ContextGrows
<1>3. /\ i \in Made \cup {0}
      /\ \A c \in Made \cup {0} : Around(c) \subseteq Made
  BY DEF Made, Around, ParentInv
(* What holds in the context of a call made before goes on to hold. *)
<1>4. ASSUME NEW c \in Made \cup {0}, NEW d, Around(c) \subseteq Around(d)', NEW f
      PROVE  /\ \A j \in Around(c) : FrameIn(f, c, j) => FrameIn(f, d, j)'
             /\ GoodFrame(f, c) => GoodFrame(f, d)'
  <2>1. \A k \in Around(c) : k \in Made /\ k \in Around(d)' /\ calls'[k] = calls[k] /\ Around(k)' = Around(k)
    BY <1>1, <1>2, <1>3, <1>4
  <2>2. \A j \in Around(c) : FrameIn(f, c, j) => FrameIn(f, d, j)'
    BY <2>1 DEF FrameIn
  <2>3. f.session \in Made /\ Redirects(f, c) => Redirects(f, d)'
    BY <1>1, <2>1 DEF Redirects
  <2>4. QED
    BY <1>2, <2>2, <2>3 DEF GoodFrame
<1>5. ASSUME NEW c \in Made
      PROVE  /\ \A x \in 1 .. Len(FramesOf(c)') : GoodFrame(FramesOf(c)[x], c)'
             /\ \A j \in Around(c)' : calls'[j].mode = "new" => FrameOf(j, c)'
  <2>1. FramesOf(c)' = FramesOf(c) /\ Around(c)' = Around(c)
    BY <1>2
  <2>2. \A x \in 1 .. Len(FramesOf(c)) : GoodFrame(FramesOf(c)[x], c)'
    BY <1>4, <2>1 DEF FrameInv
  <2>3. ASSUME NEW j \in Around(c), calls'[j].mode = "new"
        PROVE  FrameOf(j, c)'
    <3>1. FrameOf(j, c)
      BY <1>1, <1>3, <2>3 DEF FrameInv
    <3>2. \A f : FrameIn(f, c, j) => FrameIn(f, c, j)'
      BY <1>4, <2>1
    <3>3. QED
      BY <2>1, <3>1, <3>2 DEF FrameOf
  <2>4. QED
    BY <2>1, <2>2, <2>3
<1>. PICK old : old = FramesOf(i)
  OBVIOUS
<1>. PICK all : all = Pushed(form, mode, s, i)
  OBVIOUS
<1>6. /\ old \in Seq(Frames) /\ (old # <<>> => i \in Made)
      /\ all = old \/ all = <<new>> \o old
      /\ mode = "new" => all = <<new>> \o old
  BY <1>3, FramesTyped DEF Pushed
<1>7. /\ new.session = s /\ new.mgr = Redirected(form) /\ new \in Frames
  <2>1. s \in Ids
    BY EntryTyped
  <2>2. QED
    BY <2>1, FormFacts DEF Frames
<1>8. ASSUME NEW f, f.session = s, f.mgr = Redirected(form)
      PROVE  GoodFrame(f, n)' /\ \A j \in Around(n)' : FrameIn(f, n, j)'
  <2>1. s \in Sessions'
    <3>1. CASE mode = "new"
      BY <1>1, <3>1 DEF Entry, Sessions
    <3>2. CASE mode # "new"
      BY <1>2, <3>2, EntryJoins
    <3>3. QED
      BY <3>1, <3>2
  <2>2. ASSUME Redirected(form) # None
        PROVE  Redirects(f, n)'
    <3>1. form.by = "em" /\ form.conn # None /\ f.mgr = form.mgr /\ Wanted(form) = form.conn
      BY <1>8, <2>2, FormFacts
    <3>2. calls'[s].conn = form.conn
      <4>1. CASE mode = "new"
        BY <1>1, <3>1, <4>1 DEF Entry
      <4>2. CASE mode # "new"
        <5>1. calls[s].conn = form.conn /\ s \in Made
          BY <1>2, <3>1, <4>2, EntryJoins
        <5>2. QED
          BY <1>1, <5>1
      <4>3. QED
        BY <4>1, <4>2
    <3>3. n \in Around(n)'
      BY <1>2
    <3>4. QED
      BY <1>1, <1>8, <3>1, <3>2, <3>3 DEF Redirects
  <2>3. \A j \in Around(n)' : FrameIn(f, n, j)'
    BY <1>1, <1>2, <1>8 DEF FrameIn
  <2>4. QED
    BY <1>8, <2>1, <2>2, <2>3 DEF GoodFrame
<1>9. \A x \in 1 .. Len(old) : GoodFrame(old[x], n)'
  <2> SUFFICES ASSUME NEW x \in 1 .. Len(old) PROVE GoodFrame(old[x], n)'
    OBVIOUS
  <2>1. i \in Made /\ Around(i) \subseteq Around(n)'
    BY <1>2, <1>6
  <2>2. GoodFrame(old[x], i)
    BY <2>1 DEF FrameInv
  <2>3. QED
    BY <1>4, <2>1, <2>2
<1> HIDE DEF new
<1>10. ASSUME all # old
       PROVE  /\ Len(all) = Len(old) + 1 /\ all[1] = new /\ Len(old) \in Nat
              /\ \A x \in 1 .. Len(old) : all[x + 1] = old[x]
              /\ \A x \in 2 .. Len(all) : x - 1 \in 1 .. Len(old) /\ all[x] = old[x - 1]
  <2>1. all = <<new>> \o old /\ old \in Seq(Frames) /\ new \in Frames
    BY <1>6, <1>7, <1>10
  <2>2. /\ Len(all) = Len(old) + 1 /\ all[1] = new /\ Len(old) \in Nat
        /\ \A x \in 1 .. Len(old) : all[x + 1] = old[x]
    BY <2>1
  <2>3. \A x \in 2 .. Len(all) : x - 1 \in 1 .. Len(old) /\ all[x] = old[x - 1]
    BY <2>2
  <2>4. QED
    BY <2>2, <2>3
<1>11. ASSUME NEW x \in 1 .. Len(all)
       PROVE  GoodFrame(all[x], n)'
  <2>1. CASE all = old
    BY <1>9, <2>1
  <2>2. CASE all # old
    <3>1. CASE x = 1
      BY <1>7, <1>8, <1>10, <2>2, <3>1
    <3>2. CASE x # 1
      <4>1. x \in 2 .. Len(all)
        BY <1>10, <2>2, <3>2
      <4>2. x - 1 \in 1 .. Len(old) /\ all[x] = old[x - 1]
        BY <1>10, <2>2, <4>1
      <4>3. QED
        BY <1>9, <4>2
    <3>3. QED
      BY <3>1, <3>2
  <2>3. QED
    BY <2>1, <2>2
<1>12. ASSUME NEW j \in Around(n)', calls'[j].mode = "new"
       PROVE  \E p \in 1 .. Len(all) : all[p].session = j /\ \A x \in 1 .. p : FrameIn(all[x], n, j)'
  <2>1. CASE j = n
    <3>1. mode = "new"
      BY <1>1, <1>12, <2>1
    <3>2. old # all
      <4>1. all = <<new>> \o old /\ old \in Seq(Frames)
        BY <1>6, <3>1
      <4>2. Len(all) = Len(old) + 1 /\ Len(old) \in Nat
        BY <1>7, <4>1
      <4>3. QED
        BY <4>2
    <3>3. 1 \in 1 .. Len(all) /\ all[1] = new /\ new.session = n
      BY <1>7, <1>10, <3>1, <3>2 DEF Entry
    <3>4. \A x \in 1 .. 1 : FrameIn(all[x], n, j)'
      BY <1>7, <1>8, <1>12, <3>3
    <3>5. QED
      BY <2>1, <3>3, <3>4
  <2>2. CASE j \in Around(i)
    <3>1. i \in Made /\ j \in Made /\ Around(i) \subseteq Around(n)'
      BY <1>2, <1>3, <2>2 DEF Around
    <3>2. PICK p \in 1 .. Len(old) :
            old[p].session = j /\ \A x \in 1 .. p : FrameIn(old[x], i, j)
      BY <1>1, <1>12, <2>2, <3>1 DEF FrameInv, FrameOf
    <3>3. \A x \in 1 .. p : FrameIn(old[x], n, j)'
      BY <1>4, <2>2, <3>1, <3>2
    <3>4. CASE all = old
      BY <3>2, <3>3, <3>4
    <3>5. CASE all # old
      <4>1. p + 1 \in 1 .. Len(all) /\ all[p + 1] = old[p]
        BY <1>10, <3>5
      <4>2. ASSUME NEW x \in 1 .. p + 1
            PROVE  FrameIn(all[x], n, j)'
        <5>1. CASE x = 1
          BY <1>7, <1>8, <1>10, <1>12, <3>5, <5>1
        <5>2. CASE x # 1
          <6>1. x \in 2 .. Len(all) /\ x - 1 \in 1 .. p
            BY <1>10, <3>5, <5>2
          <6>2. all[x] = old[x - 1]
            BY <1>10, <3>5, <6>1
          <6>3. QED
            BY <3>3, <6>1, <6>2
        <5>3. QED
          BY <5>1, <5>2
      <4>3. QED
        BY <3>2, <4>1, <4>2
    <3>6. QED
      BY <3>4, <3>5
  <2>3. QED
    BY <1>2, <1>12, <2>1, <2>2
<1>13. ASSUME NEW c \in Made'
       PROVE  /\ \A x \in 1 .. Len(FramesOf(c)') : GoodFrame(FramesOf(c)[x], c)'
              /\ \A j \in Around(c)' : calls'[j].mode = "new" => FrameOf(j, c)'
  <2>1. CASE c = n
    <3>1. FramesOf(c)' = all
      BY <1>2, <2>1
    <3>2. \A x \in 1 .. Len(FramesOf(c)') : GoodFrame(FramesOf(c)[x], c)'
      BY <1>11, <2>1, <3>1
    <3>3. \A j \in Around(c)' : calls'[j].mode = "new" => FrameOf(j, c)'
      BY <1>12, <2>1, <3>1 DEF FrameOf
    <3>4. QED
      BY <3>2, <3>3
  <2>2. CASE c \in Made
    BY <1>5, <2>2
  <2>3. QED
    BY <1>1, <2>1, <2>2
<1>14. QED
  BY <1>13 DEF FrameInv

(* Only a running callback enters a call, so all that is around it runs. *)
LEMMA EntryKeepsRunning ==
    ASSUME CallsInv, NEW form \in Forms, NEW prop, NEW i \in 0 .. Len(calls),
           NEW mode, NEW s, NEW name, Enter(form, prop, i, mode, s, name),
           NEW n, n = Len(calls) + 1
    PROVE  RunInv'
<1> USE DEF CallsInv
<1>1. /\ Made' = Made \cup {n} /\ n \notin Made
      /\ \A c \in Made : calls'[c] = calls[c] /\ at'[c] = at[c]
      /\ at'[n] = "running"
  BY CallsGrow
<1>2. /\ \A c \in Made \cup {0} : Around(c)' = Around(c)
      /\ Around(n)' = Around(i) \cup {n}
  BY ContextGrows
<1>3. \A c \in Made \cup {0} : Around(c) \subseteq Made
  BY DEF Made, Around, ParentInv
<1>4. i = 0 \/ (i \in Made /\ at[i] = "running")
  BY DEF Enter, Running
<1>5. \A m \in Around(i) : calls[m].parent # 0 => at[m] = "running"
  BY <1>4 DEF RunInv, Around
<1>6. ASSUME NEW c \in Made', at'[c] = "running", NEW m \in Around(c)', calls'[m].parent # 0
      PROVE  at'[m] = "running"
  <2>1. CASE c = n
    BY <1>1, <1>2, <1>3, <1>4, <1>5, <1>6, <2>1
  <2>2. CASE c \in Made
    BY <1>1, <1>2, <1>3, <1>6, <2>2 DEF RunInv
  <2>3. QED
    BY <1>1, <2>1, <2>2
<1>7. QED
  BY <1>6 DEF RunInv

(* Nothing that is said of the calls themselves changes while none is made. *)
LEMMA CallsStay ==
    ASSUME CallsInv, UNCHANGED calls
    PROVE  /\ ParentInv' /\ SessionInv' /\ FrameInv'
           /\ Made' = Made /\ Sessions' = Sessions
           /\ \A c : Around(c)' = Around(c) /\ FramesOf(c)' = FramesOf(c) /\ (Nested(c)' <=> Nested(c))
<1> USE DEF CallsInv
<1>1. /\ Made' = Made /\ Sessions' = Sessions
      /\ \A c : Around(c)' = Around(c) /\ FramesOf(c)' = FramesOf(c) /\ (Nested(c)' <=> Nested(c))
  BY DEF Made, Sessions, Around, FramesOf, Nested
<1>2. ParentInv'
  BY <1>1 DEF ParentInv
<1>3. \A c : Namesakes(c)' = Namesakes(c)
  BY <1>1 DEF Namesakes
<1>4. SessionInv'
  BY <1>1, <1>3 DEF SessionInv
<1>5. \A f, c, j : FrameIn(f, c, j)' <=> FrameIn(f, c, j)
  BY <1>1 DEF FrameIn
<1>6. \A f, c : GoodFrame(f, c)' <=> GoodFrame(f, c)
  BY <1>1 DEF GoodFrame, Redirects
<1>7. \A c, j : FrameOf(j, c)' <=> FrameOf(j, c)
  BY <1>1, <1>5 DEF FrameOf
<1>8. FrameInv'
  BY <1>1, <1>6, <1>7 DEF FrameInv
<1>9. QED
  BY <1>1, <1>2, <1>4, <1>8

(* A call returns when what it awaits has: those in it run no longer. *)
LEMMA ReturnFacts ==
    ASSUME CallsInv, NEW i \in Made, NEW outcome \in {"ok", "failed"}, Return(i, outcome)
    PROVE  /\ UNCHANGED <<calls, works>>
           /\ at[i] = "running" /\ at' \in Seq({"running", "ok", "failed", "late"})
           /\ Len(at)' = Len(at) /\ at'[i] # "running"
           /\ \A c \in Made \ {i} : at'[c] = at[c]
           /\ \A c \in Made : c # i /\ i \in Around(c) /\ calls[i].parent # 0 => at[c] # "running"
<1> USE DEF CallsInv
<1>1. UNCHANGED <<calls, works>> /\ at[i] = "running"
  BY DEF Return
<1>2. PICK end \in {"ok", "failed", "late"} : at' = [at EXCEPT ![i] = end]
  <2>1. at' = [at EXCEPT ![i] = IF /\ outcome = "failed" /\ calls[i].mode = "nested"
                                  /\ over[calls[i].session] # "open" THEN "late" ELSE outcome]
    BY DEF Return
  <2>2. QED
    BY <2>1
<1>3. at \in Seq({"running", "ok", "failed", "late"}) /\ Made = 1 .. Len(at)
  BY DEF AmbType, Made
<1>4. /\ at' \in Seq({"running", "ok", "failed", "late"})
      /\ Len(at)' = Len(at) /\ at'[i] # "running"
      /\ \A c \in Made \ {i} : at'[c] = at[c]
  BY <1>2, <1>3
<1>5. ASSUME NEW c \in Made, c # i, i \in Around(c), calls[i].parent # 0, at[c] = "running"
      PROVE  FALSE
  <2>1. PICK j \in Around(c) : calls[j].parent = i
    BY <1>5 DEF ParentInv
  <2>2. i # 0 /\ j \in Made
    BY DEF Made, ParentInv
  <2>3. at[j] = "running"
    BY <1>5, <2>1, <2>2 DEF RunInv
  <2>4. QED
    BY <1>5, <2>1, <2>2, <2>3 DEF Return
<1>6. QED
  BY <1>1, <1>4, <1>5

-----------------------------------------------------------------------------
(* What the logs hold *)

(* Entries of a log: savepoints are told apart by their names, writes by    *)
(* their numbers, and the one from the other.                               *)
LEMMA EntriesApart ==
    /\ \A a, b : Mark(a) = Mark(b) => a = b
    /\ \A v, w : Write(v) = Write(w) => v = w
    /\ \A a, w : w # 0 => Mark(a) # Write(w)
    /\ \A a : Mark(a).work = 0
    /\ \A w : Write(w).work = w
<1>1. /\ \A a : Mark(a).mark = a /\ Mark(a).work = 0
      /\ \A w : Write(w).work = w
  BY DEF Mark, Write
<1>2. QED
  BY <1>1

(* A NESTED call of a kind is numbered higher than those before it. *)
LEMMA NumbersGrow ==
    ASSUME AmbType, NEW j \in Made, Nested(j), NEW S, S \subseteq Made, j \in S, Namesakes(j) \subseteq S
    PROVE  Cardinality(Namesakes(j)) # Cardinality(S)
<1>1. IsFiniteSet(S)
  <2>1. IsFiniteSet(Made) /\ S \in SUBSET Made
    BY FS_Interval DEF AmbType, Made
  <2>2. QED
    BY <2>1, FS_Subset
<1>2. j \notin Namesakes(j)
  BY DEF Namesakes, Made
<1>3. Namesakes(j) \in SUBSET S /\ Namesakes(j) # S
  BY <1>2
<1>4. QED
  BY <1>1, <1>3, FS_Subset

(* A savepoint has a name no other one has. *)
LEMMA NamesApart ==
    ASSUME CallsInv, NEW j \in Made, Nested(j)
    PROVE  /\ \A n \in Made : Nested(n) /\ calls[n].name = calls[j].name => n = j
           /\ \A form : Name(form) # calls[j].name
<1> USE DEF CallsInv
<1>1. \A n \in Made : Nested(n) => calls[n].name = <<calls[n].form.by, Cardinality(Namesakes(n)) + 1>>
  BY DEF SessionInv
<1>2. \A n \in Made : Cardinality(Namesakes(n)) \in Nat
  <2> SUFFICES ASSUME NEW n \in Made PROVE Cardinality(Namesakes(n)) \in Nat
    OBVIOUS
  <2>1. IsFiniteSet(1 .. n - 1) /\ Namesakes(n) \in SUBSET (1 .. n - 1)
    BY FS_Interval DEF Made, Namesakes
  <2>2. QED
    BY <2>1, FS_Subset, FS_CardinalityType
<1>3. ASSUME NEW m \in Made, NEW n \in Made, Nested(m), Nested(n), m < n
      PROVE  calls[m].name # calls[n].name
  <2> SUFFICES ASSUME calls[m].name = calls[n].name PROVE FALSE
    OBVIOUS
  <2>1. calls[m].form.by = calls[n].form.by /\ Cardinality(Namesakes(m)) = Cardinality(Namesakes(n))
    BY <1>1, <1>2, <1>3
  <2>2. Namesakes(n) \subseteq Made /\ m \in Namesakes(n) /\ Namesakes(m) \subseteq Namesakes(n)
    BY <1>3, <2>1 DEF Namesakes, Made, AmbType
  <2>3. QED
    BY <1>3, <2>1, <2>2, NumbersGrow
<1>4. ASSUME NEW n \in Made, Nested(n), calls[n].name = calls[j].name
      PROVE  n = j
  <2>1. n \in Int /\ j \in Int
    BY DEF Made
  <2>2. ~(n < j) /\ ~(j < n)
    BY <1>3, <1>4
  <2>3. QED
    BY <2>1, <2>2
<1>5. ASSUME NEW form, Name(form) = calls[j].name
      PROVE  FALSE
  <2>1. IsFiniteSet(Made) /\ Numbered(form) \in SUBSET Made
    BY FS_Interval DEF AmbType, Made, Numbered
  <2>2. Cardinality(Numbered(form)) \in Nat
    BY <2>1, FS_Subset, FS_CardinalityType
  <2>3. calls[j].form.by = form.by /\ Cardinality(Namesakes(j)) = Cardinality(Numbered(form))
    BY <1>1, <1>2, <1>5, <2>2 DEF Name
  <2>4. j \in Numbered(form) /\ Namesakes(j) \subseteq Numbered(form)
    BY <2>3 DEF Namesakes, Numbered, Made, Nested
  <2>5. QED
    BY <2>1, <2>3, <2>4, NumbersGrow
<1>6. QED
  BY <1>4, <1>5

(* ROLLBACK TO finds the savepoint of a running call, and cuts there. *)
LEMMA UndoneFacts ==
    ASSUME CallsInv, LogInv, NEW i \in Made, Nested(i), at[i] = "running",
           NEW s, s = calls[i].session
    PROVE  /\ s \in Ids
           /\ \E p \in Nat : Divides(p, i, s) /\ Undone(s, calls[i].name) = SubSeq(log[s], 1, p)
<1>1. s \in Ids
  <2>1. calls[i] \in CallType
    BY DEF CallsInv, AmbType, Made
  <2>2. QED
    BY <2>1 DEF CallType
<1>2. PICK p \in Nat : Divides(p, i, s)
  BY <1>1 DEF LogInv, LogOf
<1>3. MarkedOnce(i, s)
  BY <1>1 DEF LogInv, LogOf
<1> DEFINE found == {k \in 1 .. Len(log[s]) : log[s][k] = Mark(calls[i].name)}
<1>4. found = {p} /\ p <= p
  BY <1>2, <1>3 DEF Divides, MarkedOnce
<1>5. (CHOOSE k \in found : \A l \in found : l <= k) = p
  <2> HIDE DEF found
  <2>1. QED
    BY <1>4
<1>6. Undone(s, calls[i].name) = SubSeq(log[s], 1, p)
  BY <1>5 DEF Undone
<1>7. QED
  BY <1>1, <1>2, <1>6

(* The entries of s so far come from the calls they came from. *)
SameMakers(s) ==
    \A k \in 1 .. Len(log[s]) : \A i, e : e = log[s][k] =>
        ((i \in Made /\ Makes(i, s, e)) <=> (i \in Made' /\ Makes(i, s, e)'))

(* Nothing changes for the calls made, but that some may have returned. *)
CallsLast ==
    /\ Made \subseteq Made'
    /\ \A c \in Made : /\ Around(c)' = Around(c) /\ (Nested(c)' <=> Nested(c))
                       /\ calls'[c] = calls[c]
                       /\ at'[c] = "running" => at[c] = "running"

(* A log that is left as it is. *)
LEMMA LogStays ==
    ASSUME NEW s, LogOf(s), log'[s] = log[s], CallsLast, SameMakers(s),
           \A c \in Made' \ Made : ~(Nested(c)' /\ calls'[c].session = s)
    PROVE  LogOf(s)'
<1>1. MadeBySomeone(s)'
  <2> SUFFICES ASSUME NEW k \in 1 .. Len(log[s]), NEW e, e = log[s][k]
               PROVE  \E i \in Made' : Makes(i, s, e)'
    BY DEF MadeBySomeone
  <2>1. PICK i \in Made : Makes(i, s, e)
    BY DEF LogOf, MadeBySomeone
  <2>2. QED
    BY <2>1 DEF SameMakers
<1>2. ASSUME NEW n \in Made', Nested(n)', calls'[n].session = s
      PROVE  /\ MarkedOnce(n, s)'
             /\ at'[n] = "running" => \E p \in Nat : Divides(p, n, s)'
  <2>1. n \in Made /\ Nested(n) /\ calls[n].session = s /\ calls'[n] = calls[n]
        /\ (at'[n] = "running" => at[n] = "running")
    BY <1>2 DEF CallsLast
  <2>2. MarkedOnce(n, s)'
    BY <2>1 DEF LogOf, MarkedOnce
  <2>3. ASSUME at'[n] = "running"
        PROVE  \E p \in Nat : Divides(p, n, s)'
    <3>1. PICK p \in Nat : Divides(p, n, s)
      BY <2>1, <2>3 DEF LogOf
    <3>2. ASSUME NEW k \in 1 .. Len(log[s]), NEW i \in Made', NEW e, e = log[s][k], Makes(i, s, e)'
          PROVE  (k < p => n \notin Around(i)') /\ (k > p => n \in Around(i)')
      <4>1. i \in Made /\ Makes(i, s, e)
        BY <3>2 DEF SameMakers
      <4>2. Around(i)' = Around(i)
        BY <4>1 DEF CallsLast
      <4>3. QED
        BY <3>1, <3>2, <4>1, <4>2 DEF Divides
    <3>3. QED
      BY <2>1, <3>1, <3>2 DEF Divides
  <2>4. QED
    BY <2>2, <2>3
<1>3. QED
  BY <1>1, <1>2 DEF LogOf

(* A log that call c adds entry e to. *)
LEMMA LogAppended ==
    ASSUME NEW s, LogOf(s), log[s] \in Seq(Entries), NEW e, log'[s] = Append(log[s], e),
           CallsLast, SameMakers(s),
           NEW c \in Made', \A i \in Made' : Makes(i, s, e)' <=> i = c,
           \A k \in 1 .. Len(log[s]) : log[s][k] # e,
           \A n \in Made : Nested(n) => e # Mark(calls[n].name),
           \A n \in Made : Nested(n) /\ calls[n].session = s /\ at[n] = "running" => n \in Around(c)',
           \A n \in Made' \ Made : Nested(n)' /\ calls'[n].session = s =>
               n = c /\ e = Mark(calls'[n].name) /\ \A i \in Made : n \notin Around(i)
    PROVE  LogOf(s)'
<1> DEFINE last == Len(log[s]) + 1
<1>1. /\ Len(log[s]) \in Nat /\ Len(log'[s]) = last /\ log'[s][last] = e
      /\ \A k \in 1 .. Len(log[s]) : log'[s][k] = log[s][k]
  OBVIOUS
<1>2. 1 .. last = 1 .. Len(log[s]) \cup {last} /\ last \in Nat /\ last # 0
  BY <1>1
<1>3. MadeBySomeone(s)'
  <2> SUFFICES ASSUME NEW k \in 1 .. last, NEW f, f = log'[s][k]
               PROVE  \E i \in Made' : Makes(i, s, f)'
    BY <1>1 DEF MadeBySomeone
  <2>1. CASE k = last
    BY <1>1, <2>1
  <2>2. CASE k \in 1 .. Len(log[s])
    <3>1. PICK i \in Made : Makes(i, s, f)
      BY <1>1, <2>2 DEF LogOf, MadeBySomeone
    <3>2. QED
      BY <1>1, <2>2, <3>1 DEF SameMakers
  <2>3. QED
    BY <1>2, <2>1, <2>2
<1>4. ASSUME NEW k \in 1 .. Len(log[s]), NEW i \in Made', NEW f, f = log'[s][k], Makes(i, s, f)'
      PROVE  i \in Made /\ Makes(i, s, log[s][k]) /\ Around(i)' = Around(i)
  BY <1>1, <1>4 DEF SameMakers, CallsLast
<1>5. ASSUME NEW n \in Made, Nested(n)', calls'[n].session = s
      PROVE  /\ MarkedOnce(n, s)'
             /\ at'[n] = "running" => \E p \in Nat : Divides(p, n, s)'
  <2>1. Nested(n) /\ calls[n].session = s /\ calls'[n] = calls[n]
        /\ (at'[n] = "running" => at[n] = "running")
    BY <1>5 DEF CallsLast
  <2>2. MarkedOnce(n, s)'
    <3>1. ASSUME NEW k \in 1 .. last, log'[s][k] = Mark(calls[n].name)
          PROVE  k \in 1 .. Len(log[s]) /\ log[s][k] = Mark(calls[n].name)
      BY <1>1, <1>2, <2>1, <3>1
    <3>2. MarkedOnce(n, s)
      BY <2>1 DEF LogOf
    <3>3. QED
      BY <1>1, <2>1, <3>1, <3>2 DEF MarkedOnce
  <2>3. ASSUME at'[n] = "running"
        PROVE  \E p \in Nat : Divides(p, n, s)'
    <3>1. PICK p \in Nat : Divides(p, n, s)
      BY <2>1, <2>3 DEF LogOf
    <3>2. p \in 1 .. Len(log[s]) /\ log[s][p] = Mark(calls[n].name)
      BY <3>1 DEF Divides
    <3>3. p \in 1 .. last /\ log'[s][p] = Mark(calls'[n].name) /\ p < last
      BY <1>1, <2>1, <3>2
    <3>4. ASSUME NEW k \in 1 .. last, NEW i \in Made', NEW f, f = log'[s][k], Makes(i, s, f)'
          PROVE  (k < p => n \notin Around(i)') /\ (k > p => n \in Around(i)')
      <4>1. CASE k = last
        <5>1. i = c
          BY <1>1, <3>4, <4>1
        <5>2. n \in Around(c)'
          BY <2>1, <2>3
        <5>3. QED
          BY <1>2, <3>1, <3>3, <4>1, <5>1, <5>2
      <4>2. CASE k \in 1 .. Len(log[s])
        <5>1. i \in Made /\ Makes(i, s, log[s][k]) /\ Around(i)' = Around(i)
          BY <1>4, <3>4, <4>2
        <5>2. QED
          BY <3>1, <4>2, <5>1 DEF Divides
      <4>3. QED
        BY <1>2, <4>1, <4>2
    <3>5. QED
      BY <1>1, <3>3, <3>4 DEF Divides
  <2>4. QED
    BY <2>2, <2>3
<1>6. ASSUME NEW n \in Made' \ Made, Nested(n)', calls'[n].session = s
      PROVE  /\ MarkedOnce(n, s)'
             /\ at'[n] = "running" => \E p \in Nat : Divides(p, n, s)'
  <2>1. n = c /\ e = Mark(calls'[n].name) /\ \A i \in Made : n \notin Around(i)
    BY <1>6
  <2>2. MarkedOnce(n, s)'
    <3>1. ASSUME NEW k \in 1 .. last, log'[s][k] = e
          PROVE  k = last
      BY <1>1, <1>2, <3>1
    <3>2. QED
      BY <1>1, <2>1, <3>1 DEF MarkedOnce
  <2>3. ASSUME NEW k \in 1 .. last, NEW i \in Made', NEW f, f = log'[s][k], Makes(i, s, f)'
        PROVE  (k < last => n \notin Around(i)') /\ (k > last => n \in Around(i)')
    <3>1. CASE k = last
      BY <1>2, <3>1
    <3>2. CASE k \in 1 .. Len(log[s])
      <4>1. i \in Made /\ Around(i)' = Around(i)
        BY <1>4, <2>3, <3>2
      <4>2. ~(k > last)
        BY <1>1, <3>2
      <4>3. QED
        BY <2>1, <4>1, <4>2
    <3>3. QED
      BY <1>2, <3>1, <3>2
  <2>4. last \in Nat /\ last \in 1 .. last /\ log'[s][last] = Mark(calls'[n].name)
    BY <1>1, <1>2, <2>1
  <2>5. PICK q : q = last
    OBVIOUS
  <2>6. Divides(q, n, s)'
    BY <1>1, <2>3, <2>4, <2>5 DEF Divides
  <2>7. QED
    BY <2>2, <2>4, <2>5, <2>6
<1>7. QED
  BY <1>3, <1>5, <1>6 DEF LogOf

(* A log that ROLLBACK TO the savepoint of call i cuts after position p. *)
LEMMA LogCut ==
    ASSUME CallsInv, NEW s, LogOf(s), log[s] \in Seq(Entries),
           UNCHANGED <<calls, works>>,
           \A c \in Made : at'[c] = "running" => at[c] = "running",
           NEW i \in Made, Nested(i), at'[i] # "running",
           \A c \in Made : c # i /\ i \in Around(c) => at[c] # "running",
           NEW p \in Nat, Divides(p, i, s), log'[s] = SubSeq(log[s], 1, p)
    PROVE  LogOf(s)'
<1>1. /\ p \in 1 .. Len(log[s]) /\ Len(log[s]) \in Nat /\ Len(log'[s]) = p
      /\ \A k \in 1 .. p : k \in 1 .. Len(log[s]) /\ log'[s][k] = log[s][k]
  <2>1. p \in 1 .. Len(log[s]) /\ Len(log[s]) \in Nat
    BY DEF Divides
  <2>2. QED
    BY <2>1
<1>2. /\ Made' = Made
      /\ \A c : Around(c)' = Around(c) /\ (Nested(c)' <=> Nested(c))
      /\ \A c, e : Makes(c, s, e)' <=> Makes(c, s, e)
  BY CallsStay DEF Makes, Nested
<1>3. MadeBySomeone(s)'
  <2> SUFFICES ASSUME NEW k \in 1 .. p, NEW e, e = log'[s][k]
               PROVE  \E c \in Made' : Makes(c, s, e)'
    BY <1>1 DEF MadeBySomeone
  <2>1. PICK c \in Made : Makes(c, s, e)
    BY <1>1 DEF LogOf, MadeBySomeone
  <2>2. QED
    BY <1>2, <2>1
<1>4. ASSUME NEW n \in Made, Nested(n), calls[n].session = s
      PROVE  /\ MarkedOnce(n, s)'
             /\ at'[n] = "running" => \E q \in Nat : Divides(q, n, s)'
  <2>1. MarkedOnce(n, s)'
    <3>1. MarkedOnce(n, s)
      BY <1>4 DEF LogOf
    <3>2. QED
      BY <1>1, <3>1 DEF MarkedOnce
  <2>2. ASSUME at'[n] = "running"
        PROVE  \E q \in Nat : Divides(q, n, s)'
    <3>1. n # i /\ at[n] = "running" /\ i \notin Around(n)
      BY <2>2
    <3>2. PICK q \in Nat : Divides(q, n, s)
      BY <1>4, <3>1 DEF LogOf
    <3>3. q \in 1 .. Len(log[s]) /\ log[s][q] = Mark(calls[n].name)
      BY <3>2 DEF Divides
    <3>4. q # p
      <4>1. log[s][p] = Mark(calls[i].name)
        BY DEF Divides
      <4>2. calls[n].name # calls[i].name
        BY <1>4, <3>1, NamesApart
      <4>3. QED
        BY <3>3, <4>1, <4>2, EntriesApart
    <3>5. ~(q > p)
      <4>1. Makes(n, s, log[s][q])
        BY <1>4, <3>3 DEF Makes
      <4>2. QED
        BY <3>1, <3>3, <4>1 DEF Divides
    <3>6. q \in 1 .. p /\ log'[s][q] = Mark(calls'[n].name)
      BY <1>1, <3>2, <3>3, <3>4, <3>5
    <3>7. ASSUME NEW k \in 1 .. p, NEW c \in Made', NEW e, e = log'[s][k], Makes(c, s, e)'
          PROVE  (k < q => n \notin Around(c)') /\ (k > q => n \in Around(c)')
      <4>1. c \in Made /\ k \in 1 .. Len(log[s]) /\ Makes(c, s, log[s][k]) /\ Around(c)' = Around(c)
        BY <1>1, <1>2, <3>7
      <4>2. QED
        BY <3>2, <4>1 DEF Divides
    <3>8. QED
      BY <1>1, <3>2, <3>6, <3>7 DEF Divides
  <2>3. QED
    BY <2>1, <2>2
<1>5. QED
  BY <1>2, <1>3, <1>4 DEF LogOf

(* What an entry is, by the call it comes from. *)
LEMMA MakerFacts ==
    ASSUME AmbType, NEW s, MadeBySomeone(s), NEW k \in 1 .. Len(log[s])
    PROVE  \/ \E w \in 1 .. Len(works) : w # 0 /\ log[s][k] = Write(w) /\ works[w].session = s
           \/ \E j \in Made : Nested(j) /\ calls[j].session = s /\ log[s][k] = Mark(calls[j].name)
<1>1. PICK j \in Made : Makes(j, s, log[s][k])
  BY DEF MadeBySomeone
<1>2. \A w \in 1 .. Len(works) : w # 0
  OBVIOUS
<1>3. QED
  BY <1>1, <1>2 DEF Makes

(* A call that is entered takes no entry over. *)
LEMMA EntryKeepsMakers ==
    ASSUME CallsInv, LogInv, NEW form \in Forms, NEW prop, NEW i \in 0 .. Len(calls),
           NEW mode, NEW s, NEW name, Enter(form, prop, i, mode, s, name),
           Entry(form, i, mode, s, name), NEW t \in Ids
    PROVE  CallsLast /\ SameMakers(t)
<1> USE DEF CallsInv
<1>. PICK n : n = Len(calls) + 1
  OBVIOUS
<1>1. /\ Made' = Made \cup {n} /\ n \notin Made
      /\ \A c \in Made : calls'[c] = calls[c] /\ at'[c] = at[c]
      /\ calls'[n].name = name /\ works' = works
  <2>1. /\ Made' = Made \cup {n} /\ n \notin Made
        /\ \A c \in Made : calls'[c] = calls[c] /\ at'[c] = at[c]
        /\ calls'[n].name = name
    BY CallsGrow
  <2>2. works' = works
    BY DEF Enter
  <2>3. QED
    BY <2>1, <2>2
<1>2. /\ \A c \in Made : Around(c)' = Around(c) /\ (Nested(c)' <=> Nested(c))
      /\ Nested(n)' <=> mode = "nested"
  BY ContextGrows
<1>3. CallsLast
  BY <1>1, <1>2 DEF CallsLast
<1>4. ASSUME NEW k \in 1 .. Len(log[t]), NEW c, NEW e, e = log[t][k]
      PROVE  (c \in Made /\ Makes(c, t, e)) <=> (c \in Made' /\ Makes(c, t, e)')
  <2>1. CASE c \in Made
    BY <1>1, <1>2, <2>1 DEF Makes
  <2>2. CASE c = n
    <3>1. \A w \in 1 .. Len(works) : works[w].call # n
      BY <1>1 DEF AmbType
    <3>2. ASSUME mode = "nested"
          PROVE  e # Mark(name)
      <4>1. MadeBySomeone(t)
        BY DEF LogInv, LogOf
      <4>2. \/ \E w : w # 0 /\ e = Write(w)
            \/ \E j \in Made : Nested(j) /\ e = Mark(calls[j].name)
        BY <1>4, <4>1, MakerFacts
      <4>3. name = Name(form)
        BY <3>2 DEF Entry
      <4>4. QED
        BY <4>2, <4>3, NamesApart, EntriesApart
    <3>3. ~Makes(n, t, e)'
      BY <1>1, <1>2, <3>1, <3>2 DEF Makes
    <3>4. QED
      BY <1>1, <2>2, <3>3
  <2>3. QED
    BY <1>1, <2>1, <2>2
<1>5. QED
  BY <1>3, <1>4 DEF SameMakers

(* Opening or joining a session writes no savepoint. *)
LEMMA EntryKeepsLogs ==
    ASSUME CallsInv, LogInv, NEW form \in Forms, NEW prop, NEW i \in 0 .. Len(calls),
           NEW mode, NEW s, NEW name, Enter(form, prop, i, mode, s, name),
           Entry(form, i, mode, s, name), mode # "nested", UNCHANGED log
    PROVE  LogInv'
<1> USE DEF CallsInv
<1> SUFFICES ASSUME NEW t \in Ids PROVE LogOf(t)'
  BY DEF LogInv, Ids
<1>. PICK n : n = Len(calls) + 1
  OBVIOUS
<1>1. Made' = Made \cup {n}
  BY CallsGrow
<1>2. ~Nested(n)'
  BY ContextGrows
<1>3. CallsLast /\ SameMakers(t)
  BY EntryKeepsMakers
<1>4. LogOf(t)
  BY DEF LogInv
<1>5. QED
  BY <1>1, <1>2, <1>3, <1>4, LogStays

(* The savepoint of a NESTED call goes at the end of the log: what is in the call
   is written after it, and nothing else is until it returns. *)
LEMMA NestedKeepsLogs ==
    ASSUME CallsInv, LogInv, NEW form \in Forms, NEW prop, NEW i \in 0 .. Len(calls),
           EnterNested(form, prop, i)
    PROVE  LogInv'
<1> USE DEF CallsInv
<1>. PICK s : s = Found(form, i)
  OBVIOUS
<1>. PICK name : name = Name(form)
  OBVIOUS
<1>. PICK n : n = Len(calls) + 1
  OBVIOUS
<1>0. /\ Enter(form, prop, i, "nested", s, name) /\ Entry(form, i, "nested", s, name)
      /\ Alone(i, s) /\ log' = [log EXCEPT ![s] = Append(@, Mark(name))]
  BY DEF EnterNested, Entry
<1>1. /\ Made' = Made \cup {n} /\ n \notin Made
      /\ calls'[n].name = name /\ calls'[n].session = s
  BY <1>0, CallsGrow
<1>2. /\ \A c \in Made \cup {0} : Around(c)' = Around(c)
      /\ Around(n)' = Around(i) \cup {n} /\ Nested(n)'
  BY <1>0, ContextGrows
<1>3. i \in Made /\ s \in Ids
  BY <1>0, EntryJoins, EntryTyped
<1>4. log \in [Ids -> Seq(Entries)]
  BY DEF AmbType
<1>5. log'[s] = Append(log[s], Mark(name)) /\ \A t \in Ids \ {s} : log'[t] = log[t]
  BY <1>0, <1>3, <1>4
<1>6. \A c \in Made : Around(c) \subseteq Made
  BY DEF ParentInv, Made
<1> SUFFICES ASSUME NEW t \in Ids PROVE LogOf(t)'
  BY DEF LogInv, Ids
<1>7. CallsLast /\ SameMakers(t) /\ LogOf(t)
  BY <1>0, EntryKeepsMakers DEF LogInv
<1>8. CASE t # s
  BY <1>1, <1>5, <1>7, <1>8, LogStays
<1>9. CASE t = s
  <2>1. ASSUME NEW c \in Made'
        PROVE  Makes(c, s, Mark(name))' <=> c = n
    <3>1. \A w \in 1 .. Len(works) : w # 0
      OBVIOUS
    <3>2. works' = works
      BY <1>0 DEF Enter
    <3>3. Makes(c, s, Mark(name))' <=> Nested(c)' /\ calls'[c].session = s /\ Mark(name) = Mark(calls'[c].name)
      BY <3>1, <3>2, EntriesApart DEF Makes
    <3>4. CASE c = n
      BY <1>1, <1>2, <3>3, <3>4
    <3>5. CASE c \in Made
      <4>1. calls'[c] = calls[c] /\ (Nested(c)' <=> Nested(c))
        BY <1>7, <3>5 DEF CallsLast
      <4>2. Nested(c) => calls[c].name # name
        BY <3>5, NamesApart
      <4>3. QED
        BY <1>1, <3>3, <3>5, <4>1, <4>2, EntriesApart
    <3>6. QED
      BY <1>1, <3>4, <3>5
  <2>2. ASSUME NEW k \in 1 .. Len(log[s])
        PROVE  log[s][k] # Mark(name)
    <3>1. \/ \E w : w # 0 /\ log[s][k] = Write(w)
          \/ \E j \in Made : Nested(j) /\ log[s][k] = Mark(calls[j].name)
      BY <1>7, <1>9, MakerFacts DEF LogOf
    <3>2. QED
      BY <3>1, NamesApart, EntriesApart
  <2>3. \A m \in Made : Nested(m) => Mark(name) # Mark(calls[m].name)
    BY NamesApart, EntriesApart
  <2>4. \A m \in Made : Nested(m) /\ calls[m].session = s /\ at[m] = "running" => m \in Around(n)'
    BY <1>0, <1>2 DEF Alone, Nested
  <2>5. \A m \in Made : n \notin Around(m)
    BY <1>1, <1>6
  <2>. PICK e : e = Mark(name)
    OBVIOUS
  <2>6. log[s] \in Seq(Entries) /\ log'[s] = Append(log[s], e) /\ n \in Made'
    BY <1>1, <1>3, <1>4, <1>5
  <2>7. \A c \in Made' : Makes(c, s, e)' <=> c = n
    BY <2>1
  <2>8. (\A k \in 1 .. Len(log[s]) : log[s][k] # e) /\ \A m \in Made : Nested(m) => e # Mark(calls[m].name)
    BY <2>2, <2>3
  <2>9. \A m \in Made' \ Made : Nested(m)' /\ calls'[m].session = s =>
            m = n /\ e = Mark(calls'[m].name) /\ \A c \in Made : m \notin Around(c)
    BY <1>1, <2>5
  <2>10. LogOf(s) /\ CallsLast /\ SameMakers(s)
    BY <1>7, <1>9
  <2>11. LogOf(s)'
    BY <2>4, <2>6, <2>7, <2>8, <2>9, <2>10, LogAppended
  <2>12. QED
    BY <1>9, <2>11
<1>10. QED
  BY <1>8, <1>9

-----------------------------------------------------------------------------
(* A call returns *)

(* What Return() does to the logs: ROLLBACK TO cuts one at the savepoint of *)
(* the call, and whatever else happens leaves them alone.                   *)
LEMMA ReturnCuts ==
    ASSUME CallsInv, LogInv, NEW i \in Made, NEW outcome \in {"ok", "failed"}, Return(i, outcome),
           NEW s, s = calls[i].session
    PROVE  /\ s \in Ids /\ over' \in [Ids -> {"open", "committed", "rolledBack"}]
           /\ \/ log' = log /\ (at'[i] = "failed" => ~Nested(i))
              \/ /\ Nested(i) /\ at'[i] = "failed"
                 /\ \E p \in Nat : Divides(p, i, s) /\ log' = [log EXCEPT ![s] = SubSeq(log[s], 1, p)]
<1> USE DEF CallsInv
<1>1. calls[i] \in CallType /\ i \in DOMAIN at /\ over \in [Ids -> {"open", "committed", "rolledBack"}]
  BY DEF AmbType, Made
<1>2. s \in Ids
  BY <1>1 DEF CallType
<1> DEFINE cut == outcome = "failed" /\ Nested(i)
<1>3. /\ at' = [at EXCEPT ![i] = IF cut /\ over[s] # "open" THEN "late" ELSE outcome]
      /\ over' = IF calls[i].mode # "new" THEN over
                 ELSE [over EXCEPT ![s] = IF outcome = "ok" THEN "committed" ELSE "rolledBack"]
      /\ log' = IF cut /\ over[s] = "open" THEN [log EXCEPT ![s] = Undone(s, calls[i].name)] ELSE log
      /\ at[i] = "running"
  BY DEF Return, Nested
<1>4. over' \in [Ids -> {"open", "committed", "rolledBack"}]
  BY <1>1, <1>3
<1>5. at'[i] = IF cut /\ over[s] # "open" THEN "late" ELSE outcome
  BY <1>1, <1>3
<1>6. CASE cut /\ over[s] = "open"
  <2>1. PICK p \in Nat : Divides(p, i, s) /\ Undone(s, calls[i].name) = SubSeq(log[s], 1, p)
    BY <1>3, <1>6, UndoneFacts
  <2>2. log' = [log EXCEPT ![s] = SubSeq(log[s], 1, p)]
    BY <1>3, <1>6, <2>1
  <2>3. QED
    BY <1>2, <1>4, <1>5, <1>6, <2>1, <2>2
<1>7. CASE ~(cut /\ over[s] = "open")
  <2>1. log' = log
    BY <1>3, <1>7
  <2>2. at'[i] = "failed" => ~Nested(i)
    BY <1>5, <1>7
  <2>3. QED
    BY <1>2, <1>4, <2>1, <2>2
<1>8. QED
  BY <1>6, <1>7

(* A call that returns changes no call, and leaves the log it cuts one of entries. *)
LEMMA ReturnKeepsCalls ==
    ASSUME CallsInv, LogInv, NEW i \in Made, NEW outcome \in {"ok", "failed"}, Return(i, outcome)
    PROVE  CallsInv'
<1>. PICK s : s = calls[i].session
  OBVIOUS
<1>1. AmbType
  BY DEF CallsInv
<1>2. UNCHANGED <<calls, works>> /\ at' \in Seq({"running", "ok", "failed", "late"}) /\ Len(at)' = Len(at)
  BY ReturnFacts
<1>3. /\ ParentInv' /\ SessionInv' /\ FrameInv'
      /\ Made' = Made /\ Sessions' = Sessions /\ \A c : Around(c)' = Around(c)
  BY <1>2, CallsStay
<1>4. over' \in [Ids -> {"open", "committed", "rolledBack"}] /\ s \in Ids
  BY ReturnCuts
<1>5. log' \in [Ids -> Seq(Entries)]
  <2>1. log \in [Ids -> Seq(Entries)]
    BY <1>1 DEF AmbType
  <2>2. CASE log' = log
    BY <2>1, <2>2
  <2>3. CASE log' # log
    <3>1. PICK p \in Nat : Divides(p, i, s) /\ log' = [log EXCEPT ![s] = SubSeq(log[s], 1, p)]
      BY <2>3, ReturnCuts
    <3>2. log[s] \in Seq(Entries) /\ p \in 1 .. Len(log[s])
      BY <1>4, <2>1, <3>1 DEF Divides
    <3>3. SubSeq(log[s], 1, p) \in Seq(Entries)
      <4> HIDE DEF Entries
      <4>1. QED
        BY <3>2
    <3>4. QED
      BY <2>1, <3>1, <3>3
  <2>4. QED
    BY <2>2, <2>3
<1>6. AmbType'
  BY <1>1, <1>2, <1>3, <1>4, <1>5 DEF AmbType
<1>7. RunInv'
  <2> SUFFICES ASSUME NEW c \in Made, at'[c] = "running", NEW n \in Around(c), calls[n].parent # 0
               PROVE  at'[n] = "running"
    BY <1>2, <1>3 DEF RunInv
  <2>1. n \in Made
    BY DEF CallsInv, ParentInv, Made
  <2>2. c # i /\ at[c] = "running"
    BY ReturnFacts
  <2>3. at[n] = "running"
    BY <2>2 DEF CallsInv, RunInv
  <2>4. n # i
    BY <2>2, ReturnFacts
  <2>5. QED
    BY <2>1, <2>3, <2>4, ReturnFacts
<1>8. QED
  BY <1>3, <1>6, <1>7 DEF CallsInv

(* The logs after a call has returned. *)
LEMMA ReturnKeepsLogs ==
    ASSUME CallsInv, LogInv, NEW i \in Made, NEW outcome \in {"ok", "failed"}, Return(i, outcome)
    PROVE  LogInv' /\ CallsLast
<1> USE DEF CallsInv
<1>. PICK s : s = calls[i].session
  OBVIOUS
<1>1. /\ UNCHANGED <<calls, works>> /\ at[i] = "running" /\ at'[i] # "running"
      /\ \A c \in Made \ {i} : at'[c] = at[c]
      /\ \A c \in Made : c # i /\ i \in Around(c) /\ calls[i].parent # 0 => at[c] # "running"
  BY ReturnFacts
<1>2. Made' = Made /\ \A c : Around(c)' = Around(c) /\ (Nested(c)' <=> Nested(c))
  BY <1>1, CallsStay
<1>3. \A c \in Made : at'[c] = "running" => at[c] = "running"
  BY <1>1
<1>4. CallsLast
  BY <1>1, <1>2, <1>3 DEF CallsLast
<1>5. ASSUME NEW t \in Ids
      PROVE  LogOf(t)'
  <2>1. LogOf(t) /\ log[t] \in Seq(Entries) /\ s \in Ids
    BY ReturnCuts DEF LogInv, AmbType
  <2>2. SameMakers(t)
    <3>1. \A c, e : Makes(c, t, e)' <=> Makes(c, t, e)
      BY <1>1, <1>2 DEF Makes
    <3>2. QED
      BY <1>2, <3>1 DEF SameMakers
  <2>3. CASE log'[t] = log[t]
    BY <1>2, <1>4, <2>1, <2>2, <2>3, LogStays
  <2>4. CASE log'[t] # log[t]
    <3>1. PICK p \in Nat : Divides(p, i, s) /\ log' = [log EXCEPT ![s] = SubSeq(log[s], 1, p)]
      BY <2>4, ReturnCuts
    <3>2. log \in [Ids -> Seq(Entries)]
      BY DEF AmbType
    <3>3. t = s /\ log'[s] = SubSeq(log[s], 1, p)
      BY <2>1, <2>4, <3>1, <3>2
    <3>4. Nested(i) /\ calls[i].parent # 0
      BY <2>4, ReturnCuts DEF SessionInv
    <3>5. \A c \in Made : c # i /\ i \in Around(c) => at[c] # "running"
      BY <1>1, <3>4
    <3>6. LogOf(s)'
      BY <1>1, <1>3, <2>1, <3>1, <3>3, <3>4, <3>5, LogCut
    <3>7. QED
      BY <3>3, <3>6
  <2>5. QED
    BY <2>3, <2>4
<1>6. LogInv'
  BY <1>5 DEF LogInv, Ids
<1>7. QED
  BY <1>4, <1>6

(* Write w is part of its transaction as long as its entry is there. *)
LEMMA KeptEntry ==
    ASSUME AmbType, NEW s \in Ids, MadeBySomeone(s), NEW w \in 1 .. Len(works), works[w].session = s,
           NEW k \in 1 .. Len(log[s])
    PROVE  log[s][k].work = w <=> log[s][k] = Write(w)
<1>1. w # 0
  OBVIOUS
<1>2. CASE log[s][k] = Write(w)
  BY <1>2, EntriesApart
<1>3. CASE log[s][k] # Write(w)
  <2>1. \/ \E v : log[s][k] = Write(v)
        \/ \E a : log[s][k] = Mark(a)
    BY MakerFacts
  <2>2. log[s][k].work # w
    BY <1>1, <1>3, <2>1, EntriesApart
  <2>3. QED
    BY <1>3, <2>2
<1>4. QED
  BY <1>2, <1>3

(* ROLLBACK TO takes the writes with the call around them, and those alone. *)
LEMMA ReturnKeepsWrites ==
    ASSUME CallsInv, LogInv, KeptInv,
           NEW i \in Made, NEW outcome \in {"ok", "failed"}, Return(i, outcome)
    PROVE  KeptInv'
<1> USE DEF CallsInv
<1>. PICK s : s = calls[i].session
  OBVIOUS
<1>1. /\ UNCHANGED <<calls, works>> /\ at[i] = "running" /\ i \in Made
      /\ \A c \in Made \ {i} : at'[c] = at[c]
  BY ReturnFacts
<1>2. \A c : Around(c)' = Around(c)
  BY <1>1, CallsStay
<1> SUFFICES ASSUME NEW w \in 1 .. Len(works), works[w].session # 0
             PROVE  Kept(w)' <=> ~Thrown(w)'
  BY <1>1 DEF KeptInv
<1>. PICK t : t = works[w].session
  OBVIOUS
<1>. PICK c : c = works[w].call
  OBVIOUS
<1>3. c \in Made /\ t \in Ids /\ w # 0 /\ Around(c) \subseteq Made
  <2>1. c \in Made /\ t \in Sessions
    BY DEF AmbType
  <2>2. Made \subseteq Ids /\ Sessions \subseteq Made
    BY AmbientAssumption DEF AmbType, Made, Ids, Sessions
  <2>3. QED
    BY <2>1, <2>2 DEF ParentInv, Made
<1>4. LogOf(t) /\ log[t] \in Seq(Entries) /\ s \in Ids
  BY <1>3, ReturnCuts DEF LogInv, AmbType
<1>5. Kept(w) <=> ~Thrown(w)
  BY DEF KeptInv
(* The entry of w, before and after. *)
<1>6. Kept(w) <=> \E k \in 1 .. Len(log[t]) : log[t][k] = Write(w)
  <2>1. \A k \in 1 .. Len(log[t]) : log[t][k].work = w <=> log[t][k] = Write(w)
    BY <1>3, <1>4, KeptEntry DEF LogOf
  <2>2. QED
    BY <2>1 DEF Kept
<1>7. \A k \in 1 .. Len(log[t]) : log[t][k] = Write(w) => Makes(c, t, log[t][k])
  BY DEF Makes
<1>8. Thrown(w)' <=> \/ \E n \in Around(c) \ {i} : Nested(n) /\ calls[n].session = t /\ at[n] = "failed"
                     \/ i \in Around(c) /\ Nested(i) /\ s = t /\ at'[i] = "failed"
  BY <1>1, <1>2, <1>3 DEF Thrown, Nested
<1>9. Thrown(w) <=> \E n \in Around(c) \ {i} : Nested(n) /\ calls[n].session = t /\ at[n] = "failed"
  BY <1>1 DEF Thrown, Nested
<1>10. CASE log' = log /\ (at'[i] = "failed" => ~Nested(i))
  <2>1. Thrown(w)' <=> Thrown(w)
    BY <1>8, <1>9, <1>10
  <2>2. Kept(w)' <=> Kept(w)
    BY <1>1, <1>10 DEF Kept
  <2>3. QED
    BY <1>5, <2>1, <2>2
<1>11. ASSUME Nested(i), at'[i] = "failed", NEW p \in Nat, Divides(p, i, s),
              log' = [log EXCEPT ![s] = SubSeq(log[s], 1, p)]
       PROVE  Kept(w)' <=> ~Thrown(w)'
  <2>1. CASE t # s
    <3>1. log'[t] = log[t]
      BY <1>3, <1>11, <2>1 DEF AmbType
    <3>2. Thrown(w)' <=> Thrown(w)
      BY <1>8, <1>9, <2>1
    <3>3. Kept(w)' <=> Kept(w)
      BY <1>1, <3>1 DEF Kept
    <3>4. QED
      BY <1>5, <3>2, <3>3
  <2>2. CASE t = s
    <3>1. /\ p \in 1 .. Len(log[t]) /\ log[t][p] = Mark(calls[i].name)
          /\ \A k \in 1 .. Len(log[t]) : Makes(c, t, log[t][k]) =>
                (k < p => i \notin Around(c)) /\ (k > p => i \in Around(c))
      BY <1>3, <1>11, <2>2 DEF Divides
    <3>2. log'[t] = SubSeq(log[t], 1, p)
      BY <1>4, <1>11, <2>2 DEF AmbType
    <3>3. Len(log'[t]) = p /\ \A k \in 1 .. p : k \in 1 .. Len(log[t]) /\ log'[t][k] = log[t][k]
      BY <1>4, <3>1, <3>2
    <3>4. Kept(w)' <=> \E k \in 1 .. p : log[t][k] = Write(w)
      <4>1. \A k \in 1 .. Len(log[t]) : log[t][k].work = w <=> log[t][k] = Write(w)
        BY <1>3, <1>4, KeptEntry DEF LogOf
      <4>2. Kept(w)' <=> \E k \in 1 .. Len(log'[t]) : log'[t][k].work = w
        BY <1>1 DEF Kept
      <4>3. \A k \in 1 .. p : log'[t][k].work = w <=> log[t][k] = Write(w)
        BY <3>3, <4>1
      <4>4. QED
        BY <3>3, <4>2, <4>3
    <3>5. ASSUME NEW k \in 1 .. Len(log[t]), log[t][k] = Write(w)
          PROVE  k \in 1 .. p <=> i \notin Around(c)
      <4>1. k # p
        BY <1>3, <3>1, <3>5, EntriesApart
      <4>2. (k < p => i \notin Around(c)) /\ (k > p => i \in Around(c))
        BY <1>7, <3>1, <3>5
      <4>3. QED
        BY <1>4, <3>1, <4>1, <4>2
    <3>6. CASE i \in Around(c)
      BY <1>8, <1>11, <2>2, <3>3, <3>4, <3>5, <3>6
    <3>7. CASE i \notin Around(c)
      <4>1. Thrown(w)' <=> Thrown(w)
        BY <1>8, <1>9, <3>7
      <4>2. Kept(w)' <=> Kept(w)
        BY <1>6, <3>3, <3>4, <3>5, <3>7
      <4>3. QED
        BY <1>5, <4>1, <4>2
    <3>8. QED
      BY <3>6, <3>7
  <2>3. QED
    BY <2>1, <2>2
<1>12. QED
  BY <1>10, <1>11, ReturnCuts

(* Where a write has landed says nothing of what calls do later. *)
LEMMA LandStays ==
    ASSUME CallsInv, CallsLast, NEW work, work.call \in Made, work.session \in Made \cup {0}
    PROVE  Landed(work)' <=> Landed(work)
<1> USE DEF CallsInv
<1>. PICK c : c = work.call
  OBVIOUS
<1>1. \A i \in Made : Around(i) \subseteq Made /\ calls[i].session \in Made
  BY DEF ParentInv, SessionInv, Made
<1>2. /\ \A i \in Made \cup {0} : Around(i)' = Around(i)
      /\ \A i \in Made : calls'[i] = calls[i]
  BY DEF CallsLast, Around
<1>3. Around(c)' = Around(c) /\ Around(c) \subseteq Made
  BY <1>1, <1>2
<1>4. Around(work.session)' = Around(work.session)
  BY <1>2
<1>5. ASSUME NEW j
      PROVE  (\A k \in {a \in Around(c)' : j \in Around(a)'} : j \in Around(calls[k].session)')
             <=> \A k \in {a \in Around(c) : j \in Around(a)} : j \in Around(calls[k].session)
  <2>1. \A k \in Around(c) : Around(calls[k].session)' = Around(calls[k].session) /\ Around(k)' = Around(k)
    <3> SUFFICES ASSUME NEW k \in Around(c)
                 PROVE  Around(calls[k].session)' = Around(calls[k].session) /\ Around(k)' = Around(k)
      OBVIOUS
    <3>1. k \in Made /\ calls[k].session \in Made /\ calls'[k] = calls[k]
      BY <1>1, <1>2, <1>3
    <3>2. Around(k)' = Around(k)
      BY <1>2, <3>1
    <3>3. calls'[calls[k].session] = calls[calls[k].session]
      BY <1>2, <3>1
    <3>4. Around(calls[k].session)' = Around(calls[k].session)
      BY <3>1, <3>3 DEF Around
    <3>5. QED
      BY <3>2, <3>4
  <2>2. QED
    BY <1>3, <2>1
<1>6. \A j \in Around(c) : calls'[j] = calls[j]
  BY <1>2, <1>3
<1>7. QED
  BY <1>3, <1>4, <1>5, <1>6 DEF Landed

(* Calls come and go, and the writes made are where they were. *)
LEMMA WritesStay ==
    ASSUME CallsInv, CallsLast, LandInv, UNCHANGED works
    PROVE  LandInv'
<1> SUFFICES ASSUME NEW w \in 1 .. Len(works) PROVE Landed(works[w])'
  BY DEF LandInv
<1>. PICK work : work = works[w]
  OBVIOUS
<1>1. work.call \in Made /\ work.session \in Made \cup {0}
  BY DEF CallsInv, AmbType, Sessions
<1>2. Landed(work)
  BY DEF LandInv
<1>3. Landed(work)'
  BY <1>1, <1>2, LandStays
<1>4. QED
  BY <1>3 DEF Landed

(* Return() as a whole. *)
LEMMA ReturnKeeps ==
    ASSUME AmbInv, NEW i \in Made, NEW outcome \in {"ok", "failed"}, Return(i, outcome)
    PROVE  AmbInv'
<1>1. CallsInv' /\ LogInv' /\ CallsLast
  BY ReturnKeepsCalls, ReturnKeepsLogs DEF AmbInv
<1>2. KeptInv'
  BY ReturnKeepsWrites DEF AmbInv
<1>3. LandInv'
  BY <1>1, WritesStay DEF AmbInv, Return
<1>4. QED
  BY <1>1, <1>2, <1>3 DEF AmbInv

(* Entering a call leaves every write as it was. *)
LEMMA EntryKeepsWrites ==
    ASSUME CallsInv, KeptInv, NEW form \in Forms, NEW prop, NEW i \in 0 .. Len(calls),
           NEW mode, NEW s, NEW name, Enter(form, prop, i, mode, s, name),
           NEW a, log' = log \/ log' = [log EXCEPT ![s] = Append(log[s], Mark(a))]
    PROVE  KeptInv'
<1> USE DEF CallsInv
<1>1. works' = works
  BY DEF Enter
<1>2. \A c \in Made : c \in Made' /\ calls'[c] = calls[c] /\ at'[c] = at[c] /\ Around(c)' = Around(c)
  <2>. PICK n : n = Len(calls) + 1
    OBVIOUS
  <2>1. \A c \in Made : c \in Made' /\ calls'[c] = calls[c] /\ at'[c] = at[c]
    BY CallsGrow
  <2>2. \A c \in Made : Around(c)' = Around(c)
    BY ContextGrows
  <2>3. QED
    BY <2>1, <2>2
<1> SUFFICES ASSUME NEW w \in 1 .. Len(works), works[w].session # 0
             PROVE  Kept(w)' <=> ~Thrown(w)'
  BY <1>1 DEF KeptInv
<1>. PICK t : t = works[w].session
  OBVIOUS
<1>. PICK c : c = works[w].call
  OBVIOUS
<1>3. c \in Made /\ t \in Ids /\ w # 0 /\ Around(c) \subseteq Made
  <2>1. c \in Made /\ t \in Sessions
    BY DEF AmbType
  <2>2. Made \subseteq Ids /\ Sessions \subseteq Made
    BY AmbientAssumption DEF AmbType, Made, Ids, Sessions
  <2>3. QED
    BY <2>1, <2>2 DEF ParentInv, Made
<1>4. Thrown(w)' <=> Thrown(w)
  <2>1. Around(c)' = Around(c) /\ \A n \in Around(c) : calls'[n] = calls[n] /\ at'[n] = at[n]
    BY <1>2, <1>3
  <2>2. QED
    BY <1>1, <2>1 DEF Thrown
<1>5. Kept(w)' <=> Kept(w)
  <2>1. CASE log'[t] = log[t]
    BY <1>1, <2>1 DEF Kept
  <2>2. CASE log'[t] # log[t]
    <3>1. log \in [Ids -> Seq(Entries)] /\ log' = [log EXCEPT ![s] = Append(log[s], Mark(a))]
      BY <2>2 DEF AmbType
    <3>2. t = s /\ log'[t] = Append(log[t], Mark(a)) /\ log[t] \in Seq(Entries)
      BY <1>3, <2>2, <3>1
    <3>. PICK e : e = Mark(a)
      OBVIOUS
    <3>3. /\ Len(log[t]) \in Nat /\ Len(log'[t]) = Len(log[t]) + 1
          /\ log'[t][Len(log[t]) + 1] = e
          /\ \A k \in 1 .. Len(log[t]) : log'[t][k] = log[t][k]
      BY <3>2
    <3>4. e.work # w
      BY <1>3, EntriesApart
    <3>5. (\E k \in 1 .. Len(log[t]) + 1 : log'[t][k].work = w)
          <=> \E k \in 1 .. Len(log[t]) : log[t][k].work = w
      <4>1. 1 .. Len(log[t]) + 1 = 1 .. Len(log[t]) \cup {Len(log[t]) + 1}
        BY <3>3
      <4>2. log'[t][Len(log[t]) + 1].work # w
        BY <3>3, <3>4
      <4>3. \A k \in 1 .. Len(log[t]) : log'[t][k].work = log[t][k].work
        BY <3>3
      <4>4. QED
        BY <4>1, <4>2, <4>3
    <3>6. Kept(w)' <=> \E k \in 1 .. Len(log'[t]) : log'[t][k].work = w
      BY <1>1 DEF Kept
    <3>7. Kept(w) <=> \E k \in 1 .. Len(log[t]) : log[t][k].work = w
      BY DEF Kept
    <3>8. QED
      BY <3>3, <3>5, <3>6, <3>7
  <2>3. QED
    BY <2>1, <2>2
<1>6. Kept(w) <=> ~Thrown(w)
  BY DEF KeptInv
<1>7. QED
  BY <1>4, <1>5, <1>6

(* What is said of calls holds of the one entered, whichever its mode. *)
LEMMA EntryKeepsCalls ==
    ASSUME CallsInv, LogInv, NEW form \in Forms, NEW prop, NEW i \in 0 .. Len(calls),
           NEW mode \in {"new", "nested", "joined"}, NEW s, NEW name,
           Enter(form, prop, i, mode, s, name),
           Entry(form, i, mode, s, name), log' \in [Ids -> Seq(Entries)]
    PROVE  CallsInv' /\ CallsLast
<1>. PICK n : n = Len(calls) + 1
  OBVIOUS
<1>1. AmbType'
  BY EntryKeepsTypes
<1>2. ParentInv'
  BY EntryKeepsParents
<1>3. SessionInv'
  BY EntryKeepsSessions
<1>4. FrameInv'
  BY EntryKeepsFrames
<1>5. RunInv'
  BY EntryKeepsRunning
<1>6. CallsLast
  <2>1. /\ Made' = Made \cup {n}
        /\ \A c \in Made : calls'[c] = calls[c] /\ at'[c] = at[c]
    BY CallsGrow DEF CallsInv
  <2>2. \A c \in Made : Around(c)' = Around(c) /\ (Nested(c)' <=> Nested(c))
    BY ContextGrows DEF CallsInv
  <2>3. QED
    BY <2>1, <2>2 DEF CallsLast
<1>7. QED
  BY <1>1, <1>2, <1>3, <1>4, <1>5, <1>6 DEF CallsInv

(* A call entered, by each of its three actions. *)
LEMMA EnterKeeps ==
    ASSUME AmbInv, NEW form \in Forms, NEW prop, NEW i \in 0 .. Len(calls),
           EnterNew(form, prop, i) \/ EnterNested(form, prop, i) \/ EnterJoined(form, prop, i)
    PROVE  AmbInv'
<1>1. CallsInv /\ LogInv /\ KeptInv /\ LandInv /\ log \in [Ids -> Seq(Entries)]
  BY DEF AmbInv, CallsInv, AmbType
<1>2. ASSUME NEW mode \in {"new", "nested", "joined"}, NEW s, NEW name, NEW a,
             Enter(form, prop, i, mode, s, name), Entry(form, i, mode, s, name),
             log' \in [Ids -> Seq(Entries)], LogInv',
             log' = log \/ log' = [log EXCEPT ![s] = Append(log[s], Mark(a))]
      PROVE  AmbInv'
  <2>1. CallsInv' /\ CallsLast
    <3>1. CallsInv /\ LogInv
      BY <1>1
    <3>2. Enter(form, prop, i, mode, s, name) /\ Entry(form, i, mode, s, name)
          /\ log' \in [Ids -> Seq(Entries)]
      BY <1>2
    <3>3. QED
      BY <3>1, <3>2, EntryKeepsCalls
  <2>2. KeptInv'
    BY <1>1, <1>2, EntryKeepsWrites
  <2>3. works' = works
    BY <1>2 DEF Enter
  <2>4. LandInv'
    BY <1>1, <2>1, <2>3, WritesStay
  <2>5. QED
    BY <1>2, <2>1, <2>2, <2>4 DEF AmbInv
<1>3. CASE EnterNew(form, prop, i)
  <2>. PICK s : s = Len(calls) + 1
    OBVIOUS
  <2>1. Enter(form, prop, i, "new", s, None) /\ Entry(form, i, "new", s, None) /\ log' = log
    BY <1>3 DEF EnterNew, Entry
  <2>2. LogInv'
    BY <1>1, <2>1, EntryKeepsLogs
  <2>3. QED
    BY <1>1, <1>2, <2>1, <2>2
<1>4. CASE EnterJoined(form, prop, i)
  <2>. PICK s : s = Found(form, i)
    OBVIOUS
  <2>1. Enter(form, prop, i, "joined", s, None) /\ Entry(form, i, "joined", s, None) /\ log' = log
    BY <1>4 DEF EnterJoined, Entry
  <2>2. LogInv'
    BY <1>1, <2>1, EntryKeepsLogs
  <2>3. QED
    BY <1>1, <1>2, <2>1, <2>2
<1>5. CASE EnterNested(form, prop, i)
  <2>. PICK s : s = Found(form, i)
    OBVIOUS
  <2>. PICK name : name = Name(form)
    OBVIOUS
  <2>1. Enter(form, prop, i, "nested", s, name) /\ Entry(form, i, "nested", s, name)
        /\ log' = [log EXCEPT ![s] = Append(log[s], Mark(name))]
    BY <1>5 DEF EnterNested, Entry
  <2>2. LogInv'
    BY <1>1, <1>5, NestedKeepsLogs
  <2>3. s \in Ids /\ name \in Names
    BY <1>1, <2>1, EntryTyped DEF CallsInv
  <2>4. Mark(name) \in Entries
    BY <2>3, AmbientAssumption DEF Mark, Entries
  <2>5. Append(log[s], Mark(name)) \in Seq(Entries)
    <3> HIDE DEF Entries
    <3>1. QED
      BY <1>1, <2>3, <2>4
  <2>6. log' \in [Ids -> Seq(Entries)]
    BY <1>1, <2>1, <2>5
  <2>7. QED
    BY <1>2, <2>1, <2>2, <2>6
<1>6. QED
  BY <1>3, <1>4, <1>5

-----------------------------------------------------------------------------
(* A callback writes *)

(* A write lands where it was asked, by the frames of its callback. *)
LEMMA WriteLands ==
    ASSUME CallsInv, NEW i \in Made, NEW m \in Managers,
           NEW s, s = AmbientFor(FramesOf(i), ConnOf[m], m), NEW work, work = Did(i, m, s)
    PROVE  /\ s \in Sessions \cup {0} /\ work \in WorkType
           /\ work.call = i /\ work.session = s
           /\ Landed(work)
<1> USE DEF CallsInv
<1>. PICK frames : frames = FramesOf(i)
  OBVIOUS
<1>. PICK conn : conn = ConnOf[m]
  OBVIOUS
<1>1. /\ frames \in Seq(Frames) /\ Around(i) \subseteq Ids
      /\ \A x \in 1 .. Len(frames) : frames[x].session # 0
  BY FramesTyped
<1>2. /\ \A x \in 1 .. Len(frames) : GoodFrame(frames[x], i)
      /\ \A j \in Around(i) : calls[j].mode = "new" => FrameOf(j, i)
  BY DEF FrameInv
<1>3. \/ s = 0 /\ \A k \in 1 .. Len(frames) : ~Fits(frames[k], conn, m)
      \/ \E k \in 1 .. Len(frames) :
            /\ s = frames[k].session
            /\ Fits(frames[k], conn, m)
            /\ \A l \in 1 .. Len(frames) : Fits(frames[l], conn, m) => k <= l
  BY <1>1, SessionFound
<1>4. s \in Sessions \cup {0}
  BY <1>2, <1>3 DEF GoodFrame
<1>5. /\ work.call = i /\ work.mgr = m /\ work.session = s
      /\ work.conn = IF s = 0 THEN conn ELSE calls[s].conn
      /\ work.missed = {j \in Around(i) : calls[j].mode = "new" /\ over[j] = "open" /\ calls[j].conn = conn}
  BY DEF Did
<1>6. work \in WorkType
  <2>1. i \in Ids /\ s \in 0 .. MaxCalls /\ Made \subseteq Ids
    BY <1>4, AmbientAssumption DEF AmbType, Made, Ids, Sessions
  <2>2. (IF s = 0 THEN conn ELSE calls[s].conn) \in Conns
    <3>1. CASE s = 0
      BY <3>1 DEF Conns
    <3>2. CASE s # 0
      <4>1. calls[s] \in CallType
        BY <1>4, <3>2 DEF AmbType, Sessions, Made
      <4>2. QED
        BY <3>2, <4>1 DEF CallType
    <3>3. QED
      BY <3>1, <3>2
  <2>3. {j \in Around(i) : calls[j].mode = "new" /\ over[j] = "open" /\ calls[j].conn = ConnOf[m]} \in SUBSET Ids
    BY <1>1
  <2>4. QED
    BY <2>1, <2>2, <2>3 DEF Did, WorkType
(* On its own only when no frame fits, and in no session of another manager. *)
<1>7. \/ work.conn = conn
      \/ \E j \in Around(i) : calls[j].form.by = "em" /\ calls[j].form.mgr = m
                              /\ calls[j].form.conn = work.conn
  <2>1. CASE s = 0
    BY <1>5, <2>1
  <2>2. CASE s # 0
    <3>1. PICK k \in 1 .. Len(frames) : s = frames[k].session /\ Fits(frames[k], conn, m)
      BY <1>3, <2>2
    <3>2. frames[k].mgr # None => Redirects(frames[k], i)
      BY <1>2 DEF GoodFrame
    <3>3. QED
      BY <1>5, <2>2, <3>1, <3>2 DEF Fits, Redirects
  <2>3. QED
    BY <2>1, <2>2
<1>8. ASSUME NEW j \in Around(i), calls[j].mode = "new", calls[j].conn = conn
      PROVE  s # 0 /\ \E k \in Around(i) : j \in Around(k) /\ s = calls[k].session
  <2>1. PICK p \in 1 .. Len(frames) :
          frames[p].session = j /\ \A x \in 1 .. p : FrameIn(frames[x], i, j)
    BY <1>2, <1>8 DEF FrameOf
  <2>2. Fits(frames[p], conn, m)
    BY <1>8, <2>1 DEF Fits
  <2>3. PICK k \in 1 .. Len(frames) :
          s = frames[k].session /\ \A l \in 1 .. Len(frames) : Fits(frames[l], conn, m) => k <= l
    BY <1>3, <2>2
  <2>4. k \in 1 .. p
    BY <2>2, <2>3
  <2>5. FrameIn(frames[k], i, j)
    BY <2>1, <2>4
  <2>6. s # 0
    BY <1>1, <2>3
  <2>7. QED
    BY <2>3, <2>5, <2>6 DEF FrameIn
<1>9. s = 0 => work.missed = {}
  BY <1>5, <1>8
<1>10. ASSUME NEW j \in Around(i), calls[j].fresh, calls[j].conn = conn,
              \A k \in {c \in Around(i) : j \in Around(c)} : j \in Around(calls[k].session)
       PROVE  s # 0 /\ j \in Around(s)
  <2>1. calls[j].mode = "new"
    BY <1>10 DEF SessionInv, ParentInv, Made
  <2>2. QED
    BY <1>8, <1>10, <2>1
<1>11. Landed(work)
  BY <1>5, <1>7, <1>9, <1>10 DEF Landed
<1>12. QED
  BY <1>4, <1>5, <1>6, <1>11

(* A write adds to what is known of the calls nothing but itself. *)
LEMMA WriteKeepsCalls ==
    ASSUME CallsInv, UNCHANGED <<calls, at, over>>, log' \in [Ids -> Seq(Entries)],
           NEW work \in WorkType, works' = Append(works, work), Len(works) < MaxWorks,
           work.call \in Made, work.session \in Sessions \cup {0}
    PROVE  /\ CallsInv' /\ CallsLast
           /\ Len(works) \in Nat /\ Len(works') = Len(works) + 1
           /\ works'[Len(works) + 1] = work
           /\ \A w \in 1 .. Len(works) : works'[w] = works[w]
<1> USE DEF CallsInv
<1>1. /\ ParentInv' /\ SessionInv' /\ FrameInv' /\ Made' = Made /\ Sessions' = Sessions
      /\ \A c : Around(c)' = Around(c) /\ (Nested(c)' <=> Nested(c))
  BY CallsStay
<1>2. RunInv'
  BY <1>1 DEF RunInv
<1>3. works \in Seq(WorkType) /\ Len(works) \in Nat
  BY DEF AmbType
<1>4. /\ works' \in Seq(WorkType) /\ Len(works') = Len(works) + 1
      /\ works'[Len(works) + 1] = work
      /\ \A w \in 1 .. Len(works) : works'[w] = works[w]
  <2> HIDE DEF WorkType
  <2>1. QED
    BY <1>3
<1>5. ASSUME NEW w \in 1 .. Len(works')
      PROVE  works'[w].call \in Made /\ works'[w].session \in Sessions \cup {0}
  <2>1. CASE w = Len(works) + 1
    BY <1>4, <2>1
  <2>2. CASE w # Len(works) + 1
    <3>1. w \in 1 .. Len(works)
      BY <1>3, <1>4, <2>2
    <3>2. QED
      BY <1>4, <3>1 DEF AmbType
  <2>3. QED
    BY <2>1, <2>2
<1>6. Len(works') <= MaxWorks
  BY <1>3, <1>4, AmbientAssumption
<1>7. AmbType'
  BY <1>1, <1>4, <1>5, <1>6 DEF AmbType
<1>8. CallsLast
  BY <1>1 DEF CallsLast
<1>9. QED
  BY <1>1, <1>2, <1>3, <1>4, <1>7, <1>8

(* The logs after a write, which joins session s or none. *)
LEMMA WriteKeepsLogs ==
    ASSUME CallsInv, LogInv, UNCHANGED <<calls, at, over>>, log' \in [Ids -> Seq(Entries)],
           NEW work \in WorkType, works' = Append(works, work), Len(works) < MaxWorks,
           work.call \in Made, NEW s \in Sessions \cup {0}, work.session = s,
           s = 0 => log' = log,
           s # 0 => /\ Alone(work.call, s)
                    /\ log' = [log EXCEPT ![s] = Append(log[s], Write(Len(works) + 1))]
    PROVE  LogInv'
<1> USE DEF CallsInv
<1>. PICK nw : nw = Len(works) + 1
  OBVIOUS
<1>1. /\ CallsLast /\ Len(works) \in Nat /\ Len(works') = nw
      /\ works'[nw] = work
      /\ \A w \in 1 .. Len(works) : works'[w] = works[w]
  BY WriteKeepsCalls
<1>2. Made' = Made /\ \A c : Around(c)' = Around(c) /\ (Nested(c)' <=> Nested(c))
  BY CallsStay
<1>3. 1 .. nw = 1 .. Len(works) \cup {nw} /\ nw \notin 1 .. Len(works) /\ nw # 0
  BY <1>1
<1> SUFFICES ASSUME NEW t \in Ids PROVE LogOf(t)'
  BY DEF LogInv, Ids
<1>4. LogOf(t) /\ MadeBySomeone(t) /\ log[t] \in Seq(Entries)
  BY DEF LogInv, LogOf, AmbType
(* No entry of a log is one for this write. *)
<1>5. ASSUME NEW k \in 1 .. Len(log[t])
      PROVE  log[t][k] # Write(nw)
  <2>1. \/ \E w \in 1 .. Len(works) : log[t][k] = Write(w)
        \/ \E a : log[t][k] = Mark(a)
    BY <1>4, MakerFacts
  <2>2. QED
    BY <1>3, <2>1, EntriesApart
<1>6. SameMakers(t)
  <2>1. ASSUME NEW k \in 1 .. Len(log[t]), NEW c, NEW e, e = log[t][k]
        PROVE  Makes(c, t, e)' <=> Makes(c, t, e)
    <3>1. (\E w \in 1 .. Len(works') : e = Write(w) /\ works'[w].session = t /\ works'[w].call = c)
          <=> \E w \in 1 .. Len(works) : e = Write(w) /\ works[w].session = t /\ works[w].call = c
      BY <1>1, <1>3, <1>5, <2>1
    <3>2. QED
      BY <1>2, <3>1 DEF Makes
  <2>2. QED
    BY <1>2, <2>1 DEF SameMakers
<1>7. CASE s = 0 \/ t # s
  <2>1. log'[t] = log[t]
    BY <1>7 DEF AmbType
  <2>2. QED
    BY <1>1, <1>2, <1>4, <1>6, <2>1, LogStays
<1>8. CASE s # 0 /\ t = s
  <2>. PICK e : e = Write(nw)
    OBVIOUS
  <2>. PICK c : c = work.call
    OBVIOUS
  <2>1. log'[t] = Append(log[t], e) /\ Alone(c, t)
    BY <1>8 DEF AmbType
  <2>2. ASSUME NEW i \in Made'
        PROVE  Makes(i, t, e)' <=> i = c
    <3>1. \A a : e # Mark(a)
      BY <1>3, EntriesApart
    <3>2. \A w \in 1 .. Len(works') : e = Write(w) <=> w = nw
      BY EntriesApart
    <3>3. nw \in 1 .. Len(works') /\ works'[nw].session = t /\ works'[nw].call = c
      BY <1>1, <1>3, <1>8
    <3>4. QED
      BY <3>1, <3>2, <3>3 DEF Makes
  <2>3. \A k \in 1 .. Len(log[t]) : log[t][k] # e
    BY <1>5
  <2>4. \A n \in Made : Nested(n) => e # Mark(calls[n].name)
    BY <1>3, EntriesApart
  <2>5. \A n \in Made : Nested(n) /\ calls[n].session = t /\ at[n] = "running" => n \in Around(c)'
    BY <1>2, <2>1 DEF Alone, Nested
  <2>6. /\ c \in Made' /\ CallsLast
        /\ \A n \in Made' \ Made : Nested(n)' /\ calls'[n].session = t =>
              n = c /\ e = Mark(calls'[n].name) /\ \A i \in Made : n \notin Around(i)
    BY <1>1, <1>2
  <2>7. log'[t] = Append(log[t], e) /\ LogOf(t) /\ log[t] \in Seq(Entries)
    BY <1>4, <2>1
  <2>8. \A i \in Made' : Makes(i, t, e)' <=> i = c
    BY <2>2
  <2>9. QED
    BY <1>6, <2>3, <2>4, <2>5, <2>6, <2>7, <2>8, LogAppended, ZenonT(60)
<1>9. QED
  BY <1>7, <1>8

(* The writes made so far, and this one, are where they belong. *)
LEMMA WriteKeepsWrites ==
    ASSUME CallsInv, KeptInv, UNCHANGED <<calls, at, over>>, log' \in [Ids -> Seq(Entries)],
           NEW work \in WorkType, works' = Append(works, work), Len(works) < MaxWorks,
           work.call \in Made, at[work.call] = "running",
           NEW s \in Sessions \cup {0}, work.session = s,
           s = 0 => log' = log,
           s # 0 => log' = [log EXCEPT ![s] = Append(log[s], Write(Len(works) + 1))]
    PROVE  KeptInv'
<1> USE DEF CallsInv
<1>. PICK nw : nw = Len(works) + 1
  OBVIOUS
<1>. PICK e : e = Write(nw)
  OBVIOUS
<1>1. /\ Len(works) \in Nat /\ Len(works') = nw
      /\ works'[nw] = work
      /\ \A w \in 1 .. Len(works) : works'[w] = works[w]
  BY WriteKeepsCalls
<1>2. \A c : Around(c)' = Around(c)
  BY CallsStay
<1>3. Made \subseteq Ids /\ Sessions \subseteq Made
  BY AmbientAssumption DEF AmbType, Made, Ids, Sessions
<1>4. ASSUME s # 0
      PROVE  /\ Len(log[s]) \in Nat /\ Len(log'[s]) = Len(log[s]) + 1
             /\ log'[s][Len(log[s]) + 1] = e
             /\ \A k \in 1 .. Len(log[s]) : log'[s][k] = log[s][k]
  <2>1. s \in Ids /\ log \in [Ids -> Seq(Entries)]
    BY <1>3, <1>4 DEF AmbType
  <2>2. log[s] \in Seq(Entries) /\ log'[s] = Append(log[s], e)
    BY <1>4, <2>1
  <2>3. QED
    BY <2>2
<1>5. e.work = nw
  BY EntriesApart
<1>6. ASSUME NEW w \in 1 .. Len(works), works[w].session # 0
      PROVE  Kept(w)' <=> ~Thrown(w)'
  <2>1. works'[w] = works[w] /\ w # nw
    BY <1>1
  <2>2. Thrown(w)' <=> Thrown(w)
    BY <1>2, <2>1 DEF Thrown
  <2>. PICK t : t = works[w].session
    OBVIOUS
  <2>3. t \in Ids
    BY <1>3, <1>6 DEF AmbType
  <2>4. (\E k \in 1 .. Len(log'[t]) : log'[t][k].work = w) <=> \E k \in 1 .. Len(log[t]) : log[t][k].work = w
    <3>1. CASE s = 0 \/ t # s
      <4>1. log'[t] = log[t]
        BY <2>3, <3>1 DEF AmbType
      <4>2. QED
        BY <4>1
    <3>2. CASE s # 0 /\ t = s
      <4>1. 1 .. Len(log'[t]) = 1 .. Len(log[t]) \cup {Len(log[t]) + 1}
        BY <1>4, <3>2
      <4>2. log'[t][Len(log[t]) + 1].work # w
        BY <1>4, <1>5, <2>1, <3>2
      <4>3. \A k \in 1 .. Len(log[t]) : log'[t][k] = log[t][k]
        BY <1>4, <3>2
      <4>4. QED
        BY <4>1, <4>2, <4>3
    <3>3. QED
      BY <3>1, <3>2
  <2>5. Kept(w)' <=> Kept(w)
    BY <2>1, <2>4 DEF Kept
  <2>6. Kept(w) <=> ~Thrown(w)
    BY <1>6 DEF KeptInv
  <2>7. QED
    BY <2>2, <2>5, <2>6
<1>7. ASSUME s # 0
      PROVE  Kept(nw)' /\ ~Thrown(nw)'
  <2>1. Len(log[s]) + 1 \in 1 .. Len(log'[s]) /\ log'[s][Len(log[s]) + 1].work = nw
    BY <1>4, <1>5, <1>7
  <2>2. Kept(nw)'
    BY <1>1, <2>1 DEF Kept
  <2>. PICK c : c = work.call
    OBVIOUS
  <2>3. ASSUME NEW n \in Around(c), calls[n].mode = "nested"
        PROVE  at[n] # "failed"
    <3>1. n \in Made
      BY DEF ParentInv, Made
    <3>2. calls[n].parent # 0
      BY <2>3, <3>1 DEF SessionInv, Nested
    <3>3. QED
      BY <3>2 DEF RunInv
  <2>4. ~Thrown(nw)'
    BY <1>1, <1>2, <2>3 DEF Thrown
  <2>5. QED
    BY <2>2, <2>4
<1>8. ASSUME NEW w \in 1 .. Len(works'), works'[w].session # 0
      PROVE  Kept(w)' <=> ~Thrown(w)'
  <2>1. CASE w = nw
    BY <1>1, <1>7, <1>8, <2>1
  <2>2. CASE w # nw
    <3>1. w \in 1 .. Len(works)
      BY <1>1, <2>2
    <3>2. QED
      BY <1>1, <1>6, <1>8, <3>1
  <2>3. QED
    BY <2>1, <2>2
<1>9. QED
  BY <1>8 DEF KeptInv

(* A write, in a session or on its own. *)
LEMMA WorkKeeps ==
    ASSUME AmbInv, NEW i \in 0 .. Len(calls), NEW m \in Managers, WorkJoins(i, m) \/ WorkAlone(i, m)
    PROVE  AmbInv'
<1>1. CallsInv /\ LogInv /\ KeptInv /\ LandInv /\ AmbType
  BY DEF AmbInv, CallsInv
<1>. PICK s : s = AmbientFor(FramesOf(i), ConnOf[m], m)
  OBVIOUS
<1>. PICK work : work = Did(i, m, s)
  OBVIOUS
<1>2. /\ UNCHANGED <<calls, at, over>> /\ works' = Append(works, work) /\ Len(works) < MaxWorks
      /\ i \in Running
      /\ s = 0 => i # 0 /\ log' = log
      /\ s # 0 => Alone(i, s) /\ log' = [log EXCEPT ![s] = Append(log[s], Write(Len(works) + 1))]
  <2>1. CASE WorkJoins(i, m)
    BY <2>1 DEF WorkJoins
  <2>2. CASE WorkAlone(i, m)
    BY <2>2 DEF WorkAlone
  <2>3. QED
    BY <2>1, <2>2
<1>3. i \in Made
  <2>1. CASE s = 0
    BY <1>2, <2>1 DEF Made
  <2>2. CASE s # 0
    <3>1. FramesOf(i) # <<>>
      <4>1. CASE FramesOf(i) = <<>>
        <5>. PICK none : none = FramesOf(i)
          OBVIOUS
        <5>1. none \in Seq(Frames) /\ Len(none) = 0
          BY <4>1
        <5>. PICK conn : conn = ConnOf[m]
          OBVIOUS
        <5>2. AmbientFor(none, conn, m) = 0
          <6>1. 1 .. Len(none) = {}
            BY <5>1
          <6>2. QED
            BY <5>1, <6>1, SessionFound
        <5>3. QED
          BY <2>2, <5>2
      <4>2. QED
        BY <4>1
    <3>2. i \in Made \cup {0}
      BY DEF Made
    <3>3. QED
      BY <1>1, <3>1, <3>2, FramesTyped
  <2>3. QED
    BY <2>1, <2>2
<1>4. /\ s \in Sessions \cup {0} /\ work \in WorkType
      /\ work.call = i /\ work.session = s /\ Landed(work)
  BY <1>1, <1>3, WriteLands
<1>5. at[i] = "running"
  BY <1>2, <1>3 DEF Running, Made
<1>6. log' \in [Ids -> Seq(Entries)]
  <2>1. log \in [Ids -> Seq(Entries)]
    BY <1>1 DEF AmbType
  <2>2. CASE s = 0
    BY <1>2, <2>1, <2>2
  <2>3. CASE s # 0
    <3>1. s \in Ids
      BY <1>1, <1>4, <2>3, AmbientAssumption DEF AmbType, Sessions, Made, Ids
    <3>. PICK e : e = Write(Len(works) + 1)
      OBVIOUS
    <3>2. e \in Entries
      <4>1. Len(works) + 1 \in 0 .. MaxWorks
        BY <1>1, <1>2, AmbientAssumption DEF AmbType
      <4>2. QED
        BY <4>1 DEF Write, Entries, Names
    <3>3. Append(log[s], e) \in Seq(Entries)
      <4> HIDE DEF Entries
      <4>1. QED
        BY <2>1, <3>1, <3>2
    <3>4. QED
      BY <1>2, <2>1, <2>3, <3>3
  <2>4. QED
    BY <2>2, <2>3
<1>7. /\ CallsInv' /\ CallsLast /\ Len(works) \in Nat /\ Len(works') = Len(works) + 1
      /\ works'[Len(works) + 1] = work
      /\ \A w \in 1 .. Len(works) : works'[w] = works[w]
  BY <1>1, <1>2, <1>3, <1>4, <1>6, WriteKeepsCalls
<1>8. LogInv'
  BY <1>1, <1>2, <1>3, <1>4, <1>6, WriteKeepsLogs
<1>9. KeptInv'
  BY <1>1, <1>2, <1>3, <1>4, <1>5, <1>6, WriteKeepsWrites
<1>10. ASSUME NEW old, old.call \in Made, old.session \in Made \cup {0}, Landed(old)
       PROVE  Landed(old)'
  BY <1>1, <1>7, <1>10, LandStays
<1>11. ASSUME NEW w \in 1 .. Len(works')
       PROVE  Landed(works[w])'
  <2>. PICK new : new = works'[w]
    OBVIOUS
  <2>1. CASE w = Len(works) + 1
    <3>1. new = work
      BY <1>7, <2>1
    <3>2. QED
      BY <1>3, <1>4, <1>10, <3>1 DEF Sessions
  <2>2. CASE w # Len(works) + 1
    <3>1. w \in 1 .. Len(works) /\ new = works[w]
      BY <1>7, <2>2
    <3>2. new.call \in Made /\ new.session \in Made \cup {0}
      BY <1>1, <3>1 DEF AmbType, Sessions
    <3>3. Landed(new)
      BY <1>1, <3>1 DEF LandInv
    <3>4. Landed(new)'
      BY <1>10, <3>2, <3>3
    <3>5. QED
      BY <3>4
  <2>3. QED
    BY <2>1, <2>2
<1>12. LandInv'
  BY <1>11 DEF LandInv
<1>13. QED
  BY <1>7, <1>8, <1>9, <1>12 DEF AmbInv

-----------------------------------------------------------------------------
(* The invariant *)

(* Before the first call there is nothing to break the invariant. *)
LEMMA AmbStarts == Init => AmbInv
<1> SUFFICES ASSUME Init PROVE AmbInv
  OBVIOUS
<1>1. /\ calls = <<>> /\ at = <<>> /\ works = <<>>
      /\ log = [s \in Ids |-> <<>>] /\ over = [s \in Ids |-> "open"]
  BY DEF Init
<1>2. Len(calls) = 0 /\ Len(works) = 0 /\ Made = {}
  BY <1>1 DEF Made
<1>3. calls \in Seq(CallType) /\ works \in Seq(WorkType) /\ at \in Seq({"running", "ok", "failed", "late"})
  BY <1>1
<1>4. log \in [Ids -> Seq(Entries)] /\ over \in [Ids -> {"open", "committed", "rolledBack"}]
  <2>1. <<>> \in Seq(Entries)
    OBVIOUS
  <2>2. QED
    BY <1>1, <2>1
<1>5. AmbType
  BY <1>1, <1>2, <1>3, <1>4, AmbientAssumption DEF AmbType
<1>6. CallsInv
  BY <1>2, <1>5 DEF CallsInv, ParentInv, SessionInv, FrameInv, RunInv
<1>7. LogInv
  <2> SUFFICES ASSUME NEW s \in Ids PROVE LogOf(s)
    BY DEF LogInv
  <2>1. Len(log[s]) = 0
    BY <1>1
  <2>2. QED
    BY <1>2, <2>1 DEF LogOf, MadeBySomeone
<1>8. KeptInv /\ LandInv
  BY <1>2 DEF KeptInv, LandInv
<1>9. QED
  BY <1>6, <1>7, <1>8 DEF AmbInv

(* Every action keeps the invariant. *)
LEMMA AmbKept == AmbInv /\ [Next]_vars => AmbInv'
<1> SUFFICES ASSUME AmbInv, [Next]_vars PROVE AmbInv'
  OBVIOUS
<1>1. ASSUME NEW form \in Forms, NEW prop \in Propagations, NEW i \in 0 .. Len(calls),
             EnterNew(form, prop, i) \/ EnterNested(form, prop, i) \/ EnterJoined(form, prop, i)
      PROVE  AmbInv'
  BY <1>1, EnterKeeps
<1>2. ASSUME NEW i \in Made, Return(i, "ok") \/ Return(i, "failed")
      PROVE  AmbInv'
  BY <1>2, ReturnKeeps
<1>3. ASSUME NEW i \in 0 .. Len(calls), NEW m \in Managers, WorkJoins(i, m) \/ WorkAlone(i, m)
      PROVE  AmbInv'
  BY <1>3, WorkKeeps
<1>4. CASE UNCHANGED vars
  <2>1. UNCHANGED <<calls, at, log, over, works>>
    BY <1>4 DEF vars
  <2>2. CallsInv /\ LogInv /\ KeptInv /\ LandInv
    BY DEF AmbInv
  <2>3. /\ ParentInv' /\ SessionInv' /\ FrameInv' /\ Made' = Made /\ Sessions' = Sessions
        /\ \A c : Around(c)' = Around(c) /\ (Nested(c)' <=> Nested(c))
    BY <2>1, <2>2, CallsStay
  <2>4. CallsInv'
    BY <2>1, <2>2, <2>3 DEF CallsInv, AmbType, RunInv
  <2>5. LogInv'
    <3>1. \A c, s, e : Makes(c, s, e)' <=> Makes(c, s, e)
      BY <2>1, <2>3 DEF Makes
    <3>2. CallsLast /\ \A s : SameMakers(s)
      BY <2>1, <2>3, <3>1 DEF CallsLast, SameMakers
    <3>3. ASSUME NEW s \in Ids
          PROVE  LogOf(s)'
      <4>1. LogOf(s)
        BY <2>2 DEF LogInv
      <4>2. QED
        BY <2>1, <2>3, <3>2, <4>1, LogStays
    <3>4. QED
      BY <3>3 DEF LogInv, Ids
  <2>6. KeptInv'
    BY <2>1, <2>2, <2>3 DEF KeptInv, Kept, Thrown
  <2>7. LandInv'
    <3>1. CallsLast
      BY <2>1, <2>3 DEF CallsLast
    <3>2. QED
      BY <2>1, <2>2, <3>1, WritesStay
  <2>8. QED
    BY <2>4, <2>5, <2>6, <2>7 DEF AmbInv
<1>5. QED
  BY <1>1, <1>2, <1>3, <1>4 DEF Next

(* So it holds in every state that can be reached. *)
LEMMA AmbAlways == Spec => []AmbInv
BY AmbStarts, AmbKept, PTL DEF Spec

(* The types that the run checks are part of the invariant. *)
LEMMA AmbTyped == AmbInv => TypeOK
<1> SUFFICES ASSUME AmbInv PROVE TypeOK
  OBVIOUS
<1>1. AmbType /\ ParentInv /\ SessionInv
  BY DEF AmbInv, CallsInv
<1>2. ASSUME NEW i \in Made
      PROVE  /\ calls[i].form \in Forms /\ calls[i].fresh \in BOOLEAN
             /\ calls[i].parent \in 0 .. i - 1 /\ calls[i].mode \in {"new", "nested", "joined"}
             /\ calls[i].session \in Sessions /\ calls[i].conn = calls[calls[i].session].conn
             /\ at[i] \in {"running", "ok", "failed", "late"}
  <2>1. calls[i] \in CallType /\ at[i] \in {"running", "ok", "failed", "late"}
    BY <1>1 DEF AmbType, Made
  <2>2. calls[i].parent \in 0 .. MaxCalls /\ calls[i].parent < i /\ i \in Nat
    BY <1>1, <2>1 DEF CallType, ParentInv, Made
  <2>3. calls[i].session \in 1 .. i /\ i \in 1 .. Len(calls) /\ Len(calls) \in Nat
    BY <1>1 DEF SessionInv, Made, AmbType
  <2>4. calls[i].session \in Sessions /\ calls[i].conn = calls[calls[i].session].conn
    BY <1>1, <2>3 DEF SessionInv, Sessions, Made
  <2>5. calls[i].parent \in 0 .. i - 1
    BY <2>2, AmbientAssumption
  <2>6. QED
    BY <2>1, <2>4, <2>5 DEF CallType
<1>3. \A w \in 1 .. Len(works) : works[w].session \in Sessions \cup {0} /\ works[w].conn \in Conns
  <2> SUFFICES ASSUME NEW w \in 1 .. Len(works)
               PROVE  works[w].session \in Sessions \cup {0} /\ works[w].conn \in Conns
    OBVIOUS
  <2>1. works[w] \in WorkType /\ works[w].session \in Sessions \cup {0}
    BY <1>1 DEF AmbType
  <2>2. QED
    BY <2>1 DEF WorkType
<1>4. \A s \in Ids : over[s] \in {"open", "committed", "rolledBack"}
  BY <1>1 DEF AmbType
<1>5. QED
  BY <1>1, <1>2, <1>3, <1>4 DEF TypeOK, AmbType

-----------------------------------------------------------------------------
(* A NESTED call that throws undoes what was written in it, on its session, *)
(* and nothing else: whatever calls nest, run next to each other or return  *)
(* in whatever order, and however savepoints are numbered by the two ways   *)
(* a call can be made.                                                      *)
THEOREM NestedUndoes == Spec => []NestedUndoesItsOwn
<1>1. AmbInv => NestedUndoesItsOwn
  BY AmbTyped DEF AmbInv, KeptInv, Thrown, NestedUndoesItsOwn
<1>2. QED
  BY <1>1, AmbAlways, PTL

(* A write lands where the code around it asked: on the connection of its   *)
(* manager unless a call of that manager names another, never on its own    *)
(* next to an open transaction of that connection, and inside REQUIRES_NEW  *)
(* never in the transaction from outside.                                   *)
THEOREM WorkLands == Spec => []WorkLandsWhereAsked
<1>1. AmbInv => WorkLandsWhereAsked
  BY DEF AmbInv, LandInv, Landed, WorkLandsWhereAsked
<1>2. QED
  BY <1>1, AmbAlways, PTL
=============================================================================
