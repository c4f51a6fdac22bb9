----------------------------- MODULE ReadProofs -----------------------------
(***************************************************************************)
(* Proofs about the two ways a read outlives one statement: Paging, for    *)
(* every set of keys and values, every page size, direction and starting   *)
(* cursor, and any number of changes by others; QueryCache, for any        *)
(* tables, tags, queries, readers and writers and any capacity of the      *)
(* store.                                                                  *)
(*                                                                         *)
(* Paging. The predicate of a page and its ORDER BY are written apart in   *)
(* the code. PredicateIsOrder shows that they agree; WalkInv follows the   *)
(* caller from page to page with it. So are the LIMIT and OFFSET of find() *)
(* and of streamBatch(): BoundsAgree, and StreamInv from batch to batch.   *)
(*                                                                         *)
(* QueryCache. What a caller was told is in place only moves on in a step  *)
(* that drops the tags it moves for, and a dropped tag takes along the     *)
(* entries under it and the reads under way that would store one. So the   *)
(* rows of every entry, and of every read that may still store its rows,   *)
(* are bounded from below by what callers were told.                       *)
(***************************************************************************)
EXTENDS Paging, QueryCache, ListsProofs, FiniteSetTheorems, SequenceTheorems,
        WellFoundedInduction, TLAPS

Dirs == {"ASC", "DESC"}

(* Order values survive the driver and the cursor unchanged. *)
Exact == \A v \in Vals : Carried[v] = v

-----------------------------------------------------------------------------
(* A finite set has an element nothing of it lies below. *)
LEMMA LeastExists ==
    ASSUME NEW S, IsFiniteSet(S), S # {}, NEW R,
           \A x, y, z \in S : <<x, y>> \in R /\ <<y, z>> \in R => <<x, z>> \in R,
           \A x \in S : <<x, x>> \notin R
    PROVE  \E x \in S : \A y \in S : <<y, x>> \notin R
<1> DEFINE Below(x) == {y \in S : <<y, x>> \in R}
           T == {Below(x) : x \in S}
<1>1. T \subseteq FiniteSubsetsOf(S) /\ T # {}
  <2>1. \A x \in S : Below(x) \subseteq S /\ IsFiniteSet(Below(x))
    BY FS_Subset
  <2> HIDE DEF Below
  <2>2. QED
    BY <2>1 DEF FiniteSubsetsOf
<1>2. PICK B \in T : \A C \in T : <<C, B>> \notin StrictSubsetOrdering(S)
  <2> HIDE DEF T
  <2>1. QED
    BY <1>1, FS_StrictSubsetOrderingWellFounded, WFMin
<1>3. PICK x \in S : B = Below(x)
  OBVIOUS
<1>4. ASSUME NEW y \in S, <<y, x>> \in R
      PROVE  FALSE
  <2>1. Below(y) \subseteq Below(x)
    BY <1>4
  <2>2. y \in Below(x) /\ y \notin Below(y)
    BY <1>4
  <2>3. <<Below(y), Below(x)>> \in StrictSubsetOrdering(S)
    <3>1. Below(y) \in SUBSET S /\ Below(x) \in SUBSET S /\ Below(y) # Below(x)
      BY <2>2
    <3> HIDE DEF Below
    <3>2. QED
      BY <2>1, <3>1 DEF StrictSubsetOrdering
  <2>4. Below(y) \in T
    OBVIOUS
  <2>5. QED
    BY <1>2, <1>3, <2>3, <2>4
<1>5. QED
  BY <1>4

-----------------------------------------------------------------------------
(* Lexicographic comparison is a strict total order on keys of one length. *)

(* In either direction the integers are strictly and totally ordered. *)
LEMMA PrecedesFacts ==
    ASSUME NEW d \in Dirs, NEW a \in Int, NEW b \in Int, NEW c \in Int
    PROVE  /\ ~Precedes(d, a, a)
           /\ Precedes(d, a, b) \/ Precedes(d, b, a) \/ a = b
           /\ Precedes(d, a, b) => ~Precedes(d, b, a) /\ a # b
           /\ Precedes(d, a, b) /\ Precedes(d, b, c) => Precedes(d, a, c)
BY DEF Precedes, Dirs

(* A key does not come before itself. *)
LEMMA LexIrreflexive ==
    ASSUME NEW d \in Dirs, NEW a \in Seq(Int)
    PROVE  ~Lex(d, a, a)
BY PrecedesFacts DEF Lex

(* Lex is transitive on keys of one length. *)
LEMMA LexTransitive ==
    ASSUME NEW d \in Dirs, NEW a \in Seq(Int), NEW b \in Seq(Int), NEW c \in Seq(Int),
           Len(a) = Len(b), Len(b) = Len(c), Lex(d, a, b), Lex(d, b, c)
    PROVE  Lex(d, a, c)
<1>1. PICK i \in 1 .. Len(a) : Precedes(d, a[i], b[i]) /\ \A j \in 1 .. i - 1 : a[j] = b[j]
  BY DEF Lex
<1>2. PICK k \in 1 .. Len(a) : Precedes(d, b[k], c[k]) /\ \A j \in 1 .. k - 1 : b[j] = c[j]
  BY DEF Lex
<1> DEFINE m == IF i <= k THEN i ELSE k
<1>3. m \in 1 .. Len(a) /\ a[m] \in Int /\ b[m] \in Int /\ c[m] \in Int
  BY SMTT(30)
<1>4. \A j \in 1 .. m - 1 : a[j] = c[j]
  BY <1>1, <1>2, SMTT(30)
<1>5. Precedes(d, a[m], c[m])
  <2>1. CASE i < k
    BY <2>1, <1>1, <1>2, SMTT(30)
  <2>2. CASE i = k
    BY <2>2, <1>1, <1>2, <1>3, PrecedesFacts
  <2>3. CASE k < i
    BY <2>3, <1>1, <1>2
  <2>4. QED
    BY <2>1, <2>2, <2>3
<1>6. QED
  BY <1>3, <1>4, <1>5 DEF Lex

(* Of two different keys of one length one comes first. *)
LEMMA LexTotal ==
    ASSUME NEW d \in Dirs, NEW a \in Seq(Int), NEW b \in Seq(Int), Len(a) = Len(b), a # b
    PROVE  Lex(d, a, b) \/ Lex(d, b, a)
<1> DEFINE Differ == {i \in 1 .. Len(a) : a[i] # b[i]}
           Less == {p \in Int \X Int : p[1] < p[2]}
<1>1. Differ # {}
  BY SeqEqual
<1>2. IsFiniteSet(Differ)
  <2>1. IsFiniteSet(1 .. Len(a))
    BY FS_Interval
  <2>2. Differ \in SUBSET (1 .. Len(a))
    OBVIOUS
  <2>3. QED
    BY <2>1, <2>2, FS_Subset
<1>3. /\ \A x, y, z \in Differ : <<x, y>> \in Less /\ <<y, z>> \in Less => <<x, z>> \in Less
      /\ \A x \in Differ : <<x, x>> \notin Less
  <2>1. ASSUME NEW x \in Int, NEW y \in Int
        PROVE  <<x, y>> \in Less <=> x < y
    OBVIOUS
  <2>2. \A x \in Differ : x \in Int
    OBVIOUS
  <2> HIDE DEF Differ, Less
  <2>3. ASSUME NEW x \in Differ, NEW y \in Differ, NEW z \in Differ,
               <<x, y>> \in Less, <<y, z>> \in Less
        PROVE  <<x, z>> \in Less
    <3>1. x \in Int /\ y \in Int /\ z \in Int
      BY <2>2
    <3>2. x < y /\ y < z
      BY <2>1, <2>3, <3>1
    <3>3. x < z
      BY <3>1, <3>2
    <3>4. QED
      BY <2>1, <3>1, <3>3
  <2>4. ASSUME NEW x \in Differ
        PROVE  <<x, x>> \notin Less
    <3>1. x \in Int /\ ~(x < x)
      BY <2>2
    <3>2. QED
      BY <2>1, <3>1
  <2>5. QED
    BY <2>3, <2>4
<1>4. PICK i \in Differ : \A j \in Differ : <<j, i>> \notin Less
  <2> HIDE DEF Differ, Less
  <2>1. QED
    BY <1>1, <1>2, <1>3, LeastExists
<1>5. ASSUME NEW j \in 1 .. i - 1
      PROVE  a[j] = b[j]
  <2>1. j \in 1 .. Len(a) /\ j \in Int /\ i \in Int /\ j < i
    OBVIOUS
  <2>2. <<j, i>> \in Less
    BY <2>1
  <2>3. QED
    BY <1>4, <2>1, <2>2
<1>6. Precedes(d, a[i], b[i]) \/ Precedes(d, b[i], a[i])
  BY PrecedesFacts
<1>7. QED
  BY <1>5, <1>6 DEF Lex

(* Two keys in front decide before the others do. *)
LEMMA LexPrefixed ==
    ASSUME NEW d \in Dirs, NEW a1 \in Int, NEW a2 \in Int, NEW b1 \in Int, NEW b2 \in Int,
           NEW a \in Seq(Int), NEW b \in Seq(Int), Len(a) = Len(b)
    PROVE  Lex(d, <<a1, a2>> \o a, <<b1, b2>> \o b)
              <=> \/ Precedes(d, a1, b1)
                  \/ a1 = b1 /\ Precedes(d, a2, b2)
                  \/ a1 = b1 /\ a2 = b2 /\ Lex(d, a, b)
<1> DEFINE x == <<a1, a2>> \o a
           y == <<b1, b2>> \o b
<1>1. /\ Len(x) = Len(a) + 2 /\ Len(a) \in Nat
      /\ x[1] = a1 /\ x[2] = a2 /\ y[1] = b1 /\ y[2] = b2
      /\ \A i \in 1 .. Len(a) : x[i + 2] = a[i] /\ y[i + 2] = b[i]
  <2>1. <<a1, a2>> \in Seq(Int) /\ Len(<<a1, a2>>) = 2 /\ <<b1, b2>> \in Seq(Int) /\ Len(<<b1, b2>>) = 2
    OBVIOUS
  <2>2. /\ Len(x) = 2 + Len(a)
        /\ \A i \in 1 .. 2 + Len(a) : x[i] = IF i <= 2 THEN <<a1, a2>>[i] ELSE a[i - 2]
    BY <2>1, ConcatProperties
  <2>3. \A i \in 1 .. 2 + Len(b) : y[i] = IF i <= 2 THEN <<b1, b2>>[i] ELSE b[i - 2]
    BY <2>1, ConcatProperties
  <2>4. Len(a) \in Nat /\ Len(b) = Len(a)
    OBVIOUS
  <2> HIDE DEF x, y
  <2>5. Len(x) = Len(a) + 2
    BY <2>2, <2>4
  <2>6. x[1] = a1 /\ x[2] = a2 /\ y[1] = b1 /\ y[2] = b2
    <3>1. 1 \in 1 .. 2 + Len(a) /\ 2 \in 1 .. 2 + Len(a)
      BY <2>4
    <3>2. QED
      BY <2>2, <2>3, <2>4, <3>1
  <2>7. ASSUME NEW i \in 1 .. Len(a)
        PROVE  x[i + 2] = a[i] /\ y[i + 2] = b[i]
    <3>1. PICK k \in 1 .. 2 + Len(a) : k = i + 2
      BY <2>4
    <3>2. ~(k <= 2) /\ k - 2 = i
      BY <3>1
    <3>3. x[k] = a[k - 2]
      BY <2>2, <3>2
    <3>4. y[k] = b[k - 2]
      BY <2>3, <2>4, <3>2
    <3>5. QED
      BY <3>1, <3>2, <3>3, <3>4
  <2>8. QED
    BY <2>4, <2>5, <2>6, <2>7
<1> HIDE DEF x, y
<1>2. ASSUME Lex(d, x, y)
      PROVE  \/ Precedes(d, a1, b1)
             \/ a1 = b1 /\ Precedes(d, a2, b2)
             \/ a1 = b1 /\ a2 = b2 /\ Lex(d, a, b)
  <2>1. PICK i \in 1 .. Len(x) : Precedes(d, x[i], y[i]) /\ \A j \in 1 .. i - 1 : x[j] = y[j]
    BY <1>2 DEF Lex
  <2>2. CASE i = 1
    BY <2>1, <2>2, <1>1
  <2>3. CASE i = 2
    BY <2>1, <2>3, <1>1
  <2>4. CASE i > 2
    <3>1. i - 2 \in 1 .. Len(a) /\ i - 2 + 2 = i /\ 1 \in 1 .. i - 1 /\ 2 \in 1 .. i - 1
      BY <2>4, <1>1
    <3>2. a1 = b1 /\ a2 = b2
      BY <2>1, <3>1, <1>1
    <3>3. x[i] = a[i - 2] /\ y[i] = b[i - 2]
      BY <3>1, <1>1
    <3>4. ASSUME NEW j \in 1 .. (i - 2) - 1
          PROVE  a[j] = b[j]
      <4>1. j \in 1 .. Len(a) /\ j + 2 \in 1 .. i - 1
        BY <3>1, <1>1
      <4>2. QED
        BY <4>1, <2>1, <1>1
    <3>5. QED
      BY <2>1, <3>1, <3>2, <3>3, <3>4 DEF Lex
  <2>5. QED
    BY <1>1, <2>2, <2>3, <2>4
<1>3. ASSUME Precedes(d, a1, b1)
      PROVE  Lex(d, x, y)
  <2>1. 1 \in 1 .. Len(x) /\ \A j \in 1 .. 1 - 1 : x[j] = y[j]
    BY <1>1
  <2>2. QED
    BY <1>1, <1>3, <2>1 DEF Lex
<1>4. ASSUME a1 = b1, Precedes(d, a2, b2)
      PROVE  Lex(d, x, y)
  <2>1. 2 \in 1 .. Len(x) /\ \A j \in 1 .. 2 - 1 : x[j] = y[j]
    BY <1>1, <1>4
  <2>2. QED
    BY <1>1, <1>4, <2>1 DEF Lex
<1>5. ASSUME a1 = b1, a2 = b2, Lex(d, a, b)
      PROVE  Lex(d, x, y)
  <2>1. PICK i \in 1 .. Len(a) : Precedes(d, a[i], b[i]) /\ \A j \in 1 .. i - 1 : a[j] = b[j]
    BY <1>5 DEF Lex
  <2>2. i + 2 \in 1 .. Len(x) /\ Precedes(d, x[i + 2], y[i + 2])
    BY <1>1, <2>1
  <2>3. ASSUME NEW j \in 1 .. (i + 2) - 1
        PROVE  x[j] = y[j]
    <3>1. CASE j = 1 \/ j = 2
      BY <3>1, <1>1, <1>5
    <3>2. CASE j > 2
      <4>1. j - 2 \in 1 .. Len(a) /\ j - 2 \in 1 .. i - 1 /\ j - 2 + 2 = j
        BY <3>2, <1>1
      <4>2. QED
        BY <4>1, <1>1, <2>1
    <3>3. QED
      BY <3>1, <3>2
  <2>4. QED
    BY <2>2, <2>3 DEF Lex
<1>6. QED
  BY <1>2, <1>3, <1>4, <1>5 DEF x, y

-----------------------------------------------------------------------------
(* The order of rows *)

(* The key of a row is a sequence of Width integers; its value may be Null. *)
LEMMA RowFacts ==
    ASSUME NEW r \in TableRows
    PROVE  /\ r.key \in Seq(Int) /\ Len(r.key) = Width /\ r.key \in RowKeys
           /\ r.val = Null \/ (r.val \in Vals /\ r.val \in Int /\ r.val # Null)
BY PagingAssumption DEF TableRows, Values

(* What a walk is. *)
LEMMA WalkFacts ==
    ASSUME NEW w \in Walks
    PROVE  /\ w.dir \in Dirs /\ w.byKey \in BOOLEAN /\ w.size \in Nat \ {0}
           /\ w.kind \in {"page", "pipeline", "stream"}
BY PagingAssumption DEF WalkType, Dirs

Flag(r) == IF r.val = Null THEN 1 ELSE 0
Shown(r) == IF r.val = Null THEN 0 ELSE r.val

(* The rows of a walk are compared by sequences of one length. *)
LEMMA SortKeyFacts ==
    ASSUME NEW w \in Walks, NEW r \in TableRows
    PROVE  /\ SortKey(w, r) \in Seq(Int)
           /\ Len(SortKey(w, r)) = IF w.byKey THEN Width ELSE Width + 2
           /\ Flag(r) \in Int /\ Shown(r) \in Int
<1>1. Flag(r) \in Int /\ Shown(r) \in Int
  BY RowFacts DEF Flag, Shown
<1>2. CASE w.byKey
  BY <1>1, <1>2, RowFacts DEF SortKey
<1>3. CASE ~w.byKey
  <2>1. SortKey(w, r) = <<Flag(r), Shown(r)>> \o r.key
    BY <1>3 DEF SortKey, Flag, Shown
  <2>2. <<Flag(r), Shown(r)>> \in Seq(Int) /\ Len(<<Flag(r), Shown(r)>>) = 2
    BY <1>1
  <2>3. Width \in Nat
    BY PagingAssumption
  <2>4. QED
    BY <1>1, <1>3, <2>1, <2>2, <2>3, RowFacts, ConcatProperties
<1>4. QED
  BY <1>2, <1>3

(* The order of a walk by value: nulls, then values, then keys. *)
LEMMA BeforeUnfolds ==
    ASSUME NEW w \in Walks, NEW r \in TableRows, NEW s \in TableRows
    PROVE  Before(w, r, s) <=>
             IF w.byKey THEN Lex(w.dir, r.key, s.key)
             ELSE \/ Precedes(w.dir, Flag(r), Flag(s))
                  \/ Flag(r) = Flag(s) /\ Precedes(w.dir, Shown(r), Shown(s))
                  \/ Flag(r) = Flag(s) /\ Shown(r) = Shown(s) /\ Lex(w.dir, r.key, s.key)
<1>1. CASE w.byKey
  BY <1>1 DEF Before, SortKey
<1>2. CASE ~w.byKey
  <2>1. /\ SortKey(w, r) = <<Flag(r), Shown(r)>> \o r.key
        /\ SortKey(w, s) = <<Flag(s), Shown(s)>> \o s.key
    BY <1>2 DEF SortKey, Flag, Shown
  <2>2. Lex(w.dir, <<Flag(r), Shown(r)>> \o r.key, <<Flag(s), Shown(s)>> \o s.key)
          <=> \/ Precedes(w.dir, Flag(r), Flag(s))
              \/ Flag(r) = Flag(s) /\ Precedes(w.dir, Shown(r), Shown(s))
              \/ Flag(r) = Flag(s) /\ Shown(r) = Shown(s) /\ Lex(w.dir, r.key, s.key)
    BY WalkFacts, RowFacts, SortKeyFacts, LexPrefixed
  <2>3. QED
    BY <1>2, <2>1, <2>2 DEF Before
<1>3. QED
  BY <1>1, <1>2

(* No row comes before itself. *)
LEMMA BeforeIrreflexive ==
    ASSUME NEW w \in Walks, NEW r \in TableRows
    PROVE  ~Before(w, r, r)
BY WalkFacts, SortKeyFacts, LexIrreflexive DEF Before

(* The order of a walk is transitive. *)
LEMMA BeforeTransitive ==
    ASSUME NEW w \in Walks, NEW r \in TableRows, NEW s \in TableRows, NEW t \in TableRows,
           Before(w, r, s), Before(w, s, t)
    PROVE  Before(w, r, t)
<1>1. /\ SortKey(w, r) \in Seq(Int) /\ SortKey(w, s) \in Seq(Int) /\ SortKey(w, t) \in Seq(Int)
      /\ Len(SortKey(w, r)) = Len(SortKey(w, s)) /\ Len(SortKey(w, s)) = Len(SortKey(w, t))
  BY SortKeyFacts
<1>2. QED
  BY <1>1, WalkFacts, LexTransitive DEF Before

(* The key at the end of every order makes it total. *)
LEMMA BeforeTotal ==
    ASSUME NEW w \in Walks, NEW r \in TableRows, NEW s \in TableRows, r.key # s.key
    PROVE  Before(w, r, s) \/ Before(w, s, r)
<1>1. Lex(w.dir, r.key, s.key) \/ Lex(w.dir, s.key, r.key)
  BY WalkFacts, RowFacts, LexTotal
<1>2. CASE w.byKey
  BY <1>1, <1>2, BeforeUnfolds
<1>3. CASE ~w.byKey
  <2>1. \/ Precedes(w.dir, Flag(r), Flag(s))
        \/ Precedes(w.dir, Flag(s), Flag(r))
        \/ Flag(r) = Flag(s)
    BY WalkFacts, SortKeyFacts, PrecedesFacts
  <2>2. \/ Precedes(w.dir, Shown(r), Shown(s))
        \/ Precedes(w.dir, Shown(s), Shown(r))
        \/ Shown(r) = Shown(s)
    BY WalkFacts, SortKeyFacts, PrecedesFacts
  <2>3. QED
    BY <1>1, <1>3, <2>1, <2>2, BeforeUnfolds
<1>4. QED
  BY <1>2, <1>3

-----------------------------------------------------------------------------
(* buildKeysetPredicate() and buildKeysetOrderBy() agree: the predicate a   *)
(* page gets from the cursor of row r lets through exactly the rows its     *)
(* ORDER BY puts after r, in both directions, for keys of every width, with *)
(* ties, and from and into the NULLs.                                       *)
THEOREM PredicateIsOrder ==
    ASSUME NEW w \in Walks, NEW r \in TableRows, NEW s \in TableRows, Exact
    PROVE  Past(w, CursorOf(w, r), s) <=> Before(w, r, s)
<1> DEFINE c == CursorOf(w, r)
<1>1. c.at = r.key /\ c.at # <<>> /\ (~w.byKey => c.order = r.val)
  <2>1. c.at = r.key
    BY DEF CursorOf
  <2>2. r.key # <<>>
    BY RowFacts, PagingAssumption
  <2>3. ASSUME ~w.byKey PROVE c.order = r.val
    BY <2>3, RowFacts DEF CursorOf, Exact
  <2>4. QED
    BY <2>1, <2>2, <2>3
<1>2. KeyAfter(w.dir, c.at, s.key) <=> Lex(w.dir, r.key, s.key)
  BY <1>1 DEF KeyAfter, Lex
<1> HIDE DEF c
<1>3. CASE w.byKey
  BY <1>1, <1>2, <1>3, BeforeUnfolds DEF Past, c
<1>4. CASE ~w.byKey
  <2>1. Past(w, c, s) <=>
           IF r.val = Null
           THEN \/ s.val = Null /\ Lex(w.dir, r.key, s.key)
                \/ w.dir = "DESC" /\ s.val # Null
           ELSE \/ s.val # Null /\ Precedes(w.dir, r.val, s.val)
                \/ s.val = r.val /\ Lex(w.dir, r.key, s.key)
                \/ w.dir = "ASC" /\ s.val = Null
    BY <1>1, <1>2, <1>4 DEF Past
  <2>2. Before(w, r, s) <=>
           \/ Precedes(w.dir, Flag(r), Flag(s))
           \/ Flag(r) = Flag(s) /\ Precedes(w.dir, Shown(r), Shown(s))
           \/ Flag(r) = Flag(s) /\ Shown(r) = Shown(s) /\ Lex(w.dir, r.key, s.key)
    BY <1>4, BeforeUnfolds
  <2>3. w.dir = "ASC" \/ w.dir = "DESC"
    BY WalkFacts DEF Dirs
  <2>4. QED
    BY <2>1, <2>2, <2>3, RowFacts DEF Precedes, Flag, Shown, c
<1>5. QED
  BY <1>3, <1>4

-----------------------------------------------------------------------------
(* LIMIT *)

(* The first rows of a set are closed downwards, and all of it if it is small. *)
LEMMA FirstFacts ==
    ASSUME NEW w \in Walks, NEW S, S \subseteq TableRows, IsFiniteSet(S), NEW n \in Nat
    PROVE  /\ First(S, w, n) \subseteq S /\ IsFiniteSet(First(S, w, n))
           /\ \A r \in First(S, w, n), s \in S : Before(w, s, r) => s \in First(S, w, n)
           /\ Cardinality(S) <= n => First(S, w, n) = S
<1> DEFINE Ahead(r) == {s \in S : Before(w, s, r)}
<1>1. \A r \in S : /\ Ahead(r) \in SUBSET S /\ IsFiniteSet(Ahead(r))
                   /\ Cardinality(Ahead(r)) \in Nat
                   /\ Rank(S, w, r) = Cardinality(Ahead(r))
  BY FS_Subset, FS_CardinalityType DEF Rank
<1>2. First(S, w, n) \subseteq S /\ IsFiniteSet(First(S, w, n))
  <2>1. First(S, w, n) \in SUBSET S
    BY DEF First
  <2>2. QED
    BY <2>1, FS_Subset
<1>3. ASSUME NEW r \in First(S, w, n), NEW s \in S, Before(w, s, r)
      PROVE  s \in First(S, w, n)
  <2>1. r \in S /\ Rank(S, w, r) < n
    BY DEF First
  <2>2. Ahead(s) \in SUBSET Ahead(r)
    BY <1>3, <2>1, BeforeTransitive
  <2>3. Cardinality(Ahead(s)) <= Cardinality(Ahead(r))
    BY <1>1, <2>1, <2>2, FS_Subset
  <2>4. Rank(S, w, s) < n
    BY <1>1, <2>1, <2>3
  <2>5. QED
    BY <2>4 DEF First
<1>4. ASSUME Cardinality(S) <= n, NEW r \in S
      PROVE  r \in First(S, w, n)
  <2>1. Ahead(r) # S
    BY BeforeIrreflexive
  <2>2. Cardinality(Ahead(r)) <= Cardinality(S) /\ Cardinality(Ahead(r)) # Cardinality(S)
    BY <1>1, <2>1, FS_Subset
  <2>3. Rank(S, w, r) < n
    BY <1>1, <1>4, <2>2, FS_CardinalityType
  <2>4. QED
    BY <2>3 DEF First
<1>5. QED
  BY <1>2, <1>3, <1>4

(* A page that is not full holds all there is. *)
LEMMA ShortIsAll ==
    ASSUME NEW w \in Walks, NEW S, S \subseteq TableRows, IsFiniteSet(S), NEW n \in Nat,
           Cardinality(First(S, w, n)) < n
    PROVE  First(S, w, n) = S
<1> DEFINE R == {p \in TableRows \X TableRows : Before(w, p[1], p[2])}
           F == First(S, w, n)
           Rest == S \ F
<1>1. F \subseteq S /\ IsFiniteSet(F) /\ IsFiniteSet(Rest) /\ Cardinality(F) \in Nat
  BY FirstFacts, FS_CardinalityType, FS_Difference
<1>2. SUFFICES ASSUME Rest # {} PROVE FALSE
  BY <1>1
<1>3. \A x, y \in Rest : <<x, y>> \in R <=> Before(w, x, y)
  OBVIOUS
<1>4. \A x, y, z \in Rest : <<x, y>> \in R /\ <<y, z>> \in R => <<x, z>> \in R
  BY <1>3, BeforeTransitive
<1>5. \A x \in Rest : <<x, x>> \notin R
  BY <1>3, BeforeIrreflexive
<1>6. PICK r \in Rest : \A s \in Rest : <<s, r>> \notin R
  <2> HIDE DEF R, Rest
  <2>1. QED
    BY <1>1, <1>2, <1>4, <1>5, LeastExists
<1>7. {s \in S : Before(w, s, r)} \in SUBSET F
  BY <1>3, <1>6
<1>8. Rank(S, w, r) <= Cardinality(F) /\ Rank(S, w, r) \in Nat
  BY <1>1, <1>7, FS_Subset, FS_CardinalityType DEF Rank
<1>9. r \in F
  BY <1>1, <1>8 DEF First
<1>10. QED
  BY <1>9

(* A page that is asked for holds a row if there is one. *)
LEMMA FirstNotEmpty ==
    ASSUME NEW w \in Walks, NEW S, S \subseteq TableRows, IsFiniteSet(S), S # {}, NEW n \in Nat \ {0}
    PROVE  First(S, w, n) # {}
<1> DEFINE R == {p \in TableRows \X TableRows : Before(w, p[1], p[2])}
<1>1. \A x, y \in S : <<x, y>> \in R <=> Before(w, x, y)
  OBVIOUS
<1>2. \A x, y, z \in S : <<x, y>> \in R /\ <<y, z>> \in R => <<x, z>> \in R
  BY <1>1, BeforeTransitive
<1>3. \A x \in S : <<x, x>> \notin R
  BY <1>1, BeforeIrreflexive
<1>4. PICK r \in S : \A s \in S : <<s, r>> \notin R
  <2> HIDE DEF R
  <2>1. QED
    BY <1>2, <1>3, LeastExists
<1>5. {s \in S : Before(w, s, r)} = {}
  BY <1>1, <1>4
<1>6. Rank(S, w, r) = 0
  BY <1>5, FS_EmptySet DEF Rank
<1>7. r \in First(S, w, n)
  BY <1>6 DEF First
<1>8. QED
  BY <1>7

(* The last row of a set is in it, and none comes after it. *)
LEMMA LastFacts ==
    ASSUME NEW w \in Walks, NEW S, S \subseteq TableRows, IsFiniteSet(S), S # {}
    PROVE  LastOf(S, w) \in S /\ \A s \in S : ~Before(w, LastOf(S, w), s)
<1> DEFINE R == {p \in TableRows \X TableRows : Before(w, p[2], p[1])}
<1>1. \A x, y \in S : <<x, y>> \in R <=> Before(w, y, x)
  OBVIOUS
<1>2. \A x, y, z \in S : <<x, y>> \in R /\ <<y, z>> \in R => <<x, z>> \in R
  BY <1>1, BeforeTransitive
<1>3. \A x \in S : <<x, x>> \notin R
  BY <1>1, BeforeIrreflexive
<1>4. PICK r \in S : \A s \in S : <<s, r>> \notin R
  <2> HIDE DEF R
  <2>1. QED
    BY <1>2, <1>3, LeastExists
<1>5. \A s \in S : ~Before(w, r, s)
  BY <1>1, <1>4
<1>6. QED
  BY <1>5 DEF LastOf

-----------------------------------------------------------------------------
(* The caller from page to page: it has nothing from after its cursor, and  *)
(* what it is owed and does not have lies there.                            *)

Passed ==
    \/ cursor = walk.start /\ (over \/ got = {})
    \/ \E c \in TableRows : /\ cursor = CursorOf(walk, c)
                            /\ over \/ \A r \in got : ~Before(walk, c, r)

Ahead(r) == cursor = Unset \/ Past(walk, cursor, r)

Missing == \A r \in steady : Owed(r) /\ r \notin got => ~over /\ Ahead(r)

WalkInv ==
    /\ PagingTypeOK
    /\ walk.kind # "stream" => Passed /\ again = {} /\ Missing

(* A walk starts with nothing delivered. *)
LEMMA StartsWell == PagingInit => WalkInv
<1> SUFFICES ASSUME PagingInit PROVE WalkInv
  OBVIOUS
<1>1. PagingTypeOK
  <2>1. MaxChanges \in Nat
    BY PagingAssumption
  <2>2. QED
    BY <2>1 DEF PagingInit, PagingTypeOK
<1>2. ASSUME walk.kind # "stream" PROVE ~over /\ cursor = walk.start
  <2>1. Unset # 0
    BY PagingAssumption
  <2>2. QED
    BY <1>2, <2>1 DEF PagingInit
<1>3. QED
  BY <1>1, <1>2 DEF WalkInv, PagingInit, Passed, Missing, Ahead, Owed

(* One page, whichever caller reads it.                                     *)
LEMMA PageKeepsInv ==
    ASSUME WalkInv, Exact, NEW kind \in {"page", "pipeline"}, NEW probe \in {0, 1},
           ReadPage(kind, probe)
    PROVE  WalkInv'
<1> DEFINE found == {r \in table : cursor = Unset \/ Past(walk, cursor, r)}
           n == walk.size + probe
           read == First(found, walk, n)
           page == First(read, walk, walk.size)
           more == Cardinality(read) >= n
           last == LastOf(page, walk)
<1>1. /\ ~over /\ walk.kind = kind /\ kind # "stream"
      /\ got' = got \cup page /\ again' = again \cup (page \cap got)
      /\ cursor' = IF more THEN CursorOf(walk, last) ELSE cursor
      /\ over' = ~more
      /\ walk' = walk /\ table' = table /\ steady' = steady /\ changes' = changes
  BY DEF ReadPage, Deliver
<1>2. /\ PagingTypeOK /\ walk \in Walks /\ walk.size \in Nat \ {0} /\ n \in Nat \ {0}
      /\ Passed /\ again = {} /\ Missing
  BY <1>1, WalkFacts DEF WalkInv, PagingTypeOK
<1>3. found \subseteq table /\ found \subseteq TableRows /\ IsFiniteSet(found)
  <2>1. found \in SUBSET table /\ table \subseteq TableRows /\ IsFiniteSet(table)
    BY <1>2 DEF PagingTypeOK
  <2>2. QED
    BY <2>1, FS_Subset
<1> HIDE DEF found, n
<1>4. /\ read \subseteq found /\ IsFiniteSet(read) /\ read \subseteq TableRows
      /\ \A r \in read, s \in found : Before(walk, s, r) => s \in read
      /\ Cardinality(found) <= n => read = found
      /\ Cardinality(read) \in Nat
  BY <1>2, <1>3, FirstFacts, FS_CardinalityType
<1>5. ~more => read = found
  BY <1>2, <1>3, <1>4, ShortIsAll
<1>6. /\ page \subseteq read /\ IsFiniteSet(page)
      /\ \A r \in page, s \in read : Before(walk, s, r) => s \in page
      /\ Cardinality(read) <= walk.size => page = read
  BY <1>2, <1>4, FirstFacts
<1>7. ~more => page = found
  <2>1. ~more => Cardinality(read) <= walk.size
    BY <1>2, <1>4 DEF n
  <2>2. QED
    BY <1>5, <1>6, <2>1
<1>8. more => read # {} /\ page # {}
  <2>1. more => read # {}
    BY <1>2, FS_EmptySet
  <2>2. QED
    BY <1>2, <1>4, <2>1, FirstNotEmpty
<1>9. more => last \in page /\ \A r \in page : ~Before(walk, last, r)
  BY <1>2, <1>4, <1>6, <1>8, LastFacts
<1> HIDE DEF read, page, more, last
<1>10. PagingTypeOK'
  <2>1. page \subseteq TableRows
    BY <1>4, <1>6
  <2>2. QED
    BY <1>1, <1>2, <2>1 DEF PagingTypeOK, more
<1>11. page \cap got = {}
  <2>1. CASE got = {}
    BY <2>1
  <2>2. ASSUME NEW c \in TableRows, cursor = CursorOf(walk, c), \A r \in got : ~Before(walk, c, r),
               NEW r \in page, r \in got
        PROVE  FALSE
    <3>1. r \in found /\ r \in TableRows
      BY <1>4, <1>6
    <3>2. cursor # Unset
      <4>1. CursorOf(walk, c) \in Cursors
        BY <2>2, RowFacts, PagingAssumption DEF CursorOf, Cursors, TableRows
      <4>2. QED
        BY <2>2, <4>1, PagingAssumption
    <3>3. Past(walk, CursorOf(walk, c), r)
      BY <2>2, <3>1, <3>2 DEF found
    <3>4. QED
      BY <1>2, <2>2, <3>1, <3>3, PredicateIsOrder
  <2>3. QED
    BY <1>1, <1>2, <2>1, <2>2 DEF Passed
<1>12. Passed'
  <2>1. CASE more
    <3>1. last \in TableRows
      BY <1>4, <1>6, <1>9, <2>1
    <3>2. ASSUME NEW r \in got'
          PROVE  ~Before(walk, last, r)
      <4>1. CASE r \in page
        BY <1>9, <2>1, <4>1
      <4>2. ASSUME r \in got, NEW c \in TableRows, cursor = CursorOf(walk, c),
                   ~Before(walk, c, r), Before(walk, last, r)
            PROVE  FALSE
        <5>1. r \in TableRows /\ last \in found
          BY <1>2, <1>4, <1>6, <1>9, <2>1, <4>2 DEF PagingTypeOK
        <5>2. cursor # Unset
          <6>1. CursorOf(walk, c) \in Cursors
            BY <4>2, RowFacts, PagingAssumption DEF CursorOf, Cursors, TableRows
          <6>2. QED
            BY <4>2, <6>1, PagingAssumption
        <5>3. Past(walk, CursorOf(walk, c), last)
          BY <4>2, <5>1, <5>2 DEF found
        <5>4. Before(walk, c, last)
          BY <1>2, <3>1, <4>2, <5>3, PredicateIsOrder
        <5>5. QED
          BY <1>2, <3>1, <4>2, <5>1, <5>4, BeforeTransitive
      <4>3. QED
        BY <1>1, <1>2, <4>1, <4>2 DEF Passed
    <3>3. QED
      BY <1>1, <2>1, <3>1, <3>2 DEF Passed
  <2>2. CASE ~more
    BY <1>1, <1>2, <2>2 DEF Passed
  <2>3. QED
    BY <2>1, <2>2
<1>13. Missing'
  <2>1. SUFFICES ASSUME NEW r \in steady, Owed(r), r \notin got, r \notin page
                 PROVE  ~over' /\ (cursor' = Unset \/ Past(walk, cursor', r))
    BY <1>1 DEF Missing, Ahead, Owed
  <2>2. r \in found /\ r \in TableRows
    BY <1>2, <1>3, <2>1 DEF Missing, Ahead, PagingTypeOK, found
  <2>3. more
    BY <1>7, <2>1, <2>2
  <2>4. last \in page /\ last \in found /\ last \in TableRows /\ r # last
    BY <1>4, <1>6, <1>9, <2>1, <2>3
  <2>5. ~Before(walk, r, last)
    <3>1. Before(walk, r, last) => r \in read
      BY <1>4, <1>6, <2>2, <2>4
    <3>2. QED
      BY <1>6, <2>1, <2>4, <3>1
  <2>6. r.key # last.key
    BY <1>2, <1>3, <2>2, <2>4 DEF PagingTypeOK
  <2>7. Before(walk, last, r)
    BY <1>2, <2>2, <2>4, <2>5, <2>6, BeforeTotal
  <2>8. QED
    BY <1>1, <1>2, <2>2, <2>3, <2>4, <2>7, PredicateIsOrder
<1>14. QED
  BY <1>1, <1>2, <1>10, <1>11, <1>12, <1>13 DEF WalkInv

(* A batch of a stream. *)
LEMMA StreamKeepsInv ==
    ASSUME WalkInv, StreamBatch
    PROVE  WalkInv'
<1>1. walk' = walk /\ walk.kind = "stream"
  BY DEF StreamBatch, Deliver
<1>2. PICK batch \in SUBSET table : /\ got' = got \cup batch /\ again' = again \cup (batch \cap got)
                                   /\ table' = table /\ steady' = steady /\ changes' = changes
                                   /\ over' \in BOOLEAN
  BY DEF StreamBatch, Deliver, Slice
<1>3. PagingTypeOK'
  BY <1>1, <1>2 DEF WalkInv, PagingTypeOK
<1>4. QED
  BY <1>1, <1>3 DEF WalkInv

(* Rows are deleted and inserted behind the walk. *)
LEMMA ChangeKeepsInv ==
    ASSUME WalkInv, NEW gone \in SUBSET table, NEW new \in SUBSET TableRows, IsFiniteSet(new),
           \A r \in new, s \in (table \ gone) \cup new : r.key = s.key => r = s,
           Change(gone, new)
    PROVE  WalkInv'
<1>1. /\ table' = (table \ gone) \cup new /\ steady' = steady \ gone
      /\ changes' = changes + 1 /\ changes < MaxChanges /\ ~over
      /\ walk' = walk /\ cursor' = cursor /\ over' = over /\ got' = got /\ again' = again
  BY DEF Change
<1>2. PagingTypeOK'
  <2>1. IsFiniteSet(table')
    BY <1>1, FS_Difference, FS_Union DEF WalkInv, PagingTypeOK
  <2>2. \A r, s \in table' : r.key = s.key => r = s
    BY <1>1 DEF WalkInv, PagingTypeOK
  <2>3. changes' \in 0 .. MaxChanges
    BY <1>1, PagingAssumption DEF WalkInv, PagingTypeOK
  <2>4. QED
    BY <1>1, <2>1, <2>2, <2>3 DEF WalkInv, PagingTypeOK
<1>3. walk.kind # "stream" => Passed' /\ again' = {} /\ Missing'
  BY <1>1 DEF WalkInv, Passed, Missing, Ahead, Owed
<1>4. QED
  BY <1>1, <1>2, <1>3 DEF WalkInv

(* Every step keeps the invariant. *)
LEMMA StepKeepsInv ==
    ASSUME WalkInv, Exact, [PagingNext]_pagingVars
    PROVE  WalkInv'
<1>1. CASE CursorPage
  BY <1>1, PageKeepsInv DEF CursorPage
<1>2. CASE KeysetBatch
  BY <1>2, PageKeepsInv DEF KeysetBatch
<1>3. CASE StreamBatch
  BY <1>3, StreamKeepsInv
<1>4. ASSUME NEW r \in TableRows, Insert(r)
      PROVE  WalkInv'
  <2>1. IsFiniteSet({r}) /\ \A a \in {r}, s \in (table \ {}) \cup {r} : a.key = s.key => a = s
    BY <1>4, FS_Singleton DEF Insert
  <2>2. QED
    BY <1>4, <2>1, ChangeKeepsInv DEF Insert
<1>5. ASSUME NEW r \in TableRows, Delete(r)
      PROVE  WalkInv'
  BY <1>5, FS_EmptySet, ChangeKeepsInv DEF Delete
<1>6. ASSUME NEW r \in TableRows, NEW v \in Values, Move(r, v)
      PROVE  WalkInv'
  <2> DEFINE moved == [r EXCEPT !.val = v]
  <2>1. moved \in TableRows /\ moved.key = r.key /\ r \in table
    BY <1>6 DEF TableRows, Move
  <2>2. IsFiniteSet({moved})
    BY FS_Singleton
  <2>3. Change({r}, {moved})
    BY <1>6 DEF Move
  <2> HIDE DEF moved
  <2>4. \A a \in {moved}, s \in (table \ {r}) \cup {moved} : a.key = s.key => a = s
    BY <2>1 DEF WalkInv, PagingTypeOK
  <2>5. QED
    BY <2>1, <2>2, <2>3, <2>4, ChangeKeepsInv
<1>7. CASE UNCHANGED pagingVars
  BY <1>7 DEF pagingVars, WalkInv, PagingTypeOK, Passed, Missing, Ahead, Owed
<1>8. QED
  BY <1>1, <1>2, <1>3, <1>4, <1>5, <1>6, <1>7 DEF PagingNext

(* Whatever others do to the table, a caller who pages by keyset gets every *)
(* row that stays as it was, and none twice (KeysetWalk), as long as the    *)
(* order values a cursor carries are exact.                                 *)
THEOREM WalksAreSound == Exact /\ PagingSpec => []KeysetWalk
<1> SUFFICES ASSUME Exact PROVE PagingSpec => []KeysetWalk
  OBVIOUS
<1>1. WalkInv /\ [PagingNext]_pagingVars => WalkInv'
  BY StepKeepsInv
<1>2. WalkInv => KeysetWalk
  BY DEF WalkInv, KeysetWalk, Missing
<1>3. QED
  BY <1>1, <1>2, StartsWell, PTL DEF PagingSpec

-----------------------------------------------------------------------------
(* LIMIT and OFFSET *)

(* A rank is a number of rows. *)
LEMMA RankType ==
    ASSUME NEW w \in Walks, NEW S, IsFiniteSet(S)
    PROVE  \A r \in S : Rank(S, w, r) \in Nat
<1>1. ASSUME NEW r \in S PROVE {s \in S : Before(w, s, r)} \in SUBSET S
  OBVIOUS
<1>2. QED
  BY <1>1, FS_Subset, FS_CardinalityType DEF Rank

(* The row of the next rank. *)
LEMMA FirstGrows ==
    ASSUME NEW w \in Walks, NEW S, S \subseteq TableRows, IsFiniteSet(S),
           \A r, s \in S : r.key = s.key => r = s,
           NEW j \in Nat, j < Cardinality(S), Cardinality(First(S, w, j)) = j
    PROVE  \E r \in S : First(S, w, j + 1) = First(S, w, j) \cup {r} /\ r \notin First(S, w, j)
<1> DEFINE R == {p \in TableRows \X TableRows : Before(w, p[1], p[2])}
           F == First(S, w, j)
           Rest == S \ F
           Lower(r) == {s \in S : Before(w, s, r)}
<1>1. F \subseteq S /\ IsFiniteSet(F) /\ IsFiniteSet(Rest) /\ Cardinality(S) \in Nat
  BY FirstFacts, FS_CardinalityType, FS_Difference
<1>2. Rest # {}
  <2>1. F # S
    OBVIOUS
  <2>2. QED
    BY <1>1, <2>1
<1>3. \A x, y \in Rest : <<x, y>> \in R <=> Before(w, x, y)
  OBVIOUS
<1>4. \A x, y, z \in Rest : <<x, y>> \in R /\ <<y, z>> \in R => <<x, z>> \in R
  BY <1>3, BeforeTransitive
<1>5. \A x \in Rest : <<x, x>> \notin R
  BY <1>3, BeforeIrreflexive
<1>6. PICK r \in Rest : \A s \in Rest : <<s, r>> \notin R
  <2> HIDE DEF R, Rest
  <2>1. QED
    BY <1>1, <1>2, <1>4, <1>5, LeastExists
<1>7. r \in S /\ r \in TableRows /\ r \notin F
  BY <1>6
<1>8. \A s \in Rest : s # r => Before(w, r, s)
  <2> TAKE s \in Rest
  <2> HAVE s # r
  <2>1. s \in S /\ s \in TableRows /\ s.key # r.key
    BY <1>7
  <2>2. ~Before(w, s, r)
    BY <1>3, <1>6
  <2>3. QED
    BY <1>7, <2>1, <2>2, BeforeTotal
<1>9. F \subseteq Lower(r)
  <2>1. SUFFICES ASSUME NEW s \in F PROVE Before(w, s, r)
    BY <1>1
  <2>2. s \in S /\ s \in TableRows /\ s # r
    BY <1>1, <1>7
  <2>3. ~Before(w, r, s)
    BY <1>7, FirstFacts
  <2>4. QED
    BY <1>7, <2>2, <2>3, BeforeTotal
<1>10. Lower(r) = F
  BY <1>3, <1>6, <1>9
<1>11. Rank(S, w, r) = j
  BY <1>10 DEF Rank
<1>12. \A s \in Rest : s # r => Rank(S, w, s) >= j + 1 /\ Rank(S, w, s) \in Nat
  <2> TAKE s \in Rest
  <2> HAVE s # r
  <2>1. s \in S /\ s \in TableRows /\ Before(w, r, s)
    BY <1>8
  <2>2. F \cup {r} \in SUBSET Lower(s)
    <3>1. ASSUME NEW t \in F PROVE Before(w, t, s)
      <4>1. t \in TableRows /\ Before(w, t, r)
        BY <1>9, <1>1
      <4>2. QED
        BY <1>7, <2>1, <4>1, BeforeTransitive
    <3>2. QED
      BY <1>1, <1>7, <2>1, <3>1
  <2>3. Lower(s) \in SUBSET S
    OBVIOUS
  <2>4. IsFiniteSet(Lower(s)) /\ Cardinality(Lower(s)) \in Nat
    BY <2>3, FS_Subset, FS_CardinalityType
  <2>5. Cardinality(F \cup {r}) = j + 1
    BY <1>1, <1>7, FS_AddElement
  <2>6. Cardinality(F \cup {r}) <= Cardinality(Lower(s))
    BY <2>2, <2>4, FS_Subset
  <2>7. QED
    BY <2>4, <2>5, <2>6 DEF Rank
<1>13. \A s \in F : Rank(S, w, s) < j /\ Rank(S, w, s) \in Nat
  BY <1>1, RankType DEF First
<1>14. First(S, w, j + 1) = F \cup {r}
  <2>1. ASSUME NEW s \in S PROVE s \in First(S, w, j + 1) <=> s \in F \cup {r}
    <3>1. CASE s \in F
      BY <3>1, <1>13 DEF First
    <3>2. CASE s = r
      BY <3>2, <1>11 DEF First
    <3>3. CASE s \in Rest /\ s # r
      BY <3>3, <1>12 DEF First
    <3>4. QED
      BY <3>1, <3>2, <3>3
  <2>2. First(S, w, j + 1) \subseteq S
    BY DEF First
  <2>3. QED
    BY <1>1, <1>7, <2>1, <2>2
<1>15. QED
  BY <1>7, <1>14

(* Ranks number the rows: as many rows as asked for come first, while there *)
(* are that many.                                                           *)
LEMMA FirstCounts ==
    ASSUME NEW w \in Walks, NEW S, S \subseteq TableRows, IsFiniteSet(S),
           \A r, s \in S : r.key = s.key => r = s,
           NEW n \in Nat, n <= Cardinality(S)
    PROVE  Cardinality(First(S, w, n)) = n
<1> DEFINE Count(k) == Cardinality(First(S, w, k))
           Wrong == {k \in 0 .. n : Count(k) # k}
           Less == {p \in Int \X Int : p[1] < p[2]}
<1>1. SUFFICES ASSUME Wrong # {} PROVE FALSE
  <2>1. n \in 0 .. n
    OBVIOUS
  <2>2. QED
    BY <2>1, <1>1
<1>2. IsFiniteSet(Wrong)
  <2>1. IsFiniteSet(0 .. n) /\ Wrong \in SUBSET (0 .. n)
    BY FS_Interval
  <2>2. QED
    BY <2>1, FS_Subset
<1>3. PICK k \in Wrong : \A l \in Wrong : ~(l < k)
  <2>1. \A x, y \in Wrong : <<x, y>> \in Less <=> x < y
    OBVIOUS
  <2>2. /\ \A x, y, z \in Wrong : <<x, y>> \in Less /\ <<y, z>> \in Less => <<x, z>> \in Less
        /\ \A x \in Wrong : <<x, x>> \notin Less
    <3>1. \A x \in Wrong : x \in Int
      OBVIOUS
    <3> HIDE DEF Wrong, Less
    <3>2. QED
      BY <2>1, <3>1
  <2>3. PICK k \in Wrong : \A l \in Wrong : <<l, k>> \notin Less
    <3> HIDE DEF Wrong, Less
    <3>1. QED
      BY <1>1, <1>2, <2>2, LeastExists
  <2>4. QED
    BY <2>1, <2>3
<1>4. k \in Nat /\ k <= n /\ Count(k) # k
  OBVIOUS
<1>5. k # 0
  <2>1. \A r \in S : Rank(S, w, r) \in Nat
    BY RankType
  <2>2. First(S, w, 0) = {}
    BY <2>1 DEF First
  <2>3. QED
    BY <1>4, <2>2, FS_EmptySet
<1> DEFINE j == k - 1
           F == First(S, w, j)
<1>6. j \in Nat /\ j < k /\ j < n /\ k = j + 1
  BY <1>4, <1>5
<1>7. Cardinality(F) = j
  <2>1. j \in 0 .. n /\ j \notin Wrong
    BY <1>3, <1>6
  <2>2. QED
    BY <2>1
<1>8. F \subseteq S /\ IsFiniteSet(F)
  BY <1>6, FirstFacts
<1>9. \E r \in S : First(S, w, k) = F \cup {r} /\ r \notin F
  <2>1. Cardinality(First(S, w, j)) = j /\ j < Cardinality(S)
    BY <1>6, <1>7, FS_CardinalityType
  <2> HIDE DEF j
  <2>2. \E r \in S : First(S, w, j + 1) = First(S, w, j) \cup {r} /\ r \notin First(S, w, j)
    BY <1>6, <2>1, FirstGrows
  <2>3. QED
    BY <1>6, <2>2
<1>10. Count(k) = k
  <2>1. PICK r \in S : First(S, w, k) = F \cup {r} /\ r \notin F
    BY <1>9
  <2>2. Cardinality(F \cup {r}) = Cardinality(F) + 1
    BY <1>8, <2>1, FS_AddElement
  <2>3. QED
    BY <1>6, <1>7, <2>1, <2>2
<1>11. QED
  BY <1>4, <1>10

(* A table: finitely many rows, no two of one key. *)
IsTable(S) == S \subseteq TableRows /\ IsFiniteSet(S) /\ \A r, s \in S : r.key = s.key => r = s

(* The rows of the ranks from a to b - 1. *)
Ranked(S, w, a, b) == {r \in S : Rank(S, w, r) >= a /\ Rank(S, w, r) < b}

(* A window of LIMIT and OFFSET holds as many rows as it asks for; if it    *)
(* holds fewer, no row lies behind it.                                      *)
LEMMA SliceFacts ==
    ASSUME NEW w \in Walks, NEW S, IsTable(S), NEW from \in Nat, NEW count \in Nat,
           NEW n \in Nat, n = Cardinality(Ranked(S, w, from, from + count))
    PROVE  /\ n \in 0 .. count
           /\ Ranked(S, w, from, from + count) = Ranked(S, w, from, from + n)
           /\ n < count => \A r \in S : Rank(S, w, r) < from + n
<1> DEFINE batch == Ranked(S, w, from, from + count)
<1> USE DEF IsTable
<1>0. /\ batch = {r \in S : Rank(S, w, r) >= from /\ Rank(S, w, r) < from + count}
      /\ n = Cardinality(batch)
  BY DEF Ranked
<1> SUFFICES /\ n \in 0 .. count
             /\ batch = {r \in S : Rank(S, w, r) >= from /\ Rank(S, w, r) < from + n}
             /\ n < count => \A r \in S : Rank(S, w, r) < from + n
  BY DEF Ranked
<1> HIDE DEF batch
<1> DEFINE size == Cardinality(S)
           F(m) == First(S, w, m)
<1>1. size \in Nat
  BY FS_CardinalityType
<1>2. \A r \in S : Rank(S, w, r) \in Nat
  BY RankType
<1>3. \A r \in S : Rank(S, w, r) < size
  <2> TAKE r \in S
  <2>1. r \in F(size)
    BY <1>1, FirstFacts
  <2>2. QED
    BY <2>1 DEF First
<1>4. \A m \in Nat : F(m) \subseteq S /\ IsFiniteSet(F(m)) /\ (m <= size => Cardinality(F(m)) = m)
  BY FirstFacts, FirstCounts
<1>5. \A r \in S, m \in Nat : r \in F(m) <=> Rank(S, w, r) < m
  BY DEF First
<1>6. ASSUME NEW m \in Nat, m <= size, from <= m,
             batch = {r \in S : Rank(S, w, r) >= from /\ Rank(S, w, r) < m}
      PROVE  Cardinality(batch) = m - from
  <2>1. batch = F(m) \ F(from)
    <3>1. \A r \in S : r \in batch <=> r \in F(m) /\ r \notin F(from)
      BY <1>2, <1>5, <1>6
    <3>2. batch \subseteq S /\ F(m) \subseteq S
      BY <1>0, <1>4
    <3>3. QED
      BY <3>1, <3>2
  <2>2. F(m) \cap F(from) = F(from)
    <3>1. \A r \in S : r \in F(from) => r \in F(m)
      BY <1>2, <1>5, <1>6
    <3>2. QED
      BY <1>4, <3>1
  <2>3. Cardinality(F(m) \ F(from)) = Cardinality(F(m)) - Cardinality(F(m) \cap F(from))
    BY <1>4, FS_Difference
  <2>4. Cardinality(F(m)) = m /\ Cardinality(F(from)) = from
    BY <1>1, <1>4, <1>6
  <2>5. QED
    BY <2>1, <2>2, <2>3, <2>4
<1> HIDE DEF size, F
<1>7. CASE from + count <= size
  <2>1. n = count
    BY <1>0, <1>1, <1>6, <1>7
  <2>2. QED
    BY <1>0, <1>1, <2>1
<1>8. CASE from <= size /\ size < from + count
  <2>1. batch = {r \in S : Rank(S, w, r) >= from /\ Rank(S, w, r) < size}
    BY <1>0, <1>1, <1>2, <1>3, <1>8
  <2>2. n = size - from
    BY <1>0, <1>1, <1>6, <1>8, <2>1
  <2>3. n \in 0 .. count /\ from + n = size
    BY <1>1, <1>8, <2>2
  <2>4. QED
    BY <1>3, <2>1, <2>3
<1>9. CASE size < from
  <2>1. batch = {}
    BY <1>0, <1>1, <1>2, <1>3, <1>9
  <2>2. n = 0
    BY <1>0, <2>1, FS_EmptySet
  <2>3. \A r \in S : Rank(S, w, r) < from
    BY <1>1, <1>2, <1>3, <1>9
  <2>4. QED
    <3>1. \A r \in S : ~(Rank(S, w, r) >= from)
      BY <1>2, <2>3
    <3>2. QED
      BY <2>1, <2>2, <2>3, <3>1
<1>10. QED
  BY <1>1, <1>7, <1>8, <1>9

-----------------------------------------------------------------------------
(* A stream from batch to batch: what it delivered are the rows from its    *)
(* start to its offset, and it may still read the rest of its bound.        *)

Start == StreamStart(walk.window)
Bound == StreamBound(walk.window)

Covered ==
    /\ table \subseteq TableRows /\ IsFiniteSet(table)
    /\ \A r, s \in table : r.key = s.key => r = s
    /\ offset \in Nat /\ Start <= offset /\ again = {}
    /\ got = {r \in table : Rank(table, walk, r) >= Start /\ Rank(table, walk, r) < offset}

StreamInv ==
    /\ walk \in Walks /\ changes \in Nat
    /\ walk.kind = "stream" /\ changes = 0 =>
        /\ Covered
        /\ Bound = Unset => left = Unset
        /\ Bound # Unset => left \in Nat /\ left = Bound - (offset - Start)
        /\ over => left = 0 \/ \A r \in table : Rank(table, walk, r) < offset

(* streamBatch() works out the bounds find() works out, from any options.   *)
THEOREM BoundsAgree ==
    ASSUME NEW w \in Walks, w.kind = "stream"
    PROVE  /\ FindWindow(w.window) = [from |-> StreamStart(w.window), count |-> StreamBound(w.window)]
           /\ StreamStart(w.window) \in Nat
           /\ StreamBound(w.window) \in Nat \cup {Unset}
<1> DEFINE o == w.window
<1>1. /\ o.limit \in Seq(Nat) /\ Len(o.limit) <= 2
      /\ o.skip \in Nat \cup {Unset} /\ o.take \in Nat \cup {Unset}
  <2>1. w \in WalkType /\ Len(o.limit) <= 2
    BY PagingAssumption
  <2>2. o \in Windows
    BY <2>1 DEF WalkType
  <2>3. QED
    BY <2>1, <2>2 DEF Windows
<1> HIDE DEF o
<1>2. Len(o.limit) \in {0, 1, 2} /\ (Len(o.limit) = 0 <=> o.limit = <<>>)
  <2> DEFINE l == o.limit
  <2>1. l \in Seq(Nat) /\ Len(l) <= 2
    BY <1>1
  <2> HIDE DEF l
  <2>2. Len(l) = 0 <=> l = <<>>
    BY <2>1, EmptySeq
  <2> DEFINE n == Len(l)
  <2>3. n \in Nat /\ n <= 2
    BY <2>1, LenProperties
  <2> HIDE DEF n
  <2>4. n \in {0, 1, 2}
    BY <2>3
  <2>5. QED
    BY <2>2, <2>4 DEF l, n
<1>3. CASE Len(o.limit) = 2
  <2>1. o.limit[1] \in Nat /\ o.limit[2] \in Nat
    BY <1>1, <1>3
  <2>2. QED
    BY <1>1, <1>3, <2>1 DEF FindWindow, StreamStart, StreamBound, o
<1>4. CASE Len(o.limit) = 1
  <2>1. o.limit[1] \in Nat /\ o.limit # <<>>
    BY <1>1, <1>2, <1>4, ElementOfSeq
  <2>2. CASE o.skip = Unset
    BY <1>1, <1>4, <2>1, <2>2 DEF FindWindow, StreamStart, StreamBound, o
  <2>3. CASE o.skip # Unset
    BY <1>1, <1>4, <2>1, <2>3 DEF FindWindow, StreamStart, StreamBound, o
  <2>4. QED
    BY <2>2, <2>3
<1>5. CASE o.limit = <<>>
  <2>1. Len(o.limit) = 0
    BY <1>5
  <2>2. CASE o.skip = Unset
    BY <1>1, <1>5, <2>1, <2>2 DEF FindWindow, StreamStart, StreamBound, o
  <2>3. CASE o.skip # Unset
    BY <1>1, <1>5, <2>1, <2>3 DEF FindWindow, StreamStart, StreamBound, o
  <2>4. QED
    BY <2>2, <2>3
<1>6. QED
  BY <1>2, <1>3, <1>4, <1>5

(* A stream starts with nothing delivered. *)
LEMMA StreamStarts == PagingInit => StreamInv
<1> SUFFICES ASSUME PagingInit PROVE StreamInv
  OBVIOUS
<1>1. /\ walk \in Walks /\ changes = 0 /\ table \subseteq TableRows /\ IsFiniteSet(table)
      /\ \A r, s \in table : r.key = s.key => r = s
      /\ got = {} /\ again = {} /\ over = (left = 0)
  BY DEF PagingInit
<1>2. ASSUME walk.kind = "stream"
      PROVE  /\ Covered
             /\ Bound = Unset => left = Unset
             /\ Bound # Unset => left \in Nat /\ left = Bound - (offset - Start)
  <2>1. offset = Start /\ left = Bound
    BY <1>2 DEF PagingInit, Start, Bound
  <2>2. Start \in Nat /\ Bound \in Nat \cup {Unset}
    BY <1>1, <1>2, BoundsAgree DEF Start, Bound
  <2>3. \A r \in table : Rank(table, walk, r) \in Nat
    BY <1>1, RankType
  <2>4. {r \in table : Rank(table, walk, r) >= Start /\ Rank(table, walk, r) < offset} = {}
    BY <2>1, <2>2, <2>3
  <2>5. Covered
    BY <1>1, <2>1, <2>2, <2>4 DEF Covered
  <2>6. QED
    BY <2>1, <2>2, <2>5
<1>3. QED
  BY <1>1, <1>2 DEF StreamInv

(* One turn of the loop of streamBatch(). *)
LEMMA BatchKeepsStream ==
    ASSUME StreamInv, StreamBatch
    PROVE  StreamInv'
<1>1. /\ walk' = walk /\ changes' = changes /\ table' = table /\ walk \in Walks
      /\ walk.kind = "stream" /\ ~over /\ changes \in Nat
  BY DEF StreamInv, StreamBatch, Deliver
<1>2. SUFFICES ASSUME changes = 0 PROVE StreamInv'
  BY <1>1 DEF StreamInv
<1>3. /\ Covered
      /\ Bound = Unset => left = Unset
      /\ Bound # Unset => left \in Nat /\ left = Bound - (offset - Start)
  BY <1>1, <1>2 DEF StreamInv
<1>4. /\ Start \in Nat /\ Bound \in Nat \cup {Unset} /\ walk.size \in Nat \ {0}
      /\ Unset \notin Nat /\ offset \in Nat
  <2>1. Start \in Nat /\ Bound \in Nat \cup {Unset}
    BY <1>1, BoundsAgree DEF Start, Bound
  <2>2. walk.size \in Nat \ {0}
    BY <1>1, WalkFacts
  <2>3. Unset \notin Nat
    BY PagingAssumption
  <2>4. offset \in Nat
    BY <1>3 DEF Covered
  <2>5. QED
    BY <2>1, <2>2, <2>3, <2>4
<1> DEFINE size == IF left = Unset \/ left > walk.size THEN walk.size ELSE left
           bounds == FindWindow(BatchOptions(walk.window, offset, size))
           batch == Slice(table, walk, bounds.from, bounds.count)
           n == Cardinality(batch)
<1>5. size \in Nat /\ (left # Unset => left \in Nat /\ size <= left)
  BY <1>3, <1>4
<1>6. /\ got' = got \cup batch /\ again' = again \cup (batch \cap got)
      /\ offset' = offset + n
      /\ left' = IF left = Unset THEN Unset ELSE left - n
      /\ over' = (n < size \/ (left' # Unset /\ left' <= 0))
  BY DEF StreamBatch, Deliver
<1> HIDE DEF size
<1>7. bounds = [from |-> offset, count |-> size]
  BY <1>4, <1>5 DEF FindWindow, BatchOptions
<1>8. batch = Ranked(table, walk, offset, offset + size)
  <2>1. size # Unset
    BY <1>4, <1>5
  <2> HIDE DEF bounds
  <2>2. QED
    BY <1>7, <2>1 DEF Slice, Ranked
<1> HIDE DEF batch
<1>9. /\ n \in 0 .. size
      /\ batch = {r \in table : Rank(table, walk, r) >= offset /\ Rank(table, walk, r) < offset + n}
      /\ n < size => \A r \in table : Rank(table, walk, r) < offset + n
  <2>1. IsTable(table)
    BY <1>3 DEF Covered, IsTable
  <2>2. n = Cardinality(Ranked(table, walk, offset, offset + size))
    BY <1>8
  <2> HIDE DEF n
  <2>3. /\ n \in 0 .. size
        /\ Ranked(table, walk, offset, offset + size) = Ranked(table, walk, offset, offset + n)
        /\ n < size => \A r \in table : Rank(table, walk, r) < offset + n
    <3>1. walk \in Walks /\ offset \in Nat /\ size \in Nat
      BY <1>1, <1>4, <1>5
    <3>2. IsFiniteSet(Ranked(table, walk, offset, offset + size))
      <4>1. Ranked(table, walk, offset, offset + size) \in SUBSET table
        BY DEF Ranked
      <4>2. QED
        BY <2>1, <4>1, FS_Subset DEF IsTable
    <3>3. n \in Nat
      BY <2>2, <3>2, FS_CardinalityType
    <3>4. QED
      BY <2>1, <2>2, <3>1, <3>3, SliceFacts
  <2>4. QED
    BY <1>8, <2>3 DEF Ranked
<1> HIDE DEF n
<1>10. \A r \in table : Rank(table, walk, r) \in Nat
  BY <1>1, <1>3, RankType DEF Covered
<1>11. Covered'
  <2>1. /\ table \subseteq TableRows /\ IsFiniteSet(table)
        /\ \A r, s \in table : r.key = s.key => r = s
        /\ Start <= offset /\ again = {}
        /\ got = {r \in table : Rank(table, walk, r) >= Start /\ Rank(table, walk, r) < offset}
    BY <1>3 DEF Covered
  <2>2. offset' \in Nat /\ Start <= offset' /\ offset' = offset + n /\ offset <= offset'
    BY <1>4, <1>5, <1>6, <1>9, <2>1
  <2>3. batch \cap got = {}
    <3>1. ASSUME NEW r \in table PROVE ~(r \in batch /\ r \in got)
      BY <1>4, <1>9, <1>10, <2>1
    <3>2. QED
      BY <3>1, <1>9
  <2>4. got' = {r \in table : Rank(table, walk, r) >= Start /\ Rank(table, walk, r) < offset'}
    <3>1. \A r \in table : r \in got' <=> Rank(table, walk, r) >= Start /\ Rank(table, walk, r) < offset'
      <4> TAKE r \in table
      <4> DEFINE k == Rank(table, walk, r)
      <4>1. k \in Nat /\ (r \in got <=> k >= Start /\ k < offset)
            /\ (r \in batch <=> k >= offset /\ k < offset')
        BY <1>9, <1>10, <2>1, <2>2
      <4> HIDE DEF k
      <4>2. r \in got' <=> k >= Start /\ k < offset'
        BY <1>4, <1>6, <2>2, <2>1, <4>1
      <4>3. QED
        BY <4>2 DEF k
    <3>2. got' \subseteq table
      BY <1>6, <1>9, <2>1
    <3>3. QED
      BY <3>1, <3>2
  <2>5. again' = {}
    BY <1>6, <2>1, <2>3
  <2>6. Start' = Start
    BY <1>1 DEF Start
  <2>7. QED
    BY <1>1, <2>1, <2>2, <2>4, <2>5, <2>6 DEF Covered
<1>12. Start' = Start /\ Bound' = Bound
  BY <1>1 DEF Start, Bound
<1>13. /\ Bound = Unset => left' = Unset
       /\ Bound # Unset => left' \in Nat /\ left' = Bound - (offset' - Start)
  BY <1>3, <1>4, <1>5, <1>6, <1>9
<1>14. over' => left' = 0 \/ \A r \in table : Rank(table, walk, r) < offset'
  <2>1. CASE n < size
    BY <1>6, <1>9, <2>1
  <2>2. CASE ~(n < size)
    <3>1. over' => left' # Unset /\ left' <= 0
      BY <1>6, <2>2
    <3>2. left' # Unset => left' \in Nat
      BY <1>13, <1>4
    <3>3. QED
      BY <3>1, <3>2
  <2>3. QED
    BY <2>1, <2>2
<1>15. QED
  <2>1. /\ walk' \in Walks /\ changes' \in Nat /\ Covered'
        /\ Bound' = Unset => left' = Unset
        /\ Bound' # Unset => left' \in Nat /\ left' = Bound' - (offset' - Start')
        /\ over' => left' = 0 \/ \A r \in table' : Rank(table', walk', r) < offset'
    BY <1>1, <1>11, <1>12, <1>13, <1>14
  <2>2. QED
    BY <2>1 DEF StreamInv

(* Every step keeps what a stream has covered. *)
LEMMA StepKeepsStream ==
    ASSUME StreamInv, [PagingNext]_pagingVars
    PROVE  StreamInv'
<1>1. ASSUME NEW kind \in {"page", "pipeline"}, NEW probe \in {0, 1}, ReadPage(kind, probe)
      PROVE  StreamInv'
  BY <1>1 DEF ReadPage, Deliver, StreamInv
<1>2. ASSUME NEW gone, NEW new, Change(gone, new)
      PROVE  StreamInv'
  <2>1. walk' = walk /\ changes' = changes + 1 /\ changes \in Nat /\ walk \in Walks
    BY <1>2 DEF Change, StreamInv
  <2>2. changes' \in Nat /\ changes' # 0
    BY <2>1
  <2>3. QED
    BY <2>1, <2>2 DEF StreamInv
<1>3. CASE UNCHANGED pagingVars
  BY <1>3 DEF pagingVars, StreamInv, Covered, Start, Bound
<1>4. QED
  BY <1>1, <1>2, <1>3, BatchKeepsStream
     DEF PagingNext, CursorPage, KeysetBatch, Insert, Delete, Move

(* While nobody changes the table a stream delivers exactly the rows find() *)
(* reads with the same options, none twice (OffsetWalk), for every window,  *)
(* batch size and table.                                                    *)
THEOREM StreamsAreSound == PagingSpec => []OffsetWalk
<1>1. StreamInv => OffsetWalk
  <2> SUFFICES ASSUME StreamInv, walk.kind = "stream", changes = 0
               PROVE  LET bounds == FindWindow(walk.window)
                          asked == Slice(table, walk, bounds.from, bounds.count)
                      IN again = {} /\ got \subseteq asked /\ (over => got = asked)
    BY DEF OffsetWalk
  <2> DEFINE asked == Slice(table, walk, Start, Bound)
  <2>1. walk \in Walks /\ Covered
    BY DEF StreamInv
  <2>2. /\ FindWindow(walk.window) = [from |-> Start, count |-> Bound]
        /\ Start \in Nat /\ Bound \in Nat \cup {Unset} /\ Unset \notin Nat /\ offset \in Nat
    BY <2>1, BoundsAgree, PagingAssumption DEF Start, Bound, Covered
  <2>3. \A r \in table : Rank(table, walk, r) \in Nat
    BY <2>1, RankType DEF Covered
  <2>4. /\ again = {} /\ Start <= offset
        /\ got = {r \in table : Rank(table, walk, r) >= Start /\ Rank(table, walk, r) < offset}
    BY <2>1 DEF Covered
  <2>5. got \subseteq asked
    <3>1. CASE Bound = Unset
      BY <2>4, <3>1 DEF Slice
    <3>2. CASE Bound # Unset
      <4>1. left \in Nat /\ left = Bound - (offset - Start)
        BY <3>2 DEF StreamInv
      <4>2. offset <= Start + Bound
        BY <2>2, <3>2, <4>1
      <4>3. QED
        BY <2>2, <2>3, <2>4, <4>2 DEF Slice
    <3>3. QED
      BY <3>1, <3>2
  <2>6. ASSUME over, NEW r \in asked
        PROVE  r \in got
    <3>1. r \in table /\ Rank(table, walk, r) \in Nat /\ Rank(table, walk, r) >= Start
          /\ (Bound # Unset => Rank(table, walk, r) < Start + Bound)
      BY <2>3 DEF Slice
    <3>2. Rank(table, walk, r) < offset
      <4>1. CASE left = 0
        <5>1. Bound # Unset /\ 0 = Bound - (offset - Start)
          BY <2>2, <4>1 DEF StreamInv
        <5>2. offset = Start + Bound
          BY <2>2, <5>1
        <5>3. QED
          BY <3>1, <5>1, <5>2
      <4>2. CASE left # 0
        BY <2>6, <3>1, <4>2 DEF StreamInv
      <4>3. QED
        BY <4>1, <4>2
    <3>3. QED
      BY <2>4, <3>1, <3>2
  <2> HIDE DEF asked
  <2>7. again = {} /\ got \subseteq asked /\ (over => got = asked)
    BY <2>4, <2>5, <2>6
  <2>8. QED
    BY <2>2, <2>7 DEF asked
<1>2. QED
  BY <1>1, StreamStarts, StepKeepsStream, PTL DEF PagingSpec

-----------------------------------------------------------------------------
(* The cache of query results *)

(* TypeOK, without the order of use. *)
CacheType ==
    /\ version \in Rows /\ returned \in Rows
    /\ created = TRUE
    /\ entry \in [Keys -> Entries \cup {None}]
    /\ tagIndex \in [Tags -> SUBSET Keys]
    /\ rpc \in [Readers -> {"idle", "missed", "fetching", "read", "done"}]
    /\ rows \in [Readers -> Rows \cup {None}]
    /\ floor \in [Readers -> Rows]
    /\ stale \in [Readers -> BOOLEAN]
    /\ wpc \in [Writers -> {"idle", "open", "committed", "rolledBackOver", "committedOver"}]
    /\ wrote \subseteq Writers /\ settled \subseteq Writers
    /\ held \in [Writers -> SUBSET Tags]

(* The index knows every entry under every tag of it, and an entry has the *)
(* tags of a read that makes its query.                                    *)
EntryAt(k) ==
    entry[k] # None =>
        /\ \A t \in entry[k].tags : k \in tagIndex[t]
        /\ \A t \in entry[k].tags : entry[k].val[t] >= returned[t]
        /\ \E r \in Readers : KeyOf[r] = k /\ entry[k].tags = ReadTags(r)

(* How far a read's rows reach, at each point of the read. *)
ReadAt(r) ==
    /\ rpc[r] \in {"idle", "missed", "fetching"} => rows[r] = None
    /\ rpc[r] \in {"missed", "fetching", "read"} => \A t \in Tags : returned[t] >= floor[r][t]
    /\ rpc[r] = "read" => rows[r] \in Rows /\ \A t \in Tags : rows[r][t] >= floor[r][t]
    /\ rpc[r] = "read" /\ ~stale[r] => \A t \in ReadTags(r) : rows[r][t] >= returned[t]

(* A transaction whose write has finished holds what it wrote. *)
WriteAt(w) ==
    /\ wpc[w] = "idle" => w \notin wrote
    /\ w \in settled => w \in wrote
    /\ w \in settled /\ Active(w) => Writes[w] \subseteq held[w]

CacheInv ==
    /\ CacheType
    /\ \A t \in Tags : version[t] >= returned[t]
    /\ \A k \in Keys : EntryAt(k)
    /\ \A r \in Readers : ReadAt(r)
    /\ \A w \in Writers : WriteAt(w)

(* One query carries one user tag. *)
OneTagPerQuery == \A r, s \in Readers : KeyOf[r] = KeyOf[s] => TagOf[r] = TagOf[s]

-----------------------------------------------------------------------------
(* The tags of a read are tags. *)
LEMMA ReadTagsIn == \A r \in Readers : ReadTags(r) \subseteq Tags
BY QueryCacheAssumption DEF ReadTags, Tags

(* remove(): other entries stay, under the tags they had. *)
LEMMA RemoveFacts ==
    ASSUME CacheType, NEW gone, RemoveKeys(gone)
    PROVE  /\ entry' \in [Keys -> Entries \cup {None}] /\ tagIndex' \in [Tags -> SUBSET Keys]
           /\ \A k \in Keys : entry'[k] # None =>
                 /\ k \notin gone /\ entry'[k] = entry[k]
                 /\ \A t \in Tags : k \in tagIndex[t] => k \in tagIndex'[t]
<1>1. entry' = [k \in Keys |-> IF k \in gone THEN None ELSE entry[k]]
  BY DEF RemoveKeys
<1>2. tagIndex' = [t \in Tags |-> tagIndex[t] \ {k \in gone : entry[k] # None /\ t \in entry[k].tags}]
  BY DEF RemoveKeys, IndexWithout
<1>3. /\ entry \in [Keys -> Entries \cup {None}] /\ tagIndex \in [Tags -> SUBSET Keys]
  BY DEF CacheType
<1>4. entry' \in [Keys -> Entries \cup {None}]
  BY <1>1, <1>3
<1>5. tagIndex' \in [Tags -> SUBSET Keys]
  BY <1>2, <1>3
<1>6. QED
  BY <1>1, <1>2, <1>3, <1>4, <1>5

(* An entry's tags are the tags of a read. *)
LEMMA EntryTags ==
    ASSUME NEW k \in Keys, EntryAt(k), entry[k] # None
    PROVE  entry[k].tags \subseteq Tags
BY ReadTagsIn DEF EntryAt

(* Entries go and nobody is told anything new. *)
LEMMA RemoveKeeps ==
    ASSUME CacheInv, NEW gone, RemoveKeys(gone), returned' = returned, NEW k \in Keys
    PROVE  EntryAt(k)'
<1>1. CacheType /\ EntryAt(k)
  BY DEF CacheInv
<1>2. SUFFICES ASSUME entry'[k] # None PROVE EntryAt(k)'
  BY DEF EntryAt
<1>3. /\ entry'[k] = entry[k] /\ entry[k] # None
      /\ \A t \in Tags : k \in tagIndex[t] => k \in tagIndex'[t]
  BY <1>1, <1>2, RemoveFacts
<1>4. entry[k].tags \subseteq Tags
  BY <1>1, <1>3, EntryTags
<1>5. QED
  BY <1>1, <1>3, <1>4 DEF EntryAt, ReadTags

(* A drop makes room for telling callers of newer rows under its tags: what *)
(* stays in the store, or may still be stored, is not under them.           *)
LEMMA DropKeeps ==
    ASSUME CacheInv, NEW tags \in SUBSET Tags, Drop(tags), returned' \in Rows,
           \A t \in Tags \ tags : returned'[t] = returned[t],
           UNCHANGED <<rpc, rows>>
    PROVE  /\ entry' \in [Keys -> Entries \cup {None}] /\ tagIndex' \in [Tags -> SUBSET Keys]
           /\ stale' \in [Readers -> BOOLEAN]
           /\ \A k \in Keys : EntryAt(k)'
           /\ \A r \in Readers : rpc'[r] = "read" /\ ~stale'[r]
                 => \A t \in ReadTags(r) : rows'[r][t] >= returned'[t]
<1> DEFINE gone == UNION {tagIndex[t] : t \in tags}
<1>1. CacheType
  BY DEF CacheInv
<1>2. RemoveKeys(gone)
  BY DEF Drop
<1>3. stale' = [r \in Readers |-> stale[r] \/ (InFlight(r) /\ ReadTags(r) \cap tags # {})]
  BY DEF Drop
<1>4. /\ entry' \in [Keys -> Entries \cup {None}] /\ tagIndex' \in [Tags -> SUBSET Keys]
      /\ \A k \in Keys : entry'[k] # None =>
            /\ k \notin gone /\ entry'[k] = entry[k]
            /\ \A t \in Tags : k \in tagIndex[t] => k \in tagIndex'[t]
  BY <1>1, <1>2, RemoveFacts
<1>5. ASSUME NEW k \in Keys PROVE EntryAt(k)'
  <2>1. EntryAt(k)
    BY DEF CacheInv
  <2>2. SUFFICES ASSUME entry'[k] # None PROVE EntryAt(k)'
    BY DEF EntryAt
  <2>3. /\ entry'[k] = entry[k] /\ entry[k] # None /\ k \notin gone
        /\ \A t \in Tags : k \in tagIndex[t] => k \in tagIndex'[t]
    BY <1>4, <2>2
  <2>4. entry[k].tags \subseteq Tags
    BY <2>1, <2>3, EntryTags
  <2>5. \A t \in entry[k].tags : returned'[t] = returned[t]
    BY <2>1, <2>3, <2>4 DEF EntryAt
  <2>6. QED
    BY <2>1, <2>3, <2>4, <2>5 DEF EntryAt, ReadTags
<1>6. stale' \in [Readers -> BOOLEAN]
  BY <1>3
<1>7. ASSUME NEW r \in Readers, rpc'[r] = "read", ~stale'[r], NEW t \in ReadTags(r)
      PROVE  rows'[r][t] >= returned'[t]
  <2>1. ~stale[r] /\ t \notin tags
    BY <1>3, <1>7 DEF InFlight
  <2>2. rows[r][t] >= returned[t] /\ t \in Tags
    BY <1>7, <2>1, ReadTagsIn DEF CacheInv, ReadAt
  <2>3. QED
    BY <2>1, <2>2
<1>8. QED
  BY <1>4, <1>5, <1>6, <1>7

(* Callers are told of newer rows; reads go on as they were. *)
LEMMA ToldMore ==
    ASSUME CacheInv, returned' \in Rows, \A t \in Tags : returned'[t] >= returned[t],
           UNCHANGED <<rpc, rows, floor>>, NEW r \in Readers,
           rpc'[r] = "read" /\ ~stale'[r] => \A t \in ReadTags(r) : rows'[r][t] >= returned'[t]
    PROVE  ReadAt(r)'
<1>1. /\ ReadAt(r) /\ returned \in Rows /\ floor[r] \in Rows
  BY DEF CacheInv, CacheType
<1>2. ASSUME rpc[r] \in {"missed", "fetching", "read"}, NEW t \in Tags PROVE returned'[t] >= floor[r][t]
  <2>1. returned[t] >= floor[r][t] /\ returned'[t] >= returned[t]
    BY <1>1, <1>2 DEF ReadAt
  <2>2. returned[t] \in Nat /\ floor[r][t] \in Nat /\ returned'[t] \in Nat
    BY <1>1 DEF Rows
  <2>3. QED
    BY <2>1, <2>2
<1>3. QED
  BY <1>1, <1>2 DEF ReadAt, ReadTags

(* The caller of a finished write of a committed transaction is told. *)
LEMMA ReportedFacts ==
    ASSUME CacheInv, NEW w \in Writers, NEW how, NEW finished, Reported(w, how, finished),
           version' = version
    PROVE  /\ returned' \in Rows
           /\ \A t \in Tags : returned'[t] >= returned[t] /\ version'[t] >= returned'[t]
           /\ ~(how = "committedOver" /\ w \in finished) => returned' = returned
           /\ \A t \in Tags \ Writes[w] : returned'[t] = returned[t]
<1>1. version \in Rows /\ returned \in Rows /\ \A t \in Tags : version[t] >= returned[t]
  BY DEF CacheInv, CacheType
<1>2. returned' = [t \in Tags |-> IF how = "committedOver" /\ w \in finished /\ t \in Writes[w]
                                  THEN version[t] ELSE returned[t]]
  BY DEF Reported
<1>3. \A t \in Tags : version[t] \in Nat /\ returned[t] \in Nat /\ version[t] >= version[t]
                      /\ returned[t] >= returned[t]
  BY <1>1 DEF Rows
<1>4. returned' \in Rows
  BY <1>2, <1>3 DEF Rows
<1>5. ~(how = "committedOver" /\ w \in finished) => returned' = returned
  BY <1>1, <1>2 DEF Rows
<1>6. QED
  BY <1>1, <1>2, <1>3, <1>4, <1>5

-----------------------------------------------------------------------------
(* A read takes a step: the other reads, the writers and what callers were *)
(* told stay as they are.                                                  *)
LEMMA ReadStep ==
    ASSUME CacheInv, NEW r \in Readers,
           Hit(r) \/ Miss(r) \/ Fetch(r) \/ Read(r) \/ Return(r) \/ Again(r)
    PROVE  CacheInv'
<1>1. /\ CacheType /\ \A k \in Keys : EntryAt(k)
      /\ \A s \in Readers : ReadAt(s)
      /\ version \in Rows /\ returned \in Rows /\ floor \in [Readers -> Rows]
      /\ \A t \in Tags : version[t] >= returned[t]
      /\ KeyOf[r] \in Keys
  BY QueryCacheAssumption DEF CacheInv, CacheType
<1>2. UNCHANGED <<version, returned, wpc, wrote, settled, held>>
  BY DEF Hit, Miss, Fetch, Read, Return, Again, writers
<1>3. (\A t \in Tags : version'[t] >= returned'[t]) /\ \A w \in Writers : WriteAt(w)'
  BY <1>2 DEF CacheInv, WriteAt, Active
<1>4. \A t \in Tags : /\ version[t] \in Nat /\ returned[t] \in Nat
                      /\ returned[t] >= returned[t] /\ version[t] >= version[t]
  BY <1>1 DEF Rows
<1>5. ASSUME UNCHANGED <<entry, tagIndex>>, NEW k \in Keys PROVE EntryAt(k)'
  BY <1>1, <1>2, <1>5 DEF EntryAt, ReadTags
<1>6. CASE Hit(r)
  <2>1. /\ rpc[r] = "idle" /\ entry[KeyOf[r]] # None /\ created' = TRUE
        /\ floor' = [floor EXCEPT ![r] = returned]
        /\ rows' = [rows EXCEPT ![r] = entry[KeyOf[r]].val]
        /\ rpc' = [rpc EXCEPT ![r] = "done"]
        /\ UNCHANGED <<entry, tagIndex, stale>>
    BY <1>6 DEF Hit
  <2>2. entry[KeyOf[r]] \in Entries /\ entry[KeyOf[r]].val \in Rows
    BY <1>1, <2>1 DEF CacheType, Entries
  <2>3. CacheType'
    BY <1>1, <1>2, <2>1, <2>2 DEF CacheType
  <2>4. \A s \in Readers : ReadAt(s)'
    BY <1>1, <1>2, <2>1 DEF ReadAt, ReadTags, CacheType
  <2>5. QED
    BY <1>3, <1>5, <2>1, <2>3, <2>4 DEF CacheInv
<1>7. CASE Miss(r)
  <2>1. /\ rpc[r] = "idle" /\ created' = TRUE
        /\ floor' = [floor EXCEPT ![r] = returned]
        /\ rpc' = [rpc EXCEPT ![r] = "missed"]
        /\ UNCHANGED <<rows, stale>>
        /\ UNCHANGED <<entry, tagIndex>> \/ RemoveKeys({KeyOf[r]})
    BY <1>7 DEF Miss, store
  <2>2. entry' \in [Keys -> Entries \cup {None}] /\ tagIndex' \in [Tags -> SUBSET Keys]
    BY <1>1, <2>1, RemoveFacts DEF CacheType
  <2>3. CacheType'
    BY <1>1, <1>2, <2>1, <2>2 DEF CacheType
  <2>4. \A s \in Readers : ReadAt(s)'
    BY <1>1, <1>2, <1>4, <2>1 DEF ReadAt, ReadTags, CacheType
  <2>5. \A k \in Keys : EntryAt(k)'
    BY <1>2, <1>5, <2>1, RemoveKeeps
  <2>6. QED
    BY <1>3, <2>3, <2>4, <2>5 DEF CacheInv
<1>8. CASE Fetch(r)
  <2>1. /\ rpc[r] = "missed" /\ rpc' = [rpc EXCEPT ![r] = "fetching"]
        /\ UNCHANGED <<created, entry, tagIndex, rows, floor, stale>>
    BY <1>8 DEF Fetch, store
  <2>2. CacheType'
    BY <1>1, <1>2, <2>1 DEF CacheType
  <2>3. \A s \in Readers : ReadAt(s)'
    BY <1>1, <1>2, <2>1 DEF ReadAt, ReadTags, CacheType
  <2>4. QED
    BY <1>3, <1>5, <2>1, <2>2, <2>3 DEF CacheInv
<1>9. CASE Read(r)
  <2>1. /\ rpc[r] = "fetching"
        /\ \/ /\ rpc' = [rpc EXCEPT ![r] = "read"]
              /\ rows' = [rows EXCEPT ![r] = version]
              /\ stale' = stale
           \/ /\ rpc' = [rpc EXCEPT ![r] = "done"]
              /\ stale' = [stale EXCEPT ![r] = FALSE]
              /\ rows' = rows
        /\ UNCHANGED <<created, entry, tagIndex, floor>>
    BY <1>9 DEF Read, store
  <2>2. CacheType'
    BY <1>1, <1>2, <2>1 DEF CacheType
  <2>3. ReadAt(r)'
    <3>1. \A t \in Tags : version[t] >= floor[r][t]
      <4> TAKE t \in Tags
      <4>1. returned[t] >= floor[r][t] /\ version[t] >= returned[t] /\ floor[r][t] \in Nat
        BY <1>1, <2>1 DEF ReadAt, Rows
      <4>2. QED
        BY <1>4, <4>1
    <3>2. ReadTags(r) \subseteq Tags
      BY ReadTagsIn
    <3>3. CASE rpc'[r] = "read" /\ rows'[r] = version
      BY <1>1, <1>2, <2>1, <3>1, <3>2, <3>3 DEF ReadAt, ReadTags
    <3>4. CASE rpc'[r] = "done" /\ rows'[r] = rows[r]
      BY <3>4 DEF ReadAt
    <3>5. QED
      BY <1>1, <2>1, <3>3, <3>4 DEF CacheType
  <2>4. \A s \in Readers \ {r} : ReadAt(s)'
    BY <1>1, <1>2, <2>1 DEF ReadAt, ReadTags, CacheType
  <2>5. QED
    BY <1>3, <1>5, <2>1, <2>2, <2>3, <2>4 DEF CacheInv
<1>10. CASE Return(r)
  <2>1. /\ rpc[r] = "read" /\ rpc' = [rpc EXCEPT ![r] = "done"]
        /\ stale' = [stale EXCEPT ![r] = FALSE]
        /\ UNCHANGED <<created, rows, floor>>
        /\ \/ UNCHANGED <<entry, tagIndex>>
           \/ ~stale[r] /\ Put(KeyOf[r], rows[r], ReadTags(r))
    BY <1>10 DEF Return, store
  <2>2. \A s \in Readers : ReadAt(s)'
    BY <1>1, <1>2, <2>1 DEF ReadAt, ReadTags, CacheType
  <2>3. CASE UNCHANGED <<entry, tagIndex>>
    <3>1. CacheType'
      BY <1>1, <1>2, <2>1, <2>3 DEF CacheType
    <3>2. QED
      BY <1>3, <1>5, <2>2, <2>3, <3>1 DEF CacheInv
  <2>4. CASE ~stale[r] /\ Put(KeyOf[r], rows[r], ReadTags(r))
    <3> DEFINE key == KeyOf[r]
               gone == Evicted(key) \cup {key}
               new == [val |-> rows[r], tags |-> ReadTags(r)]
    <3> HIDE DEF gone
    <3>1. /\ entry' = [j \in Keys |-> IF j = key THEN new ELSE IF j \in gone THEN None ELSE entry[j]]
          /\ tagIndex' = [t \in Tags |-> IndexWithout(gone)[t] \cup (IF t \in ReadTags(r) THEN {key} ELSE {})]
      BY <2>4 DEF Put, gone
    <3>2. IndexWithout(gone) =
             [t \in Tags |-> tagIndex[t] \ {k \in gone : entry[k] # None /\ t \in entry[k].tags}]
      BY DEF IndexWithout
    <3>3. rows[r] \in Rows /\ ReadTags(r) \subseteq Tags
          /\ \A t \in ReadTags(r) : rows[r][t] >= returned[t]
      BY <1>1, <2>1, <2>4, ReadTagsIn DEF ReadAt
    <3>4. entry' \in [Keys -> Entries \cup {None}]
      BY <1>1, <3>1, <3>3 DEF CacheType, Entries
    <3>5. tagIndex' \in [Tags -> SUBSET Keys]
      BY <1>1, <3>1, <3>2 DEF CacheType
    <3>6. CacheType'
      BY <1>1, <1>2, <2>1, <3>4, <3>5 DEF CacheType
    <3>7. ASSUME NEW k \in Keys, entry'[k] # None PROVE EntryAt(k)'
      <4>1. CASE k = key
        <5>1. entry'[k] = new
          BY <3>1, <4>1
        <5>2. \A t \in ReadTags(r) : k \in tagIndex'[t]
          BY <3>1, <3>3, <4>1
        <5>3. QED
          BY <1>2, <3>3, <4>1, <5>1, <5>2 DEF EntryAt, ReadTags
      <4>2. CASE k # key
        <5>1. k \notin gone /\ entry'[k] = entry[k] /\ entry[k] # None
          BY <3>1, <3>7, <4>2
        <5>2. EntryAt(k) /\ entry[k].tags \subseteq Tags
          BY <1>1, <5>1, EntryTags
        <5>3. \A t \in entry[k].tags : k \in tagIndex'[t]
          BY <3>1, <3>2, <5>1, <5>2 DEF EntryAt
        <5>4. QED
          BY <1>2, <5>1, <5>2, <5>3 DEF EntryAt, ReadTags
      <4>3. QED
        BY <4>1, <4>2
    <3>8. \A k \in Keys : EntryAt(k)'
      BY <3>7 DEF EntryAt
    <3>9. QED
      BY <1>3, <2>2, <3>6, <3>8 DEF CacheInv
  <2>5. QED
    BY <2>1, <2>3, <2>4
<1>11. CASE Again(r)
  <2>1. /\ rpc[r] = "done" /\ rpc' = [rpc EXCEPT ![r] = "idle"]
        /\ rows' = [rows EXCEPT ![r] = None]
        /\ floor' = [floor EXCEPT ![r] = [t \in Tags |-> 0]]
        /\ UNCHANGED <<created, entry, tagIndex, stale>>
    BY <1>11 DEF Again, store
  <2>2. CacheType'
    BY <1>1, <1>2, <2>1 DEF CacheType, Rows
  <2>3. \A s \in Readers : ReadAt(s)'
    BY <1>1, <1>2, <2>1 DEF ReadAt, ReadTags, CacheType
  <2>4. QED
    BY <1>3, <1>5, <2>1, <2>2, <2>3 DEF CacheInv
<1>12. QED
  BY <1>6, <1>7, <1>8, <1>9, <1>10, <1>11

(* Tags are dropped, and callers are told of newer rows at most under them. *)
LEMMA DropStep ==
    ASSUME CacheInv, NEW tags \in SUBSET Tags, Drop(tags), returned' \in Rows,
           \A t \in Tags \ tags : returned'[t] = returned[t],
           \A t \in Tags : returned'[t] >= returned[t] /\ version'[t] >= returned'[t],
           created' = TRUE, version' \in Rows, UNCHANGED <<rpc, rows, floor>>,
           wpc' \in [Writers -> {"idle", "open", "committed", "rolledBackOver", "committedOver"}],
           wrote' \subseteq Writers, settled' \subseteq Writers, held' \in [Writers -> SUBSET Tags],
           \A w \in Writers : WriteAt(w)'
    PROVE  CacheInv'
<1>1. /\ entry' \in [Keys -> Entries \cup {None}] /\ tagIndex' \in [Tags -> SUBSET Keys]
      /\ stale' \in [Readers -> BOOLEAN]
      /\ \A k \in Keys : EntryAt(k)'
      /\ \A r \in Readers : rpc'[r] = "read" /\ ~stale'[r]
            => \A t \in ReadTags(r) : rows'[r][t] >= returned'[t]
  BY DropKeeps
<1>2. \A r \in Readers : ReadAt(r)'
  BY <1>1, ToldMore
<1>3. CacheType'
  BY <1>1 DEF CacheInv, CacheType
<1>4. QED
  BY <1>1, <1>2, <1>3 DEF CacheInv

(* Nothing is dropped, and nobody is told anything new. *)
LEMMA HoldStep ==
    ASSUME CacheInv, UNCHANGED <<entry, tagIndex, stale, returned, rpc, rows, floor>>,
           created' = TRUE, version' \in Rows, \A t \in Tags : version'[t] >= returned[t],
           wpc' \in [Writers -> {"idle", "open", "committed", "rolledBackOver", "committedOver"}],
           wrote' \subseteq Writers, settled' \subseteq Writers, held' \in [Writers -> SUBSET Tags],
           \A w \in Writers : WriteAt(w)'
    PROVE  CacheInv'
<1>1. CacheType'
  BY DEF CacheInv, CacheType
<1>2. (\A k \in Keys : EntryAt(k)') /\ \A r \in Readers : ReadAt(r)'
  BY DEF CacheInv, EntryAt, ReadAt, ReadTags
<1>3. QED
  BY <1>1, <1>2 DEF CacheInv

(* A transaction takes a step. *)
LEMMA WriteStep ==
    ASSUME CacheInv, NEW w \in Writers,
           Begin(w) \/ Write(w) \/ Settle(w) \/ InvalidateTables(w) \/ Commit(w) \/ End(w)
    PROVE  CacheInv'
<1>1. /\ version \in Rows /\ returned \in Rows /\ created = TRUE
      /\ wpc \in [Writers -> {"idle", "open", "committed", "rolledBackOver", "committedOver"}]
      /\ wrote \subseteq Writers /\ settled \subseteq Writers /\ held \in [Writers -> SUBSET Tags]
      /\ \A t \in Tags : version[t] >= returned[t]
      /\ \A v \in Writers : WriteAt(v)
      /\ Writes[w] \subseteq Tags
  BY QueryCacheAssumption DEF CacheInv, CacheType, Tags
<1>2. \A t \in Tags : version[t] \in Nat /\ returned[t] \in Nat
                      /\ returned[t] >= returned[t] /\ version[t] >= version[t]
  BY <1>1 DEF Rows
<1>3. CASE Begin(w)
  <2>1. /\ wpc[w] = "idle" /\ wpc' = [wpc EXCEPT ![w] = "open"]
        /\ UNCHANGED <<version, returned, created, entry, tagIndex, rpc, rows, floor, stale,
                       wrote, settled, held>>
    BY <1>3 DEF Begin, store, readers
  <2>2. \A v \in Writers : WriteAt(v)'
    BY <1>1, <2>1 DEF WriteAt, Active
  <2>3. QED
    BY <1>1, <2>1, <2>2, HoldStep
<1>4. CASE Write(w)
  <2>1. /\ wpc[w] = "open" /\ w \notin wrote /\ wrote' = wrote \cup {w}
        /\ UNCHANGED <<version, returned, created, entry, tagIndex, rpc, rows, floor, stale,
                       wpc, settled, held>>
    BY <1>4 DEF Write, store, readers
  <2>2. \A v \in Writers : WriteAt(v)'
    BY <1>1, <2>1 DEF WriteAt, Active
  <2>3. QED
    BY <1>1, <2>1, <2>2, HoldStep
<1>5. CASE Settle(w)
  <2>1. /\ w \in wrote /\ settled' = settled \cup {w}
        /\ \/ Active(w) /\ held' = [held EXCEPT ![w] = @ \cup Writes[w]]
              /\ UNCHANGED <<entry, tagIndex, stale>>
           \/ ~Active(w) /\ Drop(Writes[w]) /\ held' = held
        /\ Reported(w, wpc[w], settled')
        /\ UNCHANGED <<version, created, rpc, rows, floor, wpc, wrote>>
    BY <1>1, <1>5 DEF Settle, store
  <2>2. held' \in [Writers -> SUBSET Tags] /\ \A v \in Writers : WriteAt(v)'
    BY <1>1, <2>1 DEF WriteAt, Active
  <2>3. /\ returned' \in Rows
        /\ \A t \in Tags : returned'[t] >= returned[t] /\ version'[t] >= returned'[t]
        /\ wpc[w] # "committedOver" => returned' = returned
        /\ \A t \in Tags \ Writes[w] : returned'[t] = returned[t]
    BY <2>1, ReportedFacts
  <2>4. CASE Active(w)
    <3>1. returned' = returned /\ UNCHANGED <<entry, tagIndex, stale>>
      BY <2>1, <2>3, <2>4 DEF Active
    <3>2. QED
      BY <1>1, <2>1, <2>2, <3>1, HoldStep
  <2>5. CASE ~Active(w)
    <3>1. Drop(Writes[w])
      BY <2>1, <2>5
    <3>2. QED
      BY <1>1, <2>1, <2>2, <2>3, <3>1, DropStep
  <2>6. QED
    BY <2>4, <2>5
<1>6. CASE InvalidateTables(w)
  <2>1. /\ w \in wrote /\ settled' = settled \cup {w} /\ created' = TRUE
        /\ Drop(Writes[w])
        /\ held' = IF Active(w) THEN [held EXCEPT ![w] = @ \cup Writes[w]] ELSE held
        /\ Reported(w, wpc[w], settled')
        /\ UNCHANGED <<version, rpc, rows, floor, wpc, wrote>>
    BY <1>6 DEF InvalidateTables
  <2>2. held' \in [Writers -> SUBSET Tags] /\ \A v \in Writers : WriteAt(v)'
    <3>1. CASE Active(w)
      BY <1>1, <2>1, <3>1 DEF WriteAt, Active
    <3>2. CASE ~Active(w)
      BY <1>1, <2>1, <3>2 DEF WriteAt, Active
    <3>3. QED
      BY <3>1, <3>2
  <2>3. /\ returned' \in Rows
        /\ \A t \in Tags : returned'[t] >= returned[t] /\ version'[t] >= returned'[t]
        /\ \A t \in Tags \ Writes[w] : returned'[t] = returned[t]
    BY <2>1, ReportedFacts
  <2>4. QED
    BY <1>1, <2>1, <2>2, <2>3, DropStep
<1>7. CASE Commit(w)
  <2>1. /\ wpc[w] = "open" /\ wpc' = [wpc EXCEPT ![w] = "committed"]
        /\ version' = [t \in Tags |-> IF w \in wrote /\ t \in Writes[w] THEN version[t] + 1 ELSE version[t]]
        /\ UNCHANGED <<returned, created, entry, tagIndex, rpc, rows, floor, stale, wrote, settled, held>>
    BY <1>7 DEF Commit, store, readers
  <2>2. \A v \in Writers : WriteAt(v)'
    BY <1>1, <2>1 DEF WriteAt, Active
  <2>3. version' \in Rows /\ \A t \in Tags : version'[t] >= returned[t]
    <3>1. \A t \in Tags : version[t] + 1 \in Nat /\ version[t] + 1 >= returned[t]
      <4> TAKE t \in Tags
      <4> DEFINE a == version[t]
                 b == returned[t]
      <4>1. a \in Nat /\ b \in Nat /\ a >= b
        BY <1>1, <1>2
      <4> HIDE DEF a, b
      <4>2. a + 1 \in Nat /\ a + 1 >= b
        BY <4>1
      <4>3. QED
        BY <4>2 DEF a, b
    <3>2. QED
      BY <1>1, <1>2, <2>1, <3>1 DEF Rows
  <2>4. QED
    BY <1>1, <2>1, <2>2, <2>3, HoldStep
<1>8. CASE End(w)
  <2>1. /\ \/ wpc[w] = "open" /\ wpc' = [wpc EXCEPT ![w] = "rolledBackOver"]
           \/ wpc[w] = "committed" /\ wpc' = [wpc EXCEPT ![w] = "committedOver"]
        /\ \/ held[w] = {} /\ UNCHANGED <<entry, tagIndex, stale>>
           \/ held[w] # {} /\ Drop(held[w])
        /\ held' = [held EXCEPT ![w] = {}]
        /\ Reported(w, wpc'[w], settled)
        /\ UNCHANGED <<version, created, rpc, rows, floor, wrote, settled>>
    BY <1>8 DEF End, store
  <2>2. /\ wpc' \in [Writers -> {"idle", "open", "committed", "rolledBackOver", "committedOver"}]
        /\ held' \in [Writers -> SUBSET Tags] /\ held[w] \in SUBSET Tags
        /\ wpc'[w] \in {"rolledBackOver", "committedOver"}
        /\ \A v \in Writers : WriteAt(v)'
    BY <1>1, <2>1 DEF WriteAt, Active
  <2>3. /\ returned' \in Rows
        /\ \A t \in Tags : returned'[t] >= returned[t] /\ version'[t] >= returned'[t]
        /\ ~(wpc'[w] = "committedOver" /\ w \in settled) => returned' = returned
        /\ \A t \in Tags \ Writes[w] : returned'[t] = returned[t]
    BY <2>1, ReportedFacts
  <2>4. w \in settled => Writes[w] \subseteq held[w]
    BY <1>1, <2>1 DEF WriteAt, Active
  <2>5. \A t \in Tags \ held[w] : returned'[t] = returned[t]
    BY <2>3, <2>4
  <2>6. CASE held[w] = {}
    <3>1. returned' = returned
      BY <1>1, <2>3, <2>5, <2>6 DEF Rows
    <3>2. UNCHANGED <<entry, tagIndex, stale>>
      BY <2>1, <2>6
    <3>3. QED
      BY <1>1, <2>1, <2>2, <3>1, <3>2, HoldStep
  <2>7. CASE held[w] # {}
    <3>1. Drop(held[w])
      BY <2>1, <2>7
    <3>2. QED
      BY <1>1, <2>1, <2>2, <2>3, <2>5, <3>1, DropStep
  <2>8. QED
    BY <2>6, <2>7
<1>9. QED
  BY <1>3, <1>4, <1>5, <1>6, <1>7, <1>8

(* Tags are invalidated by hand. *)
LEMMA InvalidateStep ==
    ASSUME CacheInv, Clear \/ \E u \in UserTags : InvalidateTag(u)
    PROVE  CacheInv'
<1>1. /\ version \in Rows /\ returned \in Rows
      /\ wpc \in [Writers -> {"idle", "open", "committed", "rolledBackOver", "committedOver"}]
      /\ wrote \subseteq Writers /\ settled \subseteq Writers /\ held \in [Writers -> SUBSET Tags]
      /\ \A t \in Tags : version[t] >= returned[t]
      /\ \A v \in Writers : WriteAt(v)
  BY DEF CacheInv, CacheType
<1>2. \A t \in Tags : version[t] \in Nat /\ returned[t] \in Nat /\ returned[t] >= returned[t]
  BY <1>1 DEF Rows
<1>3. CASE Clear
  <2>1. /\ created' = TRUE /\ Drop(Tags)
        /\ UNCHANGED <<version, returned, rpc, rows, floor, wpc, wrote, settled>>
    BY <1>3 DEF Clear
  <2>2. held' = held \/ \E w \in Writers : Active(w) /\ held' = [held EXCEPT ![w] = Tags]
    BY <1>3 DEF Clear
  <2>3. /\ held' \in [Writers -> SUBSET Tags]
        /\ \A v \in Writers : held[v] \subseteq held'[v]
    BY <1>1, <2>2
  <2>4. \A v \in Writers : WriteAt(v)'
    BY <1>1, <2>1, <2>3 DEF WriteAt, Active
  <2>5. QED
    BY <1>1, <1>2, <2>1, <2>3, <2>4, DropStep
<1>4. ASSUME NEW u \in UserTags, InvalidateTag(u) PROVE CacheInv'
  <2>1. /\ created' = TRUE /\ Drop({u}) /\ {u} \in SUBSET Tags
        /\ version' = [version EXCEPT ![u] = @ + 1]
        /\ returned' = [returned EXCEPT ![u] = @ + 1]
        /\ UNCHANGED <<rpc, rows, floor, wpc, wrote, settled, held>>
    BY <1>4 DEF InvalidateTag, Tags, writers
  <2>2. version' \in Rows /\ returned' \in Rows
    BY <1>1, <2>1 DEF Rows
  <2>3. \A t \in Tags \ {u} : version'[t] = version[t] /\ returned'[t] = returned[t]
    BY <1>1, <2>1 DEF Rows
  <2>4. returned'[u] >= returned[u] /\ version'[u] >= returned'[u]
    <3> DEFINE a == version[u]
               b == returned[u]
    <3>1. a \in Nat /\ b \in Nat /\ a >= b /\ version'[u] = a + 1 /\ returned'[u] = b + 1
      BY <1>1, <1>2, <2>1 DEF Rows
    <3> HIDE DEF a, b
    <3>2. b + 1 >= b /\ a + 1 >= b + 1
      BY <3>1
    <3>3. QED
      BY <3>1, <3>2 DEF b
  <2>5. \A v \in Writers : WriteAt(v)'
    BY <1>1, <2>1 DEF WriteAt, Active
  <2>6. \A t \in Tags : returned'[t] >= returned[t] /\ version'[t] >= returned'[t]
    BY <1>1, <1>2, <2>3, <2>4
  <2>7. QED
    BY <1>1, <2>1, <2>2, <2>3, <2>5, <2>6, DropStep
<1>5. QED
  BY <1>3, <1>4

(* The invariant holds from the start, with a cache that is there. *)
LEMMA CacheAlways == ASSUME Configured = TRUE PROVE Spec => []CacheInv
<1>1. Init => CacheInv
  <2> SUFFICES ASSUME Init PROVE CacheInv
    OBVIOUS
  <2>1. [t \in Tags |-> 0] \in Rows
    BY DEF Rows
  <2>2. CacheType
    BY <2>1 DEF Init, CacheType
  <2>3. \A t \in Tags : version[t] >= returned[t]
    BY DEF Init
  <2>4. (\A k \in Keys : EntryAt(k)) /\ \A r \in Readers : ReadAt(r)
    BY DEF Init, EntryAt, ReadAt
  <2>5. \A w \in Writers : WriteAt(w)
    BY DEF Init, WriteAt
  <2>6. QED
    BY <2>2, <2>3, <2>4, <2>5 DEF CacheInv
<1>2. CacheInv /\ [Next]_vars => CacheInv'
  <2> SUFFICES ASSUME CacheInv, [Next]_vars PROVE CacheInv'
    OBVIOUS
  <2>1. CASE UNCHANGED vars
    BY <2>1 DEF vars, store, readers, writers, CacheInv, CacheType, EntryAt, ReadAt, WriteAt,
                ReadTags, Active
  <2>2. QED
    BY <2>1, ReadStep, WriteStep, InvalidateStep DEF Next
<1>3. QED
  BY <1>1, <1>2, PTL DEF Spec

(* Rows fetched just before a COMMIT never land in the cache after it        *)
(* (runQuery, invalidateEntity, holdUntilTransactionEnd), for any queries,   *)
(* transactions and tags: no entry is older than what a caller was told is   *)
(* in place.                                                                 *)
THEOREM CacheFresh == ASSUME Configured = TRUE PROVE Spec => []NoStaleEntry
<1>1. CacheInv => NoStaleEntry
  BY DEF CacheInv, EntryAt, NoStaleEntry
<1>2. QED
  BY <1>1, CacheAlways, PTL

(* A read finds every write whose call and transaction returned before the   *)
(* read began (runQuery), and nothing its own tag was invalidated for, when  *)
(* a query always carries the same tag: a read under way passes what it was  *)
(* read at, a hit what its entry holds, on to its caller.                    *)
THEOREM CacheCurrent == ASSUME Configured = TRUE, OneTagPerQuery PROVE Spec => []ReadsAreCurrent
<1>1. Init => ReadsAreCurrent
  BY DEF Init, ReadsAreCurrent
<1>2. CacheInv /\ ReadsAreCurrent /\ [Next]_vars => ReadsAreCurrent'
  <2> SUFFICES ASSUME CacheInv, ReadsAreCurrent, [Next]_vars, NEW r \in Readers,
                      rpc'[r] = "done", rows'[r] # None, NEW t \in ReadTags(r)
               PROVE  rows'[r][t] >= floor'[r][t]
    BY DEF ReadsAreCurrent, ReadTags
  <2>1. /\ ReadAt(r) /\ t \in Tags /\ KeyOf[r] \in Keys
        /\ rpc \in [Readers -> {"idle", "missed", "fetching", "read", "done"}]
        /\ rows \in [Readers -> Rows \cup {None}] /\ floor \in [Readers -> Rows]
    BY ReadTagsIn, QueryCacheAssumption DEF CacheInv, CacheType
  <2>2. CASE UNCHANGED <<rpc[r], rows[r], floor[r]>>
    BY <2>2 DEF ReadsAreCurrent
  <2>3. CASE Hit(r)
    <3> DEFINE k == KeyOf[r]
    <3>1. /\ entry[k] # None /\ rows'[r] = entry[k].val /\ floor'[r] = returned
      BY <2>1, <2>3 DEF Hit
    <3>2. PICK s \in Readers : KeyOf[s] = k /\ entry[k].tags = ReadTags(s)
      BY <2>1, <3>1 DEF CacheInv, EntryAt
    <3>3. t \in entry[k].tags
      BY <3>2 DEF OneTagPerQuery, ReadTags
    <3>4. entry[k].val[t] >= returned[t]
      BY <2>1, <3>1, <3>3 DEF CacheInv, EntryAt
    <3>5. QED
      BY <3>1, <3>4
  <2>4. CASE Read(r)
    BY <2>1, <2>4 DEF Read, ReadAt
  <2>5. CASE Return(r)
    BY <2>1, <2>5 DEF Return, ReadAt
  <2>6. CASE Miss(r) \/ Fetch(r) \/ Again(r)
    BY <2>1, <2>6 DEF Miss, Fetch, Again
  <2>7. ASSUME NEW s \in Readers, s # r,
               Hit(s) \/ Miss(s) \/ Fetch(s) \/ Read(s) \/ Return(s) \/ Again(s)
        PROVE  UNCHANGED <<rpc[r], rows[r], floor[r]>>
    BY <2>1, <2>7 DEF Hit, Miss, Fetch, Read, Return, Again
  <2>8. ASSUME NEW w \in Writers,
               Begin(w) \/ Write(w) \/ Settle(w) \/ InvalidateTables(w) \/ Commit(w) \/ End(w)
        PROVE  UNCHANGED <<rpc[r], rows[r], floor[r]>>
    BY <2>8 DEF Begin, Write, Settle, InvalidateTables, Commit, End, readers
  <2>9. ASSUME Clear \/ (\E u \in UserTags : InvalidateTag(u)) \/ UNCHANGED vars
        PROVE  UNCHANGED <<rpc[r], rows[r], floor[r]>>
    BY <2>9 DEF Clear, InvalidateTag, vars, readers
  <2>10. QED
    BY <2>2, <2>3, <2>4, <2>5, <2>6, <2>7, <2>8, <2>9 DEF Next
<1>3. QED
  BY <1>1, <1>2, CacheAlways, PTL DEF Spec

-----------------------------------------------------------------------------
(* The in-memory store: what it is, and that each operation keeps it sound. *)
StoreType ==
    /\ entry \in [Keys -> Entries \cup {None}]
    /\ order \in Seq(Keys)
    /\ tagIndex \in [Tags -> SUBSET Keys]

StoreSound == StoreType /\ IndexMatchesEntries /\ BoundedEntries

(* A read that has its rows has them. *)
RowsThere == \A r \in Readers : rpc[r] = "read" => rows[r] # None

StoreInv == StoreIsSound /\ RowsThere

(* remove() of any keys. *)
LEMMA RemoveSound ==
    ASSUME StoreSound, NEW gone, RemoveKeys(gone)
    PROVE  StoreSound'
<1>1. /\ entry \in [Keys -> Entries \cup {None}] /\ order \in Seq(Keys)
      /\ tagIndex \in [Tags -> SUBSET Keys]
      /\ ToSet(order) = {k \in Keys : entry[k] # None} /\ IsInjective(order)
      /\ \A t \in Tags : tagIndex[t] = {k \in ToSet(order) : t \in entry[k].tags}
      /\ Len(order) <= MaxEntries
  BY DEF StoreSound, StoreType, IndexMatchesEntries, BoundedEntries
<1>2. /\ entry' = [k \in Keys |-> IF k \in gone THEN None ELSE entry[k]]
      /\ order' = Without(order, gone)
      /\ tagIndex' = [t \in Tags |-> tagIndex[t] \ {k \in gone : entry[k] # None /\ t \in entry[k].tags}]
  BY DEF RemoveKeys, IndexWithout
<1>3. /\ order' \in Seq(Keys) /\ ToSet(order') = ToSet(order) \ gone /\ IsInjective(order')
      /\ Len(order') <= Len(order)
  BY <1>1, <1>2, WithoutFacts
<1>4. StoreType'
  BY <1>1, <1>2, <1>3 DEF StoreType
<1>5. ToSet(order') = {k \in Keys : entry'[k] # None}
  BY <1>1, <1>2, <1>3
<1>6. ASSUME NEW t \in Tags PROVE tagIndex'[t] = {k \in ToSet(order') : t \in entry'[k].tags}
  <2>1. \A k \in ToSet(order') : entry'[k] = entry[k]
    BY <1>1, <1>2, <1>3
  <2>2. tagIndex'[t] = {k \in ToSet(order) \ gone : t \in entry[k].tags}
    BY <1>1, <1>2
  <2>3. QED
    BY <1>3, <2>1, <2>2
<1>7. Len(order') <= MaxEntries
  BY <1>1, <1>3, LenProperties, QueryCacheAssumption
<1>8. QED
  BY <1>3, <1>4, <1>5, <1>6, <1>7 DEF StoreSound, IndexMatchesEntries, BoundedEntries

(* How many keys remain when those before the last MaxEntries - 1 are taken  *)
(* out to make room for k.                                                   *)
LEMMA RoomFor ==
    ASSUME order \in Seq(Keys), IsInjective(order), MaxEntries >= 1, NEW k \in Keys
    PROVE  Len(Without(order, Evicted(k) \cup {k})) < MaxEntries
<1>1. PICK others : others = Without(order, {k})
  OBVIOUS
<1>2. others \in Seq(Keys) /\ IsInjective(others)
  BY <1>1, WithoutFacts
<1>3. Len(others) \in Nat /\ DOMAIN others = 1..Len(others)
  BY <1>2, LenProperties
<1>4. Evicted(k) = {others[i] : i \in {j \in DOMAIN others : Len(others) - j + 1 >= MaxEntries}}
  BY <1>1 DEF Evicted
<1>5. Without(order, Evicted(k) \cup {k}) = Without(others, Evicted(k))
  <2>1. Without(Without(order, {k}), Evicted(k)) = Without(order, {k} \cup Evicted(k))
    BY WithoutTwice
  <2>2. {k} \cup Evicted(k) = Evicted(k) \cup {k}
    OBVIOUS
  <2>3. QED
    BY <1>1, <2>1, <2>2
<1>6. MaxEntries \in Nat
  BY QueryCacheAssumption
<1>7. CASE Len(others) >= MaxEntries
  <2>1. PICK m : m = Len(others) + 1 - MaxEntries
    OBVIOUS
  <2>2. m \in Nat /\ m <= Len(others) /\ Len(others) - m < MaxEntries
    BY <1>3, <1>6, <1>7, <2>1
  <2>3. {j \in DOMAIN others : Len(others) - j + 1 >= MaxEntries} = 1..m
    BY <1>3, <1>6, <1>7, <2>1
  <2>4. Evicted(k) = {others[i] : i \in 1..m}
    BY <1>4, <2>3
  <2>5. Len(Without(others, Evicted(k))) = Len(others) - m
    BY <1>2, <2>2, <2>4, WithoutFirst
  <2>6. QED
    BY <1>5, <2>2, <2>5
<1>8. CASE Len(others) < MaxEntries
  <2>1. PICK w : w = Without(others, Evicted(k))
    OBVIOUS
  <2>2. Len(w) <= Len(others) /\ w \in Seq(Keys)
    BY <1>2, <2>1, WithoutFacts
  <2>3. Len(w) \in Nat
    BY <2>2, LenProperties
  <2>4. Len(w) < MaxEntries
    BY <1>3, <1>6, <1>8, <2>2, <2>3
  <2>5. QED
    BY <1>5, <2>1, <2>4
<1>9. QED
  BY <1>3, <1>6, <1>7, <1>8

(* set() of a row set. *)
LEMMA PutSound ==
    ASSUME StoreSound, MaxEntries >= 1, NEW k \in Keys, NEW value \in Rows,
           NEW tags \in SUBSET Tags, Put(k, value, tags)
    PROVE  StoreSound'
<1>1. PICK gone : gone = Evicted(k) \cup {k}
  OBVIOUS
<1>2. PICK new : new = [val |-> value, tags |-> tags]
  OBVIOUS
<1>3. new \in Entries /\ new # None /\ new.tags = tags
  BY <1>2, QueryCacheAssumption DEF Entries
<1>4. /\ entry \in [Keys -> Entries \cup {None}] /\ order \in Seq(Keys)
      /\ tagIndex \in [Tags -> SUBSET Keys]
      /\ ToSet(order) = {j \in Keys : entry[j] # None} /\ IsInjective(order)
      /\ \A t \in Tags : tagIndex[t] = {j \in ToSet(order) : t \in entry[j].tags}
  BY DEF StoreSound, StoreType, IndexMatchesEntries
<1>5. /\ entry' = [j \in Keys |-> IF j = k THEN new ELSE IF j \in gone THEN None ELSE entry[j]]
      /\ order' = Append(Without(order, gone), k)
      /\ tagIndex' = [t \in Tags |-> IndexWithout(gone)[t] \cup (IF t \in tags THEN {k} ELSE {})]
  BY <1>1, <1>2 DEF Put
<1>6. PICK kept : kept = Without(order, gone)
  OBVIOUS
<1>7. kept \in Seq(Keys) /\ ToSet(kept) = ToSet(order) \ gone /\ IsInjective(kept)
  BY <1>4, <1>6, WithoutFacts
<1>8. order' = Append(kept, k)
  BY <1>5, <1>6
<1>9. order' \in Seq(Keys) /\ Len(order') = Len(kept) + 1 /\ Len(kept) \in Nat
  BY <1>7, <1>8, AppendProperties, LenProperties
<1>10. k \notin ToSet(kept)
  BY <1>1, <1>7
<1>11. ToSet(order') = ToSet(kept) \cup {k} /\ IsInjective(order')
  BY <1>7, <1>8, <1>10, AppendFacts
<1>12. IndexWithout(gone) =
          [t \in Tags |-> tagIndex[t] \ {j \in gone : entry[j] # None /\ t \in entry[j].tags}]
  BY DEF IndexWithout
<1>13. StoreType'
  BY <1>3, <1>4, <1>5, <1>9, <1>12 DEF StoreType
<1>14. ToSet(order') = {j \in Keys : entry'[j] # None}
  BY <1>3, <1>4, <1>5, <1>7, <1>11
<1>15. ASSUME NEW t \in Tags PROVE tagIndex'[t] = {j \in ToSet(order') : t \in entry'[j].tags}
  <2>1. \A j \in ToSet(kept) : entry'[j] = entry[j]
    BY <1>4, <1>5, <1>7, <1>10
  <2>2. IndexWithout(gone)[t] = {j \in ToSet(kept) : t \in entry[j].tags}
    BY <1>4, <1>7, <1>12
  <2>3. entry'[k].tags = tags
    BY <1>3, <1>5
  <2>4. tagIndex'[t] = IndexWithout(gone)[t] \cup (IF t \in tags THEN {k} ELSE {})
    BY <1>5
  <2>5. QED
    BY <1>11, <2>1, <2>2, <2>3, <2>4
<1>16. Len(order') <= MaxEntries
  <2>1. Len(kept) < MaxEntries
    BY <1>1, <1>4, <1>6, RoomFor
  <2>2. QED
    BY <1>9, <2>1, QueryCacheAssumption
<1>17. QED
  BY <1>11, <1>13, <1>14, <1>15, <1>16 DEF StoreSound, IndexMatchesEntries, BoundedEntries

(* get() of a key that is there: it becomes the one used last. *)
LEMMA UseSound ==
    ASSUME StoreSound, NEW k \in Keys, entry[k] # None, UNCHANGED <<entry, tagIndex>>,
           order' = Append(Without(order, {k}), k)
    PROVE  StoreSound'
<1>1. /\ order \in Seq(Keys) /\ ToSet(order) = {j \in Keys : entry[j] # None} /\ IsInjective(order)
      /\ \A t \in Tags : tagIndex[t] = {j \in ToSet(order) : t \in entry[j].tags}
      /\ Len(order) <= MaxEntries
  BY DEF StoreSound, StoreType, IndexMatchesEntries, BoundedEntries
<1>2. PICK kept : kept = Without(order, {k})
  OBVIOUS
<1>3. kept \in Seq(Keys) /\ ToSet(kept) = ToSet(order) \ {k} /\ IsInjective(kept)
  BY <1>1, <1>2, WithoutFacts
<1>4. Len(kept) < Len(order)
  BY <1>1, <1>2, WithoutSome
<1>5. PICK o : o = Append(kept, k)
  OBVIOUS
<1>6. o \in Seq(Keys) /\ Len(o) = Len(kept) + 1 /\ Len(kept) \in Nat /\ Len(order) \in Nat
  <2>1. o \in Seq(Keys) /\ Len(o) = Len(kept) + 1
    BY <1>3, <1>5, AppendProperties
  <2>2. QED
    BY <1>1, <1>3, <2>1, LenProperties
<1>7. k \notin ToSet(kept)
  BY <1>3
<1>8. ToSet(o) = ToSet(kept) \cup {k} /\ IsInjective(o)
  <2>1. /\ ToSet(Append(kept, k)) = ToSet(kept) \cup {k}
        /\ IsInjective(Append(kept, k)) <=> IsInjective(kept) /\ k \notin ToSet(kept)
    BY <1>3, AppendFacts
  <2>2. QED
    BY <1>3, <1>5, <1>7, <2>1
<1>9. ToSet(o) = ToSet(order)
  BY <1>1, <1>3, <1>8
<1>10. Len(o) <= MaxEntries
  BY <1>1, <1>4, <1>6, QueryCacheAssumption
<1>11. order' = o
  BY <1>2, <1>5
<1>12. StoreType'
  BY <1>6, <1>11 DEF StoreSound, StoreType
<1>13. QED
  BY <1>1, <1>8, <1>9, <1>10, <1>11, <1>12 DEF StoreSound, IndexMatchesEntries, BoundedEntries

(* A drop of any tags. *)
LEMMA DropSound == ASSUME StoreSound, NEW tags, Drop(tags) PROVE StoreSound'
BY RemoveSound DEF Drop

(* The store stays sound whatever happens. *)
LEMMA StoreStep ==
    ASSUME StoreInv, MaxEntries >= 1, [Next]_vars
    PROVE  StoreSound'
<1>1. StoreSound /\ TypeOK /\ RowsThere
  BY DEF StoreInv, StoreIsSound, StoreSound, StoreType, TypeOK
<1>2. ASSUME UNCHANGED <<entry, order, tagIndex>> PROVE StoreSound'
  BY <1>1, <1>2 DEF StoreSound, StoreType, IndexMatchesEntries, BoundedEntries
<1>3. ASSUME NEW r \in Readers,
             Hit(r) \/ Miss(r) \/ Fetch(r) \/ Read(r) \/ Return(r) \/ Again(r)
      PROVE  StoreSound'
  <2>1. KeyOf[r] \in Keys
    BY QueryCacheAssumption
  <2>2. CASE Hit(r)
    <3>1. /\ entry[KeyOf[r]] # None /\ UNCHANGED <<entry, tagIndex>>
          /\ order' = Append(Without(order, {KeyOf[r]}), KeyOf[r])
      BY <2>2 DEF Hit
    <3>2. QED
      BY <1>1, <2>1, <3>1, UseSound
  <2>3. CASE Miss(r)
    BY <1>1, <1>2, <2>3, RemoveSound DEF Miss, store
  <2>4. CASE Return(r)
    <3>1. CASE UNCHANGED store
      BY <1>2, <3>1 DEF store
    <3>2. CASE Put(KeyOf[r], rows[r], ReadTags(r))
      <4>1. rows[r] \in Rows
        BY <1>1, <2>4 DEF Return, TypeOK, RowsThere
      <4>2. ReadTags(r) \in SUBSET Tags
        BY ReadTagsIn
      <4>3. QED
        BY <1>1, <2>1, <3>2, <4>1, <4>2, PutSound
    <3>3. QED
      BY <2>4, <3>1, <3>2 DEF Return
  <2>5. CASE Fetch(r) \/ Read(r) \/ Again(r)
    BY <1>2, <2>5 DEF Fetch, Read, Again, store
  <2>6. QED
    BY <1>3, <2>2, <2>3, <2>4, <2>5
<1>4. ASSUME NEW w \in Writers,
             Begin(w) \/ Write(w) \/ Settle(w) \/ InvalidateTables(w) \/ Commit(w) \/ End(w)
      PROVE  StoreSound'
  <2>1. CASE Begin(w) \/ Write(w) \/ Commit(w)
    BY <1>2, <2>1 DEF Begin, Write, Commit, store
  <2>2. CASE Settle(w) \/ InvalidateTables(w) \/ End(w)
    BY <1>1, <1>2, <2>2, DropSound DEF Settle, InvalidateTables, End, store
  <2>3. QED
    BY <1>4, <2>1, <2>2
<1>5. ASSUME Clear \/ \E u \in UserTags : InvalidateTag(u) PROVE StoreSound'
  BY <1>1, <1>5, DropSound DEF Clear, InvalidateTag
<1>6. ASSUME UNCHANGED vars PROVE StoreSound'
  BY <1>2, <1>6 DEF vars, store
<1>7. QED
  BY <1>3, <1>4, <1>5, <1>6 DEF Next

(* The other variables keep their types, and a read its rows. *)
LEMMA StoreTypes ==
    ASSUME StoreInv, StoreSound', [Next]_vars
    PROVE  TypeOK' /\ RowsThere'
<1>1. TypeOK /\ RowsThere
  BY DEF StoreInv, StoreIsSound
<1>2. /\ version \in Rows /\ returned \in Rows /\ created \in BOOLEAN
      /\ entry \in [Keys -> Entries \cup {None}]
      /\ rpc \in [Readers -> {"idle", "missed", "fetching", "read", "done"}]
      /\ rows \in [Readers -> Rows \cup {None}]
      /\ floor \in [Readers -> Rows]
      /\ stale \in [Readers -> BOOLEAN]
      /\ wpc \in [Writers -> {"idle", "open", "committed", "rolledBackOver", "committedOver"}]
      /\ wrote \subseteq Writers /\ settled \subseteq Writers
      /\ held \in [Writers -> SUBSET Tags]
  BY <1>1 DEF TypeOK
<1>3. /\ entry' \in [Keys -> Entries \cup {None}] /\ order' \in Seq(Keys)
      /\ tagIndex' \in [Tags -> SUBSET Keys]
  BY DEF StoreSound, StoreType
<1>4. ASSUME NEW r \in Readers,
             Hit(r) \/ Miss(r) \/ Fetch(r) \/ Read(r) \/ Return(r) \/ Again(r)
      PROVE  TypeOK' /\ RowsThere'
  <2>1. UNCHANGED <<version, returned, wpc, wrote, settled, held>>
    BY <1>4 DEF Hit, Miss, Fetch, Read, Return, Again, writers
  <2>2. KeyOf[r] \in Keys
    BY QueryCacheAssumption
  <2>3. created' \in BOOLEAN
    BY <1>2, <1>4 DEF Hit, Miss, Fetch, Read, Return, Again
  <2>4. rpc' \in [Readers -> {"idle", "missed", "fetching", "read", "done"}]
    BY <1>2, <1>4 DEF Hit, Miss, Fetch, Read, Return, Again
  <2>5. rows' \in [Readers -> Rows \cup {None}]
    <3>1. CASE Hit(r)
      <4>1. entry[KeyOf[r]].val \in Rows
        BY <1>2, <2>2, <3>1 DEF Hit, Entries
      <4>2. QED
        BY <1>2, <3>1, <4>1 DEF Hit
    <3>2. CASE Miss(r) \/ Fetch(r) \/ Read(r) \/ Return(r) \/ Again(r)
      BY <1>2, <3>2 DEF Miss, Fetch, Read, Return, Again
    <3>3. QED
      BY <1>4, <3>1, <3>2
  <2>6. floor' \in [Readers -> Rows]
    <3>1. [t \in Tags |-> 0] \in Rows
      BY DEF Rows
    <3>2. QED
      BY <1>2, <1>4, <3>1 DEF Hit, Miss, Fetch, Read, Return, Again
  <2>7. stale' \in [Readers -> BOOLEAN]
    BY <1>2, <1>4 DEF Hit, Miss, Fetch, Read, Return, Again
  <2>8. RowsThere'
    <3>1. None \notin Rows
      BY QueryCacheAssumption
    <3>2. ASSUME NEW s \in Readers, rpc'[s] = "read" PROVE rows'[s] # None
      BY <1>1, <1>2, <1>4, <3>1, <3>2
         DEF Hit, Miss, Fetch, Read, Return, Again, RowsThere
    <3>3. QED
      BY <3>2 DEF RowsThere
  <2>9. QED
    BY <1>2, <1>3, <2>1, <2>3, <2>4, <2>5, <2>6, <2>7, <2>8 DEF TypeOK
<1>5. ASSUME NEW w \in Writers,
             Begin(w) \/ Write(w) \/ Settle(w) \/ InvalidateTables(w) \/ Commit(w) \/ End(w)
      PROVE  TypeOK' /\ RowsThere'
  <2>1. UNCHANGED <<rpc, rows, floor>>
    BY <1>5 DEF Begin, Write, Settle, InvalidateTables, Commit, End, readers
  <2>2. Writes[w] \in SUBSET Tags /\ held[w] \in SUBSET Tags
    BY <1>2, QueryCacheAssumption DEF Tags
  <2>3. ASSUME NEW tags, Drop(tags) PROVE stale' \in [Readers -> BOOLEAN]
    BY <2>3 DEF Drop
  <2>4. stale' \in [Readers -> BOOLEAN]
    <3>1. stale' = stale \/ \E tags : Drop(tags)
      BY <1>5 DEF Begin, Write, Settle, InvalidateTables, Commit, End, readers
    <3>2. QED
      BY <1>2, <2>3, <3>1
  <2>5. created' \in BOOLEAN
    BY <1>2, <1>5 DEF Begin, Write, Settle, InvalidateTables, Commit, End
  <2>6. version' \in Rows
    BY <1>2, <1>5 DEF Begin, Write, Settle, InvalidateTables, Commit, End, Rows
  <2>7. returned' \in Rows
    <3>1. ASSUME NEW how, NEW finished, Reported(w, how, finished) PROVE returned' \in Rows
      BY <1>2, <3>1 DEF Reported, Rows
    <3>2. returned' = returned \/ \E how, finished : Reported(w, how, finished)
      BY <1>5 DEF Begin, Write, Settle, InvalidateTables, Commit, End
    <3>3. QED
      BY <1>2, <3>1, <3>2
  <2>8. wpc' \in [Writers -> {"idle", "open", "committed", "rolledBackOver", "committedOver"}]
    BY <1>2, <1>5 DEF Begin, Write, Settle, InvalidateTables, Commit, End
  <2>9. wrote' \subseteq Writers /\ settled' \subseteq Writers
    BY <1>2, <1>5 DEF Begin, Write, Settle, InvalidateTables, Commit, End
  <2>10. held' \in [Writers -> SUBSET Tags]
    <3>1. held' = held \/ \E tags \in SUBSET Tags : held' = [held EXCEPT ![w] = tags]
      BY <1>5, <2>2 DEF Begin, Write, Settle, InvalidateTables, Commit, End
    <3>2. QED
      BY <1>2, <3>1
  <2>11. RowsThere'
    BY <1>1, <2>1 DEF RowsThere
  <2>12. QED
    BY <1>2, <1>3, <2>1, <2>4, <2>5, <2>6, <2>7, <2>8, <2>9, <2>10, <2>11 DEF TypeOK
<1>6. ASSUME Clear \/ \E u \in UserTags : InvalidateTag(u) PROVE TypeOK' /\ RowsThere'
  <2>1. UNCHANGED <<rpc, rows, floor, wpc, wrote, settled>> /\ created' = TRUE
    BY <1>6 DEF Clear, InvalidateTag, writers
  <2>2. \E tags : Drop(tags)
    BY <1>6 DEF Clear, InvalidateTag
  <2>3. stale' \in [Readers -> BOOLEAN]
    BY <2>2 DEF Drop
  <2>4. version' \in Rows /\ returned' \in Rows
    <3>1. CASE Clear
      BY <1>2, <3>1 DEF Clear
    <3>2. ASSUME NEW u \in UserTags, InvalidateTag(u) PROVE version' \in Rows /\ returned' \in Rows
      <4>1. /\ version' = [version EXCEPT ![u] = @ + 1]
            /\ returned' = [returned EXCEPT ![u] = @ + 1]
        BY <3>2 DEF InvalidateTag
      <4>2. version[u] + 1 \in Nat /\ returned[u] + 1 \in Nat
        BY <1>2, <3>2 DEF Rows, Tags
      <4>3. QED
        BY <1>2, <4>1, <4>2 DEF Rows
    <3>3. QED
      BY <1>6, <3>1, <3>2
  <2>5. held' \in [Writers -> SUBSET Tags]
    BY <1>2, <1>6 DEF Clear, InvalidateTag, writers
  <2>6. RowsThere'
    BY <1>1, <2>1 DEF RowsThere
  <2>7. QED
    BY <1>2, <1>3, <2>1, <2>3, <2>4, <2>5, <2>6 DEF TypeOK
<1>7. ASSUME UNCHANGED vars PROVE TypeOK' /\ RowsThere'
  BY <1>1, <1>7 DEF vars, store, readers, writers, TypeOK, RowsThere
<1>8. QED
  BY <1>4, <1>5, <1>6, <1>7 DEF Next

(* The in-memory store is sound (set, get, remove, invalidateTags, clear):  *)
(* after every mixture of sets, hits, expiries, evictions and               *)
(* invalidations, of any queries and tags, the entries, their order of use  *)
(* and the tag index tell of the same keys, and there are no more entries   *)
(* than its capacity.                                                       *)
THEOREM StoreStaysSound == ASSUME MaxEntries >= 1 PROVE Spec => []StoreIsSound
<1>1. Init => StoreInv
  <2> SUFFICES ASSUME Init PROVE StoreInv
    OBVIOUS
  <2>1. [t \in Tags |-> 0] \in Rows
    BY DEF Rows
  <2>2. /\ <<>> \in Seq(Keys) /\ Len(<<>>) = 0 /\ ToSet(<<>>) = {} /\ IsInjective(<<>>)
    BY EmptySeq DEF ToSet, IsInjective
  <2>3. TypeOK
    BY <2>1, <2>2, QueryCacheAssumption DEF Init, TypeOK
  <2>4. order = <<>> /\ (\A k \in Keys : entry[k] = None) /\ (\A t \in Tags : tagIndex[t] = {})
        /\ \A r \in Readers : rpc[r] = "idle"
    BY DEF Init
  <2>5. IndexMatchesEntries
    BY <2>2, <2>4 DEF IndexMatchesEntries
  <2>6. BoundedEntries
    BY <2>2, <2>4, QueryCacheAssumption DEF BoundedEntries
  <2>7. RowsThere
    BY <2>4 DEF RowsThere
  <2>8. QED
    BY <2>3, <2>5, <2>6, <2>7 DEF StoreInv, StoreIsSound
<1>2. StoreInv /\ [Next]_vars => StoreInv'
  <2> SUFFICES ASSUME StoreInv, [Next]_vars PROVE StoreInv'
    OBVIOUS
  <2>1. StoreSound'
    BY StoreStep
  <2>2. TypeOK' /\ RowsThere'
    BY <2>1, StoreTypes
  <2>3. QED
    BY <2>1, <2>2 DEF StoreInv, StoreIsSound, StoreSound
<1>3. StoreInv => StoreIsSound
  BY DEF StoreInv
<1>4. QED
  BY <1>1, <1>2, <1>3, PTL DEF Spec
=============================================================================
