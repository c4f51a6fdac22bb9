----------------------------- MODULE ListsProofs -----------------------------
(***************************************************************************)
(* Induction over numbers and lists, and what the operators of Lists       *)
(* return. The theorems of the library that state induction take a         *)
(* predicate; here it is stated of sets, from the fact that every set of   *)
(* numbers has a least element.                                            *)
(***************************************************************************)
EXTENDS Lists, SequencesExt, SequenceTheorems, WellFoundedInduction, TLAPS

Smaller == {p \in Nat \X Nat : p[1] < p[2]}

(* The numbers are well-founded (a theorem of the library). *)
LEMMA SmallerWellFounded == IsWellFoundedOn(Smaller, Nat)
BY NatLessThanWellFounded DEF OpToRel, Smaller

(* A set of numbers has a least element. *)
LEMMA LeastOfSet ==
    ASSUME NEW T \in SUBSET Nat, T # {}
    PROVE  \E n \in T : \A m \in T : n <= m
<1>1. PICK n \in T : \A m \in T : ~(<<m, n>> \in Smaller)
  BY SmallerWellFounded, WFMin, Zenon
<1>2. ASSUME NEW m \in T PROVE n <= m
  <2>1. m \in Nat /\ n \in Nat /\ (m < n => <<m, n>> \in Smaller)
    BY DEF Smaller
  <2>2. QED
    BY <1>1, <2>1
<1>3. QED
  BY <1>2

(* Induction over the numbers. *)
LEMMA NumbersIn ==
    ASSUME NEW T, 0 \in T, \A n \in Nat : n \in T => n + 1 \in T
    PROVE  Nat \subseteq T
<1> SUFFICES ASSUME Nat \ T # {} PROVE FALSE
  OBVIOUS
<1>1. PICK n \in Nat \ T : \A m \in Nat \ T : n <= m
  BY LeastOfSet
<1>2. n # 0 /\ n - 1 \in Nat /\ (n - 1) + 1 = n
  BY <1>1
<1>3. n - 1 \in T
  BY <1>1, <1>2
<1>4. QED
  BY <1>1, <1>2, <1>3

(* Induction over the lists of elements of S. *)
LEMMA ListsIn ==
    ASSUME NEW S, NEW T, <<>> \in T,
           \A s \in Seq(S) : s \in T => \A e \in S : Append(s, e) \in T
    PROVE  Seq(S) \subseteq T
<1> DEFINE N == {n \in Nat : \A s \in Seq(S) : Len(s) = n => s \in T}
<1>1. 0 \in N
  <2>1. \A s \in Seq(S) : Len(s) = 0 => s = <<>>
    BY EmptySeq
  <2>2. QED
    BY <2>1
<1>2. ASSUME NEW n \in Nat, n \in N PROVE n + 1 \in N
  <2>1. ASSUME NEW s \in Seq(S), Len(s) = n + 1 PROVE s \in T
    <3>1. s # <<>>
      BY <2>1
    <3>2. PICK f \in Seq(S), e \in S : s = Append(f, e)
      BY <3>1, SequenceEmptyOrAppend
    <3>3. Len(f) = n
      BY <2>1, <3>2, AppendProperties, LenProperties
    <3>4. f \in T
      BY <1>2, <3>2, <3>3
    <3>5. QED
      BY <3>2, <3>4
  <2>2. QED
    BY <2>1
<1>3. Nat \subseteq N
  <2> HIDE DEF N
  <2>1. QED
    BY <1>1, <1>2, NumbersIn
<1>4. ASSUME NEW s \in Seq(S) PROVE s \in T
  <2>1. Len(s) \in N
    BY <1>3, LenProperties
  <2>2. QED
    BY <2>1
<1>5. QED
  BY <1>4

-----------------------------------------------------------------------------
(* Some function is the one Without is defined by. *)
LEMMA WithoutFunction ==
    ASSUME NEW S, NEW s \in Seq(S), NEW gone
    PROVE  \E f : /\ f = [i \in 0..Len(s) |->
                           IF i = 0 THEN <<>>
                           ELSE IF s[i] \in gone THEN f[i - 1] ELSE Append(f[i - 1], s[i])]
                 /\ Without(s, gone) = f[Len(s)]
<1> DEFINE Fits(f, n) == f = [i \in 0..n |->
                                IF i = 0 THEN <<>>
                                ELSE IF s[i] \in gone THEN f[i - 1] ELSE Append(f[i - 1], s[i])]
           T == {n \in Nat : \E f : Fits(f, n)}
           F == CHOOSE f : Fits(f, Len(s))
<1>1. Without(s, gone) = F[Len(s)]
  BY DEF Without
<1>2. 0 \in T
  <2>1. Fits([i \in 0..0 |-> <<>>], 0)
    OBVIOUS
  <2>2. QED
    BY <2>1
<1>3. ASSUME NEW n \in Nat, n \in T PROVE n + 1 \in T
  <2>1. PICK f : Fits(f, n)
    BY <1>3
  <2> DEFINE g == [i \in 0..n + 1 |->
                     IF i = n + 1 THEN (IF s[i] \in gone THEN f[i - 1] ELSE Append(f[i - 1], s[i]))
                     ELSE f[i]]
  <2>2. ASSUME NEW i \in 0..n + 1
        PROVE  g[i] = IF i = 0 THEN <<>>
                      ELSE IF s[i] \in gone THEN g[i - 1] ELSE Append(g[i - 1], s[i])
    <3>1. CASE i = n + 1
      <4>1. i - 1 \in 0..n + 1 /\ i - 1 # n + 1 /\ i # 0
        BY <3>1
      <4>2. QED
        BY <3>1, <4>1
    <3>2. CASE i = 0
      BY <2>1, <3>2
    <3>3. CASE i # n + 1 /\ i # 0
      <4>1. i - 1 \in 0..n + 1 /\ i - 1 # n + 1 /\ i \in 0..n
        BY <3>3
      <4>2. f[i] = IF i = 0 THEN <<>>
                   ELSE IF s[i] \in gone THEN f[i - 1] ELSE Append(f[i - 1], s[i])
        BY <2>1, <4>1
      <4>3. QED
        BY <3>3, <4>1, <4>2
    <3>4. QED
      BY <3>1, <3>2, <3>3
  <2>3. Fits(g, n + 1)
    BY <2>2, Zenon
  <2> HIDE DEF Fits, g
  <2>4. \E h : Fits(h, n + 1)
    BY <2>3, Zenon
  <2>5. QED
    BY <2>4
<1>4. Len(s) \in T
  <2> HIDE DEF T
  <2>1. Nat \subseteq T
    BY <1>2, <1>3, NumbersIn
  <2>2. QED
    BY <2>1, LenProperties
<1>5. Fits(F, Len(s))
  <2>1. \E f : Fits(f, Len(s))
    BY <1>4
  <2> HIDE DEF Fits
  <2>2. QED
    BY <2>1, Zenon
<1>6. QED
  BY <1>1, <1>5

(* Nothing remains of the empty list. *)
LEMMA WithoutEmpty == ASSUME NEW gone PROVE Without(<<>>, gone) = <<>>
<1>1. <<>> \in Seq({}) /\ Len(<<>>) = 0
  BY EmptySeq
<1>2. PICK f : /\ f = [i \in 0..Len(<<>>) |->
                         IF i = 0 THEN <<>>
                         ELSE IF <<>>[i] \in gone THEN f[i - 1] ELSE Append(f[i - 1], <<>>[i])]
               /\ Without(<<>>, gone) = f[Len(<<>>)]
  BY <1>1, WithoutFunction, Zenon
<1>3. 0 \in 0..Len(<<>>)
  BY <1>1
<1>4. f[0] = <<>>
  BY <1>2, <1>3
<1>5. QED
  BY <1>1, <1>2, <1>4

(* One more element: it is taken out or it comes last. *)
LEMMA WithoutAppend ==
    ASSUME NEW S, NEW s \in Seq(S), NEW e \in S, NEW gone
    PROVE  Without(Append(s, e), gone) =
                 IF e \in gone THEN Without(s, gone) ELSE Append(Without(s, gone), e)
<1> DEFINE t == Append(s, e)
<1>2. /\ t \in Seq(S) /\ Len(t) = Len(s) + 1 /\ Len(s) \in Nat
      /\ \A i \in 1..Len(s) : t[i] = s[i]
      /\ t[Len(s) + 1] = e
  BY AppendProperties, LenProperties
<1> HIDE DEF t
<1>3. PICK f : /\ f = [i \in 0..Len(s) |->
                         IF i = 0 THEN <<>>
                         ELSE IF s[i] \in gone THEN f[i - 1] ELSE Append(f[i - 1], s[i])]
               /\ Without(s, gone) = f[Len(s)]
  BY WithoutFunction
<1>4. PICK g : /\ g = [i \in 0..Len(t) |->
                         IF i = 0 THEN <<>>
                         ELSE IF t[i] \in gone THEN g[i - 1] ELSE Append(g[i - 1], t[i])]
               /\ Without(t, gone) = g[Len(t)]
  BY <1>2, WithoutFunction
<1> DEFINE T == {n \in Nat : n <= Len(s) => f[n] = g[n]}
<1>5. 0 \in T
  BY <1>2, <1>3, <1>4
<1>6. ASSUME NEW n \in Nat, n \in T PROVE n + 1 \in T
  <2>1. SUFFICES ASSUME n + 1 <= Len(s) PROVE f[n + 1] = g[n + 1]
    OBVIOUS
  <2>2. /\ n <= Len(s) /\ n + 1 \in 0..Len(s) /\ n + 1 \in 0..Len(t) /\ n + 1 # 0
        /\ (n + 1) - 1 = n /\ n + 1 \in 1..Len(s)
    BY <1>2, <2>1
  <2>3. f[n] = g[n] /\ t[n + 1] = s[n + 1]
    BY <1>2, <1>6, <2>2
  <2>4. f[n + 1] = IF s[n + 1] \in gone THEN f[n] ELSE Append(f[n], s[n + 1])
    BY <1>3, <2>2
  <2>5. g[n + 1] = IF t[n + 1] \in gone THEN g[n] ELSE Append(g[n], t[n + 1])
    BY <1>4, <2>2
  <2>6. QED
    BY <2>3, <2>4, <2>5
<1>7. f[Len(s)] = g[Len(s)]
  <2>1. Nat \subseteq T
    <3> HIDE DEF T
    <3>1. QED
      BY <1>5, <1>6, NumbersIn
  <2>2. QED
    BY <1>2, <2>1
<1>8. g[Len(t)] = IF e \in gone THEN g[Len(s)] ELSE Append(g[Len(s)], e)
  <2>1. Len(t) \in 0..Len(t) /\ Len(t) # 0 /\ Len(t) - 1 = Len(s) /\ t[Len(t)] = e
    BY <1>2
  <2>2. QED
    BY <1>4, <2>1
<1>9. QED
  BY <1>3, <1>4, <1>7, <1>8 DEF t

(* The elements of a list with one more, and when they are all different. *)
LEMMA AppendFacts ==
    ASSUME NEW S, NEW s \in Seq(S), NEW e \in S
    PROVE  /\ ToSet(Append(s, e)) = ToSet(s) \cup {e}
           /\ IsInjective(Append(s, e)) <=> IsInjective(s) /\ e \notin ToSet(s)
<1> DEFINE t == Append(s, e)
<1>1. /\ t \in Seq(S) /\ Len(t) = Len(s) + 1 /\ Len(s) \in Nat
      /\ \A i \in 1..Len(s) : t[i] = s[i]
      /\ t[Len(s) + 1] = e
      /\ DOMAIN s = 1..Len(s) /\ DOMAIN t = 1..Len(s) + 1
  BY AppendProperties, LenProperties
<1> HIDE DEF t
<1>2. \A i : i \in DOMAIN t <=> i \in DOMAIN s \/ i = Len(s) + 1
  BY <1>1
<1>3. \A i \in DOMAIN s : i \in DOMAIN t /\ t[i] = s[i] /\ i # Len(s) + 1
  BY <1>1
<1>4. ToSet(t) = ToSet(s) \cup {e}
  BY <1>1, <1>2, <1>3 DEF ToSet
<1>5. IsInjective(t) <=> IsInjective(s) /\ e \notin ToSet(s)
  <2>1. ASSUME IsInjective(t) PROVE IsInjective(s) /\ e \notin ToSet(s)
    BY <1>1, <1>2, <1>3, <2>1 DEF IsInjective, ToSet
  <2>2. ASSUME IsInjective(s), e \notin ToSet(s) PROVE IsInjective(t)
    BY <1>1, <1>2, <1>3, <2>2 DEF IsInjective, ToSet
  <2>3. QED
    BY <2>1, <2>2
<1>6. QED
  BY <1>4, <1>5 DEF t

(* What remains: the elements not taken out, each as often as it was. *)
LEMMA WithoutFacts ==
    ASSUME NEW S, NEW s \in Seq(S), NEW gone
    PROVE  /\ Without(s, gone) \in Seq(S)
           /\ ToSet(Without(s, gone)) = ToSet(s) \ gone
           /\ IsInjective(s) => IsInjective(Without(s, gone))
           /\ Len(Without(s, gone)) <= Len(s)
<1> DEFINE P(x, w) == /\ w \in Seq(S)
                      /\ ToSet(w) = ToSet(x) \ gone
                      /\ IsInjective(x) => IsInjective(w)
                      /\ Len(w) <= Len(x)
           T == {x \in Seq(S) : P(x, Without(x, gone))}
<1>1. <<>> \in T
  <2>1. <<>> \in Seq(S) /\ Len(<<>>) = 0
    BY EmptySeq
  <2>2. ToSet(<<>>) = {} /\ 0 <= 0
    BY DEF ToSet
  <2>3. P(<<>>, <<>>)
    BY <2>1, <2>2
  <2> HIDE DEF P
  <2>4. Without(<<>>, gone) = <<>>
    BY WithoutEmpty
  <2>5. P(<<>>, Without(<<>>, gone))
    BY <2>3, <2>4, Zenon
  <2>6. QED
    BY <2>1, <2>5, Zenon
<1>2. ASSUME NEW x \in Seq(S), x \in T, NEW e \in S PROVE Append(x, e) \in T
  <2>1. PICK w : w = Without(x, gone)
    OBVIOUS
  <2>2. PICK y : y = Append(x, e)
    OBVIOUS
  <2>3. /\ w \in Seq(S) /\ ToSet(w) = ToSet(x) \ gone /\ Len(w) <= Len(x)
        /\ IsInjective(x) => IsInjective(w)
    BY <1>2, <2>1
  <2>4. /\ y \in Seq(S) /\ Len(y) = Len(x) + 1 /\ Len(x) \in Nat
    BY <2>2, AppendProperties, LenProperties
  <2>5. /\ ToSet(y) = ToSet(x) \cup {e}
        /\ IsInjective(y) <=> IsInjective(x) /\ e \notin ToSet(x)
    BY <2>2, AppendFacts
  <2>6. PICK v : v = Append(w, e)
    OBVIOUS
  <2>7. /\ v \in Seq(S) /\ Len(v) = Len(w) + 1 /\ Len(w) \in Nat
    BY <2>3, <2>6, AppendProperties, LenProperties
  <2>8. /\ ToSet(v) = ToSet(w) \cup {e}
        /\ IsInjective(v) <=> IsInjective(w) /\ e \notin ToSet(w)
    BY <2>3, <2>6, AppendFacts
  <2>9. Without(y, gone) = IF e \in gone THEN w ELSE v
    BY <2>1, <2>2, <2>6, WithoutAppend
  <2>10. CASE e \in gone
    <3>1. ToSet(w) = ToSet(y) \ gone
      BY <2>3, <2>5, <2>10
    <3>2. Len(w) <= Len(y)
      BY <2>3, <2>4, <2>7
    <3>3. P(y, w)
      BY <2>3, <2>5, <3>1, <3>2
    <3> HIDE DEF P
    <3>4. P(y, Without(y, gone))
      BY <2>9, <2>10, <3>3, Zenon
    <3>5. QED
      BY <2>2, <2>4, <3>4, Zenon
  <2>11. CASE e \notin gone
    <3>1. ToSet(v) = ToSet(y) \ gone
      BY <2>3, <2>5, <2>8, <2>11
    <3>2. Len(v) <= Len(y)
      BY <2>3, <2>4, <2>7
    <3>3. IsInjective(y) => IsInjective(v)
      BY <2>3, <2>5, <2>8, Zenon
    <3>4. P(y, v)
      BY <2>7, <3>1, <3>2, <3>3
    <3> HIDE DEF P
    <3>5. P(y, Without(y, gone))
      BY <2>9, <2>11, <3>4, Zenon
    <3>6. QED
      BY <2>2, <2>4, <3>5, Zenon
  <2>12. QED
    BY <2>10, <2>11
<1>3. Seq(S) \subseteq T
  <2> HIDE DEF T
  <2>1. QED
    BY <1>1, <1>2, ListsIn
<1>4. QED
  BY <1>3

(* Something is taken out: the list gets shorter. *)
LEMMA WithoutSome ==
    ASSUME NEW S, NEW s \in Seq(S), NEW gone, ToSet(s) \cap gone # {}
    PROVE  Len(Without(s, gone)) < Len(s)
<1> DEFINE P(x) == ToSet(x) \cap gone # {} => Len(Without(x, gone)) < Len(x)
           T == {x \in Seq(S) : P(x)}
<1>1. <<>> \in T
  <2>1. <<>> \in Seq(S) /\ ToSet(<<>>) = {}
    BY EmptySeq DEF ToSet
  <2>2. P(<<>>)
    BY <2>1
  <2>3. QED
    BY <2>1, <2>2
<1>2. ASSUME NEW x \in Seq(S), x \in T, NEW e \in S PROVE Append(x, e) \in T
  <2>1. PICK y : y = Append(x, e)
    OBVIOUS
  <2>2. PICK w : w = Without(x, gone)
    OBVIOUS
  <2>3. y \in Seq(S) /\ Len(y) = Len(x) + 1 /\ Len(x) \in Nat
    BY <2>1, AppendProperties, LenProperties
  <2>4. ToSet(y) = ToSet(x) \cup {e}
    BY <2>1, AppendFacts
  <2>5. w \in Seq(S) /\ Len(w) <= Len(x)
    BY <2>2, WithoutFacts
  <2>6. Len(w) \in Nat /\ Len(Append(w, e)) = Len(w) + 1
    BY <2>5, AppendProperties, LenProperties
  <2>7. Without(y, gone) = IF e \in gone THEN w ELSE Append(w, e)
    BY <2>1, <2>2, WithoutAppend
  <2>8. ASSUME ToSet(y) \cap gone # {} PROVE Len(Without(y, gone)) < Len(y)
    <3>1. CASE e \in gone
      <4>1. Len(w) < Len(y)
        BY <2>3, <2>5, <2>6
      <4>2. QED
        BY <2>7, <3>1, <4>1
    <3>2. CASE e \notin gone
      <4>1. Len(w) < Len(x)
        BY <1>2, <2>2, <2>4, <2>8, <3>2
      <4>2. Len(w) + 1 < Len(y)
        BY <2>3, <2>6, <4>1
      <4>3. QED
        BY <2>6, <2>7, <3>2, <4>2
    <3>3. QED
      BY <3>1, <3>2
  <2>9. QED
    BY <2>1, <2>3, <2>8
<1>3. Seq(S) \subseteq T
  <2> HIDE DEF T
  <2>1. QED
    BY <1>1, <1>2, ListsIn
<1>4. QED
  BY <1>3

(* Nothing of what is to be taken out is there: the list stays. *)
LEMMA WithoutNothing ==
    ASSUME NEW S, NEW s \in Seq(S), NEW gone, ToSet(s) \cap gone = {}
    PROVE  Without(s, gone) = s
<1> DEFINE T == {x \in Seq(S) : ToSet(x) \cap gone = {} => Without(x, gone) = x}
<1>1. <<>> \in T
  BY EmptySeq, WithoutEmpty
<1>2. ASSUME NEW x \in Seq(S), x \in T, NEW e \in S PROVE Append(x, e) \in T
  <2>1. /\ Append(x, e) \in Seq(S) /\ ToSet(Append(x, e)) = ToSet(x) \cup {e}
        /\ Without(Append(x, e), gone) =
              IF e \in gone THEN Without(x, gone) ELSE Append(Without(x, gone), e)
    BY AppendFacts, AppendProperties, WithoutAppend
  <2>2. QED
    BY <1>2, <2>1
<1>3. Seq(S) \subseteq T
  <2> HIDE DEF T
  <2>1. QED
    BY <1>1, <1>2, ListsIn
<1>4. QED
  BY <1>3

(* Taking out one set after the other is taking out both. *)
LEMMA WithoutTwice ==
    ASSUME NEW S, NEW s \in Seq(S), NEW gone, NEW more
    PROVE  Without(Without(s, gone), more) = Without(s, gone \cup more)
<1> DEFINE T == {x \in Seq(S) : Without(Without(x, gone), more) = Without(x, gone \cup more)}
<1>1. <<>> \in T
  BY EmptySeq, WithoutEmpty
<1>2. ASSUME NEW x \in Seq(S), x \in T, NEW e \in S PROVE Append(x, e) \in T
  <2> DEFINE w == Without(x, gone)
  <2>1. Append(x, e) \in Seq(S) /\ w \in Seq(S)
    BY AppendProperties, WithoutFacts
  <2>2. Without(Append(x, e), gone) = IF e \in gone THEN w ELSE Append(w, e)
    BY WithoutAppend
  <2>3. Without(Append(x, e), gone \cup more) =
           IF e \in gone \cup more THEN Without(x, gone \cup more)
           ELSE Append(Without(x, gone \cup more), e)
    BY WithoutAppend
  <2> HIDE DEF w
  <2>4. Without(Append(w, e), more) =
           IF e \in more THEN Without(w, more) ELSE Append(Without(w, more), e)
    BY <2>1, WithoutAppend
  <2>5. Without(w, more) = Without(x, gone \cup more)
    BY <1>2 DEF w
  <2>6. QED
    BY <2>1, <2>2, <2>3, <2>4, <2>5
<1>3. Seq(S) \subseteq T
  <2> HIDE DEF T
  <2>1. QED
    BY <1>1, <1>2, ListsIn
<1>4. QED
  BY <1>3

(* Adding to the second of two lists is adding to both in a row. *)
LEMMA ConcatAppend ==
    ASSUME NEW S, NEW r \in Seq(S), NEW x \in Seq(S), NEW e \in S
    PROVE  r \o Append(x, e) = Append(r \o x, e)
<1>1. <<e>> \in Seq(S) /\ r \o x \in Seq(S)
  BY ConcatProperties
<1>2. Append(x, e) = x \o <<e>>
  BY AppendIsConcat
<1>3. Append(r \o x, e) = (r \o x) \o <<e>>
  BY <1>1, AppendIsConcat
<1>4. (r \o x) \o <<e>> = r \o (x \o <<e>>)
  BY <1>1, ConcatAssociative
<1>5. QED
  BY <1>2, <1>3, <1>4

(* What remains of two lists in a row. *)
LEMMA WithoutConcat ==
    ASSUME NEW S, NEW r \in Seq(S), NEW s \in Seq(S), NEW gone
    PROVE  Without(r \o s, gone) = Without(r, gone) \o Without(s, gone)
<1> DEFINE T == {x \in Seq(S) : Without(r \o x, gone) = Without(r, gone) \o Without(x, gone)}
<1>1. PICK v : v = Without(r, gone)
  OBVIOUS
<1>2. v \in Seq(S)
  BY <1>1, WithoutFacts
<1>3. <<>> \in T
  <2>1. r \o <<>> = r /\ v \o <<>> = v /\ <<>> \in Seq(S)
    BY <1>2, ConcatEmptySeq, EmptySeq
  <2>2. QED
    BY <1>1, <2>1, WithoutEmpty
<1>4. \A w \in Seq(S), e \in S : v \o Append(w, e) = Append(v \o w, e)
  BY <1>2, ConcatAppend
<1>5. ASSUME NEW x \in Seq(S), x \in T, NEW e \in S PROVE Append(x, e) \in T
  <2>1. PICK w : w = Without(x, gone)
    OBVIOUS
  <2>2. PICK q : q = r \o x
    OBVIOUS
  <2>3. Append(x, e) \in Seq(S) /\ w \in Seq(S) /\ q \in Seq(S)
    BY <2>1, <2>2, AppendProperties, WithoutFacts, ConcatProperties
  <2>4. Without(Append(q, e), gone) =
           IF e \in gone THEN Without(q, gone) ELSE Append(Without(q, gone), e)
    BY <2>3, WithoutAppend
  <2>5. Without(Append(x, e), gone) = IF e \in gone THEN w ELSE Append(w, e)
    BY <2>1, WithoutAppend
  <2>6. Without(q, gone) = v \o w
    BY <1>1, <1>5, <2>1, <2>2
  <2>7. r \o Append(x, e) = Append(q, e)
    BY <2>2, ConcatAppend
  <2>8. v \o Append(w, e) = Append(v \o w, e)
    BY <1>4, <2>3
  <2>9. Without(r \o Append(x, e), gone) = Without(r, gone) \o Without(Append(x, e), gone)
    <3>1. CASE e \in gone
      BY <1>1, <2>4, <2>5, <2>6, <2>7, <3>1, Zenon
    <3>2. CASE e \notin gone
      BY <1>1, <2>4, <2>5, <2>6, <2>7, <2>8, <3>2, Zenon
    <3>3. QED
      BY <3>1, <3>2
  <2>10. QED
    BY <2>3, <2>9, Zenon
<1>6. Seq(S) \subseteq T
  <2> HIDE DEF T
  <2>1. QED
    BY <1>3, <1>5, ListsIn
<1>7. QED
  BY <1>6

(* Nothing remains when all that is there is taken out. *)
LEMMA WithoutAll ==
    ASSUME NEW S, NEW s \in Seq(S), NEW gone, ToSet(s) \subseteq gone
    PROVE  Without(s, gone) = <<>>
<1>1. PICK w : w = Without(s, gone)
  OBVIOUS
<1>2. w \in Seq(S) /\ ToSet(w) = {}
  BY <1>1, WithoutFacts
<1>3. Len(w) \in Nat /\ DOMAIN w = 1..Len(w)
  BY <1>2, LenProperties
<1>4. Len(w) = 0
  <2>1. \A i \in 1..Len(w) : w[i] \in ToSet(w)
    BY <1>3 DEF ToSet
  <2>2. ~(1 \in 1..Len(w))
    BY <1>2, <2>1
  <2>3. QED
    BY <1>3, <2>2
<1>5. QED
  BY <1>1, <1>2, <1>4, EmptySeq

(* The first m elements of a list without repetition taken out: the others remain. *)
LEMMA WithoutFirst ==
    ASSUME NEW S, NEW s \in Seq(S), IsInjective(s), NEW m \in Nat, m <= Len(s)
    PROVE  Len(Without(s, {s[i] : i \in 1..m})) = Len(s) - m
<1> DEFINE First(x) == {x[i] : i \in 1..m}
           P(x) == IsInjective(x) /\ m <= Len(x) => Len(Without(x, First(x))) = Len(x) - m
           T == {x \in Seq(S) : P(x)}
<1>1. <<>> \in T
  <2>1. <<>> \in Seq(S) /\ Len(<<>>) = 0
    BY EmptySeq
  <2>2. Without(<<>>, First(<<>>)) = <<>>
    BY WithoutEmpty
  <2>3. P(<<>>)
    <3> HIDE DEF First
    <3>1. ASSUME m <= 0 PROVE 0 = 0 - m
      BY <3>1
    <3>2. QED
      BY <2>1, <2>2, <3>1
  <2>4. QED
    BY <2>1, <2>3
<1>2. ASSUME NEW x \in Seq(S), x \in T, NEW e \in S PROVE Append(x, e) \in T
  <2>1. PICK y : y = Append(x, e)
    OBVIOUS
  <2>2. PICK gone : gone = First(y)
    OBVIOUS
  <2>3. /\ y \in Seq(S) /\ Len(y) = Len(x) + 1 /\ Len(x) \in Nat
        /\ \A i \in 1..Len(x) : y[i] = x[i]
    BY <2>1, AppendProperties, LenProperties
  <2>4. /\ ToSet(y) = ToSet(x) \cup {e}
        /\ IsInjective(y) <=> IsInjective(x) /\ e \notin ToSet(x)
    BY <2>1, AppendFacts
  <2>5. SUFFICES ASSUME IsInjective(y), m <= Len(x) + 1
                 PROVE  Len(Without(y, gone)) = (Len(x) + 1) - m
    BY <2>1, <2>2, <2>3
  <2>6. CASE m = Len(x) + 1
    <3>1. ToSet(y) \subseteq gone
      <4>1. DOMAIN y = 1..m
        BY <2>3, <2>6, LenProperties
      <4>2. QED
        BY <2>2, <4>1 DEF ToSet
    <3>2. Without(y, gone) = <<>>
      BY <2>3, <3>1, WithoutAll
    <3>3. Len(<<>>) = 0 /\ (Len(x) + 1) - m = 0
      BY <2>3, <2>6
    <3>4. QED
      BY <3>2, <3>3
  <2>7. CASE m # Len(x) + 1
    <3>1. m <= Len(x)
      BY <2>3, <2>5, <2>7
    <3>2. gone = First(x)
      <4>1. \A i \in 1..m : y[i] = x[i]
        BY <2>3, <3>1
      <4>2. QED
        BY <2>2, <4>1
    <3>3. e \notin gone
      <4>1. \A i \in 1..m : i \in DOMAIN x
        BY <2>3, <3>1, LenProperties
      <4>2. gone \subseteq ToSet(x)
        BY <3>2, <4>1 DEF ToSet
      <4>3. QED
        BY <2>4, <2>5, <4>2
    <3>4. Len(Without(x, gone)) = Len(x) - m
      BY <1>2, <2>4, <2>5, <3>1, <3>2
    <3>5. PICK w : w = Without(x, gone)
      OBVIOUS
    <3>6. w \in Seq(S) /\ Without(y, gone) = Append(w, e)
      <4>1. w \in Seq(S)
        BY <3>5, WithoutFacts
      <4>2. Without(Append(x, e), gone) = IF e \in gone THEN Without(x, gone)
                                          ELSE Append(Without(x, gone), e)
        BY WithoutAppend
      <4>3. QED
        BY <2>1, <3>3, <3>5, <4>1, <4>2
    <3>7. Len(Append(w, e)) = Len(w) + 1
      BY <3>6, AppendProperties
    <3>8. Len(w) = Len(x) - m
      BY <3>4, <3>5
    <3>9. (Len(x) - m) + 1 = (Len(x) + 1) - m
      BY <2>3
    <3>10. QED
      BY <3>6, <3>7, <3>8, <3>9, Zenon
  <2>8. QED
    BY <2>6, <2>7
<1>3. Seq(S) \subseteq T
  <2> HIDE DEF T
  <2>1. QED
    BY <1>1, <1>2, ListsIn
<1>4. QED
  BY <1>3

-----------------------------------------------------------------------------
(* The first element and the others, in terms of the set of all. *)
LEMMA HeadAndTail ==
    ASSUME NEW S, NEW s \in Seq(S), s # <<>>
    PROVE  /\ Head(s) \in S /\ Tail(s) \in Seq(S)
           /\ Head(s) \in ToSet(s) /\ ToSet(Tail(s)) \subseteq ToSet(s)
           /\ IsInjective(s) => IsInjective(Tail(s)) /\ Head(s) \notin ToSet(Tail(s))
<1>1. Len(s) \in Nat /\ Len(s) # 0 /\ DOMAIN s = 1..Len(s)
  BY EmptySeq, LenProperties
<1>2. PICK t : t = Tail(s)
  OBVIOUS
<1>3. /\ Head(s) = s[1] /\ Head(s) \in S /\ t \in Seq(S) /\ Len(t) = Len(s) - 1
      /\ \A i \in 1..Len(s) - 1 : t[i] = s[i + 1]
  BY <1>1, <1>2, HeadTailProperties
<1>4. DOMAIN t = 1..Len(s) - 1
  BY <1>3, LenProperties
<1>5. \A i \in 1..Len(s) - 1 : i + 1 \in 1..Len(s) /\ i + 1 # 1
  BY <1>1
<1>6. Head(s) \in ToSet(s)
  BY <1>1, <1>3 DEF ToSet
<1>7. ToSet(t) \subseteq ToSet(s)
  BY <1>1, <1>3, <1>4, <1>5 DEF ToSet
<1>8. ASSUME IsInjective(s) PROVE IsInjective(t) /\ Head(s) \notin ToSet(t)
  <2>1. \A a, b \in 1..Len(s) : s[a] = s[b] => a = b
    BY <1>1, <1>8 DEF IsInjective
  <2>2. ASSUME NEW a \in 1..Len(s) - 1, NEW b \in 1..Len(s) - 1, t[a] = t[b] PROVE a = b
    <3>1. a + 1 = b + 1
      BY <1>3, <1>5, <2>1, <2>2
    <3>2. QED
      BY <1>1, <3>1
  <2>3. ASSUME NEW a \in 1..Len(s) - 1 PROVE t[a] # Head(s)
    <3>1. a + 1 \in 1..Len(s) /\ 1 \in 1..Len(s) /\ a + 1 # 1
      BY <1>1
    <3>2. QED
      BY <1>3, <2>1, <3>1
  <2>4. QED
    BY <1>4, <2>2, <2>3 DEF IsInjective, ToSet
<1>9. QED
  BY <1>2, <1>3, <1>6, <1>7, <1>8

(* A list backwards. *)
LEMMA ReverseFacts ==
    ASSUME NEW S, NEW s \in Seq(S)
    PROVE  /\ Reverse(s) \in Seq(S) /\ Len(Reverse(s)) = Len(s)
           /\ \A i \in 1..Len(s) : Reverse(s)[i] = s[Len(s) - i + 1]
           /\ ToSet(Reverse(s)) = ToSet(s)
           /\ IsInjective(s) => IsInjective(Reverse(s))
<1>1. Len(s) \in Nat /\ DOMAIN s = 1..Len(s)
  BY LenProperties
<1>2. PICK n : n = Len(s)
  OBVIOUS
<1>3. PICK r : r = Reverse(s)
  OBVIOUS
<1>4. r = [i \in 1..n |-> s[(n - i) + 1]]
  BY <1>2, <1>3 DEF Reverse
<1>5. \A i \in 1..n : (n - i) + 1 \in 1..n /\ n - ((n - i) + 1) + 1 = i
  BY <1>1, <1>2
<1>6. r \in Seq(S) /\ Len(r) = n /\ DOMAIN r = 1..n /\ \A i \in 1..n : r[i] = s[(n - i) + 1]
  <2>1. \A i \in 1..n : s[(n - i) + 1] \in S
    BY <1>1, <1>2, <1>5, ElementOfSeq
  <2>2. r \in [1..n -> S]
    BY <1>4, <2>1
  <2>3. r \in Seq(S)
    BY <1>1, <1>2, <2>2
  <2>4. QED
    BY <1>1, <1>2, <1>4, <2>2, <2>3
<1>7. ToSet(r) = ToSet(s)
  <2>1. ASSUME NEW i \in 1..n PROVE r[i] \in {s[j] : j \in 1..n} /\ s[i] \in {r[j] : j \in 1..n}
    <3>1. PICK k \in 1..n : k = (n - i) + 1
      BY <1>5
    <3>2. r[i] = s[k]
      BY <1>6, <3>1
    <3>3. (n - k) + 1 = i
      BY <1>1, <1>2, <3>1
    <3>4. r[k] = s[i]
      BY <1>6, <3>3
    <3>5. QED
      BY <3>2, <3>4
  <2>2. ToSet(r) = {r[j] : j \in 1..n} /\ ToSet(s) = {s[j] : j \in 1..n}
    BY <1>1, <1>2, <1>6 DEF ToSet
  <2>3. QED
    BY <2>1, <2>2
<1>8. ASSUME IsInjective(s) PROVE IsInjective(r)
  <2>1. \A a, b \in 1..n : s[a] = s[b] => a = b
    BY <1>1, <1>2, <1>8 DEF IsInjective
  <2>2. ASSUME NEW a \in 1..n, NEW b \in 1..n, r[a] = r[b] PROVE a = b
    <3>1. PICK x \in 1..n : x = (n - a) + 1
      BY <1>5
    <3>2. PICK y \in 1..n : y = (n - b) + 1
      BY <1>5
    <3>3. s[x] = s[y]
      BY <1>6, <2>2, <3>1, <3>2
    <3>4. x = y
      BY <2>1, <3>3
    <3>5. QED
      BY <1>1, <1>2, <3>1, <3>2, <3>4
  <2>3. QED
    BY <1>6, <2>2 DEF IsInjective
<1>9. QED
  BY <1>2, <1>3, <1>6, <1>7, <1>8

(* Backwards twice is forwards. *)
LEMMA ReverseTwice == ASSUME NEW S, NEW s \in Seq(S) PROVE Reverse(Reverse(s)) = s
<1>1. PICK r : r = Reverse(s)
  OBVIOUS
<1>2. PICK q : q = Reverse(r)
  OBVIOUS
<1>3. /\ r \in Seq(S) /\ Len(r) = Len(s) /\ \A i \in 1..Len(s) : r[i] = s[Len(s) - i + 1]
  BY <1>1, ReverseFacts
<1>4. /\ q \in Seq(S) /\ Len(q) = Len(r) /\ \A i \in 1..Len(r) : q[i] = r[Len(r) - i + 1]
  BY <1>2, <1>3, ReverseFacts
<1>5. ASSUME NEW i \in 1..Len(q) PROVE q[i] = s[i]
  <2>1. /\ Len(s) - i + 1 \in 1..Len(s) /\ Len(s) - (Len(s) - i + 1) + 1 = i
    BY <1>3, <1>4, LenProperties
  <2>2. q[i] = r[Len(s) - i + 1]
    BY <1>3, <1>4
  <2>3. r[Len(s) - i + 1] = s[Len(s) - (Len(s) - i + 1) + 1]
    BY <1>3, <2>1
  <2>4. QED
    BY <2>1, <2>2, <2>3
<1>6. q = s
  BY <1>3, <1>4, <1>5, SeqEqual
<1>7. QED
  BY <1>1, <1>2, <1>6

(* Backwards, the first element comes last. *)
LEMMA ReverseTail ==
    ASSUME NEW S, NEW s \in Seq(S), s # <<>>
    PROVE  Reverse(s) = Append(Reverse(Tail(s)), Head(s))
<1>1. PICK t : t = Tail(s)
  OBVIOUS
<1>2. PICK e : e = Head(s)
  OBVIOUS
<1>3. Len(s) \in Nat /\ Len(s) # 0
  BY EmptySeq, LenProperties
<1>4. /\ e = s[1] /\ e \in S /\ t \in Seq(S) /\ Len(t) = Len(s) - 1
      /\ \A i \in 1..Len(s) - 1 : t[i] = s[i + 1]
  BY <1>1, <1>2, <1>3, HeadTailProperties
<1>5. PICK q : q = Reverse(t)
  OBVIOUS
<1>6. /\ q \in Seq(S) /\ Len(q) = Len(t) /\ \A i \in 1..Len(t) : q[i] = t[Len(t) - i + 1]
  BY <1>4, <1>5, ReverseFacts
<1>7. PICK a : a = Append(q, e)
  OBVIOUS
<1>8. /\ a \in Seq(S) /\ Len(a) = Len(s) /\ a[Len(s)] = e /\ \A i \in 1..Len(s) - 1 : a[i] = q[i]
  BY <1>3, <1>4, <1>6, <1>7, AppendProperties
<1>9. PICK r : r = Reverse(s)
  OBVIOUS
<1>10. /\ r \in Seq(S) /\ Len(r) = Len(s) /\ \A i \in 1..Len(s) : r[i] = s[Len(s) - i + 1]
  BY <1>9, ReverseFacts
<1>11. ASSUME NEW i \in 1..Len(r) PROVE r[i] = a[i]
  <2>1. CASE i = Len(s)
    <3>1. Len(s) - i + 1 = 1 /\ i \in 1..Len(s)
      BY <1>3, <2>1
    <3>2. QED
      BY <1>4, <1>8, <1>10, <2>1, <3>1
  <2>2. CASE i # Len(s)
    <3>1. /\ i \in 1..Len(s) - 1 /\ i \in 1..Len(s) /\ i \in 1..Len(t)
          /\ Len(t) - i + 1 \in 1..Len(s) - 1
          /\ (Len(t) - i + 1) + 1 = Len(s) - i + 1
      BY <1>3, <1>4, <1>10, <2>2
    <3>2. a[i] = t[Len(t) - i + 1]
      BY <1>6, <1>8, <3>1
    <3>3. t[Len(t) - i + 1] = s[Len(s) - i + 1]
      BY <1>4, <3>1
    <3>4. QED
      BY <1>10, <3>1, <3>2, <3>3
  <2>3. QED
    BY <2>1, <2>2
<1>12. r = a
  BY <1>8, <1>10, <1>11, SeqEqual
<1>13. QED
  BY <1>1, <1>2, <1>5, <1>7, <1>9, <1>12

(* The elements of two lists in a row. *)
LEMMA ConcatElements ==
    ASSUME NEW S, NEW r \in Seq(S), NEW s \in Seq(S)
    PROVE  ToSet(r \o s) = ToSet(r) \cup ToSet(s)
<1>1. PICK c : c = r \o s
  OBVIOUS
<1>2. PICK m : m = Len(r)
  OBVIOUS
<1>3. PICK n : n = Len(s)
  OBVIOUS
<1>4. m \in Nat /\ n \in Nat /\ DOMAIN r = 1..m /\ DOMAIN s = 1..n
  BY <1>2, <1>3, LenProperties
<1>5. /\ c \in Seq(S) /\ Len(c) = m + n
      /\ \A i \in 1..m + n : c[i] = IF i <= m THEN r[i] ELSE s[i - m]
  BY <1>1, <1>2, <1>3, ConcatProperties
<1>6. DOMAIN c = 1..m + n
  BY <1>5, LenProperties
<1>7. ASSUME NEW i \in 1..m + n PROVE c[i] \in ToSet(r) \cup ToSet(s)
  <2>1. CASE i <= m
    <3>1. i \in 1..m /\ c[i] = r[i]
      BY <1>4, <1>5, <2>1
    <3>2. QED
      BY <1>4, <3>1 DEF ToSet
  <2>2. CASE ~(i <= m)
    <3>1. i - m \in 1..n
      BY <1>4, <2>2
    <3>2. QED
      BY <1>4, <1>5, <2>2, <3>1 DEF ToSet
  <2>3. QED
    BY <2>1, <2>2
<1>8. ASSUME NEW i \in 1..m PROVE r[i] \in ToSet(c)
  <2>1. i \in 1..m + n /\ i <= m
    BY <1>4
  <2>2. QED
    BY <1>5, <1>6, <2>1 DEF ToSet
<1>9. ASSUME NEW i \in 1..n PROVE s[i] \in ToSet(c)
  <2>1. m + i \in 1..m + n /\ ~(m + i <= m) /\ (m + i) - m = i
    BY <1>4
  <2>2. c[m + i] = s[i]
    BY <1>5, <2>1
  <2>3. QED
    BY <1>6, <2>1, <2>2 DEF ToSet
<1>10. ToSet(c) \subseteq ToSet(r) \cup ToSet(s)
  BY <1>6, <1>7 DEF ToSet
<1>11. ToSet(r) \subseteq ToSet(c) /\ ToSet(s) \subseteq ToSet(c)
  BY <1>4, <1>8, <1>9 DEF ToSet
<1>12. QED
  BY <1>1, <1>10, <1>11

(* What comes first in a list is a prefix of it. *)
LEMMA ConcatIsPrefix ==
    ASSUME NEW S, NEW s \in Seq(S), NEW u \in Seq(S)
    PROVE  IsPrefix(s, s \o u)
<1>1. PICK t : t = s \o u
  OBVIOUS
<1>2. /\ t \in Seq(S) /\ Len(t) = Len(s) + Len(u) /\ Len(s) \in Nat /\ Len(u) \in Nat
      /\ \A i \in 1..Len(s) : t[i] = s[i]
  <2>1. /\ t \in Seq(S) /\ Len(t) = Len(s) + Len(u)
        /\ \A i \in 1..Len(s) + Len(u) : t[i] = IF i <= Len(s) THEN s[i] ELSE u[i - Len(s)]
    BY <1>1, ConcatProperties
  <2>2. Len(s) \in Nat /\ Len(u) \in Nat
    BY LenProperties
  <2>3. \A i \in 1..Len(s) : i \in 1..Len(s) + Len(u) /\ i <= Len(s)
    BY <2>2
  <2>4. QED
    BY <2>1, <2>2, <2>3
<1>3. Len(s) <= Len(t)
  BY <1>2
<1>4. SubSeq(s, 1, Len(s)) = s
  BY SubSeqFull
<1>5. SubSeq(t, 1, Len(s)) = s
  <2>1. PICK q : q = SubSeq(t, 1, Len(s))
    OBVIOUS
  <2>2. \A i \in 1..Len(s) : t[i] \in S
    BY <1>2, ElementOfSeq
  <2>3. /\ q \in Seq(S) /\ Len(q) = IF 1 <= Len(s) THEN Len(s) - 1 + 1 ELSE 0
        /\ \A i \in 1..Len(s) - 1 + 1 : q[i] = t[1 + i - 1]
    BY <1>2, <2>1, <2>2, SubSeqProperties
  <2>4. Len(q) = Len(s)
    BY <1>2, <2>3
  <2>5. ASSUME NEW i \in 1..Len(q) PROVE q[i] = s[i]
    <3>1. i \in 1..Len(s) - 1 + 1 /\ 1 + i - 1 = i /\ i \in 1..Len(s)
      BY <1>2, <2>4
    <3>2. QED
      BY <1>2, <2>3, <3>1
  <2>6. q = s
    BY <2>3, <2>4, <2>5, SeqEqual
  <2>7. QED
    BY <2>1, <2>6
<1>6. QED
  BY <1>1, <1>3, <1>4, <1>5 DEF IsPrefix

(* The list s begins with the list r. *)
Begins(S, r, s) == \E u \in Seq(S) : s = r \o u

(* What a list begins with is a prefix of it, as is the list itself. *)
LEMMA BeginsPrefix ==
    ASSUME NEW S, NEW r \in Seq(S), NEW s \in Seq(S), Begins(S, r, s)
    PROVE  IsPrefix(r, s)
<1>1. PICK u \in Seq(S) : s = r \o u
  BY DEF Begins
<1>2. IsPrefix(r, r \o u)
  BY ConcatIsPrefix
<1>3. QED
  BY <1>1, <1>2

(* A list begins itself. *)
LEMMA BeginsSelf == ASSUME NEW S, NEW s \in Seq(S) PROVE Begins(S, s, s)
<1>1. <<>> \in Seq(S) /\ s = s \o <<>>
  BY EmptySeq, ConcatEmptySeq
<1>2. QED
  BY <1>1 DEF Begins

(* A list still begins with what it began with when an element is added, *)
LEMMA BeginsMore ==
    ASSUME NEW S, NEW r \in Seq(S), NEW s \in Seq(S), NEW e \in S, Begins(S, r, s)
    PROVE  Begins(S, r, Append(s, e))
<1>1. PICK u \in Seq(S) : s = r \o u
  BY DEF Begins
<1>2. r \o Append(u, e) = Append(r \o u, e)
  BY ConcatAppend
<1>3. Append(u, e) \in Seq(S)
  BY AppendProperties
<1>4. QED
  BY <1>1, <1>2, <1>3 DEF Begins

(* and with a shorter one. *)
LEMMA BeginsLess ==
    ASSUME NEW S, NEW r \in Seq(S), NEW s \in Seq(S), NEW e \in S, Begins(S, Append(r, e), s)
    PROVE  Begins(S, r, s)
<1>1. PICK u \in Seq(S) : s = Append(r, e) \o u
  BY DEF Begins
<1>2. <<e>> \in Seq(S) /\ Append(r, e) = r \o <<e>>
  BY AppendIsConcat
<1>3. (r \o <<e>>) \o u = r \o (<<e>> \o u)
  BY <1>2, ConcatAssociative
<1>4. <<e>> \o u \in Seq(S)
  BY <1>2, ConcatProperties
<1>5. QED
  BY <1>1, <1>2, <1>3, <1>4 DEF Begins

-----------------------------------------------------------------------------
(* A list of some is a list of more. *)
LEMMA WiderSeq == ASSUME NEW S, NEW T, S \subseteq T PROVE Seq(S) \subseteq Seq(T)
<1> SUFFICES ASSUME NEW s \in Seq(S) PROVE s \in Seq(T)
  OBVIOUS
<1>1. \A i \in 1..Len(s) : s[i] \in T
  BY ElementOfSeq
<1>2. DOMAIN s = 1..Len(s) /\ Len(s) \in Nat
  BY LenProperties
<1>3. s = [i \in 1..Len(s) |-> s[i]]
  BY LenProperties
<1>4. [i \in 1..Len(s) |-> s[i]] \in Seq(T)
  BY <1>1, <1>2, IsASeq
<1>5. QED
  BY <1>3, <1>4

(* All but the last element, of a list with one element more. *)
LEMMA FrontOfAppend ==
    ASSUME NEW S, NEW s \in Seq(S), NEW e \in S
    PROVE  SubSeq(Append(s, e), 1, Len(Append(s, e)) - 1) = s
<1>1. PICK n \in Nat : n = Len(s)
  BY LenProperties
<1>2. PICK t : t = Append(s, e)
  OBVIOUS
<1>3. t \in Seq(S) /\ Len(t) = n + 1 /\ \A i \in 1..n : t[i] = s[i]
  BY <1>1, <1>2, AppendProperties
<1>4. Len(t) - 1 = n
  BY <1>3
<1>5. \A i \in 1..n : t[i] \in S
  BY <1>1, <1>3, ElementOfSeq
<1>6. PICK r : r = SubSeq(t, 1, n)
  OBVIOUS
<1>7. r \in Seq(S) /\ Len(r) = n /\ \A i \in 1..n : r[i] = t[i]
  BY <1>5, <1>6, SubSeqProperties
<1>8. r = s
  BY <1>1, <1>3, <1>7, SeqEqual
<1>9. QED
  BY <1>2, <1>4, <1>6, <1>8

(* A list is all but its last element, and that element. *)
LEMMA FrontAndLast ==
    ASSUME NEW S, NEW s \in Seq(S), Len(s) > 0
    PROVE  /\ SubSeq(s, 1, Len(s) - 1) \in Seq(S) /\ s[Len(s)] \in S
           /\ s = Append(SubSeq(s, 1, Len(s) - 1), s[Len(s)])
<1>1. PICK n \in Nat : n + 1 = Len(s)
  BY LenProperties
<1>2. Len(s) - 1 = n
  BY <1>1
<1>3. \A i \in 1..n + 1 : s[i] \in S
  BY <1>1, ElementOfSeq
<1>4. PICK r : r = SubSeq(s, 1, n)
  OBVIOUS
<1>5. r \in Seq(S) /\ Len(r) = n /\ \A i \in 1..n : r[i] = s[i]
  <2>1. \A i \in 1..n : s[i] \in S
    BY <1>3
  <2>2. n = 0 => r = <<>>
    BY <1>4
  <2>3. QED
    BY <1>1, <1>4, <2>1, SubSeqProperties
<1>6. PICK e \in S : e = s[n + 1]
  BY <1>3
<1>7. PICK t : t = Append(r, e)
  OBVIOUS
<1>8. t \in Seq(S) /\ Len(t) = n + 1 /\ t[n + 1] = e /\ \A i \in 1..n : t[i] = r[i]
  BY <1>5, <1>7, AppendProperties
<1>9. \A i \in 1..n + 1 : t[i] = s[i]
  <2>1. \A i \in 1..n + 1 : i \in 1..n \/ i = n + 1
    OBVIOUS
  <2>2. QED
    BY <1>5, <1>6, <1>8, <2>1
<1>10. t = s
  BY <1>1, <1>8, <1>9, SeqEqual
<1>11. QED
  BY <1>1, <1>2, <1>3, <1>4, <1>5, <1>6, <1>7, <1>10

(* What remains are the elements at some of the places, in the same order. *)
InPlaces(g, s, gone) ==
    /\ \A i \in 1..Len(Without(s, gone)) : Without(s, gone)[i] = s[g[i]]
    /\ \A i, j \in 1..Len(Without(s, gone)) : i < j => g[i] < g[j]
    /\ \A k \in 1..Len(s) : s[k] \notin gone => \E i \in 1..Len(Without(s, gone)) : g[i] = k

(* There is such a choice of places. *)
LEMMA WithoutPlaces ==
    ASSUME NEW S, NEW s \in Seq(S), NEW gone
    PROVE  \E g \in [1..Len(Without(s, gone)) -> 1..Len(s)] : InPlaces(g, s, gone)
<1> DEFINE P(x) == \E g \in [1..Len(Without(x, gone)) -> 1..Len(x)] : InPlaces(g, x, gone)
           T == {x \in Seq(S) : P(x)}
<1>1. <<>> \in T
  <2>1. <<>> \in Seq(S) /\ Len(<<>>) = 0 /\ Without(<<>>, gone) = <<>>
    BY EmptySeq, WithoutEmpty
  <2>2. 1..0 = {}
    OBVIOUS
  <2>3. PICK g : g = [i \in {} |-> 0]
    OBVIOUS
  <2>4. g \in [{} -> {}]
    BY <2>3
  <2>5. InPlaces(g, <<>>, gone)
    BY <2>1, <2>2 DEF InPlaces
  <2>6. QED
    BY <2>1, <2>2, <2>4, <2>5
<1>2. ASSUME NEW x \in Seq(S), P(x), NEW e \in S PROVE P(Append(x, e))
  <2>1. PICK w : w = Without(x, gone)
    OBVIOUS
  <2>2. PICK t : t = Append(x, e)
    OBVIOUS
  <2>3. w \in Seq(S)
    BY <2>1, WithoutFacts
  <2>4. PICK n \in Nat : n = Len(x)
    BY LenProperties
  <2>5. PICK m \in Nat : m = Len(w)
    BY <2>3, LenProperties
  <2>6. Len(t) = n + 1 /\ t[n + 1] = e /\ \A i \in 1..n : t[i] = x[i]
    BY <2>2, <2>4, AppendProperties
  <2>7. PICK g \in [1..m -> 1..n] : InPlaces(g, x, gone)
    BY <1>2, <2>1, <2>4, <2>5
  <2>8. /\ \A i \in 1..m : w[i] = x[g[i]]
        /\ \A i, j \in 1..m : i < j => g[i] < g[j]
        /\ \A k \in 1..n : x[k] \notin gone => \E i \in 1..m : g[i] = k
    BY <2>1, <2>4, <2>5, <2>7 DEF InPlaces
  <2>9. Without(t, gone) = IF e \in gone THEN w ELSE Append(w, e)
    BY <2>1, <2>2, WithoutAppend
  <2>10. CASE e \in gone
    <3>1. g \in [1..m -> 1..n + 1]
      <4>1. \A i \in 1..m : g[i] \in 1..n + 1
        BY <2>7
      <4>2. QED
        BY <2>7, <4>1
    <3>2. Without(t, gone) = w
      BY <2>9, <2>10
    <3>3. \A i \in 1..m : w[i] = t[g[i]]
      BY <2>6, <2>7, <2>8
    <3>4. \A k \in 1..n + 1 : t[k] \notin gone => \E i \in 1..m : g[i] = k
      BY <2>6, <2>8, <2>10
    <3>5. InPlaces(g, t, gone)
      BY <2>5, <2>6, <2>8, <3>2, <3>3, <3>4 DEF InPlaces
    <3>6. QED
      BY <2>2, <2>5, <2>6, <3>1, <3>2, <3>5
  <2>11. CASE e \notin gone
    <3>1. PICK v : v = Append(w, e)
      OBVIOUS
    <3>2. Len(v) = m + 1 /\ v[m + 1] = e /\ \A i \in 1..m : v[i] = w[i]
      BY <2>3, <2>5, <3>1, AppendProperties, <1>2
    <3>3. PICK h : h = [i \in 1..m + 1 |-> IF i = m + 1 THEN n + 1 ELSE g[i]]
      OBVIOUS
    <3>4. /\ \A i \in 1..m : h[i] = g[i] /\ h[i] \in 1..n
          /\ h[m + 1] = n + 1
      BY <2>7, <3>3
    <3>5. h \in [1..m + 1 -> 1..n + 1]
      BY <2>7, <3>3
    <3>6. Without(t, gone) = v
      BY <2>9, <2>11, <3>1
    <3>7. \A i \in 1..m + 1 : v[i] = t[h[i]]
      <4>1. ASSUME NEW i \in 1..m PROVE v[i] = t[h[i]]
        <5>1. PICK p \in 1..n : p = g[i]
          BY <2>7
        <5>2. h[i] = p /\ v[i] = w[i] /\ t[p] = x[p]
          BY <2>6, <3>2, <3>4, <5>1
        <5>3. w[i] = x[p]
          BY <2>8, <5>1
        <5>4. QED
          BY <5>2, <5>3
      <4>2. v[m + 1] = t[h[m + 1]]
        BY <2>6, <3>2, <3>4
      <4>3. \A i \in 1..m + 1 : i \in 1..m \/ i = m + 1
        OBVIOUS
      <4>4. QED
        BY <4>1, <4>2, <4>3
    <3>8. \A i, j \in 1..m + 1 : i < j => h[i] < h[j]
      <4> SUFFICES ASSUME NEW i \in 1..m + 1, NEW j \in 1..m + 1, i < j PROVE h[i] < h[j]
        OBVIOUS
      <4>1. i \in 1..m
        OBVIOUS
      <4>2. CASE j = m + 1
        BY <3>4, <4>1, <4>2
      <4>3. CASE j \in 1..m
        BY <2>8, <3>4, <4>1, <4>3
      <4>4. QED
        BY <4>2, <4>3
    <3>9. \A k \in 1..n + 1 : t[k] \notin gone => \E i \in 1..m + 1 : h[i] = k
      <4> SUFFICES ASSUME NEW k \in 1..n + 1, t[k] \notin gone
                   PROVE  \E i \in 1..m + 1 : h[i] = k
        OBVIOUS
      <4>1. CASE k = n + 1
        BY <3>4, <4>1
      <4>2. CASE k \in 1..n
        <5>1. PICK i \in 1..m : g[i] = k
          BY <2>6, <2>8, <4>2
        <5>2. i \in 1..m + 1 /\ h[i] = k
          BY <3>4, <5>1
        <5>3. QED
          BY <5>2
      <4>3. QED
        BY <4>1, <4>2
    <3>10. InPlaces(h, t, gone)
      BY <2>6, <3>2, <3>6, <3>7, <3>8, <3>9 DEF InPlaces
    <3>11. QED
      BY <2>2, <2>6, <3>2, <3>5, <3>6, <3>10
  <2>12. QED
    BY <2>10, <2>11
<1>3. \A x \in Seq(S) : x \in T => \A e \in S : Append(x, e) \in T
  <2> SUFFICES ASSUME NEW x \in Seq(S), x \in T, NEW e \in S PROVE Append(x, e) \in T
    OBVIOUS
  <2>1. Append(x, e) \in Seq(S)
    BY AppendProperties
  <2>2. P(Append(x, e))
    BY <1>2
  <2> HIDE DEF P
  <2>3. QED
    BY <2>1, <2>2
<1>4. Seq(S) \subseteq T
  <2> HIDE DEF T
  <2>1. QED
    BY <1>1, <1>3, ListsIn
<1>5. QED
  BY <1>4

(* Removing one element of a sequence keeps its type and shifts the rest.  *)
LEMMA RemoveAtFacts ==
    ASSUME NEW S, NEW q \in Seq(S), NEW i \in 1..Len(q)
    PROVE  /\ RemoveAt(q, i) \in Seq(S)
           /\ Len(RemoveAt(q, i)) = Len(q) - 1
           /\ \A j \in 1..(Len(q) - 1) :
                 RemoveAt(q, i)[j] = IF j < i THEN q[j] ELSE q[j + 1]
<1> DEFINE a == SubSeq(q, 1, i - 1)
           b == SubSeq(q, i + 1, Len(q))
<1>1. /\ a \in Seq(S) /\ Len(a) = i - 1
      /\ \A j \in 1..(i - 1) : a[j] = q[j]
  <2>1. \A j \in 1..(i - 1) : q[j] \in S
    BY ElementOfSeq
  <2>2. QED  BY <2>1, SubSeqProperties
<1>2. /\ b \in Seq(S) /\ Len(b) = Len(q) - i
      /\ \A j \in 1..(Len(q) - i) : b[j] = q[i + j]
  <2>1. \A j \in (i + 1)..Len(q) : q[j] \in S
    BY ElementOfSeq
  <2>2. QED  BY <2>1, SubSeqProperties
<1> HIDE DEF a, b
<1>3. RemoveAt(q, i) = a \o b
  BY DEF RemoveAt, a, b
<1>4. /\ a \o b \in Seq(S)
      /\ Len(a \o b) = Len(a) + Len(b)
      /\ \A j \in 1..Len(a) + Len(b) :
            (a \o b)[j] = IF j <= Len(a) THEN a[j] ELSE b[j - Len(a)]
  <2>1. a \in Seq(S) /\ b \in Seq(S)
    BY <1>1, <1>2
  <2>2. QED  BY <2>1, ConcatProperties, Zenon
<1>5. Len(q) \in Nat /\ i \in Nat
  BY LenProperties
<1>6. Len(a) + Len(b) = Len(q) - 1 /\ Len(a) = i - 1
  BY <1>1, <1>2, <1>5
<1>7. ASSUME NEW j \in 1..(Len(q) - 1)
      PROVE  (a \o b)[j] = IF j < i THEN q[j] ELSE q[j + 1]
  <2>1. CASE j < i
    BY <2>1, <1>1, <1>4, <1>5, <1>6
  <2>2. CASE ~(j < i)
    <3>1. j - (i - 1) \in 1..(Len(q) - i) /\ i + (j - (i - 1)) = j + 1
      BY <2>2, <1>5
    <3>2. b[j - (i - 1)] = q[j + 1]
      BY <3>1, <1>2
    <3>3. QED  BY <2>2, <3>2, <1>4, <1>5, <1>6
  <2>3. QED  BY <2>1, <2>2
<1>8. QED
  BY <1>3, <1>4, <1>6, <1>7

(* An element that is moved to the end is still there. *)
LEMMA MovedToEnd ==
    ASSUME NEW S, NEW q \in Seq(S), NEW i \in 1..Len(q)
    PROVE  /\ Append(RemoveAt(q, i), q[i]) \in Seq(S)
           /\ ToSet(Append(RemoveAt(q, i), q[i])) = ToSet(q)
<1>1. PICK l \in Nat : l = Len(q)
  BY LenProperties
<1>2. PICK r : r = RemoveAt(q, i)
  OBVIOUS
<1>3. /\ i \in 1..l /\ q[i] \in S
      /\ r \in Seq(S) /\ Len(r) = l - 1
      /\ \A j \in 1..(l - 1) : r[j] = IF j < i THEN q[j] ELSE q[j + 1]
  BY <1>1, <1>2, RemoveAtFacts, ElementOfSeq
<1>4. PICK t : t = Append(r, q[i])
  OBVIOUS
<1>5. t \in Seq(S) /\ ToSet(t) = ToSet(r) \cup {q[i]}
  BY <1>3, <1>4, AppendProperties, AppendFacts
<1>6. DOMAIN q = 1..l /\ DOMAIN r = 1..(l - 1)
  BY <1>1, <1>3, LenProperties
<1>7. ToSet(r) \subseteq ToSet(q)
  <2>1. ASSUME NEW j \in 1..(l - 1) PROVE \E m \in 1..l : r[j] = q[m]
    <3>1. j \in 1..l /\ j + 1 \in 1..l
      OBVIOUS
    <3>2. QED
      BY <1>3, <3>1
  <2>2. QED
    BY <1>6, <2>1 DEF ToSet
<1>8. ToSet(q) \subseteq ToSet(r) \cup {q[i]}
  <2>1. ASSUME NEW m \in 1..l, m # i PROVE \E j \in 1..(l - 1) : r[j] = q[m]
    <3>1. CASE m < i
      <4>1. m \in 1..(l - 1)
        BY <1>3, <3>1
      <4>2. QED
        BY <1>3, <3>1, <4>1
    <3>2. CASE ~(m < i)
      <4>1. m - 1 \in 1..(l - 1) /\ ~(m - 1 < i) /\ (m - 1) + 1 = m
        BY <1>3, <2>1, <3>2
      <4>2. QED
        BY <1>3, <4>1
    <3>3. QED
      BY <3>1, <3>2
  <2>2. QED
    BY <1>6, <2>1 DEF ToSet
<1>9. q[i] \in ToSet(q)
  BY <1>3, <1>6 DEF ToSet
<1>10. QED
  BY <1>2, <1>4, <1>5, <1>7, <1>8, <1>9
=============================================================================
