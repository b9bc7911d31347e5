---------------------------- MODULE FilterProofs ----------------------------
(***************************************************************************)
(* What it is to filter a sequence, for sequences of any length.           *)
(*                                                                         *)
(* The induction theorems of the library take a predicate.  Here a set     *)
(* stands for it: whatever set has zero and successors has every number,   *)
(* which is proved from the least number that it would lack.               *)
(***************************************************************************)
EXTENDS Filters, Integers, SequenceTheorems, WellFoundedInduction, TLAPS

\* Induction on the numbers.
LEMMA NumbersIn ==
  ASSUME NEW X, 0 \in X, \A n \in Nat : n \in X => n + 1 \in X
  PROVE  Nat \subseteq X
<1>. DEFINE lacking == Nat \ X
<1>. SUFFICES ASSUME lacking # {} PROVE FALSE
  OBVIOUS
<1>1. PICK least \in lacking : \A n \in lacking : <<n, least>> \notin OpToRel(<, Nat)
  <2>1. lacking \subseteq Nat
    OBVIOUS
  <2>. HIDE DEF lacking
  <2>. QED  BY <2>1, WFMin, NatLessThanWellFounded
<1>2. \A n \in lacking : ~(n < least)
  BY <1>1 DEF OpToRel
<1>3. least \in Nat /\ least # 0 /\ least - 1 \in Nat /\ least - 1 < least
  OBVIOUS
<1>4. least - 1 \in X
  BY <1>2, <1>3
<1>. QED  BY <1>3, <1>4

\* Induction on sequences.
LEMMA SequencesIn ==
  ASSUME NEW S, NEW X, <<>> \in X,
         \A s \in Seq(S), x \in S : s \in X => Append(s, x) \in X
  PROVE  Seq(S) \subseteq X
<1>. DEFINE N == {n \in Nat : \A s \in Seq(S) : Len(s) = n => s \in X}
<1>1. 0 \in N
  BY EmptySeq
<1>2. ASSUME NEW n \in Nat, n \in N PROVE n + 1 \in N
  <2>. SUFFICES ASSUME NEW s \in Seq(S), Len(s) = n + 1 PROVE s \in X
    OBVIOUS
  <2>1. s # <<>>
    BY EmptySeq
  <2>2. PICK front \in Seq(S), x \in S : s = Append(front, x)
    BY <2>1, SequenceEmptyOrAppend
  <2>3. Len(front) \in Nat /\ Len(s) = Len(front) + 1
    BY <2>2, AppendProperties, LenProperties
  <2>4. Len(front) = n
    BY <2>3
  <2>5. front \in X
    BY <1>2, <2>4
  <2>. QED  BY <2>2, <2>5
<1>. HIDE DEF N
<1>3. Nat \subseteq N
  BY <1>1, <1>2, NumbersIn
<1>. SUFFICES ASSUME NEW s \in Seq(S) PROVE s \in X
  OBVIOUS
<1>. QED  BY <1>3, LenProperties DEF N

-----------------------------------------------------------------------------
(* Those is well defined.                                                  *)

Filters(f, s, T) ==
  f = [n \in 0 .. Len(s) |->
         IF n = 0 THEN <<>>
         ELSE IF s[n] \in T THEN Append(f[n - 1], s[n]) ELSE f[n - 1]]

\* What a function that filters is at every length.
LEMMA FilterSteps ==
  ASSUME NEW S, NEW s \in Seq(S), NEW T, NEW f
  PROVE  Filters(f, s, T) <=>
           /\ f = [n \in 0 .. Len(s) |-> f[n]]
           /\ f[0] = <<>>
           /\ \A n \in 1 .. Len(s) :
                f[n] = IF s[n] \in T THEN Append(f[n - 1], s[n]) ELSE f[n - 1]
<1>1. Len(s) \in Nat
  BY LenProperties
<1>2. ASSUME Filters(f, s, T)
      PROVE  /\ f = [n \in 0 .. Len(s) |-> f[n]]
             /\ f[0] = <<>>
             /\ \A n \in 1 .. Len(s) :
                  f[n] = IF s[n] \in T THEN Append(f[n - 1], s[n]) ELSE f[n - 1]
  <2>1. \A n \in 0 .. Len(s) :
          f[n] = IF n = 0 THEN <<>>
                 ELSE IF s[n] \in T THEN Append(f[n - 1], s[n]) ELSE f[n - 1]
    BY <1>2 DEF Filters
  <2>2. f = [n \in 0 .. Len(s) |-> f[n]]
    BY <1>2 DEF Filters
  <2>. QED  BY <1>1, <2>1, <2>2
<1>3. ASSUME f = [n \in 0 .. Len(s) |-> f[n]], f[0] = <<>>,
             \A n \in 1 .. Len(s) :
               f[n] = IF s[n] \in T THEN Append(f[n - 1], s[n]) ELSE f[n - 1]
      PROVE  Filters(f, s, T)
  <2>1. \A n \in 0 .. Len(s) :
          f[n] = IF n = 0 THEN <<>>
                 ELSE IF s[n] \in T THEN Append(f[n - 1], s[n]) ELSE f[n - 1]
    BY <1>1, <1>3
  <2>. QED  BY <1>3, <2>1 DEF Filters
<1>. QED  BY <1>2, <1>3

\* A filter of a sequence is one of the sequence with another element, and goes
\* on with it.
LEMMA FilterGoesOn ==
  ASSUME NEW S, NEW s \in Seq(S), NEW x \in S, NEW T, NEW f, Filters(f, s, T)
  PROVE  LET last == IF x \in T THEN Append(f[Len(s)], x) ELSE f[Len(s)]
         IN  \E g : Filters(g, Append(s, x), T) /\ g[Len(Append(s, x))] = last
<1>. DEFINE last == IF x \in T THEN Append(f[Len(s)], x) ELSE f[Len(s)]
            g == [n \in 0 .. Len(s) + 1 |-> IF n = Len(s) + 1 THEN last ELSE f[n]]
            t == Append(s, x)
<1>1. /\ Len(s) \in Nat /\ t \in Seq(S) /\ Len(t) = Len(s) + 1
      /\ \A n \in 1 .. Len(s) : t[n] = s[n]
      /\ t[Len(s) + 1] = x
  BY LenProperties, AppendProperties
<1>2. /\ f[0] = <<>>
      /\ \A n \in 1 .. Len(s) :
           f[n] = IF s[n] \in T THEN Append(f[n - 1], s[n]) ELSE f[n - 1]
  BY FilterSteps
<1>. HIDE DEF t, last
<1>3. /\ g = [n \in 0 .. Len(s) + 1 |-> g[n]]
      /\ g[Len(s) + 1] = last
      /\ \A n \in 0 .. Len(s) : g[n] = f[n]
  BY <1>1
<1>. HIDE DEF g
<1>4. g[0] = <<>>
  <2>1. 0 \in 0 .. Len(s)
    BY <1>1
  <2>. QED  BY <1>2, <1>3, <2>1
<1>5. ASSUME NEW n \in 1 .. Len(t)
      PROVE  g[n] = IF t[n] \in T THEN Append(g[n - 1], t[n]) ELSE g[n - 1]
  <2>1. CASE n = Len(s) + 1
    <3>1. n - 1 = Len(s) /\ Len(s) \in 0 .. Len(s)
      BY <1>1, <2>1
    <3>2. g[n - 1] = f[Len(s)]
      BY <1>3, <3>1
    <3>3. t[n] = x /\ g[n] = last
      BY <1>1, <1>3, <2>1
    <3>. QED  BY <3>2, <3>3 DEF last
  <2>2. CASE n # Len(s) + 1
    <3>1. n \in 1 .. Len(s) /\ n \in 0 .. Len(s) /\ n - 1 \in 0 .. Len(s)
      BY <1>1, <2>2
    <3>2. g[n] = f[n] /\ g[n - 1] = f[n - 1] /\ t[n] = s[n]
      BY <1>1, <1>3, <3>1
    <3>. QED  BY <1>2, <3>1, <3>2
  <2>. QED  BY <2>1, <2>2
<1>6. Filters(g, t, T)
  BY <1>1, <1>3, <1>4, <1>5, FilterSteps
<1>. QED  BY <1>1, <1>3, <1>6 DEF t, last

\* There is one for every sequence.
LEMMA FilterExists ==
  ASSUME NEW S, NEW s \in Seq(S), NEW T
  PROVE  \E f : Filters(f, s, T)
<1>. DEFINE X == {r \in Seq(S) : \E f : Filters(f, r, T)}
<1>1. <<>> \in X
  <2>1. <<>> \in Seq(S) /\ Len(<<>>) = 0
    BY EmptySeq
  <2>2. Filters([n \in 0 .. 0 |-> <<>>], <<>>, T)
    BY <2>1 DEF Filters
  <2>. QED  BY <2>1, <2>2
<1>2. ASSUME NEW r \in Seq(S), NEW x \in S, r \in X PROVE Append(r, x) \in X
  BY <1>2, FilterGoesOn, AppendProperties
<1>. HIDE DEF X
<1>3. Seq(S) \subseteq X
  BY <1>1, <1>2, SequencesIn
<1>. QED  BY <1>3 DEF X

\* And only one.
LEMMA FilterIsUnique ==
  ASSUME NEW S, NEW s \in Seq(S), NEW T, NEW f, NEW g, Filters(f, s, T), Filters(g, s, T)
  PROVE  f[Len(s)] = g[Len(s)]
<1>. DEFINE N == {n \in Nat : n <= Len(s) => f[n] = g[n]}
<1>1. /\ Len(s) \in Nat /\ f[0] = <<>> /\ g[0] = <<>>
      /\ \A n \in 1 .. Len(s) :
           /\ f[n] = IF s[n] \in T THEN Append(f[n - 1], s[n]) ELSE f[n - 1]
           /\ g[n] = IF s[n] \in T THEN Append(g[n - 1], s[n]) ELSE g[n - 1]
  BY FilterSteps, LenProperties
<1>2. 0 \in N
  BY <1>1
<1>3. ASSUME NEW n \in Nat, n \in N PROVE n + 1 \in N
  <2>. SUFFICES ASSUME n + 1 <= Len(s) PROVE f[n + 1] = g[n + 1]
    OBVIOUS
  <2>1. n + 1 \in 1 .. Len(s) /\ (n + 1) - 1 = n /\ f[n] = g[n]
    BY <1>1, <1>3
  <2>2. /\ f[n + 1] = IF s[n + 1] \in T THEN Append(f[n], s[n + 1]) ELSE f[n]
        /\ g[n + 1] = IF s[n + 1] \in T THEN Append(g[n], s[n + 1]) ELSE g[n]
    BY <1>1, <2>1
  <2>. QED  BY <2>1, <2>2
<1>. HIDE DEF N
<1>4. Nat \subseteq N
  BY <1>2, <1>3, NumbersIn
<1>. QED  BY <1>1, <1>4 DEF N

LEMMA ThoseByFilter ==
  ASSUME NEW S, NEW s \in Seq(S), NEW T, NEW f, Filters(f, s, T)
  PROVE  Those(s, T) = f[Len(s)]
<1>. DEFINE F == CHOOSE h : Filters(h, s, T)
<1>1. Those(s, T) = F[Len(s)]
  BY DEF Those, Filters
<1>2. Filters(F, s, T)
  OBVIOUS
<1>. QED  BY <1>1, <1>2, FilterIsUnique

-----------------------------------------------------------------------------
(* Its equations.                                                          *)

LEMMA ThoseOfNone ==
  ASSUME NEW T
  PROVE  Those(<<>>, T) = <<>>
<1>1. <<>> \in Seq({}) /\ Len(<<>>) = 0
  BY EmptySeq
<1>2. PICK f : Filters(f, <<>>, T)
  BY <1>1, FilterExists
<1>3. f[0] = <<>>
  <2>1. \A s \in Seq({}) : Filters(f, s, T) => f[0] = <<>>
    BY FilterSteps
  <2>. QED  BY <1>1, <1>2, <2>1
<1>. QED  BY <1>1, <1>2, <1>3, ThoseByFilter

LEMMA ThoseAppended ==
  ASSUME NEW S, NEW s \in Seq(S), NEW x \in S, NEW T
  PROVE  Those(Append(s, x), T) =
           IF x \in T THEN Append(Those(s, T), x) ELSE Those(s, T)
<1>1. PICK f : Filters(f, s, T)
  BY FilterExists
<1>2. PICK g : /\ Filters(g, Append(s, x), T)
               /\ g[Len(Append(s, x))] =
                    IF x \in T THEN Append(f[Len(s)], x) ELSE f[Len(s)]
  BY <1>1, FilterGoesOn
<1>3. Those(s, T) = f[Len(s)]
  BY <1>1, ThoseByFilter
<1>4. Those(Append(s, x), T) = g[Len(Append(s, x))]
  BY <1>2, ThoseByFilter, AppendProperties
<1>. QED  BY <1>2, <1>3, <1>4

-----------------------------------------------------------------------------
(* What follows from them, by induction on the sequence.                   *)

\* What is left are elements that are in the set.
LEMMA ThoseType ==
  ASSUME NEW S, NEW s \in Seq(S), NEW T
  PROVE  Those(s, T) \in Seq(S \cap T) /\ Those(s, T) \in Seq(S)
<1>. DEFINE X == {r \in Seq(S) : Those(r, T) \in Seq(S \cap T)}
<1>1. <<>> \in X
  BY ThoseOfNone, EmptySeq
<1>2. ASSUME NEW r \in Seq(S), NEW x \in S, r \in X PROVE Append(r, x) \in X
  <2>1. Append(r, x) \in Seq(S)
    BY AppendProperties
  <2>2. CASE x \in T
    <3>1. Those(Append(r, x), T) = Append(Those(r, T), x)
      BY <2>2, ThoseAppended
    <3>2. x \in S \cap T /\ Those(r, T) \in Seq(S \cap T)
      BY <1>2, <2>2
    <3>3. Append(Those(r, T), x) \in Seq(S \cap T)
      BY <3>2, AppendProperties
    <3>. QED  BY <2>1, <3>1, <3>3
  <2>3. CASE x \notin T
    BY <1>2, <2>1, <2>3, ThoseAppended
  <2>. QED  BY <2>2, <2>3
<1>. HIDE DEF X
<1>3. s \in X
  BY <1>1, <1>2, SequencesIn
<1>4. Those(s, T) \in Seq(S \cap T)
  BY <1>3 DEF X
<1>. QED  BY <1>4, SeqMonotonic

\* Two sequences are filtered one after the other.
LEMMA ThoseConcat ==
  ASSUME NEW S, NEW s \in Seq(S), NEW t \in Seq(S), NEW T
  PROVE  Those(s \o t, T) = Those(s, T) \o Those(t, T)
<1>. DEFINE X == {r \in Seq(S) : Those(s \o r, T) = Those(s, T) \o Those(r, T)}
<1>t. \A r \in Seq(S) : Those(r, T) \in Seq(S)
  BY ThoseType
<1>1. <<>> \in X
  BY <1>t, ThoseOfNone, EmptySeq, ConcatEmptySeq
<1>2. ASSUME NEW r \in Seq(S), NEW x \in S, r \in X PROVE Append(r, x) \in X
  <2>1. /\ Append(r, x) \in Seq(S) /\ s \o r \in Seq(S)
        /\ s \o Append(r, x) = Append(s \o r, x)
    <3>1. Append(r, x) \in Seq(S) /\ s \o r \in Seq(S) /\ <<x>> \in Seq(S)
      BY AppendProperties, ConcatProperties
    <3>2. Append(r, x) = r \o <<x>> /\ Append(s \o r, x) = (s \o r) \o <<x>>
      BY <3>1, AppendIsConcat
    <3>3. (s \o r) \o <<x>> = s \o (r \o <<x>>)
      BY <3>1, ConcatAssociative
    <3>. QED  BY <3>1, <3>2, <3>3
  <2>2. Those(s \o r, T) = Those(s, T) \o Those(r, T)
    BY <1>2
  <2>3. CASE x \in T
    <3>1. Those(Append(s \o r, x), T) = Append(Those(s \o r, T), x)
      BY <2>1, <2>3, ThoseAppended
    <3>2. Those(Append(r, x), T) = Append(Those(r, T), x)
      BY <2>3, ThoseAppended
    <3>3. /\ Those(s, T) \in Seq(S) /\ Those(r, T) \in Seq(S) /\ <<x>> \in Seq(S)
          /\ Those(s, T) \o Those(r, T) \in Seq(S)
      BY <1>t, ConcatProperties
    <3>4. /\ Append(Those(s, T) \o Those(r, T), x) = (Those(s, T) \o Those(r, T)) \o <<x>>
          /\ Append(Those(r, T), x) = Those(r, T) \o <<x>>
      BY <3>3, AppendIsConcat
    <3>5. (Those(s, T) \o Those(r, T)) \o <<x>> = Those(s, T) \o (Those(r, T) \o <<x>>)
      BY <3>3, ConcatAssociative
    <3>. QED  BY <2>1, <2>2, <3>1, <3>2, <3>4, <3>5
  <2>4. CASE x \notin T
    <3>1. Those(s \o Append(r, x), T) = Those(s \o r, T)
      BY <2>1, <2>4, ThoseAppended
    <3>2. Those(Append(r, x), T) = Those(r, T)
      BY <2>4, ThoseAppended
    <3>. QED  BY <2>1, <2>2, <3>1, <3>2
  <2>. QED  BY <2>3, <2>4
<1>. HIDE DEF X
<1>3. t \in X
  BY <1>1, <1>2, SequencesIn
<1>. QED  BY <1>3 DEF X

\* What is left was there, in the same order.
LEMMA ThoseInOrder ==
  ASSUME NEW S, NEW s \in Seq(S), NEW T
  PROVE  InOrderOf(Those(s, T), s)
<1>. DEFINE X == {r \in Seq(S) : InOrderOf(Those(r, T), r)}
<1>1. <<>> \in X
  BY ThoseOfNone, EmptySeq DEF InOrderOf
<1>2. ASSUME NEW r \in Seq(S), NEW x \in S, r \in X PROVE Append(r, x) \in X
  <2>. DEFINE u == Those(r, T)
  <2>0. InOrderOf(u, r) /\ u \in Seq(S)
    BY <1>2, ThoseType
  <2>1. /\ Append(r, x) \in Seq(S)
        /\ Len(r) \in Nat /\ Len(u) \in Nat
        /\ DOMAIN r = 1 .. Len(r) /\ DOMAIN u = 1 .. Len(u)
        /\ DOMAIN Append(r, x) = 1 .. Len(r) + 1
        /\ \A i \in 1 .. Len(r) : Append(r, x)[i] = r[i]
        /\ Append(r, x)[Len(r) + 1] = x
    BY <2>0, AppendProperties, LenProperties
  <2>2. CASE x \notin T
    <3>1. Those(Append(r, x), T) = u
      BY <2>2, ThoseAppended
    <3>. HIDE DEF u
    <3>2. InOrderOf(u, Append(r, x))
      <4>. SUFFICES ASSUME NEW i \in DOMAIN u, NEW j \in DOMAIN u, i <= j
                    PROVE  \E k, l \in DOMAIN Append(r, x) :
                             /\ k <= l /\ (i < j => k < l)
                             /\ Append(r, x)[k] = u[i] /\ Append(r, x)[l] = u[j]
        BY DEF InOrderOf
      <4>1. PICK k, l \in DOMAIN r :
              k <= l /\ (i < j => k < l) /\ r[k] = u[i] /\ r[l] = u[j]
        BY <2>0 DEF InOrderOf
      <4>2. /\ k \in DOMAIN Append(r, x) /\ l \in DOMAIN Append(r, x)
            /\ Append(r, x)[k] = r[k] /\ Append(r, x)[l] = r[l]
        BY <2>1
      <4>. QED  BY <4>1, <4>2
    <3>. QED  BY <2>1, <3>1, <3>2
  <2>3. CASE x \in T
    <3>. DEFINE v == Append(u, x)
    <3>1. Those(Append(r, x), T) = v
      BY <2>3, ThoseAppended
    <3>. HIDE DEF u
    <3>2. /\ DOMAIN v = 1 .. Len(u) + 1
          /\ \A i \in 1 .. Len(u) : v[i] = u[i]
          /\ v[Len(u) + 1] = x
      BY <2>1, AppendProperties, LenProperties
    <3>. HIDE DEF v
    <3>3. InOrderOf(v, Append(r, x))
      <4>. SUFFICES ASSUME NEW i \in DOMAIN v, NEW j \in DOMAIN v, i <= j
                    PROVE  \E k, l \in DOMAIN Append(r, x) :
                             /\ k <= l /\ (i < j => k < l)
                             /\ Append(r, x)[k] = v[i] /\ Append(r, x)[l] = v[j]
        BY DEF InOrderOf
      <4>1. CASE j \in DOMAIN u
        <5>1. i \in DOMAIN u /\ v[i] = u[i] /\ v[j] = u[j]
          BY <2>1, <3>2, <4>1
        <5>2. PICK k, l \in DOMAIN r :
                k <= l /\ (i < j => k < l) /\ r[k] = u[i] /\ r[l] = u[j]
          BY <2>0, <4>1, <5>1 DEF InOrderOf
        <5>3. /\ k \in DOMAIN Append(r, x) /\ l \in DOMAIN Append(r, x)
              /\ Append(r, x)[k] = r[k] /\ Append(r, x)[l] = r[l]
          BY <2>1
        <5>. QED  BY <5>1, <5>2, <5>3
      <4>2. CASE i \in DOMAIN u /\ j = Len(u) + 1
        <5>1. PICK k \in DOMAIN r : r[k] = u[i]
          <6>1. i <= i
            BY <2>1, <4>2
          <6>. QED  BY <2>0, <4>2, <6>1 DEF InOrderOf
        <5>2. /\ k \in DOMAIN Append(r, x) /\ Len(r) + 1 \in DOMAIN Append(r, x)
              /\ k < Len(r) + 1 /\ k <= Len(r) + 1
              /\ Append(r, x)[k] = u[i] /\ Append(r, x)[Len(r) + 1] = x
          BY <2>1, <5>1
        <5>3. v[i] = u[i] /\ v[j] = x
          BY <2>1, <3>2, <4>2
        <5>. QED  BY <5>2, <5>3
      <4>3. CASE i = Len(u) + 1 /\ j = Len(u) + 1
        <5>1. /\ Len(r) + 1 \in DOMAIN Append(r, x) /\ Append(r, x)[Len(r) + 1] = x
              /\ v[i] = x /\ v[j] = x /\ ~(i < j) /\ Len(r) + 1 <= Len(r) + 1
          BY <2>1, <3>2, <4>3
        <5>. QED  BY <5>1
      <4>. QED  BY <2>1, <3>2, <4>1, <4>2, <4>3
    <3>. QED  BY <2>1, <3>1, <3>3
  <2>. QED  BY <2>2, <2>3
<1>. HIDE DEF X
<1>3. s \in X
  BY <1>1, <1>2, SequencesIn
<1>. QED  BY <1>3 DEF X

\* One sequence has every element of another that is in a set.
HasAllOf(u, r, T) ==
  \A i \in DOMAIN r : r[i] \in T => \E j \in DOMAIN u : u[j] = r[i]

\* Nothing that is in the set is left out.
LEMMA ThoseAreLeft ==
  ASSUME NEW S, NEW s \in Seq(S), NEW T
  PROVE  HasAllOf(Those(s, T), s, T)
<1>. DEFINE X == {r \in Seq(S) : HasAllOf(Those(r, T), r, T)}
<1>1. <<>> \in X
  BY EmptySeq DEF HasAllOf
<1>2. ASSUME NEW r \in Seq(S), NEW x \in S, r \in X PROVE Append(r, x) \in X
  <2>. DEFINE u == Those(r, T)
              v == Those(Append(r, x), T)
  <2>0. HasAllOf(u, r, T) /\ u \in Seq(S)
    BY <1>2, ThoseType
  <2>1. /\ Append(r, x) \in Seq(S)
        /\ Len(r) \in Nat /\ DOMAIN r = 1 .. Len(r)
        /\ DOMAIN Append(r, x) = 1 .. Len(r) + 1
        /\ \A i \in 1 .. Len(r) : Append(r, x)[i] = r[i]
        /\ Append(r, x)[Len(r) + 1] = x
    BY AppendProperties, LenProperties
  <2>2. v = IF x \in T THEN Append(u, x) ELSE u
    BY ThoseAppended
  <2>. HIDE DEF u, v
  <2>3. /\ \A j \in DOMAIN u : j \in DOMAIN v /\ v[j] = u[j]
        /\ x \in T => \E j \in DOMAIN v : v[j] = x
    <3>1. /\ Len(u) \in Nat /\ DOMAIN u = 1 .. Len(u)
          /\ DOMAIN Append(u, x) = 1 .. Len(u) + 1
          /\ \A j \in 1 .. Len(u) : Append(u, x)[j] = u[j]
          /\ Append(u, x)[Len(u) + 1] = x
      BY <2>0, AppendProperties, LenProperties
    <3>2. Len(u) + 1 \in 1 .. Len(u) + 1 /\ \A j \in 1 .. Len(u) : j \in 1 .. Len(u) + 1
      BY <3>1
    <3>. QED  BY <2>2, <3>1, <3>2
  <2>4. HasAllOf(v, Append(r, x), T)
    <3>. SUFFICES ASSUME NEW i \in DOMAIN Append(r, x), Append(r, x)[i] \in T
                  PROVE  \E j \in DOMAIN v : v[j] = Append(r, x)[i]
      BY DEF HasAllOf
    <3>1. CASE i \in DOMAIN r
      BY <2>0, <2>1, <2>3, <3>1 DEF HasAllOf
    <3>2. CASE i = Len(r) + 1
      BY <2>1, <2>3, <3>2
    <3>. QED  BY <2>1, <3>1, <3>2
  <2>. QED  BY <2>1, <2>4 DEF v
<1>. HIDE DEF X
<1>3. s \in X
  BY <1>1, <1>2, SequencesIn
<1>. QED  BY <1>3 DEF X

=============================================================================
