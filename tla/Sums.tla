-------------------------------- MODULE Sums --------------------------------
(***************************************************************************)
(* Sums over finite sets, for the proofs about counters.  The counters of  *)
(* the gateway are compared with MapThenSumSet, a fold; what a fold does   *)
(* with one element more or less is an induction, which is done here over  *)
(* sets of numbers: a nonempty one has a least element (WFMin).            *)
(***************************************************************************)
EXTENDS Integers, FiniteSets, FiniteSetsExt, FiniteSetTheorems, WellFoundedInduction, TLAPS

-----------------------------------------------------------------------------
(* Induction.                                                              *)

Below == {p \in Nat \X Nat : p[1] < p[2]}

\* A nonempty set of naturals has a least element.
LEMMA Least ==
  ASSUME NEW T, T \subseteq Nat, T # {}
  PROVE  \E x \in T : \A y \in T : x <= y
<1>1. IsWellFoundedOn(Below, Nat)
  BY NatLessThanWellFounded DEF OpToRel, Below
<1>2. \E x \in T : \A y \in T : ~ (<<y, x>> \in Below)
  BY <1>1, WFMin
<1>3. PICK x \in T : \A y \in T : ~ (<<y, x>> \in Below)
  BY <1>2
<1>4. x \in Nat /\ \A y \in T : y \in Nat
  OBVIOUS
<1>5. ASSUME NEW y \in T PROVE x <= y
  <2>1. x \in Nat /\ y \in Nat
    BY <1>4
  <2>2. ~(y < x)
    BY <1>3, <2>1 DEF Below
  <2> QED BY <2>1, <2>2
<1> QED BY <1>5, <1>3

\* A set with 0 and with every successor of its elements has all naturals.
LEMMA SetInduction ==
  ASSUME NEW T, 0 \in T, \A n \in Nat : n \in T => n + 1 \in T
  PROVE  Nat \subseteq T
<1> SUFFICES ASSUME Nat \ T # {} PROVE FALSE
  OBVIOUS
<1>1. PICK x \in Nat \ T : \A y \in Nat \ T : x <= y
  BY Least
<1>2. x # 0 /\ x - 1 \in Nat /\ x - 1 \in T
  BY <1>1
<1> QED BY <1>1, <1>2

-----------------------------------------------------------------------------
(* The sum of w over S, and the recursion the fold stands for.             *)

SumOver(w, S) == MapThenSumSet(LAMBDA x : w[x], S)
\* What the fold takes next, and its recursion.
Choice(s) == CHOOSE x \in s : TRUE
Unfolds(g, w, S) == g = [s \in SUBSET S |-> IF s = {} THEN 0 ELSE w[Choice(s)] + g[s \ {Choice(s)}]]
Iter(w, S) == CHOOSE g : Unfolds(g, w, S)

\* The sum is the value of the fold at the whole set.
LEMMA SumIter == ASSUME NEW w, NEW S PROVE SumOver(w, S) = Iter(w, S)[S]
BY DEF SumOver, Iter, Choice, Unfolds, MapThenSumSet, MapThenFoldSet

\* The fold takes an element of a nonempty set.
LEMMA ChoiceIn == ASSUME NEW s, s # {} PROVE Choice(s) \in s
BY DEF Choice

\* A set without one of its elements is smaller.
LEMMA Smaller ==
  ASSUME NEW s, IsFiniteSet(s), NEW x \in s, NEW n \in Nat, Cardinality(s) <= n + 1
  PROVE  IsFiniteSet(s \ {x}) /\ Cardinality(s \ {x}) <= n /\ Cardinality(s \ {x}) \in Nat
<1>1. Cardinality(s) \in Nat /\ Cardinality(s \ {x}) = Cardinality(s) - 1 /\ IsFiniteSet(s \ {x})
  BY FS_RemoveElement, FS_CardinalityType
<1>2. Cardinality(s \ {x}) \in Nat
  BY <1>1, FS_CardinalityType
<1> QED BY <1>1, <1>2

\* The recursion of the fold has a solution on the subsets of a finite set.
LEMMA IterExists ==
  ASSUME NEW w, NEW S, IsFiniteSet(S)
  PROVE  \E g : Unfolds(g, w, S)
<1> DEFINE Upto(n) == {t \in SUBSET S : Cardinality(t) <= n}
           Part(g, n) == g = [s \in Upto(n) |-> IF s = {} THEN 0 ELSE w[Choice(s)] + g[s \ {Choice(s)}]]
           T == {n \in Nat : \E g : Part(g, n)}
<1>1. \A t \in SUBSET S : IsFiniteSet(t) /\ Cardinality(t) \in Nat
  BY FS_Subset, FS_CardinalityType
<1>2. 0 \in T
  <2>1. \A t \in Upto(0) : t = {}
    BY <1>1, FS_EmptySet
  <2> DEFINE g == [s \in Upto(0) |-> 0]
  <2>2. Part(g, 0)
    BY <2>1
  <2> QED BY <2>2
<1>3. ASSUME NEW n \in Nat, n \in T PROVE n + 1 \in T
  <2>1. PICK g : Part(g, n)
    BY <1>3
  <2> DEFINE h == [s \in Upto(n + 1) |-> IF s = {} THEN 0 ELSE w[Choice(s)] + g[s \ {Choice(s)}]]
  <2>2. ASSUME NEW s \in Upto(n + 1), s # {} PROVE s \ {Choice(s)} \in Upto(n) /\ s \ {Choice(s)} \in Upto(n + 1)
    <3>1. Choice(s) \in s /\ IsFiniteSet(s) /\ Cardinality(s) <= n + 1
      BY <2>2, ChoiceIn, <1>1
    <3>2. Cardinality(s \ {Choice(s)}) <= n /\ Cardinality(s \ {Choice(s)}) \in Nat
      BY <3>1, Smaller
    <3> QED BY <3>2
  <2>3. ASSUME NEW s \in Upto(n) PROVE h[s] = g[s]
    <3>1. s \in Upto(n + 1)
      BY <1>1
    <3> QED BY <3>1, <2>1
  <2>4. Part(h, n + 1)
    <3>1. \A s \in Upto(n + 1) : h[s] = IF s = {} THEN 0 ELSE w[Choice(s)] + h[s \ {Choice(s)}]
      BY <2>2, <2>3
    <3> QED BY <3>1
  <2>5. \E k : Part(k, n + 1)
    BY <2>4
  <2>6. n + 1 \in Nat
    OBVIOUS
  <2> HIDE DEF Part
  <2> QED BY <2>5, <2>6
<1>4. Cardinality(S) \in T
  <2> HIDE DEF T
  <2> QED BY <1>2, <1>3, SetInduction, FS_CardinalityType
<1>5. Upto(Cardinality(S)) = SUBSET S
  BY FS_Subset, FS_CardinalityType
<1>6. PICK g : Part(g, Cardinality(S))
  BY <1>4
<1> QED BY <1>5, <1>6 DEF Unfolds

\* And only one.
LEMMA IterUnique ==
  ASSUME NEW w, NEW S, IsFiniteSet(S), NEW g, NEW h, Unfolds(g, w, S), Unfolds(h, w, S)
  PROVE  g = h
<1> DEFINE T == {n \in Nat : \A s \in SUBSET S : Cardinality(s) <= n => g[s] = h[s]}
<1>1. \A t \in SUBSET S : IsFiniteSet(t) /\ Cardinality(t) \in Nat /\ Cardinality(t) <= Cardinality(S)
  BY FS_Subset, FS_CardinalityType
<1>2. 0 \in T
  <2>1. \A s \in SUBSET S : Cardinality(s) <= 0 => s = {}
    BY <1>1, FS_EmptySet
  <2>2. g[{}] = 0 /\ h[{}] = 0
    BY DEF Unfolds
  <2> QED BY <2>1, <2>2
<1>3. ASSUME NEW n \in Nat, n \in T PROVE n + 1 \in T
  <2>1. ASSUME NEW s \in SUBSET S, Cardinality(s) <= n + 1, s # {} PROVE g[s] = h[s]
    <3>1. Choice(s) \in s /\ IsFiniteSet(s)
      BY <2>1, ChoiceIn, <1>1
    <3>2. Cardinality(s \ {Choice(s)}) <= n /\ s \ {Choice(s)} \in SUBSET S
      BY <3>1, <2>1, Smaller
    <3>3. g[s \ {Choice(s)}] = h[s \ {Choice(s)}]
      BY <3>2, <1>3
    <3> QED BY <3>3, <2>1 DEF Unfolds
  <2>2. g[{}] = h[{}]
    BY DEF Unfolds
  <2> QED BY <2>1, <2>2
<1>4. Cardinality(S) \in T
  <2> HIDE DEF T
  <2> QED BY <1>2, <1>3, SetInduction, FS_CardinalityType
<1>5. \A s \in SUBSET S : g[s] = h[s]
  BY <1>4, <1>1
<1> QED BY <1>5 DEF Unfolds

\* So the fold satisfies its recursion.
LEMMA IterIs == ASSUME NEW w, NEW S, IsFiniteSet(S) PROVE Unfolds(Iter(w, S), w, S)
BY IterExists DEF Iter

\* One step of the recursion.
LEMMA UnfoldsAt ==
  ASSUME NEW w, NEW S, NEW g, Unfolds(g, w, S), NEW s \in SUBSET S, s # {}
  PROVE  g[s] = w[Choice(s)] + g[s \ {Choice(s)}]
BY DEF Unfolds

\* The recursion over a set computes the sums of its subsets as well.
LEMMA SumPart ==
  ASSUME NEW w, NEW S, IsFiniteSet(S), NEW R \in SUBSET S
  PROVE  Iter(w, S)[R] = SumOver(w, R)
<1> DEFINE g == [s \in SUBSET R |-> Iter(w, S)[s]]
<1>1. IsFiniteSet(R)
  BY FS_Subset
<1>2. Unfolds(Iter(w, S), w, S)
  BY IterIs
<1>3. ASSUME NEW s \in SUBSET R PROVE g[s] = IF s = {} THEN 0 ELSE w[Choice(s)] + g[s \ {Choice(s)}]
  <2>1. s \in SUBSET S /\ s \ {Choice(s)} \in SUBSET R
    OBVIOUS
  <2> QED BY <2>1, <1>2 DEF Unfolds
<1>4. Unfolds(g, w, R)
  BY <1>3 DEF Unfolds
<1>5. Unfolds(Iter(w, R), w, R)
  BY <1>1, IterIs
<1>6. g = Iter(w, R)
  BY <1>1, <1>4, <1>5, IterUnique
<1>7. g[R] = Iter(w, S)[R]
  OBVIOUS
<1> QED BY <1>6, <1>7, SumIter

\* Nothing sums to 0.
LEMMA SumEmpty == ASSUME NEW w PROVE SumOver(w, {}) = 0
<1>1. Unfolds(Iter(w, {}), w, {})
  BY IterIs, FS_EmptySet
<1> QED BY <1>1, SumIter DEF Unfolds

\* A sum is one element and the sum of the others.
LEMMA SumChoice ==
  ASSUME NEW w, NEW S, IsFiniteSet(S), S # {}
  PROVE  SumOver(w, S) = w[Choice(S)] + SumOver(w, S \ {Choice(S)})
<1>0. Unfolds(Iter(w, S), w, S) /\ S \in SUBSET S
  BY IterIs
<1>1. Iter(w, S)[S] = w[Choice(S)] + Iter(w, S)[S \ {Choice(S)}]
  BY <1>0, UnfoldsAt
<1>2. Iter(w, S)[S \ {Choice(S)}] = SumOver(w, S \ {Choice(S)})
  BY SumPart
<1> QED BY <1>1, <1>2, SumIter

\* A sum of naturals is natural.
LEMMA SumNat ==
  ASSUME NEW w, NEW S, IsFiniteSet(S), \A x \in S : w[x] \in Nat
  PROVE  SumOver(w, S) \in Nat
<1> DEFINE T == {n \in Nat : \A s \in SUBSET S : Cardinality(s) <= n => SumOver(w, s) \in Nat}
<1>1. \A t \in SUBSET S : IsFiniteSet(t) /\ Cardinality(t) \in Nat
  BY FS_Subset, FS_CardinalityType
<1>2. 0 \in T
  <2>1. \A s \in SUBSET S : Cardinality(s) <= 0 => s = {}
    BY <1>1, FS_EmptySet
  <2> QED BY <2>1, SumEmpty
<1>3. ASSUME NEW n \in Nat, n \in T PROVE n + 1 \in T
  <2>1. ASSUME NEW s \in SUBSET S, Cardinality(s) <= n + 1, s # {} PROVE SumOver(w, s) \in Nat
    <3>1. Choice(s) \in s /\ IsFiniteSet(s)
      BY <2>1, ChoiceIn, <1>1
    <3>2. Cardinality(s \ {Choice(s)}) <= n /\ s \ {Choice(s)} \in SUBSET S
      BY <3>1, <2>1, Smaller
    <3>3. SumOver(w, s \ {Choice(s)}) \in Nat
      BY <3>2, <1>3
    <3> QED BY <3>1, <3>3, <2>1, SumChoice
  <2> QED BY <2>1, SumEmpty
<1>4. Cardinality(S) \in T
  <2> HIDE DEF T
  <2> QED BY <1>2, <1>3, SetInduction, FS_CardinalityType
<1> QED BY <1>4, <1>1

\* Any element may be taken out of a sum: the order does not matter.
LEMMA SumOut ==
  ASSUME NEW w, NEW S, IsFiniteSet(S), \A x \in S : w[x] \in Nat, NEW x \in S
  PROVE  SumOver(w, S) = w[x] + SumOver(w, S \ {x})
<1> DEFINE T == {n \in Nat : \A s \in SUBSET S, y \in S :
                               y \in s /\ Cardinality(s) <= n => SumOver(w, s) = w[y] + SumOver(w, s \ {y})}
<1>1. \A t \in SUBSET S : IsFiniteSet(t) /\ Cardinality(t) \in Nat
  BY FS_Subset, FS_CardinalityType
<1>2. 0 \in T
  <2>1. \A s \in SUBSET S : Cardinality(s) <= 0 => s = {}
    BY <1>1, FS_EmptySet
  <2> QED BY <2>1
<1>3. ASSUME NEW n \in Nat, n \in T PROVE n + 1 \in T
  <2>1. ASSUME NEW s \in SUBSET S, NEW y \in S, y \in s, Cardinality(s) <= n + 1
        PROVE  SumOver(w, s) = w[y] + SumOver(w, s \ {y})
    <3> DEFINE a == Choice(s)
    <3>1. a \in s /\ IsFiniteSet(s) /\ s # {}
      BY <2>1, ChoiceIn, <1>1
    <3>2. SumOver(w, s) = w[a] + SumOver(w, s \ {a})
      BY <3>1, SumChoice
    <3> HIDE DEF a
    <3>3. CASE a = y
      BY <3>2, <3>3
    <3>4. CASE a # y
      <4>1. Cardinality(s \ {a}) <= n /\ Cardinality(s \ {y}) <= n
        BY <3>1, <2>1, Smaller
      <4>2. SumOver(w, s \ {a}) = w[y] + SumOver(w, (s \ {a}) \ {y})
        BY <4>1, <3>1, <3>4, <2>1, <1>3
      <4>3. SumOver(w, s \ {y}) = w[a] + SumOver(w, (s \ {y}) \ {a})
        BY <4>1, <3>1, <3>4, <2>1, <1>3
      <4>4. (s \ {a}) \ {y} = (s \ {y}) \ {a} /\ IsFiniteSet((s \ {y}) \ {a})
        BY <3>1, FS_Subset
      <4>5. SumOver(w, (s \ {y}) \ {a}) \in Nat /\ w[a] \in Nat /\ w[y] \in Nat
        BY <4>4, <3>1, SumNat
      <4> QED BY <3>2, <4>2, <4>3, <4>4, <4>5
    <3> QED BY <3>3, <3>4
  <2> QED BY <2>1
<1>4. Cardinality(S) \in T
  <2> HIDE DEF T
  <2> QED BY <1>2, <1>3, SetInduction, FS_CardinalityType
<1> QED BY <1>4, <1>1

\* A new element adds its weight.
LEMMA SumIn ==
  ASSUME NEW w, NEW S, IsFiniteSet(S), NEW x, x \notin S, \A y \in S \cup {x} : w[y] \in Nat
  PROVE  SumOver(w, S \cup {x}) = w[x] + SumOver(w, S)
<1>1. IsFiniteSet(S \cup {x}) /\ (S \cup {x}) \ {x} = S
  BY FS_AddElement
<1> QED BY <1>1, SumOut

\* The sum depends on the weights of its own elements alone.
LEMMA SumSame ==
  ASSUME NEW w, NEW v, NEW S, IsFiniteSet(S), \A x \in S : w[x] = v[x]
  PROVE  SumOver(w, S) = SumOver(v, S)
<1>1. Unfolds(Iter(w, S), w, S)
  BY IterIs
<1>2. Unfolds(Iter(w, S), v, S)
  <2> DEFINE g == Iter(w, S)
  <2>1. g = [s \in SUBSET S |-> IF s = {} THEN 0 ELSE w[Choice(s)] + g[s \ {Choice(s)}]]
    BY <1>1 DEF Unfolds
  <2> HIDE DEF g
  <2>2. \A s \in SUBSET S : s # {} => w[Choice(s)] = v[Choice(s)]
    BY ChoiceIn
  <2>3. g = [s \in SUBSET S |-> IF s = {} THEN 0 ELSE v[Choice(s)] + g[s \ {Choice(s)}]]
    BY <2>1, <2>2
  <2> QED BY <2>3 DEF g, Unfolds
<1>3. Iter(w, S) = Iter(v, S)
  BY <1>2, IterIs, IterUnique
<1> QED BY <1>3, SumIter

\* The sum over two disjoint sets is the sum of their sums.
LEMMA SumUnion ==
  ASSUME NEW w, NEW A, NEW B, IsFiniteSet(A), IsFiniteSet(B), A \cap B = {}, \A x \in A \cup B : w[x] \in Nat
  PROVE  SumOver(w, A \cup B) = SumOver(w, A) + SumOver(w, B)
<1> DEFINE T == {n \in Nat : \A s \in SUBSET B : Cardinality(s) <= n => SumOver(w, A \cup s) = SumOver(w, A) + SumOver(w, s)}
<1>1. \A t \in SUBSET B : IsFiniteSet(t) /\ Cardinality(t) \in Nat
  BY FS_Subset, FS_CardinalityType
<1>0. \A t \in SUBSET B : IsFiniteSet(A \cup t)
  BY <1>1, FS_Union
<1>2. \A t \in SUBSET B : SumOver(w, t) \in Nat /\ SumOver(w, A) \in Nat
  BY <1>1, SumNat
<1>3. 0 \in T
  <2>1. ASSUME NEW s \in SUBSET B, Cardinality(s) <= 0 PROVE SumOver(w, A \cup s) = SumOver(w, A) + SumOver(w, s)
    <3>1. s = {}
      BY <2>1, <1>1, FS_EmptySet
    <3>2. A \cup s = A /\ SumOver(w, s) = 0 /\ SumOver(w, A) \in Nat
      BY <3>1, <1>2, SumEmpty
    <3> QED BY <3>2
  <2> QED BY <2>1
<1>4. ASSUME NEW n \in Nat, n \in T PROVE n + 1 \in T
  <2>1. ASSUME NEW s \in SUBSET B, Cardinality(s) <= n + 1 PROVE SumOver(w, A \cup s) = SumOver(w, A) + SumOver(w, s)
    <3>1. CASE s = {}
      <4>1. A \cup s = A
        BY <3>1
      <4> QED BY <3>1, <4>1, SumEmpty, <1>2
    <3>2. CASE s # {}
      <4>1. PICK x : x \in s
        BY <3>2
      <4> DEFINE r == s \ {x}
      <4>2. Cardinality(r) <= n /\ r \in SUBSET B /\ x \notin A /\ x \notin r /\ IsFiniteSet(r)
        BY <4>1, <2>1, <1>1, Smaller
      <4>3. SumOver(w, A \cup r) = SumOver(w, A) + SumOver(w, r)
        BY <4>2, <1>4
      <4>4. SumOver(w, s) = w[x] + SumOver(w, r)
        <5>1. IsFiniteSet(s) /\ \A y \in s : w[y] \in Nat
          BY <1>1
        <5> QED BY <5>1, <4>1, SumOut
      <4>5. SumOver(w, A \cup s) = w[x] + SumOver(w, A \cup r)
        <5>1. (A \cup s) \ {x} = A \cup r
          BY <4>1, <4>2
        <5>2. IsFiniteSet(A \cup s) /\ x \in A \cup s /\ \A y \in A \cup s : w[y] \in Nat
          BY <1>0, <4>1
        <5> QED BY <5>1, <5>2, SumOut
      <4>6. w[x] \in Nat /\ SumOver(w, r) \in Nat /\ SumOver(w, A) \in Nat
        BY <4>1, <4>2, <1>2
      <4> QED BY <4>3, <4>4, <4>5, <4>6
    <3> QED BY <3>1, <3>2
  <2> QED BY <2>1
<1>5. Cardinality(B) \in T
  <2> HIDE DEF T
  <2> QED BY <1>3, <1>4, SetInduction, FS_CardinalityType
<1> QED BY <1>5, <1>1

\* Two weights add up.
LEMMA SumPlus ==
  ASSUME NEW u, NEW v, NEW w, NEW S, IsFiniteSet(S),
         \A x \in S : u[x] \in Nat /\ v[x] \in Nat /\ w[x] = u[x] + v[x]
  PROVE  SumOver(w, S) = SumOver(u, S) + SumOver(v, S)
<1> DEFINE T == {n \in Nat : \A s \in SUBSET S : Cardinality(s) <= n => SumOver(w, s) = SumOver(u, s) + SumOver(v, s)}
<1>0. ASSUME NEW s, s = {} PROVE SumOver(w, s) = SumOver(u, s) + SumOver(v, s)
  <2>1. SumOver(w, {}) = 0 /\ SumOver(u, {}) = 0 /\ SumOver(v, {}) = 0
    BY SumEmpty
  <2>2. SumOver(w, {}) = SumOver(u, {}) + SumOver(v, {})
    BY <2>1
  <2> QED BY <2>2, <1>0
<1>1. \A t \in SUBSET S : IsFiniteSet(t) /\ Cardinality(t) \in Nat
  BY FS_Subset, FS_CardinalityType
<1>2. 0 \in T
  <2>1. \A s \in SUBSET S : Cardinality(s) <= 0 => s = {}
    BY <1>1, FS_EmptySet
  <2> QED BY <2>1, <1>0
<1>3. ASSUME NEW n \in Nat, n \in T PROVE n + 1 \in T
  <2>1. ASSUME NEW s \in SUBSET S, Cardinality(s) <= n + 1, s # {} PROVE SumOver(w, s) = SumOver(u, s) + SumOver(v, s)
    <3> DEFINE x == Choice(s)
               r == s \ {x}
    <3>1. x \in s /\ IsFiniteSet(s) /\ s # {}
      BY <2>1, ChoiceIn, <1>1
    <3>2. SumOver(w, s) = w[x] + SumOver(w, r) /\ SumOver(u, s) = u[x] + SumOver(u, r) /\ SumOver(v, s) = v[x] + SumOver(v, r)
      BY <3>1, SumChoice
    <3> HIDE DEF x
    <3>3. Cardinality(r) <= n /\ r \in SUBSET S /\ IsFiniteSet(r)
      BY <3>1, <2>1, Smaller
    <3>4. SumOver(w, r) = SumOver(u, r) + SumOver(v, r)
      BY <3>3, <1>3
    <3>5. SumOver(u, r) \in Nat /\ SumOver(v, r) \in Nat
      <4>1. (\A y \in r : u[y] \in Nat) /\ (\A y \in r : v[y] \in Nat)
        BY <3>3
      <4> HIDE DEF r
      <4> QED BY <4>1, <3>3, SumNat
    <3>6. u[x] \in Nat /\ v[x] \in Nat /\ w[x] = u[x] + v[x]
      BY <3>1
    <3> QED BY <3>2, <3>4, <3>5, <3>6
  <2>3. \A s \in SUBSET S : Cardinality(s) <= n + 1 => SumOver(w, s) = SumOver(u, s) + SumOver(v, s)
    BY <2>1, <1>0
  <2> QED BY <2>3
<1>4. Cardinality(S) \in T
  <2> HIDE DEF T
  <2> QED BY <1>2, <1>3, SetInduction, FS_CardinalityType
<1> QED BY <1>4, <1>1
=============================================================================
