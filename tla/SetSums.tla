------------------------------- MODULE SetSums -------------------------------
(***************************************************************************)
(* Sums over finite sets, as the folds of the community modules compute    *)
(* them: what the proofs about uses, totals and notifications count with.  *)
(***************************************************************************)
EXTENDS Integers, FiniteSetTheorems, WellFoundedInduction, TLAPS

(* Sums over sets.  MapThenSumSet is a recursive function, that takes one      *)
(* element away at a time.  Induction is over a set P of sets, so that it is   *)
(* a statement without operators: what holds of {}, and of a set if of that    *)
(* set without the element taken, holds of every subset of a finite set.      *)
Taken(s) == CHOOSE x \in s : TRUE
Rest(s)  == s \ {Taken(s)}

LEMMA LeastOfNumbers ==
  ASSUME NEW S, S \subseteq Nat, S # {}
  PROVE  \E x \in S : \A y \in S : x <= y
<1>1. PICK x \in S : \A y \in S : <<y, x>> \notin OpToRel(<, Nat)
  BY WFMin, NatLessThanWellFounded, Zenon
<1>2. ASSUME NEW y \in S PROVE ~(y < x)
  BY <1>1, Zenon DEF OpToRel
<1> QED
  BY <1>2

LEMMA NumberByNumber ==
  ASSUME NEW P, P \subseteq Nat, 0 \in P, \A n \in P : n + 1 \in P
  PROVE  P = Nat
<1> SUFFICES ASSUME P # Nat PROVE FALSE
  OBVIOUS
<1>1. Nat \ P \subseteq Nat /\ Nat \ P # {}
  OBVIOUS
<1>2. PICK n \in Nat \ P : \A m \in Nat \ P : n <= m
  BY <1>1, LeastOfNumbers
<1>3. n - 1 \in P
  BY <1>2
<1> QED
  BY <1>2, <1>3

LEMMA RestIsSmaller ==
  ASSUME NEW S, IsFiniteSet(S), NEW T \in SUBSET S, T # {}
  PROVE  /\ Taken(T) \in T /\ Rest(T) \in SUBSET S /\ Taken(T) \notin Rest(T)
         /\ Cardinality(T) \in Nat /\ Cardinality(Rest(T)) \in Nat
         /\ Cardinality(T) = Cardinality(Rest(T)) + 1
<1>1. Taken(T) \in T /\ Rest(T) \in SUBSET S
  BY DEF Taken, Rest
<1>2. IsFiniteSet(T) /\ IsFiniteSet(Rest(T))
  BY <1>1, FS_Subset
<1>3. Cardinality(Rest(T)) = Cardinality(T) - 1
  BY <1>1, <1>2, FS_RemoveElement DEF Rest
<1> QED
  BY <1>1, <1>2, <1>3, FS_CardinalityType DEF Rest

LEMMA SetBySet ==
  ASSUME NEW S, IsFiniteSet(S), NEW P, {} \in P,
         \A T \in SUBSET S : T # {} /\ Rest(T) \in P => T \in P
  PROVE  SUBSET S \subseteq P
<1> DEFINE good == {n \in Nat : \A T \in SUBSET S : Cardinality(T) = n => T \in P}
<1>1. 0 \in good
  <2>1. ASSUME NEW T \in SUBSET S, Cardinality(T) = 0 PROVE T = {}
    BY <2>1, FS_Subset, FS_EmptySet
  <2> QED
    BY <2>1
<1>2. ASSUME NEW n \in good PROVE n + 1 \in good
  <2>1. ASSUME NEW T \in SUBSET S, Cardinality(T) = n + 1 PROVE T \in P
    <3>1. T # {}
      BY <2>1, FS_EmptySet
    <3>2. Rest(T) \in SUBSET S /\ Cardinality(Rest(T)) = n
      BY <2>1, <3>1, RestIsSmaller
    <3> QED
      BY <3>1, <3>2
  <2> QED
    BY <2>1
<1>3. good = Nat
  <2> HIDE DEF good
  <2>1. good \subseteq Nat
    BY DEF good
  <2> QED
    BY <1>1, <1>2, <2>1, NumberByNumber
<1>4. ASSUME NEW T \in SUBSET S PROVE T \in P
  <2>1. Cardinality(T) \in Nat
    BY FS_Subset, FS_CardinalityType
  <2> QED
    BY <1>3, <2>1
<1> QED
  BY <1>4

(* Such a function exists: with the sets of fewer than n elements it is made *)
(* for those of n.                                                           *)
Sums(g, f, S) == g = [s \in SUBSET S |-> IF s = {} THEN 0 ELSE f[Taken(s)] + g[Rest(s)]]
Fewer(S, n)   == {s \in SUBSET S : Cardinality(s) < n}

LEMMA SumExists == ASSUME NEW S, IsFiniteSet(S), NEW f PROVE \E g : Sums(g, f, S)
<1> DEFINE rule(g, n) == \A s \in Fewer(S, n) : g[s] = IF s = {} THEN 0 ELSE f[Taken(s)] + g[Rest(s)]
           good == {n \in Nat : \E g : rule(g, n)}
<1>1. 0 \in good
  <2>1. Fewer(S, 0) = {}
    BY FS_Subset, FS_CardinalityType DEF Fewer
  <2>2. rule({}, 0)
    BY <2>1
  <2> QED
    BY <2>2
<1>2. ASSUME NEW n \in good PROVE n + 1 \in good
  <2>1. PICK g : rule(g, n)
    BY <1>2
  <2> DEFINE h == [s \in SUBSET S |-> IF s = {} THEN 0 ELSE f[Taken(s)] + g[Rest(s)]]
  <2>2. ASSUME NEW s \in Fewer(S, n) PROVE h[s] = g[s]
    BY <2>1, <2>2 DEF Fewer
  <2>3. ASSUME NEW s \in Fewer(S, n + 1), s # {} PROVE Rest(s) \in Fewer(S, n)
    BY <2>3, RestIsSmaller DEF Fewer
  <2>4. ASSUME NEW s \in Fewer(S, n + 1) PROVE h[s] = IF s = {} THEN 0 ELSE f[Taken(s)] + g[Rest(s)]
    BY <2>4 DEF Fewer
  <2> HIDE DEF h
  <2>5. rule(h, n + 1)
    BY <2>2, <2>3, <2>4
  <2> QED
    BY <2>5
<1>3. good = Nat
  <2> HIDE DEF good
  <2>1. good \subseteq Nat
    BY DEF good
  <2> QED
    BY <1>1, <1>2, <2>1, NumberByNumber
<1>4. Cardinality(S) + 1 \in Nat
  BY FS_CardinalityType
<1>5. PICK g : rule(g, Cardinality(S) + 1)
  BY <1>3, <1>4
<1>6. Fewer(S, Cardinality(S) + 1) = SUBSET S
  <2>1. ASSUME NEW T \in SUBSET S PROVE Cardinality(T) < Cardinality(S) + 1
    BY FS_Subset, FS_CardinalityType
  <2> QED
    BY <2>1 DEF Fewer
<1> DEFINE h == [s \in SUBSET S |-> g[s]]
<1>7. \A s \in SUBSET S : h[s] = IF s = {} THEN 0 ELSE f[Taken(s)] + h[Rest(s)]
  BY <1>5, <1>6 DEF Rest
<1>8. h = [s \in SUBSET S |-> IF s = {} THEN 0 ELSE f[Taken(s)] + h[Rest(s)]]
  BY <1>7
<1> QED
  BY <1>8 DEF Sums

LEMMA SumIsNumber ==
  ASSUME NEW S, IsFiniteSet(S), NEW f, \A x \in S : f[x] \in Nat, NEW g, Sums(g, f, S)
  PROVE  \A T \in SUBSET S : g[T] \in Nat
<1> DEFINE P == {T \in SUBSET S : g[T] \in Nat}
<1>1. {} \in P
  BY DEF Sums
<1>2. ASSUME NEW T \in SUBSET S, T # {}, Rest(T) \in P PROVE T \in P
  <2>1. g[T] = f[Taken(T)] + g[Rest(T)]
    BY <1>2 DEF Sums
  <2> QED
    BY <1>2, <2>1, RestIsSmaller
<1>3. SUBSET S \subseteq P
  <2> HIDE DEF P
  <2> QED
    BY <1>1, <1>2, SetBySet
<1> QED
  BY <1>3

(* What one element more or less adds to its sum.                            *)
LEMMA SumDiffers ==
  ASSUME NEW S, IsFiniteSet(S), NEW f, NEW e, \A x \in S : f[x] \in Nat,
         NEW a \in S, NEW k \in Nat, \A x \in S : e[x] = IF x = a THEN f[x] + k ELSE f[x],
         NEW g, Sums(g, f, S), NEW h, Sums(h, e, S)
  PROVE  \A T \in SUBSET S : h[T] = IF a \in T THEN g[T] + k ELSE g[T]
<1> DEFINE P == {T \in SUBSET S : h[T] = IF a \in T THEN g[T] + k ELSE g[T]}
<1>1. {} \in P
  BY DEF Sums
<1>2. ASSUME NEW T \in SUBSET S, T # {}, Rest(T) \in P PROVE T \in P
  <2>1. g[T] = f[Taken(T)] + g[Rest(T)] /\ h[T] = e[Taken(T)] + h[Rest(T)]
    BY <1>2 DEF Sums
  <2>2. Taken(T) \in S /\ Rest(T) \in SUBSET S /\ (a \in T <=> a \in Rest(T) \/ a = Taken(T)) /\ Taken(T) \notin Rest(T)
    BY <1>2, RestIsSmaller DEF Rest
  <2>3. f[Taken(T)] \in Nat /\ g[Rest(T)] \in Nat
    BY <2>2, SumIsNumber
  <2>4. h[Rest(T)] = IF a \in Rest(T) THEN g[Rest(T)] + k ELSE g[Rest(T)]
    BY <1>2
  <2> QED
    BY <2>1, <2>2, <2>3, <2>4
<1>3. SUBSET S \subseteq P
  <2> HIDE DEF P
  <2> QED
    BY <1>1, <1>2, SetBySet
<1> QED
  BY <1>3
LEMMA SumsAgree ==
  ASSUME NEW S, IsFiniteSet(S), NEW f, NEW g, Sums(g, f, S), NEW h, Sums(h, f, S)
  PROVE  g[S] = h[S]
<1> DEFINE P == {T \in SUBSET S : g[T] = h[T]}
<1>1. {} \in P
  BY DEF Sums
<1>2. ASSUME NEW T \in SUBSET S, T # {}, Rest(T) \in P PROVE T \in P
  <2>1. g[T] = f[Taken(T)] + g[Rest(T)] /\ h[T] = f[Taken(T)] + h[Rest(T)]
    BY <1>2 DEF Sums
  <2> QED
    BY <1>2, <2>1, RestIsSmaller
<1>3. SUBSET S \subseteq P
  <2> HIDE DEF P
  <2> QED
    BY <1>1, <1>2, SetBySet
<1> QED
  BY <1>3

LEMMA SumOfNothing ==
  ASSUME NEW S, IsFiniteSet(S), NEW f, \A x \in S : f[x] = 0, NEW g, Sums(g, f, S)
  PROVE  g[S] = 0
<1> DEFINE P == {T \in SUBSET S : g[T] = 0}
<1>1. {} \in P
  BY DEF Sums
<1>2. ASSUME NEW T \in SUBSET S, T # {}, Rest(T) \in P PROVE T \in P
  <2>1. g[T] = f[Taken(T)] + g[Rest(T)]
    BY <1>2 DEF Sums
  <2> QED
    BY <1>2, <2>1, RestIsSmaller
<1>3. SUBSET S \subseteq P
  <2> HIDE DEF P
  <2> QED
    BY <1>1, <1>2, SetBySet
<1> QED
  BY <1>3

(* The elements may be taken in any order.                                   *)
LEMMA SumTakesAny ==
  ASSUME NEW S, IsFiniteSet(S), NEW f, \A x \in S : f[x] \in Nat, NEW g, Sums(g, f, S),
         NEW U \in SUBSET S, NEW b \in U
  PROVE  g[U] = f[b] + g[U \ {b}]
<1> DEFINE fits(T) == \A a \in T : g[T] = f[a] + g[T \ {a}]
           good == {n \in Nat : \A T \in SUBSET S : Cardinality(T) = n => fits(T)}
<1>1. 0 \in good
  <2>1. ASSUME NEW T \in SUBSET S, Cardinality(T) = 0 PROVE T = {}
    BY <2>1, FS_Subset, FS_EmptySet
  <2> QED
    BY <2>1
<1>2. ASSUME NEW n \in good PROVE n + 1 \in good
  <2>1. ASSUME NEW T \in SUBSET S, Cardinality(T) = n + 1, NEW a \in T PROVE g[T] = f[a] + g[T \ {a}]
    <3> DEFINE x == Taken(T)
               R == T \ {x}
    <3>1. T # {}
      OBVIOUS
    <3>2. x \in T /\ R \in SUBSET S /\ Cardinality(R) = n /\ R = Rest(T)
      BY <2>1, <3>1, RestIsSmaller DEF Rest
    <3>3. g[T] = f[x] + g[R]
      BY <3>1, <3>2 DEF Sums
    <3> HIDE DEF x
    <3>4. CASE a = x
      BY <3>3, <3>4
    <3>5. CASE a # x
      <4> DEFINE A == T \ {a}
                 Q == R \ {a}
      <4>1. IsFiniteSet(T) /\ Cardinality(T) \in Nat
        BY FS_Subset, FS_CardinalityType
      <4>2. A \in SUBSET S /\ Cardinality(A) = n
        <5>1. Cardinality(A) = Cardinality(T) - 1
          BY <4>1, FS_RemoveElement
        <5> QED
          BY <2>1, <5>1
      <4>3. g[R] = f[a] + g[Q]
        BY <1>2, <3>2, <3>5
      <4>4. g[A] = f[x] + g[A \ {x}] /\ A \ {x} = Q
        BY <1>2, <3>2, <3>5, <4>2
      <4>5. f[a] \in Nat /\ f[x] \in Nat /\ g[Q] \in Nat
        BY <3>2, SumIsNumber
      <4> DEFINE fa == f[a]
                 fx == f[x]
                 gq == g[Q]
                 gr == g[R]
                 ga == g[A]
      <4>6. g[T] = fx + gr /\ gr = fa + gq /\ ga = fx + gq /\ fa \in Nat /\ fx \in Nat /\ gq \in Nat
        BY <3>3, <4>3, <4>4, <4>5
      <4> HIDE DEF fa, fx, gq, gr, ga
      <4>7. g[T] = fa + ga
        BY <4>6
      <4> QED
        BY <4>7 DEF fa, ga
    <3> QED
      BY <3>4, <3>5
  <2> QED
    BY <2>1
<1>3. good = Nat
  <2> HIDE DEF good
  <2>1. good \subseteq Nat
    BY DEF good
  <2> QED
    BY <1>1, <1>2, <2>1, NumberByNumber
<1>4. ASSUME NEW T \in SUBSET S PROVE fits(T)
  <2>1. Cardinality(T) \in Nat
    BY FS_Subset, FS_CardinalityType
  <2> QED
    BY <1>3, <2>1
<1> QED
  BY <1>4

(* A part of a set has no greater a sum; and the same if what is left out     *)
(* counts nothing.                                                           *)
LEMMA SumOfPart ==
  ASSUME NEW S, IsFiniteSet(S), NEW f, \A x \in S : f[x] \in Nat, NEW g, Sums(g, f, S)
  PROVE  \A D \in SUBSET S : g[S \ D] <= g[S]
<1> DEFINE P == {D \in SUBSET S : g[S \ D] <= g[S]}
<1>1. {} \in P
  <2>1. S \ {} = S /\ g[S] \in Nat
    BY SumIsNumber
  <2> QED
    BY <2>1
<1>2. ASSUME NEW D \in SUBSET S, D # {}, Rest(D) \in P PROVE D \in P
  <2> DEFINE x == Taken(D)
             A == S \ Rest(D)
  <2>1. x \in D /\ Rest(D) \in SUBSET S /\ x \notin Rest(D) /\ Rest(D) = D \ {x}
    BY <1>2, RestIsSmaller DEF Rest
  <2>2. A \in SUBSET S /\ x \in A /\ A \ {x} = S \ D
    BY <2>1
  <2>3. g[A] = f[x] + g[S \ D]
    BY <2>2, SumTakesAny
  <2>4. f[x] \in Nat /\ g[S \ D] \in Nat /\ g[A] \in Nat /\ g[S] \in Nat
    BY <2>1, <2>2, SumIsNumber
  <2>5. g[A] <= g[S]
    BY <1>2
  <2> HIDE DEF x, A
  <2> QED
    BY <2>3, <2>4, <2>5
<1>3. SUBSET S \subseteq P
  <2> HIDE DEF P
  <2> QED
    BY <1>1, <1>2, SetBySet
<1> QED
  BY <1>3

CountsNothing(f, D) == \A x \in D : f[x] = 0

LEMMA SumWithout ==
  ASSUME NEW S, IsFiniteSet(S), NEW f, \A x \in S : f[x] \in Nat, NEW g, Sums(g, f, S),
         NEW D \in SUBSET S, CountsNothing(f, D)
  PROVE  g[S \ D] = g[S]
<1>1. ASSUME NEW T \in SUBSET S, NEW a \in T PROVE g[T] = f[a] + g[T \ {a}]
  BY SumTakesAny
<1> DEFINE P == {T \in SUBSET D : g[S \ T] = g[S]}
<1>2. {} \in P
  BY S \ {} = S
<1>3. ASSUME NEW T \in SUBSET D, T # {}, Rest(T) \in P PROVE T \in P
  <2> DEFINE x == Taken(T)
             A == S \ Rest(T)
  <2>1. x \in T /\ Rest(T) = T \ {x}
    BY <1>3 DEF Taken, Rest
  <2>2. A \in SUBSET S /\ x \in A /\ A \ {x} = S \ T /\ f[x] = 0
    BY <2>1 DEF CountsNothing
  <2> HIDE DEF x, A
  <2>3. g[A] = f[x] + g[S \ T]
    <3>1. g[A] = f[x] + g[A \ {x}]
      BY <1>1, <2>2
    <3> QED
      BY <2>2, <3>1
  <2>4. S \ T \in SUBSET S
    OBVIOUS
  <2>5. g[S \ T] \in Nat
    BY <2>4, SumIsNumber
  <2>6. g[A] = g[S]
    BY <1>3 DEF A
  <2> QED
    BY <2>2, <2>3, <2>5, <2>6
<1>4. IsFiniteSet(D)
  BY FS_Subset
<1>5. SUBSET D \subseteq P
  <2> HIDE DEF P
  <2> QED
    BY <1>2, <1>3, <1>4, SetBySet
<1> QED
  BY <1>5

(* The sums of a set's parts are among its own.                              *)
LEMMA SumsOfPart ==
  ASSUME NEW S, IsFiniteSet(S), NEW f, NEW g, Sums(g, f, S), NEW T \in SUBSET S, NEW h, Sums(h, f, T)
  PROVE  h[T] = g[T]
<1> DEFINE e == [s \in SUBSET T |-> g[s]]
<1>1. \A s \in SUBSET T : e[s] = IF s = {} THEN 0 ELSE f[Taken(s)] + e[Rest(s)]
  BY DEF Sums, Rest
<1>2. Sums(e, f, T)
  BY <1>1 DEF Sums
<1>3. IsFiniteSet(T)
  BY FS_Subset
<1> HIDE DEF e
<1>4. h[T] = e[T]
  BY <1>2, <1>3, SumsAgree
<1> QED
  BY <1>4 DEF e

(* What is not in B counts nothing: so A has no more than B.                 *)
LEMMA SumCovers ==
  ASSUME NEW A, IsFiniteSet(A), NEW B, IsFiniteSet(B), NEW f, \A x \in A \cup B : f[x] \in Nat,
         \A x \in A \ B : f[x] = 0, NEW g, Sums(g, f, A), NEW h, Sums(h, f, B)
  PROVE  g[A] \in Nat /\ h[B] \in Nat /\ g[A] <= h[B]
<1> DEFINE S == A \cup B
<1>1. IsFiniteSet(S) /\ A \in SUBSET S /\ B \in SUBSET S /\ \A x \in S : f[x] \in Nat
  BY FS_Union
<1>2. PICK e : Sums(e, f, S)
  BY <1>1, SumExists
<1>3. g[A] = e[A] /\ h[B] = e[B]
  BY <1>1, <1>2, SumsOfPart
<1>4. e[A] \in Nat /\ e[B] \in Nat
  BY <1>1, <1>2, SumIsNumber
<1> DEFINE C == B \ A
           D == A \ B
<1>5. C \in SUBSET S /\ D \in SUBSET S /\ S \ C = A /\ S \ D = B /\ CountsNothing(f, D)
  BY DEF CountsNothing
<1> HIDE DEF S, C, D
<1>6. e[S \ C] <= e[S]
  BY <1>1, <1>2, <1>5, SumOfPart
<1>7. e[S \ D] = e[S]
  BY <1>1, <1>2, <1>5, SumWithout
<1> QED
  BY <1>3, <1>4, <1>5, <1>6, <1>7
=============================================================================
