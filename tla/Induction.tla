------------------------------- MODULE Induction -------------------------------
(***************************************************************************)
(* Induction and recursion over the natural numbers, stated about sets, so *)
(* that no theorem has an operator as a parameter: a set of numbers that   *)
(* holds 0 and is closed under successor holds all; a function on 0..N may *)
(* be defined from its value at the number before.                         *)
(***************************************************************************)
EXTENDS FiniteSetTheorems, Sequences, TLAPS

LEMMA Least ==
  ASSUME NEW T, T \subseteq Nat, T # {}
  PROVE  \E m \in T : \A n \in T : m <= n
<1> DEFINE R == OpToRel(<, Nat)
<1>1. IsWellFoundedOn(R, Nat)
  BY NatLessThanWellFounded
<1>2. \A x, y \in Nat : <<x, y>> \in R <=> x < y
  BY DEF OpToRel
<1> HIDE DEF R
<1>3. PICK m \in T : \A n \in T : ~(<<n, m>> \in R)
  BY <1>1, WFMin
<1>4. ASSUME NEW n \in T PROVE m <= n
  <2>1. ~(<<n, m>> \in R) BY <1>3
  <2>2. n \in Nat /\ m \in Nat OBVIOUS
  <2>3. ~(n < m) BY <1>2, <2>1, <2>2
  <2> QED BY <2>2, <2>3
<1> QED BY <1>4

LEMMA Inductive ==
  ASSUME NEW G, 0 \in G, \A n \in Nat : n \in G => n + 1 \in G
  PROVE  Nat \subseteq G
<1> SUFFICES ASSUME Nat \ G # {} PROVE FALSE
  OBVIOUS
<1>1. PICK m \in Nat \ G : \A n \in Nat \ G : m <= n
  BY Least
<1>2. m - 1 \in Nat /\ m - 1 \in G
  BY <1>1
<1> QED BY <1>1, <1>2

\* The same up to a bound.
LEMMA InductiveUpTo ==
  ASSUME NEW N \in Nat, NEW G, 0 \in G, \A n \in 0..(N - 1) : n \in G => n + 1 \in G
  PROVE  0..N \subseteq G
<1> DEFINE H == {n \in Nat : n \in 0..N => n \in G}
<1>1. 0 \in H /\ \A n \in Nat : n \in H => n + 1 \in H
  <2> SUFFICES ASSUME NEW n \in Nat, n \in 0..N => n \in G, n + 1 \in 0..N PROVE n + 1 \in G
    OBVIOUS
  <2>1. n \in 0..(N - 1) /\ n \in 0..N OBVIOUS
  <2> QED BY <2>1
<1> HIDE DEF H
<1>2. Nat \subseteq H BY <1>1, Inductive
<1> QED BY <1>2 DEF H

\* F is base at 0, and step gives its value at i from i and its value before.
Recursive(F, N, S, base, step) ==
  F \in [0..N -> S] /\ F[0] = base /\ \A i \in 1..N : F[i] = step[<<i, F[i - 1]>>]

\* There is such a function.
LEMMA Recursion ==
  ASSUME NEW N \in Nat, NEW S, NEW base \in S, NEW step \in [(1..N) \X S -> S]
  PROVE  \E F : Recursive(F, N, S, base, step)
<1> DEFINE Good(n, F) == F \in [0..n -> S] /\ F[0] = base
                         /\ \A i \in 1..n : F[i] = step[<<i, F[i - 1]>>]
           G == {n \in Nat : \E F \in [0..n -> S] : Good(n, F)}
<1>1. 0 \in G
  <2> DEFINE F0 == [i \in 0..0 |-> base]
  <2>1. Good(0, F0) OBVIOUS
  <2> QED BY <2>1
<1>2. ASSUME NEW n \in 0..(N - 1), n \in G PROVE n + 1 \in G
  <2>1. PICK F \in [0..n -> S] : Good(n, F) BY <1>2
  <2> DEFINE H == [i \in 0..(n + 1) |-> IF i = n + 1 THEN step[<<n + 1, F[n]>>] ELSE F[i]]
  <2>2. F[n] \in S /\ <<n + 1, F[n]>> \in (1..N) \X S OBVIOUS
  <2>3. step[<<n + 1, F[n]>>] \in S BY <2>2
  <2>4. H \in [0..(n + 1) -> S] BY <2>3
  <2>5. H[n + 1] = step[<<n + 1, F[n]>>] /\ \A i \in 0..n : H[i] = F[i] OBVIOUS
  <2> HIDE DEF H
  <2>6. \A i \in 1..(n + 1) : H[i] = step[<<i, H[i - 1]>>]
    <3> SUFFICES ASSUME NEW i \in 1..(n + 1) PROVE H[i] = step[<<i, H[i - 1]>>]
      OBVIOUS
    <3>1. CASE i = n + 1
      <4>1. i - 1 = n /\ H[n] = F[n] BY <2>5, <3>1
      <4> QED BY <2>5, <3>1, <4>1
    <3>2. CASE i # n + 1
      <4>1. i \in 1..n /\ i - 1 \in 0..n /\ i \in 0..n BY <3>2
      <4> QED BY <2>1, <2>5, <4>1
    <3> QED BY <3>1, <3>2
  <2>7. Good(n + 1, H) BY <2>1, <2>4, <2>5, <2>6
  <2> QED BY <2>4, <2>7
<1> HIDE DEF G
<1>3. 0..N \subseteq G BY <1>1, <1>2, InductiveUpTo
<1>4. N \in G BY <1>3
<1> QED BY <1>4 DEF G, Recursive

\* A set of sequences that holds the empty one and is closed under Append holds all.
LEMMA InductiveSeq ==
  ASSUME NEW U, NEW G, << >> \in G, \A s \in Seq(U), x \in U : s \in G => Append(s, x) \in G
  PROVE  Seq(U) \subseteq G
<1> DEFINE H == {n \in Nat : \A s \in Seq(U) : Len(s) = n => s \in G}
<1>1. 0 \in H
  <2>1. \A s \in Seq(U) : Len(s) = 0 => s = << >> OBVIOUS
  <2> QED BY <2>1
<1>2. ASSUME NEW n \in Nat, n \in H PROVE n + 1 \in H
  <2> SUFFICES ASSUME NEW s \in Seq(U), Len(s) = n + 1 PROVE s \in G
    OBVIOUS
  <2> DEFINE front == SubSeq(s, 1, n)
  <2>1. front \in Seq(U) /\ Len(front) = n /\ s[n + 1] \in U OBVIOUS
  <2>2. Append(front, s[n + 1]) = s OBVIOUS
  <2>3. front \in G BY <1>2, <2>1
  <2> QED BY <2>1, <2>2, <2>3
<1> HIDE DEF H
<1>3. Nat \subseteq H BY <1>1, <1>2, Inductive
<1>4. \A s \in Seq(U) : Len(s) \in H BY <1>3
<1> QED BY <1>4 DEF H

-----------------------------------------------------------------------------
(* The sum of the values of a function, as FoldFunction has it: by a       *)
(* recursion over sets that takes away one chosen element at a time.       *)

Picked(s) == CHOOSE x \in s : TRUE

Sums(f) ==
  CHOOSE iter : iter = [s \in SUBSET DOMAIN f |->
                          IF s = {} THEN 0 ELSE f[Picked(s)] + iter[s \ {Picked(s)}]]

\* A smaller set is left when one is taken away.
LEMMA OneLess ==
  ASSUME NEW s, IsFiniteSet(s), s # {}
  PROVE  /\ Picked(s) \in s /\ s \ {Picked(s)} \in SUBSET s /\ IsFiniteSet(s \ {Picked(s)})
         /\ Cardinality(s) \in Nat \ {0}
         /\ Cardinality(s \ {Picked(s)}) = Cardinality(s) - 1
<1>1. Picked(s) \in s BY DEF Picked
<1> QED BY <1>1, FS_RemoveElement, FS_CardinalityType, FS_EmptySet

\* A set of sets that holds the empty one, and each from which taking one away leaves a
\* member, holds every finite set.
LEMMA InductiveSets ==
  ASSUME NEW D, IsFiniteSet(D), NEW G, {} \in G,
         \A s \in SUBSET D : s # {} /\ s \ {Picked(s)} \in G => s \in G
  PROVE  SUBSET D \subseteq G
<1> DEFINE H == {n \in Nat : \A s \in SUBSET D : Cardinality(s) = n => s \in G}
<1>1. \A s \in SUBSET D : IsFiniteSet(s) /\ Cardinality(s) \in Nat
  BY FS_Subset, FS_CardinalityType
<1>2. 0 \in H BY <1>1, FS_EmptySet
<1>3. ASSUME NEW n \in Nat, n \in H PROVE n + 1 \in H
  <2> SUFFICES ASSUME NEW s \in SUBSET D, Cardinality(s) = n + 1 PROVE s \in G
    OBVIOUS
  <2>1. s # {} BY FS_EmptySet
  <2>2. s \ {Picked(s)} \in SUBSET D /\ Cardinality(s \ {Picked(s)}) = n
    BY <1>1, <2>1, OneLess
  <2> QED BY <1>3, <2>1, <2>2
<1> HIDE DEF H
<1>4. Nat \subseteq H BY <1>2, <1>3, Inductive
<1> QED BY <1>1, <1>4 DEF H

LEMMA SumsRecursion ==
  ASSUME NEW D, IsFiniteSet(D), NEW f \in [D -> Nat]
  PROVE  /\ Sums(f) \in [SUBSET D -> Nat] /\ Sums(f)[{}] = 0
         /\ \A s \in SUBSET D : s # {} => Sums(f)[s] = f[Picked(s)] + Sums(f)[s \ {Picked(s)}]
<1> DEFINE Upto(n)    == {s \in SUBSET D : Cardinality(s) <= n}
           Good(n, F) == /\ F[{}] = 0
                         /\ \A s \in Upto(n) : s # {} => F[s] = f[Picked(s)] + F[s \ {Picked(s)}]
           G          == {n \in Nat : \E F \in [Upto(n) -> Nat] : Good(n, F)}
<1>1. \A s \in SUBSET D : IsFiniteSet(s) /\ Cardinality(s) \in Nat
  BY FS_Subset, FS_CardinalityType
<1>2. Cardinality({}) = 0 /\ \A s \in SUBSET D : Cardinality(s) = 0 => s = {}
  BY <1>1, FS_EmptySet
<1>3. 0 \in G
  <2>1. Upto(0) = {{}} BY <1>1, <1>2
  <2> DEFINE F0 == [s \in Upto(0) |-> 0]
  <2>2. F0 \in [Upto(0) -> Nat] /\ Good(0, F0) BY <2>1
  <2> QED BY <2>2
<1>4. ASSUME NEW n \in Nat, n \in G PROVE n + 1 \in G
  <2>1. PICK F \in [Upto(n) -> Nat] : Good(n, F) BY <1>4
  <2> DEFINE H == [s \in Upto(n + 1) |->
                     IF s = {} THEN 0 ELSE f[Picked(s)] + F[s \ {Picked(s)}]]
  <2>2. ASSUME NEW s \in Upto(n + 1), s # {}
        PROVE  s \ {Picked(s)} \in Upto(n) /\ Picked(s) \in D
    BY <1>1, <2>2, OneLess
  <2>3. H \in [Upto(n + 1) -> Nat]
    <3>1. ASSUME NEW s \in Upto(n + 1), s # {} PROVE f[Picked(s)] + F[s \ {Picked(s)}] \in Nat
      <4>1. f[Picked(s)] \in Nat BY <2>2, <3>1
      <4>2. F[s \ {Picked(s)}] \in Nat BY <2>1, <2>2, <3>1
      <4> QED BY <4>1, <4>2
    <3> QED BY <3>1
  <2>4. Upto(n) \subseteq Upto(n + 1) /\ {} \in Upto(n) BY <1>1, <1>2
  <2>5. \A s \in Upto(n) : H[s] = F[s]
    BY <2>1, <2>4
  <2>6. Good(n + 1, H)
    <3>1. H[{}] = 0 BY <2>4
    <3>2. ASSUME NEW s \in Upto(n + 1), s # {}
          PROVE  H[s] = f[Picked(s)] + H[s \ {Picked(s)}]
      <4>1. H[s] = f[Picked(s)] + F[s \ {Picked(s)}] BY <3>2
      <4>2. s \ {Picked(s)} \in Upto(n) BY <2>2, <3>2
      <4>3. H[s \ {Picked(s)}] = F[s \ {Picked(s)}] BY <2>5, <4>2
      <4> HIDE DEF H, Upto
      <4> QED BY <4>1, <4>3
    <3> HIDE DEF H, Upto
    <3> QED BY <3>1, <3>2
  <2> HIDE DEF H, Good, Upto
  <2> QED BY <2>3, <2>6
<1> HIDE DEF G
<1>5. Nat \subseteq G BY <1>3, <1>4, Inductive
<1>6. Cardinality(D) \in Nat /\ Upto(Cardinality(D)) = SUBSET D
  BY <1>1, FS_Subset
<1>7. PICK F \in [SUBSET D -> Nat] : Good(Cardinality(D), F)
  <2>1. Cardinality(D) \in G BY <1>5, <1>6
  <2>2. \E F \in [Upto(Cardinality(D)) -> Nat] : Good(Cardinality(D), F)
    BY <2>1 DEF G
  <2> HIDE DEF Upto, Good
  <2> QED BY <1>6, <2>2
<1>8. F = [s \in SUBSET D |-> IF s = {} THEN 0 ELSE f[Picked(s)] + F[s \ {Picked(s)}]]
  <2>1. \A s \in SUBSET D : F[s] = IF s = {} THEN 0 ELSE f[Picked(s)] + F[s \ {Picked(s)}]
    <3> HIDE DEF Upto
    <3> QED BY <1>6, <1>7
  <2> QED BY <1>7, <2>1
<1> DEFINE S == Sums(f)
<1>9. S = CHOOSE iter : iter = [s \in SUBSET D |->
                                  IF s = {} THEN 0 ELSE f[Picked(s)] + iter[s \ {Picked(s)}]]
  <2>1. DOMAIN f = D OBVIOUS
  <2> QED BY <2>1 DEF Sums
<1> HIDE DEF S
<1>10. S = [s \in SUBSET D |-> IF s = {} THEN 0 ELSE f[Picked(s)] + S[s \ {Picked(s)}]]
  BY <1>8, <1>9
<1>11. S[{}] = 0 /\ \A s \in SUBSET D : s # {} => S[s] = f[Picked(s)] + S[s \ {Picked(s)}]
  BY <1>10
<1>12. S \in [SUBSET D -> Nat]
  <2> DEFINE N == {s \in SUBSET D : S[s] \in Nat}
  <2>1. {} \in N BY <1>11
  <2>2. ASSUME NEW s \in SUBSET D, s # {}, s \ {Picked(s)} \in N PROVE s \in N
    <3>1. f[Picked(s)] \in Nat BY <1>1, <2>2, OneLess
    <3>2. S[s \ {Picked(s)}] \in Nat BY <2>2
    <3> QED BY <1>11, <2>2, <3>1, <3>2
  <2> HIDE DEF N
  <2>3. SUBSET D \subseteq N BY <2>1, <2>2, InductiveSets
  <2>4. \A s \in SUBSET D : S[s] \in Nat BY <2>3 DEF N
  <2>5. DOMAIN S = SUBSET D /\ S = [s \in SUBSET D |-> S[s]] BY <1>10
  <2> QED BY <2>4, <2>5
<1> QED BY <1>11, <1>12 DEF S

\* One value more by one makes the sum more by one.
LEMMA SumsAdd ==
  ASSUME NEW D, IsFiniteSet(D), NEW f \in [D -> Nat], NEW d \in D,
         NEW g, g = [f EXCEPT ![d] = @ + 1]
  PROVE  Sums(g)[D] = Sums(f)[D] + 1
<1>1. g \in [D -> Nat] /\ g[d] = f[d] + 1 /\ \A x \in D \ {d} : g[x] = f[x]
  OBVIOUS
<1> DEFINE S == Sums(f)
           T == Sums(g)
           G == {s \in SUBSET D : T[s] = IF d \in s THEN S[s] + 1 ELSE S[s]}
<1>2. /\ S \in [SUBSET D -> Nat] /\ S[{}] = 0
      /\ \A s \in SUBSET D : s # {} => S[s] = f[Picked(s)] + S[s \ {Picked(s)}]
  <2>1. \A h \in [D -> Nat] :
          /\ Sums(h) \in [SUBSET D -> Nat] /\ Sums(h)[{}] = 0
          /\ \A s \in SUBSET D : s # {} => Sums(h)[s] = h[Picked(s)] + Sums(h)[s \ {Picked(s)}]
    BY SumsRecursion
  <2> QED BY <2>1
<1>t. T[{}] = 0 /\ \A s \in SUBSET D : s # {} => T[s] = g[Picked(s)] + T[s \ {Picked(s)}]
  BY <1>1, SumsRecursion
<1> HIDE DEF S, T
<1>3. {} \in G BY <1>2, <1>t
<1>4. ASSUME NEW s \in SUBSET D, s # {}, s \ {Picked(s)} \in G PROVE s \in G
  <2> DEFINE x == Picked(s)
  <2>1. x \in s /\ x \in D /\ s \ {x} \in SUBSET D
    BY <1>4, FS_Subset, OneLess
  <2>2. S[s \ {x}] \in Nat /\ f[x] \in Nat BY <1>2, <2>1
  <2>3. S[s] = f[x] + S[s \ {x}] /\ T[s] = g[x] + T[s \ {x}] BY <1>2, <1>t, <1>4
  <2>4. T[s \ {x}] = IF d \in s \ {x} THEN S[s \ {x}] + 1 ELSE S[s \ {x}] BY <1>4
  <2> HIDE DEF x
  <2>5. CASE x = d
    <3>1. g[x] = f[x] + 1 /\ d \in s /\ d \notin s \ {x} BY <1>1, <2>1, <2>5
    <3> QED BY <2>2, <2>3, <2>4, <3>1
  <2>6. CASE x # d
    <3>1. g[x] = f[x] /\ (d \in s <=> d \in s \ {x}) BY <1>1, <2>1, <2>6
    <3> QED BY <2>2, <2>3, <2>4, <3>1
  <2> QED BY <2>5, <2>6
<1> HIDE DEF G
<1>5. SUBSET D \subseteq G BY <1>3, <1>4, InductiveSets
<1>6. D \in G BY <1>5
<1> QED BY <1>6 DEF G, S, T

LEMMA SumsZero ==
  ASSUME NEW D, IsFiniteSet(D), NEW f \in [D -> Nat], \A x \in D : f[x] = 0
  PROVE  Sums(f)[D] = 0
<1> DEFINE S == Sums(f)
           G == {s \in SUBSET D : S[s] = 0}
<1>1. S[{}] = 0 /\ \A s \in SUBSET D : s # {} => S[s] = f[Picked(s)] + S[s \ {Picked(s)}]
  BY SumsRecursion
<1> HIDE DEF S
<1>2. {} \in G BY <1>1
<1>3. ASSUME NEW s \in SUBSET D, s # {}, s \ {Picked(s)} \in G PROVE s \in G
  <2>1. Picked(s) \in D BY <1>3, FS_Subset, OneLess
  <2>2. f[Picked(s)] = 0 /\ S[s \ {Picked(s)}] = 0 BY <1>3, <2>1
  <2>3. S[s] = 0 + 0 BY <1>1, <1>3, <2>2
  <2> QED BY <2>3
<1> HIDE DEF G
<1>4. SUBSET D \subseteq G BY <1>2, <1>3, InductiveSets
<1>5. D \in G BY <1>4
<1> QED BY <1>5 DEF G, S

================================================================================
