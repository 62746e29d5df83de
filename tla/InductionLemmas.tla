---------------------------- MODULE InductionLemmas ----------------------------
(***************************************************************************)
(* Induction and recursion over the naturals, stated of sets and functions *)
(* so that a proof can cite them: the library's theorems take a predicate  *)
(* or a definition as an operator, which the backends do not instantiate.  *)
(***************************************************************************)
EXTENDS Integers, FiniteSets, FiniteSetTheorems, WellFoundedInduction, TLAPS

\* A set of naturals that is not empty has a least element.
LEMMA LeastElement ==
  ASSUME NEW T, T \subseteq Nat, T # {}
  PROVE  \E m \in T : \A k \in T : m <= k
<1>1. PICK m \in T : \A k \in T : ~ (<<k, m>> \in OpToRel(<, Nat))
  BY NatLessThanWellFounded, WFMin
<1>2. \A k \in T : k \in Nat /\ m \in Nat
  OBVIOUS
<1>3. \A k \in T : ~ (k < m)
  BY <1>1, <1>2 DEF OpToRel
<1>4. \A k \in T : m <= k
  BY <1>2, <1>3
<1> QED
  BY <1>4

\* And a greatest one, if it is bounded.
LEMMA GreatestElement ==
  ASSUME NEW T, NEW N \in Nat, T \subseteq 0..N, T # {}
  PROVE  \E m \in T : \A k \in T : k <= m
<1> DEFINE U == {n \in 0..N : N - n \in T}
<1>1. \A k \in T : k \in 0..N /\ N - k \in U
  <2> SUFFICES ASSUME NEW k \in T PROVE k \in 0..N /\ N - k \in U
    OBVIOUS
  <2>1. k \in 0..N /\ N - k \in 0..N /\ N - (N - k) = k
    OBVIOUS
  <2> QED
    BY <2>1
<1>2. U \subseteq Nat /\ U # {}
  <2>1. PICK k \in T : TRUE
    OBVIOUS
  <2> QED
    BY <2>1, <1>1
<1>3. PICK u \in U : \A k \in U : u <= k
  BY <1>2, LeastElement
<1>4. \A k \in T : k <= N - u
  BY <1>1, <1>3
<1> QED
  BY <1>3, <1>4

\* A set with 0 in it, and with each element up to N the next, holds them all.
LEMMA SetInduction ==
  ASSUME NEW N \in Nat, NEW S, 0 \in S, \A n \in 0..(N - 1) : n \in S => n + 1 \in S
  PROVE  0..N \subseteq S
<1> SUFFICES ASSUME (0..N) \ S # {} PROVE FALSE
  OBVIOUS
<1>1. PICK m \in (0..N) \ S : \A k \in (0..N) \ S : m <= k
  <2>1. (0..N) \ S \subseteq Nat
    OBVIOUS
  <2> QED
    BY <2>1, LeastElement
<1>2. m # 0 /\ m - 1 \in 0..(N - 1) /\ (m - 1) + 1 = m
  BY <1>1
<1>3. m - 1 \in S
  BY <1>1, <1>2
<1> QED
  BY <1>1, <1>2, <1>3

\* F[n][g] is what a definition by recursion over 0..N makes of n, given the function g
\* that it defines: it asks g only for what is below n, and g is as it says.
AsksOnlyBelow(F, N, S) ==
  \A n \in 0..N, g, h \in [0..N -> S] : (\A i \in 0..(n - 1) : g[i] = h[i]) => F[n][g] = F[n][h]
DefinedBy(g, F, N) == \A n \in 0..N : g[n] = F[n][g]

\* A definition by recursion that asks only below defines a function.
LEMMA Recursion ==
  ASSUME NEW N \in Nat, NEW S, S # {}, NEW F \in [0..N -> [[0..N -> S] -> S]],
         AsksOnlyBelow(F, N, S)
  PROVE  \E g \in [0..N -> S] : DefinedBy(g, F, N)
<1> USE DEF AsksOnlyBelow, DefinedBy
<1> DEFINE Upto(k, g) == \A n \in 0..k : g[n] = F[n][g]
           Good == {k \in 0..N : \E g \in [0..N -> S] : Upto(k, g)}
<1>1. 0 \in Good
  <2>1. PICK s \in S : TRUE
    OBVIOUS
  <2> DEFINE c == [n \in 0..N |-> s]
             g == [c EXCEPT ![0] = F[0][c]]
  <2>2. c \in [0..N -> S] /\ g \in [0..N -> S] /\ g[0] = F[0][c]
    OBVIOUS
  <2> HIDE DEF c, g
  <2>3. F[0][g] = F[0][c]
    <3>1. 0 \in 0..N /\ \A i \in 0..(0 - 1) : g[i] = c[i]
      OBVIOUS
    <3> QED
      BY <2>2, <3>1
  <2>4. Upto(0, g)
    BY <2>2, <2>3
  <2> QED
    BY <2>2, <2>4
<1>2. ASSUME NEW k \in 0..(N - 1), k \in Good PROVE k + 1 \in Good
  <2>1. PICK h \in [0..N -> S] : Upto(k, h)
    BY <1>2
  <2> DEFINE g == [h EXCEPT ![k + 1] = F[k + 1][h]]
  <2>2. /\ g \in [0..N -> S] /\ g[k + 1] = F[k + 1][h] /\ k + 1 \in 0..N
        /\ \A n \in 0..k : g[n] = h[n]
    OBVIOUS
  <2> HIDE DEF g
  <2>3. \A n \in 0..(k + 1) : F[n][g] = F[n][h]
    <3> SUFFICES ASSUME NEW n \in 0..(k + 1) PROVE F[n][g] = F[n][h]
      OBVIOUS
    <3>1. n \in 0..N /\ \A i \in 0..(n - 1) : g[i] = h[i]
      BY <2>2
    <3> QED
      BY <2>2, <3>1
  <2>4. \A n \in 0..(k + 1) : n = k + 1 \/ n \in 0..k
    OBVIOUS
  <2>5. Upto(k + 1, g)
    BY <2>1, <2>2, <2>3, <2>4
  <2> QED
    BY <2>2, <2>5
<1>3. 0..N \subseteq Good
  <2> HIDE DEF Good
  <2> QED
    BY <1>1, <1>2, SetInduction
<1>4. N \in Good
  <2> HIDE DEF Good
  <2> QED
    BY <1>3
<1> QED
  BY <1>4

=============================================================================
