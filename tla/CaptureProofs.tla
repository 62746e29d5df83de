----------------------------- MODULE CaptureProofs -----------------------------
(***************************************************************************)
(* The output of an attempt, for any command, any budget and however its   *)
(* bytes are cut up into reads, pieces and passes.                         *)
(***************************************************************************)
EXTENDS OutputCapture, InductionLemmas, SequenceTheorems

(* Sequences, as facts a first-order prover can use.                       *)

\* Concatenations group either way.
LEMMA Regrouped ==
  ASSUME NEW X, NEW s \in Seq(X), NEW t \in Seq(X), NEW u \in Seq(X)
  PROVE  (s \o t) \o u = s \o (t \o u)
BY ConcatAssociative

\* The length and the elements of a concatenation.
LEMMA Joined ==
  ASSUME NEW X, NEW s \in Seq(X), NEW t \in Seq(X)
  PROVE  /\ s \o t \in Seq(X) /\ Len(s) \in Nat /\ Len(t) \in Nat /\ Len(s \o t) = Len(s) + Len(t)
         /\ DOMAIN s = 1..Len(s) /\ DOMAIN t = 1..Len(t) /\ DOMAIN (s \o t) = 1..(Len(s) + Len(t))
         /\ \A i \in 1..Len(s) : (s \o t)[i] = s[i]
         /\ \A j \in 1..Len(t) : (s \o t)[Len(s) + j] = t[j]
OBVIOUS

\* A sequence is a concatenation, if it has the elements of one.
LEMMA Rejoined ==
  ASSUME NEW X, NEW s \in Seq(X), NEW t \in Seq(X), NEW u \in Seq(X), Len(u) = Len(s) + Len(t),
         \A i \in 1..Len(s) : u[i] = s[i], \A j \in 1..Len(t) : u[Len(s) + j] = t[j]
  PROVE  u = s \o t
<1>1. /\ s \o t \in Seq(X) /\ Len(s) \in Nat /\ Len(t) \in Nat /\ Len(s \o t) = Len(s) + Len(t)
      /\ \A i \in 1..Len(s) : (s \o t)[i] = s[i]
      /\ \A j \in 1..Len(t) : (s \o t)[Len(s) + j] = t[j]
  BY Joined
<1>2. ASSUME NEW i \in 1..Len(u) PROVE u[i] = (s \o t)[i]
  <2>1. i \notin 1..Len(s) => i - Len(s) \in 1..Len(t) /\ Len(s) + (i - Len(s)) = i
    BY <1>1
  <2> QED
    BY <1>1, <2>1
<1> QED
  BY <1>1, <1>2, SeqEqual

(* Flattening.                                                             *)

\* f is the concatenations of what seqs starts with.
Flattens(f, seqs) ==
  f = [i \in 1..Len(seqs) |-> IF i = 1 THEN seqs[i] ELSE f[i - 1] \o seqs[i]]

\* FlattenSeq has such a function.
LEMMA FlattenEquation ==
  ASSUME NEW X, NEW seqs \in Seq(Seq(X)), seqs # <<>>
  PROVE  \E f \in [1..Len(seqs) -> Seq(X)] :
           Flattens(f, seqs) /\ FlattenSeq(seqs) = f[Len(seqs)]
<1> DEFINE N == Len(seqs)
           F == [n \in 0..N |-> [g \in [0..N -> Seq(X)] |->
                   IF n = 0 THEN <<>> ELSE IF n = 1 THEN seqs[1] ELSE g[n - 1] \o seqs[n]]]
           c == CHOOSE f : Flattens(f, seqs)
<1>1. N \in Nat \ {0} /\ \A n \in 1..N : seqs[n] \in Seq(X)
  OBVIOUS
<1>a. <<>> \in Seq(X) /\ \A s, t \in Seq(X) : s \o t \in Seq(X)
  BY EmptySeq, ConcatProperties
<1>2. F \in [0..N -> [[0..N -> Seq(X)] -> Seq(X)]]
  <2> SUFFICES ASSUME NEW n \in 0..N, NEW g \in [0..N -> Seq(X)]
               PROVE  (IF n = 0 THEN <<>> ELSE IF n = 1 THEN seqs[1] ELSE g[n - 1] \o seqs[n]) \in Seq(X)
    OBVIOUS
  <2>1. n # 0 => n \in 1..N /\ n - 1 \in 0..N /\ 1 \in 1..N
    BY <1>1
  <2>2. CASE n = 0
    BY <1>a, <2>2
  <2>3. CASE n # 0
    <3>1. seqs[1] \in Seq(X) /\ g[n - 1] \in Seq(X) /\ seqs[n] \in Seq(X)
      BY <1>1, <2>1, <2>3
    <3>2. g[n - 1] \o seqs[n] \in Seq(X)
      BY <1>a, <3>1
    <3> QED
      BY <2>3, <3>1, <3>2
  <2> QED
    BY <2>2, <2>3
<1>3. AsksOnlyBelow(F, N, Seq(X))
  <2> SUFFICES ASSUME NEW n \in 0..N, NEW g \in [0..N -> Seq(X)], NEW h \in [0..N -> Seq(X)],
                      \A i \in 0..(n - 1) : g[i] = h[i]
               PROVE  F[n][g] = F[n][h]
    BY DEF AsksOnlyBelow
  <2>1. n # 0 => n - 1 \in 0..(n - 1)
    BY <1>1
  <2> QED
    BY <2>1
<1>4. PICK g \in [0..N -> Seq(X)] : DefinedBy(g, F, N)
  <2> HIDE DEF F
  <2> QED
    BY <1>1, <1>2, <1>3, <1>a, Recursion
<1> DEFINE f == [i \in 1..N |-> g[i]]
<1>5. f \in [1..N -> Seq(X)] /\ Flattens(f, seqs)
  <2>1. \A n \in 0..N : g[n] = F[n][g]
    BY <1>4 DEF DefinedBy
  <2>2. ASSUME NEW n \in 1..N PROVE g[n] = IF n = 1 THEN seqs[n] ELSE g[n - 1] \o seqs[n]
    <3>1. n \in 0..N /\ n # 0
      BY <1>1
    <3>2. F[n][g] = IF n = 0 THEN <<>> ELSE IF n = 1 THEN seqs[1] ELSE g[n - 1] \o seqs[n]
      BY <3>1
    <3> HIDE DEF F
    <3> QED
      BY <2>1, <3>1, <3>2
  <2>3. \A n \in 1..N : n # 1 => n - 1 \in 1..N
    BY <1>1
  <2> QED
    BY <1>1, <2>2, <2>3 DEF Flattens
<1>6. Flattens(c, seqs)
  BY <1>5
<1>7. FlattenSeq(seqs) = c[N]
  BY <1>1 DEF FlattenSeq, Flattens
<1>8. c \in [1..N -> Seq(X)]
  <2>1. DOMAIN c = 1..N /\ c = [i \in 1..N |-> c[i]]
    BY <1>6 DEF Flattens
  <2>2. \A n \in 1..N : c[n] = IF n = 1 THEN seqs[n] ELSE c[n - 1] \o seqs[n]
    BY <1>6 DEF Flattens
  <2> DEFINE Good == {n \in 0..N : n # 0 => c[n] \in Seq(X)}
  <2> HIDE DEF c
  <2>3. 0 \in Good
    BY <1>1
  <2>4. ASSUME NEW n \in 0..(N - 1), n \in Good PROVE n + 1 \in Good
    <3>1. n + 1 \in 1..N /\ (n + 1) - 1 = n
      BY <1>1
    <3>2. c[n + 1] = IF n + 1 = 1 THEN seqs[n + 1] ELSE c[n] \o seqs[n + 1]
      BY <2>2, <3>1
    <3>3. n = 0 \/ c[n] \in Seq(X)
      BY <2>4
    <3>4. seqs[n + 1] \in Seq(X)
      BY <1>1, <3>1
    <3>5. c[n + 1] \in Seq(X)
      BY <1>a, <3>2, <3>3, <3>4
    <3> QED
      BY <3>1, <3>5
  <2>5. 0..N \subseteq Good
    <3> HIDE DEF Good
    <3> QED
      BY <1>1, <2>3, <2>4, SetInduction
  <2>6. \A n \in 1..N : c[n] \in Seq(X)
    BY <1>1, <2>5
  <2> QED
    BY <2>1, <2>6
<1> HIDE DEF c
<1> QED
  BY <1>6, <1>7, <1>8

\* Flattening nothing, and one sequence; and a flattened sequence is a sequence.
LEMMA FlattenFacts ==
  ASSUME NEW X
  PROVE  /\ FlattenSeq(<<>>) = <<>>
         /\ \A x \in Seq(X) : FlattenSeq(<<x>>) = x
         /\ \A seqs \in Seq(Seq(X)) : FlattenSeq(seqs) \in Seq(X)
<1>1. FlattenSeq(<<>>) = <<>>
  BY DEF FlattenSeq
<1>2. ASSUME NEW x \in Seq(X) PROVE FlattenSeq(<<x>>) = x
  <2>1. <<x>> \in Seq(Seq(X)) /\ <<x>> # <<>> /\ Len(<<x>>) = 1 /\ <<x>>[1] = x
    OBVIOUS
  <2>2. PICK f \in [1..Len(<<x>>) -> Seq(X)] :
          Flattens(f, <<x>>) /\ FlattenSeq(<<x>>) = f[Len(<<x>>)]
    BY <2>1, FlattenEquation
  <2>3. f[1] = <<x>>[1]
    BY <2>1, <2>2 DEF Flattens
  <2> QED
    BY <2>1, <2>2, <2>3
<1>3. ASSUME NEW seqs \in Seq(Seq(X)) PROVE FlattenSeq(seqs) \in Seq(X)
  <2>1. CASE seqs = <<>>
    BY <1>1, <2>1, EmptySeq
  <2>2. CASE seqs # <<>>
    <3>1. Len(seqs) \in 1..Len(seqs)
      BY <2>2, EmptySeq
    <3>2. PICK f \in [1..Len(seqs) -> Seq(X)] :
            Flattens(f, seqs) /\ FlattenSeq(seqs) = f[Len(seqs)]
      BY <2>2, FlattenEquation
    <3> QED
      BY <3>1, <3>2, Zenon
  <2> QED
    BY <2>1, <2>2
<1> QED
  BY <1>1, <1>2, <1>3

\* Flattening two sequences in a row is flattening each.
LEMMA FlattenConcat ==
  ASSUME NEW X, NEW a \in Seq(Seq(X)), NEW b \in Seq(Seq(X))
  PROVE  FlattenSeq(a \o b) = FlattenSeq(a) \o FlattenSeq(b)
<1>1. a \o b \in Seq(Seq(X)) /\ Len(a \o b) = Len(a) + Len(b) /\ Len(a) \in Nat /\ Len(b) \in Nat
  BY Joined
<1>2. /\ \A i \in 1..Len(a) : (a \o b)[i] = a[i]
      /\ \A j \in 1..Len(b) : (a \o b)[Len(a) + j] = b[j]
  BY Joined
<1>3. \A s \in Seq(X) : s \o <<>> = s /\ <<>> \o s = s
  BY ConcatEmptySeq
<1>7. \A s, t, u \in Seq(X) : (s \o t) \o u = s \o (t \o u)
  BY Regrouped
<1>4. CASE a = <<>>
  BY <1>3, <1>4, FlattenFacts, ConcatEmptySeq
<1>5. CASE b = <<>>
  BY <1>3, <1>5, FlattenFacts, ConcatEmptySeq
<1>6. CASE a # <<>> /\ b # <<>>
  <2>1. a \o b # <<>> /\ Len(a) \in Nat \ {0} /\ Len(b) \in Nat \ {0}
    BY <1>1, <1>6, EmptySeq
  <2>2. PICK f \in [1..Len(a) -> Seq(X)] : Flattens(f, a) /\ FlattenSeq(a) = f[Len(a)]
    BY <1>6, FlattenEquation
  <2>3. PICK g \in [1..Len(b) -> Seq(X)] : Flattens(g, b) /\ FlattenSeq(b) = g[Len(b)]
    BY <1>6, FlattenEquation
  <2>4. PICK h \in [1..Len(a \o b) -> Seq(X)] :
          Flattens(h, a \o b) /\ FlattenSeq(a \o b) = h[Len(a \o b)]
    BY <1>1, <2>1, FlattenEquation
  <2>f. \A i \in 1..Len(a) : f[i] = IF i = 1 THEN a[i] ELSE f[i - 1] \o a[i]
    BY <2>2 DEF Flattens
  <2>g. \A i \in 1..Len(b) : g[i] = IF i = 1 THEN b[i] ELSE g[i - 1] \o b[i]
    BY <2>3 DEF Flattens
  <2>h. \A i \in 1..(Len(a) + Len(b)) :
          h[i] = IF i = 1 THEN (a \o b)[i] ELSE h[i - 1] \o (a \o b)[i]
    BY <1>1, <2>4 DEF Flattens
  <2> DEFINE Same == {n \in 0..Len(a) : n # 0 => h[n] = f[n]}
             After == {n \in 0..Len(b) : h[Len(a) + n] = f[Len(a)] \o (IF n = 0 THEN <<>> ELSE g[n])}
  <2>5. 0..Len(a) \subseteq Same
    <3>1. 0 \in Same
      BY <1>1
    <3>2. ASSUME NEW n \in 0..(Len(a) - 1), n \in Same PROVE n + 1 \in Same
      <4>1. n + 1 \in 1..Len(a) /\ n + 1 \in 1..(Len(a) + Len(b)) /\ (n + 1) - 1 = n /\ n + 1 \in 0..Len(a)
        BY <1>1
      <4>2. h[n + 1] = IF n + 1 = 1 THEN a[n + 1] ELSE h[n] \o a[n + 1]
        BY <1>2, <2>h, <4>1
      <4>3. f[n + 1] = IF n + 1 = 1 THEN a[n + 1] ELSE f[n] \o a[n + 1]
        BY <2>f, <4>1
      <4>4. h[n + 1] = f[n + 1]
        BY <3>2, <4>2, <4>3
      <4> QED
        BY <4>1, <4>4
    <3> HIDE DEF Same
    <3> QED
      BY <1>1, <3>1, <3>2, SetInduction
  <2>6. h[Len(a)] = f[Len(a)] /\ f[Len(a)] \in Seq(X)
    <3>1. Len(a) \in 0..Len(a) /\ Len(a) \in 1..Len(a) /\ Len(a) # 0
      BY <2>1
    <3>2. Len(a) \in Same
      BY <2>5, <3>1, Zenon
    <3> QED
      BY <2>2, <3>1, <3>2, Zenon
  <2>7. 0..Len(b) \subseteq After
    <3>1. 0 \in After
      <4>1. Len(a) + 0 = Len(a) /\ f[Len(a)] \o <<>> = f[Len(a)]
        BY <1>1, <1>3, <2>6
      <4> QED
        BY <1>1, <2>6, <4>1
    <3>2. ASSUME NEW n \in 0..(Len(b) - 1), n \in After PROVE n + 1 \in After
      <4>1. /\ n + 1 \in 1..Len(b) /\ Len(a) + (n + 1) \in 1..(Len(a) + Len(b)) /\ (n + 1) - 1 = n
            /\ (Len(a) + (n + 1)) - 1 = Len(a) + n /\ Len(a) + (n + 1) # 1 /\ n + 1 \in 0..Len(b)
            /\ n + 1 # 0
        BY <1>1, <2>1
      <4>2. h[Len(a) + (n + 1)] = h[Len(a) + n] \o b[n + 1]
        BY <1>2, <2>h, <4>1
      <4>3. g[n + 1] = IF n + 1 = 1 THEN b[n + 1] ELSE g[n] \o b[n + 1]
        BY <2>g, <4>1
      <4>4. b[n + 1] \in Seq(X)
        BY <4>1
      <4>5. CASE n = 0
        <5>1. h[Len(a) + n] = f[Len(a)]
          BY <1>1, <2>6, <4>5
        <5>2. h[Len(a) + (n + 1)] = f[Len(a)] \o g[n + 1]
          BY <4>2, <4>3, <4>5, <5>1
        <5> QED
          BY <4>1, <5>2
      <4>6. CASE n # 0
        <5>1. h[Len(a) + n] = f[Len(a)] \o g[n] /\ g[n] \in Seq(X)
          <6>1. n \in 1..Len(b)
            BY <1>1, <4>1, <4>6
          <6>2. g[n] \in Seq(X)
            BY <2>3, <6>1, Zenon
          <6> QED
            BY <3>2, <4>6, <6>2, Zenon
        <5>2. (f[Len(a)] \o g[n]) \o b[n + 1] = f[Len(a)] \o (g[n] \o b[n + 1])
          <6> HIDE DEF Same, After
          <6> QED
            BY <1>7, <2>6, <4>4, <5>1
        <5>3. h[Len(a) + (n + 1)] = f[Len(a)] \o g[n + 1]
          <6>1. g[n + 1] = g[n] \o b[n + 1]
            <7>1. n + 1 # 1
              BY <1>1, <4>6
            <7> QED
              BY <4>3, <7>1, Zenon
          <6> QED
            BY <4>2, <5>1, <5>2, <6>1, Zenon
        <5> QED
          BY <4>1, <5>3
      <4> QED
        BY <4>5, <4>6
    <3> HIDE DEF After
    <3> QED
      BY <1>1, <3>1, <3>2, SetInduction
  <2>8. h[Len(a) + Len(b)] = f[Len(a)] \o g[Len(b)]
    <3>1. Len(b) \in 0..Len(b) /\ Len(b) # 0
      BY <2>1
    <3>2. Len(b) \in After
      BY <2>7, <3>1, Zenon
    <3> QED
      BY <3>1, <3>2, Zenon
  <2> QED
    BY <1>1, <2>2, <2>3, <2>4, <2>8
<1> QED
  BY <1>4, <1>5, <1>6

(* The size of a text.                                                     *)

Pieces == {Ascii, Wide, Replacement, OverBudget, Note} \cup {BytesDropped(n) : n \in Nat}
Characters == {Ascii, Wide, Replacement}

\* Where a piece is in a text, and how often.
Places(text, g) == {i \in DOMAIN text : text[i] = g}
Times(text, g) == Cardinality(Places(text, g))

\* The size, piece by piece.
LEMMA SizeIsWeighed ==
  ASSUME NEW text
  PROVE  Size(text) = Times(text, Ascii) + 2 * Times(text, Wide) + 3 * Times(text, Replacement)
BY DEF Size, Times, Places

\* A piece is as often in two texts in a row as in each.
LEMMA TimesAdd ==
  ASSUME NEW X, NEW a \in Seq(X), NEW b \in Seq(X), NEW g
  PROVE  /\ Times(a, g) \in Nat /\ Times(b, g) \in Nat
         /\ Times(a \o b, g) = Times(a, g) + Times(b, g)
<1> DEFINE A == Places(a, g)
           B == Places(b, g)
           C == {Len(a) + j : j \in B}
           shift == [j \in B |-> Len(a) + j]
<1>1. /\ Len(a) \in Nat /\ Len(b) \in Nat
      /\ DOMAIN a = 1..Len(a) /\ DOMAIN b = 1..Len(b) /\ DOMAIN (a \o b) = 1..(Len(a) + Len(b))
      /\ \A i \in 1..Len(a) : (a \o b)[i] = a[i]
      /\ \A j \in 1..Len(b) : (a \o b)[Len(a) + j] = b[j]
  BY Joined
<1>2. A \subseteq 1..Len(a) /\ B \subseteq 1..Len(b)
  BY <1>1 DEF Places
<1>3. IsFiniteSet(A) /\ IsFiniteSet(B)
  <2>1. IsFiniteSet(1..Len(a)) /\ IsFiniteSet(1..Len(b))
    BY <1>1, FS_Interval
  <2> QED
    BY <1>2, <2>1, FS_Subset
<1>4. ExistsBijection(B, C)
  <2>1. shift \in [B -> C]
    OBVIOUS
  <2>2. \A i, j \in B : shift[i] = shift[j] => i = j
    BY <1>1, <1>2
  <2>3. \A k \in C : \E j \in B : shift[j] = k
    OBVIOUS
  <2> QED
    BY <2>1, <2>2, <2>3 DEF ExistsBijection, Bijection, Injection, Surjection, IsInjective
<1>5. IsFiniteSet(C) /\ Cardinality(C) = Cardinality(B)
  BY <1>3, <1>4, FS_Bijection
<1>6. A \cap C = {}
  BY <1>1, <1>2
<1>7. Places(a \o b, g) = A \cup C
  <2>1. ASSUME NEW i \in Places(a \o b, g) PROVE i \in A \cup C
    <3>1. i \in 1..(Len(a) + Len(b)) /\ (a \o b)[i] = g
      BY <1>1, <2>1 DEF Places
    <3>2. CASE i \in 1..Len(a)
      BY <1>1, <3>1, <3>2 DEF Places
    <3>3. CASE i \notin 1..Len(a)
      <4>1. i - Len(a) \in 1..Len(b) /\ Len(a) + (i - Len(a)) = i
        BY <1>1, <3>1, <3>3
      <4>2. b[i - Len(a)] = g
        BY <1>1, <3>1, <4>1
      <4>3. i - Len(a) \in B
        BY <1>1, <4>1, <4>2 DEF Places
      <4> QED
        BY <4>1, <4>3
    <3> QED
      BY <3>2, <3>3
  <2>2. ASSUME NEW i \in A PROVE i \in Places(a \o b, g)
    <3>1. i \in 1..Len(a) /\ i \in 1..(Len(a) + Len(b)) /\ a[i] = g
      BY <1>1, <1>2, <2>2 DEF Places
    <3> QED
      BY <1>1, <3>1 DEF Places
  <2>3. ASSUME NEW j \in B PROVE Len(a) + j \in Places(a \o b, g)
    <3>1. j \in 1..Len(b) /\ Len(a) + j \in 1..(Len(a) + Len(b)) /\ b[j] = g
      BY <1>1, <1>2, <2>3 DEF Places
    <3> QED
      BY <1>1, <3>1 DEF Places
  <2> QED
    BY <2>1, <2>2, <2>3
<1>8. Cardinality(A \cup C) = Cardinality(A) + Cardinality(C)
  <2>1. Cardinality(A \cup C) = Cardinality(A) + Cardinality(C) - Cardinality({})
    <3> HIDE DEF A, C
    <3> QED
      BY <1>3, <1>5, <1>6, FS_Union
  <2>2. Cardinality(A) \in Nat /\ Cardinality(C) \in Nat
    BY <1>3, <1>5, FS_CardinalityType
  <2> HIDE DEF A, C
  <2> QED
    BY <2>1, <2>2, FS_EmptySet
<1>9. Cardinality(A) \in Nat /\ Cardinality(B) \in Nat
  BY <1>3, FS_CardinalityType
<1> QED
  BY <1>5, <1>7, <1>8, <1>9 DEF Times

\* How often a piece is in a text of one.
LEMMA TimesOfOne ==
  ASSUME NEW x, NEW g
  PROVE  Times(<<x>>, g) = IF x = g THEN 1 ELSE 0
<1>1. Places(<<x>>, g) = IF x = g THEN {1} ELSE {}
  BY DEF Places
<1> QED
  BY <1>1, FS_Singleton, FS_EmptySet DEF Times

\* The pieces are told apart.
LEMMA PiecesDiffer ==
  /\ Ascii # Wide /\ Ascii # Replacement /\ Wide # Replacement
  /\ \A g \in Characters : g # Note /\ g # OverBudget /\ g[1] # "dropped" /\ g \in Pieces
  /\ Note # OverBudget /\ Note[1] # "dropped" /\ OverBudget[1] # "dropped"
  /\ Note \in Pieces /\ OverBudget \in Pieces
  /\ \A n \in Nat : /\ BytesDropped(n) \in Pieces
                    /\ BytesDropped(n) # Note /\ BytesDropped(n) # OverBudget
                    /\ BytesDropped(n) \notin Characters
                    /\ BytesDropped(n)[1] = "dropped" /\ BytesDropped(n)[2] = n
BY DEF Ascii, Wide, Replacement, Note, OverBudget, BytesDropped, Characters, Pieces

\* The size of nothing and of a single piece.
LEMMA SizeOfOne ==
  /\ Size(<<>>) = 0
  /\ \A g \in Characters : Size(<<g>>) \in 1..3
  /\ Size(<<Note>>) = 0 /\ Size(<<OverBudget>>) = 0
  /\ \A n \in Nat : Size(<<BytesDropped(n)>>) = 0
<1>1. Size(<<>>) = 0
  <2>1. \A g : Places(<<>>, g) = {}
    BY DEF Places
  <2>2. \A g : Times(<<>>, g) = 0
    BY <2>1, FS_EmptySet DEF Times
  <2> QED
    BY <2>2, SizeIsWeighed
<1>2. ASSUME NEW g
      PROVE  Size(<<g>>) = (IF g = Ascii THEN 1 ELSE 0) + 2 * (IF g = Wide THEN 1 ELSE 0)
                           + 3 * (IF g = Replacement THEN 1 ELSE 0)
  <2>1. \A h : Times(<<g>>, h) = IF g = h THEN 1 ELSE 0
    BY TimesOfOne
  <2> QED
    BY <2>1, SizeIsWeighed
<1>3. \A g \in Characters : Size(<<g>>) \in 1..3
  <2>1. Size(<<Ascii>>) = 1 + 2 * 0 + 3 * 0
    BY <1>2, PiecesDiffer
  <2>2. Size(<<Wide>>) = 0 + 2 * 1 + 3 * 0
    BY <1>2, PiecesDiffer
  <2>3. Size(<<Replacement>>) = 0 + 2 * 0 + 3 * 1
    BY <1>2, PiecesDiffer
  <2> QED
    BY <2>1, <2>2, <2>3 DEF Characters
<1>4. \A g : g \notin Characters => Size(<<g>>) = 0
  BY <1>2 DEF Characters
<1> QED
  BY <1>1, <1>3, <1>4, PiecesDiffer

\* Sizes add up.
LEMMA SizeAdds ==
  ASSUME NEW X, NEW a \in Seq(X), NEW b \in Seq(X)
  PROVE  Size(a) \in Nat /\ Size(b) \in Nat /\ Size(a \o b) = Size(a) + Size(b)
<1>1. \A g : /\ Times(a, g) \in Nat /\ Times(b, g) \in Nat
             /\ Times(a \o b, g) = Times(a, g) + Times(b, g)
  BY TimesAdd
<1>2. \A t : Size(t) = Times(t, Ascii) + 2 * Times(t, Wide) + 3 * Times(t, Replacement)
  BY SizeIsWeighed
<1>3. /\ Times(a, Ascii) \in Nat /\ Times(b, Ascii) \in Nat
      /\ Times(a \o b, Ascii) = Times(a, Ascii) + Times(b, Ascii)
  BY <1>1
<1>4. /\ Times(a, Wide) \in Nat /\ Times(b, Wide) \in Nat
      /\ Times(a \o b, Wide) = Times(a, Wide) + Times(b, Wide)
  BY <1>1
<1>5. /\ Times(a, Replacement) \in Nat /\ Times(b, Replacement) \in Nat
      /\ Times(a \o b, Replacement) = Times(a, Replacement) + Times(b, Replacement)
  BY <1>1
<1>6. \A i, j, k, l, m, n \in Nat :
        /\ i + 2 * j + 3 * k \in Nat /\ l + 2 * m + 3 * n \in Nat
        /\ (i + l) + 2 * (j + m) + 3 * (k + n) = (i + 2 * j + 3 * k) + (l + 2 * m + 3 * n)
  OBVIOUS
<1> DEFINE ta == Times(a, Ascii)
           tw == Times(a, Wide)
           tr == Times(a, Replacement)
           ua == Times(b, Ascii)
           uw == Times(b, Wide)
           ur == Times(b, Replacement)
<1>7. Size(a) = ta + 2 * tw + 3 * tr /\ Size(b) = ua + 2 * uw + 3 * ur
  BY <1>2
<1>8. Size(a \o b) = (ta + ua) + 2 * (tw + uw) + 3 * (tr + ur)
  <2>1. Size(a \o b) = Times(a \o b, Ascii) + 2 * Times(a \o b, Wide) + 3 * Times(a \o b, Replacement)
    BY <1>2
  <2> QED
    BY <1>3, <1>4, <1>5, <2>1
<1>9. ta \in Nat /\ tw \in Nat /\ tr \in Nat /\ ua \in Nat /\ uw \in Nat /\ ur \in Nat
  BY <1>3, <1>4, <1>5
<1> HIDE DEF ta, tw, tr, ua, uw, ur
<1> QED
  BY <1>6, <1>7, <1>8, <1>9

(* Cuts.                                                                   *)

\* The two sides of a cut.
LEMMA Sides ==
  ASSUME NEW X, NEW text \in Seq(X), NEW k \in 0..Len(text)
  PROVE  /\ Len(text) \in Nat
         /\ SubSeq(text, 1, k) \in Seq(X) /\ Len(SubSeq(text, 1, k)) = k
         /\ SubSeq(text, k + 1, Len(text)) \in Seq(X)
         /\ Len(SubSeq(text, k + 1, Len(text))) = Len(text) - k
         /\ text = SubSeq(text, 1, k) \o SubSeq(text, k + 1, Len(text))
         /\ Size(text) = Size(SubSeq(text, 1, k)) + Size(SubSeq(text, k + 1, Len(text)))
<1>1. /\ Len(text) \in Nat
      /\ SubSeq(text, 1, k) \in Seq(X) /\ Len(SubSeq(text, 1, k)) = k
      /\ SubSeq(text, k + 1, Len(text)) \in Seq(X)
      /\ Len(SubSeq(text, k + 1, Len(text))) = Len(text) - k
  OBVIOUS
<1>2. text = SubSeq(text, 1, k) \o SubSeq(text, k + 1, Len(text))
  <2>1. 1 \in 1..(Len(text) + 1) /\ k \in (1 - 1)..Len(text) /\ Len(text) \in k..Len(text)
    BY <1>1
  <2>2. SubSeq(text, 1, k) \o SubSeq(text, k + 1, Len(text)) = SubSeq(text, 1, Len(text))
    BY <2>1, ConcatAdjacentSubSeq
  <2> QED
    BY <2>2, SubSeqFull
<1> DEFINE u == SubSeq(text, 1, k)
           v == SubSeq(text, k + 1, Len(text))
<1>3. Size(u \o v) = Size(u) + Size(v)
  BY <1>1, SizeAdds
<1> QED
  BY <1>1, <1>2, <1>3

\* The least and the greatest of a set of naturals.
LEMMA ExtremeFacts ==
  ASSUME NEW N \in Nat, NEW T, T \subseteq 0..N, T # {}
  PROVE  /\ Max(T) \in T /\ \A i \in T : i <= Max(T)
         /\ Min(T) \in T /\ \A i \in T : Min(T) <= i
<1>1. PICK m \in T : \A k \in T : k <= m
  BY GreatestElement
<1>2. \A k \in T : m >= k
  BY <1>1
<1>3. Max(T) \in T /\ \A i \in T : Max(T) >= i
  BY <1>1, <1>2 DEF Max
<1>4. \E l \in T : \A k \in T : l <= k
  <2>1. T \subseteq Nat
    OBVIOUS
  <2> QED
    BY <2>1, LeastElement
<1>5. Min(T) \in T /\ \A i \in T : Min(T) <= i
  BY <1>4 DEF Min
<1>6. \A i \in T : i \in Int
  OBVIOUS
<1> HIDE DEF Max, Min
<1> QED
  BY <1>3, <1>5, <1>6

\* truncate_at_char_boundary finds the longest prefix that fits.
LEMMA LongestPrefix ==
  ASSUME NEW X, NEW text \in Seq(X), NEW max \in Nat
  PROVE  /\ CharsThatFit(text, max) \in 0..Len(text)
         /\ Size(SubSeq(text, 1, CharsThatFit(text, max))) <= max
         /\ \A i \in 0..Len(text) : Size(SubSeq(text, 1, i)) <= max => i <= CharsThatFit(text, max)
<1> DEFINE T == {i \in 0..Len(text) : Size(SubSeq(text, 1, i)) <= max}
<1>1. Len(text) \in Nat /\ T \subseteq 0..Len(text)
  OBVIOUS
<1>2. 0 \in T
  <2>1. SubSeq(text, 1, 0) = <<>>
    OBVIOUS
  <2>2. Size(SubSeq(text, 1, 0)) = 0
    BY <2>1, SizeOfOne
  <2>3. 0 \in 0..Len(text) /\ 0 <= max
    BY <1>1
  <2> QED
    BY <2>2, <2>3
<1>3. CharsThatFit(text, max) = Max(T)
  BY DEF CharsThatFit
<1>4. Max(T) \in T /\ \A i \in T : i <= Max(T)
  <2> HIDE DEF T
  <2> QED
    BY <1>1, <1>2, ExtremeFacts
<1> QED
  BY <1>3, <1>4

\* trim_to_tail keeps the longest suffix that fits.
LEMMA LongestSuffix ==
  ASSUME NEW X, NEW text \in Seq(X), NEW max \in Nat
  PROVE  \E k \in 0..Len(text) :
           /\ TrimToTail(text, max) = SubSeq(text, k + 1, Len(text))
           /\ Size(SubSeq(text, k + 1, Len(text))) <= max
           /\ \A i \in 0..Len(text) : Size(SubSeq(text, i + 1, Len(text))) <= max => k <= i
<1> DEFINE T == {i \in 1..(Len(text) + 1) : Size(SubSeq(text, i, Len(text))) <= max}
<1>1. Len(text) \in Nat /\ Len(text) + 1 \in Nat /\ T \subseteq 0..(Len(text) + 1)
  OBVIOUS
<1>2. Len(text) + 1 \in T
  <2>1. SubSeq(text, Len(text) + 1, Len(text)) = <<>>
    OBVIOUS
  <2>2. Size(SubSeq(text, Len(text) + 1, Len(text))) = 0
    BY <2>1, SizeOfOne
  <2>3. Len(text) + 1 \in 1..(Len(text) + 1) /\ 0 <= max
    BY <1>1
  <2> QED
    BY <2>2, <2>3
<1>3. TrimToTail(text, max) = SubSeq(text, Min(T), Len(text))
  BY DEF TrimToTail
<1>4. Min(T) \in T /\ \A i \in T : Min(T) <= i
  <2> HIDE DEF T
  <2> QED
    BY <1>1, <1>2, ExtremeFacts
<1> DEFINE k == Min(T) - 1
<1>5. k \in 0..Len(text) /\ k + 1 = Min(T)
  BY <1>1, <1>4
<1>6. Size(SubSeq(text, k + 1, Len(text))) <= max
  BY <1>4, <1>5
<1>7. ASSUME NEW i \in 0..Len(text), Size(SubSeq(text, i + 1, Len(text))) <= max PROVE k <= i
  <2>1. i + 1 \in 1..(Len(text) + 1)
    BY <1>1
  <2>2. Min(T) <= i + 1
    BY <1>4, <1>7, <2>1
  <2> QED
    BY <1>1, <1>5, <2>1, <2>2
<1> QED
  BY <1>3, <1>5, <1>6, <1>7

\* What it keeps is a text that fits, and no longer than it was.
LEMMA TailFits ==
  ASSUME NEW X, NEW text \in Seq(X), NEW max \in Nat
  PROVE  /\ TrimToTail(text, max) \in Seq(X)
         /\ Size(TrimToTail(text, max)) <= max /\ Size(TrimToTail(text, max)) <= Size(text)
         /\ Size(text) <= max => TrimToTail(text, max) = text
<1>1. PICK k \in 0..Len(text) :
        /\ TrimToTail(text, max) = SubSeq(text, k + 1, Len(text))
        /\ Size(SubSeq(text, k + 1, Len(text))) <= max
        /\ \A i \in 0..Len(text) : Size(SubSeq(text, i + 1, Len(text))) <= max => k <= i
  BY LongestSuffix
<1>2. /\ SubSeq(text, k + 1, Len(text)) \in Seq(X)
      /\ Size(text) = Size(SubSeq(text, 1, k)) + Size(SubSeq(text, k + 1, Len(text)))
      /\ Size(SubSeq(text, 1, k)) \in Nat /\ Size(SubSeq(text, k + 1, Len(text))) \in Nat
  BY Sides, SizeAdds
<1>3. ASSUME Size(text) <= max PROVE TrimToTail(text, max) = text
  <2>1. 0 \in 0..Len(text) /\ 0 + 1 = 1 /\ SubSeq(text, 1, Len(text)) = text
    OBVIOUS
  <2>2. k <= 0
    BY <1>1, <1>3, <2>1
  <2>3. k = 0
    BY <2>2
  <2> QED
    BY <1>1, <2>1, <2>3
<1> QED
  BY <1>1, <1>2, <1>3

(* Decoding.                                                               *)

\* What each byte of a sequence completes.
CompletedBy(bytes) ==
  [i \in DOMAIN bytes |-> Completed(IF i = 1 THEN "none" ELSE bytes[i - 1], bytes[i])]

\* A byte completes characters, and only a lead byte before it matters.
LEMMA CompletedFacts ==
  /\ \A byte \in Bytes : \A before : Completed(before, byte) \in Seq(Characters)
  /\ \A byte \in Bytes : \A p, q : p # "lead" /\ q # "lead" => Completed(p, byte) = Completed(q, byte)
  /\ Completed("none", "lead") = <<>>
<1>1. /\ <<>> \in Seq(Characters) /\ <<Wide>> \in Seq(Characters) /\ <<Ascii>> \in Seq(Characters)
      /\ <<Replacement>> \in Seq(Characters) /\ <<Replacement, Ascii>> \in Seq(Characters)
  BY DEF Characters
<1>2. \A before : /\ Completed(before, "continuation") = IF before = "lead" THEN <<Wide>> ELSE <<Replacement>>
                  /\ Completed(before, "lead") = IF before = "lead" THEN <<Replacement>> ELSE <<>>
                  /\ Completed(before, "ascii")
                       = IF before = "lead" THEN <<Replacement, Ascii>> ELSE <<Ascii>>
  BY DEF Completed
<1>3. Bytes = {"ascii", "lead", "continuation"}
  BY DEF Bytes
<1> QED
  BY <1>1, <1>2, <1>3

\* What the bytes of a stream complete is a sequence of texts.
LEMMA CompletedType ==
  ASSUME NEW bytes \in Seq(Bytes)
  PROVE  /\ CompletedBy(bytes) \in Seq(Seq(Characters)) /\ Len(CompletedBy(bytes)) = Len(bytes)
         /\ \A i \in 1..Len(bytes) :
              CompletedBy(bytes)[i] = Completed(IF i = 1 THEN "none" ELSE bytes[i - 1], bytes[i])
<1>1. Len(bytes) \in Nat /\ DOMAIN bytes = 1..Len(bytes) /\ \A i \in 1..Len(bytes) : bytes[i] \in Bytes
  OBVIOUS
<1>2. \A i \in 1..Len(bytes) :
        Completed(IF i = 1 THEN "none" ELSE bytes[i - 1], bytes[i]) \in Seq(Characters)
  BY <1>1, CompletedFacts
<1>3. CompletedBy(bytes) \in [1..Len(bytes) -> Seq(Characters)]
  BY <1>1, <1>2 DEF CompletedBy
<1>4. CompletedBy(bytes) \in Seq(Seq(Characters)) /\ Len(CompletedBy(bytes)) = Len(bytes)
  BY <1>1, <1>3
<1> QED
  BY <1>1, <1>4 DEF CompletedBy

\* Decoding makes characters, and keeps a lead byte or nothing.
LEMMA DecodingType ==
  ASSUME NEW bytes \in Seq(Bytes)
  PROVE  /\ TakeValidUtf8(bytes).content \in Seq(Characters)
         /\ TakeValidUtf8(bytes).content = FlattenSeq(CompletedBy(bytes))
         /\ TakeValidUtf8(bytes).carry \in {<<>>, <<"lead">>}
         /\ TakeValidUtf8(bytes).carry = IF bytes # <<>> /\ bytes[Len(bytes)] = "lead"
                                         THEN <<"lead">> ELSE <<>>
         /\ TakeValidUtf8(<<>>) = [content |-> <<>>, carry |-> <<>>]
<1>1. /\ TakeValidUtf8(bytes).content = FlattenSeq(CompletedBy(bytes))
      /\ TakeValidUtf8(bytes).carry = IF bytes # <<>> /\ bytes[Len(bytes)] = "lead"
                                      THEN <<"lead">> ELSE <<>>
  BY DEF TakeValidUtf8, CompletedBy, Last
<1>2. TakeValidUtf8(bytes).content \in Seq(Characters)
  BY <1>1, CompletedType, FlattenFacts
<1>3. TakeValidUtf8(<<>>) = [content |-> <<>>, carry |-> <<>>]
  <2>1. CompletedBy(<<>>) = <<>>
    BY DEF CompletedBy
  <2>2. TakeValidUtf8(<<>>).content = <<>> /\ TakeValidUtf8(<<>>).carry = <<>>
    BY <2>1, FlattenFacts DEF TakeValidUtf8, CompletedBy
  <2> QED
    BY <2>2 DEF TakeValidUtf8
<1> QED
  BY <1>1, <1>2, <1>3

\* A stream says the same however it is cut up into reads: what is kept of one read is
\* all that the next has to know of it.
THEOREM DecodingIsIncremental ==
  ASSUME NEW a \in Seq(Bytes), NEW b \in Seq(Bytes)
  PROVE  LET next == TakeValidUtf8(TakeValidUtf8(a).carry \o b)
         IN  /\ TakeValidUtf8(a).carry \o b \in Seq(Bytes)
             /\ TakeValidUtf8(a \o b).content = TakeValidUtf8(a).content \o next.content
             /\ TakeValidUtf8(a \o b).carry = next.carry
<1> DEFINE kept == TakeValidUtf8(a).carry
           before(j) == IF j = 1 THEN (IF a = <<>> THEN "none" ELSE a[Len(a)]) ELSE b[j - 1]
           more == [j \in 1..Len(b) |-> Completed(before(j), b[j])]
           lead == <<"lead">>
<1>1. /\ a \o b \in Seq(Bytes) /\ Len(a) \in Nat /\ Len(b) \in Nat /\ Len(a \o b) = Len(a) + Len(b)
      /\ \A i \in 1..Len(a) : (a \o b)[i] = a[i] /\ a[i] \in Bytes
      /\ \A j \in 1..Len(b) : (a \o b)[Len(a) + j] = b[j] /\ b[j] \in Bytes
  BY Joined
<1>2. /\ kept \in {<<>>, lead} /\ lead \in Seq(Bytes) /\ <<>> \in Seq(Bytes)
      /\ kept = IF a # <<>> /\ a[Len(a)] = "lead" THEN lead ELSE <<>>
  BY DecodingType DEF Bytes
<1>3. more \in Seq(Seq(Characters)) /\ Len(more) = Len(b)
      /\ \A j \in 1..Len(b) : more[j] = Completed(before(j), b[j])
  <2>1. \A j \in 1..Len(b) : Completed(before(j), b[j]) \in Seq(Characters)
    BY <1>1, CompletedFacts
  <2>2. more \in [1..Len(b) -> Seq(Characters)]
    BY <2>1
  <2>3. more \in Seq(Seq(Characters)) /\ Len(more) = Len(b)
    BY <1>1, <2>2
  <2> QED
    BY <2>3
<1>4. CompletedBy(a \o b) = CompletedBy(a) \o more
  <2>1. /\ CompletedBy(a \o b) \in Seq(Seq(Characters)) /\ Len(CompletedBy(a \o b)) = Len(a) + Len(b)
        /\ \A i \in 1..(Len(a) + Len(b)) :
             CompletedBy(a \o b)[i] = Completed(IF i = 1 THEN "none" ELSE (a \o b)[i - 1], (a \o b)[i])
    BY <1>1, CompletedType
  <2>2. /\ CompletedBy(a) \in Seq(Seq(Characters)) /\ Len(CompletedBy(a)) = Len(a)
        /\ \A i \in 1..Len(a) :
             CompletedBy(a)[i] = Completed(IF i = 1 THEN "none" ELSE a[i - 1], a[i])
    BY CompletedType
  <2> HIDE DEF more
  <2>3. ASSUME NEW i \in 1..Len(a) PROVE CompletedBy(a \o b)[i] = CompletedBy(a)[i]
    <3>1. i \in 1..(Len(a) + Len(b)) /\ (i # 1 => i - 1 \in 1..Len(a))
      BY <1>1
    <3>2. (a \o b)[i] = a[i] /\ (i # 1 => (a \o b)[i - 1] = a[i - 1])
      BY <1>1, <3>1
    <3>3. (IF i = 1 THEN "none" ELSE (a \o b)[i - 1]) = (IF i = 1 THEN "none" ELSE a[i - 1])
      BY <3>2
    <3> QED
      BY <2>1, <2>2, <3>1, <3>2, <3>3
  <2>4. ASSUME NEW j \in 1..Len(b) PROVE CompletedBy(a \o b)[Len(a) + j] = more[j]
    <3>1. Len(a) + j \in 1..(Len(a) + Len(b)) /\ (a \o b)[Len(a) + j] = b[j]
      BY <1>1
    <3>2. (IF Len(a) + j = 1 THEN "none" ELSE (a \o b)[(Len(a) + j) - 1]) = before(j)
      <4>1. CASE j = 1 /\ a = <<>>
        BY <4>1
      <4>2. CASE j = 1 /\ a # <<>>
        <5>1. Len(a) \in 1..Len(a) /\ Len(a) + j # 1 /\ (Len(a) + j) - 1 = Len(a)
          BY <1>1, <4>2
        <5> QED
          BY <1>1, <4>2, <5>1
      <4>3. CASE j # 1
        <5>1. j - 1 \in 1..Len(b) /\ Len(a) + j # 1 /\ (Len(a) + j) - 1 = Len(a) + (j - 1)
          BY <1>1, <4>3
        <5> QED
          BY <1>1, <4>3, <5>1
      <4> QED
        BY <4>1, <4>2, <4>3
    <3> HIDE DEF before
    <3> QED
      BY <1>3, <2>1, <3>1, <3>2
  <2>5. /\ Len(CompletedBy(a \o b)) = Len(CompletedBy(a)) + Len(more)
        /\ \A i \in 1..Len(CompletedBy(a)) : CompletedBy(a \o b)[i] = CompletedBy(a)[i]
        /\ \A j \in 1..Len(more) : CompletedBy(a \o b)[Len(CompletedBy(a)) + j] = more[j]
    BY <1>3, <2>1, <2>2, <2>3, <2>4
  <2> QED
    BY <1>3, <2>1, <2>2, <2>5, Rejoined
<1>5. FlattenSeq(CompletedBy(kept \o b)) = FlattenSeq(more)
  <2>1. CASE kept = <<>>
    <3>1. kept \o b = b
      BY <2>1, ConcatEmptySeq
    <3>2. /\ CompletedBy(b) \in Seq(Seq(Characters)) /\ Len(CompletedBy(b)) = Len(b)
          /\ \A i \in 1..Len(b) :
               CompletedBy(b)[i] = Completed(IF i = 1 THEN "none" ELSE b[i - 1], b[i])
      BY CompletedType
    <3>3. ASSUME NEW j \in 1..Len(b) PROVE CompletedBy(b)[j] = more[j]
      <4>1. j = 1 => before(j) # "lead"
        <5>1. a # <<>> /\ a[Len(a)] = "lead" => kept = lead
          BY <1>2, Zenon
        <5>2. lead # <<>>
          OBVIOUS
        <5> HIDE DEF kept, lead
        <5> QED
          BY <2>1, <5>1, <5>2
      <4>2. Completed(IF j = 1 THEN "none" ELSE b[j - 1], b[j]) = Completed(before(j), b[j])
        <5>1. CASE j = 1
          BY <1>1, <4>1, <5>1, CompletedFacts
        <5>2. CASE j # 1
          BY <5>2
        <5> QED
          BY <5>1, <5>2
      <4> QED
        BY <1>3, <3>2, <4>2
    <3> HIDE DEF more
    <3>4. CompletedBy(b) = more
      BY <1>3, <3>2, <3>3, SeqEqual
    <3> QED
      BY <3>1, <3>4
  <2>2. CASE kept = lead
    <3>1. /\ lead \o b \in Seq(Bytes) /\ Len(lead) = 1 /\ Len(lead \o b) = 1 + Len(b)
          /\ (lead \o b)[1] = "lead"
          /\ \A j \in 1..Len(b) : (lead \o b)[1 + j] = b[j]
      BY <1>1, <1>2
    <3>2. /\ CompletedBy(lead \o b) \in Seq(Seq(Characters))
          /\ Len(CompletedBy(lead \o b)) = 1 + Len(b)
          /\ \A i \in 1..(1 + Len(b)) :
               CompletedBy(lead \o b)[i]
                 = Completed(IF i = 1 THEN "none" ELSE (lead \o b)[i - 1], (lead \o b)[i])
      BY <3>1, CompletedType
    <3> HIDE DEF more
    <3> DEFINE none == <<<<>>>>
    <3>3. none \in Seq(Seq(Characters)) /\ Len(none) = 1 /\ none[1] = <<>>
      BY EmptySeq
    <3> HIDE DEF none
    <3>4. CompletedBy(lead \o b)[1] = none[1]
      <4>1. 1 \in 1..(1 + Len(b))
        BY <1>1
      <4>2. CompletedBy(lead \o b)[1] = Completed("none", "lead")
        BY <3>1, <3>2, <4>1
      <4> QED
        BY <3>3, <4>2, CompletedFacts
    <3>5. ASSUME NEW j \in 1..Len(b) PROVE CompletedBy(lead \o b)[1 + j] = more[j]
      <4>1. 1 + j \in 1..(1 + Len(b)) /\ (1 + j) - 1 = j /\ 1 + j # 1
        BY <1>1
      <4>2. (lead \o b)[j] = before(j)
        <5>1. CASE j = 1
          <6>1. lead # <<>>
            OBVIOUS
          <6>2. a # <<>> /\ a[Len(a)] = "lead"
            <7> HIDE DEF lead, kept
            <7> QED
              BY <1>2, <2>2, <6>1
          <6>3. before(j) = "lead" /\ (lead \o b)[j] = "lead"
            BY <3>1, <5>1, <6>2
          <6> QED
            BY <6>3
        <5>2. CASE j # 1
          <6>1. j - 1 \in 1..Len(b) /\ 1 + (j - 1) = j
            BY <1>1, <5>2
          <6> QED
            BY <3>1, <5>2, <6>1
        <5> QED
          BY <5>1, <5>2
      <4>3. CompletedBy(lead \o b)[1 + j] = Completed(before(j), b[j])
        <5>1. (lead \o b)[1 + j] = b[j]
          BY <3>1
        <5>2. CompletedBy(lead \o b)[1 + j] = Completed((lead \o b)[j], (lead \o b)[1 + j])
          BY <3>2, <4>1
        <5> HIDE DEF before, lead
        <5> QED
          BY <4>2, <5>1, <5>2
      <4> HIDE DEF before
      <4> QED
        BY <1>3, <4>3
    <3>6. CompletedBy(lead \o b) = none \o more
      <4>1. /\ Len(CompletedBy(lead \o b)) = Len(none) + Len(more)
            /\ \A i \in 1..Len(none) : CompletedBy(lead \o b)[i] = none[i]
            /\ \A j \in 1..Len(more) : CompletedBy(lead \o b)[Len(none) + j] = more[j]
        BY <1>3, <3>2, <3>3, <3>4, <3>5
      <4> QED
        BY <1>3, <3>2, <3>3, <4>1, Rejoined
    <3>7. FlattenSeq(none \o more) = FlattenSeq(none) \o FlattenSeq(more)
      BY <1>3, <3>3, FlattenConcat
    <3>8. FlattenSeq(none) = <<>> /\ FlattenSeq(more) \in Seq(Characters)
      BY <1>3, FlattenFacts, EmptySeq DEF none
    <3>9. <<>> \o FlattenSeq(more) = FlattenSeq(more)
      BY <3>8, ConcatEmptySeq
    <3> QED
      BY <2>2, <3>6, <3>7, <3>8, <3>9
  <2> QED
    BY <1>2, <2>1, <2>2
<1>6. kept \o b \in Seq(Bytes)
  BY <1>2
<1>7. TakeValidUtf8(a \o b).content = TakeValidUtf8(a).content \o TakeValidUtf8(kept \o b).content
  <2> HIDE DEF more, kept
  <2>1. FlattenSeq(CompletedBy(a) \o more) = FlattenSeq(CompletedBy(a)) \o FlattenSeq(more)
    BY <1>3, CompletedType, FlattenConcat
  <2>2. TakeValidUtf8(a).content = FlattenSeq(CompletedBy(a))
    BY DecodingType
  <2>3. TakeValidUtf8(a \o b).content = FlattenSeq(CompletedBy(a \o b))
    BY <1>1, DecodingType
  <2>4. TakeValidUtf8(kept \o b).content = FlattenSeq(CompletedBy(kept \o b))
    BY <1>6, DecodingType
  <2> QED
    BY <1>4, <1>5, <2>1, <2>2, <2>3, <2>4
<1>8. TakeValidUtf8(a \o b).carry = TakeValidUtf8(kept \o b).carry
  <2>1. TakeValidUtf8(a \o b).carry = IF a \o b # <<>> /\ (a \o b)[Len(a \o b)] = "lead" THEN lead ELSE <<>>
    BY <1>1, DecodingType
  <2>2. TakeValidUtf8(kept \o b).carry
          = IF kept \o b # <<>> /\ (kept \o b)[Len(kept \o b)] = "lead" THEN lead ELSE <<>>
    BY <1>6, DecodingType
  <2>3. CASE b = <<>>
    <3>1. a \o b = a /\ kept \o b = kept
      BY <1>2, <2>3, ConcatEmptySeq
    <3>2. TakeValidUtf8(a).carry = kept
      OBVIOUS
    <3>3. TakeValidUtf8(kept).carry = kept
      <4>1. CASE kept = <<>>
        BY <2>2, <3>1, <4>1
      <4>2. CASE kept = lead
        <5>1. lead # <<>> /\ lead[Len(lead)] = "lead"
          OBVIOUS
        <5> QED
          BY <2>2, <3>1, <4>2, <5>1
      <4> QED
        BY <1>2, <4>1, <4>2
    <3> QED
      BY <3>1, <3>3
  <2>4. CASE b # <<>>
    <3>1. /\ a \o b # <<>> /\ (a \o b)[Len(a \o b)] = b[Len(b)]
      BY <1>1, <2>4
    <3>2. \A k \in {<<>>, lead} : k \o b # <<>> /\ (k \o b)[Len(k \o b)] = b[Len(b)]
      BY <1>1, <1>2, <2>4
    <3>3. kept \o b # <<>> /\ (kept \o b)[Len(kept \o b)] = b[Len(b)]
      BY <1>2, <3>2
    <3> QED
      BY <2>1, <2>2, <3>1, <3>3
  <2> QED
    BY <2>3, <2>4
<1> QED
  BY <1>6, <1>7, <1>8

(* StreamCapture.                                                          *)

Captures == [headRoom : 0..HeadBytes, tail : Seq(Characters), held : Nat, capped : BOOLEAN]

\* The two halves of the budget.
LEMMA Halves ==
  /\ MaxStreamBytes \in Nat /\ HeadBytes \in Nat /\ TailBytes \in Nat
  /\ HeadBytes + TailBytes = MaxStreamBytes
  /\ ReadBufferBytes \in Nat /\ ReadBufferBytes > 0 /\ PipeBytes \in Nat /\ PipeBytes > 0
<1>1. MaxStreamBytes \in Nat /\ ReadBufferBytes \in Nat /\ ReadBufferBytes > 0
      /\ PipeBytes \in Nat /\ PipeBytes > 0
  BY CaptureAssumption
<1>2. HeadBytes \in Nat /\ HeadBytes <= MaxStreamBytes
  BY <1>1 DEF HeadBytes
<1> QED
  BY <1>1, <1>2 DEF TailBytes

\* A sequence of characters is one of pieces.
LEMMA CharactersArePieces == \A t \in Seq(Characters) : t \in Seq(Pieces)
<1>1. Characters \subseteq Pieces
  BY PiecesDiffer
<1> QED
  BY <1>1, SeqMonotonic

\* How record parts a text into the head and the rest, and what it sends and holds.
PartsOf(c, text, now, head, rest) ==
  /\ head \in Seq(Characters) /\ rest \in Seq(Characters)
  /\ text = head \o rest /\ Size(text) = Size(head) + Size(rest)
  /\ Size(head) \in Nat /\ Size(rest) \in Nat /\ Size(head) <= c.headRoom
  /\ LET k == CharsThatFit(text, c.headRoom)
     IN  head = SubSeq(text, 1, k) /\ rest = SubSeq(text, k + 1, Len(text))
  /\ LET tail == TrimToTail(c.tail \o rest, TailBytes)
         over == ~c.capped /\ Size(tail) < c.held + Size(rest)
     IN  /\ tail \in Seq(Characters) /\ Size(tail) \in Nat
         /\ Size(tail) <= TailBytes /\ Size(tail) <= Size(c.tail) + Size(rest)
         /\ now.capture = [headRoom |-> c.headRoom - Size(head), tail |-> tail,
                           held |-> c.held + Size(rest), capped |-> c.capped \/ over]
         /\ now.sent = head \o (IF over THEN <<OverBudget>> ELSE <<>>)

\* record does part it.
LEMMA RecordedParts ==
  ASSUME NEW c \in Captures, NEW text \in Seq(Characters), NEW now \in Recorded(c, text)
  PROVE  \E head, rest : PartsOf(c, text, now, head, rest)
<1>1. /\ c.headRoom \in Nat /\ c.tail \in Seq(Characters) /\ c.held \in Nat /\ c.capped \in BOOLEAN
      /\ TailBytes \in Nat
  BY Halves DEF Captures
<1> DEFINE k == CharsThatFit(text, c.headRoom)
           head == SubSeq(text, 1, k)
           rest == SubSeq(text, k + 1, Len(text))
           tail == TrimToTail(c.tail \o rest, TailBytes)
           over == ~c.capped /\ Size(tail) < c.held + Size(rest)
<1>2. k \in 0..Len(text) /\ Size(head) <= c.headRoom
  BY <1>1, LongestPrefix
<1>3. /\ head \in Seq(Characters) /\ rest \in Seq(Characters)
      /\ text = head \o rest /\ Size(text) = Size(head) + Size(rest)
  <2> HIDE DEF k
  <2> QED
    BY <1>2, Sides
<1>4. Size(head) \in Nat /\ Size(rest) \in Nat
  <2> HIDE DEF head, rest
  <2> QED
    BY <1>3, SizeAdds
<1>5. /\ now.capture = [headRoom |-> c.headRoom - Size(head), tail |-> tail,
                        held |-> c.held + Size(rest), capped |-> c.capped \/ over]
      /\ now.sent = head \o (IF over THEN <<OverBudget>> ELSE <<>>)
  <2> DEFINE p == [head |-> head, rest |-> rest, tail |-> tail]
             made(q) == LET o == ~c.capped /\ Size(q.tail) < c.held + Size(q.rest)
                        IN  [sent |-> q.head \o (IF o THEN <<OverBudget>> ELSE <<>>),
                             capture |-> [headRoom |-> c.headRoom - Size(q.head), tail |-> q.tail,
                                          held |-> c.held + Size(q.rest), capped |-> c.capped \/ o]]
  <2>1. Parted(c, text) = {p}
    BY DEF Parted
  <2>2. Recorded(c, text) = {made(q) : q \in Parted(c, text)}
    BY DEF Recorded
  <2>3. p.head = head /\ p.rest = rest /\ p.tail = tail
    OBVIOUS
  <2>4. made(p) = [sent |-> head \o (IF over THEN <<OverBudget>> ELSE <<>>),
                   capture |-> [headRoom |-> c.headRoom - Size(head), tail |-> tail,
                                held |-> c.held + Size(rest), capped |-> c.capped \/ over]]
    <3> HIDE DEF head, rest, tail, p
    <3> QED
      BY <2>3
  <2>5. now = made(p)
    <3> HIDE DEF p, made
    <3> QED
      BY <2>1, <2>2
  <2> HIDE DEF head, rest, tail, p, made
  <2> QED
    BY <2>4, <2>5
<1>6. /\ tail \in Seq(Characters) /\ Size(tail) \in Nat
      /\ Size(tail) <= TailBytes /\ Size(tail) <= Size(c.tail) + Size(rest)
  <2> HIDE DEF rest
  <2>1. c.tail \o rest \in Seq(Characters) /\ Size(c.tail \o rest) = Size(c.tail) + Size(rest)
    BY <1>1, <1>3, SizeAdds, Joined
  <2>2. tail \in Seq(Characters) /\ Size(tail) <= TailBytes /\ Size(tail) <= Size(c.tail \o rest)
    BY <1>1, <2>1, TailFits
  <2>3. Size(tail) \in Nat
    BY <2>2, SizeAdds
  <2> QED
    BY <2>1, <2>2, <2>3
<1>7. PartsOf(c, text, now, head, rest)
  BY <1>2, <1>3, <1>4, <1>5, <1>6 DEF PartsOf
<1> QED
  BY <1>7

\* What the parts come to: a capture again, and what was sent took its room.
LEMMA PartsType ==
  ASSUME NEW c \in Captures, NEW text \in Seq(Characters), NEW now, NEW head, NEW rest,
         PartsOf(c, text, now, head, rest)
  PROVE  /\ now.capture \in Captures /\ Size(now.capture.tail) <= TailBytes
         /\ now.sent \in Seq(Pieces)
         /\ Size(now.sent) = Size(head)
         /\ now.capture.headRoom = c.headRoom - Size(head)
         /\ now.capture.held = c.held + Size(rest)
         /\ Size(now.capture.tail) \in Nat /\ Size(now.capture.tail) <= Size(c.tail) + Size(rest)
<1>1. c.headRoom \in 0..HeadBytes /\ HeadBytes \in Nat /\ c.held \in Nat /\ c.capped \in BOOLEAN
  BY Halves DEF Captures
<1> DEFINE tail == TrimToTail(c.tail \o rest, TailBytes)
           over == ~c.capped /\ Size(tail) < c.held + Size(rest)
           mark == IF over THEN <<OverBudget>> ELSE <<>>
<1>2. /\ head \in Seq(Characters) /\ Size(head) \in Nat /\ Size(rest) \in Nat
      /\ Size(head) <= c.headRoom
      /\ tail \in Seq(Characters) /\ Size(tail) \in Nat
      /\ Size(tail) <= TailBytes /\ Size(tail) <= Size(c.tail) + Size(rest)
      /\ now.capture = [headRoom |-> c.headRoom - Size(head), tail |-> tail,
                        held |-> c.held + Size(rest), capped |-> c.capped \/ over]
      /\ now.sent = head \o mark
  BY DEF PartsOf
<1>3. head \in Seq(Pieces) /\ mark \in Seq(Pieces) /\ Size(mark) = 0
  BY <1>2, CharactersArePieces, SizeOfOne, PiecesDiffer, EmptySeq
<1>4. now.sent \in Seq(Pieces) /\ Size(now.sent) = Size(head)
  <2>1. head \o mark \in Seq(Pieces) /\ Size(head \o mark) = Size(head) + Size(mark)
    <3> HIDE DEF mark
    <3> QED
      BY <1>3, SizeAdds, Joined
  <2> HIDE DEF mark
  <2> QED
    BY <1>2, <1>3, <2>1
<1>5. c.headRoom - Size(head) \in 0..HeadBytes /\ c.held + Size(rest) \in Nat
      /\ (c.capped \/ over) \in BOOLEAN
  BY <1>1, <1>2
<1>6. now.capture \in Captures
  <2> HIDE DEF tail, over
  <2> QED
    BY <1>2, <1>5 DEF Captures
<1> QED
  BY <1>2, <1>4, <1>6

\* What is flushed is the tail, under its marker.
LEMMA Flushed ==
  ASSUME NEW c \in Captures, Size(c.tail) <= c.held
  PROVE  /\ FlushTail(c) \in Seq(Pieces) /\ Size(FlushTail(c)) = Size(c.tail)
<1> DEFINE mark == IF c.capped THEN <<BytesDropped(c.held - Size(c.tail))>> ELSE <<>>
<1>1. c.tail \in Seq(Characters) /\ c.tail \in Seq(Pieces) /\ c.held \in Nat /\ Size(c.tail) \in Nat
  <2>1. c.tail \in Seq(Characters) /\ c.held \in Nat
    BY DEF Captures
  <2> QED
    BY <2>1, CharactersArePieces, SizeAdds
<1>2. mark \in Seq(Pieces) /\ Size(mark) = 0
  <2>1. c.held - Size(c.tail) \in Nat
    BY <1>1
  <2>2. <<BytesDropped(c.held - Size(c.tail))>> \in Seq(Pieces)
    BY <2>1, PiecesDiffer
  <2> QED
    BY <2>1, <2>2, SizeOfOne, EmptySeq
<1>3. FlushTail(c) = mark \o c.tail
  BY DEF FlushTail
<1> HIDE DEF mark
<1>4. mark \o c.tail \in Seq(Pieces) /\ Size(mark \o c.tail) = Size(mark) + Size(c.tail)
  BY <1>1, <1>2, SizeAdds, Joined
<1> QED
  BY <1>1, <1>2, <1>3, <1>4

-----------------------------------------------------------------------------
(* Types.                                                                  *)

Texts == [Streams -> Seq(Pieces)]

\* The types, with those TLC has no need of; and an attempt that waits for its readers
\* is held and Running.
Typed ==
  /\ TypeOK
  /\ carry \in [Streams -> {<<>>, <<"lead">>}] /\ capture \in [Streams -> Captures]
  /\ chunks \in Texts /\ rows \in Texts
  /\ \A s \in Streams : Size(capture[s].tail) <= capture[s].held
  /\ finishing # "None" => attempt = "Running" /\ child

\* What no step of the monitor touches, and none of the command.
ReaderTypes ==
  /\ instance \in Instances
  /\ written \in [Streams -> Nat] /\ taken \in [Streams -> Nat]
  /\ \A s \in Streams : taken[s] <= written[s] /\ written[s] <= Len(output[s])
  /\ reader \in [Streams -> {"reading", "ended", "aborted", "gone"}]
  /\ carry \in [Streams -> {<<>>, <<"lead">>}] /\ capture \in [Streams -> Captures]
  /\ \A s \in Streams : /\ Size(capture[s].tail) <= capture[s].held
                        /\ Size(capture[s].tail) <= TailBytes

MonitorTypes ==
  /\ child \in BOOLEAN
  /\ terminating \in {"None", "TimedOut", "Aborted"}
  /\ finishing \in FinishedAttempt \cup {"None"}
  /\ attempt \in {"Running"} \cup FinishedAttempt
  /\ finishing # "None" => attempt = "Running" /\ child
  /\ faults \in Nat /\ broken \in BOOLEAN /\ cut \in BOOLEAN
  /\ rows \in Texts

OtherTypes ==
  /\ holders \subseteq Processes /\ exited \in {"none", "zero", "nonzero", "signal"}
  /\ chunks \in Texts

\* The types are those of the readers, of the monitor, and of what they share.
LEMMA TypedParts == Typed <=> ReaderTypes /\ MonitorTypes /\ OtherTypes
<1>1. \A t \in Texts : DOMAIN t = Streams
  BY DEF Texts
<1>2. \A c \in Captures : c.headRoom \in 0..HeadBytes
  BY DEF Captures
<1>3. Typed => ReaderTypes /\ MonitorTypes /\ OtherTypes
  BY DEF Typed, TypeOK, ReaderTypes, MonitorTypes, OtherTypes
<1>4. ReaderTypes /\ MonitorTypes /\ OtherTypes => Typed
  BY <1>1, <1>2 DEF Typed, TypeOK, ReaderTypes, MonitorTypes, OtherTypes
<1> QED
  BY <1>3, <1>4

\* The text of a note, and a channel without any.
LEMMA NotedText ==
  /\ NoText \in Texts /\ \A s \in Streams : Size(NoText[s]) = 0
  /\ \A text \in Texts : /\ Noted(text) \in Texts
                         /\ \A s \in Streams : Size(Noted(text)[s]) = Size(text[s])
<1>1. <<>> \in Seq(Pieces) /\ Size(<<>>) = 0 /\ <<Note>> \in Seq(Pieces) /\ Size(<<Note>>) = 0
  BY SizeOfOne, PiecesDiffer
<1>2. NoText \in Texts /\ \A s \in Streams : Size(NoText[s]) = 0
  BY <1>1 DEF NoText, Texts
<1>3. ASSUME NEW text \in Texts
      PROVE  /\ Noted(text) \in Texts
             /\ \A s \in Streams : Size(Noted(text)[s]) = Size(text[s])
  <2>1. ASSUME NEW s \in Streams
        PROVE  /\ <<Note>> \o text[s] \in Seq(Pieces) /\ text[s] \in Seq(Pieces)
               /\ Size(<<Note>> \o text[s]) = Size(text[s])
    <3>1. text[s] \in Seq(Pieces)
      BY DEF Texts
    <3>2. /\ <<Note>> \o text[s] \in Seq(Pieces)
          /\ Size(<<Note>> \o text[s]) = Size(<<Note>>) + Size(text[s]) /\ Size(text[s]) \in Nat
      BY <1>1, <3>1, SizeAdds, Joined
    <3> QED
      BY <1>1, <3>1, <3>2
  <2>2. \A s \in Streams : Noted(text)[s] = IF s = "stderr" THEN <<Note>> \o text[s] ELSE text[s]
    BY DEF Noted
  <2>3. Noted(text) \in Texts
    BY <2>1 DEF Noted, Texts
  <2> QED
    BY <2>1, <2>2, <2>3
<1> QED
  BY <1>2, <1>3

\* An insert appends no more than the text it is given, and all of it unless it fails.
LEMMA Inserted ==
  ASSUME MonitorTypes, NEW text \in Texts, NEW landed, InsertOutput(text, landed)
  PROVE  /\ rows' \in Texts /\ faults' \in Nat /\ broken' \in BOOLEAN
         /\ \A s \in Streams : Size(rows'[s]) <= Size(rows[s]) + Size(text[s])
         /\ ~broken' => ~broken /\ \A s \in Streams : rows'[s] = rows[s] \o text[s]
<1>1. \A s \in Streams : rows[s] \in Seq(Pieces) /\ text[s] \in Seq(Pieces)
  BY DEF MonitorTypes, Texts
<1>2. ASSUME NEW s \in Streams
      PROVE  /\ rows[s] \o text[s] \in Seq(Pieces) /\ Size(rows[s]) \in Nat /\ Size(text[s]) \in Nat
             /\ Size(rows[s] \o text[s]) = Size(rows[s]) + Size(text[s])
  BY <1>1, SizeAdds, Joined
<1>3. rows' = [s \in Streams |-> IF s \in landed THEN rows[s] \o text[s] ELSE rows[s]]
  BY DEF InsertOutput
<1>4. rows' \in Texts
  BY <1>1, <1>2, <1>3 DEF Texts
<1>5. \A s \in Streams : Size(rows'[s]) <= Size(rows[s]) + Size(text[s])
  BY <1>2, <1>3
<1>6. faults' \in Nat /\ broken' \in BOOLEAN
  <2>1. (faults' = faults /\ broken' = broken) \/ Fault
    BY DEF InsertOutput
  <2>2. faults \in Nat /\ broken \in BOOLEAN
    BY DEF MonitorTypes
  <2>3. faults' \in Nat
    BY <2>1, <2>2 DEF Fault
  <2>4. broken' \in BOOLEAN
    BY <2>1, <2>2, Zenon DEF Fault
  <2> QED
    BY <2>3, <2>4
<1>7. ~broken' => landed = Streams /\ ~broken
  BY DEF InsertOutput, Fault
<1> QED
  BY <1>3, <1>4, <1>5, <1>6, <1>7

\* The rows and what waits in the channel stay within the head until the reader is at
\* the end of its stream, and within both halves for ever.
InBudget ==
  \A s \in Streams : Size(rows[s]) + Size(chunks[s])
    <= IF reader[s] = "reading" THEN HeadBytes - capture[s].headRoom ELSE MaxStreamBytes

BudgetInv == Typed /\ InBudget

\* A text has a size.
LEMMA TextSizes ==
  ASSUME NEW t \in Texts, NEW s \in Streams
  PROVE  t[s] \in Seq(Pieces) /\ Size(t[s]) \in Nat
<1>1. t[s] \in Seq(Pieces)
  BY DEF Texts
<1> QED
  BY <1>1, SizeAdds

\* A reader that passes text on adds it to its own stream.
LEMMA Passed ==
  ASSUME ReaderTypes, OtherTypes, NEW s \in Streams, NEW c \in Captures, NEW sent \in Seq(Pieces),
         NEW next \in {"reading", "ended"}, Pass(s, c, sent, next)
  PROVE  /\ capture' = [capture EXCEPT ![s] = c] /\ capture' \in [Streams -> Captures]
         /\ chunks' \in Texts
         /\ \A t \in Streams \ {s} : chunks'[t] = chunks[t] /\ reader'[t] = reader[t]
         /\ chunks'[s] = IF child THEN chunks[s] \o sent ELSE chunks[s]
         /\ Size(chunks'[s]) <= Size(chunks[s]) + Size(sent)
         /\ reader' \in [Streams -> {"reading", "ended", "aborted", "gone"}]
         /\ reader'[s] \in {next, "gone"} /\ (child => reader'[s] = next)
<1>1. chunks \in Texts /\ chunks[s] \in Seq(Pieces) /\ capture \in [Streams -> Captures]
      /\ reader \in [Streams -> {"reading", "ended", "aborted", "gone"}]
  BY TextSizes DEF OtherTypes, ReaderTypes
<1>2. /\ chunks[s] \o sent \in Seq(Pieces) /\ Size(chunks[s]) \in Nat /\ Size(sent) \in Nat
      /\ Size(chunks[s] \o sent) = Size(chunks[s]) + Size(sent)
  BY <1>1, SizeAdds, Joined
<1>3. capture' = [capture EXCEPT ![s] = c] /\ capture' \in [Streams -> Captures]
  BY <1>1 DEF Pass
<1>4. chunks' = IF child THEN [chunks EXCEPT ![s] = chunks[s] \o sent] ELSE chunks
  BY DEF Pass
<1>5. /\ chunks' \in Texts /\ \A t \in Streams \ {s} : chunks'[t] = chunks[t]
      /\ chunks'[s] = IF child THEN chunks[s] \o sent ELSE chunks[s]
  BY <1>1, <1>2, <1>4 DEF Texts
<1>6. Size(chunks'[s]) <= Size(chunks[s]) + Size(sent)
  BY <1>2, <1>5
<1>7. /\ reader' \in [Streams -> {"reading", "ended", "aborted", "gone"}]
      /\ reader'[s] \in {next, "gone"} /\ \A t \in Streams \ {s} : reader'[t] = reader[t]
      /\ child => reader'[s] = next
  BY <1>1 DEF Pass
<1> QED
  BY <1>3, <1>5, <1>6, <1>7

\* The bytes of a stream, and any stretch of them.
LEMMA StreamBytes ==
  ASSUME ReaderTypes, NEW s \in Streams
  PROVE  /\ output[s] \in Seq(Bytes) /\ Len(output[s]) \in Nat
         /\ \A i, j \in Nat : i <= j /\ j <= Len(output[s]) => SubSeq(output[s], i + 1, j) \in Seq(Bytes)
<1>1. output[s] \in Seq(Bytes)
  BY CaptureAssumption DEF ReaderTypes, output
<1> HIDE DEF output
<1> QED
  BY <1>1

\* What a read takes: some bytes that were written, and the texts it makes of them.
LEMMA ReadTakes ==
  ASSUME Typed, NEW s \in Streams, Read(s)
  PROVE  \E n \in Nat, text \in Seq(Characters) : \E now \in Recorded(capture[s], text) :
           /\ reader[s] = "reading" /\ n > 0 /\ taken[s] + n <= written[s]
           /\ taken' = [taken EXCEPT ![s] = @ + n]
           /\ LET bytes == carry[s] \o SubSeq(output[s], taken[s] + 1, taken[s] + n)
              IN  /\ bytes \in Seq(Bytes)
                  /\ text = TakeValidUtf8(bytes).content
                  /\ carry' = [carry EXCEPT ![s] = TakeValidUtf8(bytes).carry]
           /\ carry' \in [Streams -> {<<>>, <<"lead">>}]
           /\ Pass(s, now.capture, now.sent, "reading")
           /\ UNCHANGED <<command, monitor>>
<1>1. ReaderTypes
  BY TypedParts
<1> DEFINE n == Least(ReadBufferBytes, written[s] - taken[s])
           bytes == carry[s] \o SubSeq(output[s], taken[s] + 1, taken[s] + n)
           took == TakeValidUtf8(bytes)
<1>2. /\ reader[s] = "reading" /\ n > 0
      /\ taken' = [taken EXCEPT ![s] = @ + n]
      /\ carry' = [carry EXCEPT ![s] = took.carry]
      /\ \E now \in Recorded(capture[s], took.content) : Pass(s, now.capture, now.sent, "reading")
      /\ UNCHANGED <<command, monitor>>
  <2> HIDE DEF command, monitor
  <2> QED
    BY DEF Read
<1>3. n \in Nat /\ taken[s] + n <= written[s] /\ written[s] <= Len(output[s]) /\ taken[s] \in Nat
      /\ taken[s] + n \in Nat /\ taken[s] <= taken[s] + n /\ taken[s] + n <= Len(output[s])
  <2>1. taken[s] \in Nat /\ written[s] \in Nat /\ taken[s] <= written[s] /\ written[s] <= Len(output[s])
        /\ Len(output[s]) \in Nat
    BY <1>1, StreamBytes DEF ReaderTypes
  <2> HIDE DEF output
  <2> QED
    BY <2>1, Halves DEF Least
<1>4. bytes \in Seq(Bytes)
  <2>1. SubSeq(output[s], taken[s] + 1, taken[s] + n) \in Seq(Bytes)
    <3> HIDE DEF n, output
    <3> QED
      BY <1>1, <1>3, StreamBytes
  <2>2. carry[s] \in {<<>>, <<"lead">>}
    BY <1>1 DEF ReaderTypes
  <2>3. carry[s] \in Seq(Bytes)
    <3>1. <<>> \in Seq(Bytes) /\ <<"lead">> \in Seq(Bytes)
      BY DEF Bytes
    <3> QED
      BY <2>2, <3>1
  <2> HIDE DEF n, output
  <2> QED
    BY <2>1, <2>3, Joined
<1>5. took.content \in Seq(Characters) /\ took.carry \in {<<>>, <<"lead">>}
  <2> HIDE DEF bytes
  <2> QED
    BY <1>4, DecodingType
<1>6. carry' \in [Streams -> {<<>>, <<"lead">>}]
  <2>1. carry \in [Streams -> {<<>>, <<"lead">>}]
    BY <1>1 DEF ReaderTypes
  <2> HIDE DEF took
  <2> QED
    BY <1>2, <1>5, <2>1
<1> HIDE DEF n, took, command, monitor, output
<1>7. bytes \in Seq(Bytes) /\ took = TakeValidUtf8(bytes)
  BY <1>4 DEF took
<1> HIDE DEF bytes
<1>8. PICK now \in Recorded(capture[s], took.content) : Pass(s, now.capture, now.sent, "reading")
  BY <1>2
<1>9. /\ n \in Nat /\ took.content \in Seq(Characters)
      /\ reader[s] = "reading" /\ n > 0 /\ taken[s] + n <= written[s]
      /\ taken' = [taken EXCEPT ![s] = @ + n]
      /\ bytes \in Seq(Bytes)
      /\ took.content = TakeValidUtf8(bytes).content
      /\ carry' = [carry EXCEPT ![s] = TakeValidUtf8(bytes).carry]
      /\ carry' \in [Streams -> {<<>>, <<"lead">>}]
      /\ UNCHANGED <<command, monitor>>
  BY <1>2, <1>3, <1>5, <1>6, <1>7
<1> QED
  BY <1>8, <1>9, Zenon DEF bytes

\* What the end of a stream takes: half a character, if any is left.
LEMMA EndTakes ==
  ASSUME Typed, NEW s \in Streams, ReadToEnd(s)
  PROVE  \E text \in Seq(Characters) : \E now \in Recorded(capture[s], text) :
           /\ text = IF carry[s] = <<>> THEN <<>> ELSE <<Replacement>>
           /\ reader[s] = "reading" /\ holders = {} /\ taken[s] = written[s]
           /\ carry' = [carry EXCEPT ![s] = <<>>] /\ carry' \in [Streams -> {<<>>, <<"lead">>}]
           /\ Pass(s, now.capture, now.sent \o FlushTail(now.capture), "ended")
           /\ UNCHANGED <<command, taken, monitor>>
<1> DEFINE text == IF carry[s] = <<>> THEN <<>> ELSE <<Replacement>>
<1>1. text \in Seq(Characters)
  <2>1. <<>> \in Seq(Characters) /\ <<Replacement>> \in Seq(Characters)
    BY DEF Characters
  <2> QED
    BY <2>1
<1>2. carry \in [Streams -> {<<>>, <<"lead">>}]
  BY DEF Typed
<1> HIDE DEF text
<1>3. /\ reader[s] = "reading" /\ holders = {} /\ taken[s] = written[s]
      /\ carry' = [carry EXCEPT ![s] = <<>>]
      /\ \E now \in Recorded(capture[s], text) :
           Pass(s, now.capture, now.sent \o FlushTail(now.capture), "ended")
      /\ UNCHANGED <<command, taken, monitor>>
  <2> HIDE DEF command, monitor
  <2> QED
    BY DEF ReadToEnd, text
<1>4. carry' \in [Streams -> {<<>>, <<"lead">>}]
  BY <1>2, <1>3
<1> QED
  BY <1>1, <1>3, <1>4 DEF text

\* A read keeps the types and the budget.
LEMMA ReadKeepsBudget ==
  ASSUME BudgetInv, NEW s \in Streams, Read(s)
  PROVE  BudgetInv'
<1>1. Typed /\ InBudget /\ ReaderTypes /\ MonitorTypes /\ OtherTypes
  BY TypedParts DEF BudgetInv
<1>2. PICK n \in Nat, text \in Seq(Characters) : \E now \in Recorded(capture[s], text) :
        /\ reader[s] = "reading" /\ n > 0 /\ taken[s] + n <= written[s]
        /\ taken' = [taken EXCEPT ![s] = @ + n]
        /\ carry' \in [Streams -> {<<>>, <<"lead">>}]
        /\ Pass(s, now.capture, now.sent, "reading")
        /\ UNCHANGED <<command, monitor>>
  BY <1>1, ReadTakes
<1>3. PICK now \in Recorded(capture[s], text) : Pass(s, now.capture, now.sent, "reading")
  BY <1>2
<1>4. /\ capture[s] \in Captures /\ Size(capture[s].tail) <= capture[s].held
      /\ capture[s].held \in Nat /\ Size(capture[s].tail) \in Nat
      /\ capture[s].headRoom \in Nat
  <2>1. capture[s] \in Captures /\ Size(capture[s].tail) <= capture[s].held
    BY <1>1 DEF ReaderTypes
  <2>2. capture[s].tail \in Seq(Characters) /\ capture[s].held \in Nat /\ capture[s].headRoom \in Nat
    BY <2>1, Halves DEF Captures
  <2> QED
    BY <2>1, <2>2, SizeAdds
<1>5. PICK head, rest : PartsOf(capture[s], text, now, head, rest)
  BY <1>4, RecordedParts
<1>6. /\ now.capture \in Captures /\ Size(now.capture.tail) <= TailBytes
      /\ now.sent \in Seq(Pieces)
      /\ Size(now.sent) = Size(head)
      /\ now.capture.headRoom = capture[s].headRoom - Size(head)
      /\ now.capture.held = capture[s].held + Size(rest)
      /\ Size(now.capture.tail) \in Nat
      /\ Size(now.capture.tail) <= Size(capture[s].tail) + Size(rest)
  BY <1>4, <1>5, PartsType
<1>7. Size(head) \in Nat /\ Size(rest) \in Nat
  BY <1>5 DEF PartsOf
<1>8. /\ capture' = [capture EXCEPT ![s] = now.capture] /\ capture' \in [Streams -> Captures]
      /\ chunks' \in Texts
      /\ \A t \in Streams \ {s} : chunks'[t] = chunks[t] /\ reader'[t] = reader[t]
      /\ Size(chunks'[s]) <= Size(chunks[s]) + Size(now.sent)
      /\ reader' \in [Streams -> {"reading", "ended", "aborted", "gone"}]
      /\ reader'[s] \in {"reading", "gone"}
  BY <1>1, <1>3, <1>6, Passed
<1>9. capture \in [Streams -> Captures] /\ taken \in [Streams -> Nat] /\ written \in [Streams -> Nat]
  BY <1>1 DEF ReaderTypes
<1>10. /\ capture'[s] = now.capture /\ taken'[s] = taken[s] + n
       /\ \A t \in Streams \ {s} : capture'[t] = capture[t] /\ taken'[t] = taken[t]
       /\ taken' \in [Streams -> Nat]
  BY <1>2, <1>8, <1>9
<1>11. UNCHANGED <<instance, written, holders, exited, child, terminating, finishing, attempt, rows,
                   faults, broken, cut>>
  BY <1>2 DEF command, monitor, trouble
<1>12. ReaderTypes'
  <2>1. \A t \in Streams : taken'[t] <= written[t] /\ written[t] <= Len(output[t])
    BY <1>1, <1>2, <1>10 DEF ReaderTypes
  <2>2. \A t \in Streams : /\ Size(capture'[t].tail) <= capture'[t].held
                           /\ Size(capture'[t].tail) <= TailBytes
    <3>1. Size(capture'[s].tail) <= capture'[s].held /\ Size(capture'[s].tail) <= TailBytes
      BY <1>4, <1>6, <1>7, <1>10
    <3> QED
      BY <1>1, <1>10, <3>1 DEF ReaderTypes
  <2> QED
    BY <1>1, <1>2, <1>8, <1>10, <1>11, <2>1, <2>2 DEF ReaderTypes, output
<1>13. MonitorTypes'
  BY <1>1, <1>11 DEF MonitorTypes
<1>14. OtherTypes'
  BY <1>1, <1>8, <1>11 DEF OtherTypes
<1>15. InBudget'
  <2> SUFFICES ASSUME NEW t \in Streams
               PROVE  Size(rows[t]) + Size(chunks'[t])
                        <= IF reader'[t] = "reading" THEN HeadBytes - capture'[t].headRoom
                           ELSE MaxStreamBytes
    BY <1>11 DEF InBudget
  <2>1. Size(rows[t]) + Size(chunks[t])
          <= IF reader[t] = "reading" THEN HeadBytes - capture[t].headRoom ELSE MaxStreamBytes
    BY <1>1 DEF InBudget
  <2>2. CASE t # s
    BY <1>8, <1>10, <2>1, <2>2
  <2>3. CASE t = s
    <3>1. Size(rows[s]) \in Nat /\ Size(chunks[s]) \in Nat /\ Size(chunks'[s]) \in Nat
      BY <1>1, <1>8, TextSizes DEF MonitorTypes, OtherTypes
    <3>2. Size(rows[s]) + Size(chunks'[s]) <= HeadBytes - capture'[s].headRoom
      <4> DEFINE r == Size(rows[s])
                 c == Size(chunks[s])
                 d == Size(chunks'[s])
                 h == Size(head)
                 room == capture[s].headRoom
                 left == capture'[s].headRoom
      <4>1. r \in Nat /\ c \in Nat /\ d \in Nat /\ h \in Nat /\ room \in Nat /\ HeadBytes \in Nat
        BY <1>4, <1>7, <3>1, Halves
      <4>2. r + c <= HeadBytes - room
        BY <1>2, <2>1, <2>3
      <4>3. left = room - h
        BY <1>6, <1>10
      <4>4. d <= c + h
        BY <1>6, <1>8
      <4> HIDE DEF r, c, d, h, room, left
      <4>5. r + d <= HeadBytes - left
        BY <4>1, <4>2, <4>3, <4>4
      <4> QED
        BY <4>5 DEF r, d, left
    <3>3. capture'[s].headRoom \in Nat
      BY <1>4, <1>6, <1>10, Halves DEF Captures
    <3> QED
      BY <2>3, <3>1, <3>2, <3>3, Halves
  <2> QED
    BY <2>2, <2>3
<1>16. (ReaderTypes /\ MonitorTypes /\ OtherTypes => Typed)'
  BY TypedParts, PTL
<1> QED
  BY <1>12, <1>13, <1>14, <1>15, <1>16 DEF BudgetInv

\* The end of a stream keeps them: the tail is the other half of the budget.
LEMMA EndKeepsBudget ==
  ASSUME BudgetInv, NEW s \in Streams, ReadToEnd(s)
  PROVE  BudgetInv'
<1>1. Typed /\ InBudget /\ ReaderTypes /\ MonitorTypes /\ OtherTypes
  BY TypedParts DEF BudgetInv
<1>2. PICK text \in Seq(Characters) : \E now \in Recorded(capture[s], text) :
        /\ reader[s] = "reading" /\ holders = {} /\ taken[s] = written[s]
        /\ carry' \in [Streams -> {<<>>, <<"lead">>}]
        /\ Pass(s, now.capture, now.sent \o FlushTail(now.capture), "ended")
        /\ UNCHANGED <<command, taken, monitor>>
  BY <1>1, EndTakes
<1>3. PICK now \in Recorded(capture[s], text) :
        Pass(s, now.capture, now.sent \o FlushTail(now.capture), "ended")
  BY <1>2
<1>4. /\ capture[s] \in Captures /\ Size(capture[s].tail) <= capture[s].held
      /\ capture[s].held \in Nat /\ Size(capture[s].tail) \in Nat
      /\ capture[s].headRoom \in Nat
  <2>1. capture[s] \in Captures /\ Size(capture[s].tail) <= capture[s].held
    BY <1>1 DEF ReaderTypes
  <2>2. capture[s].tail \in Seq(Characters) /\ capture[s].held \in Nat /\ capture[s].headRoom \in Nat
    BY <2>1, Halves DEF Captures
  <2> QED
    BY <2>1, <2>2, SizeAdds
<1>5. PICK head, rest : PartsOf(capture[s], text, now, head, rest)
  BY <1>4, RecordedParts
<1>6. /\ now.capture \in Captures /\ Size(now.capture.tail) <= TailBytes
      /\ now.sent \in Seq(Pieces)
      /\ Size(now.sent) = Size(head)
      /\ now.capture.headRoom = capture[s].headRoom - Size(head)
      /\ now.capture.held = capture[s].held + Size(rest)
      /\ Size(now.capture.tail) \in Nat
      /\ Size(now.capture.tail) <= Size(capture[s].tail) + Size(rest)
  BY <1>4, <1>5, PartsType
<1>7. Size(head) \in Nat /\ Size(rest) \in Nat
  BY <1>5 DEF PartsOf
<1> DEFINE sent == now.sent \o FlushTail(now.capture)
<1>8. sent \in Seq(Pieces) /\ Size(sent) = Size(head) + Size(now.capture.tail)
  <2>1. Size(now.capture.tail) <= now.capture.held
    BY <1>4, <1>6, <1>7
  <2>2. /\ FlushTail(now.capture) \in Seq(Pieces)
        /\ Size(FlushTail(now.capture)) = Size(now.capture.tail)
    BY <1>6, <2>1, Flushed
  <2> QED
    BY <1>6, <2>2, SizeAdds, Joined
<1>9. Pass(s, now.capture, sent, "ended")
  BY <1>3
<1> HIDE DEF sent
<1>10. /\ capture' = [capture EXCEPT ![s] = now.capture] /\ capture' \in [Streams -> Captures]
       /\ chunks' \in Texts
       /\ \A t \in Streams \ {s} : chunks'[t] = chunks[t] /\ reader'[t] = reader[t]
       /\ Size(chunks'[s]) <= Size(chunks[s]) + Size(sent)
       /\ reader' \in [Streams -> {"reading", "ended", "aborted", "gone"}]
       /\ reader'[s] \in {"ended", "gone"}
  BY <1>1, <1>6, <1>8, <1>9, Passed
<1>11. capture \in [Streams -> Captures]
  BY <1>1 DEF ReaderTypes
<1>12. /\ capture'[s] = now.capture
       /\ \A t \in Streams \ {s} : capture'[t] = capture[t]
  BY <1>10, <1>11
<1>13. UNCHANGED <<instance, written, taken, holders, exited, child, terminating, finishing, attempt,
                   rows, faults, broken, cut>>
  BY <1>2 DEF command, monitor, trouble
<1>14. ReaderTypes'
  <2>1. \A t \in Streams : /\ Size(capture'[t].tail) <= capture'[t].held
                           /\ Size(capture'[t].tail) <= TailBytes
    <3>1. Size(capture'[s].tail) <= capture'[s].held /\ Size(capture'[s].tail) <= TailBytes
      BY <1>4, <1>6, <1>7, <1>12
    <3> QED
      BY <1>1, <1>12, <3>1 DEF ReaderTypes
  <2> QED
    BY <1>1, <1>2, <1>10, <1>13, <2>1 DEF ReaderTypes, output
<1>15. MonitorTypes'
  BY <1>1, <1>13 DEF MonitorTypes
<1>16. OtherTypes'
  BY <1>1, <1>10, <1>13 DEF OtherTypes
<1>17. InBudget'
  <2> SUFFICES ASSUME NEW t \in Streams
               PROVE  Size(rows[t]) + Size(chunks'[t])
                        <= IF reader'[t] = "reading" THEN HeadBytes - capture'[t].headRoom
                           ELSE MaxStreamBytes
    BY <1>13 DEF InBudget
  <2>1. Size(rows[t]) + Size(chunks[t])
          <= IF reader[t] = "reading" THEN HeadBytes - capture[t].headRoom ELSE MaxStreamBytes
    BY <1>1 DEF InBudget
  <2>2. CASE t # s
    BY <1>10, <1>12, <2>1, <2>2
  <2>3. CASE t = s
    <3>1. Size(rows[s]) \in Nat /\ Size(chunks[s]) \in Nat /\ Size(chunks'[s]) \in Nat
      BY <1>1, <1>10, TextSizes DEF MonitorTypes, OtherTypes
    <3>2. Size(head) <= capture[s].headRoom
      BY <1>5 DEF PartsOf
    <3>3. Size(rows[s]) + Size(chunks'[s]) <= MaxStreamBytes
      <4> DEFINE r == Size(rows[s])
                 c == Size(chunks[s])
                 d == Size(chunks'[s])
                 h == Size(head)
                 tail == Size(now.capture.tail)
                 room == capture[s].headRoom
      <4>1. /\ r \in Nat /\ c \in Nat /\ d \in Nat /\ h \in Nat /\ tail \in Nat /\ room \in Nat
            /\ HeadBytes \in Nat /\ TailBytes \in Nat /\ HeadBytes + TailBytes = MaxStreamBytes
        BY <1>4, <1>6, <1>7, <3>1, Halves
      <4>2. r + c <= HeadBytes - room
        BY <1>2, <2>1, <2>3
      <4>3. h <= room /\ tail <= TailBytes
        BY <1>6, <3>2
      <4>4. d <= c + (h + tail)
        BY <1>8, <1>10
      <4> HIDE DEF r, c, d, h, tail, room
      <4>5. r + d <= MaxStreamBytes
        BY <4>1, <4>2, <4>3, <4>4
      <4> QED
        BY <4>5 DEF r, d
    <3> QED
      BY <1>10, <2>3, <3>3
  <2> QED
    BY <2>2, <2>3
<1>18. (ReaderTypes /\ MonitorTypes /\ OtherTypes => Typed)'
  BY TypedParts, PTL
<1> QED
  BY <1>14, <1>15, <1>16, <1>17, <1>18 DEF BudgetInv

-----------------------------------------------------------------------------
(* The monitor.                                                            *)

\* What the rows and the channel hold, one after the other, gains at most a note.
Noticed(s) ==
  \E note \in {<<>>, <<Note>>} : rows'[s] \o chunks'[s] = rows[s] \o (note \o chunks[s])

\* The output moved from the channel to the rows: nothing is added to the two, and
\* nothing lost but with a fault.
Moved ==
  /\ rows' \in Texts /\ chunks' \in Texts /\ faults' \in Nat /\ broken' \in BOOLEAN
  /\ \A s \in Streams : Size(rows'[s]) + Size(chunks'[s]) <= Size(rows[s]) + Size(chunks[s])
  /\ broken => broken'
  /\ ~broken' => \A s \in Streams : Noticed(s)

\* Texts in a row, and nothing beside one.
LEMMA Beside ==
  ASSUME NEW a \in Seq(Pieces), NEW b \in Seq(Pieces)
  PROVE  /\ <<>> \in Seq(Pieces) /\ <<Note>> \in Seq(Pieces)
         /\ a \o <<>> = a /\ <<>> \o a = a /\ a \o b \in Seq(Pieces)
         /\ Size(a \o b) = Size(a) + Size(b) /\ Size(a) \in Nat /\ Size(b) \in Nat
         /\ Size(<<>>) = 0 /\ Size(<<Note>>) = 0
BY EmptySeq, PiecesDiffer, ConcatEmptySeq, SizeAdds, Joined, SizeOfOne

\* The channel is emptied into the rows, with a note or without.
LEMMA Drained ==
  ASSUME Typed, NEW text \in {chunks, Noted(chunks)}, NEW landed, InsertOutput(text, landed),
         chunks' = NoText
  PROVE  Moved
<1>1. rows \in Texts /\ chunks \in Texts /\ MonitorTypes
  BY TypedParts DEF Typed
<1>2. text \in Texts /\ \A s \in Streams : Size(text[s]) = Size(chunks[s])
  BY <1>1, NotedText
<1>3. /\ rows' \in Texts /\ faults' \in Nat /\ broken' \in BOOLEAN
      /\ \A s \in Streams : Size(rows'[s]) <= Size(rows[s]) + Size(text[s])
      /\ ~broken' => ~broken /\ \A s \in Streams : rows'[s] = rows[s] \o text[s]
  BY <1>1, <1>2, Inserted
<1>4. chunks' \in Texts /\ \A s \in Streams : chunks'[s] = <<>> /\ Size(chunks'[s]) = 0
  BY NotedText DEF NoText
<1>5. ASSUME NEW s \in Streams PROVE Size(rows'[s]) + Size(chunks'[s]) <= Size(rows[s]) + Size(chunks[s])
  <2>1. Size(rows'[s]) \in Nat /\ Size(rows[s]) \in Nat /\ Size(chunks[s]) \in Nat
    BY <1>1, <1>3, TextSizes
  <2> QED
    BY <1>2, <1>3, <1>4, <2>1
<1>6. ASSUME ~broken', NEW s \in Streams PROVE Noticed(s)
  <2>1. rows[s] \in Seq(Pieces) /\ chunks[s] \in Seq(Pieces) /\ text[s] \in Seq(Pieces)
    BY <1>1, <1>2, TextSizes
  <2>2. rows'[s] = rows[s] \o text[s] /\ rows'[s] \in Seq(Pieces)
    BY <1>3, <1>6, TextSizes
  <2>3. rows'[s] \o chunks'[s] = rows[s] \o text[s]
    BY <1>4, <2>2, Beside
  <2>4. text[s] = chunks[s] \/ text[s] = <<Note>> \o chunks[s]
    BY DEF Noted
  <2>5. \E note \in {<<>>, <<Note>>} : text[s] = note \o chunks[s]
    <3>1. <<>> \o chunks[s] = chunks[s]
      BY <2>1, Beside
    <3> QED
      BY <2>4, <3>1
  <2> QED
    BY <2>3, <2>5 DEF Noticed
<1> QED
  BY <1>3, <1>4, <1>5, <1>6 DEF Moved

\* Or a note goes ahead of what the channel has.
LEMMA NotedAhead ==
  ASSUME Typed, NEW text \in {NoText, Noted(NoText)}, NEW landed, InsertOutput(text, landed),
         chunks' = chunks
  PROVE  Moved
<1>1. rows \in Texts /\ chunks \in Texts /\ MonitorTypes
  BY TypedParts DEF Typed
<1>2. text \in Texts /\ \A s \in Streams : Size(text[s]) = 0
  BY <1>1, NotedText
<1>3. /\ rows' \in Texts /\ faults' \in Nat /\ broken' \in BOOLEAN
      /\ \A s \in Streams : Size(rows'[s]) <= Size(rows[s]) + Size(text[s])
      /\ ~broken' => ~broken /\ \A s \in Streams : rows'[s] = rows[s] \o text[s]
  BY <1>1, <1>2, Inserted
<1>4. ASSUME NEW s \in Streams PROVE Size(rows'[s]) + Size(chunks'[s]) <= Size(rows[s]) + Size(chunks[s])
  <2>1. Size(rows'[s]) \in Nat /\ Size(rows[s]) \in Nat /\ Size(chunks[s]) \in Nat
    BY <1>1, <1>3, TextSizes
  <2>2. Size(rows'[s]) <= Size(rows[s]) + 0
    BY <1>2, <1>3
  <2> QED
    BY <2>1, <2>2
<1>5. ASSUME ~broken', NEW s \in Streams PROVE Noticed(s)
  <2>1. rows[s] \in Seq(Pieces) /\ chunks[s] \in Seq(Pieces) /\ text[s] \in Seq(Pieces)
    BY <1>1, <1>2, TextSizes
  <2>2. rows'[s] \o chunks'[s] = (rows[s] \o text[s]) \o chunks[s]
    BY <1>3, <1>5
  <2>3. (rows[s] \o text[s]) \o chunks[s] = rows[s] \o (text[s] \o chunks[s])
    <3> DEFINE u == rows[s]
               v == text[s]
               w == chunks[s]
    <3>1. u \in Seq(Pieces) /\ v \in Seq(Pieces) /\ w \in Seq(Pieces)
      BY <2>1
    <3> HIDE DEF u, v, w
    <3>2. (u \o v) \o w = u \o (v \o w)
      BY <3>1, Regrouped
    <3> QED
      BY <3>2 DEF u, v, w
  <2>4. text[s] \in {<<>>, <<Note>>}
    <3>1. <<Note>> \o <<>> = <<Note>>
      BY <2>1, Beside
    <3> QED
      BY <3>1 DEF Noted, NoText
  <2> QED
    BY <2>2, <2>3, <2>4 DEF Noticed
<1> QED
  BY <1>1, <1>3, <1>4, <1>5 DEF Moved

\* Or nothing moves.
LEMMA Unmoved ==
  ASSUME Typed, UNCHANGED <<rows, chunks, faults, broken>>
  PROVE  Moved
<1>1. rows \in Texts /\ chunks \in Texts /\ MonitorTypes
  BY TypedParts DEF Typed
<1>2. ASSUME NEW s \in Streams PROVE Noticed(s)
  <2>1. rows[s] \in Seq(Pieces) /\ chunks[s] \in Seq(Pieces)
    BY <1>1, TextSizes
  <2>2. rows'[s] \o chunks'[s] = rows[s] \o (<<>> \o chunks[s])
    BY <2>1, Beside
  <2> QED
    BY <2>2 DEF Noticed
<1>3. ASSUME NEW s \in Streams PROVE Size(rows'[s]) + Size(chunks'[s]) <= Size(rows[s]) + Size(chunks[s])
  <2>1. Size(rows[s]) \in Nat /\ Size(chunks[s]) \in Nat
    BY <1>1, TextSizes
  <2> QED
    BY <2>1
<1>4. faults' \in Nat /\ broken' \in BOOLEAN /\ (broken => broken')
  BY <1>1, Zenon DEF MonitorTypes
<1> QED
  BY <1>1, <1>2, <1>3, <1>4 DEF Moved

\* Or the channel is dropped with a fault.
LEMMA Dropped ==
  ASSUME Typed, Fault, rows' = rows, chunks' = NoText
  PROVE  Moved
<1>1. rows \in Texts /\ chunks \in Texts /\ faults \in Nat
  BY DEF Typed, TypeOK
<1>2. chunks' \in Texts /\ \A s \in Streams : Size(chunks'[s]) = 0
  BY NotedText
<1>3. ASSUME NEW s \in Streams PROVE Size(rows'[s]) + Size(chunks'[s]) <= Size(rows[s]) + Size(chunks[s])
  <2>1. Size(rows[s]) \in Nat /\ Size(chunks[s]) \in Nat
    BY <1>1, TextSizes
  <2> QED
    BY <1>2, <2>1
<1>4. broken' /\ faults' \in Nat
  BY <1>1 DEF Fault
<1> QED
  BY <1>1, <1>2, <1>3, <1>4 DEF Moved

\* What any step of the monitor does with the rest: it reads nothing itself, a reader
\* only stops where it is given up or the server dies, and an attempt ends with its
\* readers closed and all they sent inserted.
Whole == (attempt = "Running" => child) /\ (Ended => Closed /\ chunks = NoText)
Handled ==
  /\ UNCHANGED <<instance, written, taken, carry, capture>>
  /\ Moved /\ MonitorTypes' /\ OtherTypes'
  /\ reader' \in [Streams -> {"reading", "ended", "aborted", "gone"}]
  /\ \A s \in Streams : reader'[s] # reader[s] => /\ reader[s] = "reading" /\ reader'[s] # "reading"
                                                  /\ broken' \/ cut'
  /\ cut => cut'
  /\ Ended => rows' = rows
  /\ ~broken' /\ ~cut' /\ Whole => Whole'

\* A pass that decides nothing.
LEMMA RecordOutputHandles == ASSUME Typed, RecordOutput PROVE Handled
<1>1. ReaderTypes /\ MonitorTypes /\ OtherTypes
  BY TypedParts
<1>2. /\ attempt = "Running" /\ child /\ finishing = "None"
      /\ chunks' = NoText /\ UNCHANGED <<child, terminating, finishing, attempt, cut>>
      /\ UNCHANGED <<instance, written, holders, exited, taken, reader, carry, capture>>
  BY DEF RecordOutput, InPass, command, readers
<1>3. PICK landed : InsertOutput(chunks, landed)
  BY DEF RecordOutput
<1>4. Moved
  BY <1>2, <1>3, Drained
<1>5. MonitorTypes' /\ OtherTypes'
  BY <1>1, <1>2, <1>4 DEF MonitorTypes, OtherTypes, Moved
<1>6. ~Ended /\ Whole'
  BY <1>2 DEF Ended, FinishedAttempt, Whole
<1> QED
  BY <1>1, <1>2, <1>4, <1>5, <1>6 DEF Handled, ReaderTypes

\* A command that exited.
LEMMA BeginFinishingHandles == ASSUME Typed, BeginFinishing PROVE Handled
<1>1. ReaderTypes /\ MonitorTypes /\ OtherTypes
  BY TypedParts
<1>2. /\ attempt = "Running" /\ child /\ finishing' \in {"Succeeded", "Failed"}
      /\ UNCHANGED <<chunks, child, terminating, attempt, rows, faults, broken, cut>>
      /\ UNCHANGED <<instance, written, holders, exited, taken, reader, carry, capture>>
  BY DEF BeginFinishing, InPass, command, readers, trouble
<1>3. Moved
  BY <1>2, Unmoved
<1>4. MonitorTypes' /\ OtherTypes'
  BY <1>1, <1>2 DEF MonitorTypes, OtherTypes, FinishedAttempt
<1>5. ~Ended /\ Whole'
  BY <1>2 DEF Ended, FinishedAttempt, Whole
<1> QED
  BY <1>1, <1>2, <1>3, <1>4, <1>5 DEF Handled, ReaderTypes

\* A command that is asked to exit, or killed.
LEMMA BeginTerminationHandles ==
  ASSUME Typed, NEW status \in {"TimedOut", "Aborted"}, BeginTermination(status) PROVE Handled
<1>1. ReaderTypes /\ MonitorTypes /\ OtherTypes
  BY TypedParts
<1>2. /\ attempt = "Running" /\ child
      /\ UNCHANGED <<instance, written, taken, reader, carry, capture, child, attempt, cut>>
  BY DEF BeginTermination, InPass, readers
<1>3. ~Ended /\ Whole'
  BY <1>2 DEF Ended, FinishedAttempt, Whole
<1>4. CASE instance.killGrace
  <2>1. /\ terminating' = status /\ chunks' = NoText /\ UNCHANGED <<holders, exited, finishing>>
        /\ \E landed : InsertOutput(IF status = "TimedOut" THEN Noted(chunks) ELSE chunks, landed)
    BY <1>4 DEF BeginTermination
  <2>2. Moved
    BY <2>1, Drained
  <2>3. MonitorTypes' /\ OtherTypes'
    BY <1>1, <1>2, <2>1, <2>2 DEF MonitorTypes, OtherTypes, Moved
  <2> QED
    BY <1>1, <1>2, <1>3, <2>2, <2>3 DEF Handled, ReaderTypes
<1>5. CASE ~instance.killGrace
  <2>1. /\ finishing' = status /\ Kill /\ UNCHANGED <<terminating, chunks>>
        /\ InsertOutput(IF status = "TimedOut" THEN Noted(NoText) ELSE NoText, Streams)
    BY <1>5 DEF BeginTermination
  <2>2. Moved
    BY <2>1, NotedAhead
  <2>3. MonitorTypes' /\ OtherTypes'
    BY <1>1, <1>2, <2>1, <2>2 DEF MonitorTypes, OtherTypes, Moved, Kill, FinishedAttempt
  <2> QED
    BY <1>1, <1>2, <1>3, <2>2, <2>3 DEF Handled, ReaderTypes
<1> QED
  BY <1>4, <1>5

\* A note that cannot be inserted.
LEMMA NoteFailsHandles == ASSUME Typed, NoteFails PROVE Handled
<1>1. ReaderTypes /\ MonitorTypes /\ OtherTypes
  BY TypedParts
<1>2. /\ attempt = "Running" /\ finishing = "None" /\ Fault /\ child' = FALSE /\ chunks' = NoText
      /\ UNCHANGED <<terminating, finishing, attempt, rows, cut>>
      /\ UNCHANGED <<instance, written, holders, exited, taken, reader, carry, capture>>
  BY DEF NoteFails, InPass, command, readers
<1>3. Moved /\ broken'
  BY <1>2, Dropped DEF Fault
<1>4. MonitorTypes' /\ OtherTypes'
  BY <1>1, <1>2, <1>3 DEF MonitorTypes, OtherTypes, Moved
<1>5. ~Ended
  BY <1>2 DEF Ended, FinishedAttempt
<1> QED
  BY <1>1, <1>2, <1>3, <1>4, <1>5 DEF Handled, ReaderTypes

\* The end of a termination.
LEMMA FinishTerminationHandles == ASSUME Typed, FinishTermination PROVE Handled
<1>1. ReaderTypes /\ MonitorTypes /\ OtherTypes
  BY TypedParts
<1>2. /\ attempt = "Running" /\ child /\ terminating # "None" /\ finishing' = terminating /\ Kill
      /\ UNCHANGED <<chunks, child, terminating, attempt, rows, faults, broken, cut>>
      /\ UNCHANGED <<instance, written, taken, reader, carry, capture>>
  BY DEF FinishTermination, InPass, readers, trouble
<1>3. Moved
  BY <1>2, Unmoved
<1>4. MonitorTypes' /\ OtherTypes'
  BY <1>1, <1>2 DEF MonitorTypes, OtherTypes, FinishedAttempt, Kill
<1>5. ~Ended /\ Whole'
  BY <1>2 DEF Ended, FinishedAttempt, Whole
<1> QED
  BY <1>1, <1>2, <1>3, <1>4, <1>5 DEF Handled, ReaderTypes

\* What settling leaves behind.
LEMMA Settled ==
  ASSUME Typed, NEW status \in FinishedAttempt, finishing # "None", Settle(status)
  PROVE  /\ Moved /\ ~Ended /\ child' = FALSE /\ finishing' = "None" /\ chunks' = NoText
         /\ attempt' \in {"Running", status} /\ (~broken' => attempt' = status)
<1>1. attempt = "Running"
  BY DEF Typed
<1>2. PICK text \in {chunks, Noted(chunks)} : \E landed :
        InsertOutput(text, landed) /\ attempt' = IF landed = Streams THEN status ELSE attempt
  BY DEF Settle
<1>3. PICK landed :
        InsertOutput(text, landed) /\ attempt' = IF landed = Streams THEN status ELSE attempt
  BY <1>2
<1>4. child' = FALSE /\ finishing' = "None" /\ chunks' = NoText
  BY DEF Settle
<1>5. Moved
  BY <1>3, <1>4, Drained
<1>6. landed # Streams => broken'
  BY <1>3 DEF InsertOutput, Fault
<1> QED
  BY <1>1, <1>3, <1>4, <1>5, <1>6 DEF Ended, FinishedAttempt

\* The wait ends with both readers at their end.
LEMMA FinishReadingHandles ==
  ASSUME Typed, NEW status \in FinishedAttempt, FinishReading(status) PROVE Handled
<1>1. ReaderTypes /\ MonitorTypes /\ OtherTypes
  BY TypedParts
<1>2. /\ finishing # "None" /\ Closed /\ Settle(status)
      /\ UNCHANGED <<terminating, cut>>
      /\ UNCHANGED <<instance, written, holders, exited, taken, reader, carry, capture>>
  BY DEF FinishReading, command, readers
<1>3. /\ Moved /\ ~Ended /\ child' = FALSE /\ finishing' = "None" /\ chunks' = NoText
      /\ attempt' \in {"Running", status} /\ (~broken' => attempt' = status)
  BY <1>2, Settled
<1>4. MonitorTypes' /\ OtherTypes'
  BY <1>1, <1>2, <1>3 DEF MonitorTypes, OtherTypes, Moved, FinishedAttempt
<1>5. ~broken' => Whole'
  BY <1>2, <1>3 DEF Whole, Closed, Ended, FinishedAttempt
<1> QED
  BY <1>1, <1>2, <1>3, <1>4, <1>5 DEF Handled, ReaderTypes

\* Or it is given up.
LEMMA GiveUpReadingHandles ==
  ASSUME Typed, NEW status \in FinishedAttempt, GiveUpReading(status) PROVE Handled
<1>1. ReaderTypes /\ MonitorTypes /\ OtherTypes
  BY TypedParts
<1>2. /\ finishing # "None" /\ Settle(status) /\ cut' = TRUE
      /\ reader' = [s \in Streams |-> IF reader[s] = "reading" THEN "aborted" ELSE reader[s]]
      /\ UNCHANGED <<instance, written, holders, exited, taken, carry, capture, terminating>>
  BY DEF GiveUpReading, command
<1>3. /\ Moved /\ ~Ended /\ child' = FALSE /\ finishing' = "None" /\ chunks' = NoText
      /\ attempt' \in {"Running", status} /\ (~broken' => attempt' = status)
  BY <1>2, Settled
<1>4. MonitorTypes' /\ OtherTypes'
  BY <1>1, <1>2, <1>3 DEF MonitorTypes, OtherTypes, Moved, FinishedAttempt
<1>5. /\ reader' \in [Streams -> {"reading", "ended", "aborted", "gone"}]
      /\ \A s \in Streams : reader'[s] # reader[s] => reader[s] = "reading" /\ reader'[s] # "reading"
  BY <1>1, <1>2 DEF ReaderTypes
<1> QED
  BY <1>2, <1>3, <1>4, <1>5 DEF Handled

\* No process is held.
LEMMA SetToInvalidHandles == ASSUME Typed, SetToInvalid PROVE Handled
<1>1. ReaderTypes /\ MonitorTypes /\ OtherTypes
  BY TypedParts
<1>2. /\ attempt = "Running" /\ ~child /\ attempt' = "Invalid"
      /\ UNCHANGED <<chunks, child, terminating, finishing, rows, faults, broken, cut>>
      /\ UNCHANGED <<instance, written, holders, exited, taken, reader, carry, capture>>
  BY DEF SetToInvalid, command, readers, trouble
<1>3. Moved
  BY <1>2, Unmoved
<1>4. ~Ended /\ ~Whole
  BY <1>2 DEF Ended, FinishedAttempt, Whole
<1>5. MonitorTypes' /\ OtherTypes'
  BY <1>1, <1>2 DEF MonitorTypes, OtherTypes, FinishedAttempt
<1> QED
  BY <1>1, <1>2, <1>3, <1>4, <1>5 DEF Handled, ReaderTypes

\* The server dies.
LEMMA CrashHandles == ASSUME Typed, Crash PROVE Handled
<1>1. ReaderTypes /\ MonitorTypes /\ OtherTypes
  BY TypedParts
<1>2. /\ attempt = "Running" /\ Fault /\ child' = FALSE /\ finishing' = "None"
      /\ terminating' = "None" /\ chunks' = NoText
      /\ reader' = [s \in Streams |-> IF reader[s] = "reading" THEN "gone" ELSE reader[s]]
      /\ UNCHANGED <<instance, written, holders, exited, taken, carry, capture, attempt, rows, cut>>
  BY DEF Crash, command
<1>3. Moved /\ broken'
  BY <1>2, Dropped DEF Fault
<1>4. MonitorTypes' /\ OtherTypes'
  BY <1>1, <1>2, <1>3 DEF MonitorTypes, OtherTypes, Moved
<1>5. /\ reader' \in [Streams -> {"reading", "ended", "aborted", "gone"}]
      /\ \A s \in Streams : reader'[s] # reader[s] => reader[s] = "reading" /\ reader'[s] # "reading"
  BY <1>1, <1>2 DEF ReaderTypes
<1>6. ~Ended
  BY <1>2 DEF Ended, FinishedAttempt
<1> QED
  BY <1>2, <1>3, <1>4, <1>5, <1>6 DEF Handled

\* Every step is one of the command, of a reader or of the monitor.
LEMMA StepsAre ==
  ASSUME Typed, [Next]_vars
  PROVE  \/ Handled
         \/ \E s \in Streams : Write(s) \/ Read(s) \/ ReadToEnd(s)
         \/ \E p \in Processes : Exit(p)
         \/ UNCHANGED vars
<1>1. CASE \E s \in Streams : Write(s) \/ ReaderStep(s)
  BY <1>1 DEF ReaderStep
<1>2. CASE SettleStep
  BY <1>2, SetToInvalidHandles, BeginFinishingHandles, FinishTerminationHandles,
     FinishReadingHandles, GiveUpReadingHandles DEF SettleStep
<1>3. CASE RecordOutput \/ NoteFails \/ Crash
  BY <1>3, RecordOutputHandles, NoteFailsHandles, CrashHandles
<1>4. CASE \E status \in {"TimedOut", "Aborted"} : BeginTermination(status)
  BY <1>4, BeginTerminationHandles
<1>5. CASE \E p \in Processes : Exit(p)
  BY <1>5
<1>6. CASE UNCHANGED vars
  BY <1>6
<1> QED
  BY <1>1, <1>2, <1>3, <1>4, <1>5, <1>6 DEF Next

\* What the monitor does keeps the types and the budget.
LEMMA HandledKeepsBudget ==
  ASSUME BudgetInv, Handled
  PROVE  BudgetInv'
<1>1. Typed /\ InBudget /\ ReaderTypes /\ MonitorTypes /\ OtherTypes
  BY TypedParts DEF BudgetInv
<1>2. /\ UNCHANGED <<instance, written, taken, carry, capture>>
      /\ MonitorTypes' /\ OtherTypes'
      /\ reader' \in [Streams -> {"reading", "ended", "aborted", "gone"}]
      /\ \A s \in Streams : reader'[s] # reader[s] => reader[s] = "reading" /\ reader'[s] # "reading"
      /\ \A s \in Streams : Size(rows'[s]) + Size(chunks'[s]) <= Size(rows[s]) + Size(chunks[s])
  BY DEF Handled, Moved
<1>3. ReaderTypes'
  BY <1>1, <1>2 DEF ReaderTypes, output
<1>4. InBudget'
  <2> SUFFICES ASSUME NEW s \in Streams
               PROVE  Size(rows'[s]) + Size(chunks'[s])
                        <= IF reader'[s] = "reading" THEN HeadBytes - capture'[s].headRoom
                           ELSE MaxStreamBytes
    BY DEF InBudget
  <2> DEFINE was == Size(rows[s]) + Size(chunks[s])
             is == Size(rows'[s]) + Size(chunks'[s])
             room == capture[s].headRoom
  <2>1. was \in Nat /\ is \in Nat
    BY <1>1, <1>2, TextSizes DEF MonitorTypes, OtherTypes
  <2>2. is <= was /\ was <= IF reader[s] = "reading" THEN HeadBytes - room ELSE MaxStreamBytes
    BY <1>1, <1>2 DEF InBudget
  <2>3. room \in Nat /\ room <= HeadBytes
    BY <1>1, Halves DEF ReaderTypes, Captures
  <2>4. capture'[s].headRoom = room
    BY <1>2
  <2> HIDE DEF was, is, room
  <2>5. is <= IF reader'[s] = "reading" THEN HeadBytes - room ELSE MaxStreamBytes
    BY <1>2, <2>1, <2>2, <2>3, Halves
  <2> QED
    BY <2>4, <2>5 DEF is
<1>5. (ReaderTypes /\ MonitorTypes /\ OtherTypes => Typed)'
  BY TypedParts, PTL
<1> QED
  BY <1>2, <1>3, <1>4, <1>5 DEF BudgetInv

\* So does the command, which only writes and exits.
LEMMA CommandKeepsBudget ==
  ASSUME BudgetInv, (\E s \in Streams : Write(s)) \/ (\E p \in Processes : Exit(p))
  PROVE  BudgetInv'
<1>1. Typed /\ InBudget /\ ReaderTypes /\ MonitorTypes /\ OtherTypes
  BY TypedParts DEF BudgetInv
<1>2. /\ UNCHANGED <<instance, taken, reader, carry, capture, chunks, child, terminating, finishing,
                     attempt, rows, faults, broken, cut>>
      /\ written' \in [Streams -> Nat]
      /\ \A s \in Streams : written[s] <= written'[s] /\ written'[s] <= Len(output[s])
      /\ holders' \subseteq Processes /\ exited' \in {"none", "zero", "nonzero", "signal"}
  <2>1. ASSUME NEW s \in Streams, Write(s) PROVE <1>2
    <3>1. /\ UNCHANGED <<instance, holders, exited, chunks, taken, reader, carry, capture>>
          /\ UNCHANGED <<child, terminating, finishing, attempt, rows, faults, broken, cut>>
          /\ written' = [written EXCEPT ![s] = @ + 1] /\ written[s] < Len(output[s])
      BY <2>1 DEF Write, readers, monitor, trouble
    <3>2. /\ written \in [Streams -> Nat]
          /\ \A t \in Streams : written[t] <= Len(output[t]) /\ Len(output[t]) \in Nat
          /\ holders \subseteq Processes /\ exited \in {"none", "zero", "nonzero", "signal"}
      BY <1>1, StreamBytes DEF ReaderTypes, OtherTypes
    <3> HIDE DEF output
    <3> QED
      BY <3>1, <3>2
  <2>2. ASSUME NEW p \in Processes, Exit(p) PROVE <1>2
    <3>1. /\ UNCHANGED <<instance, written, chunks, taken, reader, carry, capture>>
          /\ UNCHANGED <<child, terminating, finishing, attempt, rows, faults, broken, cut>>
          /\ holders' = holders \ {p}
          /\ exited' \in {exited, "signal", "zero", "nonzero"}
      BY <2>2 DEF Exit, readers, monitor, trouble
    <3>2. /\ written \in [Streams -> Nat] /\ \A t \in Streams : written[t] <= Len(output[t])
          /\ holders \subseteq Processes /\ exited \in {"none", "zero", "nonzero", "signal"}
      BY <1>1 DEF ReaderTypes, OtherTypes
    <3> HIDE DEF output
    <3> QED
      BY <3>1, <3>2
  <2> QED
    BY <2>1, <2>2
<1>3. ReaderTypes'
  <2>1. \A s \in Streams : taken'[s] <= written'[s] /\ written'[s] <= Len(output'[s])
    <3>1. output' = output
      BY <1>2 DEF output
    <3>2. \A s \in Streams : taken[s] <= written[s] /\ taken[s] \in Nat /\ written[s] \in Nat
      BY <1>1 DEF ReaderTypes
    <3> HIDE DEF output
    <3> QED
      BY <1>2, <3>1, <3>2
  <2> QED
    BY <1>1, <1>2, <2>1 DEF ReaderTypes, output
<1>4. MonitorTypes' /\ OtherTypes' /\ InBudget'
  BY <1>1, <1>2 DEF MonitorTypes, OtherTypes, InBudget
<1>5. (ReaderTypes /\ MonitorTypes /\ OtherTypes => Typed)'
  BY TypedParts, PTL
<1> QED
  BY <1>3, <1>4, <1>5 DEF BudgetInv

\* A command that has written nothing is within its budget.
LEMMA InitBudget ==
  ASSUME Init
  PROVE  BudgetInv
<1>1. NewCapture \in Captures /\ Size(NewCapture.tail) = 0 /\ NewCapture.held = 0
      /\ NewCapture.headRoom = HeadBytes
  BY Halves, SizeOfOne, EmptySeq DEF NewCapture, Captures
<1>2. NoText \in Texts /\ \A s \in Streams : Size(NoText[s]) = 0
  BY NotedText
<1>3. /\ instance.processes \subseteq Processes /\ instance.faults \in Nat
      /\ \A s \in Streams : Len(output[s]) \in Nat
  BY CaptureAssumption DEF Init, output
<1>4. ReaderTypes
  <2> HIDE DEF output
  <2> QED
    BY <1>1, <1>3, Halves DEF ReaderTypes, Init
<1>5. MonitorTypes
  BY <1>2, <1>3 DEF MonitorTypes, Init
<1>6. OtherTypes
  BY <1>2, <1>3 DEF OtherTypes, Init
<1>7. InBudget
  BY <1>1, <1>2, Halves DEF InBudget, Init
<1> QED
  BY <1>4, <1>5, <1>6, <1>7, TypedParts DEF BudgetInv

\* The types and the budget are an invariant.
LEMMA BudgetHolds == Spec => []BudgetInv
<1>1. Init => BudgetInv
  BY InitBudget
<1>2. BudgetInv /\ [Next]_vars => BudgetInv'
  <2> SUFFICES ASSUME BudgetInv, [Next]_vars PROVE BudgetInv'
    OBVIOUS
  <2>1. Typed
    BY DEF BudgetInv
  <2>2. CASE UNCHANGED vars
    BY <2>2 DEF BudgetInv, InBudget, Typed, TypeOK, vars, command, readers, output
  <2>3. CASE Handled
    BY <2>3, HandledKeepsBudget
  <2>4. CASE \E s \in Streams : Write(s) \/ Read(s) \/ ReadToEnd(s)
    BY <2>4, CommandKeepsBudget, ReadKeepsBudget, EndKeepsBudget
  <2>5. CASE \E p \in Processes : Exit(p)
    BY <2>5, CommandKeepsBudget
  <2> QED
    BY <2>1, <2>2, <2>3, <2>4, <2>5, StepsAre
<1> QED
  BY <1>1, <1>2, PTL DEF Spec

\* Every read, pass, fault and exit keeps the types: no reader is ahead of its pipe, no
\* tail is longer than its half of the budget, and only a held, Running attempt waits
\* for its readers.
THEOREM CaptureKeepsItsTypes == Spec => []TypeOK
<1>1. BudgetInv => TypeOK
  BY DEF BudgetInv, Typed
<1> QED
  BY <1>1, BudgetHolds, PTL

\* No step after an attempt has settled inserts output, neither a late read nor a retry
\* of the monitor: finish_task_run_attempt comes after the last insert.
THEOREM OutputIsFinal == Spec => SettledOutputIsFinal
<1>1. BudgetInv /\ [Next]_vars => [Ended => rows' = rows]_vars
  <2> SUFFICES ASSUME BudgetInv, [Next]_vars, Ended PROVE rows' = rows
    OBVIOUS
  <2>1. Typed
    BY DEF BudgetInv
  <2>2. CASE UNCHANGED vars
    BY <2>2 DEF vars
  <2>3. CASE Handled
    BY <2>3 DEF Handled
  <2>4. CASE \E s \in Streams : Write(s) \/ Read(s) \/ ReadToEnd(s)
    BY <2>4 DEF Write, Read, ReadToEnd, monitor
  <2>5. CASE \E p \in Processes : Exit(p)
    BY <2>5 DEF Exit, monitor
  <2> QED
    BY <2>1, <2>2, <2>3, <2>4, <2>5, StepsAre
<1> QED
  BY <1>1, BudgetHolds, PTL DEF Spec, SettledOutputIsFinal

(* What the pieces of a text say.                                          *)

\* The sides of a cut of two texts in a row.
LEMMA CutOfJoin ==
  ASSUME NEW X, NEW a \in Seq(X), NEW b \in Seq(X)
  PROVE  /\ \A i \in 0..Len(a) :
              /\ SubSeq(a \o b, 1, i) = SubSeq(a, 1, i)
              /\ SubSeq(a \o b, i + 1, Len(a \o b)) = SubSeq(a, i + 1, Len(a)) \o b
         /\ \A j \in 0..Len(b) :
              /\ SubSeq(a \o b, 1, Len(a) + j) = a \o SubSeq(b, 1, j)
              /\ SubSeq(a \o b, (Len(a) + j) + 1, Len(a \o b)) = SubSeq(b, j + 1, Len(b))
<1> DEFINE c == a \o b
<1>1. /\ c \in Seq(X) /\ Len(a) \in Nat /\ Len(b) \in Nat /\ Len(c) = Len(a) + Len(b)
      /\ \A i \in 1..Len(a) : c[i] = a[i]
      /\ \A j \in 1..Len(b) : c[Len(a) + j] = b[j]
  BY Joined
<1> HIDE DEF c
<1>2. ASSUME NEW i \in 0..Len(a)
      PROVE  /\ SubSeq(c, 1, i) = SubSeq(a, 1, i)
             /\ SubSeq(c, i + 1, Len(c)) = SubSeq(a, i + 1, Len(a)) \o b
  <2>1. SubSeq(c, 1, i) = SubSeq(a, 1, i)
    <3>1. Len(SubSeq(c, 1, i)) = i /\ Len(SubSeq(a, 1, i)) = i
          /\ SubSeq(c, 1, i) \in Seq(X) /\ SubSeq(a, 1, i) \in Seq(X)
      BY <1>1
    <3>2. \A k \in 1..i : SubSeq(c, 1, i)[k] = SubSeq(a, 1, i)[k]
      BY <1>1
    <3> QED
      BY <3>1, <3>2, SeqEqual
  <2> DEFINE u == SubSeq(c, i + 1, Len(c))
             v == SubSeq(a, i + 1, Len(a))
  <2>2. /\ u \in Seq(X) /\ Len(u) = (Len(a) - i) + Len(b)
        /\ \A k \in 1..Len(u) : u[k] = c[i + k]
    BY <1>1
  <2>3. /\ v \in Seq(X) /\ Len(v) = Len(a) - i
        /\ \A k \in 1..Len(v) : v[k] = a[i + k]
    BY <1>1
  <2> HIDE DEF u, v
  <2>4. \A k \in 1..Len(v) : u[k] = v[k]
    <3> SUFFICES ASSUME NEW k \in 1..Len(v) PROVE u[k] = v[k]
      OBVIOUS
    <3>1. k \in 1..Len(u) /\ i + k \in 1..Len(a)
      BY <1>1, <2>2, <2>3
    <3> QED
      BY <1>1, <2>2, <2>3, <3>1
  <2>5. \A k \in 1..Len(b) : u[Len(v) + k] = b[k]
    <3> SUFFICES ASSUME NEW k \in 1..Len(b) PROVE u[Len(v) + k] = b[k]
      OBVIOUS
    <3>1. Len(v) + k \in 1..Len(u) /\ i + (Len(v) + k) = Len(a) + k
      BY <1>1, <2>2, <2>3
    <3> QED
      BY <1>1, <2>2, <3>1
  <2>6. u = v \o b
    <3>1. Len(u) = Len(v) + Len(b)
      BY <2>2, <2>3
    <3> QED
      BY <2>2, <2>3, <2>4, <2>5, <3>1, Rejoined
  <2> QED
    BY <2>1, <2>6 DEF u, v
<1>3. ASSUME NEW j \in 0..Len(b)
      PROVE  /\ SubSeq(c, 1, Len(a) + j) = a \o SubSeq(b, 1, j)
             /\ SubSeq(c, (Len(a) + j) + 1, Len(c)) = SubSeq(b, j + 1, Len(b))
  <2> DEFINE u == SubSeq(c, 1, Len(a) + j)
             v == SubSeq(b, 1, j)
  <2>1. /\ u \in Seq(X) /\ Len(u) = Len(a) + j /\ \A k \in 1..Len(u) : u[k] = c[k]
    BY <1>1
  <2>2. /\ v \in Seq(X) /\ Len(v) = j /\ \A k \in 1..Len(v) : v[k] = b[k]
    BY <1>1
  <2> HIDE DEF u, v
  <2>3. \A k \in 1..Len(a) : u[k] = a[k]
    BY <1>1, <2>1
  <2>4. \A k \in 1..Len(v) : u[Len(a) + k] = v[k]
    <3> SUFFICES ASSUME NEW k \in 1..Len(v) PROVE u[Len(a) + k] = v[k]
      OBVIOUS
    <3>1. Len(a) + k \in 1..Len(u) /\ k \in 1..Len(b)
      BY <1>1, <2>1, <2>2
    <3> QED
      BY <1>1, <2>1, <2>2, <3>1
  <2>5. u = a \o v
    BY <2>1, <2>2, <2>3, <2>4, Rejoined
  <2> DEFINE w == SubSeq(c, (Len(a) + j) + 1, Len(c))
             x == SubSeq(b, j + 1, Len(b))
  <2>6. /\ w \in Seq(X) /\ Len(w) = Len(b) - j /\ \A k \in 1..Len(w) : w[k] = c[(Len(a) + j) + k]
    BY <1>1
  <2>7. /\ x \in Seq(X) /\ Len(x) = Len(b) - j /\ \A k \in 1..Len(x) : x[k] = b[j + k]
    BY <1>1
  <2> HIDE DEF w, x
  <2>8. \A k \in 1..Len(x) : w[k] = x[k]
    <3> SUFFICES ASSUME NEW k \in 1..Len(x) PROVE w[k] = x[k]
      OBVIOUS
    <3>1. k \in 1..Len(w) /\ j + k \in 1..Len(b) /\ (Len(a) + j) + k = Len(a) + (j + k)
      BY <1>1, <2>6, <2>7
    <3> QED
      BY <1>1, <2>6, <2>7, <3>1
  <2>9. w = x
    BY <2>6, <2>7, <2>8, SeqEqual
  <2> QED
    BY <2>5, <2>9 DEF u, v, w, x
<1> QED
  BY <1>2, <1>3 DEF c

\* A text of characters that is not empty has a size, and the longer of two prefixes the
\* greater.
LEMMA CharactersWeigh ==
  ASSUME NEW text \in Seq(Characters)
  PROVE  /\ text # <<>> => Size(text) >= 1
         /\ \A i \in 0..Len(text) : \A j \in 0..Len(text) :
              i < j => Size(SubSeq(text, 1, i)) < Size(SubSeq(text, 1, j))
<1>1. ASSUME NEW t \in Seq(Characters), t # <<>> PROVE Size(t) \in Nat /\ Size(t) >= 1
  <2>1. Len(t) \in Nat /\ 1 \in 0..Len(t) /\ t[1] \in Characters /\ SubSeq(t, 1, 1) = <<t[1]>>
    <3>1. Len(t) \in Nat /\ Len(t) # 0
      BY <1>1, EmptySeq
    <3>2. 1 \in 1..Len(t) /\ 1 \in 0..Len(t) /\ t[1] \in Characters
      BY <3>1
    <3> DEFINE u == SubSeq(t, 1, 1)
               v == <<t[1]>>
    <3>3. u \in Seq(Characters) /\ Len(u) = 1 /\ u[1] = t[1]
      BY <3>1, <3>2
    <3>4. v \in Seq(Characters) /\ Len(v) = 1 /\ v[1] = t[1]
      BY <3>2
    <3> HIDE DEF u, v
    <3>5. u = v
      BY <3>3, <3>4, SeqEqual
    <3> QED
      BY <3>1, <3>2, <3>5 DEF u, v
  <2>2. /\ Size(t) = Size(SubSeq(t, 1, 1)) + Size(SubSeq(t, 1 + 1, Len(t)))
        /\ SubSeq(t, 1 + 1, Len(t)) \in Seq(Characters)
    BY <2>1, Sides
  <2>3. Size(SubSeq(t, 1 + 1, Len(t))) \in Nat /\ Size(SubSeq(t, 1, 1)) \in 1..3
    BY <2>1, <2>2, SizeAdds, SizeOfOne
  <2> QED
    BY <2>2, <2>3
<1>2. ASSUME NEW i \in 0..Len(text), NEW j \in 0..Len(text), i < j
      PROVE  Size(SubSeq(text, 1, i)) < Size(SubSeq(text, 1, j))
  <2> DEFINE p == SubSeq(text, 1, j)
  <2>1. p \in Seq(Characters) /\ Len(p) = j /\ i \in 0..Len(p) /\ Len(text) \in Nat
    BY <1>2, Sides
  <2>2. SubSeq(p, 1, i) = SubSeq(text, 1, i)
    BY <1>2, <2>1
  <2> HIDE DEF p
  <2>3. /\ Size(p) = Size(SubSeq(p, 1, i)) + Size(SubSeq(p, i + 1, Len(p)))
        /\ SubSeq(p, i + 1, Len(p)) \in Seq(Characters) /\ Len(SubSeq(p, i + 1, Len(p))) = Len(p) - i
        /\ SubSeq(p, 1, i) \in Seq(Characters)
    BY <2>1, Sides
  <2>4. SubSeq(p, i + 1, Len(p)) # <<>>
    BY <1>2, <2>1, <2>3, EmptySeq
  <2>5. Size(SubSeq(p, i + 1, Len(p))) \in Nat /\ Size(SubSeq(p, i + 1, Len(p))) >= 1
        /\ Size(SubSeq(p, 1, i)) \in Nat
    BY <1>1, <2>3, <2>4, SizeAdds
  <2>6. Size(SubSeq(p, 1, i)) < Size(p)
    BY <2>3, <2>5
  <2> QED
    BY <2>2, <2>6 DEF p
<1> QED
  BY <1>1, <1>2

\* A tail that is trimmed, and trimmed again with what came after it, is the tail of all.
LEMMA TrimmedTwice ==
  ASSUME NEW X, NEW a \in Seq(X), NEW b \in Seq(X), NEW max \in Nat
  PROVE  TrimToTail(TrimToTail(a, max) \o b, max) = TrimToTail(a \o b, max)
<1>1. PICK k \in 0..Len(a) :
        /\ TrimToTail(a, max) = SubSeq(a, k + 1, Len(a))
        /\ \A i \in 0..Len(a) : Size(SubSeq(a, i + 1, Len(a))) <= max => k <= i
  BY LongestSuffix
<1> DEFINE p == SubSeq(a, 1, k)
           u == SubSeq(a, k + 1, Len(a))
           c == a \o b
           d == u \o b
<1>2. /\ p \in Seq(X) /\ Len(p) = k /\ u \in Seq(X) /\ Len(u) = Len(a) - k /\ a = p \o u
      /\ Len(a) \in Nat /\ Len(b) \in Nat
  <2>1. Len(b) \in Nat
    OBVIOUS
  <2>2. /\ p \in Seq(X) /\ Len(p) = k /\ u \in Seq(X) /\ Len(u) = Len(a) - k
        /\ Len(a) \in Nat /\ a = p \o u
    BY Sides, Zenon
  <2> QED
    BY <2>1, <2>2
<1>3. c \in Seq(X) /\ d \in Seq(X) /\ Len(c) = Len(a) + Len(b) /\ Len(d) = Len(u) + Len(b)
  <2> HIDE DEF u
  <2> QED
    BY <1>2, Joined
<1>4. c = p \o d
  <2> HIDE DEF p, u
  <2>1. (p \o u) \o b = p \o (u \o b)
    BY <1>2, Regrouped
  <2> QED
    BY <1>2, <2>1
<1>5. \A j \in 0..Len(d) : SubSeq(c, (k + j) + 1, Len(c)) = SubSeq(d, j + 1, Len(d))
  <2> HIDE DEF p, u, c, d
  <2>1. \A j \in 0..Len(d) : SubSeq(p \o d, (Len(p) + j) + 1, Len(p \o d)) = SubSeq(d, j + 1, Len(d))
    <3>1. p \in Seq(X) /\ d \in Seq(X)
      BY <1>2, <1>3
    <3>2. \A j \in 0..Len(d) :
            /\ SubSeq(p \o d, 1, Len(p) + j) = p \o SubSeq(d, 1, j)
            /\ SubSeq(p \o d, (Len(p) + j) + 1, Len(p \o d)) = SubSeq(d, j + 1, Len(d))
      BY <3>1, CutOfJoin
    <3> QED
      BY <3>2, Zenon
  <2> QED
    BY <1>2, <1>4, <2>1
<1>6. \A i \in 0..Len(a) : SubSeq(c, i + 1, Len(c)) = SubSeq(a, i + 1, Len(a)) \o b
  BY CutOfJoin
<1>7. PICK l \in 0..Len(c) :
        /\ TrimToTail(c, max) = SubSeq(c, l + 1, Len(c))
        /\ Size(SubSeq(c, l + 1, Len(c))) <= max
        /\ \A i \in 0..Len(c) : Size(SubSeq(c, i + 1, Len(c))) <= max => l <= i
  BY <1>3, LongestSuffix
<1>8. PICK m \in 0..Len(d) :
        /\ TrimToTail(d, max) = SubSeq(d, m + 1, Len(d))
        /\ Size(SubSeq(d, m + 1, Len(d))) <= max
        /\ \A i \in 0..Len(d) : Size(SubSeq(d, i + 1, Len(d))) <= max => m <= i
  BY <1>3, LongestSuffix
<1> HIDE DEF p, u, c, d
<1>9. k <= l
  <2> SUFFICES ASSUME ~(k <= l) PROVE FALSE
    OBVIOUS
  <2>1. l \in 0..Len(a)
    BY <1>2, <1>3
  <2>2. SubSeq(c, l + 1, Len(c)) = SubSeq(a, l + 1, Len(a)) \o b
    BY <1>6, <2>1
  <2>3. SubSeq(a, l + 1, Len(a)) \in Seq(X)
    BY <2>1, Sides
  <2>4. /\ Size(SubSeq(a, l + 1, Len(a)) \o b) = Size(SubSeq(a, l + 1, Len(a))) + Size(b)
        /\ Size(SubSeq(a, l + 1, Len(a))) \in Nat /\ Size(b) \in Nat
    BY <2>3, SizeAdds
  <2>5. Size(SubSeq(a, l + 1, Len(a))) <= max
    <3> DEFINE whole == Size(SubSeq(c, l + 1, Len(c)))
               part == Size(SubSeq(a, l + 1, Len(a)))
               more == Size(b)
    <3>1. whole = part + more /\ part \in Nat /\ more \in Nat /\ whole <= max
      BY <1>7, <2>2, <2>4
    <3> HIDE DEF whole, part, more
    <3>2. part <= max
      BY <3>1
    <3> QED
      BY <3>2 DEF part
  <2> QED
    BY <1>1, <2>1, <2>5
<1>10. l - k \in 0..Len(d) /\ k + (l - k) = l
  BY <1>2, <1>3, <1>9
<1>11. m <= l - k
  <2>1. SubSeq(c, l + 1, Len(c)) = SubSeq(d, (l - k) + 1, Len(d))
    <3>1. SubSeq(c, (k + (l - k)) + 1, Len(c)) = SubSeq(d, (l - k) + 1, Len(d))
      BY <1>5, <1>10
    <3> QED
      BY <1>10, <3>1
  <2> QED
    BY <1>7, <1>8, <1>10, <2>1
<1>12. l <= k + m
  <2>1. k + m \in 0..Len(c)
    BY <1>2, <1>3
  <2>2. Size(SubSeq(c, (k + m) + 1, Len(c))) <= max
    BY <1>5, <1>8
  <2> QED
    BY <1>7, <2>1, <2>2
<1>13. l = k + m
  BY <1>10, <1>11, <1>12
<1>14. SubSeq(c, l + 1, Len(c)) = SubSeq(d, m + 1, Len(d))
  BY <1>5, <1>13
<1>15. TrimToTail(c, max) = TrimToTail(d, max)
  BY <1>7, <1>8, <1>14
<1> QED
  BY <1>1, <1>15 DEF c, d, u

\* The gaps that texts in a row name.
LEMMA GapsAdd ==
  ASSUME NEW X, NEW a \in Seq(X), NEW b \in Seq(X)
  PROVE  Gaps(a \o b) = Gaps(a) \cup Gaps(b)
<1> DEFINE at(t) == {k \in DOMAIN t : t[k][1] = "dropped"}
<1>1. /\ a \o b \in Seq(X) /\ Len(a) \in Nat /\ Len(b) \in Nat
      /\ DOMAIN a = 1..Len(a) /\ DOMAIN b = 1..Len(b) /\ DOMAIN (a \o b) = 1..(Len(a) + Len(b))
      /\ \A i \in 1..Len(a) : (a \o b)[i] = a[i]
      /\ \A j \in 1..Len(b) : (a \o b)[Len(a) + j] = b[j]
  BY Joined
<1>2. \A t : Gaps(t) = {t[i][2] : i \in at(t)}
  BY DEF Gaps
<1>3. ASSUME NEW i \in at(a \o b) PROVE (a \o b)[i][2] \in Gaps(a) \cup Gaps(b)
  <2>1. CASE i \in 1..Len(a)
    <3>1. i \in at(a) /\ (a \o b)[i][2] = a[i][2]
      BY <1>1, <2>1
    <3> QED
      BY <1>2, <3>1
  <2>2. CASE i \notin 1..Len(a)
    <3>1. i \in 1..(Len(a) + Len(b))
      BY <1>1
    <3>2. i - Len(a) \in 1..Len(b) /\ Len(a) + (i - Len(a)) = i
      BY <1>1, <2>2, <3>1
    <3>3. i - Len(a) \in at(b) /\ (a \o b)[i][2] = b[i - Len(a)][2]
      BY <1>1, <3>2
    <3> QED
      BY <1>2, <3>3
  <2> QED
    BY <2>1, <2>2
<1>4. ASSUME NEW i \in at(a) PROVE a[i][2] \in Gaps(a \o b)
  <2>1. i \in at(a \o b) /\ (a \o b)[i][2] = a[i][2]
    BY <1>1
  <2> QED
    BY <1>2, <2>1
<1>5. ASSUME NEW j \in at(b) PROVE b[j][2] \in Gaps(a \o b)
  <2>1. Len(a) + j \in at(a \o b) /\ (a \o b)[Len(a) + j][2] = b[j][2]
    BY <1>1
  <2> QED
    BY <1>2, <2>1
<1>6. Gaps(a \o b) \subseteq Gaps(a) \cup Gaps(b)
  BY <1>2, <1>3
<1>7. Gaps(a) \subseteq Gaps(a \o b) /\ Gaps(b) \subseteq Gaps(a \o b)
  BY <1>2, <1>4, <1>5
<1> QED
  BY <1>6, <1>7

\* Only a marker names a gap.
LEMMA GapsOfPieces ==
  /\ \A t \in Seq(Characters) : Gaps(t) = {}
  /\ Gaps(<<>>) = {} /\ Gaps(<<Note>>) = {} /\ Gaps(<<OverBudget>>) = {}
  /\ \A n \in Nat : Gaps(<<BytesDropped(n)>>) = {n}
<1>1. ASSUME NEW t \in Seq(Characters) PROVE Gaps(t) = {}
  <2>1. \A k \in DOMAIN t : t[k][1] # "dropped"
    BY PiecesDiffer
  <2> QED
    BY <2>1 DEF Gaps
<1>2. <<>> \in Seq(Characters)
  BY EmptySeq
<1>3. \A x : Gaps(<<x>>) = IF x[1] = "dropped" THEN {x[2]} ELSE {}
  BY DEF Gaps
<1> QED
  BY <1>1, <1>2, <1>3, PiecesDiffer

\* What a text says without its notes, piece by piece.
Said(text) == [i \in DOMAIN text |-> IF text[i] = Note THEN <<>> ELSE <<text[i]>>]

\* It is a sequence of texts.
LEMMA SaidType ==
  ASSUME NEW text \in Seq(Pieces)
  PROVE  /\ Said(text) \in Seq(Seq(Pieces)) /\ Len(Said(text)) = Len(text)
         /\ \A i \in 1..Len(text) : Said(text)[i] = IF text[i] = Note THEN <<>> ELSE <<text[i]>>
         /\ Unnoted(text) = FlattenSeq(Said(text)) /\ Unnoted(text) \in Seq(Pieces)
<1>1. Len(text) \in Nat /\ DOMAIN text = 1..Len(text) /\ \A i \in 1..Len(text) : text[i] \in Pieces
  OBVIOUS
<1>2. \A g \in Pieces : <<g>> \in Seq(Pieces) /\ <<>> \in Seq(Pieces)
  OBVIOUS
<1>3. \A i \in 1..Len(text) : (IF text[i] = Note THEN <<>> ELSE <<text[i]>>) \in Seq(Pieces)
  BY <1>1, <1>2
<1>4. Said(text) \in [1..Len(text) -> Seq(Pieces)]
  BY <1>1, <1>3 DEF Said
<1>5. Said(text) \in Seq(Seq(Pieces)) /\ Len(Said(text)) = Len(text)
  BY <1>1, <1>4
<1>6. Unnoted(text) = FlattenSeq(Said(text))
  BY DEF Unnoted, Said
<1>7. FlattenSeq(Said(text)) \in Seq(Pieces)
  BY <1>5, FlattenFacts
<1> QED
  BY <1>1, <1>5, <1>6, <1>7 DEF Said

\* Two texts in a row say what each says.
LEMMA UnnotedAdd ==
  ASSUME NEW a \in Seq(Pieces), NEW b \in Seq(Pieces)
  PROVE  Unnoted(a \o b) = Unnoted(a) \o Unnoted(b)
<1>1. /\ a \o b \in Seq(Pieces) /\ Len(a) \in Nat /\ Len(b) \in Nat /\ Len(a \o b) = Len(a) + Len(b)
      /\ \A i \in 1..Len(a) : (a \o b)[i] = a[i]
      /\ \A j \in 1..Len(b) : (a \o b)[Len(a) + j] = b[j]
  BY Joined
<1> DEFINE u == Said(a)
           v == Said(b)
           w == Said(a \o b)
<1>2. /\ u \in Seq(Seq(Pieces)) /\ Len(u) = Len(a) /\ Unnoted(a) = FlattenSeq(u)
      /\ \A i \in 1..Len(a) : u[i] = IF a[i] = Note THEN <<>> ELSE <<a[i]>>
  BY SaidType
<1>3. /\ v \in Seq(Seq(Pieces)) /\ Len(v) = Len(b) /\ Unnoted(b) = FlattenSeq(v)
      /\ \A i \in 1..Len(b) : v[i] = IF b[i] = Note THEN <<>> ELSE <<b[i]>>
  BY SaidType
<1>4. /\ w \in Seq(Seq(Pieces)) /\ Len(w) = Len(a \o b) /\ Unnoted(a \o b) = FlattenSeq(w)
      /\ \A i \in 1..Len(a \o b) : w[i] = IF (a \o b)[i] = Note THEN <<>> ELSE <<(a \o b)[i]>>
  BY <1>1, SaidType
<1> HIDE DEF u, v, w
<1>5. w = u \o v
  <2>1. \A i \in 1..Len(u) : w[i] = u[i]
    <3> SUFFICES ASSUME NEW i \in 1..Len(u) PROVE w[i] = u[i]
      OBVIOUS
    <3>1. i \in 1..Len(a) /\ i \in 1..Len(a \o b)
      BY <1>1, <1>2
    <3> QED
      BY <1>1, <1>2, <1>4, <3>1
  <2>2. \A j \in 1..Len(v) : w[Len(u) + j] = v[j]
    <3> SUFFICES ASSUME NEW j \in 1..Len(v) PROVE w[Len(u) + j] = v[j]
      OBVIOUS
    <3>1. j \in 1..Len(b) /\ Len(a) + j \in 1..Len(a \o b) /\ Len(u) = Len(a)
      BY <1>1, <1>2, <1>3
    <3> QED
      BY <1>1, <1>3, <1>4, <3>1
  <2>3. Len(w) = Len(u) + Len(v)
    BY <1>1, <1>2, <1>3, <1>4
  <2> QED
    BY <1>2, <1>3, <1>4, <2>1, <2>2, <2>3, Rejoined
<1>6. FlattenSeq(u \o v) = FlattenSeq(u) \o FlattenSeq(v)
  BY <1>2, <1>3, FlattenConcat
<1> QED
  BY <1>2, <1>3, <1>4, <1>5, <1>6

\* A note says nothing, and a text without notes what it is.
LEMMA UnnotedFacts ==
  /\ Unnoted(<<>>) = <<>> /\ Unnoted(<<Note>>) = <<>>
  /\ \A g \in Pieces \ {Note} : Unnoted(<<g>>) = <<g>>
  /\ \A t \in Seq(Characters) : Unnoted(t) = t
<1>1. Unnoted(<<>>) = <<>>
  <2>1. Said(<<>>) = <<>>
    BY DEF Said
  <2> QED
    BY <2>1, FlattenFacts DEF Unnoted, Said
<1>2. ASSUME NEW g \in Pieces PROVE Unnoted(<<g>>) = IF g = Note THEN <<>> ELSE <<g>>
  <2> DEFINE x == IF g = Note THEN <<>> ELSE <<g>>
             t == <<g>>
  <2>1. t \in Seq(Pieces) /\ x \in Seq(Pieces) /\ Len(t) = 1 /\ t[1] = g
    OBVIOUS
  <2>2. Said(t) \in Seq(Seq(Pieces)) /\ Len(Said(t)) = 1 /\ Said(t)[1] = x
        /\ Unnoted(t) = FlattenSeq(Said(t))
    <3>1. /\ Said(t) \in Seq(Seq(Pieces)) /\ Len(Said(t)) = Len(t) /\ Unnoted(t) = FlattenSeq(Said(t))
          /\ \A i \in 1..Len(t) : Said(t)[i] = IF t[i] = Note THEN <<>> ELSE <<t[i]>>
      BY <2>1, SaidType
    <3>2. 1 \in 1..Len(t)
      BY <2>1
    <3> HIDE DEF t
    <3> QED
      BY <2>1, <3>1, <3>2
  <2>3. <<x>> \in Seq(Seq(Pieces)) /\ Len(<<x>>) = 1 /\ <<x>>[1] = x
    BY <2>1
  <2> HIDE DEF x, t
  <2>4. Said(t) = <<x>>
    <3> DEFINE y == <<x>>
    <3>1. y \in Seq(Seq(Pieces)) /\ Len(y) = 1 /\ y[1] = x
      BY <2>3
    <3> HIDE DEF y
    <3>2. Said(t) = y
      BY <2>2, <3>1, SeqEqual
    <3> QED
      BY <3>2 DEF y
  <2>5. Unnoted(t) = x
    BY <2>1, <2>2, <2>4, FlattenFacts
  <2> QED
    BY <2>5 DEF x, t
<1>3. ASSUME NEW t \in Seq(Characters) PROVE Unnoted(t) = t
  <2>1. Len(t) \in Nat /\ t \in Seq(Pieces) /\ \A i \in 1..Len(t) : t[i] \in Characters
    BY CharactersArePieces
  <2> DEFINE Same == {n \in 0..Len(t) : Unnoted(SubSeq(t, 1, n)) = SubSeq(t, 1, n)}
  <2>2. 0 \in Same
    <3>1. SubSeq(t, 1, 0) = <<>>
      OBVIOUS
    <3>2. 0 \in 0..Len(t)
      BY <2>1
    <3>3. Unnoted(SubSeq(t, 1, 0)) = SubSeq(t, 1, 0)
      BY <1>1, <3>1
    <3> QED
      BY <3>2, <3>3
  <2>3. ASSUME NEW n \in 0..(Len(t) - 1), n \in Same PROVE n + 1 \in Same
    <3> DEFINE u == SubSeq(t, 1, n)
               v == SubSeq(t, 1, n + 1)
               g == t[n + 1]
               last == <<g>>
    <3>1. n + 1 \in 1..Len(t) /\ n + 1 \in 0..Len(t) /\ g \in Characters
      BY <2>1
    <3>2. /\ u \in Seq(Characters) /\ Len(u) = n /\ \A i \in 1..n : u[i] = t[i]
          /\ v \in Seq(Characters) /\ Len(v) = n + 1 /\ \A i \in 1..(n + 1) : v[i] = t[i]
      BY <2>1, <3>1
    <3>3. last \in Seq(Characters) /\ Len(last) = 1 /\ last[1] = g
      BY <3>1
    <3>4. v = u \o last
      <4>1. v[n + 1] = g
        BY <3>1, <3>2
      <4> HIDE DEF u, v, last, g
      <4>2. Len(v) = Len(u) + Len(last) /\ \A i \in 1..Len(u) : v[i] = u[i]
        BY <3>2, <3>3
      <4>3. \A j \in 1..Len(last) : v[Len(u) + j] = last[j]
        BY <3>2, <3>3, <4>1
      <4> QED
        BY <3>2, <3>3, <4>2, <4>3, Rejoined
    <3>5. Unnoted(last) = last
      <4>1. g \in Pieces /\ g # Note
        BY <3>1, PiecesDiffer
      <4> QED
        BY <1>2, <4>1
    <3>6. Unnoted(u) = u
      BY <2>3
    <3> HIDE DEF u, v, last, g
    <3>7. u \in Seq(Pieces) /\ last \in Seq(Pieces)
      BY <3>2, <3>3, CharactersArePieces
    <3>8. Unnoted(u \o last) = Unnoted(u) \o Unnoted(last)
      BY <3>7, UnnotedAdd
    <3>9. Unnoted(v) = v
      BY <3>4, <3>5, <3>6, <3>8
    <3> QED
      BY <3>1, <3>9 DEF v
  <2>4. 0..Len(t) \subseteq Same
    <3> HIDE DEF Same
    <3> QED
      BY <2>1, <2>2, <2>3, SetInduction
  <2>5. Len(t) \in Same
    BY <2>1, <2>4
  <2>6. SubSeq(t, 1, Len(t)) = t
    BY SubSeqFull
  <2> QED
    BY <2>5, <2>6
<1> QED
  BY <1>1, <1>2, <1>3, PiecesDiffer

-----------------------------------------------------------------------------
(* The account a capture keeps of a stream.                                *)

\* The head of what a stream has said, and what is past it.
HeadOf(seen) == SubSeq(seen, 1, CharsThatFit(seen, HeadBytes))
RestOf(seen) == SubSeq(seen, CharsThatFit(seen, HeadBytes) + 1, Len(seen))

\* Every byte seen is in the text or held, and the cap is marked when one is dropped.
Counted(c, seen, text) ==
  /\ Size(text) + c.headRoom = HeadBytes /\ Size(seen) = Size(text) + c.held
  /\ Gaps(text) = {}
  /\ c.capped <=> Size(c.tail) < c.held

\* The text is the head of what was seen, and the tail is that of the rest.
Ordered(c, seen, text) ==
  /\ Size(HeadOf(seen)) + c.headRoom = HeadBytes
  /\ c.tail = TrimToTail(RestOf(seen), TailBytes)
  /\ Unnoted(text) = HeadOf(seen) \o (IF c.capped THEN <<OverBudget>> ELSE <<>>)

\* A stream whose head ends between two characters began so.
LEMMA CleanStart ==
  ASSUME NEW a \in Seq(Characters), NEW b \in Seq(Characters), CutBetween(a \o b)
  PROVE  CutBetween(a)
<1>1. /\ Len(a) \in Nat /\ Len(b) \in Nat /\ Len(a \o b) = Len(a) + Len(b)
      /\ Size(a) \in Nat /\ Size(b) \in Nat /\ Size(a \o b) = Size(a) + Size(b) /\ HeadBytes \in Nat
  BY Joined, SizeAdds, Halves
<1>2. CASE Size(a \o b) <= HeadBytes
  BY <1>1, <1>2 DEF CutBetween
<1>3. CASE \E i \in 0..Len(a \o b) : Size(SubSeq(a \o b, 1, i)) = HeadBytes
  <2>1. PICK i \in 0..Len(a \o b) : Size(SubSeq(a \o b, 1, i)) = HeadBytes
    BY <1>3
  <2>2. CASE i \in 0..Len(a)
    <3>1. SubSeq(a \o b, 1, i) = SubSeq(a, 1, i)
      BY <2>2, CutOfJoin
    <3> QED
      BY <2>1, <2>2, <3>1 DEF CutBetween
  <2>3. CASE i \notin 0..Len(a)
    <3>1. i - Len(a) \in 0..Len(b) /\ Len(a) + (i - Len(a)) = i
      BY <1>1, <2>3
    <3> DEFINE more == SubSeq(b, 1, i - Len(a))
    <3>2. SubSeq(a \o b, 1, Len(a) + (i - Len(a))) = a \o more
      BY <3>1, CutOfJoin
    <3>3. more \in Seq(Characters)
      BY <3>1, Sides
    <3> HIDE DEF more
    <3>4. Size(a \o more) = Size(a) + Size(more) /\ Size(more) \in Nat
      BY <3>3, SizeAdds
    <3>5. Size(a \o more) = HeadBytes
      BY <2>1, <3>1, <3>2
    <3>6. Size(a) <= HeadBytes
      <4> DEFINE x == Size(a)
                 y == Size(more)
      <4>1. x \in Nat /\ y \in Nat /\ x + y = HeadBytes
        BY <1>1, <3>4, <3>5
      <4> HIDE DEF x, y
      <4>2. x <= HeadBytes
        BY <4>1
      <4> QED
        BY <4>2 DEF x
    <3> QED
      BY <3>6 DEF CutBetween
  <2> QED
    BY <2>2, <2>3
<1> QED
  BY <1>2, <1>3 DEF CutBetween

\* Where the head ends between two characters and something is past it, it is full.
LEMMA CleanHead ==
  ASSUME NEW seen \in Seq(Characters), CutBetween(seen), CharsThatFit(seen, HeadBytes) < Len(seen)
  PROVE  Size(HeadOf(seen)) = HeadBytes
<1> DEFINE k == CharsThatFit(seen, HeadBytes)
<1>1. /\ k \in 0..Len(seen) /\ Size(SubSeq(seen, 1, k)) <= HeadBytes
      /\ \A i \in 0..Len(seen) : Size(SubSeq(seen, 1, i)) <= HeadBytes => i <= k
      /\ HeadBytes \in Nat /\ Len(seen) \in Nat
  BY LongestPrefix, Halves
<1>2. HeadOf(seen) = SubSeq(seen, 1, k) /\ k < Len(seen)
  BY DEF HeadOf
<1> HIDE DEF k
<1>3. ~(Size(seen) <= HeadBytes)
  <2>1. SubSeq(seen, 1, Len(seen)) = seen /\ Len(seen) \in 0..Len(seen)
    BY <1>1
  <2>2. ~(Len(seen) <= k)
    BY <1>1, <1>2
  <2> QED
    BY <1>1, <2>1, <2>2
<1>4. PICK i \in 0..Len(seen) : Size(SubSeq(seen, 1, i)) = HeadBytes
  BY <1>3 DEF CutBetween
<1>5. i <= k
  BY <1>1, <1>4
<1>6. SubSeq(seen, 1, k) \in Seq(Characters)
  BY <1>1, Sides
<1>7. Size(SubSeq(seen, 1, k)) \in Nat
  BY <1>6, SizeAdds
<1>8. CASE i = k
  BY <1>2, <1>4, <1>8
<1>9. CASE i < k
  <2>1. Size(SubSeq(seen, 1, i)) < Size(SubSeq(seen, 1, k))
    BY <1>1, <1>9, CharactersWeigh
  <2> QED
    BY <1>1, <1>4, <1>7, <2>1
<1> QED
  BY <1>1, <1>5, <1>8, <1>9

\* The head of a stream is what has been sent of it and what still fits of a read.
LEMMA HeadOfJoin ==
  ASSUME NEW seen \in Seq(Characters), NEW more \in Seq(Characters), NEW room \in Nat,
         CutBetween(seen \o more), Size(HeadOf(seen)) + room = HeadBytes
  PROVE  LET h == CharsThatFit(more, room)
         IN  /\ HeadOf(seen \o more) = HeadOf(seen) \o SubSeq(more, 1, h)
             /\ RestOf(seen \o more) = RestOf(seen) \o SubSeq(more, h + 1, Len(more))
             /\ CharsThatFit(seen, HeadBytes) < Len(seen) => SubSeq(more, 1, h) = <<>>
<1> DEFINE k == CharsThatFit(seen, HeadBytes)
           h == CharsThatFit(more, room)
           all == seen \o more
           n == CharsThatFit(all, HeadBytes)
<1>1. /\ k \in 0..Len(seen) /\ Size(SubSeq(seen, 1, k)) <= HeadBytes
      /\ \A i \in 0..Len(seen) : Size(SubSeq(seen, 1, i)) <= HeadBytes => i <= k
      /\ HeadBytes \in Nat /\ Len(seen) \in Nat
  <2>1. HeadBytes \in Nat /\ Len(seen) \in Nat
    BY Halves
  <2>2. /\ k \in 0..Len(seen) /\ Size(SubSeq(seen, 1, k)) <= HeadBytes
        /\ \A i \in 0..Len(seen) : Size(SubSeq(seen, 1, i)) <= HeadBytes => i <= k
    BY <2>1, LongestPrefix
  <2> QED
    BY <2>1, <2>2
<1>2. /\ h \in 0..Len(more) /\ Size(SubSeq(more, 1, h)) <= room
      /\ \A i \in 0..Len(more) : Size(SubSeq(more, 1, i)) <= room => i <= h
      /\ Len(more) \in Nat
  <2>1. Len(more) \in Nat
    OBVIOUS
  <2>2. /\ h \in 0..Len(more) /\ Size(SubSeq(more, 1, h)) <= room
        /\ \A i \in 0..Len(more) : Size(SubSeq(more, 1, i)) <= room => i <= h
    BY LongestPrefix
  <2> QED
    BY <2>1, <2>2
<1>3. all \in Seq(Characters) /\ Len(all) = Len(seen) + Len(more)
  BY Joined
<1>4. /\ n \in 0..Len(all) /\ Size(SubSeq(all, 1, n)) <= HeadBytes
      /\ \A i \in 0..Len(all) : Size(SubSeq(all, 1, i)) <= HeadBytes => i <= n
  BY <1>1, <1>3, LongestPrefix
<1>5. /\ \A i \in 0..Len(seen) :
           /\ SubSeq(all, 1, i) = SubSeq(seen, 1, i)
           /\ SubSeq(all, i + 1, Len(all)) = SubSeq(seen, i + 1, Len(seen)) \o more
      /\ \A j \in 0..Len(more) :
           /\ SubSeq(all, 1, Len(seen) + j) = seen \o SubSeq(more, 1, j)
           /\ SubSeq(all, (Len(seen) + j) + 1, Len(all)) = SubSeq(more, j + 1, Len(more))
  <2>1. \A i \in 0..Len(seen) :
           /\ SubSeq(all, 1, i) = SubSeq(seen, 1, i)
           /\ SubSeq(all, i + 1, Len(all)) = SubSeq(seen, i + 1, Len(seen)) \o more
    BY CutOfJoin
  <2>2. \A j \in 0..Len(more) :
           /\ SubSeq(all, 1, Len(seen) + j) = seen \o SubSeq(more, 1, j)
           /\ SubSeq(all, (Len(seen) + j) + 1, Len(all)) = SubSeq(more, j + 1, Len(more))
    BY CutOfJoin
  <2> QED
    BY <2>1, <2>2
<1>6. /\ HeadOf(seen) = SubSeq(seen, 1, k) /\ RestOf(seen) = SubSeq(seen, k + 1, Len(seen))
      /\ HeadOf(all) = SubSeq(all, 1, n) /\ RestOf(all) = SubSeq(all, n + 1, Len(all))
      /\ Size(SubSeq(seen, 1, k)) + room = HeadBytes
  BY DEF HeadOf, RestOf
<1>7. \A j \in 0..Len(more) :
        /\ SubSeq(more, 1, j) \in Seq(Characters) /\ Size(SubSeq(more, 1, j)) \in Nat
        /\ SubSeq(more, j + 1, Len(more)) \in Seq(Characters)
        /\ Size(seen \o SubSeq(more, 1, j)) = Size(seen) + Size(SubSeq(more, 1, j))
        /\ Size(seen) \in Nat
  <2> SUFFICES ASSUME NEW j \in 0..Len(more)
               PROVE  /\ SubSeq(more, 1, j) \in Seq(Characters) /\ Size(SubSeq(more, 1, j)) \in Nat
                      /\ SubSeq(more, j + 1, Len(more)) \in Seq(Characters)
                      /\ Size(seen \o SubSeq(more, 1, j)) = Size(seen) + Size(SubSeq(more, 1, j))
                      /\ Size(seen) \in Nat
    BY Zenon
  <2>1. SubSeq(more, 1, j) \in Seq(Characters) /\ SubSeq(more, j + 1, Len(more)) \in Seq(Characters)
    BY Sides
  <2> QED
    BY <2>1, SizeAdds
<1>8. CASE k = Len(seen)
  <2>1. SubSeq(seen, 1, k) = seen /\ SubSeq(seen, k + 1, Len(seen)) = <<>>
    BY <1>1, <1>8
  <2>2. k + h <= n
    <3>1. Size(seen) + Size(SubSeq(more, 1, h)) <= HeadBytes
      <4> DEFINE extra == Size(SubSeq(more, 1, h))
                 start == Size(seen)
      <4>1. extra \in Nat /\ start \in Nat
        <5> HIDE DEF h
        <5> QED
          BY <1>2, <1>7
      <4>2. extra <= room /\ start + room = HeadBytes
        BY <1>2, <1>6, <2>1
      <4> HIDE DEF extra, start
      <4>3. start + extra <= HeadBytes
        BY <1>1, <4>1, <4>2
      <4> QED
        BY <4>3 DEF extra, start
    <3>2. Size(SubSeq(all, 1, k + h)) <= HeadBytes /\ k + h \in 0..Len(all)
      <4> HIDE DEF k, h, all, n
      <4>1. SubSeq(all, 1, Len(seen) + h) = seen \o SubSeq(more, 1, h)
        BY <1>2, <1>5
      <4>2. Size(SubSeq(all, 1, Len(seen) + h)) <= HeadBytes
        BY <1>2, <1>7, <3>1, <4>1
      <4> QED
        BY <1>1, <1>2, <1>3, <1>8, <4>2
    <3> QED
      BY <1>4, <3>2
  <2>3. n <= k + h
    <3>1. n - k \in 0..Len(more) /\ k + (n - k) = n
      BY <1>1, <1>2, <1>3, <1>4, <1>8, <2>2
    <3>2. Size(SubSeq(all, 1, n)) = Size(seen) + Size(SubSeq(more, 1, n - k))
      <4> HIDE DEF k, h, all, n
      <4>1. SubSeq(all, 1, Len(seen) + (n - k)) = seen \o SubSeq(more, 1, n - k)
        BY <1>5, <3>1
      <4> QED
        BY <1>7, <1>8, <3>1, <4>1
    <3>3. Size(SubSeq(more, 1, n - k)) <= room
      <4> DEFINE extra == Size(SubSeq(more, 1, n - k))
                 start == Size(seen)
      <4>1. extra \in Nat /\ start \in Nat
        <5> HIDE DEF k, h, all, n
        <5> QED
          BY <1>7, <3>1
      <4>2. start + extra <= HeadBytes /\ start + room = HeadBytes
        BY <1>4, <1>6, <2>1, <3>2
      <4> HIDE DEF extra, start
      <4>3. extra <= room
        BY <1>1, <4>1, <4>2
      <4> QED
        BY <4>3 DEF extra
    <3>4. n - k <= h
      BY <1>2, <3>1, <3>3
    <3> QED
      BY <1>1, <1>2, <1>4, <3>4
  <2>4. n = k + h
    BY <1>1, <1>2, <1>4, <2>2, <2>3
  <2>5. \A s \in Seq(Characters) : <<>> \o s = s
    BY ConcatEmptySeq
  <2> HIDE DEF k, h, all, n
  <2>6. HeadOf(all) = seen \o SubSeq(more, 1, h) /\ RestOf(all) = SubSeq(more, h + 1, Len(more))
    BY <1>2, <1>5, <1>6, <1>8, <2>4
  <2>7. <<>> \o SubSeq(more, h + 1, Len(more)) = SubSeq(more, h + 1, Len(more))
    BY <1>2, <1>7, <2>5
  <2>8. HeadOf(seen) = seen /\ RestOf(seen) = <<>> /\ ~(k < Len(seen))
    BY <1>1, <1>6, <1>8, <2>1
  <2>9. /\ HeadOf(all) = HeadOf(seen) \o SubSeq(more, 1, h)
        /\ RestOf(all) = RestOf(seen) \o SubSeq(more, h + 1, Len(more))
    BY <2>6, <2>7, <2>8
  <2> QED
    BY <2>8, <2>9 DEF all, h, k
<1>9. CASE k < Len(seen)
  <2>1. CutBetween(seen)
    BY CleanStart
  <2>2. Size(HeadOf(seen)) = HeadBytes /\ room = 0
    <3>1. Size(HeadOf(seen)) = HeadBytes
      BY <1>9, <2>1, CleanHead
    <3> QED
      BY <1>1, <3>1
  <2>3. h = 0
    <3> SUFFICES ASSUME h # 0 PROVE FALSE
      OBVIOUS
    <3>1. 0 \in 0..Len(more) /\ 0 < h
      BY <1>2
    <3>2. Size(SubSeq(more, 1, 0)) < Size(SubSeq(more, 1, h))
      <4> HIDE DEF h
      <4> QED
        BY <1>2, <3>1, CharactersWeigh
    <3>3. Size(SubSeq(more, 1, 0)) \in Nat /\ Size(SubSeq(more, 1, h)) \in Nat
      BY <1>2, <1>7, <3>1
    <3> QED
      BY <1>2, <2>2, <3>2, <3>3
  <2>4. n = k
    <3>1. k \in 0..Len(all) /\ Size(SubSeq(all, 1, k)) = HeadBytes
      <4> HIDE DEF k, h, all, n
      <4>1. SubSeq(all, 1, k) = SubSeq(seen, 1, k)
        BY <1>1, <1>5
      <4>2. Size(SubSeq(all, 1, k)) = HeadBytes
        BY <1>6, <2>2, <4>1
      <4>3. k \in 0..Len(all)
        BY <1>1, <1>2, <1>3
      <4> QED
        BY <4>2, <4>3
    <3>2. k <= n
      BY <1>1, <1>4, <3>1
    <3>3. ~(k < n)
      <4> SUFFICES ASSUME k < n PROVE FALSE
        OBVIOUS
      <4> HIDE DEF k, n, all, h
      <4>1. Size(SubSeq(all, 1, k)) < Size(SubSeq(all, 1, n))
        BY <1>3, <1>4, <3>1, CharactersWeigh
      <4>2. SubSeq(all, 1, n) \in Seq(Characters)
        BY <1>3, <1>4, Sides
      <4>3. Size(SubSeq(all, 1, n)) \in Nat
        BY <4>2, SizeAdds
      <4> QED
        BY <1>1, <1>4, <3>1, <4>1, <4>3
    <3> QED
      BY <1>1, <1>4, <3>2, <3>3
  <2>5. SubSeq(more, 1, h) = <<>> /\ SubSeq(more, h + 1, Len(more)) = more
    <3>1. SubSeq(more, 1, 0) = <<>> /\ SubSeq(more, 0 + 1, Len(more)) = more
      BY <1>2
    <3> QED
      BY <2>3, <3>1
  <2>6. HeadOf(seen) \in Seq(Characters)
    BY <1>1, <1>6, Sides
  <2> HIDE DEF k, h, all, n
  <2>7. HeadOf(seen) \o <<>> = HeadOf(seen)
    BY <2>6, ConcatEmptySeq
  <2>8. HeadOf(all) = HeadOf(seen) /\ RestOf(all) = RestOf(seen) \o more
    BY <1>1, <1>5, <1>6, <2>4
  <2> QED
    BY <2>5, <2>7, <2>8 DEF all, h, k
<1>10. k = Len(seen) \/ k < Len(seen)
  <2> HIDE DEF k
  <2> QED
    BY <1>1
<1> QED
  BY <1>8, <1>9, <1>10, Zenon

\* The account of bytes is kept through a read.
LEMMA CountedOn ==
  ASSUME NEW c \in Captures, Size(c.tail) <= c.held,
         NEW seen \in Seq(Characters), NEW text \in Seq(Pieces), Counted(c, seen, text),
         NEW more \in Seq(Characters), NEW now, NEW head, NEW rest, PartsOf(c, more, now, head, rest)
  PROVE  Counted(now.capture, seen \o more, text \o now.sent)
<1> DEFINE tail == TrimToTail(c.tail \o rest, TailBytes)
           over == ~c.capped /\ Size(tail) < c.held + Size(rest)
           mark == IF over THEN <<OverBudget>> ELSE <<>>
<1>1. /\ head \in Seq(Characters) /\ Size(head) \in Nat /\ Size(rest) \in Nat
      /\ Size(more) = Size(head) + Size(rest)
      /\ Size(tail) \in Nat /\ Size(tail) <= Size(c.tail) + Size(rest)
      /\ now.capture = [headRoom |-> c.headRoom - Size(head), tail |-> tail,
                        held |-> c.held + Size(rest), capped |-> c.capped \/ over]
      /\ now.sent = head \o mark
  BY DEF PartsOf
<1>2. now.sent \in Seq(Pieces) /\ Size(now.sent) = Size(head)
  BY PartsType
<1>3. /\ c.headRoom \in Nat /\ c.held \in Nat /\ c.capped \in BOOLEAN /\ Size(c.tail) \in Nat
      /\ HeadBytes \in Nat
  <2>1. c.headRoom \in 0..HeadBytes /\ c.tail \in Seq(Characters) /\ c.held \in Nat /\ c.capped \in BOOLEAN
    BY DEF Captures
  <2> QED
    BY <2>1, Halves, SizeAdds
<1>4. /\ Size(seen \o more) = Size(seen) + Size(more)
      /\ Size(seen) \in Nat /\ Size(text) \in Nat
  BY SizeAdds
<1>5. Size(text \o now.sent) = Size(text) + Size(head) /\ Gaps(text \o now.sent) = Gaps(text) \cup Gaps(now.sent)
  BY <1>2, SizeAdds, GapsAdd
<1>6. /\ Size(text) + c.headRoom = HeadBytes /\ Size(seen) = Size(text) + c.held
      /\ Gaps(text) = {} /\ (c.capped <=> Size(c.tail) < c.held)
  BY DEF Counted
<1>7. Gaps(now.sent) = {}
  <2>1. mark \in Seq(Pieces) /\ Gaps(mark) = {} /\ head \in Seq(Pieces) /\ Gaps(head) = {}
    BY <1>1, CharactersArePieces, PiecesDiffer, GapsOfPieces, EmptySeq
  <2> HIDE DEF mark
  <2>2. Gaps(head \o mark) = Gaps(head) \cup Gaps(mark)
    BY <2>1, GapsAdd
  <2> QED
    BY <1>1, <2>1, <2>2
<1>8. /\ now.capture.headRoom = c.headRoom - Size(head) /\ now.capture.held = c.held + Size(rest)
      /\ now.capture.tail = tail /\ now.capture.capped = (c.capped \/ over)
  <2> HIDE DEF tail, over, mark
  <2> QED
    BY <1>1
<1> DEFINE a == Size(text)
           h == Size(head)
           r == Size(rest)
           s == Size(seen)
           t == Size(tail)
           u == Size(c.tail)
           held == c.held
           room == c.headRoom
<1>9. /\ a \in Nat /\ h \in Nat /\ r \in Nat /\ s \in Nat /\ t \in Nat /\ u \in Nat /\ held \in Nat
      /\ room \in Nat /\ a + room = HeadBytes /\ s = a + held /\ t <= u + r /\ u <= held
      /\ (c.capped <=> u < held) /\ (over <=> ~c.capped /\ t < held + r)
  BY <1>1, <1>3, <1>4, <1>6
<1>10. /\ (a + h) + (room - h) = HeadBytes /\ s + (h + r) = (a + h) + (held + r)
       /\ (u < held => t < held + r)
  <2> HIDE DEF a, h, r, s, t, u, held, room
  <2> QED
    BY <1>3, <1>9
<1>11. (c.capped \/ over) <=> t < held + r
  <2> HIDE DEF a, h, r, s, t, u, held, room, over
  <2> QED
    BY <1>9, <1>10, Zenon
<1>12. /\ Size(text \o now.sent) + now.capture.headRoom = HeadBytes
       /\ Size(seen \o more) = Size(text \o now.sent) + now.capture.held
  BY <1>1, <1>4, <1>5, <1>8, <1>10
<1>13. now.capture.capped <=> Size(now.capture.tail) < now.capture.held
  <2>1. now.capture.capped <=> t < held + r
    <3> HIDE DEF over, t, held, r
    <3> QED
      BY <1>8, <1>11, Zenon
  <2> HIDE DEF over
  <2> QED
    BY <1>8, <2>1, Zenon
<1> QED
  BY <1>5, <1>6, <1>7, <1>12, <1>13, Zenon DEF Counted

\* So is the order of what was said, where the head ends between two characters.
LEMMA OrderedOn ==
  ASSUME NEW c \in Captures, Size(c.tail) <= c.held,
         NEW seen \in Seq(Characters), NEW text \in Seq(Pieces),
         Counted(c, seen, text), Ordered(c, seen, text),
         NEW more \in Seq(Characters), NEW now, NEW head, NEW rest, PartsOf(c, more, now, head, rest),
         CutBetween(seen \o more)
  PROVE  Ordered(now.capture, seen \o more, text \o now.sent)
<1> DEFINE tail == TrimToTail(c.tail \o rest, TailBytes)
           over == ~c.capped /\ Size(tail) < c.held + Size(rest)
           mark == IF over THEN <<OverBudget>> ELSE <<>>
           past == IF c.capped THEN <<OverBudget>> ELSE <<>>
           all == seen \o more
           H == HeadOf(seen)
           R == RestOf(seen)
<1>1. /\ head \in Seq(Characters) /\ rest \in Seq(Characters)
      /\ head = SubSeq(more, 1, CharsThatFit(more, c.headRoom))
      /\ rest = SubSeq(more, CharsThatFit(more, c.headRoom) + 1, Len(more))
      /\ now.capture = [headRoom |-> c.headRoom - Size(head), tail |-> tail,
                        held |-> c.held + Size(rest), capped |-> c.capped \/ over]
      /\ now.sent = head \o mark
      /\ Size(head) \in Nat
  BY DEF PartsOf
<1>2. /\ c.headRoom \in Nat /\ c.held \in Nat /\ c.tail \in Seq(Characters) /\ HeadBytes \in Nat
      /\ TailBytes \in Nat /\ c.capped \in BOOLEAN
  <2>1. c.headRoom \in 0..HeadBytes /\ c.tail \in Seq(Characters) /\ c.held \in Nat /\ c.capped \in BOOLEAN
    BY DEF Captures
  <2> QED
    BY <2>1, Halves
<1>3. /\ Size(H) + c.headRoom = HeadBytes /\ c.tail = TrimToTail(R, TailBytes)
      /\ Unnoted(text) = H \o past
  BY DEF Ordered
<1>4. /\ HeadOf(all) = H \o head /\ RestOf(all) = R \o rest
      /\ CharsThatFit(seen, HeadBytes) < Len(seen) => head = <<>>
  <2>1. Size(HeadOf(seen)) + c.headRoom = HeadBytes
    BY <1>3
  <2>2. /\ HeadOf(all) = H \o SubSeq(more, 1, CharsThatFit(more, c.headRoom))
        /\ RestOf(all) = R \o SubSeq(more, CharsThatFit(more, c.headRoom) + 1, Len(more))
        /\ CharsThatFit(seen, HeadBytes) < Len(seen)
             => SubSeq(more, 1, CharsThatFit(more, c.headRoom)) = <<>>
    BY <1>2, <2>1, HeadOfJoin
  <2> HIDE DEF all, H, R
  <2> QED
    BY <1>1, <2>2
<1>5. H \in Seq(Characters) /\ R \in Seq(Characters) /\ Size(seen) = Size(H) + Size(R)
      /\ Size(H) \in Nat /\ Size(R) \in Nat /\ (~(CharsThatFit(seen, HeadBytes) < Len(seen)) => R = <<>>)
  <2>1. CharsThatFit(seen, HeadBytes) \in 0..Len(seen) /\ Len(seen) \in Nat
    <3>1. Len(seen) \in Nat
      OBVIOUS
    <3>2. CharsThatFit(seen, HeadBytes) \in 0..Len(seen)
      BY <1>2, LongestPrefix
    <3> QED
      BY <3>1, <3>2
  <2>2. H \in Seq(Characters) /\ R \in Seq(Characters) /\ Size(seen) = Size(H) + Size(R)
    BY <2>1, Sides DEF HeadOf, RestOf
  <2>3. ~(CharsThatFit(seen, HeadBytes) < Len(seen)) => R = <<>>
    <3> SUFFICES ASSUME ~(CharsThatFit(seen, HeadBytes) < Len(seen)) PROVE R = <<>>
      OBVIOUS
    <3>1. CharsThatFit(seen, HeadBytes) = Len(seen)
      BY <2>1
    <3>2. R = SubSeq(seen, Len(seen) + 1, Len(seen))
      BY <3>1 DEF RestOf
    <3> QED
      BY <2>1, <3>2
  <2> HIDE DEF H, R
  <2> QED
    BY <2>2, <2>3, SizeAdds
<1>6. /\ now.capture.headRoom = c.headRoom - Size(head) /\ now.capture.tail = tail
      /\ now.capture.capped = (c.capped \/ over)
  <2> HIDE DEF tail, over, mark
  <2> QED
    BY <1>1
<1>7. Size(HeadOf(all)) + now.capture.headRoom = HeadBytes
  <2> HIDE DEF H, R, all
  <2>1. Size(H \o head) = Size(H) + Size(head)
    BY <1>1, <1>5, SizeAdds
  <2> DEFINE x == Size(H)
             y == Size(head)
             z == now.capture.headRoom
  <2>2. /\ x \in Nat /\ y \in Nat /\ x + c.headRoom = HeadBytes /\ z = c.headRoom - y
        /\ Size(HeadOf(all)) = x + y
    BY <1>1, <1>3, <1>4, <1>5, <1>6, <2>1
  <2> HIDE DEF x, y, z
  <2>3. (x + y) + z = HeadBytes
    BY <1>2, <2>2
  <2> QED
    BY <2>2, <2>3 DEF z
<1>8. now.capture.tail = TrimToTail(RestOf(all), TailBytes)
  <2> HIDE DEF H, R, all
  <2>1. TrimToTail(TrimToTail(R, TailBytes) \o rest, TailBytes) = TrimToTail(R \o rest, TailBytes)
    <3>1. R \in Seq(Characters) /\ rest \in Seq(Characters) /\ TailBytes \in Nat
      BY <1>1, <1>2, <1>5
    <3> QED
      BY <3>1, TrimmedTwice
  <2> QED
    BY <1>3, <1>4, <1>6, <2>1
<1>9. mark \in Seq(Pieces) /\ past \in Seq(Pieces) /\ Unnoted(mark) = mark
  <2>1. <<>> \in Seq(Pieces) /\ <<OverBudget>> \in Seq(Pieces)
    BY PiecesDiffer, EmptySeq
  <2>2. Unnoted(<<>>) = <<>> /\ Unnoted(<<OverBudget>>) = <<OverBudget>>
    BY UnnotedFacts, PiecesDiffer
  <2> QED
    BY <2>1, <2>2
<1>10. c.capped => head = <<>> /\ mark = <<>>
  <2> SUFFICES ASSUME c.capped PROVE head = <<>> /\ mark = <<>>
    OBVIOUS
  <2>1. Size(c.tail) < c.held /\ Size(seen) = Size(text) + c.held /\ Size(text) + c.headRoom = HeadBytes
    BY DEF Counted
  <2>2. Size(R) = c.held
    <3> DEFINE x == Size(text)
               y == Size(R)
               z == Size(H)
    <3>1. x \in Nat /\ y \in Nat /\ z \in Nat
      BY <1>5, SizeAdds
    <3>2. z + y = x + c.held /\ x + c.headRoom = HeadBytes /\ z + c.headRoom = HeadBytes
      BY <1>3, <1>5, <2>1
    <3> HIDE DEF x, y, z
    <3>3. y = c.held
      BY <1>2, <3>1, <3>2
    <3> QED
      BY <3>3 DEF y
  <2>3. Size(c.tail) \in Nat
    BY <1>2, SizeAdds
  <2>4. Size(R) # 0
    BY <1>2, <2>1, <2>2, <2>3
  <2>5. CharsThatFit(seen, HeadBytes) < Len(seen)
    <3> HIDE DEF R
    <3> QED
      BY <1>5, <2>4, SizeOfOne
  <2> QED
    BY <1>4, <2>5
<1>11. Unnoted(text \o now.sent) = HeadOf(all) \o (IF now.capture.capped THEN <<OverBudget>> ELSE <<>>)
  <2>1. now.sent \in Seq(Pieces) /\ head \in Seq(Pieces) /\ H \in Seq(Pieces)
    BY <1>1, <1>5, PartsType, CharactersArePieces
  <2>2. Unnoted(text \o now.sent) = Unnoted(text) \o Unnoted(now.sent)
    BY <2>1, UnnotedAdd
  <2>3. Unnoted(now.sent) = head \o mark
    <3> HIDE DEF mark
    <3>1. Unnoted(head \o mark) = Unnoted(head) \o Unnoted(mark)
      BY <1>9, <2>1, UnnotedAdd
    <3>2. Unnoted(head) = head
      BY <1>1, UnnotedFacts
    <3> QED
      BY <1>1, <1>9, <3>1, <3>2
  <2>4. CASE c.capped
    <3>1. past = <<OverBudget>> /\ now.capture.capped
      <4> HIDE DEF over
      <4> QED
        BY <1>6, <2>4
    <3>2. head \o mark = <<>>
      <4>1. <<>> \o <<>> = <<>>
        BY EmptySeq, ConcatEmptySeq
      <4> HIDE DEF mark
      <4> QED
        BY <1>10, <2>4, <4>1
    <3>3. H \o head = H
      <4> HIDE DEF H
      <4> QED
        BY <1>5, <1>10, <2>4, ConcatEmptySeq
    <3>4. (H \o past) \o <<>> = H \o past
      <4> DEFINE hp == H \o past
      <4>1. hp \in Seq(Pieces)
        <5> HIDE DEF H, past
        <5> QED
          BY <1>9, <2>1, Joined
      <4> HIDE DEF hp
      <4>2. hp \o <<>> = hp
        BY <4>1, ConcatEmptySeq
      <4> QED
        BY <4>2 DEF hp
    <3> HIDE DEF H, past, mark, all
    <3> QED
      BY <1>3, <1>4, <2>2, <2>3, <3>1, <3>2, <3>3, <3>4
  <2>5. CASE ~c.capped
    <3>1. past = <<>> /\ (IF now.capture.capped THEN <<OverBudget>> ELSE <<>>) = mark
      <4>1. now.capture.capped <=> over
        <5> HIDE DEF over
        <5> QED
          BY <1>6, <2>5, Zenon
      <4> HIDE DEF over
      <4> QED
        BY <2>5, <4>1, Zenon
    <3>2. H \o past = H
      <4> HIDE DEF H, past
      <4> QED
        BY <1>5, <3>1, ConcatEmptySeq
    <3>3. (H \o head) \o mark = H \o (head \o mark)
      <4> HIDE DEF H, mark
      <4>1. H \in Seq(Pieces) /\ head \in Seq(Pieces) /\ mark \in Seq(Pieces)
        BY <1>9, <2>1
      <4> QED
        BY <4>1, Regrouped
    <3> HIDE DEF H, past, mark, all
    <3> QED
      BY <1>3, <1>4, <2>2, <2>3, <3>1, <3>2, <3>3
  <2> QED
    BY <1>2, <2>4, <2>5
<1> QED
  BY <1>7, <1>8, <1>11 DEF Ordered

\* What the rows and the channel hold of a stream once its reader is at its end.
Accounted(all, text) ==
  /\ LET missing == Size(all) - Size(text)
     IN  missing \in Nat /\ Gaps(text) = {missing} \ {0}
  /\ CutBetween(all) => Unnoted(text) = Recording(all)

\* A head and a tail that leave nothing out are the stream, and the marker stands for
\* what is between them otherwise.
LEMMA FlushedInOrder ==
  ASSUME NEW c \in Captures, Size(c.tail) <= c.held,
         NEW all \in Seq(Characters), NEW text \in Seq(Pieces), Counted(c, all, text),
         CutBetween(all), Ordered(c, all, text)
  PROVE  Unnoted(text \o FlushTail(c)) = Recording(all)
<1> DEFINE H == HeadOf(all)
           R == RestOf(all)
           tail == c.tail
           n == c.held - Size(tail)
           over == <<OverBudget>>
           gap == <<BytesDropped(n)>>
<1>1. /\ c.headRoom \in Nat /\ c.held \in Nat /\ tail \in Seq(Characters) /\ HeadBytes \in Nat
      /\ TailBytes \in Nat /\ HeadBytes + TailBytes = MaxStreamBytes /\ c.capped \in BOOLEAN
      /\ Size(tail) \in Nat
  <2>1. c.headRoom \in 0..HeadBytes /\ c.tail \in Seq(Characters) /\ c.held \in Nat /\ c.capped \in BOOLEAN
    BY DEF Captures
  <2> QED
    BY <2>1, Halves, SizeAdds
<1>2. Len(all) \in Nat
  OBVIOUS
<1>3. CharsThatFit(all, HeadBytes) \in 0..Len(all)
  BY <1>1, LongestPrefix
<1>4. /\ H \in Seq(Characters) /\ Len(H) = CharsThatFit(all, HeadBytes) /\ R \in Seq(Characters)
      /\ Len(R) = Len(all) - CharsThatFit(all, HeadBytes)
      /\ all = H \o R /\ Size(all) = Size(H) + Size(R)
  BY <1>3, Sides DEF HeadOf, RestOf
<1>5. Size(H) \in Nat /\ Size(R) \in Nat /\ Size(text) \in Nat
  <2> HIDE DEF H, R
  <2> QED
    BY <1>4, SizeAdds
<1>6. /\ Size(H) + c.headRoom = HeadBytes /\ tail = TrimToTail(R, TailBytes)
      /\ Unnoted(text) = H \o (IF c.capped THEN over ELSE <<>>)
  BY DEF Ordered
<1>7. /\ Size(text) + c.headRoom = HeadBytes /\ Size(all) = Size(text) + c.held
      /\ (c.capped <=> Size(tail) < c.held)
  BY DEF Counted
<1>8. Size(R) = c.held /\ Size(text) = Size(H) /\ Size(H) <= HeadBytes
  <2> DEFINE x == Size(H)
             y == Size(R)
             z == Size(text)
  <2>1. x \in Nat /\ y \in Nat /\ z \in Nat /\ x + c.headRoom = HeadBytes /\ z + c.headRoom = HeadBytes
        /\ x + y = z + c.held
    BY <1>4, <1>5, <1>6, <1>7
  <2> HIDE DEF x, y, z
  <2>2. y = c.held /\ z = x /\ x <= HeadBytes
    BY <1>1, <2>1
  <2> QED
    BY <2>2 DEF x, y, z
<1>9. Recording(all) = IF Size(all) <= MaxStreamBytes THEN all ELSE H \o <<OverBudget, BytesDropped(n)>> \o tail
  <2>1. SubSeq(all, Len(H) + 1, Len(all)) = R
    BY <1>4 DEF RestOf
  <2>2. Size(all) - Size(H) - Size(tail) = n
    <3> DEFINE x == Size(H)
               y == Size(R)
               z == Size(tail)
    <3>1. Size(all) = x + y /\ x \in Nat /\ y \in Nat /\ z \in Nat /\ y = c.held
      BY <1>1, <1>4, <1>5, <1>8
    <3> HIDE DEF x, y, z
    <3>2. (x + y) - x - z = c.held - z
      BY <1>1, <3>1
    <3> QED
      BY <3>1, <3>2 DEF x, z
  <2>3. Recording(all) = IF Size(all) <= MaxStreamBytes THEN all
          ELSE H \o <<OverBudget, BytesDropped(Size(all) - Size(H)
                 - Size(TrimToTail(SubSeq(all, Len(H) + 1, Len(all)), TailBytes)))>>
               \o TrimToTail(SubSeq(all, Len(H) + 1, Len(all)), TailBytes)
    BY DEF Recording, HeadOf
  <2> HIDE DEF H, R, tail, n
  <2> QED
    BY <1>6, <2>1, <2>2, <2>3
<1>10. Unnoted(tail) = tail
  BY <1>1, UnnotedFacts
<1> DEFINE mark == IF c.capped THEN gap ELSE <<>>
<1>11. mark \in Seq(Pieces) /\ tail \in Seq(Pieces) /\ H \in Seq(Pieces) /\ over \in Seq(Pieces)
       /\ Unnoted(mark) = mark
  <2>1. c.capped => n \in Nat
    BY <1>1, <1>7
  <2>2. c.capped => gap \in Seq(Pieces) /\ Unnoted(gap) = gap
    <3> SUFFICES ASSUME c.capped PROVE gap \in Seq(Pieces) /\ Unnoted(gap) = gap
      OBVIOUS
    <3>1. BytesDropped(n) \in Pieces /\ BytesDropped(n) # Note
      <4> HIDE DEF n
      <4> QED
        BY <2>1, PiecesDiffer
    <3> QED
      BY <3>1, UnnotedFacts
  <2>3. <<>> \in Seq(Pieces) /\ Unnoted(<<>>) = <<>>
    BY UnnotedFacts, EmptySeq
  <2>4. mark \in Seq(Pieces) /\ Unnoted(mark) = mark
    <3> HIDE DEF gap
    <3> QED
      BY <1>1, <2>2, <2>3
  <2>5. tail \in Seq(Pieces) /\ H \in Seq(Pieces) /\ over \in Seq(Pieces)
    BY <1>1, <1>4, CharactersArePieces, PiecesDiffer
  <2> QED
    BY <2>4, <2>5
<1>12. Unnoted(text \o FlushTail(c)) = Unnoted(text) \o (mark \o tail)
  <2>1. FlushTail(c) = mark \o tail
    BY DEF FlushTail
  <2> HIDE DEF mark, tail
  <2>2. mark \o tail \in Seq(Pieces) /\ Unnoted(mark \o tail) = Unnoted(mark) \o Unnoted(tail)
    BY <1>11, UnnotedAdd, Joined
  <2>3. Unnoted(text \o (mark \o tail)) = Unnoted(text) \o Unnoted(mark \o tail)
    BY <2>2, UnnotedAdd
  <2> QED
    BY <1>10, <1>11, <2>1, <2>2, <2>3
<1>13. CASE c.capped
  <2>1. ~(Size(R) <= TailBytes)
    <3> SUFFICES ASSUME Size(R) <= TailBytes PROVE FALSE
      OBVIOUS
    <3>1. tail = R
      <4> HIDE DEF R, tail
      <4> QED
        BY <1>1, <1>4, <1>6, TailFits
    <3> QED
      BY <1>1, <1>7, <1>8, <1>13, <3>1
  <2>2. CharsThatFit(all, HeadBytes) < Len(all)
    <3> SUFFICES ASSUME ~(CharsThatFit(all, HeadBytes) < Len(all)) PROVE FALSE
      OBVIOUS
    <3>1. Len(R) = 0
      BY <1>2, <1>3, <1>4
    <3>2. R = <<>>
      <4> HIDE DEF R
      <4> QED
        BY <1>4, <3>1, EmptySeq
    <3>3. Size(R) = 0
      BY <3>2, SizeOfOne
    <3> QED
      BY <1>1, <2>1, <3>3
  <2>3. Size(H) = HeadBytes
    BY <2>2, CleanHead
  <2>4. ~(Size(all) <= MaxStreamBytes)
    <3> DEFINE x == Size(H)
               y == Size(R)
    <3>1. /\ Size(all) = x + y /\ x \in Nat /\ y \in Nat /\ x = HeadBytes /\ ~(y <= TailBytes)
      BY <1>4, <1>5, <2>1, <2>3
    <3> HIDE DEF x, y
    <3>2. ~(x + y <= MaxStreamBytes)
      BY <1>1, <3>1
    <3> QED
      BY <3>1, <3>2
  <2>5. Recording(all) = H \o <<OverBudget, BytesDropped(n)>> \o tail
    BY <1>9, <2>4
  <2>6. over \o gap = <<OverBudget, BytesDropped(n)>>
    <3> DEFINE x == BytesDropped(n)
               two == <<OverBudget, x>>
               joined == over \o <<x>>
    <3>1. x \in Pieces /\ OverBudget \in Pieces
      <4>1. n \in Nat
        BY <1>1, <1>7, <1>13
      <4> HIDE DEF n
      <4> QED
        BY <4>1, PiecesDiffer
    <3> HIDE DEF x
    <3>2. two \in Seq(Pieces) /\ Len(two) = 2 /\ two[1] = OverBudget /\ two[2] = x
      BY <3>1
    <3>3. joined \in Seq(Pieces) /\ Len(joined) = 2 /\ joined[1] = OverBudget /\ joined[2] = x
      BY <3>1
    <3> HIDE DEF two, joined
    <3>4. two = joined
      <4>1. \A i \in 1..2 : i = 1 \/ i = 2
        OBVIOUS
      <4>2. \A i \in 1..Len(two) : two[i] = joined[i]
        BY <3>2, <3>3, <4>1
      <4>3. Len(two) = Len(joined)
        BY <3>2, <3>3
      <4> QED
        BY <3>2, <3>3, <4>2, <4>3, SeqEqual
    <3> QED
      BY <3>4 DEF two, joined, x
  <2>7. mark = gap /\ Unnoted(text) = H \o over
    BY <1>6, <1>13
  <2> HIDE DEF H, R, tail, n, over, gap, mark
  <2>8. gap \in Seq(Pieces)
    BY <1>11, <2>7
  <2>9. (H \o over) \o (gap \o tail) = (H \o (over \o gap)) \o tail
    <3>1. /\ H \o over \in Seq(Pieces) /\ over \o gap \in Seq(Pieces) /\ gap \in Seq(Pieces)
          /\ H \in Seq(Pieces) /\ over \in Seq(Pieces) /\ tail \in Seq(Pieces)
      BY <1>11, <2>8, Joined
    <3> DEFINE ho == H \o over
               og == over \o gap
    <3>2. (ho \o gap) \o tail = ho \o (gap \o tail)
      <4>1. ho \in Seq(Pieces)
        BY <3>1
      <4> HIDE DEF ho
      <4> QED
        BY <3>1, <4>1, Regrouped
    <3>3. (H \o over) \o gap = H \o (over \o gap)
      BY <3>1, Regrouped
    <3> QED
      BY <3>2, <3>3
  <2> QED
    BY <1>12, <2>5, <2>6, <2>7, <2>9
<1>14. CASE ~c.capped
  <2>1. Size(tail) = c.held
    BY <1>1, <1>7, <1>14
  <2>2. Size(R) <= TailBytes
    <3>1. Size(tail) <= TailBytes
      <4> HIDE DEF R, tail
      <4> QED
        BY <1>1, <1>4, <1>6, TailFits
    <3> QED
      BY <1>8, <2>1, <3>1
  <2>3. tail = R
    <3> HIDE DEF R, tail
    <3> QED
      BY <1>1, <1>4, <1>6, <2>2, TailFits
  <2>4. Size(all) <= MaxStreamBytes
    <3> DEFINE x == Size(H)
               y == Size(R)
    <3>1. Size(all) = x + y /\ x \in Nat /\ y \in Nat /\ x <= HeadBytes /\ y <= TailBytes
      BY <1>4, <1>5, <1>8, <2>2
    <3> HIDE DEF x, y
    <3>2. x + y <= MaxStreamBytes
      BY <1>1, <3>1
    <3> QED
      BY <3>1, <3>2
  <2>5. Recording(all) = all
    BY <1>9, <2>4
  <2>6. mark = <<>> /\ Unnoted(text) = H \o <<>>
    BY <1>6, <1>14
  <2> HIDE DEF H, R, tail, n, over, gap, mark
  <2>7. H \o <<>> = H /\ <<>> \o tail = tail
    BY <1>1, <1>4, ConcatEmptySeq
  <2> QED
    BY <1>4, <1>12, <2>3, <2>5, <2>6, <2>7
<1> QED
  BY <1>1, <1>13, <1>14

\* The end of a stream accounts for all of it.
LEMMA FlushAccounts ==
  ASSUME NEW c \in Captures, Size(c.tail) <= c.held,
         NEW all \in Seq(Characters), NEW text \in Seq(Pieces), Counted(c, all, text),
         CutBetween(all) => Ordered(c, all, text)
  PROVE  Accounted(all, text \o FlushTail(c))
<1>1. /\ c.tail \in Seq(Characters) /\ c.held \in Nat /\ c.capped \in BOOLEAN /\ Size(c.tail) \in Nat
      /\ c.headRoom \in Nat
  <2>1. c.headRoom \in 0..HeadBytes /\ c.tail \in Seq(Characters) /\ c.held \in Nat /\ c.capped \in BOOLEAN
    BY DEF Captures
  <2> QED
    BY <2>1, Halves, SizeAdds
<1>2. FlushTail(c) \in Seq(Pieces) /\ Size(FlushTail(c)) = Size(c.tail)
  BY Flushed
<1> DEFINE n == c.held - Size(c.tail)
           mark == IF c.capped THEN <<BytesDropped(n)>> ELSE <<>>
<1>3. n \in Nat /\ Size(text) \in Nat
  BY <1>1, SizeAdds
<1>4. /\ Size(all) = Size(text) + c.held /\ Gaps(text) = {}
      /\ (c.capped <=> Size(c.tail) < c.held)
  BY DEF Counted
<1>5. Size(text \o FlushTail(c)) = Size(text) + Size(c.tail)
      /\ Gaps(text \o FlushTail(c)) = Gaps(FlushTail(c))
  <2>1. Size(text \o FlushTail(c)) = Size(text) + Size(FlushTail(c))
    BY <1>2, SizeAdds
  <2>2. Gaps(text \o FlushTail(c)) = Gaps(text) \cup Gaps(FlushTail(c))
    BY <1>2, GapsAdd
  <2> QED
    BY <1>2, <1>4, <2>1, <2>2
<1>6. Gaps(FlushTail(c)) = {n} \ {0}
  <2>1. FlushTail(c) = mark \o c.tail
    BY DEF FlushTail
  <2>2. mark \in Seq(Pieces) /\ Gaps(mark) = IF c.capped THEN {n} ELSE {}
    <3>1. /\ <<BytesDropped(n)>> \in Seq(Pieces) /\ Gaps(<<BytesDropped(n)>>) = {n}
          /\ <<>> \in Seq(Pieces) /\ Gaps(<<>>) = {}
      <4> HIDE DEF n
      <4> QED
        BY <1>3, PiecesDiffer, GapsOfPieces, EmptySeq
    <3> HIDE DEF n
    <3> QED
      BY <3>1
  <2>3. c.tail \in Seq(Pieces) /\ Gaps(c.tail) = {}
    BY <1>1, CharactersArePieces, GapsOfPieces
  <2>4. Gaps(mark \o c.tail) = Gaps(mark) \cup Gaps(c.tail)
    <3> DEFINE ending == c.tail
    <3>1. mark \in Seq(Pieces) /\ ending \in Seq(Pieces)
      BY <2>2, <2>3
    <3> HIDE DEF mark, ending
    <3>2. Gaps(mark \o ending) = Gaps(mark) \cup Gaps(ending)
      BY <3>1, GapsAdd
    <3> QED
      BY <3>2 DEF ending
  <2>5. c.capped <=> n # 0
    BY <1>1, <1>4
  <2> HIDE DEF mark, n
  <2> QED
    BY <2>1, <2>2, <2>3, <2>4, <2>5
<1>7. Size(all) - Size(text \o FlushTail(c)) = n
  <2> DEFINE x == Size(text)
             y == Size(c.tail)
  <2>1. x \in Nat /\ y \in Nat /\ Size(all) = x + c.held /\ Size(text \o FlushTail(c)) = x + y
    BY <1>1, <1>3, <1>4, <1>5
  <2> HIDE DEF x, y
  <2>2. (x + c.held) - (x + y) = c.held - y
    BY <1>1, <2>1
  <2> QED
    BY <2>1, <2>2 DEF y
<1>8. CutBetween(all) => Unnoted(text \o FlushTail(c)) = Recording(all)
  BY FlushedInOrder
<1> HIDE DEF n
<1> QED
  BY <1>3, <1>5, <1>6, <1>7, <1>8 DEF Accounted

\* A note between two texts changes none of this.
LEMMA NoteBetween ==
  ASSUME NEW a \in Seq(Pieces), NEW b \in Seq(Pieces), NEW note \in {<<>>, <<Note>>}
  PROVE  LET was == a \o b
             is  == a \o (note \o b)
         IN  /\ was \in Seq(Pieces) /\ is \in Seq(Pieces)
             /\ Size(is) = Size(was) /\ Gaps(is) = Gaps(was) /\ Unnoted(is) = Unnoted(was)
<1>0. \A s, t \in Seq(Pieces) : Gaps(s \o t) = Gaps(s) \cup Gaps(t)
  BY GapsAdd
<1>1. /\ note \in Seq(Pieces) /\ Size(note) = 0 /\ Gaps(note) = {} /\ Unnoted(note) = <<>>
  <2>1. <<Note>> \in Seq(Pieces) /\ <<>> \in Seq(Pieces)
    BY PiecesDiffer, EmptySeq
  <2>2. CASE note = <<>>
    BY <2>1, <2>2, SizeOfOne, GapsOfPieces, UnnotedFacts
  <2>3. CASE note = <<Note>>
    BY <2>1, <2>3, SizeOfOne, GapsOfPieces, UnnotedFacts
  <2> QED
    BY <2>2, <2>3
<1>2. /\ note \o b \in Seq(Pieces) /\ a \o b \in Seq(Pieces)
      /\ Size(note \o b) = Size(b) /\ Gaps(note \o b) = Gaps(b) /\ Size(b) \in Nat
  <2>1. note \o b \in Seq(Pieces) /\ a \o b \in Seq(Pieces)
    BY <1>1, Joined
  <2>2. Size(note \o b) = Size(note) + Size(b) /\ Size(b) \in Nat
    BY <1>1, SizeAdds
  <2>3. Gaps(note \o b) = Gaps(note) \cup Gaps(b)
    BY <1>0, <1>1, Zenon
  <2> QED
    BY <1>1, <2>1, <2>2, <2>3
<1>3. Unnoted(note \o b) = Unnoted(b)
  <2>1. Unnoted(note \o b) = Unnoted(note) \o Unnoted(b)
    BY <1>1, UnnotedAdd
  <2>2. <<>> \o Unnoted(b) = Unnoted(b)
    BY SaidType, ConcatEmptySeq
  <2> QED
    BY <1>1, <2>1, <2>2
<1>4. a \o (note \o b) \in Seq(Pieces)
  BY <1>2, Joined
<1>5. Size(a \o (note \o b)) = Size(a \o b)
  <2>1. Size(a \o (note \o b)) = Size(a) + Size(note \o b)
    BY <1>2, SizeAdds
  <2>2. Size(a \o b) = Size(a) + Size(b)
    BY SizeAdds
  <2> QED
    BY <1>2, <2>1, <2>2
<1>6. Gaps(a \o (note \o b)) = Gaps(a \o b)
  <2>1. Gaps(a \o (note \o b)) = Gaps(a) \cup Gaps(note \o b)
    BY <1>0, <1>2, Zenon
  <2>2. Gaps(a \o b) = Gaps(a) \cup Gaps(b)
    BY GapsAdd
  <2> QED
    BY <1>2, <2>1, <2>2
<1>7. Unnoted(a \o (note \o b)) = Unnoted(a \o b)
  <2>1. Unnoted(a \o (note \o b)) = Unnoted(a) \o Unnoted(note \o b)
    BY <1>2, UnnotedAdd
  <2>2. Unnoted(a \o b) = Unnoted(a) \o Unnoted(b)
    BY UnnotedAdd
  <2> QED
    BY <1>3, <2>1, <2>2
<1> QED
  BY <1>2, <1>4, <1>5, <1>6, <1>7

-----------------------------------------------------------------------------
(* What no fault and no giving up has touched.                             *)

\* What a reader has made of its stream so far, and what of it is in the rows or on the
\* way to them.
Seen(s) == TakeValidUtf8(SubSeq(output[s], 1, taken[s]))
Text(s) == rows[s] \o chunks[s]

\* While a reader reads, it keeps its account; at its end everything is accounted for.
Traced(r, kept, c, seen, all, text) ==
  /\ r \in {"reading", "ended"}
  /\ r = "reading" => /\ kept = seen.carry
                      /\ Counted(c, seen.content, text)
                      /\ CutBetween(seen.content) => Ordered(c, seen.content, text)
  /\ r = "ended" => Accounted(all, text)

AllTraced ==
  \A s \in Streams : Traced(reader[s], carry[s], capture[s], Seen(s), Decoded(s), Text(s))

RecordInv == BudgetInv /\ (Unbroken => Whole /\ AllTraced)

\* Only what is in a text, not how it was split, is traced.
LEMMA TracedSame ==
  ASSUME NEW r, NEW kept, NEW c, NEW seen, NEW all, NEW text, NEW same,
         Traced(r, kept, c, seen, all, text),
         Size(same) = Size(text), Gaps(same) = Gaps(text), Unnoted(same) = Unnoted(text)
  PROVE  Traced(r, kept, c, seen, all, same)
BY DEF Traced, Counted, Ordered, Accounted

\* The texts and the bytes have their types.
LEMMA TracedTypes ==
  ASSUME Typed, NEW s \in Streams
  PROVE  /\ rows[s] \in Seq(Pieces) /\ chunks[s] \in Seq(Pieces) /\ Text(s) \in Seq(Pieces)
         /\ output[s] \in Seq(Bytes) /\ taken[s] \in Nat /\ written[s] \in Nat
         /\ taken[s] <= written[s] /\ written[s] <= Len(output[s]) /\ Len(output[s]) \in Nat
         /\ SubSeq(output[s], 1, taken[s]) \in Seq(Bytes)
         /\ Seen(s).content \in Seq(Characters) /\ Seen(s).carry \in {<<>>, <<"lead">>}
         /\ capture[s] \in Captures /\ Size(capture[s].tail) <= capture[s].held
<1>1. ReaderTypes /\ rows \in Texts /\ chunks \in Texts
  BY TypedParts DEF Typed
<1>2. rows[s] \in Seq(Pieces) /\ chunks[s] \in Seq(Pieces) /\ Text(s) \in Seq(Pieces)
  BY <1>1, TextSizes, Joined DEF Text
<1>3. /\ output[s] \in Seq(Bytes) /\ taken[s] \in Nat /\ written[s] \in Nat
      /\ taken[s] <= written[s] /\ written[s] <= Len(output[s]) /\ Len(output[s]) \in Nat
      /\ capture[s] \in Captures /\ Size(capture[s].tail) <= capture[s].held
  BY <1>1, StreamBytes DEF ReaderTypes
<1>4. SubSeq(output[s], 1, taken[s]) \in Seq(Bytes)
  <2>1. \A i, j \in Nat : i <= j /\ j <= Len(output[s]) => SubSeq(output[s], i + 1, j) \in Seq(Bytes)
    BY <1>1, StreamBytes
  <2>2. 0 \in Nat /\ 0 <= taken[s] /\ taken[s] <= Len(output[s]) /\ 0 + 1 = 1
    <3> HIDE DEF output
    <3> QED
      BY <1>3
  <2> HIDE DEF output
  <2> QED
    BY <1>3, <2>1, <2>2
<1>5. Seen(s).content \in Seq(Characters) /\ Seen(s).carry \in {<<>>, <<"lead">>}
  BY <1>4, DecodingType DEF Seen
<1> QED
  BY <1>2, <1>3, <1>4, <1>5

\* A command that has written nothing is traced.
LEMMA InitTraced ==
  ASSUME Init
  PROVE  RecordInv
<1>1. BudgetInv /\ Typed
  BY InitBudget DEF BudgetInv
<1>2. Whole
  BY DEF Init, Whole, Ended, FinishedAttempt
<1>3. ASSUME NEW s \in Streams
      PROVE  Traced(reader[s], carry[s], capture[s], Seen(s), Decoded(s), Text(s))
  <2>1. /\ reader[s] = "reading" /\ carry[s] = <<>> /\ capture[s] = NewCapture
        /\ rows[s] = <<>> /\ chunks[s] = <<>> /\ taken[s] = 0
    BY DEF Init, NoText
  <2>2. Text(s) = <<>>
    BY <2>1, EmptySeq, ConcatEmptySeq DEF Text
  <2>3. Seen(s) = [content |-> <<>>, carry |-> <<>>]
    <3>1. SubSeq(output[s], 1, 0) = <<>>
      <4>1. output[s] \in Seq(Bytes)
        BY <1>1, TracedTypes
      <4> HIDE DEF output
      <4> QED
        BY <4>1
    <3>2. TakeValidUtf8(<<>>) = [content |-> <<>>, carry |-> <<>>]
      BY DecodingType, EmptySeq
    <3> QED
      BY <2>1, <3>1, <3>2 DEF Seen
  <2>4. Counted(NewCapture, <<>>, <<>>)
    BY Halves, SizeOfOne, GapsOfPieces DEF Counted, NewCapture
  <2>5. Ordered(NewCapture, <<>>, <<>>)
    <3>1. CharsThatFit(<<>>, HeadBytes) \in 0..Len(<<>>)
      BY Halves, EmptySeq, LongestPrefix
    <3>2. CharsThatFit(<<>>, HeadBytes) = 0
      BY <3>1
    <3>3. HeadOf(<<>>) = <<>> /\ RestOf(<<>>) = <<>>
      BY <3>2 DEF HeadOf, RestOf
    <3>4. TrimToTail(<<>>, TailBytes) = <<>>
      <4>1. Size(<<>>) <= TailBytes /\ TailBytes \in Nat /\ <<>> \in Seq(Characters)
        BY Halves, SizeOfOne, EmptySeq
      <4> QED
        BY <4>1, TailFits
    <3>5. <<>> \o <<>> = <<>>
      BY EmptySeq, ConcatEmptySeq
    <3>6. /\ NewCapture.headRoom = HeadBytes /\ NewCapture.tail = <<>> /\ ~NewCapture.capped
          /\ Size(<<>>) + HeadBytes = HeadBytes /\ Unnoted(<<>>) = <<>>
      BY Halves, SizeOfOne, UnnotedFacts DEF NewCapture
    <3>7. (IF NewCapture.capped THEN <<OverBudget>> ELSE <<>>) = <<>>
      BY <3>6
    <3> QED
      BY <3>3, <3>4, <3>5, <3>6, <3>7, Zenon DEF Ordered
  <2> QED
    BY <2>1, <2>2, <2>3, <2>4, <2>5 DEF Traced
<1> QED
  BY <1>1, <1>2, <1>3 DEF RecordInv, AllTraced

\* What the monitor does leaves it so.
LEMMA HandledKeepsTraced ==
  ASSUME RecordInv, Handled
  PROVE  RecordInv'
<1>1. BudgetInv /\ Typed /\ BudgetInv' /\ Typed'
  BY HandledKeepsBudget DEF RecordInv, BudgetInv
<1>2. /\ UNCHANGED <<instance, written, taken, carry, capture>>
      /\ (broken => broken') /\ (cut => cut')
      /\ ~broken' => \A s \in Streams : Noticed(s)
      /\ \A s \in Streams : reader'[s] # reader[s] => broken' \/ cut'
      /\ ~broken' /\ ~cut' /\ Whole => Whole'
  BY DEF Handled, Moved
<1> SUFFICES ASSUME ~broken', ~cut' PROVE Whole' /\ AllTraced'
  BY <1>1 DEF RecordInv, Unbroken
<1>3. Whole /\ AllTraced
  BY <1>2 DEF RecordInv, Unbroken
<1>4. ASSUME NEW s \in Streams
      PROVE  Traced(reader'[s], carry'[s], capture'[s], Seen(s)', Decoded(s)', Text(s)')
  <2>1. Traced(reader[s], carry[s], capture[s], Seen(s), Decoded(s), Text(s))
    BY <1>3 DEF AllTraced
  <2>2. reader'[s] = reader[s] /\ carry'[s] = carry[s] /\ capture'[s] = capture[s]
    BY <1>2
  <2>3. Seen(s)' = Seen(s) /\ Decoded(s)' = Decoded(s)
    BY <1>2 DEF Seen, Decoded, output
  <2>4. PICK note \in {<<>>, <<Note>>} : Text(s)' = rows[s] \o (note \o chunks[s])
    BY <1>2 DEF Noticed, Text
  <2>5. /\ Size(Text(s)') = Size(Text(s)) /\ Gaps(Text(s)') = Gaps(Text(s))
        /\ Unnoted(Text(s)') = Unnoted(Text(s))
    <3> DEFINE a == rows[s]
               b == chunks[s]
    <3>1. a \in Seq(Pieces) /\ b \in Seq(Pieces)
      BY <1>1, TracedTypes
    <3>2. Text(s) = a \o b /\ Text(s)' = a \o (note \o b)
      BY <2>4 DEF Text
    <3> HIDE DEF a, b
    <3>3. /\ Size(a \o (note \o b)) = Size(a \o b) /\ Gaps(a \o (note \o b)) = Gaps(a \o b)
          /\ Unnoted(a \o (note \o b)) = Unnoted(a \o b)
      BY <3>1, NoteBetween
    <3> QED
      BY <3>2, <3>3
  <2> QED
    BY <2>1, <2>2, <2>3, <2>5, TracedSame
<1>5. Whole'
  BY <1>2, <1>3
<1> QED
  BY <1>4, <1>5 DEF AllTraced

\* The command writes where a reader still reads, and exits.
LEMMA CommandKeepsTraced ==
  ASSUME RecordInv, (\E s \in Streams : Write(s)) \/ (\E p \in Processes : Exit(p))
  PROVE  RecordInv'
<1>1. BudgetInv /\ BudgetInv'
  BY CommandKeepsBudget DEF RecordInv
<1>2. /\ UNCHANGED <<instance, taken, reader, carry, capture, chunks, child, attempt, rows, broken, cut>>
      /\ \A s \in Streams : reader[s] = "ended" => written'[s] = written[s]
  <2>1. written \in [Streams -> Nat]
    BY <1>1 DEF BudgetInv, Typed, TypeOK
  <2>2. ASSUME NEW s \in Streams, Write(s) PROVE <1>2
    BY <2>1, <2>2 DEF Write, readers, monitor, trouble
  <2>3. ASSUME NEW p \in Processes, Exit(p) PROVE <1>2
    BY <2>3 DEF Exit, readers, monitor, trouble
  <2> QED
    BY <2>2, <2>3
<1> SUFFICES ASSUME Unbroken PROVE Whole' /\ AllTraced'
  BY <1>1, <1>2 DEF RecordInv, Unbroken
<1>3. Whole /\ AllTraced
  BY DEF RecordInv
<1>4. ASSUME NEW s \in Streams
      PROVE  Traced(reader'[s], carry'[s], capture'[s], Seen(s)', Decoded(s)', Text(s)')
  <2>1. Traced(reader[s], carry[s], capture[s], Seen(s), Decoded(s), Text(s))
    BY <1>3 DEF AllTraced
  <2>2. /\ reader'[s] = reader[s] /\ carry'[s] = carry[s] /\ capture'[s] = capture[s]
        /\ Seen(s)' = Seen(s) /\ Text(s)' = Text(s)
    BY <1>2 DEF Seen, Text, output
  <2>3. reader[s] = "ended" => Decoded(s)' = Decoded(s)
    BY <1>2 DEF Decoded, output
  <2> QED
    BY <2>1, <2>2, <2>3 DEF Traced
<1>5. Whole'
  BY <1>2, <1>3 DEF Whole, Ended, Closed
<1> QED
  BY <1>4, <1>5 DEF AllTraced
\* A read goes on with what is kept of the one before.
LEMMA ReadKeepsTraced ==
  ASSUME RecordInv, NEW s \in Streams, Read(s)
  PROVE  RecordInv'
<1>1. BudgetInv /\ Typed /\ ReaderTypes /\ OtherTypes /\ BudgetInv'
  BY ReadKeepsBudget, TypedParts DEF RecordInv, BudgetInv
<1>2. PICK n \in Nat, more \in Seq(Characters) : \E now \in Recorded(capture[s], more) :
        /\ reader[s] = "reading" /\ n > 0 /\ taken[s] + n <= written[s]
        /\ taken' = [taken EXCEPT ![s] = @ + n]
        /\ LET bytes == carry[s] \o SubSeq(output[s], taken[s] + 1, taken[s] + n)
           IN  /\ bytes \in Seq(Bytes)
               /\ more = TakeValidUtf8(bytes).content
               /\ carry' = [carry EXCEPT ![s] = TakeValidUtf8(bytes).carry]
        /\ Pass(s, now.capture, now.sent, "reading")
        /\ UNCHANGED <<command, monitor>>
  BY <1>1, ReadTakes
<1>3. PICK now \in Recorded(capture[s], more) : Pass(s, now.capture, now.sent, "reading")
  BY <1>2
<1>4. /\ UNCHANGED <<instance, written, holders, exited, child, terminating, finishing, attempt, rows,
                     faults, broken, cut>>
  BY <1>2 DEF command, monitor, trouble
<1> SUFFICES ASSUME Unbroken PROVE Whole' /\ AllTraced'
  BY <1>1, <1>4 DEF RecordInv, Unbroken
<1>5. Whole /\ AllTraced
  BY DEF RecordInv
<1>6. ~Ended /\ child /\ Whole'
  <2>1. ~Ended
    BY <1>2, <1>5 DEF Whole, Closed
  <2>2. attempt = "Running"
    BY <1>1, <2>1 DEF Ended, Typed, TypeOK
  <2> QED
    BY <1>4, <1>5, <2>1, <2>2 DEF Whole, Ended
<1>7. /\ rows[s] \in Seq(Pieces) /\ chunks[s] \in Seq(Pieces) /\ Text(s) \in Seq(Pieces)
      /\ taken[s] \in Nat /\ written[s] \in Nat /\ written[s] <= Len(output[s])
      /\ output[s] \in Seq(Bytes) /\ Len(output[s]) \in Nat
      /\ SubSeq(output[s], 1, taken[s]) \in Seq(Bytes)
      /\ Seen(s).content \in Seq(Characters)
      /\ capture[s] \in Captures /\ Size(capture[s].tail) <= capture[s].held
  BY <1>1, TracedTypes
<1>8. PICK head, rest : PartsOf(capture[s], more, now, head, rest)
  BY <1>7, RecordedParts
<1>9. now.capture \in Captures /\ now.sent \in Seq(Pieces)
  BY <1>7, <1>8, PartsType
<1>10. /\ capture' = [capture EXCEPT ![s] = now.capture]
       /\ \A t \in Streams \ {s} : chunks'[t] = chunks[t] /\ reader'[t] = reader[t]
       /\ chunks'[s] = chunks[s] \o now.sent /\ reader'[s] = "reading"
  BY <1>1, <1>3, <1>6, <1>9, Passed
<1>11. /\ capture \in [Streams -> Captures] /\ taken \in [Streams -> Nat]
       /\ carry \in [Streams -> {<<>>, <<"lead">>}]
  BY <1>1 DEF ReaderTypes
<1> DEFINE before == SubSeq(output[s], 1, taken[s])
           after == SubSeq(output[s], taken[s] + 1, taken[s] + n)
           bytes == carry[s] \o after
<1>12. /\ capture'[s] = now.capture /\ taken'[s] = taken[s] + n
       /\ carry'[s] = TakeValidUtf8(bytes).carry /\ more = TakeValidUtf8(bytes).content
       /\ \A t \in Streams \ {s} :
            capture'[t] = capture[t] /\ taken'[t] = taken[t] /\ carry'[t] = carry[t]
  <2> HIDE DEF after, output
  <2> QED
    BY <1>2, <1>10, <1>11 DEF after
<1>13. /\ Counted(capture[s], Seen(s).content, Text(s)) /\ carry[s] = Seen(s).carry
       /\ CutBetween(Seen(s).content) => Ordered(capture[s], Seen(s).content, Text(s))
  BY <1>2, <1>5 DEF AllTraced, Traced
<1>14. after \in Seq(Bytes) /\ SubSeq(output[s], 1, taken[s] + n) = before \o after
  <2> DEFINE all == output[s]
             i == taken[s]
             j == taken[s] + n
  <2>1. all \in Seq(Bytes) /\ i \in Nat /\ j \in Nat /\ i <= j /\ j <= Len(all) /\ Len(all) \in Nat
    <3> HIDE DEF output
    <3> QED
      BY <1>2, <1>7
  <2> HIDE DEF all, i, j
  <2>2. SubSeq(all, i + 1, j) \in Seq(Bytes)
    BY <2>1
  <2>3. SubSeq(all, 1, j) = SubSeq(all, 1, i) \o SubSeq(all, i + 1, j)
    <3>1. 1 \in 1..(Len(all) + 1) /\ i \in (1 - 1)..Len(all) /\ j \in i..Len(all)
      BY <2>1
    <3> QED
      BY <2>1, <3>1, ConcatAdjacentSubSeq
  <2> QED
    BY <2>2, <2>3 DEF all, i, j
<1>15. /\ Seen(s)'.content = Seen(s).content \o more /\ Seen(s)'.carry = carry'[s]
  <2>1. output' = output
    BY <1>4 DEF output
  <2>2. Seen(s)' = TakeValidUtf8(before \o after)
    BY <1>12, <1>14, <2>1 DEF Seen
  <2>3. TakeValidUtf8(before).carry = carry[s] /\ TakeValidUtf8(before).content = Seen(s).content
    BY <1>13 DEF Seen
  <2>4. before \in Seq(Bytes)
    BY <1>7
  <2> HIDE DEF before, after, output
  <2>5. /\ TakeValidUtf8(before \o after).content
             = TakeValidUtf8(before).content \o TakeValidUtf8(TakeValidUtf8(before).carry \o after).content
        /\ TakeValidUtf8(before \o after).carry
             = TakeValidUtf8(TakeValidUtf8(before).carry \o after).carry
    BY <1>14, <2>4, DecodingIsIncremental
  <2> QED
    BY <1>12, <2>2, <2>3, <2>5
<1>16. Text(s)' = Text(s) \o now.sent
  <2> DEFINE u == rows[s]
             v == chunks[s]
             w == now.sent
  <2>1. u \in Seq(Pieces) /\ v \in Seq(Pieces) /\ w \in Seq(Pieces)
    BY <1>7, <1>9
  <2>2. Text(s)' = u \o (v \o w) /\ Text(s) = u \o v
    BY <1>4, <1>10 DEF Text
  <2> HIDE DEF u, v, w
  <2>3. (u \o v) \o w = u \o (v \o w)
    BY <2>1, Regrouped
  <2> QED
    BY <2>2, <2>3 DEF w
<1> HIDE DEF before, after, bytes
<1>17. Counted(now.capture, Seen(s).content \o more, Text(s) \o now.sent)
  <2> DEFINE content == Seen(s).content
             text == Text(s)
             c == capture[s]
  <2>1. /\ content \in Seq(Characters) /\ text \in Seq(Pieces) /\ c \in Captures
        /\ Size(c.tail) <= c.held /\ Counted(c, content, text) /\ PartsOf(c, more, now, head, rest)
    BY <1>7, <1>8, <1>13
  <2> HIDE DEF content, text, c
  <2>2. Counted(now.capture, content \o more, text \o now.sent)
    BY <2>1, CountedOn
  <2> QED
    BY <2>2 DEF content, text
<1>18. ASSUME CutBetween(Seen(s).content \o more)
       PROVE  Ordered(now.capture, Seen(s).content \o more, Text(s) \o now.sent)
  <2> DEFINE content == Seen(s).content
             text == Text(s)
             c == capture[s]
  <2>1. /\ content \in Seq(Characters) /\ text \in Seq(Pieces) /\ c \in Captures
        /\ Size(c.tail) <= c.held /\ Counted(c, content, text) /\ PartsOf(c, more, now, head, rest)
        /\ (CutBetween(content) => Ordered(c, content, text)) /\ CutBetween(content \o more)
    BY <1>7, <1>8, <1>13, <1>18
  <2> HIDE DEF content, text, c
  <2>2. CutBetween(content)
    BY <2>1, CleanStart
  <2>3. Ordered(now.capture, content \o more, text \o now.sent)
    BY <2>1, <2>2, OrderedOn
  <2> QED
    BY <2>3 DEF content, text
<1>19. ASSUME NEW t \in Streams
       PROVE  Traced(reader'[t], carry'[t], capture'[t], Seen(t)', Decoded(t)', Text(t)')
  <2>1. CASE t = s
    <3>1. Traced(reader'[s], carry'[s], capture'[s], Seen(s)', Decoded(s)', Text(s)')
      BY <1>10, <1>12, <1>15, <1>16, <1>17, <1>18 DEF Traced
    <3> QED
      BY <2>1, <3>1
  <2>2. CASE t # s
    <3>1. t \in Streams \ {s} /\ Traced(reader[t], carry[t], capture[t], Seen(t), Decoded(t), Text(t))
      BY <1>5, <2>2 DEF AllTraced
    <3>2. /\ reader'[t] = reader[t] /\ carry'[t] = carry[t] /\ capture'[t] = capture[t]
          /\ chunks'[t] = chunks[t] /\ rows'[t] = rows[t] /\ taken'[t] = taken[t] /\ written' = written
          /\ output' = output
      BY <1>4, <1>10, <1>12, <3>1 DEF output
    <3>3. Seen(t)' = Seen(t) /\ Decoded(t)' = Decoded(t) /\ Text(t)' = Text(t)
      BY <3>2 DEF Seen, Decoded, Text
    <3> QED
      BY <3>1, <3>2, <3>3
  <2> QED
    BY <2>1, <2>2
<1> QED
  BY <1>6, <1>19 DEF AllTraced
\* The end of a stream accounts for what it decodes to.
LEMMA EndKeepsTraced ==
  ASSUME RecordInv, NEW s \in Streams, ReadToEnd(s)
  PROVE  RecordInv'
<1>1. BudgetInv /\ Typed /\ ReaderTypes /\ OtherTypes /\ BudgetInv'
  BY EndKeepsBudget, TypedParts DEF RecordInv, BudgetInv
<1>2. PICK more \in Seq(Characters) : \E now \in Recorded(capture[s], more) :
        /\ more = IF carry[s] = <<>> THEN <<>> ELSE <<Replacement>>
        /\ reader[s] = "reading" /\ taken[s] = written[s]
        /\ carry' = [carry EXCEPT ![s] = <<>>]
        /\ Pass(s, now.capture, now.sent \o FlushTail(now.capture), "ended")
        /\ UNCHANGED <<command, taken, monitor>>
  BY <1>1, EndTakes
<1>3. PICK now \in Recorded(capture[s], more) :
        Pass(s, now.capture, now.sent \o FlushTail(now.capture), "ended")
  BY <1>2
<1>4. UNCHANGED <<instance, written, taken, holders, exited, child, terminating, finishing, attempt,
                  rows, faults, broken, cut>>
  BY <1>2 DEF command, monitor, trouble
<1> SUFFICES ASSUME Unbroken PROVE Whole' /\ AllTraced'
  BY <1>1, <1>4 DEF RecordInv, Unbroken
<1>5. Whole /\ AllTraced
  BY DEF RecordInv
<1>6. ~Ended /\ child /\ Whole'
  <2>1. ~Ended
    BY <1>2, <1>5 DEF Whole, Closed
  <2>2. attempt = "Running"
    BY <1>1, <2>1 DEF Ended, Typed, TypeOK
  <2> QED
    BY <1>4, <1>5, <2>1, <2>2 DEF Whole, Ended
<1>7. /\ rows[s] \in Seq(Pieces) /\ chunks[s] \in Seq(Pieces) /\ Text(s) \in Seq(Pieces)
      /\ Seen(s).content \in Seq(Characters)
      /\ capture[s] \in Captures /\ Size(capture[s].tail) <= capture[s].held
  BY <1>1, TracedTypes
<1>8. PICK head, rest : PartsOf(capture[s], more, now, head, rest)
  BY <1>7, RecordedParts
<1>9. /\ now.capture \in Captures /\ now.sent \in Seq(Pieces)
      /\ Size(now.capture.tail) <= now.capture.held
  <2>1. /\ now.capture \in Captures /\ now.sent \in Seq(Pieces)
        /\ now.capture.held = capture[s].held + Size(rest)
        /\ Size(now.capture.tail) \in Nat /\ Size(now.capture.tail) <= Size(capture[s].tail) + Size(rest)
    BY <1>7, <1>8, PartsType
  <2>2. capture[s].tail \in Seq(Characters) /\ capture[s].held \in Nat /\ Size(rest) \in Nat
    BY <1>7, <1>8 DEF Captures, PartsOf
  <2>3. Size(capture[s].tail) \in Nat
    BY <2>2, SizeAdds
  <2> QED
    BY <1>7, <2>1, <2>2, <2>3
<1> DEFINE flushed == FlushTail(now.capture)
           sent == now.sent \o flushed
<1>10. flushed \in Seq(Pieces) /\ sent \in Seq(Pieces) /\ Pass(s, now.capture, sent, "ended")
  <2>1. flushed \in Seq(Pieces)
    BY <1>9, Flushed
  <2>2. sent \in Seq(Pieces)
    <3> HIDE DEF flushed
    <3> QED
      BY <1>9, <2>1, Joined
  <2> QED
    BY <1>3, <2>1, <2>2
<1> HIDE DEF sent, flushed
<1>11. /\ capture' = [capture EXCEPT ![s] = now.capture]
       /\ \A t \in Streams \ {s} : chunks'[t] = chunks[t] /\ reader'[t] = reader[t]
       /\ chunks'[s] = chunks[s] \o sent /\ reader'[s] = "ended"
  BY <1>1, <1>6, <1>9, <1>10, Passed
<1>12. capture \in [Streams -> Captures] /\ carry \in [Streams -> {<<>>, <<"lead">>}]
  BY <1>1 DEF ReaderTypes
<1>13. \A t \in Streams \ {s} : capture'[t] = capture[t] /\ carry'[t] = carry[t]
  BY <1>2, <1>11, <1>12
<1>14. /\ Counted(capture[s], Seen(s).content, Text(s)) /\ carry[s] = Seen(s).carry
       /\ CutBetween(Seen(s).content) => Ordered(capture[s], Seen(s).content, Text(s))
  BY <1>2, <1>5 DEF AllTraced, Traced
<1>15. Decoded(s) = Seen(s).content \o more
  BY <1>2, <1>14 DEF Decoded, Seen
<1>16. Text(s)' = (Text(s) \o now.sent) \o flushed
  <2> DEFINE u == rows[s]
             v == chunks[s]
             w == now.sent
             uv == u \o v
  <2>1. u \in Seq(Pieces) /\ v \in Seq(Pieces) /\ w \in Seq(Pieces) /\ flushed \in Seq(Pieces)
    BY <1>7, <1>9, <1>10
  <2>2. uv \in Seq(Pieces)
    BY <1>7 DEF Text
  <2>3. Text(s)' = u \o (v \o (w \o flushed)) /\ Text(s) = u \o v
    BY <1>4, <1>11 DEF Text, sent
  <2> HIDE DEF u, v, w
  <2>4. w \o flushed \in Seq(Pieces)
    BY <2>1, Joined
  <2>5. uv \o (w \o flushed) = u \o (v \o (w \o flushed))
    <3> DEFINE wf == w \o flushed
    <3>1. wf \in Seq(Pieces)
      BY <2>4
    <3> HIDE DEF wf
    <3>2. (u \o v) \o wf = u \o (v \o wf)
      BY <2>1, <3>1, Regrouped
    <3> QED
      BY <3>2 DEF wf
  <2>6. Text(s) = uv
    BY <2>3
  <2> HIDE DEF uv
  <2>7. (uv \o w) \o flushed = uv \o (w \o flushed)
    BY <2>1, <2>2, Regrouped
  <2> QED
    BY <2>3, <2>5, <2>6, <2>7 DEF w
<1>17. Accounted(Decoded(s), (Text(s) \o now.sent) \o flushed)
  <2> DEFINE content == Seen(s).content
             all == content \o more
             text == Text(s)
             told == text \o now.sent
             c == capture[s]
             d == now.capture
  <2>1. /\ content \in Seq(Characters) /\ text \in Seq(Pieces) /\ c \in Captures
        /\ Size(c.tail) <= c.held /\ Counted(c, content, text) /\ PartsOf(c, more, now, head, rest)
        /\ (CutBetween(content) => Ordered(c, content, text))
    BY <1>7, <1>8, <1>14
  <2> HIDE DEF content, text, c
  <2>2. Counted(now.capture, all, told)
    BY <2>1, CountedOn
  <2>3. ASSUME CutBetween(all) PROVE Ordered(now.capture, all, told)
    <3>1. CutBetween(content)
      BY <2>1, <2>3, CleanStart
    <3> QED
      BY <2>1, <2>3, <3>1, OrderedOn
  <2>4. all \in Seq(Characters) /\ told \in Seq(Pieces) /\ d \in Captures /\ Size(d.tail) <= d.held
    BY <1>9, <2>1, Joined
  <2>5. Counted(d, all, told) /\ (CutBetween(all) => Ordered(d, all, told))
    BY <2>2, <2>3
  <2>6. flushed = FlushTail(d)
    BY DEF flushed
  <2> HIDE DEF all, told, d
  <2>7. Accounted(all, told \o FlushTail(d))
    BY <2>4, <2>5, FlushAccounts
  <2> QED
    BY <1>15, <2>6, <2>7 DEF all, told, content, text
<1>18. ASSUME NEW t \in Streams
       PROVE  Traced(reader'[t], carry'[t], capture'[t], Seen(t)', Decoded(t)', Text(t)')
  <2>1. output' = output
    BY <1>4 DEF output
  <2>2. CASE t = s
    <3>1. Decoded(s)' = Decoded(s)
      BY <1>4, <2>1 DEF Decoded
    <3>2. Accounted(Decoded(s)', Text(s)')
      BY <1>16, <1>17, <3>1
    <3>3. Traced(reader'[s], carry'[s], capture'[s], Seen(s)', Decoded(s)', Text(s)')
      BY <1>11, <3>2 DEF Traced
    <3> QED
      BY <2>2, <3>3
  <2>3. CASE t # s
    <3>1. t \in Streams \ {s} /\ Traced(reader[t], carry[t], capture[t], Seen(t), Decoded(t), Text(t))
      BY <1>5, <2>3 DEF AllTraced
    <3>2. /\ reader'[t] = reader[t] /\ carry'[t] = carry[t] /\ capture'[t] = capture[t]
          /\ chunks'[t] = chunks[t] /\ rows'[t] = rows[t] /\ taken' = taken /\ written' = written
      BY <1>4, <1>11, <1>13, <3>1
    <3>3. Seen(t)' = Seen(t) /\ Decoded(t)' = Decoded(t) /\ Text(t)' = Text(t)
      BY <2>1, <3>2 DEF Seen, Decoded, Text
    <3> QED
      BY <3>1, <3>2, <3>3
  <2> QED
    BY <2>2, <2>3
<1> QED
  BY <1>6, <1>18 DEF AllTraced

\* The trace is an invariant.
LEMMA RecordHolds == Spec => []RecordInv
<1>1. RecordInv /\ [Next]_vars => RecordInv'
  <2> SUFFICES ASSUME RecordInv, [Next]_vars PROVE RecordInv'
    OBVIOUS
  <2>1. Typed
    BY DEF RecordInv, BudgetInv
  <2>2. CASE UNCHANGED vars
    BY <2>2 DEF RecordInv, BudgetInv, InBudget, Typed, TypeOK, Unbroken, Whole, Ended, Closed,
                AllTraced, Seen, Text, Decoded, vars, command, readers, output
  <2>3. CASE Handled
    BY <2>3, HandledKeepsTraced
  <2>4. CASE \E s \in Streams : Write(s) \/ Read(s) \/ ReadToEnd(s)
    BY <2>4, CommandKeepsTraced, ReadKeepsTraced, EndKeepsTraced
  <2>5. CASE \E p \in Processes : Exit(p)
    BY <2>5, CommandKeepsTraced
  <2> QED
    BY <2>1, <2>2, <2>3, <2>4, <2>5, StepsAre
<1> QED
  BY <1>1, InitTraced, PTL DEF Spec

\* A settled attempt has the rows that its readers, both at their end, accounted for.
LEMMA SettledIsAccounted ==
  ASSUME RecordInv, Ended, Unbroken, NEW s \in Streams
  PROVE  Accounted(Decoded(s), rows[s])
<1>1. Typed /\ Closed /\ chunks = NoText
  BY DEF RecordInv, BudgetInv, Whole
<1>2. Traced(reader[s], carry[s], capture[s], Seen(s), Decoded(s), Text(s))
  BY DEF RecordInv, AllTraced
<1>3. reader[s] = "ended"
  BY <1>1, <1>2 DEF Closed, Traced
<1>4. rows[s] \in Seq(Pieces) /\ chunks[s] = <<>>
  BY <1>1, TracedTypes DEF NoText
<1>5. Text(s) = rows[s]
  BY <1>4, ConcatEmptySeq DEF Text
<1> QED
  BY <1>2, <1>3, <1>5 DEF Traced

\* Every byte of a settled attempt is in its rows or in the gap its marker names, for
\* every command, budget, buffer and interleaving; and whatever fails, no stream takes
\* more than its budget: StreamCapture, flush_tail.
THEOREM BytesAreAccountedFor == Spec => []NoByteUnaccountedFor
<1>1. RecordInv => NoByteUnaccountedFor
  <2> SUFFICES ASSUME RecordInv PROVE NoByteUnaccountedFor
    OBVIOUS
  <2>1. ASSUME NEW s \in Streams PROVE Size(rows[s]) + Size(chunks[s]) <= MaxStreamBytes
    <3>1. /\ InBudget /\ rows[s] \in Seq(Pieces) /\ chunks[s] \in Seq(Pieces) /\ capture[s] \in Captures
      BY TracedTypes DEF RecordInv, BudgetInv
    <3>2. Size(rows[s]) \in Nat /\ Size(chunks[s]) \in Nat
      BY <3>1, SizeAdds
    <3>3. capture[s].headRoom \in Nat
      BY <3>1, Halves DEF Captures
    <3> QED
      BY <3>1, <3>2, <3>3, Halves DEF InBudget
  <2>2. ASSUME Ended, Unbroken, NEW s \in Streams
        PROVE  LET missing == Size(Decoded(s)) - Size(rows[s])
               IN  missing \in Nat /\ Gaps(rows[s]) = {missing} \ {0}
    BY <2>2, SettledIsAccounted DEF Accounted
  <2> QED
    BY <2>1, <2>2 DEF NoByteUnaccountedFor
<1> QED
  BY <1>1, RecordHolds, PTL

\* However the bytes of a stream came, in whatever reads, passes and pieces, what is
\* recorded of it depends on the stream alone, where no character lies across the end of
\* the head: read_task_run_attempt_stream, finish_reading.
THEOREM StreamsAreRecordedAsWritten == Spec => []RecordedAsWritten
<1>1. RecordInv => RecordedAsWritten
  BY SettledIsAccounted DEF RecordedAsWritten, Accounted
<1> QED
  BY <1>1, RecordHolds, PTL

=============================================================================
