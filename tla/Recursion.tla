----------------------------- MODULE Recursion -----------------------------
(***************************************************************************)
(* Induction and recursion over the naturals, said of sets and functions   *)
(* where the library's theorems take an operator: T is the set of the      *)
(* numbers a predicate holds of, `step' the function a definition recurs   *)
(* by.  And, by these, what FlattenSeq makes of sequences of any length.   *)
(***************************************************************************)
EXTENDS SequencesExt, WellFoundedInduction, TLAPS

\* A set of naturals has a least element.
LEMMA LeastElement ==
    ASSUME NEW T, T \subseteq Nat, T # {}
    PROVE  \E m \in T : \A k \in T : m <= k
  <1> DEFINE R == OpToRel(<, Nat)
  <1>1. IsWellFoundedOn(R, Nat)
    BY NatLessThanWellFounded
  <1>2. ASSUME NEW k \in Nat, NEW m \in Nat PROVE <<k, m>> \in R <=> k < m
    BY DEF OpToRel
  <1> HIDE DEF R
  <1>3. PICK m \in T : \A k \in T : ~(<<k, m>> \in R)
    BY <1>1, WFMin
  <1>4. ASSUME NEW k \in T PROVE m <= k
    <2>1. k \in Nat /\ m \in Nat
      OBVIOUS
    <2>2. ~(k < m)
      BY <1>2, <1>3, <2>1
    <2> QED
      BY <2>1, <2>2
  <1> QED
    BY <1>4

\* A set of naturals that has 0, and with each number the next one, has all.
THEOREM SetInduction ==
    ASSUME NEW T, 0 \in T, \A n \in Nat : n \in T => n + 1 \in T
    PROVE  Nat \subseteq T
  <1> DEFINE U == Nat \ T
  <1> SUFFICES ASSUME U # {} PROVE FALSE
    OBVIOUS
  <1>1. PICK m \in U : \A k \in U : m <= k
    BY LeastElement
  <1>2. m \in Nat /\ m # 0 /\ m - 1 \in Nat /\ (m - 1) + 1 = m
    OBVIOUS
  <1>3. m - 1 \in T
    BY <1>1, <1>2
  <1> QED
    BY <1>2, <1>3

\* `step' takes each number and value of S to a value of S; f starts with `first' and goes
\* on by `step'.
IsStep(step, S) == step \in [Nat -> [S -> S]]

Recurs(f, S, first, step) ==
    f \in [Nat -> S] /\ f[0] = first /\ \A n \in Nat : f[n + 1] = step[n][f[n]]

\* The same of g up to n.
Unrolled(g, n, S, first, step) ==
    /\ g \in [0 .. n -> S]
    /\ g[0] = first
    /\ \A k \in 0 .. n - 1 : g[k + 1] = step[k][g[k]]

\* Two that go as far as k are the same there.
LEMMA UnrolledUnique ==
    ASSUME NEW S, NEW first, NEW step, NEW m \in Nat, NEW n \in Nat, NEW g, NEW h,
           Unrolled(g, m, S, first, step), Unrolled(h, n, S, first, step)
    PROVE  \A k \in Nat : k <= m /\ k <= n => g[k] = h[k]
  <1> DEFINE T == {k \in Nat : k <= m /\ k <= n => g[k] = h[k]}
  <1>1. 0 \in T
    BY DEF Unrolled
  <1>2. ASSUME NEW k \in Nat, k \in T PROVE k + 1 \in T
    <2> SUFFICES ASSUME k + 1 <= m, k + 1 <= n PROVE g[k + 1] = h[k + 1]
      OBVIOUS
    <2>1. g[k] = h[k] /\ k \in 0 .. m - 1 /\ k \in 0 .. n - 1
      BY <1>2
    <2> QED
      BY <2>1 DEF Unrolled
  <1> HIDE DEF T
  <1>3. Nat \subseteq T
    BY <1>1, <1>2, SetInduction
  <1> QED
    BY <1>3 DEF T

\* Primitive recursion: there is a function that starts with `first' and goes on by `step'.
THEOREM PrimitiveRecursion ==
    ASSUME NEW S, NEW first \in S, NEW step, IsStep(step, S)
    PROVE  \E f : Recurs(f, S, first, step)
  <1> USE DEF IsStep
  <1> DEFINE T == {n \in Nat : \E g : Unrolled(g, n, S, first, step)}
  <1>1. 0 \in T
    <2>1. Unrolled([k \in 0 .. 0 |-> first], 0, S, first, step)
      BY DEF Unrolled
    <2> QED
      BY <2>1
  <1>2. ASSUME NEW n \in Nat, n \in T PROVE n + 1 \in T
    <2>1. PICK g : Unrolled(g, n, S, first, step)
      BY <1>2
    <2> DEFINE h == [k \in 0 .. n + 1 |-> IF k = n + 1 THEN step[n][g[n]] ELSE g[k]]
    <2>2. g[n] \in S /\ step[n][g[n]] \in S
      BY <2>1 DEF Unrolled
    <2>3. h \in [0 .. n + 1 -> S]
      BY <2>1, <2>2 DEF Unrolled
    <2>4. h[0] = first
      BY <2>1 DEF Unrolled
    <2>5. ASSUME NEW k \in 0 .. n PROVE h[k + 1] = step[k][h[k]]
      <3>1. CASE k = n
        <4>1. k \in 0 .. n + 1 /\ k + 1 \in 0 .. n + 1 /\ k + 1 = n + 1 /\ k # n + 1
          BY <3>1
        <4> QED
          BY <3>1, <4>1
      <3>2. CASE k # n
        <4>1. k \in 0 .. n - 1 /\ k + 1 \in 0 .. n + 1 /\ k + 1 # n + 1 /\ k # n + 1
          BY <3>2
        <4> QED
          BY <2>1, <4>1 DEF Unrolled
      <3> QED
        BY <3>1, <3>2
    <2>6. Unrolled(h, n + 1, S, first, step)
      <3> HIDE DEF h
      <3>1. (n + 1) - 1 = n
        OBVIOUS
      <3> QED
        BY <2>3, <2>4, <2>5, <3>1 DEF Unrolled
    <2> QED
      BY <2>6
  <1> DEFINE G(n) == CHOOSE g : Unrolled(g, n, S, first, step)
             f == [n \in Nat |-> G(n)[n]]
  <1> HIDE DEF T
  <1>3. Nat \subseteq T
    BY <1>1, <1>2, SetInduction
  <1>4. ASSUME NEW n \in Nat PROVE Unrolled(G(n), n, S, first, step)
    <2>1. \E g : Unrolled(g, n, S, first, step)
      BY <1>3 DEF T
    <2> QED
      BY <2>1
  <1> HIDE DEF G
  <1>5. f \in [Nat -> S]
    <2>1. ASSUME NEW n \in Nat PROVE G(n)[n] \in S
      BY <1>4 DEF Unrolled
    <2> QED
      BY <2>1
  <1>6. f[0] = first
    BY <1>4 DEF Unrolled
  <1>7. ASSUME NEW n \in Nat PROVE f[n + 1] = step[n][f[n]]
    <2>1. Unrolled(G(n), n, S, first, step) /\ Unrolled(G(n + 1), n + 1, S, first, step)
      BY <1>4
    <2>2. G(n)[n] = G(n + 1)[n]
      BY <2>1, UnrolledUnique
    <2>3. G(n + 1)[n + 1] = step[n][G(n + 1)[n]]
      BY <2>1 DEF Unrolled
    <2> QED
      BY <2>2, <2>3
  <1>8. Recurs(f, S, first, step)
    <2> HIDE DEF f
    <2> QED
      BY <1>5, <1>6, <1>7 DEF Recurs
  <1> QED
    BY <1>8

----------------------------------------------------------------------------
\* FlattenSeq.

\* FlattenSeq appends one sequence after the other.
LEMMA FlattenUnrolled ==
    ASSUME NEW E, NEW seqs \in Seq(Seq(E))
    PROVE  \E f \in [Nat -> Seq(E)] :
             /\ f[0] = <<>>
             /\ \A n \in 0 .. Len(seqs) - 1 : f[n + 1] = f[n] \o seqs[n + 1]
             /\ FlattenSeq(seqs) = f[Len(seqs)]
  <1> DEFINE L == Len(seqs)
             step == [n \in Nat |->
                        [s \in Seq(E) |-> IF n < L THEN s \o seqs[n + 1] ELSE s]]
  <1>1. L \in Nat /\ \A n \in 1 .. L : seqs[n] \in Seq(E)
    OBVIOUS
  <1>2. step \in [Nat -> [Seq(E) -> Seq(E)]]
    <2>1. ASSUME NEW n \in Nat, NEW s \in Seq(E)
          PROVE  (IF n < L THEN s \o seqs[n + 1] ELSE s) \in Seq(E)
      <3>1. CASE n < L
        <4>1. seqs[n + 1] \in Seq(E)
          BY <1>1, <3>1
        <4> QED
          BY <4>1
      <3> QED
        BY <3>1
    <2> QED
      BY <2>1
  <1>3. <<>> \in Seq(E)
    OBVIOUS
  <1>4. PICK f \in [Nat -> Seq(E)] : f[0] = <<>> /\ \A n \in Nat : f[n + 1] = step[n][f[n]]
    <2> DEFINE S == Seq(E)
               first == <<>>
    <2> HIDE DEF step, S, first
    <2>1. first \in S /\ IsStep(step, S)
      BY <1>2, <1>3 DEF S, first, IsStep
    <2>2. \E f : Recurs(f, S, first, step)
      BY <2>1, PrimitiveRecursion
    <2> QED
      BY <2>2 DEF S, first, Recurs
  <1>5. ASSUME NEW n \in 0 .. L - 1 PROVE f[n + 1] = f[n] \o seqs[n + 1]
    <2> HIDE DEF L
    <2>1. n \in Nat /\ n < L
      BY <1>1
    <2>2. f[n] \in Seq(E)
      BY <2>1
    <2>3. f[n + 1] = step[n][f[n]]
      BY <1>4, <2>1
    <2>4. step[n][f[n]] = IF n < L THEN f[n] \o seqs[n + 1] ELSE f[n]
      BY <2>1, <2>2
    <2> QED
      BY <2>1, <2>3, <2>4
  <1> HIDE DEF step, L
  <1>6. FlattenSeq(seqs) = f[L]
    <2>1. CASE L = 0
      BY <1>4, <2>1 DEF FlattenSeq, L
    <2>2. CASE L # 0
      <3> DEFINE Eqn(g) == g = [i \in 1 .. L |-> IF i = 1 THEN seqs[i] ELSE g[i - 1] \o seqs[i]]
                 w == [i \in 1 .. L |-> f[i]]
                 flatten == CHOOSE g : Eqn(g)
      <3>1. Eqn(w)
        <4>1. ASSUME NEW i \in 1 .. L
              PROVE  w[i] = IF i = 1 THEN seqs[i] ELSE w[i - 1] \o seqs[i]
          <5>1. CASE i = 1
            <6>1. f[1] = f[0] \o seqs[1]
              <7>1. 0 \in 0 .. L - 1 /\ 0 + 1 = 1
                BY <1>1, <2>2
              <7> QED
                BY <1>5, <7>1
            <6>2. f[1] = seqs[1]
              BY <1>1, <1>4, <5>1, <6>1
            <6> QED
              BY <5>1, <6>2
          <5>2. CASE i # 1
            <6>1. i - 1 \in 0 .. L - 1 /\ i - 1 \in 1 .. L /\ (i - 1) + 1 = i
              BY <1>1, <5>2
            <6>2. f[(i - 1) + 1] = f[i - 1] \o seqs[(i - 1) + 1]
              BY <1>5, <6>1
            <6>3. f[i] = f[i - 1] \o seqs[i]
              BY <6>1, <6>2
            <6> QED
              BY <5>2, <6>1, <6>3
          <5> QED
            BY <5>1, <5>2
        <4>2. w = [i \in 1 .. L |-> w[i]]
          OBVIOUS
        <4> HIDE DEF w
        <4> QED
          BY <4>1, <4>2
      <3>2. Eqn(flatten)
        <4> HIDE DEF Eqn, w
        <4> QED
          BY <3>1
      <3>3. FlattenSeq(seqs) = flatten[L]
        BY <2>2 DEF FlattenSeq, L
      <3> HIDE DEF flatten, w
      <3> DEFINE T == {k \in Nat : k + 1 <= L => flatten[k + 1] = f[k + 1]}
      <3>4. 0 \in T
        <4>1. f[1] = f[0] \o seqs[1]
          <5>1. 0 \in 0 .. L - 1 /\ 0 + 1 = 1
            BY <1>1, <2>2
          <5> QED
            BY <1>5, <5>1
        <4>2. 1 \in 1 .. L
          BY <1>1, <2>2
        <4>3. flatten[1] = seqs[1]
          BY <3>2, <4>2
        <4>4. f[1] = seqs[1]
          BY <1>1, <1>4, <4>1, <4>2
        <4> QED
          BY <4>3, <4>4
      <3>5. ASSUME NEW k \in Nat, k \in T PROVE k + 1 \in T
        <4> SUFFICES ASSUME (k + 1) + 1 <= L PROVE flatten[(k + 1) + 1] = f[(k + 1) + 1]
          OBVIOUS
        <4>1. /\ (k + 1) + 1 \in 1 .. L /\ (k + 1) + 1 # 1 /\ ((k + 1) + 1) - 1 = k + 1
              /\ k + 1 \in 0 .. L - 1 /\ k + 1 <= L
          BY <1>1
        <4>2. flatten[(k + 1) + 1] = flatten[((k + 1) + 1) - 1] \o seqs[(k + 1) + 1]
          BY <3>2, <4>1
        <4>3. flatten[k + 1] = f[k + 1]
          BY <3>5, <4>1
        <4> QED
          BY <1>5, <4>1, <4>2, <4>3
      <3> HIDE DEF T
      <3>6. Nat \subseteq T
        BY <3>4, <3>5, SetInduction
      <3>7. L - 1 \in T /\ (L - 1) + 1 = L
        BY <1>1, <2>2, <3>6
      <3>8. flatten[L] = f[L]
        BY <1>1, <3>7 DEF T
      <3> QED
        BY <3>3, <3>8
    <2> QED
      BY <2>1, <2>2
  <1> QED
    BY <1>4, <1>5, <1>6 DEF L

\* Flattening nothing gives nothing.
THEOREM FlattenEmpty == FlattenSeq(<<>>) = <<>>
  BY DEF FlattenSeq

\* What is flattened is a sequence of the same elements.
LEMMA FlattenType ==
    ASSUME NEW E, NEW seqs \in Seq(Seq(E))
    PROVE  FlattenSeq(seqs) \in Seq(E)
  <1>1. PICK f \in [Nat -> Seq(E)] : FlattenSeq(seqs) = f[Len(seqs)]
    BY FlattenUnrolled
  <1> QED
    BY <1>1

\* One more sequence is appended to what the others give.
THEOREM FlattenAppend ==
    ASSUME NEW E, NEW seqs \in Seq(Seq(E)), NEW s \in Seq(E)
    PROVE  FlattenSeq(Append(seqs, s)) = FlattenSeq(seqs) \o s
  <1> DEFINE L == Len(seqs)
             more == Append(seqs, s)
  <1>1. /\ L \in Nat /\ more \in Seq(Seq(E)) /\ Len(more) = L + 1 /\ more[L + 1] = s
        /\ \A n \in 1 .. L : more[n] = seqs[n]
    OBVIOUS
  <1> HIDE DEF more
  <1>2. PICK f \in [Nat -> Seq(E)] :
            /\ f[0] = <<>>
            /\ \A n \in 0 .. L - 1 : f[n + 1] = f[n] \o seqs[n + 1]
            /\ FlattenSeq(seqs) = f[L]
    BY FlattenUnrolled
  <1>3. PICK g \in [Nat -> Seq(E)] :
            /\ g[0] = <<>>
            /\ \A n \in 0 .. Len(more) - 1 : g[n + 1] = g[n] \o more[n + 1]
            /\ FlattenSeq(more) = g[Len(more)]
    BY <1>1, FlattenUnrolled
  <1> HIDE DEF L
  <1> DEFINE T == {k \in Nat : k <= L => f[k] = g[k]}
  <1>4. 0 \in T
    BY <1>2, <1>3
  <1>5. ASSUME NEW k \in Nat, k \in T PROVE k + 1 \in T
    <2> SUFFICES ASSUME k + 1 <= L PROVE f[k + 1] = g[k + 1]
      OBVIOUS
    <2>1. k \in 0 .. L - 1 /\ k \in 0 .. Len(more) - 1 /\ k + 1 \in 1 .. L /\ k <= L
      BY <1>1
    <2> QED
      BY <1>1, <1>2, <1>3, <1>5, <2>1
  <1> HIDE DEF T
  <1>6. Nat \subseteq T
    BY <1>4, <1>5, SetInduction
  <1>7. f[L] = g[L]
    BY <1>1, <1>6 DEF T
  <1>8. L \in 0 .. Len(more) - 1
    BY <1>1
  <1>9. g[L + 1] = g[L] \o s
    BY <1>1, <1>3, <1>8
  <1> QED
    BY <1>1, <1>2, <1>3, <1>7, <1>9 DEF more
=============================================================================
