--------------------------- MODULE InductionLemmas ---------------------------
(***************************************************************************)
(* Induction over numbers, in terms of sets: what the theorems of the      *)
(* library say of an operator is said here of a set, which the provers can *)
(* instantiate. It shows that a loop computes something at each step and   *)
(* that bounded sets have a smallest and a largest member.                 *)
(***************************************************************************)
EXTENDS Integers, FiniteSetsExt, WellFoundedInduction, TLAPS

\* What holds at 0 and at every successor holds everywhere.
LEMMA Induction ==
    ASSUME NEW S, 0 \in S, \A n \in Nat : n \in S => n + 1 \in S
    PROVE  Nat \subseteq S
<1> DEFINE Less == {pair \in Nat \X Nat : pair[1] < pair[2]}
           Rest == {n \in Nat : n \notin S}
<1> SUFFICES ASSUME Rest # {}
             PROVE  FALSE
  OBVIOUS
<1>1. IsWellFoundedOn(Less, Nat)
  BY NatLessThanWellFounded DEF OpToRel
<1>2. Rest \subseteq Nat
  OBVIOUS
<1>3. PICK least \in Rest : \A n \in Rest : <<n, least>> \notin Less
  <2> HIDE DEF Less, Rest
  <2> QED
    BY <1>1, <1>2, WFMin
<1>4. least - 1 \in Nat /\ (least - 1) + 1 = least
  BY <1>2
<1>5. <<least - 1, least>> \in Less
  BY <1>4
<1> QED
  BY <1>3, <1>4, <1>5

\* The same up to a bound, step by step from below.
LEMMA BoundedInduction ==
    ASSUME NEW N \in Nat, NEW S,
           0 \in S,
           \A n \in 1 .. N : n - 1 \in S => n \in S
    PROVE  0 .. N \subseteq S
<1> DEFINE Reached == {n \in Nat : n <= N => n \in S}
<1>1. 0 \in Reached
  OBVIOUS
<1>2. ASSUME NEW n \in Nat, n \in Reached
      PROVE  n + 1 \in Reached
  <2>1. CASE n + 1 <= N
    <3>1. n + 1 \in 1 .. N /\ (n + 1) - 1 = n
      BY <2>1
    <3> QED
      BY <1>2, <2>1, <3>1
  <2> QED
    BY <2>1
<1>3. Nat \subseteq Reached
  <2> HIDE DEF Reached
  <2> QED
    BY <1>1, <1>2, Induction
<1> QED
  BY <1>3

\* Each value is computed by step from the function and the number, of which
\* step uses the values below the number only.
IsRecursion(N, T, base, step) ==
    /\ base \in T
    /\ step \in [[0 .. N -> T] \X (1 .. N) -> T]
    /\ \A n \in 1 .. N : \A f, g \in [0 .. N -> T] :
          (\A i \in 0 .. n - 1 : f[i] = g[i]) => step[<<f, n>>] = step[<<g, n>>]

Solves(out, N, T, base, step) ==
    /\ out \in [0 .. N -> T]
    /\ out[0] = base
    /\ \A n \in 1 .. N : out[n] = step[<<out, n>>]

\* There is a function that is computed so.
LEMMA RecursionExists ==
    ASSUME NEW N \in Nat, NEW T, NEW base, NEW step, IsRecursion(N, T, base, step)
    PROVE  \E out : Solves(out, N, T, base, step)
<1> DEFINE Runs(out, n) == /\ out \in [0 .. N -> T]
                           /\ out[0] = base
                           /\ \A i \in 1 .. n : out[i] = step[<<out, i>>]
           Done == {n \in 0 .. N : \E out : Runs(out, n)}
<1> USE DEF IsRecursion
<1>1. 0 \in Done
  <2>1. Runs([i \in 0 .. N |-> base], 0)
    OBVIOUS
  <2>2. \E out : Runs(out, 0)
    <3> HIDE DEF Runs
    <3> QED
      BY <2>1
  <2> HIDE DEF Runs
  <2> QED
    BY <2>2
<1>2. ASSUME NEW n \in 1 .. N, n - 1 \in Done
      PROVE  n \in Done
  <2>1. PICK out : Runs(out, n - 1)
    BY <1>2
  <2> DEFINE next == [out EXCEPT ![n] = step[<<out, n>>]]
  <2>2. step[<<out, n>>] \in T
    BY <2>1
  <2>3. next \in [0 .. N -> T] /\ next[0] = base
    BY <2>1, <2>2
  <2>4. next[n] = step[<<out, n>>] /\ \A i \in 0 .. n - 1 : next[i] = out[i]
    BY <2>1, <2>2
  <2>5. ASSUME NEW i \in 1 .. n
        PROVE  next[i] = step[<<next, i>>]
    <3> HIDE DEF next
    <3>1. i \in 1 .. N /\ out \in [0 .. N -> T] /\ next \in [0 .. N -> T]
      BY <2>1, <2>3
    <3>2. step[<<next, i>>] = step[<<out, i>>]
      <4>1. ASSUME NEW j \in 0 .. i - 1
            PROVE  next[j] = out[j]
        BY <2>4
      <4> QED
        BY <3>1, <4>1 
    <3>3. CASE i = n
      BY <2>4, <3>2, <3>3
    <3>4. CASE i # n
      <4>1. i \in 1 .. n - 1 /\ i \in 0 .. n - 1
        BY <3>4
      <4> QED
        BY <2>1, <2>4, <3>2, <4>1
    <3> QED
      BY <3>3, <3>4
  <2>6. Runs(next, n)
    <3> HIDE DEF next
    <3> QED
      BY <2>3, <2>5
  <2>7. \E new : Runs(new, n)
    <3> HIDE DEF Runs, next
    <3> QED
      BY <2>6
  <2> HIDE DEF Runs
  <2> QED
    BY <2>7
<1>3. N \in Done
  <2>1. 0 .. N \subseteq Done
    <3> HIDE DEF Done
    <3> QED
      BY <1>1, <1>2, BoundedInduction
  <2> HIDE DEF Done
  <2> QED
    BY <2>1
<1>4. PICK out : Runs(out, N)
  <2> HIDE DEF Runs
  <2> QED
    BY <1>3
<1>5. Solves(out, N, T, base, step)
  BY <1>4 DEF Solves
<1> QED
  BY <1>5

\* A loop starts from base and goes through 1 .. N, each time by step.
IsLoop(out, N, T, base, step) ==
    /\ out \in [0 .. N -> T]
    /\ out[0] = base
    /\ \A n \in 1 .. N : out[n] = step[<<out[n - 1], n>>]

LEMMA LoopExists ==
    ASSUME NEW N \in Nat, NEW T, NEW base, NEW step,
           base \in T, step \in [T \X (1 .. N) -> T]
    PROVE  \E out : IsLoop(out, N, T, base, step)
<1> DEFINE whole == [x \in [0 .. N -> T] \X (1 .. N) |-> step[<<x[1][x[2] - 1], x[2]>>]]
<1>1. ASSUME NEW f \in [0 .. N -> T], NEW n \in 1 .. N
      PROVE  /\ whole[<<f, n>>] = step[<<f[n - 1], n>>]
             /\ whole[<<f, n>>] \in T
  <2>1. f[n - 1] \in T
    OBVIOUS
  <2> QED
    BY <2>1
<1>2. whole \in [[0 .. N -> T] \X (1 .. N) -> T]
  <2>1. ASSUME NEW x \in [0 .. N -> T] \X (1 .. N)
        PROVE  step[<<x[1][x[2] - 1], x[2]>>] \in T
    <3>1. x[1] \in [0 .. N -> T] /\ x[2] \in 1 .. N /\ x[2] - 1 \in 0 .. N
      OBVIOUS
    <3> QED
      BY <3>1
  <2> QED
    BY <2>1
<1>3. \A n \in 1 .. N : \A f, g \in [0 .. N -> T] :
         (\A i \in 0 .. n - 1 : f[i] = g[i]) => whole[<<f, n>>] = whole[<<g, n>>]
  <2> SUFFICES ASSUME NEW n \in 1 .. N, NEW f \in [0 .. N -> T], NEW g \in [0 .. N -> T],
                      \A i \in 0 .. n - 1 : f[i] = g[i]
               PROVE  whole[<<f, n>>] = whole[<<g, n>>]
    BY Zenon
  <2>1. f[n - 1] = g[n - 1]
    OBVIOUS
  <2> HIDE DEF whole
  <2> QED
    BY <1>1, <2>1
<1>4. IsRecursion(N, T, base, whole)
  <2> HIDE DEF whole
  <2> QED
    BY <1>2, <1>3 DEF IsRecursion
<1>5. PICK out : Solves(out, N, T, base, whole)
  <2> HIDE DEF whole
  <2> QED
    BY <1>4, RecursionExists
<1>6. IsLoop(out, N, T, base, step)
  <2> HIDE DEF whole
  <2> QED
    BY <1>1, <1>5 DEF Solves, IsLoop
<1> QED
  BY <1>6

\* The same from the other end: what holds at n if it holds behind n.
LEMMA BackwardInduction ==
    ASSUME NEW N \in Nat, NEW S,
           \A n \in 1 .. N : (\A m \in n + 1 .. N : m \in S) => n \in S
    PROVE  1 .. N \subseteq S
<1> DEFINE Fine == {k \in 0 .. N : \A m \in (N - k) + 1 .. N : m \in S}
<1>1. 0 \in Fine
  OBVIOUS
<1>2. ASSUME NEW k \in 1 .. N, k - 1 \in Fine
      PROVE  k \in Fine
  <2> DEFINE n == (N - k) + 1
  <2>1. n \in 1 .. N /\ (N - (k - 1)) + 1 = n + 1
    OBVIOUS
  <2>2. \A m \in n + 1 .. N : m \in S
    BY <1>2, <2>1
  <2>3. n \in S
    BY <2>1, <2>2
  <2>4. \A m \in n .. N : m = n \/ m \in n + 1 .. N
    BY <2>1
  <2> QED
    BY <2>2, <2>3, <2>4
<1>3. 0 .. N \subseteq Fine
  <2> HIDE DEF Fine
  <2> QED
    BY <1>1, <1>2, BoundedInduction
<1>4. N \in Fine
  <2> HIDE DEF Fine
  <2> QED
    BY <1>3
<1> QED
  BY <1>4

\* Each value is computed by step from the values behind.
IsBackward(N, T, base, step) ==
    /\ base \in T
    /\ step \in [[1 .. N -> T] \X (1 .. N) -> T]
    /\ \A n \in 1 .. N : \A f, g \in [1 .. N -> T] :
          (\A i \in n + 1 .. N : f[i] = g[i]) => step[<<f, n>>] = step[<<g, n>>]

SolvesBackward(out, N, T, step) ==
    /\ out \in [1 .. N -> T]
    /\ \A n \in 1 .. N : out[n] = step[<<out, n>>]

LEMMA BackwardExists ==
    ASSUME NEW N \in Nat, NEW T, NEW base, NEW step, IsBackward(N, T, base, step)
    PROVE  \E out : SolvesBackward(out, N, T, step)
<1> DEFINE mirror(f) == [i \in 1 .. N |-> f[N + 1 - i]]
           forward == [x \in [0 .. N -> T] \X (1 .. N) |-> step[<<mirror(x[1]), N + 1 - x[2]>>]]
<1>1. ASSUME NEW f \in [0 .. N -> T]
      PROVE  mirror(f) \in [1 .. N -> T]
  OBVIOUS
<1>2. ASSUME NEW f \in [0 .. N -> T], NEW n \in 1 .. N
      PROVE  /\ step[<<mirror(f), N + 1 - n>>] \in T
             /\ forward[<<f, n>>] = step[<<mirror(f), N + 1 - n>>]
  <2>1. mirror(f) \in [1 .. N -> T] /\ N + 1 - n \in 1 .. N
    BY <1>1
  <2> HIDE DEF mirror
  <2>2. step[<<mirror(f), N + 1 - n>>] \in T
    BY <2>1 DEF IsBackward
  <2> QED
    BY <2>2
<1>3. forward \in [[0 .. N -> T] \X (1 .. N) -> T]
  <2> HIDE DEF mirror
  <2>1. ASSUME NEW x \in [0 .. N -> T] \X (1 .. N)
        PROVE  step[<<mirror(x[1]), N + 1 - x[2]>>] \in T
    <3>1. x[1] \in [0 .. N -> T] /\ x[2] \in 1 .. N
      OBVIOUS
    <3> QED
      BY <1>2, <3>1
  <2> QED
    BY <2>1
<1>4. ASSUME NEW n \in 1 .. N, NEW f \in [0 .. N -> T], NEW g \in [0 .. N -> T],
             \A i \in 0 .. n - 1 : f[i] = g[i]
      PROVE  forward[<<f, n>>] = forward[<<g, n>>]
  <2> DEFINE k == N + 1 - n
  <2>1. k \in 1 .. N
    OBVIOUS
  <2>2. ASSUME NEW i \in k + 1 .. N
        PROVE  mirror(f)[i] = mirror(g)[i]
    <3>1. N + 1 - i \in 0 .. n - 1 /\ i \in 1 .. N
      OBVIOUS
    <3> QED
      BY <1>4, <3>1
  <2>3. mirror(f) \in [1 .. N -> T] /\ mirror(g) \in [1 .. N -> T]
    BY <1>1
  <2> HIDE DEF mirror, k
  <2>4. step[<<mirror(f), k>>] = step[<<mirror(g), k>>]
    BY <2>1, <2>2, <2>3 DEF IsBackward
  <2> HIDE DEF forward
  <2> QED
    BY <1>2, <2>4 DEF k
<1>5. IsRecursion(N, T, base, forward)
  <2>1. base \in T
    BY DEF IsBackward
  <2> HIDE DEF forward
  <2> QED
    BY <1>3, <1>4, <2>1 DEF IsRecursion
<1>6. PICK f : Solves(f, N, T, base, forward)
  <2> HIDE DEF forward
  <2> QED
    BY <1>5, RecursionExists
<1> DEFINE out == mirror(f)
<1>7. f \in [0 .. N -> T] /\ \A n \in 1 .. N : f[n] = forward[<<f, n>>]
  BY <1>6 DEF Solves
<1>8. out \in [1 .. N -> T]
  BY <1>1, <1>7
<1>9. ASSUME NEW n \in 1 .. N
      PROVE  out[n] = step[<<out, n>>]
  <2>1. N + 1 - n \in 1 .. N /\ N + 1 - (N + 1 - n) = n
    OBVIOUS
  <2>2. out[n] = f[N + 1 - n]
    OBVIOUS
  <2> HIDE DEF forward, mirror
  <2>3. f[N + 1 - n] = step[<<mirror(f), N + 1 - (N + 1 - n)>>]
    BY <1>2, <1>7, <2>1
  <2> QED
    BY <2>1, <2>2, <2>3
<1>10. SolvesBackward(out, N, T, step)
  <2> HIDE DEF out
  <2> QED
    BY <1>8, <1>9 DEF SolvesBackward
<1> QED
  BY <1>10

\* What a loop starts with and keeps, it ends with.
LEMMA Throughout ==
    ASSUME NEW N \in Nat, NEW f, NEW T,
           f[0] \in T, \A n \in 1 .. N : f[n - 1] \in T => f[n] \in T
    PROVE  \A n \in 0 .. N : f[n] \in T
<1> DEFINE Fine == {n \in 0 .. N : f[n] \in T}
<1>1. 0 .. N \subseteq Fine
  <2>1. 0 \in Fine
    OBVIOUS
  <2>2. \A n \in 1 .. N : n - 1 \in Fine => n \in Fine
    OBVIOUS
  <2> HIDE DEF Fine
  <2> QED
    BY <2>1, <2>2, BoundedInduction
<1> QED
  BY <1>1

\* A non-empty set of numbers up to N has a largest member.
LEMMA MaxIs ==
    ASSUME NEW N \in Nat, NEW S \in SUBSET (1 .. N), S # {}
    PROVE  /\ Max(S) \in S
           /\ \A n \in S : n <= Max(S)
<1> DEFINE IsLargest(m) == m \in S /\ \A n \in S : n <= m
           Fine == {n \in 0 .. N : S \cap (1 .. n) # {} =>
                      \E m \in S \cap (1 .. n) : \A k \in S \cap (1 .. n) : k <= m}
<1>1. 0 \in Fine
  OBVIOUS
<1>2. ASSUME NEW n \in 1 .. N, n - 1 \in Fine
      PROVE  n \in Fine
  <2>1. CASE n \in S
    BY <2>1
  <2>2. CASE n \notin S
    <3>1. S \cap (1 .. n) = S \cap (1 .. n - 1)
      BY <2>2
    <3> QED
      BY <1>2, <3>1
  <2> QED
    BY <2>1, <2>2
<1>3. N \in Fine
  <2>1. 0 .. N \subseteq Fine
    <3> HIDE DEF Fine
    <3> QED
      BY <1>1, <1>2, BoundedInduction
  <2> QED
    BY <2>1
<1>4. \E m \in S : IsLargest(m)
  <2>1. S \cap (1 .. N) = S
    OBVIOUS
  <2> QED
    BY <1>3, <2>1
<1>5. Max(S) = CHOOSE m \in S : \A n \in S : m >= n
  BY DEF Max
<1> QED
  BY <1>4, <1>5

\* And a smallest.
LEMMA MinIs ==
    ASSUME NEW N \in Nat, NEW S \in SUBSET (1 .. N), S # {}
    PROVE  /\ Min(S) \in S
           /\ \A n \in S : Min(S) <= n
<1> DEFINE Mirror == {n \in 1 .. N : N + 1 - n \in S}
<1>1. Mirror # {}
  <2>1. PICK n \in S : TRUE
    OBVIOUS
  <2>2. N + 1 - n \in Mirror
    OBVIOUS
  <2> QED
    BY <2>2
<1>2. /\ Max(Mirror) \in Mirror
      /\ \A n \in Mirror : n <= Max(Mirror)
  <2>1. Mirror \in SUBSET (1 .. N)
    OBVIOUS
  <2> HIDE DEF Mirror
  <2> QED
    BY <1>1, <2>1, MaxIs
<1> DEFINE least == N + 1 - Max(Mirror)
<1>3. least \in S
  BY <1>2
<1>4. ASSUME NEW n \in S
      PROVE  least <= n
  <2>1. N + 1 - n \in Mirror
    OBVIOUS
  <2> QED
    BY <1>2, <2>1
<1>5. Min(S) = CHOOSE m \in S : \A n \in S : m <= n
  BY DEF Min
<1> QED
  <2> HIDE DEF least
  <2> QED
    BY <1>3, <1>4, <1>5
=============================================================================
