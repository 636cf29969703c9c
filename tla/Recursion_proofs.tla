--------------------------- MODULE Recursion_proofs ----------------------------
(***************************************************************************)
(* What recursive definitions compute, stated for steps that are given as  *)
(* functions, so that the facts can be used for every recursion.           *)
(*                                                                         *)
(* Walking a graph: the definition of Closure has a solution if its step   *)
(* is monotone and only adds, and in a finite universe every solution is   *)
(* the least set that contains the start and that the step does not leave. *)
(***************************************************************************)
EXTENDS FiniteSetTheorems, WellFoundedInduction, Sequences, TLAPS

(* One round of a walk in the universe U: it adds, and adds no less when   *)
(* there is more to start from.                                            *)
Round(step, U) ==
  /\ step \in [SUBSET U -> SUBSET U]
  /\ \A s \in SUBSET U : s \subseteq step[s]
  /\ \A s, t \in SUBSET U : s \subseteq t => step[s] \subseteq step[t]

(* The recursion by which Closure is defined. *)
Walk(step, U, grow) ==
  grow = [s \in SUBSET U |-> LET next == step[s]
                             IN  IF next = s THEN s ELSE grow[next]]

(* c is the least set of s or more that the step does not leave. *)
Least(step, U, s, c) ==
  /\ c \in SUBSET U
  /\ s \subseteq c
  /\ step[c] = c
  /\ \A t \in SUBSET U : s \subseteq t /\ step[t] \subseteq t => c \subseteq t

(* A function takes a finite set to a finite set.                          *)
LEMMA FiniteImage ==
  ASSUME NEW S, IsFiniteSet(S), NEW f
  PROVE  IsFiniteSet({f[x] : x \in S})
<1> DEFINE T == {f[x] : x \in S}
           g == [x \in S |-> f[x]]
<1>1. g \in Surjection(S, T)
  BY DEF Surjection
<1> HIDE DEF g, T
<1>2. IsFiniteSet(T)
  BY <1>1, FS_Surjection
<1> QED
  BY <1>2 DEF T

(* A nonempty family of subsets of a finite set has a maximal member.      *)
LEMMA MaximalSet ==
  ASSUME NEW U, IsFiniteSet(U), NEW T \in SUBSET (SUBSET U), T # {}
  PROVE  \E s \in T : \A t \in T : s \subseteq t => s = t
<1> DEFINE C == {U \ s : s \in T}
           R == StrictSubsetOrdering(U)
<1>1. IsWellFoundedOn(R, FiniteSubsetsOf(U))
  BY FS_StrictSubsetOrderingWellFounded
<1>2. C \subseteq FiniteSubsetsOf(U) /\ C # {}
  <2>1. FiniteSubsetsOf(U) = SUBSET U
    BY FS_FiniteSubsetsOfFinite
  <2>2. C \subseteq SUBSET U
    OBVIOUS
  <2>3. C # {}
    <3>1. PICK s : s \in T
      OBVIOUS
    <3>2. U \ s \in C
      BY <3>1
    <3> QED
      BY <3>2
  <2> QED
    BY <2>1, <2>2, <2>3
<1>3. PICK x \in C : \A y \in C : <<y, x>> \notin R
  <2> HIDE DEF C, R
  <2> QED
    BY <1>1, <1>2, WFMin
<1>4. PICK s \in T : x = U \ s
  OBVIOUS
<1>5. ASSUME NEW t \in T, s \subseteq t, s # t
      PROVE  FALSE
  <2>1. U \ t \in C /\ U \ t \subseteq x /\ U \ t # x
    BY <1>4, <1>5
  <2>2. <<U \ t, x>> \in R
    BY <1>2, <2>1 DEF StrictSubsetOrdering, FiniteSubsetsOf
  <2> QED
    BY <1>3, <2>1, <2>2
<1> QED
  BY <1>5

(* The recursion has a solution. *)
LEMMA WalkExists ==
  ASSUME NEW U, NEW step, Round(step, U)
  PROVE  \E grow : Walk(step, U, grow)
<1> DEFINE Above(s) == {t \in SUBSET U : s \subseteq t /\ step[t] \subseteq t}
           least(s) == {x \in U : \A t \in Above(s) : x \in t}
           grow == [s \in SUBSET U |-> least(s)]
<1>1. ASSUME NEW s \in SUBSET U
      PROVE  grow[s] = IF step[s] = s THEN s ELSE grow[step[s]]
  <2>1. step[s] \in SUBSET U /\ s \subseteq step[s]
    BY DEF Round
  <2>2. CASE step[s] = s
    <3>1. s \in Above(s)
      BY <2>2
    <3> QED
      BY <2>2, <3>1
  <2>3. CASE step[s] # s
    <3>1. \A t \in SUBSET U : s \subseteq t /\ step[t] \subseteq t => step[s] \subseteq t
      BY DEF Round
    <3>2. Above(s) = Above(step[s])
      BY <2>1, <3>1
    <3>3. least(s) = least(step[s])
      BY <3>2
    <3> HIDE DEF least
    <3> QED
      BY <2>1, <2>3, <3>3
  <2> QED
    BY <2>2, <2>3
<1>2. grow = [s \in SUBSET U |-> grow[s]]
  OBVIOUS
<1> HIDE DEF grow
<1>3. [s \in SUBSET U |-> grow[s]] = [s \in SUBSET U |-> IF step[s] = s THEN s ELSE grow[step[s]]]
  BY <1>1
<1> QED
  BY <1>2, <1>3 DEF Walk

(* In a finite universe every solution computes the least set: where the   *)
(* walk stops nothing is reached from outside, and on the way there the    *)
(* least set stays the same.                                               *)
LEMMA WalkIsLeast ==
  ASSUME NEW U, IsFiniteSet(U), NEW step, Round(step, U),
         NEW grow, Walk(step, U, grow), NEW start \in SUBSET U
  PROVE  Least(step, U, start, grow[start])
<1> DEFINE Bad == {s \in SUBSET U : ~Least(step, U, s, grow[s])}
<1>1. SUFFICES ASSUME Bad # {}
               PROVE  FALSE
  OBVIOUS
<1>2. PICK s \in Bad : \A t \in Bad : s \subseteq t => s = t
  <2>1. Bad \in SUBSET (SUBSET U)
    OBVIOUS
  <2> HIDE DEF Bad
  <2> QED
    BY <1>1, <2>1, MaximalSet
<1>3. s \in SUBSET U /\ step[s] \in SUBSET U /\ s \subseteq step[s]
  BY DEF Round
<1>4. grow[s] = IF step[s] = s THEN s ELSE grow[step[s]]
  BY <1>3 DEF Walk
<1>5. step[s] # s
  BY <1>3, <1>4 DEF Least
<1>6. Least(step, U, step[s], grow[s])
  <2>1. step[s] \notin Bad
    BY <1>2, <1>3, <1>5
  <2> QED
    BY <1>3, <1>4, <1>5, <2>1
<1>7. \A t \in SUBSET U : s \subseteq t /\ step[t] \subseteq t => step[s] \subseteq t
  BY <1>3 DEF Round
<1> QED
  BY <1>3, <1>6, <1>7 DEF Least

--------------------------------------------------------------------------------
(* A nonempty set of numbers has a least member: a proof by induction on   *)
(* numbers looks at the least one for which the claim fails.               *)
LEMMA LeastNumber ==
  ASSUME NEW T \in SUBSET Nat, T # {}
  PROVE  \E n \in T : \A m \in T : n <= m
<1> DEFINE less == OpToRel(<, Nat)
<1>1. IsWellFoundedOn(less, Nat)
  BY NatLessThanWellFounded, Zenon
<1>2. \A m, n \in Nat : m < n => <<m, n>> \in less
  BY DEF OpToRel
<1> HIDE DEF less
<1>3. PICK n \in T : \A m \in T : <<m, n>> \notin less
  BY <1>1, WFMin
<1>4. ASSUME NEW m \in T
      PROVE  n <= m
  <2>1. ~(m < n)
    BY <1>2, <1>3
  <2> QED
    BY <2>1
<1> QED
  BY <1>4

(* Induction over numbers, for the set of the numbers a claim holds of.    *)
LEMMA NumberInduction ==
  ASSUME NEW T, 0 \in T, \A n \in Nat : n \in T => n + 1 \in T
  PROVE  Nat \subseteq T
<1>1. SUFFICES ASSUME Nat \ T # {}
               PROVE  FALSE
  OBVIOUS
<1>2. PICK n \in Nat \ T : \A m \in Nat \ T : n <= m
  BY <1>1, LeastNumber
<1>3. n # 0 /\ n - 1 \in Nat
  BY <1>2
<1>4. n - 1 \in T
  BY <1>2, <1>3
<1> QED
  BY <1>2, <1>3, <1>4

(* Induction over sequences, from the last element to the first, for the   *)
(* set of the sequences a claim holds of.                                  *)
LEMMA TailInduction ==
  ASSUME NEW E, NEW T, <<>> \in T,
         \A s \in Seq(E) : s # <<>> /\ Tail(s) \in T => s \in T
  PROVE  Seq(E) \subseteq T
<1> DEFINE Short == {n \in Nat : \A s \in Seq(E) : Len(s) = n => s \in T}
<1>1. 0 \in Short
  <2>1. \A s \in Seq(E) : Len(s) = 0 => s = <<>>
    OBVIOUS
  <2> QED
    BY <2>1
<1>2. ASSUME NEW n \in Nat, n \in Short
      PROVE  n + 1 \in Short
  <2> SUFFICES ASSUME NEW s \in Seq(E), Len(s) = n + 1
               PROVE  s \in T
    OBVIOUS
  <2>1. s # <<>> /\ Tail(s) \in Seq(E) /\ Len(Tail(s)) = n
    OBVIOUS
  <2>2. Tail(s) \in T
    BY <1>2, <2>1
  <2> QED
    BY <2>1, <2>2
<1>3. Nat \subseteq Short
  <2> HIDE DEF Short
  <2> QED
    BY <1>1, <1>2, NumberInduction
<1>4. \A s \in Seq(E) : Len(s) \in Nat
  OBVIOUS
<1> QED
  BY <1>3, <1>4

(* A step taken a number of times.                                         *)
Iteration(step, base, n, R, f) ==
  /\ f \in [0..n -> R]
  /\ f[0] = base
  /\ \A k \in 1..n : f[k] = step[k][f[k - 1]]

LEMMA IterationExists ==
  ASSUME NEW R, NEW base \in R, NEW N \in Nat, NEW step \in [1..N -> [R -> R]]
  PROVE  \E f : Iteration(step, base, N, R, f)
<1> DEFINE T == {n \in Nat : n <= N => \E f : Iteration(step, base, n, R, f)}
<1>1. 0 \in T
  <2> DEFINE f == [k \in 0..0 |-> base]
  <2>1. Iteration(step, base, 0, R, f)
    BY DEF Iteration
  <2> HIDE DEF f
  <2> QED
    BY <2>1
<1>2. ASSUME NEW n \in Nat, n \in T
      PROVE  n + 1 \in T
  <2> SUFFICES ASSUME n + 1 <= N
               PROVE  \E f : Iteration(step, base, n + 1, R, f)
    OBVIOUS
  <2>1. PICK f : Iteration(step, base, n, R, f)
    BY <1>2
  <2> DEFINE g == [k \in 0..(n + 1) |-> IF k = n + 1 THEN step[n + 1][f[n]] ELSE f[k]]
  <2>2. f \in [0..n -> R] /\ f[0] = base /\ \A k \in 1..n : f[k] = step[k][f[k - 1]]
    BY <2>1 DEF Iteration
  <2>3. step[n + 1][f[n]] \in R
    <3>1. f[n] \in R /\ n + 1 \in 1..N
      BY <2>2
    <3>2. step[n + 1] \in [R -> R]
      BY <3>1
    <3> QED
      BY <3>1, <3>2
  <2>4. g \in [0..(n + 1) -> R]
    BY <2>2, <2>3
  <2>5. g[0] = base
    BY <2>2
  <2>6. ASSUME NEW k \in 1..(n + 1)
        PROVE  g[k] = step[k][g[k - 1]]
    <3>1. g[k - 1] = f[k - 1]
      OBVIOUS
    <3>2. CASE k = n + 1
      BY <3>1, <3>2
    <3>3. CASE k \in 1..n
      BY <2>2, <3>1, <3>3
    <3> QED
      BY <3>2, <3>3
  <2>7. Iteration(step, base, n + 1, R, g)
    <3> HIDE DEF g
    <3> QED
      BY <2>4, <2>5, <2>6 DEF Iteration
  <2> QED
    BY <2>7
<1>3. Nat \subseteq T
  <2> HIDE DEF T
  <2> QED
    BY <1>1, <1>2, NumberInduction
<1> QED
  BY <1>3
=============================================================================
