----------------------------- MODULE Assignability -----------------------------
(***************************************************************************)
(* What the assignability rules mean, with no order of evaluation and no   *)
(* memo table.  Assignability is coinductive: a question is refuted if     *)
(* some chain of recursive calls ends in a failing test, and a cycle of    *)
(* permissions that refutes nothing is accepted.                           *)
(***************************************************************************)
EXTENDS AssignRules, FixedPoint

(* The keys with a call into bad. *)
Callers(bad) == {k \in Key : GoalSet(k) \cap bad # {}}

Spread(bad) == Closure(Callers, Key \cup MissingGoal, bad)

Refuted   == Spread({k \in Key : ~LocalOK(k)})
Panicking == Spread(MissingGoal)

Assignable(A, B, mode) == Goal(A, B, mode) \notin Refuted \cup Panicking

(* The answers the rules allow.  A call on a child that does not exist is  *)
(* a Go panic; when a panic and a refutation are both reachable, only the  *)
(* order of the calls decides.                                             *)
Verdict(k) ==
  IF Assignable(k.A, k.B, k.mode) THEN {"yes"}
  ELSE {v \in {"no", "panic"} : \/ v = "no" /\ k \in Refuted
                                \/ v = "panic" /\ k \in Panicking}

(* A set of questions that proves itself: all pass their own tests, and    *)
(* whatever they call is in the set.  A question is assignable in the      *)
(* coinductive sense if it lies in such a set.                             *)
Supports(R) == \A q \in R : LocalOK(q) /\ GoalSet(q) \subseteq R

Coassignable(k) == \E R \in SUBSET Key : k \in R /\ Supports(R)

(* The keys the calls below k can reach. *)
CallsOf(keys) == UNION {GoalSet(k) \cap Key : k \in keys}

Reach(k) == Closure(CallsOf, Key, {k})
=============================================================================
