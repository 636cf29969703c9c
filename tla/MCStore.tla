------------------------------- MODULE MCStore --------------------------------
(***************************************************************************)
(* Instances of Store: permissions are a chain n < r < m or incompatible   *)
(* ones (a base permission and a function, say), with Intersect the meet.  *)
(***************************************************************************)
EXTENDS Store, TLC

Rank(p) == CASE p = "n" -> 0 [] p = "r" -> 1 [] p = "m" -> 2

MCIntersect(p, q) ==
  IF p = q THEN p
  ELSE IF "f" \in {p, q} THEN "err"
  ELSE IF Rank(p) < Rank(q) THEN p ELSE q

Symmetry == Permutations(Array) \cup Permutations(Reg)

(* What the last operation returned is read by none: states that differ    *)
(* only in that go on alike, and are visited once.                         *)
Held == <<heap, regs>>
=============================================================================
