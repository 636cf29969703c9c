------------------------------- MODULE FixedPoint -------------------------------
(***************************************************************************)
(* Walking a graph that may be cyclic: the one operator by which all       *)
(* definitions that look further than one step are stated.                 *)
(***************************************************************************)

(* The least superset of start that contains what Reached gives for it.    *)
Closure(Reached(_), universe, start) ==
  LET grow[s \in SUBSET universe] ==
        LET next == s \cup Reached(s)
        IN  IF next = s THEN s ELSE grow[next]
  IN  grow[start]
=============================================================================
