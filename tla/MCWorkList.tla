------------------------------- MODULE MCWorkList -------------------------------
(***************************************************************************)
(* Instances of WorkList: every behaviour of two statements, each leading  *)
(* to at most two works or exits (to at most one in the second store), on  *)
(* two stores, the first of which comes with two use counts.               *)
(***************************************************************************)
EXTENDS WorkList, TLC

MCStore == {"a", "a+", "b"}

Bare(st) == IF st = "a+" THEN "a" ELSE st

MCEqual(st, st2) == Bare(st) = Bare(st2)

Targets == {[st |-> "a+", at |-> 1], [st |-> "a+", at |-> 2], [st |-> "b", at |-> 1],
            [st |-> "a+", at |-> Outside]}

Fewer == {<<>>} \cup {<<t>> : t \in Targets}

Leads == Fewer \cup (Targets \X Targets)

(* A statement list starts at its first statement; a switch leaves, or     *)
(* starts at any of its clauses.                                           *)
Starts == { <<[st |-> "a", at |-> 1]>>,
            <<[st |-> "a", at |-> Outside], [st |-> "a", at |-> 1], [st |-> "a", at |-> 2]>> }

MCBehaviour ==
  {[w \in Works \cup {Root} |->
      IF w = Root THEN start
      ELSE IF w.at = 2 THEN f[2] ELSE IF w.st = "b" THEN f[3] ELSE f[1]] :
     start \in Starts, f \in Leads \X Leads \X Fewer}
=============================================================================
