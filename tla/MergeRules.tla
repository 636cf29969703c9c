------------------------------- MODULE MergeRules ------------------------------
(***************************************************************************)
(* The rules of merging two permissions (intersection, union, conversion   *)
(* to a permission of the same shape) and of conversion to a base          *)
(* permission.  A question either has an answer that exists already, or    *)
(* builds a new object of the same kind as its first argument, the children *)
(* of which are the answers to further questions, or fails.                *)
(***************************************************************************)
EXTENDS Permission, FixedPoint

Action == {"convert", "strict", "intersect", "union"}

Goal(perm, goal, action) == [perm |-> perm, goal |-> goal, action |-> action]

Key == [perm : Perm, goal : Perm, action : Action]

(* A step at which the code raises a mergeError, or panics for good. *)
Failure(p, status) == Goal(p, p, status)

FailureGoal == {Failure(p, status) : p \in Perm, status \in {"error", "panic"}}

Composite == StructuredKind \ {"nil", "wildcard"}

(* What nil is compatible with. *)
Nillable == {"chan", "func", "interface", "map", "nil", "pointer", "slice"}

(* Mutant: parameters are merged like results. *)
Covariant(action) == action

contravariant(action) == CASE action = "intersect" -> "union"
                           [] action = "union"     -> "intersect"
                           [] OTHER                -> action

(* Mutant: the union of base permissions takes the first. *)
UnionTakesFirst(p1, p2, action) ==
  CASE action = "intersect"            -> p1 \cap p2
    [] action = "union"                -> p1
    [] action \in {"convert", "strict"} -> p2

(* Mutant: an intersection gives up the exclusive rights. *)
IntersectDropsExclusive(p1, p2, action) ==
  CASE action = "intersect"            -> (p1 \cap p2) \ {"R", "W"}
    [] action = "union"                -> p1 \cup p2
    [] action \in {"convert", "strict"} -> p2

(* Mutant: a conversion keeps only what the argument had. *)
ConvertLimits(p1, p2, action) ==
  CASE action = "union"                            -> p1 \cup p2
    [] action \in {"intersect", "convert", "strict"} -> p1 \cap p2

mergeBase(p1, p2, action) ==
  CASE action = "intersect"            -> p1 \cap p2
    [] action = "union"                -> p1 \cup p2
    [] action \in {"convert", "strict"} -> p2

(* merge and convertToBase meet here: with a base permission as the goal a *)
(* conversion goes on as convertToBase, whatever called it.                *)
ToBase(k) == k.action \in {"convert", "strict"} /\ k.goal.kind = "base"

Builds(k) == /\ k.perm.kind \in Composite
             /\ ToBase(k) \/ k.goal.kind = k.perm.kind

(* The answers that exist already: a base permission, or an argument.      *)
SharesGoal(k) ==
  \/ ToBase(k) /\ k.perm.kind \in {"base", "wildcard"}
  \/ ~ToBase(k) /\ k.perm.kind = "wildcard"
  \/ ~ToBase(k) /\ k.perm.kind = "nil" /\ k.goal.kind \in Nillable

SharesPerm(k) ==
  \/ ToBase(k) /\ k.perm.kind = "nil"
  \/ ~ToBase(k) /\ k.perm.kind # "wildcard" /\ k.goal.kind = "wildcard"
  \/ k.perm.kind \in Nillable \ {"nil"} /\ k.goal.kind = "nil"

MergesBases(k) ==
  ~ToBase(k) /\ k.perm.kind = "base" /\ k.goal.kind = "base"

Shares(k) == SharesGoal(k) \/ SharesPerm(k) \/ MergesBases(k)

Shared(k) == CASE SharesGoal(k)  -> k.goal
               [] SharesPerm(k)  -> k.perm
               [] MergesBases(k) -> Base(mergeBase(k.perm.base, k.goal.base, k.action))

Incompatible(k) == ~Builds(k) /\ ~Shares(k)

--------------------------------------------------------------------------------
(* The target of a pointer whose base permission becomes b, if it had base *)
(* permission t: ownership follows the pointer, and a pointer without      *)
(* exclusive read strips its target of linear write and read rights.       *)
Owned(t, b) == (t \ {"o"}) \cup (b \cap {"o"})

StripWrites(t) == IF {"w", "W"} \subseteq t THEN t \ {"w", "W"} ELSE t

StripReads(t) == IF {"r", "R"} \subseteq t THEN t \ {"R"} ELSE t

(* Mutant: either linear writes or linear reads are stripped, not both. *)
StripOnce(t, b) ==
  IF "R" \in b THEN Owned(t, b)
  ELSE IF {"w", "W"} \subseteq t THEN StripWrites(Owned(t, b))
       ELSE StripReads(Owned(t, b))

TargetBase(t, b) == IF "R" \in b THEN Owned(t, b)
                    ELSE StripReads(StripWrites(Owned(t, b)))

(* What a child with base permission c is converted to when its parent is  *)
(* converted to b.                                                         *)
ChildBase(kind, c, b, action) ==
  CASE kind = "pointer" /\ action = "convert" -> TargetBase(c, b)
    [] kind \in {"func", "interface"}         -> c
    [] OTHER                                  -> b

(* Does the code ask the child for its base permission?  A wildcard panics. *)
AsksBase(kind, action) ==
  kind \in {"func", "interface"} \/ (kind = "pointer" /\ action = "convert")

ChildToBase(k, c) ==
  IF AsksBase(k.perm.kind, k.action) /\ c.kind = "wildcard" THEN Failure(c, "panic")
  ELSE Goal(c, Base(ChildBase(k.perm.kind, c.base, k.goal.base, k.action)), k.action)

(* Children of both sides in pairs, unless their numbers differ.  That is  *)
(* noticed before the first of them is merged.                             *)
Pairwise(s, t, action) ==
  IF Len(s) = Len(t) THEN [i \in DOMAIN s |-> Goal(s[i], t[i], action)]
                     ELSE <<Failure(Base(None), "error")>>

AllChildren(p) == elems(p) \o recvs(p) \o params(p) \o results(p)

MergedChildren(p, q, action) ==
     Pairwise(elems(p), elems(q), action)
  \o Pairwise(recvs(p), recvs(q), contravariant(action))
  \o Pairwise(params(p), params(q), contravariant(action))
  \o Pairwise(results(p), results(q), action)

(* The questions the children of a new object come from, in order. *)
Goals(k) ==
  CASE Builds(k) /\ ToBase(k) ->
         [i \in DOMAIN AllChildren(k.perm) |-> ChildToBase(k, AllChildren(k.perm)[i])]
    [] Builds(k) /\ ~ToBase(k) -> MergedChildren(k.perm, k.goal, k.action)
    [] OTHER -> <<>>

GoalSet(k) == {Goals(k)[i] : i \in DOMAIN Goals(k)}

(* The base permission of the new object.  The closure of a function is a  *)
(* parameter of it.                                                        *)
NextBase(k) ==
  mergeBase(k.perm.base, k.goal.base,
            IF k.perm.kind = "func" THEN contravariant(k.action) ELSE k.action)

(* The new object registered for k: an identity of its own.  *)
New(k) == [kind |-> k.perm.kind, base |-> NextBase(k),
           id |-> <<k.perm, k.goal, k.action>>]

(* What is allocated is none of the objects there are. *)
ASSUME NewAssumption == \A k \in Key : Builds(k) => New(k) \notin Object

(* The answer to k, provided that nothing fails. *)
AnswerTo(k) == IF Builds(k) THEN New(k) ELSE Shared(k)

(* The questions k leads to, itself included. *)
GoalsOf(keys) == UNION {GoalSet(k) : k \in keys}

Reach(k) == Closure(GoalsOf, Key \cup FailureGoal, {k})
=============================================================================
