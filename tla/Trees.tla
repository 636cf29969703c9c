---------------------------------- MODULE Trees ----------------------------------
(***************************************************************************)
(* Permissions without cycles, as trees: a permission here is its kind,    *)
(* its base permission and its children.  Objects that are DeepEqual are   *)
(* one tree, which is how far the interpreter tells permissions apart.     *)
(*                                                                         *)
(* The rules are those of AssignRules and MergeRules.  Without cycles the  *)
(* memo tables make no difference, and assignability and conversion are    *)
(* recursive functions.                                                    *)
(***************************************************************************)
EXTENDS Naturals, Sequences

CONSTANT Err   \* the result of a merge that fails

LOCAL A == INSTANCE AssignRules WITH Object <- {}, shape <- <<>>
LOCAL M == INSTANCE MergeRules  WITH Object <- {}, shape <- <<>>

Tree(kind, base, kids) ==
  [kind |-> kind, base |-> base, elems |-> kids,
   recvs |-> <<>>, params |-> <<>>, results |-> <<>>]

Func(base, recvs, params, results) ==
  [kind |-> "func", base |-> base, elems |-> <<>>,
   recvs |-> recvs, params |-> params, results |-> results]

Base(b)   == Tree("base", b, <<>>)
None      == Base({})
NilValue  == Tree("nil", {"o"} \cup A!Mutable, <<>>)
FreshBase == {"o"} \cup A!Mutable
Fresh     == Base(FreshBase)

isLinear(b) == A!isLinear(b)

--------------------------------------------------------------------------------
RECURSIVE Assignable(_, _, _)

(* Children in pairs, as many as the first of the sequences has. *)
Each(s, t, mode) ==
  \A i \in DOMAIN s : i \in DOMAIN t /\ Assignable(s[i], t[i], mode)

(* The same with s and t in the roles of target and source: parameters,    *)
(* and the methods a target asks for, which have the same places in both.  *)
EachOf(s, t, mode) ==
  \A i \in DOMAIN s : i \in DOMAIN t /\ Assignable(t[i], s[i], mode)

References == {"chan", "slice", "map", "interface"}

FuncAssignable(p, q, mode) ==
  /\ "o" \in q.base => "o" \in p.base
  /\ A!BaseAssignable(q.base \ {"o"}, p.base \ {"o"}, mode)
  /\ EachOf(p.recvs, q.recvs, "move")
  /\ EachOf(p.params, q.params, "move")
  /\ Each(p.results, q.results, "move")

OtherAssignable(p, q, mode, ref) ==
  /\ p.kind = "tuple" => Len(p.elems) = Len(q.elems)
  /\ A!BaseAssignable(p.base, q.base, IF p.kind \in References THEN ref ELSE mode)
  /\ IF p.kind = "interface" THEN EachOf(q.elems, p.elems, ref)
     ELSE Each(p.elems, q.elems, IF p.kind \in References \cup {"pointer"} THEN ref ELSE mode)

Assignable(p, q, mode) ==
  CASE p.kind = "nil"  -> q.kind \in A!NilAssignable
    [] p.kind # q.kind -> FALSE
    [] p.kind = "func" -> FuncAssignable(p, q, A!copyAsReference(mode))
    [] OTHER           -> OtherAssignable(p, q, mode, A!copyAsReference(mode))

CopyableTo(p, q) == Assignable(p, q, "copy")
MovableTo(p, q)  == Assignable(p, q, "move")

--------------------------------------------------------------------------------
RECURSIVE ConvertToBase(_, _)

Children == {"elems", "recvs", "params", "results"}

WithChildren(p, base, kids) ==
  [p EXCEPT !.base = base, !.elems = kids["elems"], !.recvs = kids["recvs"],
            !.params = kids["params"], !.results = kids["results"]]

ConvertToBase(p, b) ==
  IF p.kind = "nil" THEN p
  ELSE WithChildren(p, b,
         [f \in Children |-> [i \in DOMAIN p[f] |->
            ConvertToBase(p[f][i], M!ChildBase(p.kind, p[f][i].base, b, "convert"))]])

RECURSIVE Merge(_, _, _)

Pairs(s, t, action) ==
  IF Len(s) = Len(t) THEN [i \in DOMAIN s |-> Merge(s[i], t[i], action)] ELSE <<Err>>

Toward(f, action) ==
  IF f \in {"recvs", "params"} THEN M!contravariant(action) ELSE action

(* For a function the closure is a parameter, too. *)
Joined(p, q, action, kids) ==
  IF \E f \in Children : \E i \in DOMAIN kids[f] : kids[f][i] = Err THEN Err
  ELSE WithChildren(p, M!mergeBase(p.base, q.base,
                         Toward(IF p.kind = "func" THEN "params" ELSE "results", action)), kids)

Merge(p, q, action) ==
  CASE p.kind = "nil" /\ q.kind \in M!Nillable          -> q
    [] p.kind \in M!Nillable \ {"nil"} /\ q.kind = "nil" -> p
    [] action = "convert" /\ q.kind = "base"            -> ConvertToBase(p, q.base)
    [] p.kind # q.kind                                  -> Err
    [] OTHER -> Joined(p, q, action,
                       [f \in Children |-> Pairs(p[f], q[f], Toward(f, action))])

ConvertTo(p, goal) == Merge(p, goal, "convert")
=============================================================================
