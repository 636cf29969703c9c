------------------------------ MODULE AssignRules ------------------------------
(***************************************************************************)
(* The rules of assignability, one isAssignableTo method per kind.  Every  *)
(* method is a test of its own followed by a conjunction of recursive      *)
(* calls, made from left to right until one of them fails.  LocalOK is the *)
(* test, Goals the calls in their order.                                   *)
(***************************************************************************)
EXTENDS Permission

Mode == {"move", "copy", "ref"}

(* The question whether A can be assigned to B, the key of the memo table. *)
Goal(A, B, mode) == [A |-> A, B |-> B, mode |-> mode]

Key == [A : Perm, B : Perm, mode : Mode]

(* A child that does not exist on the other side: evaluating it is a Go    *)
(* panic, an index out of range or the explicit one for a missing method.  *)
Missing(p) == Goal(p, p, "panic")

MissingGoal == {Missing(p) : p \in Perm}

(* Mutant: children of a copied permission are checked as copies, too. *)
CopyAsCopy(mode) == mode

copyAsReference(mode) == IF mode = "copy" THEN "ref" ELSE mode

--------------------------------------------------------------------------------
(* A value can be read, or nothing is asked of it and nothing there. *)
Readable(perm, perm2) == "r" \in perm \/ (perm = {} /\ perm2 = {})

(* Mutant: a move asks for one common right instead of all of them. *)
MoveSomeRights(perm, perm2, mode) ==
  CASE mode = "copy" -> Readable(perm, perm2)
    [] mode = "move" -> perm2 \cap perm # {} /\ Readable(perm, perm2)
    [] mode = "ref"  -> /\ perm2 \subseteq perm
                        /\ ~isLinear(perm)
                        /\ ~isLinear(perm2)

(* Mutant: a reference may have rights its source has not. *)
ReferenceAddsRights(perm, perm2, mode) ==
  CASE mode = "copy" -> Readable(perm, perm2)
    [] mode = "move" -> perm2 \subseteq perm /\ Readable(perm, perm2)
    [] mode = "ref"  -> ~isLinear(perm) /\ ~isLinear(perm2)

BaseAssignable(perm, perm2, mode) ==
  CASE mode = "copy" -> Readable(perm, perm2)
    [] mode = "move" -> perm2 \subseteq perm /\ Readable(perm, perm2)
    [] mode = "ref"  -> /\ perm2 \subseteq perm
                        /\ ~isLinear(perm)
                        /\ ~isLinear(perm2)

NilAssignable ==
  {"chan", "func", "interface", "map", "nil", "pointer", "slice"}

(* The tests a method makes by itself, before or without recursive calls. *)
LocalOK(k) ==
  CASE k.A.kind = "base"     -> /\ k.B.kind = "base"
                                /\ BaseAssignable(k.A.base, k.B.base, k.mode)
    [] k.A.kind = "func"     -> /\ k.B.kind = "func"
                                /\ "o" \in k.B.base => "o" \in k.A.base
    [] k.A.kind = "tuple"    -> /\ k.B.kind = "tuple"
                                /\ Len(elems(k.A)) = Len(elems(k.B))
    [] k.A.kind = "nil"      -> k.B.kind \in NilAssignable
    [] k.A.kind = "wildcard" -> FALSE
    [] OTHER                 -> k.B.kind = k.A.kind

(* Calls for the first Len(s) children, indexing the other side with the   *)
(* position: s drives the loop, whichever side t stands for.               *)
Covariant(s, t, mode) ==
  [i \in DOMAIN s |-> IF i \in DOMAIN t THEN Goal(s[i], t[i], mode)
                                        ELSE Missing(s[i])]

Contravariant(s, t, mode) ==
  [i \in DOMAIN s |-> IF i \in DOMAIN t THEN Goal(t[i], s[i], mode)
                                        ELSE Missing(s[i])]

(* The source's method of the same name.  It is looked for in the same     *)
(* place first and then from the beginning; as names are distinct, the     *)
(* order makes no difference.                                              *)
Methods(A) == {elems(A)[j] : j \in DOMAIN elems(A)}

MethodGoal(A, r, mode) ==
  IF \E m \in Methods(A) : name(m) = name(r)
  THEN Goal(CHOOSE m \in Methods(A) : name(m) = name(r), r, mode)
  ELSE Missing(r)

MethodGoals(A, B, mode) ==
  [i \in DOMAIN elems(B) |-> MethodGoal(A, elems(B)[i], mode)]

(* The call that compares the base permissions of two structured ones.     *)
BaseGoal(A, B, mode) == <<Goal(Base(A.base), Base(B.base), mode)>>

FuncGoals(A, B, mode) ==
     <<Goal(Base(B.base \ {"o"}), Base(A.base \ {"o"}), mode)>>
  \o Contravariant(recvs(A), recvs(B), "move")
  \o Contravariant(params(A), params(B), "move")
  \o Covariant(results(A), results(B), "move")

(* The recursive calls of the method of A; ref is the mode for children    *)
(* that a copy would share.                                                *)
Calls(A, B, mode, ref) ==
  CASE A.kind \in {"base", "nil", "wildcard"} -> <<>>
    [] A.kind = "pointer" ->
         BaseGoal(A, B, mode) \o Covariant(elems(A), elems(B), ref)
    [] A.kind \in {"chan", "slice", "map"} ->
         BaseGoal(A, B, ref) \o Covariant(elems(A), elems(B), ref)
    [] A.kind \in {"array", "struct", "tuple"} ->
         BaseGoal(A, B, mode) \o Covariant(elems(A), elems(B), mode)
    [] A.kind = "func" -> FuncGoals(A, B, ref)
    [] A.kind = "interface" -> BaseGoal(A, B, ref) \o MethodGoals(A, B, ref)

(* ... which are made if the local tests let them begin. *)
Goals(k) == IF LocalOK(k) THEN Calls(k.A, k.B, k.mode, copyAsReference(k.mode))
                          ELSE <<>>

GoalSet(k) == {Goals(k)[i] : i \in DOMAIN Goals(k)}
=============================================================================
