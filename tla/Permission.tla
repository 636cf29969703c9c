------------------------------ MODULE Permission ------------------------------
(***************************************************************************)
(* The data structures of package permission: base permissions, which are  *)
(* bit sets of five rights, and the structured permissions built over them.*)
(*                                                                         *)
(* A structured permission is a Go object behind a pointer.  It is used by *)
(* identity (the memo tables compare interface values holding pointers)    *)
(* and may be cyclic, so it is modelled as a node of a graph: its kind and *)
(* its base permission are fields of the value, its children are found in  *)
(* shape.  A base permission is a plain value, compared by its bits: it is *)
(* a node with no identity of its own.                                     *)
(***************************************************************************)
EXTENDS Naturals, Sequences, FiniteSets

CONSTANTS
  Object,   \* the structured permissions that exist
  shape     \* their children, a function on Object

Right == {"o", "r", "w", "R", "W"}

BasePermission == SUBSET Right

Mutable     == {"r", "w", "R", "W"}
LinearValue == {"r", "R", "W"}
Value       == {"r", "W"}
ReadOnly    == {"r"}
Any         == {"o", "r", "w"}
None        == {}

(* A holder of a linear permission excludes every other alias from a right *)
(* it has itself.                                                          *)
isLinear(perm) == {"w", "W"} \subseteq perm \/ {"r", "R"} \subseteq perm

StructuredKind ==
  {"pointer", "chan", "array", "slice", "map", "struct", "func", "interface",
   "tuple", "nil", "wildcard"}

(* The identity of a base permission: the same for all of them. *)
NoId == <<>>

Base(perm) == [kind |-> "base", base |-> perm, id |-> NoId]

Perm == {Base(perm) : perm \in BasePermission} \cup Object

(* The children of a structured permission, in the order of the struct:    *)
(* elems holds the target, element, key and value, fields, elements or     *)
(* methods; the other sequences belong to functions, as does the name.     *)
Shape == [elems : Seq(Perm), recvs : Seq(Perm), params : Seq(Perm),
          results : Seq(Perm), name : STRING]

elems(p)   == shape[p].elems
recvs(p)   == shape[p].recvs
params(p)  == shape[p].params
results(p) == shape[p].results
name(p)    == shape[p].name

(* What a node of a permission graph looks like. *)
ASSUME ObjectAssumption ==
  \A p \in Object : /\ p = [kind |-> p.kind, base |-> p.base, id |-> p.id]
                    /\ p.kind \in StructuredKind
                    /\ p.base \in BasePermission
                    /\ p.kind = "nil" => p.base = {"o"} \cup Mutable

ASSUME ShapeAssumption == shape \in [Object -> Shape]

(* Permissions are objects in memory. *)
ASSUME ObjectFinite == IsFiniteSet(Object)

(* The methods of a Go interface are functions of distinct names. *)
ASSUME MethodKindAssumption ==
  \A p \in Object : p.kind = "interface" =>
    \A i \in DOMAIN elems(p) : elems(p)[i].kind = "func"

ASSUME MethodNameAssumption ==
  \A p \in Object : p.kind = "interface" =>
    \A i, j \in DOMAIN elems(p) : name(elems(p)[i]) = name(elems(p)[j]) => i = j
=============================================================================
