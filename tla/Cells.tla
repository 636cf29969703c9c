---------------------------------- MODULE Cells ----------------------------------
(***************************************************************************)
(* The contents of a store: the entries a slice of the Go type Store       *)
(* shows, innermost block first, and what the methods of Store do to them. *)
(* Everything here is a value; where the entries live is module Store's    *)
(* subject.                                                                *)
(*                                                                         *)
(* Permissions are opaque: Intersect is the operation of the permission    *)
(* package, of which the store needs a few laws only.                      *)
(***************************************************************************)
EXTENDS Naturals, Sequences

CONSTANTS
  Name,             \* identifiers of the program under analysis
  Unnamed,          \* the empty name, which marks the start of a block
  Permission,       \* permissions of variables
  NoPerm,           \* the nil permission
  Err,              \* Intersect's error result
  Intersect(_, _)

ASSUME UnnamedAssumption == Unnamed \notin Name

ASSUME PermAssumption == NoPerm \notin Permission /\ Err \notin Permission \cup {NoPerm}

(* b allows whatever a allows. *)
Leq(a, b) == Intersect(b, a) = a

(* Intersect either fails or is a meet: idempotent, below both arguments,  *)
(* and monotonic as far as it is defined.                                  *)
ASSUME IntersectAssumption ==
  /\ \A p \in Permission : Intersect(p, p) = p
  /\ \A p, q \in Permission :
       /\ Intersect(p, q) \in Permission \cup {Err}
       /\ Intersect(p, q) # Err => /\ Leq(Intersect(p, q), p)
                                   /\ Leq(Intersect(p, q), q)
  /\ \A p, q, p2, q2 \in Permission :
       /\ Leq(p, p2) /\ Leq(q, q2)
       /\ Intersect(p, q) # Err /\ Intersect(p2, q2) # Err
       => Leq(Intersect(p, q), Intersect(p2, q2))

(* What BeginBlock leaves in the first element: the zero value. *)
Marker == [name |-> Unnamed, eff |-> NoPerm, max |-> NoPerm, uses |-> 0]

(* A variable as Define enters it. *)
NewCell(n, p) == [name |-> n, eff |-> p, max |-> p, uses |-> 0]

(* The entry the search loops stop at: the first one called n. *)
First(cells, n, i) == /\ i \in DOMAIN cells
                      /\ cells[i].name = n
                      /\ \A j \in 1..(i - 1) : cells[j].name # n

Has(cells, n) == \E i \in DOMAIN cells : cells[i].name = n

(* Intersect(p, q) for a p that may be the nil of a marker: a nil pointer  *)
(* dereference, which mergeRecover passes on.                              *)
Meet(p, q) == IF p = NoPerm THEN NoPerm ELSE Intersect(p, q)

(* An entry with the effective permission limited to what is allowed. *)
Restricted(c, eff, max) == [name |-> c.name, eff |-> eff, max |-> max,
                          uses |-> c.uses + 1]

(* Is n defined in the innermost block?  The loop compares before it looks *)
(* for the marker.                                                         *)
InBlock(cells, n) ==
  \E i \in DOMAIN cells : /\ First(cells, n, i)
                          /\ \A j \in 1..(i - 1) : cells[j].name # Unnamed

(* MUTANT: the maximum is that of the first store. *)
MergedCellKeepsMax(c, c2) ==
  [name |-> c.name, eff |-> Meet(c.eff, c2.eff), max |-> c.max,
   uses |-> IF c2.uses > c.uses THEN c2.uses ELSE c.uses]

(* One iteration of the loop of Merge. *)
MergedCell(c, c2) ==
  [name |-> c.name, eff |-> Meet(c.eff, c2.eff), max |-> Meet(c.max, c2.max),
   uses |-> IF c2.uses > c.uses THEN c2.uses ELSE c.uses]

(* How iteration i ends: an index out of range, different names, the nil   *)
(* permissions of a marker, permissions that do not intersect, or well.    *)
MergeStatus(cs, cs2, i) ==
  IF i \notin DOMAIN cs2 THEN "panic"
  ELSE IF cs[i].name # cs2[i].name THEN "error"
  ELSE LET c == MergedCell(cs[i], cs2[i])
       IN  IF c.eff = NoPerm THEN "panic"
           ELSE IF c.eff = Err THEN "error"
           ELSE IF c.max = NoPerm THEN "panic"
           ELSE IF c.max = Err THEN "error" ELSE "ok"

(* MUTANT: the maximum permissions are not compared. *)
EqualEffective(cells, cells2) ==
  /\ Len(cells) = Len(cells2)
  /\ \A i \in DOMAIN cells : /\ cells[i].name = cells2[i].name
                             /\ cells[i].eff = cells2[i].eff

(* Equal compares all but the use counts; nil equals every empty store.    *)
Equal(cells, cells2) ==
  /\ Len(cells) = Len(cells2)
  /\ \A i \in DOMAIN cells : /\ cells[i].name = cells2[i].name
                             /\ cells[i].eff = cells2[i].eff
                             /\ cells[i].max = cells2[i].max
=============================================================================
