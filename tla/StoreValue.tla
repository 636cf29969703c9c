------------------------------- MODULE StoreValue -------------------------------
(***************************************************************************)
(* Stores as the interpreter treats them: values, which module Store shows *)
(* the permissions in them to be.  An operation that fails (every failure  *)
(* ends in a panic of the interpreter) gives the value Broken, and every   *)
(* operation on Broken gives Broken.                                       *)
(*                                                                         *)
(* A use is counted for whoever asks or sets a permission.  The count      *)
(* GetEffective makes in place is part of the store that results; that     *)
(* other holders of the same array see it too is left to module Store.     *)
(***************************************************************************)
EXTENDS Cells, FiniteSets

CONSTANT Dead(_)   \* a permission converted to the base permission n

(* Conversion to a base permission is idempotent; Merge has it in full. *)
ASSUME DeadAssumption ==
  \A p \in Permission : Dead(p) \in Permission /\ Dead(Dead(p)) = Dead(p)

Broken == <<[Marker EXCEPT !.eff = Err]>>

Used(c) == [c EXCEPT !.uses = @ + 1]

IndexOf(cells, n) == CHOOSE i \in DOMAIN cells : First(cells, n, i)

Effective(cells, n) == IF Has(cells, n) THEN cells[IndexOf(cells, n)].eff ELSE NoPerm
Maximum(cells, n)   == IF Has(cells, n) THEN cells[IndexOf(cells, n)].max ELSE NoPerm

Opened(cells) == IF cells = Broken THEN Broken ELSE <<Marker>> \o cells

Closed(cells) ==
  IF cells = Broken \/ ~Has(cells, Unnamed) THEN Broken
  ELSE SubSeq(cells, IndexOf(cells, Unnamed) + 1, Len(cells))

(* The element of a singleton.  {e(c) : c \in {cells}} makes TLC evaluate   *)
(* cells but once.                                                         *)
Only(S) == CHOOSE x \in S : TRUE

Limited(cells, i, eff) ==
  IF eff \in {Err, NoPerm} THEN Broken ELSE [cells EXCEPT ![i] = Restricted(@, eff, @.max)]

WithEffective(cells, n, p) ==
  Only({IF cs = Broken \/ ~Has(cs, n) THEN Broken
        ELSE Limited(cs, IndexOf(cs, n), Meet(Maximum(cs, n), p)) : cs \in {cells}})

WithVariable(cells, n, p) ==
  IF cells = Broken THEN Broken
  ELSE IF InBlock(cells, n) THEN WithEffective(cells, n, p)
  ELSE <<NewCell(n, p)>> \o cells

MergedStore(cells, cells2) ==
  IF cells = Broken \/ cells2 = Broken THEN Broken
  ELSE IF cells = <<>> THEN cells2
  ELSE IF cells2 = <<>> THEN cells
  ELSE IF \A i \in DOMAIN cells : MergeStatus(cells, cells2, i) = "ok"
       THEN [i \in DOMAIN cells |-> MergedCell(cells[i], cells2[i])]
  ELSE Broken

(* The store after evaluating the identifier n: the permission is taken    *)
(* from the variable, which is left with nothing.                          *)
Borrow(cells, n) ==
  Only({IF cs = Broken \/ ~Has(cs, n) THEN Broken
        ELSE WithEffective([cs EXCEPT ![IndexOf(cs, n)] = Used(@)], n, Dead(Effective(cs, n))) :
          cs \in {cells}})

(* What evaluating n borrowed. *)
Borrowed(cells, n) == [name |-> n, perm |-> Effective(cells, n)]

(* Giving back, by name, what was borrowed, the first entry first.         *)
Release(cells, deps) ==
  LET after[i \in 0..Len(deps)] ==
        IF i = 0 THEN cells
        ELSE WithEffective(after[i - 1], deps[i].name, deps[i].perm)
  IN  after[Len(deps)]

(* The number of blocks that are open. *)
Depth(cells) == Cardinality({i \in DOMAIN cells : cells[i].name = Unnamed})
=============================================================================
