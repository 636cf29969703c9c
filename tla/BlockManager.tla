------------------------------ MODULE BlockManager ------------------------------
(***************************************************************************)
(* The work list by which the interpreter follows the paths through a list *)
(* of statements or a loop (blockManager): a stack of what is left to do,  *)
(* all that was ever put on it, and the exits found.  A work is a store    *)
(* and the position of a statement.                                        *)
(***************************************************************************)
EXTENDS Naturals, Sequences, FiniteSets

CONSTANT Equal(_, _)   \* equality of stores, as far as Store.Equal goes

(* The elements of s at some positions, in order. *)
Picked(s, is) ==
  [k \in 1..Cardinality(is) |->
     s[CHOOSE i \in is : Cardinality({j \in is : j <= i}) = k]]

Work(st, at) == [st |-> st, at |-> at]

SameWork(w, w2) == w.at = w2.at /\ Equal(w.st, w2.st)

(* MUTANT: only the work left to do is searched, not all that was seen. *)
SearchesTodo(bm, w) == \E i \in DOMAIN bm.todo : SameWork(bm.todo[i], w)

(* MUTANT: stores are compared, positions are not. *)
IgnoresPosition(bm, w) == \E i \in DOMAIN bm.seen : Equal(bm.seen[i].st, w.st)

isDuplicate(bm, w) == \E i \in DOMAIN bm.seen : SameWork(bm.seen[i], w)

(* MUTANT: what is a duplicate is put on the stack all the same. *)
AddsDuplicates(bm, todo) == [bm EXCEPT !.todo = @ \o todo, !.seen = @ \o todo]

(* MUTANT: what was added is not remembered. *)
ForgetsAdded(bm, todo) ==
  [bm EXCEPT !.todo = @ \o SelectSeq(todo, LAMBDA w : ~isDuplicate(bm, w))]

(* Each of todo in turn, unless it was seen or is the same as one before. *)
Unseen(bm, todo) ==
  {i \in DOMAIN todo : /\ ~isDuplicate(bm, todo[i])
                       /\ \A j \in 1..(i - 1) : ~SameWork(todo[j], todo[i])}

addWork(bm, todo) ==
  LET new == Picked(todo, Unseen(bm, todo))
  IN  [bm EXCEPT !.todo = @ \o new, !.seen = @ \o new]

(* MUTANT: the last piece of work is left undone. *)
LeavesOne(bm) == Len(bm.todo) > 1

hasWork(bm) == bm.todo # <<>>

nextWork(bm) == bm.todo[Len(bm.todo)]

withoutNext(bm) == [bm EXCEPT !.todo = SubSeq(@, 1, Len(@) - 1)]

addExit(bm, exits) == [bm EXCEPT !.exits = @ \o exits]
=============================================================================
