--------------------------------- MODULE Search ---------------------------------
(***************************************************************************)
(* What a work list promises: a search that follows every way on from what *)
(* it has found, in any order, does not follow the same way twice, and     *)
(* reports every exit it meets.                                            *)
(***************************************************************************)
CONSTANTS
  Root,        \* where the search begins
  Same(_, _)   \* works that need not be told apart

VARIABLES
  ways,     \* ways[w]: the works that follow w
  doors,    \* doors[w]: the exits that w leads to
  found,    \* the works found so far
  open,     \* those not yet done with
  exits     \* the exits found

vars == <<ways, doors, found, open, exits>>

Known(w) == \E v \in found : Same(v, w)

Init == found = {} /\ open = {Root} /\ exits = {}

Discover(w, v) == /\ w \in open /\ v \in ways[w]
                  /\ ~Known(v)
                  /\ found' = found \cup {v}
                  /\ open' = open \cup {v}
                  /\ UNCHANGED <<ways, doors, exits>>

Report(w, e) == /\ w \in open /\ e \in doors[w]
                /\ exits' = exits \cup {e}
                /\ UNCHANGED <<ways, doors, found, open>>

Finish(w) == /\ w \in open
             /\ \A v \in ways[w] : Known(v)
             /\ doors[w] \subseteq exits
             /\ open' = open \ {w}
             /\ UNCHANGED <<ways, doors, found, exits>>

Next == \E w \in open : \/ \E v \in ways[w] : Discover(w, v)
                        \/ \E e \in doors[w] : Report(w, e)
                        \/ Finish(w)

Spec == Init /\ [][Next]_vars
=============================================================================
