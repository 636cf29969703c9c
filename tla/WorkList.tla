-------------------------------- MODULE WorkList --------------------------------
(***************************************************************************)
(* The loop that visitStmtList, visitForStmt and visitRangeStmt have in    *)
(* common: take a piece of work, visit the statement it is about, sort the *)
(* exits of that visit into exits of the whole and further work, until     *)
(* there is no work left.                                                  *)
(*                                                                         *)
(* What a visit leads to is a parameter.  That it is the same for stores   *)
(* that are Equal is all that is assumed of it: Equal ignores use counts,  *)
(* and no permission depends on them.                                      *)
(***************************************************************************)
EXTENDS BlockManager

CONSTANTS
  Store,      \* stores
  Position,   \* positions of statements
  Root,       \* not a work: what was visited before the loop began
  Idle,       \* no visit is under way
  Behaviour   \* the functions from works, and Root, to what a visit leads to

Works == [st : Store, at : Position]

Exits == Store

(* One thing a visit leads to, further work or an exit: both are stores,   *)
(* at a position in the list or at none.                                   *)
Outside == 0

Way == [st : Store, at : Position \cup {Outside}]

ASSUME RootAssumption ==
  Root \notin Works /\ Idle \notin Works /\ Root # Idle /\ Outside \notin Position

ASSUME EqualAssumption ==
  /\ \A s \in Store : Equal(s, s)
  /\ \A s, t \in Store : Equal(s, t) => Equal(t, s)
  /\ \A s, t, u \in Store : Equal(s, t) /\ Equal(t, u) => Equal(s, u)

SameWay(v, v2) == v.at = v2.at /\ Equal(v.st, v2.st)

ASSUME BehaviourAssumption ==
  \A f \in Behaviour :
    /\ f \in [Works \cup {Root} -> Seq(Way)]
    /\ \A w, w2 \in Works : SameWork(w, w2) =>
         \A i \in DOMAIN f[w] : \E j \in DOMAIN f[w2] : SameWay(f[w][i], f[w2][j])

VARIABLES
  visit,    \* the behaviour of the statements, which does not change
  bm,       \* the block manager
  item,     \* the work being done
  pending   \* those exits of the visit that are still to be sorted

vars == <<visit, bm, item, pending>>

(* The types; work left to do is work that was seen.                       *)
TypeOK ==
  /\ visit \in [Works \cup {Root} -> Seq(Way)]
  /\ bm \in [todo : Seq(Works), seen : Seq(Works), exits : Seq(Exits)]
  /\ item \in Works \cup {Root, Idle}
  /\ pending \in Seq(Way)
  /\ \A i \in DOMAIN bm.todo : \E j \in DOMAIN bm.seen : bm.todo[i] = bm.seen[j]

Init == /\ visit \in Behaviour
        /\ bm = [todo |-> <<>>, seen |-> <<>>, exits |-> <<>>]
        /\ item = Root
        /\ pending = visit[Root]

Visit == /\ item = Idle /\ hasWork(bm)
         /\ item' = nextWork(bm)
         /\ pending' = visit[nextWork(bm)]
         /\ bm' = withoutNext(bm)
         /\ UNCHANGED visit

SortWork == /\ pending # <<>> /\ Head(pending).at # Outside
            /\ bm' = addWork(bm, <<Head(pending)>>)
            /\ pending' = Tail(pending)
            /\ UNCHANGED <<visit, item>>

SortExit == /\ pending # <<>> /\ Head(pending).at = Outside
            /\ bm' = addExit(bm, <<Head(pending).st>>)
            /\ pending' = Tail(pending)
            /\ UNCHANGED <<visit, item>>

Sorted == /\ item # Idle /\ pending = <<>>
          /\ item' = Idle
          /\ UNCHANGED <<visit, bm, pending>>

Next == Visit \/ SortWork \/ SortExit \/ Sorted

Spec == Init /\ [][Next]_vars /\ WF_vars(Next)

--------------------------------------------------------------------------------
Finished == item = Idle /\ ~hasWork(bm)

Seen(w) == \E i \in DOMAIN bm.seen : SameWork(bm.seen[i], w)

Left(st) == \E i \in DOMAIN bm.exits : Equal(bm.exits[i], st)

(* A way is taken when it leads to work that was seen or an exit found.    *)
Taken(v) == IF v.at = Outside THEN Left(v.st) ELSE Seen(v)

(* "It will evaluate the block for all possible inputs": in the end, what  *)
(* was seen is closed under visiting.  Every path from the start leads     *)
(* through work that was seen, or an Equal one, and to an exit found.      *)
FollowsEveryPath ==
  Finished => /\ \A i \in DOMAIN visit[Root] : Taken(visit[Root][i])
              /\ \A w \in Works : Seen(w) =>
                   \A i \in DOMAIN visit[w] : Taken(visit[w][i])

(* "It will only add work it has not seen yet": no two pieces of work ever *)
(* seen are the same, which with finitely many stores is why a loop ends.  *)
SeesNothingTwice ==
  \A i, j \in DOMAIN bm.seen : SameWork(bm.seen[i], bm.seen[j]) => i = j

(* "Since only unseen entries are added, the code will also terminate      *)
(* eventually."                                                            *)
Terminates == <>Finished

(* The work list is a search, whichever way it is ordered.  What is open   *)
(* is what is left to do and the item being visited.                       *)
WaysOf(w)  == {v \in Way : v.at # Outside /\ \E i \in DOMAIN visit[w] : visit[w][i] = v}
DoorsOf(w) == {st \in Exits : \E i \in DOMAIN visit[w] :
                                visit[w][i] = [st |-> st, at |-> Outside]}

OnSearch == INSTANCE Search
  WITH Same  <- SameWork,
       ways  <- [w \in Works \cup {Root} |-> WaysOf(w)],
       doors <- [w \in Works \cup {Root} |-> DoorsOf(w)],
       found <- {bm.seen[i] : i \in DOMAIN bm.seen},
       open  <- {bm.todo[i] : i \in DOMAIN bm.todo} \cup ({item} \ {Idle}),
       exits <- {bm.exits[i] : i \in DOMAIN bm.exits}

ImplementsSearch == OnSearch!Spec
=============================================================================
