----------------------------- MODULE WorkList_proofs -----------------------------
(***************************************************************************)
(* That the work list keeps its types, sees nothing twice, follows every   *)
(* path and implements a search, whatever the stores are and wherever the  *)
(* statements lead: the lists of works here have any length.               *)
(***************************************************************************)
EXTENDS WorkList, FiniteSetTheorems, TLAPS

--------------------------------------------------------------------------------
(* What addWork does with a single work.                                   *)
LEMMA UnseenOne ==
  ASSUME NEW b, NEW w
  PROVE  /\ isDuplicate(b, w) => Unseen(b, <<w>>) = {}
         /\ ~isDuplicate(b, w) => Unseen(b, <<w>>) = {1}
  <1>1. DOMAIN <<w>> = {1} /\ <<w>>[1] = w
    OBVIOUS
  <1>2. 1..(1 - 1) = {}
    OBVIOUS
  <1> QED
    BY <1>1, <1>2 DEF Unseen

LEMMA AddOne ==
  ASSUME NEW b \in [todo : Seq(Works), seen : Seq(Works), exits : Seq(Exits)], NEW w \in Works
  PROVE  /\ isDuplicate(b, w) => addWork(b, <<w>>) = b
         /\ ~isDuplicate(b, w) =>
              addWork(b, <<w>>) = [b EXCEPT !.todo = Append(@, w), !.seen = Append(@, w)]
  <1>1. CASE isDuplicate(b, w)
    <2>1. Unseen(b, <<w>>) = {}
      BY <1>1, UnseenOne
    <2>2. Cardinality(Unseen(b, <<w>>)) = 0
      BY <2>1, FS_EmptySet
    <2> DEFINE new == [k \in 1..Cardinality(Unseen(b, <<w>>)) |->
                         <<w>>[CHOOSE i \in Unseen(b, <<w>>) :
                                 Cardinality({j \in Unseen(b, <<w>>) : j <= i}) = k]]
    <2>3. new = <<>>
      BY <2>2
    <2>4. addWork(b, <<w>>) = [b EXCEPT !.todo = @ \o new, !.seen = @ \o new]
      BY DEF addWork, Picked
    <2> HIDE DEF new
    <2>5. b.todo \o new = b.todo /\ b.seen \o new = b.seen
      BY <2>3
    <2> QED
      BY <1>1, <2>4, <2>5
  <1>2. CASE ~isDuplicate(b, w)
    <2>1. Unseen(b, <<w>>) = {1}
      BY <1>2, UnseenOne
    <2>2. Cardinality({1}) = 1
      BY FS_Singleton
    <2> DEFINE place(U, k) == CHOOSE i \in U : Cardinality({j \in U : j <= i}) = k
               New(U) == [k \in 1..Cardinality(U) |-> <<w>>[place(U, k)]]
               new == New(Unseen(b, <<w>>))
    <2>3. {j \in {1} : j <= 1} = {1}
      OBVIOUS
    <2>4. place({1}, 1) = 1
      BY <2>2, <2>3
    <2>5. addWork(b, <<w>>) = [b EXCEPT !.todo = @ \o new, !.seen = @ \o new]
      BY DEF addWork, Picked
    <2> HIDE DEF place
    <2>6. New({1}) = <<w>>
      BY <2>2, <2>4
    <2> HIDE DEF New
    <2> HIDE DEF new
    <2>8. new = <<w>>
      BY <2>1, <2>6 DEF new
    <2>7. b.todo \o new = Append(b.todo, w) /\ b.seen \o new = Append(b.seen, w)
      BY <2>8
    <2> QED
      BY <1>2, <2>5, <2>7
  <1> QED
    BY <1>1, <1>2

--------------------------------------------------------------------------------
(* The types, the steps one by one.                                        *)
BM == [todo : Seq(Works), seen : Seq(Works), exits : Seq(Exits)]

LEMMA HeadOfPending ==
  ASSUME TypeOK, pending # <<>>
  PROVE  /\ Head(pending) \in Way
         /\ Tail(pending) \in Seq(Way)
         /\ Head(pending).at # Outside => Head(pending) \in Works
         /\ Head(pending).st \in Store
  <1>1. Head(pending) \in Way /\ Tail(pending) \in Seq(Way)
    BY DEF TypeOK
  <1> QED
    BY <1>1 DEF Way, Works

LEMMA NextOfTodo ==
  ASSUME TypeOK, hasWork(bm)
  PROVE  /\ Len(bm.todo) \in DOMAIN bm.todo
         /\ nextWork(bm) \in Works
         /\ withoutNext(bm).todo \in Seq(Works)
         /\ Len(withoutNext(bm).todo) = Len(bm.todo) - 1
         /\ \A i \in 1..(Len(bm.todo) - 1) : withoutNext(bm).todo[i] = bm.todo[i]
         /\ withoutNext(bm).seen = bm.seen /\ withoutNext(bm).exits = bm.exits
         /\ withoutNext(bm) \in BM
  <1>1. bm \in BM /\ bm.todo \in Seq(Works) /\ bm.todo # <<>>
    BY DEF TypeOK, hasWork, BM
  <1>2. Len(bm.todo) \in Nat /\ Len(bm.todo) > 0 /\ DOMAIN bm.todo = 1..Len(bm.todo)
    BY <1>1
  <1>3. nextWork(bm) \in Works
    BY <1>1, <1>2 DEF nextWork
  <1> DEFINE front == SubSeq(bm.todo, 1, Len(bm.todo) - 1)
  <1>4. /\ front \in Seq(Works) /\ Len(front) = Len(bm.todo) - 1
        /\ \A i \in 1..(Len(bm.todo) - 1) : front[i] = bm.todo[i]
    BY <1>1, <1>2
  <1>5. withoutNext(bm) = [bm EXCEPT !.todo = front]
    BY DEF withoutNext
  <1> HIDE DEF front
  <1>6. /\ withoutNext(bm).todo = front /\ withoutNext(bm).seen = bm.seen
        /\ withoutNext(bm).exits = bm.exits /\ withoutNext(bm) \in BM
    BY <1>1, <1>4, <1>5 DEF BM
  <1> QED
    BY <1>2, <1>3, <1>4, <1>6

(* What SortWork does, put in terms of Append.                             *)
LEMMA SortWorkStep ==
  ASSUME TypeOK, SortWork
  PROVE  /\ Head(pending) \in Works
         /\ isDuplicate(bm, Head(pending)) => bm' = bm
         /\ ~isDuplicate(bm, Head(pending)) =>
              bm' = [bm EXCEPT !.todo = Append(@, Head(pending)), !.seen = Append(@, Head(pending))]
  <1>1. Head(pending) \in Works /\ bm \in BM
    BY HeadOfPending DEF SortWork, TypeOK, BM
  <1>2. bm' = addWork(bm, <<Head(pending)>>)
    BY DEF SortWork
  <1> QED
    BY <1>1, <1>2, AddOne DEF BM

LEMMA Added ==
  ASSUME NEW b \in BM, NEW b2, NEW w \in Works,
         b2 = [b EXCEPT !.todo = Append(@, w), !.seen = Append(@, w)]
  PROVE  /\ b2 \in BM /\ b2.exits = b.exits
         /\ b2.todo = Append(b.todo, w) /\ b2.seen = Append(b.seen, w)
         /\ b.todo \in Seq(Works) /\ b.seen \in Seq(Works)
  <1>1. b.todo \in Seq(Works) /\ b.seen \in Seq(Works) /\ b.exits \in Seq(Exits)
          /\ b = [todo |-> b.todo, seen |-> b.seen, exits |-> b.exits]
    BY DEF BM
  <1>2. Append(b.todo, w) \in Seq(Works) /\ Append(b.seen, w) \in Seq(Works)
    BY <1>1
  <1>3. b2 = [todo |-> Append(b.todo, w), seen |-> Append(b.seen, w), exits |-> b.exits]
    BY <1>1
  <1> QED
    BY <1>1, <1>2, <1>3 DEF BM

(* The elements of a sequence and one more.                                *)
LEMMA Appended ==
  ASSUME NEW S, NEW s \in Seq(S), NEW w \in S
  PROVE  /\ Len(Append(s, w)) = Len(s) + 1
         /\ DOMAIN Append(s, w) = DOMAIN s \cup {Len(s) + 1}
         /\ \A i \in DOMAIN s : Append(s, w)[i] = s[i]
         /\ Append(s, w)[Len(s) + 1] = w
         /\ Len(s) + 1 \notin DOMAIN s
  <1>1. Len(s) \in Nat /\ DOMAIN s = 1..Len(s)
    OBVIOUS
  <1>2. Len(Append(s, w)) = Len(s) + 1 /\ Append(s, w) \in Seq(S)
    OBVIOUS
  <1>3. DOMAIN Append(s, w) = 1..(Len(s) + 1)
    BY <1>2
  <1>4. \A i \in 1..Len(s) : Append(s, w)[i] = s[i]
    OBVIOUS
  <1>5. Append(s, w)[Len(s) + 1] = w
    BY <1>1
  <1>6. \A n \in Nat : 1..(n + 1) = (1..n) \cup {n + 1} /\ n + 1 \notin 1..n
    OBVIOUS
  <1> HIDE <1>5
  <1>7. DOMAIN Append(s, w) = DOMAIN s \cup {Len(s) + 1} /\ Len(s) + 1 \notin DOMAIN s
    BY <1>1, <1>3, <1>6
  <1> QED
    BY <1>1, <1>2, <1>4, <1>5, <1>7

LEMMA TypeInit == Init => TypeOK
  <1> SUFFICES ASSUME Init PROVE TypeOK
    OBVIOUS
  <1>1. visit \in [Works \cup {Root} -> Seq(Way)]
    BY BehaviourAssumption DEF Init
  <1> QED
    BY <1>1 DEF Init, TypeOK

LEMMA TypeStep == TypeOK /\ [Next]_vars => TypeOK'
  <1> SUFFICES ASSUME TypeOK, [Next]_vars PROVE TypeOK'
    OBVIOUS
  <1> USE DEF BM
  <1>1. CASE Visit
    <2>1. hasWork(bm) /\ item' = nextWork(bm) /\ pending' = visit[nextWork(bm)]
            /\ bm' = withoutNext(bm) /\ visit' = visit
      BY <1>1 DEF Visit
    <2>2. pending' \in Seq(Way)
      BY <2>1, NextOfTodo DEF TypeOK
    <2>3. \A i \in DOMAIN bm'.todo : i \in DOMAIN bm.todo /\ bm'.todo[i] = bm.todo[i]
      <3>1. bm.todo \in Seq(Works) /\ bm'.todo \in Seq(Works) /\ Len(bm'.todo) = Len(bm.todo) - 1
        BY <2>1, NextOfTodo DEF TypeOK
      <3>2. DOMAIN bm'.todo = 1..(Len(bm.todo) - 1) /\ DOMAIN bm.todo = 1..Len(bm.todo)
              /\ Len(bm.todo) \in Nat
        BY <3>1
      <3>3. \A i \in 1..(Len(bm.todo) - 1) : i \in 1..Len(bm.todo)
        BY <3>2
      <3> QED
        BY <2>1, <3>2, <3>3, NextOfTodo
    <2>4. bm'.seen = bm.seen /\ bm' \in BM /\ item' \in Works
      BY <2>1, NextOfTodo
    <2> QED
      BY <2>1, <2>2, <2>3, <2>4 DEF TypeOK
  <1>2. CASE SortWork
    <2>1. pending' \in Seq(Way) /\ visit' = visit /\ item' = item
      BY <1>2, HeadOfPending DEF SortWork
    <2>2. CASE bm' = bm
      BY <2>1, <2>2 DEF TypeOK
    <2>3. CASE bm' # bm
      <3>1. bm' = [bm EXCEPT !.todo = Append(@, Head(pending)), !.seen = Append(@, Head(pending))]
              /\ Head(pending) \in Works
        BY <1>2, <2>3, SortWorkStep
      <3>2. bm \in BM
        BY DEF TypeOK
      <3>3. /\ bm' \in BM /\ bm'.todo = Append(bm.todo, Head(pending))
            /\ bm'.seen = Append(bm.seen, Head(pending))
            /\ bm.todo \in Seq(Works) /\ bm.seen \in Seq(Works)
        BY <3>1, <3>2, Added
      <3>4. \A i \in DOMAIN bm'.todo : \E j \in DOMAIN bm'.seen : bm'.todo[i] = bm'.seen[j]
        <4> SUFFICES ASSUME NEW i \in DOMAIN bm'.todo
                     PROVE  \E j \in DOMAIN bm'.seen : bm'.todo[i] = bm'.seen[j]
          OBVIOUS
        <4>1. CASE i \in DOMAIN bm.todo
          <5>1. PICK j \in DOMAIN bm.seen : bm.todo[i] = bm.seen[j]
            BY <4>1 DEF TypeOK
          <5>2. bm'.todo[i] = bm.todo[i]
            BY <4>1, <3>1, <3>3, Appended
          <5>3. j \in DOMAIN bm'.seen /\ bm'.seen[j] = bm.seen[j]
            BY <5>1, <3>1, <3>3, Appended
          <5> QED
            BY <5>1, <5>2, <5>3
        <4>2. CASE i \notin DOMAIN bm.todo
          BY <4>2, <3>1, <3>3, Appended
        <4> QED
          BY <4>1, <4>2
      <3> QED
        BY <2>1, <3>3, <3>4 DEF TypeOK
    <2> QED
      BY <2>2, <2>3
  <1>3. CASE SortExit
    <2>1. pending' \in Seq(Way) /\ visit' = visit /\ item' = item /\ Head(pending).st \in Store
      BY <1>3, HeadOfPending DEF SortExit
    <2>2. bm' = [bm EXCEPT !.exits = @ \o <<Head(pending).st>>]
      BY <1>3 DEF SortExit, addExit
    <2>3. bm \in BM /\ bm.exits \o <<Head(pending).st>> \in Seq(Exits)
      BY <2>1 DEF TypeOK, Exits
    <2>4. bm' \in BM /\ bm'.todo = bm.todo /\ bm'.seen = bm.seen
      BY <2>2, <2>3
    <2> QED
      BY <2>1, <2>4 DEF TypeOK
  <1>4. CASE Sorted
    BY <1>4 DEF Sorted, TypeOK
  <1>5. CASE UNCHANGED vars
    BY <1>5 DEF vars, TypeOK
  <1> QED
    BY <1>1, <1>2, <1>3, <1>4, <1>5 DEF Next

(* The state has its types, and work left to do is work that was seen:     *)
(* addWork (interpreter.go:712) puts nothing on one list only.             *)
THEOREM TypeCorrect == Spec => []TypeOK
  BY TypeInit, TypeStep, PTL DEF Spec

--------------------------------------------------------------------------------
(* Sameness of works and ways is an equivalence, as Equal is one.          *)
LEMMA SameIsEquivalence ==
  /\ \A w \in Works : SameWork(w, w)
  /\ \A w, w2 \in Works : SameWork(w, w2) => SameWork(w2, w)
  /\ \A w, w2, w3 \in Works : SameWork(w, w2) /\ SameWork(w2, w3) => SameWork(w, w3)
  BY EqualAssumption DEF Works, SameWork

LEMMA WaysOfType == Works \subseteq Way
  BY DEF Works, Way

(* What changes from step to step: nothing that was seen or found is       *)
(* forgotten.                                                              *)
LEMMA OneMoreSeen ==
  ASSUME TypeOK, SortWork, ~isDuplicate(bm, Head(pending))
  PROVE  LET w == Head(pending)
         IN  /\ w \in Works /\ bm'.exits = bm.exits
             /\ bm.todo \in Seq(Works) /\ bm.seen \in Seq(Works)
             /\ bm'.todo = Append(bm.todo, w) /\ bm'.seen = Append(bm.seen, w)
             /\ DOMAIN bm'.seen = DOMAIN bm.seen \cup {Len(bm.seen) + 1}
             /\ \A i \in DOMAIN bm.seen : bm'.seen[i] = bm.seen[i]
             /\ bm'.seen[Len(bm.seen) + 1] = w /\ Len(bm.seen) + 1 \notin DOMAIN bm.seen
             /\ DOMAIN bm'.todo = DOMAIN bm.todo \cup {Len(bm.todo) + 1}
             /\ \A i \in DOMAIN bm.todo : bm'.todo[i] = bm.todo[i]
             /\ bm'.todo[Len(bm.todo) + 1] = w
  <1> DEFINE w == Head(pending)
  <1>1. /\ w \in Works /\ bm \in BM
        /\ bm' = [bm EXCEPT !.todo = Append(@, w), !.seen = Append(@, w)]
    BY SortWorkStep DEF TypeOK, BM
  <1> HIDE DEF w
  <1>2. /\ bm'.todo = Append(bm.todo, w) /\ bm'.seen = Append(bm.seen, w)
        /\ bm.todo \in Seq(Works) /\ bm.seen \in Seq(Works) /\ bm'.exits = bm.exits
    BY <1>1, Added
  <1> QED
    BY <1>1, <1>2, Appended DEF w

LEMMA OneMoreExit ==
  ASSUME TypeOK, SortExit
  PROVE  LET e == Head(pending).st
         IN  /\ e \in Store /\ bm'.todo = bm.todo /\ bm'.seen = bm.seen
             /\ bm.exits \in Seq(Exits)
             /\ DOMAIN bm'.exits = DOMAIN bm.exits \cup {Len(bm.exits) + 1}
             /\ \A i \in DOMAIN bm.exits : bm'.exits[i] = bm.exits[i]
             /\ bm'.exits[Len(bm.exits) + 1] = e
  <1> DEFINE e == Head(pending).st
  <1>1. e \in Exits /\ bm \in BM /\ bm.exits \in Seq(Exits)
    BY HeadOfPending DEF TypeOK, SortExit, Exits, BM
  <1>2. bm' = [bm EXCEPT !.exits = @ \o <<e>>]
    BY DEF SortExit, addExit
  <1> HIDE DEF e
  <1>3. bm.exits \o <<e>> = Append(bm.exits, e)
    BY <1>1
  <1>4. bm'.exits = Append(bm.exits, e) /\ bm'.todo = bm.todo /\ bm'.seen = bm.seen
    BY <1>1, <1>2, <1>3 DEF BM
  <1> QED
    BY <1>1, <1>4, Appended DEF Exits, e

LEMMA SeesNothingTwiceStep ==
  TypeOK /\ SeesNothingTwice /\ [Next]_vars => SeesNothingTwice'
  <1> SUFFICES ASSUME TypeOK, SeesNothingTwice, [Next]_vars PROVE SeesNothingTwice'
    OBVIOUS
  <1>1. CASE SortWork
    <2>1. CASE isDuplicate(bm, Head(pending))
      BY <1>1, <2>1, SortWorkStep DEF SeesNothingTwice
    <2>2. CASE ~isDuplicate(bm, Head(pending))
      <3> DEFINE w == Head(pending)
                 last == Len(bm.seen) + 1
      <3>1. /\ w \in Works /\ bm.seen \in Seq(Works)
            /\ DOMAIN bm'.seen = DOMAIN bm.seen \cup {last}
            /\ \A i \in DOMAIN bm.seen : bm'.seen[i] = bm.seen[i]
            /\ bm'.seen[last] = w
        BY <1>1, <2>2, OneMoreSeen
      <3>2. \A i \in DOMAIN bm.seen : ~SameWork(bm.seen[i], w)
        BY <2>2 DEF isDuplicate
      <3>3. \A i \in DOMAIN bm.seen : bm.seen[i] \in Works
        BY <3>1
      <3> HIDE DEF w, last
      <3>4. \A i \in DOMAIN bm.seen : ~SameWork(w, bm.seen[i])
        BY <3>1, <3>2, <3>3, SameIsEquivalence
      <3> QED
        BY <3>1, <3>2, <3>4 DEF SeesNothingTwice
    <2> QED
      BY <2>1, <2>2
  <1>2. CASE SortExit
    BY <1>2, OneMoreExit DEF SeesNothingTwice
  <1>3. CASE Visit
    BY <1>3, NextOfTodo DEF Visit, SeesNothingTwice
  <1>4. CASE Sorted
    BY <1>4 DEF Sorted, SeesNothingTwice
  <1>5. CASE UNCHANGED vars
    BY <1>5 DEF vars, SeesNothingTwice
  <1> QED
    BY <1>1, <1>2, <1>3, <1>4, <1>5 DEF Next

(* No two pieces of work ever seen are the same, which is what lets loops  *)
(* end (isDuplicate, interpreter.go:696).                                  *)
THEOREM NothingTwice == Spec => []SeesNothingTwice
  <1>1. Init => SeesNothingTwice
    BY DEF Init, SeesNothingTwice
  <1> QED
    BY <1>1, SeesNothingTwiceStep, TypeCorrect, PTL DEF Spec

--------------------------------------------------------------------------------
(* Nothing is lost on the way: what was seen is either left to do, or      *)
(* being visited with its ways taken or pending, or all its ways are       *)
(* taken; and so is the beginning.                                         *)
Found(e) == \E k \in DOMAIN bm.exits : bm.exits[k] = e

Done(v) == IF v.at = Outside THEN Found(v.st) ELSE Seen(v)

Pending(v) == \E j \in DOMAIN pending : pending[j] = v

ToDo(w) == \E j \in DOMAIN bm.todo : bm.todo[j] = w

InHand(w) == item = w /\ \A i \in DOMAIN visit[w] : Done(visit[w][i]) \/ Pending(visit[w][i])

Handled(w) == \A i \in DOMAIN visit[w] : Done(visit[w][i])

NothingLost ==
  /\ InHand(Root) \/ Handled(Root)
  /\ \A k \in DOMAIN bm.seen : ToDo(bm.seen[k]) \/ InHand(bm.seen[k]) \/ Handled(bm.seen[k])

SameVisit == visit \in Behaviour

LEMMA VisitStep == SameVisit /\ [Next]_vars => SameVisit' /\ visit' = visit
  BY DEF SameVisit, Next, Visit, SortWork, SortExit, Sorted, vars

LEMMA DoneStays ==
  ASSUME TypeOK, [Next]_vars, NEW v, Done(v)
  PROVE  Done(v)'
  <1>1. CASE SortWork
    <2>1. CASE isDuplicate(bm, Head(pending))
      BY <1>1, <2>1, SortWorkStep DEF Done, Found, Seen
    <2>2. CASE ~isDuplicate(bm, Head(pending))
      BY <1>1, <2>2, OneMoreSeen DEF Done, Found, Seen
    <2> QED
      BY <2>1, <2>2
  <1>2. CASE SortExit
    BY <1>2, OneMoreExit DEF Done, Found, Seen
  <1>3. CASE Visit
    BY <1>3, NextOfTodo DEF Visit, Done, Found, Seen
  <1>4. CASE Sorted
    BY <1>4 DEF Sorted, Done, Found, Seen
  <1>5. CASE UNCHANGED vars
    BY <1>5 DEF vars, Done, Found, Seen
  <1> QED
    BY <1>1, <1>2, <1>3, <1>4, <1>5 DEF Next

LEMMA HandledStays ==
  ASSUME TypeOK, [Next]_vars, visit' = visit, NEW w, Handled(w)
  PROVE  Handled(w)'
  BY DoneStays DEF Handled

(* What is at the head of the pending ways is done when it is sorted.      *)
LEMMA HeadIsDone ==
  ASSUME TypeOK, SortWork \/ SortExit, NEW v, v = Head(pending)
  PROVE  Done(v)'
  <1>1. CASE SortWork
    <2>1. CASE isDuplicate(bm, Head(pending))
      BY <1>1, <2>1, SortWorkStep DEF SortWork, Done, Seen, isDuplicate
    <2>2. CASE ~isDuplicate(bm, Head(pending))
      BY <1>1, <2>2, OneMoreSeen, SameIsEquivalence DEF SortWork, Done, Seen
    <2> QED
      BY <2>1, <2>2
  <1>2. CASE SortExit
    BY <1>2, OneMoreExit DEF SortExit, Done, Found
  <1> QED
    BY <1>1, <1>2

LEMMA InHandStays ==
  ASSUME TypeOK, SortWork \/ SortExit, NEW w, InHand(w)
  PROVE  InHand(w)'
  <1>1. item' = item /\ visit' = visit /\ pending # <<>> /\ pending' = Tail(pending)
          /\ pending \in Seq(Way) /\ [Next]_vars
    BY DEF SortWork, SortExit, TypeOK, Next
  <1>2. \A v : Pending(v) => v = Head(pending) \/ Pending(v)'
    <2> SUFFICES ASSUME NEW v, Pending(v), v # Head(pending)
                 PROVE  Pending(v)'
      OBVIOUS
    <2>0. PICK j \in DOMAIN pending : pending[j] = v
      BY DEF Pending
    <2>1. j # 1 /\ j \in 1..Len(pending) /\ Len(pending) \in Nat
      BY <1>1, <2>0
    <2>2. j - 1 \in 1..(Len(pending) - 1) /\ Len(pending') = Len(pending) - 1
            /\ pending' \in Seq(Way)
      BY <1>1, <2>1
    <2>3. pending'[j - 1] = v
      BY <1>1, <2>0, <2>1, <2>2
    <2>4. j - 1 \in DOMAIN pending'
      BY <2>2
    <2> QED
      BY <2>3, <2>4 DEF Pending
  <1>3. \A v : Done(v) \/ Pending(v) => (Done(v) \/ Pending(v))'
    BY <1>1, <1>2, HeadIsDone, DoneStays
  <1> QED
    BY <1>1, <1>3 DEF InHand

LEMMA NothingLostStep ==
  TypeOK /\ NothingLost /\ [Next]_vars => NothingLost'
  <1> SUFFICES ASSUME TypeOK, NothingLost, [Next]_vars PROVE NothingLost'
    OBVIOUS
  <1>0. visit' = visit
    BY DEF Next, Visit, SortWork, SortExit, Sorted, vars
  <1>1. ASSUME SortWork \/ SortExit PROVE NothingLost'
    <2>1. \A w : InHand(w) \/ Handled(w) => (InHand(w) \/ Handled(w))'
      BY <1>0, <1>1, InHandStays, HandledStays
    <2>2. ASSUME NEW k \in DOMAIN bm'.seen, NEW w, w = bm'.seen[k]
          PROVE  (ToDo(w) \/ InHand(w) \/ Handled(w))'
      <3>1. CASE bm'.todo = bm.todo /\ bm'.seen = bm.seen
        BY <2>1, <2>2, <3>1 DEF NothingLost, ToDo
      <3>2. CASE SortWork /\ ~isDuplicate(bm, Head(pending))
        <4>1. /\ DOMAIN bm'.seen = DOMAIN bm.seen \cup {Len(bm.seen) + 1}
              /\ \A i \in DOMAIN bm.seen : bm'.seen[i] = bm.seen[i]
              /\ bm'.seen[Len(bm.seen) + 1] = Head(pending)
              /\ DOMAIN bm'.todo = DOMAIN bm.todo \cup {Len(bm.todo) + 1}
              /\ \A i \in DOMAIN bm.todo : bm'.todo[i] = bm.todo[i]
              /\ bm'.todo[Len(bm.todo) + 1] = Head(pending)
          BY <3>2, OneMoreSeen
        <4>2. \A v : ToDo(v) => ToDo(v)'
          BY <4>1 DEF ToDo
        <4>3. \A v : v = Head(pending) => ToDo(v)'
          BY <4>1 DEF ToDo
        <4> QED
          BY <2>1, <2>2, <4>1, <4>2, <4>3 DEF NothingLost
      <3> QED
        BY <1>1, <3>1, <3>2, SortWorkStep, OneMoreExit
    <2> QED
      BY <2>1, <2>2 DEF NothingLost
  <1>2. CASE Visit
    <2>1. /\ item = Idle /\ hasWork(bm) /\ item' = nextWork(bm) /\ pending' = visit[nextWork(bm)]
          /\ bm' = withoutNext(bm)
      BY <1>2 DEF Visit
    <2>2. /\ bm.todo \in Seq(Works) /\ bm'.todo \in Seq(Works) /\ nextWork(bm) \in Works
          /\ Len(bm'.todo) = Len(bm.todo) - 1 /\ bm'.seen = bm.seen /\ bm.seen \in Seq(Works)
          /\ \A i \in 1..(Len(bm.todo) - 1) : bm'.todo[i] = bm.todo[i]
      BY <2>1, NextOfTodo DEF TypeOK
    <2>3. \A w : w = nextWork(bm) => InHand(w)'
      BY <1>0, <2>1, <2>2 DEF InHand, Pending
    <2>4. \A w : ToDo(w) => ToDo(w)' \/ w = nextWork(bm)
      <3>1. Len(bm.todo) \in Nat /\ DOMAIN bm.todo = 1..Len(bm.todo)
              /\ DOMAIN bm'.todo = 1..(Len(bm.todo) - 1)
        BY <2>2
      <3>2. \A j \in 1..Len(bm.todo) : j \in 1..(Len(bm.todo) - 1) \/ j = Len(bm.todo)
        BY <3>1
      <3> QED
        BY <2>2, <3>1, <3>2 DEF ToDo, nextWork
    <2>5. \A w \in Works \cup {Root} : ~InHand(w)
      BY <2>1, RootAssumption DEF InHand
    <2>6. \A w : Handled(w) => Handled(w)'
      BY <1>0, HandledStays
    <2>7. \A k \in DOMAIN bm.seen : bm.seen[k] \in Works
      BY <2>2
    <2>8. Handled(Root)'
      BY <2>5, <2>6 DEF NothingLost
    <2>9. ASSUME NEW k \in DOMAIN bm'.seen, NEW w, w = bm'.seen[k]
          PROVE  (ToDo(w) \/ InHand(w) \/ Handled(w))'
      <3>1. w = bm.seen[k] /\ k \in DOMAIN bm.seen /\ w \in Works
        BY <2>2, <2>7, <2>9
      <3>2. ToDo(w) \/ Handled(w)
        BY <2>5, <3>1 DEF NothingLost
      <3> QED
        BY <2>3, <2>4, <2>6, <3>1, <3>2
    <2> QED
      BY <2>8, <2>9 DEF NothingLost
  <1>3. CASE Sorted
    <2>1. pending = <<>> /\ bm' = bm
      BY <1>3 DEF Sorted
    <2>2. \A w : InHand(w) \/ Handled(w) => Handled(w)'
      BY <1>0, <2>1, HandledStays DEF InHand, Handled, Pending
    <2> QED
      BY <2>1, <2>2 DEF NothingLost, ToDo
  <1>4. CASE UNCHANGED vars
    BY <1>4 DEF vars, NothingLost, InHand, Handled, ToDo, Pending, Done, Found, Seen
  <1> QED
    BY <1>1, <1>2, <1>3, <1>4 DEF Next

LEMMA NothingLostInit == Init => NothingLost
  BY DEF Init, NothingLost, InHand, Pending

(* In the end every path was followed: what was seen is closed under       *)
(* visiting, up to Equal stores, and every exit was recorded (the loop of  *)
(* visitStmtList, interpreter.go:744-789).                                 *)
LEMMA EveryPathFollowed ==
  TypeOK /\ SameVisit /\ NothingLost => FollowsEveryPath
  <1> SUFFICES ASSUME TypeOK, SameVisit, NothingLost, Finished
               PROVE  /\ \A i \in DOMAIN visit[Root] : Taken(visit[Root][i])
                      /\ \A w \in Works : Seen(w) =>
                           \A i \in DOMAIN visit[w] : Taken(visit[w][i])
    BY DEF FollowsEveryPath
  <1>1. bm.todo = <<>> /\ item = Idle /\ bm.seen \in Seq(Works) /\ bm.exits \in Seq(Store)
    BY DEF Finished, hasWork, TypeOK, Exits
  <1>2. \A w \in Works \cup {Root} : ~InHand(w) /\ ~ToDo(w)
    BY <1>1, RootAssumption DEF InHand, ToDo
  <1>3. \A k \in DOMAIN bm.seen : bm.seen[k] \in Works
    BY <1>1
  <1>4. Handled(Root) /\ \A k \in DOMAIN bm.seen : Handled(bm.seen[k])
    BY <1>2, <1>3 DEF NothingLost
  <1>5. \A w \in Works \cup {Root} : visit[w] \in Seq(Way)
    BY DEF TypeOK
  <1>6. \A v \in Way : Done(v) => Taken(v)
    BY EqualAssumption DEF Done, Found, Taken, Left, Way
  <1>7. ASSUME NEW v \in Way, NEW v2 \in Way, SameWay(v, v2), Taken(v2) PROVE Taken(v)
    <2>1. v.at = v2.at /\ v.st \in Store /\ v2.st \in Store /\ Equal(v.st, v2.st)
      BY <1>7 DEF Way, SameWay
    <2>2. Equal(v2.st, v.st)
      BY <2>1, EqualAssumption
    <2>3. CASE v.at = Outside
      <3>1. PICK k \in DOMAIN bm.exits : Equal(bm.exits[k], v2.st)
        BY <1>7, <2>1, <2>3 DEF Taken, Left
      <3>2. bm.exits[k] \in Store
        BY <1>1
      <3> QED
        BY <2>1, <2>2, <2>3, <3>1, <3>2, EqualAssumption DEF Taken, Left
    <2>4. CASE v.at # Outside
      <3>1. PICK k \in DOMAIN bm.seen : SameWork(bm.seen[k], v2)
        BY <1>7, <2>1, <2>4 DEF Taken, Seen
      <3>2. bm.seen[k] \in Works /\ bm.seen[k].st \in Store
        BY <1>3 DEF Works
      <3> QED
        BY <2>1, <2>2, <2>4, <3>1, <3>2, EqualAssumption DEF Taken, Seen, SameWork
    <2> QED
      BY <2>3, <2>4
  <1>8. ASSUME NEW w \in Works, Seen(w), NEW i \in DOMAIN visit[w] PROVE Taken(visit[w][i])
    <2>1. PICK k \in DOMAIN bm.seen : SameWork(bm.seen[k], w)
      BY <1>8 DEF Seen
    <2>2. SameWork(w, bm.seen[k])
      BY <1>3, <2>1, SameIsEquivalence
    <2>3. PICK j \in DOMAIN visit[bm.seen[k]] : SameWay(visit[w][i], visit[bm.seen[k]][j])
      BY <1>3, <2>2, BehaviourAssumption DEF SameVisit
    <2>4. visit[w][i] \in Way /\ visit[bm.seen[k]][j] \in Way
      BY <1>3, <1>5
    <2>5. Done(visit[bm.seen[k]][j])
      BY <1>4 DEF Handled
    <2> QED
      BY <1>6, <1>7, <2>3, <2>4, <2>5
  <1>9. \A i \in DOMAIN visit[Root] : Taken(visit[Root][i])
    BY <1>4, <1>5, <1>6 DEF Handled
  <1> QED
    BY <1>8, <1>9

(* When no work is left, all that can follow what was seen was seen, and   *)
(* every exit it leads to is among the exits (visitStmtList).              *)
THEOREM EveryPath == Spec => []FollowsEveryPath
  <1>1. Init => SameVisit
    BY DEF Init, SameVisit
  <1> QED
    BY <1>1, VisitStep, NothingLostInit, NothingLostStep, EveryPathFollowed, TypeCorrect, PTL
    DEF Spec

--------------------------------------------------------------------------------
(* The refinement: taking work and sorting duplicates stutter, sorting a   *)
(* way discovers or reports it, and a visit that is sorted is finished.    *)
(* What is pending comes from the visit under way, and what is left to do  *)
(* is left once, and not under way.                                        *)
PendingFromItem ==
  /\ item = Idle => pending = <<>>
  /\ \A j \in DOMAIN pending : \E i \in DOMAIN visit[item] : visit[item][i] = pending[j]

LeftOnce ==
  /\ \A i, j \in DOMAIN bm.todo : bm.todo[i] = bm.todo[j] => i = j
  /\ \A i \in DOMAIN bm.todo : bm.todo[i] # item
  /\ item \in Works => \E i \in DOMAIN bm.seen : bm.seen[i] = item

LEMMA PendingInit == Init => PendingFromItem
  BY RootAssumption DEF Init, PendingFromItem

LEMMA PendingStep == TypeOK /\ PendingFromItem /\ [Next]_vars => PendingFromItem'
  <1> SUFFICES ASSUME TypeOK, PendingFromItem, [Next]_vars PROVE PendingFromItem'
    OBVIOUS
  <1>1. CASE SortWork \/ SortExit
    <2>1. item' = item /\ visit' = visit /\ pending # <<>> /\ pending' = Tail(pending)
            /\ pending \in Seq(Way)
      BY <1>1 DEF SortWork, SortExit, TypeOK
    <2>2. \A j \in DOMAIN pending' : j + 1 \in DOMAIN pending /\ pending'[j] = pending[j + 1]
      BY <2>1
    <2> QED
      BY <2>1, <2>2 DEF PendingFromItem
  <1>2. CASE Visit
    <2>1. item' = nextWork(bm) /\ nextWork(bm) \in Works /\ visit' = visit
            /\ pending' = visit[nextWork(bm)]
      BY <1>2, NextOfTodo DEF Visit
    <2> QED
      BY <2>1, RootAssumption DEF PendingFromItem
  <1>3. CASE Sorted
    BY <1>3 DEF Sorted, PendingFromItem
  <1>4. CASE UNCHANGED vars
    BY <1>4 DEF vars, PendingFromItem
  <1> QED
    BY <1>1, <1>2, <1>3, <1>4 DEF Next

LEMMA LeftOnceInit == Init => LeftOnce
  BY RootAssumption DEF Init, LeftOnce

LEMMA LeftOnceStep == TypeOK /\ LeftOnce /\ [Next]_vars => LeftOnce'
  <1> SUFFICES ASSUME TypeOK, LeftOnce, [Next]_vars PROVE LeftOnce'
    OBVIOUS
  <1>1. CASE SortWork
    <2>1. item' = item
      BY <1>1 DEF SortWork
    <2>2. CASE isDuplicate(bm, Head(pending))
      BY <1>1, <2>1, <2>2, SortWorkStep DEF LeftOnce
    <2>3. CASE ~isDuplicate(bm, Head(pending))
      <3> DEFINE w == Head(pending)
                 lastSeen == Len(bm.seen) + 1
                 lastToDo == Len(bm.todo) + 1
      <3>1. /\ w \in Works /\ bm.seen \in Seq(Works) /\ bm.todo \in Seq(Works)
            /\ DOMAIN bm'.seen = DOMAIN bm.seen \cup {lastSeen}
            /\ \A i \in DOMAIN bm.seen : bm'.seen[i] = bm.seen[i]
            /\ DOMAIN bm'.todo = DOMAIN bm.todo \cup {lastToDo}
            /\ \A i \in DOMAIN bm.todo : bm'.todo[i] = bm.todo[i]
            /\ bm'.todo[lastToDo] = w
        BY <1>1, <2>3, OneMoreSeen
      <3>2. \A i \in DOMAIN bm.seen : bm.seen[i] # w
        BY <2>3, <3>1, SameIsEquivalence DEF isDuplicate
      <3>3. \A i \in DOMAIN bm.todo : bm.todo[i] # w
        BY <3>2 DEF TypeOK
      <3>4. item # w
        BY <3>1, <3>2 DEF LeftOnce
      <3> HIDE DEF w, lastSeen, lastToDo
      <3> QED
        BY <2>1, <3>1, <3>3, <3>4 DEF LeftOnce
    <2> QED
      BY <2>2, <2>3
  <1>2. CASE SortExit
    BY <1>2, OneMoreExit DEF SortExit, LeftOnce
  <1>3. CASE Visit
    <2>1. /\ item' = nextWork(bm) /\ bm' = withoutNext(bm) /\ hasWork(bm)
      BY <1>3 DEF Visit
    <2>2. /\ bm.todo \in Seq(Works) /\ bm'.todo \in Seq(Works) /\ bm'.seen = bm.seen
          /\ Len(bm'.todo) = Len(bm.todo) - 1 /\ Len(bm.todo) \in DOMAIN bm.todo
          /\ \A i \in 1..(Len(bm.todo) - 1) : bm'.todo[i] = bm.todo[i]
      BY <2>1, NextOfTodo DEF TypeOK
    <2>3. /\ DOMAIN bm'.todo = 1..(Len(bm.todo) - 1) /\ Len(bm.todo) \in Nat
          /\ DOMAIN bm.todo = 1..Len(bm.todo)
      BY <2>2
    <2>4. \A i \in DOMAIN bm'.todo : i \in DOMAIN bm.todo /\ i # Len(bm.todo)
                                    /\ bm'.todo[i] = bm.todo[i]
      BY <2>2, <2>3
    <2>5. item' = bm.todo[Len(bm.todo)]
      BY <2>1 DEF nextWork
    <2>6. \E k \in DOMAIN bm'.seen : bm'.seen[k] = item'
      BY <2>2, <2>5 DEF TypeOK
    <2> QED
      BY <2>2, <2>4, <2>5, <2>6 DEF LeftOnce
  <1>4. CASE Sorted
    <2>1. item' = Idle /\ bm' = bm /\ bm.todo \in Seq(Works)
      BY <1>4 DEF Sorted, TypeOK
    <2>2. \A i \in DOMAIN bm.todo : bm.todo[i] # Idle
      BY <2>1, RootAssumption
    <2> QED
      BY <2>1, <2>2, RootAssumption DEF LeftOnce
  <1>5. CASE UNCHANGED vars
    BY <1>5 DEF vars, LeftOnce
  <1> QED
    BY <1>1, <1>2, <1>3, <1>4, <1>5 DEF Next

(* The variables of Search, as ImplementsSearch has them.                  *)
Ways  == [w \in Works \cup {Root} |-> WaysOf(w)]
Doors == [w \in Works \cup {Root} |-> DoorsOf(w)]
SeenWorks == {bm.seen[i] : i \in DOMAIN bm.seen}
ToDoWorks == {bm.todo[i] : i \in DOMAIN bm.todo}
OpenWorks == ToDoWorks \cup ({item} \ {Idle})
ExitsMade == {bm.exits[i] : i \in DOMAIN bm.exits}

LEMMA SameWays == ASSUME visit' = visit PROVE Ways' = Ways /\ Doors' = Doors
  BY DEF Ways, Doors, WaysOf, DoorsOf

LEMMA SearchInit == Init => OnSearch!Init
  BY RootAssumption DEF Init, OnSearch!Init

Discovering(w, v) == /\ w \in OpenWorks /\ v \in Ways[w]
                     /\ ~\E u \in SeenWorks : SameWork(u, v)
                     /\ SeenWorks' = SeenWorks \cup {v}
                     /\ OpenWorks' = OpenWorks \cup {v}
                     /\ UNCHANGED <<Ways, Doors, ExitsMade>>

Reporting(w, e) == /\ w \in OpenWorks /\ e \in Doors[w]
                   /\ ExitsMade' = ExitsMade \cup {e}
                   /\ UNCHANGED <<Ways, Doors, SeenWorks, OpenWorks>>

Finishing(w) == /\ w \in OpenWorks
                /\ \A v \in Ways[w] : \E u \in SeenWorks : SameWork(u, v)
                /\ Doors[w] \subseteq ExitsMade
                /\ OpenWorks' = OpenWorks \ {w}
                /\ UNCHANGED <<Ways, Doors, SeenWorks, ExitsMade>>

Stuttering == UNCHANGED <<Ways, Doors, SeenWorks, OpenWorks, ExitsMade>>

LEMMA VisitStutters ==
  ASSUME TypeOK, Visit PROVE Stuttering
  <1>1. /\ item' = nextWork(bm) /\ item = Idle /\ bm' = withoutNext(bm) /\ hasWork(bm)
        /\ visit' = visit
    BY DEF Visit
  <1>2. /\ bm.todo \in Seq(Works) /\ bm'.todo \in Seq(Works)
        /\ bm'.seen = bm.seen /\ bm'.exits = bm.exits
        /\ Len(bm'.todo) = Len(bm.todo) - 1 /\ Len(bm.todo) \in DOMAIN bm.todo
        /\ \A i \in 1..(Len(bm.todo) - 1) : bm'.todo[i] = bm.todo[i]
        /\ nextWork(bm) \in Works
    BY <1>1, NextOfTodo DEF TypeOK
  <1>3. /\ DOMAIN bm'.todo = 1..(Len(bm.todo) - 1) /\ Len(bm.todo) \in Nat
        /\ DOMAIN bm.todo = 1..Len(bm.todo) /\ Len(bm.todo) > 0
    BY <1>2
  <1>4. DOMAIN bm.todo = DOMAIN bm'.todo \cup {Len(bm.todo)}
    BY <1>3
  <1>5. \A i \in DOMAIN bm'.todo : bm'.todo[i] = bm.todo[i]
    BY <1>2, <1>3
  <1>6. ToDoWorks = ToDoWorks' \cup {nextWork(bm)}
    BY <1>4, <1>5 DEF ToDoWorks, nextWork
  <1>7. OpenWorks' = OpenWorks
    BY <1>1, <1>2, <1>6, RootAssumption DEF OpenWorks
  <1> QED
    BY <1>1, <1>2, <1>7, SameWays DEF Stuttering, SeenWorks, ExitsMade

LEMMA SortWorkDiscovers ==
  ASSUME TypeOK, PendingFromItem, SortWork
  PROVE  Stuttering \/ \E w \in OpenWorks : \E v \in Ways[w] : Discovering(w, v)
  <1>0. /\ item' = item /\ visit' = visit /\ pending # <<>> /\ pending \in Seq(Way)
        /\ Head(pending).at # Outside
    BY DEF SortWork, TypeOK
  <1>1. CASE isDuplicate(bm, Head(pending))
    <2>1. bm' = bm
      BY <1>1, SortWorkStep
    <2> QED
      BY <1>0, <2>1, SameWays DEF Stuttering, SeenWorks, OpenWorks, ToDoWorks, ExitsMade
  <1>2. CASE ~isDuplicate(bm, Head(pending))
    <2> DEFINE v == Head(pending)
               lastSeen == Len(bm.seen) + 1
               lastToDo == Len(bm.todo) + 1
    <2>1. /\ v \in Works /\ bm'.exits = bm.exits
          /\ DOMAIN bm'.seen = DOMAIN bm.seen \cup {lastSeen}
          /\ \A i \in DOMAIN bm.seen : bm'.seen[i] = bm.seen[i]
          /\ bm'.seen[lastSeen] = v
          /\ DOMAIN bm'.todo = DOMAIN bm.todo \cup {lastToDo}
          /\ \A i \in DOMAIN bm.todo : bm'.todo[i] = bm.todo[i]
          /\ bm'.todo[lastToDo] = v /\ lastSeen \notin DOMAIN bm.seen
      BY <1>2, OneMoreSeen
    <2>2. lastToDo \notin DOMAIN bm.todo
      BY DEF TypeOK
    <2>3. 1 \in DOMAIN pending /\ pending[1] = v
      BY <1>0
    <2>4. item \in Works \cup {Root} /\ item # Idle /\ \E i \in DOMAIN visit[item] : visit[item][i] = v
      BY <1>0, <2>3 DEF PendingFromItem, TypeOK
    <2>5. v \in Ways[item] /\ item \in OpenWorks
      BY <1>0, <2>1, <2>4, WaysOfType DEF Ways, WaysOf, OpenWorks
    <2>6. ~\E u \in SeenWorks : SameWork(u, v)
      BY <1>2 DEF SeenWorks, isDuplicate
    <2> HIDE DEF v, lastSeen, lastToDo
    <2>7. SeenWorks' = SeenWorks \cup {v}
      BY <2>1 DEF SeenWorks
    <2>8. ToDoWorks' = ToDoWorks \cup {v}
      BY <2>1, <2>2 DEF ToDoWorks
    <2>9. OpenWorks' = OpenWorks \cup {v}
      BY <1>0, <2>8 DEF OpenWorks
    <2> QED
      BY <1>0, <2>1, <2>5, <2>6, <2>7, <2>9, SameWays DEF Discovering, ExitsMade
  <1> QED
    BY <1>1, <1>2

LEMMA SortExitReports ==
  ASSUME TypeOK, PendingFromItem, SortExit
  PROVE  \E w \in OpenWorks : \E e \in Doors[w] : Reporting(w, e)
  <1> DEFINE e == Head(pending).st
             last == Len(bm.exits) + 1
  <1>0. /\ item' = item /\ visit' = visit /\ pending # <<>> /\ pending \in Seq(Way)
        /\ Head(pending).at = Outside
    BY DEF SortExit, TypeOK
  <1>1. /\ e \in Store /\ bm'.todo = bm.todo /\ bm'.seen = bm.seen
        /\ DOMAIN bm'.exits = DOMAIN bm.exits \cup {last}
        /\ \A i \in DOMAIN bm.exits : bm'.exits[i] = bm.exits[i]
        /\ bm'.exits[last] = e
    BY OneMoreExit
  <1>2. 1 \in DOMAIN pending /\ pending[1] = Head(pending) /\ Head(pending) \in Way
    BY <1>0
  <1>3. /\ item \in Works \cup {Root} /\ item # Idle
        /\ \E i \in DOMAIN visit[item] : visit[item][i] = Head(pending)
    BY <1>0, <1>2 DEF PendingFromItem, TypeOK
  <1>4. Head(pending) = [st |-> e, at |-> Outside]
    BY <1>0, <1>2 DEF Way
  <1>5. e \in Doors[item] /\ item \in OpenWorks
    BY <1>1, <1>3, <1>4 DEF Doors, DoorsOf, OpenWorks, Exits
  <1> HIDE DEF e, last
  <1>6. ExitsMade' = ExitsMade \cup {e}
    BY <1>1 DEF ExitsMade
  <1> QED
    BY <1>0, <1>1, <1>5, <1>6, SameWays DEF Reporting, SeenWorks, OpenWorks, ToDoWorks

LEMMA SortedFinishes ==
  ASSUME TypeOK, NothingLost, LeftOnce, Sorted
  PROVE  \E w \in OpenWorks : Finishing(w)
  <1>1. /\ item \in Works \cup {Root} /\ item # Idle /\ pending = <<>> /\ item' = Idle
        /\ visit' = visit /\ bm' = bm
    BY DEF Sorted, TypeOK
  <1>2. \A w : InHand(w) => Handled(w)
    BY <1>1 DEF InHand, Handled, Pending
  <1>3. \A i \in DOMAIN bm.todo : bm.todo[i] # item
    BY DEF LeftOnce
  <1>4. Handled(item)
    <2>1. CASE item = Root
      BY <1>2, <2>1 DEF NothingLost
    <2>2. CASE item # Root
      <3>1. PICK k \in DOMAIN bm.seen : bm.seen[k] = item
        BY <1>1, <2>2 DEF LeftOnce
      <3>2. ~ToDo(item)
        BY <1>3 DEF ToDo
      <3> QED
        BY <1>2, <3>1, <3>2 DEF NothingLost
    <2> QED
      BY <2>1, <2>2
  <1>5. \A v \in Ways[item] : \E u \in SeenWorks : SameWork(u, v)
    BY <1>1, <1>4 DEF Ways, WaysOf, Handled, Done, Seen, SeenWorks
  <1>6. Doors[item] \subseteq ExitsMade
    <2> SUFFICES ASSUME NEW e \in Doors[item] PROVE e \in ExitsMade
      OBVIOUS
    <2>1. PICK i \in DOMAIN visit[item] : visit[item][i] = [st |-> e, at |-> Outside]
      BY <1>1 DEF Doors, DoorsOf
    <2>2. Found(e)
      BY <1>4, <2>1 DEF Handled, Done
    <2> QED
      BY <2>2 DEF Found, ExitsMade
  <1>7. OpenWorks' = OpenWorks \ {item} /\ item \in OpenWorks
    BY <1>1, <1>3 DEF OpenWorks, ToDoWorks
  <1> QED
    BY <1>1, <1>5, <1>6, <1>7, SameWays DEF Finishing, SeenWorks, ExitsMade

LEMMA SearchStep ==
  TypeOK /\ NothingLost /\ PendingFromItem /\ LeftOnce /\ [Next]_vars
    => [OnSearch!Next]_(OnSearch!vars)
  <1> SUFFICES ASSUME TypeOK, NothingLost, PendingFromItem, LeftOnce, [Next]_vars
               PROVE  [OnSearch!Next]_(OnSearch!vars)
    OBVIOUS
  <1>1. \/ Stuttering
        \/ \E w \in OpenWorks : \/ \E v \in Ways[w] : Discovering(w, v)
                                \/ \E e \in Doors[w] : Reporting(w, e)
                                \/ Finishing(w)
    <2>1. UNCHANGED vars => Stuttering
      BY DEF vars, Stuttering, Ways, Doors, WaysOf, DoorsOf, SeenWorks, OpenWorks, ToDoWorks, ExitsMade
    <2> QED
      BY <2>1, VisitStutters, SortWorkDiscovers, SortExitReports, SortedFinishes DEF Next
  <1> QED
    BY <1>1 DEF OnSearch!Next, OnSearch!vars, OnSearch!Discover, OnSearch!Report,
                OnSearch!Finish, OnSearch!Known, Stuttering, Discovering, Reporting, Finishing,
                Ways, Doors, SeenWorks, OpenWorks, ToDoWorks, ExitsMade

(* The work list is a search: it follows only ways on from what it found,  *)
(* none of them twice, reports only exits it meets, and is done with a     *)
(* work only when every way on from it is known (interpreter.go:744-789).  *)
THEOREM WorkListImplementsSearch == Spec => ImplementsSearch
  <1>1. Spec => []NothingLost
    BY NothingLostInit, NothingLostStep, TypeCorrect, PTL DEF Spec
  <1>2. Spec => []PendingFromItem
    BY PendingInit, PendingStep, TypeCorrect, PTL DEF Spec
  <1>3. Spec => []LeftOnce
    BY LeftOnceInit, LeftOnceStep, TypeCorrect, PTL DEF Spec
  <1> QED
    BY <1>1, <1>2, <1>3, TypeCorrect, SearchInit, SearchStep, PTL
    DEF Spec, ImplementsSearch, OnSearch!Spec
=============================================================================
