--------------------------------- MODULE Merge ---------------------------------
(***************************************************************************)
(* Intersect, Union, ConvertTo, ConvertToBase and StrictConvertToBase.     *)
(* All of them walk two permissions at once and build a third.  So that a  *)
(* cycle comes to an end, the new object is registered for its key before  *)
(* its children are built, and a key met again yields the registered       *)
(* object, which may not be finished.  One table serves the whole call.    *)
(*                                                                         *)
(* The Go call stack is explicit: a frame is the key being built, and the  *)
(* number of children its object has says how far it has come.             *)
(***************************************************************************)
EXTENDS MergeRules

CONSTANT Queries   \* what callers ask for

ASSUME QueriesAssumption == Queries \subseteq Key

VARIABLES
  query,    \* the arguments of the public entry point
  kids,     \* state.state: the children, so far, of the object of each key
  stack,    \* the keys of the calls in progress
  answer,   \* the permission returned
  result    \* "idle", "busy", "built", or how the call ended

vars == <<query, kids, stack, answer, result>>

NoQuery == Goal(Base(None), Base(None), "none")

NoKids == [k \in {} |-> <<>>]

NoAnswer == Base(None)

Result == Perm \cup {New(k) : k \in {q \in Key : Builds(q)}}

(* The types: only registered objects are under construction.              *)
TypeOK ==
  /\ query \in Key \cup {NoQuery}
  /\ DOMAIN kids \subseteq {q \in Key : Builds(q)}
  /\ kids \in [DOMAIN kids -> Seq(Result)]
  /\ stack \in Seq(DOMAIN kids)
  /\ answer \in Result
  /\ result \in {"idle", "busy", "built", "done", "error", "panic"}
  /\ result # "idle" => query \in Key

Init == /\ query = NoQuery
        /\ kids = NoKids
        /\ stack = <<>>
        /\ answer = NoAnswer
        /\ result = "idle"

(* An entry point begins, with an empty table. *)
Call ==
  /\ result = "idle"
  /\ query' \in Queries
  /\ result' = "busy"
  /\ UNCHANGED <<kids, stack, answer>>

Top == stack[Len(stack)]

(* The question at hand: the caller's, or the next child of the innermost  *)
(* object under construction.                                              *)
Asking  == /\ result = "busy"
           /\ stack # <<>> => Len(kids[Top]) < Len(Goals(Top))
Current == IF stack = <<>> THEN query ELSE Goals(Top)[Len(kids[Top]) + 1]

(* p is the answer to the question at the end of st: the next child of the *)
(* object there, or what the entry point returns.                          *)
Deliver(p, st) ==
  /\ stack' = st
  /\ IF st = <<>> THEN answer' = p /\ result' = "built" /\ UNCHANGED kids
     ELSE /\ kids' = [kids EXCEPT ![st[Len(st)]] = Append(@, p)]
          /\ UNCHANGED <<answer, result>>
  /\ UNCHANGED query

(* Mutant: the table is looked up without regard to the action. *)
ReuseAnyAction ==
  /\ Asking
  /\ \E k \in DOMAIN kids :
       /\ k.perm = Current.perm /\ k.goal = Current.goal
       /\ Deliver(New(k), stack)

(* The key has been registered, here or further up. *)
Reuse == /\ Asking
         /\ Current \in DOMAIN kids
         /\ Deliver(New(Current), stack)

(* The answer needs no new object. *)
Share == /\ Asking
         /\ Current \notin FailureGoal
         /\ Shares(Current)
         /\ Deliver(Shared(Current), stack)

(* Mutant: the new object is not registered. *)
BuildUnregistered ==
  /\ Asking
  /\ Current \notin FailureGoal \cup DOMAIN kids
  /\ Builds(Current)
  /\ stack' = Append(stack, Current)
  /\ UNCHANGED <<query, kids, answer, result>>

(* Register a new object without children. *)
Build ==
  /\ Asking
  /\ Current \notin FailureGoal \cup DOMAIN kids
  /\ Builds(Current)
  /\ kids' = [k \in DOMAIN kids \cup {Current} |->
                IF k = Current THEN <<>> ELSE kids[k]]
  /\ stack' = Append(stack, Current)
  /\ UNCHANGED <<query, answer, result>>

(* Mutant: the loop over the children leaves out the last one. *)
FinishEarly ==
  /\ result = "busy" /\ stack # <<>>
  /\ Len(kids[Top]) + 1 = Len(Goals(Top))
  /\ Deliver(New(Top), SubSeq(stack, 1, Len(stack) - 1))

(* The innermost object is complete. *)
Finish ==
  /\ result = "busy" /\ stack # <<>>
  /\ Len(kids[Top]) = Len(Goals(Top))
  /\ Deliver(New(Top), SubSeq(stack, 1, Len(stack) - 1))

(* Mutant: mergeRecover turns every panic into an error. *)
FailQuietly ==
  /\ Asking
  /\ Current \in FailureGoal \/ Incompatible(Current)
  /\ result' = "error"
  /\ stack' = <<>>
  /\ UNCHANGED <<query, kids, answer>>

(* A mergeError unwinds every call in progress, and so does a panic. *)
Fail ==
  /\ Asking
  /\ \/ Current \in FailureGoal /\ result' = Current.action
     \/ Current \notin FailureGoal /\ Incompatible(Current) /\ result' = "error"
  /\ stack' = <<>>
  /\ UNCHANGED <<query, kids, answer>>

--------------------------------------------------------------------------------
(* The permissions there are once a call has come to its end: the old ones *)
(* and those it has built.                                                 *)
Objects == Object \cup {New(k) : k \in DOMAIN kids}

Part(s, before, n) == SubSeq(s, before + 1, before + n)

(* The children in kids[k] are laid out like those of p, which is k.perm. *)
NewShape(k, p) ==
  [elems   |-> Part(kids[k], 0, Len(elems(p))),
   recvs   |-> Part(kids[k], Len(elems(p)), Len(recvs(p))),
   params  |-> Part(kids[k], Len(elems(p) \o recvs(p)), Len(params(p))),
   results |-> Part(kids[k], Len(elems(p) \o recvs(p) \o params(p)), Len(results(p))),
   name    |-> name(p)]

Shapes ==
  [p \in Objects |-> IF p \in Object THEN shape[p]
                     ELSE NewShape([perm |-> p.id[1], goal |-> p.id[2], action |-> p.id[3]],
                                   p.id[1])]

Fields == {"elems", "recvs", "params", "results"}

(* reflect.DeepEqual, which takes two pointers it has met before as equal. *)
(* In all of these, sh is the graph of permissions.                        *)
SameNode(sh, p, q) ==
  /\ p.kind = q.kind /\ p.base = q.base
  /\ p.kind # "base" =>
       /\ sh[p].name = sh[q].name
       /\ \A f \in Fields : Len(sh[p][f]) = Len(sh[q][f])

PairsBelow(sh, p, q) ==
  IF p.kind = "base" \/ ~SameNode(sh, p, q) THEN {}
  ELSE UNION {{<<sh[p][f][i], sh[q][f][i]>> : i \in DOMAIN sh[p][f]} : f \in Fields}

DeepEqual(p, q) ==
  \A sh \in {Shapes} :
    LET Below(pairs) == UNION {PairsBelow(sh, pair[1], pair[2]) : pair \in pairs}
    IN  \A pair \in Closure(Below, (Perm \cup Objects) \X (Perm \cup Objects), {<<p, q>>}) :
          SameNode(sh, pair[1], pair[2])

(* Every entry point returns its argument instead of an equal copy of it.  *)
Identify ==
  /\ result = "built"
  /\ answer' = IF DeepEqual(answer, query.perm) THEN query.perm ELSE answer
  /\ result' = "done"
  /\ UNCHANGED <<query, kids, stack>>

(* The entry point returns; its table is garbage. *)
Return ==
  /\ result \in {"done", "error", "panic"}
  /\ query' = NoQuery
  /\ kids' = NoKids
  /\ answer' = NoAnswer
  /\ result' = "idle"
  /\ UNCHANGED stack

Step == Reuse \/ Share \/ Build \/ Finish \/ Fail \/ Identify

Next == Call \/ Step \/ Return

(* A call that has begun runs to its end: it is ordinary sequential code.  *)
Spec == Init /\ [][Next]_vars /\ WF_vars(Step)

--------------------------------------------------------------------------------
(* The answer, or failure, is the one the rules give whatever the order in *)
(* which keys are met and however unfinished the objects found in the      *)
(* table were: where nothing the call can reach fails, it succeeds.        *)
Failures(k) == {q \in Reach(k) : q \in FailureGoal \/ Incompatible(q)}

Verdict(k) ==
  IF Failures(k) = {} THEN {"done"}
  ELSE {IF q \in FailureGoal THEN q.action ELSE "error" : q \in Failures(k)}

Oracle == INSTANCE Oracle
  WITH Answers <- {"done", "error", "panic"},
       result  <- IF result = "built" THEN "busy" ELSE result

ImplementsOracle == Oracle!Spec

(* The inductive invariant.  Faithful: every object under construction has *)
(* been given the right children so far, those a fresh table would give    *)
(* it.  Chain: every object but the first is being built for the next      *)
(* child of the one below it, which therefore waits.  Distinct: no key is  *)
(* being built twice, so giving a child to one object changes no other.    *)
Faithful ==
  \A k \in DOMAIN kids :
    /\ Len(kids[k]) <= Len(Goals(k))
    /\ \A i \in DOMAIN kids[k] : /\ Goals(k)[i] \notin FailureGoal
                                 /\ kids[k][i] = AnswerTo(Goals(k)[i])

Chain ==
  /\ stack # <<>> => result = "busy"
  /\ \A i \in DOMAIN stack : i > 1 =>
       /\ Len(kids[stack[i - 1]]) < Len(Goals(stack[i - 1]))
       /\ stack[i] = Goals(stack[i - 1])[Len(kids[stack[i - 1]]) + 1]

Distinct == \A i, j \in DOMAIN stack : stack[i] = stack[j] => i = j

Settled ==
  result \notin {"error", "panic"} =>
    \A k \in DOMAIN kids : \/ \E i \in DOMAIN stack : stack[i] = k
                           \/ Len(kids[k]) = Len(Goals(k))

IInv == TypeOK /\ Faithful /\ Chain /\ Distinct /\ Settled

(* The objects handed out are finished, also those found in the table and  *)
(* given to others while they were not.                                    *)
NothingUnfinished ==
  result \in {"built", "done"} =>
    \A k \in DOMAIN kids : Len(kids[k]) = Len(Goals(k))

(* Moving, on the graph of old and new permissions together: the first     *)
(* component of every pair can be moved to the second.                     *)
Graph(sh) == INSTANCE AssignRules WITH Object <- DOMAIN sh, shape <- sh

Moves == [A : Perm \cup Objects, B : Perm \cup Objects,
          mode : {"move", "panic"}]

AllMovable(pairs) ==
  \A sh \in {Shapes} :
    LET Below(moves) == UNION {Graph(sh)!GoalSet(m) : m \in {n \in moves : n.mode # "panic"}}
        Asked == {[A |-> p[1], B |-> p[2], mode |-> "move"] : p \in pairs}
    IN  \A m \in Closure(Below, Moves, Asked) :
          m.mode # "panic" /\ Graph(sh)!LocalOK(m)

Succeeded(action) == result = "done" /\ query.action = action

Involved == Reach(query)

Selves == {<<query.perm, query.perm>>, <<query.goal, query.goal>>}

(* What has a name has the same name on both sides: for interfaces, that   *)
(* the methods come in the same order.                                     *)
SameNames ==
  \A q \in Involved : q.perm.kind = q.goal.kind /\ q.perm.kind # "base"
                       => name(q.perm) = name(q.goal)

(* "Intersect takes two permissions and returns a permission that is a     *)
(* subset of both", "Union ... a superset of both", as far as moving can   *)
(* tell: what cannot be read cannot be moved, the ownership of closures is *)
(* merged the wrong way, and nothing but nil can be moved to nil, which    *)
(* concerns unions, those of the parameters of intersected functions, too. *)
Comparable ==
  /\ SameNames
  /\ AllMovable(Selves)
  /\ \A q \in Involved :
       /\ (q.perm.kind = "func" /\ q.goal.kind = "func")
          => ("o" \in q.perm.base <=> "o" \in q.goal.base)
       /\ q.action = "union" => "nil" \notin {q.perm.kind, q.goal.kind}

IntersectIsSubset ==
  (Succeeded("intersect") /\ Comparable)
  => AllMovable({<<query.perm, answer>>, <<query.goal, answer>>})

UnionIsSuperset ==
  (Succeeded("union") /\ Comparable)
  => AllMovable({<<answer, query.perm>>, <<answer, query.goal>>})

(* ... and nothing is given up without need: whatever both arguments can   *)
(* be moved to, their intersection can, and the other way round.           *)
Towards(p, c) == IF query.action = "intersect" THEN <<p, c>> ELSE <<c, p>>

NothingIsLost ==
  (Succeeded("intersect") \/ Succeeded("union")) /\ SameNames =>
    \A c \in Object :
      AllMovable({Towards(query.perm, c), Towards(query.goal, c)})
        => AllMovable({Towards(answer, c)})

(* Converting to a permission of the same shape "replaces all base         *)
(* permissions in the source with the base permissions in the same         *)
(* position in the target": what comes out is the target, cycles and all.  *)
ConvertTakesGoal ==
  (Succeeded("convert") /\ SameNames
   /\ \A q \in Involved : q.perm.kind = q.goal.kind /\ q.perm.kind # "wildcard")
  => DeepEqual(answer, query.goal)

(* Conversion to a base permission is idempotent: what an object built by  *)
(* it would convert its children to is what they are.                      *)
Reconverted(k, c) ==
  c.kind = "nil" \/ ChildBase(k.perm.kind, c.base, NextBase(k), k.action) = c.base

ConvertIsIdempotent ==
  \A k \in DOMAIN kids : ToBase(k) =>
    \A i \in DOMAIN kids[k] : Reconverted(k, kids[k][i])

(* "Only a linear permission can have linear inner permissions", functions *)
(* and interfaces aside: for every pointer that cannot read exclusively    *)
(* without reading.                                                        *)
LinearInLinear(k) ==
  \A i \in DOMAIN kids[k] :
    LET c == kids[k][i]
    IN  c.kind # "nil" /\ isLinear(c.base) => isLinear(NextBase(k))

Converts(k) == ToBase(k) /\ k.perm.kind \notin {"func", "interface"}

ConvertIsConsistent ==
  \A k \in DOMAIN kids :
    Converts(k) /\ ("R" \in NextBase(k) => "r" \in NextBase(k)) => LinearInLinear(k)
=============================================================================
