------------------------------ MODULE AssignableTo -----------------------------
(***************************************************************************)
(* The recursive assignability check with its memo table.  assignableTo    *)
(* looks a question up in the table; if it is not there it records a       *)
(* provisional TRUE, so that a cycle comes to an end, runs the method, and *)
(* overwrites the entry with what the method returned.  One table serves   *)
(* all the calls below one public entry point.                             *)
(*                                                                         *)
(* The Go call stack is explicit: a frame is the key being decided and the *)
(* position of the recursive call it has reached.                          *)
(***************************************************************************)
EXTENDS Assignability

CONSTANT Queries   \* the questions callers ask

ASSUME QueriesAssumption == Queries \subseteq Key

VARIABLES
  query,    \* the question of the public entry point
  memo,     \* state.values: a partial function from keys to results
  stack,    \* the frames of the calls to assignableTo in progress
  result    \* "idle", "busy", or what the entry point ended with

vars == <<query, memo, stack, result>>

NoQuery == Goal(Base(None), Base(None), "none")

NoMemo == [q \in {} |-> TRUE]

Frame == [key : Key, at : Nat \ {0}]

(* The types; a call is in progress exactly as long as it has frames.      *)
TypeOK ==
  /\ query \in Key \cup {NoQuery}
  /\ DOMAIN memo \subseteq Key
  /\ memo \in [DOMAIN memo -> BOOLEAN]
  /\ stack \in Seq(Frame)
  /\ result \in {"idle", "busy", "yes", "no", "panic"}
  /\ result = "busy" <=> stack # <<>>

NewFrame(k) == [key |-> k, at |-> 1]

Init == /\ query = NoQuery
        /\ memo = NoMemo
        /\ stack = <<>>
        /\ result = "idle"

(* MovableTo, RefcopyableTo or CopyableTo: a fresh table, and the first    *)
(* call to assignableTo, which cannot find its key in it.                  *)
Call(k) ==
  /\ result = "idle"
  /\ query' = k
  /\ memo' = [q \in {k} |-> TRUE]
  /\ stack' = <<NewFrame(k)>>
  /\ result' = "busy"

Top == stack[Len(stack)]

(* The innermost method has a recursive call to make, namely Current. *)
Calling == stack # <<>> /\ Top.at \in DOMAIN Goals(Top.key)
Current == Goals(Top.key)[Top.at]

(* Mutant: the provisional entry says FALSE. *)
EnterFalse ==
  /\ Calling
  /\ Current \notin MissingGoal
  /\ Current \notin DOMAIN memo
  /\ memo' = [q \in DOMAIN memo \cup {Current} |->
                 IF q = Current THEN FALSE ELSE memo[q]]
  /\ stack' = Append(stack, NewFrame(Current))
  /\ UNCHANGED <<query, result>>

(* The call is not in the table: provisionally TRUE, and run its method. *)
Enter ==
  /\ Calling
  /\ Current \notin MissingGoal
  /\ Current \notin DOMAIN memo
  /\ memo' = [q \in DOMAIN memo \cup {Current} |->
                 IF q = Current THEN TRUE ELSE memo[q]]
  /\ stack' = Append(stack, NewFrame(Current))
  /\ UNCHANGED <<query, result>>

(* Mutant: the result of a recursive call is not looked at. *)
AdvanceUnchecked ==
  /\ Calling
  /\ Current \in DOMAIN memo
  /\ stack' = [stack EXCEPT ![Len(stack)].at = @ + 1]
  /\ UNCHANGED <<query, memo, result>>

(* Mutant: the loop over the children does not advance. *)
AdvanceNowhere ==
  /\ Calling
  /\ Current \in DOMAIN memo
  /\ memo[Current]
  /\ UNCHANGED vars

(* The call is in the table, from before or because it has just returned,  *)
(* and it is TRUE: on to the next one.                                     *)
Advance ==
  /\ Calling
  /\ Current \in DOMAIN memo
  /\ memo[Current]
  /\ stack' = [stack EXCEPT ![Len(stack)].at = @ + 1]
  /\ UNCHANGED <<query, memo, result>>

(* Mutant: the entry point does not return when its own call does. *)
FinishStaysBusy(v) ==
  /\ memo' = [memo EXCEPT ![Top.key] = v]
  /\ stack' = SubSeq(stack, 1, Len(stack) - 1)
  /\ UNCHANGED <<query, result>>

(* The innermost method returns v and its caller's frame is on top. *)
Finish(v) ==
  /\ memo' = [memo EXCEPT ![Top.key] = v]
  /\ stack' = SubSeq(stack, 1, Len(stack) - 1)
  /\ result' = IF Len(stack) > 1 THEN "busy" ELSE IF v THEN "yes" ELSE "no"
  /\ UNCHANGED query

(* Every test and every call of the method has succeeded. *)
Accept ==
  /\ stack # <<>>
  /\ LocalOK(Top.key)
  /\ Top.at \notin DOMAIN Goals(Top.key)
  /\ Finish(TRUE)

(* Mutant: the failure of a recursive call is recorded, but the method     *)
(* goes on with its next call.                                             *)
RejectAndGoOn ==
  /\ stack # <<>>
  /\ \/ ~LocalOK(Top.key) /\ Finish(FALSE)
     \/ /\ Calling /\ Current \in DOMAIN memo /\ ~memo[Current]
        /\ memo' = [memo EXCEPT ![Top.key] = FALSE]
        /\ stack' = [stack EXCEPT ![Len(stack)].at = @ + 1]
        /\ UNCHANGED <<query, result>>

(* A test of the method fails, or the call it has made returned FALSE. *)
Reject ==
  /\ stack # <<>>
  /\ \/ ~LocalOK(Top.key)
     \/ Calling /\ Current \in DOMAIN memo /\ ~memo[Current]
  /\ Finish(FALSE)

(* The method indexes a child that does not exist. *)
Panic ==
  /\ Calling
  /\ Current \in MissingGoal
  /\ stack' = <<>>
  /\ result' = "panic"
  /\ UNCHANGED <<query, memo>>

(* The entry point returns and its table is garbage. *)
Return ==
  /\ result \in {"yes", "no", "panic"}
  /\ query' = NoQuery
  /\ memo' = NoMemo
  /\ result' = "idle"
  /\ UNCHANGED stack

Step == Enter \/ Advance \/ Accept \/ Reject \/ Panic

Next == (\E k \in Queries : Call(k)) \/ Step \/ Return

(* A call that has begun runs to its end: it is ordinary sequential code.  *)
Spec == Init /\ [][Next]_vars /\ WF_vars(Step)

--------------------------------------------------------------------------------
(* The answer is the coinductive one whatever the order of the calls and   *)
(* whatever the provisional entries said while it was computed.            *)
Oracle == INSTANCE Oracle WITH Answers <- {"yes", "no", "panic"}
ImplementsOracle == Oracle!Spec

(* The inductive invariant.  Frames: the calls in progress are provisionally *)
(* TRUE and have all earlier calls of their method in the table.  Chain:   *)
(* every frame was called by the one below it, the first for the query.    *)
(* Distinct: the provisional entry keeps a key from being run twice at a   *)
(* time.  Settled: a finished TRUE entry has all its calls in the table.   *)
(* Failure: a FALSE entry is always the call the innermost method is       *)
(* waiting for, so that it, too, is about to fail.                         *)
Frames ==
  \A i \in DOMAIN stack :
    /\ stack[i].key \in DOMAIN memo
    /\ memo[stack[i].key]
    /\ \A j \in DOMAIN Goals(stack[i].key) :
         j < stack[i].at => Goals(stack[i].key)[j] \in DOMAIN memo

Chain ==
  /\ stack # <<>> => stack[1].key = query
  /\ \A i \in DOMAIN stack : i > 1 =>
       /\ stack[i - 1].at \in DOMAIN Goals(stack[i - 1].key)
       /\ stack[i].key = Goals(stack[i - 1].key)[stack[i - 1].at]

Distinct ==
  \A i, j \in DOMAIN stack : stack[i].key = stack[j].key => i = j

Settled ==
  result # "panic" =>
    \A q \in DOMAIN memo :
      \/ \E i \in DOMAIN stack : stack[i].key = q
      \/ ~memo[q]
      \/ LocalOK(q) /\ GoalSet(q) \subseteq DOMAIN memo

Failing == Calling /\ Current \in DOMAIN memo /\ ~memo[Current]

Failure ==
  (\E q \in DOMAIN memo : ~memo[q]) => result = "no" \/ Failing

Answered ==
  /\ result \in {"yes", "no"} => query \in DOMAIN memo
  /\ result = "no" => ~memo[query]

IInv == /\ TypeOK
        /\ Frames
        /\ Chain
        /\ Distinct
        /\ Settled
        /\ Failure
        /\ Answered

(* A positive answer leaves a table that proves it: every entry is TRUE,   *)
(* passes its own test and has all its calls in the table.  In particular  *)
(* no entry rests on a provisional TRUE that was later withdrawn.          *)
MemoCertifies ==
  result = "yes" =>
    /\ query \in DOMAIN memo
    /\ \A q \in DOMAIN memo : /\ memo[q]
                              /\ LocalOK(q)
                              /\ GoalSet(q) \subseteq DOMAIN memo

(* The answers are sound both ways: a positive one is coinductively true,  *)
(* a negative one is false whatever set of questions is tried.             *)
AnswersCoassignable ==
  /\ result = "yes" => Coassignable(query)
  /\ result = "no" => ~Coassignable(query)

(* After the first failure nothing new is looked at.  This is what makes   *)
(* the provisional entries safe: those computed from an entry that is now  *)
(* FALSE are still TRUE in the table, but nobody asks for them again.      *)
NoWorkAfterFailure ==
  [][(\E q \in DOMAIN memo : ~memo[q]) => DOMAIN memo' \subseteq DOMAIN memo]_vars

(* The recursion comes to an end for cyclic permissions too.               *)
Termination == (result = "busy") ~> (result # "busy")

--------------------------------------------------------------------------------
(* Moving twice is no more than moving once.                               *)
MoveTransitive ==
  result = "yes" /\ query.mode = "move" =>
    \A C \in Perm : Assignable(query.B, C, "move")
                      => Assignable(query.A, C, "move")

(* The pairs of permissions source and copy hold on the same memory:       *)
(* everything behind an indirection, down through the values found there.  *)
(* A triple says whether an indirection has been passed already.           *)
Held(A, B, behind) ==
  IF A.kind # B.kind THEN {}
  ELSE {<<elems(A)[i], elems(B)[i], behind \/ A.kind \in {"pointer", "chan", "slice", "map"}>> :
          i \in CASE A.kind \in {"pointer", "chan", "slice", "map", "array", "struct", "tuple"} ->
                       DOMAIN elems(A) \cap DOMAIN elems(B)
                 [] OTHER -> {}}

HeldBelow(triples) == UNION {Held(t[1], t[2], t[3]) : t \in triples}

Shared(k) == Closure(HeldBelow, Perm \X Perm \X BOOLEAN, {<<k.A, k.B, k.mode = "ref">>})

(* After a copy or a reference, what both sides can reach is linear in     *)
(* neither of them, however deep it lies and whatever cycle leads there    *)
(* (nil reaches nothing).                                                  *)
CopyKeepsExclusivity ==
  result = "yes" /\ query.mode # "move" =>
    \A t \in Shared(query) :
      t[3] /\ t[1].kind # "nil" => ~isLinear(t[1].base) /\ ~isLinear(t[2].base)

BaseKeysBelow(k) == {q \in Reach(k) : q.A.kind = "base"}

(* Referencing is "generally like move, with two differences": the source  *)
(* may be unreadable, and neither side may be linear.                      *)
ReferenceIsNonLinearMove ==
  /\ result = "yes" /\ query.mode = "ref"
     /\ (\A q \in BaseKeysBelow(query) : "r" \in q.A.base)
     => Assignable(query.A, query.B, "move")
  /\ result = "yes" /\ query.mode = "move"
     /\ (\A q \in BaseKeysBelow(query) : ~isLinear(q.A.base))
     => Assignable(query.A, query.B, "ref")
=============================================================================
