------------------------------ MODULE Merge_proofs ------------------------------
(***************************************************************************)
(* Proofs about Merge: its types, the invariant that says what the objects *)
(* under construction look like, and two properties of the permissions     *)
(* conversion builds that follow from it.                                  *)
(***************************************************************************)
EXTENDS Merge, Permission_proofs

--------------------------------------------------------------------------------
(* The operators of MergeRules stay within permissions, keys and failures. *)

(* A permission is a base permission or an object of another kind. *)
LEMMA PermKinds ==
  ASSUME NEW p \in Perm
  PROVE  /\ p.base \in BasePermission
         /\ p.kind \in StructuredKind \cup {"base"}
         /\ p.kind = "base" <=> p \notin Object
         /\ p \in Object <=> p.kind \in StructuredKind
<1>1. CASE p \in Object
  BY <1>1, ObjectAssumption DEF ObjectAssumption, StructuredKind
<1>2. CASE p \notin Object
  BY <1>2 DEF Perm, Base, StructuredKind
<1> QED
  BY <1>1, <1>2

(* Merging base permissions gives base permissions. *)
LEMMA MergeBaseType ==
  ASSUME NEW b \in BasePermission, NEW c \in BasePermission, NEW action \in Action
  PROVE  /\ mergeBase(b, c, action) \in BasePermission
         /\ contravariant(action) \in Action
         /\ TargetBase(b, c) \in BasePermission
BY DEF mergeBase, contravariant, TargetBase, Owned, StripWrites, StripReads, BasePermission, Action, Right

(* Failures are no keys: their actions differ. *)
LEMMA FailureIsNoKey == Key \cap FailureGoal = {}
BY DEF Key, FailureGoal, Failure, Goal, Action

(* Children in pairs lead to keys, or to a failure. *)
LEMMA PairwiseType ==
  ASSUME NEW s \in Seq(Perm), NEW t \in Seq(Perm), NEW action \in Action
  PROVE  Pairwise(s, t, action) \in Seq(Key \cup FailureGoal)
<1>1. CASE Len(s) = Len(t)
  <2>1. \A i \in DOMAIN s : Goal(s[i], t[i], action) \in Key
    BY <1>1 DEF Key, Goal
  <2>2. DOMAIN s = 1..Len(s) /\ Len(s) \in Nat
    OBVIOUS
  <2> QED
    BY <1>1, <2>1, <2>2 DEF Pairwise
<1>2. CASE Len(s) # Len(t)
  <2>1. Failure(Base(None), "error") \in FailureGoal
    BY DEF FailureGoal, Perm, None, BasePermission
  <2>2. Pairwise(s, t, action) = <<Failure(Base(None), "error")>>
    BY <1>2 DEF Pairwise
  <2> QED
    BY <2>1, <2>2
<1> QED
  BY <1>1, <1>2

(* Converting a child to a base permission is a key, or panics. *)
LEMMA ChildToBaseType ==
  ASSUME NEW k \in Key, ToBase(k), NEW c \in Perm
  PROVE  ChildToBase(k, c) \in Key \cup FailureGoal
<1>1. /\ c.base \in BasePermission /\ k.goal.base \in BasePermission
      /\ k.action \in Action
  BY PermKinds DEF Key
<1>2. ChildBase(k.perm.kind, c.base, k.goal.base, k.action) \in BasePermission
  BY <1>1, MergeBaseType DEF ChildBase
<1>3. Goal(c, Base(ChildBase(k.perm.kind, c.base, k.goal.base, k.action)), k.action)
        \in Key
  BY <1>1, <1>2 DEF Key, Goal, Perm
<1>4. Failure(c, "panic") \in FailureGoal
  BY DEF FailureGoal
<1> QED
  BY <1>3, <1>4 DEF ChildToBase

(* The questions of the children of a new object. *)
LEMMA GoalsType ==
  ASSUME NEW k \in Key
  PROVE  Goals(k) \in Seq(Key \cup FailureGoal)
<1> DEFINE p == k.perm
           q == k.goal
<1>1. p \in Perm /\ q \in Perm /\ k.action \in Action
  BY DEF Key
<1>2. CASE Builds(k) /\ ToBase(k)
  <2>1. p \in Object
    BY <1>1, <1>2, PermKinds DEF Builds, Composite
  <2> DEFINE e == elems(p)
             r == recvs(p)
             a == params(p)
             s == results(p)
  <2>2. e \in Seq(Perm) /\ r \in Seq(Perm) /\ a \in Seq(Perm) /\ s \in Seq(Perm)
    BY <2>1, ShapeType
  <2> HIDE DEF e, r, a, s
  <2>3. e \o r \o a \o s \in Seq(Perm)
    BY <2>2
  <2>4. AllChildren(p) \in Seq(Perm)
    BY <2>3 DEF AllChildren, e, r, a, s
  <2>5. \A i \in DOMAIN AllChildren(p) :
          ChildToBase(k, AllChildren(p)[i]) \in Key \cup FailureGoal
    BY <1>2, <2>4, ChildToBaseType
  <2>6. /\ DOMAIN AllChildren(p) = 1..Len(AllChildren(p))
        /\ Len(AllChildren(p)) \in Nat
    BY <2>4
  <2> QED
    BY <1>2, <2>5, <2>6 DEF Goals
<1>3. CASE Builds(k) /\ ~ToBase(k)
  <2>1. p \in Object /\ q \in Object
    BY <1>1, <1>3, PermKinds DEF Builds, Composite
  <2> DEFINE e == Pairwise(elems(p), elems(q), k.action)
             r == Pairwise(recvs(p), recvs(q), contravariant(k.action))
             a == Pairwise(params(p), params(q), contravariant(k.action))
             s == Pairwise(results(p), results(q), k.action)
  <2>2. contravariant(k.action) \in Action
    BY <1>1 DEF contravariant, Action
  <2>3. /\ e \in Seq(Key \cup FailureGoal) /\ r \in Seq(Key \cup FailureGoal)
        /\ a \in Seq(Key \cup FailureGoal) /\ s \in Seq(Key \cup FailureGoal)
    BY <1>1, <2>1, <2>2, ShapeType, PairwiseType
  <2>4. Goals(k) = e \o r \o a \o s
    BY <1>3 DEF Goals, MergedChildren
  <2> HIDE DEF e, r, a, s
  <2> QED
    BY <2>3, <2>4
<1>4. CASE ~Builds(k)
  BY <1>4 DEF Goals
<1> QED
  BY <1>2, <1>3, <1>4

(* A question that shares its answer builds nothing, and what is delivered *)
(* is a permission, old or new.                                            *)
LEMMA AnswerType ==
  ASSUME NEW k \in Key
  PROVE  /\ Shares(k) => ~Builds(k)
         /\ Shares(k) => Shared(k) \in Perm
         /\ Builds(k) \/ Shares(k) => AnswerTo(k) \in Result
<1>1. /\ k.perm \in Perm /\ k.goal \in Perm /\ k.action \in Action
      /\ k.perm.base \in BasePermission /\ k.goal.base \in BasePermission
  BY PermKinds DEF Key
<1>2. Shares(k) => ~Builds(k)
  BY DEF Shares, SharesGoal, SharesPerm, MergesBases, Builds, Composite,
         Nillable, StructuredKind, ToBase
<1>3. Base(mergeBase(k.perm.base, k.goal.base, k.action)) \in Perm
  BY <1>1, MergeBaseType DEF Perm
<1>4. Shares(k) => Shared(k) \in Perm
  BY <1>1, <1>3 DEF Shares, Shared
<1> QED
  BY <1>2, <1>4 DEF AnswerTo, Result

--------------------------------------------------------------------------------
(* The inductive invariant. *)

(* Nothing has been asked. *)
LEMMA InitIInv == Init => IInv
<1>1. NoAnswer \in Result
  BY DEF NoAnswer, Result, Perm, None, BasePermission
<1>2. DOMAIN NoKids = {} /\ NoKids \in [{} -> Seq(Result)]
  BY DEF NoKids
<1> QED
  BY <1>1, <1>2 DEF Init, IInv, TypeOK, Faithful, Chain, Distinct, Settled

(* The object on top of the stack is under construction and incomplete or  *)
(* complete; its questions are keys or failures.                           *)
LEMMA TopFacts ==
  ASSUME TypeOK, stack # <<>>
  PROVE  /\ Len(stack) \in Nat \ {0}
         /\ Len(stack) \in DOMAIN stack
         /\ Top \in DOMAIN kids
         /\ Top \in Key
         /\ Builds(Top)
         /\ kids[Top] \in Seq(Result)
         /\ Len(kids[Top]) \in Nat
         /\ Goals(Top) \in Seq(Key \cup FailureGoal)
<1>1. Len(stack) \in Nat \ {0} /\ Top \in DOMAIN kids
  BY EmptySeq DEF TypeOK, Top
<1>2. Top \in Key /\ Builds(Top) /\ kids[Top] \in Seq(Result)
  BY <1>1 DEF TypeOK
<1> QED
  BY <1>1, <1>2, GoalsType DEF TypeOK

(* The question at hand is the next one of the innermost object, or the    *)
(* caller's.                                                               *)
LEMMA CurrentFacts ==
  ASSUME TypeOK, Asking
  PROVE  Current \in Key \cup FailureGoal
<1>1. CASE stack = <<>>
  BY <1>1 DEF Current, Asking, TypeOK
<1>2. CASE stack # <<>>
  <2>1. Len(kids[Top]) + 1 \in 1..Len(Goals(Top))
    BY <1>2, TopFacts DEF Asking
  <2> QED
    BY <1>2, <2>1, TopFacts DEF Current
<1> QED
  BY <1>1, <1>2

(* Giving an object the right next child, or the caller the answer, keeps  *)
(* the invariant.  It is here that no object may be in progress twice: the *)
(* child would be given to the object further down as well, which is still *)
(* waiting for another one.                                                *)
LEMMA DeliverIInv ==
  ASSUME IInv, result = "busy",
         NEW st \in Seq(DOMAIN kids), NEW p \in Result, Deliver(p, st),
         Len(st) <= Len(stack),
         \A i \in 1..Len(st) : st[i] = stack[i],
         \A k \in DOMAIN kids : (\E i \in 1..Len(stack) : stack[i] = k) =>
           \/ \E i \in 1..Len(st) : st[i] = k
           \/ Len(kids[k]) = Len(Goals(k)),
         st # <<>> =>
           /\ Len(kids[st[Len(st)]]) < Len(Goals(st[Len(st)]))
           /\ Goals(st[Len(st)])[Len(kids[st[Len(st)]]) + 1] \notin FailureGoal
           /\ p = AnswerTo(Goals(st[Len(st)])[Len(kids[st[Len(st)]]) + 1])
  PROVE  IInv'
<1> DEFINE n == Len(st)
           t == st[n]
<1>0. TypeOK /\ stack' = st /\ query' = query
  BY DEF IInv, Deliver
<1>1. n \in Nat /\ Len(stack) \in Nat /\ DOMAIN st = 1..n /\ DOMAIN stack = 1..Len(stack)
  BY <1>0 DEF TypeOK
<1>2. \A i \in 1..n : i \in DOMAIN stack /\ st[i] = stack[i]
  BY <1>1
<1>3. Distinct'
  BY <1>0, <1>1, <1>2 DEF IInv, Distinct
<1>4. \A k \in DOMAIN kids : (\E i \in 1..n : st[i] = k) \/ Len(kids[k]) = Len(Goals(k))
  BY <1>1 DEF IInv, Settled
<1>5. CASE st = <<>>
  <2>1. UNCHANGED kids /\ answer' = p /\ result' = "built"
    BY <1>5 DEF Deliver
  <2>2. TypeOK'
    BY <1>0, <2>1 DEF TypeOK
  <2>3. Faithful'
    BY <2>1 DEF IInv, Faithful
  <2>4. Chain'
    BY <1>0, <1>5 DEF Chain
  <2>5. Settled'
    BY <1>0, <1>1, <1>4, <2>1 DEF Settled
  <2> QED
    BY <1>3, <2>2, <2>3, <2>4, <2>5 DEF IInv
<1>6. CASE st # <<>>
  <2>1. /\ n \in 1..n /\ t \in DOMAIN kids /\ t \in Key
        /\ kids[t] \in Seq(Result) /\ Len(kids[t]) \in Nat
        /\ Goals(t) \in Seq(Key \cup FailureGoal)
    <3>1. n \in 1..n /\ t \in DOMAIN kids
      BY <1>1, <1>6, EmptySeq
    <3>2. t \in Key /\ kids[t] \in Seq(Result)
      BY <1>0, <3>1 DEF TypeOK
    <3> QED
      BY <3>1, <3>2, GoalsType
  <2>2. /\ kids' = [kids EXCEPT ![t] = Append(kids[t], p)]
        /\ UNCHANGED <<answer, result>>
    BY <1>6 DEF Deliver
  <2>3. /\ DOMAIN kids' = DOMAIN kids
        /\ kids'[t] = Append(kids[t], p)
        /\ \A k \in DOMAIN kids : k # t => kids'[k] = kids[k]
    BY <2>1, <2>2 DEF TypeOK
  <2>4. /\ kids'[t] \in Seq(Result)
        /\ Len(kids'[t]) = Len(kids[t]) + 1
        /\ kids'[t][Len(kids[t]) + 1] = p
        /\ \A i \in 1..Len(kids[t]) : kids'[t][i] = kids[t][i]
    BY <2>1, <2>3, AppendProperties
  <2>5. TypeOK'
    <3>1. \A k \in DOMAIN kids' : kids'[k] \in Seq(Result)
      BY <1>0, <2>3, <2>4 DEF TypeOK
    <3>2. kids' \in [DOMAIN kids' -> Seq(Result)]
      BY <2>2, <3>1, <1>0 DEF TypeOK
    <3> QED
      BY <1>0, <2>2, <2>3, <3>2 DEF TypeOK
  <2>6. Faithful'
    <3> SUFFICES ASSUME NEW k \in DOMAIN kids
                 PROVE  /\ Len(kids'[k]) <= Len(Goals(k))
                        /\ \A i \in DOMAIN kids'[k] :
                             /\ Goals(k)[i] \notin FailureGoal
                             /\ kids'[k][i] = AnswerTo(Goals(k)[i])
      BY <2>3 DEF Faithful
    <3>1. CASE k # t
      BY <2>3, <3>1 DEF IInv, Faithful
    <3>2. CASE k = t
      <4>1. Len(kids'[t]) <= Len(Goals(t))
        BY <1>6, <2>1, <2>4
      <4>2. DOMAIN kids'[t] = 1..(Len(kids[t]) + 1) /\ DOMAIN kids[t] = 1..Len(kids[t])
        BY <2>1, <2>4
      <4>3. ASSUME NEW i \in 1..Len(kids[t])
            PROVE  /\ Goals(t)[i] \notin FailureGoal
                   /\ kids'[t][i] = AnswerTo(Goals(t)[i])
        BY <2>1, <2>4, <4>2 DEF IInv, Faithful
      <4>4. \A i \in 1..(Len(kids[t]) + 1) : i \in 1..Len(kids[t]) \/ i = Len(kids[t]) + 1
        BY <2>1
      <4> QED
        BY <1>6, <2>4, <3>2, <4>1, <4>2, <4>3, <4>4
    <3> QED
      BY <3>1, <3>2
  <2>7. Chain'
    <3>1. stack' # <<>> => result' = "busy"
      BY <2>2
    <3>2. ASSUME NEW i \in 1..n, i > 1
          PROVE  /\ Len(kids'[st[i - 1]]) < Len(Goals(st[i - 1]))
                 /\ st[i] = Goals(st[i - 1])[Len(kids'[st[i - 1]]) + 1]
      <4>1. i - 1 \in 1..n /\ i - 1 # n
        BY <1>1, <3>2
      <4>2. st[i - 1] = stack[i - 1] /\ st[i] = stack[i] /\ t = stack[n]
        BY <1>2, <2>1, <4>1
      <4>3. st[i - 1] \in DOMAIN kids
        BY <1>1, <4>1
      <4>4. i - 1 \in DOMAIN stack /\ n \in DOMAIN stack
        BY <1>2, <2>1, <4>1
      <4>5. stack[i - 1] # stack[n]
        BY <4>1, <4>4 DEF IInv, Distinct
      <4> QED
        BY <1>2, <2>3, <3>2, <4>2, <4>3, <4>5 DEF IInv, Chain
    <3> QED
      BY <1>0, <1>1, <3>1, <3>2 DEF Chain
  <2>8. Settled'
    <3> SUFFICES ASSUME NEW k \in DOMAIN kids
                 PROVE  (\E i \in 1..n : st[i] = k) \/ Len(kids'[k]) = Len(Goals(k))
      BY <1>0, <1>1, <2>3 DEF Settled
    <3>1. CASE k = t
      BY <2>1, <3>1
    <3>2. CASE k # t
      BY <1>4, <2>3, <3>2
    <3> QED
      BY <3>1, <3>2
  <2> QED
    BY <1>3, <2>5, <2>6, <2>7, <2>8 DEF IInv
<1> QED
  BY <1>5, <1>6

(* A call begins. *)
LEMMA CallIInv ==
  ASSUME IInv, Call
  PROVE  IInv'
<1>1. /\ query' \in Key /\ result = "idle" /\ result' = "busy"
      /\ UNCHANGED <<kids, stack, answer>>
  BY QueriesAssumption DEF QueriesAssumption, Call
<1>2. TypeOK'
  BY <1>1 DEF IInv, TypeOK
<1>3. Faithful' /\ Chain' /\ Distinct'
  BY <1>1 DEF IInv, Faithful, Chain, Distinct
<1>4. Settled'
  BY <1>1 DEF IInv, Settled
<1> QED
  BY <1>2, <1>3, <1>4 DEF IInv

(* A question that builds nothing, or whose object is registered, is       *)
(* answered in place.                                                      *)
LEMMA InPlaceIInv ==
  ASSUME IInv, Asking, Current \notin FailureGoal,
         Builds(Current) \/ Shares(Current),
         Deliver(AnswerTo(Current), stack)
  PROVE  IInv'
<1>1. TypeOK /\ result = "busy" /\ stack \in Seq(DOMAIN kids)
  BY DEF IInv, TypeOK, Asking
<1>2. AnswerTo(Current) \in Result
  BY <1>1, CurrentFacts, AnswerType
<1>3. \A i \in 1..Len(stack) : stack[i] = stack[i]
  OBVIOUS
<1>4. Len(stack) <= Len(stack)
  BY <1>1
<1>5. stack # <<>> =>
        /\ Len(kids[stack[Len(stack)]]) < Len(Goals(stack[Len(stack)]))
        /\ Goals(stack[Len(stack)])[Len(kids[stack[Len(stack)]]) + 1] = Current
  BY DEF Asking, Current, Top
<1> HIDE DEF AnswerTo
<1> QED
  BY <1>1, <1>2, <1>3, <1>4, <1>5, DeliverIInv

(* A registered key is answered with its object, finished or not. *)
LEMMA ReuseIInv ==
  ASSUME IInv, Reuse
  PROVE  IInv'
<1>1. Current \in Key /\ Builds(Current) /\ Asking
  BY DEF Reuse, IInv, TypeOK
<1>2. Current \notin FailureGoal
  BY <1>1, FailureIsNoKey
<1>3. AnswerTo(Current) = New(Current)
  BY <1>1 DEF AnswerTo
<1> QED
  BY <1>1, <1>2, <1>3, InPlaceIInv DEF Reuse

(* An answer that exists already is given as it is. *)
LEMMA ShareIInv ==
  ASSUME IInv, Share
  PROVE  IInv'
<1>1. Current \in Key /\ Shares(Current) /\ Asking
  BY CurrentFacts DEF Share, IInv
<1>2. AnswerTo(Current) = Shared(Current)
  BY <1>1, AnswerType DEF AnswerTo
<1> QED
  BY <1>1, <1>2, InPlaceIInv DEF Share

(* A new object is registered, and waited for by the one below it. *)
LEMMA BuildIInv ==
  ASSUME IInv, Build
  PROVE  IInv'
<1> DEFINE n == Len(stack)
           k == Current
<1>1. /\ TypeOK /\ Asking /\ k \in Key /\ Builds(k) /\ k \notin DOMAIN kids
      /\ stack \in Seq(DOMAIN kids) /\ n \in Nat /\ DOMAIN stack = 1..n
  BY CurrentFacts DEF Build, IInv, TypeOK
<1>2. /\ DOMAIN kids' = DOMAIN kids \cup {k}
      /\ kids'[k] = <<>>
      /\ \A q \in DOMAIN kids : kids'[q] = kids[q]
      /\ UNCHANGED <<query, answer, result>>
      /\ kids' = [q \in DOMAIN kids' |-> kids'[q]]
  BY <1>1 DEF Build
<1> HIDE DEF k
<1>3. /\ stack' = Append(stack, k)
      /\ stack' \in Seq(DOMAIN kids')
      /\ Len(stack') = n + 1 /\ DOMAIN stack' = 1..(n + 1)
      /\ stack'[n + 1] = k
      /\ \A i \in 1..n : stack'[i] = stack[i]
  <2>1. stack' = Append(stack, k) /\ stack \in Seq(DOMAIN kids') /\ k \in DOMAIN kids'
    BY <1>1, <1>2 DEF Build, k
  <2> QED
    BY <1>1, <2>1, AppendProperties
<1>4. TypeOK'
  <2>1. \A q \in DOMAIN kids : kids[q] \in Seq(Result)
    BY <1>1 DEF TypeOK
  <2>2. <<>> \in Seq(Result)
    OBVIOUS
  <2>3. \A q \in DOMAIN kids' : kids'[q] \in Seq(Result)
    BY <1>2, <2>1, <2>2
  <2>4. kids' \in [DOMAIN kids' -> Seq(Result)]
    BY <1>2, <2>3
  <2> QED
    BY <1>1, <1>2, <1>3, <2>4 DEF TypeOK
<1>5. Faithful'
  <2>1. Len(kids'[k]) = 0 /\ DOMAIN kids'[k] = {} /\ Len(Goals(k)) \in Nat
    BY <1>1, <1>2, GoalsType
  <2>2. \A q \in DOMAIN kids' : q = k \/ (q \in DOMAIN kids /\ kids'[q] = kids[q])
    BY <1>2
  <2> QED
    BY <2>1, <2>2 DEF IInv, Faithful
<1>6. Chain'
  <2>1. result' = "busy"
    BY <1>1, <1>2 DEF Asking
  <2>2. ASSUME NEW i \in 1..(n + 1), i > 1
        PROVE  /\ Len(kids'[stack'[i - 1]]) < Len(Goals(stack'[i - 1]))
               /\ stack'[i] = Goals(stack'[i - 1])[Len(kids'[stack'[i - 1]]) + 1]
    <3>1. i - 1 \in 1..n
      BY <1>1, <2>2
    <3>2. stack'[i - 1] = stack[i - 1] /\ stack[i - 1] \in DOMAIN kids
      BY <1>1, <1>3, <3>1
    <3>3. kids'[stack'[i - 1]] = kids[stack[i - 1]]
      BY <1>2, <3>2
    <3>4. CASE i = n + 1
      <4>1. stack # <<>> /\ stack[i - 1] = Top
        BY <1>1, <3>1, <3>4 DEF Top
      <4> QED
        BY <1>1, <1>3, <3>2, <3>3, <3>4, <4>1 DEF Asking, Current, k
    <3>5. CASE i \in 1..n
      BY <1>1, <1>3, <2>2, <3>2, <3>3, <3>5 DEF IInv, Chain
    <3> QED
      BY <1>1, <3>4, <3>5
  <2> QED
    BY <1>3, <2>1, <2>2 DEF Chain
<1>7. Distinct'
  <2>1. \A i \in 1..n : stack[i] # k
    BY <1>1
  <2>2. \A i \in 1..(n + 1) : i = n + 1 \/ i \in 1..n
    BY <1>1
  <2> QED
    BY <1>1, <1>3, <2>1, <2>2 DEF IInv, Distinct
<1>8. Settled'
  <2> SUFFICES ASSUME NEW q \in DOMAIN kids'
               PROVE  \/ \E i \in 1..(n + 1) : stack'[i] = q
                      \/ Len(kids'[q]) = Len(Goals(q))
    BY <1>3 DEF Settled
  <2>1. CASE q = k
    BY <1>1, <1>3, <2>1
  <2>2. CASE q \in DOMAIN kids
    <3>1. (\E i \in 1..n : stack[i] = q) \/ Len(kids[q]) = Len(Goals(q))
      BY <1>1, <2>2 DEF IInv, Settled, Asking
    <3>2. \A i \in 1..n : i \in 1..(n + 1)
      BY <1>1
    <3> QED
      BY <1>2, <1>3, <2>2, <3>1, <3>2
  <2> QED
    BY <1>2, <2>1, <2>2
<1> QED
  BY <1>4, <1>5, <1>6, <1>7, <1>8 DEF IInv

(* A complete object is what the one below it waits for. *)
LEMMA FinishIInv ==
  ASSUME IInv, Finish
  PROVE  IInv'
<1> DEFINE n  == Len(stack)
           st == SubSeq(stack, 1, n - 1)
<1>1. /\ TypeOK /\ stack # <<>> /\ stack \in Seq(DOMAIN kids) /\ result = "busy"
      /\ n \in Nat \ {0} /\ DOMAIN stack = 1..n /\ Builds(Top) /\ Top \in Key
  BY TopFacts DEF Finish, IInv, TypeOK
<1>2. /\ st \in Seq(DOMAIN kids) /\ Len(st) = n - 1
      /\ \A i \in 1..(n - 1) : st[i] = stack[i]
      /\ st # <<>> <=> n > 1
  <2>1. stack \in Seq(DOMAIN kids) /\ stack # <<>>
    BY <1>1
  <2>2. st \in Seq(DOMAIN kids)
    BY <2>1, PopFacts
  <2>3. Len(st) = n - 1 /\ (st # <<>> <=> n > 1)
    BY <2>1, PopFacts
  <2>4. \A i \in 1..(n - 1) : st[i] = stack[i]
    BY <2>1, PopFacts
  <2> QED
    BY <2>2, <2>3, <2>4
<1>3. New(Top) \in Result /\ AnswerTo(Top) = New(Top)
  BY <1>1 DEF Result, AnswerTo
<1>4. Deliver(New(Top), st)
  BY DEF Finish
<1> HIDE DEF st
<1>5. ASSUME st # <<>>
      PROVE  /\ Len(kids[st[n - 1]]) < Len(Goals(st[n - 1]))
             /\ Goals(st[n - 1])[Len(kids[st[n - 1]]) + 1] = Top
  <2>1. n > 1 /\ n \in 1..n /\ n - 1 \in 1..(n - 1)
    BY <1>1, <1>2, <1>5
  <2>2. st[n - 1] = stack[n - 1]
    BY <1>2, <2>1
  <2> QED
    BY <1>1, <2>1, <2>2 DEF IInv, Chain, Top
<1>6. Top \notin FailureGoal
  BY <1>1, FailureIsNoKey
<1>7. Len(st) <= Len(stack)
  BY <1>1, <1>2
<1>8. ASSUME NEW k \in DOMAIN kids, NEW i \in 1..n, stack[i] = k
      PROVE  (\E j \in 1..Len(st) : st[j] = k) \/ Len(kids[k]) = Len(Goals(k))
  <2>1. CASE i = n
    BY <1>8, <2>1 DEF Finish, Top
  <2>2. CASE i # n
    <3>1. \A m \in Nat : \A j \in 1..m : j # m => j \in 1..(m - 1)
      OBVIOUS
    <3>2. i \in 1..(n - 1)
      BY <1>1, <2>2, <3>1
    <3> QED
      BY <1>2, <1>8, <3>2
  <2> QED
    BY <2>1, <2>2
<1> QED
  BY <1>1, <1>2, <1>3, <1>4, <1>5, <1>6, <1>7, <1>8, DeliverIInv

(* A failure leaves the objects as they are and nothing in progress. *)
LEMMA FailIInv ==
  ASSUME IInv, Fail
  PROVE  IInv'
<1>1. /\ TypeOK /\ stack' = <<>> /\ UNCHANGED <<query, kids, answer>> /\ query \in Key
  BY DEF IInv, Fail, TypeOK, Asking
<1>2. result' \in {"error", "panic"}
  BY DEF Fail, FailureGoal, Failure, Goal
<1>3. TypeOK'
  BY <1>1, <1>2 DEF TypeOK
<1>4. Faithful' /\ Chain' /\ Distinct'
  BY <1>1 DEF IInv, Faithful, Chain, Distinct
<1>5. Settled'
  BY <1>1, <1>2 DEF IInv, Settled
<1> QED
  BY <1>3, <1>4, <1>5 DEF IInv

(* The entry point prefers its argument to an equal copy of it. *)
LEMMA IdentifyIInv ==
  ASSUME IInv, Identify
  PROVE  IInv'
<1>1. /\ TypeOK /\ query \in Key /\ stack = <<>> /\ result' = "done"
      /\ UNCHANGED <<query, kids, stack>>
  BY DEF IInv, Identify, TypeOK, Chain
<1>2. query.perm \in Result
  BY <1>1 DEF Key, Result
<1>3. answer' \in Result
  BY <1>1, <1>2 DEF Identify, TypeOK
<1>4. TypeOK'
  BY <1>1, <1>3 DEF TypeOK
<1>5. Faithful' /\ Chain' /\ Distinct'
  BY <1>1 DEF IInv, Faithful, Chain, Distinct
<1>6. Settled'
  BY <1>1 DEF IInv, Settled, Identify
<1> QED
  BY <1>4, <1>5, <1>6 DEF IInv

(* The table of a call that has ended is dropped. *)
LEMMA ReturnIInv ==
  ASSUME IInv, Return
  PROVE  IInv'
<1>1. /\ stack = <<>> /\ stack' = <<>> /\ kids' = NoKids /\ result' = "idle"
      /\ query' = NoQuery /\ answer' = NoAnswer
  BY DEF IInv, Return, Chain
<1>2. Init'
  BY <1>1 DEF Init
<1>3. Init' => IInv'
  BY InitIInv, PTL
<1> QED
  BY <1>2, <1>3

(* Every state of every call satisfies the inductive invariant: unfinished *)
(* objects found in the table are always the ones a finished call would    *)
(* have given.                                                             *)
THEOREM Invariance == Spec => []IInv
<1>1. IInv /\ [Next]_vars => IInv'
  <2> SUFFICES ASSUME IInv, [Next]_vars
               PROVE  IInv'
    OBVIOUS
  <2>1. CASE Call
    BY <2>1, CallIInv
  <2>2. CASE Reuse
    BY <2>2, ReuseIInv
  <2>3. CASE Share
    BY <2>3, ShareIInv
  <2>4. CASE Build
    BY <2>4, BuildIInv
  <2>5. CASE Finish
    BY <2>5, FinishIInv
  <2>6. CASE Fail
    BY <2>6, FailIInv
  <2>7. CASE Identify
    BY <2>7, IdentifyIInv
  <2>8. CASE Return
    BY <2>8, ReturnIInv
  <2>9. CASE UNCHANGED vars
    BY <2>9 DEF vars, IInv, TypeOK, Faithful, Chain, Distinct, Settled
  <2> QED
    BY <2>1, <2>2, <2>3, <2>4, <2>5, <2>6, <2>7, <2>8, <2>9 DEF Next, Step
<1> QED
  BY InitIInv, <1>1, PTL DEF Spec

(* The table, the stack and the answer have the types they are declared    *)
(* with: in particular every object under construction is of a kind that   *)
(* has children.                                                           *)
THEOREM TypeCorrect == Spec => []TypeOK
<1>1. IInv => TypeOK
  BY DEF IInv
<1> QED
  BY Invariance, <1>1, PTL

(* No permission built by a call is handed out before it is finished.      *)
THEOREM Finished == Spec => []NothingUnfinished
<1>1. IInv => NothingUnfinished
  BY DEF IInv, TypeOK, Chain, Settled, NothingUnfinished
<1> QED
  BY Invariance, <1>1, PTL

--------------------------------------------------------------------------------
(* What a call can reach.  A failing question leads only to failing ones.  *)
LEMMA FailureGoals ==
  ASSUME NEW k \in FailureGoal
  PROVE  Goals(k) \in Seq(FailureGoal)
<1>1. PICK p \in Perm, status \in {"error", "panic"} : k = Goal(p, p, status)
  BY DEF FailureGoal, Failure
<1>2. k.perm = p /\ k.goal = p /\ k.action = status /\ ~ToBase(k) /\ contravariant(status) = status
  BY <1>1 DEF Goal, ToBase, contravariant
<1>3. CASE Builds(k)
  <2>1. p \in Object
    BY <1>2, <1>3, PermKinds DEF Builds, Composite
  <2>2. ASSUME NEW s \in Seq(Perm)
        PROVE  Pairwise(s, s, status) \in Seq(FailureGoal)
    <3>1. \A i \in DOMAIN s : Goal(s[i], s[i], status) \in FailureGoal
      BY DEF FailureGoal, Failure
    <3> QED
      BY <3>1 DEF Pairwise
  <2> DEFINE e == Pairwise(elems(p), elems(p), status)
             r == Pairwise(recvs(p), recvs(p), status)
             a == Pairwise(params(p), params(p), status)
             s == Pairwise(results(p), results(p), status)
  <2>3. /\ e \in Seq(FailureGoal) /\ r \in Seq(FailureGoal)
        /\ a \in Seq(FailureGoal) /\ s \in Seq(FailureGoal)
    BY <2>1, <2>2, ShapeType
  <2>4. Goals(k) = e \o r \o a \o s
    BY <1>2, <1>3 DEF Goals, MergedChildren
  <2> HIDE DEF e, r, a, s
  <2> QED
    BY <2>3, <2>4
<1>4. CASE ~Builds(k)
  BY <1>4 DEF Goals
<1> QED
  BY <1>3, <1>4

(* Questions lead to questions and failures, of which there are finitely   *)
(* many.                                                                   *)
LEMMA GoalsWithin ==
  /\ IsFiniteSet(Key \cup FailureGoal)
  /\ \A s \in SUBSET (Key \cup FailureGoal) : GoalsOf(s) \subseteq Key \cup FailureGoal
<1> DEFINE U == Key \cup FailureGoal
           All == Action \cup {"error", "panic"}
<1>1. IsFiniteSet(All)
  <2>1. \A x : IsFiniteSet({x})
    BY FS_Singleton
  <2>2. \A S, T : IsFiniteSet(S) /\ IsFiniteSet(T) => IsFiniteSet(S \cup T)
    BY FS_Union
  <2>3. All = (({"convert"} \cup {"strict"}) \cup ({"intersect"} \cup {"union"})) \cup ({"error"} \cup {"panic"})
    BY DEF Action
  <2> HIDE DEF All
  <2> QED
    BY <2>1, <2>2, <2>3
<1>2. IsFiniteSet((Perm \X Perm) \X All)
  <2> HIDE DEF All
  <2> QED
    BY <1>1, PermFinite, FS_Product
<1>3. IsFiniteSet(U)
  <2> DEFINE f == [t \in (Perm \X Perm) \X All |-> Goal(t[1][1], t[1][2], t[2])]
             I == {f[t] : t \in (Perm \X Perm) \X All}
  <2>1. IsFiniteSet(I)
    <3> HIDE DEF f, All
    <3> QED
      BY <1>2, FiniteImage
  <2>2. ASSUME NEW k \in U
        PROVE  k \in I
    <3>1. PICK p \in Perm, q \in Perm, a \in All : k = Goal(p, q, a)
      <4>1. CASE k \in Key
        <5>1. k = Goal(k.perm, k.goal, k.action) /\ k.perm \in Perm /\ k.goal \in Perm /\ k.action \in All
          BY <4>1 DEF Key, Goal
        <5> QED
          BY <5>1
      <4>2. CASE k \in FailureGoal
        BY <4>2 DEF FailureGoal, Failure
      <4> QED
        BY <4>1, <4>2
    <3>2. <<<<p, q>>, a>> \in (Perm \X Perm) \X All
      OBVIOUS
    <3>3. f[<<<<p, q>>, a>>] = k
      BY <3>1, <3>2
    <3> HIDE DEF f, All
    <3> QED
      BY <3>2, <3>3
  <2> HIDE DEF f
  <2> QED
    BY <2>1, <2>2, FS_Subset
<1>4. ASSUME NEW k \in U
      PROVE  GoalSet(k) \subseteq U
  BY GoalsType, FailureGoals DEF GoalSet
<1> QED
  BY <1>3, <1>4 DEF GoalsOf

(* Reach is the least set with the question and what its members lead to.  *)
LEMMA ReachIsLeast ==
  ASSUME NEW k \in Key
  PROVE  /\ Reach(k) \subseteq Key \cup FailureGoal
         /\ k \in Reach(k)
         /\ GoalsOf(Reach(k)) \subseteq Reach(k)
         /\ \A t \in SUBSET (Key \cup FailureGoal) :
              k \in t /\ GoalsOf(t) \subseteq t => Reach(k) \subseteq t
<1> DEFINE U == Key \cup FailureGoal
           step == [s \in SUBSET U |-> s \cup GoalsOf(s)]
           grow[s \in SUBSET U] == LET next == s \cup GoalsOf(s)
                                   IN  IF next = s THEN s ELSE grow[next]
<1>1. Round(step, U)
  <2>1. \A s, t \in SUBSET U : s \subseteq t => GoalsOf(s) \subseteq GoalsOf(t)
    BY DEF GoalsOf
  <2> QED
    BY <2>1, GoalsWithin DEF Round
<1>2. grow = [s \in SUBSET U |-> LET next == s \cup GoalsOf(s)
                                 IN  IF next = s THEN s ELSE grow[next]]
  <2>1. PICK g : Walk(step, U, g)
    BY <1>1, WalkExists
  <2>2. g = [s \in SUBSET U |-> LET next == s \cup GoalsOf(s)
                                IN  IF next = s THEN s ELSE g[next]]
    BY <2>1 DEF Walk
  <2> QED
    BY <2>2, Zenon
<1>3. Reach(k) = grow[{k}]
  BY DEF Reach, Closure
<1> HIDE DEF grow
<1>4. Walk(step, U, grow)
  BY <1>2 DEF Walk
<1>5. Least(step, U, {k}, grow[{k}])
  BY <1>1, <1>4, GoalsWithin, WalkIsLeast
<1> QED
  BY <1>3, <1>5 DEF Least

(* A call works on what its question leads to, and every child given so    *)
(* far is a registered object or one that needs none.                      *)
Working ==
  /\ result = "idle" => kids = NoKids /\ stack = <<>>
  /\ stack # <<>> => stack[1] = query
  /\ \A k \in DOMAIN kids :
       /\ k \in Reach(query)
       /\ \A i \in DOMAIN kids[k] : Goals(k)[i] \in DOMAIN kids \/ Shares(Goals(k)[i])
  /\ result \in {"built", "done"} => query \in DOMAIN kids \/ Shares(query)

(* The question at hand is one the call can reach.                         *)
LEMMA CurrentReached ==
  ASSUME IInv, Working, Asking
  PROVE  query \in Key /\ Current \in Reach(query)
<1>1. query \in Key /\ TypeOK
  BY DEF IInv, TypeOK, Asking
<1>2. CASE stack = <<>>
  BY <1>1, <1>2, ReachIsLeast DEF Current
<1>3. CASE stack # <<>>
  <2>1. Current \in GoalSet(Top)
    <3>1. Len(kids[Top]) + 1 \in DOMAIN Goals(Top)
      BY <1>1, <1>3, TopFacts DEF Asking
    <3> QED
      BY <1>3, <3>1 DEF Current, GoalSet
  <2>2. Top \in Reach(query)
    BY <1>1, <1>3, TopFacts DEF Working
  <2> QED
    BY <1>1, <2>1, <2>2, ReachIsLeast DEF GoalsOf
<1> QED
  BY <1>2, <1>3

(* A delivered answer is the next child of the object at the end of st, or *)
(* what the entry point returns.                                           *)
LEMMA DeliverWorking ==
  ASSUME IInv, Working, result = "busy",
         NEW st \in Seq(DOMAIN kids), NEW p, Deliver(p, st),
         NEW k, k \in DOMAIN kids \/ Shares(k),
         IF st = <<>> THEN k = query
         ELSE st[1] = query /\ k = Goals(st[Len(st)])[Len(kids[st[Len(st)]]) + 1]
  PROVE  Working'
<1>1. TypeOK /\ stack' = st /\ query' = query
  BY DEF IInv, Deliver
<1>2. CASE st = <<>>
  <2>1. UNCHANGED kids /\ result' = "built"
    BY <1>2 DEF Deliver
  <2> QED
    BY <1>1, <1>2, <2>1 DEF Working
<1>3. CASE st # <<>>
  <2> DEFINE t == st[Len(st)]
  <2>1. t \in DOMAIN kids /\ kids[t] \in Seq(Result)
    BY <1>1, <1>3, EmptySeq DEF TypeOK
  <2>2. kids' = [kids EXCEPT ![t] = Append(kids[t], p)] /\ result' = "busy"
    BY <1>3 DEF Deliver
  <2>3. DOMAIN kids' = DOMAIN kids /\ kids'[t] = Append(kids[t], p)
        /\ \A q \in DOMAIN kids : q # t => kids'[q] = kids[q]
    BY <2>1, <2>2 DEF TypeOK
  <2>4. DOMAIN kids'[t] = 1..(Len(kids[t]) + 1) /\ DOMAIN kids[t] = 1..Len(kids[t]) /\ Len(kids[t]) \in Nat
    BY <2>1, <2>3
  <2> HIDE DEF t
  <2>5. ASSUME NEW q \in DOMAIN kids, NEW i \in DOMAIN kids'[q]
        PROVE  Goals(q)[i] \in DOMAIN kids \/ Shares(Goals(q)[i])
    <3>1. CASE i \in DOMAIN kids[q]
      BY <3>1 DEF Working
    <3>2. CASE i \notin DOMAIN kids[q]
      <4>1. q = t
        BY <2>3, <3>2
      <4>2. i = Len(kids[t]) + 1
        BY <2>4, <3>2, <4>1
      <4>3. k = Goals(q)[i]
        BY <1>3, <4>1, <4>2 DEF t
      <4> QED
        BY <4>3
    <3> QED
      BY <3>1, <3>2
  <2> QED
    BY <1>1, <1>3, <2>2, <2>3, <2>5 DEF Working
<1> QED
  BY <1>2, <1>3

(* What a call works on stays within what it can reach.                    *)
LEMMA WorkingStep ==
  ASSUME IInv, Working, [Next]_vars
  PROVE  Working'
<1>1. CASE Call
  <2>1. kids' = NoKids /\ stack' = <<>> /\ result' = "busy"
    BY <1>1 DEF Call, Working
  <2> QED
    BY <2>1 DEF Working, NoKids
<1>2. ASSUME Asking, NEW p, Deliver(p, stack), Current \in DOMAIN kids \/ Shares(Current)
      PROVE  Working'
  <2>1. stack \in Seq(DOMAIN kids) /\ result = "busy"
    BY <1>2 DEF IInv, TypeOK, Asking
  <2>2. IF stack = <<>> THEN Current = query
        ELSE stack[1] = query
             /\ Current = Goals(stack[Len(stack)])[Len(kids[stack[Len(stack)]]) + 1]
    BY DEF Current, Top, Working
  <2> QED
    BY <1>2, <2>1, <2>2, DeliverWorking
<1>3. CASE Reuse \/ Share
  BY <1>2, <1>3 DEF Reuse, Share
<1>4. CASE Build
  <2>1. /\ DOMAIN kids' = DOMAIN kids \cup {Current} /\ kids'[Current] = <<>>
        /\ \A q \in DOMAIN kids : kids'[q] = kids[q]
        /\ UNCHANGED <<query, answer, result>> /\ stack' = Append(stack, Current) /\ result = "busy"
    BY <1>4 DEF Build, Asking
  <2>2. Current \in Reach(query)
    BY <1>4, CurrentReached DEF Build
  <2>3. stack'[1] = query
    <3>1. stack \in Seq(DOMAIN kids)
      BY DEF IInv, TypeOK
    <3>2. CASE stack = <<>>
      BY <2>1, <3>2 DEF Current
    <3>3. CASE stack # <<>>
      <4>1. Append(stack, Current)[1] = stack[1]
        <5>1. Len(stack) \in Nat \ {0}
          BY <3>1, <3>3, EmptySeq
        <5> HIDE DEF Current
        <5> QED
          BY <3>1, <5>1
      <4> QED
        BY <2>1, <3>3, <4>1 DEF Working
    <3> QED
      BY <3>2, <3>3
  <2> QED
    BY <2>1, <2>2, <2>3 DEF Working
<1>5. CASE Finish
  <2> DEFINE n == Len(stack)
             st == SubSeq(stack, 1, n - 1)
  <2>1. /\ stack \in Seq(DOMAIN kids) /\ stack # <<>> /\ result = "busy" /\ TypeOK
        /\ n \in Nat \ {0} /\ Top \in DOMAIN kids /\ Top = stack[n] /\ DOMAIN stack = 1..n
    BY <1>5, TopFacts DEF Finish, IInv, TypeOK, Top
  <2>2. /\ st \in Seq(DOMAIN kids) /\ Len(st) = n - 1 /\ (st # <<>> <=> n > 1)
        /\ \A i \in 1..(n - 1) : st[i] = stack[i]
    <3> DEFINE D == DOMAIN kids
    <3>1. stack \in Seq(D) /\ stack # <<>> /\ st = SubSeq(stack, 1, Len(stack) - 1)
      BY <2>1
    <3> HIDE DEF D, st
    <3>2. st \in Seq(D) /\ Len(st) = Len(stack) - 1
      BY <3>1, PopFacts
    <3>3. st # <<>> <=> Len(stack) > 1
      BY <3>1, PopFacts
    <3>4. \A i \in 1..(Len(stack) - 1) : st[i] = stack[i]
      BY <3>1, PopFacts
    <3> QED
      BY <3>2, <3>3, <3>4 DEF D
  <2>3. Deliver(New(Top), st)
    BY <1>5 DEF Finish
  <2> HIDE DEF st
  <2>4. IF st = <<>> THEN Top = query
        ELSE st[1] = query /\ Top = Goals(st[Len(st)])[Len(kids[st[Len(st)]]) + 1]
    <3>1. CASE st = <<>>
      <4>1. n = 1
        BY <2>1, <2>2, <3>1
      <4> QED
        BY <2>1, <3>1, <4>1 DEF Working
    <3>2. CASE st # <<>>
      <4>1. n \in 1..n /\ n > 1 /\ n - 1 \in 1..(n - 1) /\ 1 \in 1..(n - 1)
        BY <2>1, <2>2, <3>2
      <4>2. Top = Goals(stack[n - 1])[Len(kids[stack[n - 1]]) + 1]
        BY <2>1, <4>1 DEF IInv, Chain
      <4>3. st[Len(st)] = stack[n - 1] /\ st[1] = stack[1]
        BY <2>2, <4>1
      <4>4. stack[1] = query
        BY <2>1 DEF Working
      <4> QED
        BY <3>2, <4>2, <4>3, <4>4
    <3> QED
      BY <3>1, <3>2
  <2> QED
    BY <2>1, <2>2, <2>3, <2>4, DeliverWorking
<1>6. CASE Fail
  <2>1. stack' = <<>> /\ UNCHANGED <<query, kids, answer>> /\ result' \in {"error", "panic"}
    BY <1>6 DEF Fail, FailureGoal, Failure, Goal
  <2> QED
    BY <2>1 DEF Working
<1>7. CASE Identify
  <2>1. result = "built" /\ result' = "done" /\ UNCHANGED <<query, kids, stack>>
    BY <1>7 DEF Identify
  <2> QED
    BY <2>1 DEF Working
<1>8. CASE Return
  <2>1. kids' = NoKids /\ result' = "idle" /\ stack' = stack /\ stack = <<>>
    BY <1>8 DEF Return, IInv, Chain
  <2> QED
    BY <2>1 DEF Working, NoKids
<1>9. CASE UNCHANGED vars
  BY <1>9 DEF vars, Working
<1> QED
  BY <1>1, <1>3, <1>4, <1>5, <1>6, <1>7, <1>8, <1>9 DEF Next, Step

(* A call never leaves what it can reach.                                  *)
LEMMA AlwaysWorking == Spec => []Working
<1>1. Init => Working
  BY DEF Init, Working, NoKids
<1> QED
  BY <1>1, WorkingStep, Invariance, PTL DEF Spec

(* Where a call has succeeded, nothing it could reach fails.               *)
LEMMA BuiltMeansNoFailure ==
  ASSUME IInv, Working, result \in {"built", "done"}
  PROVE  /\ query \in Key
         /\ Reach(query) \subseteq DOMAIN kids \cup {q \in Key : Shares(q)}
         /\ Failures(query) = {}
<1> DEFINE T == DOMAIN kids \cup {q \in Key : Shares(q)}
<1>1. /\ query \in Key /\ TypeOK /\ stack = <<>> /\ DOMAIN kids \subseteq Key
      /\ \A k \in DOMAIN kids : Builds(k)
  BY DEF IInv, TypeOK, Chain
<1>2. query \in T
  BY <1>1 DEF Working
<1>3. ASSUME NEW k \in T
      PROVE  GoalSet(k) \subseteq T
  <2>1. CASE k \in DOMAIN kids
    <3>1. Len(kids[k]) = Len(Goals(k)) /\ kids[k] \in Seq(Result) /\ Goals(k) \in Seq(Key \cup FailureGoal)
      BY <1>1, <2>1, GoalsType DEF IInv, Settled, TypeOK
    <3>2. ASSUME NEW i \in DOMAIN Goals(k)
          PROVE  Goals(k)[i] \in T
      <4>1. i \in DOMAIN kids[k] /\ Goals(k)[i] \in Key \cup FailureGoal
        BY <3>1
      <4>2. Goals(k)[i] \notin FailureGoal
        BY <2>1, <4>1 DEF IInv, Faithful
      <4>3. Goals(k)[i] \in DOMAIN kids \/ Shares(Goals(k)[i])
        BY <2>1, <4>1 DEF Working
      <4> QED
        BY <4>1, <4>2, <4>3
    <3> QED
      BY <3>2 DEF GoalSet
  <2>2. CASE k \in Key /\ Shares(k)
    <3>1. Goals(k) = <<>>
      BY <2>2, AnswerType DEF Goals
    <3> QED
      BY <3>1 DEF GoalSet
  <2> QED
    BY <2>1, <2>2
<1>4. GoalsOf(T) \subseteq T
  BY <1>3 DEF GoalsOf
<1>5. Reach(query) \subseteq T
  <2>1. T \in SUBSET (Key \cup FailureGoal)
    BY <1>1
  <2> HIDE DEF T
  <2> QED
    BY <1>1, <1>2, <1>4, <2>1, ReachIsLeast
<1>6. \A q \in T : q \notin FailureGoal /\ ~Incompatible(q)
  BY <1>1, FailureIsNoKey DEF Incompatible
<1> QED
  BY <1>1, <1>5, <1>6 DEF Failures

(* The answer is given once, and is the one the rules allow.               *)
LEMMA AnswerAllowed ==
  ASSUME IInv, Working, Fail \/ Identify
  PROVE  Oracle!Answer
<1>1. CASE Identify
  <2>1. result = "built" /\ result' = "done" /\ UNCHANGED query
    BY <1>1 DEF Identify
  <2>2. Verdict(query) = {"done"}
    BY <2>1, BuiltMeansNoFailure DEF Verdict
  <2> QED
    BY <2>1, <2>2 DEF Oracle!Answer
<1>2. CASE Fail
  <2>1. /\ query \in Key /\ Current \in Reach(query) /\ UNCHANGED query /\ result = "busy"
        /\ Current \in FailureGoal \/ Incompatible(Current)
        /\ result' = IF Current \in FailureGoal THEN Current.action ELSE "error"
    BY <1>2, CurrentReached DEF Fail, Asking
  <2>2. Current \in Failures(query)
    BY <2>1 DEF Failures
  <2>3. result' \in Verdict(query) /\ result' # "built"
    BY <2>1, <2>2 DEF Verdict, FailureGoal, Failure, Goal
  <2> QED
    BY <2>1, <2>3 DEF Oracle!Answer
<1> QED
  BY <1>1, <1>2

(* Merging and conversion with a table of unfinished objects implement the *)
(* oracle, except for its liveness: a call succeeds only where no question *)
(* it leads to fails, and it ends with an error or a panic only where one  *)
(* fails in that way.                                                      *)
THEOREM AnswersLikeOracle == Spec => Oracle!Safety
<1>1. Init => Oracle!Init
  BY DEF Init, Oracle!Init
<1>2. IInv /\ Working /\ [Next]_vars
      => [Oracle!Next]_<<query, IF result = "built" THEN "busy" ELSE result>>
  <2> SUFFICES ASSUME IInv, Working, [Next]_vars
               PROVE  Oracle!Next \/ UNCHANGED <<query, IF result = "built" THEN "busy" ELSE result>>
    OBVIOUS
  <2>1. ASSUME Call
        PROVE  Oracle!Ask
    BY <2>1 DEF Call, Oracle!Ask
  <2>2. CASE Build
    BY <2>2 DEF Build
  <2>3. CASE Reuse \/ Share \/ Finish
    BY <2>3 DEF Reuse, Share, Finish, Deliver, Asking
  <2>4. CASE Fail \/ Identify
    BY <2>4, AnswerAllowed DEF Oracle!Next
  <2>5. CASE Return
    BY <2>5 DEF Return, Oracle!Return, Oracle!Next
  <2>6. CASE UNCHANGED vars
    BY <2>6 DEF vars
  <2> QED
    BY <2>1, <2>2, <2>3, <2>4, <2>5, <2>6 DEF Next, Step, Oracle!Next
<1> QED
  BY Invariance, AlwaysWorking, <1>1, <1>2, PTL DEF Spec, Oracle!Safety

--------------------------------------------------------------------------------
(* Moving on a graph of permissions sh whose nodes, base permissions       *)
(* included, are W: the rules of AssignRules for the mode "move", with     *)
(* relations between permissions in place of sets of questions.            *)
GraphOver(sh, W) ==
  /\ W = {Base(b) : b \in BasePermission} \cup DOMAIN sh
  /\ IsFiniteSet(W)
  /\ \A p \in DOMAIN sh :
       /\ p.kind \in StructuredKind /\ p.base \in BasePermission
       /\ sh[p].elems \in Seq(W)  /\ sh[p].recvs \in Seq(W)
       /\ sh[p].params \in Seq(W) /\ sh[p].results \in Seq(W)
       /\ p.kind = "interface" =>
            \A i, j \in DOMAIN sh[p].elems :
              sh[sh[p].elems[i]].name = sh[sh[p].elems[j]].name => i = j

Movement(W) == [A : W, B : W, mode : {"move", "panic"}]

MoveBase(b, c) == c \subseteq b /\ ("r" \in b \/ (b = {} /\ c = {}))

Plain == {"pointer", "chan", "slice", "map", "array", "struct", "tuple"}

Into(s, t, R) == \A i \in DOMAIN s : i \in DOMAIN t /\ <<s[i], t[i]>> \in R

Onto(s, t, R) == \A i \in DOMAIN s : i \in DOMAIN t /\ <<t[i], s[i]>> \in R

MethodsInto(sh, s, t, R) ==
  \A i \in DOMAIN t : \E j \in DOMAIN s : /\ sh[s[j]].name = sh[t[i]].name
                                          /\ <<s[j], t[i]>> \in R

MoveAllowed(sh, A, B, R) ==
  /\ A.kind = "base" => B.kind = "base" /\ MoveBase(A.base, B.base)
  /\ A.kind = "nil" => B.kind \in Nillable
  /\ A.kind # "wildcard"
  /\ A.kind \in Plain =>
       /\ B.kind = A.kind
       /\ A.kind = "tuple" => Len(sh[A].elems) = Len(sh[B].elems)
       /\ MoveBase(A.base, B.base)
       /\ Into(sh[A].elems, sh[B].elems, R)
  /\ A.kind = "func" =>
       /\ B.kind = "func"
       /\ "o" \in B.base => "o" \in A.base
       /\ MoveBase(B.base \ {"o"}, A.base \ {"o"})
       /\ Onto(sh[A].recvs, sh[B].recvs, R)
       /\ Onto(sh[A].params, sh[B].params, R)
       /\ Into(sh[A].results, sh[B].results, R)
  /\ A.kind = "interface" =>
       /\ B.kind = "interface"
       /\ MoveBase(A.base, B.base)
       /\ MethodsInto(sh, sh[A].elems, sh[B].elems, R)

(* A relation that has the right pairs of base permissions.                *)
BasesIn(R) ==
  \A b, c \in BasePermission : <<Base(b), Base(c)>> \in R <=> MoveBase(b, c)

(* The calls in s exist, and lead to pairs of R.                           *)
Leads(s, R) == \A i \in DOMAIN s : s[i].mode # "panic" /\ <<s[i].A, s[i].B>> \in R

(* Base permissions are no objects, and objects have other kinds.          *)
LEMMA NodeKinds ==
  ASSUME NEW sh, NEW W, GraphOver(sh, W), NEW p \in W
  PROVE  /\ p.base \in BasePermission
         /\ p.kind = "base" => p = Base(p.base)
         /\ p.kind # "base" => p \in DOMAIN sh /\ p.kind \in StructuredKind
         /\ p \in DOMAIN sh => p.kind # "base"
         /\ \A b \in BasePermission : Base(b) \in W
<1>1. /\ W = {Base(b) : b \in BasePermission} \cup DOMAIN sh
      /\ \A q \in DOMAIN sh : q.kind \in StructuredKind /\ q.base \in BasePermission
  BY DEF GraphOver
<1>2. \A b : Base(b).kind = "base" /\ Base(b).base = b
  BY DEF Base
<1>3. "base" \notin StructuredKind
  BY DEF StructuredKind
<1>4. \A b \in BasePermission : Base(b) \in W
  BY <1>1
<1>5. CASE p \in DOMAIN sh
  BY <1>1, <1>3, <1>4, <1>5
<1>6. CASE p \notin DOMAIN sh
  <2>1. PICK b \in BasePermission : p = Base(b)
    BY <1>1, <1>6
  <2> QED
    BY <1>2, <1>4, <1>6, <2>1
<1> QED
  BY <1>5, <1>6

(* Calls one after the other lead to R if each part does.                  *)
LEMMA LeadsConcat ==
  ASSUME NEW S, NEW s \in Seq(S), NEW t \in Seq(S), NEW R
  PROVE  Leads(s \o t, R) <=> Leads(s, R) /\ Leads(t, R)
<1> DEFINE Good == {g \in S : g.mode # "panic" /\ <<g.A, g.B>> \in R}
<1>1. ASSUME NEW u \in Seq(S)
      PROVE  Leads(u, R) <=> Members(u) \subseteq Good
  BY DEF Leads, Members
<1>2. s \o t \in Seq(S)
  OBVIOUS
<1>3. Members(s \o t) = Members(s) \cup Members(t)
  BY MembersConcat
<1> HIDE DEF Good
<1> QED
  BY <1>1, <1>2, <1>3

(* The calls for children are movements, and lead to R if no child is      *)
(* missing and the pairs are in R.                                         *)
LEMMA CallsForChildren ==
  ASSUME NEW sh, NEW W, NEW s \in Seq(W), NEW t \in Seq(W), NEW R
  PROVE  /\ Graph(sh)!Covariant(s, t, "move") \in Seq(Movement(W))
         /\ Graph(sh)!Contravariant(s, t, "move") \in Seq(Movement(W))
         /\ Leads(Graph(sh)!Covariant(s, t, "move"), R) <=> Into(s, t, R)
         /\ Leads(Graph(sh)!Contravariant(s, t, "move"), R) <=> Onto(s, t, R)
<1> DEFINE co == Graph(sh)!Covariant(s, t, "move")
           contra == Graph(sh)!Contravariant(s, t, "move")
<1>1. /\ co = [i \in DOMAIN s |-> IF i \in DOMAIN t THEN [A |-> s[i], B |-> t[i], mode |-> "move"]
                                  ELSE [A |-> s[i], B |-> s[i], mode |-> "panic"]]
      /\ contra = [i \in DOMAIN s |-> IF i \in DOMAIN t THEN [A |-> t[i], B |-> s[i], mode |-> "move"]
                                      ELSE [A |-> s[i], B |-> s[i], mode |-> "panic"]]
  BY DEF Graph!Covariant, Graph!Contravariant, Graph!Goal, Graph!Missing
<1> HIDE DEF co, contra
<1>2. DOMAIN s = 1..Len(s) /\ Len(s) \in Nat /\ (\A i \in DOMAIN s : s[i] \in W) /\ (\A i \in DOMAIN t : t[i] \in W)
  OBVIOUS
<1>3. co \in Seq(Movement(W)) /\ contra \in Seq(Movement(W))
  <2>1. \A i \in DOMAIN s : co[i] \in Movement(W) /\ contra[i] \in Movement(W)
    BY <1>1, <1>2 DEF Movement
  <2>2. co = [i \in 1..Len(s) |-> co[i]] /\ contra = [i \in 1..Len(s) |-> contra[i]]
    BY <1>1, <1>2
  <2> QED
    BY <1>2, <2>1, <2>2
<1>4. Leads(co, R) <=> Into(s, t, R)
  BY <1>1 DEF Leads, Into
<1>5. Leads(contra, R) <=> Onto(s, t, R)
  BY <1>1 DEF Leads, Onto
<1> QED
  BY <1>3, <1>4, <1>5 DEF co, contra

(* The same for methods: as the names of A's methods are distinct, there   *)
(* is only one to choose.                                                  *)
LEMMA CallsForMethods ==
  ASSUME NEW sh, NEW W, GraphOver(sh, W), NEW A \in DOMAIN sh, NEW B \in DOMAIN sh,
         A.kind = "interface", NEW R
  PROVE  /\ Graph(sh)!MethodGoals(A, B, "move") \in Seq(Movement(W))
         /\ Leads(Graph(sh)!MethodGoals(A, B, "move"), R)
              <=> MethodsInto(sh, sh[A].elems, sh[B].elems, R)
<1> DEFINE s == sh[A].elems
           t == sh[B].elems
           nm(r) == sh[r].name
           goals == Graph(sh)!MethodGoals(A, B, "move")
           ms == {s[j] : j \in DOMAIN s}
           pick(r) == CHOOSE m \in ms : nm(m) = nm(r)
           goal(r) == IF \E m \in ms : nm(m) = nm(r)
                      THEN [A |-> pick(r), B |-> r, mode |-> "move"]
                      ELSE [A |-> r, B |-> r, mode |-> "panic"]
<1>1. goals = [i \in DOMAIN t |-> goal(t[i])]
  BY DEF Graph!MethodGoals, Graph!MethodGoal, Graph!Methods, Graph!elems, Graph!name,
         Graph!Goal, Graph!Missing
<1>2. /\ s \in Seq(W) /\ t \in Seq(W) /\ DOMAIN t = 1..Len(t) /\ Len(t) \in Nat
      /\ \A i, j \in DOMAIN s : nm(s[i]) = nm(s[j]) => i = j
      /\ ms \subseteq W
  <2>1. s \in Seq(W) /\ t \in Seq(W)
    BY DEF GraphOver
  <2>2. \A i, j \in DOMAIN s : nm(s[i]) = nm(s[j]) => i = j
    BY DEF GraphOver
  <2> QED
    BY <2>1, <2>2
<1> HIDE DEF goals, s, t
<1>3. ASSUME NEW r \in W, NEW j \in DOMAIN s, nm(s[j]) = nm(r)
      PROVE  goal(r) = [A |-> s[j], B |-> r, mode |-> "move"]
  <2>1. pick(r) \in ms /\ nm(pick(r)) = nm(r)
    BY <1>3
  <2>2. pick(r) = s[j]
    <3> HIDE DEF pick
    <3> QED
      BY <1>2, <1>3, <2>1
  <2> HIDE DEF pick
  <2> QED
    BY <1>3, <2>2
<1>4. ASSUME NEW r \in W, ~\E j \in DOMAIN s : nm(s[j]) = nm(r)
      PROVE  goal(r) = [A |-> r, B |-> r, mode |-> "panic"]
  BY <1>4
<1> HIDE DEF goal
<1>5. \A i \in DOMAIN t : t[i] \in W
  BY <1>2
<1>6. goals \in Seq(Movement(W))
  <2>1. ASSUME NEW i \in DOMAIN t
        PROVE  goals[i] \in Movement(W)
    <3>1. goals[i] = goal(t[i]) /\ t[i] \in W
      BY <1>1, <1>5
    <3>2. CASE \E j \in DOMAIN s : nm(s[j]) = nm(t[i])
      <4>1. PICK j \in DOMAIN s : nm(s[j]) = nm(t[i])
        BY <3>2
      <4>2. goals[i] = [A |-> s[j], B |-> t[i], mode |-> "move"]
        BY <1>3, <3>1, <4>1
      <4> QED
        BY <1>2, <3>1, <4>2 DEF Movement
    <3>3. CASE ~\E j \in DOMAIN s : nm(s[j]) = nm(t[i])
      BY <1>4, <3>1, <3>3 DEF Movement
    <3> QED
      BY <3>2, <3>3
  <2> QED
    BY <1>1, <1>2, <2>1
<1>7. Leads(goals, R) <=> MethodsInto(sh, s, t, R)
  <2>1. ASSUME NEW i \in DOMAIN t
        PROVE  (goals[i].mode # "panic" /\ <<goals[i].A, goals[i].B>> \in R)
                 <=> \E j \in DOMAIN s : nm(s[j]) = nm(t[i]) /\ <<s[j], t[i]>> \in R
    <3>1. goals[i] = goal(t[i]) /\ t[i] \in W
      BY <1>1, <1>5
    <3>2. CASE \E j \in DOMAIN s : nm(s[j]) = nm(t[i])
      <4>1. PICK j \in DOMAIN s : nm(s[j]) = nm(t[i])
        BY <3>2
      <4>2. goals[i] = [A |-> s[j], B |-> t[i], mode |-> "move"]
        BY <1>3, <3>1, <4>1
      <4>3. \A h \in DOMAIN s : nm(s[h]) = nm(t[i]) => h = j
        BY <1>2, <4>1
      <4>4. goals[i].A = s[j] /\ goals[i].B = t[i] /\ goals[i].mode # "panic"
        BY <4>2
      <4> HIDE DEF nm
      <4> QED
        BY <4>1, <4>3, <4>4, Zenon
    <3>3. CASE ~\E j \in DOMAIN s : nm(s[j]) = nm(t[i])
      <4>1. goals[i] = [A |-> t[i], B |-> t[i], mode |-> "panic"]
        BY <1>4, <3>1, <3>3
      <4>2. goals[i].mode = "panic"
        BY <4>1
      <4> HIDE DEF nm
      <4> QED
        BY <3>3, <4>2, Zenon
    <3> QED
      BY <3>2, <3>3
  <2>2. DOMAIN goals = DOMAIN t
    BY <1>1
  <2> QED
    BY <2>1, <2>2 DEF Leads, MethodsInto
<1> QED
  BY <1>6, <1>7 DEF goals, s, t

(* A move passes its own tests and makes calls to R only, exactly if R     *)
(* allows it.                                                              *)
LEMMA MoveUnfold ==
  ASSUME NEW sh, NEW W, GraphOver(sh, W), NEW A \in W, NEW B \in W, NEW R, BasesIn(R),
         NEW m, m = [A |-> A, B |-> B, mode |-> "move"]
  PROVE  /\ Graph(sh)!LocalOK(m) /\ Leads(Graph(sh)!Goals(m), R) <=> MoveAllowed(sh, A, B, R)
         /\ Graph(sh)!Goals(m) \in Seq(Movement(W))
<1>1. m.A = A /\ m.B = B /\ m.mode = "move"
  OBVIOUS
<1>2. Graph(sh)!Goals(m) = IF Graph(sh)!LocalOK(m) THEN Graph(sh)!Calls(A, B, "move", "move") ELSE <<>>
  BY <1>1 DEF Graph!Goals, Graph!copyAsReference
<1>3. /\ A.base \in BasePermission /\ B.base \in BasePermission
      /\ A.kind \in StructuredKind \cup {"base"}
      /\ A.kind # "base" => A \in DOMAIN sh
      /\ B.kind # "base" => B \in DOMAIN sh
  BY NodeKinds
<1>4. \A b, c \in BasePermission :
        /\ Graph(sh)!BaseAssignable(b, c, "move") <=> MoveBase(b, c)
        /\ <<[A |-> Base(b), B |-> Base(c), mode |-> "move"]>> \in Seq(Movement(W))
        /\ Leads(<<[A |-> Base(b), B |-> Base(c), mode |-> "move"]>>, R) <=> MoveBase(b, c)
  <2> SUFFICES ASSUME NEW b \in BasePermission, NEW c \in BasePermission
               PROVE  /\ Graph(sh)!BaseAssignable(b, c, "move") <=> MoveBase(b, c)
                      /\ <<[A |-> Base(b), B |-> Base(c), mode |-> "move"]>> \in Seq(Movement(W))
                      /\ Leads(<<[A |-> Base(b), B |-> Base(c), mode |-> "move"]>>, R) <=> MoveBase(b, c)
    OBVIOUS
  <2>1. Graph(sh)!BaseAssignable(b, c, "move") <=> MoveBase(b, c)
    BY DEF Graph!BaseAssignable, Graph!Readable, MoveBase
  <2>2. [A |-> Base(b), B |-> Base(c), mode |-> "move"] \in Movement(W)
    BY NodeKinds DEF Movement
  <2>3. Leads(<<[A |-> Base(b), B |-> Base(c), mode |-> "move"]>>, R) <=> <<Base(b), Base(c)>> \in R
    BY DEF Leads
  <2> QED
    BY <2>1, <2>2, <2>3 DEF BasesIn
<1>5. \A b \in BasePermission : Graph(sh)!Base(b) = Base(b)
  BY DEF Graph!Base, Graph!NoId, Base, NoId
<1>6. CASE A.kind = "base"
  <2>1. Graph(sh)!Calls(A, B, "move", "move") = <<>>
    BY <1>6 DEF Graph!Calls
  <2>2. Graph(sh)!LocalOK(m) <=> B.kind = "base" /\ MoveBase(A.base, B.base)
    BY <1>1, <1>3, <1>4, <1>6 DEF Graph!LocalOK
  <2>3. MoveAllowed(sh, A, B, R) <=> B.kind = "base" /\ MoveBase(A.base, B.base)
    BY <1>6 DEF MoveAllowed, Plain
  <2>4. Leads(<<>>, R) /\ <<>> \in Seq(Movement(W))
    BY DEF Leads
  <2> QED
    BY <1>2, <2>1, <2>2, <2>3, <2>4
<1>7. CASE A.kind \in {"nil", "wildcard"}
  <2>1. Graph(sh)!Calls(A, B, "move", "move") = <<>>
    BY <1>7 DEF Graph!Calls
  <2>2. Graph(sh)!LocalOK(m) <=> A.kind = "nil" /\ B.kind \in Nillable
    BY <1>1, <1>7 DEF Graph!LocalOK, Graph!NilAssignable, Nillable
  <2>3. MoveAllowed(sh, A, B, R) <=> A.kind = "nil" /\ B.kind \in Nillable
    BY <1>7 DEF MoveAllowed, Plain
  <2>4. Leads(<<>>, R) /\ <<>> \in Seq(Movement(W))
    BY DEF Leads
  <2> QED
    BY <1>2, <2>1, <2>2, <2>3, <2>4
<1>8. CASE A.kind \in Plain
  <2>1. Graph(sh)!LocalOK(m) <=> /\ B.kind = A.kind
                                 /\ A.kind = "tuple" => Len(sh[A].elems) = Len(sh[B].elems)
    BY <1>1, <1>8 DEF Graph!LocalOK, Graph!elems, Plain
  <2>2. CASE B.kind # A.kind
    <3>1. Leads(<<>>, R) /\ <<>> \in Seq(Movement(W))
      BY DEF Leads
    <3> QED
      BY <1>2, <1>8, <2>1, <2>2, <3>1 DEF MoveAllowed
  <2>3. CASE B.kind = A.kind
    <3>1. A \in DOMAIN sh /\ B \in DOMAIN sh
      BY <1>3, <1>8, <2>3 DEF Plain
    <3>2. sh[A].elems \in Seq(W) /\ sh[B].elems \in Seq(W)
      BY <3>1 DEF GraphOver
    <3> DEFINE bg == <<[A |-> Base(A.base), B |-> Base(B.base), mode |-> "move"]>>
               co == Graph(sh)!Covariant(sh[A].elems, sh[B].elems, "move")
    <3>3. Graph(sh)!Calls(A, B, "move", "move") = bg \o co
      <4>1. Graph(sh)!BaseGoal(A, B, "move") = bg
        BY <1>3, <1>5 DEF Graph!BaseGoal, Graph!Goal
      <4>2. Graph(sh)!Calls(A, B, "move", "move")
              = Graph(sh)!BaseGoal(A, B, "move") \o co
        BY <1>8 DEF Graph!Calls, Graph!elems, Plain
      <4> QED
        BY <4>1, <4>2
    <3>4. /\ bg \in Seq(Movement(W)) /\ (Leads(bg, R) <=> MoveBase(A.base, B.base))
          /\ co \in Seq(Movement(W)) /\ (Leads(co, R) <=> Into(sh[A].elems, sh[B].elems, R))
      BY <1>3, <1>4, <3>2, CallsForChildren
    <3> HIDE DEF bg, co
    <3>5. bg \o co \in Seq(Movement(W)) /\ (Leads(bg \o co, R) <=> Leads(bg, R) /\ Leads(co, R))
      BY <3>4, LeadsConcat
    <3>6. <<>> \in Seq(Movement(W))
      OBVIOUS
    <3>7. MoveAllowed(sh, A, B, R) <=>
            /\ A.kind = "tuple" => Len(sh[A].elems) = Len(sh[B].elems)
            /\ MoveBase(A.base, B.base)
            /\ Into(sh[A].elems, sh[B].elems, R)
      BY <1>8, <2>3 DEF MoveAllowed, Plain
    <3> QED
      BY <1>2, <2>1, <2>3, <3>3, <3>4, <3>5, <3>6, <3>7
  <2> QED
    BY <2>2, <2>3
<1>9. CASE A.kind = "interface"
  <2>1. Graph(sh)!LocalOK(m) <=> B.kind = "interface"
    BY <1>1, <1>9 DEF Graph!LocalOK
  <2>2. CASE B.kind # "interface"
    <3>1. Leads(<<>>, R) /\ <<>> \in Seq(Movement(W))
      BY DEF Leads
    <3> QED
      BY <1>2, <1>9, <2>1, <2>2, <3>1 DEF MoveAllowed
  <2>3. CASE B.kind = "interface"
    <3>1. A \in DOMAIN sh /\ B \in DOMAIN sh
      BY <1>3, <1>9, <2>3
    <3> DEFINE bg == <<[A |-> Base(A.base), B |-> Base(B.base), mode |-> "move"]>>
               mg == Graph(sh)!MethodGoals(A, B, "move")
    <3>2. Graph(sh)!Calls(A, B, "move", "move") = bg \o mg
      <4>1. Graph(sh)!BaseGoal(A, B, "move") = bg
        BY <1>3, <1>5 DEF Graph!BaseGoal, Graph!Goal
      <4>2. Graph(sh)!Calls(A, B, "move", "move")
              = Graph(sh)!BaseGoal(A, B, "move") \o mg
        BY <1>9 DEF Graph!Calls
      <4> QED
        BY <4>1, <4>2
    <3>3. /\ bg \in Seq(Movement(W)) /\ (Leads(bg, R) <=> MoveBase(A.base, B.base))
          /\ mg \in Seq(Movement(W))
          /\ (Leads(mg, R) <=> MethodsInto(sh, sh[A].elems, sh[B].elems, R))
      BY <1>3, <1>4, <1>9, <3>1, CallsForMethods
    <3> HIDE DEF bg, mg
    <3>4. bg \o mg \in Seq(Movement(W)) /\ (Leads(bg \o mg, R) <=> Leads(bg, R) /\ Leads(mg, R))
      BY <3>3, LeadsConcat
    <3>5. MoveAllowed(sh, A, B, R) <=>
            MoveBase(A.base, B.base) /\ MethodsInto(sh, sh[A].elems, sh[B].elems, R)
      BY <1>9, <2>3 DEF MoveAllowed, Plain
    <3> QED
      BY <1>2, <2>1, <2>3, <3>2, <3>3, <3>4, <3>5
  <2> QED
    BY <2>2, <2>3
<1>10. CASE A.kind = "func"
  <2>1. Graph(sh)!LocalOK(m) <=> B.kind = "func" /\ ("o" \in B.base => "o" \in A.base)
    BY <1>1, <1>10 DEF Graph!LocalOK
  <2>2. CASE ~(B.kind = "func" /\ ("o" \in B.base => "o" \in A.base))
    <3>1. Leads(<<>>, R) /\ <<>> \in Seq(Movement(W))
      BY DEF Leads
    <3>2. ~MoveAllowed(sh, A, B, R)
      BY <1>10, <2>2 DEF MoveAllowed
    <3> QED
      BY <1>2, <2>1, <2>2, <3>1, <3>2
  <2>3. CASE B.kind = "func" /\ ("o" \in B.base => "o" \in A.base)
    <3>1. A \in DOMAIN sh /\ B \in DOMAIN sh
      BY <1>3, <1>10, <2>3
    <3>2. /\ sh[A].recvs \in Seq(W) /\ sh[A].params \in Seq(W) /\ sh[A].results \in Seq(W)
          /\ sh[B].recvs \in Seq(W) /\ sh[B].params \in Seq(W) /\ sh[B].results \in Seq(W)
      BY <3>1 DEF GraphOver
    <3> DEFINE c1 == <<[A |-> Base(B.base \ {"o"}), B |-> Base(A.base \ {"o"}), mode |-> "move"]>>
               c2 == Graph(sh)!Contravariant(sh[A].recvs, sh[B].recvs, "move")
               c3 == Graph(sh)!Contravariant(sh[A].params, sh[B].params, "move")
               c4 == Graph(sh)!Covariant(sh[A].results, sh[B].results, "move")
    <3>3. A.base \ {"o"} \in BasePermission /\ B.base \ {"o"} \in BasePermission
      BY <1>3 DEF BasePermission
    <3>4. Graph(sh)!Calls(A, B, "move", "move") = c1 \o c2 \o c3 \o c4
      <4>1. Graph(sh)!Calls(A, B, "move", "move") = Graph(sh)!FuncGoals(A, B, "move")
        BY <1>10 DEF Graph!Calls
      <4>2. <<Graph(sh)!Goal(Graph(sh)!Base(B.base \ {"o"}), Graph(sh)!Base(A.base \ {"o"}), "move")>> = c1
        BY <1>5, <3>3 DEF Graph!Goal
      <4>3. Graph(sh)!FuncGoals(A, B, "move") = c1 \o c2 \o c3 \o c4
        BY <4>2 DEF Graph!FuncGoals, Graph!recvs, Graph!params, Graph!results
      <4> QED
        BY <4>1, <4>3
    <3>5. /\ c1 \in Seq(Movement(W))
          /\ Leads(c1, R) <=> MoveBase(B.base \ {"o"}, A.base \ {"o"})
      BY <1>4, <3>3
    <3>6. /\ c2 \in Seq(Movement(W)) /\ c3 \in Seq(Movement(W)) /\ c4 \in Seq(Movement(W))
          /\ Leads(c2, R) <=> Onto(sh[A].recvs, sh[B].recvs, R)
          /\ Leads(c3, R) <=> Onto(sh[A].params, sh[B].params, R)
          /\ Leads(c4, R) <=> Into(sh[A].results, sh[B].results, R)
      BY <3>2, CallsForChildren
    <3> HIDE DEF c1, c2, c3, c4
    <3>7. c1 \o c2 \in Seq(Movement(W)) /\ c1 \o c2 \o c3 \in Seq(Movement(W))
          /\ c1 \o c2 \o c3 \o c4 \in Seq(Movement(W))
      BY <3>5, <3>6
    <3>8. Leads(c1 \o c2 \o c3 \o c4, R)
            <=> Leads(c1, R) /\ Leads(c2, R) /\ Leads(c3, R) /\ Leads(c4, R)
      <4>1. \A s, t \in Seq(Movement(W)) : Leads(s \o t, R) <=> Leads(s, R) /\ Leads(t, R)
        BY LeadsConcat
      <4>2. Leads((c1 \o c2 \o c3) \o c4, R) <=> Leads(c1 \o c2 \o c3, R) /\ Leads(c4, R)
        BY ONLY <3>6, <3>7, <4>1
      <4>3. Leads((c1 \o c2) \o c3, R) <=> Leads(c1 \o c2, R) /\ Leads(c3, R)
        BY ONLY <3>6, <3>7, <4>1
      <4>4. Leads(c1 \o c2, R) <=> Leads(c1, R) /\ Leads(c2, R)
        BY ONLY <3>5, <3>6, <4>1
      <4> QED
        BY ONLY <4>2, <4>3, <4>4
    <3>9. MoveAllowed(sh, A, B, R) <=>
            /\ MoveBase(B.base \ {"o"}, A.base \ {"o"})
            /\ Onto(sh[A].recvs, sh[B].recvs, R)
            /\ Onto(sh[A].params, sh[B].params, R)
            /\ Into(sh[A].results, sh[B].results, R)
      BY <1>10, <2>3 DEF MoveAllowed, Plain
    <3> QED
      BY <1>2, <2>1, <2>3, <3>4, <3>5, <3>6, <3>7, <3>8, <3>9
  <2> QED
    BY <2>2, <2>3
<1> QED
  BY <1>3, <1>6, <1>7, <1>8, <1>9, <1>10 DEF StructuredKind, Plain

--------------------------------------------------------------------------------
(* What can be moved to what: the largest relation that allows itself.     *)
Movable(sh, W) ==
  UNION {R \in SUBSET (W \X W) : \A p \in R : MoveAllowed(sh, p[1], p[2], R)}

(* A larger relation allows more.                                          *)
LEMMA AllowedMonotone ==
  ASSUME NEW sh, NEW A, NEW B, NEW R, NEW S, R \subseteq S, MoveAllowed(sh, A, B, R)
  PROVE  MoveAllowed(sh, A, B, S)
<1>1. \A s, t : /\ Into(s, t, R) => Into(s, t, S)
                /\ Onto(s, t, R) => Onto(s, t, S)
                /\ MethodsInto(sh, s, t, R) => MethodsInto(sh, s, t, S)
  BY DEF Into, Onto, MethodsInto
<1> QED
  BY <1>1, Zenon DEF MoveAllowed

(* It is allowed by itself, and what is allowed by more than itself and it *)
(* is in it.                                                               *)
LEMMA MovableIsLargest ==
  ASSUME NEW sh, NEW W
  PROVE  /\ Movable(sh, W) \subseteq W \X W
         /\ \A p \in Movable(sh, W) : MoveAllowed(sh, p[1], p[2], Movable(sh, W))
         /\ \A R \in SUBSET (W \X W) :
              (\A p \in R : MoveAllowed(sh, p[1], p[2], R \cup Movable(sh, W)))
              => R \subseteq Movable(sh, W)
<1> DEFINE M == Movable(sh, W)
           Own(R) == \A p \in R : MoveAllowed(sh, p[1], p[2], R)
<1>1. M \subseteq W \X W
  BY DEF Movable
<1>2. \A R \in SUBSET (W \X W) : Own(R) => R \subseteq M
  BY DEF Movable
<1>3. ASSUME NEW p \in M
      PROVE  MoveAllowed(sh, p[1], p[2], M)
  <2>1. PICK R \in SUBSET (W \X W) : Own(R) /\ p \in R
    BY DEF Movable
  <2>2. R \subseteq M /\ MoveAllowed(sh, p[1], p[2], R)
    BY <1>2, <2>1
  <2> HIDE DEF M
  <2> QED
    BY <2>2, AllowedMonotone
<1>4. ASSUME NEW R \in SUBSET (W \X W),
             \A p \in R : MoveAllowed(sh, p[1], p[2], R \cup M)
      PROVE  R \subseteq M
  <2>1. ASSUME NEW p \in R \cup M
        PROVE  MoveAllowed(sh, p[1], p[2], R \cup M)
    <3>1. CASE p \in R
      BY <1>4, <3>1
    <3>2. CASE p \in M
      <4>1. MoveAllowed(sh, p[1], p[2], M) /\ M \subseteq R \cup M
        BY <1>3, <3>2
      <4> HIDE DEF M
      <4> QED
        BY <4>1, AllowedMonotone
    <3> QED
      BY <2>1, <3>1, <3>2
  <2>2. Own(R \cup M) /\ R \cup M \in SUBSET (W \X W)
    BY <1>1, <2>1
  <2>3. R \cup M \subseteq M
    BY <1>2, <2>2
  <2> QED
    BY <2>3
<1> QED
  BY <1>1, <1>3, <1>4

(* Two permissions can be moved if the rules allow it where their children *)
(* can.                                                                    *)
LEMMA MovableUnfold ==
  ASSUME NEW sh, NEW W, NEW A \in W, NEW B \in W
  PROVE  <<A, B>> \in Movable(sh, W) <=> MoveAllowed(sh, A, B, Movable(sh, W))
<1> DEFINE M == Movable(sh, W)
           R == {<<A, B>>}
<1>1. <<A, B>>[1] = A /\ <<A, B>>[2] = B
  OBVIOUS
<1>2. ASSUME <<A, B>> \in M
      PROVE  MoveAllowed(sh, A, B, M)
  <2> HIDE DEF M
  <2> QED
    BY <1>1, <1>2, MovableIsLargest DEF M
<1>3. ASSUME MoveAllowed(sh, A, B, M)
      PROVE  <<A, B>> \in M
  <2>1. MoveAllowed(sh, A, B, R \cup M)
    BY <1>3, AllowedMonotone
  <2>2. R \in SUBSET (W \X W) /\ \A p \in R : MoveAllowed(sh, p[1], p[2], R \cup M)
    BY <2>1, <1>1
  <2>3. R \subseteq M
    BY <2>2, MovableIsLargest
  <2> QED
    BY <2>3
<1> QED
  BY <1>2, <1>3

(* Base permissions are moved by the rule for them.                        *)
LEMMA MovableBases ==
  ASSUME NEW sh, NEW W, GraphOver(sh, W)
  PROVE  BasesIn(Movable(sh, W))
<1> SUFFICES ASSUME NEW b \in BasePermission, NEW c \in BasePermission
             PROVE  <<Base(b), Base(c)>> \in Movable(sh, W) <=> MoveBase(b, c)
  BY DEF BasesIn
<1>1. Base(b) \in W /\ Base(c) \in W
  BY DEF GraphOver
<1>2. /\ Base(b).kind = "base" /\ Base(b).base = b
      /\ Base(c).kind = "base" /\ Base(c).base = c
  BY DEF Base
<1>3. \A R : MoveAllowed(sh, Base(b), Base(c), R) <=> MoveBase(b, c)
  BY <1>2 DEF MoveAllowed, Plain
<1> QED
  BY <1>1, <1>3, MovableUnfold

(* A product of two finite sets and the modes is finite.                   *)
LEMMA MovesFinite ==
  ASSUME NEW W, IsFiniteSet(W)
  PROVE  IsFiniteSet(Movement(W))
<1> DEFINE S == (W \X W) \X {"move", "panic"}
           f == [t \in S |-> [A |-> t[1][1], B |-> t[1][2], mode |-> t[2]]]
<1>1. IsFiniteSet({"move", "panic"})
  <2>1. {"move", "panic"} = {"move"} \cup {"panic"}
    OBVIOUS
  <2>2. IsFiniteSet({"move"}) /\ IsFiniteSet({"panic"})
    BY FS_Singleton
  <2> QED
    BY <2>1, <2>2, FS_Union
<1>2. IsFiniteSet(S)
  BY <1>1, FS_Product
<1>3. Movement(W) \subseteq {f[t] : t \in S}
  <2> SUFFICES ASSUME NEW m \in Movement(W)
               PROVE  m \in {f[t] : t \in S}
    OBVIOUS
  <2>1. <<<<m.A, m.B>>, m.mode>> \in S /\ m = [A |-> m.A, B |-> m.B, mode |-> m.mode]
    BY DEF Movement
  <2>2. f[<<<<m.A, m.B>>, m.mode>>] = m
    BY <2>1
  <2> HIDE DEF f, S
  <2> QED
    BY <2>1, <2>2
<1>4. IsFiniteSet({f[t] : t \in S})
  <2> HIDE DEF f, S
  <2> QED
    BY <1>2, FiniteImage
<1> QED
  BY <1>3, <1>4, FS_Subset

(* The pairs that AllMovable accepts, by walking the calls of the rules,   *)
(* are those of the largest relation.                                      *)
LEMMA AllMovableIsMovable ==
  ASSUME GraphOver(Shapes, Perm \cup Objects),
         NEW pairs \in SUBSET ((Perm \cup Objects) \X (Perm \cup Objects))
  PROVE  AllMovable(pairs) <=> pairs \subseteq Movable(Shapes, Perm \cup Objects)
<1> DEFINE W == Perm \cup Objects
           M == Movable(Shapes, W)
           Below(moves) == UNION {Graph(Shapes)!GoalSet(m) : m \in {n \in moves : n.mode # "panic"}}
           Asked == {[A |-> p[1], B |-> p[2], mode |-> "move"] : p \in pairs}
           step == [s \in SUBSET Moves |-> s \cup Below(s)]
           grow[s \in SUBSET Moves] == LET next == s \cup Below(s)
                                       IN  IF next = s THEN s ELSE grow[next]
<1>1. Moves = Movement(W)
  BY DEF Moves, Movement
<1>2. ASSUME NEW m \in Moves, m.mode # "panic"
      PROVE  /\ m.A \in W /\ m.B \in W /\ m.mode = "move"
             /\ m = [A |-> m.A, B |-> m.B, mode |-> "move"]
             /\ Graph(Shapes)!Goals(m) \in Seq(Moves)
             /\ \A R : BasesIn(R) =>
                  (/\ Graph(Shapes)!LocalOK(m)
                   /\ Leads(Graph(Shapes)!Goals(m), R)) <=> MoveAllowed(Shapes, m.A, m.B, R)
  <2>1. m.A \in W /\ m.B \in W /\ m.mode = "move" /\ m = [A |-> m.A, B |-> m.B, mode |-> "move"]
    BY <1>2 DEF Moves
  <2>2. BasesIn(M)
    BY MovableBases
  <2> HIDE DEF W, M
  <2>3. Graph(Shapes)!Goals(m) \in Seq(Moves)
    BY <1>1, <2>1, <2>2, MoveUnfold DEF W
  <2>4. \A R : BasesIn(R) =>
          (/\ Graph(Shapes)!LocalOK(m)
           /\ Leads(Graph(Shapes)!Goals(m), R)) <=> MoveAllowed(Shapes, m.A, m.B, R)
    BY <2>1, MoveUnfold DEF W
  <2> QED
    BY <2>1, <2>3, <2>4
<1>3. \A m : Graph(Shapes)!GoalSet(m) = Members(Graph(Shapes)!Goals(m))
  BY DEF Graph!GoalSet, Members
<1>4. \A s \in SUBSET Moves : Below(s) \subseteq Moves
  <2> SUFFICES ASSUME NEW m \in Moves, m.mode # "panic"
               PROVE  Graph(Shapes)!GoalSet(m) \subseteq Moves
    OBVIOUS
  <2>1. Graph(Shapes)!Goals(m) \in Seq(Moves)
    BY <1>2
  <2> QED
    BY <1>3, <2>1 DEF Members
<1>5. \A s, t \in SUBSET Moves : s \subseteq t => Below(s) \subseteq Below(t)
  OBVIOUS
<1> HIDE DEF Below
<1>6. Round(step, Moves)
  BY <1>4, <1>5 DEF Round
<1>7. grow = [s \in SUBSET Moves |-> LET next == s \cup Below(s)
                                     IN  IF next = s THEN s ELSE grow[next]]
  <2>1. PICK g : Walk(step, Moves, g)
    BY <1>6, WalkExists
  <2>2. g = [s \in SUBSET Moves |-> LET next == s \cup Below(s)
                                    IN  IF next = s THEN s ELSE g[next]]
    BY <2>1 DEF Walk
  <2> QED
    BY <2>2, Zenon
<1>8. AllMovable(pairs) <=> \A m \in grow[Asked] : m.mode # "panic" /\ Graph(Shapes)!LocalOK(m)
  BY DEF AllMovable, Closure, Below
<1> HIDE DEF grow
<1>9. Least(step, Moves, Asked, grow[Asked])
  <2>1. Walk(step, Moves, grow)
    BY <1>7 DEF Walk
  <2>2. IsFiniteSet(Moves)
    BY <1>1, MovesFinite DEF GraphOver
  <2>3. Asked \in SUBSET Moves
    BY DEF Moves
  <2> QED
    BY <1>6, <2>1, <2>2, <2>3, WalkIsLeast
<1> DEFINE C == grow[Asked]
<1>10. /\ C \in SUBSET Moves /\ Asked \subseteq C /\ Below(C) \subseteq C
       /\ \A t \in SUBSET Moves : Asked \subseteq t /\ Below(t) \subseteq t => C \subseteq t
  BY <1>9 DEF Least
<1> HIDE DEF C, step
<1>11. ASSUME pairs \subseteq M
       PROVE  AllMovable(pairs)
  <2> DEFINE T == {m \in Moves : m.mode = "move" /\ <<m.A, m.B>> \in M}
  <2>1. Asked \subseteq T
    BY <1>11 DEF Moves
  <2>2. ASSUME NEW m \in T
        PROVE  Graph(Shapes)!LocalOK(m) /\ Graph(Shapes)!GoalSet(m) \subseteq T
    <3>1. m \in Moves /\ m.mode # "panic" /\ BasesIn(M)
      BY MovableBases
    <3>2. MoveAllowed(Shapes, m.A, m.B, M)
      <4>1. m.A \in W /\ m.B \in W /\ <<m.A, m.B>> \in M
        BY <1>2, <3>1
      <4> QED
        BY <4>1, MovableUnfold
    <3>3. Graph(Shapes)!LocalOK(m) /\ Leads(Graph(Shapes)!Goals(m), M)
          /\ Graph(Shapes)!Goals(m) \in Seq(Moves)
      BY <1>2, <3>1, <3>2
    <3>4. Graph(Shapes)!GoalSet(m) \subseteq T
      <4> SUFFICES ASSUME NEW i \in DOMAIN Graph(Shapes)!Goals(m)
                   PROVE  Graph(Shapes)!Goals(m)[i] \in T
        <5> HIDE DEF T
        <5> QED
          BY <1>3 DEF Members
      <4>1. Graph(Shapes)!Goals(m)[i] \in Moves
        BY <3>3
      <4>2. Graph(Shapes)!Goals(m)[i].mode # "panic"
            /\ <<Graph(Shapes)!Goals(m)[i].A, Graph(Shapes)!Goals(m)[i].B>> \in M
        BY <3>3 DEF Leads
      <4> QED
        BY <1>2, <4>1, <4>2
    <3> QED
      BY <3>3, <3>4
  <2>3. Below(T) \subseteq T
    BY <2>2 DEF Below
  <2>4. C \subseteq T
    <3>1. T \in SUBSET Moves
      OBVIOUS
    <3> HIDE DEF T
    <3> QED
      BY <1>10, <2>1, <2>3, <3>1
  <2> QED
    BY <1>8, <2>2, <2>4 DEF C
<1>12. ASSUME AllMovable(pairs)
       PROVE  pairs \subseteq M
  <2> DEFINE R == {p \in W \X W : [A |-> p[1], B |-> p[2], mode |-> "move"] \in C}
             S == R \cup M
  <2>1. ASSUME NEW p \in R
        PROVE  \E m \in C : /\ m.A = p[1] /\ m.B = p[2] /\ m \in Moves /\ m.mode # "panic"
                            /\ Graph(Shapes)!LocalOK(m)
    <3> DEFINE m == [A |-> p[1], B |-> p[2], mode |-> "move"]
    <3>1. m \in C /\ m.A = p[1] /\ m.B = p[2] /\ m.mode # "panic"
      OBVIOUS
    <3> HIDE DEF m
    <3> QED
      BY <1>8, <1>10, <1>12, <3>1 DEF C
  <2>2. BasesIn(S)
    <3> SUFFICES ASSUME NEW b \in BasePermission, NEW c \in BasePermission
                 PROVE  <<Base(b), Base(c)>> \in S <=> MoveBase(b, c)
      BY DEF BasesIn
    <3>1. <<Base(b), Base(c)>> \in M <=> MoveBase(b, c)
      BY MovableBases DEF BasesIn
    <3>2. ASSUME <<Base(b), Base(c)>> \in R
          PROVE  MoveBase(b, c)
      <4>1. PICK m \in C : /\ m.A = Base(b) /\ m.B = Base(c)
                           /\ Graph(Shapes)!LocalOK(m) /\ m \in Moves /\ m.mode # "panic"
        <5>1. <<Base(b), Base(c)>>[1] = Base(b) /\ <<Base(b), Base(c)>>[2] = Base(c)
          OBVIOUS
        <5> HIDE DEF R
        <5> QED
          BY <2>1, <3>2, <5>1
      <4>2. m.mode = "move"
        BY <1>2, <4>1
      <4>3. m.A.kind = "base" /\ m.A.base = b /\ m.B.base = c
        BY <4>1 DEF Base
      <4>4. Graph(Shapes)!BaseAssignable(b, c, "move")
        BY <4>1, <4>2, <4>3 DEF Graph!LocalOK
      <4> QED
        BY <4>4 DEF Graph!BaseAssignable, Graph!Readable, MoveBase
    <3> QED
      BY <3>1, <3>2
  <2>3. ASSUME NEW p \in R
        PROVE  MoveAllowed(Shapes, p[1], p[2], S)
    <3>1. PICK m \in C : /\ m.A = p[1] /\ m.B = p[2] /\ m \in Moves /\ m.mode # "panic"
                         /\ Graph(Shapes)!LocalOK(m)
      BY <2>1
    <3>2. Graph(Shapes)!Goals(m) \in Seq(Moves)
      BY <1>2, <3>1
    <3>3. Leads(Graph(Shapes)!Goals(m), S)
      <4> SUFFICES ASSUME NEW i \in DOMAIN Graph(Shapes)!Goals(m)
                   PROVE  /\ Graph(Shapes)!Goals(m)[i].mode # "panic"
                          /\ <<Graph(Shapes)!Goals(m)[i].A, Graph(Shapes)!Goals(m)[i].B>> \in S
        BY DEF Leads
      <4> DEFINE g == Graph(Shapes)!Goals(m)[i]
      <4>1. g \in Graph(Shapes)!GoalSet(m)
        BY <1>3 DEF Members
      <4> HIDE DEF g
      <4>2. g \in C
        BY <1>10, <3>1, <4>1 DEF Below
      <4>3. g.mode # "panic" /\ g \in Moves
        BY <1>8, <1>10, <1>12, <4>2 DEF C
      <4>4. g.A \in W /\ g.B \in W /\ [A |-> g.A, B |-> g.B, mode |-> "move"] \in C
        BY <1>2, <4>2, <4>3
      <4>5. <<g.A, g.B>> \in R
        BY <4>4
      <4> QED
        BY <4>3, <4>5 DEF g
    <3> HIDE DEF S
    <3> QED
      BY <1>2, <2>2, <3>1, <3>3
  <2>4. R \subseteq M
    <3>1. R \in SUBSET (W \X W)
      OBVIOUS
    <3> HIDE DEF R
    <3> QED
      BY <2>3, <3>1, MovableIsLargest
  <2>5. pairs \subseteq R
    <3> SUFFICES ASSUME NEW p \in pairs
                 PROVE  p \in R
      OBVIOUS
    <3>1. [A |-> p[1], B |-> p[2], mode |-> "move"] \in Asked
      OBVIOUS
    <3> QED
      BY <1>10, <3>1
  <2> QED
    BY <2>4, <2>5
<1> QED
  BY <1>11, <1>12

--------------------------------------------------------------------------------
(* Equality in the sense of reflect.DeepEqual, on a graph: the largest     *)
(* relation between nodes that look the same and whose children it relates.*)
Beside(s, t, R) == Len(s) = Len(t) /\ \A i \in DOMAIN s : <<s[i], t[i]>> \in R

NodeAlike(sh, p, q, R) ==
  /\ p.kind = q.kind /\ p.base = q.base
  /\ p.kind # "base" =>
       /\ sh[p].name = sh[q].name
       /\ Beside(sh[p].elems, sh[q].elems, R)
       /\ Beside(sh[p].recvs, sh[q].recvs, R)
       /\ Beside(sh[p].params, sh[q].params, R)
       /\ Beside(sh[p].results, sh[q].results, R)

Alike(sh, W) ==
  UNION {R \in SUBSET (W \X W) : \A p \in R : NodeAlike(sh, p[1], p[2], R)}

(* The children of a node.                                                 *)
LEMMA NodeChildren ==
  ASSUME NEW sh, NEW W, GraphOver(sh, W), NEW p \in W, p.kind # "base"
  PROVE  /\ sh[p].elems \in Seq(W)  /\ sh[p].recvs \in Seq(W)
         /\ sh[p].params \in Seq(W) /\ sh[p].results \in Seq(W)
         /\ p \in DOMAIN sh
<1>1. p \in DOMAIN sh
  BY NodeKinds
<1> QED
  BY <1>1 DEF GraphOver

(* Looking the same with related children, in the terms of DeepEqual.      *)
LEMMA NodeUnfold ==
  ASSUME NEW sh, NEW W, GraphOver(sh, W), NEW p \in W, NEW q \in W, NEW R
  PROVE  /\ SameNode(sh, p, q) /\ PairsBelow(sh, p, q) \subseteq R <=> NodeAlike(sh, p, q, R)
         /\ PairsBelow(sh, p, q) \subseteq W \X W
<1>1. CASE p.kind = "base" \/ ~(p.kind = q.kind)
  BY <1>1 DEF SameNode, PairsBelow, NodeAlike
<1>2. CASE p.kind # "base" /\ p.kind = q.kind
  <2>1. /\ sh[p].elems \in Seq(W)  /\ sh[p].recvs \in Seq(W)
        /\ sh[p].params \in Seq(W) /\ sh[p].results \in Seq(W)
        /\ sh[q].elems \in Seq(W)  /\ sh[q].recvs \in Seq(W)
        /\ sh[q].params \in Seq(W) /\ sh[q].results \in Seq(W)
    BY <1>2, NodeChildren
  <2> DEFINE pairs(f) == {<<sh[p][f][i], sh[q][f][i]>> : i \in DOMAIN sh[p][f]}
  <2>2. SameNode(sh, p, q) <=>
          /\ p.base = q.base /\ sh[p].name = sh[q].name
          /\ Len(sh[p].elems) = Len(sh[q].elems) /\ Len(sh[p].recvs) = Len(sh[q].recvs)
          /\ Len(sh[p].params) = Len(sh[q].params) /\ Len(sh[p].results) = Len(sh[q].results)
    BY <1>2 DEF SameNode, Fields
  <2>3. SameNode(sh, p, q) =>
          PairsBelow(sh, p, q) = pairs("elems") \cup pairs("recvs") \cup pairs("params") \cup pairs("results")
    <3>1. SameNode(sh, p, q) => PairsBelow(sh, p, q) = UNION {pairs(f) : f \in Fields}
      BY <1>2 DEF PairsBelow
    <3>2. UNION {pairs(f) : f \in Fields}
            = pairs("elems") \cup pairs("recvs") \cup pairs("params") \cup pairs("results")
      <4> HIDE DEF pairs
      <4> QED
        BY DEF Fields
    <3> QED
      BY <3>1, <3>2
  <2>4. ~SameNode(sh, p, q) => PairsBelow(sh, p, q) = {}
    BY DEF PairsBelow
  <2>5. \A s, t \in Seq(W) :
          Beside(s, t, R) <=> Len(s) = Len(t) /\ {<<s[i], t[i]>> : i \in DOMAIN s} \subseteq R
    BY DEF Beside
  <2>6. \A s, t \in Seq(W) : Len(s) = Len(t) => {<<s[i], t[i]>> : i \in DOMAIN s} \subseteq W \X W
    OBVIOUS
  <2>7. /\ Beside(sh[p].elems, sh[q].elems, R) <=>
             Len(sh[p].elems) = Len(sh[q].elems) /\ pairs("elems") \subseteq R
        /\ Beside(sh[p].recvs, sh[q].recvs, R) <=>
             Len(sh[p].recvs) = Len(sh[q].recvs) /\ pairs("recvs") \subseteq R
        /\ Beside(sh[p].params, sh[q].params, R) <=>
             Len(sh[p].params) = Len(sh[q].params) /\ pairs("params") \subseteq R
        /\ Beside(sh[p].results, sh[q].results, R) <=>
             Len(sh[p].results) = Len(sh[q].results) /\ pairs("results") \subseteq R
    BY <2>1, <2>5
  <2>8. /\ Len(sh[p].elems) = Len(sh[q].elems) => pairs("elems") \subseteq W \X W
        /\ Len(sh[p].recvs) = Len(sh[q].recvs) => pairs("recvs") \subseteq W \X W
        /\ Len(sh[p].params) = Len(sh[q].params) => pairs("params") \subseteq W \X W
        /\ Len(sh[p].results) = Len(sh[q].results) => pairs("results") \subseteq W \X W
    BY <2>1, <2>6
  <2> HIDE DEF pairs
  <2>9. PairsBelow(sh, p, q) \subseteq W \X W
    BY <2>2, <2>3, <2>4, <2>8
  <2>10. SameNode(sh, p, q) /\ PairsBelow(sh, p, q) \subseteq R <=> NodeAlike(sh, p, q, R)
    <3>1. NodeAlike(sh, p, q, R) <=>
            /\ p.base = q.base /\ sh[p].name = sh[q].name
            /\ Beside(sh[p].elems, sh[q].elems, R) /\ Beside(sh[p].recvs, sh[q].recvs, R)
            /\ Beside(sh[p].params, sh[q].params, R) /\ Beside(sh[p].results, sh[q].results, R)
      BY <1>2 DEF NodeAlike
    <3> QED
      BY <2>2, <2>3, <2>7, <3>1
  <2> QED
    BY <2>9, <2>10
<1> QED
  BY <1>1, <1>2

(* A larger relation makes more nodes look the same.                       *)
LEMMA AlikeMonotone ==
  ASSUME NEW sh, NEW p, NEW q, NEW R, NEW S, R \subseteq S, NodeAlike(sh, p, q, R)
  PROVE  NodeAlike(sh, p, q, S)
BY DEF NodeAlike, Beside

(* Being alike is such a relation, and contains all of them.               *)
LEMMA AlikeIsLargest ==
  ASSUME NEW sh, NEW W
  PROVE  /\ Alike(sh, W) \subseteq W \X W
         /\ \A p \in Alike(sh, W) : NodeAlike(sh, p[1], p[2], Alike(sh, W))
         /\ \A R \in SUBSET (W \X W) :
              (\A p \in R : NodeAlike(sh, p[1], p[2], R)) => R \subseteq Alike(sh, W)
<1> DEFINE E == Alike(sh, W)
<1>1. E \subseteq W \X W
  BY DEF Alike
<1>2. \A R \in SUBSET (W \X W) :
        (\A p \in R : NodeAlike(sh, p[1], p[2], R)) => R \subseteq E
  BY DEF Alike
<1>3. ASSUME NEW p \in E
      PROVE  NodeAlike(sh, p[1], p[2], E)
  <2>1. PICK R \in SUBSET (W \X W) : (\A r \in R : NodeAlike(sh, r[1], r[2], R)) /\ p \in R
    BY DEF Alike
  <2>2. R \subseteq E /\ NodeAlike(sh, p[1], p[2], R)
    BY <1>2, <2>1
  <2> HIDE DEF E
  <2> QED
    BY <2>2, AlikeMonotone
<1> QED
  BY <1>1, <1>2, <1>3

(* DeepEqual, which walks the pairs, computes it.                          *)
LEMMA DeepEqualIsAlike ==
  ASSUME GraphOver(Shapes, Perm \cup Objects),
         NEW p \in Perm \cup Objects, NEW q \in Perm \cup Objects
  PROVE  DeepEqual(p, q) <=> <<p, q>> \in Alike(Shapes, Perm \cup Objects)
<1> DEFINE W == Perm \cup Objects
           E == Alike(Shapes, W)
           U == W \X W
           Below(pairs) == UNION {PairsBelow(Shapes, pair[1], pair[2]) : pair \in pairs}
           step == [s \in SUBSET U |-> s \cup Below(s)]
           grow[s \in SUBSET U] == LET next == s \cup Below(s)
                                   IN  IF next = s THEN s ELSE grow[next]
<1>1. \A s \in SUBSET U : Below(s) \subseteq U
  <2> SUFFICES ASSUME NEW pair \in U
               PROVE  PairsBelow(Shapes, pair[1], pair[2]) \subseteq U
    OBVIOUS
  <2> QED
    BY NodeUnfold
<1>2. \A s, t \in SUBSET U : s \subseteq t => Below(s) \subseteq Below(t)
  OBVIOUS
<1> HIDE DEF Below
<1>3. Round(step, U)
  BY <1>1, <1>2 DEF Round
<1>4. grow = [s \in SUBSET U |-> LET next == s \cup Below(s)
                                 IN  IF next = s THEN s ELSE grow[next]]
  <2>1. PICK g : Walk(step, U, g)
    BY <1>3, WalkExists
  <2>2. g = [s \in SUBSET U |-> LET next == s \cup Below(s)
                                IN  IF next = s THEN s ELSE g[next]]
    BY <2>1 DEF Walk
  <2> QED
    BY <2>2, Zenon
<1>5. DeepEqual(p, q) <=> \A pair \in grow[{<<p, q>>}] : SameNode(Shapes, pair[1], pair[2])
  BY DEF DeepEqual, Closure, Below
<1> HIDE DEF grow
<1>6. Least(step, U, {<<p, q>>}, grow[{<<p, q>>}])
  <2>1. Walk(step, U, grow)
    BY <1>4 DEF Walk
  <2>2. IsFiniteSet(U)
    BY FS_Product DEF GraphOver
  <2>3. {<<p, q>>} \in SUBSET U
    OBVIOUS
  <2> HIDE DEF U
  <2> QED
    BY <1>3, <2>1, <2>2, <2>3, WalkIsLeast
<1> DEFINE C == grow[{<<p, q>>}]
<1>7. /\ C \in SUBSET U /\ <<p, q>> \in C /\ Below(C) \subseteq C
      /\ \A t \in SUBSET U : <<p, q>> \in t /\ Below(t) \subseteq t => C \subseteq t
  BY <1>6 DEF Least
<1> HIDE DEF C, step
<1>8. ASSUME <<p, q>> \in E
      PROVE  DeepEqual(p, q)
  <2>1. E \in SUBSET U /\ \A r \in E : NodeAlike(Shapes, r[1], r[2], E)
    BY AlikeIsLargest
  <2>2. ASSUME NEW r \in E
        PROVE  SameNode(Shapes, r[1], r[2]) /\ PairsBelow(Shapes, r[1], r[2]) \subseteq E
    <3>1. r[1] \in W /\ r[2] \in W /\ NodeAlike(Shapes, r[1], r[2], E)
      BY <2>1
    <3> HIDE DEF E, W
    <3> QED
      BY <3>1, NodeUnfold DEF W
  <2> HIDE DEF E
  <2>3. Below(E) \subseteq E
    BY <2>2 DEF Below
  <2>4. C \subseteq E
    BY <1>7, <1>8, <2>1, <2>3
  <2> QED
    BY <1>5, <2>2, <2>4 DEF C
<1>9. ASSUME DeepEqual(p, q)
      PROVE  <<p, q>> \in E
  <2>1. ASSUME NEW r \in C
        PROVE  NodeAlike(Shapes, r[1], r[2], C)
    <3>1. r[1] \in W /\ r[2] \in W
      BY <1>7
    <3>2. SameNode(Shapes, r[1], r[2])
      BY <1>5, <1>9 DEF C
    <3>3. PairsBelow(Shapes, r[1], r[2]) \subseteq C
      BY <1>7 DEF Below
    <3> HIDE DEF W
    <3> QED
      BY <3>1, <3>2, <3>3, NodeUnfold DEF W
  <2>2. C \subseteq E
    BY <1>7, <2>1, AlikeIsLargest
  <2> QED
    BY <1>7, <2>2
<1> QED
  BY <1>8, <1>9

(* Base permissions that are equal are the same value, and equal nodes     *)
(* have the same name.                                                     *)
LEMMA AlikeNodes ==
  ASSUME NEW sh, NEW W, GraphOver(sh, W), NEW p, NEW q, <<p, q>> \in Alike(sh, W)
  PROVE  /\ p \in W /\ q \in W
         /\ NodeAlike(sh, p, q, Alike(sh, W))
         /\ p.kind = "base" => p = q
         /\ sh[p].name = sh[q].name
<1>1. p \in W /\ q \in W
  BY AlikeIsLargest
<1>2. NodeAlike(sh, p, q, Alike(sh, W))
  <2>1. <<p, q>>[1] = p /\ <<p, q>>[2] = q
    OBVIOUS
  <2> QED
    BY <2>1, AlikeIsLargest
<1>3. p.kind = q.kind /\ p.base = q.base
  BY <1>2 DEF NodeAlike
<1>4. p.kind = "base" => p = Base(p.base) /\ q = Base(q.base)
  BY <1>1, <1>3, NodeKinds
<1>5. p.kind # "base" => sh[p].name = sh[q].name
  BY <1>2 DEF NodeAlike
<1> QED
  BY <1>1, <1>2, <1>3, <1>4, <1>5

(* It is an equivalence.                                                   *)
LEMMA AlikeIsEquivalence ==
  ASSUME NEW sh, NEW W, GraphOver(sh, W)
  PROVE  /\ \A p \in W : <<p, p>> \in Alike(sh, W)
         /\ \A p, q : <<p, q>> \in Alike(sh, W) => <<q, p>> \in Alike(sh, W)
         /\ \A p, q, r : <<p, q>> \in Alike(sh, W) /\ <<q, r>> \in Alike(sh, W)
                           => <<p, r>> \in Alike(sh, W)
<1> DEFINE E == Alike(sh, W)
<1>1. \A s, t, R, S : Beside(s, t, R) /\ (\A i \in DOMAIN s : <<s[i], t[i]>> \in R => <<s[i], t[i]>> \in S)
                        => Beside(s, t, S)
  BY DEF Beside
<1>2. ASSUME NEW p \in W
      PROVE  <<p, p>> \in E
  <2> DEFINE R == {<<w, w>> : w \in W}
  <2>1. \A s \in Seq(W) : Beside(s, s, R)
    BY DEF Beside
  <2>2. ASSUME NEW w \in W
        PROVE  NodeAlike(sh, w, w, R)
    <3>1. w.kind # "base" =>
            /\ sh[w].elems \in Seq(W)  /\ sh[w].recvs \in Seq(W)
            /\ sh[w].params \in Seq(W) /\ sh[w].results \in Seq(W)
      BY NodeChildren
    <3> HIDE DEF R
    <3> QED
      BY <2>1, <3>1 DEF NodeAlike
  <2>3. R \in SUBSET (W \X W) /\ \A r \in R : NodeAlike(sh, r[1], r[2], R)
    BY <2>2
  <2>4. R \subseteq E
    <3> HIDE DEF R
    <3> QED
      BY <2>3, AlikeIsLargest
  <2> QED
    BY <2>4
<1>3. ASSUME NEW p, NEW q, <<p, q>> \in E
      PROVE  <<q, p>> \in E
  <2> DEFINE R == {r \in W \X W : <<r[2], r[1]>> \in E}
  <2>1. \A s, t \in Seq(W) : Beside(s, t, E) => Beside(t, s, R)
    BY DEF Beside
  <2>2. ASSUME NEW r \in R
        PROVE  NodeAlike(sh, r[1], r[2], R)
    <3>1. r[1] \in W /\ r[2] \in W /\ NodeAlike(sh, r[2], r[1], E)
      BY AlikeNodes
    <3> DEFINE x == r[1]
               y == r[2]
    <3>2. x.kind # "base" =>
            /\ sh[x].elems \in Seq(W)  /\ sh[x].recvs \in Seq(W)
            /\ sh[x].params \in Seq(W) /\ sh[x].results \in Seq(W)
      BY <3>1, NodeChildren
    <3>3. y.kind # "base" =>
            /\ sh[y].elems \in Seq(W)  /\ sh[y].recvs \in Seq(W)
            /\ sh[y].params \in Seq(W) /\ sh[y].results \in Seq(W)
      BY <3>1, NodeChildren
    <3>4. NodeAlike(sh, y, x, E)
      BY <3>1
    <3> HIDE DEF R, E, x, y
    <3>5. NodeAlike(sh, x, y, R)
      BY <2>1, <3>2, <3>3, <3>4 DEF NodeAlike
    <3> QED
      BY <3>5 DEF x, y
  <2>3. R \subseteq E
    <3>1. R \in SUBSET (W \X W)
      OBVIOUS
    <3> HIDE DEF R
    <3> QED
      BY <2>2, <3>1, AlikeIsLargest
  <2>4. <<q, p>> \in R
    BY <1>3, AlikeIsLargest
  <2> QED
    BY <2>3, <2>4
<1>4. ASSUME NEW p, NEW q, NEW r, <<p, q>> \in E, <<q, r>> \in E
      PROVE  <<p, r>> \in E
  <2> DEFINE R == {c \in W \X W : \E m \in W : <<c[1], m>> \in E /\ <<m, c[2]>> \in E}
  <2>1. \A s, t, u \in Seq(W) : Beside(s, t, E) /\ Beside(t, u, E) => Beside(s, u, R)
    BY DEF Beside
  <2>2. ASSUME NEW c \in R
        PROVE  NodeAlike(sh, c[1], c[2], R)
    <3> DEFINE x == c[1]
               y == c[2]
    <3>1. PICK m \in W : <<x, m>> \in E /\ <<m, y>> \in E
      OBVIOUS
    <3>2. x \in W /\ y \in W /\ NodeAlike(sh, x, m, E) /\ NodeAlike(sh, m, y, E)
      BY <3>1, AlikeNodes
    <3>3. \A w \in W : w.kind # "base" =>
            /\ sh[w].elems \in Seq(W)  /\ sh[w].recvs \in Seq(W)
            /\ sh[w].params \in Seq(W) /\ sh[w].results \in Seq(W)
      BY NodeChildren
    <3> HIDE DEF R, E, x, y
    <3>4. NodeAlike(sh, x, y, R)
      BY <2>1, <3>2, <3>3 DEF NodeAlike
    <3> QED
      BY <3>4 DEF x, y
  <2>3. R \subseteq E
    <3>1. R \in SUBSET (W \X W)
      OBVIOUS
    <3> HIDE DEF R
    <3> QED
      BY <2>2, <3>1, AlikeIsLargest
  <2>4. <<p, r>> \in R
    BY <1>4, AlikeIsLargest
  <2> QED
    BY <2>3, <2>4
<1> QED
  BY <1>2, <1>3, <1>4

(* Moving does not tell equal permissions apart.                           *)
LEMMA AlikeMoves ==
  ASSUME NEW sh, NEW W, GraphOver(sh, W), NEW a, NEW b, NEW c, NEW d,
         <<a, c>> \in Alike(sh, W), <<b, d>> \in Alike(sh, W), <<a, b>> \in Movable(sh, W)
  PROVE  <<c, d>> \in Movable(sh, W)
<1> DEFINE E == Alike(sh, W)
           M == Movable(sh, W)
           R == {r \in W \X W : \E u, v \in W :
                   <<u, r[1]>> \in E /\ <<v, r[2]>> \in E /\ <<u, v>> \in M}
<1>1. \A x, y, u, v : <<u, x>> \in E /\ <<v, y>> \in E /\ <<u, v>> \in M => <<x, y>> \in R
  <2> SUFFICES ASSUME NEW x, NEW y, NEW u, NEW v, <<u, x>> \in E, <<v, y>> \in E, <<u, v>> \in M
               PROVE  <<x, y>> \in R
    OBVIOUS
  <2>1. x \in W /\ y \in W /\ u \in W /\ v \in W
    BY AlikeNodes
  <2> HIDE DEF E, M
  <2> QED
    BY <2>1
<1>2. ASSUME NEW x \in W, NEW y \in W, NEW u \in W, NEW v \in W,
             <<u, x>> \in E, <<v, y>> \in E, <<u, v>> \in M
      PROVE  MoveAllowed(sh, x, y, R)
  <2>1. NodeAlike(sh, u, x, E) /\ NodeAlike(sh, v, y, E)
    BY <1>2, AlikeNodes
  <2>2. MoveAllowed(sh, u, v, M)
    BY <1>2, MovableUnfold
  <2>3. \A w \in W : w.kind # "base" =>
          /\ sh[w].elems \in Seq(W)  /\ sh[w].recvs \in Seq(W)
          /\ sh[w].params \in Seq(W) /\ sh[w].results \in Seq(W)
    BY NodeChildren
  <2>5. \A p, q : <<p, q>> \in E => sh[p].name = sh[q].name
    BY AlikeNodes
  <2> HIDE DEF E, M, R
  <2>6. ASSUME NEW s \in Seq(W), NEW s2 \in Seq(W), NEW t \in Seq(W), NEW t2 \in Seq(W),
               Beside(s, s2, E), Beside(t, t2, E)
        PROVE  /\ Into(s, t, M) => Into(s2, t2, R)
               /\ Onto(s, t, M) => Onto(s2, t2, R)
               /\ MethodsInto(sh, s, t, M) => MethodsInto(sh, s2, t2, R)
    <3>1. DOMAIN s = DOMAIN s2 /\ DOMAIN t = DOMAIN t2
      BY <2>6 DEF Beside
    <3>2. Into(s, t, M) => Into(s2, t2, R)
      BY <1>1, <2>6, <3>1 DEF Beside, Into
    <3>3. Onto(s, t, M) => Onto(s2, t2, R)
      BY <1>1, <2>6, <3>1 DEF Beside, Onto
    <3>4. MethodsInto(sh, s, t, M) => MethodsInto(sh, s2, t2, R)
      <4> SUFFICES ASSUME MethodsInto(sh, s, t, M), NEW i \in DOMAIN t2
                   PROVE  \E j \in DOMAIN s2 : sh[s2[j]].name = sh[t2[i]].name /\ <<s2[j], t2[i]>> \in R
        BY DEF MethodsInto
      <4>1. PICK j \in DOMAIN s : sh[s[j]].name = sh[t[i]].name /\ <<s[j], t[i]>> \in M
        BY <3>1 DEF MethodsInto
      <4>2. <<s[j], s2[j]>> \in E /\ <<t[i], t2[i]>> \in E
        BY <2>6, <3>1 DEF Beside
      <4>3. <<s2[j], t2[i]>> \in R
        BY <1>1, <4>1, <4>2
      <4>4. sh[s2[j]].name = sh[t2[i]].name
        BY <2>5, <4>1, <4>2
      <4> QED
        BY <3>1, <4>3, <4>4
    <3> QED
      BY <3>2, <3>3, <3>4
  <2>7. u.kind = x.kind /\ u.base = x.base /\ v.kind = y.kind /\ v.base = y.base
    BY <2>1 DEF NodeAlike
  <2>8. CASE x.kind \in Plain
    <3>1. y.kind = x.kind /\ u.kind # "base" /\ v.kind # "base"
      BY <2>2, <2>7, <2>8 DEF MoveAllowed, Plain
    <3>2. Beside(sh[u].elems, sh[x].elems, E) /\ Beside(sh[v].elems, sh[y].elems, E)
      BY <2>1, <3>1 DEF NodeAlike
    <3>3. Into(sh[x].elems, sh[y].elems, R)
      <4>1. Into(sh[u].elems, sh[v].elems, M)
        BY <2>2, <2>7, <2>8 DEF MoveAllowed
      <4> QED
        BY <2>3, <2>6, <2>7, <3>1, <3>2, <4>1
    <3>4. Len(sh[u].elems) = Len(sh[x].elems) /\ Len(sh[v].elems) = Len(sh[y].elems)
      BY <3>2 DEF Beside
    <3>5. MoveBase(x.base, y.base) /\ (x.kind = "tuple" => Len(sh[x].elems) = Len(sh[y].elems))
      BY <2>2, <2>7, <2>8, <3>4 DEF MoveAllowed
    <3> QED
      BY <2>8, <3>1, <3>3, <3>5 DEF MoveAllowed, Plain
  <2>9. CASE x.kind = "interface"
    <3>1. y.kind = "interface" /\ u.kind # "base" /\ v.kind # "base"
      BY <2>2, <2>7, <2>9 DEF MoveAllowed
    <3>2. Beside(sh[u].elems, sh[x].elems, E) /\ Beside(sh[v].elems, sh[y].elems, E)
      BY <2>1, <3>1 DEF NodeAlike
    <3>3. MethodsInto(sh, sh[x].elems, sh[y].elems, R)
      <4>1. MethodsInto(sh, sh[u].elems, sh[v].elems, M)
        BY <2>2, <2>7, <2>9 DEF MoveAllowed
      <4> QED
        BY <2>3, <2>6, <2>7, <2>9, <3>1, <3>2, <4>1
    <3>4. MoveBase(x.base, y.base)
      BY <2>2, <2>7, <2>9 DEF MoveAllowed
    <3> QED
      BY <2>9, <3>1, <3>3, <3>4 DEF MoveAllowed, Plain
  <2>10. CASE x.kind = "func"
    <3>1. y.kind = "func" /\ u.kind # "base" /\ v.kind # "base"
      BY <2>2, <2>7, <2>10 DEF MoveAllowed
    <3>2. /\ Beside(sh[u].recvs, sh[x].recvs, E) /\ Beside(sh[v].recvs, sh[y].recvs, E)
          /\ Beside(sh[u].params, sh[x].params, E) /\ Beside(sh[v].params, sh[y].params, E)
          /\ Beside(sh[u].results, sh[x].results, E) /\ Beside(sh[v].results, sh[y].results, E)
      BY <2>1, <3>1 DEF NodeAlike
    <3>3. /\ Onto(sh[u].recvs, sh[v].recvs, M) /\ Onto(sh[u].params, sh[v].params, M)
          /\ Into(sh[u].results, sh[v].results, M)
          /\ "o" \in y.base => "o" \in x.base
          /\ MoveBase(y.base \ {"o"}, x.base \ {"o"})
      BY <2>2, <2>7, <2>10 DEF MoveAllowed
    <3>4. Onto(sh[x].recvs, sh[y].recvs, R)
      BY <2>3, <2>6, <2>7, <2>10, <3>1, <3>2, <3>3
    <3>5. Onto(sh[x].params, sh[y].params, R)
      BY <2>3, <2>6, <2>7, <2>10, <3>1, <3>2, <3>3
    <3>6. Into(sh[x].results, sh[y].results, R)
      BY <2>3, <2>6, <2>7, <2>10, <3>1, <3>2, <3>3
    <3> QED
      BY <2>10, <3>1, <3>3, <3>4, <3>5, <3>6 DEF MoveAllowed, Plain
  <2>11. CASE x.kind \notin Plain \cup {"interface", "func"}
    BY <2>2, <2>7, <2>11 DEF MoveAllowed, Plain
  <2> QED
    BY <2>8, <2>9, <2>10, <2>11
<1>3. R \subseteq M
  <2>1. ASSUME NEW r \in R
        PROVE  MoveAllowed(sh, r[1], r[2], R \cup M)
    <3>1. MoveAllowed(sh, r[1], r[2], R)
      BY <1>2
    <3> HIDE DEF R, M
    <3> QED
      BY <3>1, AllowedMonotone
  <2>2. R \in SUBSET (W \X W)
    OBVIOUS
  <2> HIDE DEF R
  <2> QED
    BY <2>1, <2>2, MovableIsLargest
<1>4. <<c, d>> \in R
  BY <1>1
<1> QED
  BY <1>3, <1>4

--------------------------------------------------------------------------------
(* What has been built, once a call has come to its end.                   *)

(* A complete object: its children are the answers to its questions, and   *)
(* these were asked.                                                       *)
LEMMA CompleteKids ==
  ASSUME IInv, Working, result \in {"built", "done"}, NEW k \in DOMAIN kids
  PROVE  /\ k \in Key /\ Builds(k) /\ k.perm \in Object /\ New(k) \in Objects
         /\ Goals(k) \in Seq(Key) /\ Len(kids[k]) = Len(Goals(k))
         /\ kids[k] \in Seq(Perm \cup Objects)
         /\ \A i \in DOMAIN Goals(k) :
              /\ kids[k][i] = AnswerTo(Goals(k)[i])
              /\ Goals(k)[i] \in DOMAIN kids \/ Shares(Goals(k)[i])
<1>1. k \in Key /\ Builds(k) /\ kids[k] \in Seq(Result) /\ stack = <<>>
      /\ DOMAIN kids \subseteq {q \in Key : Builds(q)}
  BY DEF IInv, TypeOK, Chain
<1>2. k.perm \in Object
  BY <1>1, PermKinds DEF Key, Builds, Composite
<1>3. New(k) \in Objects
  BY DEF Objects
<1>4. Goals(k) \in Seq(Key \cup FailureGoal) /\ Len(kids[k]) = Len(Goals(k))
  BY <1>1, GoalsType DEF IInv, Settled
<1>5. ASSUME NEW i \in DOMAIN Goals(k)
      PROVE  /\ kids[k][i] = AnswerTo(Goals(k)[i])
             /\ Goals(k)[i] \in DOMAIN kids \/ Shares(Goals(k)[i])
             /\ Goals(k)[i] \in Key
             /\ kids[k][i] \in Perm \cup Objects
  <2>1. i \in DOMAIN kids[k]
    BY <1>1, <1>4
  <2>2. /\ kids[k][i] = AnswerTo(Goals(k)[i])
        /\ Goals(k)[i] \in DOMAIN kids \/ Shares(Goals(k)[i])
        /\ Goals(k)[i] \notin FailureGoal
    BY <2>1 DEF IInv, Faithful, Working
  <2> DEFINE q == Goals(k)[i]
  <2>3. q \in Key
    BY <1>4, <2>2
  <2>4. AnswerTo(q) \in Perm \cup Objects
    <3> HIDE DEF q
    <3>1. CASE q \in DOMAIN kids
      <4>1. Builds(q)
        BY <1>1, <3>1
      <4> QED
        BY <3>1, <4>1 DEF AnswerTo, Objects
    <3>2. CASE Shares(q)
      BY <2>3, <3>2, AnswerType DEF AnswerTo
    <3> QED
      BY <2>2, <3>1, <3>2 DEF q
  <2> QED
    BY <2>2, <2>3, <2>4
<1>6. Goals(k) \in Seq(Key)
  <2>1. Goals(k) = [i \in 1..Len(Goals(k)) |-> Goals(k)[i]] /\ Len(Goals(k)) \in Nat
    BY <1>4
  <2>2. \A i \in 1..Len(Goals(k)) : Goals(k)[i] \in Key
    BY <1>4, <1>5
  <2> QED
    BY <2>1, <2>2
<1>7. kids[k] \in Seq(Perm \cup Objects)
  <2>1. kids[k] = [i \in 1..Len(kids[k]) |-> kids[k][i]] /\ Len(kids[k]) \in Nat
    BY <1>1
  <2>2. \A i \in 1..Len(kids[k]) : kids[k][i] \in Perm \cup Objects
    BY <1>4, <1>5
  <2> QED
    BY <2>1, <2>2
<1> QED
  BY <1>1, <1>2, <1>3, <1>4, <1>5, <1>6, <1>7

(* Old objects keep their shape, new ones have that of their key.          *)
LEMMA ShapesAre ==
  ASSUME IInv
  PROVE  /\ DOMAIN Shapes = Objects
         /\ \A p \in Object : p \in Objects /\ Shapes[p] = shape[p]
         /\ \A k \in DOMAIN kids : Shapes[New(k)] = NewShape(k, k.perm)
<1>1. \A p \in Object : p \in Objects /\ Shapes[p] = shape[p]
  BY DEF Shapes, Objects
<1>2. ASSUME NEW k \in DOMAIN kids
      PROVE  Shapes[New(k)] = NewShape(k, k.perm)
  <2>1. k \in Key /\ Builds(k)
    BY DEF IInv, TypeOK
  <2>2. New(k) \in Objects /\ New(k) \notin Object
    BY <2>1, NewAssumption DEF Objects
  <2>3. k = [perm |-> k.perm, goal |-> k.goal, action |-> k.action]
    BY <2>1 DEF Key
  <2>4. New(k).id[1] = k.perm /\ New(k).id[2] = k.goal /\ New(k).id[3] = k.action
    BY DEF New
  <2>5. Shapes[New(k)] = NewShape([perm |-> k.perm, goal |-> k.goal, action |-> k.action], k.perm)
    BY <2>2, <2>4 DEF Shapes
  <2> QED
    BY <2>3, <2>5
<1> QED
  BY <1>1, <1>2 DEF Shapes

--------------------------------------------------------------------------------
(* A part of a sequence.                                                   *)
LEMMA PartFacts ==
  ASSUME NEW S, NEW s \in Seq(S), NEW b \in Nat, NEW n \in Nat, b + n <= Len(s)
  PROVE  /\ Part(s, b, n) \in Seq(S)
         /\ Len(Part(s, b, n)) = n
         /\ \A i \in 1..n : Part(s, b, n)[i] = s[b + i]
<1> DEFINE lo == b + 1
           hi == b + n
<1>1. lo \in Int /\ hi \in Int /\ (lo <= hi <=> 1 <= n) /\ hi - lo + 1 = n
  OBVIOUS
<1>2. \A i \in lo..hi : s[i] \in S
  OBVIOUS
<1>3. /\ SubSeq(s, lo, hi) \in Seq(S)
      /\ Len(SubSeq(s, lo, hi)) = IF lo <= hi THEN hi - lo + 1 ELSE 0
      /\ \A i \in 1..(hi - lo + 1) : SubSeq(s, lo, hi)[i] = s[lo + i - 1]
  <2> HIDE DEF lo, hi
  <2> QED
    BY ONLY <1>1, <1>2, SubSeqProperties, SMT
<1>4. \A i \in 1..n : lo + i - 1 = b + i
  OBVIOUS
<1>5. Part(s, b, n) = SubSeq(s, lo, hi)
  BY DEF Part
<1>6. (IF lo <= hi THEN hi - lo + 1 ELSE 0) = n
  BY <1>1
<1> HIDE DEF lo, hi
<1> QED
  BY <1>1, <1>3, <1>4, <1>5, <1>6

(* Four sequences after one another.                                       *)
LEMMA ConcatAt ==
  ASSUME NEW S, NEW a \in Seq(S), NEW b \in Seq(S), NEW c \in Seq(S), NEW d \in Seq(S),
         NEW g, g = a \o b \o c \o d
  PROVE  /\ Len(a \o b) = Len(a) + Len(b)
         /\ Len(a \o b \o c) = Len(a) + Len(b) + Len(c)
         /\ Len(g) = Len(a) + Len(b) + Len(c) + Len(d)
         /\ g \in Seq(S)
         /\ \A i \in 1..Len(a) : g[0 + i] = a[i]
         /\ \A i \in 1..Len(b) : g[Len(a) + i] = b[i]
         /\ \A i \in 1..Len(c) : g[Len(a) + Len(b) + i] = c[i]
         /\ \A i \in 1..Len(d) : g[Len(a) + Len(b) + Len(c) + i] = d[i]
<1>1. \A s, t \in Seq(S) : /\ s \o t \in Seq(S)
                           /\ Len(s \o t) = Len(s) + Len(t)
                           /\ \A i \in 1..Len(s) : (s \o t)[i] = s[i]
                           /\ \A i \in 1..Len(t) : (s \o t)[Len(s) + i] = t[i]
  OBVIOUS
<1> DEFINE ab == a \o b
           abc == ab \o c
<1>2. /\ ab \in Seq(S) /\ Len(ab) = Len(a) + Len(b)
      /\ \A i \in 1..Len(a) : ab[i] = a[i]
      /\ \A i \in 1..Len(b) : ab[Len(a) + i] = b[i]
  BY <1>1
<1>3. Len(a) \in Nat /\ Len(b) \in Nat /\ Len(c) \in Nat /\ Len(d) \in Nat
  OBVIOUS
<1> HIDE DEF ab
<1>4. /\ abc \in Seq(S) /\ Len(abc) = Len(ab) + Len(c)
      /\ \A i \in 1..Len(ab) : abc[i] = ab[i]
      /\ \A i \in 1..Len(c) : abc[Len(ab) + i] = c[i]
  BY <1>1, <1>2
<1>5. g = abc \o d
  BY DEF ab
<1> HIDE DEF abc
<1>6. /\ g \in Seq(S) /\ Len(g) = Len(abc) + Len(d)
      /\ \A i \in 1..Len(abc) : g[i] = abc[i]
      /\ \A i \in 1..Len(d) : g[Len(abc) + i] = d[i]
  <2>1. /\ abc \o d \in Seq(S) /\ Len(abc \o d) = Len(abc) + Len(d)
        /\ \A i \in 1..Len(abc) : (abc \o d)[i] = abc[i]
        /\ \A i \in 1..Len(d) : (abc \o d)[Len(abc) + i] = d[i]
    BY <1>1, <1>4
  <2> QED
    BY <1>5, <2>1
<1>7. \A i \in 1..Len(a) : g[i] = a[i] /\ 0 + i = i
  BY <1>2, <1>3, <1>4, <1>6
<1>8. \A i \in 1..Len(b) : g[Len(a) + i] = b[i]
  <2> TAKE i \in 1..Len(b)
  <2>1. Len(a) + i \in 1..Len(ab) /\ Len(a) + i \in 1..Len(abc)
    BY <1>2, <1>3, <1>4
  <2> QED
    BY <1>2, <1>4, <1>6, <2>1
<1>9. \A i \in 1..Len(c) : g[Len(a) + Len(b) + i] = c[i]
  <2> TAKE i \in 1..Len(c)
  <2>1. Len(ab) + i \in 1..Len(abc) /\ Len(a) + Len(b) + i = Len(ab) + i
    BY <1>2, <1>3, <1>4
  <2> QED
    BY <1>4, <1>6, <2>1
<1>10. Len(abc) = Len(a) + Len(b) + Len(c) /\ Len(g) = Len(a) + Len(b) + Len(c) + Len(d)
  BY <1>2, <1>3, <1>4, <1>6
<1>11. \A i \in 1..Len(d) : g[Len(a) + Len(b) + Len(c) + i] = d[i]
  BY <1>6, <1>10
<1> QED
  BY <1>2, <1>6, <1>7, <1>8, <1>9, <1>10, <1>11 DEF ab, abc

(* The parts of a new object, and how many children it has.                *)
LEMMA NewShapeType ==
  ASSUME IInv, Working, result \in {"built", "done"}, NEW k \in DOMAIN kids,
         NEW p, p = k.perm
  PROVE  /\ Len(kids[k]) = Len(elems(p)) + Len(recvs(p)) + Len(params(p)) + Len(results(p))
         /\ Len(elems(p) \o recvs(p)) = Len(elems(p)) + Len(recvs(p))
         /\ Len(elems(p) \o recvs(p) \o params(p)) = Len(elems(p)) + Len(recvs(p)) + Len(params(p))
         /\ ToBase(k) => \A i \in DOMAIN elems(p) : Goals(k)[i] = ChildToBase(k, elems(p)[i])
         /\ ~ToBase(k) =>
              /\ Len(elems(p)) = Len(elems(k.goal)) /\ Len(recvs(p)) = Len(recvs(k.goal))
              /\ Len(params(p)) = Len(params(k.goal)) /\ Len(results(p)) = Len(results(k.goal))
              /\ \A i \in 1..Len(elems(p)) :
                   Goals(k)[0 + i] = Goal(elems(p)[i], elems(k.goal)[i], k.action)
              /\ \A i \in 1..Len(recvs(p)) :
                   Goals(k)[Len(elems(p)) + i]
                     = Goal(recvs(p)[i], recvs(k.goal)[i], contravariant(k.action))
              /\ \A i \in 1..Len(params(p)) :
                   Goals(k)[Len(elems(p)) + Len(recvs(p)) + i]
                     = Goal(params(p)[i], params(k.goal)[i], contravariant(k.action))
              /\ \A i \in 1..Len(results(p)) :
                   Goals(k)[Len(elems(p)) + Len(recvs(p)) + Len(params(p)) + i]
                     = Goal(results(p)[i], results(k.goal)[i], k.action)
<1> DEFINE q == k.goal
<1>1. /\ k \in Key /\ Builds(k) /\ p \in Object /\ Goals(k) \in Seq(Key)
      /\ Len(kids[k]) = Len(Goals(k)) /\ q \in Perm /\ k.action \in Action
  BY CompleteKids DEF Key
<1>2. /\ elems(p) \in Seq(Perm) /\ recvs(p) \in Seq(Perm)
      /\ params(p) \in Seq(Perm) /\ results(p) \in Seq(Perm)
  BY <1>1, ShapeType
<1> DEFINE c == elems(p) \o recvs(p) \o params(p) \o results(p)
<1>3. /\ Len(elems(p) \o recvs(p)) = Len(elems(p)) + Len(recvs(p))
      /\ Len(elems(p) \o recvs(p) \o params(p)) = Len(elems(p)) + Len(recvs(p)) + Len(params(p))
      /\ Len(c) = Len(elems(p)) + Len(recvs(p)) + Len(params(p)) + Len(results(p))
      /\ c \in Seq(Perm)
      /\ \A i \in 1..Len(elems(p)) : c[0 + i] = elems(p)[i]
  <2> DEFINE g == elems(p) \o recvs(p) \o params(p) \o results(p)
  <2>1. c = g
    OBVIOUS
  <2> HIDE DEF c
  <2> QED
    BY <1>2, <2>1, ConcatAt
<1> HIDE DEF c
<1>4. CASE ToBase(k)
  <2>1. AllChildren(p) = c
    BY DEF AllChildren, c
  <2>2. Goals(k) = [i \in DOMAIN c |-> ChildToBase(k, c[i])]
    BY <1>1, <1>4, <2>1 DEF Goals
  <2>3. Len(Goals(k)) = Len(c)
    BY <1>3, <2>2
  <2>4. ASSUME NEW i \in DOMAIN elems(p)
        PROVE  Goals(k)[i] = ChildToBase(k, elems(p)[i])
    <3>1. i \in 1..Len(elems(p)) /\ i \in DOMAIN c /\ 0 + i = i
      BY <1>2, <1>3
    <3> QED
      BY <1>3, <2>2, <3>1
  <2> QED
    BY <1>1, <1>3, <1>4, <2>3, <2>4
<1>5. CASE ~ToBase(k)
  <2> DEFINE e == Pairwise(elems(p), elems(q), k.action)
             r == Pairwise(recvs(p), recvs(q), contravariant(k.action))
             a == Pairwise(params(p), params(q), contravariant(k.action))
             s == Pairwise(results(p), results(q), k.action)
             S == Key \cup FailureGoal
  <2>1. q \in Object
    BY <1>1, <1>5, PermKinds DEF Builds, Composite
  <2>2. /\ elems(q) \in Seq(Perm) /\ recvs(q) \in Seq(Perm)
        /\ params(q) \in Seq(Perm) /\ results(q) \in Seq(Perm)
        /\ contravariant(k.action) \in Action
    BY <1>1, <2>1, ShapeType DEF contravariant, Action
  <2>3. e \in Seq(S) /\ r \in Seq(S) /\ a \in Seq(S) /\ s \in Seq(S)
    BY <1>1, <1>2, <2>2, PairwiseType
  <2>4. Goals(k) = e \o r \o a \o s
    BY <1>1, <1>5 DEF Goals, MergedChildren
  <2>5. ASSUME NEW x \in Seq(Perm), NEW y \in Seq(Perm), NEW act,
               Members(Pairwise(x, y, act)) \subseteq Members(Goals(k))
        PROVE  /\ Len(x) = Len(y) /\ Len(Pairwise(x, y, act)) = Len(x)
               /\ \A i \in 1..Len(x) : Pairwise(x, y, act)[i] = Goal(x[i], y[i], act)
    <3>1. Members(Goals(k)) \subseteq Key
      BY <1>1 DEF Members
    <3>2. ASSUME Len(x) # Len(y)
          PROVE  FALSE
      <4> DEFINE f == Failure(Base(None), "error")
      <4>1. f \in FailureGoal
        BY DEF FailureGoal, Perm, None, BasePermission
      <4>2. Pairwise(x, y, act) = <<f>>
        BY <3>2 DEF Pairwise
      <4>3. f \in Members(Pairwise(x, y, act))
        BY <4>2 DEF Members
      <4> HIDE DEF f
      <4> QED
        BY <2>5, <3>1, <4>1, <4>3, FailureIsNoKey
    <3>3. Pairwise(x, y, act) = [i \in 1..Len(x) |-> Goal(x[i], y[i], act)]
      BY <3>2 DEF Pairwise
    <3> QED
      BY <3>2, <3>3
  <2> HIDE DEF e, r, a, s, S
  <2>6. /\ Members(e) \subseteq Members(Goals(k)) /\ Members(r) \subseteq Members(Goals(k))
        /\ Members(a) \subseteq Members(Goals(k)) /\ Members(s) \subseteq Members(Goals(k))
    <3>1. e \o r \in Seq(S) /\ (e \o r) \o a \in Seq(S)
      BY <2>3
    <3>2. /\ Members(e \o r) = Members(e) \cup Members(r)
          /\ Members((e \o r) \o a) = Members(e \o r) \cup Members(a)
          /\ Members(((e \o r) \o a) \o s) = Members((e \o r) \o a) \cup Members(s)
      <4>1. \A x, y \in Seq(S) : Members(x \o y) = Members(x) \cup Members(y)
        BY MembersConcat
      <4>2. Members(e \o r) = Members(e) \cup Members(r)
        BY <2>3, <4>1
      <4>3. Members((e \o r) \o a) = Members(e \o r) \cup Members(a)
        BY <2>3, <3>1, <4>1
      <4>4. Members(((e \o r) \o a) \o s) = Members((e \o r) \o a) \cup Members(s)
        BY <2>3, <3>1, <4>1
      <4> QED
        BY <4>2, <4>3, <4>4
    <3> QED
      BY <2>4, <3>2
  <2>7. /\ Len(elems(p)) = Len(elems(q)) /\ Len(e) = Len(elems(p))
        /\ \A i \in 1..Len(elems(p)) : e[i] = Goal(elems(p)[i], elems(q)[i], k.action)
    <3>1. Members(Pairwise(elems(p), elems(q), k.action)) \subseteq Members(Goals(k))
      BY <2>6 DEF e
    <3>2. /\ Len(elems(p)) = Len(elems(q)) /\ Len(Pairwise(elems(p), elems(q), k.action)) = Len(elems(p))
          /\ \A i \in 1..Len(elems(p)) :
               Pairwise(elems(p), elems(q), k.action)[i] = Goal(elems(p)[i], elems(q)[i], k.action)
      BY <1>2, <2>2, <2>5, <3>1
    <3> QED
      BY <3>2 DEF e
  <2>8. /\ Len(recvs(p)) = Len(recvs(q)) /\ Len(r) = Len(recvs(p))
        /\ \A i \in 1..Len(recvs(p)) : r[i] = Goal(recvs(p)[i], recvs(q)[i], contravariant(k.action))
    <3>1. Members(Pairwise(recvs(p), recvs(q), contravariant(k.action))) \subseteq Members(Goals(k))
      BY <2>6 DEF r
    <3>2. /\ Len(recvs(p)) = Len(recvs(q)) /\ Len(Pairwise(recvs(p), recvs(q), contravariant(k.action))) = Len(recvs(p))
          /\ \A i \in 1..Len(recvs(p)) :
               Pairwise(recvs(p), recvs(q), contravariant(k.action))[i] = Goal(recvs(p)[i], recvs(q)[i], contravariant(k.action))
      BY <1>2, <2>2, <2>5, <3>1
    <3> QED
      BY <3>2 DEF r
  <2>9. /\ Len(params(p)) = Len(params(q)) /\ Len(a) = Len(params(p))
        /\ \A i \in 1..Len(params(p)) : a[i] = Goal(params(p)[i], params(q)[i], contravariant(k.action))
    <3>1. Members(Pairwise(params(p), params(q), contravariant(k.action))) \subseteq Members(Goals(k))
      BY <2>6 DEF a
    <3>2. /\ Len(params(p)) = Len(params(q)) /\ Len(Pairwise(params(p), params(q), contravariant(k.action))) = Len(params(p))
          /\ \A i \in 1..Len(params(p)) :
               Pairwise(params(p), params(q), contravariant(k.action))[i] = Goal(params(p)[i], params(q)[i], contravariant(k.action))
      BY <1>2, <2>2, <2>5, <3>1
    <3> QED
      BY <3>2 DEF a
  <2>10. /\ Len(results(p)) = Len(results(q)) /\ Len(s) = Len(results(p))
         /\ \A i \in 1..Len(results(p)) : s[i] = Goal(results(p)[i], results(q)[i], k.action)
    <3>1. Members(Pairwise(results(p), results(q), k.action)) \subseteq Members(Goals(k))
      BY <2>6 DEF s
    <3>2. /\ Len(results(p)) = Len(results(q)) /\ Len(Pairwise(results(p), results(q), k.action)) = Len(results(p))
          /\ \A i \in 1..Len(results(p)) :
               Pairwise(results(p), results(q), k.action)[i] = Goal(results(p)[i], results(q)[i], k.action)
      BY <1>2, <2>2, <2>5, <3>1
    <3> QED
      BY <3>2 DEF s
  <2>11. /\ Len(Goals(k)) = Len(e) + Len(r) + Len(a) + Len(s)
         /\ \A i \in 1..Len(e) : Goals(k)[0 + i] = e[i]
         /\ \A i \in 1..Len(r) : Goals(k)[Len(e) + i] = r[i]
         /\ \A i \in 1..Len(a) : Goals(k)[Len(e) + Len(r) + i] = a[i]
         /\ \A i \in 1..Len(s) : Goals(k)[Len(e) + Len(r) + Len(a) + i] = s[i]
    BY <2>3, <2>4, ConcatAt
  <2> QED
    BY <1>1, <1>3, <1>5, <2>7, <2>8, <2>9, <2>10, <2>11
<1> QED
  BY <1>4, <1>5

(* u holds the answers to the pairs of s and t, all of them asked.         *)
Answers(u, s, t, action) ==
  /\ Len(s) = Len(t) /\ Len(u) = Len(s)
  /\ \A i \in DOMAIN s : /\ u[i] = AnswerTo(Goal(s[i], t[i], action))
                         /\ Goal(s[i], t[i], action) \in Reach(query)

(* A part of the children of a complete object holds answers.              *)
LEMMA AnswersPart ==
  ASSUME IInv, Working, result \in {"built", "done"}, NEW k \in DOMAIN kids,
         NEW s \in Seq(Perm), NEW t \in Seq(Perm), NEW action, NEW before \in Nat,
         Len(s) = Len(t), before + Len(s) <= Len(kids[k]),
         \A i \in 1..Len(s) : Goals(k)[before + i] = Goal(s[i], t[i], action)
  PROVE  Answers(Part(kids[k], before, Len(s)), s, t, action)
<1>1. /\ kids[k] \in Seq(Perm \cup Objects) /\ Len(s) \in Nat /\ DOMAIN s = 1..Len(s)
      /\ Goals(k) \in Seq(Key) /\ Len(kids[k]) = Len(Goals(k))
      /\ \A i \in DOMAIN Goals(k) : kids[k][i] = AnswerTo(Goals(k)[i])
  BY CompleteKids
<1>2. /\ Len(Part(kids[k], before, Len(s))) = Len(s)
      /\ \A i \in 1..Len(s) : Part(kids[k], before, Len(s))[i] = kids[k][before + i]
  <2> DEFINE T == Perm \cup Objects
             u == kids[k]
             m == Len(s)
  <2>1. u \in Seq(T) /\ m \in Nat /\ before + m <= Len(u)
    BY <1>1
  <2> HIDE DEF T, u, m
  <2>2. Len(Part(u, before, m)) = m /\ \A i \in 1..m : Part(u, before, m)[i] = u[before + i]
    BY <2>1, PartFacts
  <2> QED
    BY <2>2 DEF u, m
<1>3. GoalSet(k) \subseteq Reach(query)
  <2>1. query \in Key /\ k \in Reach(query)
    BY BuiltMeansNoFailure DEF Working
  <2> QED
    BY <2>1, ReachIsLeast DEF GoalsOf
<1>4. ASSUME NEW i \in 1..Len(s)
      PROVE  /\ Part(kids[k], before, Len(s))[i] = AnswerTo(Goal(s[i], t[i], action))
             /\ Goal(s[i], t[i], action) \in Reach(query)
  <2>1. before + i \in DOMAIN Goals(k)
    BY <1>1
  <2>2. Goals(k)[before + i] \in GoalSet(k)
    BY <2>1 DEF GoalSet
  <2> QED
    BY <1>1, <1>2, <1>3, <2>1, <2>2
<1> QED
  BY <1>1, <1>2, <1>4 DEF Answers

(* An object built by a merge is laid out like its arguments, and has the  *)
(* answers for children.                                                   *)
LEMMA MergedParts ==
  ASSUME IInv, Working, result \in {"built", "done"}, NEW k \in DOMAIN kids, ~ToBase(k),
         NEW p, p = k.perm, NEW q, q = k.goal, NEW n, n = New(k)
  PROVE  /\ p \in Object /\ q \in Object /\ p.kind = q.kind /\ n.kind = p.kind /\ n.base = NextBase(k)
         /\ n \in Objects
         /\ Shapes[n].name = name(p)
         /\ Answers(Shapes[n].elems, elems(p), elems(q), k.action)
         /\ Answers(Shapes[n].recvs, recvs(p), recvs(q), contravariant(k.action))
         /\ Answers(Shapes[n].params, params(p), params(q), contravariant(k.action))
         /\ Answers(Shapes[n].results, results(p), results(q), k.action)
<1>1. /\ k \in Key /\ Builds(k) /\ p \in Object /\ n \in Objects /\ q \in Perm
      /\ p.kind = q.kind /\ n.kind = p.kind /\ n.base = NextBase(k)
  BY CompleteKids DEF Builds, Key, New
<1>2. q \in Object
  BY <1>1, PermKinds DEF Builds, Composite
<1>3. /\ elems(p) \in Seq(Perm) /\ recvs(p) \in Seq(Perm)
      /\ params(p) \in Seq(Perm) /\ results(p) \in Seq(Perm)
      /\ elems(q) \in Seq(Perm) /\ recvs(q) \in Seq(Perm)
      /\ params(q) \in Seq(Perm) /\ results(q) \in Seq(Perm)
  BY <1>1, <1>2, ShapeType
<1> DEFINE ne == Len(elems(p))
           nr == Len(recvs(p))
           na == Len(params(p))
           ns == Len(results(p))
           act == k.action
           con == contravariant(k.action)
<1>4. /\ Len(kids[k]) = ne + nr + na + ns
      /\ Len(elems(p) \o recvs(p)) = ne + nr
      /\ Len(elems(p) \o recvs(p) \o params(p)) = ne + nr + na
  BY NewShapeType
<1>5. /\ ne = Len(elems(q)) /\ nr = Len(recvs(q))
      /\ na = Len(params(q)) /\ ns = Len(results(q))
      /\ \A i \in 1..ne : Goals(k)[0 + i] = Goal(elems(p)[i], elems(q)[i], act)
      /\ \A i \in 1..nr : Goals(k)[ne + i] = Goal(recvs(p)[i], recvs(q)[i], con)
      /\ \A i \in 1..na : Goals(k)[ne + nr + i] = Goal(params(p)[i], params(q)[i], con)
      /\ \A i \in 1..ns : Goals(k)[ne + nr + na + i] = Goal(results(p)[i], results(q)[i], act)
  BY NewShapeType
<1>6. ne \in Nat /\ nr \in Nat /\ na \in Nat /\ ns \in Nat
  BY <1>3
<1>7. Shapes[n] = NewShape(k, p)
  BY ShapesAre
<1>8. /\ Shapes[n].elems = Part(kids[k], 0, ne)
      /\ Shapes[n].recvs = Part(kids[k], ne, nr)
      /\ Shapes[n].params = Part(kids[k], ne + nr, na)
      /\ Shapes[n].results = Part(kids[k], ne + nr + na, ns)
      /\ Shapes[n].name = name(p)
  BY <1>4, <1>7 DEF NewShape
<1> HIDE DEF ne, nr, na, ns, act, con
<1>9. Answers(Part(kids[k], 0, ne), elems(p), elems(q), act)
  <2>1. 0 + ne <= Len(kids[k]) /\ 0 \in Nat
    BY <1>4, <1>6
  <2> QED
    BY <1>3, <1>5, <2>1, AnswersPart DEF ne
<1>10. Answers(Part(kids[k], ne, nr), recvs(p), recvs(q), con)
  <2>1. ne + nr <= Len(kids[k])
    BY <1>4, <1>6
  <2> QED
    BY <1>3, <1>5, <1>6, <2>1, AnswersPart DEF nr
<1>11. Answers(Part(kids[k], ne + nr, na), params(p), params(q), con)
  <2>1. ne + nr + na <= Len(kids[k]) /\ ne + nr \in Nat
    BY <1>4, <1>6
  <2> QED
    BY <1>3, <1>5, <1>6, <2>1, AnswersPart DEF na
<1>12. Answers(Part(kids[k], ne + nr + na, ns), results(p), results(q), act)
  <2>1. ne + nr + na + ns <= Len(kids[k]) /\ ne + nr + na \in Nat
    BY <1>4, <1>6
  <2> QED
    BY <1>3, <1>5, <1>6, <2>1, AnswersPart DEF ns
<1> QED
  BY <1>1, <1>2, <1>8, <1>9, <1>10, <1>11, <1>12 DEF act, con

(* Methods of interfaces are functions, so that merging or converting them *)
(* builds functions of the same names.                                     *)
LEMMA FunctionsAreBuilt ==
  ASSUME IInv, NEW q, q \in DOMAIN kids \/ Shares(q), q.perm.kind = "func",
         ToBase(q) \/ q.goal.kind = "func"
  PROVE  AnswerTo(q) = New(q) /\ Shapes[New(q)].name = name(q.perm)
<1>1. Builds(q) /\ ~Shares(q)
  BY DEF Builds, Composite, StructuredKind, Shares, SharesGoal, SharesPerm, MergesBases,
         ToBase, Nillable
<1>2. Shapes[New(q)] = NewShape(q, q.perm)
  BY <1>1, ShapesAre
<1> QED
  BY <1>1, <1>2 DEF AnswerTo, NewShape

(* The methods of an interface that was built have the names of the old    *)
(* ones.                                                                   *)
LEMMA MethodsOfNew ==
  ASSUME IInv, Working, result \in {"built", "done"}, NEW k \in DOMAIN kids,
         k.perm.kind = "interface", NEW i \in DOMAIN Shapes[New(k)].elems
  PROVE  /\ i \in DOMAIN elems(k.perm)
         /\ Shapes[Shapes[New(k)].elems[i]].name = name(elems(k.perm)[i])
<1> DEFINE p == k.perm
           c == elems(p)[i]
           g == Goals(k)[i]
<1>1. /\ k \in Key /\ Builds(k) /\ p \in Object /\ kids[k] \in Seq(Perm \cup Objects)
      /\ Goals(k) \in Seq(Key) /\ Len(kids[k]) = Len(Goals(k))
      /\ \A j \in DOMAIN Goals(k) : /\ kids[k][j] = AnswerTo(Goals(k)[j])
                                    /\ Goals(k)[j] \in DOMAIN kids \/ Shares(Goals(k)[j])
  BY CompleteKids
<1>2. elems(p) \in Seq(Perm) /\ recvs(p) \in Seq(Perm) /\ params(p) \in Seq(Perm) /\ results(p) \in Seq(Perm)
  BY <1>1, ShapeType
<1>3. Len(elems(p)) \in Nat /\ 0 + Len(elems(p)) <= Len(kids[k])
  BY <1>2, NewShapeType
<1>4. Shapes[New(k)].elems = Part(kids[k], 0, Len(elems(p)))
  <2>1. Shapes[New(k)] = NewShape(k, p)
    BY ShapesAre
  <2> QED
    BY <2>1 DEF NewShape
<1>5. /\ Len(Shapes[New(k)].elems) = Len(elems(p)) /\ Shapes[New(k)].elems \in Seq(Perm \cup Objects)
      /\ \A j \in 1..Len(elems(p)) : Shapes[New(k)].elems[j] = kids[k][0 + j]
  <2> DEFINE T == Perm \cup Objects
             u == kids[k]
             m == Len(elems(p))
  <2>1. u \in Seq(T) /\ m \in Nat /\ 0 + m <= Len(u) /\ 0 \in Nat
    BY <1>1, <1>3
  <2> HIDE DEF T, u, m
  <2>2. /\ Part(u, 0, m) \in Seq(T) /\ Len(Part(u, 0, m)) = m
        /\ \A j \in 1..m : Part(u, 0, m)[j] = u[0 + j]
    BY <2>1, PartFacts
  <2> QED
    BY <1>4, <2>2 DEF T, u, m
<1>6. i \in 1..Len(elems(p)) /\ i \in DOMAIN elems(p) /\ 0 + i = i /\ i \in DOMAIN Goals(k)
  BY <1>1, <1>2, <1>3, <1>5
<1>7. Shapes[New(k)].elems[i] = AnswerTo(g) /\ (g \in DOMAIN kids \/ Shares(g))
  BY <1>1, <1>5, <1>6
<1>8. c.kind = "func"
  BY <1>1, <1>6, MethodKindAssumption DEF MethodKindAssumption
<1>9. g.perm = c /\ (ToBase(g) \/ g.goal.kind = "func")
  <2>1. CASE ToBase(k)
    <3>1. g = ChildToBase(k, c)
      BY <1>6, <2>1, NewShapeType
    <3>2. g = Goal(c, Base(c.base), k.action)
      BY <1>8, <3>1 DEF ChildToBase, ChildBase
    <3> QED
      BY <2>1, <3>2 DEF Goal, ToBase, Base
  <2>2. CASE ~ToBase(k)
    <3>1. k.goal.kind = "interface" /\ k.goal \in Perm
      BY <1>1, <2>2 DEF Builds, Key
    <3>2. k.goal \in Object
      BY <3>1, PermKinds DEF StructuredKind
    <3>3. /\ Len(elems(p)) = Len(elems(k.goal))
          /\ \A j \in 1..Len(elems(p)) :
               Goals(k)[0 + j] = Goal(elems(p)[j], elems(k.goal)[j], k.action)
      BY <2>2, NewShapeType
    <3>4. g = Goal(c, elems(k.goal)[i], k.action)
      BY <1>6, <3>3
    <3>5. i \in DOMAIN elems(k.goal)
      BY <1>6, <3>2, <3>3, ShapeType
    <3>6. elems(k.goal)[i].kind = "func"
      BY <3>1, <3>2, <3>5, MethodKindAssumption DEF MethodKindAssumption
    <3> QED
      BY <3>4, <3>6 DEF Goal
  <2> QED
    BY <2>1, <2>2
<1> HIDE DEF g, c
<1>10. AnswerTo(g) = New(g) /\ Shapes[New(g)].name = name(g.perm)
  BY <1>7, <1>8, <1>9, FunctionsAreBuilt
<1> QED
  BY <1>6, <1>7, <1>9, <1>10 DEF c

(* Old and new permissions together are a graph of permissions.            *)
LEMMA DoneGraph ==
  ASSUME IInv, Working, result \in {"built", "done"}
  PROVE  GraphOver(Shapes, Perm \cup Objects)
<1> DEFINE W == Perm \cup Objects
<1>1. DOMAIN Shapes = Objects /\ W = {Base(b) : b \in BasePermission} \cup DOMAIN Shapes
  BY ShapesAre DEF Perm, Objects
<1>2. IsFiniteSet(W)
  <2>1. IsFiniteSet(DOMAIN kids)
    <3>1. DOMAIN kids \subseteq Key \cup FailureGoal
      BY DEF IInv, TypeOK
    <3> QED
      BY <3>1, GoalsWithin, FS_Subset
  <2> DEFINE f == [k \in DOMAIN kids |-> New(k)]
             I == {f[k] : k \in DOMAIN kids}
  <2>2. IsFiniteSet(I)
    <3> HIDE DEF f
    <3> QED
      BY <2>1, FiniteImage
  <2>3. Perm \cup I = W
    BY DEF Perm, Objects
  <2> HIDE DEF I, W
  <2> QED
    BY <2>2, <2>3, PermFinite, FS_Union
<1>3. ASSUME NEW p \in Object
      PROVE  /\ p.kind \in StructuredKind /\ p.base \in BasePermission
             /\ Shapes[p].elems \in Seq(W)  /\ Shapes[p].recvs \in Seq(W)
             /\ Shapes[p].params \in Seq(W) /\ Shapes[p].results \in Seq(W)
             /\ p.kind = "interface" =>
                  \A i, j \in DOMAIN Shapes[p].elems :
                    Shapes[Shapes[p].elems[i]].name = Shapes[Shapes[p].elems[j]].name => i = j
  <2>1. p.kind \in StructuredKind /\ p.base \in BasePermission /\ Shapes[p] = shape[p]
    BY ObjectAssumption, ShapesAre DEF ObjectAssumption
  <2>2. elems(p) \in Seq(Perm) /\ recvs(p) \in Seq(Perm) /\ params(p) \in Seq(Perm) /\ results(p) \in Seq(Perm)
    BY ShapeType
  <2>3. \A s \in Seq(Perm) : s \in Seq(W)
    OBVIOUS
  <2>4. ASSUME p.kind = "interface", NEW i \in DOMAIN elems(p)
        PROVE  Shapes[elems(p)[i]].name = name(elems(p)[i])
    <3>1. elems(p)[i] \in Perm /\ elems(p)[i].kind = "func"
      BY <2>2, <2>4, MethodKindAssumption DEF MethodKindAssumption
    <3>2. elems(p)[i] \in Object
      BY <3>1, PermKinds DEF StructuredKind
    <3> QED
      BY <3>2, ShapesAre DEF name
  <2>5. ASSUME p.kind = "interface", NEW i \in DOMAIN elems(p), NEW j \in DOMAIN elems(p),
               Shapes[elems(p)[i]].name = Shapes[elems(p)[j]].name
        PROVE  i = j
    <3>1. name(elems(p)[i]) = name(elems(p)[j])
      BY <2>4, <2>5
    <3> QED
      BY <2>5, <3>1, MethodNameAssumption DEF MethodNameAssumption
  <2>6. Shapes[p].elems = elems(p)
    BY <2>1 DEF elems
  <2>7. /\ Shapes[p].elems \in Seq(W)  /\ Shapes[p].recvs \in Seq(W)
        /\ Shapes[p].params \in Seq(W) /\ Shapes[p].results \in Seq(W)
    BY <2>1, <2>2, <2>3 DEF elems, recvs, params, results
  <2> QED
    BY <2>1, <2>5, <2>6, <2>7
<1>4. ASSUME NEW k \in DOMAIN kids, NEW n, n = New(k)
      PROVE  /\ n.kind \in StructuredKind /\ n.base \in BasePermission
             /\ Shapes[n].elems \in Seq(W)  /\ Shapes[n].recvs \in Seq(W)
             /\ Shapes[n].params \in Seq(W) /\ Shapes[n].results \in Seq(W)
             /\ n.kind = "interface" =>
                  \A i, j \in DOMAIN Shapes[n].elems :
                    Shapes[Shapes[n].elems[i]].name = Shapes[Shapes[n].elems[j]].name => i = j
  <2> DEFINE p == k.perm
  <2>1. k \in Key /\ Builds(k) /\ p \in Object /\ kids[k] \in Seq(W)
    BY CompleteKids
  <2>2. elems(p) \in Seq(Perm) /\ recvs(p) \in Seq(Perm) /\ params(p) \in Seq(Perm) /\ results(p) \in Seq(Perm)
    BY <2>1, ShapeType
  <2>3. n.kind \in StructuredKind /\ n.base \in BasePermission /\ n.kind = p.kind
    <3>1. p.base \in BasePermission /\ k.goal.base \in BasePermission /\ k.action \in Action
      BY <2>1, PermKinds DEF Key
    <3>2. NextBase(k) \in BasePermission
      BY <3>1, MergeBaseType DEF NextBase
    <3> QED
      BY <1>4, <2>1, <3>2 DEF New, Builds, Composite
  <2> DEFINE ne == Len(elems(p))
             nr == Len(recvs(p))
             na == Len(params(p))
             ns == Len(results(p))
  <2>4. /\ Shapes[n].elems = Part(kids[k], 0, ne)
        /\ Shapes[n].recvs = Part(kids[k], ne, nr)
        /\ Shapes[n].params = Part(kids[k], ne + nr, na)
        /\ Shapes[n].results = Part(kids[k], ne + nr + na, ns)
        /\ Len(kids[k]) = ne + nr + na + ns
    <3>1. Shapes[n] = NewShape(k, p)
      BY <1>4, ShapesAre
    <3> QED
      BY <3>1, NewShapeType DEF NewShape
  <2>5. ne \in Nat /\ nr \in Nat /\ na \in Nat /\ ns \in Nat
    BY <2>2
  <2>6. \A before, m \in Nat : before + m <= Len(kids[k]) => Part(kids[k], before, m) \in Seq(W)
    BY <2>1, PartFacts
  <2> HIDE DEF ne, nr, na, ns
  <2>7. /\ Shapes[n].elems \in Seq(W)  /\ Shapes[n].recvs \in Seq(W)
        /\ Shapes[n].params \in Seq(W) /\ Shapes[n].results \in Seq(W)
    <3>1. /\ 0 + ne <= Len(kids[k]) /\ ne + nr <= Len(kids[k])
          /\ ne + nr + na <= Len(kids[k]) /\ ne + nr + na + ns <= Len(kids[k])
          /\ 0 \in Nat /\ ne + nr \in Nat /\ ne + nr + na \in Nat
      BY <2>4, <2>5
    <3> HIDE DEF W
    <3> QED
      BY <2>4, <2>5, <2>6, <3>1
  <2>8. ASSUME n.kind = "interface", NEW i \in DOMAIN Shapes[n].elems, NEW j \in DOMAIN Shapes[n].elems,
               Shapes[Shapes[n].elems[i]].name = Shapes[Shapes[n].elems[j]].name
        PROVE  i = j
    <3>1. /\ i \in DOMAIN elems(p) /\ j \in DOMAIN elems(p)
          /\ name(elems(p)[i]) = name(elems(p)[j])
      BY <1>4, <2>3, <2>8, MethodsOfNew
    <3> QED
      BY <2>1, <2>3, <2>8, <3>1, MethodNameAssumption DEF MethodNameAssumption
  <2> QED
    BY <2>3, <2>7, <2>8
<1>5. \A p \in DOMAIN Shapes : p \in Object \/ \E k \in DOMAIN kids : p = New(k)
  BY <1>1 DEF Objects
<1> HIDE DEF W
<1>6. ASSUME NEW p \in DOMAIN Shapes
      PROVE  /\ p.kind \in StructuredKind /\ p.base \in BasePermission
             /\ Shapes[p].elems \in Seq(W)  /\ Shapes[p].recvs \in Seq(W)
             /\ Shapes[p].params \in Seq(W) /\ Shapes[p].results \in Seq(W)
             /\ p.kind = "interface" =>
                  \A i, j \in DOMAIN Shapes[p].elems :
                    Shapes[Shapes[p].elems[i]].name = Shapes[Shapes[p].elems[j]].name => i = j
  BY <1>3, <1>4, <1>5
<1> QED
  BY <1>1, <1>2, <1>6 DEF GraphOver, W

(* Merging asks for merges, and converting to a shape for conversions.     *)
LEMMA ActionsOfGoals ==
  ASSUME NEW S, S \in {{"intersect", "union"}, {"convert"}}, NEW k \in Key, k.action \in S
  PROVE  \A g \in GoalSet(k) : g \in FailureGoal \/ (g \in Key /\ g.action \in S)
<1> DEFINE T == FailureGoal \cup {g \in Key : g.action \in S}
           p == k.perm
           q == k.goal
<1>1. p \in Perm /\ q \in Perm /\ contravariant(k.action) \in S
  BY DEF Key, contravariant
<1>2. Goals(k) \in Seq(T)
  <2>1. CASE Builds(k) /\ ToBase(k)
    <3>1. Goals(k) \in Seq(Key \cup FailureGoal)
      BY GoalsType
    <3>2. ASSUME NEW i \in DOMAIN Goals(k)
          PROVE  Goals(k)[i] \in T
      <4>1. Goals(k)[i] \in Key \cup FailureGoal
        BY <3>1
      <4>2. i \in DOMAIN AllChildren(p) /\ Goals(k)[i] = ChildToBase(k, AllChildren(p)[i])
        BY <2>1 DEF Goals
      <4>3. Goals(k)[i].action = k.action \/ Goals(k)[i].action = "panic"
        BY <4>2 DEF ChildToBase, Failure, Goal
      <4>4. Goals(k)[i] \in Key => Goals(k)[i].action # "panic"
        BY DEF Key, Action
      <4> QED
        BY <4>1, <4>3, <4>4
    <3>3. Goals(k) = [i \in 1..Len(Goals(k)) |-> Goals(k)[i]] /\ Len(Goals(k)) \in Nat
          /\ DOMAIN Goals(k) = 1..Len(Goals(k))
      BY <3>1
    <3> HIDE DEF T
    <3> QED
      BY <3>2, <3>3
  <2>2. CASE Builds(k) /\ ~ToBase(k)
    <3>1. p \in Object /\ q \in Object
      BY <1>1, <2>2, PermKinds DEF Builds, Composite
    <3>2. ASSUME NEW s \in Seq(Perm), NEW t \in Seq(Perm), NEW act \in S
          PROVE  Pairwise(s, t, act) \in Seq(T)
      <4>1. act \in Action
        BY DEF Action
      <4>2. CASE Len(s) = Len(t)
        <5>1. \A i \in DOMAIN s : Goal(s[i], t[i], act) \in T
          BY <4>1, <4>2 DEF Key, Goal
        <5>2. DOMAIN s = 1..Len(s) /\ Len(s) \in Nat
          OBVIOUS
        <5> HIDE DEF T
        <5> QED
          BY <4>2, <5>1, <5>2 DEF Pairwise
      <4>3. CASE Len(s) # Len(t)
        <5>1. Failure(Base(None), "error") \in T
          BY DEF FailureGoal, Perm, None, BasePermission
        <5>2. Pairwise(s, t, act) = <<Failure(Base(None), "error")>>
          BY <4>3 DEF Pairwise
        <5> HIDE DEF T
        <5> QED
          BY <5>1, <5>2
      <4> QED
        BY <4>2, <4>3
    <3> DEFINE e == Pairwise(elems(p), elems(q), k.action)
               r == Pairwise(recvs(p), recvs(q), contravariant(k.action))
               a == Pairwise(params(p), params(q), contravariant(k.action))
               s == Pairwise(results(p), results(q), k.action)
    <3>3. e \in Seq(T) /\ r \in Seq(T) /\ a \in Seq(T) /\ s \in Seq(T)
      <4>1. /\ elems(p) \in Seq(Perm) /\ recvs(p) \in Seq(Perm)
            /\ params(p) \in Seq(Perm) /\ results(p) \in Seq(Perm)
            /\ elems(q) \in Seq(Perm) /\ recvs(q) \in Seq(Perm)
            /\ params(q) \in Seq(Perm) /\ results(q) \in Seq(Perm)
        BY <3>1, ShapeType
      <4> HIDE DEF T
      <4> QED
        BY <1>1, <3>2, <4>1
    <3>4. Goals(k) = e \o r \o a \o s
      BY <2>2 DEF Goals, MergedChildren
    <3> HIDE DEF e, r, a, s, T
    <3> QED
      BY <3>3, <3>4
  <2>3. CASE ~Builds(k)
    BY <2>3 DEF Goals
  <2> QED
    BY <2>1, <2>2, <2>3
<1>3. \A i \in DOMAIN Goals(k) : Goals(k)[i] \in T
  <2> HIDE DEF T
  <2> QED
    BY <1>2
<1> QED
  BY <1>3 DEF GoalSet

(* What was asked in a successful call.                                    *)
LEMMA Asked ==
  ASSUME IInv, Working, result \in {"built", "done"}, NEW q \in Reach(query)
  PROVE  /\ query \in Key /\ query \in Reach(query)
         /\ q \in Key /\ q.perm \in Perm /\ q.goal \in Perm
         /\ q \in DOMAIN kids \/ Shares(q)
         /\ q \in DOMAIN kids <=> Builds(q)
         /\ AnswerTo(q) \in Perm \cup Objects
         /\ query.action \in {"intersect", "union"} => q.action \in {"intersect", "union"}
         /\ query.action = "convert" => q.action = "convert"
<1>1. query \in Key /\ q \in Key /\ (q \in DOMAIN kids \/ Shares(q))
      /\ Reach(query) \subseteq Key
  BY BuiltMeansNoFailure DEF IInv, TypeOK
<1>2. query \in Reach(query) /\ q.perm \in Perm /\ q.goal \in Perm
  BY <1>1, ReachIsLeast DEF Key
<1>3. q \in DOMAIN kids <=> Builds(q)
  BY <1>1, AnswerType DEF IInv, TypeOK
<1>4. AnswerTo(q) \in Perm \cup Objects
  BY <1>1, <1>3, AnswerType DEF AnswerTo, Objects
<1>5. ASSUME NEW S, S \in {{"intersect", "union"}, {"convert"}}, query.action \in S
      PROVE  q.action \in S
  <2> DEFINE T == {g \in Reach(query) : g.action \in S}
  <2>1. query \in T /\ T \in SUBSET (Key \cup FailureGoal)
    BY <1>1, <1>2, <1>5
  <2>2. GoalsOf(T) \subseteq T
    <3> SUFFICES ASSUME NEW k \in T, NEW g \in GoalSet(k)
                 PROVE  g \in T
      BY DEF GoalsOf
    <3>1. g \in Reach(query)
      BY <1>1, ReachIsLeast DEF GoalsOf
    <3>2. g \in FailureGoal \/ (g \in Key /\ g.action \in S)
      BY <1>1, <1>5, ActionsOfGoals
    <3> QED
      BY <1>1, <3>1, <3>2, FailureIsNoKey
  <2>3. Reach(query) \subseteq T
    <3> HIDE DEF T
    <3> QED
      BY <1>1, <2>1, <2>2, ReachIsLeast
  <2> QED
    BY <2>3
<1> QED
  BY <1>1, <1>2, <1>3, <1>4, <1>5

(* The shape of an object that is not new, in the graph of all.            *)
LEMMA OldShape ==
  ASSUME IInv, NEW p \in Object
  PROVE  /\ p \in Perm \cup Objects
         /\ Shapes[p].elems = elems(p) /\ Shapes[p].recvs = recvs(p)
         /\ Shapes[p].params = params(p) /\ Shapes[p].results = results(p)
         /\ Shapes[p].name = name(p)
         /\ elems(p) \in Seq(Perm) /\ recvs(p) \in Seq(Perm)
         /\ params(p) \in Seq(Perm) /\ results(p) \in Seq(Perm)
BY ShapesAre, ShapeType DEF elems, recvs, params, results, name

--------------------------------------------------------------------------------
(* Conversion to a permission of the same shape takes its place.           *)
LEMMA ConvertedIsGoal ==
  ASSUME IInv, Working, result \in {"built", "done"}, query.action = "convert", SameNames,
         \A q \in Involved : q.perm.kind = q.goal.kind /\ q.perm.kind # "wildcard"
  PROVE  <<AnswerTo(query), query.goal>> \in Alike(Shapes, Perm \cup Objects)
<1> DEFINE W == Perm \cup Objects
           E == Alike(Shapes, W)
           R == {<<AnswerTo(q), q.goal>> : q \in Reach(query)}
           S == R \cup E
<1>1. GraphOver(Shapes, W)
  BY DoneGraph
<1>2. E \subseteq W \X W /\ (\A r \in E : NodeAlike(Shapes, r[1], r[2], E))
      /\ \A w \in W : <<w, w>> \in E
  BY <1>1, AlikeIsLargest, AlikeIsEquivalence
<1>3. \A u, s, t, act : Answers(u, s, t, act) /\ s \in Seq(Perm) /\ u \in Seq(W) => Beside(u, t, S)
  <2> SUFFICES ASSUME NEW u, NEW s \in Seq(Perm), NEW t, NEW act, Answers(u, s, t, act), u \in Seq(W)
               PROVE  Beside(u, t, R)
    BY DEF Beside
  <2>1. \A i \in DOMAIN u : <<u[i], t[i]>> \in R
    <3> SUFFICES ASSUME NEW i \in DOMAIN u
                 PROVE  <<u[i], t[i]>> \in R
      OBVIOUS
    <3>1. i \in DOMAIN s
      BY DEF Answers
    <3>2. /\ Goal(s[i], t[i], act) \in Reach(query)
          /\ u[i] = AnswerTo(Goal(s[i], t[i], act))
      BY <3>1 DEF Answers
    <3>3. Goal(s[i], t[i], act).goal = t[i]
      BY DEF Goal
    <3> QED
      BY <3>2, <3>3
  <2> QED
    BY <2>1 DEF Answers, Beside
<1>4. ASSUME NEW q \in Reach(query)
      PROVE  NodeAlike(Shapes, AnswerTo(q), q.goal, S)
  <2>1. /\ q \in Key /\ q.perm \in Perm /\ q.goal \in Perm /\ q.action = "convert"
        /\ q \in DOMAIN kids \/ Shares(q)
        /\ q \in DOMAIN kids <=> Builds(q)
    BY Asked
  <2>2. q.perm.kind = q.goal.kind /\ q.perm.kind # "wildcard"
    BY DEF Involved
  <2>3. CASE Shares(q)
    <3>1. ~Builds(q)
      BY <2>1, <2>3, AnswerType
    <3>2. AnswerTo(q) = q.goal
      BY <2>1, <2>2, <2>3, <3>1
         DEF AnswerTo, Shared, Shares, SharesGoal, SharesPerm, MergesBases, ToBase, Nillable
    <3>3. <<q.goal, q.goal>> \in E
      BY <1>2, <2>1
    <3>4. NodeAlike(Shapes, q.goal, q.goal, E)
      BY <1>1, <3>3, AlikeNodes
    <3> HIDE DEF R, E
    <3> QED
      BY <3>2, <3>4, AlikeMonotone
  <2>4. CASE q \in DOMAIN kids
    <3> DEFINE p == q.perm
               g == q.goal
               n == New(q)
    <3>1. Builds(q) /\ ~ToBase(q) /\ p.kind # "base"
      BY <2>1, <2>2, <2>4 DEF Builds, ToBase, Composite, StructuredKind
    <3>2. /\ p \in Object /\ g \in Object /\ p.kind = g.kind /\ n.kind = p.kind
          /\ n.base = NextBase(q) /\ n \in Objects /\ Shapes[n].name = name(p)
          /\ Answers(Shapes[n].elems, elems(p), elems(g), q.action)
          /\ Answers(Shapes[n].recvs, recvs(p), recvs(g), contravariant(q.action))
          /\ Answers(Shapes[n].params, params(p), params(g), contravariant(q.action))
          /\ Answers(Shapes[n].results, results(p), results(g), q.action)
      BY <2>4, <3>1, MergedParts
    <3>3. n.base = g.base
      BY <2>1, <3>2 DEF NextBase, mergeBase, contravariant
    <3>4. name(p) = name(g)
      BY <2>2, <3>1 DEF SameNames, Involved
    <3>5. n \in W /\ n.kind # "base"
      BY <3>1, <3>2
    <3>6. /\ Shapes[n].elems \in Seq(W) /\ Shapes[n].recvs \in Seq(W)
          /\ Shapes[n].params \in Seq(W) /\ Shapes[n].results \in Seq(W)
      <4> HIDE DEF n
      <4> QED
        BY <1>1, <3>5, NodeChildren
    <3> HIDE DEF n, S, W
    <3>7. /\ Beside(Shapes[n].elems, Shapes[g].elems, S) /\ Beside(Shapes[n].recvs, Shapes[g].recvs, S)
          /\ Beside(Shapes[n].params, Shapes[g].params, S) /\ Beside(Shapes[n].results, Shapes[g].results, S)
      BY <1>3, <3>2, <3>6, OldShape
    <3>8. Shapes[n].name = Shapes[g].name
      BY <3>2, <3>4, OldShape
    <3>9. AnswerTo(q) = n
      BY <3>1 DEF AnswerTo, n
    <3> QED
      BY <3>2, <3>3, <3>7, <3>8, <3>9 DEF NodeAlike
  <2> QED
    BY <2>1, <2>3, <2>4
<1>5. \A r \in S : NodeAlike(Shapes, r[1], r[2], S)
  <2>1. ASSUME NEW r \in R
        PROVE  NodeAlike(Shapes, r[1], r[2], S)
    <3>1. PICK q \in Reach(query) : r = <<AnswerTo(q), q.goal>>
      OBVIOUS
    <3>2. r[1] = AnswerTo(q) /\ r[2] = q.goal
      BY <3>1
    <3> HIDE DEF S, R
    <3> QED
      BY <1>4, <3>2
  <2>2. ASSUME NEW r \in E
        PROVE  NodeAlike(Shapes, r[1], r[2], S)
    <3>1. NodeAlike(Shapes, r[1], r[2], E)
      BY <1>2
    <3> HIDE DEF E, R
    <3> QED
      BY <3>1, AlikeMonotone
  <2> QED
    BY <2>1, <2>2
<1>6. R \subseteq W \X W
  BY Asked
<1>7. S \subseteq E
  <2>1. S \in SUBSET (W \X W)
    BY <1>2, <1>6
  <2> HIDE DEF S
  <2> QED
    BY <1>5, <2>1, AlikeIsLargest
<1>8. query \in Reach(query)
  BY BuiltMeansNoFailure, ReachIsLeast
<1> QED
  BY <1>7, <1>8

--------------------------------------------------------------------------------
(* Moving base permissions to what they share, and from what they have     *)
(* together.                                                               *)
LEMMA MoveBases ==
  ASSUME NEW a, NEW b, NEW c
  PROVE  /\ MoveBase(a, a) => MoveBase(a, a \cap b) /\ MoveBase(a, b \cap a)
         /\ MoveBase(a, a) /\ MoveBase(b, b) => MoveBase(a \cup b, a) /\ MoveBase(b \cup a, a)
         /\ MoveBase(a, c) /\ MoveBase(b, c) => MoveBase(a \cap b, c)
         /\ MoveBase(c, a) /\ MoveBase(c, b) => MoveBase(c, a \cup b)
BY DEF MoveBase

(* The methods of a merged interface have the names of both.               *)
LEMMA MergedNames ==
  ASSUME IInv, Working, result \in {"built", "done"}, SameNames,
         NEW k \in DOMAIN kids, ~ToBase(k), k.perm.kind = "interface",
         NEW i \in DOMAIN Shapes[New(k)].elems
  PROVE  /\ i \in DOMAIN elems(k.perm) /\ i \in DOMAIN elems(k.goal)
         /\ Shapes[elems(k.perm)[i]].name = Shapes[Shapes[New(k)].elems[i]].name
         /\ Shapes[elems(k.goal)[i]].name = Shapes[Shapes[New(k)].elems[i]].name
<1> DEFINE p == k.perm
           g == k.goal
<1>1. /\ p \in Object /\ g \in Object /\ g.kind = "interface"
      /\ Answers(Shapes[New(k)].elems, elems(p), elems(g), k.action)
  BY MergedParts
<1>2. i \in DOMAIN elems(p) /\ Shapes[Shapes[New(k)].elems[i]].name = name(elems(p)[i])
  BY MethodsOfNew
<1>3. elems(p) \in Seq(Perm) /\ elems(g) \in Seq(Perm)
  BY <1>1, OldShape
<1>4. i \in DOMAIN elems(g)
  BY <1>1, <1>2, <1>3 DEF Answers
<1>5. elems(p)[i].kind = "func" /\ elems(g)[i].kind = "func"
  BY <1>1, <1>2, <1>4, MethodKindAssumption DEF MethodKindAssumption
<1>6. elems(p)[i] \in Object /\ elems(g)[i] \in Object
  <2>1. elems(p)[i] \in Perm /\ elems(g)[i] \in Perm
    BY <1>2, <1>3, <1>4
  <2> QED
    BY <1>5, <2>1, PermKinds DEF StructuredKind
<1>7. name(elems(p)[i]) = name(elems(g)[i])
  <2> DEFINE q == Goal(elems(p)[i], elems(g)[i], k.action)
  <2>1. q \in Reach(query) /\ q.perm = elems(p)[i] /\ q.goal = elems(g)[i]
    BY <1>1, <1>2 DEF Answers, Goal
  <2> HIDE DEF q
  <2> QED
    BY <1>5, <2>1 DEF SameNames, Involved
<1> QED
  BY <1>2, <1>4, <1>6, <1>7, OldShape

(* What can be moved to itself has children that can.                      *)
Selfs(s, M) == \A i \in DOMAIN s : <<s[i], s[i]>> \in M

(* The children of what can be moved to itself can, and so can its base.   *)
LEMMA SelfChildren ==
  ASSUME NEW sh, NEW W, GraphOver(sh, W), NEW p \in W, <<p, p>> \in Movable(sh, W)
  PROVE  /\ p.kind \in Plain => Selfs(sh[p].elems, Movable(sh, W)) /\ MoveBase(p.base, p.base)
         /\ p.kind = "func" =>
              /\ Selfs(sh[p].recvs, Movable(sh, W)) /\ Selfs(sh[p].params, Movable(sh, W))
              /\ Selfs(sh[p].results, Movable(sh, W))
              /\ MoveBase(p.base \ {"o"}, p.base \ {"o"})
         /\ p.kind = "interface" => Selfs(sh[p].elems, Movable(sh, W)) /\ MoveBase(p.base, p.base)
         /\ p.kind = "base" => MoveBase(p.base, p.base)
         /\ p.kind # "wildcard"
<1> DEFINE M == Movable(sh, W)
<1>1. MoveAllowed(sh, p, p, M)
  BY MovableUnfold
<1>2. \A s : (Into(s, s, M) => Selfs(s, M)) /\ (Onto(s, s, M) => Selfs(s, M))
  BY DEF Into, Onto, Selfs
<1>3. CASE p.kind = "interface"
  <2>1. /\ MethodsInto(sh, sh[p].elems, sh[p].elems, M) /\ MoveBase(p.base, p.base)
    BY <1>1, <1>3 DEF MoveAllowed
  <2>2. \A i, j \in DOMAIN sh[p].elems :
          sh[sh[p].elems[i]].name = sh[sh[p].elems[j]].name => i = j
    BY <1>3, NodeKinds DEF GraphOver
  <2>3. Selfs(sh[p].elems, M)
    <3> SUFFICES ASSUME NEW i \in DOMAIN sh[p].elems
                 PROVE  <<sh[p].elems[i], sh[p].elems[i]>> \in M
      BY DEF Selfs
    <3>1. PICK j \in DOMAIN sh[p].elems :
            /\ sh[sh[p].elems[j]].name = sh[sh[p].elems[i]].name
            /\ <<sh[p].elems[j], sh[p].elems[i]>> \in M
      BY <2>1 DEF MethodsInto
    <3>2. j = i
      BY <2>2, <3>1
    <3> QED
      BY <3>1, <3>2
  <2> QED
    BY <1>3, <2>1, <2>3 DEF Plain
<1>4. CASE p.kind # "interface"
  <2> HIDE DEF M
  <2> QED
    BY <1>1, <1>2, <1>4 DEF MoveAllowed, Plain, M
<1> QED
  BY <1>3, <1>4

(* The same for the base permission that a merge of comparable ones gives. *)
LEMMA MergedBases ==
  ASSUME NEW a, NEW b, MoveBase(a, a), MoveBase(b, b)
  PROVE  /\ \A m : m = a \cap b => MoveBase(a, m) /\ MoveBase(b, m)
         /\ \A m : m = a \cup b => MoveBase(m, a) /\ MoveBase(m, b)
BY DEF MoveBase

(* What merging shares between comparable permissions, if M is what can be *)
(* moved.                                                                  *)
LEMMA SharedWithin ==
  ASSUME NEW q \in Key, Shares(q), q.action \in {"intersect", "union"}, NEW sh, NEW M,
         NEW c \in {q.perm, q.goal},
         q.perm.kind # "wildcard", q.goal.kind # "wildcard",
         q.action = "union" => "nil" \notin {q.perm.kind, q.goal.kind},
         q.perm.kind = "base" => MoveBase(q.perm.base, q.perm.base),
         q.goal.kind = "base" => MoveBase(q.goal.base, q.goal.base),
         MoveAllowed(sh, q.perm, q.perm, M), MoveAllowed(sh, q.goal, q.goal, M)
  PROVE  /\ q.action = "intersect" => MoveAllowed(sh, c, AnswerTo(q), M)
         /\ q.action = "union" => MoveAllowed(sh, AnswerTo(q), c, M)
<1>1. AnswerTo(q) = Shared(q) /\ ~ToBase(q)
  BY AnswerType DEF AnswerTo, ToBase
<1>2. CASE SharesGoal(q)
  <2>1. AnswerTo(q) = q.goal /\ q.perm.kind = "nil" /\ q.goal.kind \in Nillable /\ q.action = "intersect"
    <3>1. q.perm.kind = "nil" /\ q.goal.kind \in Nillable
      BY <1>1, <1>2 DEF SharesGoal
    <3>2. Shared(q) = q.goal
      BY <1>1, <1>2, <3>1 DEF Shared, SharesGoal, SharesPerm, MergesBases, Nillable
    <3>3. q.action # "union"
      BY <3>1
    <3> QED
      BY <1>1, <3>1, <3>2, <3>3
  <2>2. MoveAllowed(sh, q.perm, q.goal, M)
    BY <2>1 DEF MoveAllowed, Plain
  <2> QED
    BY <2>1, <2>2
<1>3. CASE ~SharesGoal(q) /\ SharesPerm(q)
  <2>1. AnswerTo(q) = q.perm /\ q.perm.kind \in Nillable /\ q.goal.kind = "nil" /\ q.action = "intersect"
    <3>1. q.perm.kind \in Nillable /\ q.goal.kind = "nil"
      BY <1>1, <1>3 DEF SharesPerm
    <3>2. Shared(q) = q.perm
      BY <1>1, <1>3, <3>1 DEF Shared, SharesGoal, SharesPerm, MergesBases, Nillable
    <3>3. q.action # "union"
      BY <3>1
    <3> QED
      BY <1>1, <3>1, <3>2, <3>3
  <2>2. MoveAllowed(sh, q.goal, q.perm, M)
    BY <2>1 DEF MoveAllowed, Plain
  <2> QED
    BY <2>1, <2>2
<1>4. CASE ~SharesGoal(q) /\ ~SharesPerm(q)
  <2> DEFINE a == q.perm.base
             b == q.goal.base
             m == mergeBase(a, b, q.action)
  <2>1. MergesBases(q) /\ AnswerTo(q) = Base(m) /\ q.perm.kind = "base" /\ q.goal.kind = "base"
    BY <1>1, <1>4 DEF Shares, Shared, MergesBases
  <2>2. /\ q.action = "intersect" => MoveBase(a, m) /\ MoveBase(b, m)
        /\ q.action = "union" => MoveBase(m, a) /\ MoveBase(m, b)
    <3>1. /\ q.action = "intersect" => m = a \cap b
          /\ q.action = "union" => m = a \cup b
      BY DEF mergeBase
    <3>2. MoveBase(a, a) /\ MoveBase(b, b)
      BY <2>1
    <3> HIDE DEF a, b, m
    <3> QED
      BY <3>1, <3>2, MergedBases
  <2> HIDE DEF m
  <2>3. AnswerTo(q).kind = "base" /\ AnswerTo(q).base = m
    BY <2>1 DEF Base
  <2> QED
    BY <2>1, <2>2, <2>3 DEF MoveAllowed, Plain
<1> QED
  BY <1>2, <1>3, <1>4

(* An intersection is within both arguments and a union around both, for   *)
(* comparable ones: below the arguments, too.                              *)
LEMMA MergedWithin ==
  ASSUME IInv, Working, result \in {"built", "done"}, query.action \in {"intersect", "union"},
         Comparable, NEW c \in {query.perm, query.goal}
  PROVE  /\ query.action = "intersect" =>
              <<c, AnswerTo(query)>> \in Movable(Shapes, Perm \cup Objects)
         /\ query.action = "union" =>
              <<AnswerTo(query), c>> \in Movable(Shapes, Perm \cup Objects)
<1> DEFINE W == Perm \cup Objects
           M == Movable(Shapes, W)
           Fine == {q \in Reach(query) : <<q.perm, q.perm>> \in M /\ <<q.goal, q.goal>> \in M}
           R == {r \in W \X W : \E q \in Fine :
                   \/ q.action = "intersect" /\ r[1] \in {q.perm, q.goal} /\ r[2] = AnswerTo(q)
                   \/ q.action = "union" /\ r[1] = AnswerTo(q) /\ r[2] \in {q.perm, q.goal}}
           S == R \cup M
           act2 == {"intersect", "union"}
<1>1. GraphOver(Shapes, W)
  BY DoneGraph
<1>2. ASSUME NEW q \in Fine
      PROVE  /\ q \in Key /\ q \in Reach(query) /\ q.action \in act2
             /\ q.perm \in W /\ q.goal \in W /\ AnswerTo(q) \in W
             /\ q.action = "intersect" =>
                  <<q.perm, AnswerTo(q)>> \in R /\ <<q.goal, AnswerTo(q)>> \in R
             /\ q.action = "union" =>
                  <<AnswerTo(q), q.perm>> \in R /\ <<AnswerTo(q), q.goal>> \in R
  <2>1. /\ q \in Key /\ q \in Reach(query) /\ q.action \in act2
        /\ q.perm \in W /\ q.goal \in W /\ AnswerTo(q) \in W
    BY Asked
  <2> HIDE DEF Fine, W
  <2> QED
    BY <2>1
<1>3. ASSUME NEW s \in Seq(Perm), NEW t \in Seq(Perm), NEW u \in Seq(W), NEW act \in act2,
             Answers(u, s, t, act), Selfs(s, M), Selfs(t, M)
      PROVE  /\ act = "intersect" => /\ Into(s, u, S) /\ Into(t, u, S)
                                     /\ Onto(u, s, S) /\ Onto(u, t, S)
             /\ act = "union" => /\ Into(u, s, S) /\ Into(u, t, S)
                                 /\ Onto(s, u, S) /\ Onto(t, u, S)
  <2>1. DOMAIN s = DOMAIN u /\ DOMAIN t = DOMAIN u
    BY <1>3 DEF Answers
  <2>2. ASSUME NEW i \in DOMAIN u
        PROVE  /\ act = "intersect" => <<s[i], u[i]>> \in R /\ <<t[i], u[i]>> \in R
               /\ act = "union" => <<u[i], s[i]>> \in R /\ <<u[i], t[i]>> \in R
    <3> DEFINE q == Goal(s[i], t[i], act)
    <3>1. q.perm = s[i] /\ q.goal = t[i] /\ q.action = act
      BY DEF Goal
    <3>2. q \in Reach(query) /\ u[i] = AnswerTo(q)
      BY <1>3, <2>1 DEF Answers
    <3>3. <<s[i], s[i]>> \in M /\ <<t[i], t[i]>> \in M
      BY <1>3, <2>1 DEF Selfs
    <3> HIDE DEF q, R
    <3>4. q \in Fine
      BY <3>1, <3>2, <3>3
    <3> HIDE DEF Fine
    <3> QED
      BY <1>2, <3>1, <3>2, <3>4
  <2> HIDE DEF R
  <2> QED
    BY <2>1, <2>2 DEF Into, Onto
<1> HIDE DEF R
<1>4. ASSUME NEW q \in Fine, NEW d \in {q.perm, q.goal}
      PROVE  /\ q.action = "intersect" => MoveAllowed(Shapes, d, AnswerTo(q), S)
             /\ q.action = "union" => MoveAllowed(Shapes, AnswerTo(q), d, S)
  <2> DEFINE p == q.perm
             g == q.goal
             n == New(q)
             act == q.action
             con == contravariant(act)
  <2>1. /\ q \in Reach(query) /\ q \in Key /\ p \in W /\ g \in W /\ act \in act2
        /\ <<p, p>> \in M /\ <<g, g>> \in M
        /\ q \in DOMAIN kids \/ Shares(q)
        /\ ~ToBase(q)
        /\ act = "intersect" => con = "union"
        /\ act = "union" => con = "intersect"
    BY <1>2, Asked DEF ToBase, contravariant
  <2>2. /\ (p.kind = "func" /\ g.kind = "func") => ("o" \in p.base <=> "o" \in g.base)
        /\ act = "union" => "nil" \notin {p.kind, g.kind}
    BY <2>1 DEF Comparable, Involved
  <2>3. /\ p.kind \in Plain => Selfs(Shapes[p].elems, M) /\ MoveBase(p.base, p.base)
        /\ p.kind = "func" =>
             /\ Selfs(Shapes[p].recvs, M) /\ Selfs(Shapes[p].params, M) /\ Selfs(Shapes[p].results, M)
             /\ MoveBase(p.base \ {"o"}, p.base \ {"o"})
        /\ p.kind = "interface" => Selfs(Shapes[p].elems, M) /\ MoveBase(p.base, p.base)
        /\ p.kind = "base" => MoveBase(p.base, p.base)
        /\ p.kind # "wildcard"
    BY <1>1, <2>1, SelfChildren
  <2>4. /\ g.kind \in Plain => Selfs(Shapes[g].elems, M) /\ MoveBase(g.base, g.base)
        /\ g.kind = "func" =>
             /\ Selfs(Shapes[g].recvs, M) /\ Selfs(Shapes[g].params, M) /\ Selfs(Shapes[g].results, M)
             /\ MoveBase(g.base \ {"o"}, g.base \ {"o"})
        /\ g.kind = "interface" => Selfs(Shapes[g].elems, M) /\ MoveBase(g.base, g.base)
        /\ g.kind = "base" => MoveBase(g.base, g.base)
        /\ g.kind # "wildcard"
    BY <1>1, <2>1, SelfChildren
  <2>5. CASE Shares(q)
    <3>1. MoveAllowed(Shapes, p, p, M) /\ MoveAllowed(Shapes, g, g, M)
      BY <2>1, MovableUnfold
    <3>2. MoveAllowed(Shapes, p, p, S) /\ MoveAllowed(Shapes, g, g, S)
      <4> HIDE DEF M
      <4> QED
        BY <3>1, AllowedMonotone
    <3> HIDE DEF S, M
    <3> QED
      BY <2>1, <2>2, <2>3, <2>4, <2>5, <3>2, SharedWithin
  <2>6. CASE q \in DOMAIN kids
    <3>1. /\ p \in Object /\ g \in Object /\ p.kind = g.kind /\ n.kind = p.kind
          /\ n.base = NextBase(q) /\ n \in Objects
          /\ Answers(Shapes[n].elems, elems(p), elems(g), act)
          /\ Answers(Shapes[n].recvs, recvs(p), recvs(g), con)
          /\ Answers(Shapes[n].params, params(p), params(g), con)
          /\ Answers(Shapes[n].results, results(p), results(g), act)
      BY <2>1, <2>6, MergedParts
    <3>2. AnswerTo(q) = n /\ Builds(q)
      BY <2>6 DEF AnswerTo, IInv, TypeOK
    <3>3. p.kind \in Plain \cup {"func", "interface"} /\ d.kind = p.kind /\ n.kind # "base" /\ n \in W
      BY <1>4, <3>1, <3>2 DEF Builds, Composite, StructuredKind, Plain
    <3>4. /\ Shapes[n].elems \in Seq(W) /\ Shapes[n].recvs \in Seq(W)
          /\ Shapes[n].params \in Seq(W) /\ Shapes[n].results \in Seq(W)
      <4> HIDE DEF n
      <4> QED
        BY <1>1, <3>3, NodeChildren
    <3>5. /\ Shapes[p].elems = elems(p) /\ Shapes[p].recvs = recvs(p)
          /\ Shapes[p].params = params(p) /\ Shapes[p].results = results(p)
          /\ Shapes[g].elems = elems(g) /\ Shapes[g].recvs = recvs(g)
          /\ Shapes[g].params = params(g) /\ Shapes[g].results = results(g)
          /\ elems(p) \in Seq(Perm) /\ recvs(p) \in Seq(Perm)
          /\ params(p) \in Seq(Perm) /\ results(p) \in Seq(Perm)
          /\ elems(g) \in Seq(Perm) /\ recvs(g) \in Seq(Perm)
          /\ params(g) \in Seq(Perm) /\ results(g) \in Seq(Perm)
      BY <3>1, OldShape
    <3>6. CASE p.kind \in Plain
      <4>1. /\ act = "intersect" => Into(elems(p), Shapes[n].elems, S) /\ Into(elems(g), Shapes[n].elems, S)
            /\ act = "union" => Into(Shapes[n].elems, elems(p), S) /\ Into(Shapes[n].elems, elems(g), S)
        <5> HIDE DEF S, n, p, g, M, act
        <5> QED
          BY <1>3, <2>1, <2>3, <2>4, <3>1, <3>4, <3>5, <3>6
      <4>2. /\ act = "intersect" => n.base = p.base \cap g.base
            /\ act = "union" => n.base = p.base \cup g.base
        BY <3>1, <3>6 DEF NextBase, mergeBase, Plain
      <4>3. MoveBase(p.base, p.base) /\ MoveBase(g.base, g.base)
        BY <2>3, <2>4, <3>1, <3>6
      <4>4. /\ act = "intersect" => MoveBase(p.base, n.base) /\ MoveBase(g.base, n.base)
            /\ act = "union" => MoveBase(n.base, p.base) /\ MoveBase(n.base, g.base)
        <5> DEFINE a == p.base
                   b == g.base
                   m == n.base
        <5>1. /\ act = "intersect" => m = a \cap b
              /\ act = "union" => m = a \cup b
              /\ MoveBase(a, a) /\ MoveBase(b, b)
          BY <4>2, <4>3
        <5> HIDE DEF a, b, m
        <5>2. /\ act = "intersect" => MoveBase(a, m) /\ MoveBase(b, m)
              /\ act = "union" => MoveBase(m, a) /\ MoveBase(m, b)
          BY <5>1, MergedBases
        <5> QED
          BY <5>2 DEF a, b, m
      <4>5. Len(elems(p)) = Len(elems(g)) /\ Len(Shapes[n].elems) = Len(elems(p))
        BY <3>1 DEF Answers
      <4> HIDE DEF S, n
      <4>6. CASE d = p
        <5>1. act = "intersect" => MoveAllowed(Shapes, p, n, S)
          BY <3>1, <3>5, <3>6, <4>1, <4>4, <4>5 DEF MoveAllowed, Plain
        <5>2. act = "union" => MoveAllowed(Shapes, n, p, S)
          BY <3>1, <3>5, <3>6, <4>1, <4>4, <4>5 DEF MoveAllowed, Plain
        <5> QED
          BY <3>2, <4>6, <5>1, <5>2
      <4>7. CASE d = g
        <5>1. act = "intersect" => MoveAllowed(Shapes, g, n, S)
          BY <3>1, <3>5, <3>6, <4>1, <4>4, <4>5 DEF MoveAllowed, Plain
        <5>2. act = "union" => MoveAllowed(Shapes, n, g, S)
          BY <3>1, <3>5, <3>6, <4>1, <4>4, <4>5 DEF MoveAllowed, Plain
        <5> QED
          BY <3>2, <4>7, <5>1, <5>2
      <4> QED
        BY <1>4, <4>6, <4>7
    <3>7. CASE p.kind = "func"
      <4>1. /\ act = "intersect" =>
                 /\ Onto(recvs(p), Shapes[n].recvs, S) /\ Onto(recvs(g), Shapes[n].recvs, S)
                 /\ Onto(params(p), Shapes[n].params, S) /\ Onto(params(g), Shapes[n].params, S)
                 /\ Into(results(p), Shapes[n].results, S) /\ Into(results(g), Shapes[n].results, S)
            /\ act = "union" =>
                 /\ Onto(Shapes[n].recvs, recvs(p), S) /\ Onto(Shapes[n].recvs, recvs(g), S)
                 /\ Onto(Shapes[n].params, params(p), S) /\ Onto(Shapes[n].params, params(g), S)
                 /\ Into(Shapes[n].results, results(p), S) /\ Into(Shapes[n].results, results(g), S)
        <5>1. /\ Selfs(recvs(p), M) /\ Selfs(params(p), M) /\ Selfs(results(p), M)
              /\ Selfs(recvs(g), M) /\ Selfs(params(g), M) /\ Selfs(results(g), M)
              /\ con \in act2
          BY <2>1, <2>3, <2>4, <3>1, <3>5, <3>7
        <5> HIDE DEF S, n, p, g, M, act, con, act2
        <5>2. /\ con = "intersect" => Onto(Shapes[n].recvs, recvs(p), S) /\ Onto(Shapes[n].recvs, recvs(g), S)
              /\ con = "union" => Onto(recvs(p), Shapes[n].recvs, S) /\ Onto(recvs(g), Shapes[n].recvs, S)
          BY <1>3, <3>1, <3>4, <3>5, <5>1
        <5>3. /\ con = "intersect" => Onto(Shapes[n].params, params(p), S) /\ Onto(Shapes[n].params, params(g), S)
              /\ con = "union" => Onto(params(p), Shapes[n].params, S) /\ Onto(params(g), Shapes[n].params, S)
          BY <1>3, <3>1, <3>4, <3>5, <5>1
        <5>4. /\ act = "intersect" => Into(results(p), Shapes[n].results, S) /\ Into(results(g), Shapes[n].results, S)
              /\ act = "union" => Into(Shapes[n].results, results(p), S) /\ Into(Shapes[n].results, results(g), S)
          BY <1>3, <2>1, <3>1, <3>4, <3>5, <5>1
        <5> QED
          BY <2>1, <5>2, <5>3, <5>4
      <4>2. /\ act = "intersect" => n.base = p.base \cup g.base
            /\ act = "union" => n.base = p.base \cap g.base
        BY <3>1, <3>7 DEF NextBase, mergeBase, contravariant
      <4> DEFINE po == p.base \ {"o"}
                 go == g.base \ {"o"}
                 no == n.base \ {"o"}
      <4>3. MoveBase(po, po) /\ MoveBase(go, go)
        BY <2>3, <2>4, <3>1, <3>7
      <4>4. /\ act = "intersect" => no = po \cup go
            /\ act = "union" => no = po \cap go
        BY <4>2
      <4>5. /\ act = "intersect" => MoveBase(no, po) /\ MoveBase(no, go)
            /\ act = "union" => MoveBase(po, no) /\ MoveBase(go, no)
        <5> HIDE DEF po, go, no
        <5> QED
          BY <4>3, <4>4, MergedBases
      <4>6. "o" \in p.base <=> "o" \in g.base
        BY <2>2, <3>1, <3>7
      <4>7. ("o" \in n.base <=> "o" \in p.base) /\ ("o" \in n.base <=> "o" \in g.base)
        BY <2>1, <4>2, <4>6
      <4>8. g.kind = "func" /\ n.kind = "func"
        BY <3>1, <3>7
      <4> HIDE DEF S, n
      <4>9. CASE d = p
        <5>1. act = "intersect" => MoveAllowed(Shapes, p, n, S)
          BY <3>5, <3>7, <4>1, <4>5, <4>7, <4>8 DEF MoveAllowed, Plain
        <5>2. act = "union" => MoveAllowed(Shapes, n, p, S)
          BY <3>5, <3>7, <4>1, <4>5, <4>7, <4>8 DEF MoveAllowed, Plain
        <5> QED
          BY <3>2, <4>9, <5>1, <5>2
      <4>10. CASE d = g
        <5>1. act = "intersect" => MoveAllowed(Shapes, g, n, S)
          BY <3>5, <3>7, <4>1, <4>5, <4>7, <4>8 DEF MoveAllowed, Plain
        <5>2. act = "union" => MoveAllowed(Shapes, n, g, S)
          BY <3>5, <3>7, <4>1, <4>5, <4>7, <4>8 DEF MoveAllowed, Plain
        <5> QED
          BY <3>2, <4>10, <5>1, <5>2
      <4> QED
        BY <1>4, <4>9, <4>10
    <3>8. CASE p.kind = "interface"
      <4>1. /\ act = "intersect" => Into(elems(p), Shapes[n].elems, S) /\ Into(elems(g), Shapes[n].elems, S)
            /\ act = "union" => Into(Shapes[n].elems, elems(p), S) /\ Into(Shapes[n].elems, elems(g), S)
        <5>1. Selfs(elems(p), M) /\ Selfs(elems(g), M)
          BY <2>3, <2>4, <3>1, <3>5, <3>8
        <5> HIDE DEF S, n, p, g, M, act, act2
        <5> QED
          BY <1>3, <2>1, <3>1, <3>4, <3>5, <5>1
      <4>2. SameNames
        BY DEF Comparable
      <4>3. \A i \in DOMAIN Shapes[n].elems :
              /\ i \in DOMAIN elems(p) /\ i \in DOMAIN elems(g)
              /\ Shapes[elems(p)[i]].name = Shapes[Shapes[n].elems[i]].name
              /\ Shapes[elems(g)[i]].name = Shapes[Shapes[n].elems[i]].name
        BY <2>1, <2>6, <3>8, <4>2, MergedNames
      <4>4. DOMAIN Shapes[n].elems = DOMAIN elems(p) /\ DOMAIN Shapes[n].elems = DOMAIN elems(g)
        <5> HIDE DEF n
        <5> QED
          BY <3>1, <3>4, <3>5 DEF Answers
      <4>5. /\ act = "intersect" => /\ MethodsInto(Shapes, elems(p), Shapes[n].elems, S)
                                    /\ MethodsInto(Shapes, elems(g), Shapes[n].elems, S)
            /\ act = "union" => /\ MethodsInto(Shapes, Shapes[n].elems, elems(p), S)
                                /\ MethodsInto(Shapes, Shapes[n].elems, elems(g), S)
        <5> HIDE DEF S, n, p, g, act
        <5> QED
          BY <4>1, <4>3, <4>4 DEF Into, MethodsInto
      <4>6. /\ act = "intersect" => n.base = p.base \cap g.base
            /\ act = "union" => n.base = p.base \cup g.base
        BY <3>1, <3>8 DEF NextBase, mergeBase
      <4>7. MoveBase(p.base, p.base) /\ MoveBase(g.base, g.base)
        BY <2>3, <2>4, <3>1, <3>8
      <4>8. /\ act = "intersect" => MoveBase(p.base, n.base) /\ MoveBase(g.base, n.base)
            /\ act = "union" => MoveBase(n.base, p.base) /\ MoveBase(n.base, g.base)
        <5> DEFINE a == p.base
                   b == g.base
                   m == n.base
        <5>1. /\ act = "intersect" => m = a \cap b
              /\ act = "union" => m = a \cup b
              /\ MoveBase(a, a) /\ MoveBase(b, b)
          BY <4>6, <4>7
        <5> HIDE DEF a, b, m
        <5>2. /\ act = "intersect" => MoveBase(a, m) /\ MoveBase(b, m)
              /\ act = "union" => MoveBase(m, a) /\ MoveBase(m, b)
          BY <5>1, MergedBases
        <5> QED
          BY <5>2 DEF a, b, m
      <4>9. g.kind = "interface" /\ n.kind = "interface"
        BY <3>1, <3>8
      <4> HIDE DEF S, n
      <4>10. CASE d = p
        <5>1. act = "intersect" => MoveAllowed(Shapes, p, n, S)
          BY <3>5, <3>8, <4>5, <4>8, <4>9 DEF MoveAllowed, Plain
        <5>2. act = "union" => MoveAllowed(Shapes, n, p, S)
          BY <3>5, <3>8, <4>5, <4>8, <4>9 DEF MoveAllowed, Plain
        <5> QED
          BY <3>2, <4>10, <5>1, <5>2
      <4>11. CASE d = g
        <5>1. act = "intersect" => MoveAllowed(Shapes, g, n, S)
          BY <3>5, <3>8, <4>5, <4>8, <4>9 DEF MoveAllowed, Plain
        <5>2. act = "union" => MoveAllowed(Shapes, n, g, S)
          BY <3>5, <3>8, <4>5, <4>8, <4>9 DEF MoveAllowed, Plain
        <5> QED
          BY <3>2, <4>11, <5>1, <5>2
      <4> QED
        BY <1>4, <4>10, <4>11
    <3> QED
      BY <3>3, <3>6, <3>7, <3>8
  <2> QED
    BY <2>1, <2>5, <2>6
<1>5. R \subseteq M
  <2>1. ASSUME NEW r \in R
        PROVE  MoveAllowed(Shapes, r[1], r[2], S)
    <3>1. PICK q \in Fine :
            \/ q.action = "intersect" /\ r[1] \in {q.perm, q.goal} /\ r[2] = AnswerTo(q)
            \/ q.action = "union" /\ r[1] = AnswerTo(q) /\ r[2] \in {q.perm, q.goal}
      BY DEF R
    <3> HIDE DEF S, Fine
    <3> QED
      BY <1>4, <3>1
  <2>2. R \in SUBSET (W \X W)
    BY DEF R
  <2> HIDE DEF W
  <2> QED
    BY <2>1, <2>2, MovableIsLargest
<1>6. query \in Fine
  <2>1. query \in Key /\ query \in Reach(query) /\ query.perm \in W /\ query.goal \in W
    BY BuiltMeansNoFailure, ReachIsLeast DEF Key
  <2>2. Selves \in SUBSET (W \X W)
    BY <2>1 DEF Selves
  <2>3. Selves \subseteq M
    BY <1>1, <2>2, AllMovableIsMovable DEF Comparable
  <2> QED
    BY <2>1, <2>3 DEF Selves
<1>7. /\ query.action = "intersect" =>
           <<query.perm, AnswerTo(query)>> \in M /\ <<query.goal, AnswerTo(query)>> \in M
      /\ query.action = "union" =>
           <<AnswerTo(query), query.perm>> \in M /\ <<AnswerTo(query), query.goal>> \in M
  <2> HIDE DEF Fine, M
  <2> QED
    BY <1>2, <1>5, <1>6
<1> HIDE DEF M
<1>8. /\ query.action = "intersect" => <<c, AnswerTo(query)>> \in M
      /\ query.action = "union" => <<AnswerTo(query), c>> \in M
  <2>1. c = query.perm \/ c = query.goal
    OBVIOUS
  <2> QED
    BY <1>7, <2>1
<1> QED
  BY <1>8 DEF M

(* What two base permissions can be moved to, and what can be moved to     *)
(* both.                                                                   *)
LEMMA BasesMerged ==
  ASSUME NEW a, NEW b, NEW c
  PROVE  /\ \A m : m = a \cap b /\ MoveBase(a, c) /\ MoveBase(b, c) => MoveBase(m, c)
         /\ \A m : m = a \cup b /\ MoveBase(c, a) /\ MoveBase(c, b) => MoveBase(c, m)
BY DEF MoveBase

(* Whatever both arguments can be moved to, what merging shares can, and   *)
(* the other way round.                                                    *)
LEMMA SharedAround ==
  ASSUME NEW q \in Key, Shares(q), q.action \in {"intersect", "union"}, NEW sh, NEW M, NEW c
  PROVE  /\ q.action = "intersect" /\ MoveAllowed(sh, q.perm, c, M) /\ MoveAllowed(sh, q.goal, c, M)
            => MoveAllowed(sh, AnswerTo(q), c, M)
         /\ (/\ q.action = "union" /\ MoveAllowed(sh, c, q.perm, M) /\ MoveAllowed(sh, c, q.goal, M)
             /\ c.kind \in StructuredKind \cup {"base"})
            => MoveAllowed(sh, c, AnswerTo(q), M)
<1>1. AnswerTo(q) = Shared(q) /\ ~ToBase(q)
  BY AnswerType DEF AnswerTo, ToBase
<1>2. CASE Shared(q) \in {q.perm, q.goal}
  BY <1>1, <1>2
<1>3. CASE Shared(q) \notin {q.perm, q.goal}
  <2> DEFINE a == q.perm.base
             b == q.goal.base
             m == mergeBase(a, b, q.action)
  <2>1. MergesBases(q) /\ Shared(q) = Base(m) /\ q.perm.kind = "base" /\ q.goal.kind = "base"
    <3>1. ~SharesGoal(q) /\ ~SharesPerm(q)
      BY <1>1, <1>3 DEF Shared, SharesGoal, SharesPerm, MergesBases, Nillable
    <3> QED
      BY <3>1 DEF Shares, Shared, MergesBases
  <2>2. /\ q.action = "intersect" => m = a \cap b
        /\ q.action = "union" => m = a \cup b
    BY DEF mergeBase
  <2> HIDE DEF m
  <2>3. AnswerTo(q).kind = "base" /\ AnswerTo(q).base = m
    BY <1>1, <2>1 DEF Base
  <2>4. ASSUME q.action = "intersect", MoveAllowed(sh, q.perm, c, M), MoveAllowed(sh, q.goal, c, M)
        PROVE  MoveAllowed(sh, AnswerTo(q), c, M)
    <3>1. c.kind = "base" /\ MoveBase(a, c.base) /\ MoveBase(b, c.base)
      BY <2>1, <2>4 DEF MoveAllowed
    <3> HIDE DEF a, b
    <3>2. MoveBase(m, c.base)
      BY <2>2, <2>4, <3>1, BasesMerged
    <3> QED
      BY <2>3, <3>1, <3>2 DEF MoveAllowed, Plain
  <2>5. ASSUME q.action = "union", MoveAllowed(sh, c, q.perm, M), MoveAllowed(sh, c, q.goal, M),
               c.kind \in StructuredKind \cup {"base"}
        PROVE  MoveAllowed(sh, c, AnswerTo(q), M)
    <3>1. c.kind = "base"
      BY <2>1, <2>5 DEF MoveAllowed, Plain, Nillable, StructuredKind
    <3>2. MoveBase(c.base, a) /\ MoveBase(c.base, b)
      BY <2>1, <2>5, <3>1 DEF MoveAllowed
    <3> HIDE DEF a, b
    <3>3. MoveBase(c.base, m)
      BY <2>2, <2>5, <3>2, BasesMerged
    <3> QED
      BY <2>3, <3>1, <3>3 DEF MoveAllowed, Plain
  <2> QED
    BY <2>4, <2>5
<1> QED
  BY <1>2, <1>3

(* Whatever both arguments can be moved to, their intersection can, and    *)
(* what can be moved to both can be moved to their union.                  *)
LEMMA MergedAround ==
  ASSUME IInv, Working, result \in {"built", "done"}, query.action \in {"intersect", "union"},
         SameNames, NEW c0 \in Perm \cup Objects
  PROVE  /\ (/\ query.action = "intersect"
             /\ <<query.perm, c0>> \in Movable(Shapes, Perm \cup Objects)
             /\ <<query.goal, c0>> \in Movable(Shapes, Perm \cup Objects))
            => <<AnswerTo(query), c0>> \in Movable(Shapes, Perm \cup Objects)
         /\ (/\ query.action = "union"
             /\ <<c0, query.perm>> \in Movable(Shapes, Perm \cup Objects)
             /\ <<c0, query.goal>> \in Movable(Shapes, Perm \cup Objects))
            => <<c0, AnswerTo(query)>> \in Movable(Shapes, Perm \cup Objects)
<1> DEFINE W == Perm \cup Objects
           M == Movable(Shapes, W)
           R == {r \in W \X W : \E q \in Reach(query) :
                   \/ /\ q.action = "intersect" /\ r[1] = AnswerTo(q)
                      /\ <<q.perm, r[2]>> \in M /\ <<q.goal, r[2]>> \in M
                   \/ /\ q.action = "union" /\ r[2] = AnswerTo(q)
                      /\ <<r[1], q.perm>> \in M /\ <<r[1], q.goal>> \in M}
           S == R \cup M
           act2 == {"intersect", "union"}
<1>1. GraphOver(Shapes, W)
  BY DoneGraph
<1>2. ASSUME NEW q \in Reach(query), NEW c \in W
      PROVE  /\ (q.action = "intersect" /\ <<q.perm, c>> \in M /\ <<q.goal, c>> \in M)
                => <<AnswerTo(q), c>> \in R
             /\ (q.action = "union" /\ <<c, q.perm>> \in M /\ <<c, q.goal>> \in M)
                => <<c, AnswerTo(q)>> \in R
  <2>1. AnswerTo(q) \in W
    BY Asked
  <2> HIDE DEF M, W
  <2> QED
    BY <2>1
<1>3. ASSUME NEW s \in Seq(Perm), NEW t \in Seq(Perm), NEW u \in Seq(W), NEW act \in act2,
             NEW v \in Seq(W), Answers(u, s, t, act)
      PROVE  /\ act = "intersect" =>
                  /\ Into(s, v, M) /\ Into(t, v, M) => Into(u, v, S)
                  /\ Onto(v, s, M) /\ Onto(v, t, M) => Onto(v, u, S)
             /\ act = "union" =>
                  /\ Into(v, s, M) /\ Into(v, t, M) => Into(v, u, S)
                  /\ Onto(s, v, M) /\ Onto(t, v, M) => Onto(u, v, S)
  <2>1. DOMAIN s = DOMAIN u /\ DOMAIN t = DOMAIN u
    BY <1>3 DEF Answers
  <2>2. ASSUME NEW i \in DOMAIN u, NEW c \in W
        PROVE  /\ (act = "intersect" /\ <<s[i], c>> \in M /\ <<t[i], c>> \in M) => <<u[i], c>> \in R
               /\ (act = "union" /\ <<c, s[i]>> \in M /\ <<c, t[i]>> \in M) => <<c, u[i]>> \in R
    <3> DEFINE q == Goal(s[i], t[i], act)
    <3>1. q.perm = s[i] /\ q.goal = t[i] /\ q.action = act
      BY DEF Goal
    <3>2. q \in Reach(query) /\ u[i] = AnswerTo(q)
      BY <1>3, <2>1 DEF Answers
    <3> HIDE DEF q, R, M
    <3> QED
      BY <1>2, <3>1, <3>2
  <2>3. \A i \in DOMAIN v : v[i] \in W
    OBVIOUS
  <2> HIDE DEF R, M
  <2> QED
    BY <2>1, <2>2, <2>3 DEF Into, Onto
<1> HIDE DEF R
<1>4. ASSUME NEW q \in Reach(query), NEW c \in W
      PROVE  /\ (q.action = "intersect" /\ <<q.perm, c>> \in M /\ <<q.goal, c>> \in M)
                => MoveAllowed(Shapes, AnswerTo(q), c, S)
             /\ (q.action = "union" /\ <<c, q.perm>> \in M /\ <<c, q.goal>> \in M)
                => MoveAllowed(Shapes, c, AnswerTo(q), S)
  <2> DEFINE p == q.perm
             g == q.goal
             n == New(q)
             act == q.action
             con == contravariant(act)
  <2>1. /\ q \in Key /\ p \in W /\ g \in W /\ act \in act2
        /\ q \in DOMAIN kids \/ Shares(q)
        /\ ~ToBase(q)
        /\ act = "intersect" => con = "union"
        /\ act = "union" => con = "intersect"
    BY Asked DEF ToBase, contravariant
  <2>2. c.kind \in StructuredKind \cup {"base"}
    BY <1>1, NodeKinds
  <2>3. /\ \A a, b \in W : <<a, b>> \in M <=> MoveAllowed(Shapes, a, b, M)
        /\ \A a, b \in W : MoveAllowed(Shapes, a, b, M) => MoveAllowed(Shapes, a, b, S)
    <3>1. \A a, b \in W : <<a, b>> \in M <=> MoveAllowed(Shapes, a, b, M)
      BY MovableUnfold
    <3> HIDE DEF M, W
    <3>2. \A a, b \in W : MoveAllowed(Shapes, a, b, M) => MoveAllowed(Shapes, a, b, S)
      BY AllowedMonotone
    <3> QED
      BY <3>1, <3>2
  <2>4. CASE Shares(q)
    <3>1. AnswerTo(q) \in W
      BY Asked
    <3> HIDE DEF S, M, W
    <3>2. /\ (act = "intersect" /\ <<p, c>> \in M /\ <<g, c>> \in M)
             => MoveAllowed(Shapes, AnswerTo(q), c, M)
          /\ (act = "union" /\ <<c, p>> \in M /\ <<c, g>> \in M)
             => MoveAllowed(Shapes, c, AnswerTo(q), M)
      BY <2>1, <2>2, <2>3, <2>4, SharedAround
    <3> QED
      BY <2>3, <3>1, <3>2
  <2>5. CASE q \in DOMAIN kids
    <3>1. /\ p \in Object /\ g \in Object /\ p.kind = g.kind /\ n.kind = p.kind
          /\ n.base = NextBase(q) /\ n \in Objects
          /\ Answers(Shapes[n].elems, elems(p), elems(g), act)
          /\ Answers(Shapes[n].recvs, recvs(p), recvs(g), con)
          /\ Answers(Shapes[n].params, params(p), params(g), con)
          /\ Answers(Shapes[n].results, results(p), results(g), act)
      BY <2>1, <2>5, MergedParts
    <3>2. AnswerTo(q) = n /\ Builds(q)
      BY <2>5 DEF AnswerTo, IInv, TypeOK
    <3>3. p.kind \in Plain \cup {"func", "interface"} /\ n.kind # "base" /\ n \in W
      BY <3>1, <3>2 DEF Builds, Composite, StructuredKind, Plain
    <3>4. /\ Shapes[n].elems \in Seq(W) /\ Shapes[n].recvs \in Seq(W)
          /\ Shapes[n].params \in Seq(W) /\ Shapes[n].results \in Seq(W)
      <4> HIDE DEF n
      <4> QED
        BY <1>1, <3>3, NodeChildren
    <3>5. /\ Shapes[p].elems = elems(p) /\ Shapes[p].recvs = recvs(p)
          /\ Shapes[p].params = params(p) /\ Shapes[p].results = results(p)
          /\ Shapes[g].elems = elems(g) /\ Shapes[g].recvs = recvs(g)
          /\ Shapes[g].params = params(g) /\ Shapes[g].results = results(g)
          /\ elems(p) \in Seq(Perm) /\ recvs(p) \in Seq(Perm)
          /\ params(p) \in Seq(Perm) /\ results(p) \in Seq(Perm)
          /\ elems(g) \in Seq(Perm) /\ recvs(g) \in Seq(Perm)
          /\ params(g) \in Seq(Perm) /\ results(g) \in Seq(Perm)
      BY <3>1, OldShape
    <3>6. c.kind # "base" => /\ Shapes[c].elems \in Seq(W) /\ Shapes[c].recvs \in Seq(W)
                             /\ Shapes[c].params \in Seq(W) /\ Shapes[c].results \in Seq(W)
      BY <1>1, NodeChildren
    <3> HIDE DEF R
    <3>7. SUFFICES ASSUME \/ act = "intersect" /\ MoveAllowed(Shapes, p, c, M) /\ MoveAllowed(Shapes, g, c, M)
                          \/ act = "union" /\ MoveAllowed(Shapes, c, p, M) /\ MoveAllowed(Shapes, c, g, M)
                   PROVE  /\ act = "intersect" => MoveAllowed(Shapes, n, c, S)
                          /\ act = "union" => MoveAllowed(Shapes, c, n, S)
      <4> HIDE DEF S, M, W, n
      <4> QED
        BY <2>1, <2>3, <3>2
    <3>8. CASE c.kind = "nil"
      <4> HIDE DEF S, M, W, n
      <4>1. act = "union" /\ p.kind \in Nillable
        BY <2>1, <3>1, <3>3, <3>7, <3>8 DEF MoveAllowed, Plain
      <4> QED
        BY <3>1, <3>8, <4>1 DEF MoveAllowed, Plain
    <3>9. CASE c.kind # "nil"
      <4>1. c.kind = p.kind
        <5> HIDE DEF S, M, W, n
        <5>1. CASE act = "intersect"
          BY <3>3, <3>7, <5>1 DEF MoveAllowed, Plain
        <5>2. CASE act = "union"
          BY <2>2, <3>3, <3>7, <3>9, <5>2 DEF MoveAllowed, Plain, StructuredKind
        <5> QED
          BY <2>1, <5>1, <5>2
      <4>2. CASE p.kind \in Plain
        <5>1. /\ act = "intersect" => n.base = p.base \cap g.base
              /\ act = "union" => n.base = p.base \cup g.base
          BY <3>1, <4>2 DEF NextBase, mergeBase, Plain
        <5> HIDE DEF S, M, W, n
        <5>2. /\ act = "intersect" =>
                   /\ MoveBase(p.base, c.base) /\ MoveBase(g.base, c.base)
                   /\ Into(elems(p), Shapes[c].elems, M) /\ Into(elems(g), Shapes[c].elems, M)
              /\ act = "union" =>
                   /\ MoveBase(c.base, p.base) /\ MoveBase(c.base, g.base)
                   /\ Into(Shapes[c].elems, elems(p), M) /\ Into(Shapes[c].elems, elems(g), M)
              /\ p.kind = "tuple" => Len(Shapes[c].elems) = Len(elems(p))
          BY <2>1, <3>1, <3>5, <3>7, <4>1, <4>2 DEF MoveAllowed
        <5>3. /\ act = "intersect" => Into(Shapes[n].elems, Shapes[c].elems, S)
              /\ act = "union" => Into(Shapes[c].elems, Shapes[n].elems, S)
          <6> HIDE DEF p, g, act, act2
          <6>1. c.kind # "base"
            BY <4>1, <4>2 DEF Plain
          <6> QED
            BY <1>3, <2>1, <3>1, <3>4, <3>5, <3>6, <5>2, <6>1
        <5>4. /\ act = "intersect" => MoveBase(n.base, c.base)
              /\ act = "union" => MoveBase(c.base, n.base)
          <6> DEFINE a == p.base
                     b == g.base
                     m == n.base
                     d == c.base
          <6>1. /\ act = "intersect" => m = a \cap b /\ MoveBase(a, d) /\ MoveBase(b, d)
                /\ act = "union" => m = a \cup b /\ MoveBase(d, a) /\ MoveBase(d, b)
            BY <5>1, <5>2
          <6> HIDE DEF a, b, m, d
          <6>2. /\ act = "intersect" => MoveBase(m, d)
                /\ act = "union" => MoveBase(d, m)
            BY <6>1, BasesMerged
          <6> QED
            BY <6>2 DEF m, d
        <5>5. Len(Shapes[n].elems) = Len(elems(p))
          BY <3>1 DEF Answers
        <5>6. act = "intersect" => MoveAllowed(Shapes, n, c, S)
          BY <3>1, <4>1, <4>2, <5>2, <5>3, <5>4, <5>5 DEF MoveAllowed, Plain
        <5>7. act = "union" => MoveAllowed(Shapes, c, n, S)
          BY <3>1, <4>1, <4>2, <5>2, <5>3, <5>4, <5>5 DEF MoveAllowed, Plain
        <5> QED
          BY <5>6, <5>7
      <4>3. CASE p.kind = "func"
        <5>1. /\ act = "intersect" => n.base = p.base \cup g.base
              /\ act = "union" => n.base = p.base \cap g.base
          BY <3>1, <4>3 DEF NextBase, mergeBase, contravariant
        <5> DEFINE po == p.base \ {"o"}
                   go == g.base \ {"o"}
                   no == n.base \ {"o"}
                   co == c.base \ {"o"}
        <5>2. /\ act = "intersect" => no = go \cup po
              /\ act = "union" => no = go \cap po
          BY <5>1
        <5> HIDE DEF S, M, W, n
        <5>3. /\ act = "intersect" =>
                   /\ MoveBase(co, po) /\ MoveBase(co, go)
                   /\ "o" \in c.base => "o" \in p.base
                   /\ Onto(recvs(p), Shapes[c].recvs, M) /\ Onto(recvs(g), Shapes[c].recvs, M)
                   /\ Onto(params(p), Shapes[c].params, M) /\ Onto(params(g), Shapes[c].params, M)
                   /\ Into(results(p), Shapes[c].results, M) /\ Into(results(g), Shapes[c].results, M)
              /\ act = "union" =>
                   /\ MoveBase(po, co) /\ MoveBase(go, co)
                   /\ "o" \in p.base => "o" \in c.base
                   /\ Onto(Shapes[c].recvs, recvs(p), M) /\ Onto(Shapes[c].recvs, recvs(g), M)
                   /\ Onto(Shapes[c].params, params(p), M) /\ Onto(Shapes[c].params, params(g), M)
                   /\ Into(Shapes[c].results, results(p), M) /\ Into(Shapes[c].results, results(g), M)
          BY <2>1, <3>1, <3>5, <3>7, <4>1, <4>3 DEF MoveAllowed
        <5>4. /\ act = "intersect" => MoveBase(co, no)
              /\ act = "union" => MoveBase(no, co)
          <6> HIDE DEF po, go, no, co
          <6> QED
            BY <5>2, <5>3, BasesMerged
        <5>5. /\ act = "intersect" /\ "o" \in c.base => "o" \in n.base
              /\ act = "union" /\ "o" \in n.base => "o" \in c.base
          BY <5>1, <5>3
        <5>6. /\ act = "intersect" =>
                   /\ Onto(Shapes[n].recvs, Shapes[c].recvs, S)
                   /\ Onto(Shapes[n].params, Shapes[c].params, S)
                   /\ Into(Shapes[n].results, Shapes[c].results, S)
              /\ act = "union" =>
                   /\ Onto(Shapes[c].recvs, Shapes[n].recvs, S)
                   /\ Onto(Shapes[c].params, Shapes[n].params, S)
                   /\ Into(Shapes[c].results, Shapes[n].results, S)
          <6>1. c.kind # "base" /\ con \in act2
            BY <2>1, <4>1, <4>3
          <6> HIDE DEF p, g, act, act2, con
          <6>2. /\ con = "union" /\ act = "intersect" => Onto(Shapes[n].recvs, Shapes[c].recvs, S)
                /\ con = "intersect" /\ act = "union" => Onto(Shapes[c].recvs, Shapes[n].recvs, S)
            BY <1>3, <3>1, <3>4, <3>5, <3>6, <5>3, <6>1
          <6>3. /\ con = "union" /\ act = "intersect" => Onto(Shapes[n].params, Shapes[c].params, S)
                /\ con = "intersect" /\ act = "union" => Onto(Shapes[c].params, Shapes[n].params, S)
            BY <1>3, <3>1, <3>4, <3>5, <3>6, <5>3, <6>1
          <6>4. /\ act = "intersect" => Into(Shapes[n].results, Shapes[c].results, S)
                /\ act = "union" => Into(Shapes[c].results, Shapes[n].results, S)
            BY <1>3, <2>1, <3>1, <3>4, <3>5, <3>6, <5>3, <6>1
          <6> QED
            BY <2>1, <6>2, <6>3, <6>4
        <5> HIDE DEF po, go
        <5>7. act = "intersect" => MoveAllowed(Shapes, n, c, S)
          BY <3>1, <4>1, <4>3, <5>4, <5>5, <5>6 DEF MoveAllowed, Plain
        <5>8. act = "union" => MoveAllowed(Shapes, c, n, S)
          BY <3>1, <4>1, <4>3, <5>4, <5>5, <5>6 DEF MoveAllowed, Plain
        <5> QED
          BY <5>7, <5>8
      <4>4. CASE p.kind = "interface"
        <5>1. /\ act = "intersect" => n.base = p.base \cap g.base
              /\ act = "union" => n.base = p.base \cup g.base
          BY <3>1, <4>4 DEF NextBase, mergeBase
        <5>2. /\ \A i \in DOMAIN Shapes[n].elems :
                   /\ i \in DOMAIN elems(p) /\ i \in DOMAIN elems(g)
                   /\ Shapes[elems(p)[i]].name = Shapes[Shapes[n].elems[i]].name
                   /\ Shapes[elems(g)[i]].name = Shapes[Shapes[n].elems[i]].name
          BY <2>1, <2>5, <4>4, MergedNames
        <5>3. \A x \in {n, g, c} : \A i, j \in DOMAIN Shapes[x].elems :
                Shapes[Shapes[x].elems[i]].name = Shapes[Shapes[x].elems[j]].name => i = j
          <6> SUFFICES ASSUME NEW x \in {n, g, c}
                       PROVE  \A i, j \in DOMAIN Shapes[x].elems :
                                Shapes[Shapes[x].elems[i]].name = Shapes[Shapes[x].elems[j]].name => i = j
            OBVIOUS
          <6>1. x \in W /\ x.kind = "interface"
            BY <2>1, <3>1, <3>3, <4>1, <4>4
          <6> HIDE DEF n, W
          <6>2. x \in DOMAIN Shapes
            BY <1>1, <6>1, NodeKinds
          <6> QED
            BY <1>1, <6>1, <6>2 DEF GraphOver
        <5> HIDE DEF S, M, W, n
        <5>4. /\ act = "intersect" =>
                   /\ MoveBase(p.base, c.base) /\ MoveBase(g.base, c.base)
                   /\ MethodsInto(Shapes, elems(p), Shapes[c].elems, M)
                   /\ MethodsInto(Shapes, elems(g), Shapes[c].elems, M)
              /\ act = "union" =>
                   /\ MoveBase(c.base, p.base) /\ MoveBase(c.base, g.base)
                   /\ MethodsInto(Shapes, Shapes[c].elems, elems(p), M)
                   /\ MethodsInto(Shapes, Shapes[c].elems, elems(g), M)
          BY <2>1, <3>1, <3>5, <3>7, <4>1, <4>4 DEF MoveAllowed, Plain
        <5>5. DOMAIN Shapes[n].elems = DOMAIN elems(p) /\ DOMAIN Shapes[n].elems = DOMAIN elems(g)
          BY <3>1, <3>4, <3>5 DEF Answers
        <5>6. ASSUME NEW i \in DOMAIN Shapes[n].elems, NEW d \in W
              PROVE  /\ (act = "intersect" /\ <<elems(p)[i], d>> \in M /\ <<elems(g)[i], d>> \in M)
                        => <<Shapes[n].elems[i], d>> \in S
                     /\ (act = "union" /\ <<d, elems(p)[i]>> \in M /\ <<d, elems(g)[i]>> \in M)
                        => <<d, Shapes[n].elems[i]>> \in S
          <6> DEFINE k == Goal(elems(p)[i], elems(g)[i], act)
          <6>1. k.perm = elems(p)[i] /\ k.goal = elems(g)[i] /\ k.action = act
            BY DEF Goal
          <6>2. k \in Reach(query) /\ Shapes[n].elems[i] = AnswerTo(k)
            BY <3>1, <5>5 DEF Answers
          <6> HIDE DEF k, p, g, act
          <6> QED
            BY <1>2, <6>1, <6>2 DEF S
        <5>7. \A i \in DOMAIN Shapes[c].elems : Shapes[c].elems[i] \in W
          BY <3>6, <4>1, <4>4
        <5>8. act = "intersect" => MethodsInto(Shapes, Shapes[n].elems, Shapes[c].elems, S)
          <6> HIDE DEF p, g, act
          <6> SUFFICES ASSUME act = "intersect", NEW i \in DOMAIN Shapes[c].elems
                       PROVE  \E j \in DOMAIN Shapes[n].elems :
                                /\ Shapes[Shapes[n].elems[j]].name = Shapes[Shapes[c].elems[i]].name
                                /\ <<Shapes[n].elems[j], Shapes[c].elems[i]>> \in S
            BY DEF MethodsInto
          <6>1. PICK j \in DOMAIN elems(p) :
                  /\ Shapes[elems(p)[j]].name = Shapes[Shapes[c].elems[i]].name
                  /\ <<elems(p)[j], Shapes[c].elems[i]>> \in M
            BY <5>4 DEF MethodsInto
          <6>2. PICK l \in DOMAIN elems(g) :
                  /\ Shapes[elems(g)[l]].name = Shapes[Shapes[c].elems[i]].name
                  /\ <<elems(g)[l], Shapes[c].elems[i]>> \in M
            BY <5>4 DEF MethodsInto
          <6>3. /\ j \in DOMAIN Shapes[n].elems /\ l \in DOMAIN Shapes[n].elems
                /\ Shapes[Shapes[n].elems[j]].name = Shapes[Shapes[c].elems[i]].name
                /\ Shapes[Shapes[n].elems[l]].name = Shapes[Shapes[c].elems[i]].name
            BY <5>2, <5>5, <6>1, <6>2
          <6>4. j = l
            BY <5>3, <6>3
          <6> QED
            BY <5>6, <5>7, <6>1, <6>2, <6>3, <6>4
        <5>9. act = "union" => MethodsInto(Shapes, Shapes[c].elems, Shapes[n].elems, S)
          <6> HIDE DEF p, g, act
          <6> SUFFICES ASSUME act = "union", NEW i \in DOMAIN Shapes[n].elems
                       PROVE  \E j \in DOMAIN Shapes[c].elems :
                                /\ Shapes[Shapes[c].elems[j]].name = Shapes[Shapes[n].elems[i]].name
                                /\ <<Shapes[c].elems[j], Shapes[n].elems[i]>> \in S
            BY DEF MethodsInto
          <6>1. PICK j \in DOMAIN Shapes[c].elems :
                  /\ Shapes[Shapes[c].elems[j]].name = Shapes[elems(p)[i]].name
                  /\ <<Shapes[c].elems[j], elems(p)[i]>> \in M
            BY <5>4, <5>5 DEF MethodsInto
          <6>2. PICK l \in DOMAIN Shapes[c].elems :
                  /\ Shapes[Shapes[c].elems[l]].name = Shapes[elems(g)[i]].name
                  /\ <<Shapes[c].elems[l], elems(g)[i]>> \in M
            BY <5>4, <5>5 DEF MethodsInto
          <6>3. /\ Shapes[Shapes[c].elems[j]].name = Shapes[Shapes[n].elems[i]].name
                /\ Shapes[Shapes[c].elems[l]].name = Shapes[Shapes[n].elems[i]].name
            BY <5>2, <6>1, <6>2
          <6>4. j = l
            BY <5>3, <6>3
          <6> QED
            BY <5>6, <5>7, <6>1, <6>2, <6>3, <6>4
        <5>10. /\ act = "intersect" => MoveBase(n.base, c.base)
               /\ act = "union" => MoveBase(c.base, n.base)
          <6> DEFINE a == p.base
                     b == g.base
                     m == n.base
                     d == c.base
          <6>1. /\ act = "intersect" => m = a \cap b /\ MoveBase(a, d) /\ MoveBase(b, d)
                /\ act = "union" => m = a \cup b /\ MoveBase(d, a) /\ MoveBase(d, b)
            BY <5>1, <5>4
          <6> HIDE DEF a, b, m, d
          <6>2. /\ act = "intersect" => MoveBase(m, d)
                /\ act = "union" => MoveBase(d, m)
            BY <6>1, BasesMerged
          <6> QED
            BY <6>2 DEF m, d
        <5>11. act = "intersect" => MoveAllowed(Shapes, n, c, S)
          BY <3>1, <4>1, <4>4, <5>8, <5>10 DEF MoveAllowed, Plain
        <5>12. act = "union" => MoveAllowed(Shapes, c, n, S)
          BY <3>1, <4>1, <4>4, <5>9, <5>10 DEF MoveAllowed, Plain
        <5> QED
          BY <5>11, <5>12
      <4> QED
        BY <3>3, <4>2, <4>3, <4>4
    <3> QED
      BY <3>8, <3>9
  <2> QED
    BY <2>1, <2>4, <2>5
<1>5. R \subseteq M
  <2>1. ASSUME NEW r \in R
        PROVE  MoveAllowed(Shapes, r[1], r[2], S)
    <3>1. r[1] \in W /\ r[2] \in W
      BY DEF R
    <3>2. PICK q \in Reach(query) :
            \/ /\ q.action = "intersect" /\ r[1] = AnswerTo(q)
               /\ <<q.perm, r[2]>> \in M /\ <<q.goal, r[2]>> \in M
            \/ /\ q.action = "union" /\ r[2] = AnswerTo(q)
               /\ <<r[1], q.perm>> \in M /\ <<r[1], q.goal>> \in M
      BY DEF R
    <3> HIDE DEF S, M, W
    <3> QED
      BY <1>4, <3>1, <3>2
  <2>2. R \in SUBSET (W \X W)
    BY DEF R
  <2> HIDE DEF W
  <2> QED
    BY <2>1, <2>2, MovableIsLargest
<1>6. query \in Reach(query)
  BY BuiltMeansNoFailure, ReachIsLeast
<1>7. /\ (query.action = "intersect" /\ <<query.perm, c0>> \in M /\ <<query.goal, c0>> \in M)
         => <<AnswerTo(query), c0>> \in M
      /\ (query.action = "union" /\ <<c0, query.perm>> \in M /\ <<c0, query.goal>> \in M)
         => <<c0, AnswerTo(query)>> \in M
  <2> HIDE DEF M
  <2> QED
    BY <1>2, <1>5, <1>6
<1> QED
  BY <1>7

--------------------------------------------------------------------------------
(* What a successful call hands out is the answer to its question, or its  *)
(* own argument where that looks the same.                                 *)
Given ==
  /\ result = "built" => answer = AnswerTo(query)
  /\ result = "done" =>
       \/ answer = AnswerTo(query)
       \/ answer = query.perm /\ <<AnswerTo(query), query.perm>> \in Alike(Shapes, Perm \cup Objects)

(* No step makes this untrue.                                              *)
LEMMA GivenStep ==
  ASSUME IInv, Working, Given, [Next]_vars
  PROVE  Given'
<1>1. CASE Call
  BY <1>1 DEF Call, Given
<1>2. CASE Reuse \/ Share
  <2>1. PICK p : Asking /\ Deliver(p, stack) /\ (stack = <<>> => p = AnswerTo(query))
    <3>1. CASE Reuse
      <4>1. Current \in DOMAIN kids => Builds(Current)
        BY DEF IInv, TypeOK
      <4>2. stack = <<>> => New(Current) = AnswerTo(query)
        BY <3>1, <4>1 DEF Reuse, AnswerTo, Current
      <4> QED
        BY <3>1, <4>2 DEF Reuse
    <3>2. CASE Share
      <4>1. Current \in Key \cup FailureGoal /\ Current \notin FailureGoal
        BY <3>2, CurrentFacts DEF Share, IInv
      <4>2. stack = <<>> => Shared(Current) = AnswerTo(query)
        BY <3>2, <4>1, AnswerType DEF Share, AnswerTo, Current
      <4> QED
        BY <3>2, <4>2 DEF Share
    <3> QED
      BY <1>2, <3>1, <3>2
  <2> QED
    BY <2>1 DEF Deliver, Asking, Given
<1>3. CASE Build
  BY <1>3 DEF Build, Asking, Given
<1>4. CASE Finish
  <2> DEFINE n == Len(stack)
             st == SubSeq(stack, 1, n - 1)
  <2>1. /\ stack \in Seq(DOMAIN kids) /\ stack # <<>> /\ result = "busy" /\ TypeOK
        /\ n \in Nat \ {0} /\ Top \in DOMAIN kids /\ Top = stack[n]
    BY <1>4, TopFacts DEF Finish, IInv, TypeOK, Top
  <2>2. st # <<>> <=> n > 1
    BY <2>1, PopFacts
  <2>3. Deliver(New(Top), st)
    BY <1>4 DEF Finish
  <2> HIDE DEF st
  <2>4. CASE st = <<>>
    <3>1. n = 1
      BY <2>1, <2>2, <2>4
    <3>2. Top = query
      BY <2>1, <3>1 DEF Working
    <3>3. New(Top) = AnswerTo(query)
      BY <2>1, <3>2 DEF AnswerTo, TypeOK
    <3> QED
      BY <2>3, <2>4, <3>3 DEF Deliver, Given
  <2>5. CASE st # <<>>
    BY <2>1, <2>3, <2>5 DEF Deliver, Given
  <2> QED
    BY <2>4, <2>5
<1>5. CASE Fail
  <2>1. result' \in {"error", "panic"}
    BY <1>5 DEF Fail, FailureGoal, Failure, Goal
  <2> QED
    BY <2>1 DEF Given
<1>6. ASSUME UNCHANGED kids
      PROVE  Objects' = Objects /\ Shapes' = Shapes
  BY <1>6 DEF Objects, Shapes, NewShape
<1>7. CASE Identify
  <2>1. /\ result = "built" /\ result' = "done" /\ UNCHANGED <<query, kids, stack>>
        /\ answer' = IF DeepEqual(answer, query.perm) THEN query.perm ELSE answer
        /\ answer = AnswerTo(query)
    BY <1>7 DEF Identify, Given
  <2>2. query \in Reach(query)
    BY <2>1, BuiltMeansNoFailure, ReachIsLeast
  <2>3. answer \in Perm \cup Objects /\ query.perm \in Perm \cup Objects
    BY <2>1, <2>2, Asked
  <2>4. GraphOver(Shapes, Perm \cup Objects)
    BY <2>1, DoneGraph
  <2>5. DeepEqual(answer, query.perm) => <<answer, query.perm>> \in Alike(Shapes, Perm \cup Objects)
    BY <2>3, <2>4, DeepEqualIsAlike
  <2> QED
    BY <1>6, <2>1, <2>5 DEF Given
<1>8. CASE Return
  BY <1>8 DEF Return, Given
<1>9. CASE UNCHANGED vars
  BY <1>6, <1>9 DEF vars, Given
<1> QED
  BY <1>1, <1>2, <1>3, <1>4, <1>5, <1>7, <1>8, <1>9 DEF Next, Step

(* It is true of every call.                                               *)
LEMMA AlwaysGiven == Spec => []Given
<1>1. Init => Given
  BY DEF Init, Given
<1> QED
  BY <1>1, GivenStep, Invariance, AlwaysWorking, PTL DEF Spec

(* What has been handed out looks the same as the answer.                  *)
LEMMA HandedOut ==
  ASSUME IInv, Working, Given, result = "done"
  PROVE  /\ GraphOver(Shapes, Perm \cup Objects)
         /\ answer \in Perm \cup Objects /\ query.perm \in Perm \cup Objects
         /\ query.goal \in Perm \cup Objects /\ AnswerTo(query) \in Perm \cup Objects
         /\ <<AnswerTo(query), answer>> \in Alike(Shapes, Perm \cup Objects)
<1>1. query \in Reach(query)
  BY BuiltMeansNoFailure, ReachIsLeast
<1>2. /\ query.perm \in Perm \cup Objects /\ query.goal \in Perm \cup Objects
      /\ AnswerTo(query) \in Perm \cup Objects
  BY <1>1, Asked
<1>3. GraphOver(Shapes, Perm \cup Objects)
  BY DoneGraph
<1>4. <<AnswerTo(query), AnswerTo(query)>> \in Alike(Shapes, Perm \cup Objects)
  BY <1>2, <1>3, AlikeIsEquivalence
<1> QED
  BY <1>2, <1>3, <1>4 DEF Given

(* Converting a permission to one of the same shape, cyclic or not, gives  *)
(* that one: every base permission in it has been replaced.                *)
THEOREM ConversionTakesGoal == Spec => []ConvertTakesGoal
<1>1. IInv /\ Working /\ Given => ConvertTakesGoal
  <2> SUFFICES ASSUME IInv, Working, Given, Succeeded("convert"), SameNames,
                      \A q \in Involved : q.perm.kind = q.goal.kind /\ q.perm.kind # "wildcard"
               PROVE  DeepEqual(answer, query.goal)
    BY DEF ConvertTakesGoal
  <2> DEFINE W == Perm \cup Objects
             E == Alike(Shapes, W)
  <2>1. result = "done" /\ query.action = "convert"
    BY DEF Succeeded
  <2>2. /\ GraphOver(Shapes, W) /\ answer \in W /\ query.goal \in W
        /\ <<AnswerTo(query), answer>> \in E
    BY <2>1, HandedOut
  <2>3. <<AnswerTo(query), query.goal>> \in E
    BY <2>1, ConvertedIsGoal
  <2>4. <<answer, query.goal>> \in E
    <3> HIDE DEF W
    <3> QED
      BY <2>2, <2>3, AlikeIsEquivalence
  <2> QED
    BY <2>2, <2>4, DeepEqualIsAlike
<1> QED
  BY Invariance, AlwaysWorking, AlwaysGiven, <1>1, PTL

(* For comparable permissions the intersection can be used wherever it is  *)
(* given for one of its arguments: both can be moved to it, whatever       *)
(* cycles they have.                                                       *)
THEOREM IntersectionWithin == Spec => []IntersectIsSubset
<1>1. IInv /\ Working /\ Given => IntersectIsSubset
  <2> SUFFICES ASSUME IInv, Working, Given, Succeeded("intersect"), Comparable
               PROVE  AllMovable({<<query.perm, answer>>, <<query.goal, answer>>})
    BY DEF IntersectIsSubset
  <2> DEFINE W == Perm \cup Objects
             M == Movable(Shapes, W)
             E == Alike(Shapes, W)
  <2>1. result = "done" /\ query.action = "intersect"
    BY DEF Succeeded
  <2>2. /\ GraphOver(Shapes, W) /\ answer \in W /\ query.perm \in W /\ query.goal \in W
        /\ <<AnswerTo(query), answer>> \in E
    BY <2>1, HandedOut
  <2>3. <<query.perm, AnswerTo(query)>> \in M /\ <<query.goal, AnswerTo(query)>> \in M
    BY <2>1, MergedWithin
  <2>4. <<query.perm, answer>> \in M /\ <<query.goal, answer>> \in M
    <3> HIDE DEF W
    <3>1. <<query.perm, query.perm>> \in E /\ <<query.goal, query.goal>> \in E
      BY <2>2, AlikeIsEquivalence
    <3> QED
      BY <2>2, <2>3, <3>1, AlikeMoves
  <2> DEFINE pairs == {<<query.perm, answer>>, <<query.goal, answer>>}
  <2>5. pairs \in SUBSET (W \X W) /\ pairs \subseteq M
    BY <2>2, <2>4
  <2> HIDE DEF pairs
  <2>6. AllMovable(pairs)
    BY <2>2, <2>5, AllMovableIsMovable
  <2> QED
    BY <2>6 DEF pairs
<1> QED
  BY Invariance, AlwaysWorking, AlwaysGiven, <1>1, PTL

(* ... and the union can be moved to both.                                 *)
THEOREM UnionAround == Spec => []UnionIsSuperset
<1>1. IInv /\ Working /\ Given => UnionIsSuperset
  <2> SUFFICES ASSUME IInv, Working, Given, Succeeded("union"), Comparable
               PROVE  AllMovable({<<answer, query.perm>>, <<answer, query.goal>>})
    BY DEF UnionIsSuperset
  <2> DEFINE W == Perm \cup Objects
             M == Movable(Shapes, W)
             E == Alike(Shapes, W)
  <2>1. result = "done" /\ query.action = "union"
    BY DEF Succeeded
  <2>2. /\ GraphOver(Shapes, W) /\ answer \in W /\ query.perm \in W /\ query.goal \in W
        /\ <<AnswerTo(query), answer>> \in E
    BY <2>1, HandedOut
  <2>3. <<AnswerTo(query), query.perm>> \in M /\ <<AnswerTo(query), query.goal>> \in M
    BY <2>1, MergedWithin
  <2>4. <<answer, query.perm>> \in M /\ <<answer, query.goal>> \in M
    <3> HIDE DEF W
    <3>1. <<query.perm, query.perm>> \in E /\ <<query.goal, query.goal>> \in E
      BY <2>2, AlikeIsEquivalence
    <3> QED
      BY <2>2, <2>3, <3>1, AlikeMoves
  <2> DEFINE pairs == {<<answer, query.perm>>, <<answer, query.goal>>}
  <2>5. pairs \in SUBSET (W \X W) /\ pairs \subseteq M
    BY <2>2, <2>4
  <2> HIDE DEF pairs
  <2>6. AllMovable(pairs)
    BY <2>2, <2>5, AllMovableIsMovable
  <2> QED
    BY <2>6 DEF pairs
<1> QED
  BY Invariance, AlwaysWorking, AlwaysGiven, <1>1, PTL

(* Nothing is given up without need: the intersection can be moved to      *)
(* whatever both arguments can be moved to, and whatever can be moved to   *)
(* both arguments can be moved to the union.                               *)
THEOREM LosesNothing == Spec => []NothingIsLost
<1>1. IInv /\ Working /\ Given => NothingIsLost
  <2> SUFFICES ASSUME IInv, Working, Given, Succeeded("intersect") \/ Succeeded("union"),
                      SameNames, NEW c \in Object,
                      AllMovable({Towards(query.perm, c), Towards(query.goal, c)})
               PROVE  AllMovable({Towards(answer, c)})
    BY DEF NothingIsLost
  <2> DEFINE W == Perm \cup Objects
             M == Movable(Shapes, W)
             E == Alike(Shapes, W)
  <2>1. result = "done" /\ query.action \in {"intersect", "union"}
    BY DEF Succeeded
  <2>2. /\ GraphOver(Shapes, W) /\ answer \in W /\ query.perm \in W /\ query.goal \in W
        /\ <<AnswerTo(query), answer>> \in E
    BY <2>1, HandedOut
  <2>3. c \in W
    BY DEF Objects
  <2>4. Towards(query.perm, c) \in M /\ Towards(query.goal, c) \in M
    <3>1. {Towards(query.perm, c), Towards(query.goal, c)} \in SUBSET (W \X W)
      BY <2>2, <2>3 DEF Towards
    <3>2. {Towards(query.perm, c), Towards(query.goal, c)} \subseteq M
      BY <2>2, <3>1, AllMovableIsMovable
    <3> QED
      BY <3>2
  <2>5. <<c, c>> \in E
    <3> HIDE DEF W
    <3> QED
      BY <2>2, <2>3, AlikeIsEquivalence
  <2>6. Towards(answer, c) \in M
    <3>1. CASE query.action = "intersect"
      <4>1. <<AnswerTo(query), c>> \in M
        BY <2>1, <2>3, <2>4, <3>1, MergedAround DEF Towards
      <4>2. <<answer, c>> \in M
        <5> HIDE DEF W
        <5> QED
          BY <2>2, <2>5, <4>1, AlikeMoves
      <4> QED
        BY <3>1, <4>2 DEF Towards
    <3>2. CASE query.action = "union"
      <4>1. <<c, AnswerTo(query)>> \in M
        BY <2>1, <2>3, <2>4, <3>2, MergedAround DEF Towards
      <4>2. <<c, answer>> \in M
        <5> HIDE DEF W
        <5> QED
          BY <2>2, <2>5, <4>1, AlikeMoves
      <4> QED
        BY <3>2, <4>2 DEF Towards
    <3> QED
      BY <2>1, <3>1, <3>2
  <2>7. {Towards(answer, c)} \in SUBSET (W \X W)
    BY <2>2, <2>3 DEF Towards
  <2> QED
    BY <2>2, <2>6, <2>7, AllMovableIsMovable
<1> QED
  BY Invariance, AlwaysWorking, AlwaysGiven, <1>1, PTL

--------------------------------------------------------------------------------
(* Conversion to a base permission. *)

(* Limiting a target twice is limiting it once. *)
LEMMA TargetBaseIdempotent ==
  ASSUME NEW t \in BasePermission, NEW b \in BasePermission
  PROVE  TargetBase(TargetBase(t, b), b) = TargetBase(t, b)
<1>1. CASE "R" \in b
  BY <1>1 DEF TargetBase, Owned
<1>2. CASE "R" \notin b
  <2> DEFINE last == StripReads(StripWrites(Owned(t, b)))
  <2>1. TargetBase(t, b) = last
    BY <1>2 DEF TargetBase
  <2>2. ~({"w", "W"} \subseteq last) /\ ~({"r", "R"} \subseteq last)
    BY DEF StripReads, StripWrites
  <2>3. Owned(last, b) = last
    BY DEF Owned, StripReads, StripWrites
  <2> HIDE DEF last
  <2> QED
    BY <1>2, <2>1, <2>2, <2>3 DEF TargetBase, StripReads, StripWrites
<1> QED
  BY <1>1, <1>2

(* A target is not linear where the pointer has no exclusive read.         *)
LEMMA TargetBaseLinear ==
  ASSUME NEW t \in BasePermission, NEW b \in BasePermission,
         isLinear(TargetBase(t, b))
  PROVE  "R" \in b
BY DEF TargetBase, StripReads, StripWrites, isLinear

(* What conversion to a base permission gives a child, unless it is nil.   *)
LEMMA ConvertedChild ==
  ASSUME IInv, NEW k \in DOMAIN kids, ToBase(k), NEW i \in DOMAIN kids[k]
  PROVE  /\ NextBase(k) = k.goal.base /\ NextBase(k) \in BasePermission
         /\ k.action \in {"convert", "strict"}
         /\ \/ kids[k][i].kind = "nil"
            \/ \E t \in BasePermission :
                 kids[k][i].base
                   = ChildBase(k.perm.kind, t, k.goal.base, k.action)
<1>1. /\ k \in Key /\ Builds(k) /\ k.goal \in Perm /\ k.perm \in Perm
      /\ k.action \in {"convert", "strict"}
  BY DEF IInv, TypeOK, Key, ToBase
<1>2. \A q : q.action \in {"convert", "strict"} => NextBase(q) = q.goal.base
  BY DEF NextBase, mergeBase, contravariant
<1>3. NextBase(k) = k.goal.base /\ NextBase(k) \in BasePermission
  BY <1>1, <1>2, PermKinds
<1> DEFINE g == Goals(k)[i]
           c == AllChildren(k.perm)[i]
           b == ChildBase(k.perm.kind, c.base, k.goal.base, k.action)
<1>4. /\ i \in DOMAIN Goals(k) /\ g \in Key /\ kids[k][i] = AnswerTo(g)
  <2>1. i \in 1..Len(kids[k]) /\ Len(kids[k]) \in Nat
    BY DEF IInv, TypeOK
  <2>2. /\ Len(kids[k]) <= Len(Goals(k))
        /\ g \notin FailureGoal /\ kids[k][i] = AnswerTo(g)
    BY DEF IInv, Faithful
  <2>3. Goals(k) \in Seq(Key \cup FailureGoal)
    BY <1>1, GoalsType
  <2>4. i \in 1..Len(Goals(k))
    BY <2>1, <2>2, <2>3
  <2> QED
    BY <2>2, <2>3, <2>4
<1>5. g = ChildToBase(k, c)
  BY <1>1, <1>4 DEF Goals
<1>6. g = Goal(c, Base(b), k.action)
  <2>1. Failure(c, "panic") \notin Key
    BY DEF Failure, Goal, Key, Action
  <2> QED
    BY <1>4, <1>5, <2>1 DEF ChildToBase
<1>7. /\ g.perm = c /\ g.goal = Base(b) /\ g.action = k.action
      /\ g.goal.kind = "base" /\ g.goal.base = b
      /\ c \in Perm /\ ToBase(g)
  <2>1. g.perm = c /\ g.goal = Base(b) /\ g.action = k.action
    BY <1>6 DEF Goal
  <2>2. g.goal.kind = "base" /\ g.goal.base = b
    BY <2>1 DEF Base
  <2>3. c \in Perm
    BY <1>4, <2>1 DEF Key
  <2> QED
    BY <1>1, <2>1, <2>2, <2>3 DEF ToBase
<1> HIDE DEF g, b
<1>8. kids[k][i].kind = "nil" \/ kids[k][i].base = b
  <2>1. CASE c.kind \in Composite
    <3>1. AnswerTo(g) = New(g)
      BY <1>7, <2>1 DEF AnswerTo, Builds
    <3>2. New(g).base = b
      BY <1>1, <1>2, <1>7 DEF New
    <3> QED
      BY <1>4, <3>1, <3>2
  <2>2. CASE c.kind \in {"base", "wildcard"}
    <3>1. AnswerTo(g) = Shared(g)
      BY <2>2, <1>7 DEF Builds, Composite, StructuredKind, AnswerTo
    <3>2. Shared(g) = g.goal
      BY <1>7, <2>2 DEF Shared, SharesGoal, SharesPerm, MergesBases
    <3>3. AnswerTo(g) = g.goal
      BY <3>1, <3>2
    <3> QED
      BY <1>4, <1>7, <3>3
  <2>3. CASE c.kind = "nil"
    <3>1. AnswerTo(g) = Shared(g)
      BY <2>3, <1>7 DEF Builds, Composite, AnswerTo
    <3>2. Shared(g) = g.perm
      BY <1>7, <2>3 DEF Shared, SharesGoal, SharesPerm, MergesBases
    <3>3. AnswerTo(g) = g.perm
      BY <3>1, <3>2
    <3> QED
      BY <1>4, <1>7, <2>3, <3>3
  <2>4. c.kind \in StructuredKind \cup {"base"}
    BY <1>7, PermKinds
  <2> QED
    BY <2>1, <2>2, <2>3, <2>4 DEF Composite
<1>9. c.base \in BasePermission
  BY <1>7, PermKinds
<1> QED
  BY <1>1, <1>3, <1>8, <1>9 DEF b

(* Converting what has been converted to a base permission once more       *)
(* changes nothing, in any object built so far.                            *)
THEOREM Idempotence == Spec => []ConvertIsIdempotent
<1>1. IInv => ConvertIsIdempotent
  <2> SUFFICES ASSUME IInv, NEW k \in DOMAIN kids, ToBase(k),
                      NEW i \in DOMAIN kids[k], kids[k][i].kind # "nil"
               PROVE  ChildBase(k.perm.kind, kids[k][i].base, NextBase(k), k.action)
                        = kids[k][i].base
    BY DEF ConvertIsIdempotent, Reconverted
  <2>1. /\ NextBase(k) = k.goal.base /\ NextBase(k) \in BasePermission
        /\ k.action \in {"convert", "strict"}
    BY ConvertedChild
  <2>2. PICK t \in BasePermission :
          kids[k][i].base = ChildBase(k.perm.kind, t, k.goal.base, k.action)
    BY ConvertedChild
  <2> QED
    BY <2>1, <2>2, TargetBaseIdempotent DEF ChildBase
<1> QED
  BY Invariance, <1>1, PTL

(* Conversion to a base permission with which exclusive reading implies    *)
(* reading leaves no linear permission inside one that is not linear, but  *)
(* for functions and interfaces.                                           *)
THEOREM Consistency == Spec => []ConvertIsConsistent
<1>1. IInv => ConvertIsConsistent
  <2> SUFFICES ASSUME IInv, NEW k \in DOMAIN kids, Converts(k),
                      "R" \in NextBase(k) => "r" \in NextBase(k),
                      NEW i \in DOMAIN kids[k], kids[k][i].kind # "nil",
                      isLinear(kids[k][i].base)
               PROVE  isLinear(NextBase(k))
    BY DEF ConvertIsConsistent, LinearInLinear
  <2>1. /\ NextBase(k) = k.goal.base /\ NextBase(k) \in BasePermission
    BY ConvertedChild DEF Converts
  <2>2. PICK t \in BasePermission :
          kids[k][i].base = ChildBase(k.perm.kind, t, k.goal.base, k.action)
    BY ConvertedChild DEF Converts
  <2>3. CASE k.perm.kind = "pointer" /\ k.action = "convert"
    <3>1. "R" \in NextBase(k)
      BY <2>1, <2>2, <2>3, TargetBaseLinear DEF ChildBase
    <3> QED
      BY <3>1 DEF isLinear
  <2>4. CASE ~(k.perm.kind = "pointer" /\ k.action = "convert")
    BY <2>1, <2>2, <2>4 DEF ChildBase, Converts
  <2> QED
    BY <2>3, <2>4
<1> QED
  BY Invariance, <1>1, PTL
================================================================================
