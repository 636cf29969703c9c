-------------------------- MODULE AssignableTo_proofs --------------------------
(***************************************************************************)
(* Proofs about assignability.  First about the rules themselves: the      *)
(* types of their calls, the coinduction principle that the definition     *)
(* with refuted questions is equivalent to, and by it what the three modes *)
(* have to do with each other.  Then about the recursive check: type       *)
(* correctness, the inductive invariant of the table with its provisional  *)
(* entries, and what follows from it for the answers.  All of it holds for *)
(* every graph of permissions.                                             *)
(***************************************************************************)
EXTENDS AssignableTo, Permission_proofs

--------------------------------------------------------------------------------
(* The rules.                                                              *)

(* Calls for children in the order of the source are keys or missing       *)
(* ones.                                                                   *)
LEMMA CovariantType ==
  ASSUME NEW s \in Seq(Perm), NEW t \in Seq(Perm), NEW mode \in Mode
  PROVE  Covariant(s, t, mode) \in Seq(Key \cup MissingGoal)
<1>1. \A i \in DOMAIN s : IF i \in DOMAIN t THEN Goal(s[i], t[i], mode) \in Key
                                           ELSE Missing(s[i]) \in MissingGoal
  BY DEF Key, Goal, MissingGoal
<1>2. DOMAIN s = 1..Len(s) /\ Len(s) \in Nat
  OBVIOUS
<1> QED
  BY <1>1, <1>2 DEF Covariant

(* The same with the sides exchanged, as for receivers and parameters.     *)
LEMMA ContravariantType ==
  ASSUME NEW s \in Seq(Perm), NEW t \in Seq(Perm), NEW mode \in Mode
  PROVE  Contravariant(s, t, mode) \in Seq(Key \cup MissingGoal)
<1>1. \A i \in DOMAIN s : IF i \in DOMAIN t THEN Goal(t[i], s[i], mode) \in Key
                                           ELSE Missing(s[i]) \in MissingGoal
  BY DEF Key, Goal, MissingGoal
<1>2. DOMAIN s = 1..Len(s) /\ Len(s) \in Nat
  OBVIOUS
<1> QED
  BY <1>1, <1>2 DEF Contravariant

(* The comparison of the base permissions is a single key.                 *)
LEMMA BaseGoalType ==
  ASSUME NEW A \in Object, NEW B \in Object, NEW mode \in Mode
  PROVE  BaseGoal(A, B, mode) \in Seq(Key \cup MissingGoal)
<1>1. Goal(Base(A.base), Base(B.base), mode) \in Key
  BY ShapeType DEF Key, Goal, Perm
<1> QED
  BY <1>1 DEF BaseGoal

(* Every method of the target interface gives a key or a missing method.   *)
LEMMA MethodGoalsType ==
  ASSUME NEW A \in Object, NEW B \in Object, NEW mode \in Mode
  PROVE  MethodGoals(A, B, mode) \in Seq(Key \cup MissingGoal)
<1>1. ASSUME NEW i \in DOMAIN elems(B)
      PROVE  MethodGoal(A, elems(B)[i], mode) \in Key \cup MissingGoal
  <2> DEFINE r == elems(B)[i]
             m == CHOOSE q \in Methods(A) : name(q) = name(r)
  <2>1. r \in Perm
    BY ShapeType
  <2>2. CASE \E q \in Methods(A) : name(q) = name(r)
    <3>1. m \in Methods(A)
      BY <2>2
    <3> HIDE DEF m
    <3>2. PICK j \in DOMAIN elems(A) : m = elems(A)[j]
      BY <3>1 DEF Methods
    <3>3. m \in Perm
      BY <3>2, ShapeType
    <3> QED
      BY <2>1, <2>2, <3>3 DEF MethodGoal, Key, Goal, m
  <2>3. CASE ~\E q \in Methods(A) : name(q) = name(r)
    BY <2>1, <2>3 DEF MethodGoal, MissingGoal
  <2> QED
    BY <2>2, <2>3
<1>2. DOMAIN elems(B) = 1..Len(elems(B)) /\ Len(elems(B)) \in Nat
  BY ShapeType
<1> QED
  BY <1>1, <1>2 DEF MethodGoals

(* The recursive calls of every isAssignableTo method are a sequence of    *)
(* keys and missing children, whatever the kinds on both sides.            *)
LEMMA GoalsType ==
  ASSUME NEW k \in Key
  PROVE  Goals(k) \in Seq(Key \cup MissingGoal)
<1> DEFINE A   == k.A
           B   == k.B
           ref == copyAsReference(k.mode)
<1>1. k.mode \in Mode /\ ref \in Mode /\ "move" \in Mode /\ A \in Perm /\ B \in Perm
  BY DEF Key, Mode, copyAsReference
<1>2. CASE ~LocalOK(k) \/ A.kind \in {"base", "nil", "wildcard"}
  BY <1>2 DEF Goals, Calls
<1>3. CASE LocalOK(k) /\ A.kind \notin {"base", "nil", "wildcard"}
  <2>1. A \in Object /\ A.kind \in StructuredKind
    BY <1>1, <1>3, ObjectAssumption DEF Perm, Base, ObjectAssumption
  <2>2. B.kind = A.kind
    BY <1>3, <2>1 DEF LocalOK, StructuredKind
  <2>3. B \in Object
    BY <1>1, <1>3, <2>2 DEF Perm, Base
  <2>4. \A m \in Mode : /\ BaseGoal(A, B, m) \in Seq(Key \cup MissingGoal)
                        /\ Covariant(elems(A), elems(B), m) \in Seq(Key \cup MissingGoal)
                        /\ MethodGoals(A, B, m) \in Seq(Key \cup MissingGoal)
    BY <2>1, <2>3, ShapeType, BaseGoalType, CovariantType, MethodGoalsType
  <2>5. CASE A.kind \in {"pointer", "chan", "slice", "map", "array", "struct",
                         "tuple", "interface"}
    <3>1. \A m1, m2 \in Mode :
            /\ BaseGoal(A, B, m1) \o Covariant(elems(A), elems(B), m2)
                 \in Seq(Key \cup MissingGoal)
            /\ BaseGoal(A, B, m1) \o MethodGoals(A, B, m2)
                 \in Seq(Key \cup MissingGoal)
      BY <2>4
    <3> QED
      BY <1>1, <1>3, <2>5, <3>1 DEF Goals, Calls
  <2>6. CASE A.kind = "func"
    <3> DEFINE c1 == <<Goal(Base(B.base \ {"o"}), Base(A.base \ {"o"}), ref)>>
               c2 == Contravariant(recvs(A), recvs(B), "move")
               c3 == Contravariant(params(A), params(B), "move")
               c4 == Covariant(results(A), results(B), "move")
    <3>1. Goal(Base(B.base \ {"o"}), Base(A.base \ {"o"}), ref) \in Key
      BY <1>1, <2>1, <2>3, ShapeType DEF Key, Goal, Perm, BasePermission
    <3>2. c1 \in Seq(Key \cup MissingGoal)
      BY <3>1
    <3>3. /\ c2 \in Seq(Key \cup MissingGoal)
          /\ c3 \in Seq(Key \cup MissingGoal)
          /\ c4 \in Seq(Key \cup MissingGoal)
      BY <1>1, <2>1, <2>3, ShapeType, CovariantType, ContravariantType
    <3> HIDE DEF c1, c2, c3, c4
    <3>4. c1 \o c2 \o c3 \o c4 \in Seq(Key \cup MissingGoal)
      BY <3>2, <3>3
    <3>5. Goals(k) = FuncGoals(A, B, ref)
      BY <1>3, <2>6 DEF Goals, Calls
    <3> QED
      BY <3>4, <3>5 DEF FuncGoals, c1, c2, c3, c4
  <2> QED
    BY <1>3, <2>1, <2>5, <2>6 DEF StructuredKind
<1> QED
  BY <1>2, <1>3

(* A missing child is never mistaken for a question in the table.          *)
LEMMA MissingIsNoKey == Key \cap MissingGoal = {}
BY DEF Key, MissingGoal, Missing, Goal, Mode

--------------------------------------------------------------------------------
(* There are finitely many permissions, and so finitely many questions.    *)
LEMMA UniverseFinite ==
  /\ IsFiniteSet(Perm)
  /\ IsFiniteSet(Key)
  /\ IsFiniteSet(Key \cup MissingGoal)
  /\ IsFiniteSet(Perm \X Perm \X BOOLEAN)
<1>1. IsFiniteSet(Mode) /\ IsFiniteSet(BOOLEAN)
  <2>1. \A x : IsFiniteSet({x})
    BY FS_Singleton
  <2>2. \A S, T : IsFiniteSet(S) /\ IsFiniteSet(T) => IsFiniteSet(S \cup T)
    BY FS_Union
  <2>3. \A x, y, z : IsFiniteSet({x} \cup ({y} \cup {z}))
    BY <2>1, <2>2
  <2>4. Mode = {"move"} \cup ({"copy"} \cup {"ref"})
    BY DEF Mode
  <2>5. IsFiniteSet(Mode)
    BY <2>3, <2>4
  <2>6. BOOLEAN = {TRUE} \cup {FALSE}
    OBVIOUS
  <2>7. IsFiniteSet(BOOLEAN)
    <3>1. IsFiniteSet({TRUE}) /\ IsFiniteSet({FALSE})
      BY FS_Singleton, Zenon
    <3>2. IsFiniteSet({TRUE} \cup {FALSE})
      BY <3>1, FS_Union, Zenon
    <3> QED
      BY <2>6, <3>2, Zenon
  <2> QED
    BY <2>5, <2>7
<1>2. IsFiniteSet(Perm)
  BY PermFinite
<1>3. IsFiniteSet((Perm \X Perm) \X Mode) /\ IsFiniteSet((Perm \X Perm) \X BOOLEAN)
  BY <1>1, <1>2, FS_Product
<1>4. IsFiniteSet(Key)
  <2> DEFINE f == [t \in (Perm \X Perm) \X Mode |-> Goal(t[1][1], t[1][2], t[2])]
             I == {f[t] : t \in (Perm \X Perm) \X Mode}
  <2>1. IsFiniteSet(I)
    <3> HIDE DEF f
    <3> QED
      BY <1>3, FiniteImage
  <2>2. ASSUME NEW k \in Key
        PROVE  k \in I
    <3>1. <<<<k.A, k.B>>, k.mode>> \in (Perm \X Perm) \X Mode
      BY DEF Key
    <3>2. f[<<<<k.A, k.B>>, k.mode>>] = k
      BY <3>1 DEF Key, Goal
    <3> HIDE DEF f
    <3> QED
      BY <3>1, <3>2
  <2> QED
    BY <2>1, <2>2, FS_Subset
<1>5. IsFiniteSet(MissingGoal)
  <2> DEFINE f == [p \in Perm |-> Missing(p)]
  <2>1. IsFiniteSet({f[p] : p \in Perm})
    BY <1>2, FiniteImage
  <2>2. {f[p] : p \in Perm} = MissingGoal
    BY DEF MissingGoal
  <2> QED
    BY <2>1, <2>2
<1>6. IsFiniteSet(Perm \X Perm \X BOOLEAN)
  <2> DEFINE f == [t \in (Perm \X Perm) \X BOOLEAN |-> <<t[1][1], t[1][2], t[2]>>]
             I == {f[t] : t \in (Perm \X Perm) \X BOOLEAN}
  <2>1. IsFiniteSet(I)
    <3> HIDE DEF f
    <3> QED
      BY <1>3, FiniteImage
  <2>2. ASSUME NEW t \in Perm \X Perm \X BOOLEAN
        PROVE  t \in I
    <3>1. <<<<t[1], t[2]>>, t[3]>> \in (Perm \X Perm) \X BOOLEAN
      OBVIOUS
    <3>2. f[<<<<t[1], t[2]>>, t[3]>>] = t
      BY <3>1
    <3> HIDE DEF f
    <3> QED
      BY <3>1, <3>2
  <2> QED
    BY <2>1, <2>2, FS_Subset
<1> QED
  BY <1>2, <1>4, <1>5, <1>6, FS_Union

(* What spreads from a set of questions through their callers is the least *)
(* set that contains it and the callers of its members.                    *)
LEMMA SpreadIsLeast ==
  ASSUME NEW bad \in SUBSET (Key \cup MissingGoal)
  PROVE  /\ Spread(bad) \subseteq Key \cup MissingGoal
         /\ bad \subseteq Spread(bad)
         /\ Callers(Spread(bad)) \subseteq Spread(bad)
         /\ \A t \in SUBSET (Key \cup MissingGoal) :
              bad \subseteq t /\ Callers(t) \subseteq t => Spread(bad) \subseteq t
<1> DEFINE U    == Key \cup MissingGoal
           step == [s \in SUBSET U |-> s \cup Callers(s)]
           grow[s \in SUBSET U] == LET next == s \cup Callers(s)
                                   IN  IF next = s THEN s ELSE grow[next]
<1>1. Round(step, U)
  BY DEF Round, Callers
<1>2. grow = [s \in SUBSET U |-> LET next == s \cup Callers(s)
                                 IN  IF next = s THEN s ELSE grow[next]]
  <2>1. PICK g : Walk(step, U, g)
    BY <1>1, WalkExists
  <2>2. g = [s \in SUBSET U |-> LET next == s \cup Callers(s)
                                IN  IF next = s THEN s ELSE g[next]]
    BY <2>1 DEF Walk
  <2> QED
    BY <2>2, Zenon
<1>3. Spread(bad) = grow[bad]
  BY DEF Spread, Closure
<1> HIDE DEF grow
<1>4. Walk(step, U, grow)
  BY <1>2 DEF Walk
<1>5. Least(step, U, bad, grow[bad])
  BY <1>1, <1>4, UniverseFinite, WalkIsLeast
<1> QED
  BY <1>3, <1>5 DEF Least

(* The same for what the calls below a question can reach. *)
LEMMA ReachIsLeast ==
  ASSUME NEW k \in Key
  PROVE  /\ Reach(k) \subseteq Key
         /\ k \in Reach(k)
         /\ CallsOf(Reach(k)) \subseteq Reach(k)
         /\ \A t \in SUBSET Key : k \in t /\ CallsOf(t) \subseteq t => Reach(k) \subseteq t
<1> DEFINE step == [s \in SUBSET Key |-> s \cup CallsOf(s)]
           grow[s \in SUBSET Key] == LET next == s \cup CallsOf(s)
                                     IN  IF next = s THEN s ELSE grow[next]
<1>1. Round(step, Key)
  <2>1. \A s, t \in SUBSET Key : s \subseteq t => CallsOf(s) \subseteq CallsOf(t)
    BY DEF CallsOf
  <2>2. \A s \in SUBSET Key : CallsOf(s) \subseteq Key
    BY DEF CallsOf
  <2> QED
    BY <2>1, <2>2 DEF Round
<1>2. grow = [s \in SUBSET Key |-> LET next == s \cup CallsOf(s)
                                   IN  IF next = s THEN s ELSE grow[next]]
  <2>1. PICK g : Walk(step, Key, g)
    BY <1>1, WalkExists
  <2>2. g = [s \in SUBSET Key |-> LET next == s \cup CallsOf(s)
                                  IN  IF next = s THEN s ELSE g[next]]
    BY <2>1 DEF Walk
  <2> QED
    BY <2>2, Zenon
<1>3. Reach(k) = grow[{k}]
  BY DEF Reach, Closure
<1> HIDE DEF grow
<1>4. Walk(step, Key, grow)
  BY <1>2 DEF Walk
<1>5. Least(step, Key, {k}, grow[{k}])
  BY <1>1, <1>4, UniverseFinite, WalkIsLeast
<1> QED
  BY <1>3, <1>5 DEF Least

--------------------------------------------------------------------------------
(* The questions that no chain of calls refutes and none makes panic. *)
Accepted == Key \ (Refuted \cup Panicking)

LEMMA AssignableIsAccepted ==
  ASSUME NEW A \in Perm, NEW B \in Perm, NEW mode \in Mode
  PROVE  Assignable(A, B, mode) <=> Goal(A, B, mode) \in Accepted
BY DEF Assignable, Accepted, Key, Goal

(* They prove each other. *)
LEMMA AcceptedSupports == Supports(Accepted)
<1>1. /\ {k \in Key : ~LocalOK(k)} \in SUBSET (Key \cup MissingGoal)
      /\ MissingGoal \in SUBSET (Key \cup MissingGoal)
  OBVIOUS
<1>2. /\ {k \in Key : ~LocalOK(k)} \subseteq Refuted /\ Callers(Refuted) \subseteq Refuted
      /\ MissingGoal \subseteq Panicking /\ Callers(Panicking) \subseteq Panicking
  BY <1>1, SpreadIsLeast DEF Refuted, Panicking
<1>3. ASSUME NEW q \in Accepted
      PROVE  LocalOK(q) /\ GoalSet(q) \subseteq Accepted
  <2>1. q \in Key /\ LocalOK(q)
    BY <1>2 DEF Accepted
  <2>2. GoalSet(q) \subseteq Key \cup MissingGoal
    BY <2>1, GoalsType DEF GoalSet
  <2>3. GoalSet(q) \cap Refuted = {} /\ GoalSet(q) \cap Panicking = {}
    BY <1>2, <2>1 DEF Accepted, Callers
  <2> QED
    BY <1>2, <2>1, <2>2, <2>3 DEF Accepted
<1> QED
  BY <1>3 DEF Supports

(* Whatever proves itself is accepted: refutations and panics spread from  *)
(* questions outside of it and never into it.                              *)
LEMMA SupportedAccepted ==
  ASSUME NEW R \in SUBSET Key, Supports(R)
  PROVE  R \subseteq Accepted
<1> DEFINE Outside == (Key \cup MissingGoal) \ R
<1>1. Callers(Outside) \subseteq Outside
  BY DEF Callers, Supports
<1>2. {k \in Key : ~LocalOK(k)} \subseteq Outside /\ MissingGoal \subseteq Outside
  BY MissingIsNoKey DEF Supports
<1>3. Refuted \subseteq Outside /\ Panicking \subseteq Outside
  BY <1>1, <1>2, SpreadIsLeast DEF Refuted, Panicking
<1> QED
  BY <1>3 DEF Accepted

(* The two definitions of assignability agree: a question is assignable if *)
(* and only if it lies in a set of questions that proves itself.           *)
THEOREM AssignableIsCoinductive ==
  ASSUME NEW k \in Key
  PROVE  Assignable(k.A, k.B, k.mode) <=> Coassignable(k)
<1>1. k.A \in Perm /\ k.B \in Perm /\ k.mode \in Mode /\ Goal(k.A, k.B, k.mode) = k
  BY DEF Key, Goal
<1>2. Accepted \in SUBSET Key
  BY DEF Accepted
<1> QED
  BY <1>1, <1>2, AssignableIsAccepted, AcceptedSupports, SupportedAccepted
     DEF Coassignable

(* What the rules ask of a question if the answers to R are given: the     *)
(* kinds of test and of calls there are, one line each.                    *)
ChildrenIn(s, t, mode, R) ==
  \A i \in DOMAIN s : i \in DOMAIN t /\ Goal(s[i], t[i], mode) \in R

SwappedIn(s, t, mode, R) ==
  \A i \in DOMAIN s : i \in DOMAIN t /\ Goal(t[i], s[i], mode) \in R

MethodsIn(A, B, mode, R) ==
  \A i \in DOMAIN elems(B) :
    \E m \in Methods(A) : /\ name(m) = name(elems(B)[i])
                          /\ Goal(m, elems(B)[i], mode) \in R

ByReference == {"chan", "slice", "map"}
ByValue     == {"array", "struct", "tuple"}

Allowed(k, R) ==
  LET A   == k.A
      B   == k.B
      ref == copyAsReference(k.mode)
  IN  /\ A.kind = "base" => B.kind = "base" /\ BaseAssignable(A.base, B.base, k.mode)
      /\ A.kind = "nil" => B.kind \in NilAssignable
      /\ A.kind # "wildcard"
      /\ A.kind \in {"pointer"} \cup ByReference \cup ByValue =>
           /\ B.kind = A.kind
           /\ A.kind = "tuple" => Len(elems(A)) = Len(elems(B))
           /\ Goal(Base(A.base), Base(B.base),
                   IF A.kind \in ByReference THEN ref ELSE k.mode) \in R
           /\ ChildrenIn(elems(A), elems(B),
                         IF A.kind \in ByValue THEN k.mode ELSE ref, R)
      /\ A.kind = "func" =>
           /\ B.kind = "func"
           /\ "o" \in B.base => "o" \in A.base
           /\ Goal(Base(B.base \ {"o"}), Base(A.base \ {"o"}), ref) \in R
           /\ SwappedIn(recvs(A), recvs(B), "move", R)
           /\ SwappedIn(params(A), params(B), "move", R)
           /\ ChildrenIn(results(A), results(B), "move", R)
      /\ A.kind = "interface" =>
           /\ B.kind = "interface"
           /\ Goal(Base(A.base), Base(B.base), ref) \in R
           /\ MethodsIn(A, B, ref, R)

(* Calls for children lead into R if no child is missing and all of them   *)
(* do.                                                                     *)
LEMMA ChildrenMembers ==
  ASSUME NEW s \in Seq(Perm), NEW t \in Seq(Perm), NEW mode \in Mode,
         NEW R \in SUBSET Key
  PROVE  /\ Members(Covariant(s, t, mode)) \subseteq R <=> ChildrenIn(s, t, mode, R)
         /\ Members(Contravariant(s, t, mode)) \subseteq R <=> SwappedIn(s, t, mode, R)
<1>1. \A i \in DOMAIN s : Missing(s[i]) \notin R
  BY MissingIsNoKey DEF MissingGoal
<1> QED
  BY <1>1 DEF Members, Covariant, Contravariant, ChildrenIn, SwappedIn

(* Method calls lead into R if every method of the target is found in the  *)
(* source: as their names are distinct, there is one to choose from.       *)
LEMMA MethodMembers ==
  ASSUME NEW A \in Object, A.kind = "interface", NEW B \in Object, NEW mode \in Mode,
         NEW R \in SUBSET Key
  PROVE  Members(MethodGoals(A, B, mode)) \subseteq R <=> MethodsIn(A, B, mode, R)
<1>1. ASSUME NEW i \in DOMAIN elems(B)
      PROVE  MethodGoals(A, B, mode)[i] \in R
               <=> \E m \in Methods(A) : /\ name(m) = name(elems(B)[i])
                                         /\ Goal(m, elems(B)[i], mode) \in R
  <2> DEFINE r == elems(B)[i]
             chosen == CHOOSE m \in Methods(A) : name(m) = name(r)
  <2>1. MethodGoals(A, B, mode)[i] = MethodGoal(A, r, mode)
    BY DEF MethodGoals
  <2>2. r \in Perm
    BY ShapeType
  <2>3. CASE \E m \in Methods(A) : name(m) = name(r)
    <3>1. chosen \in Methods(A) /\ name(chosen) = name(r)
      BY <2>3
    <3>2. \A m \in Methods(A) : name(m) = name(r) => m = chosen
      <4> HIDE DEF chosen
      <4> QED
        BY <3>1, MethodNameAssumption DEF MethodNameAssumption, Methods
    <3>3. MethodGoal(A, r, mode) = Goal(chosen, r, mode)
      BY <2>3 DEF MethodGoal
    <3> HIDE DEF chosen, r
    <3>4. Goal(chosen, r, mode) \in R
            <=> \E m \in Methods(A) : name(m) = name(r) /\ Goal(m, r, mode) \in R
      BY <3>1, <3>2
    <3> QED
      BY <2>1, <3>3, <3>4 DEF r
  <2>4. CASE ~\E m \in Methods(A) : name(m) = name(r)
    <3>1. MethodGoal(A, r, mode) = Missing(r)
      BY <2>4 DEF MethodGoal
    <3>2. Missing(r) \notin R
      BY <2>2, MissingIsNoKey DEF MissingGoal
    <3> QED
      BY <2>1, <2>4, <3>1, <3>2
  <2> QED
    BY <2>3, <2>4
<1>2. DOMAIN MethodGoals(A, B, mode) = DOMAIN elems(B)
  BY DEF MethodGoals
<1> QED
  BY <1>1, <1>2 DEF Members, MethodsIn

(* A question passes its own tests and makes calls into R only, exactly if *)
(* it is allowed by R.                                                     *)
LEMMA Unfold ==
  ASSUME NEW k \in Key, NEW R \in SUBSET Key
  PROVE  LocalOK(k) /\ GoalSet(k) \subseteq R <=> Allowed(k, R)
<1> DEFINE A   == k.A
           B   == k.B
           ref == copyAsReference(k.mode)
           U   == Key \cup MissingGoal
<1>1. k.mode \in Mode /\ ref \in Mode /\ "move" \in Mode /\ A \in Perm /\ B \in Perm
  BY DEF Key, Mode, copyAsReference
<1>2. \A p \in Perm : /\ p.kind = "base" => p \notin Object
                      /\ p.kind # "base" => p \in Object /\ p.kind \in StructuredKind
  BY ObjectAssumption DEF Perm, Base, ObjectAssumption, StructuredKind
<1>3. LocalOK(k) => GoalSet(k) = Members(Calls(A, B, k.mode, ref))
  BY DEF GoalSet, Goals, Members
<1> HIDE DEF ref
<1>4. CASE A.kind \in {"base", "nil", "wildcard"}
  <2>1. Calls(A, B, k.mode, ref) = <<>>
    BY <1>4 DEF Calls
  <2>2. LocalOK(k) => GoalSet(k) = {}
    BY <1>3, <2>1 DEF Members
  <2> QED
    BY <1>4, <2>2 DEF LocalOK, Allowed, ByReference, ByValue
<1>5. ASSUME A.kind \notin {"base", "nil", "wildcard"}, B.kind = A.kind
      PROVE  /\ A \in Object /\ B \in Object
             /\ elems(A) \in Seq(Perm) /\ elems(B) \in Seq(Perm)
             /\ \A m \in Mode : /\ BaseGoal(A, B, m) \in Seq(U)
                                /\ Covariant(elems(A), elems(B), m) \in Seq(U)
                                /\ MethodGoals(A, B, m) \in Seq(U)
             /\ \A m \in Mode : Members(BaseGoal(A, B, m))
                                  = {Goal(Base(A.base), Base(B.base), m)}
  <2>1. A \in Object /\ B \in Object
    BY <1>1, <1>2, <1>5
  <2>2. \A m \in Mode : Members(BaseGoal(A, B, m)) = {Goal(Base(A.base), Base(B.base), m)}
    BY DEF BaseGoal, Members
  <2> QED
    BY <2>1, <2>2, ShapeType, BaseGoalType, CovariantType, MethodGoalsType
<1>6. CASE A.kind \in {"pointer"} \cup ByReference \cup ByValue
  <2>1. LocalOK(k) <=> /\ B.kind = A.kind
                       /\ A.kind = "tuple" => Len(elems(A)) = Len(elems(B))
    BY <1>6 DEF LocalOK, ByReference, ByValue
  <2>2. SUFFICES ASSUME B.kind = A.kind
                 PROVE  LocalOK(k) => (GoalSet(k) \subseteq R <=> Allowed(k, R))
    BY <1>6, <2>1 DEF Allowed, ByReference, ByValue, ref
  <2>3. PICK bm \in Mode, cm \in Mode :
          /\ bm = IF A.kind \in ByReference THEN ref ELSE k.mode
          /\ cm = IF A.kind \in ByValue THEN k.mode ELSE ref
    BY <1>1
  <2>4. Calls(A, B, k.mode, ref) = BaseGoal(A, B, bm) \o Covariant(elems(A), elems(B), cm)
    BY <1>6, <2>3 DEF Calls, ByReference, ByValue
  <2>5. LocalOK(k) => GoalSet(k) = {Goal(Base(A.base), Base(B.base), bm)}
                                    \cup Members(Covariant(elems(A), elems(B), cm))
    <3>1. A.kind \notin {"base", "nil", "wildcard"}
      BY <1>6 DEF ByReference, ByValue
    <3>2. Members(BaseGoal(A, B, bm) \o Covariant(elems(A), elems(B), cm))
            = Members(BaseGoal(A, B, bm)) \cup Members(Covariant(elems(A), elems(B), cm))
      BY <1>5, <2>2, <3>1, MembersConcat
    <3> QED
      BY <1>3, <1>5, <2>2, <2>4, <3>1, <3>2
  <2>6. Members(Covariant(elems(A), elems(B), cm)) \subseteq R
          <=> ChildrenIn(elems(A), elems(B), cm, R)
    BY <1>5, <1>6, <2>2, ChildrenMembers DEF ByReference, ByValue
  <2> QED
    BY <1>6, <2>1, <2>2, <2>3, <2>5, <2>6 DEF Allowed, ByReference, ByValue, ref
<1>7. CASE A.kind = "interface"
  <2>1. LocalOK(k) <=> B.kind = "interface"
    BY <1>7 DEF LocalOK
  <2>2. SUFFICES ASSUME B.kind = "interface"
                 PROVE  GoalSet(k) \subseteq R <=> Allowed(k, R)
    BY <1>7, <2>1 DEF Allowed
  <2>3. Calls(A, B, k.mode, ref) = BaseGoal(A, B, ref) \o MethodGoals(A, B, ref)
    BY <1>7 DEF Calls
  <2>4. GoalSet(k) = {Goal(Base(A.base), Base(B.base), ref)}
                       \cup Members(MethodGoals(A, B, ref))
    <3>1. Members(BaseGoal(A, B, ref) \o MethodGoals(A, B, ref))
            = Members(BaseGoal(A, B, ref)) \cup Members(MethodGoals(A, B, ref))
      BY <1>1, <1>5, <1>7, <2>2, MembersConcat
    <3> QED
      BY <1>1, <1>3, <1>5, <1>7, <2>1, <2>2, <2>3, <3>1
  <2>5. Members(MethodGoals(A, B, ref)) \subseteq R <=> MethodsIn(A, B, ref, R)
    BY <1>1, <1>5, <1>7, <2>2, MethodMembers
  <2> QED
    BY <1>7, <2>2, <2>4, <2>5 DEF Allowed, ByReference, ByValue, ref
<1>8. CASE A.kind = "func"
  <2>1. LocalOK(k) <=> B.kind = "func" /\ ("o" \in B.base => "o" \in A.base)
    BY <1>8 DEF LocalOK
  <2>2. SUFFICES ASSUME B.kind = "func", "o" \in B.base => "o" \in A.base
                 PROVE  GoalSet(k) \subseteq R <=> Allowed(k, R)
    BY <1>8, <2>1 DEF Allowed
  <2> DEFINE c1 == <<Goal(Base(B.base \ {"o"}), Base(A.base \ {"o"}), ref)>>
             c2 == Contravariant(recvs(A), recvs(B), "move")
             c3 == Contravariant(params(A), params(B), "move")
             c4 == Covariant(results(A), results(B), "move")
  <2>3. A \in Object /\ B \in Object
    BY <1>1, <1>2, <1>8, <2>2
  <2>4. /\ Members(c2) \subseteq R <=> SwappedIn(recvs(A), recvs(B), "move", R)
        /\ Members(c3) \subseteq R <=> SwappedIn(params(A), params(B), "move", R)
        /\ Members(c4) \subseteq R <=> ChildrenIn(results(A), results(B), "move", R)
    BY <1>1, <2>3, ShapeType, ChildrenMembers
  <2>5. Goal(Base(B.base \ {"o"}), Base(A.base \ {"o"}), ref) \in Key
    BY <1>1, <2>3, ShapeType DEF Key, Goal, Perm, BasePermission
  <2>6. /\ c1 \in Seq(U)
        /\ Members(c1) = {Goal(Base(B.base \ {"o"}), Base(A.base \ {"o"}), ref)}
    BY <2>5 DEF Members
  <2>7. c2 \in Seq(U) /\ c3 \in Seq(U) /\ c4 \in Seq(U)
    BY <1>1, <2>3, ShapeType, CovariantType, ContravariantType
  <2>8. Calls(A, B, k.mode, ref) = c1 \o c2 \o c3 \o c4
    BY <1>8 DEF Calls, FuncGoals
  <2> HIDE DEF c1, c2, c3, c4
  <2>9. c1 \o c2 \in Seq(U) /\ (c1 \o c2) \o c3 \in Seq(U)
    BY <2>6, <2>7
  <2>10. Members(c1 \o c2 \o c3 \o c4)
           = Members(c1) \cup Members(c2) \cup Members(c3) \cup Members(c4)
    <3>1. \A s, t \in Seq(U) : Members(s \o t) = Members(s) \cup Members(t)
      BY MembersConcat
    <3> HIDE DEF U
    <3>2. Members((c1 \o c2 \o c3) \o c4) = Members(c1 \o c2 \o c3) \cup Members(c4)
      BY ONLY <2>7, <2>9, <3>1
    <3>3. Members((c1 \o c2) \o c3) = Members(c1 \o c2) \cup Members(c3)
      BY ONLY <2>7, <2>9, <3>1
    <3>4. Members(c1 \o c2) = Members(c1) \cup Members(c2)
      BY ONLY <2>6, <2>7, <3>1
    <3> QED
      BY ONLY <3>2, <3>3, <3>4
  <2> QED
    BY <1>3, <1>8, <2>1, <2>2, <2>4, <2>6, <2>8, <2>10 DEF Allowed, ByReference, ByValue, ref
<1> QED
  BY <1>1, <1>2, <1>4, <1>6, <1>7, <1>8 DEF StructuredKind, ByReference, ByValue

(* The accepted questions allow each other, and whatever set of questions  *)
(* does so is accepted.                                                    *)
LEMMA AcceptedAllowed ==
  /\ Accepted \subseteq Key
  /\ \A k \in Accepted : Allowed(k, Accepted)
  /\ \A R \in SUBSET Key : (\A k \in R : Allowed(k, R)) => R \subseteq Accepted
<1>1. Accepted \subseteq Key
  BY DEF Accepted
<1>2. \A k \in Accepted : Allowed(k, Accepted)
  BY <1>1, AcceptedSupports, Unfold DEF Supports
<1>3. ASSUME NEW R \in SUBSET Key, \A k \in R : Allowed(k, R)
      PROVE  R \subseteq Accepted
  <2>1. Supports(R)
    BY <1>3, Unfold DEF Supports
  <2> QED
    BY <2>1, SupportedAccepted
<1> QED
  BY <1>1, <1>2, <1>3

(* The kind of a permission tells the plain ones from the others. *)
LEMMA PermKinds ==
  ASSUME NEW p \in Perm
  PROVE  /\ p.base \in BasePermission
         /\ p.kind \in {"base"} \cup StructuredKind
         /\ p.kind = "base" => p = Base(p.base)
         /\ p.kind # "base" => p \in Object
BY ObjectAssumption DEF Perm, Base, ObjectAssumption, StructuredKind

(* What is behind a permission that has children. *)
LEMMA KindsBelow ==
  ASSUME NEW p \in Perm, p.kind # "base"
  PROVE  /\ p \in Object
         /\ elems(p) \in Seq(Perm)  /\ recvs(p) \in Seq(Perm)
         /\ params(p) \in Seq(Perm) /\ results(p) \in Seq(Perm)
         /\ \A b \in BasePermission : Base(b) \in Perm
BY PermKinds, ShapeType DEF Perm

(* What is allowed for functions, in terms of the two sides. *)
LEMMA FunctionAllowed ==
  ASSUME NEW A, NEW B, NEW mode \in Mode, NEW R, A.kind = "func",
         Allowed(Goal(A, B, mode), R)
  PROVE  /\ B.kind = "func"
         /\ "o" \in B.base => "o" \in A.base
         /\ Goal(Base(B.base \ {"o"}), Base(A.base \ {"o"}), copyAsReference(mode)) \in R
         /\ SwappedIn(recvs(A), recvs(B), "move", R)
         /\ SwappedIn(params(A), params(B), "move", R)
         /\ ChildrenIn(results(A), results(B), "move", R)
<1> DEFINE k == Goal(A, B, mode)
<1>1. k.A = A /\ k.B = B /\ k.mode = mode
  BY DEF Goal
<1> HIDE DEF k
<1>2. Allowed(k, R)
  BY DEF k
<1> QED
  BY <1>1, <1>2 DEF Allowed

(* Moving twice is allowed only where moving once is, for every graph of   *)
(* permissions: the questions that can be answered in two accepted steps   *)
(* prove each other.                                                       *)
THEOREM MovesCompose ==
  ASSUME NEW A \in Perm, NEW B \in Perm, NEW C \in Perm,
         Assignable(A, B, "move"), Assignable(B, C, "move")
  PROVE  Assignable(A, C, "move")
<1> DEFINE Moves(X, Y) == Goal(X, Y, "move") \in Accepted
           Between(X, Y, Z) == X \in Perm /\ Y \in Perm /\ Z \in Perm
                               /\ Moves(X, Y) /\ Moves(Y, Z)
           Twice == {q \in Key : q.mode = "move" /\ \E Y \in Perm : Between(q.A, Y, q.B)}
<1>0. \A X, Y \in Perm : Goal(X, Y, "move") \in Key /\ Goal(X, Y, "move").A = X
                         /\ Goal(X, Y, "move").B = Y /\ Goal(X, Y, "move").mode = "move"
  BY DEF Key, Goal, Mode
<1>1. \A X, Y, Z : Between(X, Y, Z) => Goal(X, Z, "move") \in Twice
  BY <1>0
<1>2. ASSUME NEW q \in Twice
      PROVE  Allowed(q, Twice)
  <2> DEFINE X == q.A
             Z == q.B
  <2>1. PICK Y \in Perm : Between(X, Y, Z)
    OBVIOUS
  <2>2. /\ Allowed(Goal(X, Y, "move"), Accepted)
        /\ Allowed(Goal(Y, Z, "move"), Accepted)
    BY <2>1, AcceptedAllowed
  <2>3. q.mode = "move" /\ copyAsReference("move") = "move" /\ X \in Perm /\ Z \in Perm
    BY <2>1 DEF copyAsReference
  <2>4. CASE X.kind = "base"
    <3>1. Y.kind = "base" /\ BaseAssignable(X.base, Y.base, "move")
      BY <1>0, <2>1, <2>2, <2>4 DEF Allowed
    <3>2. Z.kind = "base" /\ BaseAssignable(Y.base, Z.base, "move")
      BY <1>0, <2>1, <2>2, <3>1 DEF Allowed
    <3>3. BaseAssignable(X.base, Z.base, "move")
      BY <3>1, <3>2 DEF BaseAssignable, Readable
    <3> QED
      BY <2>3, <2>4, <3>2, <3>3 DEF Allowed, ByReference, ByValue
  <2>5. CASE X.kind = "nil"
    <3>1. Y.kind \in NilAssignable
      BY <1>0, <2>1, <2>2, <2>5 DEF Allowed
    <3>2. Z.kind \in NilAssignable
      BY <1>0, <2>1, <2>2, <3>1 DEF Allowed, NilAssignable, ByReference, ByValue
    <3> QED
      BY <2>5, <3>2 DEF Allowed, ByReference, ByValue
  <2>6. X.kind # "wildcard"
    BY <1>0, <2>1, <2>2 DEF Allowed
  <2>7. CASE X.kind \in {"pointer"} \cup ByReference \cup ByValue
    <3>1. /\ Y.kind = X.kind
          /\ X.kind = "tuple" => Len(elems(X)) = Len(elems(Y))
          /\ Moves(Base(X.base), Base(Y.base))
          /\ ChildrenIn(elems(X), elems(Y), "move", Accepted)
      BY <1>0, <2>1, <2>2, <2>3, <2>7 DEF Allowed
    <3>2. /\ Z.kind = X.kind
          /\ Y.kind = "tuple" => Len(elems(Y)) = Len(elems(Z))
          /\ Moves(Base(Y.base), Base(Z.base))
          /\ ChildrenIn(elems(Y), elems(Z), "move", Accepted)
      BY <1>0, <2>1, <2>2, <2>3, <2>7, <3>1 DEF Allowed
    <3>3. Between(Base(X.base), Base(Y.base), Base(Z.base))
      BY <2>3, <3>1, <3>2, PermKinds DEF Perm
    <3>4. elems(X) \in Seq(Perm) /\ elems(Y) \in Seq(Perm) /\ elems(Z) \in Seq(Perm)
      BY <2>3, <2>7, <3>1, <3>2, KindsBelow DEF ByReference, ByValue
    <3>5. ChildrenIn(elems(X), elems(Z), "move", Twice)
      <4> SUFFICES ASSUME NEW i \in DOMAIN elems(X)
                   PROVE  i \in DOMAIN elems(Z)
                          /\ Goal(elems(X)[i], elems(Z)[i], "move") \in Twice
        BY DEF ChildrenIn
      <4>1. i \in DOMAIN elems(Y) /\ i \in DOMAIN elems(Z)
        BY <3>1, <3>2 DEF ChildrenIn
      <4>2. Between(elems(X)[i], elems(Y)[i], elems(Z)[i])
        BY <3>1, <3>2, <3>4, <4>1 DEF ChildrenIn
      <4> QED
        BY <1>1, <4>1, <4>2
    <3>6. Goal(Base(X.base), Base(Z.base), "move") \in Twice
      BY <1>1, <3>3
    <3> HIDE DEF Twice
    <3> QED
      BY <2>3, <2>7, <3>1, <3>2, <3>5, <3>6 DEF Allowed, ByReference, ByValue
  <2>8. CASE X.kind = "func"
    <3>1. /\ Y.kind = "func" /\ ("o" \in Y.base => "o" \in X.base)
          /\ Moves(Base(Y.base \ {"o"}), Base(X.base \ {"o"}))
          /\ SwappedIn(recvs(X), recvs(Y), "move", Accepted)
          /\ SwappedIn(params(X), params(Y), "move", Accepted)
          /\ ChildrenIn(results(X), results(Y), "move", Accepted)
      BY <2>2, <2>3, <2>8, FunctionAllowed DEF Mode
    <3>2. /\ Z.kind = "func" /\ ("o" \in Z.base => "o" \in Y.base)
          /\ Moves(Base(Z.base \ {"o"}), Base(Y.base \ {"o"}))
          /\ SwappedIn(recvs(Y), recvs(Z), "move", Accepted)
          /\ SwappedIn(params(Y), params(Z), "move", Accepted)
          /\ ChildrenIn(results(Y), results(Z), "move", Accepted)
      BY <2>2, <2>3, <3>1, FunctionAllowed DEF Mode
    <3>3. Between(Base(Z.base \ {"o"}), Base(Y.base \ {"o"}), Base(X.base \ {"o"}))
      BY <2>3, <3>1, <3>2, PermKinds DEF Perm, BasePermission
    <3>4. \A p \in {X, Y, Z} : recvs(p) \in Seq(Perm) /\ params(p) \in Seq(Perm)
                               /\ results(p) \in Seq(Perm)
      BY <2>3, <2>8, <3>1, <3>2, KindsBelow
    <3>5. ASSUME NEW s \in Seq(Perm), NEW t \in Seq(Perm), NEW u \in Seq(Perm),
                 SwappedIn(s, t, "move", Accepted), SwappedIn(t, u, "move", Accepted)
          PROVE  SwappedIn(s, u, "move", Twice)
      <4> SUFFICES ASSUME NEW i \in DOMAIN s
                   PROVE  i \in DOMAIN u /\ Goal(u[i], s[i], "move") \in Twice
        BY DEF SwappedIn
      <4>1. i \in DOMAIN t /\ i \in DOMAIN u
        BY <3>5 DEF SwappedIn
      <4>2. Between(u[i], t[i], s[i])
        BY <3>5, <4>1 DEF SwappedIn
      <4> QED
        BY <1>1, <4>1, <4>2
    <3>6. ASSUME NEW s \in Seq(Perm), NEW t \in Seq(Perm), NEW u \in Seq(Perm),
                 ChildrenIn(s, t, "move", Accepted), ChildrenIn(t, u, "move", Accepted)
          PROVE  ChildrenIn(s, u, "move", Twice)
      <4> SUFFICES ASSUME NEW i \in DOMAIN s
                   PROVE  i \in DOMAIN u /\ Goal(s[i], u[i], "move") \in Twice
        BY DEF ChildrenIn
      <4>1. i \in DOMAIN t /\ i \in DOMAIN u
        BY <3>6 DEF ChildrenIn
      <4>2. Between(s[i], t[i], u[i])
        BY <3>6, <4>1 DEF ChildrenIn
      <4> QED
        BY <1>1, <4>1, <4>2
    <3>7. Goal(Base(Z.base \ {"o"}), Base(X.base \ {"o"}), "move") \in Twice
      <4> HIDE DEF Twice
      <4> QED
        BY <1>1, <3>3
    <3>8. /\ SwappedIn(recvs(X), recvs(Z), "move", Twice)
          /\ SwappedIn(params(X), params(Z), "move", Twice)
          /\ ChildrenIn(results(X), results(Z), "move", Twice)
      <4> HIDE DEF Twice
      <4> QED
        BY <3>1, <3>2, <3>4, <3>5, <3>6
    <3> HIDE DEF Twice
    <3> QED
      BY <2>3, <2>8, <3>1, <3>2, <3>7, <3>8 DEF Allowed, ByReference, ByValue
  <2>9. CASE X.kind = "interface"
    <3>1. /\ Y.kind = "interface"
          /\ Moves(Base(X.base), Base(Y.base))
          /\ MethodsIn(X, Y, "move", Accepted)
      BY <1>0, <2>1, <2>2, <2>3, <2>9 DEF Allowed
    <3>2. /\ Z.kind = "interface"
          /\ Moves(Base(Y.base), Base(Z.base))
          /\ MethodsIn(Y, Z, "move", Accepted)
      BY <1>0, <2>1, <2>2, <2>3, <3>1 DEF Allowed
    <3>3. Between(Base(X.base), Base(Y.base), Base(Z.base))
      BY <2>3, <3>1, <3>2, PermKinds DEF Perm
    <3>4. elems(X) \in Seq(Perm) /\ elems(Y) \in Seq(Perm) /\ elems(Z) \in Seq(Perm)
      BY <2>3, <2>9, <3>1, <3>2, KindsBelow
    <3>5. MethodsIn(X, Z, "move", Twice)
      <4> SUFFICES ASSUME NEW i \in DOMAIN elems(Z)
                   PROVE  \E m \in Methods(X) : /\ name(m) = name(elems(Z)[i])
                                                /\ Goal(m, elems(Z)[i], "move") \in Twice
        BY DEF MethodsIn
      <4>1. PICK m \in Methods(Y) : /\ name(m) = name(elems(Z)[i])
                                    /\ Goal(m, elems(Z)[i], "move") \in Accepted
        BY <3>2 DEF MethodsIn
      <4>2. PICK j \in DOMAIN elems(Y) : m = elems(Y)[j]
        BY DEF Methods
      <4>3. PICK l \in Methods(X) : /\ name(l) = name(m)
                                    /\ Goal(l, m, "move") \in Accepted
        BY <3>1, <4>2 DEF MethodsIn
      <4>4. PICK o \in DOMAIN elems(X) : l = elems(X)[o]
        BY DEF Methods
      <4>5. Between(l, m, elems(Z)[i])
        BY <3>4, <4>1, <4>2, <4>3, <4>4
      <4> HIDE DEF Between, Twice
      <4> QED
        BY <1>1, <4>1, <4>3, <4>5
    <3>6. Goal(Base(X.base), Base(Z.base), "move") \in Twice
      BY <1>1, <3>3
    <3> HIDE DEF Twice
    <3> QED
      BY <2>3, <2>9, <3>2, <3>5, <3>6 DEF Allowed, ByReference, ByValue
  <2> QED
    BY <2>3, <2>4, <2>5, <2>6, <2>7, <2>8, <2>9, PermKinds
       DEF StructuredKind, ByReference, ByValue
<1>3. Twice \subseteq Accepted
  <2>1. Twice \in SUBSET Key
    OBVIOUS
  <2> HIDE DEF Twice
  <2> QED
    BY <1>2, <2>1, AcceptedAllowed
<1>4. Between(A, B, C)
  BY AssignableIsAccepted DEF Mode
<1> QED
  BY <1>1, <1>3, <1>4, AssignableIsAccepted DEF Mode

--------------------------------------------------------------------------------
(* Between references and moves only the tests of base permissions differ: *)
(* if those pass in the other mode, the question asks there for what it    *)
(* asks here, about the same children.                                     *)
LEMMA ChangeMode ==
  ASSUME NEW k \in Key, k.mode \in {"move", "ref"}, NEW m \in {"move", "ref"},
         NEW R \in SUBSET Key, Allowed(k, R), NEW S \in SUBSET Key,
         k.A.kind = "base" => BaseAssignable(k.A.base, k.B.base, m),
         \A X, Y : /\ Goal(X, Y, k.mode) \in R => Goal(X, Y, m) \in S
                   /\ Goal(X, Y, "move") \in R => Goal(X, Y, "move") \in S
  PROVE  Allowed(Goal(k.A, k.B, m), S)
<1> DEFINE j == Goal(k.A, k.B, m)
           A == k.A
           B == k.B
<1>1. /\ j.A = A /\ j.B = B /\ j.mode = m
      /\ copyAsReference(m) = m /\ copyAsReference(k.mode) = k.mode
  BY DEF Goal, copyAsReference
<1> SUFFICES Allowed(j, S)
  OBVIOUS
<1> HIDE DEF j
<1>2. \A s, t : /\ ChildrenIn(s, t, k.mode, R) => ChildrenIn(s, t, m, S)
                /\ ChildrenIn(s, t, "move", R) => ChildrenIn(s, t, "move", S)
                /\ SwappedIn(s, t, "move", R) => SwappedIn(s, t, "move", S)
  BY DEF ChildrenIn, SwappedIn
<1>3. MethodsIn(A, B, k.mode, R) => MethodsIn(A, B, m, S)
  BY DEF MethodsIn
<1>4. CASE A.kind = "func"
  <2>1. /\ B.kind = "func"
        /\ "o" \in B.base => "o" \in A.base
        /\ Goal(Base(B.base \ {"o"}), Base(A.base \ {"o"}), k.mode) \in R
        /\ SwappedIn(recvs(A), recvs(B), "move", R)
        /\ SwappedIn(params(A), params(B), "move", R)
        /\ ChildrenIn(results(A), results(B), "move", R)
    BY <1>1, <1>4 DEF Allowed
  <2>2. Goal(Base(B.base \ {"o"}), Base(A.base \ {"o"}), m) \in S
    BY <2>1
  <2> QED
    BY <1>1, <1>2, <1>4, <2>1, <2>2 DEF Allowed, ByReference, ByValue
<1>5. CASE A.kind = "interface"
  <2>1. /\ B.kind = "interface"
        /\ Goal(Base(A.base), Base(B.base), k.mode) \in R
        /\ MethodsIn(A, B, k.mode, R)
    BY <1>1, <1>5 DEF Allowed
  <2>2. Goal(Base(A.base), Base(B.base), m) \in S
    BY <2>1
  <2> QED
    BY <1>1, <1>3, <1>5, <2>1, <2>2 DEF Allowed, ByReference, ByValue
<1>6. CASE A.kind \in {"pointer"} \cup ByReference \cup ByValue
  <2>1. /\ B.kind = A.kind
        /\ A.kind = "tuple" => Len(elems(A)) = Len(elems(B))
        /\ Goal(Base(A.base), Base(B.base), k.mode) \in R
        /\ ChildrenIn(elems(A), elems(B), k.mode, R)
    BY <1>1, <1>6 DEF Allowed
  <2>2. Goal(Base(A.base), Base(B.base), m) \in S
    BY <2>1
  <2> QED
    BY <1>1, <1>2, <1>6, <2>1, <2>2 DEF Allowed, ByReference, ByValue
<1>7. CASE A.kind \in {"base", "nil", "wildcard"}
  BY <1>1, <1>7 DEF Allowed, ByReference, ByValue
<1> QED
  BY <1>4, <1>5, <1>6, <1>7, PermKinds DEF Key, StructuredKind, ByReference, ByValue

(* Below an accepted reference there are references and moves, below an    *)
(* accepted move there are moves only, all of them accepted, and what is   *)
(* below allows itself.                                                    *)
LEMMA BelowAccepted ==
  ASSUME NEW k \in Accepted, k.mode \in {"move", "ref"}
  PROVE  \A q \in Reach(k) : /\ q \in Accepted
                             /\ q.mode \in {"move", k.mode}
                             /\ Allowed(q, Reach(k))
<1>1. k \in Key /\ Accepted \subseteq Key
  BY DEF Accepted
<1> DEFINE T == {q \in Accepted : q.mode \in {"move", k.mode}}
<1>2. T \in SUBSET Key
  BY <1>1
<1>3. ASSUME NEW q \in T
      PROVE  GoalSet(q) \subseteq T
  <2>1. Allowed(q, Accepted) /\ q \in Key
    BY <1>1, AcceptedAllowed
  <2>2. Goal(q.A, q.B, q.mode) = q
    BY <2>1 DEF Goal, Key
  <2>3. q.A.kind = "base" => BaseAssignable(q.A.base, q.B.base, q.mode)
    BY <2>1 DEF Allowed
  <2>4. \A X, Y : /\ Goal(X, Y, q.mode) \in Accepted => Goal(X, Y, q.mode) \in T
                  /\ Goal(X, Y, "move") \in Accepted => Goal(X, Y, "move") \in T
    BY DEF Goal
  <2>5. Allowed(q, T)
    <3> HIDE DEF T
    <3>1. q.mode \in {"move", "ref"}
      BY DEF T
    <3> QED
      BY <1>1, <1>2, <2>1, <2>2, <2>3, <2>4, <3>1, ChangeMode
  <2> HIDE DEF T
  <2> QED
    BY <1>2, <2>1, <2>5, Unfold
<1>4. CallsOf(T) \subseteq T /\ k \in T
  BY <1>3 DEF CallsOf
<1>5. Reach(k) \subseteq T
  BY <1>1, <1>2, <1>4, ReachIsLeast
<1>6. ASSUME NEW q \in Reach(k)
      PROVE  Allowed(q, Reach(k))
  <2>1. q \in T /\ q \in Key
    BY <1>1, <1>5
  <2>2. LocalOK(q) /\ GoalSet(q) \subseteq Key
    BY <1>1, <2>1, AcceptedSupports DEF Supports
  <2>3. GoalSet(q) \subseteq Reach(k)
    BY <1>1, <2>2, ReachIsLeast DEF CallsOf
  <2>4. Reach(k) \in SUBSET Key
    BY <1>1, ReachIsLeast
  <2> QED
    BY <2>1, <2>2, <2>3, <2>4, Unfold
<1> QED
  BY <1>5, <1>6

(* What can be referenced can be moved if everything in it is readable.    *)
THEOREM ReferenceIsMove ==
  ASSUME NEW k \in Key, k.mode = "ref", Assignable(k.A, k.B, "ref"),
         \A q \in Reach(k) : q.A.kind = "base" => "r" \in q.A.base
  PROVE  Assignable(k.A, k.B, "move")
<1> DEFINE W == Reach(k)
           S == {g \in Key : g.mode = "move" /\ \E q \in W : q.A = g.A /\ q.B = g.B}
<1>1. k.A \in Perm /\ k.B \in Perm /\ k = Goal(k.A, k.B, "ref")
  BY DEF Key, Goal
<1>2. k \in Accepted
  BY <1>1, AssignableIsAccepted DEF Mode
<1>3. W \in SUBSET Key /\ k \in W
  BY ReachIsLeast
<1>4. \A q \in W : q \in Accepted /\ q.mode \in {"move", "ref"} /\ Allowed(q, W)
  BY <1>2, BelowAccepted
<1> HIDE DEF W
<1>5. ASSUME NEW q \in W
      PROVE  Allowed(Goal(q.A, q.B, "move"), S)
  <2>1. q.A.kind = "base" => BaseAssignable(q.A.base, q.B.base, "move")
    BY <1>4 DEF Allowed, BaseAssignable, Readable, W
  <2>2. \A X, Y, mode : Goal(X, Y, mode) \in W => Goal(X, Y, "move") \in S
    <3> SUFFICES ASSUME NEW X, NEW Y, NEW mode, Goal(X, Y, mode) \in W
                 PROVE  Goal(X, Y, "move") \in S
      OBVIOUS
    <3>1. Goal(X, Y, mode).A = X /\ Goal(X, Y, mode).B = Y
      BY DEF Goal
    <3>2. X \in Perm /\ Y \in Perm
      BY <1>3, <3>1 DEF Key
    <3>3. /\ Goal(X, Y, "move") \in Key
          /\ Goal(X, Y, "move").A = X /\ Goal(X, Y, "move").B = Y
          /\ Goal(X, Y, "move").mode = "move"
      BY <3>2 DEF Goal, Key, Mode
    <3> QED
      BY <3>1, <3>3
  <2>3. S \in SUBSET Key
    OBVIOUS
  <2> HIDE DEF S
  <2> QED
    BY <1>3, <1>4, <2>1, <2>2, <2>3, ChangeMode
<1>6. \A g \in S : Allowed(g, S)
  <2> SUFFICES ASSUME NEW g \in S
               PROVE  Allowed(g, S)
    OBVIOUS
  <2>1. PICK q \in W : q.A = g.A /\ q.B = g.B
    OBVIOUS
  <2>2. g = Goal(q.A, q.B, "move")
    BY <2>1 DEF Key, Goal
  <2> HIDE DEF S
  <2> QED
    BY <1>5, <2>2
<1>7. Goal(k.A, k.B, "move") \in S
  BY <1>1, <1>3 DEF Goal, Key, Mode
<1>8. S \in SUBSET Key
  OBVIOUS
<1> HIDE DEF S
<1>9. Goal(k.A, k.B, "move") \in Accepted
  BY <1>6, <1>7, <1>8, AcceptedAllowed
<1> QED
  BY <1>1, <1>9, AssignableIsAccepted DEF Mode

(* What can be moved can be referenced if nothing in it is linear: the     *)
(* target has no rights the source has not, and so is not linear either.   *)
THEOREM MoveIsReference ==
  ASSUME NEW k \in Key, k.mode = "move", Assignable(k.A, k.B, "move"),
         \A q \in Reach(k) : q.A.kind = "base" => ~isLinear(q.A.base)
  PROVE  Assignable(k.A, k.B, "ref")
<1> DEFINE W == Reach(k)
           S == {g \in Key : /\ g.mode \in {"move", "ref"}
                             /\ \E q \in W : q.A = g.A /\ q.B = g.B}
<1>1. k.A \in Perm /\ k.B \in Perm /\ k = Goal(k.A, k.B, "move")
  BY DEF Key, Goal
<1>2. k \in Accepted
  BY <1>1, AssignableIsAccepted DEF Mode
<1>3. W \in SUBSET Key /\ k \in W
  BY ReachIsLeast
<1>4. \A q \in W : q \in Accepted /\ q.mode = "move" /\ Allowed(q, W)
  BY <1>2, BelowAccepted
<1> HIDE DEF W
<1>5. ASSUME NEW q \in W, NEW m \in {"move", "ref"}
      PROVE  Allowed(Goal(q.A, q.B, m), S)
  <2>1. q.A.kind = "base" => BaseAssignable(q.A.base, q.B.base, m)
    BY <1>4 DEF Allowed, BaseAssignable, Readable, isLinear, W
  <2>2. \A X, Y : Goal(X, Y, "move") \in W => Goal(X, Y, m) \in S /\ Goal(X, Y, "move") \in S
    <3> SUFFICES ASSUME NEW X, NEW Y, Goal(X, Y, "move") \in W, NEW n \in {"move", "ref"}
                 PROVE  Goal(X, Y, n) \in S
      OBVIOUS
    <3>1. Goal(X, Y, "move").A = X /\ Goal(X, Y, "move").B = Y
      BY DEF Goal
    <3>2. X \in Perm /\ Y \in Perm
      BY <1>3, <3>1 DEF Key
    <3>3. /\ Goal(X, Y, n) \in Key
          /\ Goal(X, Y, n).A = X /\ Goal(X, Y, n).B = Y
          /\ Goal(X, Y, n).mode = n
      BY <3>2 DEF Goal, Key, Mode
    <3> QED
      BY <3>1, <3>3
  <2>3. S \in SUBSET Key
    OBVIOUS
  <2> HIDE DEF S
  <2> QED
    BY <1>3, <1>4, <2>1, <2>2, <2>3, ChangeMode
<1>6. \A g \in S : Allowed(g, S)
  <2> SUFFICES ASSUME NEW g \in S
               PROVE  Allowed(g, S)
    OBVIOUS
  <2>1. PICK q \in W : q.A = g.A /\ q.B = g.B
    OBVIOUS
  <2>2. g = Goal(q.A, q.B, g.mode) /\ g.mode \in {"move", "ref"}
    BY <2>1 DEF Key, Goal
  <2> HIDE DEF S
  <2> QED
    BY <1>5, <2>2
<1>7. Goal(k.A, k.B, "ref") \in S
  BY <1>1, <1>3 DEF Goal, Key, Mode
<1>8. S \in SUBSET Key
  OBVIOUS
<1> HIDE DEF S
<1>9. Goal(k.A, k.B, "ref") \in Accepted
  BY <1>6, <1>7, <1>8, AcceptedAllowed
<1> QED
  BY <1>1, <1>9, AssignableIsAccepted DEF Mode

--------------------------------------------------------------------------------
(* The check.                                                              *)

(* Every state of the check has its declared type; in particular a call    *)
(* is in progress exactly as long as it has not returned.                  *)
THEOREM TypeCorrect == Spec => []TypeOK
<1>1. Init => TypeOK
  BY DEF Init, TypeOK, NoMemo
<1>2. TypeOK /\ [Next]_vars => TypeOK'
  <2> SUFFICES ASSUME TypeOK, [Next]_vars
               PROVE  TypeOK'
    OBVIOUS
  <2>0. /\ stack # <<>> => /\ Len(stack) \in Nat \ {0}
                           /\ Top \in Frame
                           /\ Top.key \in Key
                           /\ Top.at \in Nat \ {0}
        /\ Calling => Current \in Key \cup MissingGoal
    <3>1. stack # <<>> => Len(stack) \in Nat \ {0} /\ Top \in Frame
      BY DEF TypeOK, Top
    <3>2. Calling => Current \in Key \cup MissingGoal
      BY <3>1, GoalsType DEF Calling, Current, Frame
    <3> QED
      BY <3>1, <3>2 DEF Frame
  <2>1. ASSUME NEW k \in Queries, Call(k)
        PROVE  TypeOK'
    <3>1. k \in Key
      BY QueriesAssumption DEF QueriesAssumption
    <3> QED
      BY <2>1, <3>1 DEF Call, TypeOK, Frame, NewFrame
  <2>2. CASE Enter
    <3>1. Current \in Key /\ Calling
      BY <2>0, <2>2 DEF Enter
    <3>2. stack' \in Seq(Frame) /\ stack' # <<>>
      BY <2>2, <3>1 DEF Enter, TypeOK, Frame, NewFrame
    <3> QED
      BY <2>2, <3>1, <3>2 DEF Enter, TypeOK, Calling
  <2>3. CASE Advance
    <3>1. [Top EXCEPT !.at = @ + 1] \in Frame
      BY <2>0, <2>3 DEF Advance, Calling, Frame
    <3>2. stack' = [stack EXCEPT ![Len(stack)] = [Top EXCEPT !.at = @ + 1]]
      BY <2>3 DEF Advance, Top
    <3>3. stack' \in Seq(Frame) /\ stack' # <<>>
      BY <2>0, <2>3, <3>1, <3>2 DEF Advance, Calling, TypeOK
    <3> QED
      BY <2>3, <3>3 DEF Advance, TypeOK, Calling
  <2>4. ASSUME NEW v \in BOOLEAN, stack # <<>>, Finish(v)
        PROVE  TypeOK'
    <3>1. stack' \in Seq(Frame) /\ (stack' # <<>> <=> Len(stack) > 1)
      BY <2>4, PopFacts DEF Finish, TypeOK
    <3>2. result' = "busy" <=> stack' # <<>>
      BY <2>4, <3>1 DEF Finish
    <3>3. DOMAIN memo' = DOMAIN memo /\ memo' \in [DOMAIN memo' -> BOOLEAN]
      BY <2>4 DEF Finish, TypeOK
    <3> QED
      BY <2>4, <3>1, <3>2, <3>3 DEF Finish, TypeOK
  <2>5. CASE Accept
    BY <2>4, <2>5 DEF Accept
  <2>6. CASE Reject
    BY <2>4, <2>6 DEF Reject
  <2>7. CASE Panic
    BY <2>7 DEF Panic, TypeOK
  <2>8. CASE Return
    BY <2>8 DEF Return, TypeOK, NoMemo
  <2>9. CASE UNCHANGED vars
    BY <2>9 DEF vars, TypeOK
  <2> QED
    BY <2>1, <2>2, <2>3, <2>5, <2>6, <2>7, <2>8, <2>9 DEF Next, Step
<1> QED
  BY <1>1, <1>2, PTL DEF Spec

(* A call in progress that is not the missing child is a key, and it is    *)
(* among the calls of the innermost method.                                *)
LEMMA CurrentFacts ==
  ASSUME TypeOK, Calling
  PROVE  /\ Len(stack) \in Nat \ {0}
         /\ Top \in Frame
         /\ Top.key \in Key /\ Top.at \in Nat \ {0}
         /\ Current \in Key \cup MissingGoal
         /\ Current \in GoalSet(Top.key)
<1>1. Len(stack) \in Nat \ {0} /\ Top \in Frame
  BY EmptySeq DEF Calling, TypeOK, Top
<1>2. Top.key \in Key /\ Top.at \in Nat \ {0}
  BY <1>1 DEF Frame
<1>3. Current \in Key \cup MissingGoal
  BY <1>2, GoalsType DEF Calling, Current
<1> QED
  BY <1>1, <1>2, <1>3 DEF Calling, Current, GoalSet

(* The empty table satisfies the inductive invariant.                      *)
LEMMA InitIInv == Init => IInv
BY DEF Init, IInv, TypeOK, NoMemo, Frames, Chain, Distinct, Settled, Failure,
       Answered

(* An entry point starts with a table that holds its own provisional       *)
(* entry and nothing else.                                                 *)
LEMMA CallIInv ==
  ASSUME IInv, TypeOK', NEW k \in Queries, Call(k)
  PROVE  IInv'
<1>1. /\ DOMAIN memo' = {k} /\ memo'[k]
      /\ stack' = <<NewFrame(k)>> /\ Len(stack') = 1 /\ DOMAIN stack' = {1}
      /\ stack'[1].key = k /\ stack'[1].at = 1
      /\ query' = k /\ result' = "busy"
  BY DEF Call, NewFrame
<1>2. \A j \in DOMAIN Goals(k) : ~(j < 1)
  <2>1. k \in Key
    BY QueriesAssumption DEF QueriesAssumption
  <2> QED
    BY <2>1, GoalsType
<1>3. Frames' /\ Chain' /\ Distinct'
  BY <1>1, <1>2 DEF Frames, Chain, Distinct
<1>4. Settled' /\ Failure' /\ Answered'
  BY <1>1 DEF Settled, Failure, Answered
<1> QED
  BY <1>3, <1>4 DEF IInv

(* Entering a new key keeps the invariant: it was in nobody's way, for it  *)
(* was not in the table.                                                   *)
LEMMA EnterIInv ==
  ASSUME IInv, TypeOK', Enter
  PROVE  IInv'
<1> DEFINE n == Len(stack)
<1>1. /\ TypeOK /\ n \in Nat \ {0} /\ Current \in Key /\ Top.key \in Key
      /\ Current \in GoalSet(Top.key)
  BY CurrentFacts DEF IInv, Enter
<1>2. /\ DOMAIN memo' = DOMAIN memo \cup {Current}
      /\ memo'[Current]
      /\ \A q \in DOMAIN memo : memo'[q] = memo[q]
  BY DEF Enter
<1>3. /\ Len(stack') = n + 1
      /\ stack'[n + 1].key = Current /\ stack'[n + 1].at = 1
      /\ \A i \in 1..n : stack'[i] = stack[i]
  BY <1>1, AppendProperties DEF Enter, TypeOK, NewFrame, Frame
<1>4. DOMAIN stack = 1..n /\ DOMAIN stack' = 1..(n + 1)
  BY <1>1, <1>3 DEF TypeOK
<1>5. ~\E q \in DOMAIN memo : ~memo[q]
  BY <1>1 DEF IInv, Failure, Failing, Enter, TypeOK
<1>6. Frames'
  <2> SUFFICES ASSUME NEW i \in 1..(n + 1)
               PROVE  /\ stack'[i].key \in DOMAIN memo'
                      /\ memo'[stack'[i].key]
                      /\ \A j \in DOMAIN Goals(stack'[i].key) :
                           j < stack'[i].at =>
                             Goals(stack'[i].key)[j] \in DOMAIN memo'
    BY <1>4 DEF Frames
  <2>1. CASE i = n + 1
    BY <1>1, <1>2, <1>3, <2>1, GoalsType
  <2>2. CASE i \in 1..n
    BY <1>2, <1>3, <1>4, <2>2 DEF IInv, Frames
  <2> QED
    BY <1>1, <2>1, <2>2
<1>7. Chain'
  <2>1. stack' # <<>> => stack'[1].key = query'
    BY <1>1, <1>3, EmptySeq DEF IInv, Chain, Enter, TypeOK
  <2>2. ASSUME NEW i \in 1..(n + 1), i > 1
        PROVE  /\ stack'[i - 1].at \in DOMAIN Goals(stack'[i - 1].key)
               /\ stack'[i].key = Goals(stack'[i - 1].key)[stack'[i - 1].at]
    <3>1. CASE i = n + 1
      <4>1. stack'[i - 1] = Top
        BY <1>1, <1>3, <3>1 DEF Top
      <4> QED
        BY <1>3, <3>1, <4>1 DEF Enter, Calling, Current
    <3>2. CASE i \in 1..n
      <4>1. stack'[i - 1] = stack[i - 1] /\ stack'[i] = stack[i]
        BY <1>3, <2>2, <3>2
      <4> QED
        BY <1>4, <2>2, <3>2, <4>1 DEF IInv, Chain
    <3> QED
      BY <1>1, <3>1, <3>2
  <2> QED
    BY <1>4, <2>1, <2>2 DEF Chain
<1>8. Distinct'
  <2>1. \A i \in 1..n : stack[i].key # Current
    BY <1>4 DEF IInv, Frames, Enter
  <2> QED
    BY <1>1, <1>3, <1>4, <2>1 DEF IInv, Distinct
<1>9. Settled'
  <2> SUFFICES ASSUME NEW q \in DOMAIN memo', result # "panic"
               PROVE  \/ \E i \in 1..(n + 1) : stack'[i].key = q
                      \/ ~memo'[q]
                      \/ LocalOK(q) /\ GoalSet(q) \subseteq DOMAIN memo'
    BY <1>4 DEF Settled, Enter
  <2>1. CASE q = Current
    BY <1>1, <1>3, <2>1
  <2>2. CASE q \in DOMAIN memo
    <3>1. \/ \E i \in 1..n : stack[i].key = q
          \/ LocalOK(q) /\ GoalSet(q) \subseteq DOMAIN memo
      BY <1>4, <1>5, <2>2 DEF IInv, Settled
    <3> QED
      BY <1>1, <1>2, <1>3, <3>1
  <2> QED
    BY <1>2, <2>1, <2>2
<1>10. Failure'
  BY <1>2, <1>5 DEF Failure
<1>11. Answered'
  BY <1>1 DEF Answered, Enter, IInv, Calling, TypeOK
<1> QED
  BY <1>6, <1>7, <1>8, <1>9, <1>10, <1>11 DEF IInv

(* Going on to the next call keeps the invariant.                          *)
LEMMA AdvanceIInv ==
  ASSUME IInv, TypeOK', Advance
  PROVE  IInv'
<1> DEFINE n == Len(stack)
<1>1. /\ TypeOK /\ n \in Nat \ {0} /\ Top \in Frame
      /\ Top.key \in Key /\ Top.at \in Nat \ {0}
  BY CurrentFacts DEF IInv, Advance
<1> n \in 1..n
  BY <1>1
<1>2. UNCHANGED <<query, memo, result>>
  BY DEF Advance
<1>3. /\ DOMAIN stack = 1..n /\ DOMAIN stack' = 1..n
      /\ \A i \in 1..n : /\ stack'[i].key = stack[i].key
                         /\ i # n => stack'[i] = stack[i]
      /\ stack'[n].at = Top.at + 1
      /\ Len(stack') = n
  BY <1>1 DEF Advance, TypeOK, Frame, Top
<1>4. ~\E q \in DOMAIN memo : ~memo[q]
  BY <1>1 DEF IInv, Failure, Failing, Advance, TypeOK, Calling
<1>5. Frames'
  <2> SUFFICES ASSUME NEW i \in 1..n
               PROVE  /\ stack'[i].key \in DOMAIN memo
                      /\ memo[stack'[i].key]
                      /\ \A j \in DOMAIN Goals(stack'[i].key) :
                           j < stack'[i].at =>
                             Goals(stack'[i].key)[j] \in DOMAIN memo
    BY <1>2, <1>3 DEF Frames
  <2>1. CASE i # n
    BY <1>3, <2>1 DEF IInv, Frames
  <2>2. CASE i = n
    <3>1. stack'[n].key = Top.key
      BY <1>3 DEF Top
    <3>2. \A j \in DOMAIN Goals(Top.key) :
            j < Top.at => Goals(Top.key)[j] \in DOMAIN memo
      <4>1. n \in DOMAIN stack
        BY <1>3
      <4> QED
        BY <4>1 DEF IInv, Frames, Top
    <3>3. Goals(Top.key)[Top.at] \in DOMAIN memo
      BY DEF Advance, Current
    <3>4. \A j \in DOMAIN Goals(Top.key) : j \in Nat
      BY <1>1, GoalsType
    <3>5. \A j \in DOMAIN Goals(Top.key) :
            j < Top.at + 1 => Goals(Top.key)[j] \in DOMAIN memo
      BY <1>1, <3>2, <3>3, <3>4
    <3> QED
      BY <1>1, <1>3, <2>2, <3>1, <3>5 DEF IInv, Frames
  <2> QED
    BY <2>1, <2>2
<1>6. Chain'
  <2>1. stack' # <<>> => stack'[1].key = query'
    BY <1>1, <1>2, <1>3 DEF IInv, Chain, Advance, Calling
  <2>2. ASSUME NEW i \in 1..n, i > 1
        PROVE  /\ stack'[i - 1].at \in DOMAIN Goals(stack'[i - 1].key)
               /\ stack'[i].key = Goals(stack'[i - 1].key)[stack'[i - 1].at]
    <3>0. i - 1 \in 1..n /\ i - 1 # n
      BY <1>1, <2>2
    <3>1. stack'[i - 1] = stack[i - 1] /\ stack'[i].key = stack[i].key
      BY <1>3, <3>0
    <3> QED
      BY <1>3, <2>2, <3>1 DEF IInv, Chain
  <2> QED
    BY <1>3, <2>1, <2>2 DEF Chain
<1>7. Distinct'
  BY <1>3 DEF IInv, Distinct
<1>8. Settled'
  BY <1>2, <1>3 DEF IInv, Settled
<1>9. Failure'
  BY <1>2, <1>4 DEF Failure
<1>10. Answered'
  BY <1>2 DEF IInv, Answered
<1> QED
  BY <1>5, <1>6, <1>7, <1>8, <1>9, <1>10 DEF IInv

(* What both ways of returning do to the stack and the table. *)
LEMMA FinishFacts ==
  ASSUME IInv, stack # <<>>, NEW v \in BOOLEAN, Finish(v)
  PROVE  /\ Len(stack) \in Nat \ {0} /\ Top.key \in Key
         /\ DOMAIN stack = 1..Len(stack)
         /\ DOMAIN stack' = 1..(Len(stack) - 1)
         /\ \A i \in 1..(Len(stack) - 1) : stack'[i] = stack[i]
         /\ Len(stack') = Len(stack) - 1
         /\ stack' # <<>> <=> Len(stack) > 1
         /\ Top \in Frame
         /\ Len(stack) \in DOMAIN stack
         /\ ~(Len(stack) > 1) => Len(stack) = 1 /\ Top.key = query
         /\ DOMAIN memo' = DOMAIN memo
         /\ Top.key \in DOMAIN memo
         /\ memo'[Top.key] = v
         /\ \A q \in DOMAIN memo : q # Top.key => memo'[q] = memo[q]
         /\ \A i \in 1..(Len(stack) - 1) : stack[i].key # Top.key
         /\ \A q \in DOMAIN memo :
              (\E i \in DOMAIN stack : stack[i].key = q) =>
                q = Top.key \/ \E i \in DOMAIN stack' : stack'[i].key = q
         /\ Frames' /\ Chain' /\ Distinct'
<1> DEFINE n == Len(stack)
<1>1. /\ TypeOK /\ n \in Nat \ {0} /\ Top \in Frame /\ Top.key \in Key
      /\ stack' \in Seq(Frame) /\ Len(stack') = n - 1
      /\ \A i \in 1..(n - 1) : stack'[i] = stack[i]
      /\ stack' # <<>> <=> n > 1
  <2>1. /\ TypeOK /\ stack \in Seq(Frame) /\ stack # <<>>
        /\ stack' = SubSeq(stack, 1, n - 1)
    BY DEF IInv, TypeOK, Finish
  <2>2. n \in Nat \ {0} /\ stack[n] \in Frame
    BY <2>1, EmptySeq
  <2>3. stack' \in Seq(Frame) /\ Len(stack') = n - 1 /\ (stack' # <<>> <=> n > 1)
    BY <2>1, PopFacts
  <2>4. \A i \in 1..(n - 1) : stack'[i] = stack[i]
    BY <2>1, PopFacts
  <2> QED
    BY <2>1, <2>2, <2>3, <2>4 DEF Top, Frame
<1>2. DOMAIN stack = 1..n /\ DOMAIN stack' = 1..(n - 1) /\ n \in 1..n
  BY <1>1 DEF TypeOK
<1>3. Top.key \in DOMAIN memo
  BY <1>2 DEF IInv, Frames, Top
<1>4. /\ DOMAIN memo' = DOMAIN memo
      /\ memo'[Top.key] = v
      /\ \A q \in DOMAIN memo : q # Top.key => memo'[q] = memo[q]
  BY <1>1, <1>3 DEF Finish, TypeOK
<1>5. \A i \in 1..(n - 1) : i \in 1..n /\ i # n
  BY <1>1
<1>6. \A i \in 1..(n - 1) : stack[i].key # Top.key
  BY <1>2, <1>5 DEF IInv, Distinct, Top
<1>7. \A i \in 1..n : i = n \/ i \in 1..(n - 1)
  BY <1>1
<1>8. \A q \in DOMAIN memo :
        (\E i \in DOMAIN stack : stack[i].key = q) =>
          q = Top.key \/ \E i \in DOMAIN stack' : stack'[i].key = q
  BY <1>1, <1>2, <1>7 DEF Top
<1>9. Frames'
  <2> SUFFICES ASSUME NEW i \in 1..(n - 1)
               PROVE  /\ stack[i].key \in DOMAIN memo
                      /\ memo'[stack[i].key]
                      /\ \A j \in DOMAIN Goals(stack[i].key) :
                           j < stack[i].at =>
                             Goals(stack[i].key)[j] \in DOMAIN memo
    BY <1>1, <1>2, <1>4 DEF Frames
  <2>1. i \in DOMAIN stack /\ stack[i].key # Top.key
    BY <1>2, <1>5, <1>6
  <2> QED
    BY <1>4, <2>1 DEF IInv, Frames
<1>10. Chain'
  <2>1. n > 1 => 1 \in 1..(n - 1)
    BY <1>1
  <2>2. stack' # <<>> => stack'[1].key = query'
    BY <1>1, <2>1 DEF IInv, Chain, Finish
  <2>3. ASSUME NEW i \in 1..(n - 1), i > 1
        PROVE  /\ stack'[i - 1].at \in DOMAIN Goals(stack'[i - 1].key)
               /\ stack'[i].key = Goals(stack'[i - 1].key)[stack'[i - 1].at]
    <3>1. i \in 1..n /\ i - 1 \in 1..(n - 1)
      BY <1>1, <2>3
    <3>2. stack'[i] = stack[i] /\ stack'[i - 1] = stack[i - 1]
      BY <1>1, <3>1
    <3> QED
      BY <1>2, <2>3, <3>1, <3>2 DEF IInv, Chain
  <2> QED
    BY <1>2, <2>2, <2>3 DEF Chain
<1>11. Distinct'
  BY <1>1, <1>2, <1>5 DEF IInv, Distinct
<1>12. ~(n > 1) => n = 1 /\ Top.key = query
  BY <1>1 DEF IInv, Chain, Top
<1> QED
  BY <1>1, <1>2, <1>3, <1>4, <1>6, <1>8, <1>9, <1>10, <1>11, <1>12

(* Returning TRUE keeps the invariant: all calls of the method are in the  *)
(* table, and none is FALSE.                                               *)
LEMMA AcceptIInv ==
  ASSUME IInv, TypeOK', Accept
  PROVE  IInv'
<1> DEFINE n == Len(stack)
<1>0. stack # <<>> /\ Finish(TRUE) /\ TypeOK
  BY DEF Accept, IInv
<1>1. ~\E q \in DOMAIN memo : ~memo[q]
  BY <1>0 DEF IInv, Failure, Failing, Calling, Accept, TypeOK
<1>2. ~\E q \in DOMAIN memo' : ~memo'[q]
  BY <1>0, <1>1, FinishFacts
<1>3. Frames' /\ Chain' /\ Distinct'
  BY <1>0, FinishFacts
<1>4. Top \in Frame /\ Top.key \in Key /\ Top.at \in Nat \ {0} /\ n \in DOMAIN stack
  BY <1>0, FinishFacts DEF Frame
<1>5. GoalSet(Top.key) \subseteq DOMAIN memo
  <2>1. \A j \in DOMAIN Goals(Top.key) : j < Top.at
    BY <1>4, GoalsType DEF Accept
  <2> QED
    BY <1>4, <2>1 DEF IInv, Frames, Top, GoalSet
<1>6. Settled'
  <2> SUFFICES ASSUME NEW q \in DOMAIN memo
               PROVE  \/ \E i \in DOMAIN stack' : stack'[i].key = q
                      \/ LocalOK(q) /\ GoalSet(q) \subseteq DOMAIN memo
    BY <1>0, FinishFacts DEF Settled
  <2>1. CASE q = Top.key
    BY <1>5, <2>1 DEF Accept
  <2>2. CASE q # Top.key
    <3>1. result = "busy"
      BY <1>0 DEF TypeOK
    <3>2. \/ \E i \in DOMAIN stack : stack[i].key = q
          \/ LocalOK(q) /\ GoalSet(q) \subseteq DOMAIN memo
      BY <1>1, <3>1 DEF IInv, Settled
    <3> QED
      BY <1>0, <2>2, <3>2, FinishFacts
  <2> QED
    BY <2>1, <2>2
<1>7. Failure'
  BY <1>2 DEF Failure
<1>8. Answered'
  <2>1. CASE n > 1
    BY <1>0, <2>1 DEF Finish, Answered
  <2>2. CASE ~(n > 1)
    <3>1. n = 1 /\ Top.key = query
      BY <1>0, <2>2, FinishFacts
    <3> QED
      BY <1>0, <2>2, <3>1, FinishFacts DEF Finish, Answered
  <2> QED
    BY <2>1, <2>2
<1> QED
  BY <1>3, <1>6, <1>7, <1>8 DEF IInv

(* Returning FALSE keeps the invariant: the caller is waiting for the      *)
(* very entry that is now FALSE.                                           *)
LEMMA RejectIInv ==
  ASSUME IInv, TypeOK', Reject
  PROVE  IInv'
<1> DEFINE n == Len(stack)
<1>0. stack # <<>> /\ Finish(FALSE) /\ TypeOK
  BY DEF Reject, IInv
<1>1. Frames' /\ Chain' /\ Distinct'
  BY <1>0, FinishFacts
<1>2. n \in Nat \ {0} /\ DOMAIN stack = 1..n /\ DOMAIN stack' = 1..(n - 1)
  BY <1>0, FinishFacts
<1>3. Settled'
  <2> SUFFICES ASSUME NEW q \in DOMAIN memo
               PROVE  \/ \E i \in DOMAIN stack' : stack'[i].key = q
                      \/ ~memo'[q]
                      \/ LocalOK(q) /\ GoalSet(q) \subseteq DOMAIN memo
    BY <1>0, FinishFacts DEF Settled
  <2>1. CASE q = Top.key
    BY <1>0, <2>1, FinishFacts
  <2>2. CASE q # Top.key
    <3>1. result = "busy"
      BY <1>0 DEF TypeOK
    <3>2. \/ \E i \in DOMAIN stack : stack[i].key = q
          \/ ~memo[q]
          \/ LocalOK(q) /\ GoalSet(q) \subseteq DOMAIN memo
      BY <3>1 DEF IInv, Settled
    <3> QED
      BY <1>0, <2>2, <3>2, FinishFacts
  <2> QED
    BY <2>1, <2>2
<1>4. Failure'
  <2>1. CASE n = 1
    BY <1>0, <2>1 DEF Finish, Failure
  <2>2. CASE n > 1
    <3>1. n - 1 \in 1..(n - 1) /\ n \in 1..n /\ Len(stack') = n - 1
      <4>1. Len(stack') = n - 1
        BY <1>0, FinishFacts
      <4> QED
        BY <1>2, <2>2, <4>1
    <3>2. stack'[n - 1] = stack[n - 1]
      BY <1>0, <3>1, FinishFacts
    <3>3. Top' = stack[n - 1]
      BY <3>1, <3>2 DEF Top
    <3>4. /\ Top'.at \in DOMAIN Goals(Top'.key)
          /\ Top.key = Goals(Top'.key)[Top'.at]
      BY <1>2, <2>2, <3>1, <3>3 DEF IInv, Chain, Top
    <3>5. Top.key \in DOMAIN memo' /\ ~memo'[Top.key]
      BY <1>0, FinishFacts
    <3>6. stack' # <<>>
      BY <1>0, <2>2, FinishFacts
    <3> QED
      BY <3>4, <3>5, <3>6 DEF Failure, Failing, Calling, Current
  <2> QED
    BY <1>2, <2>1, <2>2
<1>5. Answered'
  <2>1. CASE n > 1
    BY <1>0, <2>1 DEF Finish, Answered
  <2>2. CASE ~(n > 1)
    <3>1. n = 1 /\ Top.key = query
      BY <1>0, <2>2, FinishFacts
    <3> QED
      BY <1>0, <2>2, <3>1, FinishFacts DEF Finish, Answered
  <2> QED
    BY <2>1, <2>2
<1> QED
  BY <1>1, <1>3, <1>4, <1>5 DEF IInv

(* A panic abandons the calls in progress and keeps the invariant.         *)
LEMMA PanicIInv ==
  ASSUME IInv, TypeOK', Panic
  PROVE  IInv'
<1>1. Current \in GoalSet(Top.key) /\ TypeOK
  BY CurrentFacts DEF IInv, Panic
<1>2. ~Failing
  BY <1>1, MissingIsNoKey DEF Failing, Panic, TypeOK
<1>3. ~\E q \in DOMAIN memo : ~memo[q]
  BY <1>1, <1>2 DEF IInv, Failure, Panic, Calling, TypeOK
<1> QED
  BY <1>3 DEF Panic, IInv, Frames, Chain, Distinct, Settled, Failure, Answered

(* Throwing the table away keeps the invariant.                            *)
LEMMA ReturnIInv ==
  ASSUME IInv, TypeOK', Return
  PROVE  IInv'
<1>1. stack = <<>> /\ stack' = <<>> /\ DOMAIN memo' = {} /\ result' = "idle"
  BY DEF IInv, TypeOK, Return, NoMemo
<1> QED
  BY <1>1 DEF IInv, Frames, Chain, Distinct, Settled, Failure, Answered

(* The inductive invariant holds in every reachable state of the check.    *)
THEOREM Invariance == Spec => []IInv
<1>1. IInv /\ TypeOK' /\ [Next]_vars => IInv'
  <2> SUFFICES ASSUME IInv, TypeOK', [Next]_vars
               PROVE  IInv'
    OBVIOUS
  <2>1. ASSUME NEW k \in Queries, Call(k)
        PROVE  IInv'
    BY <2>1, CallIInv
  <2>2. CASE Enter
    BY <2>2, EnterIInv
  <2>3. CASE Advance
    BY <2>3, AdvanceIInv
  <2>4. CASE Accept
    BY <2>4, AcceptIInv
  <2>5. CASE Reject
    BY <2>5, RejectIInv
  <2>6. CASE Panic
    BY <2>6, PanicIInv
  <2>7. CASE Return
    BY <2>7, ReturnIInv
  <2>8. CASE UNCHANGED vars
    BY <2>8 DEF vars, IInv, TypeOK, Frames, Chain, Distinct, Settled, Failure,
                Failing, Calling, Current, Top, Answered
  <2> QED
    BY <2>1, <2>2, <2>3, <2>4, <2>5, <2>6, <2>7, <2>8 DEF Next, Step
<1> QED
  BY InitIInv, TypeCorrect, <1>1, PTL DEF Spec

(* A positive answer is certified by the table it leaves: MovableTo,       *)
(* RefcopyableTo and CopyableTo say yes only with a proof in hand.         *)
THEOREM Certificate == Spec => []MemoCertifies
<1>1. IInv => MemoCertifies
  BY DEF IInv, TypeOK, Settled, Failure, Failing, Calling, Answered, MemoCertifies
<1> QED
  BY Invariance, <1>1, PTL

(* Once an entry of the table is FALSE, assignableTo enters no new key     *)
(* into it, so that stale provisional entries are never relied upon.       *)
THEOREM FailureStops == Spec => NoWorkAfterFailure
<1>1. IInv /\ [Next]_vars =>
        [(\E q \in DOMAIN memo : ~memo[q]) => DOMAIN memo' \subseteq DOMAIN memo]_vars
  <2> SUFFICES ASSUME IInv, Next, \E q \in DOMAIN memo : ~memo[q]
               PROVE  DOMAIN memo' \subseteq DOMAIN memo
    OBVIOUS
  <2>1. result = "no" \/ Failing
    BY DEF IInv, Failure
  <2>2. stack # <<>> => Failing
    BY <2>1 DEF IInv, TypeOK
  <2>3. ASSUME NEW k \in Queries, Call(k)
        PROVE  FALSE
    BY <2>1, <2>3 DEF Call, IInv, TypeOK, Failing, Calling
  <2>4. ~Enter
    BY <2>2 DEF Enter, Failing, Calling
  <2>5. CASE Advance \/ Panic
    BY <2>5 DEF Advance, Panic
  <2>6. CASE Accept \/ Reject
    BY <2>6 DEF Accept, Reject, Finish
  <2>7. CASE Return
    BY <2>7 DEF Return, NoMemo
  <2> QED
    BY <2>3, <2>4, <2>5, <2>6, <2>7 DEF Next, Step
<1> QED
  BY Invariance, <1>1, PTL DEF Spec, NoWorkAfterFailure

(* No entry of a set of questions that proves itself is ever rejected. *)
Unrefuted ==
  \A R \in SUBSET Key : Supports(R) => \A q \in R : q \in DOMAIN memo => memo[q]

(* A question that lies in a self-supporting set is never FALSE in the     *)
(* table.                                                                  *)
LEMMA NeverRefuted == Spec => []Unrefuted
<1>1. Init => Unrefuted
  BY DEF Init, NoMemo, Unrefuted
<1>2. TypeOK /\ Unrefuted /\ [Next]_vars => Unrefuted'
  <2> SUFFICES ASSUME TypeOK, Unrefuted, [Next]_vars,
                      NEW R \in SUBSET Key, Supports(R),
                      NEW q \in R, q \in DOMAIN memo'
               PROVE  memo'[q]
    BY DEF Unrefuted
  <2>1. q \in DOMAIN memo => memo[q]
    BY DEF Unrefuted
  <2>2. ASSUME NEW k \in Queries, Call(k)
        PROVE  memo'[q]
    BY <2>2 DEF Call
  <2>3. CASE Enter
    BY <2>1, <2>3 DEF Enter
  <2>4. CASE Advance \/ Panic \/ UNCHANGED vars
    BY <2>1, <2>4 DEF Advance, Panic, vars
  <2>5. CASE Accept
    BY <2>1, <2>5 DEF Accept, Finish
  <2>6. CASE Reject
    <3>1. Top.key \notin R
      <4>1. SUFFICES ASSUME Top.key \in R
                     PROVE  FALSE
        OBVIOUS
      <4>2. LocalOK(Top.key) /\ GoalSet(Top.key) \subseteq R
        BY <4>1 DEF Supports
      <4>3. Calling /\ Current \in DOMAIN memo /\ ~memo[Current]
        BY <2>6, <4>2 DEF Reject
      <4>4. Current \in R
        BY <4>2, <4>3, CurrentFacts
      <4> QED
        BY <4>3, <4>4 DEF Unrefuted
    <3> QED
      BY <2>1, <2>6, <3>1 DEF Reject, Finish
  <2>7. CASE Return
    BY <2>7 DEF Return, NoMemo
  <2> QED
    BY <2>2, <2>3, <2>4, <2>5, <2>6, <2>7 DEF Next, Step
<1> QED
  BY TypeCorrect, <1>1, <1>2, PTL DEF Spec

(* The recursive check with its provisional table computes coinductive     *)
(* assignability: yes means some self-supporting set of questions contains *)
(* the query, no means that none does.                                     *)
THEOREM AnswersSound == Spec => []AnswersCoassignable
<1>1. TypeOK /\ MemoCertifies => (result = "yes" => Coassignable(query))
  BY DEF TypeOK, MemoCertifies, Coassignable, Supports
<1>2. IInv /\ Unrefuted => (result = "no" => ~Coassignable(query))
  BY DEF IInv, Answered, Unrefuted, Coassignable
<1>3. IInv /\ Unrefuted /\ MemoCertifies => AnswersCoassignable
  BY <1>1, <1>2 DEF IInv, AnswersCoassignable
<1> QED
  BY Invariance, NeverRefuted, Certificate, <1>3, PTL

--------------------------------------------------------------------------------
(* A key that is FALSE in the table has been refuted. *)
FailedRefuted == \A q \in DOMAIN memo : ~memo[q] => q \in Refuted

(* Refutations and panics spread from the calls of a method to its         *)
(* question.                                                               *)
LEMMA CallersInherit ==
  /\ Refuted \subseteq Key \cup MissingGoal
  /\ \A k \in Key : /\ ~LocalOK(k) => k \in Refuted
                    /\ GoalSet(k) \cap Refuted # {} => k \in Refuted
                    /\ GoalSet(k) \cap Panicking # {} => k \in Panicking
  /\ MissingGoal \subseteq Panicking
<1>1. /\ {k \in Key : ~LocalOK(k)} \in SUBSET (Key \cup MissingGoal)
      /\ MissingGoal \in SUBSET (Key \cup MissingGoal)
  OBVIOUS
<1> QED
  BY <1>1, SpreadIsLeast DEF Refuted, Panicking, Callers

(* Reject records FALSE for refuted questions only: a test has failed, or  *)
(* the call that has returned FALSE was refuted itself.                    *)
LEMMA OnlyRefutedFail == Spec => []FailedRefuted
<1>1. Init => FailedRefuted
  BY DEF Init, NoMemo, FailedRefuted
<1>2. TypeOK /\ FailedRefuted /\ [Next]_vars => FailedRefuted'
  <2> SUFFICES ASSUME TypeOK, FailedRefuted, [Next]_vars,
                      NEW q \in DOMAIN memo', ~memo'[q]
               PROVE  q \in Refuted
    BY DEF FailedRefuted
  <2>1. q \in DOMAIN memo /\ ~memo[q] => q \in Refuted
    BY DEF FailedRefuted
  <2>2. ASSUME NEW k \in Queries, Call(k)
        PROVE  FALSE
    BY <2>2 DEF Call
  <2>3. CASE Enter
    BY <2>1, <2>3 DEF Enter
  <2>4. CASE Advance \/ Panic \/ UNCHANGED vars
    BY <2>1, <2>4 DEF Advance, Panic, vars
  <2>5. CASE Accept
    BY <2>1, <2>5 DEF Accept, Finish
  <2>6. CASE Reject
    <3>1. Top.key \in Key
      <4>1. Len(stack) \in Nat \ {0} /\ Top \in Frame
        BY <2>6, EmptySeq DEF Reject, TypeOK, Top
      <4> QED
        BY <4>1 DEF Frame
    <3>2. Top.key \in Refuted
      <4>1. CASE ~LocalOK(Top.key)
        BY <3>1, <4>1, CallersInherit
      <4>2. CASE Calling /\ Current \in DOMAIN memo /\ ~memo[Current]
        <5>1. Current \in Refuted /\ Current \in GoalSet(Top.key)
          BY <4>2, CurrentFacts DEF FailedRefuted
        <5> QED
          BY <3>1, <5>1, CallersInherit
      <4> QED
        BY <2>6, <4>1, <4>2 DEF Reject
    <3> QED
      BY <2>1, <2>6, <3>2 DEF Reject, Finish
  <2>7. CASE Return
    BY <2>7 DEF Return, NoMemo
  <2> QED
    BY <2>2, <2>3, <2>4, <2>5, <2>6, <2>7 DEF Next, Step
<1> QED
  BY TypeCorrect, <1>1, <1>2, PTL DEF Spec

(* A panic in the innermost method is one for every call in progress, down *)
(* to the query.                                                           *)
LEMMA PanicReachesQuery ==
  ASSUME IInv, stack # <<>>, Top.key \in Panicking
  PROVE  query \in Panicking
<1> DEFINE T == {i \in DOMAIN stack : stack[i].key \in Panicking}
<1>1. stack \in Seq(Frame) /\ Len(stack) \in Nat \ {0} /\ DOMAIN stack = 1..Len(stack)
  BY EmptySeq DEF IInv, TypeOK
<1>2. T \in SUBSET Nat /\ Len(stack) \in T
  BY <1>1 DEF Top
<1>3. PICK n \in T : \A m \in T : n <= m
  <2> HIDE DEF T
  <2> QED
    BY <1>2, LeastNumber
<1>4. n \in 1..Len(stack) /\ stack[n].key \in Panicking
  BY <1>1
<1>5. CASE n = 1
  BY <1>4, <1>5 DEF IInv, Chain
<1>6. CASE n > 1
  <2>1. /\ stack[n - 1].at \in DOMAIN Goals(stack[n - 1].key)
        /\ stack[n].key = Goals(stack[n - 1].key)[stack[n - 1].at]
    BY <1>1, <1>4, <1>6 DEF IInv, Chain
  <2>2. n - 1 \in 1..Len(stack) /\ stack[n - 1] \in Frame
    BY <1>1, <1>4, <1>6
  <2>3. stack[n - 1].key \in Key /\ stack[n].key \in GoalSet(stack[n - 1].key)
    BY <2>1, <2>2 DEF Frame, GoalSet
  <2>4. stack[n - 1].key \in Panicking
    BY <1>4, <2>3, CallersInherit
  <2>5. n - 1 \in T
    BY <1>1, <2>2, <2>4
  <2> QED
    BY <1>3, <1>4, <2>5
<1> QED
  BY <1>4, <1>5, <1>6

(* What the entry point returns is an answer the definition allows: a      *)
(* positive one is assignable, a negative one refuted, and it panics only  *)
(* where a chain of calls leads to a missing child.                        *)
LEMMA AnswerAllowed ==
  ASSUME IInv, IInv', AnswersCoassignable', FailedRefuted', Accept \/ Reject \/ Panic
  PROVE  UNCHANGED <<query, result>> \/ Oracle!Answer
<1>1. result = "busy" /\ query' = query
  BY DEF IInv, TypeOK, Accept, Reject, Panic, Finish, Calling
<1>2. CASE result' = "yes"
  <2>1. query \in Key /\ Coassignable(query)
    BY <1>1, <1>2 DEF IInv, TypeOK, Answered, AnswersCoassignable
  <2>2. Assignable(query.A, query.B, query.mode)
    BY <2>1, AssignableIsCoinductive
  <2> QED
    BY <1>1, <1>2, <2>2 DEF Oracle!Answer, Verdict
<1>3. CASE result' = "no"
  <2>1. query \in Key /\ query \in Refuted
    BY <1>1, <1>3 DEF IInv, TypeOK, Answered, FailedRefuted
  <2>2. query = Goal(query.A, query.B, query.mode)
    BY <2>1 DEF Key, Goal
  <2>3. ~Assignable(query.A, query.B, query.mode)
    BY <2>1, <2>2 DEF Assignable
  <2> QED
    BY <1>1, <1>3, <2>1, <2>3 DEF Oracle!Answer, Verdict
<1>4. CASE Panic
  <2>1. /\ stack # <<>> /\ Top.key \in Key /\ Current \in MissingGoal
        /\ Current \in GoalSet(Top.key) /\ result' = "panic"
    BY <1>4, CurrentFacts DEF IInv, Panic, Calling
  <2>2. query \in Panicking
    BY <2>1, CallersInherit, PanicReachesQuery
  <2>3. query \in Key
    <3>1. Len(stack) \in Nat \ {0} /\ stack[1] \in Frame
      BY <2>1, EmptySeq DEF IInv, TypeOK
    <3> QED
      BY <2>1, <3>1 DEF IInv, Chain, Frame
  <2>4. query = Goal(query.A, query.B, query.mode)
    BY <2>3 DEF Key, Goal
  <2>5. ~Assignable(query.A, query.B, query.mode)
    BY <2>2, <2>4 DEF Assignable
  <2> QED
    BY <1>1, <2>1, <2>2, <2>5 DEF Oracle!Answer, Verdict
<1>5. CASE Accept \/ Reject
  BY <1>1, <1>2, <1>3, <1>5 DEF Accept, Reject, Finish
<1> QED
  BY <1>4, <1>5

(* The recursive check with its memo table implements the oracle, except   *)
(* for its liveness: every step asks a question, gives an answer that the  *)
(* rules allow, returns, or is invisible.                                  *)
THEOREM AnswersLikeOracle == Spec => Oracle!Safety
<1>1. Init => Oracle!Init
  BY DEF Init, Oracle!Init
<1>2. /\ IInv /\ IInv' /\ AnswersCoassignable' /\ FailedRefuted'
      /\ [Next]_vars
      => [Oracle!Next]_<<query, result>>
  <2> SUFFICES ASSUME IInv, IInv', AnswersCoassignable', FailedRefuted', [Next]_vars
               PROVE  Oracle!Next \/ UNCHANGED <<query, result>>
    OBVIOUS
  <2>1. ASSUME NEW k \in Queries, Call(k)
        PROVE  Oracle!Ask
    BY <2>1 DEF Call, Oracle!Ask
  <2>2. CASE Enter \/ Advance
    BY <2>2 DEF Enter, Advance
  <2>3. CASE Accept \/ Reject \/ Panic
    BY <2>3, AnswerAllowed DEF Oracle!Next
  <2>4. CASE Return
    BY <2>4 DEF Return, Oracle!Return, Oracle!Next
  <2>5. CASE UNCHANGED vars
    BY <2>5 DEF vars
  <2> QED
    BY <2>1, <2>2, <2>3, <2>4, <2>5 DEF Next, Step, Oracle!Next
<1> QED
  BY Invariance, AnswersSound, OnlyRefutedFail, <1>1, <1>2, PTL DEF Spec, Oracle!Safety

--------------------------------------------------------------------------------
(* A positive answer is an assignable question. *)
LEMMA YesIsAssignable ==
  ASSUME TypeOK, IInv, AnswersCoassignable, result = "yes"
  PROVE  /\ query \in Key
         /\ Assignable(query.A, query.B, query.mode)
<1>1. query \in Key /\ Coassignable(query)
  BY DEF TypeOK, IInv, Answered, AnswersCoassignable
<1> QED
  BY <1>1, AssignableIsCoinductive

(* After a permitted move whatever the target could be moved to, the       *)
(* source could be moved to directly, for every graph of permissions.      *)
THEOREM MovesTransitive == Spec => []MoveTransitive
<1>1. TypeOK /\ IInv /\ AnswersCoassignable => MoveTransitive
  <2> SUFFICES ASSUME TypeOK, IInv, AnswersCoassignable,
                      result = "yes", query.mode = "move",
                      NEW C \in Perm, Assignable(query.B, C, "move")
               PROVE  Assignable(query.A, C, "move")
    BY DEF MoveTransitive
  <2>1. query \in Key /\ Assignable(query.A, query.B, "move")
    BY YesIsAssignable
  <2>2. query.A \in Perm /\ query.B \in Perm
    BY <2>1 DEF Key
  <2> QED
    BY <2>1, <2>2, MovesCompose
<1> QED
  BY TypeCorrect, Invariance, AnswersSound, <1>1, PTL

(* "Generally like move, with two differences": a reference to readable    *)
(* values may be moved, a move of values that are not linear referenced,   *)
(* for every graph of permissions.                                         *)
THEOREM ReferencesAndMoves == Spec => []ReferenceIsNonLinearMove
<1>1. TypeOK /\ IInv /\ AnswersCoassignable => ReferenceIsNonLinearMove
  <2> SUFFICES ASSUME TypeOK, IInv, AnswersCoassignable, result = "yes"
               PROVE  ReferenceIsNonLinearMove
    BY DEF ReferenceIsNonLinearMove
  <2>1. query \in Key /\ Assignable(query.A, query.B, query.mode)
    BY YesIsAssignable
  <2>2. CASE query.mode = "ref"
    BY <2>1, <2>2, ReferenceIsMove DEF ReferenceIsNonLinearMove, BaseKeysBelow
  <2>3. CASE query.mode = "move"
    BY <2>1, <2>3, MoveIsReference DEF ReferenceIsNonLinearMove, BaseKeysBelow
  <2> QED
    BY <2>2, <2>3 DEF ReferenceIsNonLinearMove
<1> QED
  BY TypeCorrect, Invariance, AnswersSound, <1>1, PTL

(* What a source and its copy hold on the same memory is the least set     *)
(* that contains the two and, with two permissions, their children.        *)
LEMMA SharedIsLeast ==
  ASSUME NEW k \in Key
  PROVE  \A t \in SUBSET (Perm \X Perm \X BOOLEAN) :
           <<k.A, k.B, k.mode = "ref">> \in t /\ HeldBelow(t) \subseteq t
             => Shared(k) \subseteq t
<1> DEFINE U     == Perm \X Perm \X BOOLEAN
           start == {<<k.A, k.B, k.mode = "ref">>}
           step  == [s \in SUBSET U |-> s \cup HeldBelow(s)]
           grow[s \in SUBSET U] == LET next == s \cup HeldBelow(s)
                                   IN  IF next = s THEN s ELSE grow[next]
<1>1. \A s, t \in SUBSET U : s \subseteq t => HeldBelow(s) \subseteq HeldBelow(t)
  BY DEF HeldBelow
<1>2. \A s \in SUBSET U : HeldBelow(s) \subseteq U
  <2> SUFFICES ASSUME NEW A \in Perm, NEW B \in Perm, NEW behind \in BOOLEAN,
                      NEW t \in Held(A, B, behind)
               PROVE  t \in U
    BY DEF HeldBelow
  <2>1. /\ A.kind = B.kind
        /\ A.kind \in {"pointer", "chan", "slice", "map", "array", "struct", "tuple"}
    BY DEF Held
  <2>2. PICK i \in DOMAIN elems(A) \cap DOMAIN elems(B) :
          t = <<elems(A)[i], elems(B)[i],
                behind \/ A.kind \in {"pointer", "chan", "slice", "map"}>>
    BY <2>1 DEF Held
  <2>3. elems(A) \in Seq(Perm) /\ elems(B) \in Seq(Perm)
    BY <2>1, KindsBelow
  <2>4. elems(A)[i] \in Perm /\ elems(B)[i] \in Perm
    BY <2>2, <2>3
  <2> QED
    BY <2>2, <2>4
<1>3. Round(step, U)
  <2> HIDE DEF U
  <2>1. step \in [SUBSET U -> SUBSET U]
    BY <1>2
  <2>2. \A s, t \in SUBSET U : s \subseteq t => step[s] \subseteq step[t]
    BY <1>1
  <2> QED
    BY <2>1, <2>2 DEF Round
<1>4. grow = [s \in SUBSET U |-> LET next == s \cup HeldBelow(s)
                                 IN  IF next = s THEN s ELSE grow[next]]
  <2>1. PICK g : Walk(step, U, g)
    BY <1>3, WalkExists
  <2>2. g = [s \in SUBSET U |-> LET next == s \cup HeldBelow(s)
                                IN  IF next = s THEN s ELSE g[next]]
    BY <2>1 DEF Walk
  <2> QED
    BY <2>2, Zenon
<1>5. Shared(k) = grow[start]
  BY DEF Shared, Closure
<1>6. start \in SUBSET U
  <2>1. k.A \in Perm /\ k.B \in Perm /\ (k.mode = "ref") \in BOOLEAN
    BY DEF Key
  <2>2. \A a, b \in Perm, c \in BOOLEAN : {<<a, b, c>>} \in SUBSET U
    OBVIOUS
  <2> QED
    BY <2>1, <2>2, Zenon
<1> HIDE DEF grow, start
<1>7. Walk(step, U, grow)
  BY <1>4 DEF Walk
<1>8. IsFiniteSet(U)
  BY UniverseFinite
<1> HIDE DEF U, step
<1>9. Least(step, U, start, grow[start])
  BY <1>3, <1>6, <1>7, <1>8, WalkIsLeast
<1>10. \A t \in SUBSET U : start \subseteq t /\ HeldBelow(t) \subseteq t => grow[start] \subseteq t
  <2>1. SUFFICES ASSUME NEW t \in SUBSET U, start \subseteq t, HeldBelow(t) \subseteq t
                 PROVE  grow[start] \subseteq t
    OBVIOUS
  <2>2. step[t] \subseteq t
    BY <2>1 DEF step
  <2> QED
    BY <1>9, <2>1, <2>2, Zenon DEF Least
<1>11. SUFFICES ASSUME NEW t \in SUBSET U, <<k.A, k.B, k.mode = "ref">> \in t,
                       HeldBelow(t) \subseteq t
                PROVE  Shared(k) \subseteq t
  BY DEF U
<1>12. start \subseteq t
  BY <1>11 DEF start
<1> QED
  BY <1>5, <1>10, <1>11, <1>12, Zenon

(* An accepted reference has a linear permission on neither side.          *)
LEMMA ReferenceNotLinear ==
  ASSUME NEW A \in Perm, NEW B \in Perm, Goal(A, B, "ref") \in Accepted, A.kind # "nil"
  PROVE  ~isLinear(A.base) /\ ~isLinear(B.base)
<1> DEFINE k == Goal(A, B, "ref")
<1>1. k.A = A /\ k.B = B /\ k.mode = "ref" /\ copyAsReference("ref") = "ref"
  BY DEF Goal, copyAsReference
<1>2. Allowed(k, Accepted)
  BY AcceptedAllowed
<1> HIDE DEF k
<1>3. ASSUME NEW a \in BasePermission, NEW b \in BasePermission,
             Goal(Base(a), Base(b), "ref") \in Accepted
      PROVE  ~isLinear(a) /\ ~isLinear(b)
  <2> DEFINE j == Goal(Base(a), Base(b), "ref")
  <2>1. j.A.kind = "base" /\ j.A.base = a /\ j.B.base = b /\ j.mode = "ref"
    BY DEF Goal, Base
  <2>2. Allowed(j, Accepted)
    BY <1>3, AcceptedAllowed
  <2> HIDE DEF j
  <2> QED
    BY <2>1, <2>2 DEF Allowed, BaseAssignable
<1>4. CASE A.kind = "base"
  BY <1>1, <1>2, <1>4 DEF Allowed, BaseAssignable
<1>5. CASE A.kind \in {"interface", "pointer"} \cup ByReference \cup ByValue
  <2>1. Goal(Base(A.base), Base(B.base), "ref") \in Accepted
    BY <1>1, <1>2, <1>5 DEF Allowed, ByReference, ByValue
  <2> QED
    BY <1>3, <2>1, PermKinds
<1>6. CASE A.kind = "func"
  <2>1. Goal(Base(B.base \ {"o"}), Base(A.base \ {"o"}), "ref") \in Accepted
    BY <1>1, <1>2, <1>6 DEF Allowed
  <2>2. A.base \ {"o"} \in BasePermission /\ B.base \ {"o"} \in BasePermission
    BY PermKinds DEF BasePermission
  <2>3. ~isLinear(A.base \ {"o"}) /\ ~isLinear(B.base \ {"o"})
    BY <1>3, <2>1, <2>2
  <2> QED
    BY <2>3 DEF isLinear
<1>7. A.kind # "wildcard"
  BY <1>1, <1>2 DEF Allowed
<1> QED
  BY <1>4, <1>5, <1>6, <1>7, PermKinds DEF StructuredKind, ByReference, ByValue

(* Below an accepted copy or reference the pairs on the same memory are    *)
(* accepted, as references as soon as they lie behind an indirection.      *)
LEMMA SharedAccepted ==
  ASSUME NEW k \in Accepted, k.mode # "move"
  PROVE  \A t \in Shared(k) :
           /\ t[1] \in Perm /\ t[2] \in Perm
           /\ t[3] => Goal(t[1], t[2], "ref") \in Accepted
<1> DEFINE U == Perm \X Perm \X BOOLEAN
           modeOf(behind) == IF behind THEN "ref" ELSE "copy"
           T == {t \in U : Goal(t[1], t[2], modeOf(t[3])) \in Accepted}
<1>1. k \in Key /\ Accepted \subseteq Key
  BY DEF Accepted
<1>2. <<k.A, k.B, k.mode = "ref">> \in T
  <2>1. k.A \in Perm /\ k.B \in Perm /\ k.mode \in Mode
    BY <1>1 DEF Key
  <2>2. Goal(k.A, k.B, modeOf(k.mode = "ref")) = k
    BY <1>1 DEF Goal, Key, Mode
  <2> QED
    BY <2>1, <2>2
<1>3. HeldBelow(T) \subseteq T
  <2> SUFFICES ASSUME NEW A \in Perm, NEW B \in Perm, NEW behind \in BOOLEAN,
                      Goal(A, B, modeOf(behind)) \in Accepted,
                      NEW t \in Held(A, B, behind)
               PROVE  t \in T
    BY DEF HeldBelow
  <2> DEFINE q == Goal(A, B, modeOf(behind))
             below == behind \/ A.kind \in {"pointer", "chan", "slice", "map"}
  <2>1. /\ A.kind = B.kind
        /\ A.kind \in {"pointer", "chan", "slice", "map", "array", "struct", "tuple"}
    BY DEF Held
  <2>2. PICK i \in DOMAIN elems(A) \cap DOMAIN elems(B) :
          t = <<elems(A)[i], elems(B)[i], below>>
    BY <2>1 DEF Held
  <2>3. elems(A) \in Seq(Perm) /\ elems(B) \in Seq(Perm)
    BY <2>1, KindsBelow
  <2>4. elems(A)[i] \in Perm /\ elems(B)[i] \in Perm
    BY <2>2, <2>3
  <2>5. Allowed(q, Accepted) /\ q.A = A /\ q.B = B /\ q.mode = modeOf(behind)
    BY AcceptedAllowed DEF Goal
  <2> HIDE DEF q
  <2>6. ChildrenIn(elems(A), elems(B), modeOf(below), Accepted)
    BY <2>1, <2>5 DEF Allowed, ByReference, ByValue, copyAsReference
  <2>7. Goal(elems(A)[i], elems(B)[i], modeOf(below)) \in Accepted
    BY <2>2, <2>6 DEF ChildrenIn
  <2> QED
    BY <2>2, <2>4, <2>7
<1>4. T \in SUBSET (Perm \X Perm \X BOOLEAN)
  OBVIOUS
<1> HIDE DEF T
<1>5. Shared(k) \subseteq T
  BY <1>1, <1>2, <1>3, <1>4, SharedIsLeast
<1> QED
  BY <1>5 DEF T

(* After a permitted copy or reference nobody has an exclusive right to    *)
(* memory that both sides can reach, however deep it lies and for every    *)
(* graph of permissions, with cycles too.                                  *)
THEOREM CopiesKeepExclusivity == Spec => []CopyKeepsExclusivity
<1>1. TypeOK /\ IInv /\ AnswersCoassignable => CopyKeepsExclusivity
  <2> SUFFICES ASSUME TypeOK, IInv, AnswersCoassignable,
                      result = "yes", query.mode # "move",
                      NEW t \in Shared(query), t[3], t[1].kind # "nil"
               PROVE  ~isLinear(t[1].base) /\ ~isLinear(t[2].base)
    BY DEF CopyKeepsExclusivity
  <2>1. query \in Key /\ Assignable(query.A, query.B, query.mode)
    BY YesIsAssignable
  <2>2. query = Goal(query.A, query.B, query.mode) /\ query \in Accepted
    <3>1. /\ query = Goal(query.A, query.B, query.mode)
          /\ query.A \in Perm /\ query.B \in Perm /\ query.mode \in Mode
      BY <2>1 DEF Key, Goal
    <3> QED
      BY <2>1, <3>1, AssignableIsAccepted
  <2> QED
    BY <2>2, SharedAccepted, ReferenceNotLinear
<1> QED
  BY TypeCorrect, Invariance, AnswersSound, <1>1, PTL
=============================================================================
