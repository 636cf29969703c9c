--------------------------- MODULE Permission_proofs ---------------------------
(***************************************************************************)
(* Facts the proofs about the recursive functions of package permission    *)
(* share: the types of the children of a permission, and what popping a    *)
(* call stack does.                                                        *)
(***************************************************************************)
EXTENDS Permission, SequenceTheorems, Recursion_proofs

(* Objects are permissions, and so are their children. *)
LEMMA ShapeType ==
  ASSUME NEW p \in Object
  PROVE  /\ elems(p) \in Seq(Perm)  /\ recvs(p) \in Seq(Perm)
         /\ params(p) \in Seq(Perm) /\ results(p) \in Seq(Perm)
         /\ p.base \in BasePermission
         /\ p \in Perm
BY ObjectAssumption, ShapeAssumption
   DEF ObjectAssumption, ShapeAssumption, Shape, elems, recvs, params, results,
       Perm

(* There are finitely many permissions.                                    *)
LEMMA PermFinite == IsFiniteSet(Perm)
<1>1. IsFiniteSet(BasePermission)
  <2>1. \A x : IsFiniteSet({x})
    BY FS_Singleton
  <2>2. \A S, T : IsFiniteSet(S) /\ IsFiniteSet(T) => IsFiniteSet(S \cup T)
    BY FS_Union
  <2>3. \A x, y, z : IsFiniteSet({x} \cup ({y} \cup {z}))
    BY <2>1, <2>2
  <2>4. Right = ({"o"} \cup {"r"}) \cup ({"w"} \cup ({"R"} \cup {"W"}))
    BY DEF Right
  <2>5. IsFiniteSet(Right)
    BY <2>1, <2>2, <2>3, <2>4
  <2> QED
    BY <2>5, FS_SUBSET DEF BasePermission
<1> DEFINE f == [perm \in BasePermission |-> Base(perm)]
<1>2. IsFiniteSet({f[perm] : perm \in BasePermission})
  BY <1>1, FiniteImage
<1>3. {f[perm] : perm \in BasePermission} = {Base(perm) : perm \in BasePermission}
  OBVIOUS
<1> QED
  BY <1>2, <1>3, FS_Union, ObjectFinite DEF Perm, ObjectFinite

(* Popping a stack leaves the other frames where they are. *)
LEMMA PopFacts ==
  ASSUME NEW S, NEW s \in Seq(S), s # <<>>, NEW t, t = SubSeq(s, 1, Len(s) - 1)
  PROVE  /\ t \in Seq(S)
         /\ Len(t) = Len(s) - 1
         /\ t # <<>> <=> Len(s) > 1
         /\ \A i \in 1..(Len(s) - 1) : t[i] = s[i]
         /\ Len(s) \in Nat \ {0}
         /\ s[Len(s)] \in S
<1>1. Len(s) \in Nat \ {0} /\ s[Len(s)] \in S
  BY EmptySeq
<1>2. PICK n \in Nat : n = Len(s) - 1
  BY <1>1
<1>3. \A i \in 1..n : s[i] \in S
  BY <1>1, <1>2
<1>4. /\ t \in Seq(S)
      /\ Len(t) = IF 1 <= n THEN n - 1 + 1 ELSE 0
      /\ \A i \in 1..(n - 1 + 1) : t[i] = s[1 + i - 1]
  <2>1. t = SubSeq(s, 1, n)
    BY <1>2
  <2>2. 1 \in Int /\ n \in Int
    OBVIOUS
  <2>3. /\ SubSeq(s, 1, n) \in Seq(S)
        /\ Len(SubSeq(s, 1, n)) = IF 1 <= n THEN n - 1 + 1 ELSE 0
        /\ \A i \in 1..(n - 1 + 1) : SubSeq(s, 1, n)[i] = s[1 + i - 1]
    BY ONLY <1>3, <2>2, SubSeqProperties, SMT
  <2> QED
    BY <2>1, <2>3
<1>5. Len(t) = n /\ \A i \in 1..n : t[i] = s[i]
  BY <1>2, <1>4
<1>6. t # <<>> <=> n # 0
  BY <1>4, <1>5, EmptySeq
<1> QED
  BY <1>1, <1>2, <1>4, <1>5, <1>6

--------------------------------------------------------------------------------
(* The members of a sequence of calls. *)
Members(s) == {s[i] : i \in DOMAIN s}

LEMMA MembersConcat ==
  ASSUME NEW S, NEW s \in Seq(S), NEW t \in Seq(S)
  PROVE  Members(s \o t) = Members(s) \cup Members(t)
<1>1. /\ Len(s) \in Nat /\ Len(t) \in Nat
      /\ DOMAIN s = 1..Len(s) /\ DOMAIN t = 1..Len(t)
      /\ DOMAIN (s \o t) = 1..(Len(s) + Len(t))
  OBVIOUS
<1>2. \A i \in DOMAIN (s \o t) :
        (s \o t)[i] = IF i <= Len(s) THEN s[i] ELSE t[i - Len(s)]
  OBVIOUS
<1>3. Members(s \o t) \subseteq Members(s) \cup Members(t)
  <2> SUFFICES ASSUME NEW i \in DOMAIN (s \o t)
               PROVE  (s \o t)[i] \in Members(s) \cup Members(t)
    BY DEF Members
  <2>1. i <= Len(s) => i \in DOMAIN s
    BY <1>1
  <2>2. ~(i <= Len(s)) => i - Len(s) \in DOMAIN t
    BY <1>1
  <2> QED
    BY <1>2, <2>1, <2>2 DEF Members
<1>4. Members(s) \subseteq Members(s \o t)
  <2> SUFFICES ASSUME NEW i \in DOMAIN s
               PROVE  s[i] \in Members(s \o t)
    BY DEF Members
  <2>1. i \in DOMAIN (s \o t) /\ i <= Len(s)
    BY <1>1
  <2> QED
    BY <1>2, <2>1 DEF Members
<1>5. Members(t) \subseteq Members(s \o t)
  <2> SUFFICES ASSUME NEW i \in DOMAIN t
               PROVE  t[i] \in Members(s \o t)
    BY DEF Members
  <2>1. /\ Len(s) + i \in DOMAIN (s \o t)
        /\ ~(Len(s) + i <= Len(s))
        /\ Len(s) + i - Len(s) = i
    BY <1>1
  <2>2. (s \o t)[Len(s) + i] = t[i]
    BY <1>2, <2>1
  <2> QED
    BY <2>1, <2>2 DEF Members
<1> QED
  BY <1>3, <1>4, <1>5
=============================================================================
