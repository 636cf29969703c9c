--------------------------- MODULE Statements_proofs ---------------------------
(***************************************************************************)
(* What holds of the visit of every body, in every store: what a function  *)
(* literal borrows, that all blocks are closed, and that no early exit is  *)
(* left over.                                                              *)
(*                                                                         *)
(* The second goes by an invariant of the stack of calls.  A call returns  *)
(* stores of a certain depth; a frame that has opened a block expects      *)
(* stores of a depth one greater than that of the stores it returns; and   *)
(* the stores in a frame have the depth their frame says.                  *)
(*                                                                         *)
(* The third goes by another one: of every call under way some branches    *)
(* are caught, by the frames below it.  What a call returns has no other   *)
(* branch; a frame that catches some passes on the rest.                   *)
(***************************************************************************)
EXTENDS Statements, Recursion_proofs, TLAPS

--------------------------------------------------------------------------------
(* Positions picked from a sequence.                                       *)

(* Picked(s, is) has the elements of s at the positions is, each of them   *)
(* and nothing else.                                                       *)
LEMMA PickedFacts ==
  ASSUME NEW s, NEW is \in SUBSET Nat, IsFiniteSet(is)
  PROVE  /\ Cardinality(is) \in Nat
         /\ DOMAIN Picked(s, is) = 1..Cardinality(is)
         /\ \A k \in DOMAIN Picked(s, is) : \E i \in is : Picked(s, is)[k] = s[i]
         /\ \A i \in is : \E k \in DOMAIN Picked(s, is) : Picked(s, is)[k] = s[i]
<1> DEFINE UpTo(i) == {j \in is : j <= i}
           n == Cardinality(is)
           rank == [i \in is |-> Cardinality(UpTo(i))]
<1>1. n \in Nat
  BY FS_CardinalityType
<1>2. \A i \in is : UpTo(i) \in SUBSET is /\ IsFiniteSet(UpTo(i)) /\ Cardinality(UpTo(i)) \in 1..n
  <2> SUFFICES ASSUME NEW i \in is
               PROVE  UpTo(i) \in SUBSET is /\ IsFiniteSet(UpTo(i)) /\ Cardinality(UpTo(i)) \in 1..n
    OBVIOUS
  <2>1. UpTo(i) \in SUBSET is /\ i \in UpTo(i)
    OBVIOUS
  <2> HIDE DEF UpTo
  <2>2. IsFiniteSet(UpTo(i)) /\ Cardinality(UpTo(i)) <= n
    BY <2>1, FS_Subset
  <2>3. Cardinality(UpTo(i)) \in Nat
    BY <2>2, FS_CardinalityType
  <2>4. Cardinality(UpTo(i)) # 0
    BY <2>1, <2>2, FS_EmptySet
  <2> QED
    BY <1>1, <2>1, <2>2, <2>3, <2>4
<1>3. \A i, j \in is : i < j => Cardinality(UpTo(i)) # Cardinality(UpTo(j))
  <2> SUFFICES ASSUME NEW i \in is, NEW j \in is, i < j
               PROVE  Cardinality(UpTo(i)) # Cardinality(UpTo(j))
    OBVIOUS
  <2>1. UpTo(i) \in SUBSET UpTo(j)
    <3>1. \A l, m, o \in Nat : l <= m /\ m < o => l <= o
      OBVIOUS
    <3>2. \A l \in is : l <= i => l <= j
      BY <3>1
    <3> QED
      BY <3>2
  <2>4. j \in UpTo(j) /\ j \notin UpTo(i)
    OBVIOUS
  <2>2. IsFiniteSet(UpTo(j))
    BY <1>2
  <2> HIDE DEF UpTo
  <2>3. Cardinality(UpTo(j)) = Cardinality(UpTo(i)) => UpTo(j) = UpTo(i)
    BY <2>1, <2>2, FS_Subset
  <2> QED
    BY <2>3, <2>4
<1>4. rank \in [is -> 1..n]
  BY <1>2
<1>5. \A i, j \in is : rank[i] = rank[j] => i = j
  <2> SUFFICES ASSUME NEW i \in is, NEW j \in is, i # j
               PROVE  rank[i] # rank[j]
    OBVIOUS
  <2>1. i < j \/ j < i
    OBVIOUS
  <2> HIDE DEF UpTo
  <2> QED
    BY <1>3, <2>1
<1>6. rank \in Injection(is, 1..n)
  BY <1>4, <1>5 DEF Injection, IsInjective
<1>7. IsFiniteSet(1..n) /\ Cardinality(1..n) = n
  BY <1>1, FS_Interval
<1>8. rank \in Surjection(is, 1..n)
  <2> HIDE DEF rank
  <2> QED
    BY <1>6, <1>7, FS_Injection
<1>9. \A k \in 1..n : \E i \in is : rank[i] = k
  BY <1>8 DEF Surjection
<1> DEFINE at(k) == CHOOSE i \in is : Cardinality({j \in is : j <= i}) = k
<1>10. \A k \in 1..n : at(k) \in is /\ rank[at(k)] = k
  <2> SUFFICES ASSUME NEW k \in 1..n
               PROVE  at(k) \in is /\ rank[at(k)] = k
    OBVIOUS
  <2>1. PICK i \in is : rank[i] = k
    BY <1>9
  <2>2. Cardinality({j \in is : j <= i}) = k
    BY <2>1
  <2>3. at(k) \in is /\ Cardinality({j \in is : j <= at(k)}) = k
    BY <2>2
  <2> HIDE DEF at
  <2> QED
    BY <2>3
<1>11. Picked(s, is) = [k \in 1..n |-> s[at(k)]]
  BY DEF Picked
<1>12. \A i \in is : at(rank[i]) = i
  <2> HIDE DEF at, rank
  <2> QED
    BY <1>4, <1>5, <1>10
<1> HIDE DEF at, rank, n
<1>13. \A i \in is : rank[i] \in 1..n /\ Picked(s, is)[rank[i]] = s[i]
  BY <1>4, <1>11, <1>12
<1> QED
  BY <1>1, <1>10, <1>11, <1>13 DEF n

--------------------------------------------------------------------------------
(* What the operations on stores do to the variables and blocks of a       *)
(* store.                                                                  *)

(* Stores, and stores with the same variables and blocks as another one.   *)
Store == Seq(Entry)

Like(st) == {t \in Store : Len(t) = Len(st) /\ \A i \in 1..Len(st) : t[i].name = st[i].name}

(* ... or with one more variable, which is in front.                       *)
Prepended(st) == {<<c>> \o st : c \in {e \in Entry : e.name # Unnamed}}

Grown(st) == Like(st) \cup Prepended(st)

(* The fields of an entry.                                                 *)
LEMMA EntryFields ==
  ASSUME NEW c \in Entry
  PROVE  /\ c = [name |-> c.name, eff |-> c.eff, max |-> c.max, uses |-> c.uses]
         /\ c.name \in Name \cup {Unnamed} /\ c.uses \in Nat
         /\ c.name = Unnamed => c.eff = NoPerm /\ c.max = NoPerm
         /\ c.name # Unnamed => c.eff \in Permission /\ c.max \in Permission /\ Leq(c.eff, c.max)
BY DEF Entry

(* A variable is an entry if its permission is within the maximum.         *)
LEMMA EntryMade ==
  ASSUME NEW n \in Name \cup {Unnamed}, n # Unnamed,
         NEW e \in Permission, NEW m \in Permission, Leq(e, m), NEW u \in Nat
  PROVE  [name |-> n, eff |-> e, max |-> m, uses |-> u] \in Entry
BY PermAssumption DEF Entry

(* The marker of a block is an entry.                                      *)
LEMMA MarkerEntry == Marker \in Entry
BY DEF Entry, Marker

(* Failure is not a store.                                                 *)
LEMMA BrokenIsNone == Broken \notin Store
<1>1. SUFFICES ASSUME Broken \in Store
               PROVE  FALSE
  OBVIOUS
<1>2. Len(Broken) = 1 /\ Broken[1] = [Marker EXCEPT !.eff = Err]
  BY DEF Broken
<1>3. Broken[1] \in Entry
  BY <1>1, <1>2 DEF Store
<1>4. Broken[1].eff = Err
  BY <1>2 DEF Marker
<1>5. Broken[1].eff \in Permission \cup {NoPerm}
  BY <1>3, EntryFields
<1> QED
  BY <1>4, <1>5, PermAssumption

(* A store has its own variables and blocks.                               *)
LEMMA LikeItself == ASSUME NEW st \in Store PROVE st \in Like(st)
BY DEF Like

(* To have the same variables and blocks is transitive.                    *)
LEMMA LikeThrough ==
  ASSUME NEW st \in Store, NEW t \in Like(st), NEW u \in Like(t)
  PROVE  u \in Like(st)
BY DEF Like

(* The first entry of a name, if there is any.                             *)
LEMMA IndexFirst ==
  ASSUME NEW st \in Store, NEW n, Has(st, n)
  PROVE  First(st, n, IndexOf(st, n)) /\ IndexOf(st, n) \in 1..Len(st)
<1> DEFINE T == {i \in 1..Len(st) : st[i].name = n}
<1>1. T \in SUBSET Nat /\ T # {} /\ DOMAIN st = 1..Len(st)
  BY DEF Has, Store
<1> HIDE DEF T
<1>2. PICK i \in T : \A j \in T : i <= j
  BY <1>1, LeastNumber
<1>3. i \in DOMAIN st /\ st[i].name = n
  BY <1>1, <1>2 DEF T
<1>4. \A j \in 1..(i - 1) : st[j].name # n
  <2> SUFFICES ASSUME NEW j \in 1..(i - 1), st[j].name = n
               PROVE  FALSE
    OBVIOUS
  <2>1. j \in T
    BY <1>1, <1>3 DEF T, Store
  <2> QED
    BY <1>1, <1>2, <2>1
<1>5. First(st, n, i)
  BY <1>3, <1>4 DEF First
<1>6. IndexOf(st, n) \in DOMAIN st /\ First(st, n, IndexOf(st, n))
  BY <1>3, <1>5 DEF IndexOf
<1> QED
  BY <1>1, <1>6

(* One entry is replaced by one with the same name.                        *)
LEMMA EntryReplaced ==
  ASSUME NEW st \in Store, NEW i \in 1..Len(st), NEW c \in Entry, c.name = st[i].name
  PROVE  [st EXCEPT ![i] = c] \in Like(st)
BY DEF Like, Store

(* A permission is set, or that fails.                                     *)
LEMMA SetLike ==
  ASSUME NEW st \in Store, NEW n, NEW p \in Permission
  PROVE  WithEffective(st, n, p) \in Like(st) \cup {Broken}
<1> DEFINE i == IndexOf(st, n)
           eff == Meet(Maximum(st, n), p)
<1>1. WithEffective(st, n, p) = IF ~Has(st, n) THEN Broken ELSE Limited(st, i, eff)
  BY BrokenIsNone DEF WithEffective, Only
<1> SUFFICES ASSUME Has(st, n), eff \notin {Err, NoPerm}
             PROVE  Limited(st, i, eff) \in Like(st)
  BY <1>1 DEF Limited
<1>2. i \in 1..Len(st) /\ st[i].name = n /\ st[i] \in Entry
  BY IndexFirst DEF First, Store
<1>3. Maximum(st, n) = st[i].max
  BY DEF Maximum
<1>4. st[i].max # NoPerm
  BY <1>3 DEF Meet
<1>5. n # Unnamed /\ st[i].max \in Permission /\ st[i].uses \in Nat /\ n \in Name \cup {Unnamed}
  BY <1>2, <1>4, EntryFields
<1>6. eff \in Permission /\ Leq(eff, st[i].max)
  BY <1>3, <1>4, <1>5, IntersectAssumption DEF Meet
<1> HIDE DEF i, eff
<1>7. /\ Restricted(st[i], eff, st[i].max) \in Entry
      /\ Restricted(st[i], eff, st[i].max).name = st[i].name
  <2>1. Restricted(st[i], eff, st[i].max) =
          [name |-> n, eff |-> eff, max |-> st[i].max, uses |-> st[i].uses + 1]
    BY <1>2 DEF Restricted
  <2>2. st[i].uses + 1 \in Nat
    BY <1>5
  <2> QED
    BY <1>2, <1>5, <1>6, <2>1, <2>2, EntryMade
<1>8. Limited(st, i, eff) = [st EXCEPT ![i] = Restricted(st[i], eff, st[i].max)]
  BY <1>2 DEF Limited, Store
<1> QED
  BY <1>2, <1>7, <1>8, EntryReplaced

(* Failure goes on.                                                        *)
LEMMA BrokenStays ==
  /\ \A n, p : WithEffective(Broken, n, p) = Broken /\ WithVariable(Broken, n, p) = Broken
  /\ \A n : Borrow(Broken, n) = Broken
  /\ Opened(Broken) = Broken /\ Closed(Broken) = Broken
BY DEF WithEffective, WithVariable, Borrow, Opened, Closed, Only

(* A variable is defined, in front or where there is one of that name.     *)
LEMMA DefineGrown ==
  ASSUME NEW st \in Store, NEW n \in Name, NEW p \in Permission
  PROVE  WithVariable(st, n, p) \in Grown(st) \cup {Broken}
<1>1. CASE InBlock(st, n)
  <2>1. WithVariable(st, n, p) = WithEffective(st, n, p)
    BY <1>1, BrokenIsNone DEF WithVariable
  <2> QED
    BY <2>1, SetLike DEF Grown
<1>2. CASE ~InBlock(st, n)
  <2>1. n # Unnamed
    BY UnnamedAssumption
  <2>2. NewCell(n, p) \in Entry /\ NewCell(n, p).name = n
    BY <2>1, EntryMade, IntersectAssumption DEF NewCell, Leq
  <2>3. WithVariable(st, n, p) = <<NewCell(n, p)>> \o st
    BY <1>2, BrokenIsNone DEF WithVariable
  <2> QED
    BY <2>1, <2>2, <2>3 DEF Grown, Prepended
<1> QED
  BY <1>1, <1>2

--------------------------------------------------------------------------------
(* What a function literal borrows.                                        *)

(* The elements of two sequences, one after the other.                     *)
LEMMA Appended ==
  ASSUME NEW S, NEW s \in Seq(S), NEW t \in Seq(S)
  PROVE  /\ s \o t \in Seq(S)
         /\ \A k \in DOMAIN s : k \in DOMAIN (s \o t) /\ (s \o t)[k] = s[k]
         /\ \A i \in DOMAIN t : \E k \in DOMAIN (s \o t) : (s \o t)[k] = t[i]
         /\ \A k \in DOMAIN (s \o t) :
              \/ k \in DOMAIN s /\ (s \o t)[k] = s[k]
              \/ \E i \in DOMAIN t : (s \o t)[k] = t[i]
<1>1. s \o t \in Seq(S) /\ Len(s \o t) = Len(s) + Len(t) /\ Len(s) \in Nat /\ Len(t) \in Nat
  OBVIOUS
<1>2. DOMAIN s = 1..Len(s) /\ DOMAIN t = 1..Len(t) /\ DOMAIN (s \o t) = 1..(Len(s) + Len(t))
  BY <1>1
<1>3. \A k \in 1..(Len(s) + Len(t)) : (s \o t)[k] = IF k <= Len(s) THEN s[k] ELSE t[k - Len(s)]
  BY <1>1
<1>4. \A k \in 1..Len(s) : k \in 1..(Len(s) + Len(t)) /\ (s \o t)[k] = s[k]
  BY <1>1, <1>3
<1>5. \A i \in 1..Len(t) : Len(s) + i \in 1..(Len(s) + Len(t)) /\ (s \o t)[Len(s) + i] = t[i]
  BY <1>1, <1>3
<1>6. \A k \in 1..(Len(s) + Len(t)) :
        \/ k \in 1..Len(s)
        \/ k - Len(s) \in 1..Len(t) /\ (s \o t)[k] = t[k - Len(s)]
  BY <1>1, <1>3
<1> QED
  BY <1>1, <1>2, <1>4, <1>5, <1>6

(* What the literal is, besides the property: a record, whose store has    *)
(* the entries of the store it was met in, with permissions that Dead is   *)
(* idempotent on.                                                          *)
Literal ==
  /\ orig \in Outer
  /\ lit = [body |-> lit.body, visited |-> lit.visited, exits |-> lit.exits,
            deps |-> lit.deps, st |-> lit.st, owned |-> lit.owned]
  /\ lit.deps \in Seq([name : Name, perm : Permission])
  /\ \A j \in DOMAIN orig :
       lit.st[j] = [name |-> lit.st[j].name, eff |-> lit.st[j].eff,
                    max |-> lit.st[j].max, uses |-> lit.st[j].uses]
  /\ lit.owned \in BOOLEAN

BorrowInv == Literal /\ BorrowsOrLeaves

(* The stores a literal may be met in are stores.                          *)
LEMMA OrigStore ==
  ASSUME NEW st \in Outer
  PROVE  st \in Store /\ \A j \in DOMAIN st : st[j] \in Entry
BY OuterAssumption DEF Store

(* A literal that has not been visited borrows nothing.                    *)
LEMMA BorrowInit == ASSUME Init PROVE BorrowInv
<1>1. orig \in Outer /\ orig \in Store
  BY OrigStore DEF Init
<1>2. PICK stmts \in Body :
        lit = [body |-> stmts, visited |-> FALSE, exits |-> <<>>,
               deps |-> <<>>, st |-> orig, owned |-> TRUE]
  BY DEF Init
<1>3. Literal
  <2>1. \A j \in DOMAIN orig : orig[j] = [name |-> orig[j].name, eff |-> orig[j].eff,
                                          max |-> orig[j].max, uses |-> orig[j].uses]
    BY <1>1, OrigStore, EntryFields
  <2> QED
    BY <1>1, <1>2, <2>1 DEF Literal
<1>4. BorrowsOrLeaves
  BY <1>2 DEF BorrowsOrLeaves
<1> QED
  BY <1>3, <1>4 DEF BorrowInv

(* What an exit captures, borrowed or borrowed before.                     *)
LEMMA BorrowCaptured ==
  ASSUME BorrowInv, NEW st, Unchanged(st), orig' = orig, lit' = capture(lit, st)
  PROVE  BorrowInv'
<1> DEFINE n == Len(orig)
           C == Captures(st)
           dep == [j \in DOMAIN st |-> [name |-> lit.st[j].name, perm |-> lit.st[j].eff]]
           new == Picked(dep, C)
           cells == [j \in 1..n |-> IF j \in C THEN Captured(lit.st[j], st[j].uses) ELSE lit.st[j]]
           owned == lit.owned /\ \A j \in C : st[j].eff \in Owned
<1>1. /\ orig \in Outer /\ orig \in Store /\ n \in Nat /\ DOMAIN orig = 1..n
      /\ \A j \in 1..n : orig[j] \in Entry
  BY OrigStore DEF BorrowInv, Literal, Store
<1>2. /\ DOMAIN lit.st = 1..n
      /\ \A j \in 1..n : lit.st[j].name = orig[j].name
  BY <1>1 DEF BorrowInv, BorrowsOrLeaves, Names
<1>3. \A j \in 1..n :
        lit.st[j] = [name |-> orig[j].name, eff |-> lit.st[j].eff,
                     max |-> lit.st[j].max, uses |-> lit.st[j].uses]
  BY <1>1, <1>2 DEF BorrowInv, Literal
<1>4. /\ lit.deps \in Seq([name : Name, perm : Permission]) /\ lit.owned \in BOOLEAN
      /\ lit = [body |-> lit.body, visited |-> lit.visited, exits |-> lit.exits,
                deps |-> lit.deps, st |-> lit.st, owned |-> lit.owned]
  BY DEF BorrowInv, Literal
<1>5. \A j \in 1..n : BorrowedFirst(j) \/ lit.st[j] = orig[j]
  BY <1>1 DEF BorrowInv, BorrowsOrLeaves
<1>6. DOMAIN st = 1..n /\ \A j \in 1..n : st[j].eff = orig[j].eff
  BY <1>1 DEF Unchanged
<1>7. C \in SUBSET (1..n) /\ \A j \in C : orig[j].eff \in Permission /\ orig[j].name \in Name
  BY <1>1, <1>6, EntryFields DEF Captures
<1>8. C \in SUBSET Nat /\ IsFiniteSet(C)
  <2>1. IsFiniteSet(1..n)
    BY <1>1, FS_Interval
  <2>2. C \in SUBSET (1..n)
    BY <1>7
  <2> HIDE DEF C
  <2>3. IsFiniteSet(C)
    BY <2>1, <2>2, FS_Subset
  <2>4. \A j \in 1..n : j \in Nat
    BY <1>1
  <2> QED
    BY <2>2, <2>3, <2>4
<1>9. lit' = [body |-> lit.body, visited |-> lit.visited, exits |-> lit.exits,
              deps |-> lit.deps \o new, st |-> cells, owned |-> owned]
  BY <1>2, <1>4 DEF capture
<1>10. \A j \in C : /\ dep[j] = [name |-> orig[j].name, perm |-> lit.st[j].eff]
                   /\ dep[j].name = orig[j].name
  BY <1>2, <1>6, <1>7
<1>11. /\ DOMAIN cells = 1..n
       /\ \A j \in C :
            /\ cells[j].name = orig[j].name /\ cells[j].eff = Dead(lit.st[j].eff)
            /\ cells[j] = [name |-> cells[j].name, eff |-> cells[j].eff,
                           max |-> cells[j].max, uses |-> cells[j].uses]
       /\ \A j \in (1..n) \ C : cells[j] = lit.st[j]
  <2>1. \A j \in C : cells[j] = Captured(lit.st[j], st[j].uses)
    BY <1>7
  <2>2. \A j \in (1..n) \ C : cells[j] = lit.st[j]
    OBVIOUS
  <2>3. \A j \in C : lit.st[j].name = orig[j].name
    BY <1>2, <1>7
  <2>4. DOMAIN cells = 1..n
    OBVIOUS
  <2> HIDE DEF C, cells
  <2>5. ASSUME NEW j \in C
        PROVE  /\ cells[j].name = orig[j].name /\ cells[j].eff = Dead(lit.st[j].eff)
               /\ cells[j] = [name |-> cells[j].name, eff |-> cells[j].eff,
                              max |-> cells[j].max, uses |-> cells[j].uses]
    <3>1. cells[j] = [name |-> lit.st[j].name, eff |-> Dead(lit.st[j].eff),
                      max |-> lit.st[j].max, uses |-> st[j].uses]
      BY <2>1 DEF Captured
    <3> QED
      BY <3>1, <2>3
  <2> QED
    BY <2>2, <2>4, <2>5
<1> HIDE DEF C, dep
<1>12. /\ Cardinality(C) \in Nat
       /\ DOMAIN new = 1..Cardinality(C)
       /\ \A k \in DOMAIN new : \E i \in C : new[k] = dep[i]
       /\ \A i \in C : \E k \in DOMAIN new : new[k] = dep[i]
  BY <1>8, PickedFacts
<1>13. \A j \in C : /\ lit.st[j].eff \in {orig[j].eff, Dead(orig[j].eff)}
                   /\ lit.st[j].eff \in Permission
                   /\ Dead(lit.st[j].eff) = Dead(orig[j].eff)
  BY <1>5, <1>7, DeadAssumption DEF BorrowedFirst
<1>14. new \in Seq([name : Name, perm : Permission])
  <2>1. \A k \in DOMAIN new : new[k] \in [name : Name, perm : Permission]
    <3> SUFFICES ASSUME NEW k \in DOMAIN new
                 PROVE  new[k] \in [name : Name, perm : Permission]
      OBVIOUS
    <3>1. PICK j \in C : new[k] = dep[j]
      BY <1>12
    <3>2. new[k] = [name |-> orig[j].name, perm |-> lit.st[j].eff]
      BY <3>1, <1>10
    <3> QED
      BY <3>2, <1>7, <1>13
  <2>2. new = [k \in DOMAIN new |-> new[k]]
    BY DEF Picked
  <2>3. \A m \in Nat : \A S : \A f :
          f = [k \in 1..m |-> f[k]] /\ (\A k \in 1..m : f[k] \in S) => f \in Seq(S)
    OBVIOUS
  <2> HIDE DEF new
  <2> QED
    BY <1>12, <2>1, <2>2, <2>3
<1> HIDE DEF new, cells, owned
<1>15. /\ lit.deps \o new \in Seq([name : Name, perm : Permission])
       /\ \A k \in DOMAIN lit.deps : k \in DOMAIN (lit.deps \o new)
                                    /\ (lit.deps \o new)[k] = lit.deps[k]
       /\ \A i \in DOMAIN new : \E k \in DOMAIN (lit.deps \o new) :
            (lit.deps \o new)[k] = new[i]
       /\ \A k \in DOMAIN (lit.deps \o new) :
            \/ k \in DOMAIN lit.deps /\ (lit.deps \o new)[k] = lit.deps[k]
            \/ \E i \in DOMAIN new : (lit.deps \o new)[k] = new[i]
  BY <1>4, <1>14, Appended
<1> DEFINE deps == lit.deps \o new
<1> HIDE DEF deps
<1>16. lit'.deps = deps /\ lit'.st = cells /\ lit'.owned = owned
  BY <1>9 DEF deps
<1>17. DOMAIN cells = 1..n /\ \A j \in 1..n : cells[j].name = orig[j].name
  BY <1>2, <1>11
<1>18. Literal'
  <2>1. owned \in BOOLEAN
    BY <1>4 DEF owned
  <2>2. \A j \in 1..n : cells[j] = [name |-> cells[j].name, eff |-> cells[j].eff,
                                    max |-> cells[j].max, uses |-> cells[j].uses]
    <3>1. \A j \in (1..n) \ C : lit.st[j] = [name |-> lit.st[j].name, eff |-> lit.st[j].eff,
                                             max |-> lit.st[j].max, uses |-> lit.st[j].uses]
      BY <1>1 DEF BorrowInv, Literal
    <3> QED
      BY <3>1, <1>11
  <2>3. deps \in Seq([name : Name, perm : Permission])
    BY <1>15 DEF deps
  <2>4. lit' = [body |-> lit'.body, visited |-> lit'.visited, exits |-> lit'.exits,
                deps |-> lit'.deps, st |-> lit'.st, owned |-> lit'.owned]
    BY <1>9
  <2> QED
    BY <1>1, <1>16, <2>1, <2>2, <2>3, <2>4 DEF Literal
<1>19. \A j \in 1..n : BorrowedFirst(j)' \/ cells[j] = orig[j]
  <2> SUFFICES ASSUME NEW j \in 1..n, cells[j] # orig[j]
               PROVE  BorrowedFirst(j)'
    OBVIOUS
  <2>1. CASE j \in C /\ lit.st[j] = orig[j]
    <3>1. dep[j] = [name |-> orig[j].name, perm |-> orig[j].eff]
      BY <2>1, <1>10
    <3>2. \E k \in DOMAIN deps : deps[k] = dep[j]
      <4>1. PICK i \in DOMAIN new : new[i] = dep[j]
        BY <2>1, <1>12
      <4> QED
        BY <4>1, <1>15 DEF deps
    <3>3. cells[j].eff = Dead(orig[j].eff)
      BY <2>1, <1>11
    <3>4. orig[j].eff \notin Owned => ~owned
      BY <2>1, <1>6 DEF owned
    <3> QED
      BY <3>1, <3>2, <3>3, <3>4, <1>16 DEF BorrowedFirst
  <2>2. CASE BorrowedFirst(j)
    <3>1. PICK k \in DOMAIN lit.deps :
            /\ lit.deps[k] = [name |-> orig[j].name, perm |-> orig[j].eff]
            /\ lit.st[j].eff = Dead(orig[j].eff)
            /\ orig[j].eff \notin Owned => ~lit.owned
      BY <2>2 DEF BorrowedFirst
    <3>2. k \in DOMAIN deps /\ deps[k] = [name |-> orig[j].name, perm |-> orig[j].eff]
      BY <3>1, <1>15 DEF deps
    <3>3. cells[j].eff = Dead(orig[j].eff)
      <4>1. CASE j \in C
        BY <4>1, <1>11, <1>13
      <4>2. CASE j \notin C
        BY <4>2, <3>1, <1>11
      <4> QED
        BY <4>1, <4>2
    <3>4. orig[j].eff \notin Owned => ~owned
      BY <3>1 DEF owned
    <3> QED
      BY <3>2, <3>3, <3>4, <1>16 DEF BorrowedFirst
  <2> QED
    BY <2>1, <2>2, <1>5, <1>11
<1>20. \A k \in DOMAIN deps : Has(orig, deps[k].name)
  <2> SUFFICES ASSUME NEW k \in DOMAIN deps
               PROVE  Has(orig, deps[k].name)
    OBVIOUS
  <2>1. CASE k \in DOMAIN lit.deps /\ deps[k] = lit.deps[k]
    BY <2>1 DEF BorrowInv, BorrowsOrLeaves
  <2>2. CASE \E i \in DOMAIN new : deps[k] = new[i]
    <3>1. PICK j \in C : deps[k] = dep[j]
      BY <2>2, <1>12
    <3>2. dep[j].name = orig[j].name
      BY <1>10
    <3> QED
      BY <3>1, <3>2, <1>1, <1>7 DEF Has
  <2> QED
    BY <2>1, <2>2, <1>15 DEF deps
<1>21. (Names(lit.st) = Names(orig))'
  BY <1>1, <1>16, <1>17 DEF Names
<1> QED
  BY <1>1, <1>16, <1>18, <1>19, <1>20, <1>21 DEF BorrowInv, BorrowsOrLeaves

(* Nothing but captureExit, and bodyVisited for the exits, changes the     *)
(* literal.                                                                *)
LEMMA BorrowStep == ASSUME BorrowInv, [Next]_vars PROVE BorrowInv'
<1>1. CASE UNCHANGED <<orig, lit>>
  BY <1>1 DEF BorrowInv, Literal, BorrowsOrLeaves, BorrowedFirst, Names, Has
<1>2. CASE bodyVisited
  <2>1. /\ orig' = orig
        /\ lit' = [lit EXCEPT !.exits = ret, !.visited = TRUE]
    BY <1>2 DEF bodyVisited
  <2>2. lit' = [body |-> lit.body, visited |-> TRUE, exits |-> ret,
                deps |-> lit.deps, st |-> lit.st, owned |-> lit.owned]
    BY <2>1 DEF BorrowInv, Literal
  <2>3. lit'.deps = lit.deps /\ lit'.st = lit.st /\ lit'.owned = lit.owned
    BY <2>2
  <2>4. Literal'
    BY <2>1, <2>2, <2>3 DEF BorrowInv, Literal
  <2>5. BorrowsOrLeaves'
    BY <2>1, <2>3 DEF BorrowInv, BorrowsOrLeaves, BorrowedFirst, Names, Has
  <2> QED
    BY <2>4, <2>5 DEF BorrowInv
<1>3. CASE captureExit
  <2>1. \/ UNCHANGED <<orig, lit>>
        \/ \E st : Unchanged(st) /\ orig' = orig /\ lit' = capture(lit, st)
    BY <1>3 DEF captureExit, Panics
  <2> QED
    BY <2>1, <1>1, BorrowCaptured
<1> QED
  BY <1>1, <1>2, <1>3
  DEF Next, vars, Panics, Calls, Leaves, CallsIf, LeavesIf, Iterates,
      visitSimple, visitBranchStmt, visitLabeledStmt,
      visitBlockStmt, visitSelectStmt, blockVisited, visitCommClause,
      visitIfStmt, thenVisited, elseVisited,
      visitSwitchStmt, switchVisited, visitCaseClause, caseAlternative, caseBody,
      visitItem, itemVisited, listVisited,
      visitForStmt, forIterates, forBodyVisited, forVisited,
      visitRangeStmt, rangeIterates, rangeBodyVisited, rangeVisited, functionBuilt

(* buildFunction, exit by exit: a variable that the literal is met with is *)
(* either listed in its dependencies, with the permission it had, and left *)
(* dead, or the same as before; whatever the body is and however many      *)
(* exits it has.                                                           *)
THEOREM FunctionLiteralBorrows == Spec => []BorrowsOrLeaves
<1>1. Init => BorrowInv
  BY BorrowInit
<1>2. BorrowInv /\ [Next]_vars => BorrowInv'
  BY BorrowStep
<1>3. BorrowInv => BorrowsOrLeaves
  BY DEF BorrowInv
<1> QED
  BY <1>1, <1>2, <1>3, PTL DEF Spec

--------------------------------------------------------------------------------
(* Borrowing, giving back, logging.                                        *)

Loan == [name : Name \cup {Unnamed}, perm : Permission]

(* A permission that is readable, or owned, is that of a variable.         *)
LEMMA EffectiveHas ==
  ASSUME NEW st \in Store, NEW n, Effective(st, n) \in Permission
  PROVE  Has(st, n) /\ n \in Name \cup {Unnamed}
<1>1. Has(st, n)
  BY PermAssumption DEF Effective
<1>2. PICK i \in 1..Len(st) : st[i].name = n
  BY <1>1 DEF Has, Store
<1>3. st[i] \in Entry
  BY DEF Store
<1> QED
  BY <1>1, <1>2, <1>3, EntryFields

(* A use is counted.                                                       *)
LEMMA UsedLike ==
  ASSUME NEW st \in Store, NEW i \in 1..Len(st)
  PROVE  [st EXCEPT ![i] = Used(@)] \in Like(st)
<1>1. st[i] \in Entry
  BY DEF Store
<1>2. st[i] = [name |-> st[i].name, eff |-> st[i].eff, max |-> st[i].max, uses |-> st[i].uses]
      /\ st[i].uses \in Nat
  BY <1>1, EntryFields
<1>3. Used(st[i]) =
        [name |-> st[i].name, eff |-> st[i].eff, max |-> st[i].max, uses |-> st[i].uses + 1]
  BY <1>2 DEF Used
<1>4. Used(st[i]) \in Entry /\ Used(st[i]).name = st[i].name
  <2>1. st[i].uses + 1 \in Nat
    BY <1>2
  <2> QED
    BY <1>1, <1>2, <1>3, <2>1 DEF Entry
<1>5. [st EXCEPT ![i] = Used(@)] = [st EXCEPT ![i] = Used(st[i])]
  BY DEF Store
<1> QED
  BY <1>4, <1>5, EntryReplaced

(* What the log statements do.                                             *)
LEMMA LogLike == ASSUME NEW st \in Store PROVE Log(st) \in Like(st)
<1>1. CASE Has(st, Logged)
  <2>1. IndexOf(st, Logged) \in 1..Len(st)
    BY <1>1, IndexFirst
  <2> QED
    BY <1>1, <2>1, UsedLike DEF Log
<1>2. CASE ~Has(st, Logged)
  BY <1>2, LikeItself DEF Log
<1> QED
  BY <1>1, <1>2

(* A variable with a permission is borrowed.                               *)
LEMMA BorrowLike ==
  ASSUME NEW st \in Store, NEW n, Effective(st, n) \in Permission
  PROVE  Borrow(st, n) \in Like(st) \cup {Broken}
<1>1. Has(st, n)
  BY EffectiveHas
<1> DEFINE used == [st EXCEPT ![IndexOf(st, n)] = Used(@)]
<1>2. used \in Like(st)
  BY <1>1, IndexFirst, UsedLike
<1>3. Borrow(st, n) = WithEffective(used, n, Dead(Effective(st, n)))
  BY <1>1, BrokenIsNone DEF Borrow, Only
<1>4. Dead(Effective(st, n)) \in Permission
  BY DeadAssumption
<1> HIDE DEF used
<1>5. used \in Store
  BY <1>2 DEF Like
<1>6. WithEffective(used, n, Dead(Effective(st, n))) \in Like(used) \cup {Broken}
  BY <1>4, <1>5, SetLike
<1> QED
  BY <1>2, <1>3, <1>6, LikeThrough

(* What was borrowed is given back, or that fails.                         *)
LEMMA ReleaseLike ==
  ASSUME NEW st \in Store, NEW deps \in Seq(Loan)
  PROVE  /\ Release(st, deps) \in Like(st) \cup {Broken}
         /\ Release(Broken, deps) = Broken
<1> DEFINE R == Like(st) \cup {Broken}
           N == Len(deps)
           step == [k \in 1..N |-> [c \in R |-> WithEffective(c, deps[k].name, deps[k].perm)]]
<1>1. N \in Nat /\ \A k \in 1..N : deps[k].perm \in Permission
  <2>1. N \in Nat /\ \A k \in 1..N : deps[k] \in Loan
    OBVIOUS
  <2>2. \A l \in Loan : l.perm \in Permission
    BY DEF Loan
  <2> HIDE DEF N
  <2> QED
    BY <2>1, <2>2
<1>2. ASSUME NEW c \in R, NEW k \in 1..N
      PROVE  WithEffective(c, deps[k].name, deps[k].perm) \in R
  <2>1. CASE c = Broken
    BY <2>1, BrokenStays
  <2>2. CASE c \in Like(st)
    <3>1. c \in Store
      BY <2>2 DEF Like
    <3>2. WithEffective(c, deps[k].name, deps[k].perm) \in Like(c) \cup {Broken}
      BY <1>1, <3>1, SetLike
    <3> QED
      BY <2>2, <3>2, LikeThrough
  <2> QED
    BY <2>1, <2>2
<1>3. st \in R /\ Broken \in R
  BY LikeItself
<1>4. step \in [1..N -> [R -> R]]
  BY <1>2
<1>5. ASSUME NEW base \in R
      PROVE  /\ Release(base, deps) \in R
             /\ base = Broken => Release(base, deps) = Broken
  <2> DEFINE Solves(f) == f = [i \in 0..Len(deps) |->
                                 IF i = 0 THEN base
                                 ELSE WithEffective(f[i - 1], deps[i].name, deps[i].perm)]
             after == CHOOSE f : Solves(f)
  <2>1. PICK f : Iteration(step, base, N, R, f)
    <3> HIDE DEF step, R, N
    <3> QED
      BY <1>1, <1>4, IterationExists
  <2>2. f \in [0..N -> R] /\ f[0] = base /\ \A k \in 1..N : f[k] = step[k][f[k - 1]]
    BY <2>1 DEF Iteration
  <2>3. \A k \in 1..N : f[k] = WithEffective(f[k - 1], deps[k].name, deps[k].perm)
    <3> SUFFICES ASSUME NEW k \in 1..N
                 PROVE  f[k] = WithEffective(f[k - 1], deps[k].name, deps[k].perm)
      OBVIOUS
    <3>1. k - 1 \in 0..N
      BY <1>1
    <3>2. f[k - 1] \in R
      BY <2>2, <3>1
    <3> HIDE DEF R
    <3> QED
      BY <2>2, <3>2
  <2>4. Solves(f)
    <3>1. \A k \in 0..N : f[k] = IF k = 0 THEN base
                                 ELSE WithEffective(f[k - 1], deps[k].name, deps[k].perm)
      <4>1. \A k \in 0..N : k = 0 \/ k \in 1..N
        BY <1>1
      <4> QED
        BY <2>2, <2>3, <4>1
    <3>2. f = [k \in 0..N |-> f[k]]
      BY <2>2
    <3> QED
      BY <3>1, <3>2
  <2>5. Solves(after)
    BY <2>4
  <2>6. Release(base, deps) = after[N]
    BY DEF Release
  <2> HIDE DEF after
  <2>7. \A k \in 0..N : after[k] = IF k = 0 THEN base
                                   ELSE WithEffective(after[k - 1], deps[k].name, deps[k].perm)
    BY <2>5
  <2> HIDE DEF Solves
  <2> DEFINE T == {k \in Nat : k <= N => /\ after[k] \in R
                                         /\ base = Broken => after[k] = Broken}
  <2>8. 0 \in T
    BY <1>1, <2>7
  <2>9. ASSUME NEW k \in Nat, k \in T
        PROVE  k + 1 \in T
    <3> SUFFICES ASSUME k + 1 <= N
                 PROVE  after[k + 1] \in R /\ (base = Broken => after[k + 1] = Broken)
      OBVIOUS
    <3>1. after[k] \in R /\ (base = Broken => after[k] = Broken)
      BY <2>9, <1>1
    <3>2. k + 1 \in 1..N /\ k + 1 # 0 /\ (k + 1) - 1 = k
      BY <1>1
    <3>3. after[k + 1] = WithEffective(after[k], deps[k + 1].name, deps[k + 1].perm)
      BY <2>7, <3>2
    <3> HIDE DEF R, N
    <3> QED
      BY <1>2, <3>1, <3>2, <3>3, BrokenStays
  <2>10. Nat \subseteq T
    <3> HIDE DEF T
    <3> QED
      BY <2>8, <2>9, NumberInduction
  <2> QED
    BY <1>1, <2>6, <2>10
<1> QED
  BY <1>3, <1>5

--------------------------------------------------------------------------------
(* The depth of a store, and the variables at its end.                     *)

(* The blocks of a store, and the numbers of a set moved up.               *)
Markers(st) == {i \in DOMAIN st : st[i].name = Unnamed}

MovedUp(S, m) == {i + m : i \in S}

(* Moving the numbers of a set up keeps their number.                      *)
LEMMA MovedUpSize ==
  ASSUME NEW S \in SUBSET Nat, IsFiniteSet(S), NEW m \in Nat
  PROVE  IsFiniteSet(MovedUp(S, m)) /\ Cardinality(MovedUp(S, m)) = Cardinality(S)
<1> DEFINE f == [i \in S |-> i + m]
           T == MovedUp(S, m)
<1>1. f \in Surjection(S, T)
  BY DEF Surjection, MovedUp
<1>2. f \in Injection(S, T)
  <2>1. f \in [S -> T]
    BY DEF MovedUp
  <2>2. \A i, j \in S : f[i] = f[j] => i = j
    <3>1. \A i, j \in Nat : i + m = j + m => i = j
      OBVIOUS
    <3> QED
      BY <3>1
  <2> HIDE DEF f, T
  <2> QED
    BY <2>1, <2>2 DEF Injection, IsInjective
<1> HIDE DEF f, T
<1> QED
  BY <1>1, <1>2, FS_Surjection DEF T

(* A store has finitely many blocks, and the depth counts them.            *)
LEMMA MarkersFinite ==
  ASSUME NEW st \in Store
  PROVE  /\ Markers(st) \in SUBSET (1..Len(st)) /\ Markers(st) \in SUBSET Nat
         /\ IsFiniteSet(Markers(st))
         /\ Depth(st) = Cardinality(Markers(st)) /\ Depth(st) \in Nat
<1>1. Len(st) \in Nat /\ DOMAIN st = 1..Len(st)
  BY DEF Store
<1>2. Markers(st) \in SUBSET (1..Len(st))
  BY <1>1 DEF Markers
<1>3. IsFiniteSet(1..Len(st)) /\ (1..Len(st)) \in SUBSET Nat
  BY <1>1, FS_Interval
<1>4. Depth(st) = Cardinality(Markers(st))
  BY DEF Depth, Markers
<1>5. IsFiniteSet(Markers(st))
  BY <1>2, <1>3, FS_Subset
<1> QED
  BY <1>2, <1>3, <1>4, <1>5, FS_CardinalityType

(* A store of depth d, in which the variables of o are at the end.         *)
Ends(o, st) == /\ Len(st) >= Len(o)
               /\ \A i \in 1..Len(o) : st[Len(st) - Len(o) + i].name = o[i].name

Good(o, d) == {st \in Store : Ends(o, st) /\ Depth(st) = d}

(* Ends is what Keeps says of orig.                                        *)
LEMMA EndsKeeps ==
  ASSUME orig \in Store, NEW st \in Store, Ends(orig, st)
  PROVE  Keeps(st)
<1>1. Len(st) \in Nat /\ Len(orig) \in Nat /\ Len(st) >= Len(orig)
      /\ DOMAIN st = 1..Len(st) /\ DOMAIN orig = 1..Len(orig)
  BY DEF Ends, Store
<1> DEFINE k == Len(st) - Len(orig)
           sub == SubSeq(Names(st), k + 1, Len(st))
<1>2. k \in Nat /\ Len(st) = k + Len(orig) /\ 1 + Len(st) - (k + 1) = Len(orig)
  BY <1>1
<1>3. sub = [i \in 1..Len(orig) |-> Names(st)[k + i]]
  <2>1. sub = [i \in 1..(1 + Len(st) - (k + 1)) |-> Names(st)[i + (k + 1) - 1]]
    BY <1>1, <1>2
  <2>2. \A i \in 1..Len(orig) : i + (k + 1) - 1 = k + i
    BY <1>2
  <2> QED
    BY <1>2, <2>1, <2>2
<1>4. \A i \in 1..Len(orig) : Names(st)[k + i] = orig[i].name
  <2>1. \A i \in 1..Len(orig) : k + i \in 1..Len(st)
    BY <1>1, <1>2
  <2> QED
    BY <1>1, <2>1 DEF Names, Ends
<1>5. sub = Names(orig)
  <2> HIDE DEF k, sub
  <2> QED
    BY <1>1, <1>3, <1>4 DEF Names
<1> QED
  BY <1>1, <1>5 DEF Keeps

(* The same variables and blocks: the same depth, and the same end.        *)
LEMMA LikeGood ==
  ASSUME NEW o \in Store, NEW d, NEW st \in Good(o, d), NEW t \in Like(st)
  PROVE  t \in Good(o, d)
<1>1. /\ st \in Store /\ t \in Store /\ Len(t) = Len(st) /\ Len(st) \in Nat /\ Len(o) \in Nat
      /\ \A i \in 1..Len(st) : t[i].name = st[i].name
      /\ DOMAIN st = 1..Len(st) /\ DOMAIN t = 1..Len(st)
  BY DEF Good, Like, Store
<1>2. Markers(t) = Markers(st)
  BY <1>1 DEF Markers
<1>3. Depth(t) = d
  BY <1>1, <1>2, MarkersFinite DEF Good
<1>4. Ends(o, t)
  <2>1. \A i \in 1..Len(o) : Len(st) >= Len(o) => Len(st) - Len(o) + i \in 1..Len(st)
    BY <1>1
  <2> QED
    BY <1>1, <2>1 DEF Good, Ends
<1> QED
  BY <1>1, <1>3, <1>4 DEF Good

(* An entry in front: the depth grows with a marker.                       *)
LEMMA InFrontGood ==
  ASSUME NEW o \in Store, NEW d, NEW st \in Good(o, d), NEW c \in Entry
  PROVE  <<c>> \o st \in Good(o, IF c.name = Unnamed THEN d + 1 ELSE d)
<1> DEFINE t == <<c>> \o st
<1>1. /\ st \in Store /\ Len(st) \in Nat /\ Len(o) \in Nat /\ DOMAIN st = 1..Len(st)
      /\ Ends(o, st) /\ Depth(st) = d /\ d \in Nat
  BY MarkersFinite DEF Good, Store
<1>2. t \in Store /\ Len(t) = Len(st) + 1 /\ DOMAIN t = 1..(Len(st) + 1)
  BY <1>1 DEF Store
<1>3. t[1] = c /\ \A i \in 1..Len(st) : t[i + 1] = st[i]
  BY <1>1 DEF Store
<1> HIDE DEF t
<1>4. Ends(o, t)
  <2>1. Len(st) >= Len(o) /\ \A i \in 1..Len(o) : st[Len(st) - Len(o) + i].name = o[i].name
    BY <1>1 DEF Ends
  <2>2. ASSUME NEW i \in 1..Len(o)
        PROVE  t[Len(t) - Len(o) + i].name = o[i].name
    <3>1. Len(st) - Len(o) + i \in 1..Len(st) /\ Len(t) - Len(o) + i = (Len(st) - Len(o) + i) + 1
      BY <1>1, <1>2, <2>1
    <3> QED
      BY <1>3, <2>1, <3>1
  <2> QED
    BY <1>1, <1>2, <2>1, <2>2 DEF Ends
<1> DEFINE M == MovedUp(Markers(st), 1)
<1>5. /\ IsFiniteSet(M) /\ Cardinality(M) = d
  BY <1>1, MarkersFinite, MovedUpSize
<1>6. Markers(t) = IF c.name = Unnamed THEN M \cup {1} ELSE M
  <2>1. \A j \in 1..(Len(st) + 1) : j = 1 \/ (j - 1 \in 1..Len(st) /\ (j - 1) + 1 = j)
    BY <1>1
  <2>2. \A i \in 1..Len(st) : i + 1 \in 1..(Len(st) + 1) /\ 1 \in 1..(Len(st) + 1)
    BY <1>1
  <2>3. 1 \in 1..(Len(st) + 1)
    BY <1>1
  <2>4. ASSUME NEW j \in Markers(t), j # 1
        PROVE  j \in M
    <3>1. j \in 1..(Len(st) + 1) /\ t[j].name = Unnamed
      BY <1>2 DEF Markers
    <3>2. j - 1 \in 1..Len(st) /\ (j - 1) + 1 = j
      BY <2>1, <2>4, <3>1
    <3>3. st[j - 1].name = Unnamed
      BY <1>3, <3>1, <3>2
    <3>4. j - 1 \in Markers(st)
      BY <1>1, <3>2, <3>3 DEF Markers
    <3> QED
      BY <3>2, <3>4 DEF MovedUp
  <2>5. ASSUME NEW j \in M
        PROVE  j \in Markers(t)
    <3>1. PICK i \in Markers(st) : j = i + 1
      BY DEF MovedUp
    <3>2. i \in 1..Len(st) /\ st[i].name = Unnamed
      BY <1>1 DEF Markers
    <3> QED
      BY <1>2, <1>3, <2>2, <3>1, <3>2 DEF Markers
  <2>6. 1 \in Markers(t) <=> c.name = Unnamed
    BY <1>2, <1>3, <2>3 DEF Markers
  <2> HIDE DEF M
  <2> QED
    BY <2>4, <2>5, <2>6
<1>7. 1 \notin M
  BY <1>1, MarkersFinite DEF MovedUp, Markers
<1> HIDE DEF M
<1>8. Depth(t) = IF c.name = Unnamed THEN d + 1 ELSE d
  BY <1>2, <1>5, <1>6, <1>7, MarkersFinite, FS_AddElement
<1> QED
  BY <1>2, <1>4, <1>8 DEF Good, t

(* BeginBlock adds a block and keeps the end.                              *)
LEMMA OpenedGood ==
  ASSUME NEW o \in Store, NEW d, NEW st \in Good(o, d)
  PROVE  Opened(st) \in Good(o, d + 1)
<1>1. st # Broken
  BY BrokenIsNone DEF Good
<1>2. Opened(st) = <<Marker>> \o st
  BY <1>1 DEF Opened
<1>3. Marker \in Entry /\ Marker.name = Unnamed
  BY MarkerEntry DEF Marker
<1> QED
  BY <1>2, <1>3, InFrontGood

(* Define keeps the depth and the end.                                     *)
LEMMA GrownGood ==
  ASSUME NEW o \in Store, NEW d, NEW st \in Good(o, d), NEW t \in Grown(st)
  PROVE  t \in Good(o, d)
BY LikeGood, InFrontGood DEF Grown, Prepended

(* A store that has more blocks than o has one in front of what is o's, so *)
(* that closing the innermost block leaves o's part alone.                 *)
LEMMA ClosedGood ==
  ASSUME NEW o \in Store, NEW d, NEW st \in Good(o, d), d > Depth(o)
  PROVE  Closed(st) \in Good(o, d - 1)
<1> DEFINE i == IndexOf(st, Unnamed)
           n == Len(st)
           k == n - Len(o)
           t == SubSeq(st, i + 1, n)
<1>1. /\ st \in Store /\ st # Broken /\ n \in Nat /\ Len(o) \in Nat
      /\ DOMAIN st = 1..n /\ DOMAIN o = 1..Len(o)
      /\ n >= Len(o) /\ k \in Nat /\ k + Len(o) = n
      /\ \A j \in 1..Len(o) : st[k + j].name = o[j].name
      /\ Cardinality(Markers(st)) = d /\ d \in Nat
      /\ Cardinality(Markers(o)) = Depth(o) /\ Depth(o) \in Nat
  BY BrokenIsNone, MarkersFinite DEF Good, Ends, Store
<1>2. Has(st, Unnamed)
  <2>1. Markers(st) # {}
    <3>1. d # 0
      BY <1>1
    <3>2. Cardinality({}) = 0
      BY FS_EmptySet
    <3> QED
      BY <1>1, <3>1, <3>2
  <2> QED
    BY <2>1 DEF Markers, Has
<1>3. /\ i \in 1..n /\ st[i].name = Unnamed
      /\ \A j \in 1..(i - 1) : st[j].name # Unnamed
  BY <1>1, <1>2, IndexFirst DEF First
<1> HIDE DEF i, k
<1>4. i <= k
  <2> SUFFICES ASSUME ~(i <= k)
               PROVE  FALSE
    OBVIOUS
  <2>1. ASSUME NEW j \in Markers(st)
        PROVE  j \in MovedUp(Markers(o), k)
    <3>1. j \in 1..n /\ st[j].name = Unnamed
      BY <1>1 DEF Markers
    <3>2. j \notin 1..(i - 1)
      BY <1>3, <3>1
    <3>3. j - k \in 1..Len(o) /\ j = k + (j - k) /\ (j - k) + k = j
      BY <1>1, <1>3, <3>1, <3>2
    <3>4. o[j - k].name = Unnamed
      BY <1>1, <3>1, <3>3
    <3>5. j - k \in Markers(o)
      BY <1>1, <3>3, <3>4 DEF Markers
    <3> QED
      BY <3>3, <3>5 DEF MovedUp
  <2>2. ASSUME NEW j \in MovedUp(Markers(o), k)
        PROVE  j \in Markers(st)
    <3>1. PICK l \in Markers(o) : j = l + k
      BY DEF MovedUp
    <3>2. l \in 1..Len(o) /\ o[l].name = Unnamed
      BY <1>1 DEF Markers
    <3>3. l + k = k + l /\ l + k \in 1..n
      BY <1>1, <3>2
    <3> QED
      BY <1>1, <3>1, <3>2, <3>3 DEF Markers
  <2>3. Markers(st) = MovedUp(Markers(o), k)
    BY <2>1, <2>2
  <2>4. Cardinality(MovedUp(Markers(o), k)) = Cardinality(Markers(o))
    BY <1>1, MarkersFinite, MovedUpSize
  <2> QED
    BY <1>1, <2>3, <2>4
<1>5. /\ t \in Store /\ Len(t) = n - i /\ DOMAIN t = 1..(n - i)
      /\ \A j \in 1..(n - i) : t[j] = st[i + j]
  <2>1. i + 1 \in 1..(n + 1) /\ n - (i + 1) + 1 = n - i /\ i \in Nat
    BY <1>1, <1>3
  <2>2. \A j \in 1..(n - i) : i + j \in 1..n
    BY <1>1, <1>3
  <2>3. t = [j \in 1..(n - i) |-> st[i + j]]
    <3>1. t = [j \in 1..(1 + n - (i + 1)) |-> st[j + (i + 1) - 1]]
      BY <1>1, <2>1
    <3>2. 1 + n - (i + 1) = n - i /\ \A j \in 1..(n - i) : j + (i + 1) - 1 = i + j
      BY <1>1, <1>3
    <3> QED
      BY <3>1, <3>2
  <2>4. n - i \in Nat
    BY <1>1, <1>3
  <2>5. \A j \in 1..(n - i) : st[i + j] \in Entry
    BY <1>1, <2>2 DEF Store
  <2> HIDE DEF t
  <2> QED
    BY <2>3, <2>4, <2>5 DEF Store
<1> HIDE DEF t
<1>6. Ends(o, t)
  <2>1. Len(t) >= Len(o)
    BY <1>1, <1>3, <1>4, <1>5
  <2>2. ASSUME NEW j \in 1..Len(o)
        PROVE  t[Len(t) - Len(o) + j].name = o[j].name
    <3>1. Len(t) - Len(o) + j \in 1..(n - i) /\ i + (Len(t) - Len(o) + j) = k + j
      <4>1. \A l, m, p \in Nat : p <= m =>
              \A q \in 1..l :
                /\ ((m + l) - p) - l + q \in 1..((m + l) - p)
                /\ p + (((m + l) - p) - l + q) = m + q
        OBVIOUS
      <4>2. i \in Nat /\ n = k + Len(o)
        <5>1. \A p \in Nat : \A q \in 1..p : q \in Nat
          OBVIOUS
        <5>2. i \in Nat
          BY <1>1, <1>3, <5>1
        <5>3. n = k + Len(o)
          BY <1>1
        <5> QED
          BY <5>2, <5>3
      <4>3. /\ ((k + Len(o)) - i) - Len(o) + j \in 1..((k + Len(o)) - i)
            /\ i + (((k + Len(o)) - i) - Len(o) + j) = k + j
        BY <1>1, <1>4, <4>1, <4>2
      <4> QED
        BY <1>5, <4>2, <4>3
    <3> QED
      BY <1>1, <1>5, <3>1
  <2> QED
    BY <2>1, <2>2 DEF Ends
<1> DEFINE M == MovedUp(Markers(t), i)
<1>7. IsFiniteSet(M) /\ Cardinality(M) = Depth(t) /\ Depth(t) \in Nat
  <2>1. /\ Markers(t) \in SUBSET Nat /\ IsFiniteSet(Markers(t))
        /\ Depth(t) = Cardinality(Markers(t)) /\ Depth(t) \in Nat
    BY <1>5, MarkersFinite
  <2>2. \A p \in Nat : \A q \in 1..p : q \in Nat
    OBVIOUS
  <2>3. i \in Nat
    BY <1>1, <1>3, <2>2
  <2> QED
    BY <2>1, <2>3, MovedUpSize
<1>8. Markers(st) = M \cup {i}
  <2>1. ASSUME NEW j \in Markers(st), j # i
        PROVE  j \in M
    <3>1. j \in 1..n /\ st[j].name = Unnamed
      BY <1>1 DEF Markers
    <3>2. j \notin 1..(i - 1)
      BY <1>3, <3>1
    <3>3. j - i \in 1..(n - i) /\ i + (j - i) = j /\ (j - i) + i = j
      BY <1>1, <1>3, <2>1, <3>1, <3>2
    <3>4. j - i \in Markers(t)
      BY <1>5, <3>1, <3>3 DEF Markers
    <3> QED
      BY <3>3, <3>4 DEF MovedUp
  <2>2. ASSUME NEW j \in M
        PROVE  j \in Markers(st)
    <3>1. PICK l \in Markers(t) : j = l + i
      BY DEF MovedUp
    <3>2. l \in 1..(n - i) /\ st[i + l].name = Unnamed
      BY <1>5 DEF Markers
    <3>3. l + i = i + l /\ l + i \in 1..n
      BY <1>1, <1>3, <3>2
    <3> QED
      BY <1>1, <3>1, <3>2, <3>3 DEF Markers
  <2>3. i \in Markers(st)
    BY <1>1, <1>3 DEF Markers
  <2> HIDE DEF M
  <2> QED
    BY <2>1, <2>2, <2>3
<1>9. i \notin M
  <2>1. \A l \in Markers(t) : l \in 1..(n - i)
    BY <1>5 DEF Markers
  <2>2. \A l \in 1..(n - i) : l + i # i
    BY <1>1, <1>3
  <2> QED
    BY <2>1, <2>2 DEF MovedUp
<1> HIDE DEF M
<1>10. Depth(t) = d - 1
  <2>1. Cardinality(M \cup {i}) = Cardinality(M) + 1
    BY <1>7, <1>9, FS_AddElement
  <2>2. d = Depth(t) + 1
    BY <1>1, <1>7, <1>8, <2>1
  <2> QED
    BY <1>1, <1>7, <2>2
<1>11. Closed(st) = t
  BY <1>1, <1>2 DEF Closed, t, i
<1> QED
  BY <1>5, <1>6, <1>10, <1>11 DEF Good

(* Stores of the same scopes are merged to one with these scopes, or that  *)
(* fails.                                                                  *)
LEMMA MergedGood ==
  ASSUME NEW o \in Store, NEW d, d > Depth(o), NEW st \in Good(o, d), NEW st2 \in Good(o, d)
  PROVE  MergedStore(st, st2) \in Good(o, d) \cup {Broken}
<1>1. st \in Store /\ st2 \in Store /\ DOMAIN st = 1..Len(st) /\ Len(st) \in Nat
  BY DEF Good, Store
<1>2. ASSUME NEW u \in Good(o, d)
      PROVE  u # <<>> /\ u # Broken
  <2>1. u \in Store /\ Depth(u) = d /\ Depth(o) \in Nat
    BY MarkersFinite DEF Good
  <2>2. Markers(<<>>) = {}
    BY DEF Markers
  <2>3. Cardinality({}) = 0
    BY FS_EmptySet
  <2>4. u # <<>>
    <3>1. d = Cardinality(Markers(u))
      BY <2>1, MarkersFinite
    <3>2. d # 0
      BY <2>1, <3>1, MarkersFinite
    <3> QED
      BY <2>2, <2>3, <3>1, <3>2
  <2> QED
    BY <2>1, <2>4, BrokenIsNone
<1> DEFINE t == [i \in DOMAIN st |-> MergedCell(st[i], st2[i])]
<1> SUFFICES ASSUME \A i \in DOMAIN st : MergeStatus(st, st2, i) = "ok"
             PROVE  t \in Like(st)
  <2>1. MergedStore(st, st2) \in {t, Broken}
    BY <1>2 DEF MergedStore
  <2>2. (\A i \in DOMAIN st : MergeStatus(st, st2, i) = "ok") \/ MergedStore(st, st2) = Broken
    BY <1>2 DEF MergedStore
  <2> HIDE DEF t
  <2> QED
    BY <2>1, <2>2, LikeGood
<1>3. ASSUME NEW i \in 1..Len(st)
      PROVE  t[i] \in Entry /\ t[i].name = st[i].name
  <2> DEFINE c == st[i]
             c2 == st2[i]
             eff == Meet(c.eff, c2.eff)
             max == Meet(c.max, c2.max)
             uses == IF c2.uses > c.uses THEN c2.uses ELSE c.uses
  <2>1. MergeStatus(st, st2, i) = "ok"
    BY <1>1
  <2>2. i \in DOMAIN st2 /\ c.name = c2.name
    BY <2>1 DEF MergeStatus
  <2>3. MergedCell(c, c2) = [name |-> c.name, eff |-> eff, max |-> max, uses |-> uses]
    BY DEF MergedCell
  <2>4. MergedCell(c, c2).eff = eff /\ MergedCell(c, c2).max = max
    BY <2>3
  <2>5. eff \notin {NoPerm, Err} /\ max \notin {NoPerm, Err}
    <3> HIDE DEF eff, max
    <3> QED
      BY <2>1, <2>2, <2>4 DEF MergeStatus
  <2>6. c \in Entry /\ c2 \in Entry
    BY <1>1, <2>2 DEF Store
  <2>7. c.name # Unnamed
    BY <2>5, <2>6, EntryFields DEF Meet
  <2>8. /\ c.eff \in Permission /\ c2.eff \in Permission
        /\ c.max \in Permission /\ c2.max \in Permission
        /\ c.uses \in Nat /\ c2.uses \in Nat /\ c.name \in Name \cup {Unnamed}
    BY <2>2, <2>6, <2>7, EntryFields
  <2>9. eff \in Permission /\ max \in Permission
    BY <2>5, <2>8, PermAssumption, IntersectAssumption DEF Meet
  <2>12. Leq(eff, max)
    <3>1. eff = Intersect(c.eff, c2.eff) /\ max = Intersect(c.max, c2.max)
      BY <2>8, PermAssumption DEF Meet
    <3>2. Leq(c.eff, c.max) /\ Leq(c2.eff, c2.max)
      BY <2>2, <2>6, <2>7, EntryFields
    <3> HIDE DEF c, c2, eff, max
    <3>3. \A p, q, p2, q2 \in Permission :
            Leq(p, p2) /\ Leq(q, q2) /\ Intersect(p, q) # Err /\ Intersect(p2, q2) # Err
            => Leq(Intersect(p, q), Intersect(p2, q2))
      BY IntersectAssumption
    <3> QED
      BY <2>5, <2>8, <3>1, <3>2, <3>3
  <2>10. uses \in Nat
    BY <2>8
  <2>11. t[i] = MergedCell(c, c2)
    BY <1>1
  <2> HIDE DEF eff, max, uses, t
  <2> QED
    BY <2>3, <2>7, <2>8, <2>9, <2>10, <2>11, <2>12, EntryMade
<1>4. t = [i \in 1..Len(st) |-> t[i]]
  BY <1>1
<1> HIDE DEF t
<1> QED
  BY <1>1, <1>3, <1>4 DEF Like, Store

(* Stores of depth d, or failure.                                          *)
Maybe(o, d) == Good(o, d) \cup {Broken}

(* An operation that changes permissions keeps depth and end, or fails.    *)
LEMMA LikeMaybe ==
  ASSUME NEW o \in Store, NEW d, NEW st \in Good(o, d), NEW t \in Like(st) \cup {Broken}
  PROVE  t \in Maybe(o, d)
BY LikeGood DEF Maybe

(* A store of some depth is a store, and no failure.                       *)
LEMMA GoodStore ==
  ASSUME NEW o \in Store, NEW d, NEW st \in Good(o, d)
  PROVE  st \in Store /\ st # Broken
BY BrokenIsNone DEF Good

(* What was readable can be given back.                                    *)
LEMMA BorrowedLoan ==
  ASSUME NEW st \in Store, NEW n, Effective(st, n) \in Permission
  PROVE  Borrowed(st, n) \in Loan
BY EffectiveHas DEF Borrowed, Loan

(* A failure has no variable with a permission; the permissions the        *)
(* interpreter gives out are permissions.                                  *)
LEMMA BrokenHasNothing ==
  /\ \A n : Effective(Broken, n) \notin Permission
  /\ Readable \subseteq Permission /\ Owned \subseteq Permission
  /\ Fresh \in Permission
<1>1. Len(Broken) = 1 /\ DOMAIN Broken = 1..1 /\ Broken[1] = [Marker EXCEPT !.eff = Err]
  BY DEF Broken
<1>2. Broken[1].eff = Err
  BY <1>1 DEF Marker
<1>3. \A i \in DOMAIN Broken : i = 1
  BY <1>1
<1>4. ASSUME NEW n, Has(Broken, n)
      PROVE  IndexOf(Broken, n) = 1
  <2>1. Broken[1].name = n /\ 1 \in DOMAIN Broken
    BY <1>1, <1>3, <1>4 DEF Has
  <2>2. First(Broken, n, 1)
    BY <2>1 DEF First
  <2>3. First(Broken, n, IndexOf(Broken, n)) /\ IndexOf(Broken, n) \in DOMAIN Broken
    BY <2>1, <2>2 DEF IndexOf
  <2> QED
    BY <1>3, <2>3
<1>5. \A n : Effective(Broken, n) \in {Err, NoPerm}
  BY <1>2, <1>4 DEF Effective
<1> QED
  BY <1>5, PermAssumption, FreshAssumption

(* What is read is given back, or not.                                     *)
LEMMA BorrowMaybe ==
  ASSUME NEW o \in Store, NEW d, NEW st \in Good(o, d), NEW n, Effective(st, n) \in Permission
  PROVE  Borrow(st, n) \in Maybe(o, d)
BY GoodStore, BorrowLike, LikeMaybe

(* Release keeps depth and end, or fails.                                  *)
LEMMA ReleaseMaybe ==
  ASSUME NEW o \in Store, NEW d, NEW st \in Maybe(o, d), NEW deps \in Seq(Loan)
  PROVE  Release(st, deps) \in Maybe(o, d)
<1>1. CASE st = Broken
  <2>1. <<>> \in Store
    BY DEF Store
  <2> QED
    BY <1>1, <2>1, ReleaseLike DEF Maybe
<1>2. CASE st \in Good(o, d)
  BY <1>2, GoodStore, ReleaseLike, LikeMaybe
<1> QED
  BY <1>1, <1>2 DEF Maybe

(* A variable is assigned to: its permission is set, or that fails.        *)
LEMMA AssignedMaybe ==
  ASSUME NEW o \in Store, NEW d, NEW st \in Good(o, d), NEW n \in Name, NEW p \in Permission
  PROVE  Assigned(st, n, p) \in Maybe(o, d)
<1> DEFINE q == IF Copyable(p, Maximum(st, n)) THEN Maximum(st, n) ELSE p
<1>1. st \in Store /\ st # Broken
  BY GoodStore
<1>2. Assigned(st, n, p) = WithEffective(st, n, q)
  BY DEF Assigned
<1>3. CASE Has(st, n)
  <2>1. IndexOf(st, n) \in 1..Len(st) /\ st[IndexOf(st, n)].name = n
    BY <1>1, <1>3, IndexFirst DEF First
  <2>2. st[IndexOf(st, n)] \in Entry /\ n # Unnamed
    BY <1>1, <2>1, UnnamedAssumption DEF Store
  <2>3. Maximum(st, n) \in Permission
    BY <1>3, <2>1, <2>2, EntryFields DEF Maximum
  <2>4. q \in Permission
    BY <2>3
  <2> HIDE DEF q
  <2> QED
    BY <1>1, <1>2, <2>4, SetLike, LikeMaybe
<1>4. CASE ~Has(st, n)
  <2>1. WithEffective(st, n, q) = Broken
    BY <1>1, <1>4 DEF WithEffective, Only
  <2> QED
    BY <1>2, <2>1 DEF Maybe
<1> QED
  BY <1>3, <1>4

(* defineOrAssign keeps depth and end, or fails.                           *)
LEMMA DefineOrAssignMaybe ==
  ASSUME NEW o \in Store, NEW d, NEW st \in Maybe(o, d), NEW s, s.name \in Name,
         s.does \in {"define", "assign"}, NEW p \in Permission \cup {NoPerm}, NEW allowUnowned
  PROVE  defineOrAssign(st, s, p, allowUnowned) \in Maybe(o, d)
<1> DEFINE after == IF s.does = "define" THEN WithVariable(st, s.name, p)
                    ELSE Assigned(st, s.name, p)
           r == defineOrAssign(st, s, p, allowUnowned)
<1>1. r \in {after, Broken} /\ (p = NoPerm \/ after = Broken => r = Broken)
  BY DEF defineOrAssign
<1>2. Broken \in Maybe(o, d)
  BY DEF Maybe
<1>3. CASE st = Broken
  <2>1. after = Broken
    BY <1>3, BrokenStays DEF Assigned
  <2> QED
    BY <1>1, <1>2, <2>1
<1>4. CASE st \in Good(o, d) /\ p \in Permission
  <2>1. st \in Store
    BY <1>4, GoodStore
  <2>2. CASE s.does = "define"
    <3>1. WithVariable(st, s.name, p) \in Grown(st) \cup {Broken}
      BY <1>4, <2>1, DefineGrown
    <3> QED
      BY <1>1, <1>2, <1>4, <2>2, <3>1, GrownGood DEF Maybe
  <2>3. CASE s.does = "assign"
    <3>1. Assigned(st, s.name, p) \in Maybe(o, d)
      BY <1>4, AssignedMaybe
    <3> QED
      BY <1>1, <1>2, <2>3, <3>1
  <2> QED
    BY <2>2, <2>3
<1> HIDE DEF after, r
<1> QED
  BY <1>1, <1>2, <1>3, <1>4 DEF r, Maybe

(* A simple statement keeps depth and end, or fails.                       *)
LEMMA SimpleMaybe ==
  ASSUME NEW o \in Store, NEW d, NEW st \in Maybe(o, d), NEW s \in SimpleStmt
  PROVE  AfterSimple(st, s) \in Maybe(o, d)
<1>1. s.does \in {"nothing", "use", "move", "assign", "define"}
      /\ (s.does # "nothing" => s.name \in Name)
  BY DEF SimpleStmt, Nil, Simple
<1>2. Broken \in Maybe(o, d)
  BY DEF Maybe
<1>3. CASE st = Broken
  <2>1. /\ ~Assignable(Broken, s.name) /\ Effective(Broken, s.name) \notin Readable
        /\ defineOrAssign(Broken, s, Fresh, FALSE) = Broken
    BY BrokenHasNothing, BrokenStays DEF Assignable, Assigned, defineOrAssign
  <2>2. AfterSimple(Broken, s) = Broken
    BY <2>1, <1>1 DEF AfterSimple
  <2> QED
    BY <1>2, <1>3, <2>2
<1>4. CASE st \in Good(o, d)
  <2>1. st \in Store /\ st # Broken
    BY <1>4, GoodStore
  <2>2. CASE s.does = "nothing"
    BY <1>4, <2>1, <2>2 DEF AfterSimple, Maybe
  <2>3. CASE s.does = "use"
    <3>1. AfterSimple(st, s) = IF Effective(st, s.name) \in Readable
                               THEN Release(Borrow(st, s.name), <<Borrowed(st, s.name)>>)
                               ELSE Broken
      BY <2>1, <2>3 DEF AfterSimple
    <3>2. ASSUME Effective(st, s.name) \in Readable
          PROVE  Release(Borrow(st, s.name), <<Borrowed(st, s.name)>>) \in Maybe(o, d)
      <4>1. Effective(st, s.name) \in Permission
        BY <3>2, BrokenHasNothing
      <4>2. <<Borrowed(st, s.name)>> \in Seq(Loan)
        BY <2>1, <4>1, BorrowedLoan
      <4>3. Borrow(st, s.name) \in Maybe(o, d)
        BY <1>4, <4>1, BorrowMaybe
      <4> QED
        BY <4>2, <4>3, ReleaseMaybe
    <3> QED
      BY <1>2, <3>1, <3>2
  <2>4. CASE s.does = "move"
    <3>1. AfterSimple(st, s) = IF Assignable(st, s.name) THEN Borrow(st, s.name) ELSE Broken
      BY <2>1, <2>4 DEF AfterSimple
    <3>2. Assignable(st, s.name) => Effective(st, s.name) \in Permission
      BY BrokenHasNothing DEF Assignable
    <3> QED
      BY <1>2, <1>4, <3>1, <3>2, BorrowMaybe
  <2>5. CASE s.does \in {"assign", "define"}
    <3>1. AfterSimple(st, s) = defineOrAssign(st, s, Fresh, FALSE)
      BY <2>1, <2>5 DEF AfterSimple
    <3> QED
      BY <1>1, <2>5, <3>1, DefineOrAssignMaybe, BrokenHasNothing
  <2> QED
    BY <1>1, <2>2, <2>3, <2>4, <2>5
<1> QED
  BY <1>3, <1>4 DEF Maybe

(* A tag or a range expression that can be read, or that there is none of. *)
LEMMA AfterMaybe ==
  ASSUME NEW o \in Store, NEW d, NEW st \in Good(o, d), NEW n, n = NoName \/ CanRead(st, n)
  PROVE  After(st, n) \in Maybe(o, d) /\ Deps(st, n) \in Seq(Loan)
<1>1. CASE n = NoName
  BY <1>1 DEF After, Deps, Maybe
<1>2. CASE n # NoName
  <2>1. Effective(st, n) \in Permission
    BY <1>2, BrokenHasNothing DEF CanRead
  <2>2. Borrow(st, n) \in Maybe(o, d)
    BY <2>1, BorrowMaybe
  <2>3. Borrowed(st, n) \in Loan
    BY <2>1, BorrowedLoan, GoodStore
  <2> QED
    BY <1>2, <2>2, <2>3 DEF After, Deps
<1> QED
  BY <1>1, <1>2

(* A condition keeps depth and end, or fails.                              *)
LEMMA ConditionMaybe ==
  ASSUME NEW o \in Store, NEW d, NEW st \in Maybe(o, d), NEW n
  PROVE  AfterCondition(st, n) \in Maybe(o, d)
<1>1. CASE st # Broken /\ CanRead(st, n)
  <2>1. st \in Good(o, d)
    BY <1>1 DEF Maybe
  <2>2. After(st, n) \in Maybe(o, d) /\ Deps(st, n) \in Seq(Loan)
    BY <1>1, <2>1, AfterMaybe
  <2> QED
    BY <1>1, <2>2, ReleaseMaybe DEF AfterCondition
<1>2. CASE ~(st # Broken /\ CanRead(st, n))
  BY <1>2 DEF AfterCondition, Maybe
<1> QED
  BY <1>1, <1>2

(* A failure is not logged in, what is logged in keeps depth and end.      *)
LEMMA LogMaybe ==
  ASSUME NEW o \in Store, NEW d, NEW st \in Maybe(o, d)
  PROVE  Log(st) \in Maybe(o, d)
<1>1. CASE st = Broken
  <2>1. ~Has(Broken, Logged)
    BY OuterAssumption DEF Broken, Has, Marker
  <2> QED
    BY <1>1, <2>1 DEF Log, Maybe
<1>2. CASE st \in Good(o, d)
  BY <1>2, GoodStore, LogLike, LikeMaybe
<1> QED
  BY <1>1, <1>2 DEF Maybe

(* The key or the value of a range.                                        *)
LEMMA BoundMaybe ==
  ASSUME NEW o \in Store, NEW d, NEW st \in Maybe(o, d), NEW key \in Binding,
         NEW perm \in Permission \cup {NoPerm}
  PROVE  Bound(st, key, perm) \in Maybe(o, d)
<1>1. key.does \in {"nothing", "define", "assign"} /\ (key.does # "nothing" => key.name \in Name)
  BY DEF Binding, SimpleStmt, Nil, Simple
<1>2. CASE key.does = "nothing"
  BY <1>2 DEF Bound
<1>3. CASE key.does # "nothing"
  <2>1. Bound(st, key, perm) = defineOrAssign(st, key, perm, key.does = "define")
    BY <1>3 DEF Bound
  <2> QED
    BY <1>1, <1>3, <2>1, DefineOrAssignMaybe
<1> QED
  BY <1>2, <1>3

(* The permissions of keys and elements of what was borrowed.              *)
LEMMA ContainerPermissions ==
  ASSUME NEW deps \in Seq(Loan), deps # <<>>
  PROVE  /\ KeyOf(Container(deps)) \in Permission \cup {NoPerm}
         /\ ElementOf(Container(deps)) \in Permission \cup {NoPerm}
<1>1. Head(deps) \in Loan
  OBVIOUS
<1>2. Container(deps) \in Permission
  BY <1>1 DEF Container, Loan
<1> QED
  BY <1>2, ContainerAssumption

--------------------------------------------------------------------------------
(* Work lists and lists of exits.                                          *)

(* A sequence of no matter what, and one of works or exits with stores in G.*)
Sequence(s) == Len(s) \in Nat /\ s = [i \in 1..Len(s) |-> s[i]]

Stored(s, G) == Sequence(s) /\ \A i \in 1..Len(s) : s[i].st \in G

(* Whatever is a sequence is a sequence of its elements.                   *)
LEMMA SequenceTyped ==
  ASSUME NEW s, Sequence(s)
  PROVE  s \in Seq({s[i] : i \in 1..Len(s)}) /\ DOMAIN s = 1..Len(s)
<1> DEFINE S == {s[i] : i \in 1..Len(s)}
           n == Len(s)
<1>1. n \in Nat /\ s = [i \in 1..n |-> s[i]] /\ \A i \in 1..n : s[i] \in S
  BY DEF Sequence
<1> HIDE DEF S, n
<1>2. s \in Seq(S)
  BY <1>1
<1> QED
  BY <1>1, <1>2 DEF S, n

(* A sequence of elements of a set is a sequence.                          *)
LEMMA TypedSequence ==
  ASSUME NEW S, NEW s \in Seq(S)
  PROVE  Sequence(s)
<1>1. Len(s) \in Nat /\ s \in [1..Len(s) -> S]
  OBVIOUS
<1>2. \A D : \A f \in [D -> S] : f = [i \in D |-> f[i]]
  OBVIOUS
<1> QED
  BY <1>1, <1>2 DEF Sequence

(* A function on 1..n is a sequence of length n.                           *)
LEMMA SequenceMade ==
  ASSUME NEW n \in Nat, NEW s, s = [i \in 1..n |-> s[i]]
  PROVE  Sequence(s) /\ Len(s) = n
<1> DEFINE S == {s[i] : i \in 1..n}
<1>1. \A i \in 1..n : s[i] \in S
  OBVIOUS
<1> HIDE DEF S
<1>2. s \in Seq(S)
  BY <1>1
<1>3. Len(s) = n
  BY <1>2
<1> QED
  BY <1>3 DEF Sequence

(* The elements of two sequences, joined.                                  *)
LEMMA SequencesJoined ==
  ASSUME NEW s, Sequence(s), NEW t, Sequence(t)
  PROVE  /\ Sequence(s \o t) /\ Len(s \o t) = Len(s) + Len(t)
         /\ \A i \in 1..Len(s) : (s \o t)[i] = s[i]
         /\ \A i \in 1..Len(t) : (s \o t)[Len(s) + i] = t[i]
         /\ \A i \in 1..Len(s \o t) : \/ i \in 1..Len(s)
                                      \/ \E j \in 1..Len(t) : i = Len(s) + j
<1> DEFINE S == {s[i] : i \in 1..Len(s)}
           T == {t[i] : i \in 1..Len(t)}
           U == S \cup T
<1>1. s \in Seq(S) /\ t \in Seq(T) /\ Len(s) \in Nat /\ Len(t) \in Nat
  BY SequenceTyped DEF Sequence
<1> HIDE DEF S, T
<1>2. s \in Seq(U) /\ t \in Seq(U)
  BY <1>1
<1> HIDE DEF U
<1>3. s \o t \in Seq(U) /\ Len(s \o t) = Len(s) + Len(t)
  BY <1>2
<1>4. Sequence(s \o t)
  BY <1>3, TypedSequence
<1>5. \A i \in 1..Len(s) : (s \o t)[i] = s[i]
  BY <1>1, <1>2
<1>6. \A i \in 1..Len(t) : (s \o t)[Len(s) + i] = t[i]
  BY <1>1, <1>2
<1>7. \A i \in 1..(Len(s) + Len(t)) :
        i \in 1..Len(s) \/ (i - Len(s) \in 1..Len(t) /\ i = Len(s) + (i - Len(s)))
  BY <1>1
<1> QED
  BY <1>3, <1>4, <1>5, <1>6, <1>7

(* The elements of a tail.                                                 *)
LEMMA TailSequence ==
  ASSUME NEW s, Sequence(s), s # <<>>
  PROVE  /\ Sequence(Tail(s)) /\ Len(Tail(s)) = Len(s) - 1 /\ Len(s) >= 1
         /\ \A i \in 1..(Len(s) - 1) : Tail(s)[i] = s[i + 1]
         /\ Head(s) = s[1]
<1> DEFINE S == {s[i] : i \in 1..Len(s)}
<1>1. s \in Seq(S) /\ Len(s) \in Nat
  BY SequenceTyped DEF Sequence
<1> HIDE DEF S
<1>2. Tail(s) \in Seq(S) /\ Len(Tail(s)) = Len(s) - 1 /\ Len(s) >= 1 /\ Head(s) = s[1]
  BY <1>1
<1>3. \A i \in 1..(Len(s) - 1) : Tail(s)[i] = s[i + 1]
  BY <1>1, <1>2
<1>4. Sequence(Tail(s))
  BY <1>2, TypedSequence
<1> QED
  BY <1>2, <1>3, <1>4

(* Sequences of up to two elements.                                        *)
LEMMA ShortSequences ==
  /\ Sequence(<<>>) /\ Len(<<>>) = 0
  /\ \A a : Sequence(<<a>>) /\ Len(<<a>>) = 1 /\ <<a>>[1] = a
  /\ \A a, b : Sequence(<<a, b>>) /\ Len(<<a, b>>) = 2 /\ <<a, b>>[1] = a /\ <<a, b>>[2] = b
BY DEF Sequence

(* Another element in place of the first one.                              *)
LEMMA FirstReplaced ==
  ASSUME NEW s, Sequence(s), s # <<>>, NEW A
  PROVE  /\ Sequence(<<A>> \o Tail(s)) /\ Len(<<A>> \o Tail(s)) = Len(s)
         /\ (<<A>> \o Tail(s))[1] = A
         /\ \A i \in 1..Len(s) : i # 1 => (<<A>> \o Tail(s))[i] = s[i]
<1> DEFINE t == <<A>> \o Tail(s)
           n == Len(s)
<1>1. /\ Sequence(Tail(s)) /\ Len(Tail(s)) = n - 1 /\ n >= 1 /\ n \in Nat
      /\ \A i \in 1..(n - 1) : Tail(s)[i] = s[i + 1]
  BY TailSequence DEF Sequence
<1>2. Sequence(<<A>>) /\ Len(<<A>>) = 1 /\ <<A>>[1] = A
  BY ShortSequences
<1>3. /\ Sequence(t) /\ Len(t) = 1 + (n - 1)
      /\ \A i \in 1..1 : t[i] = <<A>>[i]
      /\ \A i \in 1..(n - 1) : t[1 + i] = Tail(s)[i]
  <2> DEFINE a == <<A>>
             b == Tail(s)
  <2> HIDE DEF a, b
  <2>1. Sequence(a) /\ Sequence(b) /\ Len(a) = 1 /\ Len(b) = n - 1
    BY <1>1, <1>2 DEF a, b
  <2>2. /\ Sequence(a \o b) /\ Len(a \o b) = Len(a) + Len(b)
        /\ \A i \in 1..Len(a) : (a \o b)[i] = a[i]
        /\ \A i \in 1..Len(b) : (a \o b)[Len(a) + i] = b[i]
        /\ \A i \in 1..Len(a \o b) : \/ i \in 1..Len(a)
                                     \/ \E j \in 1..Len(b) : i = Len(a) + j
    BY <2>1, SequencesJoined
  <2> QED
    BY <2>1, <2>2 DEF a, b
<1> HIDE DEF t
<1>4. Len(t) = n /\ t[1] = A
  BY <1>1, <1>2, <1>3
<1>5. ASSUME NEW i \in 1..n, i # 1
      PROVE  t[i] = s[i]
  <2>1. i - 1 \in 1..(n - 1) /\ 1 + (i - 1) = i /\ (i - 1) + 1 = i
    BY <1>1, <1>5
  <2> QED
    BY <1>1, <1>3, <2>1
<1> QED
  BY <1>3, <1>4, <1>5 DEF t

(* Two elements in place of the first one.                                 *)
LEMMA FirstTwoReplaced ==
  ASSUME NEW s, Sequence(s), s # <<>>, NEW A, NEW B
  PROVE  /\ Sequence(<<A, B>> \o Tail(s)) /\ Len(<<A, B>> \o Tail(s)) = Len(s) + 1
         /\ (<<A, B>> \o Tail(s))[1] = A /\ (<<A, B>> \o Tail(s))[2] = B
         /\ \A i \in 1..(Len(s) + 1) : i # 1 /\ i # 2 => (<<A, B>> \o Tail(s))[i] = s[i - 1]
<1> DEFINE t == <<A, B>> \o Tail(s)
           n == Len(s)
<1>1. /\ Sequence(Tail(s)) /\ Len(Tail(s)) = n - 1 /\ n >= 1 /\ n \in Nat
      /\ \A i \in 1..(n - 1) : Tail(s)[i] = s[i + 1]
  BY TailSequence DEF Sequence
<1>2. Sequence(<<A, B>>) /\ Len(<<A, B>>) = 2 /\ <<A, B>>[1] = A /\ <<A, B>>[2] = B
  BY ShortSequences
<1>3. /\ Sequence(t) /\ Len(t) = 2 + (n - 1)
      /\ \A i \in 1..2 : t[i] = <<A, B>>[i]
      /\ \A i \in 1..(n - 1) : t[2 + i] = Tail(s)[i]
  <2> DEFINE a == <<A, B>>
             b == Tail(s)
  <2> HIDE DEF a, b
  <2>1. Sequence(a) /\ Sequence(b) /\ Len(a) = 2 /\ Len(b) = n - 1
    BY <1>1, <1>2 DEF a, b
  <2>2. /\ Sequence(a \o b) /\ Len(a \o b) = Len(a) + Len(b)
        /\ \A i \in 1..Len(a) : (a \o b)[i] = a[i]
        /\ \A i \in 1..Len(b) : (a \o b)[Len(a) + i] = b[i]
        /\ \A i \in 1..Len(a \o b) : \/ i \in 1..Len(a)
                                     \/ \E j \in 1..Len(b) : i = Len(a) + j
    BY <2>1, SequencesJoined
  <2> QED
    BY <2>1, <2>2 DEF a, b
<1> HIDE DEF t
<1>4. Len(t) = n + 1 /\ t[1] = A /\ t[2] = B
  BY <1>1, <1>2, <1>3
<1>5. ASSUME NEW i \in 1..(n + 1), i # 1, i # 2
      PROVE  t[i] = s[i - 1]
  <2>1. i - 2 \in 1..(n - 1) /\ 2 + (i - 2) = i /\ (i - 2) + 1 = i - 1
    BY <1>1, <1>5
  <2> QED
    BY <1>1, <1>3, <2>1
<1> QED
  BY <1>3, <1>4, <1>5 DEF t
(* Works and exits.                                                        *)
LEMMA StoredShort ==
  ASSUME NEW G
  PROVE  /\ Stored(<<>>, G)
         /\ \A st \in G : \A at : Stored(<<Work(st, at)>>, G) /\ Stored(<<Exit(st, at)>>, G)
<1>1. Stored(<<>>, G)
  BY ShortSequences DEF Stored
<1>2. ASSUME NEW st \in G, NEW at
      PROVE  Stored(<<Work(st, at)>>, G) /\ Stored(<<Exit(st, at)>>, G)
  <2>1. Work(st, at).st = st /\ Exit(st, at).st = st
    BY DEF Work, Exit
  <2> HIDE DEF Work, Exit
  <2>2. \A a : Sequence(<<a>>) /\ Len(<<a>>) = 1 /\ <<a>>[1] = a
    BY ShortSequences
  <2>3. \A i \in 1..1 : i = 1
    OBVIOUS
  <2> QED
    BY <2>1, <2>2, <2>3 DEF Stored
<1> QED
  BY <1>1, <1>2

(* Joined, works and exits still have their stores in G.                   *)
LEMMA StoredJoined ==
  ASSUME NEW G, NEW s, Stored(s, G), NEW t, Stored(t, G)
  PROVE  Stored(s \o t, G)
<1>1. Sequence(s) /\ Sequence(t)
  BY DEF Stored
<1>2. /\ Sequence(s \o t) /\ Len(s \o t) = Len(s) + Len(t)
      /\ \A i \in 1..Len(s) : (s \o t)[i] = s[i]
      /\ \A i \in 1..Len(t) : (s \o t)[Len(s) + i] = t[i]
      /\ \A i \in 1..Len(s \o t) : \/ i \in 1..Len(s)
                                   \/ \E j \in 1..Len(t) : i = Len(s) + j
  BY <1>1, SequencesJoined
<1> QED
  BY <1>2 DEF Stored

(* The work list without its last element, which is the next one.          *)
LEMMA StoredFront ==
  ASSUME NEW G, NEW s, Stored(s, G), s # <<>>
  PROVE  Stored(SubSeq(s, 1, Len(s) - 1), G) /\ s[Len(s)].st \in G
<1> DEFINE n == Len(s)
           S == {s[i] : i \in 1..n}
           t == SubSeq(s, 1, n - 1)
<1>1. s \in Seq(S) /\ n \in Nat /\ \A i \in 1..n : s[i].st \in G
  BY SequenceTyped DEF Stored, Sequence
<1>2. n >= 1
  <2> HIDE DEF S
  <2> QED
    BY <1>1
<1> HIDE DEF S
<1>3. t = [i \in 1..(n - 1) |-> s[i]] /\ n - 1 \in Nat
  <2>1. t = [i \in 1..(1 + (n - 1) - 1) |-> s[i + 1 - 1]]
    BY <1>1, <1>2
  <2>2. 1 + (n - 1) - 1 = n - 1 /\ \A i \in 1..(n - 1) : i + 1 - 1 = i
    BY <1>1, <1>2
  <2> QED
    BY <1>2, <2>1, <2>2, <1>1
<1> HIDE DEF t
<1>4. Sequence(t) /\ Len(t) = n - 1
  <2>1. t = [i \in 1..(n - 1) |-> t[i]]
    BY <1>3
  <2> QED
    BY <1>3, <2>1, SequenceMade
<1>5. \A i \in 1..(n - 1) : i \in 1..n /\ t[i] = s[i]
  BY <1>1, <1>3
<1>6. n \in 1..n
  BY <1>1, <1>2
<1> QED
  BY <1>1, <1>4, <1>5, <1>6 DEF Stored, t

(* Some elements of a list have their stores in G, if these had.           *)
LEMMA StoredPicked ==
  ASSUME NEW G, NEW n \in Nat, NEW is \in SUBSET (1..n), NEW s, \A i \in is : s[i].st \in G
  PROVE  Stored(Picked(s, is), G)
<1>1. IsFiniteSet(1..n) /\ (1..n) \in SUBSET Nat
  BY FS_Interval
<1>2. IsFiniteSet(is) /\ is \in SUBSET Nat
  BY <1>1, FS_Subset
<1> DEFINE p == Picked(s, is)
           m == Cardinality(is)
<1>3. /\ m \in Nat /\ DOMAIN p = 1..m
      /\ \A k \in DOMAIN p : \E i \in is : p[k] = s[i]
  BY <1>2, PickedFacts
<1>4. p = [k \in 1..m |-> p[k]]
  BY DEF Picked
<1> HIDE DEF p, m
<1>5. Sequence(p) /\ Len(p) = m
  BY <1>3, <1>4, SequenceMade
<1>6. \A k \in 1..m : p[k].st \in G
  BY <1>3
<1> QED
  BY <1>5, <1>6 DEF Stored, p

(* All exits but the first.                                                *)
LEMMA StoredTail ==
  ASSUME NEW G, NEW s, Stored(s, G), s # <<>>
  PROVE  Stored(Tail(s), G)
<1>1. Sequence(s) /\ Len(s) \in Nat
  BY DEF Stored, Sequence
<1>2. \A i \in 1..(Len(s) - 1) : i + 1 \in 1..Len(s)
  BY <1>1
<1>3. /\ Sequence(Tail(s)) /\ Len(Tail(s)) = Len(s) - 1
      /\ \A i \in 1..(Len(s) - 1) : Tail(s)[i] = s[i + 1]
  BY <1>1, TailSequence
<1> QED
  BY <1>2, <1>3 DEF Stored

(* Something is done to every store.                                       *)
LEMMA StoredMapped ==
  ASSUME NEW G, NEW s, Sequence(s), NEW t, t = [i \in DOMAIN s |-> t[i]],
         \A i \in DOMAIN s : t[i].st \in G
  PROVE  Stored(t, G) /\ Len(t) = Len(s)
<1>1. DOMAIN s = 1..Len(s) /\ Len(s) \in Nat
  BY SequenceTyped DEF Sequence
<1>2. Sequence(t) /\ Len(t) = Len(s)
  BY <1>1, SequenceMade
<1> QED
  BY <1>1, <1>2 DEF Stored

--------------------------------------------------------------------------------
(* The calls under way: every one returns stores of a depth of its own.    *)

(* Bodies without for statements and without default clauses: the source   *)
(* leaves the block of a for statement open, and visits a default clause   *)
(* in no store at all.                                                     *)
NoForNorDefault == \A s \in Stmts : s.kind # "for" /\ (s.kind = "case" => s.alts # <<>>)

(* The frames of the calls under way, of a call that returns stores of     *)
(* depth d.                                                                *)
StmtFrame(o, f, d) == f.fn = "stmt" /\ f.st \in Good(o, d) /\ f.stmt \in Stmts

ListFrame(o, f, d) ==
  /\ f = [fn |-> "list", stmts |-> f.stmts, isASwitch |-> f.isASwitch, item |-> f.item,
          todo |-> f.todo, seen |-> f.seen, exits |-> f.exits]
  /\ f.stmts \in Seq(Stmts)
  /\ Stored(f.todo, Good(o, d)) /\ Stored(f.exits, Good(o, d))

RangeFrame(o, f, d) ==
  /\ f = [fn |-> "range", stmt |-> f.stmt, todo |-> f.todo, seen |-> f.seen,
          exits |-> f.exits, deps |-> f.deps, canRelease |-> f.canRelease]
  /\ f.stmt \in Stmts /\ f.stmt.kind = "range"
  /\ Stored(f.todo, Good(o, d)) /\ Stored(f.exits, Good(o, d))
  /\ f.deps \in Seq(Loan) /\ f.deps # <<>>

CaseFrame(o, f, d) ==
  /\ f = [fn |-> "case", st |-> f.st, merged |-> f.merged, alts |-> f.alts, body |-> f.body]
  /\ f.st \in Good(o, d) /\ f.body \in Seq(Stmts)
  /\ \/ f.merged \in Good(o, d)
     \/ f.merged = <<>> /\ f.alts # <<>>

IfFrame(o, f, d) ==
  f.fn = "if" /\ f.st \in Good(o, d + 1) /\ f.stmt \in Stmts /\ f.stmt.kind = "if"

ElseFrame(o, f, d) == f.fn = "else" /\ Stored(f.exits, Good(o, d + 1))

SwitchFrame(o, f, d) == f.fn = "switch" /\ f.deps \in Seq(Loan)

Frame(o, f, d) ==
  /\ d \in Nat /\ d > Depth(o)
  /\ \/ StmtFrame(o, f, d) \/ ListFrame(o, f, d) \/ RangeFrame(o, f, d)
     \/ CaseFrame(o, f, d) \/ IfFrame(o, f, d) \/ ElseFrame(o, f, d)
     \/ SwitchFrame(o, f, d) \/ f.fn \in {"block", "literal"}

(* The depth of the stores a frame is returned: all but a statement list   *)
(* and the literal have opened a block before the call, and close it.      *)
Expects(f, d) == IF f.fn \in {"list", "literal"} THEN d ELSE d + 1

(* ds has the depth of the stores that each of the calls returns.          *)
Nested(o, s, ds) ==
  /\ Sequence(ds) /\ Len(ds) = Len(s)
  /\ \A i \in 1..Len(s) : Frame(o, s[i], ds[i])
  /\ \A i \in 1..Len(s) : i + 1 \in 1..Len(s) => Expects(s[i + 1], ds[i + 1]) = ds[i]

Awaited(o, s, m, r, ds) ==
  m = "return" /\ s # <<>> => Stored(r, Good(o, Expects(s[1], ds[1])))

NestedInv ==
  /\ orig \in Outer
  /\ Sequence(stack)
  /\ \E ds : Nested(orig, stack, ds) /\ Awaited(orig, stack, mode, ret, ds)

(* A frame is replaced by another one, which returns what it would have.   *)
LEMMA OneCalled ==
  ASSUME NEW o \in Store, NEW s, Sequence(s), s # <<>>, NEW ds, Nested(o, s, ds),
         NEW A, Frame(o, A, ds[1])
  PROVE  /\ Sequence(<<A>> \o Tail(s))
         /\ Nested(o, <<A>> \o Tail(s), ds)
<1> DEFINE t == <<A>> \o Tail(s)
           n == Len(s)
<1>1. /\ Sequence(t) /\ Len(t) = n /\ n \in Nat /\ t[1] = A
      /\ \A i \in 1..n : i # 1 => t[i] = s[i]
  BY FirstReplaced DEF Sequence
<1> HIDE DEF t
<1>2. \A i \in 1..n : Frame(o, t[i], ds[i])
  BY <1>1 DEF Nested
<1>3. ASSUME NEW i \in 1..n, i + 1 \in 1..n
      PROVE  Expects(t[i + 1], ds[i + 1]) = ds[i]
  <2>1. i + 1 # 1
    BY <1>1
  <2>2. t[i + 1] = s[i + 1]
    BY <1>1, <1>3, <2>1
  <2> QED
    BY <1>3, <2>2 DEF Nested
<1>4. Nested(o, t, ds)
  BY <1>1, <1>2, <1>3 DEF Nested
<1> QED
  BY <1>1, <1>4 DEF t

(* A frame calls: it stays, changed perhaps, below the one it calls.       *)
LEMMA TwoCalled ==
  ASSUME NEW o \in Store, NEW s, Sequence(s), s # <<>>, NEW ds, Nested(o, s, ds),
         NEW B, Frame(o, B, ds[1]), NEW A, Frame(o, A, Expects(B, ds[1]))
  PROVE  /\ Sequence(<<A, B>> \o Tail(s))
         /\ \E es : Nested(o, <<A, B>> \o Tail(s), es)
<1> DEFINE t == <<A, B>> \o Tail(s)
           n == Len(s)
           es == [i \in 1..(n + 1) |-> IF i = 1 THEN Expects(B, ds[1]) ELSE ds[i - 1]]
<1>1. /\ Sequence(t) /\ Len(t) = n + 1 /\ n \in Nat /\ t[1] = A /\ t[2] = B
      /\ \A i \in 1..(n + 1) : i # 1 /\ i # 2 => t[i] = s[i - 1]
  BY FirstTwoReplaced DEF Sequence
<1> HIDE DEF t
<1>2. es[1] = Expects(B, ds[1]) /\ es[2] = ds[1]
      /\ \A i \in 1..(n + 1) : i # 1 => es[i] = ds[i - 1]
  BY <1>1
<1>3. Sequence(es) /\ Len(es) = n + 1
  <2>1. es = [i \in 1..(n + 1) |-> es[i]] /\ n + 1 \in Nat
    BY <1>1
  <2> HIDE DEF es
  <2> QED
    BY <2>1, SequenceMade
<1> HIDE DEF es
<1>4. ASSUME NEW i \in 1..(n + 1)
      PROVE  Frame(o, t[i], es[i])
  <2>1. CASE i = 1
    BY <2>1, <1>1, <1>2
  <2>2. CASE i = 2
    BY <2>2, <1>1, <1>2
  <2>3. CASE i # 1 /\ i # 2
    <3>1. i - 1 \in 1..n
      BY <1>1, <2>3
    <3>2. t[i] = s[i - 1] /\ es[i] = ds[i - 1]
      BY <1>1, <1>2, <2>3
    <3> QED
      BY <3>1, <3>2 DEF Nested
  <2> QED
    BY <2>1, <2>2, <2>3
<1>5. ASSUME NEW i \in 1..(n + 1), i + 1 \in 1..(n + 1)
      PROVE  Expects(t[i + 1], es[i + 1]) = es[i]
  <2>1. CASE i = 1
    BY <2>1, <1>1, <1>2
  <2>2. CASE i # 1
    <3>1. i - 1 \in 1..n /\ (i - 1) + 1 = i /\ i \in 1..n
      BY <1>1, <1>5, <2>2
    <3>2. i + 1 # 1 /\ i + 1 # 2 /\ (i + 1) - 1 = i
      BY <1>1, <2>2
    <3>3. t[i + 1] = s[i] /\ es[i + 1] = ds[i] /\ es[i] = ds[i - 1]
      BY <1>1, <1>2, <1>5, <2>2, <3>2
    <3>4. Expects(s[i], ds[i]) = ds[i - 1]
      BY <3>1 DEF Nested
    <3> QED
      BY <3>3, <3>4
  <2> QED
    BY <2>1, <2>2
<1>6. Nested(o, t, es)
  BY <1>1, <1>3, <1>4, <1>5 DEF Nested
<1> QED
  BY <1>1, <1>6 DEF t

(* A call returns: the frame is gone, and the one below has what it        *)
(* expects.                                                                *)
LEMMA OneLeft ==
  ASSUME NEW o \in Store, NEW s, Sequence(s), s # <<>>, NEW ds, Nested(o, s, ds),
         NEW r, Stored(r, Good(o, ds[1]))
  PROVE  /\ Sequence(Tail(s))
         /\ \E es : Nested(o, Tail(s), es) /\ Awaited(o, Tail(s), "return", r, es)
<1> DEFINE t == Tail(s)
           n == Len(s)
           es == [i \in 1..(n - 1) |-> ds[i + 1]]
<1>1. /\ Sequence(t) /\ Len(t) = n - 1 /\ n >= 1 /\ n \in Nat
      /\ \A i \in 1..(n - 1) : t[i] = s[i + 1]
  BY TailSequence DEF Sequence
<1> HIDE DEF t
<1>2. \A i \in 1..(n - 1) : es[i] = ds[i + 1] /\ i + 1 \in 1..n /\ i \in 1..n
  BY <1>1
<1>3. Sequence(es) /\ Len(es) = n - 1
  <2>1. es = [i \in 1..(n - 1) |-> es[i]] /\ n - 1 \in Nat
    BY <1>1
  <2> HIDE DEF es
  <2> QED
    BY <2>1, SequenceMade
<1> HIDE DEF es
<1>4. \A i \in 1..(n - 1) : Frame(o, t[i], es[i])
  BY <1>1, <1>2 DEF Nested
<1>5. ASSUME NEW i \in 1..(n - 1), i + 1 \in 1..(n - 1)
      PROVE  Expects(t[i + 1], es[i + 1]) = es[i]
  <2>1. i + 1 \in 1..n /\ (i + 1) + 1 \in 1..n
    BY <1>1, <1>2, <1>5
  <2>2. Expects(s[(i + 1) + 1], ds[(i + 1) + 1]) = ds[i + 1]
    BY <2>1 DEF Nested
  <2> QED
    BY <1>1, <1>2, <1>5, <2>2
<1>6. Nested(o, t, es)
  BY <1>1, <1>3, <1>4, <1>5 DEF Nested
<1>7. ASSUME t # <<>>
      PROVE  Expects(t[1], es[1]) = ds[1]
  <2>1. Len(t) # 0
    BY <1>1, <1>7, TailSequence
  <2>2. 1 \in 1..(n - 1) /\ 1 + 1 \in 1..n /\ 1 \in 1..n
    BY <1>1, <2>1
  <2>3. t[1] = s[1 + 1] /\ es[1] = ds[1 + 1]
    BY <1>1, <1>2, <2>2
  <2>4. Expects(s[1 + 1], ds[1 + 1]) = ds[1]
    BY <2>2 DEF Nested
  <2> QED
    BY <2>3, <2>4
<1>8. Awaited(o, t, "return", r, es)
  BY <1>7 DEF Awaited
<1> QED
  BY <1>1, <1>6, <1>8 DEF t

(* The parts of a statement, by its kind.                                  *)
LEMMA StmtParts ==
  ASSUME NEW s \in Stmts
  PROVE  /\ s.kind = "simple"  => s \in SimpleStmt
         /\ s.kind = "labeled" => s.stmt \in Stmts
         /\ s.kind = "block"   => s.stmts \in Seq(Stmts)
         /\ s.kind = "if"      => s.init \in SimpleStmt /\ s.then \in Stmts /\ s.else \in Stmts
         /\ s.kind = "switch"  => s.init \in SimpleStmt /\ s.clauses \in Seq(Stmts)
         /\ s.kind = "case"    => s.body \in Seq(Stmts)
         /\ s.kind = "select"  => s.clauses \in Seq(Stmts)
         /\ s.kind = "comm"    => s.comm \in SimpleStmt /\ s.body \in Seq(Stmts)
         /\ s.kind = "range"   => s.key \in Binding /\ s.value \in Binding /\ s.body \in Stmts
<1>1. s \in StmtOver(Stmts)
  BY StmtsAssumption
<1>2. \A t \in SimpleStmt : t.kind = "simple"
  BY DEF SimpleStmt, Nil, Simple
<1>3. CASE s.kind = "simple"
  BY <1>1, <1>3 DEF StmtOver
<1>4. CASE s.kind = "labeled"
  BY <1>1, <1>2, <1>4 DEF StmtOver
<1>5. CASE s.kind = "block"
  BY <1>1, <1>2, <1>5 DEF StmtOver
<1>6. CASE s.kind = "if"
  BY <1>1, <1>2, <1>6 DEF StmtOver
<1>7. CASE s.kind = "switch"
  BY <1>1, <1>2, <1>7 DEF StmtOver
<1>8. CASE s.kind = "case"
  BY <1>1, <1>2, <1>8 DEF StmtOver
<1>9. CASE s.kind = "select"
  BY <1>1, <1>2, <1>9 DEF StmtOver
<1>10. CASE s.kind = "comm"
  BY <1>1, <1>2, <1>10 DEF StmtOver
<1>11. CASE s.kind = "range"
  BY <1>1, <1>2, <1>11 DEF StmtOver
<1> QED
  BY <1>3, <1>4, <1>5, <1>6, <1>7, <1>8, <1>9, <1>10, <1>11

(* The innermost call returns stores of depth d.                           *)
TopAt(d) ==
  \E ds : /\ Nested(orig, stack, ds) /\ Awaited(orig, stack, mode, ret, ds)
          /\ ds[1] = d

(* The innermost frame is one that Frame allows, and what was returned to  *)
(* it is what it expects.                                                  *)
LEMMA TopFrame ==
  ASSUME NestedInv, stack # <<>>
  PROVE  /\ orig \in Store /\ Top = stack[1]
         /\ \E d : /\ TopAt(d) /\ Frame(orig, Top, d)
                   /\ mode = "return" => Stored(ret, Good(orig, Expects(Top, d)))
<1>1. orig \in Store
  BY OrigStore DEF NestedInv
<1>2. Top = stack[1] /\ 1 \in 1..Len(stack)
  BY TailSequence DEF NestedInv, Top, Sequence
<1>3. PICK ds : Nested(orig, stack, ds) /\ Awaited(orig, stack, mode, ret, ds)
  BY DEF NestedInv
<1>4. TopAt(ds[1])
  BY <1>3 DEF TopAt
<1>5. Frame(orig, Top, ds[1])
  BY <1>2, <1>3 DEF Nested
<1> QED
  BY <1>1, <1>2, <1>3, <1>4, <1>5 DEF Awaited

(* A panic leaves no call under way.                                       *)
LEMMA PanicKeeps == ASSUME NestedInv, Panics PROVE NestedInv'
<1> DEFINE none == <<>>
<1>1. stack' = none /\ orig' = orig
  BY DEF Panics
<1>2. Sequence(none) /\ Len(none) = 0
  BY ShortSequences
<1>3. Nested(orig, none, none) /\ Awaited(orig, none, mode', ret', none)
  BY <1>2 DEF Nested, Awaited
<1> QED
  BY <1>1, <1>2, <1>3 DEF NestedInv

(* A step that replaces the innermost frame keeps the invariant.           *)
LEMMA OneCallKeeps ==
  ASSUME NestedInv, stack # <<>>, NEW d, TopAt(d), NEW A, Frame(orig, A, d), Calls(<<A>>)
  PROVE  NestedInv'
<1>1. orig \in Store /\ orig \in Outer /\ Sequence(stack)
  BY OrigStore DEF NestedInv
<1>2. PICK ds : Nested(orig, stack, ds) /\ ds[1] = d
  BY DEF TopAt
<1>3. stack' = <<A>> \o Tail(stack) /\ mode' = "call" /\ orig' = orig
  BY DEF Calls
<1>4. Sequence(stack') /\ Nested(orig, stack', ds)
  BY <1>1, <1>2, <1>3, OneCalled
<1> QED
  BY <1>1, <1>3, <1>4 DEF NestedInv, Awaited

(* A step that calls, and waits, keeps the invariant.                      *)
LEMMA TwoCallKeeps ==
  ASSUME NestedInv, stack # <<>>, NEW d, TopAt(d),
         NEW A, NEW B, Frame(orig, B, d), Frame(orig, A, Expects(B, d)), Calls(<<A, B>>)
  PROVE  NestedInv'
<1>1. orig \in Store /\ orig \in Outer /\ Sequence(stack)
  BY OrigStore DEF NestedInv
<1>2. PICK ds : Nested(orig, stack, ds) /\ ds[1] = d
  BY DEF TopAt
<1>3. stack' = <<A, B>> \o Tail(stack) /\ mode' = "call" /\ orig' = orig
  BY DEF Calls
<1>4. Sequence(stack') /\ \E es : Nested(orig, stack', es)
  BY <1>1, <1>2, <1>3, TwoCalled
<1> QED
  BY <1>1, <1>3, <1>4 DEF NestedInv, Awaited

(* A step that returns stores of the right depth keeps the invariant.      *)
LEMMA LeaveKeeps ==
  ASSUME NestedInv, stack # <<>>, NEW d, TopAt(d), NEW r, Stored(r, Good(orig, d)), Leaves(r)
  PROVE  NestedInv'
<1>1. orig \in Store /\ orig \in Outer /\ Sequence(stack)
  BY OrigStore DEF NestedInv
<1>2. PICK ds : Nested(orig, stack, ds) /\ ds[1] = d
  BY DEF TopAt
<1>3. stack' = Tail(stack) /\ mode' = "return" /\ ret' = r /\ orig' = orig
  BY DEF Leaves
<1>4. Sequence(stack') /\ \E es : Nested(orig, stack', es) /\ Awaited(orig, stack', "return", r, es)
  BY <1>1, <1>2, <1>3, OneLeft
<1> QED
  BY <1>1, <1>3, <1>4 DEF NestedInv

(* ... and so does one that returns these or fails.                        *)
LEMMA LeaveIfKeeps ==
  ASSUME NestedInv, stack # <<>>, NEW d, TopAt(d), NEW r, Stored(r, Maybe(orig, d)), LeavesIf(r)
  PROVE  NestedInv'
<1>1. CASE \E i \in DOMAIN r : r[i].st = Broken
  BY <1>1, PanicKeeps DEF LeavesIf
<1>2. CASE ~ \E i \in DOMAIN r : r[i].st = Broken
  <2>1. Leaves(r)
    BY <1>2 DEF LeavesIf
  <2>2. DOMAIN r = 1..Len(r)
    BY SequenceTyped DEF Stored
  <2>3. Stored(r, Good(orig, d))
    BY <1>2, <2>2 DEF Stored, Maybe
  <2> QED
    BY <2>1, <2>3, LeaveKeeps
<1> QED
  BY <1>1, <1>2

(* A list of statements is begun.                                          *)
LEMMA NewListFrame ==
  ASSUME NEW o \in Store, NEW d, d \in Nat, d > Depth(o), NEW st \in Good(o, d),
         NEW stmts \in Seq(Stmts), NEW b \in BOOLEAN
  PROVE  Frame(o, NewList(st, stmts, b), d)
<1> DEFINE f == NewList(st, stmts, b)
           one == <<Work(st, 1)>>
           every == [i \in DOMAIN stmts |-> Work(st, i)]
           ex == <<Exit(st, NoBranch)>>
<1>1. f = [fn |-> "list", stmts |-> stmts, isASwitch |-> b, item |-> 0,
           todo |-> f.todo, seen |-> f.seen, exits |-> f.exits]
  BY DEF NewList
<1>2. f.todo \in {<<>>, every, one} /\ f.exits \in {<<>>, ex}
  BY DEF NewList
<1> HIDE DEF f
<1>3. Stored(<<>>, Good(o, d)) /\ Stored(one, Good(o, d)) /\ Stored(ex, Good(o, d))
  BY StoredShort
<1>4. Stored(every, Good(o, d))
  <2>1. Sequence(stmts)
    BY TypedSequence
  <2>2. /\ every = [i \in DOMAIN stmts |-> every[i]]
        /\ \A i \in DOMAIN stmts : every[i].st \in Good(o, d)
    BY DEF Work
  <2> HIDE DEF every
  <2> QED
    BY <2>1, <2>2, StoredMapped
<1> HIDE DEF one, every, ex
<1>5. Stored(f.todo, Good(o, d)) /\ Stored(f.exits, Good(o, d))
  BY <1>2, <1>3, <1>4
<1>6. ListFrame(o, f, d)
  BY <1>1, <1>5 DEF ListFrame
<1> QED
  BY <1>6 DEF Frame, f

(* The blocks of exits are closed, what was borrowed is given back.        *)
LEMMA EndBlocksStored ==
  ASSUME NEW o \in Store, NEW d, d \in Nat, d > Depth(o), NEW r, Stored(r, Maybe(o, d + 1))
  PROVE  Stored(endBlocks(r), Maybe(o, d))
<1> DEFINE t == endBlocks(r)
<1>1. Sequence(r) /\ DOMAIN r = 1..Len(r) /\ Depth(o) \in Nat
  BY SequenceTyped, MarkersFinite DEF Stored
<1>2. d + 1 > Depth(o) /\ (d + 1) - 1 = d
  BY <1>1
<1>3. ASSUME NEW st \in Maybe(o, d + 1)
      PROVE  Closed(st) \in Maybe(o, d)
  <2>1. CASE st = Broken
    BY <2>1, BrokenStays DEF Maybe
  <2>2. CASE st \in Good(o, d + 1)
    <3>1. Closed(st) \in Good(o, (d + 1) - 1)
      BY <1>2, <2>2, ClosedGood
    <3> QED
      BY <1>2, <3>1 DEF Maybe
  <2> QED
    BY <2>1, <2>2 DEF Maybe
<1>4. t = [i \in DOMAIN r |-> Exit(Closed(r[i].st), r[i].branch)]
  BY DEF endBlocks
<1> HIDE DEF t
<1>5. t = [i \in DOMAIN r |-> t[i]]
  BY <1>4
<1>6. ASSUME NEW i \in DOMAIN r
      PROVE  t[i].st \in Maybe(o, d)
  <2>1. t[i].st = Closed(r[i].st)
    BY <1>4 DEF Exit
  <2> QED
    BY <1>1, <1>3, <2>1 DEF Stored
<1> QED
  BY <1>1, <1>5, <1>6, StoredMapped DEF t

(* What was borrowed is given back on every exit.                          *)
LEMMA ReleasedStored ==
  ASSUME NEW o \in Store, NEW d, NEW r, Stored(r, Maybe(o, d)), NEW deps \in Seq(Loan)
  PROVE  Stored(released(r, deps), Maybe(o, d))
<1> DEFINE t == released(r, deps)
<1>1. Sequence(r) /\ DOMAIN r = 1..Len(r)
  BY SequenceTyped DEF Stored
<1>2. t = [i \in DOMAIN r |-> Exit(Release(r[i].st, deps), r[i].branch)]
  BY DEF released
<1> HIDE DEF t
<1>3. t = [i \in DOMAIN r |-> t[i]]
  BY <1>2
<1>4. ASSUME NEW i \in DOMAIN r
      PROVE  t[i].st \in Maybe(o, d)
  <2>1. t[i].st = Release(r[i].st, deps)
    BY <1>2 DEF Exit
  <2>2. r[i].st \in Maybe(o, d)
    BY <1>1 DEF Stored
  <2> QED
    BY <2>1, <2>2, ReleaseMaybe
<1> QED
  BY <1>1, <1>3, <1>4, StoredMapped DEF t

(* Exits that did not fail are exits that may have failed.                 *)
LEMMA StoredMaybe ==
  ASSUME NEW o, NEW d, NEW r, Stored(r, Good(o, d))
  PROVE  Stored(r, Maybe(o, d))
BY DEF Stored, Maybe

(* Exits of which none failed.                                             *)
LEMMA StoredGood ==
  ASSUME NEW o, NEW d, NEW r, Stored(r, Maybe(o, d)), \A i \in DOMAIN r : r[i].st # Broken
  PROVE  Stored(r, Good(o, d))
<1>1. DOMAIN r = 1..Len(r)
  BY SequenceTyped DEF Stored
<1> QED
  BY <1>1 DEF Stored, Maybe

--------------------------------------------------------------------------------
(* The steps, one lemma for each.                                          *)

(* What a frame is, by its kind; no frame is one of a for statement.       *)
LEMMA FrameKinds ==
  ASSUME NEW o, NEW f, NEW d, Frame(o, f, d)
  PROVE  /\ f.fn = "stmt"   => StmtFrame(o, f, d)
         /\ f.fn = "list"   => ListFrame(o, f, d)
         /\ f.fn = "range"  => RangeFrame(o, f, d)
         /\ f.fn = "case"   => CaseFrame(o, f, d)
         /\ f.fn = "if"     => IfFrame(o, f, d)
         /\ f.fn = "else"   => ElseFrame(o, f, d)
         /\ f.fn = "switch" => SwitchFrame(o, f, d)
         /\ f.fn # "for"
<1>1. ListFrame(o, f, d) => f.fn = "list"
  BY DEF ListFrame
<1>2. RangeFrame(o, f, d) => f.fn = "range"
  BY DEF RangeFrame
<1>3. CaseFrame(o, f, d) => f.fn = "case"
  BY DEF CaseFrame
<1>4. /\ StmtFrame(o, f, d) => f.fn = "stmt"
      /\ IfFrame(o, f, d) => f.fn = "if"
      /\ ElseFrame(o, f, d) => f.fn = "else"
      /\ SwitchFrame(o, f, d) => f.fn = "switch"
  BY DEF StmtFrame, IfFrame, ElseFrame, SwitchFrame
<1> QED
  BY <1>1, <1>2, <1>3, <1>4 DEF Frame

(* What a statement is visited in, and what it returns.                    *)
LEMMA StmtTop ==
  ASSUME NestedInv, Called("stmt")
  PROVE  /\ orig \in Store /\ stack # <<>>
         /\ \E d : /\ TopAt(d) /\ d \in Nat /\ d > Depth(orig)
                   /\ Top.st \in Good(orig, d) /\ Top.stmt \in Stmts
                   /\ Opened(Top.st) \in Good(orig, d + 1)
                   /\ d + 1 \in Nat /\ d + 1 > Depth(orig)
<1>1. stack # <<>> /\ Top.fn = "stmt"
  BY DEF Called
<1>2. orig \in Store
  BY <1>1, TopFrame
<1>3. PICK d : TopAt(d) /\ Frame(orig, Top, d)
  BY <1>1, TopFrame
<1>4. Top.st \in Good(orig, d) /\ Top.stmt \in Stmts /\ d \in Nat /\ d > Depth(orig)
  BY <1>1, <1>3, FrameKinds DEF StmtFrame, Frame
<1>5. Opened(Top.st) \in Good(orig, d + 1)
  BY <1>2, <1>4, OpenedGood
<1>6. d + 1 > Depth(orig)
  BY <1>2, <1>4, MarkersFinite
<1> QED
  BY <1>1, <1>2, <1>3, <1>4, <1>5, <1>6

(* The frames of statements, and of what waits for them.                   *)
LEMMA VisitFrame ==
  ASSUME NEW o, NEW d, d \in Nat, d > Depth(o), NEW st \in Good(o, d), NEW s \in Stmts
  PROVE  Frame(o, Visit(st, s), d)
BY DEF Frame, StmtFrame, Visit

(* visitSimple keeps the depth.                                            *)
LEMMA SimpleVisited == ASSUME NestedInv, visitSimple PROVE NestedInv'
<1>1. PICK d : TopAt(d) /\ Top.st \in Good(orig, d)
  BY StmtTop DEF visitSimple, Visiting
<1>2. orig \in Store /\ stack # <<>> /\ Top.stmt \in SimpleStmt
  BY StmtTop, StmtParts DEF visitSimple, Visiting
<1>3. AfterSimple(Top.st, Top.stmt) \in Maybe(orig, d)
  BY <1>1, <1>2, SimpleMaybe DEF Maybe
<1> DEFINE r == <<Exit(AfterSimple(Top.st, Top.stmt), NoBranch)>>
<1>4. Stored(r, Maybe(orig, d))
  BY <1>3, StoredShort
<1>5. LeavesIf(r)
  BY DEF visitSimple
<1> HIDE DEF r
<1> QED
  BY <1>1, <1>2, <1>4, <1>5, LeaveIfKeeps

(* visitBranchStmt leaves with the store it has.                           *)
LEMMA BranchVisited == ASSUME NestedInv, visitBranchStmt PROVE NestedInv'
<1>1. PICK d : TopAt(d) /\ Top.st \in Good(orig, d)
  BY StmtTop DEF visitBranchStmt, Visiting
<1> DEFINE b == Branch(Top.stmt.tok, Top.stmt.label)
           r == <<Exit(Top.st, b)>>
<1>2. Leaves(r) /\ stack # <<>>
  BY DEF visitBranchStmt, Visiting, Called
<1> HIDE DEF b
<1>3. Stored(r, Good(orig, d))
  BY <1>1, StoredShort
<1> HIDE DEF r
<1> QED
  BY <1>1, <1>2, <1>3, LeaveKeeps

(* visitLabeledStmt visits its statement in the same store.                *)
LEMMA LabeledVisited == ASSUME NestedInv, visitLabeledStmt PROVE NestedInv'
<1>1. PICK d : /\ TopAt(d) /\ d \in Nat /\ d > Depth(orig)
               /\ Top.st \in Good(orig, d) /\ Top.stmt \in Stmts
  BY StmtTop DEF visitLabeledStmt, Visiting
<1>2. Top.stmt.stmt \in Stmts /\ stack # <<>>
  BY <1>1, StmtParts DEF visitLabeledStmt, Visiting, Called
<1>3. Frame(orig, Visit(Top.st, Top.stmt.stmt), d)
  BY <1>1, <1>2, VisitFrame
<1>4. Calls(<<Visit(Top.st, Top.stmt.stmt)>>)
  BY DEF visitLabeledStmt
<1> QED
  BY <1>1, <1>2, <1>3, <1>4, OneCallKeeps

(* A block, or a select statement, begins a list of statements.            *)
LEMMA BlockBegun ==
  ASSUME NestedInv, Called("stmt"), NEW stmts \in Seq(Stmts), NEW b \in BOOLEAN,
         Calls(<<NewList(Opened(Top.st), stmts, b), [fn |-> "block"]>>)
  PROVE  NestedInv'
<1>1. orig \in Store /\ stack # <<>>
  BY StmtTop
<1>2. PICK d : /\ TopAt(d) /\ d \in Nat /\ d > Depth(orig)
               /\ Opened(Top.st) \in Good(orig, d + 1)
               /\ d + 1 \in Nat /\ d + 1 > Depth(orig)
  BY StmtTop
<1> DEFINE B == [fn |-> "block"]
           A == NewList(Opened(Top.st), stmts, b)
<1>3. Frame(orig, A, d + 1)
  BY <1>1, <1>2, NewListFrame
<1>4. Frame(orig, B, d) /\ Expects(B, d) = d + 1
  BY <1>2 DEF Frame, Expects
<1>5. Calls(<<A, B>>)
  OBVIOUS
<1> HIDE DEF A, B
<1> QED
  BY <1>1, <1>2, <1>3, <1>4, <1>5, TwoCallKeeps

(* visitBlockStmt opens a block.                                           *)
LEMMA BlockVisited == ASSUME NestedInv, visitBlockStmt PROVE NestedInv'
<1>1. Called("stmt") /\ Top.stmt.stmts \in Seq(Stmts)
  BY StmtTop, StmtParts DEF visitBlockStmt, Visiting
<1> QED
  BY <1>1, BlockBegun DEF visitBlockStmt

(* visitSelectStmt opens a block.                                          *)
LEMMA SelectVisited == ASSUME NestedInv, visitSelectStmt PROVE NestedInv'
<1>1. Called("stmt") /\ Top.stmt.clauses \in Seq(Stmts)
  BY StmtTop, StmtParts DEF visitSelectStmt, Visiting
<1> QED
  BY <1>1, BlockBegun DEF visitSelectStmt

(* Block and select statements close their block on every exit.            *)
LEMMA BlockEnded == ASSUME NestedInv, blockVisited PROVE NestedInv'
<1>1. stack # <<>> /\ mode = "return" /\ Top.fn = "block" /\ LeavesIf(endBlocks(ret))
  BY DEF blockVisited, Returned
<1>2. orig \in Store
  BY <1>1, TopFrame
<1>3. PICK d : /\ TopAt(d) /\ Frame(orig, Top, d)
               /\ Stored(ret, Good(orig, Expects(Top, d)))
  BY <1>1, TopFrame
<1>4. d \in Nat /\ d > Depth(orig) /\ Stored(ret, Maybe(orig, d + 1))
  BY <1>1, <1>3, StoredMaybe DEF Frame, Expects
<1>5. Stored(endBlocks(ret), Maybe(orig, d))
  BY <1>2, <1>4, EndBlocksStored
<1> QED
  BY <1>1, <1>3, <1>5, LeaveIfKeeps

(* visitCommClause keeps the depth.                                        *)
LEMMA CommVisited == ASSUME NestedInv, visitCommClause PROVE NestedInv'
<1>1. PICK d : /\ TopAt(d) /\ d \in Nat /\ d > Depth(orig)
               /\ Top.st \in Good(orig, d) /\ Top.stmt \in Stmts
  BY StmtTop DEF visitCommClause, Visiting
<1>2. /\ orig \in Store /\ stack # <<>>
      /\ Top.stmt.comm \in SimpleStmt /\ Top.stmt.body \in Seq(Stmts)
  BY <1>1, StmtTop, StmtParts DEF visitCommClause, Visiting
<1> DEFINE st == AfterSimple(Top.st, Top.stmt.comm)
           A == NewList(st, Top.stmt.body, FALSE)
<1>3. st \in Maybe(orig, d)
  BY <1>1, <1>2, SimpleMaybe DEF Maybe
<1>4. CallsIf(st, <<A>>)
  BY DEF visitCommClause
<1>5. CASE st = Broken
  BY <1>4, <1>5, PanicKeeps DEF CallsIf
<1>6. CASE st # Broken
  <2>1. Calls(<<A>>)
    BY <1>4, <1>6 DEF CallsIf
  <2>2. st \in Good(orig, d)
    BY <1>3, <1>6 DEF Maybe
  <2> HIDE DEF st
  <2>3. Frame(orig, A, d)
    BY <1>1, <1>2, <2>2, NewListFrame
  <2> HIDE DEF A
  <2> QED
    BY <1>1, <1>2, <2>1, <2>3, OneCallKeeps
<1> QED
  BY <1>5, <1>6

(* visitIfStmt opens a block and visits the first branch in it.            *)
LEMMA IfVisited == ASSUME NestedInv, visitIfStmt PROVE NestedInv'
<1>1. PICK d : /\ TopAt(d) /\ d \in Nat /\ d > Depth(orig) /\ Top.stmt \in Stmts
               /\ Opened(Top.st) \in Good(orig, d + 1)
               /\ d + 1 \in Nat /\ d + 1 > Depth(orig)
  BY StmtTop DEF visitIfStmt, Visiting
<1>2. /\ orig \in Store /\ stack # <<>> /\ Top.stmt.kind = "if"
      /\ Top.stmt.init \in SimpleStmt /\ Top.stmt.then \in Stmts
  BY <1>1, StmtTop, StmtParts DEF visitIfStmt, Visiting
<1> DEFINE st == AfterCondition(AfterSimple(Opened(Top.st), Top.stmt.init), Top.stmt.cond)
           A == Visit(st, Top.stmt.then)
           B == [fn |-> "if", st |-> st, stmt |-> Top.stmt]
<1>3. AfterSimple(Opened(Top.st), Top.stmt.init) \in Maybe(orig, d + 1)
  BY <1>1, <1>2, SimpleMaybe DEF Maybe
<1>4. st \in Maybe(orig, d + 1)
  BY <1>2, <1>3, ConditionMaybe
<1>5. CallsIf(st, <<A, B>>)
  BY DEF visitIfStmt
<1>6. CASE st = Broken
  BY <1>5, <1>6, PanicKeeps DEF CallsIf
<1>7. CASE st # Broken
  <2>1. Calls(<<A, B>>)
    BY <1>5, <1>7 DEF CallsIf
  <2>2. st \in Good(orig, d + 1)
    BY <1>4, <1>7 DEF Maybe
  <2> HIDE DEF st
  <2>3. Frame(orig, A, d + 1)
    BY <1>1, <1>2, <2>2, VisitFrame
  <2>4. Frame(orig, B, d) /\ Expects(B, d) = d + 1
    BY <1>1, <1>2, <2>2 DEF Frame, IfFrame, Expects
  <2> HIDE DEF A, B
  <2> QED
    BY <1>1, <1>2, <2>1, <2>3, <2>4, TwoCallKeeps
<1> QED
  BY <1>6, <1>7

(* The second branch begins in the store the first one began in.           *)
LEMMA ThenVisited == ASSUME NestedInv, thenVisited PROVE NestedInv'
<1>1. stack # <<>> /\ mode = "return" /\ Top.fn = "if"
  BY DEF thenVisited, Returned
<1>2. PICK d : /\ TopAt(d) /\ Frame(orig, Top, d)
               /\ Stored(ret, Good(orig, Expects(Top, d)))
  BY <1>1, TopFrame
<1>3. d \in Nat /\ d > Depth(orig) /\ IfFrame(orig, Top, d) /\ Expects(Top, d) = d + 1
  BY <1>1, <1>2, FrameKinds DEF Frame, Expects
<1>4. Top.st \in Good(orig, d + 1) /\ Top.stmt.else \in Stmts
  BY <1>3, StmtParts DEF IfFrame
<1> DEFINE A == Visit(Top.st, Top.stmt.else)
           B == [fn |-> "else", exits |-> ret]
<1>5. Frame(orig, A, d + 1)
  <2>1. d + 1 \in Nat /\ d + 1 > Depth(orig)
    BY <1>1, <1>3, TopFrame, MarkersFinite
  <2> QED
    BY <1>4, <2>1, VisitFrame
<1>6. Frame(orig, B, d) /\ Expects(B, d) = d + 1
  BY <1>2, <1>3 DEF Frame, ElseFrame, Expects
<1>7. Calls(<<A, B>>)
  BY DEF thenVisited
<1> HIDE DEF A, B
<1> QED
  BY <1>1, <1>2, <1>5, <1>6, <1>7, TwoCallKeeps

(* The log statements keep the exits they look at what they were.          *)
LEMMA LoggedStored ==
  ASSUME NEW o \in Store, NEW d, NEW r, Stored(r, Maybe(o, d))
  PROVE  Stored(FirstLogged(r), Maybe(o, d))
<1> DEFINE t == FirstLogged(r)
<1>1. Sequence(r) /\ Len(r) \in Nat /\ DOMAIN r = 1..Len(r)
  BY SequenceTyped DEF Stored, Sequence
<1>2. t = [i \in 1..Len(r) |-> IF i = 1 THEN Exit(Log(r[i].st), r[i].branch) ELSE r[i]]
  BY <1>1 DEF FirstLogged
<1>3. \A i \in 1..Len(r) : t[i].st \in Maybe(o, d)
  BY <1>2, LogMaybe DEF Stored, Exit
<1> HIDE DEF t
<1>4. Len(t) = Len(r) /\ t = [i \in 1..Len(t) |-> t[i]]
  BY <1>1, <1>2
<1> QED
  BY <1>1, <1>3, <1>4 DEF Stored, Sequence, t

(* visitIfStmt closes its block on the exits of both branches.             *)
LEMMA ElseVisited == ASSUME NestedInv, elseVisited PROVE NestedInv'
<1>1. stack # <<>> /\ mode = "return" /\ Top.fn = "else"
  BY DEF elseVisited, Returned
<1>2. PICK d : /\ TopAt(d) /\ Frame(orig, Top, d)
               /\ Stored(ret, Good(orig, Expects(Top, d)))
  BY <1>1, TopFrame
<1>3. d \in Nat /\ d > Depth(orig) /\ ElseFrame(orig, Top, d) /\ Expects(Top, d) = d + 1
  BY <1>1, <1>2, FrameKinds DEF Frame, Expects
<1> DEFINE out == FirstLogged(endBlocks(Top.exits)) \o FirstLogged(endBlocks(ret))
<1>4. Stored(Top.exits, Maybe(orig, d + 1)) /\ Stored(ret, Maybe(orig, d + 1))
  BY <1>2, <1>3, StoredMaybe DEF ElseFrame
<1>5. Stored(endBlocks(Top.exits), Maybe(orig, d)) /\ Stored(endBlocks(ret), Maybe(orig, d))
  BY <1>1, <1>3, <1>4, TopFrame, EndBlocksStored
<1>6. Stored(out, Maybe(orig, d))
  BY <1>1, <1>5, TopFrame, LoggedStored, StoredJoined
<1>7. Panics \/ LeavesIf(out)
  BY DEF elseVisited
<1> HIDE DEF out
<1> QED
  BY <1>1, <1>2, <1>6, <1>7, PanicKeeps, LeaveIfKeeps

(* visitSwitchStmt opens a block, and borrows the tag.                     *)
LEMMA SwitchVisited == ASSUME NestedInv, visitSwitchStmt PROVE NestedInv'
<1>1. PICK d : /\ TopAt(d) /\ d \in Nat /\ d > Depth(orig) /\ Top.stmt \in Stmts
               /\ Opened(Top.st) \in Good(orig, d + 1)
               /\ d + 1 \in Nat /\ d + 1 > Depth(orig)
  BY StmtTop DEF visitSwitchStmt, Visiting
<1>2. /\ orig \in Store /\ stack # <<>>
      /\ Top.stmt.init \in SimpleStmt /\ Top.stmt.clauses \in Seq(Stmts)
  BY <1>1, StmtTop, StmtParts DEF visitSwitchStmt, Visiting
<1> DEFINE st == AfterSimple(Opened(Top.st), Top.stmt.init)
           n == Top.stmt.tag
           A == NewList(After(st, n), Top.stmt.clauses, TRUE)
           B == [fn |-> "switch", deps |-> Deps(st, n)]
<1>3. st \in Maybe(orig, d + 1)
  BY <1>1, <1>2, SimpleMaybe DEF Maybe
<1>4. IF st = Broken \/ (n # NoName /\ ~CanRead(st, n)) THEN Panics
      ELSE CallsIf(After(st, n), <<A, B>>)
  BY DEF visitSwitchStmt
<1>5. CASE Panics
  BY <1>5, PanicKeeps
<1>6. CASE st # Broken /\ (n = NoName \/ CanRead(st, n)) /\ CallsIf(After(st, n), <<A, B>>)
  <2>1. st \in Good(orig, d + 1)
    BY <1>3, <1>6 DEF Maybe
  <2> HIDE DEF st, n
  <2>2. After(st, n) \in Maybe(orig, d + 1) /\ Deps(st, n) \in Seq(Loan)
    BY <1>2, <1>6, <2>1, AfterMaybe
  <2>3. CASE After(st, n) = Broken
    BY <1>6, <2>3, PanicKeeps DEF CallsIf
  <2>4. CASE After(st, n) # Broken
    <3>1. Calls(<<A, B>>)
      BY <1>6, <2>4 DEF CallsIf
    <3>2. After(st, n) \in Good(orig, d + 1)
      BY <2>2, <2>4 DEF Maybe
    <3>3. Frame(orig, A, d + 1)
      BY <1>1, <1>2, <3>2, NewListFrame
    <3>4. Frame(orig, B, d) /\ Expects(B, d) = d + 1
      BY <1>1, <2>2 DEF Frame, SwitchFrame, Expects
    <3> HIDE DEF A, B
    <3> QED
      BY <1>1, <1>2, <3>1, <3>3, <3>4, TwoCallKeeps
  <2> QED
    BY <2>3, <2>4
<1> QED
  BY <1>4, <1>5, <1>6

(* visitSwitchStmt gives back the tag and closes its block.                *)
LEMMA SwitchEnded == ASSUME NestedInv, switchVisited PROVE NestedInv'
<1>1. /\ stack # <<>> /\ mode = "return" /\ Top.fn = "switch"
      /\ LeavesIf(endBlocks(released(ret, Top.deps)))
  BY DEF switchVisited, Returned
<1>2. orig \in Store
  BY <1>1, TopFrame
<1>3. PICK d : /\ TopAt(d) /\ Frame(orig, Top, d)
               /\ Stored(ret, Good(orig, Expects(Top, d)))
  BY <1>1, TopFrame
<1>4. /\ d \in Nat /\ d > Depth(orig) /\ SwitchFrame(orig, Top, d)
      /\ Stored(ret, Maybe(orig, d + 1))
  BY <1>1, <1>3, FrameKinds, StoredMaybe DEF Frame, Expects
<1>5. Stored(released(ret, Top.deps), Maybe(orig, d + 1))
  BY <1>2, <1>4, ReleasedStored DEF SwitchFrame
<1>6. Stored(endBlocks(released(ret, Top.deps)), Maybe(orig, d))
  BY <1>2, <1>4, <1>5, EndBlocksStored
<1> QED
  BY <1>1, <1>3, <1>6, LeaveIfKeeps

(* visitCaseClause keeps the depth, if it has an alternative.              *)
LEMMA CaseVisited == ASSUME NestedInv, visitCaseClause, NoForNorDefault PROVE NestedInv'
<1>1. PICK d : /\ TopAt(d) /\ d \in Nat /\ d > Depth(orig)
               /\ Top.st \in Good(orig, d) /\ Top.stmt \in Stmts
  BY StmtTop DEF visitCaseClause, Visiting
<1>2. Top.stmt.body \in Seq(Stmts) /\ Top.stmt.alts # <<>> /\ stack # <<>>
  BY <1>1, StmtParts DEF visitCaseClause, Visiting, Called, NoForNorDefault
<1> DEFINE A == [fn |-> "case", st |-> Top.st, merged |-> <<>>, alts |-> Top.stmt.alts,
                 body |-> Top.stmt.body]
<1>3. CaseFrame(orig, A, d)
  BY <1>1, <1>2 DEF CaseFrame
<1>4. Frame(orig, A, d)
  BY <1>1, <1>3 DEF Frame
<1>5. Calls(<<A>>)
  BY DEF visitCaseClause
<1> HIDE DEF A
<1> QED
  BY <1>1, <1>2, <1>4, <1>5, OneCallKeeps

(* What is known of a clause under way.                                    *)
LEMMA CaseTop ==
  ASSUME NestedInv, Called("case")
  PROVE  /\ orig \in Store /\ stack # <<>>
         /\ \E d : /\ TopAt(d) /\ d \in Nat /\ d > Depth(orig) /\ CaseFrame(orig, Top, d)
BY TopFrame, FrameKinds DEF Called, Frame

(* The stores of the alternatives are merged, at the same depth.           *)
LEMMA AlternativeVisited == ASSUME NestedInv, caseAlternative PROVE NestedInv'
<1>1. orig \in Store /\ stack # <<>> /\ Top.alts # <<>>
  BY CaseTop DEF caseAlternative
<1>2. PICK d : /\ TopAt(d) /\ d \in Nat /\ d > Depth(orig) /\ CaseFrame(orig, Top, d)
  BY CaseTop DEF caseAlternative
<1> DEFINE st == AfterCondition(Top.st, Head(Top.alts))
           merged == MergedStore(Top.merged, st)
           A == [Top EXCEPT !.st = st, !.merged = MergedStore(@, st), !.alts = Tail(@)]
<1>3. st \in Maybe(orig, d)
  BY <1>1, <1>2, ConditionMaybe DEF CaseFrame, Maybe
<1>4. CallsIf(merged, <<A>>)
  BY DEF caseAlternative
<1>5. A = [fn |-> "case", st |-> st, merged |-> merged, alts |-> Tail(Top.alts),
           body |-> Top.body]
  <2>1. Top = [fn |-> "case", st |-> Top.st, merged |-> Top.merged, alts |-> Top.alts,
               body |-> Top.body]
    BY <1>2 DEF CaseFrame
  <2> DEFINE alts == Tail(Top.alts)
  <2>2. A = [Top EXCEPT !.st = st, !.merged = merged, !.alts = alts]
    OBVIOUS
  <2> HIDE DEF A, st, merged, alts
  <2>3. PICK g : g = [Top EXCEPT !.st = st]
    OBVIOUS
  <2>4. g = [fn |-> "case", st |-> st, merged |-> Top.merged, alts |-> Top.alts, body |-> Top.body]
    BY <2>1, <2>3
  <2>5. PICK h : h = [g EXCEPT !.merged = merged]
    OBVIOUS
  <2>6. h = [fn |-> "case", st |-> st, merged |-> merged, alts |-> Top.alts, body |-> Top.body]
    BY <2>4, <2>5
  <2>7. A = [h EXCEPT !.alts = alts]
    BY <2>2, <2>3, <2>5
  <2>8. A = [fn |-> "case", st |-> st, merged |-> merged, alts |-> alts, body |-> Top.body]
    BY <2>6, <2>7
  <2> QED
    BY <2>8 DEF alts
<1> HIDE DEF A, st
<1>6. CASE merged = Broken
  BY <1>4, <1>6, PanicKeeps DEF CallsIf
<1>7. CASE merged # Broken
  <2>1. Calls(<<A>>)
    BY <1>4, <1>7 DEF CallsIf
  <2>2. st # Broken
    BY <1>7 DEF MergedStore
  <2>3. st \in Good(orig, d)
    BY <1>3, <2>2 DEF Maybe
  <2>4. merged \in Good(orig, d)
    <3>1. CASE Top.merged = <<>>
      <4>1. <<>> # Broken
        BY DEF Broken
      <4>2. merged = st
        BY <2>2, <3>1, <4>1 DEF MergedStore
      <4> QED
        BY <2>3, <4>2
    <3>2. CASE Top.merged \in Good(orig, d)
      <4>1. MergedStore(Top.merged, st) \in Good(orig, d) \cup {Broken}
        BY <1>1, <1>2, <2>3, <3>2, MergedGood
      <4> QED
        BY <1>7, <4>1
    <3> QED
      BY <1>2, <3>1, <3>2 DEF CaseFrame
  <2> HIDE DEF merged
  <2>5. Top.body \in Seq(Stmts)
    BY <1>2 DEF CaseFrame
  <2>6. CaseFrame(orig, A, d)
    BY <1>5, <2>3, <2>4, <2>5 DEF CaseFrame
  <2>7. Frame(orig, A, d)
    BY <1>2, <2>6 DEF Frame
  <2> QED
    BY <1>1, <1>2, <2>1, <2>7, OneCallKeeps
<1> QED
  BY <1>6, <1>7

(* The body of a clause begins in the merged store.                        *)
LEMMA CaseBodyVisited == ASSUME NestedInv, caseBody PROVE NestedInv'
<1>1. orig \in Store /\ stack # <<>> /\ Top.alts = <<>>
  BY CaseTop DEF caseBody
<1>2. PICK d : /\ TopAt(d) /\ d \in Nat /\ d > Depth(orig) /\ CaseFrame(orig, Top, d)
  BY CaseTop DEF caseBody
<1>3. Top.merged \in Good(orig, d) /\ Top.body \in Seq(Stmts)
  BY <1>1, <1>2 DEF CaseFrame
<1>4. Frame(orig, NewList(Top.merged, Top.body, FALSE), d)
  BY <1>1, <1>2, <1>3, NewListFrame
<1>5. Calls(<<NewList(Top.merged, Top.body, FALSE)>>)
  BY DEF caseBody
<1> QED
  BY <1>1, <1>2, <1>4, <1>5, OneCallKeeps

(* Statement lists.                                                        *)
LEMMA ListTop ==
  ASSUME NestedInv, stack # <<>>, Top.fn = "list"
  PROVE  /\ orig \in Store
         /\ \E d : /\ TopAt(d) /\ d \in Nat /\ d > Depth(orig) /\ ListFrame(orig, Top, d)
                   /\ mode = "return" => Stored(ret, Good(orig, d))
BY TopFrame, FrameKinds DEF Frame, Expects

(* visitStmtList takes its next work and visits that statement.            *)
LEMMA ItemVisited == ASSUME NestedInv, visitItem PROVE NestedInv'
<1>1. stack # <<>> /\ Top.fn = "list" /\ hasWork(Top)
  BY DEF visitItem, Called
<1>2. orig \in Store
  BY <1>1, ListTop
<1>3. PICK d : TopAt(d) /\ d \in Nat /\ d > Depth(orig) /\ ListFrame(orig, Top, d)
  BY <1>1, ListTop
<1>4. /\ Top.todo # <<>>
      /\ Stored(SubSeq(Top.todo, 1, Len(Top.todo) - 1), Good(orig, d))
      /\ nextWork(Top).st \in Good(orig, d)
  BY <1>1, <1>3, StoredFront DEF ListFrame, hasWork, nextWork
<1> DEFINE w == nextWork(Top)
           A == Visit(Log(w.st), Top.stmts[w.at])
           B == [withoutNext(Top) EXCEPT !.item = w.at]
<1>5. CASE Panics
  BY <1>5, PanicKeeps
<1>6. CASE w.at \in DOMAIN Top.stmts /\ Calls(<<A, B>>)
  <2>1. Top.stmts[w.at] \in Stmts
    BY <1>3, <1>6 DEF ListFrame
  <2>2. Log(w.st) \in Good(orig, d)
    BY <1>2, <1>4, GoodStore, LogLike, LikeGood
  <2>3. B = [fn |-> "list", stmts |-> Top.stmts, isASwitch |-> Top.isASwitch, item |-> w.at,
             todo |-> SubSeq(Top.todo, 1, Len(Top.todo) - 1), seen |-> Top.seen,
             exits |-> Top.exits]
    <3> DEFINE left == SubSeq(Top.todo, 1, Len(Top.todo) - 1)
    <3>1. Top = [fn |-> "list", stmts |-> Top.stmts, isASwitch |-> Top.isASwitch,
                 item |-> Top.item, todo |-> Top.todo, seen |-> Top.seen, exits |-> Top.exits]
      BY <1>3 DEF ListFrame
    <3>2. PICK g : g = withoutNext(Top)
      OBVIOUS
    <3>3. g = [Top EXCEPT !.todo = left]
      BY <3>2 DEF withoutNext
    <3> HIDE DEF w, left
    <3>4. g = [fn |-> "list", stmts |-> Top.stmts, isASwitch |-> Top.isASwitch,
               item |-> Top.item, todo |-> left, seen |-> Top.seen, exits |-> Top.exits]
      BY <3>1, <3>3
    <3>5. [g EXCEPT !.item = w.at] =
            [fn |-> "list", stmts |-> Top.stmts, isASwitch |-> Top.isASwitch,
             item |-> w.at, todo |-> left, seen |-> Top.seen, exits |-> Top.exits]
      BY <3>4
    <3> QED
      BY <3>2, <3>5 DEF left
  <2> HIDE DEF w, B
  <2>4. ListFrame(orig, B, d) /\ Expects(B, d) = d
    <3>1. /\ B.stmts = Top.stmts /\ B.todo = SubSeq(Top.todo, 1, Len(Top.todo) - 1)
          /\ B.exits = Top.exits /\ B.fn = "list"
          /\ B = [fn |-> "list", stmts |-> B.stmts, isASwitch |-> B.isASwitch, item |-> B.item,
                  todo |-> B.todo, seen |-> B.seen, exits |-> B.exits]
      BY <2>3
    <3> QED
      BY <3>1, <1>3, <1>4 DEF ListFrame, Expects
  <2>5. Frame(orig, B, d)
    BY <1>3, <2>4 DEF Frame
  <2>6. Frame(orig, A, d)
    BY <1>3, <2>1, <2>2, VisitFrame
  <2> HIDE DEF A
  <2> QED
    BY <1>1, <1>3, <1>6, <2>4, <2>5, <2>6, TwoCallKeeps
<1> QED
  BY <1>5, <1>6 DEF visitItem

(* visitStmtList adds to its work list, and to its exits, what the         *)
(* statement returned.                                                     *)
LEMMA ItemReturned == ASSUME NestedInv, itemVisited PROVE NestedInv'
<1>1. stack # <<>> /\ Top.fn = "list" /\ mode = "return"
  BY DEF itemVisited, Returned
<1>2. orig \in Store
  BY <1>1, ListTop
<1>3. PICK d : /\ TopAt(d) /\ d \in Nat /\ d > Depth(orig) /\ ListFrame(orig, Top, d)
               /\ Stored(ret, Good(orig, d))
  BY <1>1, ListTop
<1>4. /\ Len(ret) \in Nat /\ DOMAIN ret = 1..Len(ret)
      /\ \A i \in 1..Len(ret) : ret[i].st \in Good(orig, d)
  BY <1>3, SequenceTyped DEF Stored, Sequence
<1> DEFINE on == GoesOn(Top, ret)
           out == Leaving(Top, ret)
           new == Picked(on, Unseen(Top, on))
           A == addExit(addWork(Top, on), out)
<1>5. Stored(on, Good(orig, d))
  <2> DEFINE s == [i \in DOMAIN ret |-> Work(ret[i].st, GoesTo(Top, ret[i].branch))]
             is == Stays(Top, ret)
  <2>1. is \in SUBSET (1..Len(ret))
    BY <1>4 DEF Stays
  <2>2. \A i \in is : s[i].st \in Good(orig, d)
    BY <1>4, <2>1 DEF Work
  <2>3. on = Picked(s, is)
    BY DEF GoesOn
  <2> HIDE DEF s, is, on
  <2> QED
    BY <1>4, <2>1, <2>2, <2>3, StoredPicked
<1>6. Stored(out, Good(orig, d))
  <2> DEFINE s == [i \in DOMAIN ret |-> Exit(ret[i].st, LeavesWith(Top, ret[i].branch))]
             is == DOMAIN ret \ Stays(Top, ret)
  <2>1. is \in SUBSET (1..Len(ret))
    BY <1>4
  <2>2. \A i \in is : s[i].st \in Good(orig, d)
    BY <1>4, <2>1 DEF Exit
  <2>3. out = Picked(s, is)
    BY DEF Leaving
  <2> HIDE DEF s, is, out
  <2> QED
    BY <1>4, <2>1, <2>2, <2>3, StoredPicked
<1> HIDE DEF on, out
<1>7. Stored(new, Good(orig, d))
  <2> DEFINE is == Unseen(Top, on)
  <2>1. Len(on) \in Nat /\ DOMAIN on = 1..Len(on)
    BY <1>5, SequenceTyped DEF Stored, Sequence
  <2>2. is \in SUBSET (1..Len(on))
    BY <2>1 DEF Unseen
  <2>3. \A i \in is : on[i].st \in Good(orig, d)
    BY <1>5, <2>2 DEF Stored
  <2> HIDE DEF is
  <2>4. Stored(Picked(on, is), Good(orig, d))
    BY <2>1, <2>2, <2>3, StoredPicked
  <2> QED
    BY <2>4 DEF is
<1>8. A = [fn |-> "list", stmts |-> Top.stmts, isASwitch |-> Top.isASwitch, item |-> Top.item,
           todo |-> Top.todo \o new, seen |-> Top.seen \o new, exits |-> Top.exits \o out]
  <2> HIDE DEF new
  <2> DEFINE todo == Top.todo \o new
             seen == Top.seen \o new
             exits == Top.exits \o out
  <2>1. Top = [fn |-> "list", stmts |-> Top.stmts, isASwitch |-> Top.isASwitch,
               item |-> Top.item, todo |-> Top.todo, seen |-> Top.seen, exits |-> Top.exits]
    BY <1>3 DEF ListFrame
  <2>2. PICK g : g = addWork(Top, on)
    OBVIOUS
  <2>3. g = [Top EXCEPT !.todo = todo, !.seen = seen]
    BY <2>2 DEF addWork, new
  <2> HIDE DEF todo, seen
  <2>4. g = [fn |-> "list", stmts |-> Top.stmts, isASwitch |-> Top.isASwitch,
             item |-> Top.item, todo |-> todo, seen |-> seen, exits |-> Top.exits]
    <3>1. PICK h : h = [Top EXCEPT !.todo = todo]
      OBVIOUS
    <3>2. h = [fn |-> "list", stmts |-> Top.stmts, isASwitch |-> Top.isASwitch,
               item |-> Top.item, todo |-> todo, seen |-> Top.seen, exits |-> Top.exits]
      BY <2>1, <3>1
    <3>3. g = [h EXCEPT !.seen = seen]
      BY <2>3, <3>1
    <3> QED
      BY <3>2, <3>3
  <2>5. A = [g EXCEPT !.exits = exits]
    <3>1. A = [g EXCEPT !.exits = g.exits \o out]
      BY <2>2 DEF addExit
    <3>2. g.exits = Top.exits
      BY <2>4
    <3> QED
      BY <3>1, <3>2
  <2> HIDE DEF exits
  <2>6. A = [fn |-> "list", stmts |-> Top.stmts, isASwitch |-> Top.isASwitch,
             item |-> Top.item, todo |-> todo, seen |-> seen, exits |-> exits]
    BY <2>4, <2>5
  <2> QED
    BY <2>6 DEF todo, seen, exits
<1>9. Calls(<<A>>)
  BY DEF itemVisited, on, out
<1>10. Stored(Top.todo \o new, Good(orig, d)) /\ Stored(Top.exits \o out, Good(orig, d))
  BY <1>3, <1>6, <1>7, StoredJoined DEF ListFrame
<1> HIDE DEF new, A
<1>11. ListFrame(orig, A, d)
  <2>1. /\ A.stmts = Top.stmts /\ A.todo = Top.todo \o new /\ A.exits = Top.exits \o out
        /\ A = [fn |-> "list", stmts |-> A.stmts, isASwitch |-> A.isASwitch, item |-> A.item,
                todo |-> A.todo, seen |-> A.seen, exits |-> A.exits]
    BY <1>8
  <2> QED
    BY <2>1, <1>3, <1>10 DEF ListFrame
<1>12. Frame(orig, A, d)
  BY <1>3, <1>11 DEF Frame
<1> QED
  BY <1>1, <1>3, <1>9, <1>12, OneCallKeeps

(* visitStmtList returns its exits.                                        *)
LEMMA ListEnded == ASSUME NestedInv, listVisited PROVE NestedInv'
<1>1. stack # <<>> /\ Top.fn = "list" /\ Leaves(Top.exits)
  BY DEF listVisited, Called
<1>2. PICK d : TopAt(d) /\ ListFrame(orig, Top, d)
  BY <1>1, ListTop
<1> QED
  BY <1>1, <1>2, LeaveKeeps DEF ListFrame

(* visitRangeStmt borrows what it ranges over.                             *)
LEMMA RangeVisited == ASSUME NestedInv, visitRangeStmt PROVE NestedInv'
<1>1. PICK d : /\ TopAt(d) /\ d \in Nat /\ d > Depth(orig)
               /\ Top.st \in Good(orig, d) /\ Top.stmt \in Stmts
  BY StmtTop DEF visitRangeStmt, Visiting
<1>2. orig \in Store /\ stack # <<>> /\ Top.stmt.kind = "range"
  BY StmtTop DEF visitRangeStmt, Visiting
<1> DEFINE x == Top.stmt.x
           st == Log(After(Top.st, x))
           deps == Deps(Top.st, x)
           one == <<Work(st, Outside)>>
           ex == <<Exit(Top.st, NoBranch)>>
           A == [Loop("range", Top.stmt, st, ex) EXCEPT !.deps = deps, !.canRelease = TRUE]
<1>3. CASE Panics
  BY <1>3, PanicKeeps
<1>4. CASE CanRead(Top.st, x) /\ CallsIf(st, <<A>>)
  <2>1. st \in Maybe(orig, d) /\ deps \in Seq(Loan) /\ deps # <<>>
    <3> HIDE DEF x
    <3>1. After(Top.st, x) \in Maybe(orig, d) /\ deps \in Seq(Loan)
      BY <1>1, <1>2, <1>4, AfterMaybe
    <3>2. st \in Maybe(orig, d)
      BY <1>2, <3>1, LogMaybe
    <3> QED
      BY <1>4, <3>1, <3>2 DEF CanRead, Deps
  <2>2. CASE st = Broken
    BY <1>4, <2>2, PanicKeeps DEF CallsIf
  <2>3. CASE st # Broken
    <3>1. Calls(<<A>>)
      BY <1>4, <2>3 DEF CallsIf
    <3>2. st \in Good(orig, d)
      BY <2>1, <2>3 DEF Maybe
    <3> HIDE DEF st, deps
    <3>3. Stored(one, Good(orig, d)) /\ Stored(ex, Good(orig, d))
      BY <1>1, <3>2, StoredShort
    <3>4. \E c : A = [fn |-> "range", stmt |-> Top.stmt, todo |-> one, seen |-> one,
                      exits |-> ex, deps |-> deps, canRelease |-> c]
      <4>1. PICK l : l = Loop("range", Top.stmt, st, ex)
        OBVIOUS
      <4>2. l = [fn |-> "range", stmt |-> Top.stmt, todo |-> one, seen |-> one,
                 exits |-> ex, deps |-> <<>>, canRelease |-> FALSE]
        BY <4>1 DEF Loop
      <4> HIDE DEF one, ex
      <4>3. PICK g : g = [l EXCEPT !.deps = deps]
        OBVIOUS
      <4>4. g = [fn |-> "range", stmt |-> Top.stmt, todo |-> one, seen |-> one,
                 exits |-> ex, deps |-> deps, canRelease |-> FALSE]
        BY <4>2, <4>3
      <4>5. PICK c : A = [g EXCEPT !.canRelease = c]
        BY <4>1, <4>3
      <4>6. A = [fn |-> "range", stmt |-> Top.stmt, todo |-> one, seen |-> one,
                 exits |-> ex, deps |-> deps, canRelease |-> c]
        BY <4>4, <4>5
      <4> QED
        BY <4>6
    <3> HIDE DEF A, one, ex
    <3>5. /\ A.stmt = Top.stmt /\ A.todo = one /\ A.exits = ex /\ A.deps = deps
          /\ A = [fn |-> "range", stmt |-> A.stmt, todo |-> A.todo, seen |-> A.seen,
                  exits |-> A.exits, deps |-> A.deps, canRelease |-> A.canRelease]
      BY <3>4
    <3>6. RangeFrame(orig, A, d)
      BY <1>1, <1>2, <2>1, <3>3, <3>5 DEF RangeFrame
    <3>7. Frame(orig, A, d)
      BY <1>1, <3>6 DEF Frame
    <3> QED
      BY <1>1, <1>2, <3>1, <3>7, OneCallKeeps
  <2> QED
    BY <2>2, <2>3
<1> QED
  BY <1>3, <1>4 DEF visitRangeStmt

(* What is known of a range statement under way.                           *)
LEMMA RangeTop ==
  ASSUME NestedInv, stack # <<>>, Top.fn = "range"
  PROVE  /\ orig \in Store
         /\ \E d : /\ TopAt(d) /\ d \in Nat /\ d > Depth(orig) /\ RangeFrame(orig, Top, d)
                   /\ mode = "return" => Stored(ret, Good(orig, d + 1))
BY TopFrame, FrameKinds DEF Frame, Expects

(* Every iteration opens a block and binds key and value in it.            *)
LEMMA RangeIterated == ASSUME NestedInv, rangeIterates PROVE NestedInv'
<1>1. stack # <<>> /\ Top.fn = "range" /\ Top.todo # <<>>
  BY DEF rangeIterates, Called, hasWork
<1>2. orig \in Store
  BY <1>1, RangeTop
<1>3. PICK d : TopAt(d) /\ d \in Nat /\ d > Depth(orig) /\ RangeFrame(orig, Top, d)
  BY <1>1, RangeTop
<1>4. /\ Stored(SubSeq(Top.todo, 1, Len(Top.todo) - 1), Good(orig, d))
      /\ nextWork(Top).st \in Good(orig, d)
  BY <1>1, <1>3, StoredFront DEF RangeFrame, nextWork
<1> DEFINE k == KeyOf(Container(Top.deps))
           e == ElementOf(Container(Top.deps))
<1>5. /\ Top.stmt.key \in Binding /\ Top.stmt.value \in Binding /\ Top.stmt.body \in Stmts
      /\ k \in Permission \cup {NoPerm} /\ e \in Permission \cup {NoPerm}
  BY <1>3, StmtParts, ContainerPermissions DEF RangeFrame
<1>6. d + 1 \in Nat /\ d + 1 > Depth(orig)
  BY <1>2, <1>3, MarkersFinite
<1> DEFINE logged == Log(nextWork(Top).st)
           opened == Opened(logged)
           keyed == Bound(opened, Top.stmt.key, k)
           st == Bound(keyed, Top.stmt.value, e)
           can == /\ Top.canRelease /\ Releasable(keyed, Top.stmt.key)
                  /\ Releasable(st, Top.stmt.value)
           A == Visit(st, Top.stmt.body)
           B == [withoutNext(Top) EXCEPT !.canRelease = /\ @ /\ Releasable(keyed, Top.stmt.key)
                                                        /\ Releasable(st, Top.stmt.value)]
<1>7. opened \in Maybe(orig, d + 1)
  <2>1. logged \in Good(orig, d)
    BY <1>2, <1>4, GoodStore, LogLike, LikeGood
  <2> HIDE DEF logged
  <2> QED
    BY <1>2, <2>1, OpenedGood DEF Maybe
<1>8. CallsIf(st, <<A, B>>)
  BY DEF rangeIterates
<1> DEFINE left == SubSeq(Top.todo, 1, Len(Top.todo) - 1)
<1>9. \E c : B = [fn |-> "range", stmt |-> Top.stmt, todo |-> left, seen |-> Top.seen,
                  exits |-> Top.exits, deps |-> Top.deps, canRelease |-> c]
  <2>1. PICK g : g = withoutNext(Top)
    OBVIOUS
  <2>2. g = [Top EXCEPT !.todo = left]
    BY <2>1 DEF withoutNext
  <2>3. PICK c : B = [g EXCEPT !.canRelease = c]
    BY <2>1
  <2> HIDE DEF B, left
  <2>4. Top = [fn |-> "range", stmt |-> Top.stmt, todo |-> Top.todo, seen |-> Top.seen,
               exits |-> Top.exits, deps |-> Top.deps, canRelease |-> Top.canRelease]
    BY <1>3 DEF RangeFrame
  <2>5. g = [fn |-> "range", stmt |-> Top.stmt, todo |-> left, seen |-> Top.seen,
             exits |-> Top.exits, deps |-> Top.deps, canRelease |-> Top.canRelease]
    BY <2>2, <2>4
  <2>6. B = [fn |-> "range", stmt |-> Top.stmt, todo |-> left, seen |-> Top.seen,
             exits |-> Top.exits, deps |-> Top.deps, canRelease |-> c]
    BY <2>3, <2>5
  <2> QED
    BY <2>6
<1> HIDE DEF opened, B, left, k, e
<1>10. keyed \in Maybe(orig, d + 1)
  BY <1>2, <1>5, <1>7, BoundMaybe
<1> HIDE DEF keyed
<1>11. st \in Maybe(orig, d + 1)
  BY <1>2, <1>5, <1>10, BoundMaybe
<1> HIDE DEF st
<1>12. CASE st = Broken
  BY <1>8, <1>12, PanicKeeps DEF CallsIf
<1>13. CASE st # Broken
  <2>1. Calls(<<A, B>>)
    BY <1>8, <1>13 DEF CallsIf
  <2>2. st \in Good(orig, d + 1)
    BY <1>11, <1>13 DEF Maybe
  <2>3. Frame(orig, A, d + 1)
    BY <1>5, <1>6, <2>2, VisitFrame
  <2>4. /\ B.stmt = Top.stmt /\ B.todo = left /\ B.exits = Top.exits /\ B.deps = Top.deps
        /\ B.fn = "range"
        /\ B = [fn |-> "range", stmt |-> B.stmt, todo |-> B.todo, seen |-> B.seen,
                exits |-> B.exits, deps |-> B.deps, canRelease |-> B.canRelease]
    BY <1>9
  <2>5. RangeFrame(orig, B, d)
    BY <1>3, <1>4, <2>4 DEF RangeFrame, left
  <2>6. Frame(orig, B, d) /\ Expects(B, d) = d + 1
    BY <1>3, <2>4, <2>5 DEF Frame, Expects
  <2> HIDE DEF A
  <2> QED
    BY <1>1, <1>3, <2>1, <2>3, <2>6, TwoCallKeeps
<1> QED
  BY <1>12, <1>13

(* What is added to a work list is some of what is given.                  *)
LEMMA AddedStored ==
  ASSUME NEW G, NEW bm, NEW on, Stored(on, G)
  PROVE  Stored(Picked(on, Unseen(bm, on)), G)
<1> DEFINE is == Unseen(bm, on)
<1>1. Len(on) \in Nat /\ DOMAIN on = 1..Len(on)
  BY SequenceTyped DEF Stored, Sequence
<1>2. is \in SUBSET (1..Len(on))
  BY <1>1 DEF Unseen
<1>3. \A i \in is : on[i].st \in G
  BY <1>2 DEF Stored
<1> HIDE DEF is
<1>4. Stored(Picked(on, is), G)
  BY <1>1, <1>2, <1>3, StoredPicked
<1> QED
  BY <1>4 DEF is

(* collectLoopExits divides the exits of a body, and keeps their stores.   *)
LEMMA LoopExitsStored ==
  ASSUME NEW G, NEW r, Stored(r, G)
  PROVE  Stored(nextIterations(r), G) /\ Stored(realExits(r), G)
<1> DEFINE is == Continuing(r)
           js == DOMAIN r \ is
           s == [i \in DOMAIN r |-> IF Breaks(r[i]) THEN Exit(r[i].st, NoBranch) ELSE r[i]]
<1>1. /\ Len(r) \in Nat /\ DOMAIN r = 1..Len(r) /\ \A i \in 1..Len(r) : r[i].st \in G
  BY SequenceTyped DEF Stored, Sequence
<1>2. is \in SUBSET (1..Len(r)) /\ js \in SUBSET (1..Len(r))
  BY <1>1 DEF Continuing
<1>3. \A i \in js : s[i].st \in G
  BY <1>1, <1>2 DEF Exit
<1>4. nextIterations(r) = Picked(r, is) /\ realExits(r) = Picked(s, js)
  BY DEF nextIterations, realExits
<1> HIDE DEF is, js, s
<1>5. Stored(Picked(r, is), G)
  BY <1>1, <1>2, StoredPicked
<1>6. Stored(Picked(s, js), G)
  BY <1>1, <1>2, <1>3, StoredPicked
<1> QED
  BY <1>4, <1>5, <1>6

(* Every iteration ends its block on every exit, before it goes on.        *)
LEMMA RangeReturned == ASSUME NestedInv, rangeBodyVisited PROVE NestedInv'
<1>1. stack # <<>> /\ Top.fn = "range" /\ mode = "return"
  BY DEF rangeBodyVisited, Returned
<1>2. orig \in Store
  BY <1>1, RangeTop
<1>3. PICK d : /\ TopAt(d) /\ d \in Nat /\ d > Depth(orig) /\ RangeFrame(orig, Top, d)
               /\ Stored(ret, Good(orig, d + 1))
  BY <1>1, RangeTop
<1> DEFINE M == Maybe(orig, d)
           exits == endBlocks(ret)
           next == nextIterations(exits)
           ends == [i \in DOMAIN next |-> Exit(next[i].st, NoBranch)]
           out == realExits(exits) \o ends
           works == [i \in DOMAIN next |-> Work(next[i].st, Outside)]
           F == addExit(Top, out)
<1>4. Iterates(F, works)
  BY DEF rangeBodyVisited
<1>5. Stored(exits, M)
  BY <1>2, <1>3, StoredMaybe, EndBlocksStored
<1> HIDE DEF exits, M
<1>6. Stored(next, M) /\ Stored(realExits(exits), M)
  BY <1>5, LoopExitsStored
<1> HIDE DEF next
<1>7. Sequence(next) /\ DOMAIN next = 1..Len(next) /\ \A i \in DOMAIN next : next[i].st \in M
  BY <1>6, SequenceTyped DEF Stored
<1>8. Stored(ends, M) /\ Stored(works, M)
  <2>1. ends = [i \in DOMAIN next |-> ends[i]] /\ \A i \in DOMAIN next : ends[i].st \in M
    BY <1>7 DEF Exit
  <2>2. works = [i \in DOMAIN next |-> works[i]] /\ \A i \in DOMAIN next : works[i].st \in M
    BY <1>7 DEF Work
  <2> HIDE DEF ends, works
  <2> QED
    BY <1>7, <2>1, <2>2, StoredMapped
<1> HIDE DEF ends, works
<1>9. Stored(out, M)
  BY <1>6, <1>8, StoredJoined
<1> HIDE DEF out
<1> DEFINE all == Top.exits \o out
<1>10. Stored(all, M)
  BY <1>3, <1>9, StoredJoined, StoredMaybe DEF RangeFrame, M
<1>11. F = [fn |-> "range", stmt |-> Top.stmt, todo |-> Top.todo, seen |-> Top.seen,
            exits |-> all, deps |-> Top.deps, canRelease |-> Top.canRelease]
  <2>1. Top = [fn |-> "range", stmt |-> Top.stmt, todo |-> Top.todo, seen |-> Top.seen,
               exits |-> Top.exits, deps |-> Top.deps, canRelease |-> Top.canRelease]
    BY <1>3 DEF RangeFrame
  <2>2. F = [Top EXCEPT !.exits = all]
    BY DEF addExit
  <2> HIDE DEF F, all
  <2> QED
    BY <2>1, <2>2
<1> HIDE DEF F, all
<1>12. CASE \E e \in {works[i].st : i \in DOMAIN works}
                       \cup {F.exits[i].st : i \in DOMAIN F.exits} : e = Broken
  <2>1. Panics
    BY <1>4, <1>12 DEF Iterates
  <2> QED
    BY <2>1, PanicKeeps
<1>13. CASE ~ \E e \in {works[i].st : i \in DOMAIN works}
                         \cup {F.exits[i].st : i \in DOMAIN F.exits} : e = Broken
  <2>1. Calls(<<addWork(F, works)>>)
    BY <1>4, <1>13 DEF Iterates
  <2>2. F.exits = all /\ F.todo = Top.todo /\ F.seen = Top.seen
    BY <1>11
  <2>3. Stored(works, Good(orig, d)) /\ Stored(all, Good(orig, d))
    BY <1>8, <1>10, <1>13, <2>2, StoredGood DEF M
  <2> DEFINE new == Picked(works, Unseen(F, works))
             todo == Top.todo \o new
             seen == Top.seen \o new
             A == addWork(F, works)
  <2>4. Stored(new, Good(orig, d))
    BY <2>3, AddedStored
  <2>5. A = [F EXCEPT !.todo = todo, !.seen = seen]
    BY <2>2 DEF addWork
  <2> HIDE DEF new, A
  <2>6. Stored(todo, Good(orig, d))
    BY <1>3, <2>4, StoredJoined DEF RangeFrame
  <2> HIDE DEF todo, seen
  <2>7. A = [fn |-> "range", stmt |-> Top.stmt, todo |-> todo, seen |-> seen,
             exits |-> all, deps |-> Top.deps, canRelease |-> Top.canRelease]
    <3>1. PICK h : h = [F EXCEPT !.todo = todo]
      OBVIOUS
    <3>2. h = [fn |-> "range", stmt |-> Top.stmt, todo |-> todo, seen |-> Top.seen,
               exits |-> all, deps |-> Top.deps, canRelease |-> Top.canRelease]
      BY <1>11, <3>1
    <3>3. A = [h EXCEPT !.seen = seen]
      BY <2>5, <3>1
    <3> QED
      BY <3>2, <3>3
  <2>8. /\ A.stmt = Top.stmt /\ A.todo = todo /\ A.exits = all /\ A.deps = Top.deps
        /\ A = [fn |-> "range", stmt |-> A.stmt, todo |-> A.todo, seen |-> A.seen,
                exits |-> A.exits, deps |-> A.deps, canRelease |-> A.canRelease]
    BY <2>7
  <2>9. RangeFrame(orig, A, d)
    BY <1>3, <2>3, <2>6, <2>8 DEF RangeFrame
  <2>10. Frame(orig, A, d)
    BY <1>3, <2>9 DEF Frame
  <2>11. Calls(<<A>>)
    BY <2>1 DEF A
  <2> QED
    BY <1>1, <1>3, <2>10, <2>11, OneCallKeeps
<1> QED
  BY <1>12, <1>13

(* visitRangeStmt gives back what it ranged over, or does not.             *)
LEMMA RangeEnded == ASSUME NestedInv, rangeVisited PROVE NestedInv'
<1>1. stack # <<>> /\ Top.fn = "range"
  BY DEF rangeVisited, Called
<1>2. orig \in Store
  BY <1>1, RangeTop
<1>3. PICK d : TopAt(d) /\ d \in Nat /\ RangeFrame(orig, Top, d)
  BY <1>1, RangeTop
<1> DEFINE r == IF Top.canRelease THEN released(Top.exits, Top.deps) ELSE Top.exits
<1>4. Stored(Top.exits, Maybe(orig, d)) /\ Top.deps \in Seq(Loan)
  BY <1>3, StoredMaybe DEF RangeFrame
<1>5. Stored(released(Top.exits, Top.deps), Maybe(orig, d))
  BY <1>2, <1>4, ReleasedStored
<1>6. Stored(r, Maybe(orig, d))
  BY <1>4, <1>5
<1>7. LeavesIf(r)
  BY DEF rangeVisited
<1> HIDE DEF r
<1> QED
  BY <1>1, <1>3, <1>6, <1>7, LeaveIfKeeps

(* For statements do not occur.                                            *)
LEMMA NoForVisited ==
  ASSUME NestedInv, NoForNorDefault
  PROVE  ~visitForStmt /\ ~forIterates /\ ~forBodyVisited /\ ~forVisited
<1>1. ASSUME visitForStmt
      PROVE  FALSE
  <2>1. Called("stmt") /\ Top.stmt.kind = "for"
    BY <1>1 DEF visitForStmt, Visiting
  <2>2. Top.stmt \in Stmts
    BY <2>1, StmtTop
  <2> QED
    BY <2>1, <2>2 DEF NoForNorDefault
<1>2. ASSUME stack # <<>>
      PROVE  Top.fn # "for"
  BY <1>2, TopFrame, FrameKinds
<1> QED
  BY <1>1, <1>2 DEF forIterates, forBodyVisited, forVisited, Called, Returned

(* The literal takes the exits of its body, one by one.                    *)
LEMMA BodyReturned == ASSUME NestedInv, bodyVisited PROVE NestedInv'
BY DEF bodyVisited, NestedInv

(* buildFunction goes through the exits of the body.                       *)
LEMMA ExitCaptured == ASSUME NestedInv, captureExit PROVE NestedInv'
<1>1. stack # <<>> /\ mode = "return" /\ ret # <<>>
  BY DEF captureExit, Returned
<1>2. CASE Panics
  BY <1>2, PanicKeeps
<1>3. CASE ret' = Tail(ret) /\ UNCHANGED <<stack, mode, orig>>
  <2>1. PICK ds : Nested(orig, stack, ds) /\ Awaited(orig, stack, mode, ret, ds)
    BY DEF NestedInv
  <2>2. Stored(ret, Good(orig, Expects(stack[1], ds[1])))
    BY <1>1, <2>1 DEF Awaited
  <2>3. Stored(Tail(ret), Good(orig, Expects(stack[1], ds[1])))
    BY <1>1, <2>2, StoredTail
  <2>4. Awaited(orig, stack', mode', ret', ds) /\ Nested(orig, stack', ds)
    BY <1>3, <2>1, <2>3 DEF Awaited
  <2> QED
    BY <1>3, <2>4 DEF NestedInv
<1> QED
  BY <1>2, <1>3 DEF captureExit

(* No call is under way when the literal has been visited.                 *)
LEMMA LiteralEnded == ASSUME NestedInv, functionBuilt PROVE NestedInv'
<1> DEFINE none == <<>>
<1>1. stack' = none /\ orig' = orig
  BY DEF functionBuilt
<1>2. Sequence(none) /\ Len(none) = 0
  BY ShortSequences
<1>3. Nested(orig, none, none) /\ Awaited(orig, none, mode', ret', none)
  BY <1>2 DEF Nested, Awaited
<1> QED
  BY <1>1, <1>2, <1>3 DEF NestedInv

--------------------------------------------------------------------------------
(* The beginning and the steps.                                            *)

(* The body begins in the store the literal was met in, with a block for   *)
(* the parameter.                                                          *)
LEMMA NestedInit == ASSUME Init PROVE NestedInv
<1>1. orig \in Outer /\ orig \in Store /\ Depth(orig) \in Nat
  BY OrigStore, MarkersFinite DEF Init
<1>2. PICK stmts \in Body : stack = <<NewList(Entered, stmts, FALSE), [fn |-> "literal"]>>
  BY DEF Init
<1>3. stmts \in Seq(Stmts)
  BY StmtsAssumption
<1> DEFINE d == Depth(orig) + 1
<1>4. Opened(orig) \in Good(orig, d)
  <2>1. orig \in Good(orig, Depth(orig))
    <3>1. Len(orig) \in Nat
      BY <1>1 DEF Store
    <3>2. \A i \in 1..Len(orig) : Len(orig) - Len(orig) + i = i
      BY <3>1
    <3> QED
      BY <1>1, <3>1, <3>2 DEF Good, Ends
  <2> QED
    BY <1>1, <2>1, OpenedGood
<1>5. d \in Nat /\ d > Depth(orig)
  BY <1>1
<1> HIDE DEF d
<1>6. Entered \in Maybe(orig, d)
  <2>1. Param.name \in Name /\ Param.perm \in Permission
    BY OuterAssumption
  <2>2. Opened(orig) \in Store
    BY <1>1, <1>4, GoodStore
  <2>3. Entered \in Grown(Opened(orig)) \cup {Broken}
    BY <2>1, <2>2, DefineGrown DEF Entered
  <2> QED
    BY <1>1, <1>4, <2>3, GrownGood DEF Maybe
<1>7. Entered # Broken
  <2> DEFINE op == Opened(orig)
             n == Param.name
  <2>1. op = <<Marker>> \o orig /\ op # Broken
    BY <1>1, <1>4, GoodStore, BrokenIsNone DEF Opened
  <2>2. op[1] = Marker /\ op \in Store
    <3>1. op \in Store
      BY <1>1, <1>4, GoodStore
    <3>2. orig \in Seq(Entry) /\ Marker \in Entry
      BY <1>1, MarkerEntry DEF Store
    <3>3. \A S : \A c \in S, s \in Seq(S) : (<<c>> \o s)[1] = c
      OBVIOUS
    <3> HIDE DEF op
    <3> QED
      BY <2>1, <3>1, <3>2, <3>3
  <2>3. op[1].name = Unnamed /\ n # Unnamed
    BY <2>2, OuterAssumption, UnnamedAssumption DEF Marker
  <2> HIDE DEF op, n
  <2>4. ~InBlock(op, n)
    <3> SUFFICES ASSUME NEW i \in DOMAIN op, First(op, n, i),
                        \A j \in 1..(i - 1) : op[j].name # Unnamed
                 PROVE  FALSE
      BY DEF InBlock
    <3>1. i # 1
      BY <2>3 DEF First
    <3>2. i \in 1..Len(op) /\ Len(op) \in Nat
      BY <2>2 DEF Store
    <3>3. 1 \in 1..(i - 1)
      BY <3>1, <3>2
    <3> QED
      BY <2>3, <3>3
  <2>5. Entered = <<NewCell(n, Param.perm)>> \o op
    BY <2>1, <2>4 DEF Entered, WithVariable, op, n
  <2>6. Len(Entered) = Len(op) + 1 /\ Len(op) \in Nat
    BY <2>2, <2>5 DEF Store
  <2>7. Len(op) = Len(orig) + 1 /\ Len(orig) \in Nat
    BY <1>1, <2>1 DEF Store
  <2>8. Len(Broken) = 1
    BY DEF Broken
  <2> QED
    BY <2>6, <2>7, <2>8
<1>8. Entered \in Good(orig, d)
  BY <1>6, <1>7 DEF Maybe
<1> DEFINE A == NewList(Entered, stmts, FALSE)
           B == [fn |-> "literal"]
           ds == <<d, d>>
<1>9. Frame(orig, A, d)
  BY <1>1, <1>3, <1>5, <1>8, NewListFrame
<1>10. Frame(orig, B, d) /\ Expects(B, d) = d
  BY <1>5 DEF Frame, Expects
<1> HIDE DEF A, B
<1>11. /\ Sequence(stack) /\ Len(stack) = 2 /\ stack[1] = A /\ stack[2] = B
       /\ Sequence(ds) /\ Len(ds) = 2 /\ ds[1] = d /\ ds[2] = d
  <2>1. stack = <<A, B>>
    BY <1>2 DEF A, B
  <2> QED
    BY <2>1, ShortSequences
<1> HIDE DEF ds
<1>12. Nested(orig, stack, ds)
  <2>1. \A i \in 1..2 : i = 1 \/ i = 2
    OBVIOUS
  <2>2. \A i \in 1..2 : i + 1 \in 1..2 => i = 1 /\ i + 1 = 2
    OBVIOUS
  <2>3. \A i \in 1..2 : Frame(orig, stack[i], ds[i])
    BY <1>9, <1>10, <1>11, <2>1
  <2>4. ASSUME NEW i \in 1..2, i + 1 \in 1..2
        PROVE  Expects(stack[i + 1], ds[i + 1]) = ds[i]
    <3>1. i = 1 /\ i + 1 = 2
      BY <2>2, <2>4
    <3> QED
      BY <1>10, <1>11, <3>1
  <2> QED
    BY <1>11, <2>3, <2>4 DEF Nested
<1>13. Awaited(orig, stack, mode, ret, ds)
  BY DEF Awaited, Init
<1> QED
  BY <1>1, <1>11, <1>12, <1>13 DEF NestedInv

(* No step leaves the invariant.                                           *)
LEMMA NestedStep ==
  ASSUME NestedInv, [Next]_vars, NoForNorDefault
  PROVE  NestedInv'
<1>1. CASE UNCHANGED vars
  BY <1>1 DEF vars, NestedInv
<1>2. CASE Next
  BY <1>2, SimpleVisited, BranchVisited, LabeledVisited, BlockVisited, SelectVisited,
     BlockEnded, CommVisited, IfVisited, ThenVisited, ElseVisited, SwitchVisited, SwitchEnded,
     CaseVisited, AlternativeVisited, CaseBodyVisited, ItemVisited, ItemReturned, ListEnded,
     NoForVisited, RangeVisited, RangeIterated, RangeReturned, RangeEnded,
     BodyReturned, ExitCaptured, LiteralEnded
  DEF Next
<1> QED
  BY <1>1, <1>2

(* The invariant says of every frame what ScopesKept does.                 *)
LEMMA NestedKeepsScopes == ASSUME NestedInv PROVE ScopesKept
<1>1. orig \in Store
  BY OrigStore DEF NestedInv
<1>2. PICK ds : Nested(orig, stack, ds)
  BY DEF NestedInv
<1> SUFFICES ASSUME NEW i \in DOMAIN stack
             PROVE  Balanced(stack[i])
  BY DEF ScopesKept
<1> DEFINE f == stack[i]
           d == ds[i]
<1>3. Frame(orig, f, d)
  BY <1>2, SequenceTyped DEF Nested, NestedInv
<1> HIDE DEF f, d
<1>4. f.fn # "for"
  BY <1>3, FrameKinds
<1>5. CASE f.fn \notin {"list", "range"}
  BY <1>4, <1>5 DEF Balanced, Stores, f
<1>6. CASE f.fn \in {"list", "range"}
  <2>1. Stored(f.todo, Good(orig, d)) /\ Stored(f.exits, Good(orig, d))
    BY <1>3, <1>6, FrameKinds DEF ListFrame, RangeFrame
  <2>2. /\ DOMAIN f.todo = 1..Len(f.todo) /\ DOMAIN f.exits = 1..Len(f.exits)
    BY <2>1, SequenceTyped DEF Stored
  <2>3. \A st \in Stores(f) : st \in Good(orig, d)
    BY <1>6, <2>1, <2>2 DEF Stores, Stored
  <2>4. \A st \in Stores(f) : Keeps(st) /\ Depth(st) = d
    BY <1>1, <2>3, EndsKeeps DEF Good
  <2> QED
    BY <2>4 DEF Balanced, f
<1> QED
  BY <1>5, <1>6

(* Every block that a visit opens is closed on every exit, early or not:   *)
(* all stores under way in a statement list or a range statement are of    *)
(* one depth, and end in the variables that the literal was met with.      *)
THEOREM StatementsKeepScopes == ASSUME NoForNorDefault PROVE Spec => []ScopesKept
<1>1. Init => NestedInv
  BY NestedInit
<1>2. NestedInv /\ [Next]_vars => NestedInv'
  BY NestedStep
<1>3. NestedInv => ScopesKept
  BY NestedKeepsScopes
<1> QED
  BY <1>1, <1>2, <1>3, PTL DEF Spec

--------------------------------------------------------------------------------
(* Early exits. cs has, for every call under way, the branches that are    *)
(* caught of it.                                                           *)

(* A sequence of exits with branches in B.                                 *)
Branched(r, B) == Sequence(r) /\ \A i \in 1..Len(r) : r[i].branch \in B

(* The frames of the calls under way, of a call whose exits the calls      *)
(* below it catch: their branches are in c.                                *)
StmtPlaced(P, f, c) == f.fn = "stmt" /\ f.stmt \in Stmts /\ <<f.stmt, c>> \in P

ListPlaced(P, f, c) ==
  /\ f = [fn |-> "list", stmts |-> f.stmts, isASwitch |-> f.isASwitch, item |-> f.item,
          todo |-> f.todo, seen |-> f.seen, exits |-> f.exits]
  /\ f.stmts \in Seq(Stmts) /\ InList(f.stmts, f.isASwitch, c) \subseteq P
  /\ f.item \in Nat
  /\ Branched(f.exits, c)

LoopPlaced(P, f, c) ==
  /\ f = [fn |-> f.fn, stmt |-> f.stmt, todo |-> f.todo, seen |-> f.seen,
          exits |-> f.exits, deps |-> f.deps, canRelease |-> f.canRelease]
  /\ f.fn \in {"for", "range"}
  /\ f.stmt \in Stmts /\ f.stmt.body \in Stmts /\ <<f.stmt.body, c \cup CaughtByLoop>> \in P
  /\ Branched(f.exits, c)

CasePlaced(P, f, c) ==
  /\ f = [fn |-> "case", st |-> f.st, merged |-> f.merged, alts |-> f.alts, body |-> f.body]
  /\ f.body \in Seq(Stmts) /\ InList(f.body, FALSE, c) \subseteq P

IfPlaced(P, f, c) == f.fn = "if" /\ f.stmt.else \in Stmts /\ <<f.stmt.else, c>> \in P

ElsePlaced(f, c) == f.fn = "else" /\ Branched(f.exits, c)

LiteralPlaced(f, c) == f.fn = "literal" /\ c \subseteq Final

PlacedFrame(P, f, c) ==
  /\ Final \subseteq c
  /\ \/ StmtPlaced(P, f, c) \/ ListPlaced(P, f, c) \/ LoopPlaced(P, f, c)
     \/ CasePlaced(P, f, c) \/ IfPlaced(P, f, c) \/ ElsePlaced(f, c)
     \/ LiteralPlaced(f, c) \/ f.fn \in {"block", "switch"}

(* What a frame catches, or passes on to be caught.                        *)
Catches(f, c) == CASE f.fn = "list"             -> c \cup Caught(f.stmts, f.isASwitch)
                   [] f.fn \in {"for", "range"} -> c \cup CaughtByLoop
                   [] OTHER                     -> c

(* cs has what is caught of the exits of each of the calls.                *)
Catching(P, s, cs) ==
  /\ Sequence(cs) /\ Len(cs) = Len(s)
  /\ \A i \in 1..Len(s) : PlacedFrame(P, s[i], cs[i])
  /\ \A i \in 1..Len(s) : i + 1 \in 1..Len(s) => Catches(s[i + 1], cs[i + 1]) = cs[i]

Coming(s, m, r, cs) ==
  m = "return" /\ s # <<>> => Branched(r, Catches(s[1], cs[1]))

CatchInv(P) ==
  /\ Sequence(stack)
  /\ \E cs : Catching(P, stack, cs) /\ Coming(stack, mode, ret, cs)
  /\ BranchesResolved

(* The innermost call goes on, with the same caught of it.                 *)
LEMMA OneCaught ==
  ASSUME NEW P, NEW s, Sequence(s), s # <<>>, NEW cs, Catching(P, s, cs),
         NEW A, PlacedFrame(P, A, cs[1])
  PROVE  /\ Sequence(<<A>> \o Tail(s))
         /\ Catching(P, <<A>> \o Tail(s), cs)
<1> DEFINE t == <<A>> \o Tail(s)
           n == Len(s)
<1>1. /\ Sequence(t) /\ Len(t) = n /\ n \in Nat /\ t[1] = A
      /\ \A i \in 1..n : i # 1 => t[i] = s[i]
  BY FirstReplaced DEF Sequence
<1> HIDE DEF t
<1>2. \A i \in 1..n : PlacedFrame(P, t[i], cs[i])
  BY <1>1 DEF Catching
<1>3. ASSUME NEW i \in 1..n, i + 1 \in 1..n
      PROVE  Catches(t[i + 1], cs[i + 1]) = cs[i]
  <2>1. i + 1 # 1
    BY <1>1
  <2>2. t[i + 1] = s[i + 1]
    BY <1>1, <1>3, <2>1
  <2> QED
    BY <1>3, <2>2 DEF Catching
<1>4. Catching(P, t, cs)
  BY <1>1, <1>2, <1>3 DEF Catching
<1> QED
  BY <1>1, <1>4 DEF t

(* The innermost call makes a call, of which is caught what it catches.    *)
LEMMA TwoCaught ==
  ASSUME NEW P, NEW s, Sequence(s), s # <<>>, NEW cs, Catching(P, s, cs),
         NEW B, PlacedFrame(P, B, cs[1]), NEW A, PlacedFrame(P, A, Catches(B, cs[1]))
  PROVE  /\ Sequence(<<A, B>> \o Tail(s))
         /\ \E es : Catching(P, <<A, B>> \o Tail(s), es)
<1> DEFINE t == <<A, B>> \o Tail(s)
           n == Len(s)
           es == [i \in 1..(n + 1) |-> IF i = 1 THEN Catches(B, cs[1]) ELSE cs[i - 1]]
<1>1. /\ Sequence(t) /\ Len(t) = n + 1 /\ n \in Nat /\ t[1] = A /\ t[2] = B
      /\ \A i \in 1..(n + 1) : i # 1 /\ i # 2 => t[i] = s[i - 1]
  BY FirstTwoReplaced DEF Sequence
<1> HIDE DEF t
<1>2. es[1] = Catches(B, cs[1]) /\ es[2] = cs[1]
      /\ \A i \in 1..(n + 1) : i # 1 => es[i] = cs[i - 1]
  BY <1>1
<1>3. Sequence(es) /\ Len(es) = n + 1
  <2>1. es = [i \in 1..(n + 1) |-> es[i]] /\ n + 1 \in Nat
    BY <1>1
  <2> HIDE DEF es
  <2> QED
    BY <2>1, SequenceMade
<1> HIDE DEF es
<1>4. ASSUME NEW i \in 1..(n + 1)
      PROVE  PlacedFrame(P, t[i], es[i])
  <2>1. CASE i = 1
    BY <2>1, <1>1, <1>2
  <2>2. CASE i = 2
    BY <2>2, <1>1, <1>2
  <2>3. CASE i # 1 /\ i # 2
    <3>1. i - 1 \in 1..n
      BY <1>1, <2>3
    <3>2. t[i] = s[i - 1] /\ es[i] = cs[i - 1]
      BY <1>1, <1>2, <2>3
    <3> QED
      BY <3>1, <3>2 DEF Catching
  <2> QED
    BY <2>1, <2>2, <2>3
<1>5. ASSUME NEW i \in 1..(n + 1), i + 1 \in 1..(n + 1)
      PROVE  Catches(t[i + 1], es[i + 1]) = es[i]
  <2>1. CASE i = 1
    BY <2>1, <1>1, <1>2
  <2>2. CASE i # 1
    <3>1. i - 1 \in 1..n /\ (i - 1) + 1 = i /\ i \in 1..n
      BY <1>1, <1>5, <2>2
    <3>2. i + 1 # 1 /\ i + 1 # 2 /\ (i + 1) - 1 = i
      BY <1>1, <2>2
    <3>3. t[i + 1] = s[i] /\ es[i + 1] = cs[i] /\ es[i] = cs[i - 1]
      BY <1>1, <1>2, <1>5, <2>2, <3>2
    <3>4. Catches(s[i], cs[i]) = cs[i - 1]
      BY <3>1 DEF Catching
    <3> QED
      BY <3>3, <3>4
  <2> QED
    BY <2>1, <2>2
<1>6. Catching(P, t, es)
  BY <1>1, <1>3, <1>4, <1>5 DEF Catching
<1> QED
  BY <1>1, <1>6 DEF t

(* The innermost call returns exits that are caught.                       *)
LEMMA LeftCaught ==
  ASSUME NEW P, NEW s, Sequence(s), s # <<>>, NEW cs, Catching(P, s, cs),
         NEW r, Branched(r, cs[1])
  PROVE  /\ Sequence(Tail(s))
         /\ \E es : Catching(P, Tail(s), es) /\ Coming(Tail(s), "return", r, es)
<1> DEFINE t == Tail(s)
           n == Len(s)
           es == [i \in 1..(n - 1) |-> cs[i + 1]]
<1>1. /\ Sequence(t) /\ Len(t) = n - 1 /\ n >= 1 /\ n \in Nat
      /\ \A i \in 1..(n - 1) : t[i] = s[i + 1]
  BY TailSequence DEF Sequence
<1> HIDE DEF t
<1>2. \A i \in 1..(n - 1) : es[i] = cs[i + 1] /\ i + 1 \in 1..n /\ i \in 1..n
  BY <1>1
<1>3. Sequence(es) /\ Len(es) = n - 1
  <2>1. es = [i \in 1..(n - 1) |-> es[i]] /\ n - 1 \in Nat
    BY <1>1
  <2> HIDE DEF es
  <2> QED
    BY <2>1, SequenceMade
<1> HIDE DEF es
<1>4. \A i \in 1..(n - 1) : PlacedFrame(P, t[i], es[i])
  BY <1>1, <1>2 DEF Catching
<1>5. ASSUME NEW i \in 1..(n - 1), i + 1 \in 1..(n - 1)
      PROVE  Catches(t[i + 1], es[i + 1]) = es[i]
  <2>1. i + 1 \in 1..n /\ (i + 1) + 1 \in 1..n
    BY <1>1, <1>2, <1>5
  <2>2. Catches(s[(i + 1) + 1], cs[(i + 1) + 1]) = cs[i + 1]
    BY <2>1 DEF Catching
  <2> QED
    BY <1>1, <1>2, <1>5, <2>2
<1>6. Catching(P, t, es)
  BY <1>1, <1>3, <1>4, <1>5 DEF Catching
<1>7. ASSUME t # <<>>
      PROVE  Catches(t[1], es[1]) = cs[1]
  <2>1. Len(t) # 0
    BY <1>1, <1>7, TailSequence
  <2>2. 1 \in 1..(n - 1) /\ 1 + 1 \in 1..n /\ 1 \in 1..n
    BY <1>1, <2>1
  <2>3. t[1] = s[1 + 1] /\ es[1] = cs[1 + 1]
    BY <1>1, <1>2, <2>2
  <2>4. Catches(s[1 + 1], cs[1 + 1]) = cs[1]
    BY <2>2 DEF Catching
  <2> QED
    BY <2>3, <2>4
<1>8. Coming(t, "return", r, es)
  BY <1>7 DEF Coming
<1> QED
  BY <1>1, <1>6, <1>8 DEF t

(* Works and exits.                                                        *)
LEMMA BranchedShort ==
  ASSUME NEW B
  PROVE  /\ Branched(<<>>, B)
         /\ \A b \in B : \A st : Branched(<<Exit(st, b)>>, B)
<1>1. Branched(<<>>, B)
  BY ShortSequences DEF Branched
<1>2. ASSUME NEW b \in B, NEW st
      PROVE  Branched(<<Exit(st, b)>>, B)
  <2>1. Exit(st, b).branch = b
    BY DEF Exit
  <2> HIDE DEF Exit
  <2>2. \A a : Sequence(<<a>>) /\ Len(<<a>>) = 1 /\ <<a>>[1] = a
    BY ShortSequences
  <2>3. \A i \in 1..1 : i = 1
    OBVIOUS
  <2> QED
    BY <2>1, <2>2, <2>3 DEF Branched
<1> QED
  BY <1>1, <1>2

(* Two sequences of exits with branches in B, joined.                      *)
LEMMA BranchedJoined ==
  ASSUME NEW B, NEW s, Branched(s, B), NEW t, Branched(t, B)
  PROVE  Branched(s \o t, B)
<1>1. Sequence(s) /\ Sequence(t)
  BY DEF Branched
<1>2. /\ Sequence(s \o t) /\ Len(s \o t) = Len(s) + Len(t)
      /\ \A i \in 1..Len(s) : (s \o t)[i] = s[i]
      /\ \A i \in 1..Len(t) : (s \o t)[Len(s) + i] = t[i]
      /\ \A i \in 1..Len(s \o t) : \/ i \in 1..Len(s)
                                   \/ \E j \in 1..Len(t) : i = Len(s) + j
  BY <1>1, SequencesJoined
<1> QED
  BY <1>2 DEF Branched

(* Some elements with branches in B, picked from any sequence.             *)
LEMMA BranchedPicked ==
  ASSUME NEW B, NEW n \in Nat, NEW is \in SUBSET (1..n), NEW s, \A i \in is : s[i].branch \in B
  PROVE  Branched(Picked(s, is), B)
<1>1. IsFiniteSet(1..n) /\ (1..n) \in SUBSET Nat
  BY FS_Interval
<1>2. IsFiniteSet(is) /\ is \in SUBSET Nat
  BY <1>1, FS_Subset
<1> DEFINE p == Picked(s, is)
           m == Cardinality(is)
<1>3. /\ m \in Nat /\ DOMAIN p = 1..m
      /\ \A k \in DOMAIN p : \E i \in is : p[k] = s[i]
  BY <1>2, PickedFacts
<1>4. p = [k \in 1..m |-> p[k]]
  BY DEF Picked
<1> HIDE DEF p, m
<1>5. Sequence(p) /\ Len(p) = m
  BY <1>3, <1>4, SequenceMade
<1>6. \A k \in 1..m : p[k].branch \in B
  BY <1>3
<1> QED
  BY <1>5, <1>6 DEF Branched, p

(* All exits but the first.                                                *)
LEMMA BranchedTail ==
  ASSUME NEW B, NEW s, Branched(s, B), s # <<>>
  PROVE  Branched(Tail(s), B)
<1>1. Sequence(s) /\ Len(s) \in Nat
  BY DEF Branched, Sequence
<1>2. \A i \in 1..(Len(s) - 1) : i + 1 \in 1..Len(s)
  BY <1>1
<1>3. /\ Sequence(Tail(s)) /\ Len(Tail(s)) = Len(s) - 1
      /\ \A i \in 1..(Len(s) - 1) : Tail(s)[i] = s[i + 1]
  BY <1>1, TailSequence
<1> QED
  BY <1>2, <1>3 DEF Branched

(* What keeps the branches of exits.                                       *)
LEMMA BranchedMapped ==
  ASSUME NEW B, NEW s, Branched(s, B), NEW t, t = [i \in DOMAIN s |-> t[i]],
         \A i \in DOMAIN s : t[i].branch = s[i].branch
  PROVE  Branched(t, B)
<1>1. DOMAIN s = 1..Len(s) /\ Len(s) \in Nat
  BY SequenceTyped DEF Sequence, Branched
<1>2. Sequence(t) /\ Len(t) = Len(s)
  BY <1>1, SequenceMade
<1> QED
  BY <1>1, <1>2 DEF Branched

(* Closing blocks and giving back what was borrowed keeps the branches.    *)
LEMMA EndBlocksBranched ==
  ASSUME NEW B, NEW r, Branched(r, B)
  PROVE  Branched(endBlocks(r), B) /\ \A deps : Branched(released(r, deps), B)
<1>1. Branched(endBlocks(r), B)
  <2> DEFINE t == endBlocks(r)
  <2>1. t = [i \in DOMAIN r |-> Exit(Closed(r[i].st), r[i].branch)]
    BY DEF endBlocks
  <2> HIDE DEF t
  <2>2. t = [i \in DOMAIN r |-> t[i]] /\ \A i \in DOMAIN r : t[i].branch = r[i].branch
    BY <2>1 DEF Exit
  <2> QED
    BY <2>2, BranchedMapped DEF t
<1>2. ASSUME NEW deps
      PROVE  Branched(released(r, deps), B)
  <2> DEFINE t == released(r, deps)
  <2>1. t = [i \in DOMAIN r |-> Exit(Release(r[i].st, deps), r[i].branch)]
    BY DEF released
  <2> HIDE DEF t
  <2>2. t = [i \in DOMAIN r |-> t[i]] /\ \A i \in DOMAIN r : t[i].branch = r[i].branch
    BY <2>1 DEF Exit
  <2> QED
    BY <2>2, BranchedMapped DEF t
<1> QED
  BY <1>1, <1>2

(* Of the innermost call, c is caught.                                     *)
TopCaught(P, c) ==
  \E cs : /\ Catching(P, stack, cs) /\ Coming(stack, mode, ret, cs)
          /\ cs[1] = c

(* What is known of the innermost frame, and of what was returned to it.   *)
LEMMA TopPlaced ==
  ASSUME NEW P, CatchInv(P), stack # <<>>
  PROVE  \E c : /\ TopCaught(P, c) /\ PlacedFrame(P, Top, c)
                /\ mode = "return" => Branched(ret, Catches(Top, c))
<1>1. Top = stack[1] /\ 1 \in 1..Len(stack)
  BY TailSequence DEF CatchInv, Top, Sequence
<1>2. PICK cs : Catching(P, stack, cs) /\ Coming(stack, mode, ret, cs)
  BY DEF CatchInv
<1>3. TopCaught(P, cs[1])
  BY <1>2 DEF TopCaught
<1>4. PlacedFrame(P, Top, cs[1])
  BY <1>1, <1>2 DEF Catching
<1> QED
  BY <1>1, <1>2, <1>3, <1>4 DEF Coming

(* A panic leaves no call under way.                                       *)
LEMMA PanicCaught == ASSUME NEW P, CatchInv(P), Panics PROVE CatchInv(P)'
<1> DEFINE none == <<>>
<1>1. stack' = none /\ lit' = lit
  BY DEF Panics
<1>2. Sequence(none) /\ Len(none) = 0
  BY ShortSequences
<1>3. Catching(P, none, none) /\ Coming(none, mode', ret', none)
  BY <1>2 DEF Catching, Coming
<1> QED
  BY <1>1, <1>2, <1>3 DEF CatchInv, BranchesResolved

(* A step that replaces the innermost frame keeps the invariant.           *)
LEMMA OneCallCaught ==
  ASSUME NEW P, CatchInv(P), stack # <<>>, NEW c, TopCaught(P, c),
         NEW A, PlacedFrame(P, A, c), Calls(<<A>>)
  PROVE  CatchInv(P)'
<1>1. PICK cs : Catching(P, stack, cs) /\ cs[1] = c
  BY DEF TopCaught
<1>2. stack' = <<A>> \o Tail(stack) /\ mode' = "call" /\ lit' = lit
  BY DEF Calls
<1>3. Sequence(stack') /\ Catching(P, stack', cs)
  BY <1>1, <1>2, OneCaught DEF CatchInv
<1> QED
  BY <1>2, <1>3 DEF CatchInv, Coming, BranchesResolved

(* A step that calls, and waits, keeps the invariant.                      *)
LEMMA TwoCallCaught ==
  ASSUME NEW P, CatchInv(P), stack # <<>>, NEW c, TopCaught(P, c),
         NEW A, NEW B, PlacedFrame(P, B, c), PlacedFrame(P, A, Catches(B, c)), Calls(<<A, B>>)
  PROVE  CatchInv(P)'
<1>1. PICK cs : Catching(P, stack, cs) /\ cs[1] = c
  BY DEF TopCaught
<1>2. stack' = <<A, B>> \o Tail(stack) /\ mode' = "call" /\ lit' = lit
  BY DEF Calls
<1>3. Sequence(stack') /\ \E es : Catching(P, stack', es)
  BY <1>1, <1>2, TwoCaught DEF CatchInv
<1> QED
  BY <1>2, <1>3 DEF CatchInv, Coming, BranchesResolved

(* A step that returns exits that are caught, or fails, keeps the          *)
(* invariant.                                                              *)
LEMMA LeaveCaught ==
  ASSUME NEW P, CatchInv(P), stack # <<>>, NEW c, TopCaught(P, c),
         NEW r, Branched(r, c), Leaves(r) \/ LeavesIf(r)
  PROVE  CatchInv(P)'
<1>1. CASE Panics
  BY <1>1, PanicCaught
<1>2. CASE Leaves(r)
  <2>1. PICK cs : Catching(P, stack, cs) /\ cs[1] = c
    BY DEF TopCaught
  <2>2. stack' = Tail(stack) /\ mode' = "return" /\ ret' = r /\ lit' = lit
    BY <1>2 DEF Leaves
  <2>3. Sequence(stack') /\ \E es : Catching(P, stack', es) /\ Coming(stack', "return", r, es)
    BY <2>1, <2>2, LeftCaught DEF CatchInv
  <2> QED
    BY <2>2, <2>3 DEF CatchInv, BranchesResolved
<1> QED
  BY <1>1, <1>2 DEF LeavesIf

(* What a frame is, by its kind.                                           *)
LEMMA PlacedKinds ==
  ASSUME NEW P, NEW f, NEW c, PlacedFrame(P, f, c)
  PROVE  /\ f.fn = "stmt"    => StmtPlaced(P, f, c)
         /\ f.fn = "list"    => ListPlaced(P, f, c)
         /\ f.fn \in {"for", "range"} => LoopPlaced(P, f, c)
         /\ f.fn = "case"    => CasePlaced(P, f, c)
         /\ f.fn = "if"      => IfPlaced(P, f, c)
         /\ f.fn = "else"    => ElsePlaced(f, c)
         /\ f.fn = "literal" => LiteralPlaced(f, c)
         /\ Final \subseteq c
<1>1. ListPlaced(P, f, c) => f.fn = "list"
  BY DEF ListPlaced
<1>2. LoopPlaced(P, f, c) => f.fn \in {"for", "range"}
  BY DEF LoopPlaced
<1>3. CasePlaced(P, f, c) => f.fn = "case"
  BY DEF CasePlaced
<1>4. /\ StmtPlaced(P, f, c) => f.fn = "stmt"
      /\ IfPlaced(P, f, c) => f.fn = "if"
      /\ ElsePlaced(f, c) => f.fn = "else"
      /\ LiteralPlaced(f, c) => f.fn = "literal"
  BY DEF StmtPlaced, IfPlaced, ElsePlaced, LiteralPlaced
<1>5. Final \subseteq c
  BY DEF PlacedFrame
<1> QED
  BY <1>1, <1>2, <1>3, <1>4, <1>5 DEF PlacedFrame

(* A statement that is visited, and the places of what is inside of it.    *)
LEMMA VisitPlaced ==
  ASSUME NEW P, NEW c, Final \subseteq c, NEW st, NEW s \in Stmts, <<s, c>> \in P
  PROVE  PlacedFrame(P, Visit(st, s), c)
BY DEF PlacedFrame, StmtPlaced, Visit

(* A list of statements is begun.                                          *)
LEMMA NewListPlaced ==
  ASSUME NEW P, NEW c, Final \subseteq c, NEW st, NEW stmts \in Seq(Stmts), NEW b \in BOOLEAN,
         InList(stmts, b, c) \subseteq P
  PROVE  PlacedFrame(P, NewList(st, stmts, b), c)
<1> DEFINE f == NewList(st, stmts, b)
           ex == <<Exit(st, NoBranch)>>
<1>1. f = [fn |-> "list", stmts |-> stmts, isASwitch |-> b, item |-> 0,
           todo |-> f.todo, seen |-> f.seen, exits |-> f.exits]
  BY DEF NewList
<1>2. f.exits \in {<<>>, ex}
  BY DEF NewList
<1> HIDE DEF f
<1>3. NoBranch \in c
  BY DEF Final
<1>4. Branched(<<>>, c) /\ Branched(ex, c)
  BY <1>3, BranchedShort
<1> HIDE DEF ex
<1>5. Branched(f.exits, c)
  BY <1>2, <1>4
<1>6. ListPlaced(P, f, c)
  BY <1>1, <1>5 DEF ListPlaced
<1> QED
  BY <1>6 DEF PlacedFrame, f

(* The places of the statements inside of one.                             *)
LEMMA StmtInside ==
  ASSUME NEW P, LegalBranches(P), NEW s \in Stmts, NEW c, <<s, c>> \in P
  PROVE  /\ s.kind = "branch"  => Branch(s.tok, s.label) \in c
         /\ s.kind = "labeled" => <<s.stmt, c>> \in P
         /\ s.kind = "block"   => InList(s.stmts, FALSE, c) \subseteq P
         /\ s.kind = "if"      => <<s.then, c>> \in P /\ <<s.else, c>> \in P
         /\ s.kind \in {"switch", "select"} => InList(s.clauses, TRUE, c) \subseteq P
         /\ s.kind \in {"case", "comm"}     => InList(s.body, FALSE, c) \subseteq P
         /\ s.kind \in {"for", "range"}     => <<s.body, c \cup CaughtByLoop>> \in P
<1>1. \A p \in P : /\ p[1].kind = "branch" => Branch(p[1].tok, p[1].label) \in p[2]
                   /\ Inside(p[1], p[2]) \subseteq P
  BY DEF LegalBranches
<1>2. /\ s.kind = "branch" => Branch(s.tok, s.label) \in c
      /\ Inside(s, c) \subseteq P
  <2> DEFINE p == <<s, c>>
  <2>1. p \in P /\ p[1] = s /\ p[2] = c
    OBVIOUS
  <2> HIDE DEF p
  <2> QED
    BY <1>1, <2>1
<1>3. CASE s.kind = "labeled"
  <2>1. Inside(s, c) = {<<s.stmt, c>>}
    BY <1>3 DEF Inside
  <2> QED
    BY <1>2, <1>3, <2>1
<1>4. CASE s.kind = "block"
  <2>1. Inside(s, c) = InList(s.stmts, FALSE, c)
    BY <1>4 DEF Inside
  <2> QED
    BY <1>2, <1>4, <2>1
<1>5. CASE s.kind = "if"
  <2>1. Inside(s, c) = {<<s.then, c>>, <<s.else, c>>}
    BY <1>5 DEF Inside
  <2> QED
    BY <1>2, <1>5, <2>1
<1>6. CASE s.kind \in {"switch", "select"}
  <2>1. Inside(s, c) = InList(s.clauses, TRUE, c)
    BY <1>6 DEF Inside
  <2> QED
    BY <1>2, <1>6, <2>1
<1>7. CASE s.kind \in {"case", "comm"}
  <2>1. Inside(s, c) = InList(s.body, FALSE, c)
    BY <1>7 DEF Inside
  <2> QED
    BY <1>2, <1>7, <2>1
<1>8. CASE s.kind \in {"for", "range"}
  <2>1. Inside(s, c) = {<<s.body, c \cup CaughtByLoop>>}
    BY <1>8 DEF Inside
  <2> QED
    BY <1>2, <1>8, <2>1
<1> QED
  BY <1>2, <1>3, <1>4, <1>5, <1>6, <1>7, <1>8

(* The body of a for statement is a statement.                             *)
LEMMA ForParts ==
  ASSUME NEW s \in Stmts, s.kind = "for"
  PROVE  s.body \in Stmts
<1>1. s \in StmtOver(Stmts)
  BY StmtsAssumption
<1>2. \A t \in SimpleStmt : t.kind = "simple"
  BY DEF SimpleStmt, Nil, Simple
<1> QED
  BY <1>1, <1>2 DEF StmtOver

(* What is known of a statement that is to be visited.                     *)
LEMMA StmtTopPlaced ==
  ASSUME NEW P, CatchInv(P), Called("stmt")
  PROVE  /\ stack # <<>> /\ Top.stmt \in Stmts
         /\ \E c : TopCaught(P, c) /\ Final \subseteq c /\ <<Top.stmt, c>> \in P
<1>1. stack # <<>> /\ Top.fn = "stmt"
  BY DEF Called
<1>2. PICK c : TopCaught(P, c) /\ PlacedFrame(P, Top, c)
  BY <1>1, TopPlaced
<1>3. StmtPlaced(P, Top, c) /\ Final \subseteq c
  BY <1>1, <1>2, PlacedKinds
<1> QED
  BY <1>1, <1>2, <1>3 DEF StmtPlaced

--------------------------------------------------------------------------------
(* The steps again, one lemma for each.                                    *)

(* visitSimple returns without a branch.                                   *)
LEMMA SimpleCaught == ASSUME NEW P, CatchInv(P), visitSimple PROVE CatchInv(P)'
<1> DEFINE r == <<Exit(AfterSimple(Top.st, Top.stmt), NoBranch)>>
<1>1. Called("stmt") /\ LeavesIf(r)
  BY DEF visitSimple, Visiting
<1>2. PICK c : TopCaught(P, c) /\ Final \subseteq c
  BY <1>1, StmtTopPlaced
<1>3. stack # <<>> /\ NoBranch \in c
  BY <1>1, <1>2, StmtTopPlaced DEF Final
<1>4. Branched(r, c)
  BY <1>3, BranchedShort
<1> HIDE DEF r
<1> QED
  BY <1>1, <1>2, <1>3, <1>4, LeaveCaught

(* visitBranchStmt returns its branch, which is caught.                    *)
LEMMA BranchCaught ==
  ASSUME NEW P, LegalBranches(P), CatchInv(P), visitBranchStmt
  PROVE  CatchInv(P)'
<1> DEFINE b == Branch(Top.stmt.tok, Top.stmt.label)
           r == <<Exit(Top.st, b)>>
<1>1. Called("stmt") /\ Top.stmt.kind = "branch" /\ Leaves(r)
  BY DEF visitBranchStmt, Visiting
<1>2. PICK c : TopCaught(P, c) /\ <<Top.stmt, c>> \in P
  BY <1>1, StmtTopPlaced
<1>3. stack # <<>> /\ b \in c
  BY <1>1, <1>2, StmtTopPlaced, StmtInside
<1> HIDE DEF b
<1>4. Branched(r, c)
  BY <1>3, BranchedShort
<1> HIDE DEF r
<1> QED
  BY <1>1, <1>2, <1>3, <1>4, LeaveCaught

(* visitLabeledStmt catches nothing.                                       *)
LEMMA LabeledCaught ==
  ASSUME NEW P, LegalBranches(P), CatchInv(P), visitLabeledStmt
  PROVE  CatchInv(P)'
<1> DEFINE A == Visit(Top.st, Top.stmt.stmt)
<1>1. Called("stmt") /\ Top.stmt.kind = "labeled" /\ Calls(<<A>>)
  BY DEF visitLabeledStmt, Visiting
<1>2. PICK c : TopCaught(P, c) /\ Final \subseteq c /\ <<Top.stmt, c>> \in P
  BY <1>1, StmtTopPlaced
<1>3. stack # <<>> /\ Top.stmt.stmt \in Stmts /\ <<Top.stmt.stmt, c>> \in P
  BY <1>1, <1>2, StmtTopPlaced, StmtInside, StmtParts
<1>4. PlacedFrame(P, A, c)
  BY <1>2, <1>3, VisitPlaced
<1> HIDE DEF A
<1> QED
  BY <1>1, <1>2, <1>3, <1>4, OneCallCaught

(* A list of statements that a block, or a switch, is waiting for.         *)
LEMMA WaitingCaught ==
  ASSUME NEW P, CatchInv(P), stack # <<>>, NEW c, TopCaught(P, c), Final \subseteq c,
         NEW A, PlacedFrame(P, A, c), NEW B, B.fn \in {"block", "switch"}, Calls(<<A, B>>)
  PROVE  CatchInv(P)'
<1>1. PlacedFrame(P, B, c) /\ Catches(B, c) = c
  BY DEF PlacedFrame, Catches
<1> QED
  BY <1>1, TwoCallCaught

(* visitBlockStmt leaves catching to its list.                             *)
LEMMA BlockCaught ==
  ASSUME NEW P, LegalBranches(P), CatchInv(P), visitBlockStmt
  PROVE  CatchInv(P)'
<1> DEFINE A == NewList(Opened(Top.st), Top.stmt.stmts, FALSE)
           B == [fn |-> "block"]
<1>1. /\ Called("stmt") /\ Top.stmt.kind = "block"
      /\ Calls(<<A, B>>) /\ B.fn = "block"
  BY DEF visitBlockStmt, Visiting
<1>2. PICK c : TopCaught(P, c) /\ Final \subseteq c /\ <<Top.stmt, c>> \in P
  BY <1>1, StmtTopPlaced
<1>3. stack # <<>> /\ Top.stmt.stmts \in Seq(Stmts) /\ InList(Top.stmt.stmts, FALSE, c) \subseteq P
  BY <1>1, <1>2, StmtTopPlaced, StmtInside, StmtParts
<1>4. PlacedFrame(P, A, c)
  BY <1>2, <1>3, NewListPlaced
<1> HIDE DEF A, B
<1> QED
  BY <1>1, <1>2, <1>3, <1>4, WaitingCaught

(* visitSelectStmt leaves catching to its list.                            *)
LEMMA SelectCaught ==
  ASSUME NEW P, LegalBranches(P), CatchInv(P), visitSelectStmt
  PROVE  CatchInv(P)'
<1> DEFINE A == NewList(Opened(Top.st), Top.stmt.clauses, TRUE)
           B == [fn |-> "block"]
<1>1. /\ Called("stmt") /\ Top.stmt.kind = "select"
      /\ Calls(<<A, B>>) /\ B.fn = "block"
  BY DEF visitSelectStmt, Visiting
<1>2. PICK c : TopCaught(P, c) /\ Final \subseteq c /\ <<Top.stmt, c>> \in P
  BY <1>1, StmtTopPlaced
<1>3. /\ stack # <<>> /\ Top.stmt.clauses \in Seq(Stmts)
      /\ InList(Top.stmt.clauses, TRUE, c) \subseteq P
  BY <1>1, <1>2, StmtTopPlaced, StmtInside, StmtParts
<1>4. PlacedFrame(P, A, c)
  BY <1>2, <1>3, NewListPlaced
<1> HIDE DEF A, B
<1> QED
  BY <1>1, <1>2, <1>3, <1>4, WaitingCaught

(* visitSwitchStmt leaves catching to its list.                            *)
LEMMA SwitchCaught ==
  ASSUME NEW P, LegalBranches(P), CatchInv(P), visitSwitchStmt
  PROVE  CatchInv(P)'
<1>1. Called("stmt") /\ Top.stmt.kind = "switch"
  BY DEF visitSwitchStmt, Visiting
<1>2. PICK c : TopCaught(P, c) /\ Final \subseteq c /\ <<Top.stmt, c>> \in P
  BY <1>1, StmtTopPlaced
<1>3. /\ stack # <<>> /\ Top.stmt.clauses \in Seq(Stmts)
      /\ InList(Top.stmt.clauses, TRUE, c) \subseteq P
  BY <1>1, <1>2, StmtTopPlaced, StmtInside, StmtParts
<1>4. CASE Panics
  BY <1>4, PanicCaught
<1>5. CASE \E st, deps : Calls(<<NewList(st, Top.stmt.clauses, TRUE),
                                  [fn |-> "switch", deps |-> deps]>>)
  <2>1. PICK st, deps : Calls(<<NewList(st, Top.stmt.clauses, TRUE),
                                [fn |-> "switch", deps |-> deps]>>)
    BY <1>5
  <2> DEFINE A == NewList(st, Top.stmt.clauses, TRUE)
             B == [fn |-> "switch", deps |-> deps]
  <2>2. B.fn = "switch" /\ Calls(<<A, B>>)
    BY <2>1
  <2>3. PlacedFrame(P, A, c)
    BY <1>2, <1>3, NewListPlaced
  <2> HIDE DEF A, B
  <2> QED
    BY <1>2, <1>3, <2>2, <2>3, WaitingCaught
<1> QED
  BY <1>4, <1>5 DEF visitSwitchStmt, CallsIf

(* Blocks, select and switch statements return the branches of their list. *)
LEMMA BlockEndCaught ==
  ASSUME NEW P, CatchInv(P), blockVisited \/ switchVisited
  PROVE  CatchInv(P)'
<1>1. stack # <<>> /\ mode = "return" /\ Top.fn \in {"block", "switch"}
  BY DEF blockVisited, switchVisited, Returned
<1>2. PICK c : TopCaught(P, c) /\ Branched(ret, Catches(Top, c))
  BY <1>1, TopPlaced
<1>3. Branched(ret, c)
  BY <1>1, <1>2 DEF Catches
<1>4. /\ Branched(endBlocks(ret), c)
      /\ Branched(endBlocks(released(ret, Top.deps)), c)
  BY <1>3, EndBlocksBranched
<1> QED
  BY <1>1, <1>2, <1>4, LeaveCaught DEF blockVisited, switchVisited

(* visitCommClause catches nothing.                                        *)
LEMMA CommCaught ==
  ASSUME NEW P, LegalBranches(P), CatchInv(P), visitCommClause
  PROVE  CatchInv(P)'
<1> DEFINE st == AfterSimple(Top.st, Top.stmt.comm)
           A == NewList(st, Top.stmt.body, FALSE)
<1>1. Called("stmt") /\ Top.stmt.kind = "comm" /\ CallsIf(st, <<A>>)
  BY DEF visitCommClause, Visiting
<1> HIDE DEF st
<1>2. PICK c : TopCaught(P, c) /\ Final \subseteq c /\ <<Top.stmt, c>> \in P
  BY <1>1, StmtTopPlaced
<1>3. stack # <<>> /\ Top.stmt.body \in Seq(Stmts) /\ InList(Top.stmt.body, FALSE, c) \subseteq P
  BY <1>1, <1>2, StmtTopPlaced, StmtInside, StmtParts
<1>4. PlacedFrame(P, A, c)
  BY <1>2, <1>3, NewListPlaced
<1> HIDE DEF A
<1> QED
  BY <1>1, <1>2, <1>3, <1>4, OneCallCaught, PanicCaught DEF CallsIf

(* visitIfStmt catches nothing.                                            *)
LEMMA IfCaught ==
  ASSUME NEW P, LegalBranches(P), CatchInv(P), visitIfStmt
  PROVE  CatchInv(P)'
<1> DEFINE st == AfterCondition(AfterSimple(Opened(Top.st), Top.stmt.init), Top.stmt.cond)
           A == Visit(st, Top.stmt.then)
           B == [fn |-> "if", st |-> st, stmt |-> Top.stmt]
<1>1. Called("stmt") /\ Top.stmt.kind = "if" /\ CallsIf(st, <<A, B>>)
  BY DEF visitIfStmt, Visiting
<1> HIDE DEF st
<1>2. PICK c : TopCaught(P, c) /\ Final \subseteq c /\ <<Top.stmt, c>> \in P
  BY <1>1, StmtTopPlaced
<1>3. /\ stack # <<>> /\ Top.stmt.then \in Stmts /\ Top.stmt.else \in Stmts
      /\ <<Top.stmt.then, c>> \in P /\ <<Top.stmt.else, c>> \in P
  BY <1>1, <1>2, StmtTopPlaced, StmtInside, StmtParts
<1>4. PlacedFrame(P, A, c)
  BY <1>2, <1>3, VisitPlaced
<1>5. PlacedFrame(P, B, c) /\ Catches(B, c) = c
  BY <1>2, <1>3 DEF PlacedFrame, IfPlaced, Catches
<1> HIDE DEF A, B
<1> QED
  BY <1>1, <1>2, <1>3, <1>4, <1>5, TwoCallCaught, PanicCaught DEF CallsIf

(* The exits of the first branch wait for those of the second.             *)
LEMMA ThenCaught == ASSUME NEW P, CatchInv(P), thenVisited PROVE CatchInv(P)'
<1> DEFINE A == Visit(Top.st, Top.stmt.else)
           B == [fn |-> "else", exits |-> ret]
<1>1. stack # <<>> /\ mode = "return" /\ Top.fn = "if" /\ Calls(<<A, B>>)
  BY DEF thenVisited, Returned
<1>2. PICK c : TopCaught(P, c) /\ PlacedFrame(P, Top, c) /\ Branched(ret, Catches(Top, c))
  BY <1>1, TopPlaced
<1>3. IfPlaced(P, Top, c) /\ Final \subseteq c
  BY <1>1, <1>2, PlacedKinds
<1>4. Branched(ret, c)
  BY <1>1, <1>2 DEF Catches
<1>5. PlacedFrame(P, A, c)
  BY <1>3, VisitPlaced DEF IfPlaced
<1>6. PlacedFrame(P, B, c) /\ Catches(B, c) = c
  BY <1>3, <1>4 DEF PlacedFrame, ElsePlaced, Catches
<1> HIDE DEF A, B
<1> QED
  BY <1>1, <1>2, <1>5, <1>6, TwoCallCaught

(* The log statements leave branches alone.                                *)
LEMMA LoggedBranched ==
  ASSUME NEW B, NEW r, Branched(r, B)
  PROVE  Branched(FirstLogged(r), B)
<1> DEFINE t == FirstLogged(r)
<1>1. Sequence(r) /\ Len(r) \in Nat /\ DOMAIN r = 1..Len(r)
  BY SequenceTyped DEF Branched, Sequence
<1>2. t = [i \in 1..Len(r) |-> IF i = 1 THEN Exit(Log(r[i].st), r[i].branch) ELSE r[i]]
  BY <1>1 DEF FirstLogged
<1>3. \A i \in 1..Len(r) : t[i].branch \in B
  BY <1>2 DEF Branched, Exit
<1> HIDE DEF t
<1>4. Len(t) = Len(r) /\ t = [i \in 1..Len(t) |-> t[i]]
  BY <1>1, <1>2
<1> QED
  BY <1>1, <1>3, <1>4 DEF Branched, Sequence, t

(* visitIfStmt returns the exits of both branches.                         *)
LEMMA ElseCaught == ASSUME NEW P, CatchInv(P), elseVisited PROVE CatchInv(P)'
<1>1. stack # <<>> /\ mode = "return" /\ Top.fn = "else"
  BY DEF elseVisited, Returned
<1>2. PICK c : TopCaught(P, c) /\ PlacedFrame(P, Top, c) /\ Branched(ret, Catches(Top, c))
  BY <1>1, TopPlaced
<1>3. Branched(Top.exits, c)
  BY <1>1, <1>2, PlacedKinds DEF ElsePlaced
<1>4. Branched(ret, c)
  BY <1>1, <1>2 DEF Catches
<1>5. Branched(FirstLogged(endBlocks(Top.exits)) \o FirstLogged(endBlocks(ret)), c)
  BY <1>3, <1>4, EndBlocksBranched, LoggedBranched, BranchedJoined
<1> QED
  BY <1>1, <1>2, <1>5, LeaveCaught, PanicCaught DEF elseVisited

(* visitCaseClause catches nothing.                                        *)
LEMMA CaseCaught ==
  ASSUME NEW P, LegalBranches(P), CatchInv(P), visitCaseClause
  PROVE  CatchInv(P)'
<1> DEFINE A == [fn |-> "case", st |-> Top.st, merged |-> <<>>, alts |-> Top.stmt.alts,
                 body |-> Top.stmt.body]
<1>1. Called("stmt") /\ Top.stmt.kind = "case" /\ Calls(<<A>>)
  BY DEF visitCaseClause, Visiting
<1>2. PICK c : TopCaught(P, c) /\ Final \subseteq c /\ <<Top.stmt, c>> \in P
  BY <1>1, StmtTopPlaced
<1>3. stack # <<>> /\ Top.stmt.body \in Seq(Stmts) /\ InList(Top.stmt.body, FALSE, c) \subseteq P
  BY <1>1, <1>2, StmtTopPlaced, StmtInside, StmtParts
<1>4. A.fn = "case" /\ A.body = Top.stmt.body
      /\ A = [fn |-> "case", st |-> A.st, merged |-> A.merged, alts |-> A.alts, body |-> A.body]
  OBVIOUS
<1> HIDE DEF A
<1>5. PlacedFrame(P, A, c)
  BY <1>2, <1>3, <1>4 DEF PlacedFrame, CasePlaced
<1> QED
  BY <1>1, <1>2, <1>3, <1>5, OneCallCaught

(* The alternatives have no exits.                                         *)
LEMMA AlternativeCaught == ASSUME NEW P, CatchInv(P), caseAlternative PROVE CatchInv(P)'
<1>1. stack # <<>> /\ Top.fn = "case"
  BY DEF caseAlternative, Called
<1>2. PICK c : TopCaught(P, c) /\ PlacedFrame(P, Top, c)
  BY <1>1, TopPlaced
<1>3. CasePlaced(P, Top, c) /\ Final \subseteq c
  BY <1>1, <1>2, PlacedKinds
<1> DEFINE st == AfterCondition(Top.st, Head(Top.alts))
           merged == MergedStore(Top.merged, st)
           alts == Tail(Top.alts)
           A == [Top EXCEPT !.st = st, !.merged = merged, !.alts = alts]
<1>4. CallsIf(merged, <<A>>)
  BY DEF caseAlternative
<1> HIDE DEF st, merged, alts
<1>5. A = [fn |-> "case", st |-> st, merged |-> merged, alts |-> alts, body |-> Top.body]
  <2>1. Top = [fn |-> "case", st |-> Top.st, merged |-> Top.merged, alts |-> Top.alts,
               body |-> Top.body]
    BY <1>3 DEF CasePlaced
  <2> HIDE DEF A
  <2>2. PICK g : g = [Top EXCEPT !.st = st]
    OBVIOUS
  <2>3. g = [fn |-> "case", st |-> st, merged |-> Top.merged, alts |-> Top.alts, body |-> Top.body]
    BY <2>1, <2>2
  <2>4. PICK h : h = [g EXCEPT !.merged = merged]
    OBVIOUS
  <2>5. h = [fn |-> "case", st |-> st, merged |-> merged, alts |-> Top.alts, body |-> Top.body]
    BY <2>3, <2>4
  <2>6. A = [h EXCEPT !.alts = alts]
    BY <2>2, <2>4 DEF A
  <2> QED
    BY <2>5, <2>6
<1>6. PlacedFrame(P, A, c)
  <2>1. /\ A.fn = "case" /\ A.body = Top.body
        /\ A = [fn |-> "case", st |-> A.st, merged |-> A.merged, alts |-> A.alts, body |-> A.body]
    BY <1>5
  <2> HIDE DEF A
  <2> QED
    BY <1>3, <2>1 DEF PlacedFrame, CasePlaced
<1> HIDE DEF A
<1> QED
  BY <1>1, <1>2, <1>4, <1>6, OneCallCaught, PanicCaught DEF CallsIf

(* The body of a clause is a list of statements.                           *)
LEMMA CaseBodyCaught == ASSUME NEW P, CatchInv(P), caseBody PROVE CatchInv(P)'
<1>1. stack # <<>> /\ Top.fn = "case" /\ Calls(<<NewList(Top.merged, Top.body, FALSE)>>)
  BY DEF caseBody, Called
<1>2. PICK c : TopCaught(P, c) /\ PlacedFrame(P, Top, c)
  BY <1>1, TopPlaced
<1>3. CasePlaced(P, Top, c) /\ Final \subseteq c
  BY <1>1, <1>2, PlacedKinds
<1>4. PlacedFrame(P, NewList(Top.merged, Top.body, FALSE), c)
  BY <1>3, NewListPlaced DEF CasePlaced
<1> QED
  BY <1>1, <1>2, <1>4, OneCallCaught

(* Statement lists. *)
(* A statement of the list is visited. *)
LEMMA ItemCaught == ASSUME NEW P, CatchInv(P), visitItem PROVE CatchInv(P)'
<1>1. stack # <<>> /\ Top.fn = "list"
  BY DEF visitItem, Called
<1>2. PICK c : TopCaught(P, c) /\ PlacedFrame(P, Top, c)
  BY <1>1, TopPlaced
<1>3. ListPlaced(P, Top, c) /\ Final \subseteq c
  BY <1>1, <1>2, PlacedKinds
<1> DEFINE w == nextWork(Top)
           at == w.at
           left == SubSeq(Top.todo, 1, Len(Top.todo) - 1)
           B == [withoutNext(Top) EXCEPT !.item = at]
           A == Visit(Log(w.st), Top.stmts[at])
           e == c \cup Caught(Top.stmts, Top.isASwitch)
<1>4. CASE Panics
  BY <1>4, PanicCaught
<1>5. CASE at \in DOMAIN Top.stmts /\ Calls(<<A, B>>)
  <2>1. at \in Nat /\ Top.stmts[at] \in Stmts
    BY <1>3, <1>5 DEF ListPlaced
  <2>2. <<Top.stmts[at], e>> \in P
    <3> HIDE DEF at
    <3>1. <<Top.stmts[at], e>> \in InList(Top.stmts, Top.isASwitch, c)
      BY <1>5 DEF InList
    <3> QED
      BY <1>3, <3>1 DEF ListPlaced
  <2>3. PlacedFrame(P, A, e)
    <3> HIDE DEF at, e, w
    <3>1. Final \subseteq e
      BY <1>3 DEF e
    <3> QED
      BY <2>1, <2>2, <3>1, VisitPlaced
  <2>4. B = [fn |-> "list", stmts |-> Top.stmts, isASwitch |-> Top.isASwitch, item |-> at,
             todo |-> left, seen |-> Top.seen, exits |-> Top.exits]
    <3>1. Top = [fn |-> "list", stmts |-> Top.stmts, isASwitch |-> Top.isASwitch,
                 item |-> Top.item, todo |-> Top.todo, seen |-> Top.seen, exits |-> Top.exits]
      BY <1>3 DEF ListPlaced
    <3>2. PICK g : g = withoutNext(Top)
      OBVIOUS
    <3>3. g = [Top EXCEPT !.todo = left]
      BY <3>2 DEF withoutNext
    <3> HIDE DEF at, left
    <3>4. g = [fn |-> "list", stmts |-> Top.stmts, isASwitch |-> Top.isASwitch,
               item |-> Top.item, todo |-> left, seen |-> Top.seen, exits |-> Top.exits]
      BY <3>1, <3>3
    <3>5. [g EXCEPT !.item = at] =
            [fn |-> "list", stmts |-> Top.stmts, isASwitch |-> Top.isASwitch,
             item |-> at, todo |-> left, seen |-> Top.seen, exits |-> Top.exits]
      BY <3>4
    <3> QED
      BY <3>2, <3>5
  <2> HIDE DEF B, at, left
  <2>5. /\ B.stmts = Top.stmts /\ B.isASwitch = Top.isASwitch /\ B.item = at
        /\ B.exits = Top.exits /\ B.fn = "list"
        /\ B = [fn |-> "list", stmts |-> B.stmts, isASwitch |-> B.isASwitch, item |-> B.item,
                todo |-> B.todo, seen |-> B.seen, exits |-> B.exits]
    BY <2>4
  <2>6. ListPlaced(P, B, c) /\ Catches(B, c) = e
    BY <1>3, <2>1, <2>5 DEF ListPlaced, Catches
  <2>7. PlacedFrame(P, B, c)
    BY <1>3, <2>6 DEF PlacedFrame
  <2> HIDE DEF A, e
  <2> QED
    BY <1>1, <1>2, <1>5, <2>3, <2>6, <2>7, TwoCallCaught
<1> QED
  BY <1>4, <1>5 DEF visitItem

(* An exit that leaves the list does so with a branch that is caught       *)
(* outside of it.                                                          *)
LEMMA LeavingCaught ==
  ASSUME NEW f, f.item \in Nat, f.stmts \in Seq(Stmts),
         NEW c, Final \subseteq c, NEW b \in c \cup Caught(f.stmts, f.isASwitch),
         GoesTo(f, b) = Outside
  PROVE  LeavesWith(f, b) \in c
<1>1. NoBranch \in c /\ NoBranch.tok = "none"
  BY DEF Final, NoBranch, Branch
<1>2. CASE b \in c
  BY <1>1, <1>2 DEF LeavesWith
<1>3. CASE f.isASwitch /\ b = Branch("break", NoLabel)
  <2>1. LeavesWith(f, b) = NoBranch
    BY <1>3 DEF LeavesWith, Branch, BranchingThis
  <2> QED
    BY <1>1, <2>1
<1>4. CASE f.isASwitch /\ b = Branch("fallthrough", NoLabel)
  <2>1. b # NoBranch /\ b.tok = "fallthrough"
    BY <1>4 DEF Branch, NoBranch
  <2>2. GoesTo(f, b) = f.item + 1
    BY <1>4, <2>1 DEF GoesTo
  <2> QED
    BY <2>2 DEF Outside
<1>5. CASE ~f.isASwitch /\ \E l \in Labels(f.stmts) : b = Branch("goto", l)
  <2>1. PICK l \in Labels(f.stmts) : b = Branch("goto", l)
    BY <1>5
  <2>2. b # NoBranch /\ b.tok = "goto" /\ b.label = l
    BY <2>1 DEF Branch, NoBranch
  <2>3. GoesTo(f, b) = Target(f.stmts, l)
    BY <2>1, <2>2 DEF GoesTo
  <2>4. \E i \in DOMAIN f.stmts : f.stmts[i].kind = "labeled" /\ f.stmts[i].label = l
    BY <2>1 DEF Labels
  <2>5. Target(f.stmts, l) \in DOMAIN f.stmts
    BY <2>4 DEF Target
  <2>6. 0 \notin DOMAIN f.stmts
    OBVIOUS
  <2> QED
    BY <2>3, <2>5, <2>6 DEF Outside
<1> QED
  BY <1>2, <1>3, <1>4, <1>5 DEF Caught

(* visitStmtList keeps, as its exits, those that leave it.                 *)
LEMMA ReturnedCaught == ASSUME NEW P, CatchInv(P), itemVisited PROVE CatchInv(P)'
<1>1. stack # <<>> /\ Top.fn = "list" /\ mode = "return"
  BY DEF itemVisited, Returned
<1>2. PICK c : /\ TopCaught(P, c) /\ PlacedFrame(P, Top, c)
               /\ Branched(ret, Catches(Top, c))
  BY <1>1, TopPlaced
<1>3. ListPlaced(P, Top, c) /\ Final \subseteq c
  BY <1>1, <1>2, PlacedKinds
<1> DEFINE e == c \cup Caught(Top.stmts, Top.isASwitch)
<1>4. /\ Len(ret) \in Nat /\ DOMAIN ret = 1..Len(ret)
      /\ \A i \in 1..Len(ret) : ret[i].branch \in e
  <2>1. Catches(Top, c) = e
    BY <1>1 DEF Catches
  <2> QED
    BY <1>2, <2>1, SequenceTyped DEF Branched, Sequence
<1>5. Top.item \in Nat /\ Top.stmts \in Seq(Stmts)
  BY <1>3 DEF ListPlaced
<1> DEFINE on == GoesOn(Top, ret)
           out == Leaving(Top, ret)
           new == Picked(on, Unseen(Top, on))
           todo == Top.todo \o new
           seen == Top.seen \o new
           exits == Top.exits \o out
           A == addExit(addWork(Top, on), out)
<1>6. Branched(out, c)
  <2> DEFINE s == [i \in DOMAIN ret |-> Exit(ret[i].st, LeavesWith(Top, ret[i].branch))]
             is == DOMAIN ret \ Stays(Top, ret)
  <2>1. is \in SUBSET (1..Len(ret))
    BY <1>4
  <2>2. ASSUME NEW i \in is
        PROVE  s[i].branch \in c
    <3>1. i \in DOMAIN ret /\ GoesTo(Top, ret[i].branch) = Outside
      BY DEF Stays
    <3>2. ret[i].branch \in e
      BY <1>4, <3>1
    <3>3. LeavesWith(Top, ret[i].branch) \in c
      BY <1>3, <1>5, <3>1, <3>2, LeavingCaught
    <3>4. s[i].branch = LeavesWith(Top, ret[i].branch)
      BY <3>1 DEF Exit
    <3> QED
      BY <3>3, <3>4
  <2>3. out = Picked(s, is)
    BY DEF Leaving
  <2> HIDE DEF s, is, out
  <2> QED
    BY <1>4, <2>1, <2>2, <2>3, BranchedPicked
<1> HIDE DEF out
<1>7. Branched(exits, c)
  BY <1>3, <1>6, BranchedJoined DEF ListPlaced
<1>8. A = [fn |-> "list", stmts |-> Top.stmts, isASwitch |-> Top.isASwitch, item |-> Top.item,
           todo |-> todo, seen |-> seen, exits |-> exits]
  <2> HIDE DEF on
  <2>1. Top = [fn |-> "list", stmts |-> Top.stmts, isASwitch |-> Top.isASwitch,
               item |-> Top.item, todo |-> Top.todo, seen |-> Top.seen, exits |-> Top.exits]
    BY <1>3 DEF ListPlaced
  <2>2. PICK g : g = addWork(Top, on)
    OBVIOUS
  <2>3. g = [Top EXCEPT !.todo = todo, !.seen = seen]
    BY <2>2 DEF addWork
  <2> HIDE DEF todo, seen
  <2>4. PICK h : h = [Top EXCEPT !.todo = todo]
    OBVIOUS
  <2>5. h = [fn |-> "list", stmts |-> Top.stmts, isASwitch |-> Top.isASwitch,
             item |-> Top.item, todo |-> todo, seen |-> Top.seen, exits |-> Top.exits]
    BY <2>1, <2>4
  <2>6. g = [h EXCEPT !.seen = seen]
    BY <2>3, <2>4
  <2>7. g = [fn |-> "list", stmts |-> Top.stmts, isASwitch |-> Top.isASwitch,
             item |-> Top.item, todo |-> todo, seen |-> seen, exits |-> Top.exits]
    BY <2>5, <2>6
  <2>8. A = [g EXCEPT !.exits = exits]
    <3>1. A = [g EXCEPT !.exits = g.exits \o out]
      BY <2>2 DEF addExit
    <3>2. g.exits = Top.exits
      BY <2>7
    <3> QED
      BY <3>1, <3>2
  <2> HIDE DEF exits
  <2> QED
    BY <2>7, <2>8
<1>9. Calls(<<A>>)
  BY DEF itemVisited, on, out
<1> HIDE DEF A, todo, seen, exits
<1>10. PlacedFrame(P, A, c)
  <2>1. /\ A.stmts = Top.stmts /\ A.isASwitch = Top.isASwitch /\ A.item = Top.item
        /\ A.exits = exits
        /\ A = [fn |-> "list", stmts |-> A.stmts, isASwitch |-> A.isASwitch, item |-> A.item,
                todo |-> A.todo, seen |-> A.seen, exits |-> A.exits]
    BY <1>8
  <2>2. ListPlaced(P, A, c)
    BY <1>3, <1>7, <2>1 DEF ListPlaced
  <2> QED
    BY <1>3, <2>2 DEF PlacedFrame
<1> QED
  BY <1>1, <1>2, <1>9, <1>10, OneCallCaught

(* visitStmtList returns its exits.                                        *)
LEMMA ListCaught == ASSUME NEW P, CatchInv(P), listVisited PROVE CatchInv(P)'
<1>1. stack # <<>> /\ Top.fn = "list" /\ Leaves(Top.exits)
  BY DEF listVisited, Called
<1>2. PICK c : TopCaught(P, c) /\ PlacedFrame(P, Top, c)
  BY <1>1, TopPlaced
<1>3. Branched(Top.exits, c)
  BY <1>1, <1>2, PlacedKinds DEF ListPlaced
<1> QED
  BY <1>1, <1>2, <1>3, LeaveCaught

(* A loop keeps the exits it does not catch, and its own.                  *)
LEMMA RealExitsCaught ==
  ASSUME NEW c, Final \subseteq c, NEW r, Branched(r, c \cup CaughtByLoop)
  PROVE  Branched(realExits(r), c)
<1> DEFINE is == DOMAIN r \ Continuing(r)
           s == [i \in DOMAIN r |-> IF Breaks(r[i]) THEN Exit(r[i].st, NoBranch) ELSE r[i]]
<1>1. /\ Len(r) \in Nat /\ DOMAIN r = 1..Len(r)
      /\ \A i \in 1..Len(r) : r[i].branch \in c \cup CaughtByLoop
  BY SequenceTyped DEF Branched, Sequence
<1>2. is \in SUBSET (1..Len(r))
  BY <1>1
<1>3. ASSUME NEW i \in is
      PROVE  s[i].branch \in c
  <2>1. i \in DOMAIN r /\ ~Continues(r[i]) /\ r[i].branch \in c \cup CaughtByLoop
    BY <1>1 DEF Continuing
  <2>2. CASE Breaks(r[i])
    <3>1. s[i].branch = NoBranch
      BY <2>1, <2>2 DEF Exit
    <3> QED
      BY <3>1 DEF Final
  <2>3. CASE ~Breaks(r[i])
    <3>1. s[i] = r[i]
      BY <2>1, <2>3
    <3>2. r[i].branch # Branch("break", NoLabel)
      BY <2>3 DEF Breaks, BranchingThis, Branch
    <3>3. r[i].branch # Branch("continue", NoLabel)
      BY <2>1 DEF Continues, BranchingThis, Branch
    <3> QED
      BY <2>1, <3>1, <3>2, <3>3 DEF CaughtByLoop
  <2> QED
    BY <2>2, <2>3
<1>4. realExits(r) = Picked(s, is)
  BY DEF realExits
<1> HIDE DEF s, is
<1> QED
  BY <1>1, <1>2, <1>3, <1>4, BranchedPicked

(* The frame of a loop is a frame.                                         *)
LEMMA LoopPlacedFrame ==
  ASSUME NEW P, NEW c, Final \subseteq c, NEW f, LoopPlaced(P, f, c)
  PROVE  PlacedFrame(P, f, c)
BY DEF PlacedFrame

(* A loop with other works and exits.                                      *)
LEMMA LoopMade ==
  ASSUME NEW P, NEW c, Final \subseteq c, NEW f, f.fn \in {"for", "range"},
         f = [fn |-> f.fn, stmt |-> f.stmt, todo |-> f.todo, seen |-> f.seen,
              exits |-> f.exits, deps |-> f.deps, canRelease |-> f.canRelease],
         f.stmt \in Stmts, f.stmt.body \in Stmts, <<f.stmt.body, c \cup CaughtByLoop>> \in P,
         Branched(f.exits, c)
  PROVE  LoopPlaced(P, f, c) /\ PlacedFrame(P, f, c) /\ Catches(f, c) = c \cup CaughtByLoop
<1>1. LoopPlaced(P, f, c)
  BY DEF LoopPlaced
<1> QED
  BY <1>1 DEF PlacedFrame, Catches

(* What is known of a loop under way.                                      *)
LEMMA LoopTop ==
  ASSUME NEW P, CatchInv(P), stack # <<>>, Top.fn \in {"for", "range"}
  PROVE  \E c : /\ TopCaught(P, c) /\ Final \subseteq c /\ LoopPlaced(P, Top, c)
                /\ mode = "return" => Branched(ret, c \cup CaughtByLoop)
<1>1. PICK c : /\ TopCaught(P, c) /\ PlacedFrame(P, Top, c)
               /\ mode = "return" => Branched(ret, Catches(Top, c))
  BY TopPlaced
<1>2. Catches(Top, c) = c \cup CaughtByLoop
  BY DEF Catches
<1> QED
  BY <1>1, <1>2, PlacedKinds

(* The body of a loop is visited.                                          *)
LEMMA LoopBodyCaught ==
  ASSUME NEW P, CatchInv(P), stack # <<>>, NEW c, TopCaught(P, c), Final \subseteq c,
         LoopPlaced(P, Top, c), NEW B, PlacedFrame(P, B, c), Catches(B, c) = c \cup CaughtByLoop,
         NEW st, CallsIf(st, <<Visit(st, Top.stmt.body), B>>)
  PROVE  CatchInv(P)'
<1> DEFINE e == c \cup CaughtByLoop
           A == Visit(st, Top.stmt.body)
<1>1. Top.stmt.body \in Stmts /\ <<Top.stmt.body, e>> \in P /\ Final \subseteq e
  BY DEF LoopPlaced
<1>2. Catches(B, c) = e
  OBVIOUS
<1> HIDE DEF e
<1>3. PlacedFrame(P, A, e)
  BY <1>1, VisitPlaced
<1>4. CallsIf(st, <<A, B>>)
  OBVIOUS
<1> HIDE DEF A
<1> QED
  BY <1>2, <1>3, <1>4, TwoCallCaught, PanicCaught DEF CallsIf

(* The loop goes on.                                                       *)
LEMMA IteratesCaught ==
  ASSUME NEW P, CatchInv(P), stack # <<>>, NEW c, TopCaught(P, c), Final \subseteq c,
         NEW F, LoopPlaced(P, F, c), NEW works, Iterates(F, works)
  PROVE  CatchInv(P)'
<1> DEFINE new == Picked(works, Unseen(F, works))
           todo == F.todo \o new
           seen == F.seen \o new
           A == addWork(F, works)
<1>1. A = [F EXCEPT !.todo = todo, !.seen = seen]
  BY DEF addWork
<1>2. Panics \/ Calls(<<A>>)
  BY DEF Iterates
<1> HIDE DEF A, todo, seen
<1>3. A = [fn |-> F.fn, stmt |-> F.stmt, todo |-> todo, seen |-> seen,
           exits |-> F.exits, deps |-> F.deps, canRelease |-> F.canRelease]
  <2>1. F = [fn |-> F.fn, stmt |-> F.stmt, todo |-> F.todo, seen |-> F.seen,
             exits |-> F.exits, deps |-> F.deps, canRelease |-> F.canRelease]
    BY DEF LoopPlaced
  <2>2. PICK h : h = [F EXCEPT !.todo = todo]
    OBVIOUS
  <2>3. h = [fn |-> F.fn, stmt |-> F.stmt, todo |-> todo, seen |-> F.seen,
             exits |-> F.exits, deps |-> F.deps, canRelease |-> F.canRelease]
    BY <2>1, <2>2
  <2>4. A = [h EXCEPT !.seen = seen]
    BY <1>1, <2>2
  <2> QED
    BY <2>3, <2>4
<1>4. /\ A.fn = F.fn /\ A.stmt = F.stmt /\ A.exits = F.exits
      /\ A = [fn |-> A.fn, stmt |-> A.stmt, todo |-> A.todo, seen |-> A.seen,
              exits |-> A.exits, deps |-> A.deps, canRelease |-> A.canRelease]
  BY <1>3
<1>5. PlacedFrame(P, A, c)
  <2>1. LoopPlaced(P, A, c)
    BY <1>4 DEF LoopPlaced
  <2> QED
    BY <2>1, LoopPlacedFrame
<1> QED
  BY <1>2, <1>5, PanicCaught, OneCallCaught

(* For statements.                                                         *)
LEMMA ForCaught ==
  ASSUME NEW P, LegalBranches(P), CatchInv(P), visitForStmt
  PROVE  CatchInv(P)'
<1> DEFINE st == AfterSimple(Opened(Top.st), Top.stmt.init)
           none == <<>>
           A == Loop("for", Top.stmt, st, none)
<1>1. Called("stmt") /\ Top.stmt.kind = "for" /\ CallsIf(st, <<A>>)
  BY DEF visitForStmt, Visiting
<1> HIDE DEF st
<1>2. PICK c : TopCaught(P, c) /\ Final \subseteq c /\ <<Top.stmt, c>> \in P
  BY <1>1, StmtTopPlaced
<1>3. stack # <<>> /\ Top.stmt \in Stmts
  BY <1>1, StmtTopPlaced
<1>4. Top.stmt.body \in Stmts /\ <<Top.stmt.body, c \cup CaughtByLoop>> \in P
  BY <1>1, <1>2, <1>3, StmtInside, ForParts
<1>5. Branched(none, c)
  BY BranchedShort
<1> HIDE DEF none
<1>6. /\ A.fn = "for" /\ A.stmt = Top.stmt /\ A.exits = none
      /\ A = [fn |-> A.fn, stmt |-> A.stmt, todo |-> A.todo, seen |-> A.seen,
              exits |-> A.exits, deps |-> A.deps, canRelease |-> A.canRelease]
  BY DEF Loop
<1> HIDE DEF A
<1>7. PlacedFrame(P, A, c)
  <2>1. LoopPlaced(P, A, c)
    BY <1>2, <1>3, <1>4, <1>5, <1>6 DEF LoopPlaced
  <2> QED
    BY <1>2, <2>1, LoopPlacedFrame
<1> QED
  BY <1>1, <1>2, <1>3, <1>7, OneCallCaught, PanicCaught DEF CallsIf

(* A for statement may always be left by its condition.                    *)
LEMMA ForStepCaught == ASSUME NEW P, CatchInv(P), forIterates PROVE CatchInv(P)'
<1>1. stack # <<>> /\ Top.fn = "for"
  BY DEF forIterates, Called
<1>2. PICK c : TopCaught(P, c) /\ Final \subseteq c /\ LoopPlaced(P, Top, c)
  BY <1>1, LoopTop
<1> DEFINE st == AfterCondition(nextWork(Top).st, Top.stmt.cond)
           left == SubSeq(Top.todo, 1, Len(Top.todo) - 1)
           one == <<Exit(st, NoBranch)>>
           exits == Top.exits \o one
           B == addExit(withoutNext(Top), one)
<1>3. CallsIf(st, <<Visit(st, Top.stmt.body), B>>)
  BY DEF forIterates
<1> HIDE DEF st
<1>4. Branched(exits, c)
  <2>1. NoBranch \in c
    BY <1>2 DEF Final
  <2>2. Branched(one, c)
    BY <2>1, BranchedShort
  <2> HIDE DEF one
  <2> QED
    BY <1>2, <2>2, BranchedJoined DEF LoopPlaced
<1>5. B = [fn |-> Top.fn, stmt |-> Top.stmt, todo |-> left, seen |-> Top.seen,
           exits |-> exits, deps |-> Top.deps, canRelease |-> Top.canRelease]
  <2>1. Top = [fn |-> Top.fn, stmt |-> Top.stmt, todo |-> Top.todo, seen |-> Top.seen,
               exits |-> Top.exits, deps |-> Top.deps, canRelease |-> Top.canRelease]
    BY <1>2 DEF LoopPlaced
  <2> HIDE DEF one
  <2>2. PICK g : g = withoutNext(Top)
    OBVIOUS
  <2>3. g = [Top EXCEPT !.todo = left]
    BY <2>2 DEF withoutNext
  <2> HIDE DEF left
  <2>4. g = [fn |-> Top.fn, stmt |-> Top.stmt, todo |-> left, seen |-> Top.seen,
             exits |-> Top.exits, deps |-> Top.deps, canRelease |-> Top.canRelease]
    BY <2>1, <2>3
  <2>5. B = [g EXCEPT !.exits = exits]
    <3>1. B = [g EXCEPT !.exits = g.exits \o one]
      BY <2>2 DEF addExit
    <3>2. g.exits = Top.exits
      BY <2>4
    <3> QED
      BY <3>1, <3>2
  <2> HIDE DEF B, exits
  <2> QED
    BY <2>4, <2>5
<1> HIDE DEF B, exits
<1>6. /\ B.fn = Top.fn /\ B.stmt = Top.stmt /\ B.exits = exits
      /\ B = [fn |-> B.fn, stmt |-> B.stmt, todo |-> B.todo, seen |-> B.seen,
              exits |-> B.exits, deps |-> B.deps, canRelease |-> B.canRelease]
  BY <1>5
<1>7. PlacedFrame(P, B, c) /\ Catches(B, c) = c \cup CaughtByLoop
  BY <1>2, <1>4, <1>6, LoopMade DEF LoopPlaced
<1> QED
  BY <1>1, <1>2, <1>3, <1>7, LoopBodyCaught

(* The exits of a body that the loop does not catch are exits of the loop. *)
LEMMA WithExits ==
  ASSUME NEW P, NEW c, Final \subseteq c, NEW f, LoopPlaced(P, f, c), NEW out, Branched(out, c)
  PROVE  LoopPlaced(P, addExit(f, out), c)
<1> DEFINE exits == f.exits \o out
           F == addExit(f, out)
<1>1. Branched(exits, c)
  BY BranchedJoined DEF LoopPlaced
<1>2. f = [fn |-> f.fn, stmt |-> f.stmt, todo |-> f.todo, seen |-> f.seen,
           exits |-> f.exits, deps |-> f.deps, canRelease |-> f.canRelease]
  BY DEF LoopPlaced
<1>3. F = [f EXCEPT !.exits = exits]
  BY DEF addExit
<1> HIDE DEF F, exits
<1>4. F = [fn |-> f.fn, stmt |-> f.stmt, todo |-> f.todo, seen |-> f.seen,
           exits |-> exits, deps |-> f.deps, canRelease |-> f.canRelease]
  BY <1>2, <1>3
<1>5. /\ F.fn = f.fn /\ F.stmt = f.stmt /\ F.exits = exits
      /\ F = [fn |-> F.fn, stmt |-> F.stmt, todo |-> F.todo, seen |-> F.seen,
              exits |-> F.exits, deps |-> F.deps, canRelease |-> F.canRelease]
  BY <1>4
<1>6. LoopPlaced(P, F, c)
  BY <1>1, <1>5, LoopMade DEF LoopPlaced
<1> QED
  BY <1>6 DEF F

(* visitForStmt catches break and continue.                                *)
LEMMA ForBodyCaught == ASSUME NEW P, CatchInv(P), forBodyVisited PROVE CatchInv(P)'
<1>1. stack # <<>> /\ mode = "return" /\ Top.fn = "for"
  BY DEF forBodyVisited, Returned
<1>2. PICK c : /\ TopCaught(P, c) /\ Final \subseteq c /\ LoopPlaced(P, Top, c)
               /\ Branched(ret, c \cup CaughtByLoop)
  BY <1>1, LoopTop
<1> DEFINE next == nextIterations(ret)
           works == [i \in DOMAIN next |-> Work(AfterSimple(next[i].st, Top.stmt.post), Outside)]
           out == endBlocks(realExits(ret))
           F == addExit(Top, out)
<1>3. Iterates(F, works)
  BY DEF forBodyVisited
<1>4. Branched(out, c)
  BY <1>2, RealExitsCaught, EndBlocksBranched
<1> HIDE DEF works, out
<1>5. LoopPlaced(P, F, c)
  BY <1>2, <1>4, WithExits
<1> HIDE DEF F
<1> QED
  BY <1>1, <1>2, <1>3, <1>5, IteratesCaught

(* visitRangeStmt catches break and continue.                              *)
LEMMA RangeBodyCaught == ASSUME NEW P, CatchInv(P), rangeBodyVisited PROVE CatchInv(P)'
<1>1. stack # <<>> /\ mode = "return" /\ Top.fn = "range"
  BY DEF rangeBodyVisited, Returned
<1>2. PICK c : /\ TopCaught(P, c) /\ Final \subseteq c /\ LoopPlaced(P, Top, c)
               /\ Branched(ret, c \cup CaughtByLoop)
  BY <1>1, LoopTop
<1> DEFINE exits == endBlocks(ret)
           next == nextIterations(exits)
           ends == [i \in DOMAIN next |-> Exit(next[i].st, NoBranch)]
           works == [i \in DOMAIN next |-> Work(next[i].st, Outside)]
           out == realExits(exits) \o ends
           F == addExit(Top, out)
<1>3. Iterates(F, works)
  BY DEF rangeBodyVisited
<1>4. Branched(exits, c \cup CaughtByLoop)
  BY <1>2, EndBlocksBranched
<1> HIDE DEF exits
<1>5. Branched(realExits(exits), c)
  BY <1>2, <1>4, RealExitsCaught
<1>6. Branched(ends, c)
  <2>1. Branched(next, c \cup CaughtByLoop)
    <3> DEFINE is == Continuing(exits)
    <3>1. /\ Len(exits) \in Nat /\ DOMAIN exits = 1..Len(exits)
          /\ \A i \in 1..Len(exits) : exits[i].branch \in c \cup CaughtByLoop
      BY <1>4, SequenceTyped DEF Branched, Sequence
    <3>2. is \in SUBSET (1..Len(exits))
      BY <3>1 DEF Continuing
    <3>3. \A i \in is : exits[i].branch \in c \cup CaughtByLoop
      BY <3>1, <3>2
    <3>4. next = Picked(exits, is)
      BY DEF nextIterations
    <3> HIDE DEF is, next
    <3> QED
      BY <3>1, <3>2, <3>3, <3>4, BranchedPicked
  <2> HIDE DEF next
  <2>2. DOMAIN next = 1..Len(next) /\ Len(next) \in Nat
    BY <2>1, SequenceTyped DEF Branched, Sequence
  <2>3. ends = [i \in 1..Len(next) |-> ends[i]]
    BY <2>2
  <2>4. \A i \in 1..Len(next) : ends[i].branch = NoBranch
    BY <2>2 DEF Exit
  <2> HIDE DEF ends
  <2>5. Sequence(ends) /\ Len(ends) = Len(next)
    BY <2>2, <2>3, SequenceMade
  <2> QED
    BY <1>2, <2>4, <2>5 DEF Branched, Final
<1> HIDE DEF ends, works, next
<1>7. Branched(out, c)
  BY <1>5, <1>6, BranchedJoined
<1> HIDE DEF out
<1>8. LoopPlaced(P, F, c)
  BY <1>2, <1>7, WithExits
<1> HIDE DEF F
<1> QED
  BY <1>1, <1>2, <1>3, <1>8, IteratesCaught

(* The loops return their exits.                                           *)
LEMMA LoopEndCaught ==
  ASSUME NEW P, CatchInv(P), forVisited \/ rangeVisited
  PROVE  CatchInv(P)'
<1>1. stack # <<>> /\ Top.fn \in {"for", "range"}
  BY DEF forVisited, rangeVisited, Called
<1>2. PICK c : TopCaught(P, c) /\ LoopPlaced(P, Top, c)
  BY <1>1, LoopTop
<1>3. Branched(Top.exits, c)
  BY <1>2 DEF LoopPlaced
<1>4. CASE forVisited
  BY <1>1, <1>2, <1>3, <1>4, LeaveCaught DEF forVisited
<1>5. CASE rangeVisited
  <2> DEFINE r == IF Top.canRelease THEN released(Top.exits, Top.deps) ELSE Top.exits
  <2>1. Branched(r, c)
    BY <1>3, EndBlocksBranched
  <2>2. LeavesIf(r)
    BY <1>5 DEF rangeVisited
  <2> HIDE DEF r
  <2> QED
    BY <1>1, <1>2, <2>1, <2>2, LeaveCaught
<1> QED
  BY <1>4, <1>5

(* Range statements.                                                       *)
LEMMA RangeCaught ==
  ASSUME NEW P, LegalBranches(P), CatchInv(P), visitRangeStmt
  PROVE  CatchInv(P)'
<1>1. Called("stmt") /\ Top.stmt.kind = "range"
  BY DEF visitRangeStmt, Visiting
<1>2. PICK c : TopCaught(P, c) /\ Final \subseteq c /\ <<Top.stmt, c>> \in P
  BY <1>1, StmtTopPlaced
<1>3. stack # <<>> /\ Top.stmt \in Stmts
  BY <1>1, StmtTopPlaced
<1>4. Top.stmt.body \in Stmts /\ <<Top.stmt.body, c \cup CaughtByLoop>> \in P
  BY <1>1, <1>2, <1>3, StmtInside, StmtParts
<1> DEFINE st == Log(After(Top.st, Top.stmt.x))
           deps == Deps(Top.st, Top.stmt.x)
           ex == <<Exit(Top.st, NoBranch)>>
           A == [Loop("range", Top.stmt, st, ex) EXCEPT !.deps = deps, !.canRelease = TRUE]
<1>5. Panics \/ CallsIf(st, <<A>>)
  BY DEF visitRangeStmt
<1>6. Branched(ex, c)
  BY <1>2, BranchedShort DEF Final
<1> HIDE DEF st, deps, ex
<1>7. /\ A.fn = "range" /\ A.stmt = Top.stmt /\ A.exits = ex
      /\ A = [fn |-> A.fn, stmt |-> A.stmt, todo |-> A.todo, seen |-> A.seen,
              exits |-> A.exits, deps |-> A.deps, canRelease |-> A.canRelease]
  <2> DEFINE one == <<Work(st, Outside)>>
             none == <<>>
  <2>1. PICK l : l = Loop("range", Top.stmt, st, ex)
    OBVIOUS
  <2>2. l = [fn |-> "range", stmt |-> Top.stmt, todo |-> one, seen |-> one,
             exits |-> ex, deps |-> none, canRelease |-> FALSE]
    BY <2>1 DEF Loop
  <2> HIDE DEF one, none
  <2>3. PICK g : g = [l EXCEPT !.deps = deps]
    OBVIOUS
  <2>4. g = [fn |-> "range", stmt |-> Top.stmt, todo |-> one, seen |-> one,
             exits |-> ex, deps |-> deps, canRelease |-> FALSE]
    BY <2>2, <2>3
  <2>5. PICK b : A = [g EXCEPT !.canRelease = b]
    BY <2>1, <2>3
  <2>6. A = [fn |-> "range", stmt |-> Top.stmt, todo |-> one, seen |-> one,
             exits |-> ex, deps |-> deps, canRelease |-> b]
    BY <2>4, <2>5
  <2> HIDE DEF A
  <2> QED
    BY <2>6
<1> HIDE DEF A
<1>8. PlacedFrame(P, A, c)
  <2>1. LoopPlaced(P, A, c)
    BY <1>2, <1>3, <1>4, <1>6, <1>7 DEF LoopPlaced
  <2> QED
    BY <1>2, <2>1, LoopPlacedFrame
<1> QED
  BY <1>2, <1>3, <1>5, <1>8, OneCallCaught, PanicCaught DEF CallsIf

(* Every iteration of a range statement visits its body.                   *)
LEMMA RangeStepCaught == ASSUME NEW P, CatchInv(P), rangeIterates PROVE CatchInv(P)'
<1>1. stack # <<>> /\ Top.fn = "range"
  BY DEF rangeIterates, Called
<1>2. PICK c : TopCaught(P, c) /\ Final \subseteq c /\ LoopPlaced(P, Top, c)
  BY <1>1, LoopTop
<1> DEFINE keyed == Bound(Opened(Log(nextWork(Top).st)), Top.stmt.key,
                         KeyOf(Container(Top.deps)))
           st == Bound(keyed, Top.stmt.value, ElementOf(Container(Top.deps)))
           left == SubSeq(Top.todo, 1, Len(Top.todo) - 1)
           B == [withoutNext(Top) EXCEPT !.canRelease = /\ @ /\ Releasable(keyed, Top.stmt.key)
                                                        /\ Releasable(st, Top.stmt.value)]
<1>3. CallsIf(st, <<Visit(st, Top.stmt.body), B>>)
  BY DEF rangeIterates
<1>4. \E b : B = [fn |-> Top.fn, stmt |-> Top.stmt, todo |-> left, seen |-> Top.seen,
                  exits |-> Top.exits, deps |-> Top.deps, canRelease |-> b]
  <2>1. PICK g : g = withoutNext(Top)
    OBVIOUS
  <2>2. g = [Top EXCEPT !.todo = left]
    BY <2>1 DEF withoutNext
  <2>3. PICK b : B = [g EXCEPT !.canRelease = b]
    BY <2>1
  <2> HIDE DEF B, left
  <2>4. Top = [fn |-> Top.fn, stmt |-> Top.stmt, todo |-> Top.todo, seen |-> Top.seen,
               exits |-> Top.exits, deps |-> Top.deps, canRelease |-> Top.canRelease]
    BY <1>2 DEF LoopPlaced
  <2>5. g = [fn |-> Top.fn, stmt |-> Top.stmt, todo |-> left, seen |-> Top.seen,
             exits |-> Top.exits, deps |-> Top.deps, canRelease |-> Top.canRelease]
    BY <2>2, <2>4
  <2>6. B = [fn |-> Top.fn, stmt |-> Top.stmt, todo |-> left, seen |-> Top.seen,
             exits |-> Top.exits, deps |-> Top.deps, canRelease |-> b]
    BY <2>3, <2>5
  <2> QED
    BY <2>6
<1> HIDE DEF B, st, left
<1>5. /\ B.fn = Top.fn /\ B.stmt = Top.stmt /\ B.exits = Top.exits
      /\ B = [fn |-> B.fn, stmt |-> B.stmt, todo |-> B.todo, seen |-> B.seen,
              exits |-> B.exits, deps |-> B.deps, canRelease |-> B.canRelease]
  BY <1>4
<1>6. PlacedFrame(P, B, c) /\ Catches(B, c) = c \cup CaughtByLoop
  BY <1>2, <1>5, LoopMade DEF LoopPlaced
<1> QED
  BY <1>1, <1>2, <1>3, <1>6, LoopBodyCaught

(* The exits of the body are what the literal has to deal with.            *)
LEMMA BodyCaught == ASSUME NEW P, CatchInv(P), BorrowInv, bodyVisited PROVE CatchInv(P)'
<1>1. /\ stack # <<>> /\ mode = "return" /\ Top.fn = "literal"
      /\ lit' = [lit EXCEPT !.exits = ret, !.visited = TRUE]
      /\ UNCHANGED <<stack, ret, mode>>
  BY DEF bodyVisited, Returned
<1>2. PICK c : /\ PlacedFrame(P, Top, c)
               /\ Branched(ret, Catches(Top, c))
  BY <1>1, TopPlaced
<1>3. c \subseteq Final /\ Catches(Top, c) = c
  BY <1>1, <1>2, PlacedKinds DEF LiteralPlaced, Catches
<1>4. lit'.exits = ret
  <2>1. lit' = [body |-> lit.body, visited |-> TRUE, exits |-> ret,
                deps |-> lit.deps, st |-> lit.st, owned |-> lit.owned]
    BY <1>1 DEF BorrowInv, Literal
  <2> QED
    BY <2>1
<1>5. \A b \in Final : b.tok \in {"none", "return"}
  BY DEF Final, NoBranch, Branch
<1>6. BranchesResolved'
  <2>1. DOMAIN ret = 1..Len(ret) /\ \A i \in 1..Len(ret) : ret[i].branch \in Final
    BY <1>2, <1>3, SequenceTyped DEF Branched
  <2> QED
    BY <1>4, <1>5, <2>1 DEF BranchesResolved
<1>7. Sequence(stack') /\ \E cs : Catching(P, stack', cs) /\ Coming(stack', mode', ret', cs)
  BY <1>1 DEF CatchInv
<1> QED
  BY <1>6, <1>7 DEF CatchInv

(* buildFunction goes through the exits, and keeps them.                   *)
LEMMA CaptureCaught == ASSUME NEW P, CatchInv(P), BorrowInv, captureExit PROVE CatchInv(P)'
<1>1. stack # <<>> /\ mode = "return" /\ ret # <<>>
  BY DEF captureExit, Returned
<1>2. CASE Panics
  BY <1>2, PanicCaught
<1>3. CASE \E st : lit' = capture(lit, st) /\ ret' = Tail(ret) /\ UNCHANGED <<stack, mode>>
  <2>1. PICK st : lit' = capture(lit, st) /\ ret' = Tail(ret) /\ UNCHANGED <<stack, mode>>
    BY <1>3
  <2>2. lit'.exits = lit.exits
    <3>1. lit = [body |-> lit.body, visited |-> lit.visited, exits |-> lit.exits,
                 deps |-> lit.deps, st |-> lit.st, owned |-> lit.owned]
      BY DEF BorrowInv, Literal
    <3>2. PICK d, s, o : lit' = [lit EXCEPT !.deps = d, !.st = s, !.owned = o]
      BY <2>1 DEF capture
    <3>3. lit' = [body |-> lit.body, visited |-> lit.visited, exits |-> lit.exits,
                  deps |-> d, st |-> s, owned |-> o]
      <4>1. PICK g : g = [lit EXCEPT !.deps = d]
        OBVIOUS
      <4>2. g = [body |-> lit.body, visited |-> lit.visited, exits |-> lit.exits,
                 deps |-> d, st |-> lit.st, owned |-> lit.owned]
        BY <3>1, <4>1
      <4>3. PICK h : h = [g EXCEPT !.st = s]
        OBVIOUS
      <4>4. h = [body |-> lit.body, visited |-> lit.visited, exits |-> lit.exits,
                 deps |-> d, st |-> s, owned |-> lit.owned]
        BY <4>2, <4>3
      <4>5. lit' = [h EXCEPT !.owned = o]
        BY <3>2, <4>1, <4>3
      <4> QED
        BY <4>4, <4>5
    <3> QED
      BY <3>3
  <2>3. BranchesResolved'
    BY <2>2 DEF CatchInv, BranchesResolved
  <2>4. PICK cs : Catching(P, stack, cs) /\ Coming(stack, mode, ret, cs)
    BY DEF CatchInv
  <2>5. Branched(ret, Catches(stack[1], cs[1]))
    BY <1>1, <2>4 DEF Coming
  <2>6. Branched(Tail(ret), Catches(stack[1], cs[1]))
    BY <1>1, <2>5, BranchedTail
  <2>7. Catching(P, stack', cs) /\ Coming(stack', mode', ret', cs)
    BY <2>1, <2>4, <2>6 DEF Coming
  <2> QED
    BY <2>1, <2>3, <2>7 DEF CatchInv
<1> QED
  BY <1>2, <1>3 DEF captureExit

(* No call is under way when the literal has been visited.                 *)
LEMMA BuiltCaught == ASSUME NEW P, CatchInv(P), functionBuilt PROVE CatchInv(P)'
<1> DEFINE none == <<>>
<1>1. stack' = none /\ lit' = lit
  BY DEF functionBuilt
<1>2. Sequence(none) /\ Len(none) = 0
  BY ShortSequences
<1>3. Catching(P, none, none) /\ Coming(none, mode', ret', none)
  BY <1>2 DEF Catching, Coming
<1> QED
  BY <1>1, <1>2, <1>3 DEF CatchInv, BranchesResolved

(* Outside of the body nothing is caught but its end and a return.         *)
LEMMA CatchInit == ASSUME NEW P, LegalBranches(P), Init PROVE CatchInv(P)
<1>1. PICK stmts \in Body :
        /\ stack = <<NewList(Entered, stmts, FALSE), [fn |-> "literal"]>>
        /\ lit = [body |-> stmts, visited |-> FALSE, exits |-> <<>>,
                  deps |-> <<>>, st |-> orig, owned |-> TRUE]
  BY DEF Init
<1>2. stmts \in Seq(Stmts) /\ InList(stmts, FALSE, Final) \subseteq P
  BY StmtsAssumption DEF LegalBranches
<1> DEFINE A == NewList(Entered, stmts, FALSE)
           B == [fn |-> "literal"]
           c == Final
           cs == <<c, c>>
<1>3. PlacedFrame(P, A, c)
  BY <1>2, NewListPlaced
<1>4. PlacedFrame(P, B, c) /\ Catches(B, c) = c
  BY DEF PlacedFrame, LiteralPlaced, Catches
<1>5. stack = <<A, B>>
  BY <1>1
<1> HIDE DEF A, B, c
<1>6. /\ Sequence(stack) /\ Len(stack) = 2 /\ stack[1] = A /\ stack[2] = B
      /\ Sequence(cs) /\ Len(cs) = 2 /\ cs[1] = c /\ cs[2] = c
  BY <1>5, ShortSequences
<1> HIDE DEF cs
<1>7. Catching(P, stack, cs)
  <2>1. \A i \in 1..2 : i = 1 \/ i = 2
    OBVIOUS
  <2>2. \A i \in 1..2 : i + 1 \in 1..2 => i = 1 /\ i + 1 = 2
    OBVIOUS
  <2>3. \A i \in 1..2 : PlacedFrame(P, stack[i], cs[i])
    BY <1>3, <1>4, <1>6, <2>1
  <2>4. ASSUME NEW i \in 1..2, i + 1 \in 1..2
        PROVE  Catches(stack[i + 1], cs[i + 1]) = cs[i]
    <3>1. i = 1 /\ i + 1 = 2
      BY <2>2, <2>4
    <3> QED
      BY <1>4, <1>6, <3>1
  <2> QED
    BY <1>6, <2>3, <2>4 DEF Catching
<1>8. Coming(stack, mode, ret, cs)
  BY DEF Coming, Init
<1>9. BranchesResolved
  BY <1>1 DEF BranchesResolved
<1> QED
  BY <1>6, <1>7, <1>8, <1>9 DEF CatchInv

(* No step leaves the invariant.                                           *)
LEMMA CatchStep ==
  ASSUME NEW P, LegalBranches(P), CatchInv(P), BorrowInv, [Next]_vars
  PROVE  CatchInv(P)'
<1>1. CASE UNCHANGED vars
  BY <1>1 DEF vars, CatchInv, BranchesResolved
<1>2. CASE Next
  BY <1>2, SimpleCaught, BranchCaught, LabeledCaught, BlockCaught, SelectCaught, SwitchCaught,
     BlockEndCaught, CommCaught, IfCaught, ThenCaught, ElseCaught, CaseCaught,
     AlternativeCaught, CaseBodyCaught, ItemCaught, ReturnedCaught, ListCaught,
     ForCaught, ForStepCaught, ForBodyCaught, RangeBodyCaught, LoopEndCaught,
     RangeCaught, RangeStepCaught, BodyCaught, CaptureCaught, BuiltCaught
  DEF Next
<1> QED
  BY <1>1, <1>2

(* If every branch statement is inside of a statement that it may leave or *)
(* go to (which Go asks; left out are the labelled break and continue, and *)
(* goto to a second label, which nothing catches), then no break,          *)
(* continue, goto or fallthrough leaves the body of a function literal:    *)
(* the lists, switches and loops it passes on its way out of the visit     *)
(* catch all of them.                                                      *)
THEOREM EarlyExitsResolved == ASSUME NEW P, LegalBranches(P) PROVE Spec => []BranchesResolved
<1>1. Init => CatchInv(P) /\ BorrowInv
  BY CatchInit, BorrowInit
<1>2. CatchInv(P) /\ BorrowInv /\ [Next]_vars => (CatchInv(P) /\ BorrowInv)'
  BY CatchStep, BorrowStep
<1>3. CatchInv(P) /\ BorrowInv => BranchesResolved
  BY DEF CatchInv
<1> QED
  BY <1>1, <1>2, <1>3, PTL DEF Spec
=============================================================================
