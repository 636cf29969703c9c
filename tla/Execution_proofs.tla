--------------------------- MODULE Execution_proofs ----------------------------
(***************************************************************************)
(* Every path of a run of a function literal's body has been foreseen by   *)
(* the visit of the body, and does nothing that the visit has not allowed. *)
(*                                                                         *)
(* What a visit must answer is defined here apart from the order in which  *)
(* it works, as a set of triples: a statement (or list of statements), a   *)
(* store, and a set of exits.  A triple may be in the set if the statement *)
(* itself, or the triples for the statements inside it, give the exits;    *)
(* for a loop or a list with jumps the triples are justified by each       *)
(* other. Foretold is the union of all sets of triples that justify        *)
(* themselves. The counts of uses in a store are left out: the work list   *)
(* leaves them out when it compares stores (Store.Equal), so what has been *)
(* visited for one path may have been visited in another store than that   *)
(* of the path, one that differs in the counts.                            *)
(*                                                                         *)
(* The proof has two invariants.  VisitInv says that every call under way  *)
(* owes an answer: from the exits and works that it has found, whatever is *)
(* foretold of the calls it still has to make, comes an answer to what it  *)
(* was called for.  RunInv says that the path of a run is at one of the    *)
(* ways in which what it has still to do leads to the exits of the body.   *)
(***************************************************************************)
EXTENDS Execution, Statements_proofs

--------------------------------------------------------------------------------
(* Stores that differ in the counts of uses only.                          *)

(* Stores, or failure; and two of them that differ in counts of uses only. *)
Any == Store \cup {Broken}

Alike(s, t) == /\ s \in Any /\ t \in Any
               /\ s = Broken <=> t = Broken
               /\ s # Broken => Equal(s, t)

(* A store is a sequence of entries, records of four fields.               *)
LEMMA StoreEntries ==
  ASSUME NEW st \in Store
  PROVE  /\ Len(st) \in Nat /\ DOMAIN st = 1..Len(st) /\ st = [i \in 1..Len(st) |-> st[i]]
         /\ \A i \in 1..Len(st) : /\ st[i] \in Entry
                                  /\ st[i] = [name |-> st[i].name, eff |-> st[i].eff,
                                              max |-> st[i].max, uses |-> st[i].uses]
                                  /\ st[i].uses \in Nat
BY EntryFields DEF Store

(* Equal stores (store.go) have the same variables and permissions; how    *)
(* often a variable was used is left out.                                  *)
LEMMA EqualStores ==
  ASSUME NEW s \in Store, NEW t \in Store
  PROVE  Equal(s, t) <=> /\ Len(s) = Len(t)
                         /\ \A i \in 1..Len(s) : /\ s[i].name = t[i].name
                                                 /\ s[i].eff = t[i].eff
                                                 /\ s[i].max = t[i].max
BY StoreEntries DEF Equal

(* Being alike is being Equal, for stores.                                 *)
LEMMA AlikeStores ==
  ASSUME NEW s \in Store, NEW t \in Store
  PROVE  /\ s \in Any /\ s # Broken
         /\ Alike(s, t) <=> Equal(s, t)
BY BrokenIsNone DEF Alike, Any

(* Being alike is an equivalence.                                          *)
LEMMA AlikeRelation ==
  /\ \A s \in Any : Alike(s, s)
  /\ \A s, t : Alike(s, t) => Alike(t, s)
  /\ \A s, t, u : Alike(s, t) /\ Alike(t, u) => Alike(s, u)
  /\ Alike(Broken, Broken)
<1>1. \A s \in Store : Equal(s, s)
  BY EqualStores
<1>2. \A s, t \in Store : Equal(s, t) => Equal(t, s)
  BY EqualStores
<1>3. \A s, t, u \in Store : Equal(s, t) /\ Equal(t, u) => Equal(s, u)
  <2> SUFFICES ASSUME NEW s \in Store, NEW t \in Store, NEW u \in Store, Equal(s, t), Equal(t, u)
               PROVE  Equal(s, u)
    OBVIOUS
  <2>1. Len(s) = Len(t) /\ Len(t) = Len(u)
    BY EqualStores
  <2>2. \A i \in 1..Len(s) : s[i].name = t[i].name /\ s[i].eff = t[i].eff /\ s[i].max = t[i].max
    BY EqualStores
  <2>3. \A i \in 1..Len(s) : t[i].name = u[i].name /\ t[i].eff = u[i].eff /\ t[i].max = u[i].max
    BY <2>1, EqualStores
  <2> QED
    BY <2>1, <2>2, <2>3, EqualStores
<1> QED
  BY <1>1, <1>2, <1>3 DEF Alike, Any

(* Without counts of uses a store is still a store, and Equal.             *)
LEMMA UnusedFacts ==
  ASSUME NEW st \in Store
  PROVE  Unused(st) \in Store /\ Equal(st, Unused(st)) /\ Bare(st) \in Store /\ Equal(st, Bare(st))
<1>1. ASSUME NEW c \in Entry, NEW k \in Nat
      PROVE  /\ [c EXCEPT !.uses = k] \in Entry
             /\ [c EXCEPT !.uses = k].name = c.name
             /\ [c EXCEPT !.uses = k].eff = c.eff
             /\ [c EXCEPT !.uses = k].max = c.max
  BY DEF Entry
<1>2. \A i \in 1..Len(st) : st[i] \in Entry /\ (IF st[i].uses > 0 THEN 1 ELSE 0) \in Nat
  BY StoreEntries
<1>3. \A i \in 1..Len(st) : Unused(st)[i] = [st[i] EXCEPT !.uses = 0]
  BY StoreEntries DEF Unused
<1>4. \A i \in 1..Len(st) :
        Bare(st)[i] = [st[i] EXCEPT !.uses = IF st[i].uses > 0 THEN 1 ELSE 0]
  BY StoreEntries DEF Bare
<1>5. DOMAIN Unused(st) = 1..Len(st) /\ Unused(st) = [i \in 1..Len(st) |-> Unused(st)[i]]
  BY StoreEntries DEF Unused
<1>6. DOMAIN Bare(st) = 1..Len(st) /\ Bare(st) = [i \in 1..Len(st) |-> Bare(st)[i]]
  BY StoreEntries DEF Bare
<1>7. Len(st) \in Nat
  BY StoreEntries
<1>8. \A i \in 1..Len(st) : /\ Unused(st)[i] \in Entry
                            /\ Unused(st)[i].name = st[i].name
                            /\ Unused(st)[i].eff = st[i].eff
                            /\ Unused(st)[i].max = st[i].max
  <2> SUFFICES ASSUME NEW i \in 1..Len(st)
               PROVE  /\ Unused(st)[i] \in Entry
                      /\ Unused(st)[i].name = st[i].name
                      /\ Unused(st)[i].eff = st[i].eff
                      /\ Unused(st)[i].max = st[i].max
    OBVIOUS
  <2> DEFINE c == st[i]
             k == 0
  <2>1. c \in Entry /\ k \in Nat
    BY <1>2
  <2>2. Unused(st)[i] = [c EXCEPT !.uses = k]
    BY <1>3
  <2> HIDE DEF c, k
  <2> QED
    BY <1>1, <2>1, <2>2 DEF c
<1>9. \A i \in 1..Len(st) : /\ Bare(st)[i] \in Entry
                            /\ Bare(st)[i].name = st[i].name
                            /\ Bare(st)[i].eff = st[i].eff
                            /\ Bare(st)[i].max = st[i].max
  <2> SUFFICES ASSUME NEW i \in 1..Len(st)
               PROVE  /\ Bare(st)[i] \in Entry
                      /\ Bare(st)[i].name = st[i].name
                      /\ Bare(st)[i].eff = st[i].eff
                      /\ Bare(st)[i].max = st[i].max
    OBVIOUS
  <2> DEFINE c == st[i]
             k == IF c.uses > 0 THEN 1 ELSE 0
  <2>1. c \in Entry /\ k \in Nat
    BY <1>2
  <2>2. Bare(st)[i] = [c EXCEPT !.uses = k]
    BY <1>4
  <2> HIDE DEF c, k
  <2> QED
    BY <1>1, <2>1, <2>2 DEF c
<1>10. Unused(st) \in Store /\ Len(Unused(st)) = Len(st)
  BY <1>5, <1>7, <1>8 DEF Store
<1>11. Bare(st) \in Store /\ Len(Bare(st)) = Len(st)
  BY <1>6, <1>7, <1>9 DEF Store
<1> QED
  BY <1>8, <1>9, <1>10, <1>11, EqualStores

(* Equal stores are the same store, without the counts.                    *)
LEMMA UnusedSame ==
  ASSUME NEW s \in Store, NEW t \in Store
  PROVE  Equal(s, t) <=> Unused(s) = Unused(t)
<1>1. ASSUME Unused(s) = Unused(t)
      PROVE  Equal(s, t)
  <2>1. Equal(s, Unused(s)) /\ Equal(t, Unused(s)) /\ Unused(s) \in Store
    BY <1>1, UnusedFacts
  <2> HIDE DEF Unused
  <2> QED
    BY <2>1, AlikeRelation, AlikeStores
<1>2. ASSUME Equal(s, t)
      PROVE  Unused(s) = Unused(t)
  <2>1. Len(s) = Len(t) /\ DOMAIN s = 1..Len(s) /\ DOMAIN t = 1..Len(s)
    BY <1>2, EqualStores, StoreEntries
  <2>2. ASSUME NEW i \in 1..Len(s)
        PROVE  [s[i] EXCEPT !.uses = 0] = [t[i] EXCEPT !.uses = 0]
    <3>1. s[i].name = t[i].name /\ s[i].eff = t[i].eff /\ s[i].max = t[i].max
      BY <1>2, EqualStores
    <3>2. s[i] \in Entry /\ t[i] \in Entry
      BY <2>1, StoreEntries
    <3> QED
      BY <3>1, <3>2 DEF Entry
  <2> QED
    BY <2>1, <2>2 DEF Unused
<1> QED
  BY <1>1, <1>2

(* What is looked up in Equal stores is the same.                          *)
LEMMA EqualLooks ==
  ASSUME NEW s \in Store, NEW t \in Store, Equal(s, t), NEW n
  PROVE  /\ Has(s, n) <=> Has(t, n)
         /\ Has(s, n) => IndexOf(s, n) = IndexOf(t, n)
         /\ Effective(s, n) = Effective(t, n) /\ Maximum(s, n) = Maximum(t, n)
         /\ InBlock(s, n) <=> InBlock(t, n)
         /\ CanRead(s, n) <=> CanRead(t, n)
         /\ Deps(s, n) = Deps(t, n)
<1>1. /\ Len(s) = Len(t) /\ Len(s) \in Nat /\ DOMAIN s = 1..Len(s) /\ DOMAIN t = 1..Len(s)
      /\ \A i \in 1..Len(s) : s[i].name = t[i].name /\ s[i].eff = t[i].eff /\ s[i].max = t[i].max
  BY EqualStores, StoreEntries
<1>2. Has(s, n) <=> Has(t, n)
  BY <1>1 DEF Has
<1>3. \A i \in 1..Len(s) : \A j \in 1..(i - 1) : j \in 1..Len(s)
  BY <1>1
<1>4. \A i : First(s, n, i) <=> First(t, n, i)
  BY <1>1, <1>3 DEF First
<1>5. IndexOf(s, n) = IndexOf(t, n)
  BY <1>1, <1>4 DEF IndexOf
<1>6. Has(s, n) => IndexOf(s, n) \in 1..Len(s)
  BY IndexFirst
<1>7. Effective(s, n) = Effective(t, n) /\ Maximum(s, n) = Maximum(t, n)
  BY <1>1, <1>2, <1>5, <1>6 DEF Effective, Maximum
<1>8. ASSUME NEW i \in 1..Len(s)
      PROVE  (\A j \in 1..(i - 1) : s[j].name # Unnamed)
               <=> (\A j \in 1..(i - 1) : t[j].name # Unnamed)
  BY <1>1, <1>3
<1>9. InBlock(s, n) <=> InBlock(t, n)
  BY <1>1, <1>4, <1>8 DEF InBlock
<1>10. CanRead(s, n) <=> CanRead(t, n)
  BY <1>7 DEF CanRead
<1>11. Deps(s, n) = Deps(t, n)
  BY <1>7 DEF Deps, Borrowed
<1> QED
  BY <1>2, <1>5, <1>7, <1>9, <1>10, <1>11

(* SetEffective changes the effective permission of one variable, if the   *)
(* variable has a maximum that lets it.                                    *)
LEMMA SetFields ==
  ASSUME NEW st \in Store, NEW n, NEW p \in Permission
  PROVE  /\ WithEffective(st, n, p) = Broken <=>
              ~Has(st, n) \/ Meet(Maximum(st, n), p) \in {Err, NoPerm}
         /\ WithEffective(st, n, p) # Broken =>
              LET t == WithEffective(st, n, p)
                  i == IndexOf(st, n)
              IN  /\ t \in Store /\ Len(t) = Len(st) /\ i \in 1..Len(st) /\ st[i].name = n
                  /\ n # Unnamed /\ st[i].max \in Permission /\ Has(st, n)
                  /\ t[i].eff = Intersect(st[i].max, p)
                  /\ \A j \in 1..Len(st) : /\ t[j].name = st[j].name
                                           /\ t[j].max = st[j].max
                                           /\ j # i => t[j].eff = st[j].eff
<1> DEFINE i == IndexOf(st, n)
           eff == Meet(Maximum(st, n), p)
           t == WithEffective(st, n, p)
<1>1. t = IF ~Has(st, n) THEN Broken ELSE Limited(st, i, eff)
  BY BrokenIsNone DEF WithEffective, Only
<1>2. t \in Like(st) \cup {Broken}
  BY SetLike
<1>3. ASSUME Has(st, n), eff \notin {Err, NoPerm}
      PROVE  /\ t # Broken /\ i \in 1..Len(st) /\ st[i].name = n /\ n # Unnamed
             /\ st[i].max \in Permission /\ eff = Intersect(st[i].max, p)
             /\ t = [st EXCEPT ![i] = Restricted(st[i], eff, st[i].max)]
  <2>1. i \in 1..Len(st) /\ st[i].name = n /\ st[i] \in Entry
    BY <1>3, IndexFirst DEF First, Store
  <2>2. Maximum(st, n) = st[i].max
    BY <1>3 DEF Maximum
  <2>3. st[i].max # NoPerm
    BY <1>3, <2>2 DEF Meet
  <2>4. n # Unnamed /\ st[i].max \in Permission
    BY <2>1, <2>3, EntryFields
  <2>5. eff = Intersect(st[i].max, p)
    BY <2>2, <2>3 DEF Meet
  <2> HIDE DEF i, eff
  <2>6. Limited(st, i, eff) = [st EXCEPT ![i] = Restricted(st[i], eff, st[i].max)]
    BY <1>3, <2>1 DEF Limited, Store
  <2>7. [st EXCEPT ![i] = Restricted(st[i], eff, st[i].max)][i].eff = eff
    BY <2>1, StoreEntries DEF Restricted
  <2>8. Broken[1].eff = Err /\ Len(Broken) = 1
    BY DEF Broken, Marker
  <2>9. t = [st EXCEPT ![i] = Restricted(st[i], eff, st[i].max)]
    BY <1>1, <1>3, <2>6
  <2>10. ASSUME t = Broken
         PROVE  FALSE
    <3>1. Len(st) = 1
      <4>1. Len([st EXCEPT ![i] = Restricted(st[i], eff, st[i].max)]) = Len(st)
        BY DEF Store
      <4> QED
        BY <4>1, <2>8, <2>9, <2>10
    <3>2. i = 1
      BY <2>1, <3>1
    <3> QED
      BY <1>3, <2>7, <2>8, <2>9, <2>10, <3>2
  <2> QED
    BY <2>1, <2>4, <2>5, <2>9, <2>10
<1>4. ~Has(st, n) \/ eff \in {Err, NoPerm} => t = Broken
  BY <1>1 DEF Limited
<1>5. ASSUME t # Broken
      PROVE  /\ t \in Store /\ Len(t) = Len(st)
             /\ \A j \in 1..Len(st) : t[j].name = st[j].name
  BY <1>2, <1>5 DEF Like
<1>6. ASSUME t # Broken
      PROVE  /\ t[i].eff = Intersect(st[i].max, p)
             /\ \A j \in 1..Len(st) : t[j].max = st[j].max /\ (j # i => t[j].eff = st[j].eff)
  <2>0. Has(st, n) /\ eff \notin {Err, NoPerm}
    BY <1>4, <1>6
  <2>1. i \in 1..Len(st) /\ t = [st EXCEPT ![i] = Restricted(st[i], eff, st[i].max)]
        /\ eff = Intersect(st[i].max, p)
    BY <1>3, <2>0
  <2> HIDE DEF t, i, eff
  <2>2. t[i] = Restricted(st[i], eff, st[i].max) /\ \A j \in 1..Len(st) : j # i => t[j] = st[j]
    BY <2>1, StoreEntries
  <2>3. t[i].eff = eff /\ t[i].max = st[i].max
    BY <2>2 DEF Restricted
  <2> QED
    BY <2>1, <2>2, <2>3
<1> HIDE DEF t, i, eff
<1>7. t = Broken <=> ~Has(st, n) \/ eff \in {Err, NoPerm}
  BY <1>3, <1>4
<1> QED
  BY <1>3, <1>5, <1>6, <1>7 DEF t, i, eff

(* SetEffective, of alike stores, fails for both of them or leaves them    *)
(* alike; and so do the operations below.                                  *)
LEMMA AlikeSet ==
  ASSUME NEW s, NEW t, Alike(s, t), NEW n, NEW p \in Permission
  PROVE  Alike(WithEffective(s, n, p), WithEffective(t, n, p))
<1>1. CASE s = Broken
  BY <1>1, BrokenStays, AlikeRelation DEF Alike
<1>2. CASE s # Broken
  <2>1. s \in Store /\ t \in Store /\ Equal(s, t)
    BY <1>2 DEF Alike, Any
  <2> DEFINE u == WithEffective(s, n, p)
             v == WithEffective(t, n, p)
  <2>2. u = Broken <=> v = Broken
    BY <2>1, SetFields, EqualLooks
  <2>3. ASSUME u # Broken
        PROVE  u \in Store /\ v \in Store /\ Equal(u, v)
    <3> DEFINE i == IndexOf(s, n)
    <3>1. /\ u \in Store /\ Len(u) = Len(s) /\ i \in 1..Len(s) /\ Has(s, n)
          /\ u[i].eff = Intersect(s[i].max, p)
          /\ \A j \in 1..Len(s) : /\ u[j].name = s[j].name /\ u[j].max = s[j].max
                                  /\ j # i => u[j].eff = s[j].eff
      BY <2>1, <2>3, SetFields
    <3>2. i = IndexOf(t, n)
      BY <2>1, <3>1, EqualLooks
    <3>3. /\ v \in Store /\ Len(v) = Len(t)
          /\ v[i].eff = Intersect(t[i].max, p)
          /\ \A j \in 1..Len(t) : /\ v[j].name = t[j].name /\ v[j].max = t[j].max
                                  /\ j # i => v[j].eff = t[j].eff
      BY <2>1, <2>2, <2>3, <3>2, SetFields
    <3>4. /\ Len(s) = Len(t)
          /\ \A j \in 1..Len(s) :
               s[j].name = t[j].name /\ s[j].eff = t[j].eff /\ s[j].max = t[j].max
      BY <2>1, EqualStores
    <3> HIDE DEF u, v, i
    <3>5. \A j \in 1..Len(u) : u[j].name = v[j].name /\ u[j].eff = v[j].eff /\ u[j].max = v[j].max
      BY <3>1, <3>3, <3>4
    <3> QED
      BY <3>1, <3>3, <3>4, <3>5, EqualStores
  <2> HIDE DEF u, v
  <2>4. Alike(u, v)
    BY <2>2, <2>3 DEF Alike, Any
  <2> QED
    BY <2>4 DEF u, v
<1> QED
  BY <1>1, <1>2

(* A new entry in front.                                                   *)
LEMMA EqualAppended ==
  ASSUME NEW s \in Store, NEW t \in Store, Equal(s, t), NEW c \in Entry, NEW e \in Entry,
         c.name = e.name, c.eff = e.eff, c.max = e.max
  PROVE  Alike(<<c>> \o s, <<e>> \o t)
<1> DEFINE u == <<c>> \o s
           v == <<e>> \o t
<1>1. u \in Store /\ v \in Store
  BY DEF Store
<1>2. /\ Len(u) = Len(s) + 1 /\ Len(v) = Len(t) + 1 /\ Len(s) = Len(t) /\ Len(s) \in Nat
      /\ u[1] = c /\ v[1] = e
      /\ \A i \in 1..(Len(s) + 1) :
           i # 1 => u[i] = s[i - 1] /\ v[i] = t[i - 1] /\ i - 1 \in 1..Len(s)
  BY EqualStores, StoreEntries DEF Store
<1>3. \A i \in 1..Len(s) : s[i].name = t[i].name /\ s[i].eff = t[i].eff /\ s[i].max = t[i].max
  BY EqualStores
<1> HIDE DEF u, v
<1>4. \A i \in 1..Len(u) : u[i].name = v[i].name /\ u[i].eff = v[i].eff /\ u[i].max = v[i].max
  BY <1>2, <1>3
<1>5. Equal(u, v)
  BY <1>1, <1>2, <1>4, EqualStores
<1>6. Alike(u, v)
  BY <1>1, <1>5, AlikeStores
<1> QED
  BY <1>6 DEF u, v

(* Define.                                                                 *)
LEMMA AlikeDefine ==
  ASSUME NEW s, NEW t, Alike(s, t), NEW n \in Name, NEW p \in Permission
  PROVE  Alike(WithVariable(s, n, p), WithVariable(t, n, p))
<1>1. CASE s = Broken
  BY <1>1, BrokenStays, AlikeRelation DEF Alike
<1>2. CASE s # Broken
  <2>1. s \in Store /\ t \in Store /\ Equal(s, t) /\ t # Broken
    BY <1>2 DEF Alike, Any
  <2>2. InBlock(s, n) <=> InBlock(t, n)
    BY <2>1, EqualLooks
  <2>3. CASE InBlock(s, n)
    BY <1>2, <2>1, <2>2, <2>3, AlikeSet DEF WithVariable
  <2>4. CASE ~InBlock(s, n)
    <3>1. n # Unnamed
      BY UnnamedAssumption
    <3>2. NewCell(n, p) \in Entry
      BY <3>1, EntryMade, IntersectAssumption DEF NewCell, Leq
    <3>3. Alike(<<NewCell(n, p)>> \o s, <<NewCell(n, p)>> \o t)
      BY <2>1, <3>2, EqualAppended
    <3> QED
      BY <1>2, <2>1, <2>2, <2>4, <3>3 DEF WithVariable
  <2> QED
    BY <2>3, <2>4
<1> QED
  BY <1>1, <1>2

(* BeginBlock.                                                             *)
LEMMA AlikeOpened ==
  ASSUME NEW s, NEW t, Alike(s, t)
  PROVE  /\ Alike(Opened(s), Opened(t))
         /\ s # Broken => Opened(s) # Broken
<1>1. CASE s = Broken
  BY <1>1, BrokenStays, AlikeRelation DEF Alike
<1>2. CASE s # Broken
  <2>1. s \in Store /\ t \in Store /\ Equal(s, t) /\ t # Broken
    BY <1>2 DEF Alike, Any
  <2>2. Alike(<<Marker>> \o s, <<Marker>> \o t)
    BY <2>1, MarkerEntry, EqualAppended
  <2>3. <<Marker>> \o s \in Store
    BY <2>1, MarkerEntry DEF Store
  <2> QED
    BY <1>2, <2>1, <2>2, <2>3, BrokenIsNone DEF Opened
<1> QED
  BY <1>1, <1>2

(* EndBlock leaves what is behind the innermost marker.                    *)
LEMMA ClosedFields ==
  ASSUME NEW s \in Store, Has(s, Unnamed)
  PROVE  LET k == IndexOf(s, Unnamed)
         IN  /\ Closed(s) \in Store /\ Closed(s) = SubSeq(s, k + 1, Len(s)) /\ Closed(s) # Broken
             /\ k \in 1..Len(s) /\ Len(Closed(s)) = Len(s) - k
             /\ \A i \in 1..(Len(s) - k) : Closed(s)[i] = s[i + k] /\ i + k \in 1..Len(s)
<1> DEFINE k == IndexOf(s, Unnamed)
           n == Len(s)
           c == SubSeq(s, k + 1, n)
<1>1. k \in 1..n /\ n \in Nat
  BY IndexFirst, StoreEntries
<1>2. Closed(s) = c
  BY BrokenIsNone DEF Closed
<1>3. c \in Seq(Entry) /\ Len(c) = n - k /\ \A i \in 1..(n - k) : c[i] = s[i + k]
  <2> HIDE DEF k
  <2>1. \A i \in (k + 1)..n : s[i] \in Entry
    <3>1. \A i \in (k + 1)..n : i \in 1..n
      <4> HIDE DEF n
      <4> QED
        BY <1>1
    <3> QED
      BY <3>1, StoreEntries
  <2>2. Len(c) = n - k /\ \A i \in 1..(n - k) : c[i] = s[i + k]
    BY <1>1, StoreEntries DEF Store
  <2>3. c \in Seq(Entry)
    BY <1>1, <2>1 DEF Store
  <2> QED
    BY <2>2, <2>3
<1>4. \A i \in 1..(n - k) : i + k \in 1..n
  BY <1>1
<1>5. c \in Store /\ c # Broken
  BY <1>3, BrokenIsNone DEF Store
<1> HIDE DEF k, c
<1> QED
  BY <1>1, <1>2, <1>3, <1>4, <1>5 DEF k, c

(* EndBlock.                                                               *)
LEMMA AlikeClosed ==
  ASSUME NEW s, NEW t, Alike(s, t)
  PROVE  /\ Alike(Closed(s), Closed(t))
         /\ s # Broken => (Closed(s) = Broken <=> ~Has(s, Unnamed))
<1>1. CASE s = Broken
  BY <1>1, BrokenStays, AlikeRelation DEF Alike
<1>2. CASE s # Broken
  <2>1. s \in Store /\ t \in Store /\ Equal(s, t) /\ t # Broken
    BY <1>2 DEF Alike, Any
  <2>2. Has(s, Unnamed) <=> Has(t, Unnamed)
    BY <2>1, EqualLooks
  <2>3. CASE ~Has(s, Unnamed)
    BY <2>2, <2>3, AlikeRelation DEF Closed
  <2>4. CASE Has(s, Unnamed)
    <3> DEFINE k == IndexOf(s, Unnamed)
               u == Closed(s)
               v == Closed(t)
    <3>1. /\ u \in Store /\ u # Broken /\ k \in 1..Len(s) /\ Len(u) = Len(s) - k
          /\ \A i \in 1..(Len(s) - k) : u[i] = s[i + k] /\ i + k \in 1..Len(s)
      BY <2>1, <2>4, ClosedFields
    <3>2. k = IndexOf(t, Unnamed)
      BY <2>1, <2>4, EqualLooks
    <3>3. /\ v \in Store /\ v # Broken /\ Len(v) = Len(t) - k
          /\ \A i \in 1..(Len(t) - k) : v[i] = t[i + k]
      BY <2>1, <2>2, <2>4, <3>2, ClosedFields
    <3>4. /\ Len(s) = Len(t)
          /\ \A j \in 1..Len(s) :
               s[j].name = t[j].name /\ s[j].eff = t[j].eff /\ s[j].max = t[j].max
      BY <2>1, EqualStores
    <3> HIDE DEF u, v, k
    <3>5. \A i \in 1..Len(u) : u[i].name = v[i].name /\ u[i].eff = v[i].eff /\ u[i].max = v[i].max
      BY <3>1, <3>3, <3>4
    <3>6. Equal(u, v)
      BY <3>1, <3>3, <3>4, <3>5, EqualStores
    <3> QED
      BY <2>4, <3>1, <3>3, <3>6, AlikeStores DEF u, v
  <2> QED
    BY <2>3, <2>4
<1> QED
  BY <1>1, <1>2

(* Release, of nothing and of one loan.                                    *)
LEMMA ReleaseShort ==
  ASSUME NEW st
  PROVE  /\ Release(st, <<>>) = st
         /\ \A l : Release(st, <<l>>) = WithEffective(st, l.name, l.perm)
<1>1. Release(st, <<>>) = st
  <2> DEFINE deps == <<>>
             Solves(f) == f = [i \in 0..Len(deps) |->
                                 IF i = 0 THEN st
                                 ELSE WithEffective(f[i - 1], deps[i].name, deps[i].perm)]
             after == CHOOSE f : Solves(f)
             f0 == [i \in 0..0 |-> st]
  <2>1. Len(deps) = 0
    OBVIOUS
  <2>2. Solves(f0)
    BY <2>1
  <2>3. Solves(after)
    BY <2>2
  <2>4. Release(st, deps) = after[0]
    BY <2>1 DEF Release
  <2> HIDE DEF after
  <2> QED
    BY <2>1, <2>3, <2>4
<1>2. ASSUME NEW l
      PROVE  Release(st, <<l>>) = WithEffective(st, l.name, l.perm)
  <2> DEFINE deps == <<l>>
             Solves(f) == f = [i \in 0..Len(deps) |->
                                 IF i = 0 THEN st
                                 ELSE WithEffective(f[i - 1], deps[i].name, deps[i].perm)]
             after == CHOOSE f : Solves(f)
             f0 == [i \in 0..1 |-> IF i = 0 THEN st ELSE WithEffective(st, l.name, l.perm)]
  <2>1. Len(deps) = 1 /\ deps[1] = l
    OBVIOUS
  <2>2. Solves(f0)
    <3>1. \A i \in 0..1 : i # 0 => i = 1 /\ i - 1 = 0
      OBVIOUS
    <3>2. \A i \in 0..1 : f0[i] = IF i = 0 THEN st
                                 ELSE WithEffective(f0[i - 1], deps[i].name, deps[i].perm)
      BY <2>1, <3>1
    <3> QED
      BY <2>1, <3>2
  <2>3. Solves(after)
    BY <2>2
  <2>4. Release(st, deps) = after[1]
    BY <2>1 DEF Release
  <2> HIDE DEF after, deps
  <2>5. \A i \in 0..1 : after[i] = IF i = 0 THEN st
                                   ELSE WithEffective(after[i - 1], deps[i].name, deps[i].perm)
    BY <2>1, <2>3
  <2>6. after[0] = st
    BY <2>5
  <2>7. after[1] = WithEffective(after[1 - 1], deps[1].name, deps[1].perm)
    BY <2>5
  <2> QED
    BY <2>1, <2>4, <2>6, <2>7 DEF deps
<1> QED
  BY <1>1, <1>2

(* What can have been borrowed by one identifier.                          *)
Short == {<<>>} \cup {<<l>> : l \in Loan}

(* A use that is counted is not seen.                                      *)
LEMMA UsedSame ==
  ASSUME NEW st \in Store, NEW i \in 1..Len(st)
  PROVE  LET u == [st EXCEPT ![i] = Used(@)] IN u \in Store /\ Equal(st, u)
<1> DEFINE u == [st EXCEPT ![i] = Used(@)]
<1>1. u \in Store /\ Len(u) = Len(st)
  BY UsedLike DEF Like
<1>2. \A j \in 1..Len(st) : u[j] = IF j = i THEN Used(st[i]) ELSE st[j]
  BY StoreEntries
<1>3. LET c == Used(st[i]) IN c.name = st[i].name /\ c.eff = st[i].eff /\ c.max = st[i].max
  BY StoreEntries DEF Used
<1> HIDE DEF u
<1>4. \A j \in 1..Len(st) : st[j].name = u[j].name /\ st[j].eff = u[j].eff /\ st[j].max = u[j].max
  BY <1>2, <1>3
<1>5. Equal(st, u)
  BY <1>1, <1>4, EqualStores
<1> QED
  BY <1>1, <1>5 DEF u

(* A log statement only counts a use.                                      *)
LEMMA LogAlike ==
  ASSUME NEW st \in Store
  PROVE  Log(st) \in Store /\ Equal(st, Log(st))
<1>1. CASE Has(st, Logged)
  <2>1. IndexOf(st, Logged) \in 1..Len(st)
    BY <1>1, IndexFirst
  <2> QED
    BY <1>1, <2>1, UsedSame DEF Log
<1>2. CASE ~Has(st, Logged)
  BY <1>2, AlikeRelation, AlikeStores DEF Log
<1> QED
  BY <1>1, <1>2

(* A failure is not logged in.                                             *)
LEMMA LogBroken == Log(Broken) = Broken
BY OuterAssumption DEF Broken, Has, Marker, Log

(* Borrowing is counting a use and setting a permission.                   *)
LEMMA BorrowFields ==
  ASSUME NEW st \in Store, NEW n, Effective(st, n) \in Permission
  PROVE  /\ Dead(Effective(st, n)) \in Permission
         /\ \E u \in Store : /\ Equal(st, u)
                             /\ Borrow(st, n) = WithEffective(u, n, Dead(Effective(st, n)))
<1>1. Has(st, n)
  BY EffectiveHas
<1> DEFINE u == [st EXCEPT ![IndexOf(st, n)] = Used(@)]
<1>2. u \in Store /\ Equal(st, u)
  BY <1>1, IndexFirst, UsedSame
<1>3. Borrow(st, n) = WithEffective(u, n, Dead(Effective(st, n)))
  BY <1>1, BrokenIsNone DEF Borrow, Only
<1>4. Dead(Effective(st, n)) \in Permission
  BY DeadAssumption
<1> HIDE DEF u
<1> QED
  BY <1>2, <1>3, <1>4

(* What moves a variable away.                                             *)
LEMMA AlikeBorrow ==
  ASSUME NEW s \in Store, NEW t \in Store, Equal(s, t), NEW n, Effective(s, n) \in Permission
  PROVE  Alike(Borrow(s, n), Borrow(t, n))
<1>1. Effective(t, n) = Effective(s, n)
  BY EqualLooks
<1> DEFINE p == Dead(Effective(s, n))
<1>2. PICK u \in Store : Equal(s, u) /\ Borrow(s, n) = WithEffective(u, n, p)
  BY BorrowFields
<1>3. PICK v \in Store : Equal(t, v) /\ Borrow(t, n) = WithEffective(v, n, p)
  BY <1>1, BorrowFields
<1>4. p \in Permission
  BY BorrowFields
<1>5. Alike(u, v)
  BY <1>2, <1>3, AlikeRelation, AlikeStores
<1> HIDE DEF p
<1> QED
  BY <1>2, <1>3, <1>4, <1>5, AlikeSet

(* Giving back what a variable has anyway changes nothing.                 *)
LEMMA GivenBack ==
  ASSUME NEW st \in Store, NEW t \in Store, Len(t) = Len(st),
         NEW n, Effective(st, n) \in Permission,
         \A j \in 1..Len(st) : /\ t[j].name = st[j].name /\ t[j].max = st[j].max
                               /\ j # IndexOf(st, n) => t[j].eff = st[j].eff
  PROVE  LET u == WithEffective(t, n, Effective(st, n))
         IN  u # Broken /\ u \in Store /\ Equal(st, u)
<1> DEFINE i == IndexOf(st, n)
           p == Effective(st, n)
           u == WithEffective(t, n, p)
<1>1. Has(st, n) /\ First(st, n, i) /\ i \in 1..Len(st) /\ Len(st) \in Nat
      /\ DOMAIN st = 1..Len(st) /\ DOMAIN t = 1..Len(st)
  BY EffectiveHas, IndexFirst, StoreEntries
<1>2. p = st[i].eff
  BY <1>1 DEF Effective
<1>3. st[i] \in Entry /\ st[i].name = n
  BY <1>1, StoreEntries DEF First
<1>4. n # Unnamed /\ st[i].max \in Permission /\ Intersect(st[i].max, p) = p
  <2>1. st[i].eff # NoPerm
    BY <1>2, PermAssumption
  <2>2. n # Unnamed
    BY <1>3, <2>1, EntryFields
  <2> QED
    BY <1>2, <1>3, <2>2, EntryFields DEF Leq
<1>5. Has(t, n)
  BY <1>1, <1>3 DEF Has
<1>6. First(t, n, i)
  <2>1. \A j \in 1..(i - 1) : j \in 1..Len(st)
    BY <1>1
  <2> QED
    BY <1>1, <2>1 DEF First
<1>7. IndexOf(t, n) = i
  <2> DEFINE k == IndexOf(t, n)
  <2>1. First(t, n, k) /\ k \in 1..Len(t)
    BY <1>5, IndexFirst
  <2>2. t[k].name = n /\ t[i].name = n /\ (\A j \in 1..(k - 1) : t[j].name # n)
        /\ (\A j \in 1..(i - 1) : t[j].name # n)
    BY <1>6, <2>1 DEF First
  <2> HIDE DEF k, i
  <2>3. ~(k < i) /\ ~(i < k)
    BY <1>1, <2>1, <2>2
  <2>4. k = i
    BY <1>1, <2>1, <2>3
  <2> QED
    BY <2>4 DEF k
<1>8. Maximum(t, n) = st[i].max
  BY <1>1, <1>5, <1>7 DEF Maximum
<1>9. Meet(Maximum(t, n), p) = p
  BY <1>4, <1>8, PermAssumption DEF Meet
<1>10. u # Broken
  BY <1>5, <1>9, SetFields, PermAssumption
<1>11. /\ u \in Store /\ Len(u) = Len(st) /\ u[i].eff = p
       /\ \A j \in 1..Len(st) : /\ u[j].name = t[j].name
                                /\ u[j].max = t[j].max
                                /\ j # i => u[j].eff = t[j].eff
  <2>1. t[i].max = st[i].max
    BY <1>1
  <2> QED
    BY <1>4, <1>7, <1>10, <2>1, SetFields
<1> HIDE DEF i, p, u
<1>12. \A j \in 1..Len(st) : st[j].name = u[j].name /\ st[j].eff = u[j].eff /\ st[j].max = u[j].max
  BY <1>2, <1>11 DEF i
<1>13. Equal(st, u)
  BY <1>11, <1>12, EqualStores
<1> QED
  BY <1>10, <1>11, <1>13 DEF u, p

(* Reading a variable leaves it as it was; so does giving it back its own. *)
LEMMA ReadBack ==
  ASSUME NEW st \in Store, NEW n, CanRead(st, n)
  PROVE  /\ After(st, n) = Borrow(st, n) /\ After(st, n) \in Any
         /\ Deps(st, n) = <<Borrowed(st, n)>> /\ Deps(st, n) \in Short
         /\ LET u == Release(st, Deps(st, n)) IN u # Broken /\ u \in Store /\ Equal(st, u)
         /\ AfterCondition(st, n) = Release(After(st, n), Deps(st, n))
         /\ After(st, n) = Broken <=> AfterCondition(st, n) = Broken
         /\ After(st, n) # Broken => /\ AfterCondition(st, n) \in Store
                                     /\ Equal(st, AfterCondition(st, n))
<1> DEFINE p == Effective(st, n)
           b == Borrow(st, n)
<1>1. n # NoName /\ p \in Permission /\ st # Broken
  BY BrokenHasNothing, BrokenIsNone DEF CanRead
<1>2. After(st, n) = b /\ Deps(st, n) = <<Borrowed(st, n)>>
      /\ AfterCondition(st, n) = Release(After(st, n), Deps(st, n))
  BY <1>1 DEF After, Deps, AfterCondition
<1>3. Borrowed(st, n) \in Loan /\ Borrowed(st, n).name = n /\ Borrowed(st, n).perm = p
  BY <1>1, BorrowedLoan DEF Borrowed
<1>4. Deps(st, n) \in Short
  BY <1>2, <1>3 DEF Short
<1>5. \A t : Release(t, Deps(st, n)) = WithEffective(t, n, p)
  BY <1>2, <1>3, ReleaseShort
<1>6. LET u == WithEffective(st, n, p) IN u # Broken /\ u \in Store /\ Equal(st, u)
  BY <1>1, GivenBack
<1>7. b \in Any
  BY <1>1, BorrowLike DEF Any, Like
<1>8. b = Broken => WithEffective(b, n, p) = Broken
  BY BrokenStays
<1>9. ASSUME b # Broken
      PROVE  LET u == WithEffective(b, n, p) IN u # Broken /\ u \in Store /\ Equal(st, u)
  <2> DEFINE q == Dead(p)
             i == IndexOf(st, n)
  <2>1. q \in Permission
    BY <1>1, BorrowFields
  <2>2. PICK v \in Store : Equal(st, v) /\ b = WithEffective(v, n, q)
    BY <1>1, BorrowFields
  <2>3. IndexOf(v, n) = i
    BY <1>1, <2>2, EqualLooks, EffectiveHas
  <2>4. /\ b \in Store /\ Len(b) = Len(v)
        /\ \A j \in 1..Len(v) : /\ b[j].name = v[j].name /\ b[j].max = v[j].max
                                /\ j # i => b[j].eff = v[j].eff
    <3> HIDE DEF b, q
    <3> QED
      BY <1>9, <2>1, <2>2, <2>3, SetFields
  <2>5. /\ Len(v) = Len(st)
        /\ \A j \in 1..Len(st) :
             st[j].name = v[j].name /\ st[j].eff = v[j].eff /\ st[j].max = v[j].max
    BY <2>2, EqualStores
  <2> HIDE DEF b
  <2> QED
    BY <1>1, <2>4, <2>5, GivenBack
<1>10. After(st, n) = Borrow(st, n) /\ Deps(st, n) = <<Borrowed(st, n)>>
  BY <1>2
<1> HIDE DEF p, b
<1>11. AfterCondition(st, n) = WithEffective(b, n, p)
  BY <1>2, <1>5
<1>12. After(st, n) = Broken <=> AfterCondition(st, n) = Broken
  BY <1>2, <1>8, <1>9, <1>11
<1>13. LET u == Release(st, Deps(st, n)) IN u # Broken /\ u \in Store /\ Equal(st, u)
  BY <1>5, <1>6
<1> QED
  BY <1>2, <1>4, <1>7, <1>9, <1>10, <1>11, <1>12, <1>13

(* Release.                                                                *)
LEMMA AlikeRelease ==
  ASSUME NEW s, NEW t, Alike(s, t), NEW deps \in Short
  PROVE  Alike(Release(s, deps), Release(t, deps)) /\ Release(s, deps) \in Any
<1>1. CASE deps = <<>>
  BY <1>1, ReleaseShort DEF Alike
<1>2. ASSUME NEW l \in Loan, deps = <<l>>
      PROVE  Alike(Release(s, deps), Release(t, deps))
  <2>1. l.perm \in Permission
    BY DEF Loan
  <2>2. Release(s, deps) = WithEffective(s, l.name, l.perm)
        /\ Release(t, deps) = WithEffective(t, l.name, l.perm)
    BY <1>2, ReleaseShort
  <2> DEFINE n == l.name
             p == l.perm
  <2> HIDE DEF n, p
  <2>3. Alike(WithEffective(s, n, p), WithEffective(t, n, p))
    BY <2>1, AlikeSet DEF p
  <2> QED
    BY <2>2, <2>3 DEF n, p
<1>3. Alike(Release(s, deps), Release(t, deps))
  BY <1>1, <1>2 DEF Short
<1> QED
  BY <1>3 DEF Alike

(* A tag or a range expression that can be read.                           *)
LEMMA AlikeAfter ==
  ASSUME NEW s \in Store, NEW t \in Store, Equal(s, t), NEW n, n = NoName \/ CanRead(s, n)
  PROVE  /\ Alike(After(s, n), After(t, n)) /\ Deps(s, n) = Deps(t, n) /\ Deps(s, n) \in Short
         /\ After(s, n) \in Any
<1>1. CASE n = NoName
  BY <1>1, AlikeStores DEF After, Deps, Short
<1>2. CASE n # NoName
  <2>1. CanRead(s, n) /\ CanRead(t, n) /\ Deps(s, n) = Deps(t, n)
    BY <1>2, EqualLooks
  <2>2. Effective(s, n) \in Permission
    BY <2>1, BrokenHasNothing DEF CanRead
  <2>3. After(s, n) = Borrow(s, n) /\ After(t, n) = Borrow(t, n) /\ Deps(s, n) \in Short
        /\ After(s, n) \in Any
    BY <2>1, ReadBack
  <2> QED
    BY <2>1, <2>2, <2>3, AlikeBorrow
<1> QED
  BY <1>1, <1>2

(* A condition that can be read leaves the store as it was.                *)
LEMMA AlikeCondition ==
  ASSUME NEW s, NEW t, Alike(s, t), NEW n
  PROVE  /\ Alike(AfterCondition(s, n), AfterCondition(t, n))
         /\ AfterCondition(s, n) # Broken => /\ s # Broken /\ CanRead(s, n)
                                             /\ Alike(s, AfterCondition(s, n))
<1>1. CASE s = Broken
  BY <1>1, AlikeRelation DEF Alike, AfterCondition
<1>2. CASE s # Broken
  <2>1. s \in Store /\ t \in Store /\ Equal(s, t) /\ t # Broken
    BY <1>2 DEF Alike, Any
  <2>2. CanRead(s, n) <=> CanRead(t, n)
    BY <2>1, EqualLooks
  <2>3. CASE ~CanRead(s, n)
    BY <2>2, <2>3, AlikeRelation DEF AfterCondition
  <2>4. CASE CanRead(s, n)
    <3> DEFINE u == AfterCondition(s, n)
               v == AfterCondition(t, n)
    <3>1. Alike(After(s, n), After(t, n))
      BY <2>1, <2>4, AlikeAfter
    <3>2. /\ After(s, n) = Broken <=> u = Broken
          /\ After(s, n) # Broken => u \in Store /\ Equal(s, u)
      BY <2>1, <2>4, ReadBack
    <3>3. /\ After(t, n) = Broken <=> v = Broken
          /\ After(t, n) # Broken => v \in Store /\ Equal(t, v)
      BY <2>1, <2>2, <2>4, ReadBack
    <3>4. u = Broken <=> v = Broken
      BY <3>1, <3>2, <3>3 DEF Alike
    <3> HIDE DEF u, v
    <3>5. CASE u = Broken
      BY <3>4, <3>5, AlikeRelation DEF u, v
    <3>6. CASE u # Broken
      <4>1. u \in Store /\ v \in Store /\ Equal(s, u) /\ Equal(t, v)
        BY <3>2, <3>3, <3>4, <3>6
      <4>2. Alike(s, u) /\ Alike(t, v) /\ Alike(s, t)
        BY <2>1, <4>1, AlikeStores
      <4>3. Alike(u, v)
        BY <4>2, AlikeRelation
      <4> QED
        BY <1>2, <2>4, <4>2, <4>3 DEF u, v
    <3> QED
      BY <3>5, <3>6
  <2> QED
    BY <2>3, <2>4
<1> QED
  BY <1>1, <1>2

(* A variable is assigned to, with the permission or with its maximum.      *)
LEMMA AlikeAssigned ==
  ASSUME NEW s, NEW t, Alike(s, t), NEW n \in Name, NEW p \in Permission
  PROVE  Alike(Assigned(s, n, p), Assigned(t, n, p))
<1>1. CASE s = Broken
  BY <1>1, BrokenStays, AlikeRelation DEF Alike, Assigned
<1>2. CASE s # Broken
  <2>1. s \in Store /\ t \in Store /\ Equal(s, t) /\ t # Broken
    BY <1>2 DEF Alike, Any
  <2> DEFINE q == IF Copyable(p, Maximum(s, n)) THEN Maximum(s, n) ELSE p
  <2>2. Maximum(s, n) = Maximum(t, n) /\ (Has(s, n) <=> Has(t, n))
    BY <2>1, EqualLooks
  <2>3. Assigned(s, n, p) = WithEffective(s, n, q) /\ Assigned(t, n, p) = WithEffective(t, n, q)
    BY <2>2 DEF Assigned
  <2>4. CASE Has(s, n)
    <3>1. IndexOf(s, n) \in 1..Len(s) /\ s[IndexOf(s, n)].name = n
      BY <2>1, <2>4, IndexFirst DEF First
    <3>2. s[IndexOf(s, n)] \in Entry /\ n # Unnamed
      BY <2>1, <3>1, UnnamedAssumption DEF Store
    <3>3. Maximum(s, n) \in Permission
      BY <2>4, <3>1, <3>2, EntryFields DEF Maximum
    <3>4. q \in Permission
      BY <3>3
    <3> HIDE DEF q
    <3> QED
      BY <2>3, <3>4, AlikeSet
  <2>5. CASE ~Has(s, n)
    <3> HIDE DEF q
    <3>1. WithEffective(s, n, q) = Broken /\ WithEffective(t, n, q) = Broken
      BY <2>2, <2>5 DEF WithEffective, Only
    <3> QED
      BY <2>3, <3>1, AlikeRelation
  <2> QED
    BY <2>4, <2>5
<1> QED
  BY <1>1, <1>2

(* defineOrAssign.                                                         *)
LEMMA AlikeDefineOrAssign ==
  ASSUME NEW s, NEW t, Alike(s, t), NEW q, q.name \in Name,
         NEW p \in Permission \cup {NoPerm}, NEW may
  PROVE  Alike(defineOrAssign(s, q, p, may), defineOrAssign(t, q, p, may))
<1> DEFINE u == IF q.does = "define" THEN WithVariable(s, q.name, p) ELSE Assigned(s, q.name, p)
           v == IF q.does = "define" THEN WithVariable(t, q.name, p) ELSE Assigned(t, q.name, p)
<1>1. /\ defineOrAssign(s, q, p, may)
           = IF p # NoPerm /\ u # Broken /\ Takes(u, q.name, p, may) THEN u ELSE Broken
      /\ defineOrAssign(t, q, p, may)
           = IF p # NoPerm /\ v # Broken /\ Takes(v, q.name, p, may) THEN v ELSE Broken
  BY DEF defineOrAssign
<1>2. CASE p = NoPerm
  BY <1>1, <1>2, AlikeRelation
<1>3. CASE p # NoPerm
  <2>1. Alike(u, v)
    BY <1>3, AlikeDefine, AlikeAssigned
  <2> HIDE DEF u, v
  <2>2. u = Broken <=> v = Broken
    BY <2>1 DEF Alike
  <2>3. ASSUME u # Broken
        PROVE  Takes(u, q.name, p, may) <=> Takes(v, q.name, p, may)
    <3>1. Effective(u, q.name) = Effective(v, q.name)
      BY <2>1, <2>3, EqualLooks DEF Alike, Any
    <3> QED
      BY <3>1 DEF Takes, Assignable
  <2> QED
    BY <1>1, <1>3, <2>1, <2>2, <2>3, AlikeRelation
<1> QED
  BY <1>2, <1>3

(* Simple statements.                                                      *)
LEMMA AlikeSimple ==
  ASSUME NEW s, NEW t, Alike(s, t), NEW q \in SimpleStmt
  PROVE  Alike(AfterSimple(s, q), AfterSimple(t, q)) /\ AfterSimple(s, q) \in Any
<1>1. q.does \in {"nothing", "use", "move", "assign", "define"}
      /\ (q.does # "nothing" => q.name \in Name)
  BY DEF SimpleStmt, Nil, Simple
<1>2. Alike(AfterSimple(s, q), AfterSimple(t, q))
  <2>1. CASE s = Broken
    <3>1. /\ ~Assignable(Broken, q.name) /\ Effective(Broken, q.name) \notin Readable
          /\ defineOrAssign(Broken, q, Fresh, FALSE) = Broken
      BY BrokenHasNothing, BrokenStays DEF Assignable, defineOrAssign, Assigned
    <3>2. AfterSimple(Broken, q) = Broken
      BY <1>1, <3>1 DEF AfterSimple
    <3>3. t = Broken
      BY <2>1 DEF Alike
    <3> QED
      BY <2>1, <3>2, <3>3, AlikeRelation
  <2>2. CASE s # Broken
    <3>1. s \in Store /\ t \in Store /\ Equal(s, t) /\ t # Broken
      BY <2>2 DEF Alike, Any
    <3>2. Effective(s, q.name) = Effective(t, q.name)
      BY <3>1, EqualLooks
    <3>3. CASE q.does = "nothing"
      BY <2>2, <3>1, <3>3 DEF AfterSimple
    <3>4. CASE q.does = "use"
      <4>1. CASE Effective(s, q.name) \notin Readable
        BY <2>2, <3>1, <3>2, <3>4, <4>1, AlikeRelation DEF AfterSimple
      <4>2. CASE Effective(s, q.name) \in Readable
        <5>1. Effective(s, q.name) \in Permission
          BY <4>2, BrokenHasNothing
        <5>2. Alike(Borrow(s, q.name), Borrow(t, q.name))
          BY <3>1, <5>1, AlikeBorrow
        <5>3. Borrowed(s, q.name) = Borrowed(t, q.name) /\ <<Borrowed(s, q.name)>> \in Short
          BY <3>1, <3>2, <5>1, BorrowedLoan DEF Borrowed, Short
        <5>4. AfterSimple(s, q) = Release(Borrow(s, q.name), <<Borrowed(s, q.name)>>)
              /\ AfterSimple(t, q) = Release(Borrow(t, q.name), <<Borrowed(s, q.name)>>)
          BY <2>2, <3>1, <3>2, <3>4, <4>2, <5>3 DEF AfterSimple
        <5> QED
          BY <5>2, <5>3, <5>4, AlikeRelease
      <4> QED
        BY <4>1, <4>2
    <3>5. CASE q.does = "move"
      <4>1. CASE Effective(s, q.name) \notin Owned
        BY <2>2, <3>1, <3>2, <3>5, <4>1, AlikeRelation DEF AfterSimple, Assignable
      <4>2. CASE Effective(s, q.name) \in Owned
        <5>1. Effective(s, q.name) \in Permission
          BY <4>2, BrokenHasNothing
        <5>2. Alike(Borrow(s, q.name), Borrow(t, q.name))
          BY <3>1, <5>1, AlikeBorrow
        <5> QED
          BY <2>2, <3>1, <3>2, <3>5, <4>2, <5>2 DEF AfterSimple, Assignable
      <4> QED
        BY <4>1, <4>2
    <3>6. CASE q.does \in {"assign", "define"}
      <4>1. AfterSimple(s, q) = defineOrAssign(s, q, Fresh, FALSE)
            /\ AfterSimple(t, q) = defineOrAssign(t, q, Fresh, FALSE)
        BY <2>2, <3>1, <3>6 DEF AfterSimple
      <4> QED
        BY <1>1, <3>6, <4>1, AlikeDefineOrAssign, BrokenHasNothing
    <3> QED
      BY <1>1, <3>3, <3>4, <3>5, <3>6
  <2> QED
    BY <2>1, <2>2
<1> QED
  BY <1>2 DEF Alike

(* The key or value of a range statement.                                  *)
LEMMA AlikeBound ==
  ASSUME NEW s, NEW t, Alike(s, t), NEW key \in Binding, NEW p \in Permission \cup {NoPerm}
  PROVE  Alike(Bound(s, key, p), Bound(t, key, p)) /\ Bound(s, key, p) \in Any
<1>1. key.does # "nothing" => key.name \in Name
  BY DEF Binding, SimpleStmt, Nil, Simple
<1>2. CASE key.does = "nothing"
  BY <1>2 DEF Bound, Alike
<1>3. CASE key.does # "nothing"
  <2>1. Alike(defineOrAssign(s, key, p, key.does = "define"),
              defineOrAssign(t, key, p, key.does = "define"))
    BY <1>1, <1>3, AlikeDefineOrAssign
  <2> QED
    BY <1>3, <2>1 DEF Bound, Alike
<1> QED
  BY <1>2, <1>3

--------------------------------------------------------------------------------
(* What the exits of a visit must be.                                      *)

(* Stores without counts of uses; ways to leave a statement.               *)
Plain == {st \in Store : Unused(st) = st}
Early == {Branch(s.tok, s.label) : s \in {t \in Stmts : t.kind = "branch"}}
Way   == [st : Plain, branch : {NoBranch} \cup Early]

(* What there is to do: a statement, or a list of them, or of clauses.     *)
ListOf(stmts, sw) == [kind |-> IF sw THEN "clauses" ELSE "list", stmts |-> stmts]

Task   == Stmts \cup {ListOf(stmts, sw) : stmts \in Seq(Stmts), sw \in BOOLEAN}
Answer == Task \X Plain \X SUBSET Way

(* The ways Y end a block, giving back deps, and are in X then.            *)
Ended(Y, deps, X) ==
  \A y \in Y : LET st == Closed(Release(y.st, deps))
               IN  st # Broken /\ Exit(Unused(st), y.branch) \in X

(* Statement i of a list, behind which way x goes on with a work in W, or  *)
(* leaves the list as one of X.                                            *)
Place(stmts, sw, i) == [stmts |-> stmts, isASwitch |-> sw, item |-> i]

Sorted(f, x, W, X) ==
  IF GoesTo(f, x.branch) # Outside THEN Work(x.st, GoesTo(f, x.branch)) \in W
  ELSE Exit(x.st, LeavesWith(f, x.branch)) \in X

Handled(C, stmts, sw, w, W, X) ==
  /\ w.at \in DOMAIN stmts
  /\ \E Y \in SUBSET Way : /\ <<stmts[w.at], w.st, Y>> \in C
                           /\ \A y \in Y : Sorted(Place(stmts, sw, w.at), y, W, X)

Begun(stmts, sw, a, W, X) ==
  /\ stmts # <<>> => IF sw THEN \A i \in DOMAIN stmts : Work(Unused(a), i) \in W
                     ELSE Work(Unused(a), 1) \in W
  /\ stmts = <<>> \/ sw => Exit(Unused(a), NoBranch) \in X

(* A range gives back what it borrowed unless key or value keep it from    *)
(* doing so, by being owned: those assigned to are.                        *)
Unowned(key, p) == key.does = "nothing" \/ (key.does = "define" /\ p \notin Owned)

Lends(s, deps) == /\ Unowned(s.key, KeyOf(Container(deps)))
                  /\ Unowned(s.value, ElementOf(Container(deps)))

Parting(s, deps, st) == IF Lends(s, deps) THEN Release(st, deps) ELSE st

Looped(s, deps, y, W, X) ==
  LET st == Closed(y.st)
  IN  /\ st # Broken /\ Parting(s, deps, st) # Broken
      /\ Continues(y) => Work(Unused(st), Outside) \in W
      /\ Exit(Unused(Parting(s, deps, st)),
              IF Continues(y) \/ Breaks(y) THEN NoBranch ELSE y.branch) \in X

Entering(s, deps, st) ==
  Bound(Bound(Opened(st), s.key, KeyOf(Container(deps))), s.value, ElementOf(Container(deps)))

Iterated(C, s, deps, w, W, X) ==
  /\ w.st \in Plain /\ Entering(s, deps, w.st) # Broken
  /\ \E Y \in SUBSET Way : /\ <<s.body, Unused(Entering(s, deps, w.st)), Y>> \in C
                           /\ \A y \in Y : Looped(s, deps, y, W, X)

AsSimple(q, a, X) == AfterSimple(a, q) # Broken /\ Exit(Unused(AfterSimple(a, q)), NoBranch) \in X
AsBranch(q, a, X) == Exit(Unused(a), Branch(q.tok, q.label)) \in X
AsList(C, stmts, sw, a, X) ==
  \E W : Begun(stmts, sw, a, W, X) /\ \A w \in W : Handled(C, stmts, sw, w, W, X)
AsBlock(C, stmts, sw, a, X) ==
  \E Y \in SUBSET Way : <<ListOf(stmts, sw), Unused(Opened(a)), Y>> \in C /\ Ended(Y, <<>>, X)
AsIf(C, q, a, X) ==
  LET st == AfterCondition(AfterSimple(Opened(a), q.init), q.cond)
  IN  /\ st # Broken
      /\ \A s \in {q.then, q.else} :
           \E Y \in SUBSET Way : <<s, Unused(st), Y>> \in C /\ Ended(Y, <<>>, X)
AsSwitch(C, q, a, X) ==
  LET st == AfterSimple(Opened(a), q.init)
  IN  /\ st # Broken /\ After(st, q.tag) # Broken
      /\ q.tag = NoName \/ CanRead(st, q.tag)
      /\ \E Y \in SUBSET Way : /\ <<ListOf(q.clauses, TRUE), Unused(After(st, q.tag)), Y>> \in C
                               /\ Ended(Y, Deps(st, q.tag), X)
AsCase(C, q, a, X) ==
  /\ Len(q.alts) = 1 /\ AfterCondition(a, q.alts[1]) # Broken
  /\ <<ListOf(q.body, FALSE), Unused(a), X>> \in C
AsComm(C, q, a, X) ==
  /\ AfterSimple(a, q.comm) # Broken
  /\ <<ListOf(q.body, FALSE), Unused(AfterSimple(a, q.comm)), X>> \in C
AsRange(C, q, a, X) ==
  /\ CanRead(a, q.x) /\ After(a, q.x) # Broken /\ Exit(Unused(a), NoBranch) \in X
  /\ \E W : /\ Work(Unused(After(a, q.x)), Outside) \in W
            /\ \A w \in W : Iterated(C, q, Deps(a, q.x), w, W, X)

Justified(C, q, a, X) ==
  \/ q.kind = "simple" /\ AsSimple(q, a, X)
  \/ q.kind = "branch" /\ AsBranch(q, a, X)
  \/ q.kind = "labeled" /\ <<q.stmt, Unused(a), X>> \in C
  \/ q.kind = "block" /\ AsBlock(C, q.stmts, FALSE, a, X)
  \/ q.kind = "select" /\ AsBlock(C, q.clauses, TRUE, a, X)
  \/ q.kind = "if" /\ AsIf(C, q, a, X)
  \/ q.kind = "switch" /\ AsSwitch(C, q, a, X)
  \/ q.kind = "case" /\ AsCase(C, q, a, X)
  \/ q.kind = "comm" /\ AsComm(C, q, a, X)
  \/ q.kind = "range" /\ AsRange(C, q, a, X)
  \/ q.kind = "list" /\ AsList(C, q.stmts, FALSE, a, X)
  \/ q.kind = "clauses" /\ AsList(C, q.stmts, TRUE, a, X)

Foretold == UNION {C \in SUBSET Answer : \A t \in C : Justified(C, t[1], t[2], t[3])}

(* The rules only ask for answers to be there, never for one to be         *)
(* missing.                                                                *)
LEMMA JustifiedGrows ==
  ASSUME NEW C, NEW D, C \subseteq D, NEW q, NEW a, NEW X, Justified(C, q, a, X)
  PROVE  Justified(D, q, a, X)
<1>1. \A stmts, sw : AsBlock(C, stmts, sw, a, X) => AsBlock(D, stmts, sw, a, X)
  BY DEF AsBlock
<1>2. AsIf(C, q, a, X) => AsIf(D, q, a, X)
  BY DEF AsIf
<1>3. AsSwitch(C, q, a, X) => AsSwitch(D, q, a, X)
  BY DEF AsSwitch
<1>4. AsCase(C, q, a, X) => AsCase(D, q, a, X)
  BY DEF AsCase
<1>5. AsComm(C, q, a, X) => AsComm(D, q, a, X)
  BY DEF AsComm
<1>6. AsRange(C, q, a, X) => AsRange(D, q, a, X)
  <2>1. \A w, W, deps : Iterated(C, q, deps, w, W, X) => Iterated(D, q, deps, w, W, X)
    BY DEF Iterated
  <2> QED
    BY <2>1 DEF AsRange
<1>7. \A stmts, sw : AsList(C, stmts, sw, a, X) => AsList(D, stmts, sw, a, X)
  <2>1. \A stmts, sw, w, W : Handled(C, stmts, sw, w, W, X) => Handled(D, stmts, sw, w, W, X)
    BY DEF Handled
  <2> QED
    BY <2>1 DEF AsList
<1> QED
  BY <1>1, <1>2, <1>3, <1>4, <1>5, <1>6, <1>7 DEF Justified

(* So the union of all justified sets of answers is one, and has what it   *)
(* justifies.                                                              *)
LEMMA ForetoldFixed ==
  /\ Foretold \in SUBSET Answer
  /\ \A t \in Foretold : Justified(Foretold, t[1], t[2], t[3])
  /\ \A q \in Task, a \in Plain, X \in SUBSET Way :
       Justified(Foretold, q, a, X) => <<q, a, X>> \in Foretold
<1> DEFINE Family == {C \in SUBSET Answer : \A t \in C : Justified(C, t[1], t[2], t[3])}
<1>1. Foretold = UNION Family
  BY DEF Foretold
<1>2. Foretold \in SUBSET Answer
  BY <1>1
<1>3. \A t \in Foretold : Justified(Foretold, t[1], t[2], t[3])
  <2> SUFFICES ASSUME NEW t \in Foretold
               PROVE  Justified(Foretold, t[1], t[2], t[3])
    OBVIOUS
  <2>1. PICK C \in Family : t \in C
    BY <1>1
  <2>2. Justified(C, t[1], t[2], t[3]) /\ C \subseteq Foretold
    BY <1>1, <2>1
  <2> QED
    BY <2>2, JustifiedGrows
<1>4. ASSUME NEW q \in Task, NEW a \in Plain, NEW X \in SUBSET Way, Justified(Foretold, q, a, X)
      PROVE  <<q, a, X>> \in Foretold
  <2> DEFINE t0 == <<q, a, X>>
             D == Foretold \cup {t0}
  <2>1. D \in SUBSET Answer
    BY <1>2 DEF Answer
  <2>2. Foretold \subseteq D /\ t0 \in D
    OBVIOUS
  <2>3. t0[1] = q /\ t0[2] = a /\ t0[3] = X
    OBVIOUS
  <2>4. \A t \in D : t \in Foretold \/ t = t0
    OBVIOUS
  <2> HIDE DEF t0, D
  <2>5. \A t \in D : Justified(Foretold, t[1], t[2], t[3])
    BY <1>3, <1>4, <2>3, <2>4
  <2>6. \A t \in D : Justified(D, t[1], t[2], t[3])
    <3> SUFFICES ASSUME NEW t \in D
                 PROVE  Justified(D, t[1], t[2], t[3])
      OBVIOUS
    <3>1. Justified(Foretold, t[1], t[2], t[3])
      BY <2>5
    <3> QED
      BY <2>2, <3>1, JustifiedGrows
  <2>7. D \in Family
    BY <2>1, <2>6
  <2>8. D \subseteq Foretold
    BY <1>1, <2>7
  <2> QED
    BY <2>2, <2>8 DEF t0
<1> QED
  BY <1>2, <1>3, <1>4

(* Stores without counts.                                                  *)
LEMMA PlainFacts ==
  /\ \A st \in Store : Unused(st) \in Plain /\ Unused(Unused(st)) = Unused(st)
  /\ \A a \in Plain : a \in Store /\ Unused(a) = a /\ a # Broken
<1>1. ASSUME NEW st \in Store
      PROVE  Unused(st) \in Store /\ Unused(Unused(st)) = Unused(st)
  <2>1. Unused(st) \in Store /\ Equal(st, Unused(st))
    BY UnusedFacts
  <2> HIDE DEF Unused
  <2> QED
    BY <2>1, UnusedSame
<1> QED
  BY <1>1, BrokenIsNone DEF Plain

(* Alike stores are the same without counts.                               *)
LEMMA AlikeUnused ==
  ASSUME NEW s, NEW t, Alike(s, t)
  PROVE  /\ s = Broken <=> t = Broken
         /\ s # Broken => /\ Unused(s) = Unused(t) /\ Unused(s) \in Plain
                          /\ s \in Store /\ t \in Store /\ Equal(s, t)
BY UnusedSame, PlainFacts DEF Alike, Any

(* The kinds of statements.                                                *)
LEMMA StmtKinds ==
  ASSUME NEW s \in Stmts
  PROVE  s.kind \in {"simple", "branch", "labeled", "block", "if", "switch", "case", "select",
                     "comm", "for", "range"}
<1>1. s \in StmtOver(Stmts)
  BY StmtsAssumption
<1>2. \A t \in SimpleStmt : t.kind = "simple"
  BY DEF SimpleStmt, Nil, Simple
<1> QED
  BY <1>1, <1>2 DEF StmtOver

(* A list of statements, and one of clauses.                               *)
LEMMA ListTask ==
  ASSUME NEW stmts \in Seq(Stmts), NEW sw \in BOOLEAN
  PROVE  /\ ListOf(stmts, sw) \in Task /\ ListOf(stmts, sw).stmts = stmts
         /\ sw => ListOf(stmts, sw).kind = "clauses"
         /\ ~sw => ListOf(stmts, sw).kind = "list"
<1>1. ListOf(stmts, sw) \in Task
  BY DEF Task
<1>2. ListOf(stmts, sw).stmts = stmts
  BY DEF ListOf
<1>3. ListOf(stmts, sw).kind = IF sw THEN "clauses" ELSE "list"
  BY DEF ListOf
<1> QED
  BY <1>1, <1>2, <1>3

(* The rules cannot tell stores that are Equal from each other.            *)
LEMMA JustifiedAlike ==
  ASSUME NEW C, NEW q \in Task, NEW s \in Store, NEW t \in Store, Equal(s, t), NEW X,
         Justified(C, q, s, X)
  PROVE  Justified(C, q, t, X)
<1>1. Unused(s) = Unused(t) /\ Alike(s, t) /\ Alike(Opened(s), Opened(t))
      /\ Opened(s) # Broken
  BY UnusedSame, AlikeStores, AlikeOpened
<1>2. Unused(Opened(s)) = Unused(Opened(t))
  BY <1>1, AlikeUnused
<1>3. q.kind \notin {"list", "clauses"} => q \in Stmts
  <2>1. ASSUME NEW stmts \in Seq(Stmts), NEW sw \in BOOLEAN, q = ListOf(stmts, sw)
        PROVE  q.kind \in {"list", "clauses"}
    BY <2>1, ListTask
  <2> QED
    BY <2>1 DEF Task
<1>4. CASE q.kind = "simple" /\ AsSimple(q, s, X)
  <2>1. q \in SimpleStmt
    BY <1>3, <1>4, StmtParts
  <2>2. Alike(AfterSimple(s, q), AfterSimple(t, q))
    BY <1>1, <2>1, AlikeSimple
  <2>3. AsSimple(q, t, X)
    BY <1>4, <2>2, AlikeUnused DEF AsSimple
  <2> QED
    BY <1>4, <2>3 DEF Justified
<1>5. CASE q.kind = "branch" /\ AsBranch(q, s, X)
  BY <1>1, <1>5 DEF Justified, AsBranch
<1>6. CASE q.kind = "labeled" /\ <<q.stmt, Unused(s), X>> \in C
  BY <1>1, <1>6 DEF Justified
<1>7. CASE q.kind = "block" /\ AsBlock(C, q.stmts, FALSE, s, X)
  BY <1>2, <1>7 DEF Justified, AsBlock
<1>8. CASE q.kind = "select" /\ AsBlock(C, q.clauses, TRUE, s, X)
  BY <1>2, <1>8 DEF Justified, AsBlock
<1>9. CASE q.kind = "if" /\ AsIf(C, q, s, X)
  <2>1. q.init \in SimpleStmt
    BY <1>3, <1>9, StmtParts
  <2>2. Alike(AfterSimple(Opened(s), q.init), AfterSimple(Opened(t), q.init))
    BY <1>1, <2>1, AlikeSimple
  <2> DEFINE u == AfterCondition(AfterSimple(Opened(s), q.init), q.cond)
             v == AfterCondition(AfterSimple(Opened(t), q.init), q.cond)
  <2>3. Alike(u, v)
    BY <2>2, AlikeCondition
  <2>4. u # Broken /\ v # Broken /\ Unused(u) = Unused(v)
    BY <1>9, <2>3, AlikeUnused DEF AsIf
  <2>5. AsIf(C, q, t, X)
    BY <1>9, <2>4 DEF AsIf
  <2> QED
    BY <1>9, <2>5 DEF Justified
<1>10. CASE q.kind = "switch" /\ AsSwitch(C, q, s, X)
  <2>1. q.init \in SimpleStmt
    BY <1>3, <1>10, StmtParts
  <2> DEFINE u == AfterSimple(Opened(s), q.init)
             v == AfterSimple(Opened(t), q.init)
  <2>2. Alike(u, v)
    BY <1>1, <2>1, AlikeSimple
  <2>3. /\ u # Broken /\ After(u, q.tag) # Broken /\ (q.tag = NoName \/ CanRead(u, q.tag))
        /\ \E Y \in SUBSET Way : /\ <<ListOf(q.clauses, TRUE), Unused(After(u, q.tag)), Y>> \in C
                                 /\ Ended(Y, Deps(u, q.tag), X)
    BY <1>10 DEF AsSwitch
  <2> HIDE DEF u, v
  <2>4. u \in Store /\ v \in Store /\ Equal(u, v) /\ v # Broken
    BY <2>2, <2>3, AlikeUnused
  <2>5. Alike(After(u, q.tag), After(v, q.tag)) /\ Deps(u, q.tag) = Deps(v, q.tag)
    BY <2>3, <2>4, AlikeAfter
  <2>6. q.tag = NoName \/ CanRead(v, q.tag)
    BY <2>3, <2>4, EqualLooks
  <2>7. After(v, q.tag) # Broken /\ Unused(After(u, q.tag)) = Unused(After(v, q.tag))
    BY <2>3, <2>5, AlikeUnused
  <2>8. AsSwitch(C, q, t, X)
    BY <2>3, <2>4, <2>5, <2>6, <2>7 DEF AsSwitch, v
  <2> QED
    BY <1>10, <2>8 DEF Justified
<1>11. CASE q.kind = "case" /\ AsCase(C, q, s, X)
  <2>1. Alike(AfterCondition(s, q.alts[1]), AfterCondition(t, q.alts[1]))
    BY <1>1, AlikeCondition
  <2>2. AsCase(C, q, t, X)
    BY <1>1, <1>11, <2>1, AlikeUnused DEF AsCase
  <2> QED
    BY <1>11, <2>2 DEF Justified
<1>12. CASE q.kind = "comm" /\ AsComm(C, q, s, X)
  <2>1. q.comm \in SimpleStmt
    BY <1>3, <1>12, StmtParts
  <2>2. Alike(AfterSimple(s, q.comm), AfterSimple(t, q.comm))
    BY <1>1, <2>1, AlikeSimple
  <2> DEFINE u == AfterSimple(s, q.comm)
             v == AfterSimple(t, q.comm)
  <2>3. u # Broken /\ <<ListOf(q.body, FALSE), Unused(u), X>> \in C
    BY <1>12 DEF AsComm
  <2>4. v # Broken /\ Unused(u) = Unused(v)
    <3> HIDE DEF u, v
    <3> QED
      BY <2>2, <2>3, AlikeUnused DEF u, v
  <2>5. AsComm(C, q, t, X)
    BY <2>3, <2>4 DEF AsComm
  <2> QED
    BY <1>12, <2>5 DEF Justified
<1>13. CASE q.kind = "range" /\ AsRange(C, q, s, X)
  <2>1. CanRead(s, q.x) /\ CanRead(t, q.x)
    BY <1>13, EqualLooks DEF AsRange
  <2>2. Alike(After(s, q.x), After(t, q.x)) /\ Deps(s, q.x) = Deps(t, q.x)
    BY <2>1, AlikeAfter
  <2>3. After(s, q.x) # Broken
    BY <1>13 DEF AsRange
  <2>4. After(t, q.x) # Broken /\ Unused(After(s, q.x)) = Unused(After(t, q.x))
    BY <2>2, <2>3, AlikeUnused
  <2>5. AsRange(C, q, t, X)
    BY <1>1, <1>13, <2>1, <2>2, <2>4 DEF AsRange
  <2> QED
    BY <1>13, <2>5 DEF Justified
<1>14. \A stmts, sw : AsList(C, stmts, sw, s, X) => AsList(C, stmts, sw, t, X)
  BY <1>1 DEF AsList, Begun
<1>15. CASE q.kind = "list" /\ AsList(C, q.stmts, FALSE, s, X)
  BY <1>14, <1>15 DEF Justified
<1>16. CASE q.kind = "clauses" /\ AsList(C, q.stmts, TRUE, s, X)
  BY <1>14, <1>16 DEF Justified
<1> QED
  BY <1>4, <1>5, <1>6, <1>7, <1>8, <1>9, <1>10, <1>11, <1>12, <1>13, <1>15, <1>16 DEF Justified

(* X will do for an answer to q, begun with the store st.                  *)
Answered(q, st, X) == <<q, Unused(st), X>> \in Foretold

(* An answer is one that the rules justify, in the store itself.           *)
LEMMA AnsweredFixed ==
  ASSUME NEW q \in Task, NEW st \in Store, NEW X \in SUBSET Way
  PROVE  Answered(q, st, X) <=> Justified(Foretold, q, st, X)
<1> DEFINE a == Unused(st)
<1>1. a \in Plain /\ a \in Store /\ Equal(st, a) /\ Equal(a, st)
  BY PlainFacts, UnusedFacts, AlikeRelation, AlikeStores
<1> HIDE DEF a
<1>2. ASSUME <<q, a, X>> \in Foretold
      PROVE  Justified(Foretold, q, st, X)
  <2> DEFINE t0 == <<q, a, X>>
  <2>1. Justified(Foretold, t0[1], t0[2], t0[3])
    <3> HIDE DEF t0
    <3> QED
      BY <1>2, ForetoldFixed DEF t0
  <2>2. Justified(Foretold, q, a, X)
    BY <2>1
  <2> QED
    BY <1>1, <2>2, JustifiedAlike
<1>3. ASSUME Justified(Foretold, q, st, X)
      PROVE  <<q, a, X>> \in Foretold
  <2>1. Justified(Foretold, q, a, X)
    BY <1>1, <1>3, JustifiedAlike
  <2> QED
    BY <1>1, <2>1, ForetoldFixed
<1> QED
  BY <1>2, <1>3 DEF Answered, a

(* Whatever is answered is an answer.                                      *)
LEMMA AnsweredTyped ==
  ASSUME NEW q, NEW st, NEW X, Answered(q, st, X)
  PROVE  q \in Task /\ X \in SUBSET Way
BY ForetoldFixed DEF Answered, Answer

(* Equal stores are the same question.                                     *)
LEMMA AnsweredAlike ==
  ASSUME NEW s \in Store, NEW t \in Store, Equal(s, t), NEW q, NEW X
  PROVE  Answered(q, s, X) <=> Answered(q, t, X)
BY UnusedSame DEF Answered

--------------------------------------------------------------------------------
(* The visit gives such exits.                                             *)

(* All the answers to a question.                                          *)
To(q, st) == {X \in SUBSET Way : Answered(q, st, X)}

(* Works and exits without counts of uses.                                 *)
WorkSet(s) == {Work(Unused(s[i].st), s[i].at) : i \in 1..Len(s)}
Found(s)   == {Exit(Unused(s[i].st), s[i].branch) : i \in 1..Len(s)}

(* What is left to do for a call, and for one that waits for another one,  *)
(* to return an answer in A; a call that is waited for answers in B.       *)
ListOwes(f, cur, A) ==
  /\ f.isASwitch \in BOOLEAN /\ Stored(f.seen, Store) /\ Found(f.exits) \in SUBSET Way
  /\ \A W, X :
       /\ X \in SUBSET Way /\ WorkSet(f.seen) \subseteq W /\ Found(f.exits) \subseteq X
       /\ \A w \in W : \/ Handled(Foretold, f.stmts, f.isASwitch, w, W, X)
                       \/ w \in WorkSet(f.seen) /\ w \notin WorkSet(f.todo) /\ w \notin cur
       => X \in A

RangeOwes(f, cur, A) ==
  /\ Stored(f.seen, Store) /\ Found(f.exits) \in SUBSET Way /\ f.deps \in Short
  /\ \A W, X :
       /\ X \in SUBSET Way /\ WorkSet(f.seen) \subseteq W
       /\ \A e \in Found(f.exits) : /\ Parting(f.stmt, f.deps, e.st) # Broken
                                    /\ Exit(Unused(Parting(f.stmt, f.deps, e.st)), e.branch) \in X
       /\ \A w \in W : \/ Iterated(Foretold, f.stmt, f.deps, w, W, X)
                       \/ w \in WorkSet(f.seen) /\ w \notin WorkSet(f.todo) /\ w \notin cur
       => X \in A

CaseOwes(f, A) ==
  /\ f.alts \in Seq(STRING)
  /\ \/ /\ f.merged = <<>> /\ f.alts # <<>>
        /\ \A X \in To(ListOf(f.body, FALSE), f.st) :
             Len(f.alts) = 1 /\ AfterCondition(f.st, f.alts[1]) # Broken => X \in A
     \/ f.merged # <<>> /\ f.alts = <<>> /\ To(ListOf(f.body, FALSE), f.merged) \subseteq A
     \/ f.merged # <<>> /\ f.alts # <<>>

Asked(f, A) ==
  \/ f.fn = "stmt" /\ To(f.stmt, f.st) \subseteq A
  \/ f.fn = "list" /\ ListOwes(f, {}, A)
  \/ /\ f.fn = "range" /\ RangeOwes(f, {}, A)
     /\ (f.canRelease <=> Lends(f.stmt, f.deps)) \/ (f.canRelease /\ f.todo # <<>>)
  \/ f.fn = "case" /\ CaseOwes(f, A)

EndWaits(deps, A, B) ==
  deps \in Short /\ \A Y \in B : \A X \in SUBSET Way : Ended(Y, deps, X) => X \in A

IfWaits(f, A, B) ==
  \A Y \in B : \A Z \in To(f.stmt.else, f.st) : \A X \in SUBSET Way :
    Ended(Y, <<>>, X) /\ Ended(Z, <<>>, X) => X \in A

ElseWaits(f, A, B) ==
  /\ Found(f.exits) \in SUBSET Way
  /\ \A Y \in B : \A X \in SUBSET Way :
       Ended(Found(f.exits), <<>>, X) /\ Ended(Y, <<>>, X) => X \in A

ListWaits(f, A, B) ==
  /\ f.item \in DOMAIN f.stmts
  /\ \E a \in Plain : ListOwes(f, {Work(a, f.item)}, A) /\ B = To(f.stmts[f.item], a)

RangeWaits(f, A, B) ==
  /\ f.canRelease <=> Lends(f.stmt, f.deps)
  /\ \E w : /\ w.st \in Plain /\ Entering(f.stmt, f.deps, w.st) # Broken /\ RangeOwes(f, {w}, A)
            /\ B = To(f.stmt.body, Entering(f.stmt, f.deps, w.st))

Waits(G, f, A, B) ==
  /\ B \subseteq SUBSET Way
  /\ \/ f.fn = "block" /\ EndWaits(<<>>, A, B)
     \/ f.fn = "switch" /\ EndWaits(f.deps, A, B)
     \/ f.fn = "if" /\ IfWaits(f, A, B)
     \/ f.fn = "else" /\ ElseWaits(f, A, B)
     \/ f.fn = "list" /\ ListWaits(f, A, B)
     \/ f.fn = "range" /\ RangeWaits(f, A, B)
     \/ f.fn = "literal" /\ B = G

(* As has the answers of each of the calls under way; r is one of those    *)
(* that were waited for.                                                   *)
Chain(G, s, As) ==
  /\ Sequence(As) /\ Len(As) = Len(s)
  /\ \A i \in 1..Len(s) : i + 1 \in 1..Len(s) => Waits(G, s[i + 1], As[i + 1], As[i])

Hears(G, s, m, r, As) ==
  s # <<>> => /\ m = "call" => Asked(s[1], As[1])
              /\ m = "return" => \E B : Waits(G, s[1], As[1], B) /\ Found(r) \in B

Goal == To(ListOf(lit.body, FALSE), Entered)

VisitInv ==
  /\ lit.body \in Seq(Stmts)
  /\ ~lit.visited => /\ Sequence(stack)
                     /\ \E As : Chain(Goal, stack, As) /\ Hears(Goal, stack, mode, ret, As)
  /\ lit.visited => /\ Found(lit.exits) \in Goal /\ Stored(lit.exits, Store)
                    /\ stack = <<>> \/ (Top.fn = "literal" /\ mode = "return")

(* A frame is replaced by another one.                                     *)
LEMMA OneAsked ==
  ASSUME NEW G, NEW s, Sequence(s), s # <<>>, NEW As, Chain(G, s, As), NEW F, Asked(F, As[1])
  PROVE  /\ Sequence(<<F>> \o Tail(s))
         /\ Chain(G, <<F>> \o Tail(s), As) /\ \A r : Hears(G, <<F>> \o Tail(s), "call", r, As)
<1> DEFINE t == <<F>> \o Tail(s)
           n == Len(s)
<1>1. /\ Sequence(t) /\ Len(t) = n /\ n \in Nat /\ t[1] = F
      /\ \A i \in 1..n : i # 1 => t[i] = s[i]
  BY FirstReplaced DEF Sequence
<1> HIDE DEF t
<1>2. ASSUME NEW i \in 1..n, i + 1 \in 1..n
      PROVE  Waits(G, t[i + 1], As[i + 1], As[i])
  <2>1. i + 1 # 1
    BY <1>1
  <2>2. t[i + 1] = s[i + 1]
    BY <1>1, <1>2, <2>1
  <2> QED
    BY <1>2, <2>2 DEF Chain
<1>3. Chain(G, t, As)
  BY <1>1, <1>2 DEF Chain
<1>4. \A r : Hears(G, t, "call", r, As)
  BY <1>1 DEF Hears
<1> QED
  BY <1>1, <1>3, <1>4 DEF t

(* A frame calls another one, and waits.                                   *)
LEMMA TwoAsked ==
  ASSUME NEW G, NEW s, Sequence(s), s # <<>>, NEW As, Chain(G, s, As),
         NEW F, NEW H, NEW B, Asked(F, B), Waits(G, H, As[1], B)
  PROVE  /\ Sequence(<<F, H>> \o Tail(s))
         /\ \E Bs : /\ Chain(G, <<F, H>> \o Tail(s), Bs)
                    /\ \A r : Hears(G, <<F, H>> \o Tail(s), "call", r, Bs)
<1> DEFINE t == <<F, H>> \o Tail(s)
           n == Len(s)
           Bs == [i \in 1..(n + 1) |-> IF i = 1 THEN B ELSE As[i - 1]]
<1>1. /\ Sequence(t) /\ Len(t) = n + 1 /\ n \in Nat /\ t[1] = F /\ t[2] = H
      /\ \A i \in 1..(n + 1) : i # 1 /\ i # 2 => t[i] = s[i - 1]
  BY FirstTwoReplaced DEF Sequence
<1> HIDE DEF t
<1>2. Bs[1] = B /\ Bs[2] = As[1] /\ \A i \in 1..(n + 1) : i # 1 => Bs[i] = As[i - 1]
  BY <1>1, TailSequence
<1>3. Sequence(Bs) /\ Len(Bs) = n + 1
  <2>1. Bs = [i \in 1..(n + 1) |-> Bs[i]] /\ n + 1 \in Nat
    BY <1>1
  <2> HIDE DEF Bs
  <2> QED
    BY <2>1, SequenceMade
<1> HIDE DEF Bs
<1>4. ASSUME NEW i \in 1..(n + 1), i + 1 \in 1..(n + 1)
      PROVE  Waits(G, t[i + 1], Bs[i + 1], Bs[i])
  <2>1. CASE i = 1
    BY <2>1, <1>1, <1>2
  <2>2. CASE i # 1
    <3>1. i - 1 \in 1..n /\ (i - 1) + 1 = i /\ i \in 1..n
      BY <1>1, <1>4, <2>2
    <3>2. i + 1 # 1 /\ i + 1 # 2 /\ (i + 1) - 1 = i
      BY <1>1, <2>2
    <3>3. t[i + 1] = s[i] /\ Bs[i + 1] = As[i] /\ Bs[i] = As[i - 1]
      BY <1>1, <1>2, <1>4, <2>2, <3>2
    <3>4. Waits(G, s[i], As[i], As[i - 1])
      BY <3>1 DEF Chain
    <3> QED
      BY <3>3, <3>4
  <2> QED
    BY <2>1, <2>2
<1>5. Chain(G, t, Bs)
  BY <1>1, <1>3, <1>4 DEF Chain
<1>6. \A r : Hears(G, t, "call", r, Bs)
  BY <1>1, <1>2 DEF Hears
<1>7. /\ Sequence(t) /\ \E Cs : Chain(G, t, Cs) /\ \A r : Hears(G, t, "call", r, Cs)
  BY <1>1, <1>5, <1>6
<1> QED
  BY <1>7 DEF t

(* A call returns.                                                         *)
LEMMA OneTold ==
  ASSUME NEW G, NEW s, Sequence(s), s # <<>>, NEW As, Chain(G, s, As), NEW r, Found(r) \in As[1]
  PROVE  /\ Sequence(Tail(s))
         /\ \E Bs : Chain(G, Tail(s), Bs) /\ Hears(G, Tail(s), "return", r, Bs)
<1> DEFINE t == Tail(s)
           n == Len(s)
           Bs == [i \in 1..(n - 1) |-> As[i + 1]]
<1>1. /\ Sequence(t) /\ Len(t) = n - 1 /\ n >= 1 /\ n \in Nat
      /\ \A i \in 1..(n - 1) : t[i] = s[i + 1]
  BY TailSequence DEF Sequence
<1> HIDE DEF t
<1>2. \A i \in 1..(n - 1) : Bs[i] = As[i + 1] /\ i + 1 \in 1..n /\ i \in 1..n
  BY <1>1
<1>3. Sequence(Bs) /\ Len(Bs) = n - 1
  <2>1. Bs = [i \in 1..(n - 1) |-> Bs[i]] /\ n - 1 \in Nat
    BY <1>1
  <2> HIDE DEF Bs
  <2> QED
    BY <2>1, SequenceMade
<1> HIDE DEF Bs
<1>4. ASSUME NEW i \in 1..(n - 1), i + 1 \in 1..(n - 1)
      PROVE  Waits(G, t[i + 1], Bs[i + 1], Bs[i])
  <2>1. i + 1 \in 1..n /\ (i + 1) + 1 \in 1..n
    BY <1>1, <1>2, <1>4
  <2>2. Waits(G, s[(i + 1) + 1], As[(i + 1) + 1], As[i + 1])
    BY <2>1 DEF Chain
  <2> QED
    BY <1>1, <1>2, <1>4, <2>2
<1>5. Chain(G, t, Bs)
  BY <1>1, <1>3, <1>4 DEF Chain
<1>6. ASSUME t # <<>>
      PROVE  Waits(G, t[1], Bs[1], As[1])
  <2>1. Len(t) # 0
    BY <1>1, <1>6, TailSequence
  <2>2. 1 \in 1..(n - 1) /\ 1 + 1 \in 1..n /\ 1 \in 1..n
    BY <1>1, <2>1
  <2>3. t[1] = s[1 + 1] /\ Bs[1] = As[1 + 1]
    BY <1>1, <1>2, <2>2
  <2>4. Waits(G, s[1 + 1], As[1 + 1], As[1])
    BY <2>2 DEF Chain
  <2> QED
    BY <2>3, <2>4
<1>7. Hears(G, t, "return", r, Bs)
  BY <1>6 DEF Hears
<1>8. Sequence(t) /\ \E Cs : Chain(G, t, Cs) /\ Hears(G, t, "return", r, Cs)
  BY <1>1, <1>5, <1>7
<1> QED
  BY <1>8 DEF t

(* The innermost call is to return an answer in A.                         *)
TopAsked(A) ==
  /\ ~lit.visited
  /\ \E As : /\ Chain(Goal, stack, As) /\ Hears(Goal, stack, mode, ret, As)
             /\ As[1] = A

(* What the invariant says of the innermost call.                          *)
LEMMA VisitTop ==
  ASSUME VisitInv, stack # <<>>, Top.fn # "literal" \/ ~lit.visited
  PROVE  /\ ~lit.visited /\ Sequence(stack) /\ Top = stack[1]
         /\ \E A : /\ TopAsked(A)
                   /\ mode = "call" => Asked(Top, A)
                   /\ mode = "return" => \E B : Waits(Goal, Top, A, B) /\ Found(ret) \in B
<1>1. ~lit.visited /\ Sequence(stack)
  BY DEF VisitInv
<1>2. Top = stack[1]
  BY <1>1, TailSequence DEF Top
<1>3. PICK As : Chain(Goal, stack, As) /\ Hears(Goal, stack, mode, ret, As)
  BY <1>1 DEF VisitInv
<1>4. TopAsked(As[1])
  BY <1>1, <1>3 DEF TopAsked
<1> QED
  BY <1>1, <1>2, <1>3, <1>4 DEF Hears

(* A visit that panics has no more calls under way.                        *)
LEMMA PanicVisits == ASSUME VisitInv, Panics PROVE VisitInv'
<1> DEFINE none == <<>>
<1>1. stack' = none /\ orig' = orig /\ lit' = lit
  BY DEF Panics
<1>2. Sequence(none) /\ Len(none) = 0
  BY ShortSequences
<1>3. \A G : Chain(G, none, none) /\ Hears(G, none, mode', ret', none)
  BY <1>2 DEF Chain, Hears
<1>4. Goal' = Goal
  BY <1>1 DEF Goal, Entered
<1>5. ~lit'.visited => /\ Sequence(stack')
                       /\ \E As : Chain(Goal', stack', As) /\ Hears(Goal', stack', mode', ret', As)
  BY <1>1, <1>2, <1>3
<1>6. lit'.visited => Found(lit'.exits) \in Goal' /\ Stored(lit'.exits, Store) /\ stack' = <<>>
  BY <1>1, <1>4 DEF VisitInv
<1> QED
  BY <1>1, <1>5, <1>6 DEF VisitInv

(* The innermost call goes on as a call that owes the same.                *)
LEMMA OneCallVisits ==
  ASSUME VisitInv, stack # <<>>, NEW A, TopAsked(A), NEW F, Asked(F, A), Calls(<<F>>)
  PROVE  VisitInv'
<1>1. ~lit.visited /\ Sequence(stack)
  BY DEF VisitInv, TopAsked
<1>2. PICK As : Chain(Goal, stack, As) /\ As[1] = A
  BY DEF TopAsked
<1>3. stack' = <<F>> \o Tail(stack) /\ mode' = "call" /\ orig' = orig /\ lit' = lit
  BY DEF Calls
<1>4. Goal' = Goal
  BY <1>3 DEF Goal, Entered
<1>5. Sequence(stack') /\ Chain(Goal, stack', As) /\ Hears(Goal, stack', "call", ret', As)
  BY <1>1, <1>2, <1>3, OneAsked
<1> QED
  BY <1>1, <1>3, <1>4, <1>5 DEF VisitInv

(* It waits for another call.                                              *)
LEMMA TwoCallVisits ==
  ASSUME VisitInv, stack # <<>>, NEW A, TopAsked(A), NEW F, NEW H, NEW B,
         Asked(F, B), Waits(Goal, H, A, B), Calls(<<F, H>>)
  PROVE  VisitInv'
<1>1. ~lit.visited /\ Sequence(stack)
  BY DEF VisitInv, TopAsked
<1>2. PICK As : Chain(Goal, stack, As) /\ As[1] = A
  BY DEF TopAsked
<1>3. stack' = <<F, H>> \o Tail(stack) /\ mode' = "call" /\ orig' = orig /\ lit' = lit
  BY DEF Calls
<1>4. Goal' = Goal
  BY <1>3 DEF Goal, Entered
<1>5. Sequence(stack')
      /\ \E Bs : Chain(Goal, stack', Bs) /\ Hears(Goal, stack', "call", ret', Bs)
  BY <1>1, <1>2, <1>3, TwoAsked
<1> QED
  BY <1>1, <1>3, <1>4, <1>5 DEF VisitInv

(* It returns an answer.                                                   *)
LEMMA LeaveVisits ==
  ASSUME VisitInv, stack # <<>>, NEW A, TopAsked(A), NEW r, Found(r) \in A, Leaves(r)
  PROVE  VisitInv'
<1>1. ~lit.visited /\ Sequence(stack)
  BY DEF VisitInv, TopAsked
<1>2. PICK As : Chain(Goal, stack, As) /\ As[1] = A
  BY DEF TopAsked
<1>3. stack' = Tail(stack) /\ mode' = "return" /\ ret' = r /\ orig' = orig /\ lit' = lit
  BY DEF Leaves
<1>4. Goal' = Goal
  BY <1>3 DEF Goal, Entered
<1>5. Sequence(stack')
      /\ \E Bs : Chain(Goal, stack', Bs) /\ Hears(Goal, stack', "return", r, Bs)
  BY <1>1, <1>2, <1>3, OneTold
<1> QED
  BY <1>1, <1>3, <1>4, <1>5 DEF VisitInv

(* Exits that are not broken.                                              *)
LEMMA LeaveIfVisits ==
  ASSUME VisitInv, stack # <<>>, NEW A, TopAsked(A), NEW r, Sequence(r), LeavesIf(r),
         (\A i \in 1..Len(r) : r[i].st # Broken) => Found(r) \in A
  PROVE  VisitInv'
<1>1. DOMAIN r = 1..Len(r)
  BY SequenceTyped
<1>2. CASE \E i \in DOMAIN r : r[i].st = Broken
  BY <1>2, PanicVisits DEF LeavesIf
<1>3. CASE ~ \E i \in DOMAIN r : r[i].st = Broken
  <2>1. Leaves(r)
    BY <1>3 DEF LeavesIf
  <2> QED
    BY <1>1, <1>3, <2>1, LeaveVisits
<1> QED
  BY <1>2, <1>3

(* A statement that is asked about.                                        *)
LEMMA AskedStmt ==
  ASSUME NestedInv, VisitInv, Called("stmt")
  PROVE  /\ stack # <<>> /\ Top.st \in Store /\ Top.stmt \in Stmts /\ Top.stmt \in Task
         /\ \E A : /\ TopAsked(A) /\ To(Top.stmt, Top.st) \subseteq A
                   /\ \A X \in SUBSET Way : Justified(Foretold, Top.stmt, Top.st, X) => X \in A
<1>1. stack # <<>> /\ Top.fn = "stmt" /\ mode = "call"
  BY DEF Called
<1>2. Top.st \in Store /\ Top.stmt \in Stmts
  BY StmtTop, GoodStore
<1>3. Top.stmt \in Task
  BY <1>2 DEF Task
<1>4. PICK A : TopAsked(A) /\ Asked(Top, A)
  BY <1>1, VisitTop
<1>5. To(Top.stmt, Top.st) \subseteq A
  BY <1>1, <1>4 DEF Asked
<1>6. \A X \in SUBSET Way : Justified(Foretold, Top.stmt, Top.st, X) => X \in A
  BY <1>2, <1>3, <1>5, AnsweredFixed DEF To
<1> QED
  BY <1>1, <1>2, <1>3, <1>4, <1>5, <1>6

(* A single exit.                                                          *)
LEMMA FoundOne ==
  ASSUME NEW st, NEW b
  PROVE  Found(<<Exit(st, b)>>) = {Exit(Unused(st), b)}
<1> DEFINE s == <<Exit(st, b)>>
<1>1. Len(s) = 1 /\ s[1].st = st /\ s[1].branch = b
  BY DEF Exit
<1> HIDE DEF s
<1>2. 1..Len(s) = {1}
  BY <1>1
<1>3. Found(s) = {Exit(Unused(st), b)}
  BY <1>1, <1>2 DEF Found
<1> QED
  BY <1>3 DEF s

(* The ways that exits are.                                                *)
LEMMA BranchWays ==
  /\ \A st \in Store, s \in Stmts :
       s.kind = "branch" => Exit(Unused(st), Branch(s.tok, s.label)) \in Way
  /\ \A st \in Store : Exit(Unused(st), NoBranch) \in Way
  /\ \A st \in Store, x \in Way : Exit(Unused(st), x.branch) \in Way
  /\ \A x \in Way : x = Exit(x.st, x.branch) /\ x.st \in Plain /\ Exit(x.st, NoBranch) \in Way
<1>1. \A st \in Store, s \in Stmts :
        s.kind = "branch" => Exit(Unused(st), Branch(s.tok, s.label)) \in Way
  BY PlainFacts DEF Way, Exit, Early
<1>2. \A st \in Store : Exit(Unused(st), NoBranch) \in Way
  BY PlainFacts DEF Way, Exit
<1>3. \A x \in Way : x = Exit(x.st, x.branch) /\ x.st \in Plain /\ Exit(x.st, NoBranch) \in Way
  BY DEF Way, Exit
<1>4. \A st \in Store, x \in Way : Exit(Unused(st), x.branch) \in Way
  BY PlainFacts DEF Way, Exit
<1> QED
  BY <1>1, <1>2, <1>3, <1>4

(* Every store is like itself.                                             *)
LEMMA AlikeItself ==
  ASSUME NEW st \in Store
  PROVE  st \in Any /\ Alike(st, st) /\ Alike(Opened(st), Opened(st)) /\ Opened(st) \in Store
         /\ Opened(st) # Broken
<1>1. st \in Any /\ Alike(st, st)
  BY AlikeRelation DEF Any
<1> QED
  BY <1>1, AlikeOpened, AlikeUnused, AlikeStores

(* visitStmt answers a simple statement with what it does to the store.    *)
LEMMA SimpleAsked == ASSUME NestedInv, VisitInv, visitSimple PROVE VisitInv'
<1>1. Called("stmt") /\ Top.stmt.kind = "simple"
  BY DEF visitSimple, Visiting
<1>2. stack # <<>> /\ Top.st \in Store /\ Top.stmt \in SimpleStmt
  BY <1>1, AskedStmt, StmtParts
<1>3. PICK A : /\ TopAsked(A)
               /\ \A X \in SUBSET Way : Justified(Foretold, Top.stmt, Top.st, X) => X \in A
  BY <1>1, AskedStmt
<1> DEFINE st == AfterSimple(Top.st, Top.stmt)
           X == {Exit(Unused(st), NoBranch)}
           r == <<Exit(st, NoBranch)>>
<1>4. st \in Any
  BY <1>2, AlikeItself, AlikeSimple
<1>5. Found(r) = X /\ Sequence(r) /\ Len(r) = 1 /\ r[1].st = st
  BY FoundOne, ShortSequences DEF Exit
<1>6. ASSUME st # Broken
      PROVE  X \in A
  <2>1. X \in SUBSET Way
    BY <1>4, <1>6, BranchWays DEF Any
  <2>2. Justified(Foretold, Top.stmt, Top.st, X)
    BY <1>1, <1>6 DEF Justified, AsSimple
  <2> QED
    BY <1>3, <2>1, <2>2
<1>7. LeavesIf(r)
  BY DEF visitSimple
<1> HIDE DEF r, X, st
<1>8. (\A i \in 1..Len(r) : r[i].st # Broken) => Found(r) \in A
  BY <1>5, <1>6
<1> QED
  BY <1>2, <1>3, <1>5, <1>7, <1>8, LeaveIfVisits

(* It answers a branch statement with the branch.                          *)
LEMMA BranchAsked == ASSUME NestedInv, VisitInv, visitBranchStmt PROVE VisitInv'
<1>1. Called("stmt") /\ Top.stmt.kind = "branch"
  BY DEF visitBranchStmt, Visiting
<1>2. stack # <<>> /\ Top.st \in Store /\ Top.stmt \in Stmts
  BY <1>1, AskedStmt
<1>3. PICK A : /\ TopAsked(A)
               /\ \A X \in SUBSET Way : Justified(Foretold, Top.stmt, Top.st, X) => X \in A
  BY <1>1, AskedStmt
<1> DEFINE b == Branch(Top.stmt.tok, Top.stmt.label)
           X == {Exit(Unused(Top.st), b)}
           r == <<Exit(Top.st, b)>>
<1>5. Found(r) = X
  BY FoundOne
<1>6. X \in A
  <2>1. X \in SUBSET Way
    BY <1>1, <1>2, BranchWays
  <2>2. Justified(Foretold, Top.stmt, Top.st, X)
    BY <1>1 DEF Justified, AsBranch
  <2> QED
    BY <1>3, <2>1, <2>2
<1>7. Leaves(r)
  BY DEF visitBranchStmt
<1> HIDE DEF r, X, b
<1> QED
  BY <1>2, <1>3, <1>5, <1>6, <1>7, LeaveVisits

(* It answers a labeled statement with the answer to the statement inside. *)
LEMMA LabeledAsked == ASSUME NestedInv, VisitInv, visitLabeledStmt PROVE VisitInv'
<1>1. Called("stmt") /\ Top.stmt.kind = "labeled"
  BY DEF visitLabeledStmt, Visiting
<1>2. stack # <<>> /\ Top.st \in Store /\ Top.stmt \in Stmts
  BY <1>1, AskedStmt
<1>3. PICK A : /\ TopAsked(A)
               /\ \A X \in SUBSET Way : Justified(Foretold, Top.stmt, Top.st, X) => X \in A
  BY <1>1, AskedStmt
<1> DEFINE F == Visit(Top.st, Top.stmt.stmt)
<1>4. F.fn = "stmt" /\ F.st = Top.st /\ F.stmt = Top.stmt.stmt
  BY DEF Visit
<1>5. ASSUME NEW X \in To(Top.stmt.stmt, Top.st)
      PROVE  X \in A
  <2>1. Justified(Foretold, Top.stmt, Top.st, X)
    BY <1>1 DEF Justified, To, Answered
  <2> QED
    BY <1>3, <2>1 DEF To
<1>6. Calls(<<F>>)
  BY DEF visitLabeledStmt
<1> HIDE DEF F
<1>7. Asked(F, A)
  BY <1>4, <1>5 DEF Asked
<1> QED
  BY <1>2, <1>3, <1>6, <1>7, OneCallVisits

(* The works of a sequence are one by one those of its elements.           *)
LEMMA WorksOf ==
  ASSUME NEW s, Sequence(s)
  PROVE  /\ \A i \in DOMAIN s : Work(Unused(s[i].st), s[i].at) \in WorkSet(s)
         /\ \A i \in DOMAIN s : Exit(Unused(s[i].st), s[i].branch) \in Found(s)
         /\ DOMAIN s = 1..Len(s)
BY SequenceTyped DEF WorkSet, Found

(* A list of statements is begun.                                          *)
LEMMA NewListAsked ==
  ASSUME NEW st \in Store, NEW stmts \in Seq(Stmts), NEW sw \in BOOLEAN
  PROVE  Asked(NewList(st, stmts, sw), To(ListOf(stmts, sw), st))
<1> DEFINE f == NewList(st, stmts, sw)
           works == IF stmts = <<>> THEN <<>>
                    ELSE IF sw THEN [i \in DOMAIN stmts |-> Work(st, i)] ELSE <<Work(st, 1)>>
           exits == IF stmts = <<>> \/ sw THEN <<Exit(st, NoBranch)>> ELSE <<>>
           A == To(ListOf(stmts, sw), st)
<1>1. /\ f.fn = "list" /\ f.stmts = stmts /\ f.todo = works /\ f.seen = works /\ f.exits = exits
      /\ f.isASwitch \in BOOLEAN /\ (f.isASwitch <=> sw)
  BY DEF NewList
<1> HIDE DEF f
<1>2. Sequence(stmts) /\ DOMAIN stmts = 1..Len(stmts)
  BY TypedSequence, SequenceTyped
<1>3. Stored(works, Store)
      /\ (stmts # <<>> => IF sw THEN \A i \in DOMAIN stmts : Work(Unused(st), i) \in WorkSet(works)
                                 ELSE Work(Unused(st), 1) \in WorkSet(works))
  <2>1. CASE stmts = <<>>
    BY <2>1, StoredShort
  <2>2. CASE stmts # <<>> /\ sw
    <3> DEFINE every == [i \in DOMAIN stmts |-> Work(st, i)]
    <3>1. \A i \in DOMAIN stmts : every[i].st = st /\ every[i].at = i
      BY DEF Work
    <3>2. works = every /\ every = [i \in DOMAIN stmts |-> every[i]] /\ DOMAIN every = DOMAIN stmts
      BY <2>2
    <3> HIDE DEF every, works
    <3>3. Stored(every, Store)
      BY <1>2, <3>1, <3>2, StoredMapped
    <3>4. \A i \in DOMAIN stmts : Work(Unused(st), i) \in WorkSet(every)
      BY <3>1, <3>2, <3>3, WorksOf DEF Stored
    <3> QED
      BY <2>2, <3>2, <3>3, <3>4
  <2>3. CASE stmts # <<>> /\ ~sw
    <3> DEFINE one == <<Work(st, 1)>>
    <3>1. one[1].st = st /\ one[1].at = 1 /\ DOMAIN one = 1..1
      BY DEF Work
    <3>2. Stored(one, Store) /\ works = one
      BY <2>3, StoredShort
    <3> HIDE DEF one, works
    <3>3. Work(Unused(st), 1) \in WorkSet(one)
      BY <3>1, <3>2, WorksOf DEF Stored
    <3> QED
      BY <2>3, <3>2, <3>3
  <2> QED
    BY <2>1, <2>2, <2>3
<1>4. /\ Found(exits) \in SUBSET Way
      /\ stmts = <<>> \/ sw => Exit(Unused(st), NoBranch) \in Found(exits)
  <2>1. CASE stmts = <<>> \/ sw
    <3>1. Found(exits) = {Exit(Unused(st), NoBranch)}
      BY <2>1, FoundOne
    <3> QED
      BY <2>1, <3>1, BranchWays
  <2>2. CASE ~(stmts = <<>> \/ sw)
    <3>1. exits = <<>>
      BY <2>2
    <3>2. Len(<<>>) = 0
      BY ShortSequences
    <3>3. Found(<<>>) = {}
      BY <3>2 DEF Found
    <3> QED
      BY <2>2, <3>1, <3>3
  <2> QED
    BY <2>1, <2>2
<1> HIDE DEF works, exits
<1>5. ASSUME NEW W, NEW X \in SUBSET Way, WorkSet(works) \subseteq W, Found(exits) \subseteq X,
             \A w \in W : \/ Handled(Foretold, stmts, f.isASwitch, w, W, X)
                          \/ w \in WorkSet(works) /\ w \notin WorkSet(works) /\ w \notin {}
      PROVE  X \in A
  <2>1. Begun(stmts, sw, st, W, X)
    BY <1>3, <1>4, <1>5 DEF Begun
  <2>2. \A w \in W : Handled(Foretold, stmts, f.isASwitch, w, W, X)
    BY <1>5
  <2> DEFINE q == ListOf(stmts, sw)
  <2>3. q \in Task /\ q.stmts = stmts
    BY ListTask
  <2>4. CASE sw
    <3>1. f.isASwitch = TRUE /\ Begun(stmts, TRUE, st, W, X) /\ q.kind = "clauses"
      BY <1>1, <2>1, <2>4, ListTask DEF Begun
    <3>2. AsList(Foretold, stmts, TRUE, st, X)
      BY <2>2, <3>1 DEF AsList
    <3> HIDE DEF q
    <3>3. Justified(Foretold, q, st, X)
      BY <2>3, <3>1, <3>2 DEF Justified
    <3> QED
      BY <2>3, <3>3, AnsweredFixed DEF To, q
  <2>5. CASE ~sw
    <3>1. f.isASwitch = FALSE /\ Begun(stmts, FALSE, st, W, X) /\ q.kind = "list"
      BY <1>1, <2>1, <2>5, ListTask DEF Begun
    <3>2. AsList(Foretold, stmts, FALSE, st, X)
      BY <2>2, <3>1 DEF AsList
    <3> HIDE DEF q
    <3>3. Justified(Foretold, q, st, X)
      BY <2>3, <3>1, <3>2 DEF Justified
    <3> QED
      BY <2>3, <3>3, AnsweredFixed DEF To, q
  <2> QED
    BY <2>4, <2>5
<1> HIDE DEF A
<1>6. ListOwes(f, {}, A)
  BY <1>1, <1>3, <1>4, <1>5 DEF ListOwes
<1>7. Asked(f, A)
  BY <1>1, <1>6 DEF Asked
<1> QED
  BY <1>7 DEF f, A

(* What is found in two lists of exits, one after the other.               *)
LEMMA FoundJoined ==
  ASSUME NEW s, Sequence(s), NEW t, Sequence(t)
  PROVE  Found(s \o t) = Found(s) \cup Found(t)
<1> DEFINE u == s \o t
<1>1. /\ Sequence(u) /\ Len(u) = Len(s) + Len(t) /\ Len(s) \in Nat /\ Len(t) \in Nat
      /\ \A i \in 1..Len(s) : u[i] = s[i]
      /\ \A i \in 1..Len(t) : u[Len(s) + i] = t[i]
      /\ \A i \in 1..Len(u) : i \in 1..Len(s) \/ \E j \in 1..Len(t) : i = Len(s) + j
  BY SequencesJoined DEF Sequence
<1> HIDE DEF u
<1>2. \A i \in 1..Len(s) : i \in 1..Len(u)
  BY <1>1
<1>3. \A i \in 1..Len(t) : Len(s) + i \in 1..Len(u)
  BY <1>1
<1> DEFINE out(x) == Exit(Unused(x.st), x.branch)
<1>4. Found(s) = {out(s[i]) : i \in 1..Len(s)} /\ Found(t) = {out(t[i]) : i \in 1..Len(t)}
      /\ Found(u) = {out(u[i]) : i \in 1..Len(u)}
  BY DEF Found
<1> HIDE DEF out
<1>5. Found(u) \subseteq Found(s) \cup Found(t)
  <2> SUFFICES ASSUME NEW i \in 1..Len(u) PROVE out(u[i]) \in Found(s) \cup Found(t)
    BY <1>4
  <2> QED
    BY <1>1, <1>4
<1>6. Found(s) \subseteq Found(u)
  BY <1>1, <1>2, <1>4
<1>7. Found(t) \subseteq Found(u)
  <2> SUFFICES ASSUME NEW i \in 1..Len(t) PROVE out(t[i]) \in Found(u)
    BY <1>4
  <2>1. out(u[Len(s) + i]) \in Found(u)
    BY <1>3, <1>4
  <2> QED
    BY <1>1, <2>1
<1> QED
  BY <1>5, <1>6, <1>7 DEF u

(* The block of every exit is closed, after deps has been given back.      *)
LEMMA EndAsked ==
  ASSUME NEW r, Stored(r, Store), Found(r) \in SUBSET Way, NEW deps \in Short,
         NEW e, e = endBlocks(released(r, deps))
  PROVE  /\ Sequence(e) /\ Len(e) = Len(r)
         /\ (\A i \in 1..Len(e) : e[i].st # Broken) =>
              Found(e) \in SUBSET Way /\ Ended(Found(r), deps, Found(e)) /\ Stored(e, Store)
<1> DEFINE n == Len(r)
           g == released(r, deps)
           c(i) == Closed(Release(r[i].st, deps))
<1>1. n \in Nat /\ DOMAIN r = 1..n /\ \A i \in 1..n : r[i].st \in Store
  BY SequenceTyped DEF Stored, Sequence
<1> HIDE DEF n
<1>2. g = [i \in 1..n |-> Exit(Release(r[i].st, deps), r[i].branch)]
  BY <1>1 DEF released
<1>3. DOMAIN g = 1..n
      /\ \A i \in 1..n : g[i].st = Release(r[i].st, deps) /\ g[i].branch = r[i].branch
  BY <1>2 DEF Exit
<1>4. e = [i \in 1..n |-> Exit(Closed(g[i].st), g[i].branch)]
  BY <1>3 DEF endBlocks
<1> HIDE DEF g
<1>5. \A i \in 1..n : e[i].st = c(i) /\ e[i].branch = r[i].branch
  BY <1>3, <1>4 DEF Exit
<1>6. Sequence(e) /\ Len(e) = n
  <2>1. e = [i \in 1..n |-> e[i]]
    BY <1>4
  <2> QED
    BY <1>1, <2>1, SequenceMade
<1> HIDE DEF c
<1>7. ASSUME \A i \in 1..Len(e) : e[i].st # Broken
      PROVE  /\ Found(e) \in SUBSET Way /\ Ended(Found(r), deps, Found(e)) /\ Stored(e, Store)
  <2>1. \A i \in 1..n : c(i) # Broken
    BY <1>5, <1>6, <1>7
  <2>2. ASSUME NEW i \in 1..n
        PROVE  LET y == Exit(Unused(r[i].st), r[i].branch)
                   st == Closed(Release(y.st, deps))
               IN  /\ y \in Found(r) /\ y \in Way /\ c(i) \in Store
                   /\ st # Broken /\ Unused(st) = Unused(c(i)) /\ y.branch = r[i].branch
    <3> DEFINE u == Unused(r[i].st)
               y == Exit(u, r[i].branch)
               st == Closed(Release(u, deps))
    <3>1. y \in Found(r) /\ y.branch = r[i].branch /\ y.st = u
      BY <1>1 DEF Found, n, Exit
    <3>2. y \in Way
      BY <3>1
    <3>3. r[i].st \in Store /\ u \in Store /\ Equal(r[i].st, u)
      BY <1>1, UnusedFacts
    <3> HIDE DEF u
    <3>4. Alike(r[i].st, u)
      BY <3>3, AlikeStores
    <3>5. Alike(Release(r[i].st, deps), Release(u, deps))
      BY <3>4, AlikeRelease
    <3>6. Alike(c(i), st)
      BY <3>5, AlikeClosed DEF c
    <3>7. c(i) # Broken
      BY <2>1
    <3>8. st # Broken /\ Unused(st) = Unused(c(i)) /\ c(i) \in Store
      BY <3>6, <3>7, AlikeUnused
    <3> QED
      BY <3>1, <3>2, <3>8 DEF u
  <2>3. Found(e) = {Exit(Unused(e[i].st), e[i].branch) : i \in 1..n}
    BY <1>6 DEF Found
  <2>4. Found(e) = {Exit(Unused(c(i)), r[i].branch) : i \in 1..n}
    BY <1>5, <2>3
  <2>5. ASSUME NEW i \in 1..n
        PROVE  Exit(Unused(c(i)), r[i].branch) \in Way
    <3>1. Exit(Unused(r[i].st), r[i].branch) \in Way /\ c(i) \in Store
          /\ Exit(Unused(r[i].st), r[i].branch).branch = r[i].branch
      BY <2>2
    <3> QED
      BY <3>1, BranchWays
  <2>6. Found(e) \in SUBSET Way
    BY <2>4, <2>5
  <2>7. Ended(Found(r), deps, Found(e))
    <3> SUFFICES ASSUME NEW y \in Found(r)
                 PROVE  LET st == Closed(Release(y.st, deps))
                        IN  st # Broken /\ Exit(Unused(st), y.branch) \in Found(e)
      BY DEF Ended
    <3>1. PICK i \in 1..n : y = Exit(Unused(r[i].st), r[i].branch)
      BY DEF Found, n
    <3>2. Exit(Unused(c(i)), r[i].branch) \in Found(e)
      BY <2>4
    <3> QED
      BY <2>2, <3>1, <3>2
  <2>8. Stored(e, Store)
    BY <1>5, <1>6, <2>2 DEF Stored
  <2> QED
    BY <2>6, <2>7, <2>8
<1> QED
  BY <1>6, <1>7 DEF n

(* A block without anything to give back.                                  *)
LEMMA EndBlocksOnly ==
  ASSUME NEW r, Sequence(r)
  PROVE  endBlocks(r) = endBlocks(released(r, <<>>))
<1> DEFINE g == released(r, <<>>)
<1>1. DOMAIN g = DOMAIN r /\ \A i \in DOMAIN r : g[i].st = r[i].st /\ g[i].branch = r[i].branch
  BY ReleaseShort DEF released, Exit
<1> HIDE DEF g
<1>2. endBlocks(r) = endBlocks(g)
  BY <1>1 DEF endBlocks
<1> QED
  BY <1>2 DEF g

(* What a frame that waits is told.                                        *)
LEMMA ToldTop ==
  ASSUME NestedInv, VisitInv, stack # <<>>, mode = "return", Top.fn # "literal"
  PROVE  /\ Stored(ret, Store) /\ Found(ret) \in SUBSET Way
         /\ \E A, B : TopAsked(A) /\ Waits(Goal, Top, A, B) /\ Found(ret) \in B
<1>1. PICK d : Stored(ret, Good(orig, Expects(Top, d)))
  BY TopFrame
<1>2. Stored(ret, Store)
  BY <1>1 DEF Stored, Good
<1>3. PICK A, B : TopAsked(A) /\ Waits(Goal, Top, A, B) /\ Found(ret) \in B
  BY VisitTop
<1>4. Found(ret) \in SUBSET Way
  BY <1>3 DEF Waits
<1> QED
  BY <1>2, <1>3, <1>4

(* A list of statements is visited, and a frame waits to end the block.    *)
LEMMA BlockAsked ==
  ASSUME NestedInv, VisitInv, Called("stmt"), NEW stmts \in Seq(Stmts), NEW sw \in BOOLEAN,
         NEW st \in Store, NEW A, TopAsked(A), NEW H, NEW deps, deps \in Short,
         \/ H.fn = "block" /\ deps = <<>>
         \/ H.fn = "switch" /\ deps = H.deps,
         \A Y \in SUBSET Way, X \in SUBSET Way :
           <<ListOf(stmts, sw), Unused(st), Y>> \in Foretold /\ Ended(Y, deps, X) => X \in A,
         Calls(<<NewList(st, stmts, sw), H>>)
  PROVE  VisitInv'
<1> DEFINE B == To(ListOf(stmts, sw), st)
           F == NewList(st, stmts, sw)
<1>1. stack # <<>>
  BY DEF Called
<1>2. Asked(F, B)
  BY NewListAsked
<1>3. B \subseteq SUBSET Way
  BY DEF To
<1>4. EndWaits(deps, A, B)
  BY DEF EndWaits, To, Answered
<1> HIDE DEF B, F
<1>5. Waits(Goal, H, A, B)
  BY <1>3, <1>4 DEF Waits
<1>6. Calls(<<F, H>>)
  BY DEF F
<1> QED
  BY <1>1, <1>2, <1>5, <1>6, TwoCallVisits

(* visitBlockStmt.                                                         *)
LEMMA BlockBegunAsked == ASSUME NestedInv, VisitInv, visitBlockStmt PROVE VisitInv'
<1>1. Called("stmt") /\ Top.stmt.kind = "block"
  BY DEF visitBlockStmt, Visiting
<1>2. stack # <<>> /\ Top.st \in Store /\ Top.stmt \in Stmts /\ Top.stmt.stmts \in Seq(Stmts)
  BY <1>1, AskedStmt, StmtParts
<1>3. PICK A : /\ TopAsked(A)
               /\ \A X \in SUBSET Way : Justified(Foretold, Top.stmt, Top.st, X) => X \in A
  BY <1>1, AskedStmt
<1>4. Opened(Top.st) \in Store
  BY <1>2, AlikeItself
<1> DEFINE H == [fn |-> "block"]
<1>5. H.fn = "block"
  OBVIOUS
<1>6. Calls(<<NewList(Opened(Top.st), Top.stmt.stmts, FALSE), H>>)
  BY DEF visitBlockStmt
<1> HIDE DEF H
<1>7. \A Y \in SUBSET Way, X \in SUBSET Way :
        <<ListOf(Top.stmt.stmts, FALSE), Unused(Opened(Top.st)), Y>> \in Foretold
        /\ Ended(Y, <<>>, X) => X \in A
  BY <1>1, <1>3 DEF Justified, AsBlock
<1>8. <<>> \in Short
  BY DEF Short
<1> QED
  BY <1>1, <1>2, <1>3, <1>4, <1>5, <1>6, <1>7, <1>8, BlockAsked

(* visitSelectStmt.                                                        *)
LEMMA SelectBegunAsked == ASSUME NestedInv, VisitInv, visitSelectStmt PROVE VisitInv'
<1>1. Called("stmt") /\ Top.stmt.kind = "select"
  BY DEF visitSelectStmt, Visiting
<1>2. stack # <<>> /\ Top.st \in Store /\ Top.stmt \in Stmts /\ Top.stmt.clauses \in Seq(Stmts)
  BY <1>1, AskedStmt, StmtParts
<1>3. PICK A : /\ TopAsked(A)
               /\ \A X \in SUBSET Way : Justified(Foretold, Top.stmt, Top.st, X) => X \in A
  BY <1>1, AskedStmt
<1>4. Opened(Top.st) \in Store
  BY <1>2, AlikeItself
<1> DEFINE H == [fn |-> "block"]
<1>5. H.fn = "block"
  OBVIOUS
<1>6. Calls(<<NewList(Opened(Top.st), Top.stmt.clauses, TRUE), H>>)
  BY DEF visitSelectStmt
<1> HIDE DEF H
<1>7. \A Y \in SUBSET Way, X \in SUBSET Way :
        <<ListOf(Top.stmt.clauses, TRUE), Unused(Opened(Top.st)), Y>> \in Foretold
        /\ Ended(Y, <<>>, X) => X \in A
  BY <1>1, <1>3 DEF Justified, AsBlock
<1>8. <<>> \in Short
  BY DEF Short
<1> QED
  BY <1>1, <1>2, <1>3, <1>4, <1>5, <1>6, <1>7, <1>8, BlockAsked

(* Their block ends on all the exits.                                      *)
LEMMA BlockEndAsked == ASSUME NestedInv, VisitInv, blockVisited PROVE VisitInv'
<1>1. stack # <<>> /\ mode = "return" /\ Top.fn = "block"
  BY DEF blockVisited, Returned
<1>2. Stored(ret, Store) /\ Found(ret) \in SUBSET Way
  BY <1>1, ToldTop
<1>3. PICK A, B : TopAsked(A) /\ Waits(Goal, Top, A, B) /\ Found(ret) \in B
  BY <1>1, ToldTop
<1>4. EndWaits(<<>>, A, B)
  BY <1>1, <1>3 DEF Waits
<1> DEFINE none == <<>>
           e == endBlocks(ret)
<1>5. none \in Short /\ e = endBlocks(released(ret, none))
  BY <1>2, EndBlocksOnly DEF Short, Stored
<1>6. LeavesIf(e)
  BY DEF blockVisited
<1>7. \A X \in SUBSET Way : Ended(Found(ret), none, X) => X \in A
  BY <1>3, <1>4 DEF EndWaits
<1> HIDE DEF e, none
<1>8. Sequence(e) /\ ((\A i \in 1..Len(e) : e[i].st # Broken) => Found(e) \in A)
  BY <1>2, <1>5, <1>7, EndAsked
<1> QED
  BY <1>1, <1>3, <1>6, <1>8, LeaveIfVisits

(* The end of a switch gives back what the tag borrowed, too.              *)
LEMMA SwitchEndAsked == ASSUME NestedInv, VisitInv, switchVisited PROVE VisitInv'
<1>1. stack # <<>> /\ mode = "return" /\ Top.fn = "switch"
  BY DEF switchVisited, Returned
<1>2. Stored(ret, Store) /\ Found(ret) \in SUBSET Way
  BY <1>1, ToldTop
<1>3. PICK A, B : TopAsked(A) /\ Waits(Goal, Top, A, B) /\ Found(ret) \in B
  BY <1>1, ToldTop
<1>4. EndWaits(Top.deps, A, B)
  BY <1>1, <1>3 DEF Waits
<1> DEFINE e == endBlocks(released(ret, Top.deps))
<1>5. LeavesIf(e)
  BY DEF switchVisited
<1>7. Top.deps \in Short /\ \A X \in SUBSET Way : Ended(Found(ret), Top.deps, X) => X \in A
  BY <1>3, <1>4 DEF EndWaits
<1>8. e = endBlocks(released(ret, Top.deps))
  OBVIOUS
<1> HIDE DEF e
<1>9. Sequence(e) /\ ((\A i \in 1..Len(e) : e[i].st # Broken) => Found(e) \in A)
  BY <1>2, <1>7, <1>8, EndAsked
<1> QED
  BY <1>1, <1>3, <1>5, <1>9, LeaveIfVisits

(* visitSwitchStmt.                                                        *)
LEMMA SwitchBegunAsked == ASSUME NestedInv, VisitInv, visitSwitchStmt PROVE VisitInv'
<1>1. Called("stmt") /\ Top.stmt.kind = "switch"
  BY DEF visitSwitchStmt, Visiting
<1>2. /\ stack # <<>> /\ Top.st \in Store /\ Top.stmt \in Stmts /\ Top.stmt.clauses \in Seq(Stmts)
      /\ Top.stmt.init \in SimpleStmt
  BY <1>1, AskedStmt, StmtParts
<1>3. PICK A : /\ TopAsked(A)
               /\ \A X \in SUBSET Way : Justified(Foretold, Top.stmt, Top.st, X) => X \in A
  BY <1>1, AskedStmt
<1> DEFINE s == Top.stmt
           st == AfterSimple(Opened(Top.st), s.init)
           u == After(st, s.tag)
           H == [fn |-> "switch", deps |-> Deps(st, s.tag)]
<1>4. st \in Any
  BY <1>2, AlikeItself, AlikeSimple
<1>5. CASE st = Broken \/ (s.tag # NoName /\ ~CanRead(st, s.tag))
  <2>1. Panics
    BY <1>5 DEF visitSwitchStmt
  <2> QED
    BY <2>1, PanicVisits
<1>6. CASE ~(st = Broken \/ (s.tag # NoName /\ ~CanRead(st, s.tag)))
  <2>1. CallsIf(u, <<NewList(u, s.clauses, TRUE), H>>)
    BY <1>6 DEF visitSwitchStmt
  <2>2. CASE u = Broken
    BY <2>1, <2>2, PanicVisits DEF CallsIf
  <2>3. CASE u # Broken
    <3>1. st \in Store
      BY <1>4, <1>6 DEF Any
    <3>2. u \in Any /\ Deps(st, s.tag) \in Short
      <4> HIDE DEF st
      <4>1. Equal(st, st) /\ (s.tag = NoName \/ CanRead(st, s.tag))
        BY <1>6, <3>1, AlikeItself, AlikeStores
      <4> QED
        BY <3>1, <4>1, AlikeAfter
    <3>3. u \in Store
      BY <2>3, <3>2 DEF Any
    <3>4. H.fn = "switch" /\ H.deps = Deps(st, s.tag)
      OBVIOUS
    <3>5. Calls(<<NewList(u, s.clauses, TRUE), H>>)
      BY <2>1, <2>3 DEF CallsIf
    <3>6. \A Y \in SUBSET Way, X \in SUBSET Way :
            <<ListOf(s.clauses, TRUE), Unused(u), Y>> \in Foretold
            /\ Ended(Y, Deps(st, s.tag), X) => X \in A
      BY <1>1, <1>3, <1>6, <2>3 DEF Justified, AsSwitch
    <3> DEFINE cs == s.clauses
               deps == Deps(st, s.tag)
    <3>7. cs \in Seq(Stmts)
      BY <1>2
    <3>8. /\ deps \in Short /\ H.deps = deps /\ Calls(<<NewList(u, cs, TRUE), H>>)
          /\ \A Y \in SUBSET Way, X \in SUBSET Way :
               <<ListOf(cs, TRUE), Unused(u), Y>> \in Foretold /\ Ended(Y, deps, X) => X \in A
      BY <3>2, <3>4, <3>5, <3>6
    <3> HIDE DEF H, u, st, s, cs, deps
    <3> QED
      BY <1>1, <1>3, <3>3, <3>4, <3>7, <3>8, BlockAsked
  <2> QED
    BY <2>2, <2>3
<1> QED
  BY <1>5, <1>6

(* What is owed for fewer answers is owed for more.                        *)
LEMMA ListOwesMore ==
  ASSUME NEW f, NEW cur, NEW A, NEW A2, A \subseteq A2, ListOwes(f, cur, A)
  PROVE  ListOwes(f, cur, A2)
BY DEF ListOwes

(* A list of statements is visited, in place of what it is the body of.    *)
LEMMA BodyAsked ==
  ASSUME VisitInv, stack # <<>>, NEW A, TopAsked(A), NEW st \in Store, NEW stmts \in Seq(Stmts),
         To(ListOf(stmts, FALSE), st) \subseteq A, Calls(<<NewList(st, stmts, FALSE)>>)
  PROVE  VisitInv'
<1> DEFINE F == NewList(st, stmts, FALSE)
           B == To(ListOf(stmts, FALSE), st)
<1>1. F.fn = "list"
  BY DEF NewList
<1>2. Asked(F, B) /\ Calls(<<F>>)
  BY NewListAsked
<1> HIDE DEF F
<1>3. ListOwes(F, {}, B)
  BY <1>1, <1>2 DEF Asked
<1>4. ListOwes(F, {}, A)
  <2>1. B \subseteq A
    OBVIOUS
  <2> HIDE DEF B
  <2> QED
    BY <1>3, <2>1, ListOwesMore
<1>5. Asked(F, A)
  BY <1>1, <1>4 DEF Asked
<1> QED
  BY <1>2, <1>5, OneCallVisits

(* visitCommClause.                                                        *)
LEMMA CommAsked == ASSUME NestedInv, VisitInv, visitCommClause PROVE VisitInv'
<1>1. Called("stmt") /\ Top.stmt.kind = "comm"
  BY DEF visitCommClause, Visiting
<1>2. /\ stack # <<>> /\ Top.st \in Store /\ Top.stmt \in Stmts /\ Top.stmt.comm \in SimpleStmt
      /\ Top.stmt.body \in Seq(Stmts)
  BY <1>1, AskedStmt, StmtParts
<1>3. PICK A : /\ TopAsked(A)
               /\ \A X \in SUBSET Way : Justified(Foretold, Top.stmt, Top.st, X) => X \in A
  BY <1>1, AskedStmt
<1> DEFINE s == Top.stmt
           st == AfterSimple(Top.st, s.comm)
           stmts == s.body
<1>4. st \in Any
  BY <1>2, AlikeItself, AlikeSimple
<1>5. CallsIf(st, <<NewList(st, stmts, FALSE)>>)
  BY DEF visitCommClause
<1>6. CASE st = Broken
  BY <1>5, <1>6, PanicVisits DEF CallsIf
<1>7. CASE st # Broken
  <2>1. st \in Store /\ stmts \in Seq(Stmts)
    BY <1>2, <1>4, <1>7 DEF Any
  <2>2. Calls(<<NewList(st, stmts, FALSE)>>)
    BY <1>5, <1>7 DEF CallsIf
  <2>3. To(ListOf(stmts, FALSE), st) \subseteq A
    <3> SUFFICES ASSUME NEW X \in To(ListOf(stmts, FALSE), st) PROVE X \in A
      OBVIOUS
    <3>1. X \in SUBSET Way /\ <<ListOf(stmts, FALSE), Unused(st), X>> \in Foretold
      BY DEF To, Answered
    <3>2. Justified(Foretold, s, Top.st, X)
      BY <1>1, <1>7, <3>1 DEF Justified, AsComm
    <3> QED
      BY <1>3, <3>1, <3>2
  <2> HIDE DEF st, stmts
  <2> QED
    BY <1>2, <1>3, <2>1, <2>2, <2>3, BodyAsked
<1> QED
  BY <1>6, <1>7

(* visitIfStmt visits the one branch first ...                             *)
LEMMA IfAsked == ASSUME NestedInv, VisitInv, visitIfStmt PROVE VisitInv'
<1>1. Called("stmt") /\ Top.stmt.kind = "if"
  BY DEF visitIfStmt, Visiting
<1>2. /\ stack # <<>> /\ Top.st \in Store /\ Top.stmt \in Stmts /\ Top.stmt.init \in SimpleStmt
      /\ Top.stmt.then \in Stmts /\ Top.stmt.else \in Stmts
  BY <1>1, AskedStmt, StmtParts
<1>3. PICK A : /\ TopAsked(A)
               /\ \A X \in SUBSET Way : Justified(Foretold, Top.stmt, Top.st, X) => X \in A
  BY <1>1, AskedStmt
<1> DEFINE s == Top.stmt
           st == AfterCondition(AfterSimple(Opened(Top.st), s.init), s.cond)
           F == Visit(st, s.then)
           H == [fn |-> "if", st |-> st, stmt |-> s]
           B == To(s.then, st)
<1>5. CallsIf(st, <<F, H>>)
  BY DEF visitIfStmt
<1>6. CASE st = Broken
  BY <1>5, <1>6, PanicVisits DEF CallsIf
<1>7. CASE st # Broken
  <2>1. Calls(<<F, H>>)
    BY <1>5, <1>7 DEF CallsIf
  <2>2. \A Y \in B, Z \in To(s.else, st), X \in SUBSET Way :
          Ended(Y, <<>>, X) /\ Ended(Z, <<>>, X) => X \in A
    <3> SUFFICES ASSUME NEW Y \in B, NEW Z \in To(s.else, st), NEW X \in SUBSET Way,
                        Ended(Y, <<>>, X), Ended(Z, <<>>, X)
                 PROVE  X \in A
      OBVIOUS
    <3>1. /\ Y \in SUBSET Way /\ <<s.then, Unused(st), Y>> \in Foretold
          /\ Z \in SUBSET Way /\ <<s.else, Unused(st), Z>> \in Foretold
      BY DEF To, Answered
    <3>2. AsIf(Foretold, s, Top.st, X)
      BY <1>7, <3>1 DEF AsIf
    <3>3. Justified(Foretold, s, Top.st, X)
      BY <1>1, <3>2 DEF Justified
    <3> QED
      BY <1>3, <3>3
  <2>3. H.fn = "if" /\ H.st = st /\ H.stmt = s
    OBVIOUS
  <2>4. F.fn = "stmt" /\ F.st = st /\ F.stmt = s.then
    BY DEF Visit
  <2>5. B \subseteq SUBSET Way
    BY DEF To
  <2>6. To(F.stmt, F.st) = B
    BY <2>4
  <2> HIDE DEF st, F, H, B, s
  <2>7. Asked(F, B)
    BY <2>4, <2>6 DEF Asked
  <2>8. IfWaits(H, A, B)
    BY <2>2, <2>3 DEF IfWaits
  <2>9. Waits(Goal, H, A, B)
    BY <2>3, <2>5, <2>8 DEF Waits
  <2> QED
    BY <1>2, <1>3, <2>1, <2>7, <2>9, TwoCallVisits
<1> QED
  BY <1>6, <1>7

(* ... and then the other, in the same store ...                           *)
LEMMA ThenAsked == ASSUME NestedInv, VisitInv, thenVisited PROVE VisitInv'
<1>1. stack # <<>> /\ mode = "return" /\ Top.fn = "if"
  BY DEF thenVisited, Returned
<1>2. Found(ret) \in SUBSET Way
  BY <1>1, ToldTop
<1>3. PICK A, B : TopAsked(A) /\ Waits(Goal, Top, A, B) /\ Found(ret) \in B
  BY <1>1, ToldTop
<1>4. IfWaits(Top, A, B)
  BY <1>1, <1>3 DEF Waits
<1> DEFINE F == Visit(Top.st, Top.stmt.else)
           H == [fn |-> "else", exits |-> ret]
           B2 == To(Top.stmt.else, Top.st)
<1>5. Calls(<<F, H>>)
  BY DEF thenVisited
<1>6. H.fn = "else" /\ H.exits = ret
  OBVIOUS
<1>7. F.fn = "stmt" /\ To(F.stmt, F.st) = B2 /\ B2 \subseteq SUBSET Way
  BY DEF Visit, To
<1>8. \A Z \in B2, X \in SUBSET Way :
        Ended(Found(ret), <<>>, X) /\ Ended(Z, <<>>, X) => X \in A
  BY <1>3, <1>4 DEF IfWaits
<1> HIDE DEF F, H, B2
<1>9. Asked(F, B2)
  BY <1>7 DEF Asked
<1>10. ElseWaits(H, A, B2)
  BY <1>2, <1>6, <1>8 DEF ElseWaits
<1>11. Waits(Goal, H, A, B2)
  BY <1>6, <1>7, <1>10 DEF Waits
<1> QED
  BY <1>1, <1>3, <1>5, <1>9, <1>11, TwoCallVisits

(* The log statements leave alone what is found in a list of exits.        *)
LEMMA FoundLogged ==
  ASSUME NEW e, Sequence(e)
  PROVE  LET t == FirstLogged(e)
         IN  /\ Sequence(t) /\ Len(t) = Len(e)
             /\ \A i \in 1..Len(e) : t[i].st # Broken => e[i].st # Broken
             /\ Stored(e, Store) => Found(t) = Found(e)
<1> DEFINE t == FirstLogged(e)
<1>1. Len(e) \in Nat /\ DOMAIN e = 1..Len(e)
  BY SequenceTyped DEF Sequence
<1>2. t = [i \in 1..Len(e) |-> IF i = 1 THEN Exit(Log(e[i].st), e[i].branch) ELSE e[i]]
  BY <1>1 DEF FirstLogged
<1> HIDE DEF t
<1>3. Sequence(t) /\ Len(t) = Len(e)
  <2>1. t = [i \in 1..Len(e) |-> t[i]]
    BY <1>2
  <2> QED
    BY <1>1, <2>1, SequenceMade
<1>4. \A i \in 1..Len(e) : /\ t[i].branch = e[i].branch
                           /\ t[i].st \in {e[i].st, Log(e[i].st)}
  BY <1>2 DEF Exit
<1>5. \A i \in 1..Len(e) : t[i].st # Broken => e[i].st # Broken
  BY <1>4, LogBroken
<1>6. ASSUME Stored(e, Store)
      PROVE  Found(t) = Found(e)
  <2>1. ASSUME NEW i \in 1..Len(e)
        PROVE  Unused(t[i].st) = Unused(e[i].st)
    <3> DEFINE st == e[i].st
    <3>1. st \in Store
      BY <1>6 DEF Stored
    <3>2. t[i].st \in {st, Log(st)}
      BY <1>4
    <3> HIDE DEF st
    <3>3. Unused(st) = Unused(Log(st))
      BY <3>1, LogAlike, UnusedSame
    <3>4. Unused(t[i].st) = Unused(st)
      BY <3>2, <3>3
    <3> QED
      BY <3>4 DEF st
  <2> QED
    BY <1>3, <1>4, <2>1 DEF Found
<1> QED
  BY <1>3, <1>5, <1>6 DEF t

(* The ends of the blocks of a branch, with the log statement.             *)
LEMMA BranchEnded ==
  ASSUME NEW r, Stored(r, Store), Found(r) \in SUBSET Way,
         NEW e, e = FirstLogged(endBlocks(r))
  PROVE  /\ Sequence(e)
         /\ (\A i \in 1..Len(e) : e[i].st # Broken) =>
              Found(e) \in SUBSET Way /\ Ended(Found(r), <<>>, Found(e))
<1> DEFINE none == <<>>
           b == endBlocks(r)
<1>1. none \in Short /\ b = endBlocks(released(r, none))
  BY EndBlocksOnly DEF Short, Stored
<1> HIDE DEF b, none
<1>2. /\ Sequence(b)
      /\ (\A i \in 1..Len(b) : b[i].st # Broken) =>
           Found(b) \in SUBSET Way /\ Ended(Found(r), none, Found(b)) /\ Stored(b, Store)
  BY <1>1, EndAsked
<1>3. /\ Sequence(e) /\ Len(e) = Len(b)
      /\ \A i \in 1..Len(b) : e[i].st # Broken => b[i].st # Broken
      /\ Stored(b, Store) => Found(e) = Found(b)
  BY <1>2, FoundLogged DEF b
<1> QED
  BY <1>2, <1>3 DEF none

(* ... and has the exits of both.                                          *)
LEMMA ElseAsked == ASSUME NestedInv, VisitInv, elseVisited PROVE VisitInv'
<1>1. stack # <<>> /\ mode = "return" /\ Top.fn = "else"
  BY DEF elseVisited, Returned
<1>2. Stored(ret, Store) /\ Found(ret) \in SUBSET Way
  BY <1>1, ToldTop
<1>3. PICK A, B : TopAsked(A) /\ Waits(Goal, Top, A, B) /\ Found(ret) \in B
  BY <1>1, ToldTop
<1>4. ElseWaits(Top, A, B)
  BY <1>1, <1>3 DEF Waits
<1>5. Stored(Top.exits, Store) /\ Found(Top.exits) \in SUBSET Way
  <2>1. PICK d : Frame(orig, Top, d)
    BY <1>1, TopFrame
  <2>2. Stored(Top.exits, Good(orig, d + 1))
    BY <1>1, <2>1, FrameKinds DEF ElseFrame
  <2> QED
    BY <1>4, <2>2 DEF ElseWaits, Stored, Good
<1> DEFINE s == FirstLogged(endBlocks(Top.exits))
           t == FirstLogged(endBlocks(ret))
           e == s \o t
<1>6. /\ Sequence(s)
      /\ (\A i \in 1..Len(s) : s[i].st # Broken) =>
           Found(s) \in SUBSET Way /\ Ended(Found(Top.exits), <<>>, Found(s))
  BY <1>5, BranchEnded
<1>7. /\ Sequence(t)
      /\ (\A i \in 1..Len(t) : t[i].st # Broken) =>
           Found(t) \in SUBSET Way /\ Ended(Found(ret), <<>>, Found(t))
  BY <1>2, BranchEnded
<1>8. CASE Top.exits = <<>> \/ ret = <<>>
  BY <1>8, PanicVisits DEF elseVisited
<1>9. CASE ~(Top.exits = <<>> \/ ret = <<>>)
  <2>1. LeavesIf(e)
    BY <1>9 DEF elseVisited
  <2> HIDE DEF s, t
  <2>2. /\ Sequence(e) /\ Len(e) = Len(s) + Len(t) /\ Len(s) \in Nat /\ Len(t) \in Nat
        /\ \A i \in 1..Len(s) : e[i] = s[i]
        /\ \A i \in 1..Len(t) : e[Len(s) + i] = t[i]
    BY <1>6, <1>7, SequencesJoined DEF Sequence
  <2>3. Found(e) = Found(s) \cup Found(t)
    BY <1>6, <1>7, FoundJoined
  <2> HIDE DEF e
  <2>4. ASSUME \A i \in 1..Len(e) : e[i].st # Broken
        PROVE  Found(e) \in A
    <3>1. \A i \in 1..Len(s) : i \in 1..Len(e)
      BY <2>2
    <3>2. \A i \in 1..Len(t) : Len(s) + i \in 1..Len(e)
      BY <2>2
    <3>3. \A i \in 1..Len(s) : s[i].st # Broken
      BY <2>2, <2>4, <3>1
    <3>4. \A i \in 1..Len(t) : t[i].st # Broken
      BY <2>2, <2>4, <3>2
    <3>5. Found(e) \in SUBSET Way
      BY <1>6, <1>7, <2>3, <3>3, <3>4
    <3>6. Ended(Found(Top.exits), <<>>, Found(e)) /\ Ended(Found(ret), <<>>, Found(e))
      BY <1>6, <1>7, <2>3, <3>3, <3>4 DEF Ended
    <3> QED
      BY <1>3, <1>4, <3>5, <3>6 DEF ElseWaits
  <2> QED
    BY <1>1, <1>3, <2>1, <2>2, <2>4, LeaveIfVisits
<1> QED
  BY <1>8, <1>9

(* The alternatives of a clause are names.                                 *)
LEMMA CaseParts ==
  ASSUME NEW s \in Stmts, s.kind = "case"
  PROVE  s.alts \in Seq(STRING)
<1>1. s \in StmtOver(Stmts)
  BY StmtsAssumption
<1>2. \A t \in SimpleStmt : t.kind = "simple"
  BY DEF SimpleStmt, Nil, Simple
<1> QED
  BY <1>1, <1>2 DEF StmtOver

(* A store of some depth has a block.                                      *)
LEMMA GoodHasBlock ==
  ASSUME NEW o \in Store, NEW d, d > Depth(o), NEW st \in Good(o, d)
  PROVE  Has(st, Unnamed) /\ st # <<>> /\ st \in Store
<1>1. st \in Store /\ Depth(st) = d /\ Depth(o) \in Nat
  BY MarkersFinite DEF Good
<1>2. d = Cardinality(Markers(st)) /\ d # 0
  BY <1>1, MarkersFinite
<1>3. Cardinality({}) = 0
  BY FS_EmptySet
<1>4. Markers(st) # {}
  BY <1>2, <1>3
<1>5. Has(st, Unnamed)
  BY <1>4 DEF Markers, Has
<1>6. DOMAIN <<>> = {}
  OBVIOUS
<1> QED
  BY <1>1, <1>5, <1>6 DEF Has

(* Two stores with blocks cannot be merged.                                *)
LEMMA BlocksUnmerged ==
  ASSUME NEW st \in Store, NEW st2, Has(st, Unnamed), st # <<>>, st2 # <<>>
  PROVE  MergedStore(st, st2) = Broken
<1>1. PICK i \in DOMAIN st : st[i].name = Unnamed
  BY DEF Has
<1>2. st[i] \in Entry
  BY <1>1, StoreEntries
<1>3. st[i].eff = NoPerm
  BY <1>1, <1>2, EntryFields
<1>4. MergedCell(st[i], st2[i]).eff = NoPerm
  BY <1>3 DEF MergedCell, Meet
<1>5. MergeStatus(st, st2, i) # "ok"
  BY <1>4 DEF MergeStatus
<1>6. ~ \A j \in DOMAIN st : MergeStatus(st, st2, j) = "ok"
  BY <1>1, <1>5
<1> QED
  BY <1>6 DEF MergedStore

(* visitCaseClause.                                                        *)
LEMMA ClauseAsked == ASSUME NestedInv, VisitInv, visitCaseClause, NoForNorDefault PROVE VisitInv'
<1>1. Called("stmt") /\ Top.stmt.kind = "case"
  BY DEF visitCaseClause, Visiting
<1>2. /\ stack # <<>> /\ Top.st \in Store /\ Top.stmt \in Stmts
      /\ Top.stmt.alts \in Seq(STRING) /\ Top.stmt.alts # <<>>
  BY <1>1, AskedStmt, CaseParts DEF NoForNorDefault
<1>3. PICK A : /\ TopAsked(A)
               /\ \A X \in SUBSET Way : Justified(Foretold, Top.stmt, Top.st, X) => X \in A
  BY <1>1, AskedStmt
<1> DEFINE s == Top.stmt
           F == [fn |-> "case", st |-> Top.st, merged |-> <<>>, alts |-> s.alts, body |-> s.body]
<1>4. Calls(<<F>>)
  BY DEF visitCaseClause
<1>5. F.fn = "case" /\ F.st = Top.st /\ F.merged = <<>> /\ F.alts = s.alts /\ F.body = s.body
  OBVIOUS
<1>6. ASSUME NEW X \in To(ListOf(s.body, FALSE), Top.st), Len(s.alts) = 1,
             AfterCondition(Top.st, s.alts[1]) # Broken
      PROVE  X \in A
  <2>1. X \in SUBSET Way /\ <<ListOf(s.body, FALSE), Unused(Top.st), X>> \in Foretold
    BY DEF To, Answered
  <2>2. Justified(Foretold, s, Top.st, X)
    BY <1>1, <1>6, <2>1 DEF Justified, AsCase
  <2> QED
    BY <1>3, <2>1, <2>2
<1> HIDE DEF F, s
<1>7. CaseOwes(F, A)
  BY <1>2, <1>5, <1>6 DEF CaseOwes, s
<1>8. Asked(F, A)
  BY <1>5, <1>7 DEF Asked
<1> QED
  BY <1>2, <1>3, <1>4, <1>8, OneCallVisits

(* The frame of a clause.                                                  *)
LEMMA CaseAsked ==
  ASSUME NestedInv, VisitInv, Called("case")
  PROVE  /\ stack # <<>> /\ Top.st \in Store /\ Top.body \in Seq(Stmts)
         /\ Top = [fn |-> "case", st |-> Top.st, merged |-> Top.merged, alts |-> Top.alts,
                   body |-> Top.body]
         /\ Top.st # <<>>
         /\ Top.merged # <<>> => Top.merged \in Store /\ Has(Top.merged, Unnamed)
         /\ \E A : TopAsked(A) /\ CaseOwes(Top, A)
<1>1. stack # <<>> /\ Top.fn = "case" /\ mode = "call"
  BY DEF Called
<1>2. PICK d : /\ TopAt(d) /\ d \in Nat /\ d > Depth(orig) /\ CaseFrame(orig, Top, d)
               /\ orig \in Store
  BY CaseTop
<1>3. /\ Top.st \in Store /\ Top.body \in Seq(Stmts)
      /\ Top = [fn |-> "case", st |-> Top.st, merged |-> Top.merged, alts |-> Top.alts,
                   body |-> Top.body]
      /\ Top.st # <<>>
  BY <1>2, GoodHasBlock DEF CaseFrame
<1>4. Top.merged # <<>> => Top.merged \in Store /\ Has(Top.merged, Unnamed)
  BY <1>2, GoodHasBlock DEF CaseFrame
<1>5. PICK A : TopAsked(A) /\ Asked(Top, A)
  BY <1>1, VisitTop
<1>6. CaseOwes(Top, A)
  BY <1>1, <1>5 DEF Asked
<1> QED
  BY <1>1, <1>3, <1>4, <1>5, <1>6

(* The body of a clause is visited in the store after its alternatives.    *)
LEMMA CaseBodyAsked == ASSUME NestedInv, VisitInv, caseBody PROVE VisitInv'
<1>1. Called("case") /\ Top.alts = <<>>
  BY DEF caseBody
<1>2. PICK A : TopAsked(A) /\ CaseOwes(Top, A)
  BY <1>1, CaseAsked
<1>3. Top.merged # <<>> /\ To(ListOf(Top.body, FALSE), Top.merged) \subseteq A
  BY <1>1, <1>2 DEF CaseOwes
<1>4. stack # <<>> /\ Top.merged \in Store /\ Top.body \in Seq(Stmts)
  BY <1>1, <1>3, CaseAsked
<1>5. Calls(<<NewList(Top.merged, Top.body, FALSE)>>)
  BY DEF caseBody
<1> QED
  BY <1>2, <1>3, <1>4, <1>5, BodyAsked

(* A second alternative panics: the first one's store is merged with it,   *)
(* and a store with a block in it cannot be.                               *)
LEMMA AlternativeAsked == ASSUME NestedInv, VisitInv, caseAlternative PROVE VisitInv'
<1>1. Called("case") /\ Top.alts # <<>>
  BY DEF caseAlternative
<1>2. PICK A : TopAsked(A) /\ CaseOwes(Top, A)
  BY <1>1, CaseAsked
<1>3. /\ stack # <<>> /\ Top.st \in Store /\ Top.body \in Seq(Stmts) /\ Top.st # <<>>
      /\ Top.alts \in Seq(STRING)
  BY <1>1, <1>2, CaseAsked DEF CaseOwes
<1> DEFINE st == AfterCondition(Top.st, Head(Top.alts))
           merged == MergedStore(Top.merged, st)
           alts == Tail(Top.alts)
           F == [Top EXCEPT !.st = st, !.merged = MergedStore(@, st), !.alts = Tail(@)]
<1>4. CallsIf(merged, <<F>>)
  BY DEF caseAlternative
<1>5. F = [fn |-> "case", st |-> st, merged |-> merged, alts |-> alts, body |-> Top.body]
  <2>1. Top = [fn |-> "case", st |-> Top.st, merged |-> Top.merged, alts |-> Top.alts,
               body |-> Top.body]
    BY <1>1, CaseAsked
  <2>2. F = [Top EXCEPT !.st = st, !.merged = merged, !.alts = alts]
    OBVIOUS
  <2> HIDE DEF F, st, merged, alts
  <2>3. PICK g : g = [Top EXCEPT !.st = st]
    OBVIOUS
  <2>4. g = [fn |-> "case", st |-> st, merged |-> Top.merged, alts |-> Top.alts, body |-> Top.body]
    BY <2>1, <2>3
  <2>5. PICK h : h = [g EXCEPT !.merged = merged]
    OBVIOUS
  <2>6. h = [fn |-> "case", st |-> st, merged |-> merged, alts |-> Top.alts, body |-> Top.body]
    BY <2>4, <2>5
  <2>7. F = [h EXCEPT !.alts = alts]
    BY <2>2, <2>3, <2>5
  <2> QED
    BY <2>6, <2>7
<1>6. F.fn = "case" /\ F.st = st /\ F.merged = merged /\ F.alts = alts /\ F.body = Top.body
  BY <1>5
<1>7. Alike(Top.st, Top.st)
  BY <1>3, AlikeItself
<1>8. Head(Top.alts) = Top.alts[1] /\ alts \in Seq(STRING) /\ (alts = <<>> => Len(Top.alts) = 1)
      /\ (alts # <<>> => Len(Top.alts) # 1)
  <2> DEFINE all == Top.alts
  <2>1. all \in Seq(STRING) /\ all # <<>>
    BY <1>1, <1>3
  <2>2. alts = Tail(all)
    OBVIOUS
  <2> HIDE DEF all, alts
  <2>3. Sequence(all) /\ Head(all) = all[1] /\ Len(all) >= 1 /\ Len(all) \in Nat
        /\ Len(alts) = Len(all) - 1
    BY <2>1, <2>2, TypedSequence, TailSequence
  <2>4. alts \in Seq(STRING)
    BY <2>1, <2>2
  <2>5. alts = <<>> <=> Len(alts) = 0
    BY <2>4
  <2>6. (alts = <<>> => Len(all) = 1) /\ (alts # <<>> => Len(all) # 1)
    BY <2>3, <2>5
  <2> QED
    BY <2>3, <2>4, <2>6 DEF all
<1> HIDE DEF F, alts
<1>9. CASE merged = Broken
  BY <1>4, <1>9, PanicVisits DEF CallsIf
<1>10. CASE merged # Broken
  <2>1. Calls(<<F>>)
    BY <1>4, <1>10 DEF CallsIf
  <2>2. st # Broken
    BY <1>10 DEF MergedStore
  <2>3. Alike(Top.st, st)
    <3> DEFINE n == Head(Top.alts)
    <3>1. st = AfterCondition(Top.st, n)
      OBVIOUS
    <3> HIDE DEF n, st
    <3> QED
      BY <1>7, <2>2, <3>1, AlikeCondition
  <2>4. st \in Store /\ Equal(Top.st, st) /\ Top.st # Broken
    <3> HIDE DEF st
    <3> QED
      BY <2>2, <2>3, AlikeUnused
  <2>5. st # <<>>
    <3>1. Len(st) = Len(Top.st) /\ Len(Top.st) \in Nat /\ Len(st) \in Nat
      BY <1>3, <2>4, StoreEntries DEF Equal
    <3>2. Len(Top.st) # 0
      BY <1>3 DEF Store
    <3>3. Len(<<>>) = 0
      BY ShortSequences
    <3> QED
      BY <3>1, <3>2, <3>3
  <2>6. Top.merged = <<>>
    <3> SUFFICES ASSUME Top.merged # <<>> PROVE FALSE
      OBVIOUS
    <3>1. Top.merged \in Store /\ Has(Top.merged, Unnamed)
      BY <1>1, CaseAsked
    <3> HIDE DEF st
    <3> QED
      BY <1>10, <2>5, <3>1, BlocksUnmerged
  <2>7. merged = st
    <3>1. <<>> # Broken
      BY DEF Broken
    <3> QED
      BY <2>2, <2>6, <3>1 DEF MergedStore
  <2>8. \A X \in To(ListOf(Top.body, FALSE), Top.st) : Len(Top.alts) = 1 => X \in A
    BY <1>2, <1>8, <2>2, <2>6 DEF CaseOwes
  <2>9. To(ListOf(Top.body, FALSE), st) = To(ListOf(Top.body, FALSE), Top.st)
    <3> HIDE DEF st
    <3> QED
      BY <1>3, <2>4, AnsweredAlike DEF To
  <2>10. CaseOwes(F, A)
    <3> HIDE DEF st, merged
    <3>1. CASE alts = <<>>
      <4>1. To(ListOf(F.body, FALSE), F.merged) \subseteq A
        BY <1>6, <1>8, <2>7, <2>8, <2>9, <3>1
      <4> QED
        BY <1>6, <1>8, <2>5, <2>7, <3>1, <4>1 DEF CaseOwes
    <3>2. CASE alts # <<>>
      BY <1>6, <1>8, <2>5, <2>7, <3>2 DEF CaseOwes
    <3> QED
      BY <3>1, <3>2
  <2>11. Asked(F, A)
    BY <1>6, <2>10 DEF Asked
  <2> QED
    BY <1>2, <1>3, <2>1, <2>11, OneCallVisits
<1> QED
  BY <1>9, <1>10

(* What is picked is a sequence of the elements it is picked from.         *)
LEMMA PickedSequence ==
  ASSUME NEW n \in Nat, NEW is \in SUBSET (1..n), NEW s
  PROVE  /\ Sequence(Picked(s, is))
         /\ \A k \in 1..Len(Picked(s, is)) : \E i \in is : Picked(s, is)[k] = s[i]
         /\ \A i \in is : \E k \in 1..Len(Picked(s, is)) : Picked(s, is)[k] = s[i]
<1>1. IsFiniteSet(1..n) /\ (1..n) \in SUBSET Nat
  BY FS_Interval
<1>2. IsFiniteSet(is) /\ is \in SUBSET Nat
  BY <1>1, FS_Subset
<1> DEFINE p == Picked(s, is)
<1>3. /\ Cardinality(is) \in Nat
      /\ DOMAIN p = 1..Cardinality(is)
      /\ \A k \in DOMAIN p : \E i \in is : p[k] = s[i]
      /\ \A i \in is : \E k \in DOMAIN p : p[k] = s[i]
  BY <1>2, PickedFacts
<1>4. p = [k \in 1..Cardinality(is) |-> p[k]]
  BY DEF Picked
<1> HIDE DEF p
<1>5. Sequence(p) /\ Len(p) = Cardinality(is)
  BY <1>3, <1>4, SequenceMade
<1> QED
  BY <1>3, <1>5 DEF p

(* The works of two lists, one after the other.                            *)
LEMMA WorksJoined ==
  ASSUME NEW s, Sequence(s), NEW t, Sequence(t)
  PROVE  WorkSet(s \o t) = WorkSet(s) \cup WorkSet(t)
<1> DEFINE u == s \o t
<1>1. /\ Sequence(u) /\ Len(u) = Len(s) + Len(t) /\ Len(s) \in Nat /\ Len(t) \in Nat
      /\ \A i \in 1..Len(s) : u[i] = s[i]
      /\ \A i \in 1..Len(t) : u[Len(s) + i] = t[i]
      /\ \A i \in 1..Len(u) : i \in 1..Len(s) \/ \E j \in 1..Len(t) : i = Len(s) + j
  BY SequencesJoined DEF Sequence
<1> HIDE DEF u
<1>2. \A i \in 1..Len(s) : i \in 1..Len(u)
  BY <1>1
<1>3. \A i \in 1..Len(t) : Len(s) + i \in 1..Len(u)
  BY <1>1
<1> DEFINE out(x) == Work(Unused(x.st), x.at)
<1>4. WorkSet(s) = {out(s[i]) : i \in 1..Len(s)} /\ WorkSet(t) = {out(t[i]) : i \in 1..Len(t)}
      /\ WorkSet(u) = {out(u[i]) : i \in 1..Len(u)}
  BY DEF WorkSet
<1> HIDE DEF out
<1>5. WorkSet(u) \subseteq WorkSet(s) \cup WorkSet(t)
  <2> SUFFICES ASSUME NEW i \in 1..Len(u) PROVE out(u[i]) \in WorkSet(s) \cup WorkSet(t)
    BY <1>4
  <2> QED
    BY <1>1, <1>4
<1>6. WorkSet(s) \subseteq WorkSet(u)
  BY <1>1, <1>2, <1>4
<1>7. WorkSet(t) \subseteq WorkSet(u)
  <2> SUFFICES ASSUME NEW i \in 1..Len(t) PROVE out(t[i]) \in WorkSet(u)
    BY <1>4
  <2>1. out(u[Len(s) + i]) \in WorkSet(u)
    BY <1>3, <1>4
  <2> QED
    BY <1>1, <2>1
<1> QED
  BY <1>5, <1>6, <1>7 DEF u

(* The works of a list are the next one and those of the rest.             *)
LEMMA WorksFront ==
  ASSUME NEW s, Stored(s, Store), s # <<>>
  PROVE  LET last == s[Len(s)]
         IN  /\ WorkSet(s) \subseteq
                  WorkSet(SubSeq(s, 1, Len(s) - 1)) \cup {Work(Unused(last.st), last.at)}
             /\ last.st \in Store /\ Work(Unused(last.st), last.at) \in WorkSet(s)
<1> DEFINE n == Len(s)
           t == SubSeq(s, 1, n - 1)
           last == s[n]
           S == {s[i] : i \in 1..n}
<1>1. s \in Seq(S) /\ n \in Nat /\ n # 0
  <2>1. s \in Seq(S) /\ n \in Nat
    BY SequenceTyped DEF Stored, Sequence
  <2>2. n >= 1
    BY TailSequence DEF Stored
  <2> QED
    BY <2>1, <2>2
<1> HIDE DEF S
<1>2. Len(t) = n - 1 /\ \A i \in 1..(n - 1) : t[i] = s[i]
  <2>1. t = [i \in 1..(1 + (n - 1) - 1) |-> s[i + 1 - 1]]
    BY <1>1
  <2>2. 1 + (n - 1) - 1 = n - 1 /\ n - 1 \in Nat /\ \A i \in 1..(n - 1) : i + 1 - 1 = i
    BY <1>1
  <2>3. t = [i \in 1..(n - 1) |-> s[i]]
    BY <2>1, <2>2
  <2> HIDE DEF t
  <2>4. t = [i \in 1..(n - 1) |-> t[i]]
    BY <2>3
  <2>5. Len(t) = n - 1
    BY <2>2, <2>4, SequenceMade
  <2> QED
    BY <2>3, <2>5
<1>3. last.st \in Store
  BY StoredFront
<1> HIDE DEF t
<1> HIDE DEF n
<1>4. n \in 1..n /\ \A i \in 1..n : i = n \/ i \in 1..(n - 1)
  BY <1>1
<1> DEFINE out(x) == Work(Unused(x.st), x.at)
<1>5. WorkSet(s) = {out(s[i]) : i \in 1..n} /\ WorkSet(t) = {out(t[i]) : i \in 1..(n - 1)}
  BY <1>2 DEF WorkSet, n
<1> HIDE DEF out
<1>6. WorkSet(s) \subseteq WorkSet(t) \cup {out(last)}
  <2> SUFFICES ASSUME NEW i \in 1..n PROVE out(s[i]) \in WorkSet(t) \cup {out(last)}
    BY <1>5
  <2> QED
    BY <1>2, <1>4, <1>5
<1>7. out(last) \in WorkSet(s)
  BY <1>4, <1>5
<1> QED
  BY <1>3, <1>6, <1>7 DEF out, t, n

(* Whatever is added to a work list is seen afterwards.                    *)
LEMMA AddedWorks ==
  ASSUME NEW bm, Stored(bm.seen, Store), NEW on, Stored(on, Store)
  PROVE  LET new == Picked(on, Unseen(bm, on))
         IN  Stored(new, Store) /\ WorkSet(on) \subseteq WorkSet(bm.seen) \cup WorkSet(new)
<1> DEFINE new == Picked(on, Unseen(bm, on))
           n == Len(on)
           out(x) == Work(Unused(x.st), x.at)
           is == Unseen(bm, on)
<1>1. n \in Nat /\ DOMAIN on = 1..n /\ \A i \in 1..n : on[i].st \in Store
  BY SequenceTyped DEF Stored, Sequence
<1>2. Stored(new, Store)
  BY AddedStored
<1>3. is \in SUBSET (1..n)
  BY <1>1 DEF Unseen
<1>4. \A i \in is : \E k \in 1..Len(new) : new[k] = on[i]
  <2>0. n \in Nat /\ is \in SUBSET (1..n)
    BY <1>1, <1>3
  <2> HIDE DEF is, n
  <2>1. /\ Sequence(Picked(on, is))
        /\ \A k \in 1..Len(Picked(on, is)) : \E i \in is : Picked(on, is)[k] = on[i]
        /\ \A i \in is : \E k \in 1..Len(Picked(on, is)) : Picked(on, is)[k] = on[i]
    BY <2>0, PickedSequence, ZenonT(30)
  <2> QED
    BY <2>1 DEF is
<1>5. \A i \in is : out(on[i]) \in WorkSet(new)
  BY <1>4 DEF WorkSet
<1>6. ASSUME NEW w, NEW v, w.st \in Store, v.st \in Store, SameWork(w, v)
      PROVE  out(w) = out(v)
  BY <1>6, UnusedSame DEF SameWork
<1>7. DOMAIN bm.seen = 1..Len(bm.seen) /\ \A j \in 1..Len(bm.seen) : bm.seen[j].st \in Store
  BY SequenceTyped DEF Stored
<1>8. ASSUME NEW i \in 1..n, isDuplicate(bm, on[i])
      PROVE  out(on[i]) \in WorkSet(bm.seen)
  <2>1. PICK j \in 1..Len(bm.seen) : SameWork(bm.seen[j], on[i])
    BY <1>7, <1>8 DEF isDuplicate
  <2>2. out(bm.seen[j]) = out(on[i])
    BY <1>1, <1>6, <1>7, <2>1
  <2>3. out(bm.seen[j]) \in WorkSet(bm.seen)
    BY DEF WorkSet
  <2> QED
    BY <2>2, <2>3
<1> DEFINE D == WorkSet(bm.seen) \cup WorkSet(new)
           Odd == {i \in 1..n : out(on[i]) \notin D}
<1>9. Odd = {}
  <2> SUFFICES ASSUME Odd # {} PROVE FALSE
    OBVIOUS
  <2>1. Odd \subseteq Nat
    BY <1>1
  <2>2. PICK i \in Odd : \A j \in Odd : i <= j
    <3> HIDE DEF Odd
    <3> QED
      BY <2>1, LeastNumber
  <2>3. i \in 1..n /\ out(on[i]) \notin D
    OBVIOUS
  <2>4. ~isDuplicate(bm, on[i])
    BY <1>8, <2>3
  <2>5. i \notin is
    BY <1>5, <2>3
  <2> HIDE DEF is, new, D, out
  <2>6. PICK j \in 1..(i - 1) : SameWork(on[j], on[i])
    BY <1>1, <2>3, <2>4, <2>5 DEF Unseen, is
  <2>7. j \in 1..n /\ ~(i <= j)
    BY <1>1, <2>3
  <2>8. out(on[j]) = out(on[i])
    BY <1>1, <1>6, <2>3, <2>6, <2>7
  <2>9. j \in Odd
    BY <2>3, <2>7, <2>8
  <2> QED
    BY <2>2, <2>7, <2>9
<1>10. WorkSet(on) = {out(on[i]) : i \in 1..n}
  BY DEF WorkSet
<1> HIDE DEF D, out
<1>11. WorkSet(on) \subseteq D
  BY <1>9, <1>10
<1> QED
  BY <1>2, <1>11 DEF D

(* The frame of a list.                                                    *)
ListRecord(f) ==
  f = [fn |-> "list", stmts |-> f.stmts, isASwitch |-> f.isASwitch, item |-> f.item,
       todo |-> f.todo, seen |-> f.seen, exits |-> f.exits]

(* What is asked of a list, and of what it is told.                        *)
LEMMA ListShape ==
  ASSUME NestedInv, stack # <<>>, Top.fn = "list"
  PROVE  /\ ListRecord(Top)
         /\ Top.stmts \in Seq(Stmts) /\ Stored(Top.todo, Store) /\ Stored(Top.exits, Store)
<1>1. PICK d : ListFrame(orig, Top, d)
  BY ListTop
<1>2. ListRecord(Top) /\ Top.stmts \in Seq(Stmts)
  BY <1>1 DEF ListFrame, ListRecord
<1>3. Stored(Top.todo, Store) /\ Stored(Top.exits, Store)
  BY <1>1 DEF ListFrame, Stored, Good
<1> QED
  BY <1>2, <1>3

(* Equal stores are asked the same.                                        *)
LEMMA ToUnused ==
  ASSUME NEW st \in Store, NEW u \in Store, Equal(st, u)
  PROVE  \A q : To(q, Unused(st)) = To(q, u)
<1>1. Unused(st) = Unused(u) /\ Unused(Unused(st)) = Unused(st)
  BY UnusedSame, PlainFacts
<1> QED
  BY <1>1 DEF To, Answered

(* visitStmtList visits the next work of its list.                         *)
LEMMA ItemAsked == ASSUME NestedInv, VisitInv, visitItem PROVE VisitInv'
<1>1. stack # <<>> /\ Top.fn = "list" /\ hasWork(Top) /\ mode = "call"
  BY DEF visitItem, Called
<1>2. PICK A : TopAsked(A) /\ Asked(Top, A)
  BY <1>1, VisitTop
<1>3. ListOwes(Top, {}, A)
  BY <1>1, <1>2 DEF Asked
<1> DEFINE w == nextWork(Top)
           F == Visit(Log(w.st), Top.stmts[w.at])
           H == [withoutNext(Top) EXCEPT !.item = w.at]
           left == SubSeq(Top.todo, 1, Len(Top.todo) - 1)
           cur == Work(Unused(w.st), w.at)
           a == Unused(w.st)
           B == To(Top.stmts[w.at], a)
<1>4. /\ WorkSet(Top.todo) \subseteq WorkSet(left) \cup {cur}
      /\ w.st \in Store /\ cur \in WorkSet(Top.todo)
  BY <1>1, ListShape, WorksFront DEF hasWork, nextWork
<1>5. CASE Panics
  BY <1>5, PanicVisits
<1>6. CASE w.at \in DOMAIN Top.stmts /\ Calls(<<F, H>>)
  <2>1. H = [fn |-> "list", stmts |-> Top.stmts, isASwitch |-> Top.isASwitch, item |-> w.at,
             todo |-> left, seen |-> Top.seen, exits |-> Top.exits]
    <3>1. Top = [fn |-> "list", stmts |-> Top.stmts, isASwitch |-> Top.isASwitch,
                 item |-> Top.item, todo |-> Top.todo, seen |-> Top.seen, exits |-> Top.exits]
      BY <1>1, ListShape DEF ListRecord
    <3>2. PICK g : g = withoutNext(Top)
      OBVIOUS
    <3>3. g = [Top EXCEPT !.todo = left]
      BY <3>2 DEF withoutNext
    <3> HIDE DEF w, left
    <3>4. g = [fn |-> "list", stmts |-> Top.stmts, isASwitch |-> Top.isASwitch,
               item |-> Top.item, todo |-> left, seen |-> Top.seen, exits |-> Top.exits]
      BY <3>1, <3>3
    <3>5. [g EXCEPT !.item = w.at] =
            [fn |-> "list", stmts |-> Top.stmts, isASwitch |-> Top.isASwitch,
             item |-> w.at, todo |-> left, seen |-> Top.seen, exits |-> Top.exits]
      BY <3>4
    <3> QED
      BY <3>2, <3>5
  <2>2. F.fn = "stmt" /\ F.st = Log(w.st) /\ F.stmt = Top.stmts[w.at]
    BY DEF Visit
  <2>3. To(F.stmt, F.st) = B
    <3>1. Log(w.st) \in Store /\ Equal(w.st, Log(w.st))
      BY <1>4, LogAlike
    <3> QED
      BY <1>4, <2>2, <3>1, ToUnused
  <2>4. B \subseteq SUBSET Way
    BY DEF To
  <2>5. a \in Plain
    BY <1>4, PlainFacts
  <2> HIDE DEF F, H, B, left, w
  <2>6. H.fn = "list" /\ H.stmts = Top.stmts /\ H.isASwitch = Top.isASwitch /\ H.item = w.at
        /\ H.todo = left /\ H.seen = Top.seen /\ H.exits = Top.exits
    BY <2>1
  <2>7. ListOwes(H, {cur}, A)
    <3> HIDE DEF cur
    <3>1. /\ H.isASwitch \in BOOLEAN /\ Stored(H.seen, Store) /\ Found(H.exits) \in SUBSET Way
      BY <1>3, <2>6 DEF ListOwes
    <3>2. ASSUME NEW W, NEW X, X \in SUBSET Way, WorkSet(Top.seen) \subseteq W,
                 Found(Top.exits) \subseteq X,
                 \A v \in W : \/ Handled(Foretold, Top.stmts, Top.isASwitch, v, W, X)
                              \/ v \in WorkSet(Top.seen) /\ v \notin WorkSet(left) /\ v \notin {cur}
          PROVE  X \in A
      <4>1. \A v \in W : \/ Handled(Foretold, Top.stmts, Top.isASwitch, v, W, X)
                         \/ v \in WorkSet(Top.seen) /\ v \notin WorkSet(Top.todo) /\ v \notin {}
        BY <1>4, <3>2
      <4> QED
        BY <1>3, <3>2, <4>1 DEF ListOwes
    <3> QED
      BY <2>6, <3>1, <3>2 DEF ListOwes
  <2>8. Asked(F, B)
    BY <2>2, <2>3 DEF Asked
  <2>9. ListWaits(H, A, B)
    <3>1. H.item \in DOMAIN H.stmts
      BY <1>6, <2>6
    <3>2. ListOwes(H, {Work(a, H.item)}, A) /\ B = To(H.stmts[H.item], a)
      BY <2>6, <2>7 DEF B
    <3> HIDE DEF a
    <3> QED
      BY <2>5, <3>1, <3>2 DEF ListWaits
  <2>10. Waits(Goal, H, A, B)
    BY <2>4, <2>6, <2>9 DEF Waits
  <2>11. Calls(<<F, H>>)
    BY <1>6 DEF w
  <2> QED
    BY <1>1, <1>2, <2>8, <2>10, <2>11, TwoCallVisits
<1> QED
  BY <1>5, <1>6 DEF visitItem

(* It has no more work when every work it has seen has been handled: its   *)
(* exits are an answer.                                                    *)
LEMMA ListDone == ASSUME NestedInv, VisitInv, listVisited PROVE VisitInv'
<1>1. stack # <<>> /\ Top.fn = "list" /\ ~hasWork(Top) /\ mode = "call" /\ Leaves(Top.exits)
  BY DEF listVisited, Called
<1>2. PICK A : TopAsked(A) /\ Asked(Top, A)
  BY <1>1, VisitTop
<1>3. ListOwes(Top, {}, A)
  BY <1>1, <1>2 DEF Asked
<1>4. WorkSet(Top.todo) = {}
  <2>1. Len(<<>>) = 0
    BY ShortSequences
  <2>2. WorkSet(<<>>) = {}
    BY <2>1 DEF WorkSet
  <2> QED
    BY <1>1, <2>2 DEF hasWork
<1> DEFINE W == WorkSet(Top.seen)
           X == Found(Top.exits)
<1>5. \A w \in W : \/ Handled(Foretold, Top.stmts, Top.isASwitch, w, W, X)
                   \/ w \in WorkSet(Top.seen) /\ w \notin WorkSet(Top.todo) /\ w \notin {}
  BY <1>4
<1>6. X \in SUBSET Way /\ WorkSet(Top.seen) \subseteq W /\ Found(Top.exits) \subseteq X
  BY <1>3 DEF ListOwes
<1> HIDE DEF W, X
<1>7. X \in A
  BY <1>3, <1>5, <1>6 DEF ListOwes
<1> QED
  BY <1>1, <1>2, <1>7, LeaveVisits DEF X

(* A list with other works.                                                *)
LEMMA ListMore ==
  ASSUME NEW f, ListRecord(f), NEW more, NEW seen
  PROVE  [f EXCEPT !.todo = more, !.seen = seen] =
           [fn |-> "list", stmts |-> f.stmts, isASwitch |-> f.isASwitch,
            item |-> f.item, todo |-> more, seen |-> seen, exits |-> f.exits]
<1>1. f = [fn |-> "list", stmts |-> f.stmts, isASwitch |-> f.isASwitch,
           item |-> f.item, todo |-> f.todo, seen |-> f.seen, exits |-> f.exits]
  BY DEF ListRecord
<1>2. PICK h : h = [f EXCEPT !.todo = more]
  OBVIOUS
<1>3. h = [fn |-> "list", stmts |-> f.stmts, isASwitch |-> f.isASwitch,
           item |-> f.item, todo |-> more, seen |-> f.seen, exits |-> f.exits]
  BY <1>1, <1>2
<1>4. [f EXCEPT !.todo = more, !.seen = seen] = [h EXCEPT !.seen = seen]
  BY <1>2
<1> QED
  BY <1>3, <1>4

(* Where an exit goes depends on the list and the place in it.             *)
LEMMA SamePlace ==
  ASSUME NEW f, NEW g, f.stmts = g.stmts, f.isASwitch = g.isASwitch, f.item = g.item, NEW b
  PROVE  GoesTo(f, b) = GoesTo(g, b) /\ LeavesWith(f, b) = LeavesWith(g, b)
BY DEF GoesTo, LeavesWith

(* The exits of a statement of a list go on in it, or leave it.            *)
LEMMA SortedAsked ==
  ASSUME NEW f, NEW r, Stored(r, Store), Found(r) \in SUBSET Way
  PROVE  LET on == GoesOn(f, r)
             out == Leaving(f, r)
         IN  /\ Stored(on, Store) /\ Stored(out, Store) /\ Found(out) \in SUBSET Way
             /\ \A W, X : WorkSet(on) \subseteq W /\ Found(out) \subseteq X =>
                  \A y \in Found(r) : Sorted(Place(f.stmts, f.isASwitch, f.item), y, W, X)
<1> DEFINE n == Len(r)
           is == Stays(f, r)
           js == DOMAIN r \ is
           s == [i \in DOMAIN r |-> Work(r[i].st, GoesTo(f, r[i].branch))]
           t == [i \in DOMAIN r |-> Exit(r[i].st, LeavesWith(f, r[i].branch))]
           on == GoesOn(f, r)
           out == Leaving(f, r)
<1>1. n \in Nat /\ DOMAIN r = 1..n /\ \A i \in 1..n : r[i].st \in Store
  BY SequenceTyped DEF Stored, Sequence
<1> HIDE DEF n
<1>2. is \in SUBSET (1..n) /\ js \in SUBSET (1..n)
  BY <1>1 DEF Stays
<1>3. \A i \in 1..n : /\ s[i].st = r[i].st /\ s[i].at = GoesTo(f, r[i].branch)
                      /\ t[i].st = r[i].st /\ t[i].branch = LeavesWith(f, r[i].branch)
  BY <1>1 DEF Work, Exit
<1>4. on = Picked(s, is) /\ out = Picked(t, js)
  BY DEF GoesOn, Leaving
<1>5. \A i \in 1..n : i \in is <=> GoesTo(f, r[i].branch) # Outside
  BY <1>1 DEF Stays
<1>6. \A i \in 1..n : i \in js <=> i \notin is
  BY <1>1
<1> HIDE DEF s, t, is, js, on, out
<1>7. Stored(on, Store) /\ Stored(out, Store)
  <2>1. \A i \in is : s[i].st \in Store
    BY <1>1, <1>2, <1>3
  <2>2. \A i \in js : t[i].st \in Store
    BY <1>1, <1>2, <1>3
  <2> QED
    BY <1>1, <1>2, <1>4, <2>1, <2>2, StoredPicked
<1>8. /\ \A i \in is : \E k \in 1..Len(on) : on[k] = s[i]
      /\ \A i \in js : \E k \in 1..Len(out) : out[k] = t[i]
      /\ \A k \in 1..Len(out) : \E i \in js : out[k] = t[i]
  <2>1. /\ Sequence(Picked(s, is))
        /\ \A k \in 1..Len(Picked(s, is)) : \E i \in is : Picked(s, is)[k] = s[i]
        /\ \A i \in is : \E k \in 1..Len(Picked(s, is)) : Picked(s, is)[k] = s[i]
    BY <1>1, <1>2, PickedSequence, ZenonT(30)
  <2>2. /\ Sequence(Picked(t, js))
        /\ \A k \in 1..Len(Picked(t, js)) : \E i \in js : Picked(t, js)[k] = t[i]
        /\ \A i \in js : \E k \in 1..Len(Picked(t, js)) : Picked(t, js)[k] = t[i]
    BY <1>1, <1>2, PickedSequence, ZenonT(30)
  <2> QED
    BY <1>4, <2>1, <2>2
<1>9. ASSUME NEW i \in 1..n
      PROVE  Exit(Unused(r[i].st), r[i].branch) \in Way
             /\ Exit(Unused(r[i].st), r[i].branch).branch = r[i].branch
  BY DEF Found, n, Exit
<1>10. Found(out) \in SUBSET Way
  <2> SUFFICES ASSUME NEW k \in 1..Len(out)
               PROVE  Exit(Unused(out[k].st), out[k].branch) \in Way
    BY DEF Found
  <2>1. PICK i \in js : out[k] = t[i]
    BY <1>8
  <2>2. i \in 1..n
    BY <1>2
  <2>3. out[k].st = r[i].st /\ out[k].branch = LeavesWith(f, r[i].branch) /\ r[i].st \in Store
    BY <1>1, <1>3, <2>1, <2>2
  <2>4. LeavesWith(f, r[i].branch) \in {NoBranch, r[i].branch}
    BY DEF LeavesWith
  <2> QED
    BY <1>9, <2>2, <2>3, <2>4, BranchWays
<1>11. ASSUME NEW W, NEW X, WorkSet(on) \subseteq W, Found(out) \subseteq X, NEW y \in Found(r)
       PROVE  Sorted(Place(f.stmts, f.isASwitch, f.item), y, W, X)
  <2>1. PICK i \in 1..n : y = Exit(Unused(r[i].st), r[i].branch)
    BY DEF Found, n
  <2>2. y.st = Unused(r[i].st) /\ y.branch = r[i].branch
    BY <2>1 DEF Exit
  <2> DEFINE p == Place(f.stmts, f.isASwitch, f.item)
  <2>3. p.stmts = f.stmts /\ p.isASwitch = f.isASwitch /\ p.item = f.item
    BY DEF Place
  <2> HIDE DEF p
  <2>4. GoesTo(p, y.branch) = GoesTo(f, r[i].branch)
        /\ LeavesWith(p, y.branch) = LeavesWith(f, r[i].branch)
    BY <2>2, <2>3, SamePlace
  <2>5. CASE GoesTo(f, r[i].branch) # Outside
    <3>1. i \in is
      BY <1>5, <2>5
    <3>2. PICK k \in 1..Len(on) : on[k] = s[i]
      BY <1>8, <3>1
    <3>3. on[k].st = r[i].st /\ on[k].at = GoesTo(f, r[i].branch)
      BY <1>3, <3>2
    <3>4. Work(Unused(on[k].st), on[k].at) \in WorkSet(on)
      BY DEF WorkSet
    <3>5. Work(y.st, GoesTo(p, y.branch)) \in W
      BY <1>11, <2>2, <2>4, <3>3, <3>4
    <3> QED
      BY <2>4, <2>5, <3>5 DEF Sorted, p
  <2>6. CASE GoesTo(f, r[i].branch) = Outside
    <3>1. i \in js
      BY <1>5, <1>6, <2>6
    <3>2. PICK k \in 1..Len(out) : out[k] = t[i]
      BY <1>8, <3>1
    <3>3. out[k].st = r[i].st /\ out[k].branch = LeavesWith(f, r[i].branch)
      BY <1>3, <3>2
    <3>4. Exit(Unused(out[k].st), out[k].branch) \in Found(out)
      BY DEF Found
    <3>5. Exit(y.st, LeavesWith(p, y.branch)) \in X
      BY <1>11, <2>2, <2>4, <3>3, <3>4
    <3> QED
      BY <2>4, <2>6, <3>5 DEF Sorted, p
  <2> QED
    BY <2>5, <2>6
<1> QED
  BY <1>7, <1>10, <1>11 DEF on, out

(* What a statement of the list returned is more work, or more exits.      *)
LEMMA ReturnedAsked == ASSUME NestedInv, VisitInv, itemVisited PROVE VisitInv'
<1>1. stack # <<>> /\ Top.fn = "list" /\ mode = "return"
  BY DEF itemVisited, Returned
<1>2. Stored(ret, Store) /\ Found(ret) \in SUBSET Way
  BY <1>1, ToldTop
<1>3. PICK A, B : TopAsked(A) /\ Waits(Goal, Top, A, B) /\ Found(ret) \in B
  BY <1>1, ToldTop
<1>4. ListWaits(Top, A, B)
  BY <1>1, <1>3 DEF Waits
<1>5. PICK a \in Plain : ListOwes(Top, {Work(a, Top.item)}, A) /\ B = To(Top.stmts[Top.item], a)
  BY <1>4 DEF ListWaits
<1> DEFINE on == GoesOn(Top, ret)
           out == Leaving(Top, ret)
           new == Picked(on, Unseen(Top, on))
           F == addExit(addWork(Top, on), out)
           cur == Work(a, Top.item)
<1>6. Calls(<<F>>)
  BY DEF itemVisited
<1>7. /\ Stored(on, Store) /\ Stored(out, Store) /\ Found(out) \in SUBSET Way
      /\ \A W, X : WorkSet(on) \subseteq W /\ Found(out) \subseteq X =>
           \A y \in Found(ret) : Sorted(Place(Top.stmts, Top.isASwitch, Top.item), y, W, X)
  BY <1>2, SortedAsked
<1>8. /\ F.fn = "list" /\ F.stmts = Top.stmts /\ F.isASwitch = Top.isASwitch
      /\ F.todo = Top.todo \o new /\ F.seen = Top.seen \o new /\ F.exits = Top.exits \o out
  <2>1. ListRecord(Top)
    BY <1>1, ListShape
  <2> DEFINE more == Top.todo \o new
             seen == Top.seen \o new
             exits == Top.exits \o out
             g == addWork(Top, on)
  <2>2. g = [Top EXCEPT !.todo = more, !.seen = seen]
    BY DEF addWork
  <2>3. F = [g EXCEPT !.exits = g.exits \o out]
    BY DEF addExit
  <2> HIDE DEF on, out, new, F, more, seen, g
  <2>4. [Top EXCEPT !.todo = more, !.seen = seen] =
          [fn |-> "list", stmts |-> Top.stmts, isASwitch |-> Top.isASwitch,
           item |-> Top.item, todo |-> more, seen |-> seen, exits |-> Top.exits]
    BY <2>1, ListMore
  <2>5. g = [fn |-> "list", stmts |-> Top.stmts, isASwitch |-> Top.isASwitch,
             item |-> Top.item, todo |-> more, seen |-> seen, exits |-> Top.exits]
    BY <2>2, <2>4
  <2>6. F = [g EXCEPT !.exits = exits]
    <3>1. g.exits = Top.exits
      BY <2>5
    <3> QED
      BY <2>3, <3>1
  <2> HIDE DEF exits
  <2>7. F = [fn |-> "list", stmts |-> Top.stmts, isASwitch |-> Top.isASwitch,
             item |-> Top.item, todo |-> more, seen |-> seen, exits |-> exits]
    BY <2>5, <2>6
  <2>8. /\ F.fn = "list" /\ F.stmts = Top.stmts /\ F.isASwitch = Top.isASwitch
        /\ F.todo = more /\ F.seen = seen /\ F.exits = exits
    BY <2>7
  <2> QED
    BY <2>8 DEF more, seen, exits
<1>9. /\ Top.isASwitch \in BOOLEAN /\ Stored(Top.seen, Store) /\ Found(Top.exits) \in SUBSET Way
      /\ Stored(Top.todo, Store) /\ Stored(Top.exits, Store)
  BY <1>1, <1>5, ListShape DEF ListOwes
<1> HIDE DEF on, out
<1>10. Stored(new, Store) /\ WorkSet(on) \subseteq WorkSet(Top.seen) \cup WorkSet(new)
  BY <1>7, <1>9, AddedWorks
<1> HIDE DEF new, F
<1>11. /\ WorkSet(F.todo) = WorkSet(Top.todo) \cup WorkSet(new)
       /\ WorkSet(F.seen) = WorkSet(Top.seen) \cup WorkSet(new)
       /\ Found(F.exits) = Found(Top.exits) \cup Found(out)
       /\ Stored(F.seen, Store)
  <2>1. Sequence(Top.todo) /\ Sequence(Top.seen) /\ Sequence(new)
        /\ Sequence(Top.exits) /\ Sequence(out)
    BY <1>7, <1>9, <1>10 DEF Stored
  <2>2. WorkSet(F.todo) = WorkSet(Top.todo) \cup WorkSet(new)
    BY <1>8, <2>1, WorksJoined
  <2>3. WorkSet(F.seen) = WorkSet(Top.seen) \cup WorkSet(new)
    BY <1>8, <2>1, WorksJoined
  <2>4. Found(F.exits) = Found(Top.exits) \cup Found(out)
    BY <1>8, <2>1, FoundJoined
  <2>5. Stored(F.seen, Store)
    BY <1>8, <1>9, <1>10, StoredJoined
  <2> QED
    BY <2>2, <2>3, <2>4, <2>5
<1>12. ASSUME NEW W, NEW X, X \in SUBSET Way, WorkSet(F.seen) \subseteq W,
              Found(F.exits) \subseteq X,
              \A w \in W : \/ Handled(Foretold, F.stmts, F.isASwitch, w, W, X)
                           \/ w \in WorkSet(F.seen) /\ w \notin WorkSet(F.todo) /\ w \notin {}
       PROVE  X \in A
  <2>1. WorkSet(Top.seen) \subseteq W /\ Found(Top.exits) \subseteq X
        /\ WorkSet(on) \subseteq W /\ Found(out) \subseteq X
    BY <1>10, <1>11, <1>12
  <2>2. \A y \in Found(ret) : Sorted(Place(Top.stmts, Top.isASwitch, Top.item), y, W, X)
    BY <1>7, <2>1
  <2>3. Handled(Foretold, Top.stmts, Top.isASwitch, cur, W, X)
    <3>1. cur.at = Top.item /\ cur.st = a
      BY DEF Work
    <3>2. <<Top.stmts[Top.item], a, Found(ret)>> \in Foretold
      BY <1>3, <1>5 DEF To, Answered, Plain
    <3>3. cur.at \in DOMAIN Top.stmts
      BY <1>4, <3>1 DEF ListWaits
    <3> HIDE DEF cur
    <3>4. <<Top.stmts[cur.at], cur.st, Found(ret)>> \in Foretold
      BY <3>1, <3>2
    <3>5. \A y \in Found(ret) : Sorted(Place(Top.stmts, Top.isASwitch, cur.at), y, W, X)
      BY <2>2, <3>1
    <3> QED
      BY <1>2, <3>3, <3>4, <3>5 DEF Handled
  <2>4. \A w \in W : \/ Handled(Foretold, Top.stmts, Top.isASwitch, w, W, X)
                     \/ w \in WorkSet(Top.seen) /\ w \notin WorkSet(Top.todo) /\ w \notin {cur}
    <3> HIDE DEF cur
    <3> QED
      BY <1>8, <1>11, <1>12, <2>3
  <2> HIDE DEF cur
  <2>5. ListOwes(Top, {cur}, A)
    BY <1>5 DEF cur
  <2> QED
    BY <1>12, <2>1, <2>4, <2>5 DEF ListOwes
<1>13. ListOwes(F, {}, A)
  <2>1. F.isASwitch \in BOOLEAN
    BY <1>8, <1>9
  <2>2. Found(F.exits) \in SUBSET Way
    BY <1>7, <1>9, <1>11
  <2> QED
    BY <1>11, <1>12, <2>1, <2>2 DEF ListOwes
<1>14. Asked(F, A)
  BY <1>8, <1>13 DEF Asked
<1> QED
  BY <1>1, <1>3, <1>6, <1>14, OneCallVisits DEF F

(* The frame of a range statement.                                         *)
RangeRecord(f) ==
  f = [fn |-> "range", stmt |-> f.stmt, todo |-> f.todo, seen |-> f.seen,
       exits |-> f.exits, deps |-> f.deps, canRelease |-> f.canRelease]

(* Key and value of a range statement are defined or assigned to at once.  *)
LEMMA BoundAtOnce ==
  ASSUME NEW s \in Stmts, s.kind = "range"
  PROVE  AtOnce(s.key, s.value)
<1>1. s \in StmtOver(Stmts)
  BY StmtsAssumption
<1>2. \A t \in SimpleStmt : t.kind = "simple"
  BY DEF SimpleStmt, Nil, Simple
<1> QED
  BY <1>1, <1>2 DEF StmtOver

(* What one identifier has borrowed may be a container.                    *)
LEMMA ContainerShort ==
  ASSUME NEW deps \in Short, deps # <<>>
  PROVE  /\ KeyOf(Container(deps)) \in Permission \cup {NoPerm}
         /\ ElementOf(Container(deps)) \in Permission \cup {NoPerm}
<1>1. PICK l \in Loan : deps = <<l>>
  BY DEF Short
<1>2. deps \in Seq(Loan)
  BY <1>1
<1> QED
  BY <1>2, ContainerPermissions

(* The fields of the frame of a range statement.                           *)
LEMMA RangeShape ==
  ASSUME NestedInv, stack # <<>>, Top.fn = "range"
  PROVE  /\ RangeRecord(Top)
         /\ Top.stmt \in Stmts /\ Top.stmt.kind = "range"
         /\ Top.stmt.key \in Binding /\ Top.stmt.value \in Binding /\ Top.stmt.body \in Stmts
         /\ AtOnce(Top.stmt.key, Top.stmt.value)
         /\ KeyOf(Container(Top.deps)) \in Permission \cup {NoPerm}
         /\ ElementOf(Container(Top.deps)) \in Permission \cup {NoPerm}
         /\ Stored(Top.todo, Store) /\ Stored(Top.exits, Store)
<1>1. PICK d : RangeFrame(orig, Top, d)
  BY RangeTop
<1>2. RangeRecord(Top) /\ Top.stmt \in Stmts /\ Top.stmt.kind = "range"
  BY <1>1 DEF RangeFrame, RangeRecord
<1>3. Stored(Top.todo, Store) /\ Stored(Top.exits, Store)
  BY <1>1 DEF RangeFrame, Stored, Good
<1>4. /\ Top.stmt.key \in Binding /\ Top.stmt.value \in Binding /\ Top.stmt.body \in Stmts
      /\ AtOnce(Top.stmt.key, Top.stmt.value)
  BY <1>2, StmtParts, BoundAtOnce
<1>5. /\ KeyOf(Container(Top.deps)) \in Permission \cup {NoPerm}
      /\ ElementOf(Container(Top.deps)) \in Permission \cup {NoPerm}
  BY <1>1, ContainerPermissions DEF RangeFrame
<1> QED
  BY <1>2, <1>3, <1>4, <1>5

(* A loop as it begins.                                                    *)
LEMMA RangeMade ==
  ASSUME NEW stmt, NEW st, NEW ex, NEW deps
  PROVE  LET f == [Loop("range", stmt, st, ex) EXCEPT !.deps = deps, !.canRelease = TRUE]
         IN  /\ f.fn = "range" /\ f.stmt = stmt /\ f.todo = <<Work(st, Outside)>>
             /\ f.seen = <<Work(st, Outside)>> /\ f.exits = ex /\ f.deps = deps /\ f.canRelease
<1> DEFINE one == <<Work(st, Outside)>>
           f == [Loop("range", stmt, st, ex) EXCEPT !.deps = deps, !.canRelease = TRUE]
<1>1. PICK l : l = Loop("range", stmt, st, ex)
  OBVIOUS
<1>2. l = [fn |-> "range", stmt |-> stmt, todo |-> one, seen |-> one,
           exits |-> ex, deps |-> <<>>, canRelease |-> FALSE]
  BY <1>1 DEF Loop
<1> HIDE DEF one
<1>3. PICK g : g = [l EXCEPT !.deps = deps]
  OBVIOUS
<1>4. g = [fn |-> "range", stmt |-> stmt, todo |-> one, seen |-> one,
           exits |-> ex, deps |-> deps, canRelease |-> FALSE]
  BY <1>2, <1>3
<1>0. PICK b : b = TRUE
  OBVIOUS
<1>5. f = [g EXCEPT !.canRelease = b]
  BY <1>0, <1>1, <1>3
<1>6. f = [fn |-> "range", stmt |-> stmt, todo |-> one, seen |-> one,
           exits |-> ex, deps |-> deps, canRelease |-> b]
  BY <1>4, <1>5
<1> HIDE DEF f
<1>7. /\ f.fn = "range" /\ f.stmt = stmt /\ f.todo = one
      /\ f.seen = one /\ f.exits = ex /\ f.deps = deps /\ f.canRelease = b
  BY <1>6
<1> QED
  BY <1>0, <1>7 DEF f, one

(* The works of one.                                                       *)
LEMMA WorkOne ==
  ASSUME NEW st \in Store, NEW at
  PROVE  WorkSet(<<Work(st, at)>>) = {Work(Unused(st), at)} /\ Stored(<<Work(st, at)>>, Store)
<1> DEFINE s == <<Work(st, at)>>
<1>1. Len(s) = 1 /\ s[1].st = st /\ s[1].at = at /\ Sequence(s)
  BY ShortSequences DEF Work
<1> HIDE DEF s
<1>2. 1..Len(s) = {1}
  BY <1>1
<1>3. WorkSet(s) = {Work(Unused(st), at)} /\ Stored(s, Store)
  BY <1>1, <1>2 DEF WorkSet, Stored
<1> QED
  BY <1>3 DEF s

(* visitRangeStmt.                                                         *)
LEMMA RangeBegunAsked == ASSUME NestedInv, VisitInv, visitRangeStmt PROVE VisitInv'
<1>1. Called("stmt") /\ Top.stmt.kind = "range"
  BY DEF visitRangeStmt, Visiting
<1>2. stack # <<>> /\ Top.st \in Store /\ Top.stmt \in Stmts
  BY <1>1, AskedStmt
<1>3. PICK A : /\ TopAsked(A)
               /\ \A X \in SUBSET Way : Justified(Foretold, Top.stmt, Top.st, X) => X \in A
  BY <1>1, AskedStmt
<1> DEFINE q == Top.stmt
           a == Top.st
           read == After(a, q.x)
           st == Log(read)
           deps == Deps(a, q.x)
           ex == <<Exit(a, NoBranch)>>
           F == [Loop("range", q, st, ex) EXCEPT !.deps = deps, !.canRelease = TRUE]
<1>4. CASE Panics
  BY <1>4, PanicVisits
<1>5. CASE CanRead(a, q.x) /\ st # Broken /\ Calls(<<F>>)
  <2>1. /\ F.fn = "range" /\ F.stmt = q /\ F.todo = <<Work(st, Outside)>>
        /\ F.seen = <<Work(st, Outside)>> /\ F.exits = ex /\ F.deps = deps /\ F.canRelease
    <3> HIDE DEF q, a, st, deps, ex
    <3> QED
      BY RangeMade
  <2> HIDE DEF F
  <2>0. read # Broken /\ read \in Store
    BY <1>2, <1>5, LogBroken, ReadBack DEF Any
  <2>2. st \in Store /\ Unused(st) = Unused(read) /\ deps \in Short
    <3>1. deps \in Short
      BY <1>2, <1>5, ReadBack
    <3> HIDE DEF read
    <3> QED
      BY <2>0, <3>1, LogAlike, UnusedSame
  <2>3. Found(F.exits) = {Exit(Unused(a), NoBranch)} /\ Unused(a) \in Plain
    BY <1>2, <2>1, FoundOne, PlainFacts
  <2>4. Found(F.exits) \in SUBSET Way
    BY <1>2, <2>3, BranchWays
  <2>5. WorkSet(F.seen) = {Work(Unused(st), Outside)} /\ WorkSet(F.todo) = WorkSet(F.seen)
        /\ Stored(F.seen, Store)
    <3> HIDE DEF st
    <3> QED
      BY <2>1, <2>2, WorkOne
  <2>6. Unused(Parting(q, deps, Unused(a))) = Unused(a)
    <3>1. CASE Lends(q, deps)
      <4>1. Alike(a, Unused(a))
        BY <1>2, UnusedFacts, AlikeStores
      <4>2. Equal(a, Unused(a)) /\ Unused(a) \in Store
        BY <1>2, UnusedFacts
      <4>3. CanRead(Unused(a), q.x) /\ Deps(Unused(a), q.x) = deps
        BY <1>2, <1>5, <4>2, EqualLooks
      <4> DEFINE b == Unused(a)
                 n == q.x
                 u == Release(b, Deps(b, n))
      <4>4. b \in Store /\ CanRead(b, n)
        BY <4>2, <4>3
      <4> HIDE DEF b, n
      <4>5. u # Broken /\ u \in Store /\ Equal(b, u)
        <5>1. /\ After(b, n) = Borrow(b, n) /\ After(b, n) \in Any
              /\ Deps(b, n) = <<Borrowed(b, n)>> /\ Deps(b, n) \in Short
              /\ LET u0 == Release(b, Deps(b, n)) IN u0 # Broken /\ u0 \in Store /\ Equal(b, u0)
          BY <4>4, ReadBack, ZenonT(30)
        <5> QED
          BY <5>1
      <4>6. Unused(u) = Unused(b)
        BY <4>4, <4>5, UnusedSame
      <4>7. Parting(q, deps, b) = u
        BY <3>1, <4>3 DEF Parting, b, n
      <4>8. Unused(b) = b
        BY <1>2, PlainFacts DEF b
      <4> QED
        BY <4>6, <4>7, <4>8 DEF b
    <3>2. CASE ~Lends(q, deps)
      BY <1>2, <3>2, PlainFacts DEF Parting
    <3> QED
      BY <3>1, <3>2
  <2> HIDE DEF ex, deps, st
  <2>7. ASSUME NEW W, NEW X, X \in SUBSET Way, WorkSet(F.seen) \subseteq W,
               \A e \in Found(F.exits) : /\ Parting(F.stmt, F.deps, e.st) # Broken
                        /\ Exit(Unused(Parting(F.stmt, F.deps, e.st)), e.branch) \in X,
               \A w \in W : \/ Iterated(Foretold, F.stmt, F.deps, w, W, X)
                            \/ w \in WorkSet(F.seen) /\ w \notin WorkSet(F.todo) /\ w \notin {}
        PROVE  X \in A
    <3> DEFINE e == Exit(Unused(a), NoBranch)
    <3>1. e \in Found(F.exits) /\ e.st = Unused(a) /\ e.branch = NoBranch
      BY <2>3 DEF Exit
    <3> HIDE DEF e
    <3>2. Exit(Unused(Parting(F.stmt, F.deps, e.st)), e.branch) \in X
      BY <2>7, <3>1
    <3>3. Exit(Unused(a), NoBranch) \in X
      BY <2>1, <2>6, <3>1, <3>2
    <3>4. \A w \in W : Iterated(Foretold, q, deps, w, W, X)
      BY <2>1, <2>5, <2>7
    <3>5. AsRange(Foretold, q, a, X)
      BY <1>5, <2>0, <2>2, <2>5, <2>7, <3>3, <3>4 DEF AsRange, deps
    <3> QED
      BY <1>1, <1>3, <2>7, <3>5 DEF Justified
  <2>8. RangeOwes(F, {}, A)
    BY <2>1, <2>2, <2>4, <2>5, <2>7 DEF RangeOwes
  <2>9. F.todo # <<>>
    BY <2>1
  <2>10. Asked(F, A)
    BY <2>1, <2>8, <2>9 DEF Asked
  <2>11. Calls(<<F>>)
    BY <1>5
  <2> QED
    BY <1>2, <1>3, <2>10, <2>11, OneCallVisits
<1>6. Panics \/ (CanRead(a, q.x) /\ st # Broken /\ Calls(<<F>>))
  BY DEF visitRangeStmt, CallsIf
<1> QED
  BY <1>4, <1>5, <1>6

(* A name that is new in its block is put in front, with its permission.   *)
LEMMA DefinedLooks ==
  ASSUME NEW st \in Store, NEW n \in Name, NEW p \in Permission, ~InBlock(st, n)
  PROVE  /\ WithVariable(st, n, p) = <<NewCell(n, p)>> \o st
         /\ NewCell(n, p) \in Entry /\ NewCell(n, p).name = n
         /\ Effective(WithVariable(st, n, p), n) = p
<1> DEFINE c == NewCell(n, p)
           t == <<c>> \o st
<1>1. st # Broken /\ n # Unnamed /\ Len(st) \in Nat /\ st \in Seq(Entry)
  BY BrokenIsNone, UnnamedAssumption, StoreEntries DEF Store
<1>2. \A S : \A x \in S, s \in Seq(S) : (<<x>> \o s)[1] = x /\ Len(<<x>> \o s) = Len(s) + 1
  OBVIOUS
<1>3. WithVariable(st, n, p) = t
  BY <1>1 DEF WithVariable
<1>4. c \in Entry /\ c.name = n /\ c.eff = p
  BY <1>1, EntryMade, IntersectAssumption DEF NewCell, Leq
<1> HIDE DEF c
<1>5. t[1] = c /\ Len(t) = Len(st) + 1 /\ t \in Store
  <2>1. t \in Store
    BY <1>1, <1>4 DEF Store
  <2> QED
    BY <1>1, <1>2, <1>4, <2>1
<1> HIDE DEF t
<1>6. 1 \in DOMAIN t
  BY <1>1, <1>5, StoreEntries
<1>7. Has(t, n)
  BY <1>4, <1>5, <1>6 DEF Has
<1> DEFINE k == IndexOf(t, n)
<1>8. First(t, n, k) /\ k \in 1..Len(t)
  BY <1>5, <1>7, IndexFirst
<1> HIDE DEF k
<1>9. k = 1
  <2> SUFFICES ASSUME k # 1 PROVE FALSE
    OBVIOUS
  <2>1. 1 \in 1..(k - 1)
    BY <1>1, <1>5, <1>8
  <2> QED
    BY <1>4, <1>5, <1>8, <2>1 DEF First
<1>10. Effective(t, n) = p
  BY <1>4, <1>5, <1>7, <1>9 DEF Effective, k
<1> QED
  BY <1>3, <1>4, <1>10 DEF c, t

(* Nothing is in a block that has just been opened ...                     *)
LEMMA OpenedHasNone ==
  ASSUME NEW st \in Store, NEW n \in Name
  PROVE  ~InBlock(Opened(st), n)
<1> DEFINE op == Opened(st)
<1>1. op = <<Marker>> \o st /\ op \in Store /\ n # Unnamed
  BY AlikeItself, BrokenIsNone, UnnamedAssumption DEF Opened
<1>2. \A S : \A x \in S, s \in Seq(S) : (<<x>> \o s)[1] = x
  OBVIOUS
<1>3. op[1] = Marker /\ Len(op) \in Nat /\ DOMAIN op = 1..Len(op)
  <2>1. st \in Seq(Entry) /\ Marker \in Entry
    BY MarkerEntry DEF Store
  <2> HIDE DEF op
  <2> QED
    BY <1>1, <1>2, <2>1, StoreEntries
<1>4. op[1].name = Unnamed
  BY <1>3 DEF Marker
<1> HIDE DEF op
<1>5. ~InBlock(op, n)
  <2> SUFFICES ASSUME NEW i \in DOMAIN op, First(op, n, i),
                      \A j \in 1..(i - 1) : op[j].name # Unnamed
               PROVE  FALSE
    BY DEF InBlock
  <2>1. i # 1
    BY <1>1, <1>4 DEF First
  <2>2. 1 \in 1..(i - 1)
    BY <1>3, <2>1
  <2> QED
    BY <1>4, <2>2
<1> QED
  BY <1>5 DEF op

(* ... and only what has been defined in it since.                         *)
LEMMA DefinedHasNone ==
  ASSUME NEW st \in Store, NEW c \in Entry, NEW n, c.name # n, ~InBlock(st, n)
  PROVE  ~InBlock(<<c>> \o st, n)
<1> DEFINE t == <<c>> \o st
<1>1. t \in Store /\ st \in Seq(Entry)
  BY DEF Store
<1>2. /\ Len(st) \in Nat /\ Len(t) = Len(st) + 1
      /\ DOMAIN t = 1..Len(t) /\ DOMAIN st = 1..Len(st)
      /\ t[1] = c /\ \A j \in 1..Len(st) : t[j + 1] = st[j]
  BY <1>1, StoreEntries
<1> HIDE DEF t
<1>3. ASSUME NEW i \in DOMAIN t, First(t, n, i), \A j \in 1..(i - 1) : t[j].name # Unnamed
      PROVE  FALSE
  <2> DEFINE k == i - 1
  <2>1. i # 1
    BY <1>2, <1>3 DEF First
  <2>2. k \in 1..Len(st) /\ i = k + 1 /\ k \in Nat
    BY <1>2, <2>1
  <2> HIDE DEF k
  <2>3. \A j \in 1..(k - 1) : j \in 1..Len(st) /\ j + 1 \in 1..(i - 1)
    BY <1>2, <2>2
  <2>4. First(st, n, k)
    BY <1>2, <1>3, <2>2, <2>3 DEF First
  <2>5. \A j \in 1..(k - 1) : st[j].name # Unnamed
    BY <1>2, <1>3, <2>3
  <2> QED
    BY <1>2, <2>2, <2>4, <2>5 DEF InBlock
<1> QED
  BY <1>3 DEF InBlock, t

(* Whether what a key or a value got is owned depends on how it got it.    *)
LEMMA BoundOwned ==
  ASSUME NEW st \in Store, NEW key \in Binding, NEW p \in Permission \cup {NoPerm},
         key.does = "define" => ~InBlock(st, key.name), Bound(st, key, p) # Broken
  PROVE  /\ Releasable(Bound(st, key, p), key) <=> Unowned(key, p)
         /\ key.does = "nothing" => Bound(st, key, p) = st
         /\ key.does = "define" => /\ NewCell(key.name, p) \in Entry
                                   /\ NewCell(key.name, p).name = key.name
                                   /\ Bound(st, key, p) = <<NewCell(key.name, p)>> \o st
<1> DEFINE u == Bound(st, key, p)
           n == key.name
<1>1. key.does \in {"nothing", "define", "assign"} /\ (key.does # "nothing" => n \in Name)
  BY DEF Binding, SimpleStmt, Nil, Simple
<1>2. CASE key.does = "nothing"
  BY <1>2 DEF Bound, Releasable, Unowned
<1>3. CASE key.does = "define"
  <2>1. p \in Permission /\ u = WithVariable(st, n, p)
    BY <1>3 DEF Bound, defineOrAssign
  <2>2. u = <<NewCell(n, p)>> \o st /\ Effective(u, n) = p
        /\ NewCell(n, p) \in Entry /\ NewCell(n, p).name = n
    <3> HIDE DEF u, n
    <3> QED
      BY <1>1, <1>3, <2>1, DefinedLooks DEF n
  <2> HIDE DEF u
  <2>3. Releasable(u, key) <=> p \notin Owned
    BY <1>3, <2>2 DEF Releasable
  <2> QED
    BY <1>3, <2>2, <2>3 DEF Unowned, u
<1>4. CASE key.does = "assign"
  <2>1. Takes(u, n, p, FALSE)
    BY <1>4 DEF Bound, defineOrAssign
  <2> HIDE DEF u
  <2>2. Effective(u, n) \in Owned
    BY <2>1 DEF Takes, Assignable
  <2>3. ~Releasable(u, key)
    BY <1>4, <2>2 DEF Releasable
  <2> QED
    BY <1>4, <2>3 DEF Unowned, u
<1> QED
  BY <1>1, <1>2, <1>3, <1>4

(* Whether a range can give back what it borrowed does not depend on the   *)
(* store an iteration begins with.                                         *)
LEMMA LendsAlways ==
  ASSUME NEW s, s.key \in Binding, s.value \in Binding, AtOnce(s.key, s.value),
         NEW deps, KeyOf(Container(deps)) \in Permission \cup {NoPerm},
         ElementOf(Container(deps)) \in Permission \cup {NoPerm},
         NEW st \in Store, Entering(s, deps, st) # Broken
  PROVE  LET keyed == Bound(Opened(st), s.key, KeyOf(Container(deps)))
         IN  Lends(s, deps) <=> /\ Releasable(keyed, s.key)
                                /\ Releasable(Entering(s, deps, st), s.value)
<1> DEFINE op == Opened(st)
           p == KeyOf(Container(deps))
           q == ElementOf(Container(deps))
           keyed == Bound(op, s.key, p)
           bound == Bound(keyed, s.value, q)
<1>1. Entering(s, deps, st) = bound
  BY DEF Entering
<1>2. op \in Store /\ op # Broken
  BY AlikeItself
<1>3. /\ s.key.does \in {"nothing", "define", "assign"}
      /\ s.key.does # "nothing" => s.key.name \in Name
      /\ s.value.does \in {"nothing", "define", "assign"}
      /\ s.value.does # "nothing" => s.value.name \in Name
  BY DEF Binding, SimpleStmt, Nil, Simple
<1>4. bound # Broken /\ keyed # Broken
  <2>1. Bound(Broken, s.value, q) = Broken
    BY BrokenStays DEF Bound, defineOrAssign, Assigned
  <2> QED
    BY <1>1, <2>1
<1>5. keyed \in Store
  <2>1. Alike(op, op)
    BY <1>2, AlikeRelation DEF Any
  <2> HIDE DEF op, p
  <2>2. keyed \in Any
    BY <2>1, AlikeBound DEF p
  <2> QED
    BY <1>4, <2>2 DEF Any
<1>6. s.key.does = "define" => ~InBlock(op, s.key.name)
  BY <1>3, OpenedHasNone
<1>7. /\ Releasable(keyed, s.key) <=> Unowned(s.key, p)
      /\ s.key.does = "nothing" => keyed = op
      /\ s.key.does = "define" => /\ NewCell(s.key.name, p) \in Entry
                                  /\ NewCell(s.key.name, p).name = s.key.name
                                  /\ keyed = <<NewCell(s.key.name, p)>> \o op
  <2> HIDE DEF op, p
  <2>1. p \in Permission \cup {NoPerm}
    BY DEF p
  <2> QED
    BY <1>2, <1>4, <1>6, <2>1, BoundOwned
<1>8. s.value.does = "define" => ~InBlock(keyed, s.value.name)
  <2> SUFFICES ASSUME s.value.does = "define" PROVE ~InBlock(keyed, s.value.name)
    OBVIOUS
  <2>1. ~InBlock(op, s.value.name)
    BY <1>3, OpenedHasNone
  <2> HIDE DEF op, keyed, p
  <2>2. CASE s.key.does = "nothing"
    BY <1>7, <2>1, <2>2
  <2>3. CASE s.key.does = "define"
    <3>1. s.key.name # s.value.name
      BY <2>3 DEF AtOnce
    <3> QED
      BY <1>2, <1>7, <2>1, <2>3, <3>1, DefinedHasNone
  <2>4. s.key.does # "assign"
    BY DEF AtOnce
  <2> QED
    BY <1>3, <2>2, <2>3, <2>4
<1>9. Releasable(bound, s.value) <=> Unowned(s.value, q)
  <2> HIDE DEF keyed, q
  <2>1. q \in Permission \cup {NoPerm}
    BY DEF q
  <2> QED
    BY <1>4, <1>5, <1>8, <2>1, BoundOwned
<1> HIDE DEF keyed, bound
<1> QED
  BY <1>1, <1>7, <1>9 DEF Lends, keyed

(* An iteration is begun.                                                  *)
LEMMA IterationMade ==
  ASSUME NEW f, RangeRecord(f), NEW left, NEW b
  PROVE  LET g == [f EXCEPT !.todo = left]
         IN  [g EXCEPT !.canRelease = b] =
               [fn |-> "range", stmt |-> f.stmt, todo |-> left, seen |-> f.seen,
                exits |-> f.exits, deps |-> f.deps, canRelease |-> b]
<1>1. f = [fn |-> "range", stmt |-> f.stmt, todo |-> f.todo, seen |-> f.seen,
           exits |-> f.exits, deps |-> f.deps, canRelease |-> f.canRelease]
  BY DEF RangeRecord
<1>2. PICK g : g = [f EXCEPT !.todo = left]
  OBVIOUS
<1>3. g = [fn |-> "range", stmt |-> f.stmt, todo |-> left, seen |-> f.seen,
           exits |-> f.exits, deps |-> f.deps, canRelease |-> f.canRelease]
  BY <1>1, <1>2
<1>4. [g EXCEPT !.canRelease = b] =
        [fn |-> "range", stmt |-> f.stmt, todo |-> left, seen |-> f.seen,
         exits |-> f.exits, deps |-> f.deps, canRelease |-> b]
  BY <1>3
<1> QED
  BY <1>2, <1>4

(* The visit of the body begins an iteration.                              *)
LEMMA IterationAsked == ASSUME NestedInv, VisitInv, rangeIterates PROVE VisitInv'
<1>1. stack # <<>> /\ Top.fn = "range" /\ hasWork(Top) /\ mode = "call"
  BY DEF rangeIterates, Called
<1>2. PICK A : TopAsked(A) /\ Asked(Top, A)
  BY <1>1, VisitTop
<1>3. /\ RangeOwes(Top, {}, A)
      /\ (Top.canRelease <=> Lends(Top.stmt, Top.deps)) \/ (Top.canRelease /\ Top.todo # <<>>)
  BY <1>1, <1>2 DEF Asked
<1>4. RangeOwes(Top, {}, A)
  BY <1>1, <1>2 DEF Asked
<1> DEFINE w == nextWork(Top)
           s == Top.stmt
           log == Log(w.st)
           p == KeyOf(Container(Top.deps))
           q == ElementOf(Container(Top.deps))
           keyed == Bound(Opened(log), s.key, p)
           st == Bound(keyed, s.value, q)
           can == /\ Top.canRelease /\ Releasable(keyed, s.key) /\ Releasable(st, s.value)
           F == Visit(st, s.body)
           left == SubSeq(Top.todo, 1, Len(Top.todo) - 1)
           H == [withoutNext(Top) EXCEPT !.canRelease =
                   /\ @ /\ Releasable(keyed, s.key) /\ Releasable(st, s.value)]
           cur == Work(Unused(w.st), w.at)
           a == Unused(w.st)
           B == To(s.body, Entering(s, Top.deps, a))
<1>5. /\ RangeRecord(Top) /\ s \in Stmts /\ s.key \in Binding /\ s.value \in Binding
      /\ Stored(Top.todo, Store) /\ AtOnce(s.key, s.value)
      /\ p \in Permission \cup {NoPerm} /\ q \in Permission \cup {NoPerm}
  BY <1>1, RangeShape
<1>6. /\ WorkSet(Top.todo) \subseteq WorkSet(left) \cup {cur}
      /\ w.st \in Store /\ cur \in WorkSet(Top.todo)
  BY <1>1, <1>5, WorksFront DEF hasWork, nextWork
<1>7. CASE Panics
  BY <1>7, PanicVisits
<1>8. CASE st # Broken /\ Calls(<<F, H>>)
  <2>1. PICK b : b = can
    OBVIOUS
  <2>2. H = [fn |-> "range", stmt |-> s, todo |-> left, seen |-> Top.seen,
             exits |-> Top.exits, deps |-> Top.deps, canRelease |-> b]
    <3>1. PICK g : g = [Top EXCEPT !.todo = left]
      OBVIOUS
    <3>2. g.canRelease = Top.canRelease
      <4> HIDE DEF left
      <4>1. Top = [fn |-> "range", stmt |-> Top.stmt, todo |-> Top.todo, seen |-> Top.seen,
                   exits |-> Top.exits, deps |-> Top.deps, canRelease |-> Top.canRelease]
        BY <1>5 DEF RangeRecord
      <4>2. g = [fn |-> "range", stmt |-> Top.stmt, todo |-> left, seen |-> Top.seen,
                   exits |-> Top.exits, deps |-> Top.deps, canRelease |-> Top.canRelease]
        BY <3>1, <4>1
      <4> QED
        BY <4>2
    <3>3. withoutNext(Top) = g
      BY <3>1 DEF withoutNext
    <3>4. H = [g EXCEPT !.canRelease = b]
      <4> HIDE DEF left, keyed, st
      <4>1. H = [g EXCEPT !.canRelease = /\ @ /\ Releasable(keyed, s.key)
                                        /\ Releasable(st, s.value)]
        BY <3>3
      <4>2. H = [g EXCEPT !.canRelease = /\ g.canRelease /\ Releasable(keyed, s.key)
                                        /\ Releasable(st, s.value)]
        BY <4>1
      <4> QED
        BY <2>1, <3>2, <4>2
    <3> HIDE DEF left, H
    <3>5. LET g0 == [Top EXCEPT !.todo = left]
          IN  [g0 EXCEPT !.canRelease = b] =
                [fn |-> "range", stmt |-> Top.stmt, todo |-> left, seen |-> Top.seen,
                 exits |-> Top.exits, deps |-> Top.deps, canRelease |-> b]
      BY <1>5, IterationMade
    <3> QED
      BY <3>1, <3>4, <3>5
  <2>3. F.fn = "stmt" /\ F.st = st /\ F.stmt = s.body
    BY DEF Visit
  <2>4. /\ a \in Plain /\ a \in Store /\ log \in Store /\ Alike(log, a)
    <3>1. /\ a \in Plain /\ a \in Store /\ Equal(w.st, a)
      BY <1>6, PlainFacts, UnusedFacts
    <3>2. log \in Store /\ Equal(w.st, log)
      BY <1>6, LogAlike
    <3> HIDE DEF a, log
    <3>3. Alike(w.st, a) /\ Alike(w.st, log)
      BY <1>6, <3>1, <3>2, AlikeStores
    <3> QED
      BY <3>1, <3>2, <3>3, AlikeRelation
  <2>5. st = Entering(s, Top.deps, log)
    BY DEF Entering
  <2>6. Alike(st, Entering(s, Top.deps, a))
    <3>2. Alike(Opened(log), Opened(a))
      <4> HIDE DEF log, a
      <4> QED
        BY <2>4, AlikeOpened
    <3> DEFINE o1 == Opened(log)
               o2 == Opened(a)
    <3>3. Alike(o1, o2)
      BY <3>2
    <3> HIDE DEF o1, o2, p, q
    <3>4. Alike(Bound(o1, s.key, p), Bound(o2, s.key, p))
      BY <1>5, <3>3, AlikeBound
    <3> DEFINE k1 == Bound(o1, s.key, p)
               k2 == Bound(o2, s.key, p)
    <3>5. Alike(k1, k2)
      BY <3>4
    <3> HIDE DEF k1, k2
    <3>6. Alike(Bound(k1, s.value, q), Bound(k2, s.value, q))
      BY <1>5, <3>5, AlikeBound
    <3> QED
      BY <3>6 DEF k1, k2, o1, o2, p, q, Entering
  <2>7. Entering(s, Top.deps, a) # Broken /\ Entering(s, Top.deps, a) \in Store /\ st \in Store
        /\ Equal(st, Entering(s, Top.deps, a))
    <3> HIDE DEF st
    <3> QED
      BY <1>8, <2>6, AlikeUnused
  <2>8. b <=> Top.canRelease /\ Lends(s, Top.deps)
    <3>1. Entering(s, Top.deps, log) # Broken
      BY <1>8, <2>5
    <3> DEFINE u == log
               deps == Top.deps
    <3>2. /\ u \in Store /\ s.key \in Binding /\ s.value \in Binding /\ AtOnce(s.key, s.value)
          /\ Entering(s, deps, u) # Broken
          /\ KeyOf(Container(deps)) \in Permission \cup {NoPerm}
          /\ ElementOf(Container(deps)) \in Permission \cup {NoPerm}
      BY <1>5, <2>4, <3>1
    <3> HIDE DEF u, s, deps
    <3>3. LET k == Bound(Opened(u), s.key, KeyOf(Container(deps)))
          IN  Lends(s, deps) <=> /\ Releasable(k, s.key)
                                 /\ Releasable(Entering(s, deps, u), s.value)
      BY <3>2, LendsAlways
    <3> QED
      BY <2>1, <2>5, <3>3 DEF u, deps
  <2> HIDE DEF F, H, left, w, log, st, keyed
  <2>9. H.fn = "range" /\ H.stmt = s /\ H.todo = left /\ H.seen = Top.seen
        /\ H.exits = Top.exits /\ H.deps = Top.deps /\ H.canRelease = b
    BY <2>2
  <2>10. RangeOwes(H, {cur}, A)
    <3> HIDE DEF cur
    <3>1. Stored(H.seen, Store) /\ Found(H.exits) \in SUBSET Way /\ H.deps \in Short
      BY <1>4, <2>9 DEF RangeOwes
    <3>2. ASSUME NEW W, NEW X, X \in SUBSET Way, WorkSet(Top.seen) \subseteq W,
                 \A e \in Found(Top.exits) :
                   /\ Parting(Top.stmt, Top.deps, e.st) # Broken
                   /\ Exit(Unused(Parting(Top.stmt, Top.deps, e.st)), e.branch) \in X,
                 \A v \in W : \/ Iterated(Foretold, Top.stmt, Top.deps, v, W, X)
                              \/ v \in WorkSet(Top.seen) /\ v \notin WorkSet(left) /\ v \notin {cur}
          PROVE  X \in A
      <4>1. \A v \in W : \/ Iterated(Foretold, Top.stmt, Top.deps, v, W, X)
                         \/ v \in WorkSet(Top.seen) /\ v \notin WorkSet(Top.todo) /\ v \notin {}
        BY <1>6, <3>2
      <4> QED
        BY <1>4, <3>2, <4>1 DEF RangeOwes
    <3> QED
      BY <2>9, <3>1, <3>2 DEF RangeOwes
  <2>11. To(F.stmt, F.st) = B
    <3>1. \A x, X : Answered(x, st, X) <=> Answered(x, Entering(s, Top.deps, a), X)
      BY <2>7, AnsweredAlike
    <3> QED
      BY <2>3, <3>1 DEF To
  <2>12. B \subseteq SUBSET Way
    BY DEF To
  <2>13. RangeWaits(H, A, B)
    <3>1. cur.st = a
      BY DEF Work
    <3>2. cur.st \in Plain /\ Entering(H.stmt, H.deps, cur.st) # Broken /\ RangeOwes(H, {cur}, A)
          /\ B = To(H.stmt.body, Entering(H.stmt, H.deps, cur.st))
      BY <2>4, <2>7, <2>9, <2>10, <3>1
    <3>3. H.canRelease <=> Lends(H.stmt, H.deps)
      BY <1>3, <2>8, <2>9
    <3> HIDE DEF cur, B
    <3> QED
      BY <3>2, <3>3 DEF RangeWaits
  <2> HIDE DEF B
  <2>14. Asked(F, B)
    BY <2>3, <2>11 DEF Asked
  <2>15. Waits(Goal, H, A, B)
    BY <2>9, <2>12, <2>13 DEF Waits
  <2>16. Calls(<<F, H>>)
    BY <1>8
  <2> QED
    BY <1>1, <1>2, <2>14, <2>15, <2>16, TwoCallVisits
<1>9. Panics \/ (st # Broken /\ Calls(<<F, H>>))
  BY DEF rangeIterates, CallsIf
<1> QED
  BY <1>7, <1>8, <1>9

(* What is known of the exits of a body, once their blocks have ended.     *)
LEMMA EndedFields ==
  ASSUME NEW r, Stored(r, Store), NEW e, e = endBlocks(r)
  PROVE  /\ Sequence(e) /\ Len(e) = Len(r) /\ DOMAIN e = 1..Len(r) /\ DOMAIN r = 1..Len(r)
         /\ Stored(e, Any)
         /\ \A i \in 1..Len(r) : /\ e[i].st = Closed(r[i].st) /\ e[i].branch = r[i].branch
                                 /\ e[i] = Exit(e[i].st, e[i].branch)
                                 /\ Alike(e[i].st, Closed(Unused(r[i].st)))
<1> DEFINE n == Len(r)
<1>1. n \in Nat /\ DOMAIN r = 1..n /\ \A i \in 1..n : r[i].st \in Store
  BY SequenceTyped DEF Stored, Sequence
<1> HIDE DEF n
<1>2. e = [i \in 1..n |-> Exit(Closed(r[i].st), r[i].branch)]
  BY <1>1 DEF endBlocks
<1>3. \A i \in 1..n : e[i].st = Closed(r[i].st) /\ e[i].branch = r[i].branch
  BY <1>2 DEF Exit
<1>4. \A i \in 1..n : e[i] = Exit(e[i].st, e[i].branch)
  BY <1>2, <1>3
<1>5. Sequence(e) /\ Len(e) = n
  <2>1. e = [i \in 1..n |-> e[i]]
    BY <1>2
  <2> QED
    BY <1>1, <2>1, SequenceMade
<1>6. \A i \in 1..n : Alike(e[i].st, Closed(Unused(r[i].st)))
  BY <1>1, <1>3, UnusedFacts, AlikeStores, AlikeClosed
<1>7. Stored(e, Any)
  BY <1>5, <1>6 DEF Stored, Alike
<1> QED
  BY <1>1, <1>3, <1>4, <1>5, <1>6, <1>7, SequenceTyped DEF n

(* How the exits of a body are divided among the works and the exits of    *)
(* its range.                                                              *)
Divided(e, works, out) ==
  /\ \A i \in 1..Len(e) :
       /\ Continues(e[i]) => \E k \in 1..Len(works) : works[k] = Work(e[i].st, Outside)
       /\ \E k \in 1..Len(out) :
            /\ out[k].st = e[i].st
            /\ out[k].branch = IF Continues(e[i]) \/ Breaks(e[i]) THEN NoBranch
                               ELSE e[i].branch
  /\ \A k \in 1..Len(out) : \E i \in 1..Len(e) :
       out[k].branch \in {NoBranch, e[i].branch}

(* collectLoopExits: some exits go on with another iteration, and all of   *)
(* them leave.                                                             *)
LEMMA LoopDivided ==
  ASSUME NEW e, Stored(e, Any)
  PROVE  LET next == nextIterations(e)
             works == [i \in DOMAIN next |-> Work(next[i].st, Outside)]
             ends == [i \in DOMAIN next |-> Exit(next[i].st, NoBranch)]
             out == realExits(e) \o ends
         IN  /\ Stored(works, Any) /\ Stored(out, Any)
             /\ Divided(e, works, out)
<1> DEFINE n == Len(e)
           is == Continuing(e)
           js == DOMAIN e \ is
           s == [i \in DOMAIN e |-> IF Breaks(e[i]) THEN Exit(e[i].st, NoBranch) ELSE e[i]]
           next == nextIterations(e)
           real == realExits(e)
           works == [i \in DOMAIN next |-> Work(next[i].st, Outside)]
           ends == [i \in DOMAIN next |-> Exit(next[i].st, NoBranch)]
           out == real \o ends
<1>1. n \in Nat /\ DOMAIN e = 1..n
  BY SequenceTyped DEF Stored, Sequence
<1>2. is \in SUBSET (1..n) /\ js \in SUBSET (1..n) /\ \A i \in 1..n : i \in js <=> i \notin is
  BY <1>1 DEF Continuing
<1>3. \A i \in 1..n : i \in is <=> Continues(e[i])
  BY <1>1 DEF Continuing
<1>4. next = Picked(e, is) /\ real = Picked(s, js)
  BY DEF nextIterations, realExits
<1>5. \A i \in 1..n : s[i].st = e[i].st
                      /\ s[i].branch = IF Breaks(e[i]) THEN NoBranch ELSE e[i].branch
  BY <1>1 DEF Exit
<1>6. Stored(next, Any) /\ Stored(real, Any)
  BY LoopExitsStored
<1> HIDE DEF next, real, n, is, js, s
<1>7. /\ \A i \in is : \E k \in 1..Len(next) : next[k] = e[i]
      /\ \A k \in 1..Len(next) : \E i \in is : next[k] = e[i]
      /\ \A i \in js : \E k \in 1..Len(real) : real[k] = s[i]
      /\ \A k \in 1..Len(real) : \E i \in js : real[k] = s[i]
  <2>0. n \in Nat /\ is \in SUBSET (1..n) /\ js \in SUBSET (1..n)
    BY <1>1, <1>2
  <2>1. /\ Sequence(Picked(e, is))
        /\ \A k \in 1..Len(Picked(e, is)) : \E i \in is : Picked(e, is)[k] = e[i]
        /\ \A i \in is : \E k \in 1..Len(Picked(e, is)) : Picked(e, is)[k] = e[i]
    BY <2>0, PickedSequence, ZenonT(30)
  <2>2. /\ Sequence(Picked(s, js))
        /\ \A k \in 1..Len(Picked(s, js)) : \E i \in js : Picked(s, js)[k] = s[i]
        /\ \A i \in js : \E k \in 1..Len(Picked(s, js)) : Picked(s, js)[k] = s[i]
    BY <2>0, PickedSequence, ZenonT(30)
  <2> QED
    BY <1>4, <2>1, <2>2
<1>8. DOMAIN next = 1..Len(next) /\ Len(next) \in Nat /\ Sequence(next)
      /\ \A k \in 1..Len(next) : next[k].st \in Any
  BY <1>6, SequenceTyped DEF Stored, Sequence
<1>9. /\ \A k \in 1..Len(next) : ends[k].st = next[k].st /\ ends[k].branch = NoBranch
      /\ \A k \in 1..Len(next) : works[k] = Work(next[k].st, Outside) /\ works[k].st = next[k].st
  BY <1>8 DEF Exit, Work
<1>10. Stored(works, Any) /\ Stored(ends, Any) /\ Len(works) = Len(next) /\ Len(ends) = Len(next)
  <2>1. works = [i \in DOMAIN next |-> works[i]] /\ ends = [i \in DOMAIN next |-> ends[i]]
    OBVIOUS
  <2> HIDE DEF works, ends
  <2>2. /\ \A i \in DOMAIN next : works[i].st \in Any
        /\ \A i \in DOMAIN next : ends[i].st \in Any
    BY <1>8, <1>9
  <2> QED
    BY <1>8, <2>1, <2>2, StoredMapped
<1> HIDE DEF works, ends
<1>11. Stored(out, Any)
  BY <1>6, <1>10, StoredJoined
<1>12. /\ Len(out) = Len(real) + Len(ends) /\ Len(real) \in Nat /\ Len(ends) \in Nat
       /\ \A i \in 1..Len(real) : out[i] = real[i]
       /\ \A i \in 1..Len(ends) : out[Len(real) + i] = ends[i]
       /\ \A i \in 1..Len(out) : i \in 1..Len(real) \/ \E j \in 1..Len(ends) : i = Len(real) + j
  <2>1. Sequence(real) /\ Sequence(ends)
    BY <1>6, <1>10 DEF Stored
  <2>2. Len(real) \in Nat /\ Len(ends) \in Nat
    BY <2>1 DEF Sequence
  <2> QED
    BY <2>1, <2>2, SequencesJoined
<1> HIDE DEF out
<1>13. /\ \A i \in 1..Len(real) : i \in 1..Len(out)
       /\ \A i \in 1..Len(ends) : Len(real) + i \in 1..Len(out)
  BY <1>12
<1>14. ASSUME NEW i \in 1..n
       PROVE  /\ Continues(e[i]) => \E k \in 1..Len(works) : works[k] = Work(e[i].st, Outside)
              /\ \E k \in 1..Len(out) :
                   /\ out[k].st = e[i].st
                   /\ out[k].branch = IF Continues(e[i]) \/ Breaks(e[i]) THEN NoBranch
                                      ELSE e[i].branch
  <2>1. CASE Continues(e[i])
    <3>1. PICK k \in 1..Len(next) : next[k] = e[i]
      BY <1>3, <1>7, <2>1
    <3>2. works[k] = Work(e[i].st, Outside) /\ k \in 1..Len(works)
      BY <1>9, <1>10, <3>1
    <3>3. k \in 1..Len(ends) /\ ends[k].st = e[i].st /\ ends[k].branch = NoBranch
      BY <1>9, <1>10, <3>1
    <3>4. out[Len(real) + k] = ends[k] /\ Len(real) + k \in 1..Len(out)
      BY <1>12, <1>13, <3>3
    <3> QED
      BY <2>1, <3>2, <3>3, <3>4
  <2>2. CASE ~Continues(e[i])
    <3>1. i \in js
      BY <1>2, <1>3, <2>2
    <3>2. PICK k \in 1..Len(real) : real[k] = s[i]
      BY <1>7, <3>1
    <3>3. out[k] = s[i] /\ k \in 1..Len(out)
      BY <1>12, <1>13, <3>2
    <3> QED
      BY <1>5, <2>2, <3>3
  <2> QED
    BY <2>1, <2>2
<1>15. ASSUME NEW k \in 1..Len(out)
       PROVE  \E i \in 1..n : out[k].branch \in {NoBranch, e[i].branch}
  <2>1. CASE k \in 1..Len(real)
    <3>1. PICK i \in js : real[k] = s[i]
      BY <1>7, <2>1
    <3>2. i \in 1..n /\ out[k] = s[i]
      BY <1>2, <1>12, <2>1, <3>1
    <3> QED
      BY <1>5, <3>2
  <2>2. CASE \E j \in 1..Len(ends) : k = Len(real) + j
    <3>1. PICK j \in 1..Len(ends) : k = Len(real) + j
      BY <2>2
    <3>2. out[k].branch = NoBranch /\ j \in 1..Len(next)
      BY <1>9, <1>10, <1>12, <3>1
    <3>3. PICK i \in is : next[j] = e[i]
      BY <1>7, <3>2
    <3> QED
      BY <1>2, <3>2, <3>3
  <2> QED
    BY <1>12, <2>1, <2>2
<1>16. Divided(e, works, out)
  BY <1>14, <1>15 DEF Divided, n
<1> QED
  BY <1>10, <1>11, <1>16 DEF works, out, ends, next, real

(* What is given back when a range ends.                                   *)
LEMMA PartingAlike ==
  ASSUME NEW q, NEW s, NEW t, Alike(s, t), NEW deps \in Short
  PROVE  Alike(Parting(q, deps, s), Parting(q, deps, t))
BY AlikeRelease DEF Parting

(* The exits of an iteration go on in the loop, or leave it.               *)
LEMMA LoopedAsked ==
  ASSUME NEW r, Stored(r, Store), Found(r) \in SUBSET Way, NEW e, e = endBlocks(r),
         NEW works, NEW out, Stored(works, Store), Stored(out, Store),
         Divided(e, works, out)
  PROVE  /\ Found(out) \in SUBSET Way
         /\ \A q, W, X : \A deps \in Short :
              /\ WorkSet(works) \subseteq W
              /\ \A x \in Found(out) :
                   /\ Parting(q, deps, x.st) # Broken
                   /\ Exit(Unused(Parting(q, deps, x.st)), x.branch) \in X
              => \A y \in Found(r) : Looped(q, deps, y, W, X)
<1> DEFINE n == Len(r)
<1>1. /\ Len(e) = n /\ n \in Nat
      /\ \A i \in 1..n : r[i].st \in Store
      /\ \A i \in 1..n : e[i].branch = r[i].branch /\ Alike(e[i].st, Closed(Unused(r[i].st)))
  BY EndedFields DEF Stored, Sequence
<1>2. \A i \in 1..n : Exit(Unused(r[i].st), r[i].branch) \in Way
                      /\ Exit(Unused(r[i].st), r[i].branch).branch = r[i].branch
  BY DEF Found, Exit
<1>0. /\ \A i \in 1..Len(e) :
           /\ Continues(e[i]) => \E k \in 1..Len(works) : works[k] = Work(e[i].st, Outside)
           /\ \E k \in 1..Len(out) :
                /\ out[k].st = e[i].st
                /\ out[k].branch = IF Continues(e[i]) \/ Breaks(e[i]) THEN NoBranch
                                   ELSE e[i].branch
      /\ \A k \in 1..Len(out) : \E i \in 1..Len(e) : out[k].branch \in {NoBranch, e[i].branch}
  BY DEF Divided
<1> HIDE DEF n
<1>3. Found(out) \in SUBSET Way
  <2> SUFFICES ASSUME NEW k \in 1..Len(out)
               PROVE  Exit(Unused(out[k].st), out[k].branch) \in Way
    BY DEF Found
  <2>1. PICK i \in 1..n : out[k].branch \in {NoBranch, e[i].branch}
    BY <1>0, <1>1
  <2>2. out[k].st \in Store
    BY DEF Stored
  <2> DEFINE y == Exit(Unused(r[i].st), r[i].branch)
             st == out[k].st
  <2>3. y \in Way /\ y.branch = e[i].branch
    BY <1>1, <1>2
  <2>4. st \in Store /\ out[k].branch \in {NoBranch, y.branch}
    BY <2>1, <2>2, <2>3
  <2> HIDE DEF y, st
  <2>5. Exit(Unused(st), y.branch) \in Way /\ Exit(Unused(st), NoBranch) \in Way
    BY <2>3, <2>4, BranchWays
  <2>6. Exit(Unused(st), out[k].branch) \in Way
    BY <2>4, <2>5
  <2> QED
    BY <2>6 DEF st
<1>4. ASSUME NEW q, NEW W, NEW X, NEW deps \in Short, WorkSet(works) \subseteq W,
             \A x \in Found(out) :
                   /\ Parting(q, deps, x.st) # Broken
                   /\ Exit(Unused(Parting(q, deps, x.st)), x.branch) \in X,
             NEW y \in Found(r)
      PROVE  Looped(q, deps, y, W, X)
  <2>1. PICK i \in 1..n : y = Exit(Unused(r[i].st), r[i].branch)
    BY DEF Found, n
  <2> DEFINE st == Closed(y.st)
             es == e[i].st
             b == IF Continues(y) \/ Breaks(y) THEN NoBranch ELSE y.branch
  <2>2. y.st = Unused(r[i].st) /\ y.branch = r[i].branch /\ y.branch = e[i].branch
    BY <1>1, <2>1 DEF Exit
  <2>3. (Continues(y) <=> Continues(e[i])) /\ (Breaks(y) <=> Breaks(e[i]))
    BY <2>2 DEF Continues, Breaks
  <2>4. PICK k \in 1..Len(out) : out[k].st = es /\ out[k].branch = b
    BY <1>0, <1>1, <2>2, <2>3
  <2>5. es \in Store /\ Alike(es, st)
    <3>1. es \in Store
      BY <2>4 DEF Stored
    <3> QED
      BY <1>1, <2>2, <3>1
  <2> HIDE DEF st, es
  <2>6. st # Broken /\ st \in Store /\ Unused(st) = Unused(es) /\ Equal(es, st)
    BY <2>5, AlikeUnused, AlikeStores
  <2>7. Continues(y) => Work(Unused(st), Outside) \in W
    <3> SUFFICES ASSUME Continues(y) PROVE Work(Unused(st), Outside) \in W
      OBVIOUS
    <3>1. PICK j \in 1..Len(works) : works[j] = Work(es, Outside)
      BY <1>0, <1>1, <2>3 DEF es
    <3>2. works[j].st = es /\ works[j].at = Outside
      BY <3>1 DEF Work
    <3>3. Work(Unused(works[j].st), works[j].at) \in WorkSet(works)
      BY DEF WorkSet
    <3> QED
      BY <1>4, <2>6, <3>2, <3>3
  <2> DEFINE x == Exit(Unused(es), b)
  <2>8. x \in Found(out) /\ x.st = Unused(es) /\ x.branch = b
    BY <2>4 DEF Found, Exit
  <2> HIDE DEF x, b
  <2>9. /\ Parting(q, deps, Unused(st)) # Broken
        /\ Exit(Unused(Parting(q, deps, Unused(st))), b) \in X
    BY <1>4, <2>6, <2>8
  <2>10. Alike(st, Unused(st))
    BY <2>6, UnusedFacts, AlikeStores
  <2>11. Alike(Parting(q, deps, st), Parting(q, deps, Unused(st)))
    BY <2>10, PartingAlike
  <2>12. Parting(q, deps, st) # Broken
         /\ Unused(Parting(q, deps, st)) = Unused(Parting(q, deps, Unused(st)))
    BY <2>9, <2>11, AlikeUnused
  <2>13. /\ st # Broken /\ Parting(q, deps, st) # Broken
         /\ Continues(y) => Work(Unused(st), Outside) \in W
         /\ Exit(Unused(Parting(q, deps, st)), b) \in X
    BY <2>6, <2>7, <2>9, <2>12
  <2> QED
    BY <2>13 DEF Looped, st, b
<1> QED
  BY <1>3, <1>4

(* What the body of the range returned is another iteration, or leaves.    *)
LEMMA RangeReturnedAsked == ASSUME NestedInv, VisitInv, rangeBodyVisited PROVE VisitInv'
<1>1. stack # <<>> /\ Top.fn = "range" /\ mode = "return"
  BY DEF rangeBodyVisited, Returned
<1>2. Stored(ret, Store) /\ Found(ret) \in SUBSET Way
  BY <1>1, ToldTop
<1>3. PICK A, B : TopAsked(A) /\ Waits(Goal, Top, A, B) /\ Found(ret) \in B
  BY <1>1, ToldTop
<1>4. RangeWaits(Top, A, B)
  BY <1>1, <1>3 DEF Waits
<1>5. PICK cur : /\ cur.st \in Plain /\ Entering(Top.stmt, Top.deps, cur.st) # Broken
                 /\ RangeOwes(Top, {cur}, A)
                 /\ B = To(Top.stmt.body, Entering(Top.stmt, Top.deps, cur.st))
  BY <1>4 DEF RangeWaits
<1>6. Top.canRelease <=> Lends(Top.stmt, Top.deps)
  BY <1>4 DEF RangeWaits
<1> DEFINE e == endBlocks(ret)
           next == nextIterations(e)
           ends == [i \in DOMAIN next |-> Exit(next[i].st, NoBranch)]
           works == [i \in DOMAIN next |-> Work(next[i].st, Outside)]
           out == realExits(e) \o ends
           all == Top.exits \o out
           F == addExit(Top, out)
           G == addWork(F, works)
           new == Picked(works, Unseen(F, works))
           more == Top.todo \o new
           seen == Top.seen \o new
<1>7. Iterates(F, works)
  BY DEF rangeBodyVisited
<1>8. Stored(e, Any) /\ Sequence(e)
  <2>1. \A x : x = endBlocks(ret) => Stored(x, Any) /\ Sequence(x)
    BY <1>2, EndedFields
  <2> QED
    BY <2>1
<1>9. Stored(works, Any) /\ Stored(out, Any) /\ Divided(e, works, out)
  <2> HIDE DEF e
  <2> QED
    BY <1>8, LoopDivided
<1>10. F = [Top EXCEPT !.exits = all]
  BY DEF addExit
<1>11. RangeRecord(Top)
  BY <1>1, RangeShape
<1>12. CASE Panics
  BY <1>12, PanicVisits
<1> HIDE DEF works, out, next, ends
<1>13. CASE Calls(<<G>>) /\ ~ \E x \in {works[i].st : i \in DOMAIN works}
                                       \cup {F.exits[i].st : i \in DOMAIN F.exits} : x = Broken
  <2>1. Top = [fn |-> "range", stmt |-> Top.stmt, todo |-> Top.todo, seen |-> Top.seen,
               exits |-> Top.exits, deps |-> Top.deps, canRelease |-> Top.canRelease]
    BY <1>11 DEF RangeRecord
  <2> HIDE DEF F, new, all
  <2>2. F = [fn |-> "range", stmt |-> Top.stmt, todo |-> Top.todo, seen |-> Top.seen,
             exits |-> all, deps |-> Top.deps, canRelease |-> Top.canRelease]
    BY <1>10, <2>1
  <2>3. F.exits = all /\ F.todo = Top.todo /\ F.seen = Top.seen
    BY <2>2
  <2>4. G = [F EXCEPT !.todo = more, !.seen = seen]
    BY <2>3 DEF addWork, new
  <2> HIDE DEF G, more, seen
  <2>5. G = [fn |-> "range", stmt |-> Top.stmt, todo |-> more, seen |-> seen,
              exits |-> all, deps |-> Top.deps, canRelease |-> Top.canRelease]
    <3>1. PICK h : h = [F EXCEPT !.todo = more]
      OBVIOUS
    <3>2. h = [fn |-> "range", stmt |-> Top.stmt, todo |-> more, seen |-> Top.seen,
               exits |-> all, deps |-> Top.deps, canRelease |-> Top.canRelease]
      BY <2>2, <3>1
    <3>3. G = [h EXCEPT !.seen = seen]
      BY <2>4, <3>1
    <3> QED
      BY <3>2, <3>3
  <2>6. /\ G.fn = "range" /\ G.stmt = Top.stmt /\ G.todo = more /\ G.seen = seen
        /\ G.exits = all /\ G.deps = Top.deps /\ G.canRelease = Top.canRelease
    BY <2>5
  <2>7. /\ Stored(Top.seen, Store) /\ Found(Top.exits) \in SUBSET Way /\ Top.deps \in Short
        /\ Stored(Top.todo, Store) /\ Stored(Top.exits, Store)
    BY <1>1, <1>5, RangeShape DEF RangeOwes
  <2>8. Stored(works, Store) /\ Stored(out, Store)
    <3>1. DOMAIN works = 1..Len(works) /\ \A i \in 1..Len(works) : works[i].st \in Any
      BY <1>9, SequenceTyped DEF Stored
    <3>2. Stored(works, Store)
      BY <1>9, <1>13, <3>1 DEF Stored, Any
    <3>3. Sequence(Top.exits) /\ Sequence(out) /\ F.exits = all
      BY <1>9, <2>3, <2>7 DEF Stored
    <3>4. Sequence(all) /\ Len(all) = Len(Top.exits) + Len(out)
          /\ \A i \in 1..Len(out) : all[Len(Top.exits) + i] = out[i]
      BY <3>3, SequencesJoined DEF all
    <3>5. \A i \in 1..Len(out) : Len(Top.exits) + i \in 1..Len(all)
      <4>1. Len(Top.exits) \in Nat /\ Len(out) \in Nat
        BY <3>3 DEF Sequence
      <4> QED
        BY <3>4, <4>1
    <3>6. DOMAIN F.exits = 1..Len(all)
      BY <3>3, <3>4, SequenceTyped
    <3>7. ASSUME NEW i \in 1..Len(out)
          PROVE  out[i].st \in Store
      <4>1. F.exits[Len(Top.exits) + i] = out[i] /\ Len(Top.exits) + i \in DOMAIN F.exits
        BY <3>3, <3>4, <3>5, <3>6
      <4>2. out[i].st # Broken
        BY <1>13, <4>1
      <4> QED
        BY <1>9, <4>2 DEF Stored, Any
    <3> QED
      BY <3>2, <3>3, <3>7 DEF Stored
  <2>9. /\ Found(out) \in SUBSET Way
        /\ \A q, W, X : \A deps \in Short :
              /\ WorkSet(works) \subseteq W
              /\ \A x \in Found(out) :
                   /\ Parting(q, deps, x.st) # Broken
                   /\ Exit(Unused(Parting(q, deps, x.st)), x.branch) \in X
              => \A y \in Found(ret) : Looped(q, deps, y, W, X)
    <3>1. e = endBlocks(ret)
      OBVIOUS
    <3> HIDE DEF e
    <3> QED
      BY <1>2, <1>9, <2>8, <3>1, LoopedAsked
  <2>10. Stored(new, Store) /\ WorkSet(works) \subseteq WorkSet(Top.seen) \cup WorkSet(new)
    <3>1. F.seen = Top.seen
      BY <2>3
    <3>2. Stored(F.seen, Store)
      BY <2>7, <3>1
    <3> QED
      BY <2>8, <3>1, <3>2, AddedWorks DEF new
  <2>11. /\ WorkSet(G.todo) = WorkSet(Top.todo) \cup WorkSet(new)
         /\ WorkSet(G.seen) = WorkSet(Top.seen) \cup WorkSet(new)
         /\ Found(G.exits) = Found(Top.exits) \cup Found(out)
         /\ Stored(G.seen, Store)
    <3>1. Sequence(Top.todo) /\ Sequence(Top.seen) /\ Sequence(new)
          /\ Sequence(Top.exits) /\ Sequence(out)
      BY <2>7, <2>8, <2>10 DEF Stored
    <3>2. WorkSet(G.todo) = WorkSet(Top.todo) \cup WorkSet(new)
      BY <2>6, <3>1, WorksJoined DEF more
    <3>3. WorkSet(G.seen) = WorkSet(Top.seen) \cup WorkSet(new)
      BY <2>6, <3>1, WorksJoined DEF seen
    <3>4. Found(G.exits) = Found(Top.exits) \cup Found(out)
      BY <2>6, <3>1, FoundJoined DEF all
    <3>5. Stored(G.seen, Store)
      BY <2>6, <2>7, <2>10, StoredJoined DEF seen
    <3> QED
      BY <3>2, <3>3, <3>4, <3>5
  <2>12. ASSUME NEW W, NEW X, X \in SUBSET Way, WorkSet(G.seen) \subseteq W,
                \A x \in Found(G.exits) :
                  /\ Parting(G.stmt, G.deps, x.st) # Broken
                  /\ Exit(Unused(Parting(G.stmt, G.deps, x.st)), x.branch) \in X,
                \A v \in W : \/ Iterated(Foretold, G.stmt, G.deps, v, W, X)
                             \/ v \in WorkSet(G.seen) /\ v \notin WorkSet(G.todo) /\ v \notin {}
         PROVE  X \in A
    <3>1. WorkSet(Top.seen) \subseteq W /\ WorkSet(works) \subseteq W
      BY <2>10, <2>11, <2>12
    <3>2. /\ \A x \in Found(Top.exits) :
               /\ Parting(Top.stmt, Top.deps, x.st) # Broken
               /\ Exit(Unused(Parting(Top.stmt, Top.deps, x.st)), x.branch) \in X
          /\ \A x \in Found(out) :
               /\ Parting(Top.stmt, Top.deps, x.st) # Broken
               /\ Exit(Unused(Parting(Top.stmt, Top.deps, x.st)), x.branch) \in X
      BY <2>6, <2>11, <2>12
    <3>3. \A y \in Found(ret) : Looped(Top.stmt, Top.deps, y, W, X)
      BY <2>7, <2>9, <3>1, <3>2
    <3>4. Iterated(Foretold, Top.stmt, Top.deps, cur, W, X)
      <4>1. <<Top.stmt.body, Unused(Entering(Top.stmt, Top.deps, cur.st)), Found(ret)>> \in Foretold
        BY <1>3, <1>5 DEF To, Answered
      <4> QED
        BY <1>2, <1>5, <3>3, <4>1 DEF Iterated
    <3>5. \A v \in W : \/ Iterated(Foretold, Top.stmt, Top.deps, v, W, X)
                       \/ v \in WorkSet(Top.seen) /\ v \notin WorkSet(Top.todo) /\ v \notin {cur}
      BY <2>6, <2>11, <2>12, <3>4
    <3> QED
      BY <1>5, <2>12, <3>1, <3>2, <3>5 DEF RangeOwes
  <2>13. RangeOwes(G, {}, A)
    <3>1. Found(G.exits) \in SUBSET Way
      BY <2>7, <2>9, <2>11
    <3> QED
      BY <2>6, <2>7, <2>11, <2>12, <3>1 DEF RangeOwes
  <2>14. Asked(G, A)
    BY <1>6, <2>6, <2>13 DEF Asked
  <2>15. Calls(<<G>>)
    BY <1>13
  <2> QED
    BY <1>1, <1>3, <2>14, <2>15, OneCallVisits
<1>14. \/ Panics
       \/ Calls(<<G>>) /\ ~ \E x \in {works[i].st : i \in DOMAIN works}
                                       \cup {F.exits[i].st : i \in DOMAIN F.exits} : x = Broken
  BY <1>7 DEF Iterates
<1> QED
  BY <1>12, <1>13, <1>14

(* Without works there is nothing left to do.                              *)
LEMMA NoWorks == WorkSet(<<>>) = {}
<1>1. Len(<<>>) = 0
  BY ShortSequences
<1> QED
  BY <1>1 DEF WorkSet

(* What is borrowed is given back on every exit.                           *)
LEMMA ReleasedAsked ==
  ASSUME NEW r, Stored(r, Store), Found(r) \in SUBSET Way, NEW deps \in Short
  PROVE  LET g == released(r, deps)
         IN  /\ Sequence(g) /\ Len(g) = Len(r)
             /\ (\A i \in 1..Len(g) : g[i].st # Broken) =>
                  /\ Found(g) \in SUBSET Way
                  /\ \A e \in Found(r) : /\ Release(e.st, deps) # Broken
                                         /\ Exit(Unused(Release(e.st, deps)), e.branch) \in Found(g)
<1> DEFINE n == Len(r)
           g == released(r, deps)
<1>1. n \in Nat /\ DOMAIN r = 1..n /\ \A i \in 1..n : r[i].st \in Store
  BY SequenceTyped DEF Stored, Sequence
<1> HIDE DEF n
<1>2. g = [i \in 1..n |-> Exit(Release(r[i].st, deps), r[i].branch)]
  BY <1>1 DEF released
<1> HIDE DEF g
<1>3. \A i \in 1..n : g[i].st = Release(r[i].st, deps) /\ g[i].branch = r[i].branch
  BY <1>2 DEF Exit
<1>4. Sequence(g) /\ Len(g) = n
  <2>1. g = [i \in 1..n |-> g[i]]
    BY <1>2
  <2> QED
    BY <1>1, <2>1, SequenceMade
<1>5. ASSUME \A i \in 1..n : g[i].st # Broken, NEW i \in 1..n
      PROVE  LET e == Exit(Unused(r[i].st), r[i].branch)
             IN  /\ Exit(Unused(g[i].st), r[i].branch) \in Way /\ e.st = Unused(r[i].st)
                 /\ e.branch = r[i].branch
                 /\ Release(e.st, deps) # Broken
                 /\ Unused(Release(e.st, deps)) = Unused(g[i].st)
  <2> DEFINE u == Unused(r[i].st)
             e == Exit(u, r[i].branch)
             st == Release(r[i].st, deps)
  <2>1. e \in Way /\ e.st = u /\ e.branch = r[i].branch
    BY DEF Found, n, Exit
  <2>2. Alike(r[i].st, u)
    BY <1>1, UnusedFacts, AlikeStores
  <2> HIDE DEF u
  <2>3. Alike(Release(r[i].st, deps), Release(u, deps))
    BY <2>2, AlikeRelease
  <2>4. st # Broken
    BY <1>3, <1>5
  <2>5. Release(u, deps) # Broken /\ Unused(Release(u, deps)) = Unused(st) /\ st \in Store
    BY <2>3, <2>4, AlikeUnused
  <2> HIDE DEF st, e
  <2>6. Exit(Unused(st), e.branch) \in Way
    BY <2>1, <2>5, BranchWays
  <2>7. g[i].st = st
    BY <1>3 DEF st
  <2>8. /\ Exit(Unused(g[i].st), r[i].branch) \in Way /\ e.st = u
                 /\ e.branch = r[i].branch
                 /\ Release(e.st, deps) # Broken
                 /\ Unused(Release(e.st, deps)) = Unused(g[i].st)
    BY <2>1, <2>5, <2>6, <2>7
  <2> QED
    BY <2>8 DEF e, u
<1>6. ASSUME \A i \in 1..n : g[i].st # Broken
      PROVE  Found(g) \in SUBSET Way
  <2> SUFFICES ASSUME NEW i \in 1..n
               PROVE  Exit(Unused(g[i].st), g[i].branch) \in Way
    BY <1>4 DEF Found
  <2> QED
    BY <1>3, <1>5, <1>6
<1>7. ASSUME \A i \in 1..n : g[i].st # Broken, NEW e \in Found(r)
      PROVE  /\ Release(e.st, deps) # Broken
             /\ Exit(Unused(Release(e.st, deps)), e.branch) \in Found(g)
  <2>1. PICK i \in 1..n : e = Exit(Unused(r[i].st), r[i].branch)
    BY DEF Found, n
  <2>2. Release(e.st, deps) # Broken /\ Unused(Release(e.st, deps)) = Unused(g[i].st)
        /\ e.branch = r[i].branch
    BY <1>5, <1>7, <2>1
  <2>3. Exit(Unused(g[i].st), g[i].branch) \in Found(g)
    BY <1>4 DEF Found
  <2> QED
    BY <1>3, <2>2, <2>3
<1> QED
  BY <1>4, <1>6, <1>7 DEF g, n

(* The end of a range gives back what it borrowed if all iterations let    *)
(* it: then it does so on all exits.                                       *)
LEMMA RangeEndAsked == ASSUME NestedInv, VisitInv, rangeVisited PROVE VisitInv'
<1>1. stack # <<>> /\ Top.fn = "range" /\ ~hasWork(Top) /\ mode = "call"
  BY DEF rangeVisited, Called
<1>2. PICK A : TopAsked(A) /\ Asked(Top, A)
  BY <1>1, VisitTop
<1>3. RangeOwes(Top, {}, A) /\ Top.todo = <<>>
  BY <1>1, <1>2 DEF Asked, hasWork
<1>4. Top.canRelease <=> Lends(Top.stmt, Top.deps)
  BY <1>1, <1>2, <1>3 DEF Asked
<1>5. Stored(Top.exits, Store) /\ Found(Top.exits) \in SUBSET Way /\ Top.deps \in Short
      /\ Stored(Top.seen, Store)
  BY <1>1, <1>3, RangeShape DEF RangeOwes
<1> DEFINE s == Top.stmt
           deps == Top.deps
           r == IF Top.canRelease THEN released(Top.exits, deps) ELSE Top.exits
           W == WorkSet(Top.seen)
<1>6. LeavesIf(r)
  BY DEF rangeVisited
<1>7. /\ Sequence(r)
      /\ (\A i \in 1..Len(r) : r[i].st # Broken) =>
           /\ Found(r) \in SUBSET Way
           /\ \A e \in Found(Top.exits) :
                /\ Parting(s, deps, e.st) # Broken
                /\ Exit(Unused(Parting(s, deps, e.st)), e.branch) \in Found(r)
  <2>1. CASE Top.canRelease
    <3>1. r = released(Top.exits, deps)
      BY <2>1
    <3>2. Lends(s, Top.deps)
      BY <1>4, <2>1
    <3>3. \A st : Parting(s, deps, st) = Release(st, deps)
      BY <3>2 DEF Parting
    <3> DEFINE exits == Top.exits
    <3>4. Stored(exits, Store) /\ Found(exits) \in SUBSET Way /\ deps \in Short
      BY <1>5
    <3> HIDE DEF r, deps, exits
    <3>5. /\ Sequence(released(exits, deps))
          /\ Len(released(exits, deps)) = Len(exits)
          /\ (\A i \in 1..Len(released(exits, deps)) : released(exits, deps)[i].st # Broken) =>
               /\ Found(released(exits, deps)) \in SUBSET Way
               /\ \A e \in Found(exits) :
                    /\ Release(e.st, deps) # Broken
                    /\ Exit(Unused(Release(e.st, deps)), e.branch) \in Found(released(exits, deps))
      BY <3>4, ReleasedAsked, ZenonT(30)
    <3> QED
      BY <3>1, <3>3, <3>5 DEF exits
  <2>2. CASE ~Top.canRelease
    <3>1. r = Top.exits
      BY <2>2
    <3>2. \A st : Parting(s, deps, st) = st
      BY <1>4, <2>2 DEF Parting
    <3>3. ASSUME NEW e \in Found(Top.exits)
          PROVE  e.st # Broken /\ Exit(Unused(e.st), e.branch) = e
      <4>1. e \in Way
        BY <1>5
      <4>2. e = Exit(e.st, e.branch) /\ e.st \in Plain
        BY <4>1, BranchWays
      <4> QED
        BY <4>2, PlainFacts
    <3>4. Sequence(Top.exits)
      BY <1>5 DEF Stored
    <3> HIDE DEF r
    <3> QED
      BY <1>5, <3>1, <3>2, <3>3, <3>4
  <2> QED
    BY <2>1, <2>2
<1>8. WorkSet(Top.todo) = {}
  BY <1>3, NoWorks
<1> HIDE DEF r
<1>9. (\A i \in 1..Len(r) : r[i].st # Broken) => Found(r) \in A
  <2> SUFFICES ASSUME \A i \in 1..Len(r) : r[i].st # Broken PROVE Found(r) \in A
    OBVIOUS
  <2> DEFINE X == Found(r)
  <2>1. X \in SUBSET Way /\ WorkSet(Top.seen) \subseteq W
        /\ \A e \in Found(Top.exits) : /\ Parting(Top.stmt, Top.deps, e.st) # Broken
                                    /\ Exit(Unused(Parting(Top.stmt, Top.deps, e.st)), e.branch)
                                          \in X
    BY <1>7
  <2>2. \A w \in W : \/ Iterated(Foretold, Top.stmt, Top.deps, w, W, X)
                     \/ w \in WorkSet(Top.seen) /\ w \notin WorkSet(Top.todo) /\ w \notin {}
    BY <1>8
  <2> HIDE DEF X, W
  <2>3. X \in A
    BY <1>3, <2>1, <2>2 DEF RangeOwes
  <2> QED
    BY <2>3 DEF X
<1> QED
  BY <1>1, <1>2, <1>6, <1>7, <1>9, LeaveIfVisits

(* What a literal is, whose exits are replaced, or that has been visited.  *)
LEMMA LiteralFields ==
  ASSUME BorrowInv
  PROVE  /\ orig \in Outer /\ orig \in Store /\ Entered \in Store
         /\ \A r, l : l = [lit EXCEPT !.exits = r, !.visited = TRUE] =>
              l.body = lit.body /\ l.exits = r /\ l.visited
         /\ \A st, l : l = capture(lit, st) =>
              l.body = lit.body /\ l.exits = lit.exits /\ l.visited = lit.visited
<1>1. orig \in Outer /\ orig \in Store
  BY OrigStore DEF BorrowInv, Literal
<1>2. Param.name \in Name /\ Param.perm \in Permission
  BY OuterAssumption
<1>3. Entered \in Store
  <2> DEFINE op == Opened(orig)
             c == NewCell(Param.name, Param.perm)
  <2>1. op \in Store /\ ~InBlock(op, Param.name)
    BY <1>1, <1>2, AlikeItself, OpenedHasNone
  <2> HIDE DEF op
  <2>2. c \in Entry /\ WithVariable(op, Param.name, Param.perm) = <<c>> \o op
    BY <1>2, <2>1, DefinedLooks
  <2> HIDE DEF c
  <2>3. <<c>> \o op \in Store
    BY <2>1, <2>2 DEF Store
  <2> QED
    BY <2>2, <2>3 DEF Entered, op
<1>4. lit = [body |-> lit.body, visited |-> lit.visited, exits |-> lit.exits,
             deps |-> lit.deps, st |-> lit.st, owned |-> lit.owned]
  BY DEF BorrowInv, Literal
<1>5. ASSUME NEW r, NEW l, l = [lit EXCEPT !.exits = r, !.visited = TRUE]
      PROVE  l.body = lit.body /\ l.exits = r /\ l.visited
  <2>1. l = [body |-> lit.body, visited |-> TRUE, exits |-> r,
             deps |-> lit.deps, st |-> lit.st, owned |-> lit.owned]
    BY <1>4, <1>5
  <2> QED
    BY <2>1
<1>6. ASSUME NEW st, NEW l, l = capture(lit, st)
      PROVE  l.body = lit.body /\ l.exits = lit.exits /\ l.visited = lit.visited
  <2>1. PICK d, s, o : l = [lit EXCEPT !.deps = d, !.st = s, !.owned = o]
    BY <1>6 DEF capture
  <2>2. PICK g : g = [lit EXCEPT !.deps = d]
    OBVIOUS
  <2>3. g = [body |-> lit.body, visited |-> lit.visited, exits |-> lit.exits,
             deps |-> d, st |-> lit.st, owned |-> lit.owned]
    BY <1>4, <2>2
  <2>4. PICK h : h = [g EXCEPT !.st = s]
    OBVIOUS
  <2>5. h = [body |-> lit.body, visited |-> lit.visited, exits |-> lit.exits,
             deps |-> d, st |-> s, owned |-> lit.owned]
    BY <2>3, <2>4
  <2>6. l = [h EXCEPT !.owned = o]
    BY <2>1, <2>2, <2>4
  <2>7. l = [body |-> lit.body, visited |-> lit.visited, exits |-> lit.exits,
             deps |-> d, st |-> s, owned |-> o]
    BY <2>5, <2>6
  <2> QED
    BY <2>7
<1> QED
  BY <1>1, <1>3, <1>5, <1>6

(* The exits of the body are an answer for it.                             *)
LEMMA BodyAnswered == ASSUME NestedInv, VisitInv, BorrowInv, bodyVisited PROVE VisitInv'
<1>1. /\ stack # <<>> /\ mode = "return" /\ Top.fn = "literal" /\ ~lit.visited
      /\ lit' = [lit EXCEPT !.exits = ret, !.visited = TRUE]
      /\ UNCHANGED <<stack, ret, mode, orig>>
  BY DEF bodyVisited, Returned
<1>2. Stored(ret, Store)
  <2>1. PICK d : Stored(ret, Good(orig, Expects(Top, d)))
    BY <1>1, TopFrame
  <2> QED
    BY <2>1 DEF Stored, Good
<1>3. PICK A, B : Waits(Goal, Top, A, B) /\ Found(ret) \in B
  BY <1>1, VisitTop
<1>4. B = Goal
  BY <1>1, <1>3 DEF Waits
<1>5. lit'.body = lit.body /\ lit'.exits = ret /\ lit'.visited
  BY <1>1, LiteralFields
<1>6. Goal' = Goal
  BY <1>1, <1>5 DEF Goal, Entered
<1>7. Top' = Top
  BY <1>1 DEF Top
<1>8. lit'.body \in Seq(Stmts)
  BY <1>5 DEF VisitInv
<1> QED
  BY <1>1, <1>2, <1>3, <1>4, <1>5, <1>6, <1>7, <1>8 DEF VisitInv

(* What is made of the exits afterwards does not change them.              *)
LEMMA CaptureAnswered == ASSUME NestedInv, VisitInv, BorrowInv, captureExit PROVE VisitInv'
<1>1. /\ stack # <<>> /\ mode = "return" /\ Top.fn = "literal" /\ lit.visited
  BY DEF captureExit, Returned
<1>2. CASE Panics
  BY <1>2, PanicVisits
<1>3. CASE \E st : lit' = capture(lit, st) /\ UNCHANGED <<stack, mode, orig>>
  <2>1. lit'.body = lit.body /\ lit'.exits = lit.exits /\ lit'.visited = lit.visited
    BY <1>3, LiteralFields
  <2>2. Goal' = Goal
    BY <1>3, <2>1 DEF Goal, Entered
  <2>3. Top' = Top
    BY <1>3 DEF Top
  <2>4. lit'.visited
    BY <1>1, <2>1
  <2>5. lit.body \in Seq(Stmts) /\ Found(lit.exits) \in Goal /\ Stored(lit.exits, Store)
    BY <1>1 DEF VisitInv
  <2> QED
    BY <1>1, <1>3, <2>1, <2>2, <2>3, <2>4, <2>5 DEF VisitInv
<1> QED
  BY <1>2, <1>3 DEF captureExit

(* Nor does the end of the visit.                                          *)
LEMMA BuiltAnswered == ASSUME VisitInv, functionBuilt PROVE VisitInv'
<1>1. lit.visited /\ lit' = lit /\ orig' = orig /\ stack' = <<>>
  BY DEF functionBuilt
<1>2. Goal' = Goal
  BY <1>1 DEF Goal, Entered
<1> QED
  BY <1>1, <1>2 DEF VisitInv

(* The invariant holds at first.                                           *)
LEMMA VisitInit == ASSUME Init PROVE VisitInv
<1>1. PICK stmts \in Body :
        /\ stack = <<NewList(Entered, stmts, FALSE), [fn |-> "literal"]>>
        /\ lit = [body |-> stmts, visited |-> FALSE, exits |-> <<>>,
                  deps |-> <<>>, st |-> orig, owned |-> TRUE]
  BY DEF Init
<1>2. lit.body = stmts /\ ~lit.visited /\ mode = "call"
  BY <1>1 DEF Init
<1>3. stmts \in Seq(Stmts) /\ Entered \in Store
  BY StmtsAssumption, BorrowInit, LiteralFields
<1> DEFINE F == NewList(Entered, stmts, FALSE)
           H == [fn |-> "literal"]
           s == <<F, H>>
           As == <<Goal, {}>>
<1>4. Asked(F, Goal)
  BY <1>2, <1>3, NewListAsked DEF Goal
<1>5. Waits(Goal, H, {}, Goal)
  BY DEF Waits, Goal, To
<1>6. Sequence(s) /\ Len(s) = 2 /\ s[1] = F /\ s[2] = H
      /\ Sequence(As) /\ Len(As) = 2 /\ As[1] = Goal /\ As[2] = {}
  BY ShortSequences
<1>7. stack = s
  BY <1>1
<1> HIDE DEF F, H, s, As
<1>8. \A i \in 1..2 : i + 1 \in 1..2 => i = 1 /\ i + 1 = 2
  OBVIOUS
<1>9. Chain(Goal, s, As)
  <2> SUFFICES ASSUME NEW i \in 1..2, i + 1 \in 1..2
               PROVE  Waits(Goal, s[i + 1], As[i + 1], As[i])
    BY <1>6 DEF Chain
  <2>1. i = 1 /\ i + 1 = 2
    BY <1>8
  <2> QED
    BY <1>5, <1>6, <2>1
<1>10. Hears(Goal, s, mode, ret, As)
  BY <1>2, <1>4, <1>6 DEF Hears
<1> QED
  BY <1>2, <1>3, <1>6, <1>7, <1>9, <1>10 DEF VisitInv

(* No step leaves the invariant.                                           *)
LEMMA VisitStep ==
  ASSUME NestedInv, BorrowInv, VisitInv, [Next]_vars, NoForNorDefault
  PROVE  VisitInv'
<1>1. CASE UNCHANGED vars
  <2>1. stack' = stack /\ ret' = ret /\ mode' = mode /\ orig' = orig /\ lit' = lit
    BY <1>1 DEF vars
  <2>2. Goal' = Goal /\ Top' = Top
    BY <2>1 DEF Goal, Entered, Top
  <2> QED
    BY <2>1, <2>2 DEF VisitInv
<1>2. CASE Next
  BY <1>2, SimpleAsked, BranchAsked, LabeledAsked, BlockBegunAsked, SelectBegunAsked,
     BlockEndAsked, CommAsked, IfAsked, ThenAsked, ElseAsked, SwitchBegunAsked,
     SwitchEndAsked, ClauseAsked, AlternativeAsked, CaseBodyAsked, ItemAsked, ReturnedAsked,
     ListDone, NoForVisited, RangeBegunAsked, IterationAsked, RangeReturnedAsked,
     RangeEndAsked, BodyAnswered, CaptureAnswered, BuiltAnswered
  DEF Next
<1> QED
  BY <1>1, <1>2

--------------------------------------------------------------------------------
(* Where the path of a run is, and what it leads to.                       *)

(* What is left to do, f, when it is met in one of the ways X: it leads to *)
(* one of the ways Z, whatever the path.                                   *)
FlowStmt(f, X, Z) ==
  /\ f.stmt \in Stmts
  /\ \A x \in X : x.branch = NoBranch /\ \E Y \in SUBSET Z : <<f.stmt, x.st, Y>> \in Foretold

FlowList(f, X, Z) ==
  /\ f.stmts \in Seq(Stmts) /\ f.at \in Nat \ {0} /\ f = From(f.stmts, f.at)
  /\ \E W : /\ \A w \in W : Handled(Foretold, f.stmts, FALSE, w, W, Z)
            /\ \A x \in X : Sorted(Place(f.stmts, FALSE, f.at - 1), x, W, Z)

FlowSwitch(f, X, Z) ==
  /\ f.clauses \in Seq(Stmts) /\ Labels(f.clauses) = {} /\ f.at \in Nat /\ f.deps \in Short
  /\ f = Switch(f.clauses, f.at, f.deps)
  /\ \E W : \E Y \in SUBSET Way :
       /\ \A w \in W : Handled(Foretold, f.clauses, TRUE, w, W, Y)
       /\ \A x \in X : Sorted(Place(f.clauses, TRUE, f.at), x, W, Y)
       /\ Ended(Y, f.deps, Z)

(* Before the first iteration ...                                          *)
Ahead(f, X, W, Z) ==
  /\ ~f.inside /\ f.back
  /\ \A x \in X : /\ x.branch = NoBranch /\ Work(x.st, Outside) \in W
                  /\ Release(x.st, f.deps) # Broken
                  /\ Exit(Unused(Release(x.st, f.deps)), NoBranch) \in Z

(* ... and after the body.                                                 *)
Amid(f, X, W, Z) ==
  /\ f.inside /\ (f.back <=> Lends(f.stmt, f.deps))
  /\ \A x \in X : Looped(f.stmt, f.deps, x, W, Z)

FlowRange(f, X, Z) ==
  /\ f.stmt \in Stmts /\ f.stmt.kind = "range" /\ f.deps \in Short /\ f.deps # <<>>
  /\ \E W : /\ \A w \in W : Iterated(Foretold, f.stmt, f.deps, w, W, Z)
            /\ Ahead(f, X, W, Z) \/ Amid(f, X, W, Z)

Flow(f, X, Z) ==
  \/ f.do = "stmt"   /\ FlowStmt(f, X, Z)
  \/ f.do = "list"   /\ FlowList(f, X, Z)
  \/ f.do = "end"    /\ Ended(X, <<>>, Z)
  \/ f.do = "label"  /\ X \subseteq Z
  \/ f.do = "switch" /\ FlowSwitch(f, X, Z)
  \/ f.do = "range"  /\ FlowRange(f, X, Z)

(* The continuation k, by way of Xs, one of the ways of Xs[1] to one of R. *)
LeadsVia(k, Xs, R) ==
  /\ Sequence(k) /\ Sequence(Xs) /\ Len(Xs) = Len(k) + 1 /\ Xs[Len(k) + 1] = R
  /\ \A i \in 1..(Len(k) + 1) : Xs[i] \in SUBSET Way
  /\ \A i \in 1..Len(k) : Flow(k[i], Xs[i], Xs[i + 1])

Leads(k, X, R) == \E Xs : LeadsVia(k, Xs, R) /\ Xs[1] = X

Runs(st, k, R) == st \in Store /\ \E X : Exit(Unused(st), NoBranch) \in X /\ Leads(k, X, R)

(* A run is where the exits of the visit say it might be.                  *)
RunInv ==
  /\ fate \in {"off", "running", "ended", "returned"}
  /\ fate # "off" => lit.visited /\ stack = <<>>
  /\ fate = "running" => Runs(now, todo, Found(lit.exits))
  /\ fate = "ended" => now \in Store /\ Exit(Unused(now), NoBranch) \in Found(lit.exits)
  /\ fate = "returned" =>
       /\ now \in Store
       /\ \E b : b.tok = "return" /\ Exit(Unused(now), b) \in Found(lit.exits)

(* The end of a continuation, from its element i on.                       *)
LEMMA LeadsFrom ==
  ASSUME NEW k, NEW Xs, NEW R, LeadsVia(k, Xs, R), NEW i \in 1..(Len(k) + 1),
         NEW t, Sequence(t), Len(t) = Len(k) - i + 1, \A j \in 1..Len(t) : t[j] = k[j + i - 1]
  PROVE  Leads(t, Xs[i], R)
<1> DEFINE n == Len(k)
           m == Len(t)
           Ys == [j \in 1..(m + 1) |-> Xs[j + i - 1]]
<1>1. n \in Nat /\ m \in Nat /\ m = n - i + 1 /\ i \in 1..(n + 1)
  BY DEF LeadsVia, Sequence
<1>2. Xs[n + 1] = R /\ (\A j \in 1..(n + 1) : Xs[j] \in SUBSET Way)
      /\ \A j \in 1..n : Flow(k[j], Xs[j], Xs[j + 1])
  BY DEF LeadsVia
<1>3. \A j \in 1..m : t[j] = k[j + i - 1]
  OBVIOUS
<1>4. \A j \in 1..(m + 1) : Ys[j] = Xs[j + i - 1]
  OBVIOUS
<1>5. Ys = [j \in 1..(m + 1) |-> Ys[j]]
  OBVIOUS
<1> HIDE DEF n, m, Ys
<1>6. m + 1 \in Nat
  BY <1>1
<1>7. Sequence(Ys) /\ Len(Ys) = m + 1
  BY <1>5, <1>6, SequenceMade
<1>8. Ys[m + 1] = R
  <2>1. (m + 1) + i - 1 = n + 1 /\ m + 1 \in 1..(m + 1)
    BY <1>1
  <2> QED
    BY <1>2, <1>4, <2>1
<1>9. \A j \in 1..(m + 1) : Ys[j] \in SUBSET Way
  <2>1. \A j \in 1..(m + 1) : j + i - 1 \in 1..(n + 1)
    BY <1>1
  <2> QED
    BY <1>2, <1>4, <2>1
<1>10. ASSUME NEW j \in 1..m
       PROVE  Flow(t[j], Ys[j], Ys[j + 1])
  <2>1. j + i - 1 \in 1..n /\ j \in 1..(m + 1) /\ j + 1 \in 1..(m + 1)
        /\ (j + 1) + i - 1 = (j + i - 1) + 1
    BY <1>1
  <2> DEFINE l == j + i - 1
  <2>2. t[j] = k[l] /\ Ys[j] = Xs[l]
    BY <1>3, <1>4, <2>1
  <2>3. Ys[j + 1] = Xs[(j + 1) + i - 1]
    BY <1>4, <2>1
  <2>4. Ys[j + 1] = Xs[l + 1] /\ l \in 1..n
    BY <2>1, <2>3
  <2> HIDE DEF l
  <2> QED
    BY <1>2, <2>2, <2>4
<1>11. Ys[1] = Xs[i]
  <2>1. 1 \in 1..(m + 1) /\ 1 + i - 1 = i
    BY <1>1
  <2> QED
    BY <1>4, <2>1
<1>12. LeadsVia(t, Ys, R)
  BY <1>7, <1>8, <1>9, <1>10 DEF LeadsVia, m
<1> QED
  BY <1>11, <1>12 DEF Leads

(* The first element, and the rest.                                        *)
LEMMA LeadsTail ==
  ASSUME NEW k, NEW Xs, NEW R, LeadsVia(k, Xs, R), k # <<>>
  PROVE  Flow(Head(k), Xs[1], Xs[2]) /\ Leads(Tail(k), Xs[2], R)
         /\ Xs[1] \in SUBSET Way /\ Xs[2] \in SUBSET Way
<1> DEFINE n == Len(k)
           t == Tail(k)
<1>1. Sequence(k) /\ n \in Nat
  BY DEF LeadsVia, Sequence
<1>2. Sequence(t) /\ Len(t) = n - 1 /\ n >= 1 /\ (\A j \in 1..(n - 1) : t[j] = k[j + 1])
      /\ Head(k) = k[1]
  BY <1>1, TailSequence
<1>3. (\A j \in 1..(n + 1) : Xs[j] \in SUBSET Way) /\ \A j \in 1..n : Flow(k[j], Xs[j], Xs[j + 1])
  BY DEF LeadsVia
<1> HIDE DEF n, t
<1>4. 1 \in 1..n /\ 1 \in 1..(n + 1) /\ 2 \in 1..(n + 1) /\ 1 + 1 = 2 /\ n - 2 + 1 = n - 1
      /\ \A j \in 1..(n - 1) : j + 2 - 1 = j + 1
  BY <1>1, <1>2
<1>5. Flow(Head(k), Xs[1], Xs[2]) /\ Xs[1] \in SUBSET Way /\ Xs[2] \in SUBSET Way
  BY <1>2, <1>3, <1>4
<1>6. Len(t) = n - 2 + 1 /\ \A j \in 1..Len(t) : t[j] = k[j + 2 - 1]
  BY <1>2, <1>4
<1>7. Leads(t, Xs[2], R)
  BY <1>2, <1>4, <1>6, LeadsFrom DEF n
<1> QED
  BY <1>5, <1>7 DEF t

(* Something more to do first.                                             *)
LEMMA LeadsMore ==
  ASSUME NEW f, NEW X \in SUBSET Way, NEW Y, NEW k, NEW R, Flow(f, X, Y), Leads(k, Y, R)
  PROVE  Leads(<<f>> \o k, X, R)
<1>1. PICK Ys : LeadsVia(k, Ys, R) /\ Ys[1] = Y
  BY DEF Leads
<1> DEFINE n == Len(k)
           t == <<f>> \o k
           Xs == <<X>> \o Ys
<1>2. Sequence(k) /\ Sequence(Ys) /\ n \in Nat /\ Len(Ys) = n + 1 /\ Ys[n + 1] = R
      /\ (\A i \in 1..(n + 1) : Ys[i] \in SUBSET Way)
      /\ (\A i \in 1..n : Flow(k[i], Ys[i], Ys[i + 1]))
  BY <1>1 DEF LeadsVia, Sequence
<1>3. \A a : Sequence(<<a>>) /\ Len(<<a>>) = 1 /\ <<a>>[1] = a
  BY ShortSequences
<1>4. /\ Sequence(t) /\ Len(t) = 1 + n
      /\ (\A i \in 1..1 : t[i] = <<f>>[i]) /\ (\A i \in 1..n : t[1 + i] = k[i])
  BY <1>2, <1>3, SequencesJoined
<1>5. /\ Sequence(Xs) /\ Len(Xs) = 1 + (n + 1)
      /\ (\A i \in 1..1 : Xs[i] = <<X>>[i]) /\ (\A i \in 1..(n + 1) : Xs[1 + i] = Ys[i])
  BY <1>2, <1>3, SequencesJoined
<1> HIDE DEF n, t, Xs
<1>6. t[1] = f /\ Xs[1] = X
  BY <1>3, <1>4, <1>5
<1>7. ASSUME NEW i \in 1..(n + 2), i # 1
      PROVE  i - 1 \in 1..(n + 1) /\ Xs[i] = Ys[i - 1]
  <2>1. i - 1 \in 1..(n + 1) /\ 1 + (i - 1) = i
    BY <1>2, <1>7
  <2> QED
    BY <1>5, <2>1
<1>8. ASSUME NEW i \in 1..(n + 1), i # 1
      PROVE  i - 1 \in 1..n /\ t[i] = k[i - 1]
  <2>1. i - 1 \in 1..n /\ 1 + (i - 1) = i
    BY <1>2, <1>8
  <2> QED
    BY <1>4, <2>1
<1>9. ASSUME NEW i \in 1..(n + 1)
      PROVE  Flow(t[i], Xs[i], Xs[i + 1])
  <2>1. CASE i = 1
    <3>1. Xs[i + 1] = Ys[1]
      <4>1. 2 \in 1..(n + 2) /\ 2 # 1 /\ 2 - 1 = 1 /\ i + 1 = 2
        BY <1>2, <2>1
      <4> QED
        BY <1>7, <4>1
    <3> QED
      BY <1>1, <1>6, <2>1, <3>1
  <2>2. CASE i # 1
    <3>1. i + 1 \in 1..(n + 2) /\ i + 1 # 1 /\ i \in 1..(n + 2) /\ (i + 1) - 1 = (i - 1) + 1
      BY <1>2, <2>2
    <3>2. Xs[i + 1] = Ys[(i - 1) + 1] /\ Xs[i] = Ys[i - 1]
      BY <1>7, <2>2, <3>1
    <3>3. t[i] = k[i - 1] /\ i - 1 \in 1..n
      BY <1>8, <2>2
    <3> QED
      BY <1>2, <3>2, <3>3
  <2> QED
    BY <2>1, <2>2
<1>10. \A i \in 1..(n + 2) : Xs[i] \in SUBSET Way
  BY <1>2, <1>6, <1>7
<1>11. Xs[n + 2] = R
  <2>1. n + 2 \in 1..(n + 2) /\ n + 2 # 1 /\ (n + 2) - 1 = n + 1
    BY <1>2
  <2> QED
    BY <1>2, <1>7, <2>1
<1>12. Len(t) = n + 1 /\ Len(Xs) = n + 2 /\ (n + 1) + 1 = n + 2
  BY <1>2, <1>4, <1>5
<1>13. LeadsVia(t, Xs, R)
  BY <1>4, <1>5, <1>9, <1>10, <1>11, <1>12 DEF LeadsVia
<1> QED
  BY <1>6, <1>13 DEF Leads, t

(* Two things more.                                                        *)
LEMMA LeadsTwoMore ==
  ASSUME NEW f, NEW g, NEW X \in SUBSET Way, NEW Y \in SUBSET Way, NEW Z, NEW k, NEW R,
         Flow(f, X, Y), Flow(g, Y, Z), Leads(k, Z, R)
  PROVE  Leads(<<f, g>> \o k, X, R)
<1>1. Leads(<<g>> \o k, Y, R)
  BY LeadsMore
<1>2. Leads(<<f>> \o (<<g>> \o k), X, R)
  BY <1>1, LeadsMore
<1>3. Sequence(k)
  BY DEF Leads, LeadsVia
<1>4. <<f>> \o (<<g>> \o k) = <<f, g>> \o k
  <2> DEFINE B == <<g>> \o k
             A == <<f>> \o B
             C == <<f, g>> \o k
             n == Len(k)
  <2>1. n \in Nat
    BY <1>3 DEF Sequence
  <2>2. /\ \A a : Sequence(<<a>>) /\ Len(<<a>>) = 1 /\ <<a>>[1] = a
        /\ Sequence(<<f, g>>) /\ Len(<<f, g>>) = 2 /\ <<f, g>>[1] = f /\ <<f, g>>[2] = g
    BY ShortSequences
  <2>3. /\ Sequence(B) /\ Len(B) = 1 + n
        /\ (\A i \in 1..1 : B[i] = <<g>>[i]) /\ (\A i \in 1..n : B[1 + i] = k[i])
    BY <1>3, <2>2, SequencesJoined
  <2> HIDE DEF B
  <2>4. /\ Sequence(A) /\ Len(A) = 1 + Len(B)
        /\ (\A i \in 1..1 : A[i] = <<f>>[i]) /\ (\A i \in 1..Len(B) : A[1 + i] = B[i])
    BY <2>2, <2>3, SequencesJoined
  <2>5. /\ Sequence(C) /\ Len(C) = 2 + n
        /\ (\A i \in 1..2 : C[i] = <<f, g>>[i]) /\ (\A i \in 1..n : C[2 + i] = k[i])
    BY <1>3, <2>2, SequencesJoined
  <2> HIDE DEF A, C, n
  <2>6. B[1] = g /\ A[1] = f /\ C[1] = f /\ C[2] = g
    BY <2>2, <2>3, <2>4, <2>5
  <2>7. Len(A) = n + 2 /\ Len(C) = n + 2
    BY <2>1, <2>3, <2>4, <2>5
  <2>8. A[2] = B[1]
    <3>1. 1 \in 1..Len(B) /\ 1 + 1 = 2
      BY <2>1, <2>3
    <3> QED
      BY <2>4, <3>1
  <2>9. ASSUME NEW i \in 1..(n + 2)
        PROVE  A[i] = C[i]
    <3>1. CASE i = 1
      BY <2>6, <3>1
    <3>2. CASE i = 2
      BY <2>6, <2>8, <3>2
    <3>3. CASE i # 1 /\ i # 2
      <4> DEFINE j == i - 2
      <4>1. j \in 1..n /\ i = 2 + j /\ 1 + j \in 1..Len(B) /\ i = 1 + (1 + j)
        BY <2>1, <2>3, <3>3
      <4> HIDE DEF j
      <4>2. C[i] = k[j] /\ B[1 + j] = k[j]
        BY <2>3, <2>5, <4>1
      <4>3. A[i] = B[1 + j]
        BY <2>4, <4>1
      <4> QED
        BY <4>2, <4>3
    <3> QED
      BY <3>1, <3>2, <3>3
  <2>10. A = [i \in 1..(n + 2) |-> A[i]] /\ C = [i \in 1..(n + 2) |-> C[i]]
    BY <2>4, <2>5, <2>7 DEF Sequence
  <2>11. A = C
    BY <2>9, <2>10
  <2> QED
    BY <2>11 DEF A, B, C
<1> QED
  BY <1>2, <1>4

(* Nothing to do leads nowhere else.                                       *)
LEMMA LeadsEnd ==
  ASSUME NEW X, NEW R, Leads(<<>>, X, R)
  PROVE  X = R
<1>1. Len(<<>>) = 0 /\ 0 + 1 = 1
  BY ShortSequences
<1> QED
  BY <1>1 DEF Leads, LeadsVia

(* What is abandoned on the way out, frame by frame.                       *)
LEMMA AbandonedSteps ==
  ASSUME Len(todo) \in Nat
  PROVE  /\ AbandonedUpTo(0) = now
         /\ \A i \in 1..Len(todo) : AbandonedUpTo(i) = Abandoned(AbandonedUpTo(i - 1), todo[i])
<1> DEFINE n == Len(todo)
           Solves(m, f) == f = [j \in 0..m |-> IF j = 0 THEN now
                                               ELSE Abandoned(f[j - 1], todo[j])]
           T == {m \in Nat : \E f : Solves(m, f)}
           after == CHOOSE f : Solves(n, f)
<1>1. 0 \in T
  <2> DEFINE f0 == [j \in 0..0 |-> now]
  <2>1. \A j \in 0..0 : j = 0
    OBVIOUS
  <2>2. Solves(0, f0)
    BY <2>1
  <2> QED
    BY <2>2
<1>2. ASSUME NEW m \in Nat, m \in T
      PROVE  m + 1 \in T
  <2>1. PICK f : Solves(m, f)
    BY <1>2
  <2> DEFINE F(j) == IF j = m + 1 THEN Abandoned(f[m], todo[m + 1]) ELSE f[j]
             g == [j \in 0..(m + 1) |-> F(j)]
  <2>2. ASSUME NEW j \in 0..(m + 1)
        PROVE  g[j] = IF j = 0 THEN now ELSE Abandoned(g[j - 1], todo[j])
    <3>1. CASE j = m + 1
      <4>1. m \in 0..(m + 1) /\ m # m + 1 /\ j # 0 /\ j - 1 = m
        BY <3>1
      <4>2. g[m] = f[m] /\ g[j] = Abandoned(f[m], todo[m + 1])
        BY <3>1, <4>1
      <4> HIDE DEF g
      <4> QED
        BY <3>1, <4>1, <4>2
    <3>2. CASE j # m + 1
      <4>1. j \in 0..m
        BY <3>2
      <4>2. g[j] = f[j]
        BY <3>2
      <4>3. f[j] = IF j = 0 THEN now ELSE Abandoned(f[j - 1], todo[j])
        <5> HIDE DEF g
        <5> QED
          BY <2>1, <4>1
      <4>4. ASSUME j # 0 PROVE g[j - 1] = f[j - 1]
        <5>1. j - 1 \in 0..(m + 1) /\ j - 1 # m + 1
          BY <4>1, <4>4
        <5> QED
          BY <5>1
      <4> HIDE DEF g
      <4> QED
        BY <4>2, <4>3, <4>4
    <3> QED
      BY <3>1, <3>2
  <2>3. g = [j \in 0..(m + 1) |-> g[j]]
    OBVIOUS
  <2> HIDE DEF g
  <2>4. Solves(m + 1, g)
    BY <2>2, <2>3
  <2> QED
    BY <2>4
<1>3. n \in T
  <2> HIDE DEF T, n
  <2>1. Nat \subseteq T
    BY <1>1, <1>2, NumberInduction
  <2> QED
    BY <2>1 DEF n
<1>4. \E f : Solves(n, f)
  BY <1>3
<1>5. Solves(n, after)
  <2> HIDE DEF Solves
  <2> QED
    BY <1>4
<1>6. \A i : AbandonedUpTo(i) = after[i]
  BY DEF AbandonedUpTo
<1> HIDE DEF after, n
<1>7. \A j \in 0..n : after[j] = IF j = 0 THEN now ELSE Abandoned(after[j - 1], todo[j])
  BY <1>5
<1>8. n \in Nat
  BY DEF n
<1>9. \A j \in 1..n : j \in 0..n /\ j # 0
  BY <1>8
<1>10. 0 \in 0..n
  BY <1>8
<1> QED
  BY <1>6, <1>7, <1>9, <1>10 DEF n

(* The guard of the only alternative of a clause.                          *)
LEMMA GuardOfOne ==
  ASSUME NEW st, NEW a
  PROVE  Guards(st, <<a>>) = AfterCondition(st, a)
<1> DEFINE Solves(f) == f = [j \in 0..1 |-> IF j = 0 THEN st
                                            ELSE AfterCondition(f[j - 1], <<a>>[j])]
           after == CHOOSE f : Solves(f)
           g == [j \in 0..1 |-> IF j = 0 THEN st ELSE AfterCondition(st, a)]
<1>1. Len(<<a>>) = 1 /\ <<a>>[1] = a
  BY ShortSequences
<1>2. \A j \in 0..1 : j = 0 \/ j = 1
  OBVIOUS
<1>3. g[0] = st /\ g[1] = AfterCondition(st, a) /\ g = [j \in 0..1 |-> g[j]]
  OBVIOUS
<1> HIDE DEF g
<1>4. \A j \in 0..1 : g[j] = IF j = 0 THEN st ELSE AfterCondition(g[j - 1], <<a>>[j])
  BY <1>1, <1>2, <1>3
<1>5. Solves(g)
  BY <1>3, <1>4
<1>6. Solves(after)
  <2>1. \E f : Solves(f)
    BY <1>5
  <2> HIDE DEF Solves
  <2> QED
    BY <2>1
<1>7. Guards(st, <<a>>) = after[1]
  BY <1>1 DEF Guards
<1> HIDE DEF after
<1>8. after[0] = st /\ after[1] = AfterCondition(after[1 - 1], <<a>>[1])
  BY <1>6
<1> QED
  BY <1>1, <1>7, <1>8

(* A store is like itself without counts.                                  *)
LEMMA UnusedAlike ==
  ASSUME NEW st \in Store
  PROVE  Alike(Unused(st), st) /\ Unused(st) \in Store /\ st # Broken
BY UnusedFacts, AlikeStores, AlikeRelation

(* A block ends, wherever the counts of uses are.                          *)
LEMMA EndedHere ==
  ASSUME NEW st \in Store, NEW deps \in Short, NEW b, NEW Y, NEW X,
         Exit(Unused(st), b) \in Y, Ended(Y, deps, X)
  PROVE  LET u == Closed(Release(st, deps))
         IN  u \in Store /\ u # Broken /\ Exit(Unused(u), b) \in X
<1> DEFINE u == Closed(Release(st, deps))
           a == Unused(st)
           v == Closed(Release(a, deps))
           y == Exit(a, b)
<1>1. Alike(a, st)
  BY UnusedAlike
<1>2. Alike(Release(a, deps), Release(st, deps))
  BY <1>1, AlikeRelease
<1>3. Alike(v, u)
  BY <1>2, AlikeClosed
<1>4. y \in Y /\ y.st = a /\ y.branch = b
  BY DEF Exit
<1>5. \A e \in Y : Closed(Release(e.st, deps)) # Broken
                   /\ Exit(Unused(Closed(Release(e.st, deps))), e.branch) \in X
  BY DEF Ended
<1> HIDE DEF y, a
<1>6. v # Broken /\ Exit(Unused(v), b) \in X
  BY <1>4, <1>5
<1> HIDE DEF u, v
<1>7. u # Broken /\ Unused(v) = Unused(u) /\ u \in Store
  BY <1>3, <1>6, AlikeUnused
<1> QED
  BY <1>6, <1>7 DEF u

(* An iteration ends likewise.                                             *)
LEMMA LoopedHere ==
  ASSUME NEW st \in Store, NEW deps \in Short, NEW b, NEW q, NEW W, NEW X,
         Looped(q, deps, Exit(Unused(st), b), W, X)
  PROVE  LET u == Closed(st)
             v == Parting(q, deps, u)
             c == Continues(Exit(Unused(st), b))
         IN  /\ u \in Store /\ v \in Store /\ u # Broken /\ v # Broken
             /\ c => Work(Unused(u), Outside) \in W
             /\ Exit(Unused(v), IF c \/ Breaks(Exit(Unused(st), b)) THEN NoBranch ELSE b) \in X
<1> DEFINE a == Unused(st)
           y == Exit(a, b)
           u == Closed(st)
           v == Parting(q, deps, u)
           ua == Closed(a)
           va == Parting(q, deps, ua)
<1>1. Alike(a, st)
  BY UnusedAlike
<1>2. Alike(ua, u)
  BY <1>1, AlikeClosed
<1>3. Alike(va, v)
  BY <1>2, PartingAlike
<1>4. y.st = a /\ y.branch = b
  BY DEF Exit
<1> HIDE DEF a
<1>5. /\ ua # Broken /\ va # Broken
      /\ Continues(y) => Work(Unused(ua), Outside) \in W
      /\ Exit(Unused(va), IF Continues(y) \/ Breaks(y) THEN NoBranch ELSE b) \in X
  <2> HIDE DEF y
  <2> QED
    BY <1>4 DEF Looped, y, a
<1> HIDE DEF y, u, v, ua, va
<1>6. u # Broken /\ Unused(ua) = Unused(u) /\ u \in Store
  BY <1>2, <1>5, AlikeUnused
<1>7. v # Broken /\ Unused(va) = Unused(v) /\ v \in Store
  BY <1>3, <1>5, AlikeUnused
<1> QED
  BY <1>5, <1>6, <1>7 DEF u, v, y, a

(* A frame is passed by on the way to the statement a branch goes to.      *)
PassesBy(f, b) ==
  /\ ~(f.do = "list" /\ b.tok = "goto" /\ b.label \in Labels(f.stmts))
  /\ ~(f.do = "switch" /\ (b.tok = "fallthrough" \/ (b.tok = "break" /\ b.label = NoLabel)))
  /\ ~(f.do = "range" /\ b.tok \in {"break", "continue"} /\ b.label = NoLabel)

(* A branch that is not caught leaves by the frame, which is abandoned as  *)
(* the visit has it: blocks are closed, and what was borrowed is given     *)
(* back.                                                                   *)
LEMMA PassedBy ==
  ASSUME NEW f, NEW X, NEW Z, Flow(f, X, Z), NEW b, b.tok # "none", PassesBy(f, b),
         NEW st \in Store, Exit(Unused(st), b) \in X
  PROVE  /\ Abandoned(st, f) \in Store
         /\ Exit(Unused(Abandoned(st, f)), b) \in Z
<1> DEFINE x == Exit(Unused(st), b)
<1>1. x \in X /\ x.st = Unused(st) /\ x.branch = b
  BY DEF Exit
<1>2. b # NoBranch
  BY DEF NoBranch, Branch
<1> HIDE DEF x
<1>3. CASE f.do = "end" /\ Ended(X, <<>>, Z)
  <2>1. Abandoned(st, f) = Closed(Release(st, <<>>)) /\ <<>> \in Short
    BY <1>3, ReleaseShort DEF Abandoned, Short
  <2> QED
    BY <1>3, <2>1, EndedHere
<1>4. CASE f.do = "label" /\ X \subseteq Z
  <2>1. Abandoned(st, f) = st
    BY <1>4 DEF Abandoned
  <2> QED
    BY <1>4, <2>1
<1>5. CASE f.do = "list" /\ FlowList(f, X, Z)
  <2>1. Abandoned(st, f) = st
    BY <1>5 DEF Abandoned
  <2>2. PICK W : Sorted(Place(f.stmts, FALSE, f.at - 1), x, W, Z)
    BY <1>1, <1>5 DEF FlowList
  <2> DEFINE g == Place(f.stmts, FALSE, f.at - 1)
  <2>3. /\ g.stmts = f.stmts /\ g.item = f.at - 1 /\ ~g.isASwitch
    BY DEF Place
  <2> HIDE DEF g
  <2>4. GoesTo(g, b) = Outside
    BY <1>2, <1>5, <2>3 DEF GoesTo, PassesBy
  <2>5. LeavesWith(g, b) = b
    BY <2>3 DEF LeavesWith
  <2>6. Exit(x.st, b) \in Z
    BY <1>1, <2>2, <2>4, <2>5 DEF Sorted, g
  <2> QED
    BY <1>1, <2>1, <2>6
<1>6. CASE f.do = "switch" /\ FlowSwitch(f, X, Z)
  <2>1. Abandoned(st, f) = Closed(Release(st, f.deps)) /\ f.deps \in Short /\ Labels(f.clauses) = {}
    BY <1>6 DEF Abandoned, FlowSwitch
  <2>2. PICK W, Y : Sorted(Place(f.clauses, TRUE, f.at), x, W, Y) /\ Ended(Y, f.deps, Z)
    BY <1>1, <1>6 DEF FlowSwitch
  <2> DEFINE g == Place(f.clauses, TRUE, f.at)
  <2>3. g.stmts = f.clauses /\ g.item = f.at /\ g.isASwitch
    BY DEF Place
  <2> HIDE DEF g
  <2>4. GoesTo(g, b) = Outside
    BY <1>2, <1>6, <2>1, <2>3 DEF GoesTo, PassesBy
  <2>5. LeavesWith(g, b) = b
    BY <1>6 DEF LeavesWith, PassesBy, BranchingThis
  <2>6. Exit(x.st, b) \in Y
    BY <1>1, <2>2, <2>4, <2>5 DEF Sorted, g
  <2>7. Exit(Unused(st), b) \in Y
    BY <1>1, <2>6
  <2> QED
    BY <2>1, <2>2, <2>7, EndedHere
<1>7. CASE f.do = "range" /\ FlowRange(f, X, Z)
  <2>1. f.deps \in Short
    BY <1>7 DEF FlowRange
  <2>2. PICK W : Ahead(f, X, W, Z) \/ Amid(f, X, W, Z)
    BY <1>7 DEF FlowRange
  <2>3. ~Ahead(f, X, W, Z)
    BY <1>1, <1>2 DEF Ahead
  <2>4. f.inside /\ (f.back <=> Lends(f.stmt, f.deps)) /\ Looped(f.stmt, f.deps, x, W, Z)
    BY <1>1, <2>2, <2>3 DEF Amid
  <2> DEFINE u == Closed(st)
             v == Parting(f.stmt, f.deps, u)
  <2>5. Looped(f.stmt, f.deps, Exit(Unused(st), b), W, Z)
    BY <2>4 DEF x
  <2>6. v \in Store /\ Exit(Unused(v), IF Continues(x) \/ Breaks(x) THEN NoBranch ELSE b) \in Z
    <3> HIDE DEF u, v
    <3> QED
      BY <2>1, <2>5, LoopedHere DEF u, v, x
  <2>7. ~Continues(x) /\ ~Breaks(x)
    BY <1>1, <1>2, <1>7 DEF Continues, Breaks, BranchingThis, PassesBy
  <2>8. Abandoned(st, f) = LeaveRange(f, st)
    BY <1>7 DEF Abandoned
  <2>9. LeaveRange(f, st) = v
    BY <2>4 DEF LeaveRange, Parting
  <2> HIDE DEF v
  <2> QED
    BY <2>6, <2>7, <2>8, <2>9
<1>8. f.do = "stmt" /\ FlowStmt(f, X, Z) => FALSE
  BY <1>1, <1>2 DEF FlowStmt
<1> QED
  BY <1>3, <1>4, <1>5, <1>6, <1>7, <1>8 DEF Flow

(* What a branch statement does, in the first frame.                       *)
LEMMA BranchTaken ==
  ASSUME NEW f, NEW X, NEW Z, Flow(f, X, Z), f.do = "stmt", f.stmt.kind = "branch",
         NEW st \in Store, Exit(Unused(st), NoBranch) \in X
  PROVE  Exit(Unused(st), Branch(f.stmt.tok, f.stmt.label)) \in Z
<1> DEFINE x == Exit(Unused(st), NoBranch)
<1>1. x \in X /\ x.st = Unused(st)
  BY DEF Exit
<1> HIDE DEF x
<1>2. PICK Y \in SUBSET Z : <<f.stmt, Unused(st), Y>> \in Foretold
  BY <1>1 DEF Flow, FlowStmt
<1>3. Answered(f.stmt, st, Y)
  BY <1>2 DEF Answered
<1>4. f.stmt \in Task /\ Y \in SUBSET Way
  BY <1>3, AnsweredTyped
<1>5. Justified(Foretold, f.stmt, st, Y)
  BY <1>3, <1>4, AnsweredFixed
<1>6. AsBranch(f.stmt, st, Y)
  BY <1>5 DEF Justified
<1> QED
  BY <1>2, <1>6 DEF AsBranch

(* The way out: past the frames that do not catch the branch.              *)
LEMMA WayOut ==
  ASSUME NEW Xs, NEW R, LeadsVia(todo, Xs, R), todo # <<>>, now \in Store,
         NEW b, b.tok # "none", todo[1].do = "stmt", Exit(Unused(now), b) \in Xs[2],
         NEW m \in 1..Len(todo), \A j \in 2..m : PassesBy(todo[j], b)
  PROVE  AbandonedUpTo(m) \in Store /\ Exit(Unused(AbandonedUpTo(m)), b) \in Xs[m + 1]
<1> DEFINE n == Len(todo)
           G(i) == AbandonedUpTo(i) \in Store /\ Exit(Unused(AbandonedUpTo(i)), b) \in Xs[i + 1]
           T == {i \in Nat : i + 1 <= m => G(i + 1)}
<1>1. n \in Nat /\ m \in 1..n /\ \A j \in 1..n : Flow(todo[j], Xs[j], Xs[j + 1])
  BY DEF LeadsVia, Sequence
<1>2. /\ AbandonedUpTo(0) = now
      /\ \A i \in 1..n : AbandonedUpTo(i) = Abandoned(AbandonedUpTo(i - 1), todo[i])
  BY <1>1, AbandonedSteps
<1> HIDE DEF n
<1>3. G(1)
  <2>1. AbandonedUpTo(1) = Abandoned(AbandonedUpTo(1 - 1), todo[1])
    BY <1>1, <1>2
  <2>2. AbandonedUpTo(1) = Abandoned(now, todo[1])
    BY <1>2, <2>1
  <2>3. Abandoned(now, todo[1]) = now
    BY DEF Abandoned
  <2>4. 1 + 1 = 2
    OBVIOUS
  <2> QED
    BY <2>2, <2>3, <2>4
<1>4. 0 \in T
  <2>1. 0 + 1 = 1
    OBVIOUS
  <2> HIDE DEF G
  <2> QED
    BY <1>3, <2>1
<1>5. ASSUME NEW k \in Nat, k \in T
      PROVE  k + 1 \in T
  <2> SUFFICES ASSUME (k + 1) + 1 <= m PROVE G((k + 1) + 1)
    OBVIOUS
  <2> DEFINE i == k + 1
             j == i + 1
  <2>1. i \in Nat /\ i \in 1..n /\ j \in 2..m /\ j \in 1..n /\ j - 1 = i /\ i <= m
    BY <1>1
  <2>2. G(i)
    <3> HIDE DEF G
    <3> QED
      BY <1>5, <2>1
  <2> HIDE DEF i
  <2>3. AbandonedUpTo(j) = Abandoned(AbandonedUpTo(j - 1), todo[j])
    BY <1>2, <2>1
  <2>4. AbandonedUpTo(j) = Abandoned(AbandonedUpTo(i), todo[j])
    BY <2>1, <2>3
  <2>5. Flow(todo[j], Xs[j], Xs[j + 1]) /\ PassesBy(todo[j], b)
    BY <1>1, <2>1
  <2>6. AbandonedUpTo(i) \in Store /\ Exit(Unused(AbandonedUpTo(i)), b) \in Xs[j]
    BY <2>2
  <2>7. /\ Abandoned(AbandonedUpTo(i), todo[j]) \in Store
        /\ Exit(Unused(Abandoned(AbandonedUpTo(i), todo[j])), b) \in Xs[j + 1]
    <3> HIDE DEF j
    <3> QED
      BY <2>5, <2>6, PassedBy
  <2>8. G(j)
    BY <2>4, <2>7
  <2> HIDE DEF G
  <2> QED
    BY <2>8 DEF i
<1>6. m - 1 \in Nat /\ (m - 1) + 1 = m
  BY <1>1
<1>7. Nat \subseteq T
  <2> HIDE DEF T
  <2> QED
    BY <1>4, <1>5, NumberInduction
<1>8. m - 1 \in T
  BY <1>6, <1>7
<1>9. G((m - 1) + 1)
  <2>1. (m - 1) + 1 <= m
    BY <1>1
  <2> HIDE DEF G
  <2> QED
    BY <1>8, <2>1
<1>10. G(m)
  <2> HIDE DEF G
  <2> QED
    BY <1>6, <1>9
<1> QED
  BY <1>10

(* A branch is in the body, at least; and the exits know where it went.    *)
LEMMA NotOut ==
  ASSUME NEW Xs, LeadsVia(todo, Xs, Found(lit.exits)), todo # <<>>, now \in Store,
         NEW b, b.tok \notin {"none", "return"}, todo[1].do = "stmt",
         Exit(Unused(now), b) \in Xs[2],
         BranchesResolved, Sequence(lit.exits)
  PROVE  ~ \A j \in 2..Len(todo) : PassesBy(todo[j], b)
<1> SUFFICES ASSUME \A j \in 2..Len(todo) : PassesBy(todo[j], b)
             PROVE  FALSE
  OBVIOUS
<1>1. Sequence(todo) /\ Len(todo) \in Nat /\ Xs[Len(todo) + 1] = Found(lit.exits)
  BY DEF LeadsVia, Sequence
<1>2. Len(todo) \in 1..Len(todo)
  <2>1. Len(todo) >= 1
    BY <1>1, TailSequence
  <2> QED
    BY <1>1, <2>1
<1>3. Exit(Unused(AbandonedUpTo(Len(todo))), b) \in Xs[Len(todo) + 1]
  BY <1>2, WayOut
<1>4. PICK i \in 1..Len(lit.exits) :
        Exit(Unused(AbandonedUpTo(Len(todo))), b)
          = Exit(Unused(lit.exits[i].st), lit.exits[i].branch)
  BY <1>1, <1>3 DEF Found
<1>5. b = lit.exits[i].branch
  BY <1>4 DEF Exit
<1>6. DOMAIN lit.exits = 1..Len(lit.exits)
  BY SequenceTyped
<1> QED
  BY <1>5, <1>6 DEF BranchesResolved

(* The innermost of some frames.                                           *)
LEMMA InnermostFacts ==
  ASSUME NEW is \in SUBSET Nat, is # {}
  PROVE  Innermost(is) \in is /\ \A j \in is : Innermost(is) <= j
<1>1. \E i \in is : \A j \in is : i <= j
  BY LeastNumber
<1> QED
  BY <1>1 DEF Innermost

(* Where the path is, as one of the exits.                                 *)
Here(st) == Exit(Unused(st), NoBranch)

(* The counts of uses do not matter to where the path is.                  *)
LEMMA HereFacts ==
  ASSUME NEW st \in Store
  PROVE  /\ {Here(st)} \in SUBSET Way /\ Here(st).st = Unused(st) /\ Here(st).branch = NoBranch
         /\ Bare(st) \in Store /\ Here(Bare(st)) = Here(st) /\ Here(Unused(st)) = Here(st)
<1>1. Unused(st) \in Plain /\ Unused(Unused(st)) = Unused(st)
  BY PlainFacts
<1>2. Here(st) = [st |-> Unused(st), branch |-> NoBranch]
  BY DEF Here, Exit
<1>3. Bare(st) \in Store /\ Unused(Bare(st)) = Unused(st)
  BY UnusedFacts, UnusedSame
<1> HIDE DEF Unused, Bare
<1>4. Here(st) \in Way
  BY <1>1, <1>2 DEF Way
<1> QED
  BY <1>1, <1>2, <1>3, <1>4 DEF Here

(* A path that is one of those that lead somewhere.                        *)
LEMMA RunsHere ==
  ASSUME NEW st \in Store, NEW X, Here(st) \in X, NEW k, NEW R, Leads(k, X, R)
  PROVE  Runs(st, k, R)
BY DEF Runs, Here

(* One frame more.                                                         *)
LEMMA RunsOne ==
  ASSUME NEW st \in Store, NEW f, NEW Z, Flow(f, {Here(st)}, Z), NEW k, NEW R, Leads(k, Z, R)
  PROVE  Runs(st, <<f>> \o k, R)
<1>1. {Here(st)} \in SUBSET Way
  BY HereFacts
<1>2. Leads(<<f>> \o k, {Here(st)}, R)
  BY <1>1, LeadsMore
<1> QED
  BY <1>2, RunsHere

(* Two frames more.                                                        *)
LEMMA RunsTwo ==
  ASSUME NEW st \in Store, NEW f, NEW Y \in SUBSET Way, Flow(f, {Here(st)}, Y),
         NEW g, NEW Z, Flow(g, Y, Z), NEW k, NEW R, Leads(k, Z, R)
  PROVE  Runs(st, <<f, g>> \o k, R)
<1>1. {Here(st)} \in SUBSET Way
  BY HereFacts
<1>2. Leads(<<f, g>> \o k, {Here(st)}, R)
  BY <1>1, LeadsTwoMore
<1> QED
  BY <1>2, RunsHere

(* What is next, of what there is to do.                                   *)
LEMMA RunsNext ==
  ASSUME RunInv, fate = "running", todo # <<>>
  PROVE  /\ now \in Store /\ now # Broken
         /\ \E X \in SUBSET Way, Z \in SUBSET Way :
              Here(now) \in X /\ Flow(Current, X, Z) /\ Leads(Later, Z, Found(lit.exits))
<1>1. PICK X : Here(now) \in X /\ Leads(todo, X, Found(lit.exits))
  BY DEF RunInv, Runs, Here
<1>2. PICK Xs : LeadsVia(todo, Xs, Found(lit.exits)) /\ Xs[1] = X
  BY <1>1 DEF Leads
<1>3. /\ Flow(Current, Xs[1], Xs[2]) /\ Leads(Later, Xs[2], Found(lit.exits))
      /\ Xs[1] \in SUBSET Way /\ Xs[2] \in SUBSET Way
  BY <1>2, LeadsTail DEF Current, Later
<1> QED
  BY <1>1, <1>2, <1>3, BrokenIsNone DEF RunInv, Runs

(* The run goes on where the exits say it might.                           *)
LEMMA RunGoesOn ==
  ASSUME RunInv, fate = "running", NEW st, NEW k, Runs(st, k, Found(lit.exits)), GoOn(st, k)
  PROVE  RunInv'
<1>1. st \in Store /\ st # Broken
  BY BrokenIsNone DEF Runs
<1>2. todo' = k /\ now' = Bare(st) /\ fate' = fate /\ lit' = lit /\ stack' = stack
  BY <1>1 DEF GoOn, vars
<1>3. Bare(st) \in Store /\ Here(Bare(st)) = Here(st)
  BY <1>1, HereFacts
<1>4. Runs(now', k, Found(lit.exits))
  BY <1>2, <1>3 DEF Runs, Here
<1> QED
  BY <1>2, <1>4 DEF RunInv

(* A statement that is answered leads to the answer.                       *)
LEMMA FlowDo ==
  ASSUME NEW q \in Stmts, NEW st \in Store, NEW Y, <<q, Unused(st), Y>> \in Foretold
  PROVE  Flow(Do(q), {Here(st)}, Y) /\ Y \in SUBSET Way
<1>1. Do(q).do = "stmt" /\ Do(q).stmt = q
  BY DEF Do
<1>2. Y \in SUBSET Way
  BY AnsweredTyped DEF Answered
<1>3. Here(st).st = Unused(st) /\ Here(st).branch = NoBranch
  BY HereFacts
<1>4. FlowStmt(Do(q), {Here(st)}, Y)
  BY <1>1, <1>3 DEF FlowStmt
<1> QED
  BY <1>1, <1>2, <1>4 DEF Flow

(* So does a list of statements.                                           *)
LEMMA FlowFrom ==
  ASSUME NEW stmts \in Seq(Stmts), NEW st \in Store, NEW X, Answered(ListOf(stmts, FALSE), st, X)
  PROVE  Flow(From(stmts, 1), {Here(st)}, X) /\ X \in SUBSET Way
<1> DEFINE f == From(stmts, 1)
           g == Place(stmts, FALSE, 0)
           q == ListOf(stmts, FALSE)
           x == Here(st)
<1>1. f.do = "list" /\ f.stmts = stmts /\ f.at = 1
  BY DEF From
<1>2. q \in Task /\ q.stmts = stmts /\ q.kind = "list"
  BY ListTask
<1>3. X \in SUBSET Way
  BY AnsweredTyped
<1>4. AsList(Foretold, stmts, FALSE, st, X)
  <2> HIDE DEF q
  <2>1. Justified(Foretold, q, st, X)
    BY <1>2, <1>3, AnsweredFixed DEF q
  <2> QED
    BY <1>2, <2>1 DEF Justified
<1>5. PICK W : /\ Begun(stmts, FALSE, st, W, X)
               /\ \A w \in W : Handled(Foretold, stmts, FALSE, w, W, X)
  BY <1>4 DEF AsList
<1>6. x.st = Unused(st) /\ x.branch = NoBranch /\ x = Exit(Unused(st), NoBranch)
  BY HereFacts DEF Here
<1>7. g.stmts = stmts /\ g.item = 0 /\ ~g.isASwitch
  BY DEF Place
<1> HIDE DEF x, g
<1>8. Sorted(g, x, W, X)
  <2>1. CASE stmts = <<>>
    <3>1. Len(g.stmts) = 0
      BY <1>7, <2>1, ShortSequences
    <3>2. GoesTo(g, NoBranch) = Outside /\ LeavesWith(g, NoBranch) = NoBranch
      BY <1>7, <3>1 DEF GoesTo, LeavesWith, NoBranch, Branch
    <3> QED
      BY <1>5, <1>6, <2>1, <3>2 DEF Begun, Sorted
  <2>2. CASE stmts # <<>>
    <3>1. 0 < Len(g.stmts) /\ 0 + 1 = 1
      <4>1. Sequence(stmts) /\ Len(stmts) \in Nat
        BY TypedSequence
      <4>2. Len(stmts) >= 1
        BY <2>2, <4>1, TailSequence
      <4> QED
        BY <1>7, <4>1, <4>2
    <3>2. GoesTo(g, NoBranch) = 1
      BY <1>7, <3>1 DEF GoesTo, NoBranch, Branch
    <3>3. Work(Unused(st), 1) \in W
      BY <1>5, <2>2 DEF Begun
    <3> QED
      BY <1>6, <3>2, <3>3 DEF Sorted, Outside
  <2> QED
    BY <2>1, <2>2
<1>9. FlowList(f, {x}, X)
  <2>1. f.at - 1 = 0 /\ f.at \in Nat \ {0} /\ f = From(f.stmts, f.at)
    BY <1>1
  <2> HIDE DEF f
  <2> QED
    BY <1>1, <1>5, <1>8, <2>1 DEF FlowList, g
<1> QED
  BY <1>1, <1>3, <1>9 DEF Flow, x

(* The statement that is next, and what its ways are.                      *)
LEMMA StmtNext ==
  ASSUME RunInv, NEW kind, Is(kind)
  PROVE  /\ Current.stmt \in Stmts /\ Current.stmt.kind = kind /\ fate = "running"
         /\ now \in Store /\ now # Broken
         /\ \E Z \in SUBSET Way : \E Y \in SUBSET Z :
              /\ Justified(Foretold, Current.stmt, now, Y) /\ Leads(Later, Z, Found(lit.exits))
<1>1. fate = "running" /\ todo # <<>> /\ Current.do = "stmt" /\ Current.stmt.kind = kind
  BY DEF Is
<1>2. PICK X \in SUBSET Way, Z \in SUBSET Way :
        Here(now) \in X /\ Flow(Current, X, Z) /\ Leads(Later, Z, Found(lit.exits))
  BY <1>1, RunsNext
<1>3. now \in Store /\ now # Broken
  BY <1>1, RunsNext
<1>4. FlowStmt(Current, X, Z)
  BY <1>1, <1>2 DEF Flow
<1>5. Here(now).st = Unused(now)
  BY <1>3, HereFacts
<1>6. PICK Y \in SUBSET Z : <<Current.stmt, Unused(now), Y>> \in Foretold
  BY <1>2, <1>4, <1>5 DEF FlowStmt
<1>7. Answered(Current.stmt, now, Y)
  BY <1>6 DEF Answered
<1>8. Current.stmt \in Task /\ Y \in SUBSET Way
  BY <1>7, AnsweredTyped
<1>9. Justified(Foretold, Current.stmt, now, Y)
  BY <1>3, <1>7, <1>8, AnsweredFixed
<1> QED
  BY <1>1, <1>2, <1>3, <1>4, <1>9 DEF FlowStmt

(* The run begins: the exits are an answer for the body.                   *)
LEMMA StartForeseen == ASSUME VisitInv, BorrowInv, RunInv, Start PROVE RunInv'
<1> DEFINE f == From(lit.body, 1)
           none == <<>>
           R == Found(lit.exits)
<1>1. /\ stack = <<>> /\ lit.visited /\ todo' = <<f>> /\ now' = Unused(Entered)
      /\ fate' = "running" /\ stack' = stack /\ lit' = lit
  BY DEF Start, vars
<1>2. lit.body \in Seq(Stmts) /\ R \in Goal /\ Entered \in Store
  BY <1>1, LiteralFields DEF VisitInv
<1>3. Answered(ListOf(lit.body, FALSE), Entered, R)
  BY <1>2 DEF Goal, To
<1>4. Flow(f, {Here(Entered)}, R) /\ R \in SUBSET Way
  BY <1>2, <1>3, FlowFrom
<1> HIDE DEF f, R
<1>5. {Here(Entered)} \in SUBSET Way /\ Here(Unused(Entered)) = Here(Entered)
      /\ Unused(Entered) \in Store
  BY <1>2, HereFacts, UnusedFacts
<1>6. LeadsVia(<<f>>, <<{Here(Entered)}, R>>, R)
  <2> DEFINE k == <<f>>
             Xs == <<{Here(Entered)}, R>>
  <2>1. Sequence(k) /\ Len(k) = 1 /\ k[1] = f
        /\ Sequence(Xs) /\ Len(Xs) = 2 /\ Xs[1] = {Here(Entered)} /\ Xs[2] = R
    BY ShortSequences
  <2>2. 1 + 1 = 2 /\ (\A i \in 1..1 : i = 1) /\ (\A i \in 1..2 : i = 1 \/ i = 2)
    OBVIOUS
  <2> HIDE DEF k, Xs
  <2>3. \A i \in 1..2 : Xs[i] \in SUBSET Way
    BY <1>4, <1>5, <2>1, <2>2
  <2>4. \A i \in 1..1 : Flow(k[i], Xs[i], Xs[i + 1])
    BY <1>4, <2>1, <2>2
  <2> QED
    BY <2>1, <2>2, <2>3, <2>4 DEF LeadsVia, k, Xs
<1>7. Leads(<<f>>, {Here(Entered)}, R)
  BY <1>6 DEF Leads
<1>8. Runs(Unused(Entered), <<f>>, R)
  BY <1>5, <1>7, RunsHere
<1>9. Runs(now', todo', Found(lit'.exits))
  BY <1>1, <1>8 DEF R
<1> QED
  BY <1>1, <1>9 DEF RunInv

(* The run ends.                                                           *)
LEMMA FinishForeseen == ASSUME RunInv, Finish PROVE RunInv'
<1>1. /\ fate = "running" /\ todo = <<>> /\ fate' = "ended" /\ lit' = lit /\ stack' = stack
      /\ now' = now
  BY DEF Finish, vars
<1>2. PICK X : now \in Store /\ Here(now) \in X /\ Leads(<<>>, X, Found(lit.exits))
  BY <1>1 DEF RunInv, Runs, Here
<1>3. Here(now) \in Found(lit.exits)
  BY <1>2, LeadsEnd
<1> QED
  BY <1>1, <1>2, <1>3 DEF RunInv, Here

(* A simple statement does not fault, since it did not when it was visited *)
(* in an Equal store.                                                      *)
LEMMA SimpleForeseen == ASSUME RunInv, RunSimple PROVE RunInv'
<1> DEFINE q == Current.stmt
           st == AfterSimple(now, q)
           R == Found(lit.exits)
<1>1. Is("simple") /\ GoOn(st, Later)
  BY DEF RunSimple
<1>2. q \in Stmts /\ q.kind = "simple" /\ fate = "running" /\ now \in Store
  BY <1>1, StmtNext
<1>3. PICK Z \in SUBSET Way : \E Y \in SUBSET Z :
        Justified(Foretold, q, now, Y) /\ Leads(Later, Z, R)
  BY <1>1, StmtNext
<1>4. st # Broken /\ Exit(Unused(st), NoBranch) \in Z
  BY <1>2, <1>3 DEF Justified, AsSimple
<1>5. st \in Any
  BY <1>2, StmtParts, AlikeItself, AlikeSimple
<1> HIDE DEF st, R
<1>6. Runs(st, Later, R)
  BY <1>3, <1>4, <1>5, RunsHere DEF Any, Here
<1> QED
  BY <1>1, <1>2, <1>6, RunGoesOn DEF R

(* A label is left behind when its statement is done.                      *)
LEMMA LabeledForeseen == ASSUME RunInv, RunLabeled PROVE RunInv'
<1> DEFINE q == Current.stmt
           g == Around(q.label)
           k == <<Do(q.stmt), g>> \o Later
           R == Found(lit.exits)
<1>1. Is("labeled") /\ GoOn(now, k)
  BY DEF RunLabeled
<1>2. q \in Stmts /\ q.kind = "labeled" /\ fate = "running" /\ now \in Store
  BY <1>1, StmtNext
<1>3. PICK Z \in SUBSET Way : \E Y \in SUBSET Z :
        Justified(Foretold, q, now, Y) /\ Leads(Later, Z, R)
  BY <1>1, StmtNext
<1>4. PICK Y \in SUBSET Z : Justified(Foretold, q, now, Y)
  BY <1>3
<1>5. q.stmt \in Stmts /\ <<q.stmt, Unused(now), Y>> \in Foretold
  BY <1>2, <1>4, StmtParts DEF Justified
<1>6. Flow(Do(q.stmt), {Here(now)}, Y) /\ Y \in SUBSET Way
  BY <1>2, <1>5, FlowDo
<1>7. Flow(g, Y, Z)
  BY <1>4 DEF Flow, Around
<1> HIDE DEF g, R
<1>8. Runs(now, k, R)
  BY <1>2, <1>3, <1>6, <1>7, RunsTwo
<1> HIDE DEF k
<1> QED
  BY <1>1, <1>2, <1>8, RunGoesOn DEF R

(* The end of a labeled statement.                                         *)
LEMMA PastLabelForeseen == ASSUME RunInv, PastLabel PROVE RunInv'
<1>1. fate = "running" /\ todo # <<>> /\ Current.do = "label" /\ GoOn(now, Later)
  BY DEF PastLabel, At
<1>2. PICK X \in SUBSET Way, Z \in SUBSET Way :
        Here(now) \in X /\ Flow(Current, X, Z) /\ Leads(Later, Z, Found(lit.exits))
  BY <1>1, RunsNext
<1>3. X \subseteq Z /\ now \in Store
  BY <1>1, <1>2, RunsNext DEF Flow
<1>4. Runs(now, Later, Found(lit.exits))
  BY <1>2, <1>3, RunsHere
<1> QED
  BY <1>1, <1>4, RunGoesOn

(* What is in X is in Z.                                                   *)
LEMMA EndMore ==
  ASSUME NEW Y, NEW deps, NEW X, NEW Z, Ended(Y, deps, X), X \subseteq Z
  PROVE  Ended(Y, deps, Z)
BY DEF Ended

(* A block.                                                                *)
LEMMA RunBlockForeseen == ASSUME RunInv, RunBlock PROVE RunInv'
<1> DEFINE q == Current.stmt
           f == From(q.stmts, 1)
           k == <<f, End>> \o Later
           R == Found(lit.exits)
           st == Opened(now)
<1>1. Is("block") /\ GoOn(st, k)
  BY DEF RunBlock
<1>2. q \in Stmts /\ q.kind = "block" /\ fate = "running" /\ now \in Store
  BY <1>1, StmtNext
<1>3. PICK Z \in SUBSET Way : \E Y \in SUBSET Z :
        Justified(Foretold, q, now, Y) /\ Leads(Later, Z, R)
  BY <1>1, StmtNext
<1>4. PICK Y \in SUBSET Z : Justified(Foretold, q, now, Y)
  BY <1>3
<1>5. AsBlock(Foretold, q.stmts, FALSE, now, Y)
  BY <1>2, <1>4 DEF Justified
<1>6. PICK V \in SUBSET Way : /\ <<ListOf(q.stmts, FALSE), Unused(st), V>> \in Foretold
                              /\ Ended(V, <<>>, Y)
  BY <1>5 DEF AsBlock
<1>7. q.stmts \in Seq(Stmts) /\ st \in Store
  BY <1>2, StmtParts, AlikeItself
<1>8. Flow(f, {Here(st)}, V)
  <2> HIDE DEF st, f
  <2> QED
    BY <1>6, <1>7, FlowFrom DEF Answered, f
<1>9. Flow(End, V, Z)
  <2>1. Ended(V, <<>>, Z)
    BY <1>4, <1>6, EndMore
  <2> QED
    BY <2>1 DEF Flow, End
<1> HIDE DEF f, R, st
<1>10. Runs(st, k, R)
  BY <1>3, <1>6, <1>7, <1>8, <1>9, RunsTwo
<1> HIDE DEF k
<1> QED
  BY <1>1, <1>2, <1>10, RunGoesOn DEF R

(* Either branch of an if statement has been visited.                      *)
LEMMA RunIfForeseen == ASSUME RunInv, RunIf PROVE RunInv'
<1> DEFINE q == Current.stmt
           R == Found(lit.exits)
           u == AfterSimple(Opened(now), q.init)
           st == AfterCondition(u, q.cond)
<1>1. PICK branch \in {q.then, q.else} : Is("if") /\ GoOn(st, <<Do(branch), End>> \o Later)
  BY DEF RunIf
<1>2. q \in Stmts /\ q.kind = "if" /\ fate = "running" /\ now \in Store
  BY <1>1, StmtNext
<1>3. PICK Z \in SUBSET Way : \E Y \in SUBSET Z :
        Justified(Foretold, q, now, Y) /\ Leads(Later, Z, R)
  BY <1>1, StmtNext
<1>4. PICK Y \in SUBSET Z : Justified(Foretold, q, now, Y)
  BY <1>3
<1>5. AsIf(Foretold, q, now, Y)
  BY <1>2, <1>4 DEF Justified
<1>6. PICK V \in SUBSET Way : <<branch, Unused(st), V>> \in Foretold /\ Ended(V, <<>>, Y)
  BY <1>5 DEF AsIf
<1>7. st # Broken
  BY <1>5 DEF AsIf
<1>8. branch \in Stmts /\ q.init \in SimpleStmt
  BY <1>2, StmtParts
<1>9. u \in Any
  BY <1>2, <1>8, AlikeItself, AlikeSimple
<1>10. st \in Store
  <2> HIDE DEF u
  <2>1. Alike(u, u)
    BY <1>9, AlikeRelation
  <2>2. Alike(st, st)
    BY <2>1, AlikeCondition
  <2> HIDE DEF st
  <2> QED
    BY <1>7, <2>2 DEF Alike, Any
<1> HIDE DEF st, R
<1>11. Flow(Do(branch), {Here(st)}, V)
  BY <1>6, <1>8, <1>10, FlowDo
<1>12. Flow(End, V, Z)
  <2>1. Ended(V, <<>>, Z)
    BY <1>4, <1>6, EndMore
  <2> QED
    BY <2>1 DEF Flow, End
<1>13. Runs(st, <<Do(branch), End>> \o Later, R)
  BY <1>3, <1>6, <1>10, <1>11, <1>12, RunsTwo
<1> QED
  BY <1>1, <1>2, <1>13, RunGoesOn DEF R

(* The end of a block, or of a switch.                                     *)
LEMMA PastEndForeseen == ASSUME RunInv, PastEnd PROVE RunInv'
<1> DEFINE R == Found(lit.exits)
           st == Abandoned(now, Current)
<1>1. /\ fate = "running" /\ todo # <<>> /\ Current.do \in {"end", "switch"} /\ GoOn(st, Later)
  BY DEF PastEnd, At
<1>2. PICK X \in SUBSET Way, Z \in SUBSET Way :
        Here(now) \in X /\ Flow(Current, X, Z) /\ Leads(Later, Z, R)
  BY <1>1, RunsNext
<1>3. now \in Store
  BY <1>1, RunsNext
<1>4. st \in Store /\ Here(st) \in Z
  <2>1. CASE Current.do = "end"
    <3>1. st = Closed(Release(now, <<>>)) /\ <<>> \in Short
      BY <2>1, ReleaseShort DEF Abandoned, Short
    <3>2. Ended(X, <<>>, Z)
      BY <1>2, <2>1 DEF Flow
    <3> HIDE DEF st
    <3> QED
      BY <1>2, <1>3, <3>1, <3>2, EndedHere DEF Here
  <2>2. CASE Current.do = "switch"
    <3> DEFINE f == Current
               x == Here(now)
    <3>1. FlowSwitch(f, X, Z)
      BY <1>2, <2>2 DEF Flow
    <3>2. st = Closed(Release(now, f.deps)) /\ f.deps \in Short
      BY <2>2, <3>1 DEF Abandoned, FlowSwitch
    <3>3. PICK W, Y : Sorted(Place(f.clauses, TRUE, f.at), x, W, Y) /\ Ended(Y, f.deps, Z)
      BY <1>2, <3>1 DEF FlowSwitch
    <3>4. x.st = Unused(now) /\ x.branch = NoBranch /\ x = Exit(Unused(now), NoBranch)
      BY <1>3, HereFacts DEF Here
    <3> DEFINE g == Place(f.clauses, TRUE, f.at)
    <3>5. g.isASwitch
      BY DEF Place
    <3> HIDE DEF g, x
    <3>6. GoesTo(g, NoBranch) = Outside /\ LeavesWith(g, NoBranch) = NoBranch
      BY <3>5 DEF GoesTo, LeavesWith, NoBranch, Branch
    <3>7. Exit(Unused(now), NoBranch) \in Y
      BY <3>3, <3>4, <3>6 DEF Sorted, g
    <3> HIDE DEF st
    <3> QED
      BY <1>3, <3>2, <3>3, <3>7, EndedHere DEF Here
  <2> QED
    BY <1>1, <2>1, <2>2
<1> HIDE DEF st, R
<1>5. Runs(st, Later, R)
  BY <1>2, <1>4, RunsHere
<1> QED
  BY <1>1, <1>5, RunGoesOn DEF R

(* In a list, the next statement is where the works led to.                *)
LEMMA NextForeseen == ASSUME RunInv, NextOfList PROVE RunInv'
<1> DEFINE R == Found(lit.exits)
           f == Current
           n == Len(f.stmts)
           x == Here(now)
<1>1. /\ fate = "running" /\ todo # <<>> /\ f.do = "list"
      /\ GoOn(now, IF f.at > n THEN Later
                   ELSE <<Do(f.stmts[f.at]), [f EXCEPT !.at = @ + 1]>> \o Later)
  BY DEF NextOfList, At
<1>2. PICK X \in SUBSET Way, Z \in SUBSET Way : x \in X /\ Flow(f, X, Z) /\ Leads(Later, Z, R)
  BY <1>1, RunsNext
<1>3. now \in Store
  BY <1>1, RunsNext
<1>4. FlowList(f, X, Z)
  BY <1>1, <1>2 DEF Flow
<1>5. f.stmts \in Seq(Stmts) /\ f.at \in Nat \ {0} /\ f = From(f.stmts, f.at) /\ n \in Nat
      /\ DOMAIN f.stmts = 1..n
  BY <1>4 DEF FlowList
<1> DEFINE g == Place(f.stmts, FALSE, f.at - 1)
<1>6. PICK W : /\ \A w \in W : Handled(Foretold, f.stmts, FALSE, w, W, Z)
               /\ Sorted(g, x, W, Z)
  BY <1>2, <1>4 DEF FlowList
<1>7. x.st = Unused(now) /\ x.branch = NoBranch /\ x = Exit(Unused(now), NoBranch)
  BY <1>3, HereFacts DEF Here
<1>8. Len(g.stmts) = n /\ g.item = f.at - 1 /\ ~g.isASwitch
  BY DEF Place
<1> HIDE DEF x, g, R
<1>9. CASE f.at > n
  <2>1. ~(g.item < Len(g.stmts))
    BY <1>5, <1>8, <1>9
  <2>2. GoesTo(g, NoBranch) = Outside /\ LeavesWith(g, NoBranch) = NoBranch
    BY <1>8, <2>1 DEF GoesTo, LeavesWith, NoBranch, Branch
  <2>3. Here(now) \in Z
    BY <1>6, <1>7, <2>2 DEF Sorted, Here
  <2>4. Runs(now, Later, R)
    BY <1>2, <1>3, <2>3, RunsHere
  <2> QED
    BY <1>1, <1>9, <2>4, RunGoesOn DEF R
<1>10. CASE ~(f.at > n)
  <2> DEFINE s == f.stmts[f.at]
             h == From(f.stmts, f.at + 1)
             k == <<Do(s), h>> \o Later
  <2>1. f.at \in 1..n /\ g.item < Len(g.stmts) /\ g.item + 1 = f.at /\ f.at # 0
        /\ f.at + 1 \in Nat \ {0} /\ (f.at + 1) - 1 = f.at
    BY <1>5, <1>8, <1>10
  <2>2. GoesTo(g, NoBranch) = f.at
    BY <1>8, <2>1 DEF GoesTo, NoBranch, Branch
  <2>3. Work(Unused(now), f.at) \in W
    BY <1>6, <1>7, <2>1, <2>2 DEF Sorted, Outside
  <2>4. Handled(Foretold, f.stmts, FALSE, Work(Unused(now), f.at), W, Z)
    BY <1>6, <2>3
  <2>5. PICK Y \in SUBSET Way : /\ <<s, Unused(now), Y>> \in Foretold
                                /\ \A y \in Y : Sorted(Place(f.stmts, FALSE, f.at), y, W, Z)
    BY <2>4 DEF Handled, Work
  <2>6. s \in Stmts
    <3> HIDE DEF f, n
    <3> QED
      BY <1>5, <2>1
  <2>7. Flow(Do(s), {Here(now)}, Y)
    <3> HIDE DEF s
    <3> QED
      BY <1>3, <2>5, <2>6, FlowDo
  <2>8. FlowList(h, Y, Z)
    <3>1. h.stmts = f.stmts /\ h.at = f.at + 1
      BY DEF From
    <3>2. h = From(h.stmts, h.at)
      BY <3>1
    <3> HIDE DEF h, f, s, n
    <3> QED
      BY <1>5, <1>6, <2>1, <2>5, <3>1, <3>2 DEF FlowList
  <2>9. Flow(h, Y, Z)
    BY <2>8 DEF Flow, From
  <2>10. [f EXCEPT !.at = @ + 1] = h
    <3> DEFINE a == f.stmts
               i == f.at
    <3>1. f = From(a, i)
      BY <1>5
    <3> HIDE DEF f, a, i
    <3>2. [From(a, i) EXCEPT !.at = i + 1] = From(a, i + 1)
      BY DEF From
    <3> QED
      BY <3>1, <3>2 DEF a, i
  <2>11. GoOn(now, k)
    BY <1>1, <1>10, <2>10
  <2> HIDE DEF h, s, f
  <2>12. Runs(now, k, R)
    BY <1>2, <1>3, <2>5, <2>7, <2>9, RunsTwo
  <2> HIDE DEF k
  <2> QED
    BY <1>1, <2>11, <2>12, RunGoesOn DEF R
<1> QED
  BY <1>9, <1>10

(* The clauses of a switch are case clauses, those of a select are comm    *)
(* clauses.                                                                *)
LEMMA ClauseKinds ==
  ASSUME NEW s \in Stmts
  PROVE  /\ s.kind = "switch" => \A i \in DOMAIN s.clauses : s.clauses[i].kind = "case"
         /\ s.kind = "select" => \A i \in DOMAIN s.clauses : s.clauses[i].kind = "comm"
<1>1. s \in StmtOver(Stmts)
  BY StmtsAssumption
<1>2. \A t \in SimpleStmt : t.kind = "simple"
  BY DEF SimpleStmt, Nil, Simple
<1> DEFINE C == {t \in Stmts : t.kind = "case"}
           D == {t \in Stmts : t.kind = "comm"}
<1>3. (s.kind = "switch" => s.clauses \in Seq(C)) /\ (s.kind = "select" => s.clauses \in Seq(D))
  BY <1>1, <1>2 DEF StmtOver
<1>4. \A t \in Seq(C) : \A i \in DOMAIN t : t[i] \in C
  OBVIOUS
<1>5. \A t \in Seq(D) : \A i \in DOMAIN t : t[i] \in D
  OBVIOUS
<1> QED
  BY <1>3, <1>4, <1>5

(* The clauses of a switch or select: none of them runs, or one of them.   *)
LEMMA FlowClauses ==
  ASSUME NEW cs \in Seq(Stmts), Labels(cs) = {}, NEW st \in Store, NEW V,
         Answered(ListOf(cs, TRUE), st, V), NEW deps \in Short, NEW Z, Ended(V, deps, Z)
  PROVE  /\ Flow(Switch(cs, 0, deps), {Here(st)}, Z)
         /\ \A i \in DOMAIN cs : \E Y \in SUBSET Way :
              Answered(cs[i], st, Y) /\ Flow(Switch(cs, i, deps), Y, Z)
<1> DEFINE q == ListOf(cs, TRUE)
           x == Here(st)
           n == Len(cs)
<1>1. q \in Task /\ q.stmts = cs /\ q.kind = "clauses"
  BY ListTask
<1>2. V \in SUBSET Way
  BY AnsweredTyped
<1>3. AsList(Foretold, cs, TRUE, st, V)
  <2> HIDE DEF q
  <2>1. Justified(Foretold, q, st, V)
    BY <1>1, <1>2, AnsweredFixed DEF q
  <2> QED
    BY <1>1, <2>1 DEF Justified
<1>4. PICK W : Begun(cs, TRUE, st, W, V) /\ \A w \in W : Handled(Foretold, cs, TRUE, w, W, V)
  BY <1>3 DEF AsList
<1>5. ASSUME NEW i \in Nat
      PROVE  LET f == Switch(cs, i, deps)
             IN  f.do = "switch" /\ f.clauses = cs /\ f.at = i /\ f.deps = deps
                 /\ f = Switch(f.clauses, f.at, f.deps)
  BY DEF Switch
<1>6. Exit(Unused(st), NoBranch) \in V
  BY <1>4 DEF Begun
<1>7. x.st = Unused(st) /\ x.branch = NoBranch
  BY HereFacts
<1> HIDE DEF x
<1>8. Sorted(Place(cs, TRUE, 0), x, W, V)
  <2> DEFINE g == Place(cs, TRUE, 0)
  <2>1. g.isASwitch
    BY DEF Place
  <2> HIDE DEF g
  <2>2. GoesTo(g, NoBranch) = Outside /\ LeavesWith(g, NoBranch) = NoBranch
    BY <2>1 DEF GoesTo, LeavesWith, NoBranch, Branch
  <2> QED
    BY <1>6, <1>7, <2>2 DEF Sorted, g
<1>9. Flow(Switch(cs, 0, deps), {x}, Z)
  <2> DEFINE f == Switch(cs, 0, deps)
  <2>1. /\ f.do = "switch" /\ f.clauses = cs /\ f.at = 0 /\ f.deps = deps
        /\ f = Switch(f.clauses, f.at, f.deps)
    BY <1>5
  <2> HIDE DEF f
  <2>2. /\ \A w \in W : Handled(Foretold, f.clauses, TRUE, w, W, V)
        /\ \A y \in {x} : Sorted(Place(f.clauses, TRUE, f.at), y, W, V)
        /\ Ended(V, f.deps, Z)
    BY <1>4, <1>8, <2>1
  <2>3. f.clauses \in Seq(Stmts) /\ Labels(f.clauses) = {} /\ f.at \in Nat /\ f.deps \in Short
    BY <2>1
  <2>4. FlowSwitch(f, {x}, Z)
    BY <1>2, <2>1, <2>2, <2>3 DEF FlowSwitch
  <2> QED
    BY <2>1, <2>4 DEF Flow, f
<1>10. ASSUME NEW i \in DOMAIN cs
       PROVE  \E Y \in SUBSET Way : Answered(cs[i], st, Y) /\ Flow(Switch(cs, i, deps), Y, Z)
  <2> DEFINE f == Switch(cs, i, deps)
  <2>1. i \in Nat /\ cs # <<>>
    OBVIOUS
  <2>2. Work(Unused(st), i) \in W
    BY <1>4, <2>1 DEF Begun
  <2>3. Handled(Foretold, cs, TRUE, Work(Unused(st), i), W, V)
    BY <1>4, <2>2
  <2>4. PICK Y \in SUBSET Way : /\ <<cs[i], Unused(st), Y>> \in Foretold
                                /\ \A y \in Y : Sorted(Place(cs, TRUE, i), y, W, V)
    BY <2>3 DEF Handled, Work
  <2>5. /\ f.do = "switch" /\ f.clauses = cs /\ f.at = i /\ f.deps = deps
        /\ f = Switch(f.clauses, f.at, f.deps)
    BY <1>5, <2>1
  <2> HIDE DEF f
  <2>6. FlowSwitch(f, Y, Z)
    BY <1>2, <1>4, <2>1, <2>4, <2>5 DEF FlowSwitch
  <2>7. Flow(f, Y, Z)
    BY <2>5, <2>6 DEF Flow
  <2> QED
    BY <2>4, <2>7 DEF Answered, f
<1> QED
  BY <1>9, <1>10 DEF x

(* The clause of a switch has one alternative, which can be read.          *)
LEMMA CaseTaken ==
  ASSUME NEW c \in Stmts, c.kind = "case", NEW st \in Store, NEW Y, Answered(c, st, Y)
  PROVE  /\ Len(c.alts) = 1 /\ c.body \in Seq(Stmts) /\ Answered(ListOf(c.body, FALSE), st, Y)
         /\ AfterCondition(st, c.alts[1]) \in Store /\ Equal(st, AfterCondition(st, c.alts[1]))
<1>1. Justified(Foretold, c, st, Y)
  BY AnsweredFixed, AnsweredTyped
<1>2. AsCase(Foretold, c, st, Y)
  BY <1>1 DEF Justified
<1>3. /\ Len(c.alts) = 1 /\ AfterCondition(st, c.alts[1]) # Broken
      /\ Answered(ListOf(c.body, FALSE), st, Y)
  BY <1>2 DEF AsCase, Answered
<1>4. Alike(st, st)
  BY AlikeItself
<1>5. Alike(st, AfterCondition(st, c.alts[1]))
  BY <1>3, <1>4, AlikeCondition
<1>6. st # Broken
  BY BrokenIsNone
<1>7. c.body \in Seq(Stmts)
  BY StmtParts
<1> QED
  BY <1>3, <1>5, <1>6, <1>7, AlikeUnused

(* A clause of a select whose communication is possible.                   *)
LEMMA CommTaken ==
  ASSUME NEW c \in Stmts, c.kind = "comm", NEW st \in Store, NEW Y, Answered(c, st, Y)
  PROVE  /\ c.body \in Seq(Stmts) /\ AfterSimple(st, c.comm) \in Store
         /\ Answered(ListOf(c.body, FALSE), AfterSimple(st, c.comm), Y)
<1>1. Justified(Foretold, c, st, Y)
  BY AnsweredFixed, AnsweredTyped
<1>2. AsComm(Foretold, c, st, Y)
  BY <1>1 DEF Justified
<1>3. /\ AfterSimple(st, c.comm) # Broken
      /\ Answered(ListOf(c.body, FALSE), AfterSimple(st, c.comm), Y)
  BY <1>2 DEF AsComm, Answered
<1>4. c.comm \in SimpleStmt /\ c.body \in Seq(Stmts)
  BY StmtParts
<1>5. AfterSimple(st, c.comm) \in Any
  BY <1>4, AlikeItself, AlikeSimple
<1> QED
  BY <1>3, <1>4, <1>5 DEF Any

(* No label among clauses.                                                 *)
LEMMA NoLabels ==
  ASSUME NEW cs \in Seq(Stmts), \A i \in DOMAIN cs : cs[i].kind # "labeled"
  PROVE  Labels(cs) = {}
BY DEF Labels

(* Every clause of a switch has been visited, and the switch without one.  *)
LEMMA RunSwitchForeseen == ASSUME RunInv, RunSwitch, NoForNorDefault PROVE RunInv'
<1> DEFINE q == Current.stmt
           R == Found(lit.exits)
           u == Opened(now)
           st == AfterSimple(u, q.init)
           tagged == After(st, q.tag)
           deps == Deps(st, q.tag)
           cs == q.clauses
<1>1. Is("switch")
  BY DEF RunSwitch
<1>2. IF st = Broken \/ (q.tag # NoName /\ ~CanRead(st, q.tag)) THEN GoOn(Broken, <<>>)
      ELSE \/ GoOn(tagged, <<Switch(cs, 0, deps)>> \o Later)
           \/ \E i \in DOMAIN cs :
              \E j \in DOMAIN cs[i].alts \cup (IF cs[i].alts = <<>> THEN {0} ELSE {}) :
                GoOn(Guards(tagged, SubSeq(cs[i].alts, 1, j)),
                     <<From(cs[i].body, 1), Switch(cs, i, deps)>> \o Later)
  BY DEF RunSwitch
<1>3. q \in Stmts /\ q.kind = "switch" /\ fate = "running" /\ now \in Store
  BY <1>1, StmtNext
<1>4. PICK Z \in SUBSET Way : \E Y \in SUBSET Z :
        Justified(Foretold, q, now, Y) /\ Leads(Later, Z, R)
  BY <1>1, StmtNext
<1>5. PICK Y \in SUBSET Z : Justified(Foretold, q, now, Y)
  BY <1>4
<1>6. AsSwitch(Foretold, q, now, Y)
  BY <1>3, <1>5 DEF Justified
<1>7. /\ st # Broken /\ tagged # Broken /\ (q.tag = NoName \/ CanRead(st, q.tag))
      /\ \E V \in SUBSET Way : /\ <<ListOf(cs, TRUE), Unused(tagged), V>> \in Foretold
                               /\ Ended(V, deps, Y)
  BY <1>6 DEF AsSwitch
<1>8. q.init \in SimpleStmt /\ cs \in Seq(Stmts)
  BY <1>3, StmtParts
<1>9. \A i \in DOMAIN cs : cs[i].kind = "case" /\ cs[i] \in Stmts
  BY <1>3, <1>8, ClauseKinds
<1>10. Labels(cs) = {}
  <2> HIDE DEF cs
  <2> QED
    BY <1>8, <1>9, NoLabels
<1>11. st \in Store
  <2>1. Alike(u, u)
    BY <1>3, AlikeItself
  <2> HIDE DEF u
  <2>2. st \in Any
    BY <1>8, <2>1, AlikeSimple
  <2> QED
    BY <1>7, <2>2 DEF Any
<1> HIDE DEF st
<1>12. tagged \in Store /\ deps \in Short
  <2>1. Equal(st, st)
    BY <1>11, AlikeItself, AlikeStores
  <2>2. tagged \in Any /\ deps \in Short
    BY <1>7, <1>11, <2>1, AlikeAfter
  <2> QED
    BY <1>7, <2>2 DEF Any
<1> HIDE DEF tagged, deps, cs, R
<1>13. PICK V : Answered(ListOf(cs, TRUE), tagged, V) /\ Ended(V, deps, Y)
  BY <1>7 DEF Answered
<1>14. Ended(V, deps, Z)
  BY <1>5, <1>13, EndMore
<1>15. /\ Flow(Switch(cs, 0, deps), {Here(tagged)}, Z)
       /\ \A i \in DOMAIN cs : \E X \in SUBSET Way :
            Answered(cs[i], tagged, X) /\ Flow(Switch(cs, i, deps), X, Z)
  BY <1>8, <1>10, <1>12, <1>13, <1>14, FlowClauses
<1>16. CASE GoOn(tagged, <<Switch(cs, 0, deps)>> \o Later)
  <2> DEFINE f == Switch(cs, 0, deps)
             k == <<f>> \o Later
  <2>1. Flow(f, {Here(tagged)}, Z)
    BY <1>15
  <2> HIDE DEF f
  <2>2. Runs(tagged, k, R)
    BY <1>4, <1>12, <2>1, RunsOne
  <2>3. GoOn(tagged, k)
    BY <1>16 DEF f
  <2> HIDE DEF k
  <2> QED
    BY <1>3, <2>2, <2>3, RunGoesOn DEF R
<1>17. CASE \E i \in DOMAIN cs :
              \E j \in DOMAIN cs[i].alts \cup (IF cs[i].alts = <<>> THEN {0} ELSE {}) :
                GoOn(Guards(tagged, SubSeq(cs[i].alts, 1, j)),
                     <<From(cs[i].body, 1), Switch(cs, i, deps)>> \o Later)
  <2>1. PICK i \in DOMAIN cs :
               \E j \in DOMAIN cs[i].alts \cup (IF cs[i].alts = <<>> THEN {0} ELSE {}) :
                 GoOn(Guards(tagged, SubSeq(cs[i].alts, 1, j)),
                      <<From(cs[i].body, 1), Switch(cs, i, deps)>> \o Later)
    BY <1>17
  <2> DEFINE c == cs[i]
             f == From(c.body, 1)
             g == Switch(cs, i, deps)
             k == <<f, g>> \o Later
             t == AfterCondition(tagged, c.alts[1])
  <2>2. c \in Stmts /\ c.kind = "case"
    BY <1>9
  <2>3. PICK X \in SUBSET Way : Answered(c, tagged, X) /\ Flow(g, X, Z)
    BY <1>15
  <2>4. /\ Len(c.alts) = 1 /\ c.body \in Seq(Stmts) /\ Answered(ListOf(c.body, FALSE), tagged, X)
        /\ t \in Store /\ Equal(tagged, t)
    <3> HIDE DEF c, g
    <3> QED
      BY <1>12, <2>2, <2>3, CaseTaken
  <2>5. Answered(ListOf(c.body, FALSE), t, X)
    <3> HIDE DEF c, g, t
    <3> QED
      BY <1>12, <2>4, AnsweredAlike
  <2>6. Flow(f, {Here(t)}, X)
    <3> HIDE DEF t
    <3> QED
      BY <2>4, <2>5, FlowFrom
  <2>7. PICK j \in DOMAIN c.alts \cup (IF c.alts = <<>> THEN {0} ELSE {}) :
          GoOn(Guards(tagged, SubSeq(c.alts, 1, j)), k)
    BY <2>1
  <2> HIDE DEF k, g, f
  <2>8. c.alts \in Seq(STRING)
    <3> HIDE DEF c
    <3> QED
      BY <2>2, CaseParts
  <2>9. j = 1 /\ SubSeq(c.alts, 1, 1) = <<c.alts[1]>>
    <3> DEFINE a == c.alts
    <3>1. a \in Seq(STRING) /\ Len(a) = 1 /\ j \in DOMAIN a \cup (IF a = <<>> THEN {0} ELSE {})
      BY <2>4, <2>7, <2>8
    <3> HIDE DEF a
    <3>2. a # <<>> /\ DOMAIN a = 1..1
      BY <3>1
    <3>3. j = 1
      BY <3>1, <3>2
    <3>4. SubSeq(a, 1, 1) = <<a[1]>>
      <4> DEFINE s == SubSeq(a, 1, 1)
                 t1 == <<a[1]>>
      <4>1. s \in Seq(STRING) /\ Len(s) = 1 /\ s[1] = a[1]
        BY <3>1
      <4>2. Sequence(t1) /\ Len(t1) = 1 /\ t1[1] = a[1]
        BY ShortSequences
      <4> HIDE DEF s, t1
      <4>3. Sequence(s)
        BY <4>1, TypedSequence
      <4>4. s = [l \in 1..1 |-> s[l]] /\ t1 = [l \in 1..1 |-> t1[l]]
        BY <4>1, <4>2, <4>3 DEF Sequence
      <4>5. \A l \in 1..1 : s[l] = t1[l]
        BY <4>1, <4>2
      <4>6. s = t1
        BY <4>4, <4>5
      <4> QED
        BY <4>6 DEF s, t1
    <3> QED
      BY <3>3, <3>4 DEF a
  <2>10. Guards(tagged, SubSeq(c.alts, 1, j)) = t
    BY <2>9, GuardOfOne
  <2>11. GoOn(t, k)
    BY <2>7, <2>10
  <2>12. Runs(t, k, R)
    <3> HIDE DEF t
    <3> QED
      BY <1>4, <2>3, <2>4, <2>6, RunsTwo DEF k
  <2> HIDE DEF t
  <2> QED
    BY <1>3, <2>11, <2>12, RunGoesOn DEF R
<1> QED
  BY <1>2, <1>7, <1>16, <1>17

(* Every clause of a select has been visited.                              *)
LEMMA RunSelectForeseen == ASSUME RunInv, RunSelect PROVE RunInv'
<1> DEFINE q == Current.stmt
           R == Found(lit.exits)
           u == Opened(now)
           cs == q.clauses
<1>1. PICK i \in DOMAIN cs : GoOn(AfterSimple(u, cs[i].comm),
                                  <<From(cs[i].body, 1), Switch(cs, i, <<>>)>> \o Later)
  BY DEF RunSelect
<1>2. Is("select")
  BY DEF RunSelect
<1>3. q \in Stmts /\ q.kind = "select" /\ fate = "running" /\ now \in Store
  BY <1>2, StmtNext
<1>4. PICK Z \in SUBSET Way : \E Y \in SUBSET Z :
        Justified(Foretold, q, now, Y) /\ Leads(Later, Z, R)
  BY <1>2, StmtNext
<1>5. PICK Y \in SUBSET Z : Justified(Foretold, q, now, Y)
  BY <1>4
<1>6. AsBlock(Foretold, cs, TRUE, now, Y)
  BY <1>3, <1>5 DEF Justified
<1>7. cs \in Seq(Stmts)
  BY <1>3, StmtParts
<1>8. \A j \in DOMAIN cs : cs[j].kind = "comm" /\ cs[j] \in Stmts
  BY <1>3, <1>7, ClauseKinds
<1>9. u \in Store
  BY <1>3, AlikeItself
<1>10. PICK V : <<ListOf(cs, TRUE), Unused(u), V>> \in Foretold /\ Ended(V, <<>>, Y)
  BY <1>6 DEF AsBlock
<1> HIDE DEF cs, u, R
<1>11. Labels(cs) = {}
  BY <1>7, <1>8, NoLabels
<1>12. <<>> \in Short /\ Ended(V, <<>>, Z) /\ Answered(ListOf(cs, TRUE), u, V)
  BY <1>5, <1>10, EndMore DEF Short, Answered
<1>13. \A j \in DOMAIN cs : \E X \in SUBSET Way :
         Answered(cs[j], u, X) /\ Flow(Switch(cs, j, <<>>), X, Z)
  BY <1>7, <1>9, <1>11, <1>12, FlowClauses
<1> DEFINE c == cs[i]
           f == From(c.body, 1)
           g == Switch(cs, i, <<>>)
           k == <<f, g>> \o Later
           t == AfterSimple(u, c.comm)
<1>14. c \in Stmts /\ c.kind = "comm"
  BY <1>8
<1>15. PICK X \in SUBSET Way : Answered(c, u, X) /\ Flow(g, X, Z)
  BY <1>13
<1>16. c.body \in Seq(Stmts) /\ t \in Store /\ Answered(ListOf(c.body, FALSE), t, X)
  <2> HIDE DEF c, g
  <2> QED
    BY <1>9, <1>14, <1>15, CommTaken
<1>17. Flow(f, {Here(t)}, X)
  <2> HIDE DEF t, c
  <2> QED
    BY <1>16, FlowFrom
<1>18. GoOn(t, k)
  BY <1>1
<1> HIDE DEF t, f, g
<1>19. Runs(t, k, R)
  BY <1>4, <1>15, <1>16, <1>17, RunsTwo
<1> HIDE DEF k
<1> QED
  BY <1>3, <1>18, <1>19, RunGoesOn DEF R

(* There is no for statement, nor the test of one.                         *)
LEMMA NoForRuns == ASSUME RunInv, NoForNorDefault PROVE ~RunFor /\ ~TestFor /\ ~AgainFor
<1>1. ~Is("for")
  BY StmtNext DEF NoForNorDefault
<1>2. ~Is("test")
  <2> SUFFICES ASSUME Is("test") PROVE FALSE
    OBVIOUS
  <2>1. Current.stmt \in Stmts /\ Current.stmt.kind = "test"
    BY StmtNext
  <2>2. Current.stmt.kind \in {"simple", "branch", "labeled", "block", "if", "switch", "case",
                               "select", "comm", "for", "range"}
    BY <2>1, StmtKinds
  <2> QED
    BY <2>1, <2>2
<1>3. ~At("for")
  <2> SUFFICES ASSUME At("for") PROVE FALSE
    OBVIOUS
  <2>1. fate = "running" /\ todo # <<>> /\ Current.do = "for"
    BY DEF At
  <2>2. PICK X, Z : Flow(Current, X, Z)
    BY <2>1, RunsNext
  <2> QED
    BY <2>1, <2>2 DEF Flow
<1> QED
  BY <1>1, <1>2, <1>3 DEF RunFor, TestFor, AgainFor

(* What is in X is in Z.                                                   *)
LEMMA IteratedMore ==
  ASSUME NEW s, NEW deps, NEW w, NEW W, NEW X, NEW Z, X \subseteq Z,
         Iterated(Foretold, s, deps, w, W, X)
  PROVE  Iterated(Foretold, s, deps, w, W, Z)
<1>1. \A y : Looped(s, deps, y, W, X) => Looped(s, deps, y, W, Z)
  BY DEF Looped
<1> QED
  BY <1>1 DEF Iterated

(* A range statement: what it borrows can be given back at once if there   *)
(* is nothing to iterate over.                                             *)
LEMMA RunRangeForeseen == ASSUME RunInv, RunRange PROVE RunInv'
<1> DEFINE q == Current.stmt
           R == Found(lit.exits)
           st == After(now, q.x)
           deps == Deps(now, q.x)
           f == InRange(q, deps, FALSE, TRUE)
           k == <<f>> \o Later
<1>1. Is("range") /\ GoOn(IF CanRead(now, q.x) THEN st ELSE Broken, k)
  BY DEF RunRange
<1>2. q \in Stmts /\ q.kind = "range" /\ fate = "running" /\ now \in Store
  BY <1>1, StmtNext
<1>3. PICK Z \in SUBSET Way : \E Y \in SUBSET Z :
        Justified(Foretold, q, now, Y) /\ Leads(Later, Z, R)
  BY <1>1, StmtNext
<1>4. PICK Y \in SUBSET Z : Justified(Foretold, q, now, Y)
  BY <1>3
<1>5. AsRange(Foretold, q, now, Y)
  BY <1>2, <1>4 DEF Justified
<1>6. CanRead(now, q.x) /\ st # Broken /\ Exit(Unused(now), NoBranch) \in Z
  BY <1>4, <1>5 DEF AsRange
<1>7. PICK W : /\ Work(Unused(st), Outside) \in W
               /\ \A w \in W : Iterated(Foretold, q, deps, w, W, Y)
  BY <1>5 DEF AsRange
<1>8. GoOn(st, k)
  BY <1>1, <1>6
<1> DEFINE back == Release(st, deps)
           again == Release(Unused(st), deps)
<1>9. /\ st \in Any /\ deps \in Short /\ deps = <<Borrowed(now, q.x)>>
      /\ AfterCondition(now, q.x) = back
      /\ (st # Broken => AfterCondition(now, q.x) \in Store /\ Equal(now, AfterCondition(now, q.x)))
  BY <1>2, <1>6, ReadBack
<1>20. deps # <<>>
  BY <1>9
<1>10. st \in Store /\ back \in Store /\ Equal(now, back)
  BY <1>6, <1>9 DEF Any
<1>11. Alike(again, back)
  <2>1. Alike(Unused(st), st)
    BY <1>10, UnusedAlike
  <2> HIDE DEF st, deps
  <2> QED
    BY <1>9, <2>1, AlikeRelease
<1> HIDE DEF st, deps, R
<1>12. again # Broken /\ Unused(again) = Unused(now)
  <2>1. back # Broken /\ Unused(back) = Unused(now)
    BY <1>2, <1>10, UnusedSame, BrokenIsNone
  <2> HIDE DEF back, again
  <2> QED
    BY <1>11, <2>1, AlikeUnused
<1>13. f.do = "range" /\ f.stmt = q /\ f.deps = deps /\ ~f.inside /\ f.back
  BY DEF InRange
<1>14. Here(st).st = Unused(st) /\ Here(st).branch = NoBranch
  BY <1>10, HereFacts
<1> HIDE DEF f
<1>15. Ahead(f, {Here(st)}, W, Z)
  BY <1>6, <1>7, <1>12, <1>13, <1>14 DEF Ahead
<1>16. \A w \in W : Iterated(Foretold, q, deps, w, W, Z)
  <2> SUFFICES ASSUME NEW w \in W PROVE Iterated(Foretold, q, deps, w, W, Z)
    OBVIOUS
  <2>1. Iterated(Foretold, q, deps, w, W, Y)
    BY <1>7
  <2> QED
    BY <1>4, <2>1, IteratedMore
<1>17. FlowRange(f, {Here(st)}, Z)
  BY <1>2, <1>9, <1>13, <1>15, <1>16, <1>20 DEF FlowRange
<1>18. Flow(f, {Here(st)}, Z)
  BY <1>13, <1>17 DEF Flow
<1>19. Runs(st, k, R)
  BY <1>3, <1>10, <1>18, RunsOne
<1> HIDE DEF k
<1> QED
  BY <1>2, <1>8, <1>19, RunGoesOn DEF R

(* The store in which an iteration begins, or the loop ends.               *)
Between(f) == IF f.inside THEN Closed(now) ELSE now

(* The loop may end, or begin another iteration.                           *)
LEMMA RangeNext ==
  ASSUME NEW f, NEW X, NEW Z, FlowRange(f, X, Z), now \in Store, Here(now) \in X
  PROVE  /\ f.stmt \in Stmts /\ f.stmt.kind = "range" /\ f.deps \in Short /\ f.deps # <<>>
         /\ LeaveRange(f, now) \in Store /\ Here(LeaveRange(f, now)) \in Z
         /\ Between(f) \in Store
         /\ (f.inside /\ (f.back <=> Lends(f.stmt, f.deps))) \/ (~f.inside /\ f.back)
         /\ \E W : /\ \A w \in W : Iterated(Foretold, f.stmt, f.deps, w, W, Z)
                   /\ Work(Unused(Between(f)), Outside) \in W
<1> DEFINE x == Here(now)
<1>1. f.stmt \in Stmts /\ f.stmt.kind = "range" /\ f.deps \in Short /\ f.deps # <<>>
  BY DEF FlowRange
<1>2. PICK W : /\ \A w \in W : Iterated(Foretold, f.stmt, f.deps, w, W, Z)
               /\ Ahead(f, X, W, Z) \/ Amid(f, X, W, Z)
  BY DEF FlowRange
<1>3. x.st = Unused(now) /\ x.branch = NoBranch /\ x = Exit(Unused(now), NoBranch) /\ x \in X
  BY HereFacts DEF Here
<1> HIDE DEF x
<1>4. CASE Ahead(f, X, W, Z)
  <2> DEFINE u == Release(now, f.deps)
             a == Release(Unused(now), f.deps)
  <2>1. ~f.inside /\ f.back
    BY <1>4 DEF Ahead
  <2>2. Between(f) = now /\ LeaveRange(f, now) = u
    BY <2>1 DEF Between, LeaveRange
  <2>3. Work(Unused(now), Outside) \in W /\ a # Broken /\ Exit(Unused(a), NoBranch) \in Z
    BY <1>3, <1>4 DEF Ahead
  <2>4. Alike(Unused(now), now)
    BY UnusedAlike
  <2>5. Alike(a, u)
    BY <1>1, <2>4, AlikeRelease
  <2> HIDE DEF a, u
  <2>6. u \in Store /\ Unused(a) = Unused(u)
    BY <2>3, <2>5, AlikeUnused
  <2>7. Here(u) \in Z
    BY <2>3, <2>6 DEF Here
  <2> QED
    BY <1>1, <1>2, <2>1, <2>2, <2>3, <2>6, <2>7
<1>5. CASE Amid(f, X, W, Z)
  <2> DEFINE u == Closed(now)
             v == Parting(f.stmt, f.deps, u)
  <2>1. f.inside /\ (f.back <=> Lends(f.stmt, f.deps)) /\ Looped(f.stmt, f.deps, x, W, Z)
    BY <1>3, <1>5 DEF Amid
  <2>2. Between(f) = u /\ LeaveRange(f, now) = v
    BY <2>1 DEF Between, LeaveRange, Parting
  <2>3. Looped(f.stmt, f.deps, Exit(Unused(now), NoBranch), W, Z)
    BY <1>3, <2>1
  <2>4. /\ u \in Store /\ v \in Store
        /\ Continues(x) => Work(Unused(u), Outside) \in W
        /\ Exit(Unused(v), IF Continues(x) \/ Breaks(x) THEN NoBranch ELSE NoBranch) \in Z
    <3> HIDE DEF u, v
    <3> QED
      BY <1>1, <1>3, <2>3, LoopedHere DEF u, v
  <2>5. Continues(x)
    BY <1>3 DEF Continues
  <2> HIDE DEF u, v
  <2>6. Here(v) \in Z
    BY <2>4 DEF Here
  <2> QED
    BY <1>1, <1>2, <2>1, <2>2, <2>4, <2>5, <2>6
<1> QED
  BY <1>2, <1>4, <1>5

(* An iteration begins as the one the visit has made.                      *)
LEMMA EnteringHere ==
  ASSUME NEW s \in Stmts, s.kind = "range", NEW deps \in Short, deps # <<>>, NEW st \in Store,
         NEW W, NEW Z,
         Iterated(Foretold, s, deps, Work(Unused(st), Outside), W, Z)
  PROVE  /\ Entering(s, deps, st) \in Store
         /\ \E Y \in SUBSET Way : /\ <<s.body, Unused(Entering(s, deps, st)), Y>> \in Foretold
                                  /\ \A y \in Y : Looped(s, deps, y, W, Z)
<1> DEFINE a == Unused(st)
           w == Work(a, Outside)
<1>1. w.st = a
  BY DEF Work
<1>2. s.key \in Binding /\ s.value \in Binding
  BY StmtParts
<1>3. Alike(a, st)
  BY UnusedAlike
<1> DEFINE p == KeyOf(Container(deps))
           q == ElementOf(Container(deps))
<1>4. p \in Permission \cup {NoPerm} /\ q \in Permission \cup {NoPerm}
  BY ContainerShort
<1> HIDE DEF p, q
<1>5. Alike(Opened(a), Opened(st))
  BY <1>3, AlikeOpened
<1>6. Alike(Bound(Opened(a), s.key, p), Bound(Opened(st), s.key, p))
  BY <1>2, <1>4, <1>5, AlikeBound
<1>7. Alike(Entering(s, deps, a), Entering(s, deps, st))
  BY <1>2, <1>4, <1>6, AlikeBound DEF Entering, p, q
<1> HIDE DEF w
<1>8. /\ Entering(s, deps, a) # Broken
      /\ \E Y \in SUBSET Way : /\ <<s.body, Unused(Entering(s, deps, a)), Y>> \in Foretold
                               /\ \A y \in Y : Looped(s, deps, y, W, Z)
  <2>1. Iterated(Foretold, s, deps, w, W, Z)
    BY DEF w
  <2> HIDE DEF a
  <2> QED
    BY <1>1, <2>1 DEF Iterated
<1> HIDE DEF a
<1>9. /\ Entering(s, deps, st) \in Store
      /\ Unused(Entering(s, deps, a)) = Unused(Entering(s, deps, st))
  BY <1>7, <1>8, AlikeUnused
<1> QED
  BY <1>8, <1>9

(* The next iteration has been visited; whether key and value let what was *)
(* borrowed be given back is the same in every iteration.                  *)
LEMMA AgainRangeForeseen == ASSUME RunInv, AgainRange PROVE RunInv'
<1> DEFINE f == Current
           R == Found(lit.exits)
           s == f.stmt
           st == Between(f)
           keyed == Bound(Opened(st), s.key, KeyOf(Container(f.deps)))
           bound == Bound(keyed, s.value, ElementOf(Container(f.deps)))
           may == bound # Broken => /\ Releasable(keyed, s.key)
                                    /\ Releasable(bound, s.value)
           g == InRange(s, f.deps, TRUE, f.back /\ may)
           k == <<Do(s.body), g>> \o Later
<1>1. At("range") /\ fate = "running" /\ todo # <<>> /\ f.do = "range"
  BY DEF AgainRange, At
<1>2. GoOn(LeaveRange(f, now), Later) \/ GoOn(bound, k)
  BY DEF AgainRange, Between
<1>3. PICK X \in SUBSET Way, Z \in SUBSET Way :
        Here(now) \in X /\ Flow(f, X, Z) /\ Leads(Later, Z, R)
  BY <1>1, RunsNext
<1>4. now \in Store
  BY <1>1, RunsNext
<1>5. FlowRange(f, X, Z)
  BY <1>1, <1>3 DEF Flow
<1>6. /\ s \in Stmts /\ s.kind = "range" /\ f.deps \in Short /\ f.deps # <<>>
      /\ LeaveRange(f, now) \in Store /\ Here(LeaveRange(f, now)) \in Z
      /\ st \in Store
      /\ (f.inside /\ (f.back <=> Lends(s, f.deps))) \/ (~f.inside /\ f.back)
      /\ \E W : /\ \A w \in W : Iterated(Foretold, s, f.deps, w, W, Z)
                /\ Work(Unused(st), Outside) \in W
  <2> HIDE DEF f
  <2> QED
    BY <1>3, <1>4, <1>5, RangeNext
<1>7. CASE GoOn(LeaveRange(f, now), Later)
  <2>1. Runs(LeaveRange(f, now), Later, R)
    BY <1>3, <1>6, RunsHere
  <2> QED
    BY <1>1, <1>7, <2>1, RunGoesOn
<1>8. CASE GoOn(bound, k)
  <2>1. PICK W : /\ \A w \in W : Iterated(Foretold, s, f.deps, w, W, Z)
                 /\ Work(Unused(st), Outside) \in W
    BY <1>6
  <2>2. Iterated(Foretold, s, f.deps, Work(Unused(st), Outside), W, Z)
    BY <2>1
  <2>3. bound = Entering(s, f.deps, st)
    BY DEF Entering
  <2>4. PICK Y \in SUBSET Way : /\ bound \in Store /\ <<s.body, Unused(bound), Y>> \in Foretold
                                /\ \A y \in Y : Looped(s, f.deps, y, W, Z)
    <3> HIDE DEF bound, s, st
    <3> QED
      BY <1>6, <2>2, <2>3, EnteringHere
  <2>5. /\ s.body \in Stmts /\ s.key \in Binding /\ s.value \in Binding
        /\ AtOnce(s.key, s.value)
        /\ KeyOf(Container(f.deps)) \in Permission \cup {NoPerm}
        /\ ElementOf(Container(f.deps)) \in Permission \cup {NoPerm}
    BY <1>6, StmtParts, BoundAtOnce, ContainerShort
  <2>6. Flow(Do(s.body), {Here(bound)}, Y)
    <3> HIDE DEF bound
    <3> QED
      BY <2>4, <2>5, FlowDo
  <2>7. Lends(s, f.deps) <=> Releasable(keyed, s.key) /\ Releasable(bound, s.value)
    <3>1. Entering(s, f.deps, st) # Broken
      BY <2>3, <2>4, BrokenIsNone
    <3> DEFINE deps == f.deps
    <3> HIDE DEF s, st, deps
    <3> QED
      BY <1>6, <2>3, <2>5, <3>1, LendsAlways DEF deps
  <2>8. may <=> Lends(s, f.deps)
    <3>1. bound # Broken
      BY <2>4, BrokenIsNone
    <3> HIDE DEF bound, keyed
    <3> QED
      BY <2>7, <3>1
  <2> HIDE DEF may
  <2>9. f.back /\ may <=> Lends(s, f.deps)
    BY <1>6, <2>8
  <2>10. /\ g.do = "range" /\ g.stmt = s /\ g.deps = f.deps /\ g.inside
         /\ g.back <=> Lends(s, f.deps)
    <3> HIDE DEF f
    <3> QED
      BY <2>9 DEF InRange
  <2> HIDE DEF g, bound, keyed
  <2>11. Amid(g, Y, W, Z)
    BY <2>4, <2>10 DEF Amid
  <2>12. FlowRange(g, Y, Z)
    <3> HIDE DEF s
    <3> QED
      BY <1>6, <2>1, <2>10, <2>11 DEF FlowRange
  <2>13. Flow(g, Y, Z)
    BY <2>10, <2>12 DEF Flow
  <2>14. Runs(bound, k, R)
    BY <1>3, <2>4, <2>6, <2>13, RunsTwo
  <2> HIDE DEF k
  <2> QED
    BY <1>1, <1>8, <2>14, RunGoesOn
<1> QED
  BY <1>2, <1>7, <1>8

(* The frames from one on.                                                 *)
LEMMA RestLeads ==
  ASSUME NEW Xs, NEW R, LeadsVia(todo, Xs, R), NEW i \in 1..(Len(todo) + 1)
  PROVE  /\ Leads(Rest(i), Xs[i], R)
         /\ i \in 1..Len(todo) => Rest(i) # <<>> /\ Head(Rest(i)) = todo[i]
<1> DEFINE n == Len(todo)
           t == Rest(i)
           S == {todo[j] : j \in 1..Len(todo)}
<1>1. todo \in Seq(S) /\ n \in Nat
  BY SequenceTyped DEF LeadsVia, Sequence
<1> HIDE DEF S
<1>2. /\ t \in Seq(S) /\ Len(t) = n - i + 1
      /\ \A j \in 1..(n - i + 1) : t[j] = todo[j + i - 1]
  BY <1>1 DEF Rest
<1> HIDE DEF t, n
<1>3. Sequence(t)
  BY <1>2, TypedSequence
<1>4. Leads(t, Xs[i], R)
  BY <1>2, <1>3, LeadsFrom DEF n
<1>5. ASSUME i \in 1..n
      PROVE  t # <<>> /\ Head(t) = todo[i]
  <2>1. 1 \in 1..(n - i + 1) /\ 1 + i - 1 = i /\ Len(t) >= 1
    BY <1>1, <1>2, <1>5
  <2>2. t # <<>>
    BY <2>1, ShortSequences
  <2>3. Head(t) = t[1]
    BY <1>3, <2>2, TailSequence
  <2>4. t[1] = todo[1 + i - 1]
    BY <1>2, <2>1
  <2> QED
    BY <2>1, <2>2, <2>3, <2>4
<1> QED
  BY <1>4, <1>5 DEF t, n

(* A branch statement is next, and its exit is a way to what is behind.    *)
Taken(Xs) ==
  LET b == Branch(Current.stmt.tok, Current.stmt.label)
  IN  /\ LeadsVia(todo, Xs, Found(lit.exits)) /\ todo # <<>> /\ now \in Store
      /\ todo[1].do = "stmt" /\ Exit(Unused(now), b) \in Xs[2]
      /\ Sequence(todo) /\ Len(todo) \in Nat /\ fate = "running"
      /\ b.tok = Current.stmt.tok /\ b.label = Current.stmt.label

(* When a branch statement is next, it is Taken.                           *)
LEMMA BranchNext ==
  ASSUME RunInv, NEW tok, Branches(tok)
  PROVE  (\E Xs : Taken(Xs)) /\ Current.stmt.tok = tok
<1> DEFINE b == Branch(Current.stmt.tok, Current.stmt.label)
<1>1. /\ fate = "running" /\ todo # <<>> /\ Current.do = "stmt" /\ Current.stmt.kind = "branch"
      /\ Current.stmt.tok = tok
  BY DEF Branches, Is
<1>2. PICK X : now \in Store /\ Here(now) \in X /\ Leads(todo, X, Found(lit.exits))
  BY <1>1 DEF RunInv, Runs, Here
<1>3. PICK Xs : LeadsVia(todo, Xs, Found(lit.exits)) /\ Xs[1] = X
  BY <1>2 DEF Leads
<1>4. Flow(Current, Xs[1], Xs[2])
  BY <1>1, <1>3, LeadsTail DEF Current
<1>5. Exit(Unused(now), b) \in Xs[2]
  BY <1>1, <1>2, <1>3, <1>4, BranchTaken DEF Here
<1>6. Sequence(todo)
  BY <1>3 DEF LeadsVia
<1>7. Len(todo) \in Nat /\ Current = todo[1]
  BY <1>1, <1>6, TailSequence DEF Sequence, Current
<1>8. b.tok = Current.stmt.tok /\ b.label = Current.stmt.label
  BY DEF Branch
<1> QED
  BY <1>1, <1>2, <1>3, <1>5, <1>6, <1>7, <1>8 DEF Taken

(* The innermost frame that catches the branch: the path gets there.       *)
LEMMA JumpsTo ==
  ASSUME NEW Xs, Taken(Xs), Current.stmt.tok \notin {"none", "return"},
         BranchesResolved, Sequence(lit.exits),
         NEW is \in SUBSET (1..Len(todo)), \A i \in is : todo[i].do # "stmt",
         \A j \in 1..Len(todo) : \/ j \in is
                                 \/ PassesBy(todo[j], Branch(Current.stmt.tok, Current.stmt.label))
  PROVE  LET to == Innermost(is)
             b  == Branch(Current.stmt.tok, Current.stmt.label)
             st == AbandonedUpTo(to - 1)
         IN  /\ to \in is /\ to \in Nat /\ st \in Store /\ Exit(Unused(st), b) \in Xs[to]
             /\ Flow(todo[to], Xs[to], Xs[to + 1])
             /\ Leads(Rest(to), Xs[to], Found(lit.exits))
             /\ Leads(Rest(to + 1), Xs[to + 1], Found(lit.exits))
             /\ Rest(to) # <<>> /\ Head(Rest(to)) = todo[to]
             /\ AbandonedUpTo(to) = Abandoned(st, todo[to])
<1> DEFINE to == Innermost(is)
           b == Branch(Current.stmt.tok, Current.stmt.label)
           n == Len(todo)
           R == Found(lit.exits)
<1>1. /\ LeadsVia(todo, Xs, R) /\ todo # <<>> /\ now \in Store
      /\ todo[1].do = "stmt" /\ Exit(Unused(now), b) \in Xs[2] /\ n \in Nat
      /\ b.tok \notin {"none", "return"}
  BY DEF Taken
<1> HIDE DEF b, R
<1>2. \A j \in 2..n : j \in is \/ PassesBy(todo[j], b)
  BY DEF b
<1>3. ~ \A j \in 2..n : PassesBy(todo[j], b)
  BY <1>1, NotOut DEF R
<1>4. is # {} /\ is \in SUBSET Nat
  BY <1>2, <1>3
<1>5. to \in is /\ \A j \in is : to <= j
  BY <1>4, InnermostFacts
<1> HIDE DEF to, n
<1>6. to \in 1..n
  BY <1>5 DEF n
<1>7. to # 1
  BY <1>1, <1>5
<1>8. to - 1 \in 1..n /\ (to - 1) + 1 = to /\ to \in 1..(n + 1) /\ to + 1 \in 1..(n + 1)
      /\ \A j \in 2..(to - 1) : j \in 2..n /\ ~(to <= j)
  BY <1>1, <1>6, <1>7
<1>9. \A j \in 2..(to - 1) : PassesBy(todo[j], b)
  BY <1>2, <1>5, <1>8
<1> DEFINE m == to - 1
<1>10. m \in 1..n /\ (\A j \in 2..m : PassesBy(todo[j], b)) /\ m + 1 = to
  BY <1>8, <1>9
<1> HIDE DEF m
<1>11. AbandonedUpTo(m) \in Store /\ Exit(Unused(AbandonedUpTo(m)), b) \in Xs[m + 1]
  BY <1>1, <1>10, WayOut DEF n
<1>12. Flow(todo[to], Xs[to], Xs[to + 1])
  BY <1>1, <1>6 DEF LeadsVia, n
<1>13. AbandonedUpTo(to) = Abandoned(AbandonedUpTo(to - 1), todo[to])
  BY <1>1, <1>6, AbandonedSteps DEF n
<1>14. Leads(Rest(to), Xs[to], R) /\ Rest(to) # <<>> /\ Head(Rest(to)) = todo[to]
  BY <1>1, <1>6, <1>8, RestLeads DEF n
<1>15. Leads(Rest(to + 1), Xs[to + 1], R)
  BY <1>1, <1>8, RestLeads DEF n
<1>16. AbandonedUpTo(to - 1) \in Store /\ Exit(Unused(AbandonedUpTo(to - 1)), b) \in Xs[to]
  BY <1>10, <1>11 DEF m
<1> QED
  BY <1>4, <1>5, <1>12, <1>13, <1>14, <1>15, <1>16 DEF to, b, R

(* A return abandons all the frames there are.                             *)
LEMMA ReturnForeseen == ASSUME RunInv, RunReturn PROVE RunInv'
<1> DEFINE b == Branch(Current.stmt.tok, Current.stmt.label)
           n == Len(todo)
           st == AbandonedUpTo(n)
           R == Found(lit.exits)
<1>1. /\ Branches("return")
      /\ IF st = Broken THEN GoOn(Broken, <<>>)
         ELSE todo' = <<>> /\ now' = Bare(st) /\ fate' = "returned" /\ UNCHANGED vars
  BY DEF RunReturn
<1>2. PICK Xs : Taken(Xs)
  BY <1>1, BranchNext
<1>3. Current.stmt.tok = "return"
  BY <1>1, BranchNext
<1>4. /\ LeadsVia(todo, Xs, R) /\ todo # <<>> /\ now \in Store /\ fate = "running"
      /\ todo[1].do = "stmt" /\ Exit(Unused(now), b) \in Xs[2] /\ n \in Nat /\ Sequence(todo)
      /\ b.tok = "return"
  BY <1>2, <1>3 DEF Taken
<1> HIDE DEF b, st
<1>5. n \in 1..n
  <2>1. n >= 1
    BY <1>4, TailSequence
  <2> QED
    BY <1>4, <2>1
<1>6. \A j \in 2..n : PassesBy(todo[j], b)
  BY <1>4 DEF PassesBy
<1>7. AbandonedUpTo(n) \in Store /\ Exit(Unused(AbandonedUpTo(n)), b) \in Xs[n + 1]
  BY <1>4, <1>5, <1>6, WayOut
<1>8. Xs[n + 1] = R
  BY <1>4 DEF LeadsVia
<1>9. st \in Store /\ st # Broken /\ Exit(Unused(st), b) \in R
  BY <1>7, <1>8, BrokenIsNone DEF st
<1>10. now' = Bare(st) /\ fate' = "returned" /\ stack' = stack /\ lit' = lit
  BY <1>1, <1>9 DEF vars
<1>11. Bare(st) \in Store /\ Unused(Bare(st)) = Unused(st)
  BY <1>9, UnusedFacts, UnusedSame
<1>12. now' \in Store /\ Exit(Unused(now'), b) \in Found(lit'.exits)
  BY <1>9, <1>10, <1>11
<1> QED
  BY <1>4, <1>10, <1>12 DEF RunInv

(* A break ends the loop or switch that catches it.                        *)
LEMMA BreakTaken ==
  ASSUME NEW f, NEW X, NEW Z, Flow(f, X, Z), f.do \in {"switch", "range"},
         NEW b, b.tok = "break", b.label = NoLabel, NEW st \in Store, Exit(Unused(st), b) \in X
  PROVE  Abandoned(st, f) \in Store /\ Here(Abandoned(st, f)) \in Z
<1> DEFINE x == Exit(Unused(st), b)
<1>1. x \in X /\ x.st = Unused(st) /\ x.branch = b /\ x = Exit(Unused(st), b)
  BY DEF Exit
<1>2. b # NoBranch
  BY DEF NoBranch, Branch
<1> HIDE DEF x
<1>3. CASE f.do = "switch"
  <2>1. FlowSwitch(f, X, Z)
    BY <1>3 DEF Flow
  <2>2. Abandoned(st, f) = Closed(Release(st, f.deps)) /\ f.deps \in Short
    BY <1>3, <2>1 DEF Abandoned, FlowSwitch
  <2>3. PICK W, Y : Sorted(Place(f.clauses, TRUE, f.at), x, W, Y) /\ Ended(Y, f.deps, Z)
    BY <1>1, <2>1 DEF FlowSwitch
  <2> DEFINE g == Place(f.clauses, TRUE, f.at)
  <2>4. g.isASwitch
    BY DEF Place
  <2> HIDE DEF g
  <2>5. GoesTo(g, b) = Outside /\ LeavesWith(g, b) = NoBranch
    BY <1>2, <2>4 DEF GoesTo, LeavesWith, BranchingThis
  <2>6. Exit(Unused(st), NoBranch) \in Y
    BY <1>1, <2>3, <2>5 DEF Sorted, g
  <2> QED
    BY <2>2, <2>3, <2>6, EndedHere DEF Here
<1>4. CASE f.do = "range"
  <2>1. FlowRange(f, X, Z)
    BY <1>4 DEF Flow
  <2>2. f.deps \in Short
    BY <2>1 DEF FlowRange
  <2>3. PICK W : Ahead(f, X, W, Z) \/ Amid(f, X, W, Z)
    BY <2>1 DEF FlowRange
  <2>4. f.inside /\ (f.back <=> Lends(f.stmt, f.deps)) /\ Looped(f.stmt, f.deps, x, W, Z)
    BY <1>1, <1>2, <2>3 DEF Amid, Ahead
  <2> DEFINE u == Closed(st)
             v == Parting(f.stmt, f.deps, u)
  <2>5. Looped(f.stmt, f.deps, Exit(Unused(st), b), W, Z)
    BY <1>1, <2>4
  <2>6. v \in Store /\ Exit(Unused(v), IF Continues(x) \/ Breaks(x) THEN NoBranch ELSE b) \in Z
    <3> HIDE DEF u, v
    <3> QED
      BY <1>1, <2>2, <2>5, LoopedHere DEF u, v
  <2>7. Breaks(x)
    BY <1>1 DEF Breaks, BranchingThis
  <2>8. Abandoned(st, f) = LeaveRange(f, st)
    BY <1>4 DEF Abandoned
  <2>9. LeaveRange(f, st) = v
    BY <2>4 DEF LeaveRange, Parting
  <2> HIDE DEF v
  <2> QED
    BY <2>6, <2>7, <2>8, <2>9 DEF Here
<1> QED
  BY <1>3, <1>4

(* A break leaves the innermost loop or switch.                            *)
LEMMA BreakForeseen ==
  ASSUME RunInv, RunBreak, BranchesResolved, Sequence(lit.exits) PROVE RunInv'
<1> DEFINE b == Branch(Current.stmt.tok, Current.stmt.label)
           n == Len(todo)
           R == Found(lit.exits)
           is == Loops \cup Switches
           to == Innermost(IF BranchingThis(Current.stmt) THEN is ELSE Labelled(Current.stmt.label))
<1>1. Branches("break") /\ GoOn(AbandonedUpTo(to), Rest(to + 1))
  BY DEF RunBreak
<1>2. PICK Xs : Taken(Xs)
  BY <1>1, BranchNext
<1>3. Current.stmt.tok = "break"
  BY <1>1, BranchNext
<1>4. /\ LeadsVia(todo, Xs, R) /\ todo # <<>> /\ now \in Store /\ fate = "running"
      /\ todo[1].do = "stmt" /\ Exit(Unused(now), b) \in Xs[2] /\ n \in Nat /\ Sequence(todo)
      /\ b.tok = "break" /\ b.label = Current.stmt.label
  BY <1>2, <1>3 DEF Taken
<1>5. \A i \in 1..n : Flow(todo[i], Xs[i], Xs[i + 1])
  BY <1>4 DEF LeadsVia
<1>6. DOMAIN todo = 1..n
  BY <1>4, SequenceTyped
<1>7. b.label = NoLabel
  <2> HIDE DEF b
  <2> SUFFICES ASSUME b.label # NoLabel PROVE FALSE
    OBVIOUS
  <2>1. \A j \in 2..n : PassesBy(todo[j], b)
    BY <1>4 DEF PassesBy
  <2> QED
    BY <1>4, <2>1, NotOut
<1>8. to = Innermost(is)
  BY <1>4, <1>7 DEF BranchingThis
<1>9. \A i \in 1..n : i \in is <=> todo[i].do \in {"range", "switch"}
  BY <1>5, <1>6 DEF Loops, Switches, IsLoop, Flow
<1>10. is \in SUBSET (1..n)
  BY <1>6 DEF Loops, Switches
<1> HIDE DEF is, to
<1>11. \A j \in 1..n : j \in is \/ PassesBy(todo[j], b)
  <2> HIDE DEF b
  <2> QED
    BY <1>4, <1>9 DEF PassesBy
<1>12. \A i \in is : todo[i].do # "stmt"
  BY <1>9, <1>10
<1> DEFINE st == AbandonedUpTo(to - 1)
<1>13. /\ to \in is /\ st \in Store /\ Exit(Unused(st), b) \in Xs[to]
       /\ Flow(todo[to], Xs[to], Xs[to + 1])
       /\ Leads(Rest(to + 1), Xs[to + 1], R)
       /\ AbandonedUpTo(to) = Abandoned(st, todo[to])
  BY <1>2, <1>3, <1>8, <1>10, <1>11, <1>12, JumpsTo
<1> HIDE DEF st, b, R
<1>14. AbandonedUpTo(to) \in Store /\ Here(AbandonedUpTo(to)) \in Xs[to + 1]
  <2>1. todo[to].do \in {"switch", "range"}
    BY <1>9, <1>10, <1>13
  <2> QED
    BY <1>4, <1>7, <1>13, <2>1, BreakTaken
<1>15. Runs(AbandonedUpTo(to), Rest(to + 1), R)
  BY <1>13, <1>14, RunsHere
<1> QED
  BY <1>1, <1>4, <1>15, RunGoesOn DEF R

(* A sequence is its head and its tail.                                    *)
LEMMA HeadAndTail ==
  ASSUME NEW k, Sequence(k), k # <<>>
  PROVE  k = <<Head(k)>> \o Tail(k)
<1> DEFINE h == Head(k)
           t == <<h>> \o Tail(k)
           n == Len(k)
<1>1. Sequence(t) /\ Len(t) = n /\ t[1] = h /\ \A i \in 1..n : i # 1 => t[i] = k[i]
  BY FirstReplaced
<1>2. h = k[1]
  BY TailSequence
<1> HIDE DEF t, h
<1>3. \A i \in 1..n : t[i] = k[i]
  BY <1>1, <1>2
<1>4. k = [i \in 1..n |-> k[i]] /\ t = [i \in 1..n |-> t[i]]
  BY <1>1 DEF Sequence
<1> HIDE DEF n
<1>5. k = t
  BY <1>3, <1>4
<1> QED
  BY <1>5 DEF t, h

(* A continue is the end of the body of the loop.                          *)
LEMMA ContinueTaken ==
  ASSUME NEW k, NEW X, NEW R, Leads(k, X, R), k # <<>>, Head(k).do = "range",
         NEW b, b.tok = "continue", b.label = NoLabel, NEW st \in Store, Exit(Unused(st), b) \in X
  PROVE  Runs(st, k, R)
<1> DEFINE f == Head(k)
           x == Exit(Unused(st), b)
           y == Here(st)
<1>1. PICK Xs : LeadsVia(k, Xs, R) /\ Xs[1] = X
  BY DEF Leads
<1> DEFINE Z == Xs[2]
<1>2. Flow(f, X, Z) /\ Leads(Tail(k), Z, R) /\ Sequence(k)
  BY <1>1, LeadsTail DEF LeadsVia
<1>3. x \in X /\ x.st = Unused(st) /\ x.branch = b /\ b # NoBranch
  BY DEF Exit, NoBranch, Branch
<1>4. y.st = Unused(st) /\ y.branch = NoBranch
  BY HereFacts
<1> HIDE DEF f, x, y, Z
<1>5. f.do = "range" /\ FlowRange(f, X, Z)
  BY <1>2 DEF Flow, f
<1>6. f.stmt \in Stmts /\ f.stmt.kind = "range" /\ f.deps \in Short /\ f.deps # <<>>
  BY <1>5 DEF FlowRange
<1>7. PICK W : /\ \A w \in W : Iterated(Foretold, f.stmt, f.deps, w, W, Z)
               /\ Ahead(f, X, W, Z) \/ Amid(f, X, W, Z)
  BY <1>5 DEF FlowRange
<1>8. f.inside /\ (f.back <=> Lends(f.stmt, f.deps)) /\ Looped(f.stmt, f.deps, x, W, Z)
  BY <1>3, <1>7 DEF Amid, Ahead
<1>9. Continues(x) /\ Continues(y)
  BY <1>3, <1>4 DEF Continues, BranchingThis
<1>10. Looped(f.stmt, f.deps, y, W, Z)
  BY <1>3, <1>4, <1>8, <1>9 DEF Looped
<1>11. Amid(f, {y}, W, Z)
  BY <1>8, <1>10 DEF Amid
<1>12. FlowRange(f, {y}, Z)
  BY <1>6, <1>7, <1>11 DEF FlowRange
<1>13. Flow(f, {Here(st)}, Z)
  BY <1>5, <1>12 DEF Flow, y
<1>14. Runs(st, <<f>> \o Tail(k), R)
  BY <1>2, <1>13, RunsOne
<1>15. k = <<f>> \o Tail(k)
  BY <1>2, HeadAndTail DEF f
<1> QED
  BY <1>14, <1>15

(* A continue goes on with the innermost loop.                             *)
LEMMA ContinueForeseen ==
  ASSUME RunInv, RunContinue, BranchesResolved, Sequence(lit.exits) PROVE RunInv'
<1> DEFINE b == Branch(Current.stmt.tok, Current.stmt.label)
           n == Len(todo)
           R == Found(lit.exits)
           is == Loops
           to == IF BranchingThis(Current.stmt) THEN Innermost(Loops)
                 ELSE Innermost(Labelled(Current.stmt.label)) - 1
           st == AbandonedUpTo(to - 1)
<1>1. Branches("continue") /\ GoOn(st, Rest(to))
  BY DEF RunContinue
<1>2. PICK Xs : Taken(Xs)
  BY <1>1, BranchNext
<1>3. Current.stmt.tok = "continue"
  BY <1>1, BranchNext
<1>4. /\ LeadsVia(todo, Xs, R) /\ todo # <<>> /\ now \in Store /\ fate = "running"
      /\ todo[1].do = "stmt" /\ Exit(Unused(now), b) \in Xs[2] /\ n \in Nat /\ Sequence(todo)
      /\ b.tok = "continue" /\ b.label = Current.stmt.label
  BY <1>2, <1>3 DEF Taken
<1>5. \A i \in 1..n : Flow(todo[i], Xs[i], Xs[i + 1])
  BY <1>4 DEF LeadsVia
<1>6. DOMAIN todo = 1..n
  BY <1>4, SequenceTyped
<1>7. b.label = NoLabel
  <2> HIDE DEF b
  <2> SUFFICES ASSUME b.label # NoLabel PROVE FALSE
    OBVIOUS
  <2>1. \A j \in 2..n : PassesBy(todo[j], b)
    BY <1>4 DEF PassesBy
  <2> QED
    BY <1>4, <2>1, NotOut
<1>8. to = Innermost(is)
  BY <1>4, <1>7 DEF BranchingThis
<1>9. \A i \in 1..n : i \in is <=> todo[i].do = "range"
  BY <1>5, <1>6 DEF Loops, IsLoop, Flow
<1>10. is \in SUBSET (1..n)
  BY <1>6 DEF Loops
<1> HIDE DEF is, to
<1>11. \A j \in 1..n : j \in is \/ PassesBy(todo[j], b)
  <2> HIDE DEF b
  <2> QED
    BY <1>4, <1>9 DEF PassesBy
<1>12. \A i \in is : todo[i].do = "range"
  BY <1>9, <1>10
<1>13. \A i \in is : todo[i].do # "stmt"
  BY <1>12
<1>14. /\ to \in is /\ st \in Store /\ Exit(Unused(st), b) \in Xs[to]
       /\ Leads(Rest(to), Xs[to], R) /\ Rest(to) # <<>> /\ Head(Rest(to)) = todo[to]
  BY <1>2, <1>3, <1>8, <1>10, <1>11, <1>13, JumpsTo
<1> HIDE DEF st, b, R
<1>15. Runs(st, Rest(to), R)
  BY <1>4, <1>7, <1>12, <1>14, ContinueTaken
<1> QED
  BY <1>1, <1>4, <1>15, RunGoesOn DEF R

(* A goto goes on in the list with the label.                              *)
LEMMA GotoTaken ==
  ASSUME NEW f, NEW X, NEW Z, Flow(f, X, Z), f.do = "list",
         NEW b, b.tok = "goto", b.label \in Labels(f.stmts),
         NEW st \in Store, Exit(Unused(st), b) \in X
  PROVE  Flow(From(f.stmts, Target(f.stmts, b.label)), {Here(st)}, Z)
<1> DEFINE x == Exit(Unused(st), b)
           y == Here(st)
           n == Len(f.stmts)
           t == Target(f.stmts, b.label)
           h == From(f.stmts, t)
           g == Place(f.stmts, FALSE, f.at - 1)
           p == Place(f.stmts, FALSE, t - 1)
<1>1. x \in X /\ x.st = Unused(st) /\ x.branch = b
  BY DEF Exit
<1>2. b # NoBranch
  BY DEF NoBranch, Branch
<1>3. y.st = Unused(st) /\ y.branch = NoBranch
  BY HereFacts
<1>4. FlowList(f, X, Z)
  BY DEF Flow
<1>5. f.stmts \in Seq(Stmts) /\ n \in Nat /\ DOMAIN f.stmts = 1..n
  BY <1>4 DEF FlowList
<1> HIDE DEF x, y
<1>6. PICK W : /\ \A w \in W : Handled(Foretold, f.stmts, FALSE, w, W, Z)
               /\ Sorted(g, x, W, Z)
  BY <1>1, <1>4 DEF FlowList
<1>7. g.stmts = f.stmts /\ ~g.isASwitch /\ p.stmts = f.stmts /\ p.item = t - 1 /\ ~p.isASwitch
  BY DEF Place
<1>8. h.do = "list" /\ h.stmts = f.stmts /\ h.at = t /\ h = From(h.stmts, h.at)
  BY DEF From
<1>9. t \in 1..n
  <2>1. \E i \in DOMAIN f.stmts : f.stmts[i].kind = "labeled" /\ f.stmts[i].label = b.label
    BY DEF Labels
  <2> QED
    BY <1>5, <2>1 DEF Target
<1>10. GoesTo(g, b) = t
  BY <1>2, <1>7 DEF GoesTo
<1> HIDE DEF g, h, p, t, n
<1>11. t # 0 /\ t \in Nat \ {0} /\ t - 1 < n /\ (t - 1) + 1 = t
  BY <1>5, <1>9
<1>12. Work(Unused(st), t) \in W
  BY <1>1, <1>6, <1>10, <1>11 DEF Sorted, Outside
<1>13. GoesTo(p, NoBranch) = t
  BY <1>7, <1>11 DEF GoesTo, NoBranch, Branch, n
<1>14. Sorted(p, y, W, Z)
  BY <1>3, <1>11, <1>12, <1>13 DEF Sorted, Outside
<1>15. FlowList(h, {y}, Z)
  BY <1>5, <1>6, <1>8, <1>11, <1>14 DEF FlowList, p
<1> QED
  BY <1>8, <1>15 DEF Flow, h, y, t

(* A goto abandons the frames up to the list.                              *)
LEMMA GotoForeseen ==
  ASSUME RunInv, RunGoto, BranchesResolved, Sequence(lit.exits) PROVE RunInv'
<1> DEFINE b == Branch(Current.stmt.tok, Current.stmt.label)
           n == Len(todo)
           R == Found(lit.exits)
           is == Listing(Current.stmt.label)
           to == Innermost(is)
           st == AbandonedUpTo(to - 1)
           f == todo[to]
           h == From(f.stmts, Target(f.stmts, b.label))
           k == <<h>> \o Rest(to + 1)
<1>1. /\ Branches("goto")
      /\ GoOn(st, <<From(f.stmts, Target(f.stmts, Current.stmt.label))>> \o Rest(to + 1))
  BY DEF RunGoto
<1>2. PICK Xs : Taken(Xs)
  BY <1>1, BranchNext
<1>3. Current.stmt.tok = "goto"
  BY <1>1, BranchNext
<1>4. /\ n \in Nat /\ Sequence(todo) /\ fate = "running"
      /\ b.tok = "goto" /\ b.label = Current.stmt.label
  BY <1>2, <1>3 DEF Taken
<1>5. GoOn(st, k)
  BY <1>1, <1>4
<1>6. DOMAIN todo = 1..n
  BY <1>4, SequenceTyped
<1>7. \A i \in 1..n : i \in is <=> todo[i].do = "list" /\ b.label \in Labels(todo[i].stmts)
  <2> HIDE DEF b
  <2> QED
    BY <1>4, <1>6 DEF Listing
<1>8. is \in SUBSET (1..n)
  BY <1>6 DEF Listing
<1> HIDE DEF is
<1>9. \A j \in 1..n : j \in is \/ PassesBy(todo[j], b)
  <2> HIDE DEF b
  <2> QED
    BY <1>4, <1>7 DEF PassesBy
<1>10. \A i \in is : todo[i].do = "list" /\ b.label \in Labels(todo[i].stmts)
  <2> HIDE DEF b
  <2> QED
    BY <1>7, <1>8
<1>11. \A i \in is : todo[i].do # "stmt"
  BY <1>10
<1>12. /\ to \in is /\ st \in Store /\ Exit(Unused(st), b) \in Xs[to]
       /\ Flow(f, Xs[to], Xs[to + 1])
       /\ Leads(Rest(to + 1), Xs[to + 1], R)
  BY <1>2, <1>3, <1>8, <1>9, <1>11, JumpsTo
<1> HIDE DEF to, st, b, R
<1>13. f.do = "list" /\ b.label \in Labels(f.stmts)
  BY <1>10, <1>12
<1> HIDE DEF f
<1>14. Flow(h, {Here(st)}, Xs[to + 1])
  BY <1>4, <1>12, <1>13, GotoTaken
<1> HIDE DEF h
<1>15. Runs(st, k, R)
  BY <1>12, <1>14, RunsOne
<1> HIDE DEF k
<1> QED
  BY <1>4, <1>5, <1>15, RunGoesOn DEF R

(* A fallthrough goes on in the next clause.                               *)
LEMMA FallthroughTaken ==
  ASSUME NEW f, NEW X, NEW Z, Flow(f, X, Z), f.do = "switch",
         f.clauses[f.at + 1].kind = "case",
         NEW b, b.tok = "fallthrough",
         NEW st \in Store, Exit(Unused(st), b) \in X
  PROVE  \E Y \in SUBSET Way :
           /\ Flow(From(f.clauses[f.at + 1].body, 1), {Here(st)}, Y)
           /\ Flow([f EXCEPT !.at = f.at + 1], Y, Z)
<1> DEFINE x == Exit(Unused(st), b)
           cs == f.clauses
           i == f.at
           next == i + 1
           c == cs[next]
           g == Place(cs, TRUE, i)
           h == Switch(cs, next, f.deps)
<1>1. x \in X /\ x.st = Unused(st) /\ x.branch = b /\ b # NoBranch
  BY DEF Exit, NoBranch, Branch
<1>2. FlowSwitch(f, X, Z)
  BY DEF Flow
<1>3. cs \in Seq(Stmts) /\ Labels(cs) = {} /\ i \in Nat /\ f.deps \in Short
      /\ f = Switch(cs, i, f.deps)
  BY <1>2 DEF FlowSwitch
<1> HIDE DEF x
<1>4. PICK W, V : /\ V \in SUBSET Way /\ \A w \in W : Handled(Foretold, cs, TRUE, w, W, V)
                  /\ Sorted(g, x, W, V) /\ Ended(V, f.deps, Z)
  BY <1>1, <1>2 DEF FlowSwitch
<1>5. g.isASwitch /\ g.item = i
  BY DEF Place
<1>6. next # 0 /\ next \in Nat
  BY <1>3
<1>7. GoesTo(g, b) = next
  BY <1>1, <1>5 DEF GoesTo
<1> HIDE DEF g
<1>8. Work(Unused(st), next) \in W
  BY <1>1, <1>4, <1>6, <1>7 DEF Sorted, Outside
<1>9. Handled(Foretold, cs, TRUE, Work(Unused(st), next), W, V)
  BY <1>4, <1>8
<1>10. PICK Y \in SUBSET Way : /\ next \in DOMAIN cs /\ <<c, Unused(st), Y>> \in Foretold
                               /\ \A y \in Y : Sorted(Place(cs, TRUE, next), y, W, V)
  BY <1>9 DEF Handled, Work
<1>11. c \in Stmts /\ c.kind = "case"
  <2> HIDE DEF cs, next
  <2> QED
    BY <1>3, <1>10 DEF next, cs
<1>12. Answered(c, st, Y)
  BY <1>10 DEF Answered
<1>13. c.body \in Seq(Stmts) /\ Answered(ListOf(c.body, FALSE), st, Y)
  <2> HIDE DEF c
  <2> QED
    BY <1>11, <1>12, CaseTaken
<1>14. Flow(From(c.body, 1), {Here(st)}, Y)
  <2> HIDE DEF c
  <2> QED
    BY <1>13, FlowFrom
<1>15. [f EXCEPT !.at = f.at + 1] = h
  <2> DEFINE ds == f.deps
  <2>1. f = Switch(cs, i, ds)
    BY <1>3
  <2> HIDE DEF cs, i, ds
  <2>2. [Switch(cs, i, ds) EXCEPT !.at = i + 1] = Switch(cs, i + 1, ds)
    BY DEF Switch
  <2> QED
    BY <2>1, <2>2 DEF ds, i
<1>16. h.do = "switch" /\ h.clauses = cs /\ h.at = next /\ h.deps = f.deps
       /\ h = Switch(h.clauses, h.at, h.deps)
  BY DEF Switch
<1> HIDE DEF h, cs, next
<1>17. FlowSwitch(h, Y, Z)
  BY <1>3, <1>4, <1>6, <1>10, <1>16 DEF FlowSwitch
<1>18. Flow(h, Y, Z)
  BY <1>16, <1>17 DEF Flow
<1> QED
  BY <1>14, <1>15, <1>18 DEF c, cs, next

(* A fallthrough abandons the frames up to the switch.                     *)
LEMMA FallthroughForeseen ==
  ASSUME RunInv, RunFallthrough, BranchesResolved, Sequence(lit.exits) PROVE RunInv'
<1> DEFINE b == Branch(Current.stmt.tok, Current.stmt.label)
           n == Len(todo)
           R == Found(lit.exits)
           is == Switches
           to == Innermost(is)
           st == AbandonedUpTo(to - 1)
           f == todo[to]
           h == From(f.clauses[f.at + 1].body, 1)
           g == [f EXCEPT !.at = f.at + 1]
           k == <<h, g>> \o Rest(to + 1)
<1>1. Branches("fallthrough") /\ f.clauses[f.at + 1].kind = "case" /\ GoOn(st, k)
  BY DEF RunFallthrough
<1>2. PICK Xs : Taken(Xs)
  BY <1>1, BranchNext
<1>3. Current.stmt.tok = "fallthrough"
  BY <1>1, BranchNext
<1>4. n \in Nat /\ Sequence(todo) /\ fate = "running" /\ b.tok = "fallthrough"
  BY <1>2, <1>3 DEF Taken
<1>5. DOMAIN todo = 1..n
  BY <1>4, SequenceTyped
<1>6. \A i \in 1..n : i \in is <=> todo[i].do = "switch"
  BY <1>5 DEF Switches
<1>7. is \in SUBSET (1..n)
  BY <1>5 DEF Switches
<1> HIDE DEF is
<1>8. \A j \in 1..n : j \in is \/ PassesBy(todo[j], b)
  <2> HIDE DEF b
  <2> QED
    BY <1>4, <1>6 DEF PassesBy
<1>9. \A i \in is : todo[i].do = "switch"
  BY <1>6, <1>7
<1>10. \A i \in is : todo[i].do # "stmt"
  BY <1>9
<1>11. /\ to \in is /\ st \in Store /\ Exit(Unused(st), b) \in Xs[to]
       /\ Flow(f, Xs[to], Xs[to + 1])
       /\ Leads(Rest(to + 1), Xs[to + 1], R)
  BY <1>2, <1>3, <1>7, <1>8, <1>10, JumpsTo
<1> HIDE DEF to, st, b, R
<1>12. f.do = "switch"
  BY <1>9, <1>11
<1> HIDE DEF f
<1>13. PICK Y \in SUBSET Way : Flow(h, {Here(st)}, Y) /\ Flow(g, Y, Xs[to + 1])
  BY <1>1, <1>4, <1>11, <1>12, FallthroughTaken
<1> HIDE DEF h, g
<1>14. Runs(st, k, R)
  BY <1>11, <1>13, RunsTwo
<1> HIDE DEF k
<1> QED
  BY <1>1, <1>4, <1>14, RunGoesOn DEF R

(* A run changes nothing of the visit.                                     *)
LEMMA StepKeepsVisit == ASSUME Step PROVE UNCHANGED vars
<1>1. \A st, k : GoOn(st, k) => UNCHANGED vars
  BY DEF GoOn
<1> HIDE DEF GoOn, vars
<1>2. RunIf => UNCHANGED vars
  BY <1>1 DEF RunIf
<1>3. RunSwitch => UNCHANGED vars
  BY <1>1 DEF RunSwitch
<1>4. RunSelect => UNCHANGED vars
  BY <1>1 DEF RunSelect
<1>5. TestFor => UNCHANGED vars
  BY <1>1 DEF TestFor
<1>6. AgainRange => UNCHANGED vars
  BY <1>1 DEF AgainRange
<1>7. RunReturn => UNCHANGED vars
  BY <1>1 DEF RunReturn
<1>8. NextOfList \/ RunSimple \/ RunLabeled \/ PastLabel \/ RunBlock \/ PastEnd => UNCHANGED vars
  BY <1>1 DEF NextOfList, RunSimple, RunLabeled, PastLabel, RunBlock, PastEnd
<1>9. RunFor \/ AgainFor \/ RunRange => UNCHANGED vars
  BY <1>1 DEF RunFor, AgainFor, RunRange
<1>10. RunBreak \/ RunContinue \/ RunGoto \/ RunFallthrough => UNCHANGED vars
  BY <1>1 DEF RunBreak, RunContinue, RunGoto, RunFallthrough
<1>11. Start \/ Finish => UNCHANGED vars
  BY DEF Start, Finish, vars
<1> QED
  BY <1>2, <1>3, <1>4, <1>5, <1>6, <1>7, <1>8, <1>9, <1>10, <1>11 DEF Step

(* The visit is over when no call is under way.                            *)
LEMMA VisitOver == ASSUME stack = <<>> PROVE ~Next
BY DEF Next, Visiting, Called, Returned, visitSimple, visitBranchStmt, visitLabeledStmt,
       visitBlockStmt, visitSelectStmt, blockVisited, visitCommClause, visitIfStmt,
       thenVisited, elseVisited, visitSwitchStmt, switchVisited, visitCaseClause,
       caseAlternative, caseBody, visitItem, itemVisited, listVisited, visitForStmt,
       forIterates, forBodyVisited, forVisited, visitRangeStmt, rangeIterates,
       rangeBodyVisited, rangeVisited, bodyVisited, captureExit, functionBuilt

(* No step of a run leaves where the exits say it might be.                *)
LEMMA StepForeseen ==
  ASSUME VisitInv, BorrowInv, BranchesResolved, RunInv, Step, NoForNorDefault
  PROVE  RunInv'
<1>1. CASE Start
  BY <1>1, StartForeseen
<1>2. CASE ~Start /\ fate # "off"
  <2>1. Sequence(lit.exits)
    BY <1>2 DEF RunInv, VisitInv, Stored
  <2>2. ~RunFor /\ ~TestFor /\ ~AgainFor
    BY NoForRuns
  <2> QED
    BY <1>2, <2>1, <2>2, FinishForeseen, NextForeseen, SimpleForeseen, LabeledForeseen,
       PastLabelForeseen, RunBlockForeseen, PastEndForeseen, RunIfForeseen, RunSwitchForeseen,
       RunSelectForeseen, RunRangeForeseen, AgainRangeForeseen, ReturnForeseen, BreakForeseen,
       ContinueForeseen, GotoForeseen, FallthroughForeseen DEF Step
<1>3. fate # "running" => ~Step \/ Start
  BY DEF Step, Start, Finish, NextOfList, RunSimple, RunLabeled, PastLabel, RunBlock, PastEnd,
         RunIf, RunSwitch, RunSelect, RunFor, TestFor, AgainFor, RunRange, AgainRange,
         RunReturn, RunBreak, RunContinue, RunGoto, RunFallthrough, Branches, Is, At
<1> QED
  BY <1>1, <1>2, <1>3

(* The visit does not change the run: there is none before it is over.     *)
LEMMA VisitForeseen == ASSUME RunInv, Next, UNCHANGED run PROVE RunInv'
<1>1. fate' = fate
  BY DEF run
<1>2. fate = "off"
  BY VisitOver DEF RunInv
<1> QED
  BY <1>1, <1>2 DEF RunInv

(* Nor does a stuttering step.                                             *)
LEMMA StillForeseen == ASSUME RunInv, UNCHANGED <<vars, run>> PROVE RunInv'
<1>1. fate' = fate /\ now' = now /\ todo' = todo /\ lit' = lit /\ stack' = stack
  BY DEF run, vars
<1> QED
  BY <1>1 DEF RunInv

--------------------------------------------------------------------------------
(* The theorems.                                                           *)

(* What the visit of a body has found in the end.                          *)
ExitsForetold == lit.visited => Answered(ListOf(lit.body, FALSE), Entered, Found(lit.exits))

(* The exits of a body are an answer that justifies itself, whatever works *)
(* visitStmtList has dropped as duplicates, in whatever order it has done  *)
(* the rest, and however often it has gone round a loop.                   *)
THEOREM VisitIsJustified ==
  ASSUME NoForNorDefault
  PROVE  Spec => []ExitsForetold
<1> DEFINE Inv == NestedInv /\ BorrowInv /\ VisitInv
<1>1. Init => Inv
  BY NestedInit, BorrowInit, VisitInit
<1>2. Inv /\ [Next]_vars => Inv'
  BY NestedStep, BorrowStep, VisitStep
<1>3. Inv => ExitsForetold
  BY DEF VisitInv, Goal, To, ExitsForetold
<1> QED
  BY <1>1, <1>2, <1>3, PTL DEF Spec

(* The visit knows where a run may be, and that it is nowhere else.        *)
Known(P) == NestedInv /\ BorrowInv /\ CatchInv(P) /\ VisitInv /\ RunInv

(* All of it holds at first ...                                            *)
LEMMA KnownInit == ASSUME NEW P, LegalBranches(P), RunInit PROVE Known(P)
<1>1. Init /\ fate = "off"
  BY DEF RunInit
<1>2. RunInv
  BY <1>1 DEF RunInv
<1> QED
  BY <1>1, <1>2, NestedInit, BorrowInit, CatchInit, VisitInit DEF Known

(* ... and after every step.                                               *)
LEMMA KnownStep ==
  ASSUME NEW P, LegalBranches(P), NoForNorDefault, Known(P), [RunNext]_<<vars, run>>
  PROVE  Known(P)'
<1>1. NestedInv /\ BorrowInv /\ CatchInv(P) /\ VisitInv /\ RunInv
  BY DEF Known
<1>2. [Next]_vars
  <2>1. CASE Next
    BY <2>1
  <2>2. CASE Step
    BY <2>2, StepKeepsVisit
  <2>3. CASE UNCHANGED <<vars, run>>
    BY <2>3
  <2> QED
    BY <2>1, <2>2, <2>3 DEF RunNext
<1>3. NestedInv' /\ BorrowInv' /\ CatchInv(P)' /\ VisitInv'
  BY <1>1, <1>2, NestedStep, BorrowStep, CatchStep, VisitStep
<1>4. BranchesResolved
  BY <1>1 DEF CatchInv
<1>5. RunInv'
  BY <1>1, <1>4, StepForeseen, VisitForeseen, StillForeseen DEF RunNext
<1> QED
  BY <1>3, <1>5 DEF Known

(* What the invariant says of a run that is over.                          *)
LEMMA KnownForeseen == ASSUME NEW P, Known(P) PROVE Foreseen /\ NeverFaults
<1>1. VisitInv /\ RunInv
  BY DEF Known
<1>2. NeverFaults
  BY <1>1 DEF RunInv, NeverFaults
<1>3. ASSUME fate \in {"ended", "returned"}
      PROVE  \E i \in DOMAIN lit.exits :
               /\ lit.exits[i].branch.tok = IF fate = "ended" THEN "none" ELSE "return"
               /\ SameView(lit.exits[i].st, now)
  <2>1. now \in Store /\ lit.visited
    BY <1>1, <1>3 DEF RunInv
  <2>2. Sequence(lit.exits) /\ \A i \in 1..Len(lit.exits) : lit.exits[i].st \in Store
    BY <1>1, <2>1 DEF VisitInv, Stored
  <2>3. DOMAIN lit.exits = 1..Len(lit.exits)
    BY <2>2, SequenceTyped
  <2>4. PICK b : /\ Exit(Unused(now), b) \in Found(lit.exits)
                 /\ b.tok = IF fate = "ended" THEN "none" ELSE "return"
    BY <1>1, <1>3 DEF RunInv, NoBranch, Branch
  <2>5. PICK i \in 1..Len(lit.exits) :
          Exit(Unused(now), b) = Exit(Unused(lit.exits[i].st), lit.exits[i].branch)
    BY <2>4 DEF Found
  <2>6. b = lit.exits[i].branch /\ Unused(now) = Unused(lit.exits[i].st)
    BY <2>5 DEF Exit
  <2>7. Equal(lit.exits[i].st, now)
    BY <2>1, <2>2, <2>6, UnusedSame
  <2>8. SameView(lit.exits[i].st, now)
    BY <2>1, <2>2, <2>7, EqualLooks DEF SameView
  <2> QED
    BY <2>3, <2>4, <2>6, <2>8
<1> QED
  BY <1>2, <1>3 DEF Foreseen

(* "It will evaluate the block for all possible inputs": whatever path a   *)
(* run of a body takes, conditions coming out either way, the exits that   *)
(* visitStmtList has found for the body include one with the permissions   *)
(* the path ends with, and with a return if the path returned. The program *)
(* has no for statement and no default clause (the visit panics in a       *)
(* literal that has one), and its branch statements are such that some     *)
(* statement catches them.                                                 *)
THEOREM RunsForeseen ==
  ASSUME NEW P, LegalBranches(P), NoForNorDefault
  PROVE  RunSpec => []Foreseen
<1>1. RunInit => Known(P)
  BY KnownInit
<1>2. Known(P) /\ [RunNext]_<<vars, run>> => Known(P)'
  BY KnownStep
<1>3. Known(P) => Foreseen
  BY KnownForeseen
<1> QED
  BY <1>1, <1>2, <1>3, PTL DEF RunSpec

(* A body that the visit lets pass never asks for a permission that is not *)
(* there: no path of a run moves, reads, assigns or gives back what the    *)
(* permissions do not allow at that point.                                 *)
THEOREM RunsNeverFault ==
  ASSUME NEW P, LegalBranches(P), NoForNorDefault
  PROVE  RunSpec => []NeverFaults
<1>1. RunInit => Known(P)
  BY KnownInit
<1>2. Known(P) /\ [RunNext]_<<vars, run>> => Known(P)'
  BY KnownStep
<1>3. Known(P) => NeverFaults
  BY KnownForeseen
<1> QED
  BY <1>1, <1>2, <1>3, PTL DEF RunSpec

================================================================================
