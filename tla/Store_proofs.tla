------------------------------ MODULE Store_proofs ------------------------------
(***************************************************************************)
(* That stores keep their types, that no effective permission exceeds the  *)
(* maximum, and that merging only weakens, for all programs and for every  *)
(* set of permissions in which Intersect is a meet.                        *)
(*                                                                         *)
(* The theorems suppose that no variable is defined under the empty name.  *)
(* If one is, Merge may intersect its permission with a marker's nil, of   *)
(* which the laws of Intersect say nothing.                                *)
(***************************************************************************)
EXTENDS Store, Recursion_proofs

--------------------------------------------------------------------------------
(* The laws of Intersect, one by one.                                      *)
LEMMA MeetType ==
  ASSUME NEW p \in Permission, NEW q \in Permission
  PROVE  Intersect(p, q) \in Permission \cup {Err}
  BY IntersectAssumption

LEMMA MeetBelow ==
  ASSUME NEW p \in Permission, NEW q \in Permission, Intersect(p, q) # Err
  PROVE  Leq(Intersect(p, q), p) /\ Leq(Intersect(p, q), q)
  BY IntersectAssumption

LEMMA MeetMonotonic ==
  ASSUME NEW p \in Permission, NEW q \in Permission, NEW p2 \in Permission, NEW q2 \in Permission,
         Leq(p, p2), Leq(q, q2), Intersect(p, q) # Err, Intersect(p2, q2) # Err
  PROVE  Leq(Intersect(p, q), Intersect(p2, q2))
  BY IntersectAssumption

LEMMA BelowItself == ASSUME NEW p \in Permission PROVE Leq(p, p)
  BY IntersectAssumption DEF Leq

--------------------------------------------------------------------------------
(* Entries as the operations leave them: a variable's effective permission *)
(* is within its maximum, and a marker has no permission, unless variables *)
(* without a name are defined.                                             *)
GoodEntry ==
  {c \in Entry : /\ c.name \in Name => Leq(c.eff, c.max)
                 /\ c.name = Unnamed /\ Unnamed \notin DefinableName
                      => c.eff = NoPerm /\ c.max = NoPerm}

IInv == /\ heap \in [Array -> Seq(GoodEntry)]
        /\ regs \in [Reg -> Slice]
        /\ out \in Outcome
        /\ \A r \in Reg : regs[r].arr # NoArray =>
                            regs[r].off \in 0..Len(heap[regs[r].arr])

Stores == /\ heap \in [Array -> Seq(GoodEntry)]
          /\ regs \in [Reg -> Slice]
          /\ \A r \in Reg : regs[r].arr # NoArray =>
                              regs[r].off \in 0..Len(heap[regs[r].arr])

LEMMA StoresAndOut == IInv <=> Stores /\ out \in Outcome
  BY DEF IInv, Stores

LEMMA IInvImplies == IInv => TypeOK /\ EffectiveWithinMaximum
  <1> SUFFICES ASSUME IInv PROVE TypeOK /\ EffectiveWithinMaximum
    OBVIOUS
  <1>1. \A a \in Array : heap[a] \in Seq(GoodEntry)
    BY DEF IInv
  <1>2. GoodEntry \subseteq Entry
    BY DEF GoodEntry
  <1>3. heap \in [Array -> Seq(Entry)]
    BY <1>1, <1>2 DEF IInv
  <1>4. \A a \in Array : \A i \in DOMAIN heap[a] : heap[a][i] \in GoodEntry
    BY <1>1
  <1> QED
    BY <1>3, <1>4 DEF IInv, TypeOK, EffectiveWithinMaximum, GoodEntry

(* What a register shows is made of good entries.                          *)
LEMMA CellsType ==
  ASSUME Stores, NEW r \in Reg
  PROVE  Cells(r) \in Seq(GoodEntry)
  <1>1. CASE regs[r].arr = NoArray
    BY <1>1 DEF Cells, Entries
  <1>2. CASE regs[r].arr # NoArray
    <2>1. /\ heap[regs[r].arr] \in Seq(GoodEntry) /\ regs[r].off \in 0..Len(heap[regs[r].arr])
          /\ regs[r].off \in Nat
      BY <1>2 DEF Stores, Slice
    <2> DEFINE h == heap[regs[r].arr]
               off == regs[r].off
    <2>2. h \in Seq(GoodEntry) /\ off \in 0..Len(h)
      BY <2>1
    <2>3. Cells(r) = SubSeq(h, off + 1, Len(h))
      BY <1>2 DEF Cells, Entries
    <2> HIDE DEF h, off
    <2>4. SubSeq(h, off + 1, Len(h)) \in Seq(GoodEntry)
      BY <2>2
    <2> QED
      BY <2>3, <2>4
  <1> QED
    BY <1>1, <1>2

(* A register is set to a window that lies within its array.               *)
LEMMA SetKeeps ==
  ASSUME Stores, NEW d \in Reg, NEW s \in Slice, NEW h \in [Array -> Seq(GoodEntry)],
         s.arr # NoArray => s.off \in 0..Len(h[s.arr]),
         \A r \in Reg : regs[r].arr # NoArray => regs[r].off \in 0..Len(h[regs[r].arr]),
         Set(d, s, h)
  PROVE  Stores'
  <1>1. /\ regs' = [regs EXCEPT ![d] = s]
        /\ heap' = [a \in Array |-> IF \E r \in Reg : regs'[r].arr = a THEN h[a] ELSE <<>>]
    BY DEF Set, Keep
  <1>2. regs' \in [Reg -> Slice]
    BY <1>1 DEF Stores
  <1>3. \A a \in Array : h[a] \in Seq(GoodEntry) /\ <<>> \in Seq(GoodEntry)
    OBVIOUS
  <1>4. heap' \in [Array -> Seq(GoodEntry)]
    BY <1>1, <1>3
  <1>5. ASSUME NEW r \in Reg, regs'[r].arr # NoArray
        PROVE  regs'[r].off \in 0..Len(heap'[regs'[r].arr])
    <2>1. regs'[r].arr \in Array
      BY <1>2, <1>5 DEF Slice
    <2>2. heap'[regs'[r].arr] = h[regs'[r].arr]
      BY <1>1, <2>1
    <2> QED
      BY <1>1, <1>5, <2>2 DEF Stores
  <1> QED
    BY <1>2, <1>4, <1>5 DEF Stores

(* A new slice is made in an array nobody refers to.                       *)
LEMMA MakeKeeps ==
  ASSUME Stores, NEW d \in Reg, NEW cells \in Seq(GoodEntry), Make(d, cells)
  PROVE  Stores'
  <1>1. PICK a \in Array : /\ \A r \in Reg : regs[r].arr # a
                           /\ Set(d, [arr |-> a, off |-> 0], [heap EXCEPT ![a] = cells])
    BY DEF Make
  <1> DEFINE h == [heap EXCEPT ![a] = cells]
             s == [arr |-> a, off |-> 0]
  <1>2. h \in [Array -> Seq(GoodEntry)]
    BY DEF Stores
  <1>3. s \in Slice
    BY DEF Slice
  <1>4. h[a] = cells /\ \A b \in Array \ {a} : h[b] = heap[b]
    BY DEF Stores
  <1>5. s.arr = a /\ s.off = 0 /\ Len(h[s.arr]) \in Nat
    BY <1>4
  <1>6. s.off \in 0..Len(h[s.arr])
    BY <1>5
  <1>7. \A r \in Reg : regs[r].arr # NoArray => regs[r].off \in 0..Len(h[regs[r].arr])
    BY <1>1, <1>4 DEF Stores, Slice
  <1>8. Set(d, s, h)
    BY <1>1
  <1> HIDE DEF h, s
  <1> QED
    BY <1>2, <1>3, <1>6, <1>7, <1>8, SetKeeps

LEMMA Prefixed ==
  ASSUME NEW cells \in Seq(GoodEntry), NEW c \in GoodEntry
  PROVE  <<c>> \o cells \in Seq(GoodEntry)
  OBVIOUS

--------------------------------------------------------------------------------
(* The operations, one by one.                                             *)
LEMMA AssignKeeps ==
  ASSUME IInv, NEW r \in Reg, NEW d \in Reg, Assign(r, d)
  PROVE  Stores'
  <1>1. regs[r] \in Slice /\ Stores
    BY DEF IInv, Stores
  <1>2. Set(d, regs[r], heap) /\ heap \in [Array -> Seq(GoodEntry)]
    BY DEF Assign, IInv
  <1> QED
    BY <1>1, <1>2, SetKeeps DEF Stores

LEMMA BeginBlockKeeps ==
  ASSUME IInv, NEW r \in Reg, NEW d \in Reg, BeginBlock(r, d)
  PROVE  Stores'
  <1>1. Marker \in GoodEntry
    <2>1. Marker \in Entry
      BY BoundsAssumption DEF Marker, Entry
    <2> QED
      BY <2>1, UnnamedAssumption DEF Marker, GoodEntry
  <1>2. <<Marker>> \o Cells(r) \in Seq(GoodEntry)
    BY <1>1, StoresAndOut, CellsType, Prefixed
  <1> QED
    BY <1>2, StoresAndOut, MakeKeeps DEF BeginBlock

LEMMA EndBlockKeeps ==
  ASSUME IInv, NEW r \in Reg, NEW d \in Reg, EndBlock(r, d)
  PROVE  Stores'
  <1>1. CASE \E i \in DOMAIN Cells(r) : Set(d, [regs[r] EXCEPT !.off = @ + i], heap)
    <2>1. PICK i \in DOMAIN Cells(r) : Set(d, [regs[r] EXCEPT !.off = @ + i], heap)
      BY <1>1
    <2> DEFINE s == [regs[r] EXCEPT !.off = @ + i]
    <2>2. regs[r].arr # NoArray
      BY <2>1 DEF Cells, Entries
    <2>3. regs[r] \in Slice /\ heap[regs[r].arr] \in Seq(GoodEntry)
            /\ regs[r].off \in 0..Len(heap[regs[r].arr])
      BY <2>2 DEF IInv, Slice
    <2>4. Cells(r) = SubSeq(heap[regs[r].arr], regs[r].off + 1, Len(heap[regs[r].arr]))
      BY <2>2 DEF Cells, Entries
    <2>5. ASSUME NEW h \in Seq(GoodEntry), NEW off \in 0..Len(h)
          PROVE  DOMAIN SubSeq(h, off + 1, Len(h)) = 1..(Len(h) - off)
      OBVIOUS
    <2>6. i \in 1..(Len(heap[regs[r].arr]) - regs[r].off)
      BY <2>3, <2>4, <2>5
    <2>7. s \in Slice /\ s.arr = regs[r].arr /\ s.off = regs[r].off + i
      BY <2>3, <2>6 DEF Slice
    <2>8. s.off \in 0..Len(heap[s.arr])
      BY <2>3, <2>6, <2>7
    <2>9. Set(d, s, heap)
      BY <2>1
    <2> HIDE DEF s
    <2> QED
      BY <2>7, <2>8, <2>9, SetKeeps, StoresAndOut DEF Stores
  <1>2. CASE UNCHANGED <<heap, regs>>
    BY <1>2 DEF IInv, Stores
  <1> QED
    BY <1>1, <1>2 DEF EndBlock, Fails

(* Both setters, for any change that gives a good entry where it succeeds. *)
LEMMA ChangeKeeps ==
  ASSUME IInv, NEW r \in Reg, NEW d \in Reg, NEW n, NEW changed,
         \A c \in GoodEntry : c.name = n /\ c.uses < MaxUses /\ changed[c].eff \notin {Err, NoPerm}
                                => changed[c] \in GoodEntry,
         Change(r, d, n, changed)
  PROVE  Stores'
  <1>1. Cells(r) \in Seq(GoodEntry)
    BY StoresAndOut, CellsType
  <1>2. ASSUME NEW i \in DOMAIN Cells(r), First(Cells(r), n, i), Cells(r)[i].uses < MaxUses,
               changed[Cells(r)[i]].eff \notin {Err, NoPerm},
               Make(d, [Cells(r) EXCEPT ![i] = changed[Cells(r)[i]]])
        PROVE  Stores'
    <2>1. Cells(r)[i] \in GoodEntry /\ Cells(r)[i].name = n
      BY <1>1, <1>2 DEF First
    <2>2. changed[Cells(r)[i]] \in GoodEntry
      BY <1>2, <2>1
    <2>3. ASSUME NEW cells \in Seq(GoodEntry), NEW j \in DOMAIN cells, NEW c \in GoodEntry
          PROVE  [cells EXCEPT ![j] = c] \in Seq(GoodEntry)
      OBVIOUS
    <2>4. [Cells(r) EXCEPT ![i] = changed[Cells(r)[i]]] \in Seq(GoodEntry)
      BY <1>1, <2>2, <2>3
    <2> QED
      BY <1>2, <2>4, StoresAndOut, MakeKeeps
  <1>3. CASE UNCHANGED <<heap, regs>>
    BY <1>3 DEF IInv, Stores
  <1> QED
    BY <1>2, <1>3 DEF Change, Fails

LEMMA EntryParts ==
  ASSUME NEW c \in GoodEntry
  PROVE  /\ c.name \in Name \cup {Unnamed} /\ c.uses \in 0..MaxUses
         /\ c.eff \in Permission \cup {NoPerm} /\ c.max \in Permission \cup {NoPerm}
         /\ c.name \in Name => c.eff \in Permission /\ c.max \in Permission /\ Leq(c.eff, c.max)
         /\ c.name = Unnamed /\ Unnamed \notin DefinableName => c.eff = NoPerm /\ c.max = NoPerm
         /\ c \in Entry
  BY UnnamedAssumption DEF GoodEntry, Entry, Variable

(* An entry with new permissions.                                          *)
LEMMA RestrictedIsGood ==
  ASSUME NEW c \in GoodEntry, c.uses < MaxUses,
         NEW eff \in Permission, NEW max \in Permission \cup {NoPerm},
         c.name \in Name => max \in Permission /\ Leq(eff, max),
         c.name = Unnamed => Unnamed \in DefinableName
  PROVE  Restricted(c, eff, max) \in GoodEntry
  <1>1. c.uses + 1 \in 0..MaxUses
    BY EntryParts, BoundsAssumption
  <1>2. Restricted(c, eff, max) = [name |-> c.name, eff |-> eff, max |-> max, uses |-> c.uses + 1]
    BY DEF Restricted
  <1>3. CASE c.name \in Name
    BY <1>1, <1>2, <1>3, UnnamedAssumption DEF GoodEntry, Entry, Variable
  <1>4. CASE c.name = Unnamed
    BY <1>1, <1>2, <1>4, UnnamedAssumption DEF GoodEntry, Entry, Variable
  <1> QED
    BY <1>3, <1>4, EntryParts

LEMMA SetEffectiveKeeps ==
  ASSUME IInv, NEW r \in Reg, NEW d \in Reg, NEW n \in Name \cup DefinableName, NEW p \in Permission,
         SetEffective(r, d, n, p)
  PROVE  Stores'
  <1> DEFINE changed == [c \in Entry |-> Restricted(c, Meet(c.max, p), c.max)]
  <1>1. ASSUME NEW c \in GoodEntry, c.name = n, c.uses < MaxUses,
               changed[c].eff \notin {Err, NoPerm}
        PROVE  changed[c] \in GoodEntry
    <2>1. changed[c] = Restricted(c, Meet(c.max, p), c.max) /\ changed[c].eff = Meet(c.max, p)
      BY EntryParts DEF Restricted
    <2>2. c.max \in Permission /\ Meet(c.max, p) = Intersect(c.max, p)
      BY <1>1, <2>1, EntryParts DEF Meet
    <2>3. Intersect(c.max, p) \in Permission /\ Leq(Intersect(c.max, p), c.max)
      BY <1>1, <2>1, <2>2, MeetType, MeetBelow
    <2>4. c.name = Unnamed => Unnamed \in DefinableName
      BY <1>1, UnnamedAssumption
    <2> HIDE DEF changed
    <2> QED
      BY <1>1, <2>1, <2>2, <2>3, <2>4, RestrictedIsGood
  <1>2. Change(r, d, n, changed)
    BY DEF SetEffective
  <1> HIDE DEF changed
  <1> QED
    BY <1>1, <1>2, ChangeKeeps

LEMMA SetMaximumKeeps ==
  ASSUME IInv, NEW r \in Reg, NEW d \in Reg, NEW n \in Name, NEW p \in Permission,
         SetMaximum(r, d, n, p)
  PROVE  Stores'
  <1> DEFINE changed == [c \in Entry |-> Restricted(c, Meet(c.eff, p), p)]
  <1>1. ASSUME NEW c \in GoodEntry, c.name = n, c.uses < MaxUses,
               changed[c].eff \notin {Err, NoPerm}
        PROVE  changed[c] \in GoodEntry
    <2>1. changed[c] = Restricted(c, Meet(c.eff, p), p) /\ changed[c].eff = Meet(c.eff, p)
      BY EntryParts DEF Restricted
    <2>2. c.eff \in Permission /\ Meet(c.eff, p) = Intersect(c.eff, p)
      BY <1>1, <2>1, EntryParts DEF Meet
    <2>3. Intersect(c.eff, p) \in Permission /\ Leq(Intersect(c.eff, p), p)
      BY <1>1, <2>1, <2>2, MeetType, MeetBelow
    <2>4. c.name = Unnamed => Unnamed \in DefinableName
      BY <1>1, UnnamedAssumption
    <2> HIDE DEF changed
    <2> QED
      BY <1>1, <2>1, <2>2, <2>3, <2>4, RestrictedIsGood
  <1>2. Change(r, d, n, changed)
    BY DEF SetMaximum
  <1> HIDE DEF changed
  <1> QED
    BY <1>1, <1>2, ChangeKeeps

LEMMA DefineKeeps ==
  ASSUME IInv, NEW r \in Reg, NEW d \in Reg, NEW n \in DefinableName, NEW p \in Permission,
         Define(r, d, n, p)
  PROVE  Stores'
  <1>1. CASE SetEffective(r, d, n, p)
    BY <1>1, SetEffectiveKeeps
  <1>2. CASE Make(d, <<NewCell(n, p)>> \o Cells(r))
    <2>1. NewCell(n, p) \in GoodEntry
      <3>1. NewCell(n, p) = [name |-> n, eff |-> p, max |-> p, uses |-> 0] /\ 0 \in 0..MaxUses
        BY BoundsAssumption DEF NewCell
      <3> QED
        BY <3>1, NamesAssumption, UnnamedAssumption, BelowItself DEF GoodEntry, Entry, Variable
    <2> QED
      BY <1>2, <2>1, StoresAndOut, CellsType, Prefixed, MakeKeeps
  <1> QED
    BY <1>1, <1>2 DEF Define

(* A getter changes a use count, and that only.                            *)
SameBindings(h, h2) == Len(h2) = Len(h) /\ \A m \in 1..Len(h) : Binding(h2[m]) = Binding(h[m])

LEMMA GetKeeps ==
  ASSUME IInv, NEW r \in Reg, NEW n \in Name, NEW field \in {"eff", "max"}, Get(r, n, field)
  PROVE  /\ Stores' /\ out' \in Outcome
         /\ UNCHANGED regs /\ \A b \in Array : SameBindings(heap[b], heap'[b])
  <1>1. CASE UNCHANGED <<heap, regs>> /\ Ok(NoPerm)
    BY <1>1 DEF IInv, Stores, Ok, Outcome, SameBindings
  <1>2. CASE \E i \in DOMAIN Cells(r) :
               /\ First(Cells(r), n, i)
               /\ Cells(r)[i].uses < MaxUses
               /\ heap' = [heap EXCEPT ![regs[r].arr][regs[r].off + i].uses = @ + 1]
               /\ Ok(Cells(r)[i][field])
               /\ UNCHANGED regs
    <2>1. PICK i \in DOMAIN Cells(r) :
               /\ First(Cells(r), n, i)
               /\ Cells(r)[i].uses < MaxUses
               /\ heap' = [heap EXCEPT ![regs[r].arr][regs[r].off + i].uses = @ + 1]
               /\ Ok(Cells(r)[i][field])
               /\ UNCHANGED regs
      BY <1>2
    <2>2. regs[r].arr # NoArray
      <3> SUFFICES ASSUME regs[r].arr = NoArray
                   PROVE  FALSE
        OBVIOUS
      <3>1. Cells(r) = <<>>
        BY DEF Cells, Entries
      <3>2. DOMAIN <<>> = {}
        OBVIOUS
      <3> QED
        BY <3>1, <3>2, Zenon
    <2> DEFINE a == regs[r].arr
               h == heap[a]
               off == regs[r].off
    <2>3. a \in Array /\ off \in Nat /\ h \in Seq(GoodEntry) /\ off \in 0..Len(h)
      BY <2>2 DEF IInv, Slice
    <2>4. Cells(r) = SubSeq(h, off + 1, Len(h))
      BY <2>2 DEF Cells, Entries
    <2> HIDE DEF h, off
    <2>5. i \in Nat /\ off + i \in DOMAIN h /\ Cells(r)[i] = h[off + i]
      BY <2>1, <2>3, <2>4
    <2> DEFINE c == h[off + i]
               c2 == [c EXCEPT !.uses = @ + 1]
    <2>6. c \in GoodEntry /\ c.uses < MaxUses
      BY <2>1, <2>3, <2>5
    <2>7. c.uses + 1 \in 0..MaxUses
      BY <2>6, EntryParts, BoundsAssumption
    <2>8. c = [name |-> c.name, eff |-> c.eff, max |-> c.max, uses |-> c.uses]
      BY <2>6 DEF GoodEntry, Entry, Variable
    <2>9. c2 = [name |-> c.name, eff |-> c.eff, max |-> c.max, uses |-> c.uses + 1]
      BY <2>8
    <2>10. c2 \in GoodEntry
      BY <2>6, <2>7, <2>9 DEF GoodEntry, Entry, Variable
    <2>11. heap' = [heap EXCEPT ![a] = [h EXCEPT ![off + i] = c2]]
      BY <2>1 DEF h, off
    <2> DEFINE h2 == [h EXCEPT ![off + i] = c2]
    <2>12. h2 \in Seq(GoodEntry) /\ Len(h2) = Len(h)
      <3> HIDE DEF c2
      <3> QED
        BY <2>3, <2>5, <2>10
    <2>13. heap \in [Array -> Seq(GoodEntry)] /\ heap' = [heap EXCEPT ![a] = h2]
      BY <2>11 DEF IInv
    <2>19. SameBindings(h, h2)
      <3>1. Binding(c2) = Binding(c)
        BY <2>9 DEF Binding
      <3> HIDE DEF c2
      <3>2. h2[off + i] = c2 /\ \A m \in 1..Len(h) : m # off + i => h2[m] = h[m]
        BY <2>3, <2>5
      <3> HIDE DEF h2
      <3> QED
        BY <2>12, <3>1, <3>2 DEF SameBindings
    <2> HIDE DEF h2, c, c2
    <2>20. \A b \in Array : SameBindings(heap[b], heap'[b])
      <3>1. \A b \in Array : heap'[b] = IF b = a THEN h2 ELSE heap[b]
        BY <2>3, <2>13
      <3>2. \A b \in Array : SameBindings(heap[b], heap[b])
        BY DEF SameBindings
      <3> QED
        BY <2>19, <3>1, <3>2 DEF h
    <2>14. heap' \in [Array -> Seq(GoodEntry)]
      BY <2>3, <2>12, <2>13
    <2>15. \A b \in Array : Len(heap'[b]) = Len(heap[b])
      BY <2>3, <2>12, <2>13 DEF h
    <2>16. Stores'
      BY <2>1, <2>14, <2>15 DEF IInv, Stores, Slice
    <2>17. c.eff \in Permission \cup {NoPerm} /\ c.max \in Permission \cup {NoPerm}
      BY <2>6, EntryParts
    <2>18. Cells(r)[i][field] \in Permission \cup {NoPerm}
      BY <2>5, <2>17 DEF c
    <2> QED
      BY <2>1, <2>16, <2>18, <2>20 DEF Ok, Outcome
  <1> QED
    BY <1>1, <1>2 DEF Get

(* Two entries that merge give a good one.                                 *)
LEMMA MergedIsGood ==
  ASSUME NEW cs \in Seq(GoodEntry), NEW cs2 \in Seq(GoodEntry), NEW i \in DOMAIN cs,
         Unnamed \notin DefinableName, MergeStatus(cs, cs2, i) = "ok"
  PROVE  /\ i \in DOMAIN cs2 /\ cs2[i].name = cs[i].name
         /\ cs[i].name \in Name
         /\ MergedCell(cs[i], cs2[i]) \in GoodEntry
         /\ Weaker(MergedCell(cs[i], cs2[i]), cs[i])
         /\ Weaker(MergedCell(cs[i], cs2[i]), cs2[i])
  <1> DEFINE c == cs[i]
             c2 == cs2[i]
             m == MergedCell(c, c2)
  <1>1. /\ i \in DOMAIN cs2 /\ c2.name = c.name
        /\ m.eff \notin {NoPerm, Err} /\ m.max \notin {NoPerm, Err}
    BY DEF MergeStatus
  <1>2. c \in GoodEntry /\ c2 \in GoodEntry
    BY <1>1
  <1>3. m = [name |-> c.name, eff |-> Meet(c.eff, c2.eff), max |-> Meet(c.max, c2.max),
             uses |-> IF c2.uses > c.uses THEN c2.uses ELSE c.uses]
    BY DEF MergedCell
  <1> HIDE DEF c, c2, m
  <1>4. m.eff = Meet(c.eff, c2.eff) /\ m.max = Meet(c.max, c2.max) /\ m.name = c.name
        /\ m.uses = IF c2.uses > c.uses THEN c2.uses ELSE c.uses
    BY <1>3
  <1>5. c.eff # NoPerm
    BY <1>1, <1>4 DEF Meet
  <1>6. c.name \in Name
    BY <1>2, <1>5, EntryParts
  <1>7. /\ c.eff \in Permission /\ c.max \in Permission /\ Leq(c.eff, c.max)
        /\ c2.eff \in Permission /\ c2.max \in Permission /\ Leq(c2.eff, c2.max)
    BY <1>1, <1>2, <1>6, EntryParts
  <1>8. m.eff = Intersect(c.eff, c2.eff) /\ m.max = Intersect(c.max, c2.max)
    BY <1>4, <1>7, PermAssumption DEF Meet
  <1>9. m.eff \in Permission /\ m.max \in Permission
    BY <1>1, <1>7, <1>8, MeetType
  <1>10. /\ Leq(m.eff, c.eff) /\ Leq(m.eff, c2.eff)
         /\ Leq(m.max, c.max) /\ Leq(m.max, c2.max)
    BY <1>1, <1>7, <1>8, MeetBelow
  <1>11. Leq(m.eff, m.max)
    BY <1>1, <1>7, <1>8, MeetMonotonic
  <1>12. m.uses \in 0..MaxUses
    BY <1>2, <1>4, EntryParts
  <1>13. m \in Variable
    BY <1>3, <1>4, <1>6, <1>9, <1>12 DEF Variable
  <1>14. m \in GoodEntry
    BY <1>4, <1>6, <1>11, <1>13, UnnamedAssumption DEF GoodEntry, Entry
  <1>15. Weaker(m, c) /\ Weaker(m, c2)
    BY <1>1, <1>4, <1>10 DEF Weaker
  <1> QED
    BY <1>1, <1>6, <1>14, <1>15 DEF c, c2, m

LEMMA MergeKeeps ==
  ASSUME IInv, Unnamed \notin DefinableName,
         NEW r \in Reg, NEW t \in Reg, NEW d \in Reg, Merge(r, t, d)
  PROVE  Stores'
  <1>1. Stores /\ heap \in [Array -> Seq(GoodEntry)] /\ regs[r] \in Slice /\ regs[t] \in Slice
    BY DEF IInv, Stores
  <1>2. CASE Set(d, regs[t], heap)
    BY <1>1, <1>2, SetKeeps DEF Stores
  <1>3. CASE Set(d, regs[r], heap)
    BY <1>1, <1>3, SetKeeps DEF Stores
  <1>4. CASE /\ \A i \in DOMAIN Cells(r) : MergeStatus(Cells(r), Cells(t), i) = "ok"
             /\ Make(d, [i \in DOMAIN Cells(r) |-> MergedCell(Cells(r)[i], Cells(t)[i])])
    <2>1. Cells(r) \in Seq(GoodEntry) /\ Cells(t) \in Seq(GoodEntry)
      BY <1>1, CellsType
    <2>2. \A i \in DOMAIN Cells(r) : MergedCell(Cells(r)[i], Cells(t)[i]) \in GoodEntry
      BY <1>4, <2>1, MergedIsGood
    <2>3. DOMAIN Cells(r) = 1..Len(Cells(r)) /\ Len(Cells(r)) \in Nat
      BY <2>1
    <2>4. [i \in DOMAIN Cells(r) |-> MergedCell(Cells(r)[i], Cells(t)[i])] \in Seq(GoodEntry)
      BY <2>2, <2>3
    <2> QED
      BY <1>1, <1>4, <2>4, MakeKeeps
  <1>5. CASE UNCHANGED <<heap, regs>>
    BY <1>1, <1>5 DEF Stores
  <1> QED
    BY <1>2, <1>3, <1>4, <1>5 DEF Merge, Fails

(* Every operation ends with one of the three outcomes.                    *)
LEMMA OkIsOutcome == ASSUME Ok(NoPerm) PROVE out' \in Outcome
  BY DEF Ok, Outcome

LEMMA FailsIsOutcome ==
  ASSUME NEW status \in {"error", "panic"}, Fails(status) PROVE out' \in Outcome
  BY DEF Fails, Outcome

LEMMA OutcomeType ==
  ASSUME NEW r \in Reg, NEW d \in Reg, NEW t \in Reg, NEW n, NEW p,
         \/ Assign(r, d) \/ BeginBlock(r, d) \/ EndBlock(r, d)
         \/ Define(r, d, n, p) \/ SetEffective(r, d, n, p) \/ SetMaximum(r, d, n, p)
         \/ Merge(r, t, d)
  PROVE  out' \in Outcome
  <1>1. ASSUME NEW changed, Change(r, d, n, changed) PROVE out' \in Outcome
    BY <1>1, OkIsOutcome, FailsIsOutcome DEF Change
  <1>2. CASE Assign(r, d) \/ BeginBlock(r, d)
    BY <1>2, OkIsOutcome DEF Assign, BeginBlock
  <1>3. CASE EndBlock(r, d)
    BY <1>3, OkIsOutcome, FailsIsOutcome DEF EndBlock
  <1>4. CASE SetEffective(r, d, n, p)
    BY <1>1, <1>4 DEF SetEffective
  <1>5. CASE SetMaximum(r, d, n, p)
    BY <1>1, <1>5 DEF SetMaximum
  <1>6. CASE Define(r, d, n, p)
    BY <1>4, <1>6, OkIsOutcome DEF Define
  <1>7. CASE Merge(r, t, d)
    <2>1. \A i : MergeStatus(Cells(r), Cells(t), i) \in {"ok", "error", "panic"}
      BY DEF MergeStatus
    <2> QED
      BY <1>7, <2>1, OkIsOutcome, FailsIsOutcome DEF Merge
  <1> QED
    BY <1>2, <1>3, <1>4, <1>5, <1>6, <1>7

--------------------------------------------------------------------------------
(* The invariant is inductive.                                             *)
LEMMA Initially == Init => IInv
  <1> SUFFICES ASSUME Init PROVE IInv
    OBVIOUS
  <1>1. heap \in [Array -> Seq(GoodEntry)]
    BY DEF Init
  <1>2. regs \in [Reg -> Slice] /\ \A r \in Reg : regs[r].arr = NoArray
    BY DEF Init, NilStore, Slice
  <1>3. out \in Outcome
    BY DEF Init, Outcome
  <1> QED
    BY <1>1, <1>2, <1>3 DEF IInv

LEMMA Inductive ==
  ASSUME Unnamed \notin DefinableName, IInv, [Next]_vars
  PROVE  IInv'
  <1> SUFFICES Stores' /\ out' \in Outcome
    BY DEF IInv, Stores
  <1>1. ASSUME NEW r \in Reg, NEW d \in Reg, Assign(r, d) PROVE Stores' /\ out' \in Outcome
    BY <1>1, AssignKeeps, OutcomeType
  <1>2. ASSUME NEW r \in Reg, NEW d \in Reg, BeginBlock(r, d) PROVE Stores' /\ out' \in Outcome
    BY <1>2, BeginBlockKeeps, OutcomeType
  <1>3. ASSUME NEW r \in Reg, NEW d \in Reg, EndBlock(r, d) PROVE Stores' /\ out' \in Outcome
    BY <1>3, EndBlockKeeps, OutcomeType
  <1>4. ASSUME NEW r \in Reg, NEW d \in Reg, NEW n \in DefinableName, NEW p \in Permission,
               Define(r, d, n, p)
        PROVE  Stores' /\ out' \in Outcome
    BY <1>4, DefineKeeps, OutcomeType
  <1>5. ASSUME NEW r \in Reg, NEW d \in Reg, NEW n \in Name, NEW p \in Permission,
               SetEffective(r, d, n, p)
        PROVE  Stores' /\ out' \in Outcome
    BY <1>5, SetEffectiveKeeps, OutcomeType
  <1>6. ASSUME NEW r \in Reg, NEW d \in Reg, NEW n \in Name, NEW p \in Permission,
               SetMaximum(r, d, n, p)
        PROVE  Stores' /\ out' \in Outcome
    BY <1>6, SetMaximumKeeps, OutcomeType
  <1>7. ASSUME NEW r \in Reg, NEW d \in Reg, NEW t \in Reg, Merge(r, t, d)
        PROVE  Stores' /\ out' \in Outcome
    BY <1>7, MergeKeeps, OutcomeType
  <1>8. ASSUME NEW r \in Reg, NEW n \in Name, GetEffective(r, n) \/ GetMaximum(r, n)
        PROVE  Stores' /\ out' \in Outcome
    BY <1>8, GetKeeps DEF GetEffective, GetMaximum
  <1>9. CASE UNCHANGED vars
    BY <1>9 DEF vars, IInv, Stores
  <1> QED
    BY <1>1, <1>2, <1>3, <1>4, <1>5, <1>6, <1>7, <1>8, <1>9 DEF Next

(* The inductive invariant holds of the stores at all times.               *)
THEOREM Invariance == ASSUME Unnamed \notin DefinableName PROVE Spec => []IInv
  BY Initially, Inductive, PTL DEF Spec

(* Whatever the interpreter does to its stores, in programs whose          *)
(* variables have names, they stay slices of well-formed entries that lie  *)
(* within their backing arrays (the methods of Store).                     *)
THEOREM TypeCorrect == ASSUME Unnamed \notin DefinableName PROVE Spec => []TypeOK
  BY Invariance, IInvImplies, PTL

(* No variable's effective permission ever exceeds its maximum: not after  *)
(* Define, SetEffective, SetMaximum or Merge, nor in a store that shares   *)
(* its array with another.                                                 *)
THEOREM WithinMaximum == ASSUME Unnamed \notin DefinableName PROVE Spec => []EffectiveWithinMaximum
  BY Invariance, IInvImplies, PTL

--------------------------------------------------------------------------------
(* What a made slice holds is what its register shows.                     *)
LEMMA MadeIsShown ==
  ASSUME Stores, NEW d \in Reg, NEW cells \in Seq(GoodEntry), Make(d, cells)
  PROVE  Cells(d)' = cells
  <1>1. PICK a \in Array : Set(d, [arr |-> a, off |-> 0], [heap EXCEPT ![a] = cells])
    BY DEF Make
  <1>2. regs' = [regs EXCEPT ![d] = [arr |-> a, off |-> 0]]
        /\ heap' = [b \in Array |-> IF \E r \in Reg : regs'[r].arr = b
                                    THEN [heap EXCEPT ![a] = cells][b] ELSE <<>>]
    BY <1>1 DEF Set, Keep
  <1>3. regs'[d] = [arr |-> a, off |-> 0]
    BY <1>2 DEF Stores
  <1>4. heap'[a] = cells
    BY <1>2, <1>3 DEF Stores
  <1>5. a # NoArray
    BY ArrayAssumption
  <1>6. Cells(d)' = SubSeq(cells, 1, Len(cells))
    BY <1>3, <1>4, <1>5 DEF Cells, Entries
  <1>7. SubSeq(cells, 1, Len(cells)) = cells
    OBVIOUS
  <1> QED
    BY <1>6, <1>7

(* One merge, whose result is a new slice.                                 *)
LEMMA MergeWeakens ==
  ASSUME IInv, Unnamed \notin DefinableName, NEW d \in Reg, NEW r \in Reg, NEW t \in Reg,
         regs[r].arr # NoArray, regs[t].arr # NoArray, Merge(r, t, d),
         regs'[d].arr # regs[d].arr
  PROVE  /\ Len(Cells(d)') = Len(Cells(r))
         /\ \A i \in DOMAIN Cells(r) : /\ Weaker(Cells(d)'[i], Cells(r)[i])
                                      /\ Weaker(Cells(d)'[i], Cells(t)[i])
  <1>1. /\ \A i \in DOMAIN Cells(r) : MergeStatus(Cells(r), Cells(t), i) = "ok"
        /\ Make(d, [i \in DOMAIN Cells(r) |-> MergedCell(Cells(r)[i], Cells(t)[i])])
    BY DEF Merge, Fails
  <1>2. Stores /\ Cells(r) \in Seq(GoodEntry) /\ Cells(t) \in Seq(GoodEntry)
    BY StoresAndOut, CellsType
  <1> DEFINE merged == [i \in DOMAIN Cells(r) |-> MergedCell(Cells(r)[i], Cells(t)[i])]
  <1>3. \A i \in DOMAIN Cells(r) :
          /\ MergedCell(Cells(r)[i], Cells(t)[i]) \in GoodEntry
          /\ Weaker(merged[i], Cells(r)[i])
          /\ Weaker(merged[i], Cells(t)[i])
    BY <1>1, <1>2, MergedIsGood
  <1>4. DOMAIN Cells(r) = 1..Len(Cells(r)) /\ Len(Cells(r)) \in Nat
    BY <1>2
  <1>5. merged \in Seq(GoodEntry) /\ Len(merged) = Len(Cells(r))
    BY <1>3, <1>4
  <1>6. Make(d, merged)
    BY <1>1
  <1> HIDE DEF merged
  <1>7. Cells(d)' = merged
    BY <1>2, <1>5, <1>6, MadeIsShown
  <1> QED
    BY <1>3, <1>5, <1>7

(* Merging two stores allows no variable anything it was not allowed in    *)
(* either of them (Store.Merge).                                           *)
THEOREM MergingWeakens ==
  ASSUME Unnamed \notin DefinableName PROVE Spec => MergeOnlyWeakens
  <1>1. ASSUME IInv, [Next]_vars
        PROVE  [\A d \in Reg : regs'[d].arr \notin {regs[d].arr, NoArray} =>
                  \A s, t \in Reg :
                    (regs[s].arr # NoArray /\ regs[t].arr # NoArray)
                    => (Merge(s, t, d) =>
                          /\ Len(Cells(d)') = Len(Cells(s))
                          /\ \A i \in DOMAIN Cells(s) :
                               /\ Weaker(Cells(d)'[i], Cells(s)[i])
                               /\ Weaker(Cells(d)'[i], Cells(t)[i]))]_vars
    BY <1>1, MergeWeakens
  <1> QED
    BY <1>1, Invariance, PTL DEF Spec, MergeOnlyWeakens

--------------------------------------------------------------------------------
(* Scopes, entry by entry.                                                 *)
Bindings == [name : Name, eff : Permission, max : Permission]

Stacks == Seq(Seq(Bindings)) \ {<< >>}

(* The stack of one empty scope is a stack.                                *)
LEMMA EmptyStack == << <<>> >> \in Stacks
  BY DEF Stacks

(* One more entry on a stack gives a stack.                                *)
LEMMA PrependType ==
  ASSUME Unnamed \notin DefinableName, NEW c \in GoodEntry, NEW e \in Stacks
  PROVE  Prepend(c, e) \in Stacks
  <1>1. CASE c.name = Unnamed
    <2>1. << <<>> >> \o e \in Seq(Seq(Bindings)) /\ << <<>> >> \o e # << >>
      BY DEF Stacks
    <2> QED
      BY <1>1, <2>1 DEF Prepend, Stacks
  <1>2. CASE c.name # Unnamed
    <2>1. Binding(c) \in Bindings
      BY <1>2, EntryParts DEF Binding, Bindings
    <2>2. e \in Seq(Seq(Bindings)) /\ Len(e) >= 1
      BY DEF Stacks
    <2>3. <<Binding(c)>> \o e[1] \in Seq(Bindings)
      <3>1. e[1] \in Seq(Bindings)
        BY <2>2
      <3> QED
        BY <2>1, <3>1
    <2>4. [e EXCEPT ![1] = <<Binding(c)>> \o @] \in Seq(Seq(Bindings)) /\ Len([e EXCEPT ![1] = <<Binding(c)>> \o @]) = Len(e)
      BY <2>2, <2>3
    <2> QED
      BY <1>2, <2>2, <2>4 DEF Prepend, Stacks
  <1> QED
    BY <1>1, <1>2

(* The recursion by which Scopes is defined.                               *)
Suffixes(cells, last) ==
  last = [k \in 0..Len(cells) |->
            IF k = 0 THEN << <<>> >> ELSE Prepend(cells[Len(cells) - k + 1], last[k - 1])]

(* The recursive function inside Scopes exists: a value for every number of*)
(* last entries.                                                           *)
LEMMA SuffixesExist ==
  ASSUME Unnamed \notin DefinableName, NEW cells \in Seq(GoodEntry)
  PROVE  \E last : Suffixes(cells, last)
  <1> DEFINE N == Len(cells)
             base == << <<>> >>
             step == [k \in 1..N |-> [e \in Stacks |-> Prepend(cells[N - k + 1], e)]]
  <1>1. N \in Nat /\ \A k \in 1..N : cells[N - k + 1] \in GoodEntry
    OBVIOUS
  <1>2. step \in [1..N -> [Stacks -> Stacks]]
    BY <1>1, PrependType
  <1>3. PICK f : Iteration(step, base, N, Stacks, f)
    <2> HIDE DEF step, N, base
    <2>1. base \in Stacks
      BY EmptyStack DEF base
    <2> QED
      BY <1>1, <1>2, <2>1, IterationExists
  <1>4. f \in [0..N -> Stacks] /\ f[0] = base
        /\ \A k \in 1..N : f[k] = step[k][f[k - 1]]
    BY <1>3 DEF Iteration
  <1>5. \A k \in 1..N : f[k - 1] \in Stacks
    BY <1>1, <1>4
  <1>6. \A k \in 1..N : f[k] = Prepend(cells[N - k + 1], f[k - 1])
    BY <1>4, <1>5
  <1>7. \A k \in 0..N : f[k] = IF k = 0 THEN base ELSE Prepend(cells[N - k + 1], f[k - 1])
    <2> HIDE DEF N, base, step
    <2>1. \A k \in 0..N : k = 0 \/ k \in 1..N
      BY <1>1
    <2> QED
      BY <1>4, <1>6, <2>1, Zenon
  <1>8. f = [k \in 0..N |-> f[k]]
    BY <1>4
  <1>9. f = [k \in 0..N |-> IF k = 0 THEN base ELSE Prepend(cells[N - k + 1], f[k - 1])]
    BY <1>7, <1>8
  <1> QED
    BY <1>9 DEF Suffixes

(* ... and is determined by its two equations.                             *)
LEMMA SuffixesAre ==
  ASSUME NEW E, NEW cells \in Seq(E), NEW last, Suffixes(cells, last)
  PROVE  /\ last[0] = << <<>> >>
         /\ \A k \in 1..Len(cells) : last[k] = Prepend(cells[Len(cells) - k + 1], last[k - 1])
  <1> DEFINE N == Len(cells)
             new(k) == Prepend(cells[N - k + 1], last[k - 1])
  <1>1. last = [k \in 0..N |-> IF k = 0 THEN << <<>> >> ELSE new(k)]
    BY Zenon DEF Suffixes
  <1>2. N \in Nat
    OBVIOUS
  <1> HIDE DEF N, new
  <1>3. last[0] = << <<>> >> /\ \A k \in 1..N : last[k] = new(k)
    BY <1>1, <1>2
  <1> QED
    BY <1>3 DEF N, new

(* Scopes is its value for all the entries.                                *)
LEMMA ScopesAreLast ==
  ASSUME Unnamed \notin DefinableName, NEW cells \in Seq(GoodEntry)
  PROVE  \E last : Suffixes(cells, last) /\ Scopes(cells) = last[Len(cells)]
  <1> DEFINE last == CHOOSE last : Suffixes(cells, last)
  <1>1. Suffixes(cells, last)
    BY SuffixesExist
  <1>2. Scopes(cells) = last[Len(cells)]
    BY Zenon DEF Scopes, Suffixes
  <1> HIDE DEF last
  <1> QED
    BY <1>1, <1>2

(* The stack of a store is its first entry on the stack of the others: the *)
(* equation all later proofs use.                                          *)
LEMMA ScopesUnfold ==
  ASSUME Unnamed \notin DefinableName, NEW cells \in Seq(GoodEntry)
  PROVE  /\ Scopes(cells) \in Stacks
         /\ cells = << >> => Scopes(cells) = << <<>> >>
         /\ cells # << >> => Scopes(cells) = Prepend(cells[1], Scopes(Tail(cells)))
  <1>1. PICK last : Suffixes(cells, last) /\ Scopes(cells) = last[Len(cells)]
    BY ScopesAreLast
  <1>2. /\ last[0] = << <<>> >>
        /\ \A k \in 1..Len(cells) : last[k] = Prepend(cells[Len(cells) - k + 1], last[k - 1])
    BY <1>1, SuffixesAre
  <1>3. \A k \in 0..Len(cells) : last[k] \in Stacks
    <2> DEFINE T == {k \in Nat : k <= Len(cells) => last[k] \in Stacks}
    <2>1. 0 \in T
      BY <1>2, EmptyStack
    <2>2. ASSUME NEW k \in Nat, k \in T
          PROVE  k + 1 \in T
      <3> SUFFICES ASSUME k + 1 <= Len(cells) PROVE last[k + 1] \in Stacks
        OBVIOUS
      <3>1. k + 1 \in 1..Len(cells) /\ (k + 1) - 1 = k
        OBVIOUS
      <3>2. last[k + 1] = Prepend(cells[Len(cells) - (k + 1) + 1], last[k])
        BY <1>2, <3>1
      <3>3. cells[Len(cells) - (k + 1) + 1] \in GoodEntry /\ last[k] \in Stacks
        BY <2>2
      <3> QED
        BY <3>2, <3>3, PrependType
    <2>3. Nat \subseteq T
      <3> HIDE DEF T
      <3> QED
        BY <2>1, <2>2, NumberInduction
    <2> QED
      BY <2>3
  <1>4. ASSUME cells # << >>
        PROVE  Scopes(cells) = Prepend(cells[1], Scopes(Tail(cells)))
    <2> DEFINE rest == Tail(cells)
    <2>1. /\ rest \in Seq(GoodEntry) /\ Len(rest) = Len(cells) - 1 /\ Len(cells) \in Nat
          /\ \A i \in 1..Len(rest) : rest[i] = cells[i + 1]
      BY <1>4
    <2> HIDE DEF rest
    <2>2. PICK last2 : Suffixes(rest, last2) /\ Scopes(rest) = last2[Len(rest)]
      BY <2>1, ScopesAreLast
    <2>3. /\ last2[0] = << <<>> >>
          /\ \A k \in 1..Len(rest) : last2[k] = Prepend(rest[Len(rest) - k + 1], last2[k - 1])
      BY <2>1, <2>2, SuffixesAre
    <2> DEFINE T == {k \in Nat : k <= Len(rest) => last[k] = last2[k]}
    <2>4. 0 \in T
      BY <1>2, <2>3
    <2>5. ASSUME NEW k \in Nat, k \in T
          PROVE  k + 1 \in T
      <3> SUFFICES ASSUME k + 1 <= Len(rest) PROVE last[k + 1] = last2[k + 1]
        OBVIOUS
      <3>1. /\ k + 1 \in 1..Len(cells) /\ k + 1 \in 1..Len(rest) /\ (k + 1) - 1 = k
            /\ Len(cells) - (k + 1) + 1 = Len(cells) - k
            /\ Len(rest) - (k + 1) + 1 = Len(cells) - k - 1
            /\ Len(cells) - k - 1 \in 1..Len(rest)
        BY <2>1
      <3>2. rest[Len(cells) - k - 1] = cells[Len(cells) - k]
        BY <2>1, <3>1
      <3>3. last[k + 1] = Prepend(cells[Len(cells) - k], last[k])
        BY <1>2, <3>1
      <3>4. last2[k + 1] = Prepend(rest[Len(cells) - k - 1], last2[k])
        BY <2>3, <3>1
      <3>5. last[k] = last2[k]
        BY <2>5, <3>1, <2>1
      <3> QED
        BY <3>2, <3>3, <3>4, <3>5
    <2>6. Nat \subseteq T
      <3> HIDE DEF T
      <3> QED
        BY <2>4, <2>5, NumberInduction
    <2>7. last[Len(rest)] = Scopes(rest)
      BY <2>1, <2>2, <2>6
    <2>8. last[Len(cells)] = Prepend(cells[1], last[Len(cells) - 1])
      <3>1. Len(cells) \in 1..Len(cells) /\ Len(cells) - Len(cells) + 1 = 1
        BY <1>4, <2>1
      <3> QED
        BY <1>2, <3>1
    <2> QED
      BY <1>1, <2>1, <2>7, <2>8 DEF rest
  <1>5. Len(cells) \in Nat /\ (cells = << >> => Len(cells) = 0)
    OBVIOUS
  <1> QED
    BY <1>1, <1>2, <1>3, <1>4, <1>5

(* A store's first entry and the others.                                   *)
LEMMA FirstAndOthers ==
  ASSUME NEW E, NEW s \in Seq(E), s # << >>
  PROVE  /\ s[1] \in E /\ 1 \in DOMAIN s
         /\ Tail(s) \in Seq(E) /\ Len(s) \in Nat /\ Len(Tail(s)) = Len(s) - 1
         /\ DOMAIN s = 1..Len(s) /\ DOMAIN Tail(s) = 1..(Len(s) - 1)
         /\ \A i \in DOMAIN Tail(s) : i + 1 \in DOMAIN s /\ Tail(s)[i] = s[i + 1]
         /\ \A i \in DOMAIN s : i = 1 \/ (i - 1 \in DOMAIN Tail(s) /\ Tail(s)[i - 1] = s[i])
  OBVIOUS

(* Sequences of the same length with the same elements are equal.          *)
LEMMA SameSequence ==
  ASSUME NEW E, NEW s \in Seq(E), NEW t \in Seq(E), Len(s) = Len(t),
         \A i \in 1..Len(s) : s[i] = t[i]
  PROVE  s = t
  OBVIOUS

(* A store without entries shows one empty scope.                          *)
LEMMA NoScopes ==
  ASSUME Unnamed \notin DefinableName PROVE Scopes(<< >>) = << <<>> >> /\ << >> \in Seq(GoodEntry)
  <1>1. << >> \in Seq(GoodEntry)
    OBVIOUS
  <1>2. \A s \in Seq(GoodEntry) : s = << >> => Scopes(s) = << <<>> >>
    BY ScopesUnfold
  <1> QED
    BY <1>1, <1>2, Zenon

(* A stack has a first scope, and further ones.                            *)
LEMMA StackShape ==
  ASSUME NEW e \in Stacks
  PROVE  /\ e \in Seq(Seq(Bindings)) /\ Len(e) \in Nat /\ Len(e) >= 1 /\ DOMAIN e = 1..Len(e)
         /\ \A k \in DOMAIN e : /\ e[k] \in Seq(Bindings) /\ Len(e[k]) \in Nat
                                /\ DOMAIN e[k] = 1..Len(e[k])
         /\ 1 \in DOMAIN e
  BY DEF Stacks

(* A marker opens a scope.                                                 *)
LEMMA PrependMarker ==
  ASSUME NEW c, c.name = Unnamed, NEW e \in Stacks
  PROVE  /\ Len(Prepend(c, e)) = Len(e) + 1
         /\ Prepend(c, e)[1] = << >>
         /\ \A k \in DOMAIN e : Prepend(c, e)[k + 1] = e[k]
         /\ Tail(Prepend(c, e)) = e
  <1>1. Prepend(c, e) = << <<>> >> \o e
    BY DEF Prepend
  <1>2. e \in Seq(Seq(Bindings)) /\ << >> \in Seq(Bindings)
    BY DEF Stacks
  <1>3. ASSUME NEW B, NEW f \in Seq(B), NEW x \in B
        PROVE  /\ Len(<<x>> \o f) = Len(f) + 1
               /\ (<<x>> \o f)[1] = x
               /\ \A k \in DOMAIN f : (<<x>> \o f)[k + 1] = f[k]
               /\ Tail(<<x>> \o f) = f
    OBVIOUS
  <1> QED
    BY ONLY <1>1, <1>2, <1>3

(* A variable goes to the innermost scope.                                 *)
LEMMA PrependVariable ==
  ASSUME Unnamed \notin DefinableName, NEW c \in GoodEntry, c.name # Unnamed, NEW e \in Stacks
  PROVE  /\ Len(Prepend(c, e)) = Len(e)
         /\ Prepend(c, e)[1] = <<Binding(c)>> \o e[1]
         /\ Len(Prepend(c, e)[1]) = Len(e[1]) + 1
         /\ Prepend(c, e)[1][1] = Binding(c)
         /\ \A j \in DOMAIN e[1] : Prepend(c, e)[1][j + 1] = e[1][j]
         /\ \A k \in 2..Len(e) : Prepend(c, e)[k] = e[k]
  <1>1. Prepend(c, e) = [e EXCEPT ![1] = <<Binding(c)>> \o @]
    BY DEF Prepend
  <1>2. Binding(c) \in Bindings
    BY EntryParts DEF Binding, Bindings
  <1> DEFINE b == Binding(c)
  <1>3. /\ Prepend(c, e)[1] = <<b>> \o e[1] /\ Len(Prepend(c, e)) = Len(e)
        /\ \A k \in 2..Len(e) : Prepend(c, e)[k] = e[k]
    BY <1>1, StackShape
  <1>4. ASSUME NEW B, NEW f \in Seq(B), NEW x \in B
        PROVE  /\ Len(<<x>> \o f) = Len(f) + 1
               /\ (<<x>> \o f)[1] = x
               /\ \A k \in DOMAIN f : (<<x>> \o f)[k + 1] = f[k]
    OBVIOUS
  <1>5. e[1] \in Seq(Bindings)
    BY StackShape
  <1> QED
    BY ONLY <1>2, <1>3, <1>4, <1>5

--------------------------------------------------------------------------------
(* Equal stores have the same scopes.                                      *)
LEMMA EqualScopes ==
  ASSUME Unnamed \notin DefinableName, NEW s \in Seq(GoodEntry), NEW t \in Seq(GoodEntry), Equal(s, t)
  PROVE  Scopes(s) = Scopes(t)
  <1> DEFINE T == {u \in Seq(GoodEntry) : \A v \in Seq(GoodEntry) :
                     Equal(u, v) => Scopes(u) = Scopes(v)}
  <1>1. << >> \in T
    <2>1. \A v \in Seq(GoodEntry) : Equal(<< >>, v) => v = << >>
      BY DEF Equal
    <2> QED
      BY <2>1
  <1>2. ASSUME NEW u \in Seq(GoodEntry), u # << >>, Tail(u) \in T
        PROVE  u \in T
    <2> SUFFICES ASSUME NEW v \in Seq(GoodEntry), Equal(u, v)
                 PROVE  Scopes(u) = Scopes(v)
      OBVIOUS
    <2>1. v # << >> /\ Len(u) = Len(v)
      BY <1>2 DEF Equal
    <2>2. Equal(Tail(u), Tail(v))
      BY <1>2, <2>1, FirstAndOthers DEF Equal
    <2>3. Scopes(Tail(u)) = Scopes(Tail(v))
      BY <1>2, <2>1, <2>2, FirstAndOthers
    <2>4. u[1].name = v[1].name /\ Binding(u[1]) = Binding(v[1])
      BY <1>2, FirstAndOthers DEF Equal, Binding
    <2>5. Prepend(u[1], Scopes(Tail(u))) = Prepend(v[1], Scopes(Tail(v)))
      BY <2>3, <2>4, Zenon DEF Prepend
    <2> QED
      BY <1>2, <2>1, <2>5, ScopesUnfold
  <1>3. Seq(GoodEntry) \subseteq T
    <2> HIDE DEF T
    <2> QED
      BY <1>1, <1>2, TailInduction
  <1> QED
    BY <1>3

(* What was prepended can be told from the scopes.                         *)
LEMMA PrependInjective ==
  ASSUME Unnamed \notin DefinableName, NEW c \in GoodEntry, NEW c2 \in GoodEntry,
         NEW e \in Stacks, NEW e2 \in Stacks, Prepend(c, e) = Prepend(c2, e2)
  PROVE  Binding(c) = Binding(c2) /\ e = e2
  <1>1. c.name = Unnamed <=> c2.name = Unnamed
    <2>1. ASSUME NEW b \in GoodEntry, b.name # Unnamed, NEW f \in Stacks, NEW a, a.name = Unnamed,
                 NEW g \in Stacks
          PROVE  Prepend(b, f) # Prepend(a, g)
      <3>1. Len(Prepend(b, f)[1]) = Len(f[1]) + 1 /\ Len(f[1]) \in Nat
        BY <2>1, PrependVariable, StackShape
      <3>2. Len(Prepend(a, g)[1]) = 0
        BY <2>1, PrependMarker
      <3> QED
        BY <3>1, <3>2
    <2> QED
      BY <2>1
  <1>2. CASE c.name = Unnamed
    <2>1. e = e2
      BY <1>1, <1>2, PrependMarker
    <2>2. c.eff = NoPerm /\ c.max = NoPerm /\ c2.eff = NoPerm /\ c2.max = NoPerm
      BY <1>1, <1>2, EntryParts
    <2> QED
      BY <1>1, <1>2, <2>1, <2>2 DEF Binding
  <1>3. CASE c.name # Unnamed
    <2> DEFINE p == Prepend(c, e)
               b == Binding(c)
               b2 == Binding(c2)
    <2>1. /\ Len(p) = Len(e) /\ p[1][1] = b /\ Len(p[1]) = Len(e[1]) + 1
          /\ \A j \in DOMAIN e[1] : p[1][j + 1] = e[1][j]
          /\ \A k \in 2..Len(e) : p[k] = e[k]
      BY <1>3, PrependVariable
    <2>2. p = Prepend(c2, e2) /\ c2.name # Unnamed
      BY <1>1, <1>3
    <2>3. /\ Len(p) = Len(e2) /\ p[1][1] = b2 /\ Len(p[1]) = Len(e2[1]) + 1
          /\ \A j \in DOMAIN e2[1] : p[1][j + 1] = e2[1][j]
          /\ \A k \in 2..Len(e2) : p[k] = e2[k]
      <3> HIDE DEF p
      <3> QED
        BY <2>2, PrependVariable
    <2>4. /\ e \in Seq(Seq(Bindings)) /\ e2 \in Seq(Seq(Bindings))
          /\ e[1] \in Seq(Bindings) /\ e2[1] \in Seq(Bindings)
          /\ Len(e) >= 1 /\ Len(e2) >= 1
      BY StackShape
    <2> HIDE DEF p, b, b2
    <2>5. e[1] = e2[1]
      <3> DEFINE f == e[1]
                 f2 == e2[1]
      <3>1. Len(f) = Len(f2) /\ \A j \in DOMAIN f : f[j] = f2[j]
        BY <2>1, <2>3, <2>4
      <3>2. f \in Seq(Bindings) /\ f2 \in Seq(Bindings)
        BY <2>4
      <3> HIDE DEF f, f2
      <3>3. f = f2
        BY <3>1, <3>2
      <3> QED
        BY <3>3 DEF f, f2
    <2>6. Len(e) = Len(e2)
      BY <2>1, <2>3
    <2>7. \A k \in 1..Len(e) : e[k] = e2[k]
      <3>1. \A k \in 1..Len(e) : k = 1 \/ k \in 2..Len(e)
        BY <2>4
      <3> QED
        BY <2>1, <2>3, <2>5, <2>6, <3>1
    <2>8. e = e2
      BY <2>4, <2>6, <2>7, SameSequence
    <2>9. b = b2
      BY <2>1, <2>3
    <2> QED
      BY <2>8, <2>9 DEF b, b2
  <1> QED
    BY <1>2, <1>3

(* Stores with the same scopes are Equal.                                  *)
LEMMA ScopesEqual ==
  ASSUME Unnamed \notin DefinableName, NEW s \in Seq(GoodEntry), NEW t \in Seq(GoodEntry),
         Scopes(s) = Scopes(t)
  PROVE  Equal(s, t)
  <1>1. ASSUME NEW u \in Seq(GoodEntry), Scopes(u) = << <<>> >>
        PROVE  u = << >>
    <2> SUFFICES ASSUME u # << >> PROVE FALSE
      OBVIOUS
    <2>1. Scopes(u) = Prepend(u[1], Scopes(Tail(u))) /\ u[1] \in GoodEntry /\ Scopes(Tail(u)) \in Stacks
      BY ScopesUnfold, FirstAndOthers
    <2> DEFINE e == Scopes(Tail(u))
               c == u[1]
    <2>2. e \in Stacks /\ Len(e) \in Nat /\ Len(e) >= 1 /\ Len(e[1]) \in Nat
      BY <2>1, StackShape
    <2>3. c \in GoodEntry /\ Prepend(c, e) = << <<>> >>
      BY <1>1, <2>1
    <2> HIDE DEF c, e
    <2>4. CASE c.name = Unnamed
      <3>1. Len(Prepend(c, e)) = Len(e) + 1
        BY <2>2, <2>4, PrependMarker
      <3> QED
        BY <2>2, <2>3, <3>1
    <2>5. CASE c.name # Unnamed
      <3>1. Len(Prepend(c, e)[1]) = Len(e[1]) + 1
        BY <2>2, <2>3, <2>5, PrependVariable
      <3> QED
        BY <2>2, <2>3, <3>1
    <2> QED
      BY <2>4, <2>5
  <1> DEFINE T == {u \in Seq(GoodEntry) : \A v \in Seq(GoodEntry) :
                     Scopes(u) = Scopes(v) => Equal(u, v)}
  <1>2. << >> \in T
    <2>1. Equal(<< >>, << >>)
      BY DEF Equal
    <2>2. << >> \in Seq(GoodEntry) /\ Scopes(<< >>) = << <<>> >>
      BY NoScopes
    <2> QED
      BY <1>1, <2>1, <2>2
  <1>3. ASSUME NEW u \in Seq(GoodEntry), u # << >>, Tail(u) \in T
        PROVE  u \in T
    <2> SUFFICES ASSUME NEW v \in Seq(GoodEntry), Scopes(u) = Scopes(v)
                 PROVE  Equal(u, v)
      OBVIOUS
    <2>1. v # << >>
      BY <1>1, <1>3, ScopesUnfold
    <2>2. /\ u[1] \in GoodEntry /\ v[1] \in GoodEntry
          /\ Tail(u) \in Seq(GoodEntry) /\ Tail(v) \in Seq(GoodEntry)
          /\ Scopes(Tail(u)) \in Stacks /\ Scopes(Tail(v)) \in Stacks
          /\ Prepend(u[1], Scopes(Tail(u))) = Prepend(v[1], Scopes(Tail(v)))
      BY <1>3, <2>1, FirstAndOthers, ScopesUnfold
    <2>3. Binding(u[1]) = Binding(v[1]) /\ Equal(Tail(u), Tail(v))
      <3> DEFINE c == u[1]
                 c2 == v[1]
                 e == Scopes(Tail(u))
                 e2 == Scopes(Tail(v))
      <3>1. c \in GoodEntry /\ c2 \in GoodEntry /\ e \in Stacks /\ e2 \in Stacks
            /\ Prepend(c, e) = Prepend(c2, e2)
        BY <2>2
      <3> HIDE DEF c, c2, e, e2
      <3>2. Binding(c) = Binding(c2) /\ e = e2
        BY <3>1, PrependInjective
      <3> QED
        BY <1>3, <2>2, <3>2 DEF c, c2, e, e2
    <2>4. u[1].name = v[1].name /\ u[1].eff = v[1].eff /\ u[1].max = v[1].max
      BY <2>3 DEF Binding
    <2>5. Len(u) = Len(v)
      BY <1>3, <2>1, <2>3, FirstAndOthers DEF Equal
    <2>6. ASSUME NEW i \in DOMAIN u, i # 1
          PROVE  u[i].name = v[i].name /\ u[i].eff = v[i].eff /\ u[i].max = v[i].max
      <3>1. i - 1 \in DOMAIN Tail(u) /\ Tail(u)[i - 1] = u[i] /\ Tail(v)[i - 1] = v[i]
        BY <1>3, <2>1, <2>5, <2>6, FirstAndOthers
      <3> QED
        BY <2>3, <3>1 DEF Equal
    <2> QED
      BY <2>4, <2>5, <2>6 DEF Equal
  <1>4. Seq(GoodEntry) \subseteq T
    <2> HIDE DEF T
    <2> QED
      BY <1>2, <1>3, TailInduction
  <1> QED
    BY <1>4

(* Two stores are Equal, as the work list compares them, exactly if they   *)
(* are the same stack of scopes (Store.Equal): forgetting one of them      *)
(* forgets no permission.                                                  *)
THEOREM EqualIsSameScopes ==
  ASSUME Unnamed \notin DefinableName PROVE Spec => []EqualMeansSameScopes
  <1>1. IInv => EqualMeansSameScopes
    BY StoresAndOut, CellsType, EqualScopes, ScopesEqual DEF EqualMeansSameScopes
  <1> QED
    BY <1>1, Invariance, PTL

--------------------------------------------------------------------------------
(* Closing a block drops the entries down to its marker, and so the        *)
(* innermost scope.                                                        *)
LEMMA Suffix ==
  ASSUME NEW E, NEW s \in Seq(E), s # << >>, NEW i \in DOMAIN s
  PROVE  /\ i = 1 => SubSeq(s, i + 1, Len(s)) = Tail(s)
         /\ i # 1 => SubSeq(s, i + 1, Len(s)) = SubSeq(Tail(s), (i - 1) + 1, Len(Tail(s)))
  <1>1. ASSUME NEW t \in Seq(E), NEW m \in 1..(Len(t) + 1)
        PROVE  /\ SubSeq(t, m, Len(t)) \in Seq(E)
               /\ Len(SubSeq(t, m, Len(t))) = Len(t) + 1 - m
               /\ \A k \in 1..(Len(t) + 1 - m) : SubSeq(t, m, Len(t))[k] = t[k + m - 1]
    OBVIOUS
  <1>2. /\ Len(s) \in Nat /\ i \in 1..Len(s) /\ Tail(s) \in Seq(E) /\ Len(Tail(s)) = Len(s) - 1
        /\ \A k \in 1..(Len(s) - 1) : Tail(s)[k] = s[k + 1]
    BY FirstAndOthers
  <1> DEFINE rest == SubSeq(s, i + 1, Len(s))
  <1>3. rest \in Seq(E) /\ Len(rest) = Len(s) - i /\ \A k \in 1..(Len(s) - i) : rest[k] = s[k + i]
    <2>1. i + 1 \in 1..(Len(s) + 1) /\ Len(s) + 1 - (i + 1) = Len(s) - i
          /\ \A k \in Nat : k + (i + 1) - 1 = k + i
      BY <1>2
    <2>2. /\ rest \in Seq(E) /\ Len(rest) = Len(s) + 1 - (i + 1)
          /\ \A k \in 1..(Len(s) + 1 - (i + 1)) : rest[k] = s[k + (i + 1) - 1]
      BY <1>1, <2>1
    <2> HIDE DEF rest
    <2>3. Len(s) + 1 - (i + 1) = Len(s) - i /\ \A k \in 1..(Len(s) - i) : k + (i + 1) - 1 = k + i
      BY <1>2
    <2>4. \A k \in 1..(Len(s) - i) : rest[k] = s[k + (i + 1) - 1]
      BY <2>2, <2>3
    <2>5. ASSUME NEW k \in 1..(Len(s) - i)
          PROVE  rest[k] = s[k + i]
      <3>1. k + (i + 1) - 1 = k + i
        BY <2>3
      <3>2. rest[k] = s[k + (i + 1) - 1]
        BY <2>4
      <3> QED
        BY ONLY <3>1, <3>2
    <2> QED
      BY <2>2, <2>3, <2>5
  <1>4. CASE i = 1
    <2> HIDE DEF rest
    <2>1. rest = Tail(s)
      BY <1>2, <1>3, <1>4, SameSequence
    <2> QED
      BY <1>4, <2>1 DEF rest
  <1>5. CASE i # 1
    <2> DEFINE t == Tail(s)
               rest2 == SubSeq(t, (i - 1) + 1, Len(t))
    <2>1. (i - 1) + 1 \in 1..(Len(t) + 1) /\ Len(t) + 1 - ((i - 1) + 1) = Len(s) - i /\ t \in Seq(E)
      BY <1>2, <1>5
    <2>2. rest2 \in Seq(E) /\ Len(rest2) = Len(s) - i
          /\ \A k \in 1..(Len(s) - i) : rest2[k] = t[k + ((i - 1) + 1) - 1]
      <3> HIDE DEF t
      <3> QED
        BY <1>1, <2>1
    <2>3. \A k \in 1..(Len(s) - i) : t[k + ((i - 1) + 1) - 1] = s[k + i]
      BY <1>2, <1>5
    <2> HIDE DEF t, rest2, rest
    <2>4. rest = rest2
      BY <1>3, <2>2, <2>3, SameSequence
    <2> QED
      BY <1>5, <2>4 DEF rest, rest2, t
  <1> QED
    BY <1>4, <1>5

(* A block is open exactly if there is a marker, and what follows the first*)
(* marker is the stack without its first scope: EndBlock is Tail.          *)
LEMMA ClosedScopes ==
  ASSUME Unnamed \notin DefinableName, NEW s \in Seq(GoodEntry)
  PROVE  /\ Len(Scopes(s)) > 1 <=> Has(s, Unnamed)
         /\ \A i \in DOMAIN s : First(s, Unnamed, i) =>
              Scopes(SubSeq(s, i + 1, Len(s))) = Tail(Scopes(s))
  <1> DEFINE P(u) == /\ Len(Scopes(u)) > 1 <=> Has(u, Unnamed)
                     /\ \A i \in DOMAIN u : First(u, Unnamed, i) =>
                          Scopes(SubSeq(u, i + 1, Len(u))) = Tail(Scopes(u))
             T == {u \in Seq(GoodEntry) : P(u)}
  <1>1. << >> \in T
    BY NoScopes DEF Has
  <1>2. ASSUME NEW u \in Seq(GoodEntry), u # << >>, Tail(u) \in T
        PROVE  u \in T
    <2> DEFINE t == Tail(u)
               c == u[1]
               e == Scopes(t)
    <2>1. /\ c \in GoodEntry /\ t \in Seq(GoodEntry) /\ e \in Stacks
          /\ Scopes(u) = Prepend(c, e)
      BY <1>2, FirstAndOthers, ScopesUnfold
    <2>2. P(t)
      BY <1>2
    <2>3. Len(e) \in Nat /\ Len(e) >= 1 /\ e \in Seq(Seq(Bindings))
      BY <2>1, StackShape
    <2> DEFINE p == Scopes(u)
    <2>0. /\ p = Prepend(c, e) /\ p \in Seq(Seq(Bindings))
          /\ Has(u, Unnamed) <=> c.name = Unnamed \/ Has(t, Unnamed)
      <3>1. p = Prepend(c, e) /\ p \in Stacks
        BY <1>2, <2>1, ScopesUnfold
      <3>2. Has(u, Unnamed) <=> c.name = Unnamed \/ Has(t, Unnamed)
        <4>1. ASSUME NEW i \in DOMAIN u, u[i].name = Unnamed, c.name # Unnamed
              PROVE  Has(t, Unnamed)
          <5>1. i - 1 \in DOMAIN t /\ t[i - 1] = u[i]
            BY <1>2, <4>1, FirstAndOthers
          <5> QED
            BY <4>1, <5>1 DEF Has
        <4>2. ASSUME NEW i \in DOMAIN t, t[i].name = Unnamed
              PROVE  Has(u, Unnamed)
          <5>1. i + 1 \in DOMAIN u /\ u[i + 1] = t[i]
            BY <1>2, FirstAndOthers
          <5> QED
            BY <4>2, <5>1 DEF Has
        <4>3. 1 \in DOMAIN u
          BY <1>2, FirstAndOthers
        <4> HIDE DEF t
        <4> QED
          BY <4>1, <4>2, <4>3 DEF Has
      <3> HIDE DEF p
      <3> QED
        BY <3>1, <3>2, StackShape
    <2>4. CASE c.name = Unnamed
      <3>1. Len(Scopes(u)) = Len(e) + 1 /\ Tail(Scopes(u)) = e
        <4> HIDE DEF c, e, p
        <4>1. Len(p) = Len(e) + 1 /\ Tail(p) = e
          BY <2>0, <2>1, <2>4, PrependMarker
        <4> QED
          BY <4>1 DEF p
      <3>2. Has(u, Unnamed)
        BY <1>2, <2>4, FirstAndOthers DEF Has
      <3>3. ASSUME NEW i \in DOMAIN u, First(u, Unnamed, i)
            PROVE  SubSeq(u, i + 1, Len(u)) = t
        <4>1. i = 1
          <5>1. i \in Nat /\ i >= 1
            BY <3>3
          <5> QED
            BY <2>4, <3>3, <5>1 DEF First
        <4> QED
          BY <1>2, <4>1, Suffix
      <3>4. Len(Scopes(u)) > 1
        <4> HIDE DEF e
        <4> QED
          BY <2>3, <3>1
      <3> HIDE DEF e, c, t, p
      <3>5. P(u)
        <4> SUFFICES ASSUME NEW i \in DOMAIN u, First(u, Unnamed, i)
                     PROVE  Scopes(SubSeq(u, i + 1, Len(u))) = Tail(Scopes(u))
          BY <3>2, <3>4
        <4>1. SubSeq(u, i + 1, Len(u)) = t
          BY <3>3
        <4> QED
          BY <3>1, <4>1 DEF e
      <3> QED
        BY <1>2, <3>5
    <2>5. CASE c.name # Unnamed
      <3>1. Len(Scopes(u)) = Len(e) /\ Tail(Scopes(u)) = Tail(e)
        <4> HIDE DEF c, e, p
        <4>1. Len(p) = Len(e) /\ \A k \in 2..Len(e) : p[k] = e[k]
          BY <2>0, <2>1, <2>5, PrependVariable
        <4>2. p # << >> /\ e # << >>
          BY <2>3, <4>1
        <4>3. /\ Tail(p) \in Seq(Seq(Bindings)) /\ Len(Tail(p)) = Len(e) - 1
              /\ Tail(e) \in Seq(Seq(Bindings)) /\ Len(Tail(e)) = Len(e) - 1
              /\ \A k \in 1..(Len(e) - 1) : Tail(p)[k] = p[k + 1] /\ Tail(e)[k] = e[k + 1]
          BY <2>0, <2>3, <4>1, <4>2, FirstAndOthers
        <4>4. \A k \in 1..(Len(e) - 1) : p[k + 1] = e[k + 1]
          BY <2>3, <4>1
        <4>5. Tail(p) = Tail(e)
          BY <4>3, <4>4, SameSequence
        <4> QED
          BY <4>1, <4>5 DEF p
      <3>4. Has(u, Unnamed) <=> Has(t, Unnamed)
        BY <2>0, <2>5
      <3>5. ASSUME NEW i \in DOMAIN u, First(u, Unnamed, i)
            PROVE  Scopes(SubSeq(u, i + 1, Len(u))) = Tail(Scopes(u))
        <4>1. i # 1 /\ i - 1 \in DOMAIN t /\ t[i - 1].name = Unnamed
          BY <1>2, <2>5, <3>5, FirstAndOthers DEF First
        <4>2. \A j \in 1..(i - 2) : t[j].name # Unnamed
          <5>1. \A j \in 1..(i - 2) : j \in DOMAIN t /\ j + 1 \in 1..(i - 1)
            BY <1>2, <4>1, FirstAndOthers
          <5> QED
            BY <1>2, <3>5, <5>1, FirstAndOthers DEF First
        <4>3. First(t, Unnamed, i - 1)
          <5>1. (i - 1) - 1 = i - 2
            BY <1>2, <4>1, FirstAndOthers
          <5> QED
            BY <4>1, <4>2, <5>1 DEF First
        <4>4. Scopes(SubSeq(t, (i - 1) + 1, Len(t))) = Tail(e)
          BY <2>2, <4>1, <4>3
        <4> QED
          BY <1>2, <3>1, <4>1, <4>4, Suffix
      <3> QED
        BY <1>2, <2>2, <3>1, <3>4, <3>5
    <2> QED
      BY <2>4, <2>5
  <1>3. Seq(GoodEntry) \subseteq T
    <2> HIDE DEF T
    <2> QED
      BY <1>1, <1>2, TailInduction
  <1> QED
    BY <1>3

(* The innermost scope holds the entries before the first marker.          *)
LEMMA InnermostScope ==
  ASSUME Unnamed \notin DefinableName, NEW s \in Seq(GoodEntry)
  PROVE  \A j \in 1..Len(s) :
           /\ j \in DOMAIN Scopes(s)[1] <=> \A i \in 1..j : s[i].name # Unnamed
           /\ j \in DOMAIN Scopes(s)[1] => Scopes(s)[1][j] = Binding(s[j])
  <1> DEFINE P(u) == \A j \in 1..Len(u) :
                       /\ j \in DOMAIN Scopes(u)[1] <=> \A i \in 1..j : u[i].name # Unnamed
                       /\ j \in DOMAIN Scopes(u)[1] => Scopes(u)[1][j] = Binding(u[j])
             T == {u \in Seq(GoodEntry) : P(u)}
  <1>1. << >> \in T
    OBVIOUS
  <1>2. ASSUME NEW u \in Seq(GoodEntry), u # << >>, Tail(u) \in T
        PROVE  u \in T
    <2> SUFFICES ASSUME NEW j \in 1..Len(u)
                 PROVE  /\ j \in DOMAIN Scopes(u)[1] <=> \A i \in 1..j : u[i].name # Unnamed
                        /\ j \in DOMAIN Scopes(u)[1] => Scopes(u)[1][j] = Binding(u[j])
      BY <1>2
    <2> DEFINE t == Tail(u)
               c == u[1]
               e == Scopes(t)
               f == e[1]
               g == Scopes(u)[1]
    <2>1. /\ c \in GoodEntry /\ t \in Seq(GoodEntry) /\ e \in Stacks
          /\ Scopes(u) = Prepend(c, e)
      BY <1>2, FirstAndOthers, ScopesUnfold
    <2>2. P(t)
      BY <1>2
    <2>3. Len(f) \in Nat /\ DOMAIN f = 1..Len(f) /\ Len(g) \in Nat /\ DOMAIN g = 1..Len(g)
      BY <1>2, <2>1, StackShape, ScopesUnfold
    <2>4. j \in Nat /\ j >= 1 /\ (j # 1 => j - 1 \in 1..Len(t) /\ t[j - 1] = u[j])
      BY <1>2, FirstAndOthers
    <2>5. (\A i \in 1..j : u[i].name # Unnamed)
            <=> c.name # Unnamed /\ \A i \in 1..(j - 1) : t[i].name # Unnamed
      <3>1. ASSUME NEW i \in 1..j, i # 1
            PROVE  i - 1 \in 1..(j - 1) /\ t[i - 1] = u[i]
        BY <1>2, <2>4, <3>1, FirstAndOthers
      <3>2. ASSUME NEW i \in 1..(j - 1)
            PROVE  i + 1 \in 1..j /\ t[i] = u[i + 1]
        BY <1>2, <2>4, FirstAndOthers
      <3>3. 1 \in 1..j
        BY <2>4
      <3> HIDE DEF t
      <3> QED
        BY <3>1, <3>2, <3>3
    <2>6. CASE c.name = Unnamed
      <3>1. g = << >>
        BY <2>1, <2>6, PrependMarker
      <3> QED
        BY <2>5, <2>6, <3>1
    <2>7. CASE c.name # Unnamed
      <3>1. /\ Len(g) = Len(f) + 1 /\ g[1] = Binding(c)
            /\ \A k \in DOMAIN f : g[k + 1] = f[k]
        <4> DEFINE p == Scopes(u)
        <4>1. p = Prepend(c, e)
          BY <2>1
        <4> HIDE DEF c, e, p
        <4>2. /\ Len(p[1]) = Len(e[1]) + 1 /\ p[1][1] = Binding(c)
              /\ \A k \in DOMAIN e[1] : p[1][k + 1] = e[1][k]
          BY <2>1, <2>7, <4>1, PrependVariable
        <4> QED
          BY <4>2 DEF p
      <3>2. CASE j = 1
        <4>1. j \in DOMAIN g /\ g[j] = Binding(u[j])
          BY <2>3, <3>1, <3>2
        <4> QED
          BY <2>5, <2>7, <3>2, <4>1
      <3>3. CASE j # 1
        <4>1. /\ j - 1 \in DOMAIN f <=> \A i \in 1..(j - 1) : t[i].name # Unnamed
              /\ j - 1 \in DOMAIN f => f[j - 1] = Binding(t[j - 1])
          BY <2>2, <2>4, <3>3
        <4>2. j \in DOMAIN g <=> j - 1 \in DOMAIN f
          BY <2>3, <2>4, <3>1, <3>3
        <4>3. j - 1 \in DOMAIN f => g[j] = f[j - 1]
          <5>1. (j - 1) + 1 = j
            BY <2>4
          <5> QED
            BY <3>1, <5>1
        <4> HIDE DEF t, f, g, c
        <4>4. (j \in DOMAIN g <=> \A i \in 1..j : u[i].name # Unnamed)
              /\ (j \in DOMAIN g => g[j] = Binding(u[j]))
          BY <2>4, <2>5, <2>7, <3>3, <4>1, <4>2, <4>3
        <4> QED
          BY <4>4 DEF g
      <3> QED
        BY <3>2, <3>3
    <2> QED
      BY <2>6, <2>7
  <1>3. Seq(GoodEntry) \subseteq T
    <2> HIDE DEF T
    <2> QED
      BY <1>1, <1>2, TailInduction
  <1> QED
    BY <1>3

(* The innermost scope is no longer than the store.                        *)
LEMMA InnermostLength ==
  ASSUME Unnamed \notin DefinableName, NEW s \in Seq(GoodEntry)
  PROVE  Len(Scopes(s)[1]) <= Len(s) /\ \A j \in DOMAIN Scopes(s)[1] : j \in 1..Len(s)
  <1> DEFINE T == {u \in Seq(GoodEntry) : Len(Scopes(u)[1]) <= Len(u)}
  <1>1. << >> \in T
    BY NoScopes
  <1>2. ASSUME NEW u \in Seq(GoodEntry), u # << >>, Tail(u) \in T
        PROVE  u \in T
    <2>1. /\ u[1] \in GoodEntry /\ Tail(u) \in Seq(GoodEntry) /\ Scopes(Tail(u)) \in Stacks
          /\ Scopes(u) = Prepend(u[1], Scopes(Tail(u)))
          /\ Len(Tail(u)) = Len(u) - 1 /\ Len(u) \in Nat /\ Len(u) >= 1
      <3>1. Len(u) \in Nat /\ Len(u) >= 1
        BY <1>2
      <3> QED
        BY <1>2, <3>1, FirstAndOthers, ScopesUnfold
    <2> DEFINE c == u[1]
               e == Scopes(Tail(u))
    <2>2. c \in GoodEntry /\ e \in Stacks /\ Len(e[1]) <= Len(u) - 1
      BY <1>2, <2>1
    <2>3. Scopes(u) = Prepend(c, e)
      BY <2>1
    <2> HIDE DEF c, e
    <2>4. Len(e[1]) \in Nat
      BY <2>2, StackShape
    <2>5. CASE c.name = Unnamed
      BY <1>2, <2>1, <2>2, <2>3, <2>5, PrependMarker
    <2>6. CASE c.name # Unnamed
      <3>1. Len(Prepend(c, e)[1]) = Len(e[1]) + 1
        BY <2>2, <2>6, PrependVariable
      <3> QED
        BY <1>2, <2>1, <2>2, <2>3, <2>4, <3>1
    <2> QED
      BY <2>5, <2>6
  <1>3. Seq(GoodEntry) \subseteq T
    <2> HIDE DEF T
    <2> QED
      BY <1>1, <1>2, TailInduction
  <1>4. Len(Scopes(s)[1]) <= Len(s)
    BY <1>3
  <1>5. Scopes(s)[1] \in Seq(Bindings)
    BY ScopesUnfold, StackShape
  <1> QED
    BY <1>4, <1>5

--------------------------------------------------------------------------------
(* Replacing one binding.                                                  *)
Replace(e, k, j, b) == [e EXCEPT ![k] = [@ EXCEPT ![j] = b]]

(* x differs from e in binding j of scope k only, which is b. *)
Replaced(e, k, j, b, x) ==
  /\ Len(x) = Len(e)
  /\ \A h \in 1..Len(e) : h # k => x[h] = e[h]
  /\ Len(x[k]) = Len(e[k])
  /\ \A m \in 1..Len(e[k]) : m # j => x[k][m] = e[k][m]
  /\ x[k][j] = b

(* What replacing a binding leaves alone and what it changes.              *)
LEMMA ReplaceIs ==
  ASSUME NEW e \in Stacks, NEW k \in 1..Len(e), NEW j \in 1..Len(e[k]), NEW b \in Bindings
  PROVE  /\ Replace(e, k, j, b) \in Stacks
         /\ Replaced(e, k, j, b, Replace(e, k, j, b))
         /\ \A x \in Stacks : Replaced(e, k, j, b, x) => x = Replace(e, k, j, b)
  <1> DEFINE f == [e[k] EXCEPT ![j] = b]
             r == [e EXCEPT ![k] = f]
  <1>1. Replace(e, k, j, b) = r
    BY DEF Replace
  <1>2. e \in Seq(Seq(Bindings)) /\ Len(e) >= 1 /\ k \in DOMAIN e
    BY StackShape
  <1>3. e[k] \in Seq(Bindings)
    BY StackShape
  <1>4. /\ f \in Seq(Bindings) /\ Len(f) = Len(e[k]) /\ f[j] = b
        /\ \A m \in 1..Len(e[k]) : m # j => f[m] = e[k][m]
    <2> DEFINE g == e[k]
    <2>1. g \in Seq(Bindings) /\ j \in 1..Len(g)
      BY <1>3
    <2> HIDE DEF g
    <2>2. /\ [g EXCEPT ![j] = b] \in Seq(Bindings) /\ Len([g EXCEPT ![j] = b]) = Len(g)
          /\ [g EXCEPT ![j] = b][j] = b
          /\ \A m \in 1..Len(g) : m # j => [g EXCEPT ![j] = b][m] = g[m]
      BY <2>1
    <2> QED
      BY <2>2 DEF g
  <1> HIDE DEF f
  <1>5. /\ r \in Seq(Seq(Bindings)) /\ Len(r) = Len(e) /\ r[k] = f
        /\ \A h \in 1..Len(e) : h # k => r[h] = e[h]
    BY <1>2, <1>4
  <1> HIDE DEF r
  <1>6. r \in Stacks
    BY <1>2, <1>5 DEF Stacks
  <1>7. Replaced(e, k, j, b, r)
    BY <1>4, <1>5 DEF Replaced
  <1>8. ASSUME NEW x \in Stacks, Replaced(e, k, j, b, x)
        PROVE  x = r
    <2>1. x \in Seq(Seq(Bindings)) /\ k \in 1..Len(x) /\ x[k] \in Seq(Bindings)
      BY <1>2, <1>8, StackShape DEF Replaced
    <2>2. x[k] = f
      <3>1. \A m \in 1..Len(x[k]) : x[k][m] = f[m]
        BY <1>4, <1>8 DEF Replaced
      <3>2. Len(x[k]) = Len(f)
        BY <1>4, <1>8 DEF Replaced
      <3> QED
        BY <1>4, <2>1, <3>1, <3>2, SameSequence
    <2>3. Len(x) = Len(r) /\ \A h \in 1..Len(x) : x[h] = r[h]
      BY <1>5, <1>8, <2>2 DEF Replaced
    <2> QED
      BY <1>5, <2>1, <2>3, SameSequence
  <1> QED
    BY <1>1, <1>6, <1>7, <1>8

(* The replaced binding moves when an entry is prepended.                  *)
LEMMA PrependReplace ==
  ASSUME Unnamed \notin DefinableName, NEW c \in GoodEntry,
         NEW e \in Stacks, NEW k \in 1..Len(e), NEW j \in 1..Len(e[k]), NEW b \in Bindings
  PROVE  /\ c.name = Unnamed =>
              Prepend(c, Replace(e, k, j, b)) = Replace(Prepend(c, e), k + 1, j, b)
         /\ c.name # Unnamed /\ k # 1 =>
              Prepend(c, Replace(e, k, j, b)) = Replace(Prepend(c, e), k, j, b)
         /\ c.name # Unnamed /\ k = 1 =>
              Prepend(c, Replace(e, k, j, b)) = Replace(Prepend(c, e), k, j + 1, b)
  <1> DEFINE r == Replace(e, k, j, b)
             p == Prepend(c, e)
             x == Prepend(c, r)
  <1>1. r \in Stacks /\ Replaced(e, k, j, b, r)
    BY ReplaceIs
  <1>2. p \in Stacks /\ x \in Stacks
    BY <1>1, PrependType
  <1>3. /\ Len(r) = Len(e) /\ Len(e) \in Nat /\ k \in Nat /\ k >= 1 /\ k <= Len(e)
        /\ \A h \in 1..Len(e) : h # k => r[h] = e[h]
        /\ Len(r[k]) = Len(e[k]) /\ Len(e[k]) \in Nat
        /\ \A m \in 1..Len(e[k]) : m # j => r[k][m] = e[k][m]
        /\ r[k][j] = b
    BY <1>1, StackShape DEF Replaced
  <1>4. Len(e[1]) \in Nat /\ DOMAIN e = 1..Len(e) /\ DOMAIN e[1] = 1..Len(e[1])
        /\ DOMAIN r = 1..Len(e) /\ DOMAIN r[1] = 1..Len(r[1])
    BY <1>1, <1>3, StackShape
  <1>5. CASE c.name = Unnamed
    <2>1. /\ Len(p) = Len(e) + 1 /\ p[1] = << >> /\ \A h \in DOMAIN e : p[h + 1] = e[h]
          /\ Len(x) = Len(r) + 1 /\ x[1] = << >> /\ \A h \in DOMAIN r : x[h + 1] = r[h]
      BY <1>1, <1>5, PrependMarker
    <2> HIDE DEF r, p, x
    <2>2. p[k + 1] = e[k] /\ x[k + 1] = r[k] /\ k + 1 \in 1..Len(p)
      BY <1>3, <1>4, <2>1
    <2>3. \A h \in 1..Len(p) : h # k + 1 => x[h] = p[h]
      <3>1. ASSUME NEW h \in 1..Len(p), h # k + 1, h # 1
            PROVE  x[h] = p[h]
        <4>1. h - 1 \in 1..Len(e) /\ (h - 1) + 1 = h /\ h - 1 # k
          BY <1>3, <2>1, <3>1
        <4>2. x[(h - 1) + 1] = r[h - 1] /\ p[(h - 1) + 1] = e[h - 1]
          BY <1>3, <1>4, <2>1, <4>1
        <4>3. r[h - 1] = e[h - 1]
          BY <1>3, <4>1
        <4> QED
          BY <4>1, <4>2, <4>3
      <3> QED
        BY <2>1, <3>1
    <2>4. Replaced(p, k + 1, j, b, x)
      BY <1>3, <2>1, <2>2, <2>3 DEF Replaced
    <2>5. j \in 1..Len(p[k + 1])
      BY <2>2
    <2>6. x = Replace(p, k + 1, j, b)
      BY <1>2, <2>2, <2>4, <2>5, ReplaceIs
    <2> QED
      BY <1>5, <2>6 DEF r, p, x
  <1>6. CASE c.name # Unnamed
    <2>1. /\ Len(p) = Len(e) /\ p[1][1] = Binding(c) /\ Len(p[1]) = Len(e[1]) + 1
          /\ \A m \in DOMAIN e[1] : p[1][m + 1] = e[1][m]
          /\ \A h \in 2..Len(e) : p[h] = e[h]
          /\ p[1] = <<Binding(c)>> \o e[1]
      BY <1>6, PrependVariable
    <2>2. /\ Len(x) = Len(r) /\ x[1][1] = Binding(c) /\ Len(x[1]) = Len(r[1]) + 1
          /\ \A m \in DOMAIN r[1] : x[1][m + 1] = r[1][m]
          /\ \A h \in 2..Len(r) : x[h] = r[h]
          /\ x[1] = <<Binding(c)>> \o r[1]
      <3> HIDE DEF r
      <3> QED
        BY <1>1, <1>6, PrependVariable
    <2> HIDE DEF r, p, x
    <2>3. CASE k # 1
      <3>1. k \in 2..Len(e) /\ 1 \in 1..Len(e)
        BY <1>3, <2>3
      <3>2. p[k] = e[k] /\ x[k] = r[k] /\ x[1] = p[1]
        BY <1>3, <2>1, <2>2, <2>3, <3>1
      <3>3. \A h \in 1..Len(p) : h # k => x[h] = p[h]
        <4>1. \A h \in 1..Len(p) : h = 1 \/ h \in 2..Len(e)
          BY <1>3, <2>1
        <4> QED
          BY <1>3, <2>1, <2>2, <3>2, <4>1
      <3>4. Replaced(p, k, j, b, x)
        BY <1>3, <2>1, <2>2, <3>2, <3>3 DEF Replaced
      <3>5. k \in 1..Len(p) /\ j \in 1..Len(p[k])
        BY <2>1, <3>2
      <3>6. x = Replace(p, k, j, b)
        BY <1>2, <3>4, <3>5, ReplaceIs
      <3> QED
        BY <1>6, <2>3, <3>6 DEF r, p, x
    <2>4. CASE k = 1
      <3>1. Len(x[1]) = Len(p[1]) /\ j + 1 \in 1..Len(p[1]) /\ 1 \in 1..Len(p)
        <4>1. Len(r[1]) = Len(e[1]) /\ j \in 1..Len(e[1])
          BY <1>3, <2>4
        <4>2. Len(x[1]) = Len(e[1]) + 1 /\ Len(p[1]) = Len(e[1]) + 1
          BY <2>1, <2>2, <4>1
        <4> QED
          BY <1>3, <1>4, <2>1, <4>1, <4>2
      <3>2. \A m \in 1..Len(p[1]) : m # j + 1 => x[1][m] = p[1][m]
        <4>1. ASSUME NEW m \in 1..Len(p[1]), m # j + 1, m # 1
              PROVE  x[1][m] = p[1][m]
          <5>1. m - 1 \in 1..Len(e[1]) /\ m - 1 # j /\ (m - 1) + 1 = m
            BY <1>3, <1>4, <2>1, <4>1
          <5>2. x[1][m] = r[1][m - 1] /\ p[1][m] = e[1][m - 1]
            BY <1>3, <1>4, <2>1, <2>2, <2>4, <5>1
          <5> QED
            BY <1>3, <2>4, <5>1, <5>2
        <4> QED
          BY <2>1, <2>2, <4>1
      <3>3. x[1][j + 1] = b
        BY <1>3, <1>4, <2>2, <2>4
      <3>4. \A h \in 1..Len(p) : h # 1 => x[h] = p[h]
        <4>1. \A h \in 1..Len(p) : h = 1 \/ h \in 2..Len(e)
          BY <1>3, <2>1
        <4> QED
          BY <1>3, <2>1, <2>2, <2>4, <4>1
      <3>5. Len(x) = Len(p)
        BY <1>3, <2>1, <2>2
      <3>6. Replaced(p, 1, j + 1, b, x)
        BY <3>1, <3>2, <3>3, <3>4, <3>5 DEF Replaced
      <3>7. x = Replace(p, 1, j + 1, b)
        BY <1>2, <3>1, <3>6, ReplaceIs
      <3> QED
        BY <1>6, <2>4, <3>7 DEF r, p, x
    <2> QED
      BY <2>3, <2>4
  <1> QED
    BY <1>5, <1>6

(* In a stack with one more variable, other bindings are replaced as       *)
(* before.                                                                 *)
LEMMA PrependOther ==
  ASSUME Unnamed \notin DefinableName, NEW c \in GoodEntry, NEW c2 \in GoodEntry,
         c.name # Unnamed, c2.name # Unnamed, NEW e \in Stacks
  PROVE  Prepend(c2, e) = Replace(Prepend(c, e), 1, 1, Binding(c2))
  <1> DEFINE p == Prepend(c, e)
             x == Prepend(c2, e)
  <1>1. p \in Stacks /\ x \in Stacks
    BY PrependType
  <1>2. /\ Len(p) = Len(e) /\ Len(p[1]) = Len(e[1]) + 1
        /\ \A m \in DOMAIN e[1] : p[1][m + 1] = e[1][m]
        /\ \A h \in 2..Len(e) : p[h] = e[h]
    BY PrependVariable
  <1>3. /\ Len(x) = Len(e) /\ x[1][1] = Binding(c2) /\ Len(x[1]) = Len(e[1]) + 1
        /\ \A m \in DOMAIN e[1] : x[1][m + 1] = e[1][m]
        /\ \A h \in 2..Len(e) : x[h] = e[h]
    BY PrependVariable
  <1>4. Len(e) \in Nat /\ Len(e) >= 1 /\ Len(e[1]) \in Nat /\ DOMAIN e[1] = 1..Len(e[1])
    BY StackShape
  <1>5. Binding(c2) \in Bindings
    BY EntryParts DEF Binding, Bindings
  <1> HIDE DEF p, x
  <1>6. \A m \in 1..Len(p[1]) : m # 1 => x[1][m] = p[1][m]
    <2> SUFFICES ASSUME NEW m \in 1..Len(p[1]), m # 1
                 PROVE  x[1][m] = p[1][m]
      OBVIOUS
    <2>1. m - 1 \in 1..Len(e[1]) /\ (m - 1) + 1 = m
      BY <1>2, <1>4
    <2>2. x[1][(m - 1) + 1] = e[1][m - 1] /\ p[1][(m - 1) + 1] = e[1][m - 1]
      BY <1>2, <1>3, <1>4, <2>1
    <2> QED
      BY <2>1, <2>2
  <1>7. Replaced(p, 1, 1, Binding(c2), x)
    <2>1. \A h \in 1..Len(p) : h # 1 => x[h] = p[h]
      BY <1>2, <1>3, <1>4
    <2> QED
      BY <1>2, <1>3, <1>6, <2>1 DEF Replaced
  <1>8. 1 \in 1..Len(p) /\ 1 \in 1..Len(p[1])
    BY <1>2, <1>4
  <1>9. x = Replace(p, 1, 1, Binding(c2))
    BY <1>1, <1>5, <1>7, <1>8, ReplaceIs
  <1> QED
    BY <1>9 DEF p, x

(* Which binding a name refers to, when an entry is prepended.             *)
LEMMA PrependResolves ==
  ASSUME Unnamed \notin DefinableName, NEW c \in GoodEntry, NEW e \in Stacks, NEW n \in Name,
         NEW k, NEW j, Stack!Resolves(e, n, k, j)
  PROVE  /\ c.name = Unnamed => /\ Stack!Resolves(Prepend(c, e), n, k + 1, j)
                                /\ Prepend(c, e)[k + 1][j] = e[k][j]
         /\ c.name \notin {n, Unnamed} /\ k # 1 =>
              /\ Stack!Resolves(Prepend(c, e), n, k, j)
              /\ Prepend(c, e)[k][j] = e[k][j]
         /\ c.name \notin {n, Unnamed} /\ k = 1 =>
              /\ Stack!Resolves(Prepend(c, e), n, k, j + 1)
              /\ Prepend(c, e)[k][j + 1] = e[k][j]
  <1> DEFINE p == Prepend(c, e)
  <1>1. /\ p \in Stacks /\ Len(p) \in Nat /\ DOMAIN p = 1..Len(p)
        /\ \A h \in 1..Len(p) : DOMAIN p[h] = 1..Len(p[h]) /\ Len(p[h]) \in Nat
    BY PrependType, StackShape
  <1>2. /\ Len(e) \in Nat /\ Len(e) >= 1 /\ DOMAIN e = 1..Len(e)
        /\ \A h \in 1..Len(e) : DOMAIN e[h] = 1..Len(e[h]) /\ Len(e[h]) \in Nat
    BY StackShape
  <1>3. /\ k \in 1..Len(e) /\ j \in 1..Len(e[k]) /\ e[k][j].name = n
        /\ \A h \in 1..(k - 1) : ~Stack!Binds(e[h], n)
        /\ \A m \in 1..(j - 1) : e[k][m].name # n
    BY <1>2 DEF Stack!Resolves
  <1>4. CASE c.name = Unnamed
    <2>1. /\ Len(p) = Len(e) + 1 /\ p[1] = << >> /\ \A h \in 1..Len(e) : p[h + 1] = e[h]
      <3>1. Len(p) = Len(e) + 1 /\ p[1] = << >> /\ \A h \in DOMAIN e : p[h + 1] = e[h]
        BY <1>4, PrependMarker
      <3> HIDE DEF p
      <3> QED
        BY <1>2, <3>1
    <2> HIDE DEF p
    <2>2. p[k + 1] = e[k] /\ k + 1 \in DOMAIN p
      BY <1>1, <1>2, <1>3, <2>1
    <2>3. ASSUME NEW h \in 1..((k + 1) - 1)
          PROVE  ~Stack!Binds(p[h], n)
      <3>1. CASE h = 1
        BY <2>1, <3>1 DEF Stack!Binds
      <3>2. CASE h # 1
        <4>1. h - 1 \in 1..(k - 1) /\ h - 1 \in 1..Len(e) /\ (h - 1) + 1 = h
          BY <1>2, <1>3, <3>2
        <4>2. p[h] = e[h - 1]
          BY <2>1, <4>1
        <4> QED
          BY <1>3, <4>1, <4>2
      <3> QED
        BY <3>1, <3>2
    <2>4. Stack!Resolves(p, n, k + 1, j) /\ p[k + 1][j] = e[k][j]
      BY <1>2, <1>3, <2>2, <2>3 DEF Stack!Resolves
    <2> QED
      BY <1>4, <2>4 DEF p
  <1>5. CASE c.name \notin {n, Unnamed}
    <2>1. /\ Len(p) = Len(e) /\ Len(p[1]) = Len(e[1]) + 1 /\ p[1][1].name = c.name
          /\ \A m \in 1..Len(e[1]) : p[1][m + 1] = e[1][m]
          /\ \A h \in 2..Len(e) : p[h] = e[h]
      <3>1. Binding(c).name = c.name
        BY DEF Binding
      <3>2. 1 \in 1..Len(e)
        BY <1>2
      <3> QED
        BY <1>2, <1>5, <3>1, <3>2, PrependVariable
    <2> HIDE DEF p
    <2>2. 1 \in 1..Len(e) /\ 1 \in 1..Len(p)
      BY <1>2, <2>1
    <2>3. \A m \in 1..Len(p[1]) : m = 1 \/ (m - 1 \in 1..Len(e[1]) /\ p[1][m] = e[1][m - 1])
      <3> SUFFICES ASSUME NEW m \in 1..Len(p[1]), m # 1
                   PROVE  m - 1 \in 1..Len(e[1]) /\ p[1][m] = e[1][m - 1]
        OBVIOUS
      <3>1. m - 1 \in 1..Len(e[1]) /\ (m - 1) + 1 = m
        BY <1>2, <2>1, <2>2
      <3>2. p[1][(m - 1) + 1] = e[1][m - 1]
        BY <2>1, <3>1
      <3> QED
        BY <3>1, <3>2
    <2>4. CASE k # 1
      <3>1. p[k] = e[k] /\ k \in DOMAIN p
        BY <1>1, <1>2, <1>3, <2>1, <2>4
      <3>2. ~Stack!Binds(p[1], n)
        <4>1. ~Stack!Binds(e[1], n)
          BY <1>2, <1>3, <2>4
        <4>2. ASSUME NEW m \in 1..Len(p[1])
              PROVE  p[1][m].name # n
          <5>1. CASE m = 1
            BY <1>5, <2>1, <5>1
          <5>2. CASE m # 1
            BY <1>2, <2>2, <2>3, <4>1, <5>2 DEF Stack!Binds
          <5> QED
            BY <5>1, <5>2
        <4> QED
          BY <1>1, <2>2, <4>2 DEF Stack!Binds
      <3>3. \A h \in 1..(k - 1) : ~Stack!Binds(p[h], n)
        <4> SUFFICES ASSUME NEW h \in 1..(k - 1), h # 1
                     PROVE  ~Stack!Binds(p[h], n)
          BY <3>2
        <4>1. p[h] = e[h]
          BY <1>2, <1>3, <2>1
        <4> QED
          BY <1>3, <4>1
      <3>4. Stack!Resolves(p, n, k, j) /\ p[k][j] = e[k][j]
        BY <1>2, <1>3, <3>1, <3>3 DEF Stack!Resolves
      <3> QED
        BY <1>5, <2>4, <3>4 DEF p
    <2>5. CASE k = 1
      <3>1. j + 1 \in 1..Len(p[1]) /\ p[1][j + 1] = e[1][j] /\ (j + 1) - 1 = j /\ j \in Nat
        BY <1>2, <1>3, <2>1, <2>2, <2>5
      <3>2. \A m \in 1..j : p[1][m].name # n
        <4> SUFFICES ASSUME NEW m \in 1..j, m # 1
                     PROVE  p[1][m].name # n
          BY <1>5, <2>1
        <4>1. m \in 1..Len(p[1]) /\ m - 1 \in 1..(j - 1)
          BY <1>1, <2>2, <3>1
        <4>2. p[1][m] = e[1][m - 1]
          BY <2>3, <4>1
        <4> QED
          BY <1>3, <2>5, <4>1, <4>2
      <3>3. \A h \in 1..(1 - 1) : ~Stack!Binds(p[h], n)
        OBVIOUS
      <3>4. 1 \in DOMAIN p /\ j + 1 \in DOMAIN p[1]
        BY <1>1, <2>2, <3>1
      <3>5. p[1][j + 1].name = n
        BY <1>3, <2>5, <3>1
      <3>6. Stack!Resolves(p, n, 1, j + 1) /\ p[1][j + 1] = e[1][j]
        BY <3>1, <3>2, <3>3, <3>4, <3>5 DEF Stack!Resolves
      <3> QED
        BY <1>5, <2>5, <3>6 DEF p
    <2> QED
      BY <2>4, <2>5
  <1> QED
    BY <1>4, <1>5

(* ... and the new one is where its own name leads.                        *)
LEMMA PrependFound ==
  ASSUME Unnamed \notin DefinableName, NEW c \in GoodEntry, NEW e \in Stacks, c.name \in Name
  PROVE  Stack!Resolves(Prepend(c, e), c.name, 1, 1) /\ Prepend(c, e)[1][1] = Binding(c)
  <1>1. c.name # Unnamed
    BY UnnamedAssumption
  <1>2. /\ Len(Prepend(c, e)) = Len(e) /\ Len(Prepend(c, e)[1]) = Len(e[1]) + 1
        /\ Prepend(c, e)[1][1] = Binding(c)
    BY <1>1, PrependVariable
  <1>3. Len(e) \in Nat /\ Len(e) >= 1 /\ Len(e[1]) \in Nat
    BY StackShape
  <1>4. Prepend(c, e) \in Stacks
    BY PrependType
  <1> DEFINE p == Prepend(c, e)
  <1> HIDE DEF p
  <1>5. 1 \in DOMAIN p /\ 1 \in DOMAIN p[1]
    BY <1>2, <1>3, <1>4, StackShape DEF p
  <1>6. p[1][1].name = c.name
    BY <1>2 DEF Binding, p
  <1>7. (\A h \in 1..(1 - 1) : ~Stack!Binds(p[h], c.name)) /\ \A m \in 1..(1 - 1) : p[1][m].name # c.name
    OBVIOUS
  <1>8. Stack!Resolves(p, c.name, 1, 1)
    BY <1>5, <1>6, <1>7 DEF Stack!Resolves
  <1> QED
    BY <1>2, <1>8 DEF p

(* Where the entry that the search loops find is in the scopes.            *)
Located(s, n, i, k, j) ==
  /\ Stack!Resolves(Scopes(s), n, k, j)
  /\ Scopes(s)[k][j] = Binding(s[i])
  /\ \A c \in GoodEntry : c.name = n =>
       Scopes([s EXCEPT ![i] = c]) = Replace(Scopes(s), k, j, Binding(c))

(* Replacing the first binding of the first scope.                         *)
LEMMA HeadChanged ==
  ASSUME NEW E, NEW s \in Seq(E), s # << >>, NEW i \in DOMAIN s, NEW c \in E
  PROVE  /\ [s EXCEPT ![i] = c] \in Seq(E) /\ [s EXCEPT ![i] = c] # << >>
         /\ i = 1 => [s EXCEPT ![i] = c][1] = c /\ Tail([s EXCEPT ![i] = c]) = Tail(s)
         /\ i # 1 => /\ [s EXCEPT ![i] = c][1] = s[1]
                     /\ Tail([s EXCEPT ![i] = c]) = [Tail(s) EXCEPT ![i - 1] = c]
  <1> DEFINE x == [s EXCEPT ![i] = c]
             t == Tail(s)
             y == [t EXCEPT ![i - 1] = c]
  <1>1. Len(s) \in Nat /\ i \in 1..Len(s) /\ Len(s) >= 1
        /\ t \in Seq(E) /\ Len(t) = Len(s) - 1 /\ \A m \in 1..Len(t) : t[m] = s[m + 1]
    BY FirstAndOthers
  <1>2. x \in Seq(E) /\ Len(x) = Len(s) /\ x[i] = c /\ \A m \in 1..Len(s) : m # i => x[m] = s[m]
    BY <1>1
  <1> HIDE DEF x
  <1>3. x # << >>
    BY <1>1, <1>2
  <1>4. Tail(x) \in Seq(E) /\ Len(Tail(x)) = Len(s) - 1 /\ \A m \in 1..Len(t) : Tail(x)[m] = x[m + 1]
    BY <1>1, <1>2, <1>3, FirstAndOthers
  <1> HIDE DEF t
  <1>5. ASSUME i = 1
        PROVE  Tail(x) = t
    <2>1. \A m \in 1..Len(t) : Tail(x)[m] = t[m]
      BY <1>1, <1>2, <1>4, <1>5
    <2> QED
      BY <1>1, <1>4, <2>1, SameSequence
  <1>6. ASSUME i # 1
        PROVE  x[1] = s[1] /\ Tail(x) = y
    <2>1. i - 1 \in 1..Len(t) /\ (i - 1) + 1 = i
      BY <1>1, <1>6
    <2>2. y \in Seq(E) /\ Len(y) = Len(t) /\ y[i - 1] = c /\ \A m \in 1..Len(t) : m # i - 1 => y[m] = t[m]
      BY <1>1, <2>1
    <2> HIDE DEF y
    <2>3. \A m \in 1..Len(t) : Tail(x)[m] = y[m]
      <3> SUFFICES ASSUME NEW m \in 1..Len(t) PROVE Tail(x)[m] = y[m]
        OBVIOUS
      <3>1. CASE m = i - 1
        BY <1>2, <1>4, <2>1, <2>2, <3>1
      <3>2. CASE m # i - 1
        <4>1. m + 1 # i /\ m + 1 \in 1..Len(s)
          BY <1>1, <2>1, <3>2
        <4> QED
          BY <1>1, <1>2, <1>4, <2>2, <3>2, <4>1
      <3> QED
        BY <3>1, <3>2
    <2>4. Tail(x) = y
      BY <1>1, <1>4, <2>2, <2>3, SameSequence
    <2> QED
      BY <1>1, <1>2, <1>6, <2>4
  <1> QED
    BY <1>2, <1>3, <1>5, <1>6 DEF x, y, t

(* The first entry of a name is the binding the name refers to.            *)
LEMMA FoundInScopes ==
  ASSUME Unnamed \notin DefinableName, NEW s \in Seq(GoodEntry), NEW n \in Name,
         NEW i \in DOMAIN s, First(s, n, i)
  PROVE  \E k, j : Located(s, n, i, k, j)
  <1> DEFINE T == {u \in Seq(GoodEntry) : \A h \in DOMAIN u : First(u, n, h) =>
                     \E k, j : Located(u, n, h, k, j)}
  <1>1. << >> \in T
    OBVIOUS
  <1>2. ASSUME NEW u \in Seq(GoodEntry), u # << >>, Tail(u) \in T
        PROVE  u \in T
    <2> SUFFICES ASSUME NEW h \in DOMAIN u, First(u, n, h)
                 PROVE  \E k, j : Located(u, n, h, k, j)
      BY <1>2
    <2> DEFINE t == Tail(u)
               c == u[1]
               e == Scopes(t)
               p == Scopes(u)
    <2>1. /\ c \in GoodEntry /\ t \in Seq(GoodEntry) /\ e \in Stacks /\ p \in Stacks
          /\ p = Prepend(c, e)
      BY <1>2, FirstAndOthers, ScopesUnfold
    <2>2. n # Unnamed
      BY UnnamedAssumption
    <2>3. ASSUME NEW d \in GoodEntry
          PROVE  /\ h = 1 => Scopes([u EXCEPT ![h] = d]) = Prepend(d, e)
                 /\ h # 1 => Scopes([u EXCEPT ![h] = d]) = Prepend(c, Scopes([t EXCEPT ![h - 1] = d]))
      <3> DEFINE x == [u EXCEPT ![h] = d]
      <3>1. /\ x \in Seq(GoodEntry) /\ x # << >>
            /\ h = 1 => x[1] = d /\ Tail(x) = t
            /\ h # 1 => x[1] = c /\ Tail(x) = [t EXCEPT ![h - 1] = d]
        BY <1>2, HeadChanged
      <3> HIDE DEF x, t, c
      <3>2. Scopes(x) = Prepend(x[1], Scopes(Tail(x)))
        BY <3>1, ScopesUnfold
      <3> QED
        BY <3>1, <3>2 DEF x
    <2>4. CASE h = 1
      <3> HIDE DEF c, e, p
      <3>1. c.name = n
        BY <2>4 DEF First, c
      <3>2. Stack!Resolves(p, n, 1, 1) /\ p[1][1] = Binding(c)
        BY <2>1, <3>1, PrependFound
      <3>3. ASSUME NEW d \in GoodEntry, d.name = n
            PROVE  Scopes([u EXCEPT ![h] = d]) = Replace(p, 1, 1, Binding(d))
        <4>1. Prepend(d, e) = Replace(Prepend(c, e), 1, 1, Binding(d))
          BY <2>1, <2>2, <3>1, <3>3, PrependOther
        <4> QED
          BY <2>1, <2>3, <2>4, <4>1
      <3>4. Located(u, n, h, 1, 1)
        BY <2>4, <3>2, <3>3 DEF Located, p, c
      <3> QED
        BY <3>4
    <2>5. CASE h # 1
      <3>1. h - 1 \in DOMAIN t /\ t[h - 1] = u[h] /\ c.name # n /\ First(t, n, h - 1)
        <4>1. /\ h - 1 \in DOMAIN t /\ t[h - 1] = u[h] /\ h \in Nat /\ h >= 1 /\ h <= Len(u)
              /\ \A m \in DOMAIN t : t[m] = u[m + 1]
              /\ DOMAIN t = 1..(Len(u) - 1) /\ Len(u) \in Nat
          BY <1>2, <2>5, FirstAndOthers
        <4>2. u[h].name = n /\ \A m \in 1..(h - 1) : u[m].name # n
          BY DEF First
        <4> HIDE DEF t
        <4>3. \A m \in 1..((h - 1) - 1) : t[m].name # n
          <5> SUFFICES ASSUME NEW m \in 1..((h - 1) - 1) PROVE t[m].name # n
            OBVIOUS
          <5>1. m + 1 \in 1..(h - 1) /\ m \in DOMAIN t
            BY <4>1
          <5> QED
            BY <4>1, <4>2, <5>1
        <4>4. 1 \in 1..(h - 1)
          BY <2>5, <4>1
        <4> QED
          BY <4>1, <4>2, <4>3, <4>4 DEF First
      <3>2. PICK k, j : Located(t, n, h - 1, k, j)
        BY <1>2, <3>1
      <3>3. /\ Stack!Resolves(e, n, k, j) /\ e[k][j] = Binding(u[h])
            /\ \A d \in GoodEntry : d.name = n =>
                 Scopes([t EXCEPT ![h - 1] = d]) = Replace(e, k, j, Binding(d))
        BY <3>1, <3>2 DEF Located
      <3>4. k \in 1..Len(e) /\ j \in 1..Len(e[k])
        <4> HIDE DEF e
        <4>1. k \in DOMAIN e /\ j \in DOMAIN e[k]
          BY <3>3 DEF Stack!Resolves
        <4> QED
          BY <2>1, <4>1, StackShape
      <3> DEFINE k2 == IF c.name = Unnamed THEN k + 1 ELSE k
                 j2 == IF c.name # Unnamed /\ k = 1 THEN j + 1 ELSE j
      <3> HIDE DEF c, e, p, t
      <3>5. Stack!Resolves(p, n, k2, j2) /\ p[k2][j2] = e[k][j]
        <4>1. CASE c.name = Unnamed
          BY <2>1, <3>3, <4>1, PrependResolves
        <4>2. CASE c.name # Unnamed /\ k # 1
          BY <2>1, <3>1, <3>3, <4>2, PrependResolves
        <4>3. CASE c.name # Unnamed /\ k = 1
          BY <2>1, <3>1, <3>3, <4>3, PrependResolves
        <4> QED
          BY <4>1, <4>2, <4>3
      <3>6. ASSUME NEW d \in GoodEntry, d.name = n
            PROVE  Scopes([u EXCEPT ![h] = d]) = Replace(p, k2, j2, Binding(d))
        <4> DEFINE b == Binding(d)
        <4>1. b \in Bindings
          BY <2>2, <3>6, EntryParts DEF Binding, Bindings
        <4>2. Scopes([u EXCEPT ![h] = d]) = Prepend(c, Replace(e, k, j, b))
          BY <2>3, <2>5, <3>3, <3>6
        <4> HIDE DEF b
        <4>3. CASE c.name = Unnamed
          BY <2>1, <3>4, <4>1, <4>2, <4>3, PrependReplace DEF b
        <4>4. CASE c.name # Unnamed /\ k # 1
          BY <2>1, <3>4, <4>1, <4>2, <4>4, PrependReplace DEF b
        <4>5. CASE c.name # Unnamed /\ k = 1
          BY <2>1, <3>4, <4>1, <4>2, <4>5, PrependReplace DEF b
        <4> QED
          BY <4>3, <4>4, <4>5
      <3>7. Located(u, n, h, k2, j2)
        BY <3>3, <3>5, <3>6 DEF Located, p
      <3> QED
        BY <3>7
    <2> QED
      BY <2>4, <2>5
  <1>3. Seq(GoodEntry) \subseteq T
    <2> HIDE DEF T
    <2> QED
      BY <1>1, <1>2, TailInduction
  <1> QED
    BY <1>3

(* The search loops find a name exactly if some scope binds it.            *)
LEMMA PrependBound ==
  ASSUME Unnamed \notin DefinableName, NEW c \in GoodEntry, NEW e \in Stacks, NEW n \in Name
  PROVE  Stack!Bound(Prepend(c, e), n) => c.name = n \/ Stack!Bound(e, n)
  <1> SUFFICES ASSUME Stack!Bound(Prepend(c, e), n), c.name # n
               PROVE  Stack!Bound(e, n)
    OBVIOUS
  <1> DEFINE p == Prepend(c, e)
  <1>1. /\ p \in Stacks /\ Len(p) \in Nat /\ DOMAIN p = 1..Len(p)
        /\ \A h \in 1..Len(p) : DOMAIN p[h] = 1..Len(p[h]) /\ Len(p[h]) \in Nat
    BY PrependType, StackShape
  <1>2. /\ Len(e) \in Nat /\ Len(e) >= 1 /\ DOMAIN e = 1..Len(e)
        /\ \A h \in 1..Len(e) : DOMAIN e[h] = 1..Len(e[h]) /\ Len(e[h]) \in Nat
    BY StackShape
  <1>3. PICK k \in 1..Len(p) : \E j \in 1..Len(p[k]) : p[k][j].name = n
    BY <1>1 DEF Stack!Bound, Stack!Binds
  <1>4. PICK j \in 1..Len(p[k]) : p[k][j].name = n
    BY <1>3
  <1>5. ASSUME NEW k0 \in 1..Len(e), NEW j0 \in 1..Len(e[k0]), e[k0][j0].name = n
        PROVE  Stack!Bound(e, n)
    BY <1>2, <1>5 DEF Stack!Bound, Stack!Binds
  <1>6. CASE c.name = Unnamed
    <2>1. /\ Len(p) = Len(e) + 1 /\ p[1] = << >> /\ \A h \in DOMAIN e : p[h + 1] = e[h]
      BY <1>6, PrependMarker
    <2> HIDE DEF p
    <2>2. k # 1
      BY <1>4, <2>1
    <2>3. k - 1 \in 1..Len(e) /\ p[(k - 1) + 1] = e[k - 1] /\ (k - 1) + 1 = k
      BY <1>2, <2>1, <2>2
    <2> QED
      BY <1>4, <1>5, <2>3
  <1>7. CASE c.name # Unnamed
    <2>1. /\ Len(p) = Len(e) /\ Len(p[1]) = Len(e[1]) + 1 /\ p[1][1] = Binding(c)
          /\ \A m \in DOMAIN e[1] : p[1][m + 1] = e[1][m]
          /\ \A h \in 2..Len(e) : p[h] = e[h]
      BY <1>7, PrependVariable
    <2>2. Binding(c).name # n
      BY DEF Binding
    <2> HIDE DEF p
    <2>3. CASE k # 1
      <3>1. k \in 1..Len(e) /\ p[k] = e[k]
        BY <1>2, <2>1, <2>3
      <3> QED
        BY <1>4, <1>5, <3>1
    <2>4. CASE k = 1
      <3>1. j # 1
        BY <1>4, <2>1, <2>2, <2>4
      <3>2. 1 \in 1..Len(e) /\ j - 1 \in 1..Len(e[1]) /\ (j - 1) + 1 = j
        BY <1>2, <1>4, <2>1, <2>4, <3>1
      <3>3. p[1][(j - 1) + 1] = e[1][j - 1]
        BY <1>2, <2>1, <3>2
      <3> QED
        BY <1>4, <1>5, <2>4, <3>2, <3>3
    <2> QED
      BY <2>3, <2>4
  <1> QED
    BY <1>6, <1>7

(* A name is bound in the stack exactly if the store has it.               *)
LEMMA BoundIsHas ==
  ASSUME Unnamed \notin DefinableName, NEW s \in Seq(GoodEntry), NEW n \in Name
  PROVE  Stack!Bound(Scopes(s), n) => Has(s, n)
  <1> DEFINE T == {u \in Seq(GoodEntry) : Stack!Bound(Scopes(u), n) => Has(u, n)}
  <1>1. << >> \in T
    <2>1. ~Stack!Bound(<< <<>> >>, n)
      BY DEF Stack!Bound, Stack!Binds
    <2> QED
      BY <2>1, NoScopes
  <1>2. ASSUME NEW u \in Seq(GoodEntry), u # << >>, Tail(u) \in T
        PROVE  u \in T
    <2> SUFFICES ASSUME Stack!Bound(Scopes(u), n) PROVE Has(u, n)
      BY <1>2
    <2>1. /\ u[1] \in GoodEntry /\ Tail(u) \in Seq(GoodEntry) /\ Scopes(Tail(u)) \in Stacks
          /\ Scopes(u) = Prepend(u[1], Scopes(Tail(u))) /\ 1 \in DOMAIN u
          /\ \A i \in DOMAIN Tail(u) : i + 1 \in DOMAIN u /\ Tail(u)[i] = u[i + 1]
      BY <1>2, FirstAndOthers, ScopesUnfold
    <2> DEFINE c == u[1]
               t == Tail(u)
               e == Scopes(t)
    <2>2. c \in GoodEntry /\ e \in Stacks /\ Stack!Bound(Prepend(c, e), n)
      BY <2>1
    <2> HIDE DEF c, e
    <2>3. c.name = n \/ Stack!Bound(e, n)
      BY <2>2, PrependBound
    <2>4. CASE c.name = n
      BY <2>1, <2>4 DEF Has, c
    <2>5. CASE Stack!Bound(e, n)
      <3>1. Has(t, n)
        BY <1>2, <2>5 DEF e
      <3> QED
        BY <2>1, <3>1 DEF Has
    <2> QED
      BY <2>3, <2>4, <2>5
  <1>3. Seq(GoodEntry) \subseteq T
    <2> HIDE DEF T
    <2> QED
      BY <1>1, <1>2, TailInduction
  <1> QED
    BY <1>3

(* If an entry has the name, one is the first.                             *)
LEMMA FirstExists ==
  ASSUME NEW E, NEW s \in Seq(E), NEW n, Has(s, n)
  PROVE  \E i \in DOMAIN s : First(s, n, i)
  <1> DEFINE T == {i \in DOMAIN s : s[i].name = n}
  <1>1. T \in SUBSET Nat /\ T # {} /\ DOMAIN s = 1..Len(s) /\ Len(s) \in Nat
    BY DEF Has
  <1>2. PICK i \in T : \A m \in T : i <= m
    <2> HIDE DEF T
    <2> QED
      BY <1>1, LeastNumber
  <1>3. \A m \in 1..(i - 1) : s[m].name # n
    BY <1>1, <1>2
  <1> QED
    BY <1>2, <1>3 DEF First

(* A name is defined in the innermost block exactly if the innermost scope *)
(* binds it.                                                               *)
LEMMA InBlockIsBound ==
  ASSUME Unnamed \notin DefinableName, NEW s \in Seq(GoodEntry), NEW n \in Name
  PROVE  InBlock(s, n) <=> Stack!Binds(Scopes(s)[1], n)
  <1> DEFINE g == Scopes(s)[1]
  <1>1. /\ \A j \in 1..Len(s) :
             /\ j \in DOMAIN g <=> \A i \in 1..j : s[i].name # Unnamed
             /\ j \in DOMAIN g => g[j] = Binding(s[j])
        /\ DOMAIN s = 1..Len(s) /\ Len(s) \in Nat
    BY InnermostScope
  <1>2. n # Unnamed
    BY UnnamedAssumption
  <1>3. ASSUME InBlock(s, n)
        PROVE  Stack!Binds(g, n)
    <2>1. PICK i \in DOMAIN s : First(s, n, i) /\ \A j \in 1..(i - 1) : s[j].name # Unnamed
      BY <1>3 DEF InBlock
    <2>2. \A j \in 1..i : s[j].name # Unnamed
      BY <1>1, <1>2, <2>1 DEF First
    <2>3. i \in DOMAIN g /\ g[i] = Binding(s[i])
      BY <1>1, <2>2
    <2> QED
      BY <2>1, <2>3 DEF Stack!Binds, First, Binding
  <1>4. ASSUME Stack!Binds(g, n)
        PROVE  InBlock(s, n)
    <2>1. PICK j \in DOMAIN g : g[j].name = n
      BY <1>4 DEF Stack!Binds
    <2>2. j \in 1..Len(s)
      BY <2>1, InnermostLength
    <2>3. s[j].name = n /\ \A i \in 1..j : s[i].name # Unnamed
      <3>1. g[j] = Binding(s[j]) /\ \A i \in 1..j : s[i].name # Unnamed
        BY <1>1, <2>1, <2>2
      <3> QED
        BY <2>1, <3>1 DEF Binding
    <2>4. PICK i \in DOMAIN s : First(s, n, i)
      BY <1>1, <2>2, <2>3, FirstExists DEF Has
    <2>5. i <= j
      BY <1>1, <2>2, <2>3, <2>4 DEF First
    <2>6. \A m \in 1..(i - 1) : s[m].name # Unnamed
      BY <1>1, <2>2, <2>3, <2>4, <2>5
    <2> QED
      BY <2>4, <2>6 DEF InBlock
  <1> QED
    BY <1>3, <1>4

--------------------------------------------------------------------------------
(* A store as the abstract specification sees it: the nil store has no     *)
(* scope.                                                                  *)
Shown(r) == IF regs[r].arr = NoArray THEN << >> ELSE Scopes(Cells(r))

Env == [r \in Reg |-> Shown(r)]

(* All registers but d show what they did, and d shows e.                  *)
Shows(d, e) == Env' = [Env EXCEPT ![d] = e]

(* A register shows the nil value exactly if it holds the nil slice.       *)
LEMMA NilShown ==
  ASSUME Unnamed \notin DefinableName, Stores, NEW r \in Reg
  PROVE  /\ Cells(r) \in Seq(GoodEntry) /\ Scopes(Cells(r)) \in Stacks
         /\ Env[r] = << >> <=> regs[r].arr = NoArray
         /\ regs[r].arr = NoArray => Cells(r) = << >>
         /\ regs[r].arr # NoArray => Env[r] = Scopes(Cells(r))
         /\ Stack!Norm(Env[r]) = Scopes(Cells(r))
  <1>1. Cells(r) \in Seq(GoodEntry) /\ Scopes(Cells(r)) \in Stacks
    BY CellsType, ScopesUnfold
  <1>2. Scopes(Cells(r)) # << >>
    BY <1>1 DEF Stacks
  <1>3. Env[r] = Shown(r)
    BY DEF Env
  <1>4. regs[r].arr = NoArray => Cells(r) = << >>
    BY DEF Cells, Entries
  <1>5. regs[r].arr = NoArray => Scopes(Cells(r)) = << <<>> >>
    BY <1>4, NoScopes
  <1> QED
    BY <1>1, <1>2, <1>3, <1>4, <1>5 DEF Shown, Stack!Norm, Stack!Nil

(* Setting a register leaves what the others show alone.                   *)
LEMMA SetShows ==
  ASSUME Stores, NEW d \in Reg, NEW s \in Slice, NEW h \in [Array -> Seq(GoodEntry)],
         \A r \in Reg : regs[r].arr # NoArray => h[regs[r].arr] = heap[regs[r].arr],
         Set(d, s, h)
  PROVE  Shows(d, IF s.arr = NoArray THEN << >>
                  ELSE Scopes(SubSeq(h[s.arr], s.off + 1, Len(h[s.arr]))))
  <1>1. /\ regs' = [regs EXCEPT ![d] = s]
        /\ heap' = [a \in Array |-> IF \E r \in Reg : regs'[r].arr = a THEN h[a] ELSE << >>]
    BY DEF Set, Keep
  <1>2. regs \in [Reg -> Slice] /\ regs' \in [Reg -> Slice]
    BY <1>1 DEF Stores
  <1>3. \A r \in Reg : regs'[r].arr # NoArray => heap'[regs'[r].arr] = h[regs'[r].arr]
    BY <1>1, <1>2 DEF Slice
  <1>4. ASSUME NEW r \in Reg, r # d
        PROVE  Shown(r)' = Shown(r)
    <2>1. regs'[r] = regs[r]
      BY <1>1, <1>2, <1>4
    <2>2. CASE regs[r].arr = NoArray
      BY <2>1, <2>2 DEF Shown
    <2>3. CASE regs[r].arr # NoArray
      <3>1. heap'[regs[r].arr] = heap[regs[r].arr]
        BY <1>3, <2>1, <2>3
      <3> QED
        BY <2>1, <2>3, <3>1 DEF Shown, Cells, Entries
    <2> QED
      BY <2>2, <2>3
  <1> DEFINE e == IF s.arr = NoArray THEN << >>
                  ELSE Scopes(SubSeq(h[s.arr], s.off + 1, Len(h[s.arr])))
  <1>5. Shown(d)' = e
    <2>1. regs'[d] = s
      BY <1>1, <1>2
    <2>2. CASE s.arr = NoArray
      BY <2>1, <2>2 DEF Shown
    <2>3. CASE s.arr # NoArray
      <3>1. heap'[s.arr] = h[s.arr]
        BY <1>3, <2>1, <2>3
      <3> QED
        BY <2>1, <2>3, <3>1 DEF Shown, Cells, Entries
    <2> QED
      BY <2>2, <2>3
  <1> HIDE DEF e
  <1>6. Env' = [r \in Reg |-> Shown(r)']
    BY DEF Env
  <1>7. [Env EXCEPT ![d] = e] = [r \in Reg |-> IF r = d THEN e ELSE Shown(r)]
    BY DEF Env
  <1>8. \A r \in Reg : Shown(r)' = IF r = d THEN e ELSE Shown(r)
    BY <1>4, <1>5
  <1>9. Env' = [Env EXCEPT ![d] = e]
    BY <1>6, <1>7, <1>8
  <1> QED
    BY <1>9 DEF Shows, e

(* After an assignment the target shows what the source did.               *)
LEMMA AssignShows ==
  ASSUME Stores, NEW r \in Reg, NEW d \in Reg, Set(d, regs[r], heap)
  PROVE  Shows(d, Env[r])
  <1>1. regs[r] \in Slice /\ heap \in [Array -> Seq(GoodEntry)]
    BY DEF Stores
  <1>2. Shows(d, IF regs[r].arr = NoArray THEN << >>
                 ELSE Scopes(SubSeq(heap[regs[r].arr], regs[r].off + 1, Len(heap[regs[r].arr]))))
    BY <1>1, SetShows
  <1>3. Env[r] = Shown(r)
    BY DEF Env
  <1> QED
    BY <1>2, <1>3, Zenon DEF Shown, Cells, Entries

(* After an operation that makes a new array its register shows the scopes *)
(* of what was put into it.                                                *)
LEMMA MakeShows ==
  ASSUME Stores, NEW d \in Reg, NEW cells \in Seq(GoodEntry), Make(d, cells)
  PROVE  Shows(d, Scopes(cells))
  <1>1. PICK a \in Array : /\ \A r \in Reg : regs[r].arr # a
                           /\ Set(d, [arr |-> a, off |-> 0], [heap EXCEPT ![a] = cells])
    BY DEF Make
  <1> DEFINE h == [heap EXCEPT ![a] = cells]
             s == [arr |-> a, off |-> 0]
  <1>2. h \in [Array -> Seq(GoodEntry)] /\ h[a] = cells /\ \A b \in Array \ {a} : h[b] = heap[b]
    BY DEF Stores
  <1>3. s \in Slice /\ s.arr = a /\ s.off = 0 /\ a # NoArray
    BY ArrayAssumption DEF Slice
  <1>4. \A r \in Reg : regs[r].arr # NoArray => h[regs[r].arr] = heap[regs[r].arr]
    BY <1>1, <1>2 DEF Stores, Slice
  <1>5. Set(d, s, h)
    BY <1>1
  <1> HIDE DEF h, s
  <1>6. Shows(d, IF s.arr = NoArray THEN << >>
                 ELSE Scopes(SubSeq(h[s.arr], s.off + 1, Len(h[s.arr]))))
    BY <1>2, <1>3, <1>4, <1>5, SetShows
  <1>7. SubSeq(h[s.arr], s.off + 1, Len(h[s.arr])) = cells
    <2>1. SubSeq(cells, 0 + 1, Len(cells)) = cells
      OBVIOUS
    <2> QED
      BY <1>2, <1>3, <2>1
  <1> QED
    BY <1>3, <1>6, <1>7

(* One operation of the abstract specification, on register d.             *)
LEMMA AbstractStep ==
  ASSUME NEW d \in Reg, NEW e, Shows(d, e), Ok(NoPerm)
  PROVE  /\ Env'[d] = e /\ \A r \in Reg \ {d} : Env'[r] = Env[r]
         /\ out' = [status |-> "ok", got |-> NoPerm]
  <1>1. Env' = [Env EXCEPT ![d] = e] /\ DOMAIN Env = Reg
    BY DEF Shows, Env
  <1> QED
    BY <1>1 DEF Ok

(* Getting a permission changes nothing that is shown.                     *)
LEMMA SameShown ==
  ASSUME Unnamed \notin DefinableName, Stores, Stores', UNCHANGED regs,
         \A b \in Array : SameBindings(heap[b], heap'[b])
  PROVE  Env' = Env
  <1>1. ASSUME NEW r \in Reg, regs[r].arr # NoArray
        PROVE  Scopes(Cells(r)') = Scopes(Cells(r))
    <2> DEFINE h == heap[regs[r].arr]
               h2 == heap'[regs[r].arr]
               off == regs[r].off
    <2>1. /\ h \in Seq(GoodEntry) /\ h2 \in Seq(GoodEntry) /\ off \in 0..Len(h) /\ SameBindings(h, h2)
      BY <1>1 DEF Stores, Slice
    <2>2. Cells(r) = SubSeq(h, off + 1, Len(h)) /\ Cells(r)' = SubSeq(h2, off + 1, Len(h2))
      BY <1>1 DEF Cells, Entries
    <2> HIDE DEF h, h2, off
    <2>3. /\ SubSeq(h, off + 1, Len(h)) \in Seq(GoodEntry) /\ Len(SubSeq(h, off + 1, Len(h))) = Len(h) - off
          /\ \A m \in 1..(Len(h) - off) : SubSeq(h, off + 1, Len(h))[m] = h[m + off]
      BY <2>1
    <2>4. Len(h2) = Len(h) /\ off \in 0..Len(h2)
      BY <2>1 DEF SameBindings
    <2>5. /\ SubSeq(h2, off + 1, Len(h2)) \in Seq(GoodEntry) /\ Len(SubSeq(h2, off + 1, Len(h2))) = Len(h2) - off
          /\ \A m \in 1..(Len(h2) - off) : SubSeq(h2, off + 1, Len(h2))[m] = h2[m + off]
      BY <2>1, <2>4
    <2> DEFINE s == SubSeq(h, off + 1, Len(h))
               s2 == SubSeq(h2, off + 1, Len(h2))
    <2>6. Equal(s2, s)
      <3> SUFFICES ASSUME NEW m \in DOMAIN s2
                   PROVE  s2[m].name = s[m].name /\ s2[m].eff = s[m].eff /\ s2[m].max = s[m].max
        BY <2>3, <2>4, <2>5 DEF Equal
      <3>1. m \in 1..(Len(h) - off) /\ m + off \in 1..Len(h)
        BY <2>1, <2>4, <2>5
      <3>2. Binding(s2[m]) = Binding(s[m])
        BY <2>1, <2>3, <2>4, <2>5, <3>1 DEF SameBindings
      <3> QED
        BY <3>2 DEF Binding
    <2> QED
      BY <2>2, <2>3, <2>5, <2>6, EqualScopes
  <1>2. \A r \in Reg : Shown(r)' = Shown(r)
    <2> SUFFICES ASSUME NEW r \in Reg PROVE Shown(r)' = Shown(r)
      OBVIOUS
    <2>1. CASE regs[r].arr = NoArray
      BY <2>1 DEF Shown
    <2>2. CASE regs[r].arr # NoArray
      BY <1>1, <2>2 DEF Shown
    <2> QED
      BY <2>1, <2>2
  <1> QED
    BY <1>2 DEF Env

(* A getter changes no value, and returns what the stack has for the name. *)
LEMMA GetShows ==
  ASSUME Unnamed \notin DefinableName, IInv, NEW r \in Reg, NEW n \in Name,
         NEW field \in {"eff", "max"}, Get(r, n, field)
  PROVE  Env' = Env /\ Stack!Get(Env[r], n)
  <1>1. Env' = Env
    BY StoresAndOut, GetKeeps, SameShown
  <1>2. CASE ~Has(Cells(r), n) /\ Ok(NoPerm)
    <2>1. ~Stack!Bound(Env[r], n)
      <3>1. CASE regs[r].arr = NoArray
        <4>1. Env[r] = << >>
          BY <3>1, StoresAndOut, NilShown
        <4> QED
          BY <4>1 DEF Stack!Bound
      <3>2. CASE regs[r].arr # NoArray
        BY <1>2, <3>2, StoresAndOut, NilShown, BoundIsHas
      <3> QED
        BY <3>1, <3>2
    <2> QED
      BY <1>1, <1>2, <2>1 DEF Stack!Get, Ok, Env, Shown
  <1>3. CASE \E i \in DOMAIN Cells(r) : First(Cells(r), n, i) /\ Ok(Cells(r)[i][field])
    <2>1. PICK i \in DOMAIN Cells(r) : First(Cells(r), n, i) /\ Ok(Cells(r)[i][field])
      BY <1>3
    <2>2. regs[r].arr # NoArray
      BY <2>1 DEF Cells, Entries
    <2>3. Env[r] = Scopes(Cells(r)) /\ Cells(r) \in Seq(GoodEntry)
      BY <2>2, StoresAndOut, NilShown
    <2>4. PICK k, j : Located(Cells(r), n, i, k, j)
      BY <2>1, <2>3, FoundInScopes
    <2>5. Stack!Resolves(Env[r], n, k, j) /\ Env[r][k][j] = Binding(Cells(r)[i])
      BY <2>3, <2>4 DEF Located
    <2>6. Env[r][k][j][field] = Cells(r)[i][field]
      BY <2>5 DEF Binding
    <2>7. k \in DOMAIN Env[r] /\ j \in DOMAIN Env[r][k]
      BY <2>5 DEF Stack!Resolves
    <2> QED
      BY <1>1, <2>1, <2>5, <2>6, <2>7, Zenon DEF Stack!Get, Ok, Env, Shown
  <1> QED
    BY <1>2, <1>3 DEF Get

(* The operations that make a new store, one by one.                       *)
LEMMA ScopesOfNew ==
  ASSUME Unnamed \notin DefinableName, NEW c \in GoodEntry, NEW s \in Seq(GoodEntry)
  PROVE  <<c>> \o s \in Seq(GoodEntry) /\ Scopes(<<c>> \o s) = Prepend(c, Scopes(s))
  <1> DEFINE x == <<c>> \o s
  <1>1. x \in Seq(GoodEntry) /\ x # << >> /\ x[1] = c /\ Tail(x) = s
    <2>1. ASSUME NEW E, NEW y \in E, NEW t \in Seq(E)
          PROVE  /\ <<y>> \o t \in Seq(E) /\ Len(<<y>> \o t) = Len(t) + 1 /\ (<<y>> \o t)[1] = y
                 /\ Tail(<<y>> \o t) = t
      OBVIOUS
    <2>2. Len(s) \in Nat
      OBVIOUS
    <2>3. x \in Seq(GoodEntry) /\ Len(x) = Len(s) + 1 /\ x[1] = c /\ Tail(x) = s
      BY <2>1
    <2> HIDE DEF x
    <2> QED
      BY <2>2, <2>3
  <1> HIDE DEF x
  <1>2. x \in Seq(GoodEntry) /\ Scopes(x) = Prepend(c, Scopes(s))
    BY <1>1, ScopesUnfold
  <1> QED
    BY <1>2 DEF x

(* The marker BeginBlock writes is a well-formed entry.                    *)
LEMMA MarkerIsGood == Marker \in GoodEntry
  <1>1. Marker \in Entry
    BY BoundsAssumption DEF Marker, Entry
  <1> QED
    BY <1>1, UnnamedAssumption DEF Marker, GoodEntry

(* BeginBlock adds an empty scope.                                         *)
LEMMA BeginBlockShows ==
  ASSUME Unnamed \notin DefinableName, IInv, NEW r \in Reg, NEW d \in Reg, BeginBlock(r, d)
  PROVE  Shows(d, << <<>> >> \o Stack!Norm(Env[r]))
  <1>1. /\ Stores /\ Cells(r) \in Seq(GoodEntry) /\ Scopes(Cells(r)) \in Stacks
        /\ Stack!Norm(Env[r]) = Scopes(Cells(r))
    BY StoresAndOut, NilShown
  <1>2. /\ <<Marker>> \o Cells(r) \in Seq(GoodEntry)
        /\ Scopes(<<Marker>> \o Cells(r)) = Prepend(Marker, Scopes(Cells(r)))
    BY <1>1, MarkerIsGood, ScopesOfNew
  <1>3. Prepend(Marker, Scopes(Cells(r))) = << <<>> >> \o Scopes(Cells(r))
    BY DEF Prepend, Marker
  <1>4. Shows(d, Scopes(<<Marker>> \o Cells(r)))
    BY <1>1, <1>2, MakeShows DEF BeginBlock
  <1> QED
    BY <1>1, <1>2, <1>3, <1>4

(* EndBlock drops a scope, or panics where there is only one.              *)
LEMMA EndBlockShows ==
  ASSUME Unnamed \notin DefinableName, IInv, NEW r \in Reg, NEW d \in Reg, EndBlock(r, d)
  PROVE  \/ Len(Env[r]) > 1 /\ Shows(d, Tail(Env[r])) /\ Ok(NoPerm)
         \/ ~(Len(Env[r]) > 1) /\ Fails("panic")
  <1>1. CASE ~Has(Cells(r), Unnamed) /\ Fails("panic")
    <2>1. CASE regs[r].arr = NoArray
      <3>1. Env[r] = << >>
        BY <2>1, StoresAndOut, NilShown
      <3> QED
        BY <1>1, <3>1
    <2>2. CASE regs[r].arr # NoArray
      <3>1. Env[r] = Scopes(Cells(r)) /\ Cells(r) \in Seq(GoodEntry)
        BY <2>2, StoresAndOut, NilShown
      <3> QED
        BY <1>1, <3>1, ClosedScopes
    <2> QED
      BY <2>1, <2>2
  <1>2. CASE \E i \in DOMAIN Cells(r) : /\ First(Cells(r), Unnamed, i)
                                         /\ Set(d, [regs[r] EXCEPT !.off = @ + i], heap)
                                         /\ Ok(NoPerm)
    <2>1. PICK i \in DOMAIN Cells(r) : /\ First(Cells(r), Unnamed, i)
                                       /\ Set(d, [regs[r] EXCEPT !.off = @ + i], heap)
                                       /\ Ok(NoPerm)
      BY <1>2
    <2>2. regs[r].arr # NoArray
      BY <2>1 DEF Cells, Entries
    <2>3. /\ Stores /\ Env[r] = Scopes(Cells(r)) /\ Cells(r) \in Seq(GoodEntry)
          /\ regs[r] \in Slice /\ heap \in [Array -> Seq(GoodEntry)]
      BY <2>2, StoresAndOut, NilShown DEF Stores
    <2> DEFINE s == [regs[r] EXCEPT !.off = @ + i]
               h == heap[regs[r].arr]
               off == regs[r].off
    <2>4. h \in Seq(GoodEntry) /\ off \in 0..Len(h) /\ Cells(r) = SubSeq(h, off + 1, Len(h))
      BY <2>2, <2>3 DEF Stores, Slice, Cells, Entries
    <2> HIDE DEF h, off
    <2>5. i \in 1..(Len(h) - off) /\ Len(SubSeq(h, off + 1, Len(h))) = Len(h) - off
      BY <2>1, <2>4
    <2>6. s \in Slice /\ s.arr = regs[r].arr /\ s.off = off + i
      <3>1. i \in Nat /\ off \in Nat
        BY <2>4, <2>5
      <3>2. off + i \in Nat
        BY <3>1
      <3>3. off + i = regs[r].off + i
        BY DEF off
      <3> QED
        BY <2>3, <3>2, <3>3 DEF Slice
    <2>7. Set(d, s, heap)
      BY <2>1
    <2> HIDE DEF s
    <2>8. Shows(d, IF s.arr = NoArray THEN << >>
                   ELSE Scopes(SubSeq(heap[s.arr], s.off + 1, Len(heap[s.arr]))))
      BY <2>3, <2>6, <2>7, SetShows
    <2>9. Shows(d, Scopes(SubSeq(h, (off + i) + 1, Len(h))))
      BY <2>2, <2>6, <2>8 DEF h
    <2>10. SubSeq(h, (off + i) + 1, Len(h)) = SubSeq(Cells(r), i + 1, Len(Cells(r)))
      <3> DEFINE c == Cells(r)
                 x == SubSeq(h, (off + i) + 1, Len(h))
                 y == SubSeq(c, i + 1, Len(c))
                 n == Len(h) - off - i
      <3>1. /\ c \in Seq(GoodEntry) /\ Len(c) = Len(h) - off /\ \A m \in 1..(Len(h) - off) : c[m] = h[m + off]
        BY <2>4
      <3>2. x \in Seq(GoodEntry) /\ Len(x) = n /\ \A m \in 1..n : x[m] = h[m + (off + i)]
        BY <2>4, <2>5
      <3> HIDE DEF c
      <3>3. y \in Seq(GoodEntry) /\ Len(y) = n /\ \A m \in 1..n : y[m] = c[m + i]
        BY <2>4, <2>5, <3>1
      <3> HIDE DEF x, y
      <3>4. \A m \in 1..n : x[m] = y[m]
        <4> SUFFICES ASSUME NEW m \in 1..n PROVE x[m] = y[m]
          OBVIOUS
        <4>1. m + i \in 1..(Len(h) - off) /\ (m + i) + off = m + (off + i)
          BY <2>4, <2>5
        <4>2. c[m + i] = h[(m + i) + off]
          BY <3>1, <4>1
        <4> QED
          BY <3>2, <3>3, <4>1, <4>2
      <3>5. x = y
        BY <3>2, <3>3, <3>4, SameSequence
      <3> QED
        BY <3>5 DEF x, y, c
    <2>11. Has(Cells(r), Unnamed)
      BY <2>1 DEF Has, First
    <2>12. Len(Scopes(Cells(r))) > 1
           /\ Scopes(SubSeq(Cells(r), i + 1, Len(Cells(r)))) = Tail(Scopes(Cells(r)))
      BY <2>1, <2>3, <2>11, ClosedScopes
    <2> QED
      BY <2>1, <2>3, <2>9, <2>10, <2>12
  <1> QED
    BY <1>1, <1>2 DEF EndBlock

(* A setter, where the change it makes to an entry is the one the abstract *)
(* specification makes to the binding.                                     *)
ChangesBinding(changed, n, eff, max) ==
  \A c \in GoodEntry : c.name = n =>
    /\ changed[c].eff = eff[c] /\ changed[c].eff # NoPerm
    /\ c.uses < MaxUses /\ eff[c] # Err =>
         changed[c] \in GoodEntry /\ Binding(changed[c]) = [name |-> n, eff |-> eff[c], max |-> max[c]]

Changes(e, d, n, eff, max) ==
  \/ \E k \in DOMAIN e : \E j \in DOMAIN e[k] : \E c \in GoodEntry :
       /\ Stack!Resolves(e, n, k, j) /\ e[k][j] = Binding(c) /\ c.name = n
       /\ \/ /\ eff[c] # Err
             /\ Shows(d, [e EXCEPT ![k][j] = [name |-> n, eff |-> eff[c], max |-> max[c]]])
             /\ Ok(NoPerm)
          \/ eff[c] = Err /\ Fails("error")
  \/ ~Stack!Bound(e, n) /\ Fails("panic")

(* What the common body of both setters does to the value.                 *)
LEMMA ChangeShows ==
  ASSUME Unnamed \notin DefinableName, IInv, NEW r \in Reg, NEW d \in Reg, NEW n \in Name,
         NEW changed, NEW eff, NEW max, ChangesBinding(changed, n, eff, max),
         Change(r, d, n, changed)
  PROVE  Changes(Env[r], d, n, eff, max)
  <1> SUFFICES \/ \E k \in DOMAIN Env[r] : \E j \in DOMAIN Env[r][k] : \E c \in GoodEntry :
                    /\ Stack!Resolves(Env[r], n, k, j) /\ Env[r][k][j] = Binding(c) /\ c.name = n
                    /\ \/ /\ eff[c] # Err
                          /\ Shows(d, [Env[r] EXCEPT ![k][j] = [name |-> n, eff |-> eff[c], max |-> max[c]]])
                          /\ Ok(NoPerm)
                       \/ eff[c] = Err /\ Fails("error")
               \/ ~Stack!Bound(Env[r], n) /\ Fails("panic")
    BY Zenon DEF Changes
  <1>1. CASE ~Has(Cells(r), n) /\ Fails("panic")
    <2>1. CASE regs[r].arr = NoArray
      <3>1. Env[r] = << >>
        BY <2>1, StoresAndOut, NilShown
      <3> QED
        BY <1>1, <3>1 DEF Stack!Bound
    <2>2. CASE regs[r].arr # NoArray
      BY <1>1, <2>2, StoresAndOut, NilShown, BoundIsHas
    <2> QED
      BY <2>1, <2>2
  <1>2. CASE \E i \in DOMAIN Cells(r) :
               LET c == Cells(r)[i]
               IN  /\ First(Cells(r), n, i)
                   /\ c.uses < MaxUses
                   /\ \/ /\ changed[c].eff \notin {Err, NoPerm}
                         /\ Make(d, [Cells(r) EXCEPT ![i] = changed[c]])
                         /\ Ok(NoPerm)
                      \/ changed[c].eff = Err /\ Fails("error")
                      \/ changed[c].eff = NoPerm /\ Fails("panic")
    <2>1. PICK i \in DOMAIN Cells(r) :
               LET c == Cells(r)[i]
               IN  /\ First(Cells(r), n, i)
                   /\ c.uses < MaxUses
                   /\ \/ /\ changed[c].eff \notin {Err, NoPerm}
                         /\ Make(d, [Cells(r) EXCEPT ![i] = changed[c]])
                         /\ Ok(NoPerm)
                      \/ changed[c].eff = Err /\ Fails("error")
                      \/ changed[c].eff = NoPerm /\ Fails("panic")
      BY <1>2
    <2>2. regs[r].arr # NoArray
      <3>1. i \in DOMAIN Cells(r)
        OBVIOUS
      <3> QED
        BY ONLY <3>1 DEF Cells, Entries
    <2>3. Stores /\ Env[r] = Scopes(Cells(r)) /\ Cells(r) \in Seq(GoodEntry) /\ Env[r] \in Stacks
      BY <2>2, StoresAndOut, NilShown
    <2> DEFINE c == Cells(r)[i]
               e == Env[r]
    <2>4. c \in GoodEntry /\ c.name = n /\ c.uses < MaxUses
      BY <2>1, <2>3 DEF First
    <2>5. PICK k, j : Located(Cells(r), n, i, k, j)
      BY <2>1, <2>3, FoundInScopes
    <2>6. Stack!Resolves(e, n, k, j) /\ e[k][j] = Binding(c)
      BY <2>3, <2>5 DEF Located
    <2>7. k \in DOMAIN e /\ j \in DOMAIN e[k]
      BY <2>6 DEF Stack!Resolves
    <2>8. changed[c].eff = eff[c] /\ changed[c].eff # NoPerm
      BY <2>4 DEF ChangesBinding
    <2>9. CASE changed[c].eff = Err /\ Fails("error")
      <3> HIDE DEF c, e
      <3> QED
        BY <2>4, <2>6, <2>7, <2>8, <2>9 DEF e
    <2>10. CASE changed[c].eff # Err /\ Make(d, [Cells(r) EXCEPT ![i] = changed[c]]) /\ Ok(NoPerm)
      <3> DEFINE new == changed[c]
                 b == [name |-> n, eff |-> eff[c], max |-> max[c]]
      <3>1. new \in GoodEntry /\ Binding(new) = b
        BY <2>4, <2>8, <2>10 DEF ChangesBinding
      <3>2. new.name = n
        BY <3>1 DEF Binding
      <3> HIDE DEF new, b
      <3>3. [Cells(r) EXCEPT ![i] = new] \in Seq(GoodEntry)
            /\ Scopes([Cells(r) EXCEPT ![i] = new]) = Replace(e, k, j, b)
        <4>1. [Cells(r) EXCEPT ![i] = new] \in Seq(GoodEntry)
          BY <2>3, <3>1
        <4>2. Scopes([Cells(r) EXCEPT ![i] = new]) = Replace(Scopes(Cells(r)), k, j, Binding(new))
          BY <2>5, <3>1, <3>2 DEF Located
        <4> QED
          BY <2>3, <3>1, <4>1, <4>2
      <3>4. Shows(d, Replace(e, k, j, b))
        BY <2>3, <2>10, <3>3, MakeShows DEF new
      <3>5. Replace(e, k, j, b) = [e EXCEPT ![k][j] = b]
        BY DEF Replace
      <3>6. Shows(d, [e EXCEPT ![k][j] = b])
        BY <3>4, <3>5
      <3> HIDE DEF c, e
      <3> QED
        BY <2>4, <2>6, <2>7, <2>8, <2>10, <3>6, Zenon DEF e, b
    <2> QED
      BY <2>1, <2>8, <2>9, <2>10
  <1> QED
    BY <1>1, <1>2 DEF Change

--------------------------------------------------------------------------------
(* Every step is one of the abstract specification, which the other        *)
(* registers do not take part in.                                          *)
Others(d) == \A r \in Reg \ {d} : Env'[r] = Env[r]

(* An operation that returns a store succeeds in the abstract, too,        *)
LEMMA SuccessIsAbstract ==
  ASSUME NEW d \in Reg, NEW e, Shows(d, e), Ok(NoPerm)
  PROVE  Others(d) /\ Env'[d] = e /\ out' = [status |-> "ok", got |-> NoPerm]
  BY AbstractStep DEF Others

(* and one that fails leaves all values alone.                             *)
LEMMA FailureIsAbstract ==
  ASSUME NEW d \in Reg, NEW status, Fails(status)
  PROVE  Others(d) /\ Env' = Env /\ out' = [status |-> status, got |-> NoPerm]
  <1>1. UNCHANGED <<heap, regs>> /\ out' = [status |-> status, got |-> NoPerm]
    BY DEF Fails
  <1>2. \A r \in Reg : Shown(r)' = Shown(r)
    BY <1>1 DEF Shown, Cells, Entries
  <1>3. Env' = Env
    BY <1>2 DEF Env
  <1> QED
    BY <1>1, <1>3 DEF Others

(* SetEffective is what it is for a stack.                                 *)
LEMMA SetEffectiveIsAbstract ==
  ASSUME Unnamed \notin DefinableName, IInv, NEW r \in Reg, NEW d \in Reg, NEW n \in Name,
         NEW p \in Permission, SetEffective(r, d, n, p)
  PROVE  Others(d) /\ Stack!SetEffective(Env[r], Env'[d], n, p)
  <1> DEFINE changed == [c \in Entry |-> Restricted(c, Meet(c.max, p), c.max)]
             eff == [c \in GoodEntry |-> Intersect(c.max, p)]
             max == [c \in GoodEntry |-> c.max]
             e == Env[r]
  <1>1. ASSUME NEW c \in GoodEntry, c.name = n
        PROVE  /\ changed[c].eff = eff[c] /\ changed[c].eff # NoPerm
               /\ c.uses < MaxUses /\ eff[c] # Err =>
                    /\ changed[c] \in GoodEntry
                    /\ Binding(changed[c]) = [name |-> n, eff |-> eff[c], max |-> max[c]]
    <2>1. c.max \in Permission /\ c \in Entry
      BY <1>1, EntryParts
    <2>2. Meet(c.max, p) = Intersect(c.max, p) /\ Intersect(c.max, p) \in Permission \cup {Err}
      BY <2>1, PermAssumption, MeetType DEF Meet
    <2>3. changed[c] = Restricted(c, Intersect(c.max, p), c.max) /\ eff[c] = Intersect(c.max, p) /\ max[c] = c.max
      BY <2>1, <2>2
    <2>4. changed[c].eff = eff[c] /\ Binding(changed[c]) = [name |-> n, eff |-> eff[c], max |-> max[c]]
      BY <1>1, <2>3 DEF Restricted, Binding
    <2>5. changed[c].eff # NoPerm
      BY <2>2, <2>3, <2>4, PermAssumption
    <2>6. ASSUME c.uses < MaxUses, eff[c] # Err
          PROVE  changed[c] \in GoodEntry
      <3>1. Intersect(c.max, p) \in Permission /\ Leq(Intersect(c.max, p), c.max)
        BY <2>1, <2>2, <2>3, <2>6, MeetBelow
      <3>2. c.name # Unnamed
        BY <1>1, UnnamedAssumption
      <3> HIDE DEF changed, eff, max
      <3> QED
        BY <2>1, <2>3, <2>6, <3>1, <3>2, RestrictedIsGood
    <2> QED
      BY <2>4, <2>5, <2>6
  <1>2. Change(r, d, n, changed)
    BY DEF SetEffective
  <1> HIDE DEF changed, eff, max
  <1>3. ChangesBinding(changed, n, eff, max)
    BY <1>1 DEF ChangesBinding
  <1>4. Changes(e, d, n, eff, max)
    BY <1>2, <1>3, ChangeShows
  <1>0. SUFFICES Others(d) /\ Stack!SetEffective(e, Env'[d], n, p)
    OBVIOUS
  <1> HIDE DEF e
  <1>5. ASSUME NEW k \in DOMAIN e, NEW j \in DOMAIN e[k], NEW c \in GoodEntry,
               Stack!Resolves(e, n, k, j), e[k][j] = Binding(c), c.name = n
        PROVE  eff[c] = Intersect(e[k][j].max, p) /\ max[c] = e[k][j].max
    BY <1>5 DEF Binding, eff, max
  <1>6. CASE ~Stack!Bound(e, n) /\ Fails("panic")
    BY <1>6, FailureIsAbstract, Zenon
       DEF Stack!SetEffective, Stack!Rebind, Stack!Fails, Env, Shown
  <1>7. CASE \E k \in DOMAIN e : \E j \in DOMAIN e[k] : \E c \in GoodEntry :
              /\ Stack!Resolves(e, n, k, j) /\ e[k][j] = Binding(c) /\ c.name = n
              /\ eff[c] = Err /\ Fails("error")
    <2>0. PICK k \in DOMAIN e : \E j \in DOMAIN e[k] :
              /\ Stack!Resolves(e, n, k, j)
              /\ Intersect(e[k][j].max, p) = Err /\ Fails("error")
      BY <1>5, <1>7
    <2>1. PICK j \in DOMAIN e[k] :
              /\ Stack!Resolves(e, n, k, j)
              /\ Intersect(e[k][j].max, p) = Err /\ Fails("error")
      BY <2>0
    <2>2. Others(d) /\ Env' = Env /\ out' = [status |-> "error", got |-> NoPerm]
      BY <2>1, FailureIsAbstract
    <2> QED
      BY <2>1, <2>2, Zenon DEF Stack!SetEffective, Stack!Rebind, Stack!Fails, Env, Shown
  <1>8. CASE \E k \in DOMAIN e : \E j \in DOMAIN e[k] : \E c \in GoodEntry :
              /\ Stack!Resolves(e, n, k, j) /\ e[k][j] = Binding(c) /\ c.name = n
              /\ eff[c] # Err
              /\ Shows(d, [e EXCEPT ![k][j] = [name |-> n, eff |-> eff[c], max |-> max[c]]])
              /\ Ok(NoPerm)
    <2>0. PICK k \in DOMAIN e : \E j \in DOMAIN e[k] : \E c \in GoodEntry :
              /\ Stack!Resolves(e, n, k, j) /\ e[k][j] = Binding(c) /\ c.name = n
              /\ eff[c] # Err
              /\ Shows(d, [e EXCEPT ![k][j] = [name |-> n, eff |-> eff[c], max |-> max[c]]])
              /\ Ok(NoPerm)
      BY <1>8
    <2>1. PICK j \in DOMAIN e[k] : \E c \in GoodEntry :
              /\ Stack!Resolves(e, n, k, j) /\ e[k][j] = Binding(c) /\ c.name = n
              /\ eff[c] # Err
              /\ Shows(d, [e EXCEPT ![k][j] = [name |-> n, eff |-> eff[c], max |-> max[c]]])
              /\ Ok(NoPerm)
      BY <2>0
    <2> DEFINE e2 == [e EXCEPT ![k][j] = [name |-> n, eff |-> Intersect(e[k][j].max, p),
                                          max |-> e[k][j].max]]
    <2>2. /\ Stack!Resolves(e, n, k, j) /\ Intersect(e[k][j].max, p) # Err
          /\ Shows(d, e2) /\ Ok(NoPerm)
      BY <1>5, <2>1
    <2>3. Others(d) /\ Env'[d] = e2 /\ out' = [status |-> "ok", got |-> NoPerm]
      <3> HIDE DEF e2
      <3> QED
        BY <2>2, SuccessIsAbstract
    <2> QED
      BY <2>2, <2>3, Zenon DEF Stack!SetEffective, Stack!Rebind, Stack!Gives
  <1> QED
    BY <1>4, <1>6, <1>7, <1>8 DEF Changes

(* SetMaximum is what it is for a stack.                                   *)
LEMMA SetMaximumIsAbstract ==
  ASSUME Unnamed \notin DefinableName, IInv, NEW r \in Reg, NEW d \in Reg, NEW n \in Name,
         NEW p \in Permission, SetMaximum(r, d, n, p)
  PROVE  Others(d) /\ Stack!SetMaximum(Env[r], Env'[d], n, p)
  <1> DEFINE changed == [c \in Entry |-> Restricted(c, Meet(c.eff, p), p)]
             eff == [c \in GoodEntry |-> Intersect(c.eff, p)]
             max == [c \in GoodEntry |-> p]
             e == Env[r]
  <1>1. ASSUME NEW c \in GoodEntry, c.name = n
        PROVE  /\ changed[c].eff = eff[c] /\ changed[c].eff # NoPerm
               /\ c.uses < MaxUses /\ eff[c] # Err =>
                    /\ changed[c] \in GoodEntry
                    /\ Binding(changed[c]) = [name |-> n, eff |-> eff[c], max |-> max[c]]
    <2>1. c.eff \in Permission /\ c \in Entry
      BY <1>1, EntryParts
    <2>2. Meet(c.eff, p) = Intersect(c.eff, p) /\ Intersect(c.eff, p) \in Permission \cup {Err}
      BY <2>1, PermAssumption, MeetType DEF Meet
    <2>3. changed[c] = Restricted(c, Intersect(c.eff, p), p) /\ eff[c] = Intersect(c.eff, p) /\ max[c] = p
      BY <2>1, <2>2
    <2>4. changed[c].eff = eff[c] /\ Binding(changed[c]) = [name |-> n, eff |-> eff[c], max |-> max[c]]
      BY <1>1, <2>3 DEF Restricted, Binding
    <2>5. changed[c].eff # NoPerm
      BY <2>2, <2>3, <2>4, PermAssumption
    <2>6. ASSUME c.uses < MaxUses, eff[c] # Err
          PROVE  changed[c] \in GoodEntry
      <3>1. Intersect(c.eff, p) \in Permission /\ Leq(Intersect(c.eff, p), p)
        BY <2>1, <2>2, <2>3, <2>6, MeetBelow
      <3>2. c.name # Unnamed
        BY <1>1, UnnamedAssumption
      <3> HIDE DEF changed, eff, max
      <3> QED
        BY <2>1, <2>3, <2>6, <3>1, <3>2, RestrictedIsGood
    <2> QED
      BY <2>4, <2>5, <2>6
  <1>2. Change(r, d, n, changed)
    BY DEF SetMaximum
  <1> HIDE DEF changed, eff, max
  <1>3. ChangesBinding(changed, n, eff, max)
    BY <1>1 DEF ChangesBinding
  <1>4. Changes(e, d, n, eff, max)
    BY <1>2, <1>3, ChangeShows
  <1>0. SUFFICES Others(d) /\ Stack!SetMaximum(e, Env'[d], n, p)
    OBVIOUS
  <1> HIDE DEF e
  <1>5. ASSUME NEW k \in DOMAIN e, NEW j \in DOMAIN e[k], NEW c \in GoodEntry,
               Stack!Resolves(e, n, k, j), e[k][j] = Binding(c), c.name = n
        PROVE  eff[c] = Intersect(e[k][j].eff, p) /\ max[c] = p
    BY <1>5 DEF Binding, eff, max
  <1>6. CASE ~Stack!Bound(e, n) /\ Fails("panic")
    BY <1>6, FailureIsAbstract, Zenon
       DEF Stack!SetMaximum, Stack!Rebind, Stack!Fails, Env, Shown
  <1>7. CASE \E k \in DOMAIN e : \E j \in DOMAIN e[k] : \E c \in GoodEntry :
              /\ Stack!Resolves(e, n, k, j) /\ e[k][j] = Binding(c) /\ c.name = n
              /\ eff[c] = Err /\ Fails("error")
    <2>0. PICK k \in DOMAIN e : \E j \in DOMAIN e[k] :
              /\ Stack!Resolves(e, n, k, j)
              /\ Intersect(e[k][j].eff, p) = Err /\ Fails("error")
      BY <1>5, <1>7
    <2>1. PICK j \in DOMAIN e[k] :
              /\ Stack!Resolves(e, n, k, j)
              /\ Intersect(e[k][j].eff, p) = Err /\ Fails("error")
      BY <2>0
    <2>2. Others(d) /\ Env' = Env /\ out' = [status |-> "error", got |-> NoPerm]
      BY <2>1, FailureIsAbstract
    <2> QED
      BY <2>1, <2>2, Zenon DEF Stack!SetMaximum, Stack!Rebind, Stack!Fails, Env, Shown
  <1>8. CASE \E k \in DOMAIN e : \E j \in DOMAIN e[k] : \E c \in GoodEntry :
              /\ Stack!Resolves(e, n, k, j) /\ e[k][j] = Binding(c) /\ c.name = n
              /\ eff[c] # Err
              /\ Shows(d, [e EXCEPT ![k][j] = [name |-> n, eff |-> eff[c], max |-> max[c]]])
              /\ Ok(NoPerm)
    <2>0. PICK k \in DOMAIN e : \E j \in DOMAIN e[k] : \E c \in GoodEntry :
              /\ Stack!Resolves(e, n, k, j) /\ e[k][j] = Binding(c) /\ c.name = n
              /\ eff[c] # Err
              /\ Shows(d, [e EXCEPT ![k][j] = [name |-> n, eff |-> eff[c], max |-> max[c]]])
              /\ Ok(NoPerm)
      BY <1>8
    <2>1. PICK j \in DOMAIN e[k] : \E c \in GoodEntry :
              /\ Stack!Resolves(e, n, k, j) /\ e[k][j] = Binding(c) /\ c.name = n
              /\ eff[c] # Err
              /\ Shows(d, [e EXCEPT ![k][j] = [name |-> n, eff |-> eff[c], max |-> max[c]]])
              /\ Ok(NoPerm)
      BY <2>0
    <2> DEFINE e2 == [e EXCEPT ![k][j] = [name |-> n, eff |-> Intersect(e[k][j].eff, p),
                                          max |-> p]]
    <2>2. /\ Stack!Resolves(e, n, k, j) /\ Intersect(e[k][j].eff, p) # Err
          /\ Shows(d, e2) /\ Ok(NoPerm)
      BY <1>5, <2>1
    <2>3. Others(d) /\ Env'[d] = e2 /\ out' = [status |-> "ok", got |-> NoPerm]
      <3> HIDE DEF e2
      <3> QED
        BY <2>2, SuccessIsAbstract
    <2> QED
      BY <2>2, <2>3, Zenon DEF Stack!SetMaximum, Stack!Rebind, Stack!Gives
  <1> QED
    BY <1>4, <1>6, <1>7, <1>8 DEF Changes

(* Define is what it is for a stack: it redefines only in the innermost    *)
(* scope.                                                                  *)
LEMMA DefineIsAbstract ==
  ASSUME Unnamed \notin DefinableName, IInv, NEW r \in Reg, NEW d \in Reg, NEW n \in DefinableName,
         NEW p \in Permission, Define(r, d, n, p)
  PROVE  n \in Name /\ Others(d) /\ Stack!Define(Env[r], Env'[d], n, p)
  <1>1. n \in Name /\ n # Unnamed
    BY NamesAssumption
  <1>2. /\ Stores /\ Cells(r) \in Seq(GoodEntry) /\ Scopes(Cells(r)) \in Stacks
        /\ Stack!Norm(Env[r]) = Scopes(Cells(r))
    BY StoresAndOut, NilShown
  <1>3. InBlock(Cells(r), n) <=> Stack!Binds(Stack!Norm(Env[r])[1], n)
    BY <1>1, <1>2, InBlockIsBound
  <1>4. CASE InBlock(Cells(r), n) /\ SetEffective(r, d, n, p)
    <2>1. Others(d) /\ Stack!SetEffective(Env[r], Env'[d], n, p)
      BY <1>1, <1>4, SetEffectiveIsAbstract
    <2> QED
      BY <1>1, <1>3, <1>4, <2>1, Zenon DEF Stack!Define
  <1>5. CASE ~InBlock(Cells(r), n) /\ Make(d, <<NewCell(n, p)>> \o Cells(r)) /\ Ok(NoPerm)
    <2> DEFINE c == NewCell(n, p)
    <2>1. c = [name |-> n, eff |-> p, max |-> p, uses |-> 0]
      BY DEF NewCell
    <2>2. c \in GoodEntry
      BY <1>1, <2>1, BoundsAssumption, BelowItself DEF GoodEntry, Entry, Variable
    <2>3. Binding(c) = [name |-> n, eff |-> p, max |-> p] /\ c.name # Unnamed
      BY <1>1, <2>1 DEF Binding
    <2> HIDE DEF c
    <2>4. <<c>> \o Cells(r) \in Seq(GoodEntry)
          /\ Scopes(<<c>> \o Cells(r)) = Prepend(c, Scopes(Cells(r)))
      BY <1>2, <2>2, ScopesOfNew
    <2> DEFINE e2 == [Stack!Norm(Env[r]) EXCEPT ![1] = <<[name |-> n, eff |-> p, max |-> p]>> \o @]
    <2>5. Prepend(c, Scopes(Cells(r))) = e2
      BY <1>2, <2>3 DEF Prepend
    <2>6. Shows(d, e2)
      <3>1. Make(d, <<c>> \o Cells(r))
        BY <1>5 DEF c
      <3> HIDE DEF e2
      <3> QED
        BY <1>2, <2>4, <2>5, <3>1, MakeShows
    <2>7. Others(d) /\ Env'[d] = e2 /\ out' = [status |-> "ok", got |-> NoPerm]
      <3> HIDE DEF e2
      <3> QED
        BY <1>5, <2>6, SuccessIsAbstract
    <2> QED
      BY <1>1, <1>3, <1>5, <2>7, Zenon DEF Stack!Define, Stack!Gives
  <1> QED
    BY <1>4, <1>5 DEF Define

(* Two stores merge exactly if the abstract ones do.                       *)
LEMMA UnmarkedScope ==
  ASSUME Unnamed \notin DefinableName, NEW s \in Seq(GoodEntry), \A i \in DOMAIN s : s[i].name # Unnamed
  PROVE  Scopes(s) = << [i \in DOMAIN s |-> Binding(s[i])] >>
  <1> DEFINE e == Scopes(s)
             f == e[1]
             g == [i \in DOMAIN s |-> Binding(s[i])]
  <1>1. e \in Stacks /\ Len(e) = 1
    <2>1. ~(Len(e) > 1)
      BY ClosedScopes DEF Has
    <2>2. e \in Stacks
      BY ScopesUnfold
    <2> HIDE DEF e
    <2>3. Len(e) \in Nat /\ Len(e) >= 1
      BY <2>2, StackShape
    <2>4. ~(Len(e) > 1)
      BY <2>1 DEF e
    <2>5. Len(e) = 1
      <3>1. \A n \in Nat : n >= 1 /\ ~(n > 1) => n = 1
        OBVIOUS
      <3> QED
        BY <2>3, <2>4, <3>1, Zenon
    <2>6. e \in Stacks /\ Len(e) = 1
      BY <2>2, <2>5
    <2> QED
      BY <2>6 DEF e
  <1>2. f \in Seq(Bindings) /\ Len(f) \in Nat /\ DOMAIN f = 1..Len(f)
    BY <1>1, StackShape
  <1>3. Len(s) \in Nat /\ DOMAIN s = 1..Len(s) /\ Len(f) <= Len(s)
    BY InnermostLength
  <1>4. \A j \in 1..Len(s) : j \in DOMAIN f /\ f[j] = Binding(s[j])
    BY <1>3, InnermostScope
  <1> HIDE DEF e
  <1>5. DOMAIN f = DOMAIN s
    <2>1. Len(f) >= Len(s)
      <3>1. CASE Len(s) = 0
        BY <1>2, <3>1
      <3>2. CASE Len(s) # 0
        <4>1. Len(s) \in DOMAIN f
          BY <1>3, <1>4, <3>2
        <4> QED
          BY <1>2, <1>3, <4>1
      <3> QED
        BY <3>1, <3>2
    <2> QED
      BY <1>2, <1>3, <2>1
  <1>6. f = g
    <2>1. f = [j \in 1..Len(f) |-> f[j]]
      BY <1>2
    <2> QED
      BY <1>2, <1>3, <1>4, <1>5, <2>1
  <1>7. e = <<f>>
    <2>1. e \in Seq(Seq(Bindings))
      BY <1>1, StackShape
    <2> QED
      BY <1>1, <2>1
  <1> QED
    BY <1>6, <1>7 DEF e

(* What one iteration of the loop of Merge does to two variables.          *)
LEMMA MergedBinding ==
  ASSUME NEW cs \in Seq(GoodEntry), NEW cs2 \in Seq(GoodEntry), NEW i \in DOMAIN cs, i \in DOMAIN cs2,
         cs[i].name \in Name, cs2[i].name = cs[i].name
  PROVE  /\ Binding(MergedCell(cs[i], cs2[i])) =
              [name |-> cs[i].name, eff |-> Intersect(cs[i].eff, cs2[i].eff),
               max |-> Intersect(cs[i].max, cs2[i].max)]
         /\ MergeStatus(cs, cs2, i) = "ok" <=>
              Intersect(cs[i].eff, cs2[i].eff) # Err /\ Intersect(cs[i].max, cs2[i].max) # Err
  <1> DEFINE c == cs[i]
             c2 == cs2[i]
             m == MergedCell(c, c2)
  <1>1. c \in GoodEntry /\ c2 \in GoodEntry
    OBVIOUS
  <1>2. c.eff \in Permission /\ c.max \in Permission /\ c2.eff \in Permission /\ c2.max \in Permission
    BY <1>1, EntryParts
  <1>3. m = [name |-> c.name, eff |-> Intersect(c.eff, c2.eff), max |-> Intersect(c.max, c2.max),
             uses |-> IF c2.uses > c.uses THEN c2.uses ELSE c.uses]
    BY <1>2, PermAssumption DEF MergedCell, Meet
  <1>4. m.eff = Intersect(c.eff, c2.eff) /\ m.max = Intersect(c.max, c2.max) /\ m.name = c.name
    BY <1>3
  <1>5. m.eff # NoPerm /\ m.max # NoPerm
    BY <1>2, <1>4, MeetType, PermAssumption
  <1>6. MergeStatus(cs, cs2, i) = "ok" <=> m.eff # Err /\ m.max # Err
    <2> HIDE DEF m
    <2> QED
      BY <1>5 DEF MergeStatus, m
  <1> QED
    BY <1>4, <1>6 DEF Binding

(* The loop of Merge reaches its end exactly if the stacks are mergeable.  *)
LEMMA MergeableMeans ==
  ASSUME Unnamed \notin DefinableName, NEW cs \in Seq(GoodEntry), NEW cs2 \in Seq(GoodEntry)
  PROVE  Stack!Mergeable(Scopes(cs), Scopes(cs2)) <=> \A i \in DOMAIN cs : MergeStatus(cs, cs2, i) = "ok"
  <1> DEFINE e == Scopes(cs)
             f == Scopes(cs2)
  <1>1. /\ DOMAIN cs = 1..Len(cs) /\ Len(cs) \in Nat /\ DOMAIN cs2 = 1..Len(cs2) /\ Len(cs2) \in Nat
        /\ e \in Stacks /\ f \in Stacks
    BY ScopesUnfold
  <1>2. ASSUME \A i \in DOMAIN cs : MergeStatus(cs, cs2, i) = "ok"
        PROVE  Stack!Mergeable(e, f)
    <2>1. \A i \in DOMAIN cs : i \in DOMAIN cs2 /\ cs2[i].name = cs[i].name /\ cs[i].name \in Name
      BY <1>2, MergedIsGood
    <2>2. e = << [i \in DOMAIN cs |-> Binding(cs[i])] >>
      BY <2>1, UnnamedAssumption, UnmarkedScope
    <2>3. DOMAIN e[1] = DOMAIN cs /\ Len(e) = 1 /\ \A i \in DOMAIN cs : e[1][i] = Binding(cs[i])
      BY <2>2
    <2>4. \A i \in DOMAIN cs : i \in DOMAIN f[1] /\ f[1][i] = Binding(cs2[i])
      <3> SUFFICES ASSUME NEW i \in DOMAIN cs PROVE i \in DOMAIN f[1] /\ f[1][i] = Binding(cs2[i])
        OBVIOUS
      <3>1. i \in 1..Len(cs2) /\ \A j \in 1..i : cs2[j].name # Unnamed
        BY <1>1, <2>1, UnnamedAssumption
      <3> QED
        BY <3>1, InnermostScope
    <2>5. \A i \in DOMAIN cs : /\ Intersect(cs[i].eff, cs2[i].eff) # Err
                               /\ Intersect(cs[i].max, cs2[i].max) # Err
      BY <1>2, <2>1, MergedBinding
    <2> HIDE DEF e, f
    <2>6. \A i \in DOMAIN e[1] : /\ i \in DOMAIN f[1] /\ f[1][i].name = e[1][i].name
                                 /\ Intersect(e[1][i].eff, f[1][i].eff) # Err
                                 /\ Intersect(e[1][i].max, f[1][i].max) # Err
      <3> SUFFICES ASSUME NEW i \in DOMAIN cs
                   PROVE  /\ i \in DOMAIN f[1] /\ f[1][i].name = e[1][i].name
                          /\ Intersect(e[1][i].eff, f[1][i].eff) # Err
                          /\ Intersect(e[1][i].max, f[1][i].max) # Err
        BY <2>3
      <3>1. e[1][i] = Binding(cs[i]) /\ i \in DOMAIN f[1] /\ f[1][i] = Binding(cs2[i])
        BY <2>3, <2>4
      <3>2. /\ e[1][i].name = cs[i].name /\ f[1][i].name = cs2[i].name
            /\ e[1][i].eff = cs[i].eff /\ f[1][i].eff = cs2[i].eff
            /\ e[1][i].max = cs[i].max /\ f[1][i].max = cs2[i].max
        BY <3>1 DEF Binding
      <3> QED
        BY <2>1, <2>5, <3>1, <3>2
    <2> QED
      BY <2>3, <2>6 DEF Stack!Mergeable
  <1>3. ASSUME Stack!Mergeable(e, f), NEW i \in DOMAIN cs
        PROVE  MergeStatus(cs, cs2, i) = "ok"
    <2>1. Len(e) = 1
      BY <1>3 DEF Stack!Mergeable
    <2>2. \A j \in DOMAIN cs : cs[j].name # Unnamed
      <3>1. ~(Len(e) > 1)
        BY <2>1
      <3>2. ~Has(cs, Unnamed)
        BY <3>1, ClosedScopes
      <3> QED
        BY <3>2 DEF Has
    <2>3. e = << [j \in DOMAIN cs |-> Binding(cs[j])] >>
      BY <2>2, UnmarkedScope
    <2>4. DOMAIN e[1] = DOMAIN cs /\ e[1][i] = Binding(cs[i])
      BY <2>3
    <2> HIDE DEF e
    <2>5. /\ i \in DOMAIN f[1] /\ f[1][i].name = e[1][i].name
          /\ Intersect(e[1][i].eff, f[1][i].eff) # Err
          /\ Intersect(e[1][i].max, f[1][i].max) # Err
      BY <1>3, <2>4 DEF Stack!Mergeable
    <2>6. i \in 1..Len(cs2) /\ f[1][i] = Binding(cs2[i])
      <3>1. i \in 1..Len(cs2)
        BY <2>5, InnermostLength
      <3> QED
        BY <2>5, <3>1, InnermostScope
    <2> HIDE DEF f
    <2>7. /\ cs2[i].name = cs[i].name
          /\ Intersect(cs[i].eff, cs2[i].eff) # Err /\ Intersect(cs[i].max, cs2[i].max) # Err
      BY <2>4, <2>5, <2>6 DEF Binding
    <2>8. cs[i].name \in Name
      <3>1. cs[i] \in GoodEntry
        OBVIOUS
      <3> QED
        BY <2>2, <3>1, EntryParts
    <2> QED
      BY <1>1, <2>6, <2>7, <2>8, MergedBinding
  <1> QED
    BY <1>2, <1>3

(* Merge is what it is for stacks.                                         *)
LEMMA MergeIsAbstract ==
  ASSUME Unnamed \notin DefinableName, IInv, NEW r \in Reg, NEW t \in Reg, NEW d \in Reg, Merge(r, t, d)
  PROVE  Others(d) /\ Stack!Merge(Env[r], Env[t], Env'[d])
  <1>1. /\ Stores
        /\ Cells(r) \in Seq(GoodEntry) /\ Cells(t) \in Seq(GoodEntry)
        /\ Env[r] = << >> <=> regs[r].arr = NoArray
        /\ Env[t] = << >> <=> regs[t].arr = NoArray
        /\ regs[r].arr # NoArray => Env[r] = Scopes(Cells(r))
        /\ regs[t].arr # NoArray => Env[t] = Scopes(Cells(t))
    BY StoresAndOut, NilShown
  <1> DEFINE e == Env[r]
             f == Env[t]
             cs == Cells(r)
             cs2 == Cells(t)
  <1>2. SUFFICES Others(d) /\ Stack!Merge(e, f, Env'[d])
    OBVIOUS
  <1>3. CASE regs[r].arr = NoArray /\ Set(d, regs[t], heap) /\ Ok(NoPerm)
    <2>1. Others(d) /\ Env'[d] = f /\ out' = [status |-> "ok", got |-> NoPerm]
      BY <1>1, <1>3, AssignShows, SuccessIsAbstract
    <2>2. e = << >>
      BY <1>1, <1>3
    <2> HIDE DEF e, f
    <2> QED
      BY <2>1, <2>2, Zenon DEF Stack!Merge, Stack!Gives, Stack!Nil
  <1>4. CASE regs[r].arr # NoArray /\ regs[t].arr = NoArray /\ Set(d, regs[r], heap) /\ Ok(NoPerm)
    <2>1. Others(d) /\ Env'[d] = e /\ out' = [status |-> "ok", got |-> NoPerm]
      BY <1>1, <1>4, AssignShows, SuccessIsAbstract
    <2>2. e # << >> /\ f = << >>
      BY <1>1, <1>4
    <2> HIDE DEF e, f
    <2> QED
      BY <2>1, <2>2, Zenon DEF Stack!Merge, Stack!Gives, Stack!Nil
  <1>5. CASE /\ regs[r].arr # NoArray /\ regs[t].arr # NoArray
             /\ \A i \in DOMAIN cs : MergeStatus(cs, cs2, i) = "ok"
             /\ Make(d, [i \in DOMAIN cs |-> MergedCell(cs[i], cs2[i])])
             /\ Ok(NoPerm)
    <2>1. e = Scopes(cs) /\ f = Scopes(cs2) /\ e # << >> /\ f # << >>
      BY <1>1, <1>5
    <2>2. Stack!Mergeable(e, f)
      BY <1>1, <1>5, <2>1, MergeableMeans
    <2> DEFINE merged == [i \in DOMAIN cs |-> MergedCell(cs[i], cs2[i])]
               met == [i \in DOMAIN e[1] |->
                         [name |-> e[1][i].name,
                          eff |-> Intersect(e[1][i].eff, f[1][i].eff),
                          max |-> Intersect(e[1][i].max, f[1][i].max)]]
    <2>3. \A i \in DOMAIN cs : /\ i \in DOMAIN cs2 /\ cs2[i].name = cs[i].name /\ cs[i].name \in Name
                               /\ MergedCell(cs[i], cs2[i]) \in GoodEntry
                               /\ MergedCell(cs[i], cs2[i]).name = cs[i].name
      BY <1>1, <1>5, MergedIsGood DEF Weaker
    <2>4. merged \in Seq(GoodEntry) /\ DOMAIN merged = DOMAIN cs
          /\ \A i \in DOMAIN cs : merged[i].name # Unnamed /\ merged[i] = MergedCell(cs[i], cs2[i])
      <3>1. DOMAIN cs = 1..Len(cs) /\ Len(cs) \in Nat
        BY <1>1
      <3> QED
        BY <2>3, <3>1, UnnamedAssumption
    <2>5. Scopes(merged) = << [i \in DOMAIN cs |-> Binding(merged[i])] >>
      <3> HIDE DEF merged, cs
      <3> QED
        BY <2>4, UnmarkedScope
    <2>6. e = << [i \in DOMAIN cs |-> Binding(cs[i])] >>
      <3> HIDE DEF e, f, cs2
      <3> QED
        BY <1>1, <2>1, <2>3, UnnamedAssumption, UnmarkedScope
    <2>7. DOMAIN e[1] = DOMAIN cs /\ \A i \in DOMAIN cs : e[1][i] = Binding(cs[i])
      <3> HIDE DEF e, cs
      <3> QED
        BY <2>6
    <2>8. \A i \in DOMAIN cs : f[1][i] = Binding(cs2[i])
      <3> SUFFICES ASSUME NEW i \in DOMAIN cs PROVE f[1][i] = Binding(cs2[i])
        OBVIOUS
      <3>1. DOMAIN cs = 1..Len(cs) /\ Len(cs) \in Nat /\ DOMAIN cs2 = 1..Len(cs2) /\ Len(cs2) \in Nat
        BY <1>1
      <3> HIDE DEF f, cs, cs2, e
      <3>2. i \in 1..Len(cs2) /\ \A j \in 1..i : cs2[j].name # Unnamed
        BY <2>3, <3>1, UnnamedAssumption
      <3>3. Scopes(cs2)[1][i] = Binding(cs2[i])
        BY <1>1, <3>2, InnermostScope DEF cs2
      <3> QED
        BY <2>1, <3>3
    <2>9. \A i \in DOMAIN cs : Binding(merged[i]) = met[i]
      <3> SUFFICES ASSUME NEW i \in DOMAIN cs PROVE Binding(merged[i]) = met[i]
        OBVIOUS
      <3>1. Binding(MergedCell(cs[i], cs2[i])) =
              [name |-> cs[i].name, eff |-> Intersect(cs[i].eff, cs2[i].eff),
               max |-> Intersect(cs[i].max, cs2[i].max)]
        BY <1>1, <2>3, MergedBinding
      <3> HIDE DEF cs, cs2, e, f, merged
      <3>2. e[1][i] = Binding(cs[i]) /\ f[1][i] = Binding(cs2[i])
        BY <2>7, <2>8
      <3>3. met[i] = [name |-> e[1][i].name, eff |-> Intersect(e[1][i].eff, f[1][i].eff),
                      max |-> Intersect(e[1][i].max, f[1][i].max)]
        BY <2>7
      <3> HIDE DEF met
      <3> QED
        BY <2>4, <3>1, <3>2, <3>3 DEF Binding
    <2>10. Scopes(merged) = <<met>>
      <3>1. met = [i \in DOMAIN cs |-> met[i]]
        <4> HIDE DEF e, f, cs
        <4> QED
          BY <2>7
      <3> HIDE DEF merged, met, cs
      <3> QED
        BY <2>5, <2>9, <3>1
    <2>11. Shows(d, <<met>>)
      <3>1. Make(d, merged)
        BY <1>5
      <3> HIDE DEF merged, met
      <3> QED
        BY <1>1, <2>4, <2>10, <3>1, MakeShows
    <2>12. Others(d) /\ Env'[d] = <<met>> /\ out' = [status |-> "ok", got |-> NoPerm]
      <3> HIDE DEF met
      <3> QED
        BY <1>5, <2>11, SuccessIsAbstract
    <2> HIDE DEF e, f
    <2> QED
      BY <2>1, <2>2, <2>12, Zenon DEF Stack!Merge, Stack!Gives, Stack!Nil
  <1>6. CASE /\ regs[r].arr # NoArray /\ regs[t].arr # NoArray
             /\ \E i \in DOMAIN cs : /\ MergeStatus(cs, cs2, i) # "ok"
                                     /\ Fails(MergeStatus(cs, cs2, i))
    <2>1. e = Scopes(cs) /\ f = Scopes(cs2) /\ e # << >> /\ f # << >>
      BY <1>1, <1>6
    <2>2. ~Stack!Mergeable(e, f)
      BY <1>1, <1>6, <2>1, MergeableMeans
    <2>3. PICK status \in {"error", "panic"} : Fails(status)
      <3>1. \A i : MergeStatus(cs, cs2, i) \in {"ok", "error", "panic"}
        BY DEF MergeStatus
      <3> QED
        BY <1>6, <3>1
    <2>4. Others(d) /\ Env' = Env /\ out' = [status |-> status, got |-> NoPerm]
      BY <2>3, FailureIsAbstract
    <2> HIDE DEF e, f
    <2> QED
      BY <2>1, <2>2, <2>4, Zenon DEF Stack!Merge, Stack!Fails, Stack!Nil, Env, Shown
  <1> QED
    BY <1>3, <1>4, <1>5, <1>6 DEF Merge

(* Assignment, BeginBlock and EndBlock are what they are for a stack.      *)
LEMMA BlocksAreAbstract ==
  ASSUME Unnamed \notin DefinableName, IInv, NEW r \in Reg, NEW d \in Reg
  PROVE  /\ Assign(r, d) => Others(d) /\ Stack!Assign(Env[r], Env'[d])
         /\ BeginBlock(r, d) => Others(d) /\ Stack!BeginBlock(Env[r], Env'[d])
         /\ EndBlock(r, d) => Others(d) /\ Stack!EndBlock(Env[r], Env'[d])
  <1> DEFINE e == Env[r]
  <1>1. ASSUME Assign(r, d)
        PROVE  Others(d) /\ Stack!Assign(e, Env'[d])
    <2>1. Others(d) /\ Env'[d] = e /\ out' = [status |-> "ok", got |-> NoPerm]
      BY <1>1, StoresAndOut, AssignShows, SuccessIsAbstract DEF Assign
    <2> HIDE DEF e
    <2> QED
      BY <2>1, Zenon DEF Stack!Assign, Stack!Gives
  <1>2. ASSUME BeginBlock(r, d)
        PROVE  Others(d) /\ Stack!BeginBlock(e, Env'[d])
    <2>1. Shows(d, << <<>> >> \o Stack!Norm(e)) /\ Ok(NoPerm)
      BY <1>2, BeginBlockShows DEF BeginBlock
    <2>2. /\ Others(d) /\ Env'[d] = << <<>> >> \o Stack!Norm(e)
          /\ out' = [status |-> "ok", got |-> NoPerm]
      BY <2>1, SuccessIsAbstract
    <2> HIDE DEF e
    <2> QED
      BY <2>2, Zenon DEF Stack!BeginBlock, Stack!Gives
  <1>3. ASSUME EndBlock(r, d)
        PROVE  Others(d) /\ Stack!EndBlock(e, Env'[d])
    <2>1. CASE Len(e) > 1 /\ Shows(d, Tail(e)) /\ Ok(NoPerm)
      <3>1. Others(d) /\ Env'[d] = Tail(e) /\ out' = [status |-> "ok", got |-> NoPerm]
        BY <2>1, SuccessIsAbstract
      <3> HIDE DEF e
      <3> QED
        BY <2>1, <3>1, Zenon DEF Stack!EndBlock, Stack!Gives
    <2>2. CASE ~(Len(e) > 1) /\ Fails("panic")
      <3>1. Others(d) /\ Env' = Env /\ out' = [status |-> "panic", got |-> NoPerm]
        BY <2>2, FailureIsAbstract
      <3> HIDE DEF e
      <3> QED
        BY <2>2, <3>1, Zenon DEF Stack!EndBlock, Stack!Fails, Env, Shown
    <2> QED
      BY <1>3, <2>1, <2>2, EndBlockShows
  <1> QED
    BY <1>1, <1>2, <1>3

(* An operation with a result is a step of the stack ...                   *)
LEMMA OperationIsAbstract ==
  ASSUME Unnamed \notin DefinableName, IInv, NEW s \in Reg, NEW d \in Reg,
         \/ Assign(s, d)
         \/ BeginBlock(s, d)
         \/ EndBlock(s, d)
         \/ \E n \in DefinableName, p \in Permission : Define(s, d, n, p)
         \/ \E n \in Name, p \in Permission : SetEffective(s, d, n, p)
         \/ \E n \in Name, p \in Permission : SetMaximum(s, d, n, p)
         \/ \E t \in Reg : Merge(s, t, d)
  PROVE  Stack!Step(Env, Env')
  <1>1. SUFFICES
          /\ Others(d)
          /\ \/ Stack!Assign(Env[s], Env'[d])
             \/ Stack!BeginBlock(Env[s], Env'[d])
             \/ Stack!EndBlock(Env[s], Env'[d])
             \/ \E n \in Name, p \in Permission :
                  \/ Stack!Define(Env[s], Env'[d], n, p)
                  \/ Stack!SetEffective(Env[s], Env'[d], n, p)
                  \/ Stack!SetMaximum(Env[s], Env'[d], n, p)
             \/ \E t \in Reg : Stack!Merge(Env[s], Env[t], Env'[d])
    BY Zenon DEF Stack!Step, Others
  <1>2. CASE Assign(s, d) \/ BeginBlock(s, d) \/ EndBlock(s, d)
    BY <1>2, BlocksAreAbstract
  <1>3. CASE \E n \in DefinableName, p \in Permission : Define(s, d, n, p)
    BY <1>3, DefineIsAbstract
  <1>4. CASE \E n \in Name, p \in Permission : SetEffective(s, d, n, p)
    BY <1>4, SetEffectiveIsAbstract
  <1>5. CASE \E n \in Name, p \in Permission : SetMaximum(s, d, n, p)
    BY <1>5, SetMaximumIsAbstract
  <1>6. CASE \E t \in Reg : Merge(s, t, d)
    BY <1>6, MergeIsAbstract
  <1> QED
    BY <1>2, <1>3, <1>4, <1>5, <1>6

(* A step from what is shown to what is shown next is one of the stack.    *)
LEMMA StepIsNext ==
  ASSUME Stack!Step(Env, Env') PROVE Stack!Next
  BY Zenon DEF Stack!Next, Env, Shown

(* ... and so is one of the getters; a stuttering step stutters.           *)
LEMMA StepIsAbstract ==
  ASSUME Unnamed \notin DefinableName, IInv, [Next]_vars
  PROVE  Stack!Next \/ UNCHANGED <<Env, out>>
  <1>1. CASE UNCHANGED vars
    <2>1. UNCHANGED <<heap, regs>> /\ UNCHANGED out
      BY <1>1 DEF vars
    <2>2. \A r \in Reg : Shown(r)' = Shown(r)
      BY <2>1 DEF Shown, Cells, Entries
    <2>3. Env' = Env
      BY <2>2 DEF Env
    <2> QED
      BY <2>1, <2>3
  <1>2. CASE \E s \in Reg, n \in Name : GetEffective(s, n) \/ GetMaximum(s, n)
    <2>1. PICK s \in Reg, n \in Name : Get(s, n, "eff") \/ Get(s, n, "max")
      BY <1>2 DEF GetEffective, GetMaximum
    <2>2. Env' = Env /\ Stack!Get(Env[s], n)
      BY <2>1, GetShows
    <2>3. Stack!Step(Env, Env')
      BY <2>2, Zenon DEF Stack!Step
    <2> QED
      BY <2>3, StepIsNext
  <1>3. CASE \E s, d \in Reg :
               \/ Assign(s, d)
               \/ BeginBlock(s, d)
               \/ EndBlock(s, d)
               \/ \E n \in DefinableName, p \in Permission : Define(s, d, n, p)
               \/ \E n \in Name, p \in Permission : SetEffective(s, d, n, p)
               \/ \E n \in Name, p \in Permission : SetMaximum(s, d, n, p)
               \/ \E t \in Reg : Merge(s, t, d)
    BY <1>3, OperationIsAbstract, StepIsNext
  <1> QED
    BY <1>1, <1>2, <1>3 DEF Next

(* What all the registers show together, the model of the interpreter's    *)
(* variables of type Store, behaves like registers that hold immutable     *)
(* stacks of scopes: sharing backing arrays, copying before a change,      *)
(* counting uses in place and laying blocks out in one slice cannot be     *)
(* seen.                                                                   *)
THEOREM ImplementsStack ==
  ASSUME Unnamed \notin DefinableName PROVE Spec => ImplementsScopeStack
  <1>1. Init => Stack!Init
    <2> SUFFICES ASSUME Init PROVE Stack!Init
      OBVIOUS
    <2>1. \A r \in Reg : regs[r].arr = NoArray
      BY DEF Init, NilStore
    <2>2. Env = [r \in Reg |-> << >>]
      BY <2>1 DEF Env, Shown
    <2>3. out = [status |-> "ok", got |-> NoPerm]
      BY DEF Init
    <2> QED
      BY <2>2, <2>3, Zenon DEF Stack!Init, Stack!Nil, Env, Shown
  <1>2. IInv /\ [Next]_vars => [Stack!Next]_(Stack!vars)
    <2> SUFFICES ASSUME IInv, [Next]_vars PROVE Stack!Next \/ UNCHANGED Stack!vars
      OBVIOUS
    <2>1. Stack!Next \/ UNCHANGED <<Env, out>>
      BY StepIsAbstract
    <2> QED
      BY <2>1, Zenon DEF Stack!vars, Env, Shown
  <1> QED
    BY <1>1, <1>2, Invariance, PTL DEF Spec, ImplementsScopeStack, Stack!Spec
=============================================================================
