--------------------------------- MODULE Store ---------------------------------
(***************************************************************************)
(* The store of the abstract interpreter: a Go slice of variables, the     *)
(* innermost block first, blocks separated by marker entries.  The         *)
(* interpreter holds many stores at a time, one for every branch it still  *)
(* has to follow, and treats them as values.  They are not: a slice is a   *)
(* window onto a backing array, EndBlock returns a window onto the array   *)
(* of its argument, and GetEffective and GetMaximum count a use in place.  *)
(* So the backing arrays are modelled, and the interpreter's variables of  *)
(* type Store are registers holding windows.                               *)
(* What the operations do to the entries is defined in module Cells.       *)
(***************************************************************************)
EXTENDS Cells, FiniteSets

CONSTANTS
  Reg,              \* the interpreter's Go variables of type Store
  Array,            \* backing arrays, more of them than registers
  NoArray,          \* the array of the nil slice
  DefinableName,    \* what Define is called with
  MaxLen,           \* bound on the entries of a store
  MaxUses           \* bound on the use counters

ASSUME NamesAssumption == DefinableName \subseteq Name \cup {Unnamed}

ASSUME ArrayAssumption == NoArray \notin Array

ASSUME BoundsAssumption == MaxUses \in Nat

VARIABLES
  heap,   \* the contents of the backing arrays
  regs,   \* the slice each register holds: an array and where it begins
  out     \* how the last operation ended, and the permission it returned

vars == <<heap, regs, out>>

Variable == [name : Name, eff : Permission, max : Permission, uses : 0..MaxUses]

(* Looking up or defining the empty name treats a marker as a variable, so *)
(* a marker may come to have a use count.                                  *)
Entry == Variable \cup [name : {Unnamed}, eff : Permission \cup {NoPerm},
                        max : Permission \cup {NoPerm}, uses : 0..MaxUses]

Slice == [arr : Array \cup {NoArray}, off : Nat]

NilStore == [arr |-> NoArray, off |-> 0]

Outcome == [status : {"ok", "error", "panic"}, got : Permission \cup {NoPerm}]

(* The types; a window never begins behind the end of its array.           *)
TypeOK == /\ heap \in [Array -> Seq(Entry)]
          /\ regs \in [Reg -> Slice]
          /\ out \in Outcome
          /\ \A r \in Reg : regs[r].arr # NoArray =>
                              regs[r].off \in 0..Len(heap[regs[r].arr])

Entries(s) == IF s.arr = NoArray THEN <<>>
              ELSE SubSeq(heap[s.arr], s.off + 1, Len(heap[s.arr]))

Cells(r) == Entries(regs[r])

Init == /\ heap = [a \in Array |-> <<>>]
        /\ regs = [r \in Reg |-> NilStore]
        /\ out = [status |-> "ok", got |-> NoPerm]

--------------------------------------------------------------------------------
(* The three ways an operation ends.  Arrays no register refers to are     *)
(* garbage: they are emptied, and are what a new slice is made of.         *)
Keep(rs, h) == heap' = [a \in Array |-> IF \E r \in Reg : rs[r].arr = a
                                        THEN h[a] ELSE <<>>]

Set(d, s, h) == LET rs == [regs EXCEPT ![d] = s]
                IN  regs' = rs /\ Keep(rs, h)

Ok(p) == out' = [status |-> "ok", got |-> p]

(* make(Store, n) and its initialisation, the result going to register d. *)
Make(d, cells) ==
  \E a \in Array :
    /\ \A r \in Reg : regs[r].arr # a
    /\ Set(d, [arr |-> a, off |-> 0], [heap EXCEPT ![a] = cells])

(* A failing operation returns no store; its caller gives up by a panic,   *)
(* which the registers do not survive, so what they hold is left alone.    *)
Fails(status) == /\ out' = [status |-> status, got |-> NoPerm]
                 /\ UNCHANGED <<heap, regs>>

--------------------------------------------------------------------------------
(* Go assignment of one Store variable to another: the window is shared.   *)
Assign(s, d) == Set(d, regs[s], heap) /\ Ok(NoPerm)

BeginBlock(s, d) ==
  /\ Len(Cells(s)) < MaxLen
  /\ Make(d, <<Marker>> \o Cells(s))
  /\ Ok(NoPerm)

(* MUTANT: the window begins one entry too late. *)
EndBlockOffByOne(s, d) ==
  \/ \E i \in DOMAIN Cells(s) :
       /\ First(Cells(s), Unnamed, i)
       /\ Set(d, [regs[s] EXCEPT !.off = @ + i + 1], heap)
       /\ Ok(NoPerm)
  \/ ~Has(Cells(s), Unnamed) /\ Fails("panic")

EndBlock(s, d) ==
  \/ \E i \in DOMAIN Cells(s) :
       /\ First(Cells(s), Unnamed, i)
       /\ Set(d, [regs[s] EXCEPT !.off = @ + i], heap)
       /\ Ok(NoPerm)
  \/ ~Has(Cells(s), Unnamed) /\ Fails("panic")

(* The body both setters share: replace entry c for n, in a copy of the    *)
(* store, by changed[c], unless the permissions do not intersect.          *)
Change(s, d, n, changed) ==
  \/ \E i \in DOMAIN Cells(s) :
       LET c == Cells(s)[i]
       IN  /\ First(Cells(s), n, i)
           /\ c.uses < MaxUses
           /\ \/ /\ changed[c].eff \notin {Err, NoPerm}
                 /\ Make(d, [Cells(s) EXCEPT ![i] = changed[c]])
                 /\ Ok(NoPerm)
              \/ changed[c].eff = Err /\ Fails("error")
              \/ changed[c].eff = NoPerm /\ Fails("panic")
  \/ ~Has(Cells(s), n) /\ Fails("panic")

(* MUTANT: the setter works on the array it was given instead of a copy. *)
SetEffectiveInPlace(s, d, n, p) ==
  \/ \E i \in DOMAIN Cells(s) :
       LET c   == Cells(s)[i]
           eff == Meet(c.max, p)
       IN  /\ First(Cells(s), n, i)
           /\ c.uses < MaxUses
           /\ eff \notin {Err, NoPerm}
           /\ Set(d, regs[s], [heap EXCEPT ![regs[s].arr][regs[s].off + i] =
                                 Restricted(c, eff, c.max)])
           /\ Ok(NoPerm)
  \/ ~Has(Cells(s), n) /\ Fails("panic")

SetEffective(s, d, n, p) ==
  Change(s, d, n, [c \in Entry |-> Restricted(c, Meet(c.max, p), c.max)])

(* MUTANT: lowering the maximum leaves the effective permission alone. *)
SetMaximumOnly(s, d, n, p) ==
  Change(s, d, n, [c \in Entry |-> Restricted(c, c.eff, p)])

SetMaximum(s, d, n, p) ==
  Change(s, d, n, [c \in Entry |-> Restricted(c, Meet(c.eff, p), p)])

Define(s, d, n, p) ==
  \/ InBlock(Cells(s), n) /\ SetEffective(s, d, n, p)
  \/ /\ ~InBlock(Cells(s), n)
     /\ Len(Cells(s)) < MaxLen
     /\ Make(d, <<NewCell(n, p)>> \o Cells(s))
     /\ Ok(NoPerm)

(* The getters count a use in the shared array. *)
Get(s, n, field) ==
  \/ \E i \in DOMAIN Cells(s) :
       /\ First(Cells(s), n, i)
       /\ Cells(s)[i].uses < MaxUses
       /\ heap' = [heap EXCEPT ![regs[s].arr][regs[s].off + i].uses = @ + 1]
       /\ Ok(Cells(s)[i][field])
       /\ UNCHANGED regs
  \/ /\ ~Has(Cells(s), n)
     /\ Ok(NoPerm)
     /\ UNCHANGED <<heap, regs>>

GetEffective(s, n) == Get(s, n, "eff")
GetMaximum(s, n)   == Get(s, n, "max")

Merge(s, t, d) ==
  LET cs  == Cells(s)
      cs2 == Cells(t)
  IN  \/ regs[s].arr = NoArray /\ Set(d, regs[t], heap) /\ Ok(NoPerm)
      \/ /\ regs[s].arr # NoArray /\ regs[t].arr = NoArray
         /\ Set(d, regs[s], heap) /\ Ok(NoPerm)
      \/ /\ regs[s].arr # NoArray /\ regs[t].arr # NoArray
         /\ \/ /\ \A i \in DOMAIN cs : MergeStatus(cs, cs2, i) = "ok"
               /\ Make(d, [i \in DOMAIN cs |-> MergedCell(cs[i], cs2[i])])
               /\ Ok(NoPerm)
            \/ \E i \in DOMAIN cs :
                 /\ \A j \in 1..(i - 1) : MergeStatus(cs, cs2, j) = "ok"
                 /\ MergeStatus(cs, cs2, i) # "ok"
                 /\ Fails(MergeStatus(cs, cs2, i))

Next ==
  \/ \E s, d \in Reg :
       \/ Assign(s, d)
       \/ BeginBlock(s, d)
       \/ EndBlock(s, d)
       \/ \E n \in DefinableName, p \in Permission : Define(s, d, n, p)
       \/ \E n \in Name, p \in Permission : SetEffective(s, d, n, p)
       \/ \E n \in Name, p \in Permission : SetMaximum(s, d, n, p)
       \/ \E t \in Reg : Merge(s, t, d)
  \/ \E s \in Reg, n \in Name : GetEffective(s, n) \/ GetMaximum(s, n)

Spec == Init /\ [][Next]_vars

--------------------------------------------------------------------------------
(* "... to ensure that the effective permission is weaker than the maximum *)
(* permission": whatever the setters, Define and Merge are called with.    *)
EffectiveWithinMaximum ==
  \A a \in Array : \A i \in DOMAIN heap[a] :
    LET c == heap[a][i]
    IN  c.name \in Name => Leq(c.eff, c.max)

(* A store is a stack of scopes, and a value: whatever is done to one, the *)
(* permissions another register shows for it stay what they were, although *)
(* both may be windows onto the same array.                                *)
Binding(c) == [name |-> c.name, eff |-> c.eff, max |-> c.max]

Prepend(c, scopes) == IF c.name = Unnamed THEN << <<>> >> \o scopes
                    ELSE [scopes EXCEPT ![1] = <<Binding(c)>> \o @]

(* The scopes of the last entry, the last two, and so on. *)
Scopes(cells) ==
  LET last[k \in 0..Len(cells)] ==
        IF k = 0 THEN << <<>> >> ELSE Prepend(cells[Len(cells) - k + 1], last[k - 1])
  IN  last[Len(cells)]

Stack == INSTANCE ScopeStack
  WITH env <- [r \in Reg |-> IF regs[r].arr = NoArray THEN <<>>
                             ELSE Scopes(Cells(r))]

ImplementsScopeStack == Stack!Spec

(* Stores that are Equal are the same stack of scopes, and the other way   *)
(* round: the work list, which follows one of two Equal stores, may forget *)
(* the other one, for all that scopes and permissions tell.                *)
EqualMeansSameScopes ==
  \A r, s \in Reg : Equal(Cells(r), Cells(s)) <=> Scopes(Cells(r)) = Scopes(Cells(s))

(* The permission of a variable after two branches have been merged allows *)
(* nothing that it did not allow after either of them.                     *)
Weaker(c, c2) == c.name = c2.name /\ Leq(c.eff, c2.eff) /\ Leq(c.max, c2.max)

MergeOnlyWeakens ==
  [][\A d \in Reg : regs'[d].arr \notin {regs[d].arr, NoArray} =>
       \A s, t \in Reg :
         (regs[s].arr # NoArray /\ regs[t].arr # NoArray)
         => (Merge(s, t, d) =>
               /\ Len(Cells(d)') = Len(Cells(s))
               /\ \A i \in DOMAIN Cells(s) :
                    /\ Weaker(Cells(d)'[i], Cells(s)[i])
                    /\ Weaker(Cells(d)'[i], Cells(t)[i]))]_vars

(* "Merge, written S \cap S', where S and S' have the same length and      *)
(* variables in the same order, is the result of intersecting all          *)
(* permissions in S with the ones at the same position in S'": it is       *)
(* defined, at the very least where it merges a store with itself.         *)
MergeIsDefined ==
  \A r \in Reg : \A i \in DOMAIN Cells(r) :
    MergeStatus(Cells(r), Cells(r), i) = "ok"
=============================================================================
