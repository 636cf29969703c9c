------------------------------- MODULE MCMerge -------------------------------
(***************************************************************************)
(* An instance of Merge: two or more permissions of every kind, with       *)
(* cycles of different lengths, recursive function types, children that    *)
(* differ in number, nil and wildcards.                                    *)
(***************************************************************************)
EXTENDS Merge

N(kind, base, id) == [kind |-> kind, base |-> base, id |-> <<id>>]
R == Base(ReadOnly)
V == Base(Value)
M == Base(Mutable)

OM == {"o"} \cup Mutable
RW == {"r", "w"}

LinPtr   == N("pointer", Mutable, "LinPtr")      \* m * m
RdPtr    == N("pointer", Value, "RdPtr")         \* v * r
Cyc      == N("pointer", Mutable, "Cyc")         \* points to itself
CycA     == N("pointer", Value, "CycA")          \* <-> CycB
CycB     == N("pointer", Mutable, "CycB")
PtrPtr   == N("pointer", OM, "PtrPtr")           \* to OwnPtr
OwnPtr   == N("pointer", OM, "OwnPtr")           \* om * om
WildPtr  == N("pointer", Value, "WildPtr")       \* to a wildcard
NilPtr   == N("pointer", Mutable, "NilPtr")      \* to nil
List     == N("struct", Mutable, "List")         \* {m, pointer to itself}
Next1    == N("pointer", Mutable, "Next1")
ListR    == N("struct", Value, "ListR")          \* {r, pointer to itself}
NextR    == N("pointer", ReadOnly, "NextR")
Short    == N("struct", Value, "Short")          \* {v}
SliceM   == N("slice", Mutable, "SliceM")        \* of m
SliceR   == N("slice", Value, "SliceR")          \* of r
ArrayP   == N("array", Mutable, "ArrayP")        \* of LinPtr
ArrayR   == N("array", Mutable, "ArrayR")        \* of RdPtr
ChanM    == N("chan", Mutable, "ChanM")          \* of m
ChanV    == N("chan", ReadOnly, "ChanV")         \* of v
MapVM    == N("map", Mutable, "MapVM")           \* from v to m
MapVR    == N("map", Value, "MapVR")             \* from v to r
FnM      == N("func", Mutable, "FnM")            \* (LinPtr) LinPtr
FnR      == N("func", ReadOnly, "FnR")           \* (RdPtr) RdPtr
FnRec    == N("func", ReadOnly, "FnRec")         \* takes itself, gives m
FnRec2   == N("func", Value, "FnRec2")           \* takes FnRec3, gives r
FnRec3   == N("func", Value, "FnRec3")           \* takes FnRec2, gives v
OwnFn    == N("func", {"o", "r"}, "OwnFn")       \* (RdPtr) RdPtr
FnBad    == N("func", ReadOnly, "FnBad")         \* (WildPtr) without results
FnNil    == N("func", ReadOnly, "FnNil")         \* (NilP) LinPtr
MethM    == N("func", ReadOnly, "MethM")         \* recv m, gives v
MethR    == N("func", ReadOnly, "MethR")         \* recv r, gives m
MethH    == N("func", ReadOnly, "MethH")         \* of another name
IfaceM   == N("interface", Mutable, "IfaceM")
IfaceR   == N("interface", Value, "IfaceR")
IfaceH   == N("interface", Value, "IfaceH")
PairM    == N("tuple", Mutable, "PairM")
PairR    == N("tuple", Value, "PairR")
NilP     == N("nil", OM, "NilP")
Wild     == N("wildcard", None, "Wild")

Leaf(seq) == [elems |-> seq, recvs |-> <<>>, params |-> <<>>,
              results |-> <<>>, name |-> ""]

Func(f, rs, ps, res) == [elems |-> <<>>, recvs |-> rs, params |-> ps,
                         results |-> res, name |-> f]

Children ==
  [LinPtr |-> <<M>>, RdPtr |-> <<R>>, Cyc |-> <<Cyc>>, CycA |-> <<CycB>>,
   CycB |-> <<CycA>>, PtrPtr |-> <<OwnPtr>>, OwnPtr |-> <<Base(OM)>>,
   WildPtr |-> <<Wild>>, NilPtr |-> <<NilP>>, List |-> <<M, Next1>>,
   Next1 |-> <<List>>, ListR |-> <<R, NextR>>, NextR |-> <<ListR>>,
   Short |-> <<V>>, SliceM |-> <<M>>, SliceR |-> <<R>>,
   ArrayP |-> <<LinPtr>>, ArrayR |-> <<RdPtr>>, ChanM |-> <<M>>,
   ChanV |-> <<V>>, MapVM |-> <<V, M>>, MapVR |-> <<V, R>>,
   IfaceM |-> <<MethM>>, IfaceR |-> <<MethR>>, IfaceH |-> <<MethH>>,
   PairM |-> <<M, LinPtr>>, PairR |-> <<V, RdPtr>>, NilP |-> <<>>,
   Wild |-> <<>>]

Functions ==
  [FnM    |-> Func("f", <<>>, <<LinPtr>>, <<LinPtr>>),
   FnR    |-> Func("f", <<>>, <<RdPtr>>, <<RdPtr>>),
   OwnFn  |-> Func("f", <<>>, <<RdPtr>>, <<RdPtr>>),
   FnRec  |-> Func("f", <<>>, <<FnRec>>, <<M>>),
   FnRec2 |-> Func("f", <<>>, <<FnRec3>>, <<R>>),
   FnRec3 |-> Func("f", <<>>, <<FnRec2>>, <<V>>),
   FnBad  |-> Func("f", <<>>, <<WildPtr>>, <<>>),
   FnNil  |-> Func("f", <<>>, <<NilP>>, <<LinPtr>>),
   MethH  |-> Func("h", <<R>>, <<>>, <<M>>),
   MethM  |-> Func("g", <<M>>, <<>>, <<V>>),
   MethR  |-> Func("g", <<R>>, <<>>, <<M>>)]

MCObject ==
  {LinPtr, RdPtr, Cyc, CycA, CycB, PtrPtr, OwnPtr, WildPtr, NilPtr, List,
   Next1, ListR, NextR, Short, SliceM, SliceR, ArrayP, ArrayR, ChanM,
   ChanV, MapVM, MapVR, IfaceM, IfaceR, IfaceH, PairM, PairR, NilP, Wild,
   FnM, FnR, OwnFn, FnRec, FnRec2, FnRec3, FnBad, FnNil, MethH, MethM,
   MethR}

MCshape ==
  [p \in MCObject |-> IF p.kind = "func" THEN Functions[p.id[1]]
                      ELSE Leaf(Children[p.id[1]])]

MCBase == {Base(b) : b \in {None, ReadOnly, RW, {"o", "r", "w"}, Value, Mutable, OM, {"R"}}}

QueryPerm == MCObject \cup MCBase

(* Everything with everything, and every conversion the entry points       *)
(* allow: a strict one only to a base permission.                          *)
MCQueries == {k \in [perm : QueryPerm, goal : QueryPerm, action : Action] :
                k.action = "strict" => k.goal.kind = "base"}

=============================================================================
