---------------------------- MODULE MCAssignableTo ----------------------------
(***************************************************************************)
(* An instance of AssignableTo with every kind of permission, shared       *)
(* objects, cycles of length one, two and through a struct, a recursive    *)
(* function type, interfaces whose methods come in another order, and      *)
(* children that are missing on one side.                                  *)
(***************************************************************************)
EXTENDS AssignableTo

N(kind, base, id) == [kind |-> kind, base |-> base, id |-> <<id>>]
R == Base(ReadOnly)
V == Base(Value)
M == Base(Mutable)

OM == {"o"} \cup Mutable

LinPtr    == N("pointer", Mutable, "LinPtr")      \* m * m
RdPtr     == N("pointer", Value, "RdPtr")         \* v * r
WoPtr     == N("pointer", ReadOnly, "WoPtr")      \* r * w
LinCyc    == N("pointer", Mutable, "LinCyc")      \* points to itself
RdCyc     == N("pointer", ReadOnly, "RdCyc")      \* points to itself
TwoCycA   == N("pointer", ReadOnly, "TwoCycA")    \* <-> TwoCycB
TwoCycB   == N("pointer", Value, "TwoCycB")
List      == N("pointer", Value, "List")          \* to Elem
Elem      == N("struct", Value, "Elem")           \* {v, List}
LinList   == N("pointer", Value, "LinList")       \* to LinElem
LinElem   == N("struct", Value, "LinElem")        \* {m, LinList}
Short     == N("struct", Value, "Short")          \* {v}
SliceM    == N("slice", Value, "SliceM")          \* of m
SliceR    == N("slice", Value, "SliceR")          \* of r
ArrayP    == N("array", Value, "ArrayP")          \* of RdPtr
ChanV     == N("chan", ReadOnly, "ChanV")         \* of v
MapVM     == N("map", Value, "MapVM")             \* from v to m
MapVR     == N("map", Value, "MapVR")             \* from v to r
FnTakesM  == N("func", Value, "FnTakesM")         \* (m) v
FnTakesR  == N("func", ReadOnly, "FnTakesR")      \* (r) v
OwnFn     == N("func", {"o", "r"}, "OwnFn")       \* (r) v
FnRec     == N("func", ReadOnly, "FnRec")         \* takes itself, gives r
Method    == N("func", ReadOnly, "Method")        \* recv m, gives v
IfaceFG   == N("interface", Value, "IfaceFG")     \* f, g
IfaceGF   == N("interface", Value, "IfaceGF")     \* g, f
IfaceG    == N("interface", ReadOnly, "IfaceG")   \* g
Pair      == N("tuple", Value, "Pair")            \* (v, RdPtr)
Single    == N("tuple", Value, "Single")          \* (v)
NilP      == N("nil", OM, "NilP")
Wild      == N("wildcard", None, "Wild")

Leaf(seq) == [elems |-> seq, recvs |-> <<>>, params |-> <<>>,
              results |-> <<>>, name |-> ""]

Func(f, rs, ps, res) == [elems |-> <<>>, recvs |-> rs, params |-> ps,
                         results |-> res, name |-> f]

Children ==
  {<<LinPtr, <<M>>>>, <<RdPtr, <<R>>>>, <<WoPtr, <<Base({"w"})>>>>,
   <<LinCyc, <<LinCyc>>>>, <<RdCyc, <<RdCyc>>>>,
   <<TwoCycA, <<TwoCycB>>>>, <<TwoCycB, <<TwoCycA>>>>,
   <<List, <<Elem>>>>, <<Elem, <<V, List>>>>,
   <<LinList, <<LinElem>>>>, <<LinElem, <<M, LinList>>>>,
   <<Short, <<V>>>>, <<SliceM, <<M>>>>, <<SliceR, <<R>>>>,
   <<ArrayP, <<RdPtr>>>>, <<ChanV, <<V>>>>, <<MapVM, <<V, M>>>>,
   <<MapVR, <<V, R>>>>, <<IfaceFG, <<FnTakesM, Method>>>>,
   <<IfaceGF, <<Method, FnTakesR>>>>, <<IfaceG, <<Method>>>>,
   <<Pair, <<V, RdPtr>>>>, <<Single, <<V>>>>,
   <<NilP, <<>>>>, <<Wild, <<>>>>}

Functions ==
  {<<FnTakesM, Func("f", <<>>, <<M>>, <<V>>)>>,
   <<FnTakesR, Func("f", <<>>, <<R>>, <<V>>)>>,
   <<OwnFn,    Func("f", <<>>, <<R>>, <<V>>)>>,
   <<FnRec,    Func("rec", <<>>, <<FnRec>>, <<R>>)>>,
   <<Method,   Func("g", <<M>>, <<>>, <<V>>)>>}

MCObject == {c[1] : c \in Children \cup Functions}

MCshape ==
  [p \in MCObject |->
     IF p.kind = "func" THEN (CHOOSE c \in Functions : c[1] = p)[2]
     ELSE Leaf((CHOOSE c \in Children : c[1] = p)[2])]

(* Every pair of objects, and of the base permissions that differ in what  *)
(* the rules look at, in every mode.                                       *)
QueryPerm == MCObject \cup {Base(b) : b \in {None, {"w"}, ReadOnly, Value, Any, Mutable}}
MCQueries == [A : QueryPerm, B : QueryPerm, mode : Mode]
=============================================================================
