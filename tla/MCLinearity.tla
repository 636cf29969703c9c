------------------------------- MODULE MCLinearity -------------------------------
(***************************************************************************)
(* Programs of a few statements over linear pointers a and b, a pointer c  *)
(* that is not linear, a number i, and a value of every other kind.        *)
(***************************************************************************)
EXTENDS Linearity

Pointer(b) == Tree("pointer", b, <<Base(b)>>)
Owning(b)  == b \cup {"o"}
ReadWrite  == {"r", "w"}
Exclusively == {"r", "w", "R", "W"}

Linear == Pointer(Owning(Exclusively))
Lent   == Pointer(Exclusively)
Shared == Pointer(Owning(ReadWrite))
Frozen == Pointer(Owning({"r"}))

Fun(params, results) == Func(Owning({"r"}), <<>>, params, results)

Box(p)             == Tree("struct", FreshBase, <<p, Fresh>>)
Bare(b)            == Tree("interface", b, <<>>)
MethodOn(b)        == Func(Owning({"r"}), <<Bare(b)>>, <<Base({"r"})>>, <<Fresh>>)

Permissions ==
  [a    |-> Linear,
   b    |-> Linear,
   c    |-> Shared,
   i    |-> Fresh,
   s    |-> Box(Linear),
   p    |-> Tree("pointer", FreshBase, <<Box(Linear)>>),
   ch   |-> Tree("chan", Owning(ReadWrite), <<Linear>>),
   m    |-> Tree("map", Owning(ReadWrite), <<Linear, Base(Owning(ReadWrite))>>),
   xs   |-> Tree("array", FreshBase, <<Fresh>>),
   v    |-> Tree("interface", FreshBase, <<MethodOn({"r"}), MethodOn(FreshBase)>>),
   T    |-> Tree("struct", Owning({"r"}), <<Frozen>>),
   Box  |-> Box(Linear),
   take |-> Fun(<<Linear>>, <<Fresh>>),
   lend |-> Fun(<<Lent, Lent>>, <<Fresh>>),
   show |-> Fun(<<Frozen>>, <<Fresh>>),
   make |-> Fun(<<>>, <<Linear, Linear>>)]

(* Each variable that refers to something refers to an object of its own. *)
Pointing == {"a", "b", "c", "s", "p", "ch", "m", "v"}

MCInitStore == Permissions
MCInitReach == [n \in DOMAIN Permissions |->
                  IF n \in Pointing THEN {[var |-> n, at |-> 1]} ELSE {}]

MCName == DOMAIN Permissions \cup {"t1", "t2", "t3", "x", "y"}

a == Ident("a")
b == Ident("b")
c == Ident("c")
i == Ident("i")
x == Ident("x")
y == Ident("y")
FieldOf(n)          == Selector(Ident(n), <<1>>, "field")
MethodOf(k, of)     == Selector(Ident("v"), <<k>>, of)
CallOf(n, args)     == Call(Ident(n), args)
Expr(e)             == Stmt("expr", <<e>>)
Closure             == FuncLit(Func(FreshBase, <<>>, <<>>, <<Fresh>>), {"p"})

Assignments ==
  {Assign(<<a, b>>, <<b, a>>), Assign(<<a>>, <<b>>), Assign(<<c>>, <<a>>), Assign(<<a>>, <<x>>),
   Assign(<<i>>, <<Binary("arithmetic", i, Star(a))>>), Assign(<<Ident("_")>>, <<b>>),
   Assign(<<FieldOf("s")>>, <<a>>), Assign(<<a>>, <<FieldOf("s")>>),
   Assign(<<FieldOf("p")>>, <<b>>),
   Assign(<<b>>, <<Unary("receive", Ident("ch"))>>)}

Definitions ==
  {Define(<<x>>, <<a>>), Define(<<y>>, <<Closure>>),
   Define(<<x>>, <<Unary("address", Ident("s"))>>),
   Define(<<x>>, <<Composite(Ident("T"), <<c>>, <<1>>)>>),
   Define(<<x>>, <<Composite(Ident("Box"), <<i, a>>, <<2, 1>>)>>),
   Define(<<x, y>>, <<CallOf("make", <<>>)>>),
   Decl(<<x, y>>, <<>>, <<Frozen, Lent>>)}

Evaluations ==
  {Expr(CallOf("take", <<a>>)), Expr(CallOf("lend", <<a, b>>)), Expr(CallOf("lend", <<b, b>>)),
   Expr(CallOf("lend", <<FieldOf("p"), FieldOf("s")>>)),
   Expr(CallOf("show", <<a>>)),
   Expr(Binary("logical", CallOf("show", <<a>>), CallOf("take", <<b>>))),
   Expr(Index(Ident("m"), a)), Expr(SliceOf(Ident("xs"), <<i, Absent, Absent>>)),
   Expr(Call(MethodOf(1, "method"), <<i>>)), Expr(Call(MethodOf(2, "method"), <<i>>)),
   Expr(Call(MethodOf(1, "methodExpr"), <<Ident("v"), i>>)),
   Stmt("incdec", <<Index(Ident("xs"), CallOf("lend", <<a, b>>))>>)}

Departures ==
  {Stmt("send", <<Ident("ch"), b>>), Stmt("go", <<CallOf("lend", <<a, FieldOf("s")>>)>>),
   Stmt("defer", <<CallOf("take", <<b>>)>>), Stmt("defer", <<Call(Closure, <<>>)>>),
   Stmt("return", <<a>>)}

Core == Assignments \cup Definitions \cup Evaluations \cup Departures

MCAnnotated == [n \in {} |-> None]

MCcurFunc == Fun(<<>>, <<Linear>>)

--------------------------------------------------------------------------------
(* A linear pointer in the field of a struct that only reads. *)
Freezing == {Define(<<x>>, <<Composite(Ident("T"), <<a>>, <<1>>)>>)}
=============================================================================
