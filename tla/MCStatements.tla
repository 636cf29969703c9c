------------------------------ MODULE MCStatements ------------------------------
(***************************************************************************)
(* Instances of Statements: permissions are a chain, n is dead, r readable,*)
(* m readable and owned.  Each definition of bodies is the set of all      *)
(* bodies of some form, small enough to visit every one.                   *)
(***************************************************************************)
EXTENDS Statements

MCRank(p) == CASE p = "n" -> 0 [] p = "r" -> 1 [] p = "m" -> 2

MCIntersect(p, q) == IF MCRank(p) < MCRank(q) THEN p ELSE q

MCDead(p) == "n"

(* A container that is m is a slice, with indices that are not owned; one  *)
(* that is r is a map, with keys that are.  What is r can be copied, and   *)
(* what is m must be moved.                                                *)
MCKeyOf(p)     == CASE p = "m" -> "r" [] p = "r" -> "m" [] OTHER -> NoPerm
MCElementOf(p) == IF p = "n" THEN NoPerm ELSE p

MCCopyable(p, q) == p = "r" \/ (p = "n" /\ q = "n")
MCMovable(p, q)  == p # "n" /\ MCRank(q) <= MCRank(p)

MCParam == [name |-> "p", perm |-> "r"]

Var(n, eff, max) == [name |-> n, eff |-> eff, max |-> max, uses |-> 1]

OuterOne == {<<Var("x", "m", "m"), Var("c", "r", "r")>>}
OuterTwo == OuterOne \cup
  {<<Var("x", "r", "m"), Marker, Var("c", "r", "r"), Var("a", "m", "m")>>}

Use(n)    == Simple("use", n)
Move(n)   == Simple("move", n)
Assign(n) == Simple("assign", n)
Def(n)    == Simple("define", n)

Go(tok)         == [kind |-> "branch", tok |-> tok, label |-> NoLabel]
GoTo(tok, l)    == [kind |-> "branch", tok |-> tok, label |-> l]
Label(l, s)     == [kind |-> "labeled", label |-> l, stmt |-> s]
Block(ss)       == [kind |-> "block", stmts |-> ss]
If(s, t)        == [kind |-> "if", init |-> Nil, cond |-> "p", then |-> s, else |-> t]
IfInit(i, s)    == [kind |-> "if", init |-> i, cond |-> "x", then |-> s, else |-> Nil]
Case(as, ss)    == [kind |-> "case", alts |-> as, body |-> ss]
SwitchOf(i, t, cs) == [kind |-> "switch", init |-> i, tag |-> t, clauses |-> cs]
Comm(c, ss)     == [kind |-> "comm", comm |-> c, body |-> ss]
Select(cs)      == [kind |-> "select", clauses |-> cs]
ForLoop(c, post, b) == [kind |-> "for", init |-> Nil, cond |-> c, post |-> post, body |-> b]
Range(x, k, v, b)   == [kind |-> "range", x |-> x, key |-> k, value |-> v, body |-> b]

UpTo1(S) == {<<>>} \cup {<<s>> : s \in S}
UpTo2(S) == UpTo1(S) \cup (S \X S)

(* Choices: if, switch and select, with a statement before or after.       *)
Acts     == {Use("x"), Move("x"), Assign("x"), Def("x"), Go("return")}
Arms     == UpTo1(Acts)
Clauses  == UpTo1(Acts) \cup {<<a, Go("break")>> : a \in {Move("x")}}
            \cup {<<a, Go("fallthrough")>> : a \in {Assign("x"), Def("x"), Move("x")}}
LastOnes == UpTo1(Acts)

Choices ==
  {If(Block(s), t) : s \in Arms, t \in {Nil} \cup {Block(a) : a \in Arms}}
  \cup {IfInit(Def("x"), Block(s)) : s \in Arms}
  \cup {SwitchOf(i, t, <<Case(<<"p">>, b), Case(<<"x">>, c)>>) :
          i \in {Nil}, t \in {NoName, "x"}, b \in Clauses, c \in LastOnes}
  \cup {Select(<<Comm(a, b), Comm(Nil, c)>>) :
          a \in {Nil, Use("x"), Move("x")}, b \in UpTo1({Move("x"), Go("break")}),
          c \in UpTo1({Assign("x")})}

ChoiceBodies == {<<c, s>> : c \in Choices, s \in {Nil, Use("x"), Move("x")}}
                \cup {<<Move("x"), c>> : c \in Choices}

(* Jumps: two labelled statements, and jumps between them, out of blocks   *)
(* and through choices.                                                    *)
Jumps == {GoTo("goto", "L"), GoTo("goto", "M"), Go("return"), Use("x"), Move("x"), Assign("x")}

JumpBodies ==
  {<<Label("L", Block(<<a>>)), If(Block(<<b>>), Nil), Label("M", c), d>> :
     a \in Jumps, b \in Jumps, c \in Jumps \cup {If(Block(<<GoTo("goto", "L")>>), Block(<<Move("x")>>))},
     d \in {Nil, Use("x")}}

(* Loops over containers, with all kinds of ways out. *)
Out  == {Go("break"), Go("continue"), Go("return")}
Body1 == {<<If(Block(<<a, b>>), Nil), c>> :
            a \in {Nil, Move("x"), Use("v")}, b \in Out, c \in {Nil, Use("x"), Move("x"), Assign("x")}}
Body2 == {<<Range("x", Nil, Nil, Block(<<a>>)), b>> :
            a \in Out \cup {Move("x"), Use("v")}, b \in Out \cup {Move("x")}}
         \cup {<<SwitchOf(Nil, NoName, <<Case(<<"p">>, <<a, b>>)>>), c>> :
            a \in {Nil, Move("x")}, b \in Out, c \in {Nil, Go("break"), Assign("x")}}

Body3 == {<<If(Block(<<a, b>>), Nil), c>> :
            a \in {Nil, Use("k")}, b \in Out, c \in {Nil, Move("x")}}

RangeBodies ==
  {<<Range(y, Nil, v, Block(b)), c>> :
     y \in {"c", "x"}, v \in {Nil, Def("v"), Assign("x")},
     b \in Body1 \cup Body2, c \in {Nil, Move("x")}}
  \cup {<<Range(y, kv[1], kv[2], Block(b)), c>> :
     y \in {"c", "x"},
     kv \in {<<Def("k"), Nil>>, <<Def("k"), Def("v")>>, <<Assign("x"), Nil>>,
             <<Assign("x"), Assign("x")>>},
     b \in Body3, c \in {Nil, Move("x")}}

ForBodies ==
  {<<ForLoop("p", post, Block(b)), c>> :
     post \in {Nil, Use("x"), Assign("x")}, b \in Body1 \cup Body2, c \in {Nil, Move("x")}}

(* For statements that are left by their condition alone: each of those    *)
(* exits has a block more than it should have.                             *)
SteadyForBodies ==
  {<<ForLoop("p", post, Block(<<If(Block(<<a, Go("continue")>>), Nil), b>>)), c>> :
     post \in {Nil, Assign("x")}, a \in {Nil, Use("x"), Assign("x")},
     b \in {Nil, Use("x"), Move("x")}, c \in {Nil, Move("x")}}

(* A for statement in the body of another loop. *)
NestedForBodies ==
  {<<loop>> : loop \in {ForLoop("p", Nil, Block(<<ForLoop("p", Nil, Block(<<>>))>>)),
                        Range("c", Nil, Nil, Block(<<ForLoop("p", Nil, Block(<<>>))>>))}}

SteadyBodies == ChoiceBodies \cup JumpBodies \cup RangeBodies \cup SteadyForBodies

EveryBody == ChoiceBodies \cup JumpBodies \cup RangeBodies \cup ForBodies

(* Literals that use, or do not use, a variable on several paths.          *)
CapturingBodies == {<<If(Block(s), t), Use("p")>> :
                      s \in {<<>>, <<Use("x")>>, <<Assign("x")>>, <<Use("x"), Go("return")>>},
                      t \in {Nil, Block(<<Use("x")>>), Block(<<Assign("x")>>)}}

(* The statements in all of these. *)
Elements(ss) == {ss[i] : i \in DOMAIN ss}

Inner(s) ==
  CASE s.kind = "labeled"              -> {s.stmt}
    [] s.kind = "block"                -> Elements(s.stmts)
    [] s.kind = "if"                   -> {s.then, s.else}
    [] s.kind \in {"switch", "select"} -> Elements(s.clauses)
    [] s.kind \in {"case", "comm"}     -> Elements(s.body)
    [] s.kind \in {"for", "range"}     -> {s.body}
    [] OTHER                           -> {}

RECURSIVE WithInner(_)
WithInner(S) == IF S = {} THEN {} ELSE S \cup WithInner(UNION {Inner(s) : s \in S})

MCStmts ==
  WithInner(UNION {Elements(b) : b \in EveryBody \cup SteadyBodies \cup CapturingBodies
                                \cup NestedForBodies})

(* The break, continue, goto and fallthrough statements in these bodies    *)
(* have something to leave or to go to.                                    *)
RECURSIVE Places(_)
Places(P) == IF P = {} THEN {} ELSE P \cup Places(UNION {Inside(p[1], p[2]) : p \in P})

ASSUME LegalBranches(Places(UNION {InList(b, FALSE, Final) : b \in Body}))
=============================================================================
