----------------------------- MODULE SimpleStatements -----------------------------
(***************************************************************************)
(* The statements that have one exit only: expressions, assignments and    *)
(* definitions, declarations, increments, sends, go, defer and return.     *)
(* They are executed one after the other on one store, as in a block; a    *)
(* program is any sequence of them.                                        *)
(*                                                                         *)
(* reach and escaped are history: to which objects the values refer that   *)
(* the variables hold, or that were given away, when the program is run.   *)
(***************************************************************************)
EXTENDS Expressions

CONSTANTS
  Statement,     \* the statements programs are made of
  InitStore,     \* the permissions of the variables, from name to permission
  InitReach,     \* the objects the variables refer to at first
  curFunc,       \* the permission of the function the statements are part of
  Annotated,     \* AnnotatedPermissions, from name to permission
  MaxStatements  \* bound on the length of programs

(* As many variables as values, or one call for all of them.  A declaration *)
(* also has the permissions of the zero values of the variables' types.    *)
Assignment(kind, lhs, rhs, zeros) ==
  [kind |-> kind, lhs |-> lhs, rhs |-> rhs, zeros |-> zeros]

Assign(lhs, rhs)      == Assignment("assign", lhs, rhs, <<>>)
Define(lhs, rhs)      == Assignment("define", lhs, rhs, <<>>)
Decl(lhs, rhs, zeros) == Assignment("decl", lhs, rhs, zeros)

(* Statements made of expressions. *)
Stmt(kind, args) == [kind |-> kind, args |-> args]
NoStmt           == Stmt("none", <<>>)

VARIABLES
  st,       \* the store after the statements so far
  ended,    \* did the program return, or was it rejected?
  last,     \* the last statement
  count,    \* the number of statements so far
  reach,    \* history: the objects the variables' values refer to
  escaped   \* history: the references given away, with their permissions

vars == <<st, ended, last, count, reach, escaped>>

--------------------------------------------------------------------------------
visitExprStmt(s) == Read(VisitExpr(st, s.args[1])).st

Changed(x) == IF {"r", "w"} \subseteq x.perm.base THEN x.st ELSE Broken

visitIncDecStmt(s) == Changed(Read(VisitExpr(st, s.args[1])))

SentTo(chan, e) ==
  IF chan.perm.kind = "chan" /\ Can("w", chan.perm)
  THEN Release(ReleaseAll(moveOrCopy(VisitExpr(chan.st, e), chan.perm.elems[1])), chan.deps)
  ELSE Broken

visitSendStmt(s) == SentTo(OwnerToDeps(VisitExpr(st, s.args[1])), s.args[2])

Started(r) == IF Can("r", r.perm) THEN r.st ELSE Broken

visitGoStmt(s) == Started(visitCallExpr(st, s.args[1], TRUE))

(* Captured variables that are not owned are available again. *)
Deferred(r) == Release(r.st, SelectSeq(r.deps, LAMBDA b : ~Can("o", b.perm)))

visitDeferStmt(s) == Deferred(visitCallExpr(st, s.args[1], TRUE))

RECURSIVE Returned(_, _, _)
Returned(store, args, results) ==
  IF args = <<>> THEN store
  ELSE Returned(moveOrCopy(VisitExpr(store, Head(args)), Head(results)).st,
                Tail(args), Tail(results))

visitReturnStmt(s) ==
  IF Len(s.args) = Len(curFunc.results) THEN Returned(st, s.args, curFunc.results)
  ELSE Broken

(* The values of the right-hand side, each moved or copied out of where it *)
(* is; its permission stays the same.                                      *)
RECURSIVE Values(_, _, _, _)

Taken(m, rhs, perms, deps) ==
  Values(m.st, Tail(rhs), Append(perms, m.perm), deps \o m.owner \o m.deps)

Moved(v) == moveOrCopy(v, v.perm)

Values(store, rhs, perms, deps) ==
  IF store = Broken \/ rhs = <<>> THEN [st |-> store, perms |-> perms, deps |-> deps]
  ELSE Taken(Moved(VisitExpr(store, Head(rhs))), rhs, perms, deps)

Unpacked(t) == [st |-> IF t.perm.kind = "tuple" THEN t.st ELSE Broken,
                perms |-> t.perm.elems, deps |-> t.deps]

ZeroValue(p) == ConvertToBase(p, p.base \cup {"o"})

(* MUTANT: a variable that the block has is defined once more. *)
DefinesAgain(store, n, rhs) ==
  IF n \notin DOMAIN Annotated THEN IF store = Broken THEN Broken ELSE <<NewCell(n, rhs)>> \o store
  ELSE IF ConvertTo(rhs, Annotated[n]) = Err THEN Broken ELSE store

(* A definition of an annotated variable does nothing if the conversion    *)
(* succeeds, and defines a variable without a permission if it fails.      *)
Defined(store, n, rhs) ==
  IF n \notin DOMAIN Annotated THEN WithVariable(store, n, rhs)
  ELSE IF ConvertTo(rhs, Annotated[n]) = Err THEN Broken ELSE store

Assigned(store, n, rhs) ==
  WithEffective(store, n, IF CopyableTo(rhs, Maximum(store, n))
                          THEN Maximum(store, n) ELSE rhs)

(* The left-hand side is evaluated for its permission only, which must be  *)
(* owned and must take the value.                                          *)
Takes(store, perm, rhs) ==
  IF Can("o", perm) THEN moveOrCopy(Result(rhs, NoOwner, <<>>, store), perm).st ELSE Broken

Into(store, lhs, rhs) == Takes(store, VisitExpr(store, lhs).perm, rhs)

Targeted(store, lhs, rhs, isDefine) ==
  CASE lhs.kind # "ident" -> IF isDefine THEN Broken ELSE store
    [] isDefine           -> Defined(store, lhs.name, rhs)
    [] OTHER              -> IF Has(store, lhs.name) THEN Assigned(store, lhs.name, rhs)
                             ELSE Broken

defineOrAssign(store, lhs, rhs, isDefine) ==
  IF store = Broken \/ lhs = Ident("_") THEN store
  ELSE Into(Targeted(store, lhs, rhs, isDefine), lhs, rhs)

RECURSIVE DefineOrAssignAll(_, _, _, _)
DefineOrAssignAll(store, lhs, rhs, isDefine) ==
  IF lhs = <<>> THEN store
  ELSE DefineOrAssignAll(defineOrAssign(store, Head(lhs), Head(rhs), isDefine),
                         Tail(lhs), Tail(rhs), isDefine)

(* MUTANT: each variable is assigned before the next value is evaluated. *)
RECURSIVE OneByOne(_, _, _, _)

OneAssigned(v, lhs, rhs, isDefine) ==
  IF v.st = Broken THEN Broken
  ELSE OneByOne(Release(defineOrAssign(v.st, Head(lhs), v.perms[1], isDefine), v.deps),
                Tail(lhs), Tail(rhs), isDefine)

OneByOne(store, lhs, rhs, isDefine) ==
  IF lhs = <<>> \/ rhs = <<>> THEN store
  ELSE OneAssigned(Values(store, <<Head(rhs)>>, <<>>, <<>>), lhs, rhs, isDefine)

AssignsOneByOne(store, lhs, rhs, zeros, isDefine) == OneByOne(store, lhs, rhs, isDefine)

(* Zero values where there are more variables than values. *)
Filled(perms, zeros) ==
  IF Len(perms) >= Len(zeros) THEN perms
  ELSE [i \in DOMAIN zeros |-> IF i <= Len(perms) THEN perms[i] ELSE ZeroValue(zeros[i])]

Stored(v, lhs, perms, isDefine) ==
  IF Len(perms) = Len(lhs)
  THEN Release(DefineOrAssignAll(v.st, lhs, perms, isDefine), v.deps) ELSE Broken

AllStored(v, lhs, zeros, isDefine) ==
  IF v.st = Broken THEN Broken ELSE Stored(v, lhs, Filled(v.perms, zeros), isDefine)

(* First all values are evaluated, then all variables are assigned, and    *)
(* then what the values borrowed is released.                              *)
defineOrAssignMany(store, lhs, rhs, zeros, isDefine) ==
  AllStored(IF Len(rhs) = 1 /\ Len(lhs) > 1 THEN Unpacked(OwnerToDeps(VisitExpr(store, rhs[1])))
            ELSE Values(store, rhs, <<>>, <<>>),
            lhs, zeros, isDefine)

(* Declarations are definitions, but for the zero values. *)
visitAssignOrDeclStmt(s) ==
  defineOrAssignMany(st, s.lhs, s.rhs, s.zeros, s.kind # "assign")

--------------------------------------------------------------------------------
(* The history.  An object is what a variable occupies (at = 0), or what   *)
(* came into being with a statement.                                       *)
Occupied(n) == [var |-> n, at |-> 0]
New(n)      == [var |-> n, at |-> count + 1]

(* The variables that hold what an expression denotes, not just refer to it. *)
RECURSIVE Roots(_)
Roots(e) == CASE e.kind = "ident"                -> {e.name} \cap Name
              [] e.kind \in {"selector", "index"} -> Roots(e.x)
              [] OTHER                           -> {}

(* What the value of an expression may refer to, if it refers to anything. *)
RECURSIVE Refs(_)
Refs(e) ==
  CASE e.kind = "ident"     -> IF e.name \in DOMAIN reach THEN reach[e.name] ELSE {}
    [] e.kind = "unary" /\ e.op = "address" -> Refs(e.x) \cup {Occupied(n) : n \in Roots(e.x)}
    [] e.kind \in {"star", "index", "selector"} -> Refs(e.x)
    [] e.kind = "slice"     -> Refs(e.x) \cup {Occupied(n) : n \in Roots(e.x)}
    [] e.kind = "composite" -> UNION {Refs(e.args[i]) : i \in DOMAIN e.args}
    [] e.kind = "func"      -> UNION {{Occupied(n)} \cup reach[n] : n \in e.captured}
    [] OTHER                -> {}

IsNew(e) == e.kind = "call" \/ (e.kind = "unary" /\ e.op = "receive")

(* What is called: a function variable, a method of a variable, or a        *)
(* function literal.                                                       *)
Method(fun) == Maximum(st, fun.x.name).elems[fun.path[1]]

Signature(fun) == CASE fun.kind = "ident"       -> Maximum(st, fun.name)
                    [] fun.kind = "func"        -> fun.perm
                    [] fun.kind = "selector"    -> IF fun.of = "method" THEN Method(fun)
                                                   ELSE pushReceiverToParams(Method(fun))

Given(e, p) == [refs |-> Refs(e), perm |-> p]

(* What the calls in an expression give away: the arguments of owned       *)
(* parameters, and all arguments of a call that does not end here.         *)
RECURSIVE Gives(_, _)

GivesCall(args, params, forever) ==
  {Given(args[i], params[i]) : i \in {j \in DOMAIN args : forever \/ Can("o", params[j])}}

Parts(e) == CASE e.kind \in {"binary", "index"} -> {e.x, e.y}
              [] e.kind \in {"star", "unary", "selector"} -> {e.x}
              [] e.kind \in {"call", "slice", "composite"} ->
                   {e.x} \cup {e.args[i] : i \in DOMAIN e.args}
              [] OTHER -> {}

Gives(e, forever) ==
  (IF e.kind = "call" THEN GivesCall(e.args, Signature(e.x).params, forever) ELSE {})
    \cup UNION {Gives(x, FALSE) : x \in Parts(e)}

Assigning == {"assign", "define", "decl"}

ValuesOf(s) == IF s.kind \in Assigning THEN {s.rhs[i] : i \in DOMAIN s.rhs}
               ELSE {s.args[i] : i \in DOMAIN s.args}

Gifts(s) ==
  (IF s.kind = "send" THEN {Given(s.args[2], Maximum(st, s.args[1].name).elems[1])} ELSE {})
    \cup UNION {Gives(e, s.kind \in {"go", "defer"}) : e \in ValuesOf(s)}

(* The references a value brings with it to the variable n. *)
Brought(s, i, n) == IF i \notin DOMAIN s.rhs THEN {New(n)}
                    ELSE IF IsNew(s.rhs[i]) THEN {New(n)}
                    ELSE Refs(s.rhs[i])

ToVariable(s, i) == s.lhs[i].kind = "ident"

(* Storing in an object changes what everybody who refers to it can reach. *)
Near(s, i, n) == \/ n \in Roots(s.lhs[i])
                 \/ reach[n] \cap Refs(s.lhs[i]) # {}

Reached(s, names) ==
  IF s.kind \notin Assigning THEN reach
  ELSE [n \in names |->
          IF \E i \in DOMAIN s.lhs : s.lhs[i] = Ident(n)
          THEN Brought(s, CHOOSE i \in DOMAIN s.lhs : s.lhs[i] = Ident(n), n)
          ELSE IF n \notin DOMAIN reach THEN {}
          ELSE reach[n] \cup UNION {Brought(s, i, n) : i \in
                 {j \in DOMAIN s.lhs : ~ToVariable(s, j) /\ Near(s, j, n)}}]

--------------------------------------------------------------------------------
NamesOf(store) == {store[i].name : i \in DOMAIN store}

(* The use counts, which nothing here depends on, are left out. *)
Uncounted(store) == [i \in DOMAIN store |-> [store[i] EXCEPT !.uses = 0]]

(* The statement s is executed, and store is the store after it. *)
Executes(s, store) ==
  /\ ended = "no" /\ count < MaxStatements
  /\ last' = s /\ count' = count + 1
  /\ IF store = Broken
     THEN ended' = "rejected" /\ UNCHANGED <<st, reach, escaped>>
     ELSE /\ ended' = IF s.kind = "return" THEN "returned" ELSE "no"
          /\ st' = Uncounted(store)
          /\ reach' = Reached(s, NamesOf(store))
          /\ escaped' = escaped \cup Gifts(s)

Of(kind) == {s \in Statement : s.kind = kind}

ExprStmt   == \E s \in Of("expr")   : Executes(s, visitExprStmt(s))
IncDecStmt == \E s \in Of("incdec") : Executes(s, visitIncDecStmt(s))
SendStmt   == \E s \in Of("send")   : Executes(s, visitSendStmt(s))
GoStmt     == \E s \in Of("go")     : Executes(s, visitGoStmt(s))
DeferStmt  == \E s \in Of("defer")  : Executes(s, visitDeferStmt(s))
ReturnStmt == \E s \in Of("return") : Executes(s, visitReturnStmt(s))
AssignOrDeclStmt ==
  \E s \in UNION {Of(kind) : kind \in Assigning} : Executes(s, visitAssignOrDeclStmt(s))

RECURSIVE StoreOf(_)
StoreOf(names) ==
  IF names = {} THEN <<>>
  ELSE LET n == CHOOSE m \in names : TRUE
       IN  <<NewCell(n, InitStore[n])>> \o StoreOf(names \ {n})

Init == /\ st = StoreOf(DOMAIN InitStore)
        /\ ended = "no" /\ last = NoStmt /\ count = 0
        /\ reach = InitReach /\ escaped = {}

Next == \/ ExprStmt \/ IncDecStmt \/ SendStmt \/ GoStmt \/ DeferStmt
        \/ ReturnStmt \/ AssignOrDeclStmt

Spec == Init /\ [][Next]_vars
=============================================================================
