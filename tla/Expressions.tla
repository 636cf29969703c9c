------------------------------- MODULE Expressions -------------------------------
(***************************************************************************)
(* The interpreter's visit of an expression: the permission of its value,  *)
(* the variable that owns it, the variables that were borrowed on the way, *)
(* and the store after it.  Permissions are trees, and stores are values.  *)
(*                                                                         *)
(* An owner is the sequence of at most one thing borrowed.  An expression  *)
(* the interpreter rejects leaves the store Broken.                        *)
(***************************************************************************)
EXTENDS Trees, Integers, FiniteSets

CONSTANTS Name, Unnamed, NoPerm

Intersect(p, q) == Merge(p, q, "intersect")

(* What a borrowed variable is left with. *)
Dead(p) == ConvertToBase(p, {})

(* The laws module Cells asks of a finite set of permissions are those of  *)
(* module Merge's answers; here there is no such set.                      *)
INSTANCE StoreValue WITH Permission <- {}

--------------------------------------------------------------------------------
(* Expressions as the Go syntax tree has them; absent ones are nil in Go.  *)
Absent           == [kind |-> "absent"]
Literal          == [kind |-> "literal"]
Ident(n)         == [kind |-> "ident", name |-> n]
Binary(op, x, y) == [kind |-> "binary", op |-> op, x |-> x, y |-> y]
Index(x, y)      == [kind |-> "index", x |-> x, y |-> y]
Star(x)          == [kind |-> "star", x |-> x]
Unary(op, x)     == [kind |-> "unary", op |-> op, x |-> x]
Call(fun, args)  == [kind |-> "call", x |-> fun, args |-> args]
SliceOf(x, args) == [kind |-> "slice", x |-> x, args |-> args]

(* The path of a selector: the numbers of the fields, and what the last    *)
(* number is that of: a field, a method, or a method used as a function.   *)
Selector(x, path, of) == [kind |-> "selector", x |-> x, path |-> path, of |-> of]

(* The values with the numbers of their fields, as given or looked up.     *)
Composite(type, args, fields) ==
  [kind |-> "composite", x |-> type, args |-> args, fields |-> fields]

(* A function literal that uses captured variables and has one exit; what  *)
(* its body may do otherwise is the subject of module Statements.          *)
FuncLit(perm, captured) == [kind |-> "func", perm |-> perm, captured |-> captured]

NoOwner == <<>>

Result(perm, owner, deps, st) == [perm |-> perm, owner |-> owner, deps |-> deps, st |-> st]

Failed == Result(None, NoOwner, <<>>, Broken)

(* The result, unless an assertion on the way to it failed. *)
Provided(ok, r) == IF ok /\ r.st # Broken THEN r ELSE Failed

Can(right, p) == right \in p.base

NewValue(st) == Result(Fresh, NoOwner, <<>>, st)

(* visitExprOwnerToDeps: the owner as the last of the dependencies. *)
OwnerToDeps(r) == [r EXCEPT !.owner = NoOwner, !.deps = @ \o r.owner]

(* A value that is only read: all it borrowed is given back. *)
ReleaseAll(r) == Release(r.st, r.owner \o r.deps)

--------------------------------------------------------------------------------
(* MUTANT: the variable keeps its permission. *)
LeavesVariable(st, n) ==
  IF n = "nil" THEN Result(NilValue, NoOwner, <<>>, st)
  ELSE IF n \in {"true", "false"} THEN NewValue(st)
  ELSE Provided(Has(st, n), Result(Effective(st, n), <<Borrowed(st, n)>>, <<>>, st))

(* MUTANT: what is given back is the maximum of the variable. *)
BorrowsMaximum(st, n) ==
  IF n = "nil" THEN Result(NilValue, NoOwner, <<>>, st)
  ELSE IF n \in {"true", "false"} THEN NewValue(st)
  ELSE Provided(Has(st, n), Result(Effective(st, n), <<[name |-> n, perm |-> Maximum(st, n)]>>,
                                   <<>>, Borrow(st, n)))

visitIdent(st, n) ==
  IF n = "nil" THEN Result(NilValue, NoOwner, <<>>, st)
  ELSE IF n \in {"true", "false"} THEN NewValue(st)
  ELSE Provided(Has(st, n),
                Result(Effective(st, n), <<Borrowed(st, n)>>, <<>>, Borrow(st, n)))

(* What a linear owner keeps when its value became non-linear. *)
Stripped(owner) ==
  [i \in DOMAIN owner |->
     [owner[i] EXCEPT !.perm = ConvertToBase(@, @.base \ {"R", "W", "w"})]]

(* MUTANT: a value that is frozen leaves the owner as it was. *)
FreezesNothing(r, to) ==
  CASE CopyableTo(r.perm, to)   -> Result(to, NoOwner, <<>>, ReleaseAll(r))
    [] ~MovableTo(r.perm, to)   -> Failed
    [] ~Can("o", to)            -> [r EXCEPT !.perm = to]
    [] isLinear(r.perm.base) /\ ~isLinear(to.base) ->
         Result(to, NoOwner, <<>>, Release(r.st, r.owner \o r.deps))
    [] OTHER                    -> Result(to, NoOwner, <<>>, r.st)

(* MUTANT: what was lent to an unowned place is taken for moved. *)
MovesUnowned(r, to) ==
  CASE CopyableTo(r.perm, to)   -> Result(to, NoOwner, <<>>, ReleaseAll(r))
    [] ~MovableTo(r.perm, to)   -> Failed
    [] isLinear(r.perm.base) /\ ~isLinear(to.base) ->
         Result(to, NoOwner, <<>>, Release(r.st, Stripped(r.owner) \o r.deps))
    [] OTHER                    -> Result(to, NoOwner, <<>>, r.st)

(* The value of r as a value of permission to: copied, lent to an unowned  *)
(* place, frozen, or moved away for good.                                  *)
moveOrCopy(r, to) ==
  CASE CopyableTo(r.perm, to)   -> Result(to, NoOwner, <<>>, ReleaseAll(r))
    [] ~MovableTo(r.perm, to)   -> Failed
    [] ~Can("o", to)            -> [r EXCEPT !.perm = to]
    [] isLinear(r.perm.base) /\ ~isLinear(to.base) ->
         Result(to, NoOwner, <<>>, Release(r.st, Stripped(r.owner) \o r.deps))
    [] OTHER                    -> Result(to, NoOwner, <<>>, r.st)

--------------------------------------------------------------------------------
(* What is done with a result stands in an operator of its own with the    *)
(* result as a parameter, so that an expression is visited only once.      *)
RECURSIVE VisitExpr(_, _)

(* A value that is only read, and what it borrowed given back. *)
Read(r) == Result(r.perm, NoOwner, <<>>, Release(r.st, r.deps \o r.owner))

Operation(e, l, r) ==
  Provided(Can("r", l.perm) /\ Can("r", r.perm),
           NewValue(IF e.op = "logical" THEN MergedStore(l.st, r.st) ELSE r.st))

LeftFirst(e, l) == Operation(e, l, Read(VisitExpr(l.st, e.y)))

visitBinaryExpr(st, e) == LeftFirst(e, Read(VisitExpr(st, e.x)))

(* Keys of maps are moved into the map, for the case that it is assigned.  *)
Element(x, y) ==
  Provided(Can("r", x.perm) /\ Can("r", y.perm),
    CASE x.perm.kind \in {"array", "slice"} ->
           [x EXCEPT !.perm = @.elems[1], !.st = ReleaseAll(y)]
      [] x.perm.kind = "map" ->
           [x EXCEPT !.perm = @.elems[2], !.st = moveOrCopy(y, x.perm.elems[1]).st]
      [] OTHER -> Failed)

Indexed(x, e) == Element(x, VisitExpr(x.st, e.y))

visitIndexExpr(st, e) == Indexed(VisitExpr(st, e.x), e)

Target(x) == Provided(Can("r", x.perm) /\ x.perm.kind = "pointer",
                      [x EXCEPT !.perm = @.elems[1]])

visitStarExpr(st, e) == Target(VisitExpr(st, e.x))

Operated(op, x) ==
  Provided(Can("r", x.perm),
    CASE op = "address" -> [x EXCEPT !.perm = Tree("pointer", FreshBase, <<@>>)]
      [] op = "receive" -> IF x.perm.kind # "chan" THEN Failed
                           ELSE Result(x.perm.elems[1], NoOwner, <<>>, ReleaseAll(x))
      [] OTHER          -> NewValue(ReleaseAll(x)))

visitUnaryExpr(st, e) == Operated(e.op, VisitExpr(st, e.x))

(* The arguments from first to last, each bound to its parameter; the deps *)
(* are what unowned parameters hold until the call is over.                *)
RECURSIVE Arguments(_, _, _, _)

Bound(a, args, params, deps) ==
  Arguments(a.st, Tail(args), Tail(params), deps \o a.owner \o a.deps)

Arguments(st, args, params, deps) ==
  IF st = Broken \/ args = <<>> THEN [st |-> st, deps |-> deps]
  ELSE IF params = <<>> THEN [st |-> Broken, deps |-> deps]
  ELSE Bound(moveOrCopy(VisitExpr(st, Head(args)), Head(params)), args, params, deps)

(* Several results are a tuple, and so is none. *)
ResultOf(fun) == IF Len(fun.results) = 1 THEN fun.results[1]
                 ELSE Tree("tuple", FreshBase, fun.results)

(* An ordinary call gives back what its arguments and the function value   *)
(* borrowed.  A deferred one, or one on its own, does not end here.        *)
Called(fun, args, isDeferredOrGoroutine) ==
  Provided(fun.perm.kind = "func" /\ args.st # Broken,
    IF isDeferredOrGoroutine
    THEN Result(ResultOf(fun.perm), fun.owner, fun.deps, args.st)
    ELSE Result(ResultOf(fun.perm), NoOwner, <<>>,
                Release(args.st, args.deps \o fun.deps \o fun.owner)))

WithArguments(fun, e, isDeferredOrGoroutine) ==
  Called(fun, Arguments(fun.st, e.args, fun.perm.params, <<>>), isDeferredOrGoroutine)

visitCallExpr(st, e, isDeferredOrGoroutine) ==
  WithArguments(VisitExpr(st, e.x), e, isDeferredOrGoroutine)

(* The indices of a slice expression: all are evaluated before the last of *)
(* them is released.                                                       *)
RECURSIVE Bounds(_, _)

Bounded(b, args) ==
  IF Head(args) = Absent \/ Can("r", b.perm)
  THEN Release(Bounds(b.st, Tail(args)), b.deps \o b.owner) ELSE Broken

Bounds(st, args) == IF args = <<>> THEN st ELSE Bounded(VisitExpr(st, Head(args)), args)

Sliced(x) ==
  CASE x.perm.kind = "array" -> [x EXCEPT !.perm = Tree("slice", FreshBase, @.elems)]
    [] x.perm.kind = "slice" -> x
    [] OTHER -> Failed

Within(x, e) == Sliced([x EXCEPT !.st = Bounds(@, e.args)])

visitSliceExpr(st, e) == Provided(TRUE, Within(VisitExpr(st, e.x), e))

(* One step of a selector's path.  A field may be that of a pointer's      *)
(* target; a method is bound to its receiver, or becomes a function.       *)
FieldIn(r, struct, i) == IF struct.kind = "struct" THEN [r EXCEPT !.perm = struct.elems[i]]
                         ELSE Failed

FieldVal(r, i) == FieldIn(r, IF r.perm.kind = "pointer" THEN r.perm.elems[1] ELSE r.perm, i)

Unowned(fun) == ConvertToBase(fun, fun.base \ {"o"})

stripReceiver(fun) == [fun EXCEPT !.recvs = <<>>]

pushReceiverToParams(fun) == [fun EXCEPT !.recvs = <<>>, !.params = fun.recvs \o @]

BoundTo(r, method) ==
  [moveOrCopy(r, method.recvs[1]) EXCEPT
     !.perm = stripReceiver(IF Can("o", method.recvs[1]) THEN method ELSE Unowned(method))]

MethodVal(r, i) == IF r.perm.kind = "interface" THEN BoundTo(r, r.perm.elems[i]) ELSE Failed

MethodExpr(r, i) ==
  IF r.perm.kind # "interface" THEN Failed
  ELSE Result(pushReceiverToParams(r.perm.elems[i]), NoOwner, <<>>, ReleaseAll(r))

visitSelectorExprOne(r, i, of) == CASE of = "field"      -> FieldVal(r, i)
                                    [] of = "method"     -> MethodVal(r, i)
                                    [] of = "methodExpr" -> MethodExpr(r, i)

RECURSIVE Select(_, _, _)
Select(r, path, of) ==
  IF r.st = Broken THEN Failed
  ELSE IF Len(path) = 1 THEN visitSelectorExprOne(r, path[1], of)
  ELSE Select(visitSelectorExprOne(r, path[1], "field"), Tail(path), of)

visitSelectorExpr(st, e) == Provided(TRUE, Select(VisitExpr(st, e.x), e.path, e.of))

(* The values of a composite literal, each moved or copied to its field.   *)
(* The owner of a value counts as a dependency.                            *)
RECURSIVE Elements(_, _, _, _, _)

Placed(v, args, fields, type, deps) ==
  Elements(v.st, Tail(args), Tail(fields), type, deps \o v.deps)

Elements(st, args, fields, type, deps) ==
  IF st = Broken \/ args = <<>> THEN Result(type, NoOwner, deps, st)
  ELSE Placed(moveOrCopy(OwnerToDeps(VisitExpr(st, Head(args))), type.elems[Head(fields)]),
              args, fields, type, deps)

OfType(type, e) == IF type.perm.kind # "struct" THEN Failed
                   ELSE Elements(type.st, e.args, e.fields, type.perm, <<>>)

visitCompositeLit(st, e) == Provided(TRUE, OfType(Read(VisitExpr(st, e.x)), e))

(* The captured variables are borrowed in the order of the store.  The     *)
(* function is owned only if all of them are.  The body borrows and        *)
(* releases them once, which is three uses.                                *)
Captured(st, e, i) == \E n \in e.captured : First(st, n, i)

visitFuncLit(st, e) ==
  LET at  == SelectSeq([i \in DOMAIN st |-> i], LAMBDA i : Captured(st, e, i))
      fun == [e.perm EXCEPT !.base = @ \cup {"o"}]
  IN  Provided(Len(at) = Cardinality(e.captured),
        Result(IF \A i \in DOMAIN at : Can("o", st[at[i]].eff) THEN fun ELSE Unowned(fun),
               NoOwner,
               [k \in DOMAIN at |-> [name |-> st[at[k]].name, perm |-> st[at[k]].eff]],
               [i \in DOMAIN st |-> IF Captured(st, e, i)
                                    THEN [st[i] EXCEPT !.eff = Dead(@), !.uses = @ + 3]
                                    ELSE st[i]]))

VisitExpr(st, e) ==
  IF st = Broken THEN Failed
  ELSE CASE e.kind = "absent"    -> Result(None, NoOwner, <<>>, st)
         [] e.kind = "literal"   -> NewValue(st)
         [] e.kind = "ident"     -> visitIdent(st, e.name)
         [] e.kind = "binary"    -> visitBinaryExpr(st, e)
         [] e.kind = "index"     -> visitIndexExpr(st, e)
         [] e.kind = "star"      -> visitStarExpr(st, e)
         [] e.kind = "unary"     -> visitUnaryExpr(st, e)
         [] e.kind = "call"      -> visitCallExpr(st, e, FALSE)
         [] e.kind = "slice"     -> visitSliceExpr(st, e)
         [] e.kind = "selector"  -> visitSelectorExpr(st, e)
         [] e.kind = "composite" -> visitCompositeLit(st, e)
         [] e.kind = "func"      -> visitFuncLit(st, e)
=============================================================================
