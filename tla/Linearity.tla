-------------------------------- MODULE Linearity --------------------------------
(***************************************************************************)
(* What the interpreter promises of the simple statements it accepts: that *)
(* what is linear has one user, that what was lent comes back, and that    *)
(* nothing else changes.                                                   *)
(***************************************************************************)
EXTENDS SimpleStatements

Variables == NamesOf(st)

(* The same kinds all the way down. *)
RECURSIVE SameShape(_, _)
SameShape(p, q) ==
  LET Alike(s, t) == /\ Len(s) = Len(t)
                     /\ \A i \in DOMAIN s : SameShape(s[i], t[i])
  IN  /\ p.kind = q.kind
      /\ Alike(p.elems, q.elems) /\ Alike(p.recvs, q.recvs)
      /\ Alike(p.params, q.params) /\ Alike(p.results, q.results)

(* Variables are distinct and keep their shape.  The histories have the    *)
(* references of every variable.                                           *)
TypeOK ==
  /\ ended \in {"no", "returned", "rejected"} /\ count \in 0..MaxStatements
  /\ last \in Statement \cup {NoStmt}
  /\ Cardinality(Variables) = Len(st) /\ DOMAIN reach = Variables
  /\ \A i \in DOMAIN st : /\ st[i].name \in Name
                          /\ SameShape(st[i].eff, st[i].max)

--------------------------------------------------------------------------------
(* What a permission lets its holder do with the objects it refers to. *)
RECURSIVE Rights(_)
Rights(p) ==
  CASE p.kind = "pointer" -> IF Can("r", p) THEN p.elems[1].base \cup Rights(p.elems[1]) ELSE {}
    [] p.kind \in {"struct", "array"} -> UNION {Rights(p.elems[i]) : i \in DOMAIN p.elems}
    [] p.kind \in {"chan", "slice", "map", "interface", "func"} -> p.base
    [] OTHER -> {}

(* What the variable n can do with the object o.  *)
RightsOf(n, o) == (IF o = Occupied(n) THEN Effective(st, n).base ELSE {}) \cup
                  (IF o \in reach[n] THEN Rights(Effective(st, n)) ELSE {})

Knows(n) == reach[n] \cup {Occupied(n)}

Exclusive(mine, others) == isLinear(mine) => others \cap {"r", "w"} = {}

(* A linear object has a single user: while a variable has an exclusive    *)
(* right to an object, nobody else can read or write it, neither through   *)
(* another variable nor through a reference given away for good            *)
(* (docs/permissions.md:26).  This is what moveOrCopy and the assignment   *)
(* statements are for.                                                     *)
OneUser ==
  \A n \in Variables :
    /\ \A m \in Variables \ {n} : \A o \in Knows(n) \cap Knows(m) :
         Exclusive(RightsOf(n, o), RightsOf(m, o))
    /\ \A g \in escaped : \A o \in Knows(n) \cap g.refs :
         /\ Exclusive(RightsOf(n, o), Rights(g.perm))
         /\ Exclusive(Rights(g.perm), RightsOf(n, o))

--------------------------------------------------------------------------------
Live(deps) == {i \in DOMAIN deps : deps[i].perm.base # {}}

(* Whatever an expression borrowed, it borrowed once, and the variable is  *)
(* unusable until it is released: two entries that give back the same      *)
(* permission would let the release of one undo the other.                 *)
LentIn(r, lent) ==
  r.st # Broken =>
    \A i \in Live(lent) :
      /\ Effective(r.st, lent[i].name) = Dead(Effective(st, lent[i].name))
      /\ \A j \in Live(lent) : lent[i].name = lent[j].name => i = j

LentOnceBy(r) == LentIn(r, r.deps \o r.owner)

LentOnce ==
  [][\A e \in ValuesOf(last') : LentOnceBy(VisitExpr(st, e))]_vars

--------------------------------------------------------------------------------
RECURSIVE Names(_)
Names(e) ==
  CASE e.kind = "ident" -> {e.name}
    [] e.kind = "func"  -> e.captured
    [] OTHER            -> UNION {Names(x) : x \in Parts(e)}

AllNames(es) == UNION {Names(x) : x \in es}

(* The variables an expression may consume: those in the arguments for     *)
(* owned parameters, in the fields of composite literals, in the keys of   *)
(* maps and in the receivers of methods.                                   *)
RECURSIVE Consumed(_)

ConsumedHere(e) ==
  CASE e.kind = "call" -> AllNames({e.args[i] : i \in
                            {j \in DOMAIN e.args : Can("o", Signature(e.x).params[j])}})
    [] e.kind = "composite" -> AllNames(Parts(e))
    [] e.kind = "index"     -> Names(e.y)
    [] e.kind = "selector"  -> IF e.of = "method" THEN Names(e.x) ELSE {}
    [] OTHER                -> {}

Consumed(e) == ConsumedHere(e) \cup UNION {Consumed(x) : x \in Parts(e)}

(* What a statement may consume, and the variables it assigns. *)
MayConsume(s) ==
  CASE s.kind \in {"expr", "incdec"} -> Consumed(s.args[1])
    [] s.kind = "send"               -> Consumed(s.args[1]) \cup Names(s.args[2])
    [] OTHER                         -> AllNames(ValuesOf(s))

Assigns(s) == IF s.kind \in Assigning
              THEN {n \in Name : \E i \in DOMAIN s.lhs : s.lhs[i] = Ident(n)} ELSE {}

(* Releasing gives back: after a statement every variable that was not     *)
(* assigned or consumed has the permission it had before, however many     *)
(* calls, selectors and operators it was lent to on the way.               *)
LentComesBack ==
  [][ended' # "rejected" =>
       \A n \in Variables \ (MayConsume(last') \cup Assigns(last')) :
         Effective(st', n) = Effective(st, n)]_vars

Weaker(p, q) == p = q \/ Leq(p, q)

(* Nothing is gained: a variable gets rights only by being assigned, so    *)
(* that what was moved stays unusable until then, also where an owner is   *)
(* released with less than it was borrowed with.                           *)
NothingGained ==
  [][\A n \in Variables \ Assigns(last') :
       Leq(Effective(st', n), Effective(st, n))]_vars

Temporary(i) == <<"t1", "t2", "t3">>[i]
Temporaries(s) == [i \in DOMAIN s.rhs |-> Ident(Temporary(i))]

Without(store, names) == SelectSeq(store, LAMBDA c : c.name \notin names)

ToTemporaries(s) == defineOrAssignMany(st, Temporaries(s), s.rhs, <<>>, TRUE)

AssignsLike(store, other) ==
  other # Broken => store = Uncounted(Without(other, {Temporary(i) : i \in 1..3}))

(* a, b = b, a exchanges: an assignment of several values has the effect   *)
(* of assigning each to a temporary first, and then the temporaries to the *)
(* variables (interpreter.go:880).                                         *)
AsIfWithTemporaries ==
  [][last'.kind = "assign" /\ Len(last'.lhs) > 1 /\ Len(last'.rhs) > 1 /\ ended' # "rejected" =>
       AssignsLike(st', defineOrAssignMany(ToTemporaries(last'), last'.lhs,
                          Temporaries(last'), <<>>, FALSE))]_vars
=============================================================================
