------------------------------- MODULE ScopeStack -------------------------------
(***************************************************************************)
(* What a store promises: an immutable stack of scopes, innermost first,   *)
(* each a sequence of bindings, latest first.  Every operation gives a new *)
(* value and leaves those held in other registers alone.  Merge is only    *)
(* defined where no block is open.                                         *)
(***************************************************************************)
EXTENDS Naturals, Sequences

CONSTANTS Reg, Name, Permission, NoPerm, Err, Intersect(_, _)

VARIABLES env, out

vars == <<env, out>>

(* The nil store has no scope, not even an empty one. *)
Nil == <<>>
Norm(e) == IF e = Nil THEN << <<>> >> ELSE e

Init == /\ env = [r \in Reg |-> Nil]
        /\ out = [status |-> "ok", got |-> NoPerm]

(* An operation on the value e succeeds with the value v, or fails. *)
Gives(v, e) == v = e /\ out' = [status |-> "ok", got |-> NoPerm]

Fails(status) == /\ out' = [status |-> status, got |-> NoPerm]
                 /\ UNCHANGED env

Binds(scope, n) == \E i \in DOMAIN scope : scope[i].name = n

(* Position of the binding n refers to: the innermost scope that has one,  *)
(* and the latest in that scope.                                           *)
Resolves(e, n, k, i) ==
  /\ k \in DOMAIN e /\ \A h \in 1..(k - 1) : ~Binds(e[h], n)
  /\ i \in DOMAIN e[k] /\ e[k][i].name = n
  /\ \A j \in 1..(i - 1) : e[k][j].name # n

Bound(e, n) == \E k \in DOMAIN e : Binds(e[k], n)

Assign(e, v) == Gives(v, e)

BeginBlock(e, v) == Gives(v, << <<>> >> \o Norm(e))

EndBlock(e, v) == \/ Len(e) > 1 /\ Gives(v, Tail(e))
                  \/ ~(Len(e) > 1) /\ Fails("panic")

Rebind(e, v, n, eff(_), max(_)) ==
  \/ \E k \in DOMAIN e : \E i \in DOMAIN e[k] :
       LET b == e[k][i]
       IN  /\ Resolves(e, n, k, i)
           /\ \/ /\ eff(b) # Err
                 /\ Gives(v, [e EXCEPT ![k][i] =
                                [name |-> n, eff |-> eff(b), max |-> max(b)]])
              \/ eff(b) = Err /\ Fails("error")
  \/ ~Bound(e, n) /\ Fails("panic")

SetEffective(e, v, n, p) ==
  LET eff(b) == Intersect(b.max, p)
      max(b) == b.max
  IN  Rebind(e, v, n, eff, max)

SetMaximum(e, v, n, p) ==
  LET eff(b) == Intersect(b.eff, p)
      max(b) == p
  IN  Rebind(e, v, n, eff, max)

Define(e, v, n, p) ==
  \/ Binds(Norm(e)[1], n) /\ SetEffective(e, v, n, p)
  \/ /\ ~Binds(Norm(e)[1], n)
     /\ Gives(v, [Norm(e) EXCEPT ![1] =
                    <<[name |-> n, eff |-> p, max |-> p]>> \o @])

Get(e, n) ==
  /\ UNCHANGED env
  /\ \/ \E k \in DOMAIN e : \E i \in DOMAIN e[k] :
          /\ Resolves(e, n, k, i)
          /\ \E field \in {"eff", "max"} :
               out' = [status |-> "ok", got |-> e[k][i][field]]
     \/ ~Bound(e, n) /\ out' = [status |-> "ok", got |-> NoPerm]

Mergeable(e, f) ==
  /\ Len(e) = 1
  /\ \A i \in DOMAIN e[1] : /\ i \in DOMAIN f[1]
                            /\ f[1][i].name = e[1][i].name
                            /\ Intersect(e[1][i].eff, f[1][i].eff) # Err
                            /\ Intersect(e[1][i].max, f[1][i].max) # Err

Merge(e, f, v) ==
  \/ e = Nil /\ Gives(v, f)
  \/ e # Nil /\ f = Nil /\ Gives(v, e)
  \/ /\ e # Nil /\ f # Nil /\ Mergeable(e, f)
     /\ Gives(v, << [i \in DOMAIN e[1] |->
                       [name |-> e[1][i].name,
                        eff |-> Intersect(e[1][i].eff, f[1][i].eff),
                        max |-> Intersect(e[1][i].max, f[1][i].max)]] >>)
  \/ /\ e # Nil /\ f # Nil /\ ~Mergeable(e, f)
     /\ \E status \in {"error", "panic"} : Fails(status)

(* From the stacks old to the stacks new, named so that each is worked out *)
(* but once.                                                               *)
Step(old, new) ==
  \/ \E d \in Reg :
       /\ \A r \in Reg \ {d} : new[r] = old[r]
       /\ \E s \in Reg :
            \/ Assign(old[s], new[d])
            \/ BeginBlock(old[s], new[d])
            \/ EndBlock(old[s], new[d])
            \/ \E n \in Name, p \in Permission :
                 \/ Define(old[s], new[d], n, p)
                 \/ SetEffective(old[s], new[d], n, p)
                 \/ SetMaximum(old[s], new[d], n, p)
            \/ \E t \in Reg : Merge(old[s], old[t], new[d])
  \/ \E s \in Reg, n \in Name : Get(old[s], n)

Next == \E old \in {env} : \E new \in {env'} : Step(old, new)

Spec == Init /\ [][Next]_vars
=============================================================================
