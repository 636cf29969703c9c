-------------------------------- MODULE Execution --------------------------------
(***************************************************************************)
(* What the visit of a function literal is meant to foresee: once it is    *)
(* over, the body is run.  A run follows one path, as the Go language has  *)
(* it, with conditions that come out either way; its store is what the     *)
(* permissions of the variables are along that path.                       *)
(*                                                                         *)
(* A run is a continuation: what is left to do, innermost first.           *)
(***************************************************************************)
EXTENDS Statements

VARIABLES
  todo,    \* the continuation
  now,     \* the store along the path; a use is noted, but not counted
  fate     \* "off", "running", "ended", "returned", or a "fault" of permissions

run == <<todo, now, fate>>

Bare(st)   == [i \in DOMAIN st |-> [st[i] EXCEPT !.uses = IF @ > 0 THEN 1 ELSE 0]]
Unused(st) == [i \in DOMAIN st |-> [st[i] EXCEPT !.uses = 0]]

(* Statements of a list from one on; the end of a block, of a switch, of a *)
(* loop; a label around a statement.                                       *)
Do(stmt)          == [do |-> "stmt", stmt |-> stmt]
From(stmts, at)   == [do |-> "list", stmts |-> stmts, at |-> at]
End               == [do |-> "end"]
Around(label)     == [do |-> "label", label |-> label]
Switch(cs, i, ds) == [do |-> "switch", clauses |-> cs, at |-> i, deps |-> ds]
For(stmt)         == [do |-> "for", stmt |-> stmt]
InRange(stmt, ds, inside, back) ==
  [do |-> "range", stmt |-> stmt, deps |-> ds, inside |-> inside, back |-> back]

IsLoop(f) == f.do \in {"for", "range"}

Current == Head(todo)
Later == Tail(todo)

Is(kind) == /\ fate = "running" /\ todo # <<>>
            /\ Current.do = "stmt" /\ Current.stmt.kind = kind

At(do) == fate = "running" /\ todo # <<>> /\ Current.do = do

(* The path goes on; it is a fault to do what permissions do not allow.    *)
GoOn(st, k) ==
  /\ UNCHANGED vars
  /\ IF st = Broken THEN fate' = "fault" /\ UNCHANGED <<todo, now>>
     ELSE todo' = k /\ now' = Bare(st) /\ UNCHANGED fate

(* A store when f is abandoned: blocks end, what was borrowed is released. *)
LeaveRange(f, st) ==
  LET outside == IF f.inside THEN Closed(st) ELSE st
  IN  IF f.back THEN Release(outside, f.deps) ELSE outside

Abandoned(st, f) ==
  CASE f.do \in {"end", "for"} -> Closed(st)
    [] f.do = "switch"         -> Closed(Release(st, f.deps))
    [] f.do = "range"          -> LeaveRange(f, st)
    [] OTHER                   -> st

AbandonedUpTo(i) ==
  LET after[j \in 0..Len(todo)] == IF j = 0 THEN now ELSE Abandoned(after[j - 1], todo[j])
  IN  after[i]

Innermost(is) == CHOOSE i \in is : \A j \in is : i <= j

Loops    == {i \in DOMAIN todo : IsLoop(todo[i])}
Switches == {i \in DOMAIN todo : todo[i].do = "switch"}

Labelled(label) == {i \in DOMAIN todo : todo[i].do = "label" /\ todo[i].label = label}

Listing(label) == {i \in DOMAIN todo : todo[i].do = "list" /\ label \in Labels(todo[i].stmts)}

Rest(i) == SubSeq(todo, i, Len(todo))

--------------------------------------------------------------------------------
Start == /\ stack = <<>> /\ lit.visited /\ fate = "off"
         /\ todo' = <<From(lit.body, 1)>> /\ now' = Unused(Entered)
         /\ fate' = "running"
         /\ UNCHANGED vars

Finish == /\ fate = "running" /\ todo = <<>>
          /\ fate' = "ended"
          /\ UNCHANGED <<vars, todo, now>>

NextOfList == /\ At("list")
              /\ GoOn(now, IF Current.at > Len(Current.stmts) THEN Later
                           ELSE <<Do(Current.stmts[Current.at]), [Current EXCEPT !.at = @ + 1]>> \o Later)

RunSimple  == Is("simple") /\ GoOn(AfterSimple(now, Current.stmt), Later)
RunLabeled == Is("labeled") /\ GoOn(now, <<Do(Current.stmt.stmt), Around(Current.stmt.label)>> \o Later)
PastLabel  == At("label") /\ GoOn(now, Later)

RunBlock == Is("block") /\ GoOn(Opened(now), <<From(Current.stmt.stmts, 1), End>> \o Later)
PastEnd  == (At("end") \/ At("switch")) /\ GoOn(Abandoned(now, Current), Later)

RunIf ==
  /\ Is("if")
  /\ \E branch \in {Current.stmt.then, Current.stmt.else} :
       GoOn(AfterCondition(AfterSimple(Opened(now), Current.stmt.init), Current.stmt.cond),
            <<Do(branch), End>> \o Later)

(* The conditions of a clause are evaluated up to the one that holds. *)
Guards(st, alts) ==
  LET after[j \in 0..Len(alts)] == IF j = 0 THEN st ELSE AfterCondition(after[j - 1], alts[j])
  IN  after[Len(alts)]

RunSwitch ==
  /\ Is("switch")
  /\ \E stmt \in {Current.stmt} :
     \E st \in {AfterSimple(Opened(now), stmt.init)} :
       IF st = Broken \/ (stmt.tag # NoName /\ ~CanRead(st, stmt.tag)) THEN GoOn(Broken, <<>>)
       ELSE LET deps   == Deps(st, stmt.tag)
                tagged == After(st, stmt.tag)
            IN  \/ GoOn(tagged, <<Switch(stmt.clauses, 0, deps)>> \o Later)
                \/ \E i \in DOMAIN stmt.clauses :
                   \E j \in DOMAIN stmt.clauses[i].alts \cup
                             (IF stmt.clauses[i].alts = <<>> THEN {0} ELSE {}) :
                     GoOn(Guards(tagged, SubSeq(stmt.clauses[i].alts, 1, j)),
                          <<From(stmt.clauses[i].body, 1), Switch(stmt.clauses, i, deps)>> \o Later)

RunSelect ==
  /\ Is("select")
  /\ \E stmt \in {Current.stmt} : \E i \in DOMAIN stmt.clauses :
       GoOn(AfterSimple(Opened(now), stmt.clauses[i].comm),
            <<From(stmt.clauses[i].body, 1), Switch(stmt.clauses, i, <<>>)>> \o Later)

RunFor == Is("for") /\ GoOn(AfterSimple(Opened(now), Current.stmt.init),
                            <<Do([kind |-> "test", stmt |-> Current.stmt])>> \o Later)

TestFor ==
  /\ Is("test")
  /\ \E st \in {AfterCondition(now, Current.stmt.stmt.cond)} :
       \/ GoOn(st, <<Do(Current.stmt.stmt.body), For(Current.stmt.stmt)>> \o Later)
       \/ GoOn(Closed(st), Later)

AgainFor == At("for") /\ GoOn(AfterSimple(now, Current.stmt.post),
                              <<Do([kind |-> "test", stmt |-> Current.stmt])>> \o Later)

RunRange ==
  /\ Is("range")
  /\ GoOn(IF CanRead(now, Current.stmt.x) THEN After(now, Current.stmt.x) ELSE Broken,
          <<InRange(Current.stmt, Deps(now, Current.stmt.x), FALSE, TRUE)>> \o Later)

AgainRange ==
  /\ At("range")
  /\ \/ GoOn(LeaveRange(Current, now), Later)
     \/ \E st \in {IF Current.inside THEN Closed(now) ELSE now} :
        \E keyed \in {Bound(Opened(st), Current.stmt.key, KeyOf(Container(Current.deps)))} :
        \E bound \in {Bound(keyed, Current.stmt.value, ElementOf(Container(Current.deps)))} :
          GoOn(bound,
               <<Do(Current.stmt.body),
                 InRange(Current.stmt, Current.deps, TRUE,
                         /\ Current.back
                         /\ bound # Broken => /\ Releasable(keyed, Current.stmt.key)
                                              /\ Releasable(bound, Current.stmt.value))>> \o Later)

--------------------------------------------------------------------------------
Branches(tok) == Is("branch") /\ Current.stmt.tok = tok

RunReturn ==
  /\ Branches("return")
  /\ LET st == AbandonedUpTo(Len(todo))
     IN  IF st = Broken THEN GoOn(Broken, <<>>)
         ELSE todo' = <<>> /\ now' = Bare(st) /\ fate' = "returned" /\ UNCHANGED vars

(* A loop with a label is just inside of it. *)
RunBreak ==
  /\ Branches("break")
  /\ LET to == Innermost(IF BranchingThis(Current.stmt) THEN Loops \cup Switches
                         ELSE Labelled(Current.stmt.label))
     IN  GoOn(AbandonedUpTo(to), Rest(to + 1))

RunContinue ==
  /\ Branches("continue")
  /\ LET to == IF BranchingThis(Current.stmt) THEN Innermost(Loops)
               ELSE Innermost(Labelled(Current.stmt.label)) - 1
     IN  GoOn(AbandonedUpTo(to - 1), Rest(to))

RunGoto ==
  /\ Branches("goto")
  /\ LET to == Innermost(Listing(Current.stmt.label))
     IN  GoOn(AbandonedUpTo(to - 1),
              <<From(todo[to].stmts, Target(todo[to].stmts, Current.stmt.label))>> \o Rest(to + 1))

(* To the next clause of a switch; one cannot fall into a clause of a       *)
(* select.                                                                 *)
RunFallthrough ==
  /\ Branches("fallthrough")
  /\ LET to   == Innermost(Switches)
         next == todo[to].at + 1
     IN  /\ todo[to].clauses[next].kind = "case"
         /\ GoOn(AbandonedUpTo(to - 1),
              <<From(todo[to].clauses[next].body, 1), [todo[to] EXCEPT !.at = next]>> \o Rest(to + 1))

Step == \/ Start \/ Finish \/ NextOfList \/ RunSimple \/ RunLabeled \/ PastLabel
        \/ RunBlock \/ PastEnd \/ RunIf \/ RunSwitch \/ RunSelect
        \/ RunFor \/ TestFor \/ AgainFor \/ RunRange \/ AgainRange
        \/ RunReturn \/ RunBreak \/ RunContinue \/ RunGoto \/ RunFallthrough

RunInit == Init /\ todo = <<>> /\ now = <<>> /\ fate = "off"

RunNext == (Next /\ UNCHANGED run) \/ Step

RunSpec == RunInit /\ [][RunNext]_<<vars, run>>

--------------------------------------------------------------------------------
(* "It will evaluate the block for all possible inputs": whatever path a   *)
(* run of the body takes, the visit has found an exit with the permissions *)
(* the path ends with, and knows whether it returned.                      *)
SameView(st, st2) == \A n \in Name : Effective(st, n) = Effective(st2, n)

Foreseen ==
  fate \in {"ended", "returned"} =>
    \E i \in DOMAIN lit.exits :
      /\ lit.exits[i].branch.tok = IF fate = "ended" THEN "none" ELSE "return"
      /\ SameView(lit.exits[i].st, now)

(* A program that was let pass never asks for a permission that is not     *)
(* there, however its conditions come out.                                 *)
NeverFaults == fate # "fault"
=============================================================================
