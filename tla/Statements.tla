------------------------------- MODULE Statements -------------------------------
(***************************************************************************)
(* The interpreter's visit of the statements of a function literal's body, *)
(* and what is made of its exits.  visitStmt is recursive: the calls under *)
(* way are frames of a stack, innermost first, and a step is what a call   *)
(* does until it calls another one or returns.                             *)
(*                                                                         *)
(* Every statement gives exits: stores, with the branch statement that     *)
(* made the path leave early, if any.  The statement lists and the loops   *)
(* follow the exits with a work list each.                                 *)
(*                                                                         *)
(* Expressions and simple statements are reduced to what they do to the    *)
(* permission of one variable; module Expressions has them in full.        *)
(***************************************************************************)
EXTENDS StoreValue

CONSTANTS
  Stmts,      \* statements, and all the statements inside of them
  Body,       \* the function bodies to visit: sequences of statements
  Outer,      \* the stores the function literal may be met in
  Param,      \* the parameter of the function literal
  Readable,   \* the permissions with read permission
  Owned,      \* those with ownership
  Fresh,      \* the permission of a new value
  KeyOf(_), ElementOf(_),         \* of a container, NoPerm if it is none
  Copyable(_, _), Movable(_, _),  \* CopyableTo and MovableTo
  Logged      \* the name that the log statements look up

ASSUME FreshAssumption ==
  /\ Readable \subseteq Permission /\ Owned \subseteq Permission
  /\ Fresh \in Readable \cap Owned

ASSUME ContainerAssumption ==
  \A p \in Permission : {KeyOf(p), ElementOf(p)} \subseteq Permission \cup {NoPerm}

(* An entry of a store: a marker, or a variable with permissions within    *)
(* their maximum (module Store shows that they are).                       *)
Entry == {c \in [name : Name \cup {Unnamed}, eff : Permission \cup {NoPerm},
                 max : Permission \cup {NoPerm}, uses : Nat] :
            /\ c.name = Unnamed => c.eff = NoPerm /\ c.max = NoPerm
            /\ c.name # Unnamed => c.eff # NoPerm /\ c.max # NoPerm /\ Leq(c.eff, c.max)}

ASSUME OuterAssumption ==
  /\ Outer \subseteq Seq(Entry)
  /\ Param \in [name : Name, perm : Permission]
  /\ Logged # Unnamed

INSTANCE BlockManager

(* A simple statement does something to a variable; a nil statement is one *)
(* that does nothing, a nil expression names none.                         *)
NoName == ""

Simple(does, n) == [kind |-> "simple", does |-> does, name |-> n]
Nil             == Simple("nothing", NoName)

SimpleStmt ==
  [kind : {"simple"}, does : {"use", "move", "assign", "define"}, name : Name] \cup {Nil}

Binding == {s \in SimpleStmt : s.does \in {"nothing", "define", "assign"}}

(* One := or = is for the key and the value, and := not for a name twice.  *)
AtOnce(key, value) == /\ {key.does, value.does} # {"define", "assign"}
                      /\ key.does = "define" => key.name # value.name

(* Statements, the statements inside of which are in S.                    *)
StmtOver(S) ==
  SimpleStmt
  \cup [kind : {"branch"},  tok : STRING, label : STRING]
  \cup [kind : {"labeled"}, label : STRING, stmt : S]
  \cup [kind : {"block"},   stmts : Seq(S)]
  \cup [kind : {"if"},      init : SimpleStmt, cond : STRING, then : S, else : S]
  \cup [kind : {"switch"},  init : SimpleStmt, tag : STRING,
                             clauses : Seq({s \in S : s.kind = "case"})]
  \cup [kind : {"case"},    alts : Seq(STRING), body : Seq(S)]
  \cup [kind : {"select"},  clauses : Seq({s \in S : s.kind = "comm"})]
  \cup [kind : {"comm"},    comm : SimpleStmt, body : Seq(S)]
  \cup [kind : {"for"},     init : SimpleStmt, cond : STRING, post : SimpleStmt, body : S]
  \cup {s \in [kind : {"range"}, x : STRING, key : Binding, value : Binding, body : S] :
           AtOnce(s.key, s.value)}

ASSUME StmtsAssumption == Stmts \subseteq StmtOver(Stmts) /\ Body \subseteq Seq(Stmts)

(* Early exits: return, break, continue, goto and fallthrough. *)
Branch(tok, label) == [tok |-> tok, label |-> label]
NoLabel            == ""
NoBranch           == Branch("none", NoLabel)

Exit(st, branch) == [st |-> st, branch |-> branch]

VARIABLES
  stack,     \* the calls under way
  ret,       \* the exits the last call returned and its caller has not yet used
  mode,      \* is the innermost frame called, or returned to?
  orig,      \* the store the function literal was met in
  lit,       \* the literal: its body and exits, what it borrows, the store after it
  outcome    \* how the visit of the literal ended

vars == <<stack, ret, mode, orig, lit, outcome>>

--------------------------------------------------------------------------------
(* Simple statements, each with a single exit, without a branch.           *)
Assignable(st, n) == Effective(st, n) \in Owned

(* A variable is assigned what is copied to it with all that it may have,  *)
(* and what is moved to it with no more than there was.                    *)
Assigned(st, n, p) ==
  WithEffective(st, n, IF Copyable(p, Maximum(st, n)) THEN Maximum(st, n) ELSE p)

(* Does n take p, by copying or moving it?  Only when said so as unowned.  *)
Takes(st, n, p, allowUnowned) ==
  /\ allowUnowned \/ Assignable(st, n)
  /\ Copyable(p, Effective(st, n)) \/ Movable(p, Effective(st, n))

defineOrAssign(st, s, p, allowUnowned) ==
  LET after == IF s.does = "define" THEN WithVariable(st, s.name, p)
               ELSE Assigned(st, s.name, p)
  IN  IF p # NoPerm /\ after # Broken /\ Takes(after, s.name, p, allowUnowned)
      THEN after ELSE Broken

AfterSimple(st, s) ==
  CASE st = Broken          -> Broken
    [] s.does = "nothing"   -> st
    [] s.does = "use"       -> IF Effective(st, s.name) \in Readable
                               THEN Release(Borrow(st, s.name), <<Borrowed(st, s.name)>>)
                               ELSE Broken
    [] s.does = "move"      -> IF Assignable(st, s.name) THEN Borrow(st, s.name) ELSE Broken
    [] OTHER                -> defineOrAssign(st, s, Fresh, FALSE)

(* A condition, a tag or a range expression: nil, or an identifier.        *)
Deps(st, n)  == IF n = NoName THEN <<>> ELSE <<Borrowed(st, n)>>
After(st, n) == IF n = NoName THEN st ELSE Borrow(st, n)

CanRead(st, n) == n # NoName /\ Effective(st, n) \in Readable

(* A condition is read, and what it borrowed is released.                  *)
AfterCondition(st, n) ==
  IF st # Broken /\ CanRead(st, n) THEN Release(After(st, n), Deps(st, n)) ELSE Broken

--------------------------------------------------------------------------------
Top == Head(stack)

(* The log statements count a use, of the variable they name.  Others that *)
(* hold the same array see it, too, if a store is counted which they share;*)
(* but a list counts one before it visits its first statement, so that all *)
(* stores that come of it have a use of the variable already.              *)
Log(st) == IF Has(st, Logged) THEN [st EXCEPT ![IndexOf(st, Logged)] = Used(@)] ELSE st

Calls(frames) == /\ stack' = frames \o Tail(stack)
                 /\ mode' = "call" /\ ret' = <<>>
                 /\ UNCHANGED <<orig, lit, outcome>>

Leaves(exits) == /\ stack' = Tail(stack)
                 /\ mode' = "return" /\ ret' = exits
                 /\ UNCHANGED <<orig, lit, outcome>>

Panics == /\ stack' = <<>> /\ ret' = <<>> /\ mode' = "return"
          /\ outcome' = "panic"
          /\ UNCHANGED <<orig, lit>>

(* A store or a list of exits, unless making it failed.                    *)
CallsIf(st, frames) == IF st = Broken THEN Panics ELSE Calls(frames)

LeavesIf(exits) == IF \E i \in DOMAIN exits : exits[i].st = Broken THEN Panics
                   ELSE Leaves(exits)

Called(fn)   == stack # <<>> /\ mode = "call" /\ Top.fn = fn
Returned(fn) == stack # <<>> /\ mode = "return" /\ Top.fn = fn

Visiting(kind) == Called("stmt") /\ Top.stmt.kind = kind

Visit(st, stmt) == [fn |-> "stmt", st |-> st, stmt |-> stmt]

(* visitStmtList until its loop. *)
NewList(st, stmts, isASwitch) ==
  LET works == IF stmts = <<>> THEN <<>>
               ELSE IF isASwitch THEN [i \in DOMAIN stmts |-> Work(st, i)]
               ELSE <<Work(st, 1)>>
  IN  [fn |-> "list", stmts |-> stmts, isASwitch |-> isASwitch, item |-> 0,
       todo |-> works, seen |-> works,
       exits |-> IF stmts = <<>> \/ isASwitch THEN <<Exit(st, NoBranch)>> ELSE <<>>]

(* MUTANT: the block is left open. *)
KeepsBlocks(exits) == exits

endBlocks(exits) ==
  [i \in DOMAIN exits |-> Exit(Closed(exits[i].st), exits[i].branch)]

released(exits, deps) ==
  [i \in DOMAIN exits |-> Exit(Release(exits[i].st, deps), exits[i].branch)]

--------------------------------------------------------------------------------
visitSimple ==
  /\ Visiting("simple")
  /\ LeavesIf(<<Exit(AfterSimple(Top.st, Top.stmt), NoBranch)>>)

visitBranchStmt ==
  /\ Visiting("branch")
  /\ Leaves(<<Exit(Top.st, Branch(Top.stmt.tok, Top.stmt.label))>>)

visitLabeledStmt ==
  /\ Visiting("labeled")
  /\ Calls(<<Visit(Top.st, Top.stmt.stmt)>>)

visitBlockStmt ==
  /\ Visiting("block")
  /\ Calls(<<NewList(Opened(Top.st), Top.stmt.stmts, FALSE), [fn |-> "block"]>>)

visitSelectStmt ==
  /\ Visiting("select")
  /\ Calls(<<NewList(Opened(Top.st), Top.stmt.clauses, TRUE), [fn |-> "block"]>>)

blockVisited == Returned("block") /\ LeavesIf(endBlocks(ret))

visitCommClause ==
  /\ Visiting("comm")
  /\ \E st \in {AfterSimple(Top.st, Top.stmt.comm)} :
       CallsIf(st, <<NewList(st, Top.stmt.body, FALSE)>>)

visitIfStmt ==
  /\ Visiting("if")
  /\ \E st \in {AfterCondition(AfterSimple(Opened(Top.st), Top.stmt.init), Top.stmt.cond)} :
       CallsIf(st, <<Visit(st, Top.stmt.then),
                     [fn |-> "if", st |-> st, stmt |-> Top.stmt]>>)

thenVisited ==
  /\ Returned("if")
  /\ Calls(<<Visit(Top.st, Top.stmt.else), [fn |-> "else", exits |-> ret]>>)

(* The log statements look at the first exit of either branch. *)
FirstLogged(exits) ==
  [i \in DOMAIN exits |-> IF i = 1 THEN Exit(Log(exits[i].st), exits[i].branch) ELSE exits[i]]

elseVisited ==
  /\ Returned("else")
  /\ IF Top.exits = <<>> \/ ret = <<>> THEN Panics
     ELSE LeavesIf(FirstLogged(endBlocks(Top.exits)) \o FirstLogged(endBlocks(ret)))

(* What the tag borrowed is given back when the body has been visited. *)
visitSwitchStmt ==
  /\ Visiting("switch")
  /\ \E st \in {AfterSimple(Opened(Top.st), Top.stmt.init)} :
       IF st = Broken \/ (Top.stmt.tag # NoName /\ ~CanRead(st, Top.stmt.tag)) THEN Panics
       ELSE CallsIf(After(st, Top.stmt.tag),
                    <<NewList(After(st, Top.stmt.tag), Top.stmt.clauses, TRUE),
                      [fn |-> "switch", deps |-> Deps(st, Top.stmt.tag)]>>)

switchVisited == Returned("switch") /\ LeavesIf(endBlocks(released(ret, Top.deps)))

(* The alternatives of a clause, one by one; merged begins as a nil store. *)
visitCaseClause ==
  /\ Visiting("case")
  /\ Calls(<<[fn |-> "case", st |-> Top.st, merged |-> <<>>, alts |-> Top.stmt.alts,
              body |-> Top.stmt.body]>>)

caseAlternative ==
  /\ Called("case") /\ Top.alts # <<>>
  /\ \E st \in {AfterCondition(Top.st, Head(Top.alts))} :
       CallsIf(MergedStore(Top.merged, st),
               <<[Top EXCEPT !.st = st, !.merged = MergedStore(@, st), !.alts = Tail(@)]>>)

caseBody ==
  /\ Called("case") /\ Top.alts = <<>>
  /\ Calls(<<NewList(Top.merged, Top.body, FALSE)>>)

--------------------------------------------------------------------------------
(* visitStmtList's loop: where an exit of statement f.item goes on in the  *)
(* list, Outside when it leaves it.                                        *)
Outside == 0

Labels(stmts) == {stmts[i].label : i \in {j \in DOMAIN stmts : stmts[j].kind = "labeled"}}

Target(stmts, label) ==
  CHOOSE i \in DOMAIN stmts : stmts[i].kind = "labeled" /\ stmts[i].label = label

BranchingThis(branch) == branch.label = NoLabel

GoesTo(f, branch) ==
  CASE branch = NoBranch /\ ~f.isASwitch /\ f.item < Len(f.stmts) -> f.item + 1
    [] branch.tok = "fallthrough" /\ f.isASwitch                  -> f.item + 1
    [] branch.tok = "goto" /\ branch.label \in Labels(f.stmts)    ->
         Target(f.stmts, branch.label)
    [] OTHER                                                      -> Outside

(* MUTANT: a break is passed on although it has left the switch. *)
PassesOn(f, branch) == branch

LeavesWith(f, branch) ==
  IF f.isASwitch /\ branch.tok = "break" /\ BranchingThis(branch) THEN NoBranch ELSE branch

Stays(f, exits) == {i \in DOMAIN exits : GoesTo(f, exits[i].branch) # Outside}

GoesOn(f, exits) ==
  Picked([i \in DOMAIN exits |-> Work(exits[i].st, GoesTo(f, exits[i].branch))],
         Stays(f, exits))

Leaving(f, exits) ==
  Picked([i \in DOMAIN exits |-> Exit(exits[i].st, LeavesWith(f, exits[i].branch))],
         DOMAIN exits \ Stays(f, exits))

(* Past the last statement there is an index out of range. *)
visitItem ==
  /\ Called("list") /\ hasWork(Top)
  /\ IF nextWork(Top).at \in DOMAIN Top.stmts
     THEN Calls(<<Visit(Log(nextWork(Top).st), Top.stmts[nextWork(Top).at]),
                  [withoutNext(Top) EXCEPT !.item = nextWork(Top).at]>>)
     ELSE Panics

itemVisited ==
  /\ Returned("list")
  /\ Calls(<<addExit(addWork(Top, GoesOn(Top, ret)), Leaving(Top, ret))>>)

listVisited == Called("list") /\ ~hasWork(Top) /\ Leaves(Top.exits)

--------------------------------------------------------------------------------
(* collectLoopExits. *)
Continues(exit) == \/ exit.branch = NoBranch
                   \/ exit.branch.tok = "continue" /\ BranchingThis(exit.branch)

Breaks(exit) == exit.branch.tok = "break" /\ BranchingThis(exit.branch)

(* MUTANT: continue leaves the loop. *)
OnlyNormal(exits) == Picked(exits, {i \in DOMAIN exits : exits[i].branch = NoBranch})

Continuing(exits) == {i \in DOMAIN exits : Continues(exits[i])}

nextIterations(exits) == Picked(exits, Continuing(exits))

realExits(exits) ==
  Picked([i \in DOMAIN exits |->
            IF Breaks(exits[i]) THEN Exit(exits[i].st, NoBranch) ELSE exits[i]],
         DOMAIN exits \ Continuing(exits))

Loop(fn, stmt, st, exits) ==
  [fn |-> fn, stmt |-> stmt, todo |-> <<Work(st, Outside)>>, seen |-> <<Work(st, Outside)>>,
   exits |-> exits, deps |-> <<>>, canRelease |-> FALSE]

(* The loop goes on with what the visit of its body led to. *)
Iterates(f, works) ==
  IF \E e \in {works[i].st : i \in DOMAIN works} \cup {f.exits[i].st : i \in DOMAIN f.exits} :
       e = Broken
  THEN Panics ELSE Calls(<<addWork(f, works)>>)

visitForStmt ==
  /\ Visiting("for")
  /\ \E st \in {AfterSimple(Opened(Top.st), Top.stmt.init)} :
       CallsIf(st, <<Loop("for", Top.stmt, st, <<>>)>>)

forIterates ==
  /\ Called("for") /\ hasWork(Top)
  /\ \E st \in {AfterCondition(nextWork(Top).st, Top.stmt.cond)} :
       CallsIf(st, <<Visit(st, Top.stmt.body),
                     addExit(withoutNext(Top), <<Exit(st, NoBranch)>>)>>)

forBodyVisited ==
  /\ Returned("for")
  /\ LET next == nextIterations(ret)
     IN  Iterates(addExit(Top, endBlocks(realExits(ret))),
                  [i \in DOMAIN next |-> Work(AfterSimple(next[i].st, Top.stmt.post), Outside)])

forVisited == Called("for") /\ ~hasWork(Top) /\ Leaves(Top.exits)

(* A key or a value of a range, nil or an identifier, is defined or        *)
(* assigned to in every iteration; only what is defined may be unowned.    *)
(* The identifier _ is as good as nil.                                     *)
Bound(st, key, perm) ==
  IF key.does = "nothing" THEN st
  ELSE defineOrAssign(st, key, perm, key.does = "define")

Releasable(st, key) == key.does = "nothing" \/ Effective(st, key.name) \notin Owned

(* The permission of the container, which is what was borrowed.            *)
Container(deps) == Head(deps).perm

visitRangeStmt ==
  /\ Visiting("range")
  /\ IF CanRead(Top.st, Top.stmt.x)
     THEN \E st \in {Log(After(Top.st, Top.stmt.x))} :
            CallsIf(st, <<[Loop("range", Top.stmt, st, <<Exit(Top.st, NoBranch)>>)
                           EXCEPT !.deps = Deps(Top.st, Top.stmt.x), !.canRelease = TRUE]>>)
     ELSE Panics

rangeIterates ==
  /\ Called("range") /\ hasWork(Top)
  /\ \E begun \in {Opened(Log(nextWork(Top).st))} :
     \E keyed \in {Bound(begun, Top.stmt.key, KeyOf(Container(Top.deps)))} :
     \E st \in {Bound(keyed, Top.stmt.value, ElementOf(Container(Top.deps)))} :
       CallsIf(st, <<Visit(st, Top.stmt.body),
                     [withoutNext(Top) EXCEPT
                        !.canRelease = /\ @ /\ Releasable(keyed, Top.stmt.key)
                                       /\ Releasable(st, Top.stmt.value)]>>)

rangeBodyVisited ==
  /\ Returned("range")
  /\ \E exits \in {endBlocks(ret)} :
       LET next == nextIterations(exits)
       IN  Iterates(addExit(Top, realExits(exits)
                                 \o [i \in DOMAIN next |-> Exit(next[i].st, NoBranch)]),
                    [i \in DOMAIN next |-> Work(next[i].st, Outside)])

rangeVisited ==
  /\ Called("range") /\ ~hasWork(Top)
  /\ LeavesIf(IF Top.canRelease THEN released(Top.exits, Top.deps) ELSE Top.exits)

--------------------------------------------------------------------------------
(* buildFunction, once the body has been visited: exit by exit, what was   *)
(* used more often than before is borrowed by the function literal.        *)
Unchanged(st) == /\ DOMAIN st = DOMAIN orig
                 /\ \A j \in DOMAIN st : st[j].name = orig[j].name /\ st[j].eff = orig[j].eff

Captures(st) == {j \in DOMAIN st : st[j].eff # NoPerm /\ st[j].uses > orig[j].uses}

(* MUTANT: what is captured stays available. *)
OnlyCounted(cell, uses) == [cell EXCEPT !.uses = uses]

Captured(cell, uses) ==
  [name |-> cell.name, eff |-> Dead(cell.eff), max |-> cell.max, uses |-> uses]

capture(l, st) ==
  [l EXCEPT
     !.deps  = @ \o Picked([j \in DOMAIN st |-> [name |-> l.st[j].name, perm |-> l.st[j].eff]],
                           Captures(st)),
     !.st    = [j \in DOMAIN @ |-> IF j \in Captures(st) THEN Captured(@[j], st[j].uses)
                                   ELSE @[j]],
     !.owned = @ /\ \A j \in Captures(st) : st[j].eff \in Owned]

bodyVisited ==
  /\ Returned("literal") /\ ~lit.visited
  /\ lit' = [lit EXCEPT !.exits = ret, !.visited = TRUE]
  /\ UNCHANGED <<stack, ret, mode, orig, outcome>>

captureExit ==
  /\ Returned("literal") /\ lit.visited /\ ret # <<>>
  /\ \E st \in {Closed(Head(ret).st)} :
       IF Unchanged(st) THEN /\ lit' = capture(lit, st)
                             /\ ret' = Tail(ret)
                             /\ UNCHANGED <<stack, mode, orig, outcome>>
       ELSE Panics

functionBuilt ==
  /\ Returned("literal") /\ lit.visited /\ ret = <<>>
  /\ stack' = <<>> /\ outcome' = "done"
  /\ UNCHANGED <<ret, mode, orig, lit>>

(* The store in which the body begins. *)
Entered == WithVariable(Opened(orig), Param.name, Param.perm)

Init ==
  /\ orig \in Outer
  /\ \E stmts \in Body :
       /\ lit = [body |-> stmts, visited |-> FALSE, exits |-> <<>>,
                  deps |-> <<>>, st |-> orig, owned |-> TRUE]
       /\ stack = <<NewList(Entered, stmts, FALSE), [fn |-> "literal"]>>
  /\ ret = <<>> /\ mode = "call"
  /\ outcome = "running"

Next ==
  \/ visitSimple \/ visitBranchStmt \/ visitLabeledStmt
  \/ visitBlockStmt \/ visitSelectStmt \/ blockVisited \/ visitCommClause
  \/ visitIfStmt \/ thenVisited \/ elseVisited
  \/ visitSwitchStmt \/ switchVisited \/ visitCaseClause \/ caseAlternative \/ caseBody
  \/ visitItem \/ itemVisited \/ listVisited
  \/ visitForStmt \/ forIterates \/ forBodyVisited \/ forVisited
  \/ visitRangeStmt \/ rangeIterates \/ rangeBodyVisited \/ rangeVisited
  \/ bodyVisited \/ captureExit \/ functionBuilt

Spec == Init /\ [][Next]_vars /\ WF_vars(Next)

--------------------------------------------------------------------------------
(* Lists and loops nested in each other, each with a work list begun anew  *)
(* for every visit, come to an end where no for statement is inside of     *)
(* another statement.                                                      *)
Terminates == <>(outcome # "running")

(* "Since only unseen entries are added, the code will also terminate      *)
(* eventually": the entries a loop has seen are no more than there are,    *)
(* with any permission for each of the variables the loop began with.      *)
UnseenRunOut ==
  \A i \in DOMAIN stack : stack[i].fn \in {"for", "range"} =>
    LET begun == stack[i].seen[1].st
    IN  Len(stack[i].seen) <= Cardinality(Permission) ^ (Len(begun) - Depth(begun))

(* Every store under way still has the variables the literal was met with, *)
(* in the same order: no statement loses a variable, or leaves a block of  *)
(* its own open, on any of its exits, early or not.                        *)
Stores(f) ==
  IF f.fn \notin {"list", "range", "for"} THEN {}
  ELSE {f.todo[i].st : i \in DOMAIN f.todo} \cup {f.exits[i].st : i \in DOMAIN f.exits}

Names(st) == [i \in DOMAIN st |-> st[i].name]

Keeps(st) == /\ Len(st) >= Len(orig)
             /\ SubSeq(Names(st), Len(st) - Len(orig) + 1, Len(st)) = Names(orig)

Balanced(f) ==
  /\ \A st \in Stores(f) : Keeps(st)
  /\ \A st, st2 \in Stores(f) : Depth(st) = Depth(st2)

ScopesKept == \A i \in DOMAIN stack : Balanced(stack[i])

(* Some statement handles every early exit: what leaves the body is the    *)
(* end of it or a return, never a break, a goto or the like.               *)
BranchesResolved ==
  \A i \in DOMAIN lit.exits : lit.exits[i].branch.tok \in {"none", "return"}

(* What Go asks of branch statements: that some statement they are in      *)
(* catches them.  c has the branches that are caught outside of a          *)
(* statement, the end of it and a return being caught by the body.  P has  *)
(* the statements, each with what is caught there.  Go allows more than    *)
(* this, but nothing in the interpreter catches it: break and continue     *)
(* with a label, and goto to a label directly behind another label.        *)
Final == {NoBranch, Branch("return", NoLabel)}

Caught(stmts, isASwitch) ==
  IF isASwitch THEN {Branch("break", NoLabel), Branch("fallthrough", NoLabel)}
  ELSE {Branch("goto", l) : l \in Labels(stmts)}

CaughtByLoop == {Branch("break", NoLabel), Branch("continue", NoLabel)}

InList(stmts, isASwitch, c) ==
  {<<stmts[i], c \cup Caught(stmts, isASwitch)>> : i \in DOMAIN stmts}

Inside(s, c) ==
  CASE s.kind = "labeled"              -> {<<s.stmt, c>>}
    [] s.kind = "block"                -> InList(s.stmts, FALSE, c)
    [] s.kind = "if"                   -> {<<s.then, c>>, <<s.else, c>>}
    [] s.kind \in {"switch", "select"} -> InList(s.clauses, TRUE, c)
    [] s.kind \in {"case", "comm"}     -> InList(s.body, FALSE, c)
    [] s.kind \in {"for", "range"}     -> {<<s.body, c \cup CaughtByLoop>>}
    [] OTHER                           -> {}

LegalBranches(P) ==
  /\ \A stmts \in Body : InList(stmts, FALSE, Final) \subseteq P
  /\ \A p \in P : /\ p[1].kind = "branch" => Branch(p[1].tok, p[1].label) \in p[2]
                  /\ Inside(p[1], p[2]) \subseteq P

(* A variable is borrowed by the literal, with the permission it had, or   *)
(* left as it was; and a literal that borrows what is not owned is not     *)
(* owned.  This goes for every list of exits.                              *)
BorrowedFirst(j) ==
  \E k \in DOMAIN lit.deps :
    /\ lit.deps[k] = [name |-> orig[j].name, perm |-> orig[j].eff]
    /\ lit.st[j].eff = Dead(orig[j].eff)
    /\ orig[j].eff \notin Owned => ~lit.owned

BorrowsOrLeaves ==
  /\ Names(lit.st) = Names(orig)
  /\ \A j \in DOMAIN orig : \/ BorrowedFirst(j)
                            \/ lit.st[j] = orig[j]
  /\ \A k \in DOMAIN lit.deps : Has(orig, lit.deps[k].name)

(* "They are also added as dependencies, so the caller could still release *)
(* them back": doing so gives back what the literal borrowed.              *)
ReleaseGivesBack ==
  outcome = "done" =>
    \A n \in Name : Effective(Release(lit.st, lit.deps), n) = Effective(orig, n)

(* The assertion "Store in wrong state after exit": when the block of the  *)
(* function ends, what is left is the store it was met in.                 *)
ExitsInRightState ==
  \A i \in DOMAIN lit.exits : Len(Closed(lit.exits[i].st)) = Len(orig)
=============================================================================
