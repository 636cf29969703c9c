# A formal model of lingolang

lingolang checks Go programs for linear permissions. `src/permission` defines
permissions and the operations on them; `src/capabilities` interprets a program
abstractly, one permission per variable, and reports statements that ask for a
right that is not there. This directory models the permission algebra and the
interpreter - its store, its work lists, the statements and the expressions - in
TLA+, checks them with TLC, and proves the central facts with TLAPS.

## Inventory

| Component | Source | State | Operations |
|---|---|---|---|
| Permissions | `permission/permission.go` | none; immutable objects, possibly cyclic, used by identity | kinds, rights, `isLinear` |
| Assignability | `permission/assignable.go` | memo table of one call | `MovableTo`, `RefcopyableTo`, `CopyableTo`, `assignableTo`, one `isAssignableTo` per kind |
| Merging and conversion | `permission/merge.go`, `mergeConvert.go` | table of objects under construction | `Intersect`, `Union`, `ConvertTo`, `ConvertToBase`, `StrictConvertToBase` |
| Type mapper | `permission/type.go` | memo table that outlives a call | `NewFromType` |
| Annotation parser | `permission/parser.go`, `scanner.go` | position, one token of lookahead | `Parse`, `Scan` |
| Store | `capabilities/store.go` | slices of variables over shared backing arrays | `BeginBlock`, `EndBlock`, `Define`, `SetEffective`, `SetMaximum`, `GetEffective`, `GetMaximum`, `Merge`, `Equal` |
| Expressions, borrowing, assignment | `capabilities/interpreter.go` 42-485, 797-968, 1175-1218 | owner and dependencies of a value | `VisitExpr`, `moveOrCopy`, `Release`, `defineOrAssign`, `go`, `defer`, send, return |
| Function literals | `interpreter.go` 487-564 | use counts before and after the body | `buildFunction` |
| Work list, control flow | `interpreter.go` 574-845, 970-1218 | work, seen, exits of each statement list and loop | `blockManager`, `visitStmtList`, loops, `if`, `switch`, branches |
| Checker | `capabilities/check.go`, `capabilities.go` | error count | `Files`, `report`, `handleBailout` |
| Command line | `lingolint/main.go` | none | flags and file loading |

The interpreter calls the store; the store calls `Intersect`; the interpreter
calls the assignability checks and the conversions to decide whether a value is
moved, copied or borrowed. The checker runs the Go type checker and the
assignment pass over files and does not call the interpreter, which only its
tests do. No component starts a goroutine: what is hard here is not scheduling
but

* recursion over **cyclic** permissions through a table that holds provisional
  entries (assignability) or unfinished objects (merging);
* **aliasing** of Go slices that the interpreter treats as values (store);
* the **order of exploration** of branches and loops, and the fixed point that
  ends it (work list);
* **protocols** of several calls: borrow, use, release; begin and end of a block.

What makes each component correct:

* Assignability: the recursion ends, the answer is the coinductive one
  whatever the order of the calls, no answer rests on a provisional entry that
  was withdrawn; moves compose, copies share no linear right.
* Merging: the result is complete, a lower or upper bound of the arguments with
  respect to moving, and gives up nothing needlessly; conversion is idempotent
  and leaves no linear permission inside one that is not.
* Store: a stack of immutable scopes although arrays are shared; a variable's
  effective permission stays within its maximum; a merge only weakens.
* Work list: every path is followed to every exit, nothing is followed twice,
  the list becomes empty, and so do lists and loops inside of each other.
* Control flow: blocks balance on every exit, early exits are caught by the
  statement they are about, and what the visit has found is what any run of the
  code does.
* Borrowing: what is borrowed is borrowed once and released or moved once; a
  linear object has one user.
* Function literals: each captured variable is borrowed with the permission it
  had, or left alone.
* Type mapper and parser: complete objects; input is consumed, errors reported.

`PROJECT.json` lists the components, the hazards found at their source lines
with the properties that cover them, and the correspondence of every definition
to the source.

## Modules

| Module | Role |
|---|---|
| `Permission` | rights, kinds, objects as nodes of a graph |
| `AssignRules` | the `isAssignableTo` methods: the test a method makes itself (`LocalOK`) and its recursive calls in order (`Goals`) |
| `Assignability` | their meaning: coinductive assignability as the complement of a least fixed point |
| `AssignableTo` | the recursive check as a state machine with an explicit call stack and memo table |
| `MergeRules`, `Merge` | the same division for merging and conversion |
| `FixedPoint` | the closure under one step, by which everything that looks further than a node's children is defined |
| `Oracle` | what both recursions promise: ask, then one allowed answer |
| `Cells` | what the methods of `Store` do to the entries of a slice |
| `Store` | the slices, windows onto backing arrays |
| `ScopeStack` | what the store promises: immutable stacks of scopes |
| `StoreValue` | the store as the interpreter uses it, a value, with `Borrow` and `Release` |
| `BlockManager` | the work list: what is to do, what was seen, the exits |
| `WorkList` | the loop around it, over statements of any behaviour |
| `Search` | what the loop promises: an exhaustive search |
| `Statements` | the visit of a function literal's body, every statement with several exits, and `buildFunction` |
| `Execution` | runs of the body the visit is meant to foresee |
| `Trees` | permissions without cycles, with assignability and conversion as functions |
| `Expressions` | the visit of every kind of expression, and `moveOrCopy` |
| `SimpleStatements` | the statements with one exit; programs made of them |
| `Linearity` | what is promised of such programs |
| `Recursion_proofs` | what recursive definitions compute: closures, inductions, iterated steps |
| `Permission_proofs`, `AssignableTo_proofs`, `Merge_proofs`, `Store_proofs`, `WorkList_proofs`, `Statements_proofs`, `Execution_proofs` | theorems |
| `MCAssignableTo`, `MCMerge`, `MCStore`, `MCWorkList`, `MCStatements`, `MCExecution`, `MCLinearity` | instances for TLC |

`Store` extends `Cells`, and so does `StoreValue`, so that both have the same
entries and the same laws of `Intersect`. `WorkList` and `Statements` share
`BlockManager`; `Statements` and `Expressions` share `StoreValue`; `Trees` takes
the rules of `AssignRules` and `MergeRules`.

### Permissions as a graph

A structured permission is a pointer in Go: the tables compare it by identity,
and it may be part of a cycle. It is a record of a kind, a base permission and
an identity; its children are found in the constant `shape`. A base permission
is a plain value and has no identity. Five sequences are enough for the fields
of all kinds: `elems` (target, element, key and value, fields, methods), and for
functions `recvs`, `params`, `results` and the name. `ObjectAssumption` and
`ShapeAssumption` say what the Go types guarantee, `ObjectFinite` that objects
are in memory. `MethodKindAssumption` and `MethodNameAssumption` say of interfaces
that their methods are functions (the field `Methods` of `InterfacePermission`
holds `*FuncPermission`s) and have distinct names, which is Go's rule.

### AssignableTo

`memo` is `state.values`; `stack` holds a frame for every call of
`assignableTo` that has not returned, with the position of the recursive call it
has reached. `Call` is an entry point with its new table. `Enter` finds no entry
for the next recursive call, writes the provisional TRUE and starts the method.
`Advance` reads TRUE, from before or from the call that has just returned.
`Accept` and `Reject` return and overwrite the entry. `Panic` is an index out of
range or a missing method, on which the code panics. A recursive call is thus
split at its table accesses, which is where provisional entries matter.

### Merge

`kids` is the table: for each key the children its object has been given. The
length of that sequence is the position of the loop, so a frame is just a key.
`Build` registers an empty object, `Reuse` finds one, finished or not, `Share`
answers without building, `Finish` completes the innermost object, `Fail` raises
a `mergeError` or panics, `Identify` is the `reflect.DeepEqual` by which every
entry point gives back its own argument for an equal result. The base permission
of a new object depends on the key alone and is part of the value `New(k)`;
`NewAssumption` says that what is allocated is none of the objects there were.
When a call has come to its end, `Shapes` is the graph of the old and new objects
together, and the properties about what was built are stated on it.

### Store

`heap` holds the backing arrays, `regs` the interpreter's variables of type
`Store`, each a window `[arr, off]` that reaches to the end of its array.
`EndBlock` moves a window; `Assign` copies it; `GetEffective` and `GetMaximum`
write a use count into the array, seen through every window on it; the other
operations fill a new array. `Intersect` is a constant operator: the store
relies only on its being a partial meet, which `IntersectAssumption` states.
Arrays that no register holds are emptied, being garbage, and are what a new
slice is made of: there is one more array than there are registers, so one is
always free. Any register may be used at any time, which is every order in
which the interpreter could follow its branches.

### WorkList

`visitStmtList`, `visitForStmt` and `visitRangeStmt` have one loop in common.
`Visit` takes the last piece of work, `SortWork` and `SortExit` deal with one
thing the visit has led to, `Sorted` is the end of an iteration. What a visit
leads to is the function `visit`, any of the constant `Behaviour`: a sequence of
stores, each at a position or outside. All that is assumed is that stores which
are `Equal` lead to the same, up to `Equal`; `Root` is what was added before the
loop. The order of the work, a stack, is in the model but in no property: the
abstract `Search` opens and closes its works in any order.

### Statements and Execution

`visitStmt` is recursive; `stack` has a frame for each call under way, `mode`
tells a call from a return, and `ret` has the exits of the call that returned.
One action is what a call does from there to its next call. The lists and loops
are frames that are block managers. The actions bear the names of the Go methods
(`visitIfStmt`), or say which call has returned (`thenVisited`). `bodyVisited`,
`captureExit` and `functionBuilt` are `buildFunction` after the body. A store that
could not be made is `Broken` and ends the visit in a panic (`Panics`), as every
failure of the interpreter does.

`Stmts` has the statements there are, each over others of the set (`StmtOver`), so
that statements may be nested to any depth; `Body` the bodies, sequences of them,
and `Outer` the stores a literal may be met in. `StmtsAssumption` and
`OuterAssumption` say no more than that, and that the names in the code are not
the mark of a block. The clauses of a switch are case clauses and those of a select
communication clauses, as the parser of Go makes them. Entries of stores are
`Entry`s: the permission of a variable is never the nil of a marker, which
`DeadAssumption` (in `StoreValue`) says of what is left of a variable when it is
moved, and it is within the maximum, which `Store_proofs` shows of all stores that
are made by the store's own operations.

Simple statements do one thing to one variable here: use it, move it away,
assign to it, define it. What they really do is the subject of
`SimpleStatements`. Permissions are values with laws of `Intersect`, and with
operators that say what an expression is to them: `Copyable` and `Movable` are
`CopyableTo` and `MovableTo`, `KeyOf` and `ElementOf` the permissions a range
statement finds in its container, or none (`ContainerAssumption`). In the
instances permissions are a chain: dead, readable, readable and owned. A container
that is owned is like a slice there, with indices that are not owned, as
`permission.Mutable` is not; one that can only be read is like a map, with owned
keys. `defineOrAssign` is what the Go method does for identifiers: what is assigned
raises the variable to its maximum if it can be copied to it (937), lowers it to the
intersection otherwise, must be owned unless it is defined (955), and must be copied
or moved (960). `canRelease` follows from what is found in the key and the value
afterwards (1017, 1028).

Log lines are modelled where they look up a variable called `a` (`Logged`), since
that counts a use: those of `visitStmtList` (756), of `if` (673-674) and of range
statements (988, 1009). The one at 1042 counts in a store that nobody has any more.
Counts are written to shared arrays; what else shares the array has a use of the
variable counted by the list it comes from, so that stores as values come to the same
captures.

`Execution` adds runs. When the visit is over, the body is run as the Go
specification has it: a continuation `todo`, and the permissions `now` along one
path, where conditions come out either way. It knows nothing of exits, work
lists and merging, so it is an independent account of what the visit computes.

### Expressions, SimpleStatements, Linearity

`VisitExpr` gives a permission, an owner, dependencies and a store. Its helpers
have the names of the Go methods. An expression is visited once: what is done
with the result of a visit stands in an operator with that result as parameter.
In `SimpleStatements` a program is any sequence of statements of the constant
`Statement`, executed on one store.

`reach` and `escaped` are history variables. `reach[n]` has the objects the value
of `n` may refer to when the program is run, `escaped` the references that were
given to calls, channels or goroutines, with the permission they were given.
They follow from the statements alone, not from permissions, so that `OneUser`
compares what the interpreter allows with what the program does.

## Runs

All runs use exhaustive search.

| Run | Instance | Shows |
|---|---|---|
| `assignable` | 30 objects, every kind, six base permissions, all three modes (10,149 states) | the checker refines `Oracle` (so it answers, and answers coinductively), a yes leaves a table that proves it, no new work after a failure, termination, and the laws of the modes |
| `merge` | 40 objects, eight base permissions, all pairs, all actions (20,864 states) | the tables are right at every step, nothing unfinished is returned, exactly the incompatible pairs fail, the bounds, idempotence and consistency |
| `store_scopes` | two registers, three arrays, stores of up to three entries, one name, so that a shadowed variable and its block marker fit, two comparable permissions and an incompatible one (21,870 states up to symmetry and `out`) | shared slices implement `ScopeStack`; effective within maximum; `Equal` is equality of scopes; a merge only weakens, and fails for other names and incompatible permissions |
| `worklist` | every behaviour of two statements with up to two ways on, three stores two of which are `Equal` (52,630 states) | the loop implements `Search`, follows every path, sees nothing twice, ends |
| `statements` | function literals with choices, jumps or loops, on two outer stores (109,973 states) | blocks balance, early exits are resolved, captured variables are borrowed or left as they were, and the visit ends, where no `for` statement is inside of another statement |
| `execution` | the same forms, with all `for` loops, and all runs of the bodies that pass (183,822 states) | every run ends as the visit has foreseen, and never lacks a permission |
| `expressions` | programs of up to three of 34 statements, over permissions of every kind but wildcards (9,646 states) | one user, lent once and given back, nothing gained, simultaneous assignment |
| `store_merge_in_block`, `for_in_literal`, `nested_for`, `capture_twice`, `frozen_in_literal` | as above | one disagreement each, see Findings |

### Bounds and why they are enough

* The permission graphs contain, for every kind, arguments that succeed and
  arguments that fail; self-loops, cycles of length two and a cycle through a
  struct, so that one cycle is unrolled against another of a different length;
  recursive functions, where a pair is met with both variances; interfaces with
  their methods in another order, with one missing; children that differ in
  number; nil and wildcards. The rules are local to a node and its children, so
  larger graphs are built from the same steps; the theorems cover all graphs for
  the properties they state.
* `MaxLen` bounds a store. The effects of sharing show with two windows on an
  array of two entries and a marker. `MaxUses` caps the use counters at 1: an
  operation that would count further is disabled. No operation of the store
  branches on a counter, but the setters count, too, so in the run the permissions of
  a variable are set, or looked up, once between its definition and the
  end of its block. Longer orders of these are not explored by TLC; they are covered
  by the theorems (`WithinMaximum`, `ImplementsStack` and the others), which have no
  bound.
* `store_scopes` declares registers and arrays symmetric: both are only ever
  compared for equality, and the properties checked are safety properties. Its view
  leaves `out` away, the result of the last operation: no action reads it, so states
  that differ only in `out` have the same successors. Every step from a state that is
  kept is checked, with its own `out`.
* `worklist`: two statements and two stores, one of them in two versions that
  are `Equal`, are the least in which a loop runs through a statement twice, a
  duplicate differs from what was seen, and a stack order matters. The theorems
  have no bound.
* `statements` and `execution`: the bodies are all those of a few forms
  (`MCStatements`): a choice (`if` with and without `else` and initialisation,
  `switch` with tag, `break` and `fallthrough`, `select`), with a statement before
  or after it; four statements with two labels and `goto` among them, into and
  out of blocks; a loop with a nested choice or loop, with `break`, `continue` and
  `return`. Range statements have a key, a value, both or none, defined or assigned
  to, over a container with indices and over one with keys: so the container is given
  back in some bodies and kept in others. The outer store has a
  variable that can be moved and one that cannot; in a second version there is a
  block between them, and a variable called `a`. Alternatives of a clause are
  single, for two of them merge within a block and panic (finding 1); `for` loops in `statements` are those that
  only their condition ends (finding 2), and none is inside of another statement
  (finding 3); those in `execution` may be left in any way, but are not inside of
  another statement either; there is no default clause and no
  labelled `break` (see Known divergences).
* `expressions`: three statements are enough to move a value, use its new place
  and return to the old one. The 34 statements have every kind of expression and
  statement, with linear and non-linear, owned and unowned permissions. Nothing
  here depends on use counts, which are set to zero after each statement.
* Deadlock is checked in the runs of permissions and stores, which never stop. In
  the others the work list becomes empty, the visit ends and a program has its
  last statement: there `CHECK_DEADLOCK` is off.

### Fairness

`AssignableTo` and `Merge` assume weak fairness of `Step`, the steps of a call
that has begun. That is ordinary sequential code that nothing can suspend.
Nothing is assumed of callers. `Oracle!Spec` requires that an open question is
answered, so the refinements contain termination; `Termination` states it for
assignability by itself, as the memo table exists for that purpose. `WorkList`
and `Statements` assume weak fairness of `Next`, which is the sequential code of
the interpreter going on. That `WorkList` ends rests on there being finitely many
stores (its constant `Store` is a finite set in the run); of the interpreter this is
true as long as blocks balance, and finding 3 shows a body where it is not. Nothing
else is assumed: which of the work is done is up to the code. `Store`, `Execution`
and `SimpleStatements` have no fairness and no liveness properties: what they do next is up to the program under analysis.

### Properties stated with conditions

Some laws hold only under conditions that are part of the design, and the
conditions are part of the formulas. `IntersectIsSubset` and `UnionIsSuperset`
assume (`Comparable`) that both arguments can be moved to themselves (what cannot
be read cannot be moved), that functions which are merged agree in name and
ownership, and that nil does not occur in unions, nor below: parameters of
intersected functions are united. `NothingIsLost` assumes the names only. The
conditions about names (`SameNames`) and about nil below functions are needed:
merging pairs the methods of two interfaces by position and keeps the names of
the first, while moving looks methods up by name, and nothing but nil can be moved
to nil. In the instance `IfaceH` has a method of another name than the other
interfaces, and `FnNil` a parameter that is nil. `CopyKeepsExclusivity` looks behind indirections, through values.
`ConvertIsConsistent` excepts functions and interfaces, whose children keep their
permissions, and a goal with exclusive read but no read. `LentComesBack` excepts
what a statement may consume (`Consumed`): arguments for owned parameters, fields
of composite literals, keys of maps and receivers of methods. `NothingGained`
excepts the variables that are assigned to. `AsIfWithTemporaries` speaks of
assignments that pass both ways. `OneUser` looks at the rights that two variables
have to the same object at the same time. What is cut off by the conditions and
contradicts a comment or document is a finding or stands under Known divergences.

## Findings

1. **Merging inside a block panics** (`store.go:86`, run `store_merge_in_block`).
   `Merge` intersects the nil permissions of a block marker. The document
   defines merging position by position for any stores of the same shape; the
   interpreter merges inside blocks for `&&`, `||` and case clauses.
2. **A `for` statement keeps its block** (`interpreter.go:1152`, run
   `for_in_literal`). The normal exit is recorded before the block of the loop is
   ended, other exits after it. A function literal with such a loop fails the
   interpreter's own assertion about its exits; a test comment calls the two
   kinds of exits identical.
3. **A `for` statement inside of another loop never ends**
   (`interpreter.go:1152`, run `nested_for`). It follows from finding 2. On
   `for c { for c {} }` or `for range xs { for c {} }` the inner loop hands on its
   normal exit with its block still open. The block around it (626) and the outer
   loop (1085) end a block each, but the wrong ones, so the store with which the
   outer loop goes on has a marker more than the one before. It is `Equal` to none
   that was seen, and the visit goes on for ever, although the document says
   "Since only unseen entries are added, the code will also terminate eventually"
   (`abstract-interpreter.md:825`). The run shows it as a loop that has seen more
   stores than there are permissions for its variables (`UnseenRunOut`).
4. **Captured twice** (`interpreter.go:549`, run `capture_twice`). A variable is
   borrowed once for every exit of the literal, the second time with the dead
   permission that is left. Released in order, as the document has it, the dead
   one wins, and the variable stays unusable.
5. **Frozen in a literal** (`interpreter.go:476`, run `frozen_in_literal`). A
   composite literal passes `NoOwner` to `moveOrCopy`. A linear value that becomes
   a non-linear field is given back unreduced: the variable is linear next to a
   field that reads the same object.

### Known divergences

What else the code does differently from what one might expect. No run is about
these; where a property would fail for one of them, the instance leaves the case
out, as said here.

* A parameter without a name panics: `Define` takes a block marker for it
  (`store.go:109`). `DefinableName` has no empty name in the instances.
* Intersecting an owned function with an unowned one unites the two base
  permissions (`merge.go:295`). `SetEffective` intersects with the maximum, so a
  function value that was borrowed is as usable as before, and for a linear
  function `x := f` leaves two. `MCLinearity` keeps linear functions out.
* Converting a pointer to `R` without `r` leaves a linear target in a pointer that
  is not linear (`mergeConvert.go:46`); strict conversion lets functions keep the
  permissions of their parameters and results (`mergeConvert.go:123`).
* `GetEffective` and `GetMaximum` count in the shared array (`store.go:176`),
  where everybody sees it, though the document says that reads are not counted as
  the store is passed by value (`abstract-interpreter.md:1324-1326`); the log
  lines so count a use of any variable called `a` (`interpreter.go:673`, `756`,
  `988`, `1009`), which every literal then captures. Use counts
  decide what a literal captures; as `Equal` ignores them (`store.go:42`), a path
  that uses a variable and ends like an earlier one that does not is dropped,
  and the capture is missed.
* A labelled `break` or `continue` passes through every loop
  (`interpreter.go:770`, `1066`, marked TODO there).
* Of a statement with two labels only the first is known to the list it is in
  (`collectLabels`, `interpreter.go:728`): a `goto` to the second leaves all lists,
  and is an exit of the literal. `LegalBranches` leaves both cases out, and says so.
* A default clause has no alternatives to merge, and its body is visited in the
  nil store (`interpreter.go:633`).
* `if` logs the first exits of both branches (`interpreter.go:673`) and panics if
  one of them has none, which takes an endless branch.
* `Release` goes by name (`interpreter.go:88`): a variable that shadows the
  borrowed one receives its permission.
* Whether a literal has changed a permission is decided by comparing interface
  values (`interpreter.go:539`): an equal permission in a new object counts as
  changed. In `Statements` permissions are values.
* What was borrowed to evaluate the key of a map is not released
  (`interpreter.go:225`); the document mentions it. `_ = a` consumes a linear `a`,
  as the document says.
* The test of the conversion's error is inverted for annotated variables
  (`interpreter.go:930`). Nothing in `src/` sets `AnnotatedPermissions`, so the
  instance has none, though `Defined` has the case.
* A variable whose address was taken, or that was captured, may be assigned to
  again, which makes it usable next to the pointer or the closure; the evaluation
  describes this (`evaluation.md:45`). The instance takes an address and captures,
  but does not assign to those variables as a whole.
* The instance of `expressions` has a composite literal that freezes a value that
  is not linear; that with a linear one is finding 5.

## Proofs

The theorems about permissions hold for every `Object` and `shape` that satisfy
the assumptions of `Permission`, cyclic or not, and every set of queries; those
about stores and work lists for every value of the constants that satisfies the
assumptions of their modules.

`Permission_proofs` has what the developments about permissions need: the
children of an object are permissions, and removing the last frame of a stack
leaves the others.

### Recursion

What a recursive function computes is usually shown by induction. The provers
cannot use an induction principle that takes a formula as its parameter, so
`Recursion_proofs` states each as a lemma about a set, the set of what the claim
holds of: `NumberInduction`, and `TailInduction` for sequences.

`Closure` walks a graph, adding what a step reaches until nothing is new. Here the
recursion goes up, not down, and the lemmas say what it amounts to: `WalkExists`
that the recursive definition has a solution, if the step is monotone, and
`WalkIsLeast` that in a finite universe every solution gives the least set that
contains the start and is closed. So `ObjectFinite` is needed: among infinitely
many permissions the walk need not end, and the definition would say nothing.
`SpreadIsLeast`, `ReachIsLeast` and `DeepEqualIsAlike` are the instances.

### Assignability

`Invariance` proves `IInv`. `TypeOK` is not enough to know anything about the
table, since a provisional TRUE looks like a final one. The invariant adds:

* `Frames`: a call in progress has the entry TRUE, and its earlier calls are in
  the table;
* `Chain`: every frame was called by the one below it;
* `Distinct`: no key is being decided twice at the same time, so a return
  overwrites no one else's provisional entry;
* `Settled`: a TRUE entry that is not in progress has all its calls in the table;
* `Failure`: if any entry is FALSE, the innermost method is waiting for one that
  is, or the answer is no already.

`Failure` is the core. A FALSE entry withdraws a provisional TRUE on which other
entries may rest; these are wrong, and stay in the table. They do no harm because
each caller in the chain is about to fail for the same reason, so none of them
asks again. If one method tried a second alternative after a failure, the
invariant, and the check, would break.

From it follow `Certificate` (after a yes, all entries are TRUE and closed under
calls), `FailureStops` (no new entry after a failure) and `AnswersSound`: yes
means that some self-supporting set of questions contains the query, no that
none does. For the second half, `NeverRefuted` shows that a question of a
self-supporting set is never FALSE in the table. `AssignableIsCoinductive` ties
this to `Assignable`, which is defined by what refutations and panics spread to.
`AnswersLikeOracle` adds that what is answered no is refuted and that a panic has
a chain of calls that leads to it, so the check implements the safety part of
`Oracle`.

The laws of the three modes are proved of the rules, before those of the check, by
coinduction. `Unfold` restates a method and its recursive calls as a condition on a
set of questions (`Allowed`), and the assignable questions are the largest set that
allows itself (`AcceptedAllowed`). To show that something is assignable it is
enough to exhibit a set:

* `MovesCompose`: the questions that can be answered in two moves, by way of any
  permission. For functions the parameters compose in the opposite direction; for
  interfaces `MethodNameAssumption` makes the method that is found unique.
* `ReferenceIsMove`, `MoveIsReference`: what is below an assignable reference, with
  the mode replaced. Only the tests of base permissions differ between the modes
  (`ChangeMode`), and those of a move follow from those of a reference where
  everything is readable, the other way round where nothing is linear.

`MovesTransitive`, `ReferencesAndMoves` and `CopiesKeepExclusivity` are the laws as
invariants of the check, as the run states them. The last one needs
`SharedAccepted`: below a copy, the pairs of permissions on the same memory are
accepted as references as soon as they lie behind an indirection, and an accepted
reference is linear on neither side.

### Merging

`Invariance` proves `IInv`, of which `Faithful` is the core: the children given to
an object so far are those the rules prescribe, where the child for a key that
builds an object is that key's one object, finished or not. `Chain` and `Distinct`
keep the loop of each frame its own, and `Settled` says that what is not under
construction is complete. `Finished` follows, as nothing is under construction
when a call returns. `Idempotence` and `Consistency` follow from `Faithful` by
the definition of the rights a child is given: the two stripping steps of
`mergeConvert.go` reach a fixed point at once.

A second invariant, `Working`, keeps a call within what its question leads to. With
it a call that succeeds has asked nothing that fails (`BuiltMeansNoFailure`), and
one that fails has reached a failing question, which is `AnswersLikeOracle`, the
safety part of the refinement.

The bounds are about the graph that a call leaves behind (`DoneGraph`: old and new
objects together satisfy the assumptions of `Permission` again), and are proved by
coinduction on it:

* `Movable` is the largest relation allowed by itself under the rules of
  `AssignRules`, instantiated with that graph, and `AllMovable`, which walks the
  calls, decides it (`AllMovableIsMovable`).
* `Alike` is the largest relation between nodes that look the same and have
  related children. It is what `reflect.DeepEqual` decides on cyclic values
  (`DeepEqualIsAlike`), an equivalence, and moving respects it (`AlikeMoves`): so it
  makes no difference that an entry point returns its argument for an equal result.
* `MergedParts` says what a finished object is made of, the answers to the pairs of
  its arguments' children. So the pairs of arguments and answers, for all the
  questions a call has reached, are a relation that the rules allow:
  `MergedWithin` for the pairs of an argument and its intersection, where parameters
  of functions turn intersections into unions and the direction round;
  `MergedAround` for the pairs of an intersection and what both arguments can be
  moved to; `ConvertedIsGoal` for the pairs of a conversion and its goal.
* The invariant `Given` says that what is handed out is the answer to the question
  or alike. With it these become `IntersectionWithin`, `UnionAround`, `LosesNothing`
  and `ConversionTakesGoal`.

The proof of `MergedWithin` is where each conjunct of `Comparable` is used, and
that of `MergedAround` shows that `NothingIsLost` needs none of them but the names.

### Stores

`Invariance` proves `IInv`: windows lie within their arrays, and every entry of
every array is a `GoodEntry`, one whose effective permission is within the maximum
if it is a variable and which has none if it is a marker. That
`EffectiveWithinMaximum` speaks of all arrays, not of registers, is what makes it
inductive: `EndBlock` and `Assign` share them, and the getters write to them. Of
`Intersect` the proof uses the laws in `IntersectAssumption`, one lemma for each.
`SetEffective` needs that a meet is below its first argument, `SetMaximum` the
second, `Merge` that meets are monotonic: it intersects effective permissions and
maxima separately, and the results must still be in order. `MergingWeakens`
follows by `MergedIsGood` and the fact that a register shows the slice just made
for it. The theorems suppose that no variable is defined under the empty name
(see Known divergences), with which `Merge` could intersect a permission with nil.
`BoundsAssumption` only says that the bound on use counts is a number.

`ImplementsStack` proves the refinement: shared arrays, windows and uses counted in
place behave like immutable stacks of scopes. The scopes of a slice are computed
from its last entry to its first, so most lemmas are inductions along a slice
(`TailInduction`), one for each thing an operation does to one: `PrependMarker` and
`PrependVariable` for a new entry, `InnermostScope` for what `EndBlock` drops,
`PrependReplace` for a changed entry, `FoundInScopes` for the first entry of a name,
which is the binding the scopes resolve the name to. `AbstractStep` then
turns an operation on the arrays into one on the stacks; the entries that the
getters write to look the same in every window (`SameShown`). That a failing
operation fails in `ScopeStack`, too, needs that the error of `Intersect` is no
permission (`PermAssumption`). `EqualIsSameScopes` is proved by the same
induction: a marker or a variable put in front of different stacks gives
different stacks (`PrependInjective`).

### Work lists

`TypeCorrect` includes that what is left to do was seen, and `NothingTwice` needs
no more. `EveryPath` rests on `NothingLost`: of everything that was seen, and of the
start, each is still to do, or in hand - those of its ways that are no longer
pending have been taken - or handled. A way is `Done` when it has been taken by
itself or by an `Equal` one; `DoneStays` says that nothing is ever forgotten. A
duplicate is dropped for a work that is merely the same up to `Equal`, so the step
from `NothingLost` to `FollowsEveryPath` is where `BehaviourAssumption` is needed:
what the dropped work would have led to, the other leads to, up to `Equal`.

`WorkListImplementsSearch` adds `PendingFromItem` (what is pending comes from the
visit of the item) and `LeftOnce` (no work is on the stack twice, or both on the
stack and in hand, so that finishing it closes it). Each action is then shown to
be a step of `Search` or to change nothing there: `Visit` and duplicates stutter,
`SortWork` discovers, `SortExit` reports, `Sorted` finishes. `EqualAssumption`, that
`Equal` is an equivalence, follows from its definition in `Cells`;
`RootAssumption` keeps the markers `Root`, `Idle` and `Outside` apart from works.

### Statements

`FunctionLiteralBorrows` says of every body and every outer store what a literal
does to the variables around it. Its invariant, `BorrowInv`, adds to
`BorrowsOrLeaves` which fields the literal and its entries have. The step that
matters is `captureExit`. `Picked` takes the captured positions from a store, and
`PickedFacts` says that it takes each of them and nothing else; a variable that was
captured on an earlier exit already has an entry with the permission it had, which
stays (`BorrowCaptured`). That the second entry has the dead permission is
finding 4; the theorem does not contradict it, since it asks for one entry with the
right permission, not that there is no other.

`StatementsKeepScopes` is about blocks. `ScopesKept` alone is not inductive: whether
a store that is returned has the right blocks depends on which calls are waiting
for it. The invariant `NestedInv` gives each frame a depth, that of the stores it
will return. A frame that has opened a block `Expects` stores of a depth one
greater from the call above it, any other the same depth (`Nested`); what is
being returned has the depth that is expected (`Awaited`); the works and exits of
a list or a loop have the depth of their frame. Every store is in `Good(orig, d)`:
it has `d` open blocks, and ends in the entries of `orig`, whatever has become of
their permissions. For each operation on stores there is a lemma that it
stays within (`LikeGood`: Borrow, Release, SetEffective and a merge leave variables and
markers alone; `GrownGood`: Define puts one variable before them) or changes the
depth by one (`OpenedGood`, `ClosedGood`). Early exits are not special: an exit
with a branch passes the same `endBlocks` as one without.

The theorem has a hypothesis, `NoForNorDefault`: no `for` statements and no default
clauses. Both break the property. A `for` statement leaves its block open
(finding 2, run `for_in_literal`), and a default clause is visited in the nil store
(Known divergences). Both are in the model, and the run `statements` has the `for`
statements that are left by their condition only, which keep their stores balanced
among themselves.

`EarlyExitsResolved` says that no `break`, `continue`, `goto` or `fallthrough` is left
among the exits of a literal, where nothing would handle it. Its
hypothesis is about the source text: `LegalBranches(P)` holds if `P` is a set of
places - statements, each with the branches that are caught outside of it - that
has the bodies, with what is inside of any place, and in which each branch
statement is caught. It follows Go's rules for branch statements (what a list, a
switch, a loop catches) and not the code that sorts exits; `MCStatements`
assumes it of the set computed from its bodies, for TLC to evaluate. The invariant
`CatchInv` gives each frame the branches that are caught of what it returns:
a frame passes to the call above it what it `Catches` in addition. The work is in
`LeavingCaught` (what leaves a statement list is caught outside: a label is found if
it is one of the list's, a `fallthrough` never leaves, a `break` leaves a switch as
a normal exit) and `RealExitsCaught` (the same for `collectLoopExits`). Here `for`
statements and default clauses are included.

### Execution

`RunsForeseen` and `RunsNeverFault` are what the visit is for. Whatever path a run of
a body takes, there is an exit with the permissions the path ends with; and a body
that was let pass does nothing on any path that the permissions do not allow there.
They hold of bodies of any depth and of every outer store. The hypotheses are
those of the last two theorems about statements, and for the same reasons: a `for`
statement leaves its block on the store, a default clause is visited in the nil store
(`NoForNorDefault`), and a branch statement has to be inside of what it leaves
(`LegalBranches(P)`, which leaves labelled `break` and `continue` out). Clauses with
several alternatives are included, but the visit of one panics (finding 1), so there is
no run to speak of. The `for` statements of the run `execution` are only
model-checked.

The visit and a run have nothing in common that an induction could follow: the
visit goes through the works of a list as they come off a stack, drops those that
are `Equal` to one it has seen, and returns before the run begins; the run follows
a path and may go round a loop any number of times. Between the two there
is a third account, `Justified`: which exits a statement may be said to have in a
store, given what other statements have in other stores.

* For a statement list, there is a set of works that contains the first one, and of
  each work the statement has exits that lead to a work of the set, or to an exit
  of the list (`Handled`). For a range statement it is the same with iterations
  (`Iterated`). The other statements are made of the answers of their parts.
* A set of triples - statement, store, exits - may justify itself, as a loop must.
  `Foretold` is the union of all such sets; `ForetoldFixed` says that it is one, and
  has all that it justifies. As with assignability, to show that an answer is
  foretold it is enough to exhibit a set.
* The stores in it have no use counts. `Equal`, by which works are dropped, ignores
  them, so what answers for a path may have been visited with other counts. That
  this does no harm is the first part of the module: every operation on stores, done
  to stores that are `Alike`, fails for both or leaves them alike (`AlikeSimple`,
  `AlikeBorrow`, `AlikeRelease`, `AlikeClosed`, and so on).

`VisitInv` is the invariant of the visit. Each call under way owes an answer: from the
works and exits its frame has, with whatever is foretold of the calls it has still to
make, follows a foretold answer to what it was called for (`Asked`; `Waits` for a
frame that waits for the call above it). `ListOwes` is the core: the works that have
been handled are handled with respect to what was seen and found, so that when
nothing is left to do the works that were seen are the set that is wanted. There is
a lemma for each action (`ReturnedAsked` for `itemVisited`, where exits are sorted;
`RangeReturnedAsked` for `collectLoopExits`), and `VisitIsJustified` is what it comes
to in the end.

`RunInv` is the invariant of a run: the continuation `Leads` from where the path is to
the exits of the literal. `LeadsVia` puts a set of ways between any two frames of the
continuation, and `Flow` says that a frame leads from one to the next: a statement by
a foretold answer, a list or loop by its set of works, a block by ending it. A
branch statement passes by the frames that do not catch it (`PassedBy`), each of which
does to the store what the visit has done to the exit (`WayOut`), up to the one
that does; that there is one is `BranchesResolved`. For a range statement it matters
that `canRelease` comes out the same in every iteration (`AgainRangeForeseen`): it
depends on the statement and on the permission of its container alone, as the visit
gives back what was borrowed on all exits or on none. For what is defined, this is
the permission of the key or element. For what is assigned to, it is that it must be
owned already, and what is copied to it or moved to it leaves it so (`BoundOwned`).
The container is what the frame has borrowed, the same in the visit and in
the run (`LendsAlways`).

What is proved of uses is that they do not matter here. That they matter for what a
literal captures, and that a capture may be missed, is not contradicted
(see Known divergences).

### What is only model-checked

* Liveness: termination of all recursions and loops, and the liveness part of the
  refinements (`Oracle!Spec` is `Oracle!Safety` and that an open question is
  answered). It needs fairness and `ENABLED`, which the provers do not handle.
* `ScopesKept`, `Foreseen` and `NeverFaults` for bodies with `for` statements, of
  which the first does not hold for all of them (finding 2).
* The properties of `Linearity`: expressions are recursive data, and `Trees`,
  `Expressions` and `SimpleStatements` use recursive operators, from which the
  provers get no facts.

## Not modelled

* Text: the rendering of permissions and errors, log output but for the use it
  counts, source positions.
* The type mapper (`permission/type.go`): it translates the types of `go/types`
  one by one into permissions, over a table; a model would consist of those
  types, which are not part of this code. What it makes is the input here.
* The annotation parser and scanner: a pure function of a character sequence,
  with one token of lookahead.
* The checker (`capabilities/check.go`) runs the Go type checker and the
  assignment pass, one after the other, and counts errors. It does not run the
  interpreter, and nothing in the repository connects them.
* The command line: flags and file loading, with no state of its own.
* Within the interpreter: parentheses; function literals with several
  parameters; statements with several exits inside the programs of
  `SimpleStatements`, and real expressions inside `Statements`. The two halves
  meet in `StoreValue`: the simple statements of `Statements` are moves, uses,
  assignments and definitions of one variable, as those of `SimpleStatements` are
  of several. Cyclic permissions in the interpreter: `Trees` has none, as `Merge`
  and `AssignableTo` are about cycles.

## Plan

The order followed the importance of the behaviour: the permission algebra, which
decides every check; the store; the work list and control flow; expressions and
simple statements. What is left:

1. `Trees` and `Expressions` with recursive functions in place of recursive
   operators, so that `TypeOK` of `Linearity` can be proved.
2. The type mapper, as a table whose entries are handed out while they are under
   construction, over a small set of types.
3. The parser, against a grammar stated as a set of token sequences.
