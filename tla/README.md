# Verification of GICEL

GICEL is a typed effect language that Go programs embed. Its repository holds a
compiler (parser, type checker with a constraint solver, optimizer), a bytecode
compiler and virtual machine, an engine that caches and runs compiled programs, a
command line tool and a language server. This directory holds TLA+ models of the
parts whose correctness depends on order, on shared state or on an algorithm that
tests reach only at a few points, the TLC runs that check them on small instances,
and TLAPS proofs of results that hold for every instance. `PROJECT.json` maps
every definition to the lines it models, and lists the hazards the properties are for.

    tlc -workers 2 -config vm_programs.cfg MCVm      # one run
    tlapm LspServerProofs.tla                        # the server: timers, goroutines, results settle
    tlapm EngineProofs.tla                           # the engine's caches, concurrent runs of shared runtimes
    tlapm SolverLemmas.tla                           # the solver: induction, chains, folds, the inert set,
    tlapm ConstraintSolverProofs.tla                 #   its invariant and the theorems
    tlapm VmMachineProofs.tla                        # the machine: frames, saved capabilities, limits
    tlapm ModuleScopeProofs.tla                      # imports, exports and the registered modules
    tlapm TrailProofs.tla                            # the unifier's trail: a rollback restores

## Inventory

| Part | State it keeps | Operations | What makes it correct | Here |
|---|---|---|---|---|
| `internal/lsp` server | lifecycle flags, document store, one debounce timer and one cancel function per document | the message loop, the text notifications, `scheduleDiagnose`, `diagnose`, `drainTimers` | the results the client sees settle on the current text; no goroutine or timer escapes its owner | modelled, proved |
| `compiler/check/solve` | worklist, inert set with scopes, resolution and ambiguity caches, implication level | `SolveWanteds`, kick-out, `CheckWithLocalScope` | no constraint lost or counted twice, nothing stuck on a solved variable, termination, touchability | modelled, proved |
| `compiler/check/unify` | solutions of metavariables, levels and skolems, label contexts, a trail, snapshots | `Unify` with rows and binders, `Zonk`, trials, probes, generalization | succeeds exactly where types can be made equal; a failed trial leaves no trace | modelled; the trail proved |
| `lang/types` | none | substitution, alpha-equality, keys, evidence rows | no capture; equal keys mean equal types; rows stay ordered | modelled |
| `compiler/check/family`, aliases | cache of a reduction, stuck applications | matching, reduction, row families, injectivity, expansion | a reduction is never taken back by what is learnt later; injective families are | modelled but for declarations |
| `compiler/check/exhaust` | none | usefulness of a pattern against a matrix | the verdict is about the values of the type | modelled |
| `compiler/check/modscope`, exports | scope under construction, registry of modules | open, selective, qualified imports, exports | the scope follows from the imports, not their order or form | modelled, proved |
| `compiler/check` (rest) | context, registries, errors | bidirectional checking, declarations, patterns | soundness of the type system | its calls of the solver |
| `compiler/parse`, `lang/syntax`, `desugar` | token stream, fixities | lexing, layout, operator resolution, recovery | one tree per program, progress on errors | no |
| `lang/ir` | Core terms, free variable annotations, indices | traversals, `AssignIndices`, label erasure, verification, `SortBindings` | a variable denotes its innermost binder; a binding runs after what it reads | modelled |
| `compiler/optimize`, inlining policy | Core terms | rewriting in passes, inlining, fusion | meaning preserved | modelled |
| `runtime/vm` | prototypes; operand stack, locals, frames, budget | compilation of Core to bytecode, the `execute` loop, host callbacks | a program computes what its Core means, in constant space for tail calls | modelled; frames, capabilities and limits proved |
| `runtime/eval` | values, copy-on-write capability environment | `Set`, `Delete`, `Filter`, `MergeWith`; explain observer | no effect leaks from a shared environment | modelled, proved; not the observer |
| `app/engine` | registered modules and primitives, process-wide module cache, compiled globals of a runtime | registration, `Compile`, `RunWith`, `Analyze`, sandbox | a cached result equals a fresh one; concurrent runs of one runtime do not disturb each other | modelled, proved; `Analyze` as a reader |
| `infra/budget`, `infra/cache` | step, depth, allocation counters; bounded map | `Step`, `Enter`, `Leave`, `Alloc`; `Get`, `Put` | limits hold, counters balance; an entry is what its key names | the run-time budget; the cache, proved |
| `host/stdlib` | trees, finger trees, slices, arrays behind handles | effect handlers, folds, collections, strings, numbers, JSON | each structure behaves as its abstract type, older versions stay intact, a handler restores what it shadows | modelled but for single-rune classes, floating-point arithmetic and text of numbers |
| `cmd/gicel`, `gicel.go` | flags | run, check, lsp | I/O only | no |

How they interact. The engine calls the checker, which elaborates syntax to Core and
on the way emits constraints to the solver; the solver calls the unifier, and the
unifier calls the solver back (`OnSolve`, `Reactivate`) whenever it solves a
metavariable, inside trials that may be rolled back too. The engine then erases
labels, optimizes, annotates and compiles Core to prototypes, which it keeps in a `Runtime`. `RunWith`
builds a machine, evaluates the bindings in dependency order, then the entry. The
machine calls primitives of the standard library with the current capabilities, and a
primitive calls the machine back (`Applier`), which runs a nested `execute` loop above
a barrier frame. The language server calls the engine's `Analyze` from goroutines that
debounce timers start, one timer per document. Engines of one process share a
`CacheStore` of compiled modules and assembled runtimes, and a runtime found there may be
run by several goroutines at once.

Hard behaviours. The server has three kinds of concurrent actors and publishes results
after it has released the lock under which it checked them. An engine decides by a
memoized digest of its settings whether what another engine compiled is what it would have
compiled, and lookup, compilation and store are three steps. The solver is sequential
but re-entrant, and its state must survive rollbacks of the unifier's. The unifier undoes
writes to four maps from one trail, compresses paths while it reads, and decides row by row which
fresh tail to make. The optimizer moves terms under binders and its rules feed each other. The
machine is sequential but re-entrant, fails in the middle of nested loops, writes maps in place
when it believes they are not shared, and keeps pointers into a slice that grows. The
collections share nodes between versions, some of which are written in place.

## Modules

**`LspServer`** (server.go, document.go). The main goroutine is `phase`, with `current`
as the document its handler works on; `docs` is the document store, `debounceTimers` and
`diagCancels` are the two maps, `tasks` holds every timer armed so far and the goroutine
it started. A step is one critical section (`Server.mu`, the store's lock, the transport's
write lock) or one read of a context: a handler with several is several steps, and
`diagnose` is `CheckContext`, `CaptureDocument`, `CheckStale`, `StoreAnalysis`, `Publish`.
A text is a number and its analysis is that number: the model tells which text a
published result came from, not what it says. `shown` is what the client displays.
`MCLspServer` gives it message alphabets. `LspServerProofs` has the theorems about who
holds which timer and goroutine, and about what the client sees in the end.

**`InertSet`** (solve/inert.go). The set is a record of its maps: constraints by kind, the
index by metavariable, the scope of each constraint, the list of each scope. Each Go
method is an operator of the same name from a record to a record. `SolverLemmas` states what each
does to the members, the buckets and the scopes.

**`ConstraintSolver`** (solve/solver.go, implication.go, deferred.go, resolve*.go, and of
the checker the calls around them). `soln` is the unifier's solution of metavariables and
skolems, `worklist` and `inert` are the solver's, `frames` are the case branches under way
with the worklist saved for each, `call` is the kind of `SolveWanteds` that runs,
`fate[c]` is a history variable that says what became of a constraint. What one step
changes is threaded through its unifications as a record (the code mutates as it goes),
and `Trial` and `Probe` roll the solutions back and nothing else, as `withTrial` does. An
iteration of the loop is one action, chosen by the kind of the constraint it pops. Types are
flat (metavariable, skolem or constructor) with one exception: an equality in `Nested` stands for `?m ~ F ?m`, which
cannot be solved and carries `?m` on both sides. Buckets of the index are sequences, since such an equality is
in one twice. An instance may be private, and its context is resolved inside the trial; a given may bring
existentials (`Locals`), which make a class of the branch unfit to defer. `MCConstraintSolver` gives instances;
`SolverLemmas` has what the proofs need of numbers, sequences and chains of solutions, and
`ConstraintSolverProofs` the inductive invariant and the theorems.

**`CoreIr`** (lang/ir). Terms and patterns as records, free variables, scopes and indices.
**`Optimizer`** (compiler/optimize, engine/inline_policy.go, ir/label_erase.go, verify.go,
deps.go, the list pack's fusion rules). A rule is an operator from a node to a node, a pass
applies all rules bottom-up, up to four passes run or fewer when the context is cancelled. A name in
a binder is a string and freshness picks one that occurs nowhere. `assembleRuntime` is the
pipeline from what the checker emits to what the bytecode compiler gets: erasure, the structural checks,
optimization of the imported module and then of the main one with candidates of both, and only
then the order of bindings. Types are not in the terms, so type arguments just disappear.

**`VmCompiler`** (vm/compiler*.go). The compiler's frame is the record its operators pass
on: code, locals, descriptors, prototypes. One instruction is one element of `code` with
symbolic operands; jumps are positions. **`VmValues`** (eval/value.go): values, and the conversions
between lists and slices. **`CapEnv`** (eval/capenv.go): capability environments as references into a heap
of maps with a `shared` flag, since what matters is which environments share a map; an operation
returns the heap and the new environment. **`Primitives`** has what Core and
the machine share, the literals and the signatures of primitives.

**`VmMachine`** (vm/vm*.go, budget.go, the handlers of stdlib, engine/runtime*.go). `vm` is
the VM struct with its budget. The Go call stack between the innermost `execute` and `Run`
is `vm.calls`, one record for each call that waits for a result; `mode` says which function
runs and `req` holds its arguments. One opcode is one action; `apply` and `applyN` have an
action per case, and so have the callbacks of a primitive (`applyForPrim`,
`applyNForPrim`), the primitives, and what each waiting call does with a result or an
error. `fcap` and `gen` model the frames slice: `append` at capacity moves it, and a
pointer taken before refers to the old array (`StoreCapEnv`). The conversions between lists and slices
walk a list of any length; they are recursive operators of `CoreSemantics`, parameters of the machine
that the configuration binds, so that what is proved of the machine holds whatever they yield.
`VmMachineProofs` has the theorems about frames, capabilities and limits, and about `CapEnv`.

**`CoreSemantics`** is the abstract specification of optimizer, compiler and machine together: an
environment evaluator without bytecode, stack, frames or shared maps, where a variable
denotes its innermost binder and capabilities are a function that is threaded through.
It models no code. **`MCVm`** holds the programs, as the checker emits them, and compares what
the machine makes of the optimized program with what the source means.

**`Engine`** (engine/engine.go, host_env.go, modstore.go, pipeline.go, modcache.go, runtimecache.go,
infra/cache). Any number of engines, each used by one goroutine, over any number of cache
stores. The settings of an engine are `host`, `prims`, `primKeys`, `primSeq`, the limits and
`pipelineFlags`; `order` and `recursion` are its `ModuleStore`; `moduleEnvFp` and
`runtimeFp` are the memoized digests; `modules` and `runtimes` are the two maps of each
store, `mods` and `rts` the objects that have been allocated. Each setter is an action.
Registration is `RegisterModule` (or `...Rec`, `...File`), then `LookupHit` or `LookupMiss`,
then `compileModule` or `CompileFails`; `call` keeps what the goroutine is in, and between
the steps other engines store, evict and reset. An object carries the environment it was made
in as ghost fields (`env`, and `by`, the engine that compiled a module), to which the properties compare what its key says. A hash is taken
to be injective, the Core module, which every engine has, is left out, and a text is
a name: constants say what it imports, which gated builtins and host bindings it needs.

**`RuntimeGlobals`** (engine/runtime.go, runtime_compile.go). The executions of runtimes:
each has a `pc`, its host value and its global array, abstracted to three slots (the host binding,
what modules computed, what the program's bindings computed); `template` is `cachedGlobals`.
**`EngineRuns`** composes the two: the runtimes that are run are the ones that engines
assembled, its next step is a step of either. `MCEngine` runs two instances: one where every text has
one name, and one where a text is registered under two. `EngineProofs` has
the theorems about `Engine` and about the composition.

**Standard library.** **`AvlTree`** (avl.go, avl_mut.go) has the trees on a heap of nodes, each
operation once for the persistent and the destructive family. **`Collections`** (map.go, set.go,
mmap.go, mset.go) has the primitives; the collection is compared with a function from keys to values,
and the heap a primitive leaves with the one it found. **`FingerTree`** (fingertree.go, sequence.go)
has the 2-3 finger tree with its sizes; the elements are numbered in order, which loses nothing because no
primitive looks at one. **`Buffers`** (slice.go, array.go, list.go, stream.go) has slices as
windows on backing arrays, so that sharing shows, and the list algorithms. **`Text`** (str.go, rune.go)
has strings as byte sequences that need not be UTF-8. **`Numbers`** (num.go, math.go) has integers of
a small width and doubles of a small mantissa; the largest integer is not a double, as in the code.
**`Json`** (json.go) has the encoders and decoders as they are composed from a type, and the generic
encoder. The parts share no state: **`MCStdlib`** runs them side by side.

**Type checker around the solver.** **`Types`** and **`TypeRows`** (lang/types) have types as trees
with numbered names, substitution, equality, keys, rows. **`Trail`** (check/unify/unify_trail.go) is the unifier as a record
that every operation returns anew, four tables, the trail, the snapshots, the level of touchability: writes, and how
they are taken back. **`TrailScopes`** is the machine of its clients: trials, probes and branches of a case, nested in
any way, with any writes in between. `TrailProofs` has its theorems. **`Unify`** (check/unify) is what unification
writes, over types. **`Family`**
(check/family, alias.go) matches, reduces and expands; **`Exhaust`** (check/exhaust) is the matrix
algorithm; **`ModuleScope`** (check/modscope, registry.go, export.go) checks one module after another: the imports in
order, with names, the tables of types, classes, constructors, instances and families, the declarations over
them, and the exports; a module checked without errors is registered. `ModuleScopeProofs` has the theorems. **`TypeLaws`**, **`UnifyLaws`**, **`FamilyLaws`** and **`ExhaustLaws`** drive them the way the checker
does and hold the reference definitions: nameless terms for substitution and equality, ground instances for unification,
the values of a type for exhaustiveness. **`MCTypes`** puts them side by side.

What is left out of these modules, beyond what their headers say: spans, messages,
logging, the trace hook and the explain observer; in the solver variable-headed and
quantified classes, evidence from the context and superclasses, and `CtImplication`,
which only tests construct; in the optimizer types and a cancellation within a pass; in the compiler
constant pools, operand widths and the limits of the pools; in the machine the size of allocations (one unit each), a merge
without labels, and `append`'s growth factor (doubling); in the library the charges to the budget
and the type tests on arguments, both of which end the evaluation.

## Runs

| Run | Question | Result |
|---|---|---|
| `lsp_edits` | one document, opened and edited: does what is stored and published settle on the current text, and is every text diagnosed unless overtaken? | holds |
| `lsp_two_docs` | every message, two documents, no timing assumption: is there at most one live goroutine or timer per document, is none out of reach, is nothing live after `Run`? | holds |
| `solver_branches` | branches that refine a skolem, one, in sequence and nested, and classes whose failing trials wake each other: is every constraint held in one place, does what is stuck wait for something unsolved, do branches leave outer metavariables alone, is nothing lost or owned by a closed scope, does every loop end? | holds |
| `solver_nested` | is an equality that has a metavariable on both sides held once too? | violated |
| `solver_given_scope` | is a given equality in force only in its branch? | violated |
| `types` | types built up and substituted in; equations in nested trials and branches; the same scopes around any writes; a family application whose unknowns are learnt one by one; a case expression; modules importing each other: do the operations agree with their reference definitions, and is no answer taken back? | holds |
| `vm_programs` | programs as they are and through the whole pipeline, with a cancellation possible at every step: do optimizer, compiler and machine compute what the source means, keep frames and saved capabilities intact, stop at limits? | holds |
| `vm_shadow` | does a variable denote its innermost binder in scope? | violated, three times |
| `vm_stale` | do capabilities returned by a callback reach the frame that asked? | violated |
| `stdlib` | any sequence of calls on a collection, a sequence, slices and arrays, a string, numbers, JSON: does each structure behave as its abstract type and leave older values alone? | holds |
| `engine` | two engines share a cache of capacity one, two goroutines run what they assemble: are digests fresh, is what a cache returns what the engine would have made, also when a text has two names and the engines differ in a primitive, and does each run enter its program with its own host value and a complete, final template? | holds |
| `engine_host` | is what a run reads computed from its own host bindings? | violated |

`CHECK_DEADLOCK FALSE` is set except in `stdlib`, where a program can always make another call: elsewhere
everything may end: a client may stop sending, the checker may have nothing more to
check, a program ends.

The properties of `stdlib` and `types` are conjunctions of named parts, one for each law; the name of a part
in its module says which. The five violations are disagreements between the code and what its comments or tests say.

- `solver_given_scope`: a given equality is installed in the unifier and also queued; the
  branch removes it from the unifier, the queued copy is put back with the worklist of the
  enclosing scope, and the next `SolveWanteds` installs it again, for good.
- `solver_nested`: `processCtEq` appends the metavariables of both sides, so `?m ~ List ?m` is twice in the
  bucket of `?m`, and `KickOut`, which cleans the other buckets only, hands it back twice
  (inert.go:117 and 187 speak of deduplication). It is then queued twice, a failure is reported twice, and the copies
  multiply: the reverse map of one insertion replaces that of the other, and copies outlive their scope.
- `vm_shadow`: `compileBind` does not pop its local, and `compileVar` looks locals up by
  name instead of by index; a name bound in a nested `do` hides the outer one afterwards. In the
  same program `inlineRule` replaces a parameter `k` by the small function `k` of the module: it
  compares names without regard to binders, and in the main source both have the same key. And a
  qualified reference `M.y` under a local binder `y` is compiled to the local, because `assignIndices` asks for the bare
  name (index.go:65), where the package says that a global reference has index -1 (doc.go:30).
- `vm_stale`: `OpBind` and others write the capabilities of a callback through a frame
  pointer that `append` may have invalidated during the callback. `applyN`'s comment
  describes this and re-acquires the frame; these handlers do not. The run needs 64
  frames, `NewVM`'s capacity, which is why `FrameCap` has that value and not a smaller one.
- `engine_host`: `executeVM` copies the template of the first run and reinstalls the slots of
  the host bindings. Bindings of the program other than the entry were evaluated with the first
  run's host values and stay; with `y := host_x + 1` and `main := y` a second caller gets the
  first one's `y`. The test of this reads `host_x` in the entry itself.


### Also met while modelling

Recorded here, some of them as hazards, and not as runs of their own.

- Server: a save or a reopen leaves the version as it was, so a cancelled analysis that runs on for
  longer than the debounce delay can overwrite a newer result; `lsp_edits` therefore asks
  its question of edits, where versions grow. A goroutine that outlives `didClose`
  finds no document to compare versions with and publishes after the empty list of
  the close (server.go:381). `handleDidChange` applies the first content change of
  several (server.go:257). Text notifications are handled before `initialize` and after `shutdown`.
- Solver: `Reset` drops a stuck wanted equality without a diagnostic (solver.go:181, 252); an outer
  family equation can be re-tagged with the scope of a branch and go with it; the flag
  `inaccessible` is set and never read.
- Engine: a module's key lacks the module's name, so a text registered under two names in two
  engines yields code that refers to itself by the other name: `compileVar` panics, or, when the other name
  is that of another module of this engine, takes the slots of that one. The part "names" of `engine` reaches such states;
  `OwnNamesKept` says that one engine alone never does;
  `RegisterPrim` over a primitive that had a key leaves the old key; inlining and rewrite
  rules are not in a module's key; `RegisterModuleFile` writes the path into an object that other engines
  may share; `Put` at capacity evicts even when the key is present; a cancelled context leaves a
  partly optimized program, which is cached.
- Bytecode compiler and machine: only the last alternative of a case is compiled in tail position, so a
  loop through another one uses stack (compiler_match.go:36); offsets and slots are
  16 bits wide and not checked (compiler_emit.go:112); `runCallee` saves the operand
  stack pointer and does not restore it on an error, against its comment, so a caught failure
  leaves operands behind, below anything later frames read; `applyN` on a thunk drops the
  capabilities the thunk returned.
- Optimizer: inlining captures free names of the inlined body, and inlining a small
  `\u. do { x <- ..; pure x }` brings the shadowing of `vm_shadow` about in ordinary code; `substMany` under a
  binder that shadows does not rename a captured one (subst.go:118, 187); `renamePatternVar`
  leaves the payload of label patterns; `caseOfKnownCtor` and `caseOfKnownLit` skip
  earlier wildcards, and the former nested patterns that do not match (optimize.go:238); label
  erasure does not descend into the arguments of constructors, primitives and variants, deletes a label variable from
  a map that is shared with the rest of the walk, so that an outer binder of the name is forgotten (label_erase.go:71), and erased label variables share the name space of terms; a binding before a group of mutually
  recursive ones that it depends on is evaluated before the group (deps.go:3); evidence of a
  module's candidates has a key that never matches; `listPackedRoundtrip` leaves a
  slice where a list was.
- Types: `MapChildren` and `ZonkEntries` of capability entries and `MapRow` lose `IsLabelVar`; the kind
  of a shadowing binder is not substituted; renaming a binder leaves label and level variables
  of its name; a label binder instantiated with something other than a literal leaves its
  name; `Equal` sorts constraint rows under binders by keys with the bound names, so it tells some
  alpha-equal types apart (equal.go:73); a key leaves out the variables and the context of quantified
  constraints (key.go:23).
- Unifier: a fresh row tail has level 0; `solveMeta` treats its sides differently
  when one is untouchable; `Record ?m` against a bare row is refused; `RemoveGivenEq` is not
  trailed and removes an outer given of the same skolem; a metavariable that solves
  a tail does not inherit its label context; `InstallGivenEq` has no occurs check;
  `BeginProbeIsolated` detaches two of three callbacks; `forall a. a -> ?m` against
  `forall b. b -> b` solves `?m` to the generated name (unify.go:206); `?r1` against
  `{l: B | r2}` accepts an `r2` that has an `l`; zonking in a branch compresses a path through the
  branch's given equality, which outlives the branch (unify_trail.go:230, 241). None of this disturbs the
  trail (`TrailsCanRollBack`).
- Families: `VerifyInjectivity` never compares an equation with itself; an application under an arrow
  without metavariables is not reduced; a constructor pattern against a skolem
  or a stuck application fails instead of waiting; `Merge` looks for overlaps before it looks for an open
  tail; a non-linear pattern's reduction is not final; `validateAliasGraph` leaves nodes gray
  after the first cycle.
- Exhaustiveness: a column whose type is not known is assumed to be covered although the pattern shows
  constructors; the nested columns of a GADT's constructor have no type, and a second row after
  `MkG (Just x)` is rejected as redundant (docs/spec/language.md:935 speaks of missing warnings only);
  the witness of a record is that of its first label.
- Modules: a module exports what it declares and nothing of what it imports (export.go:10), while
  docs/spec/language.md:1577 has the exports of A include the names of a B that A imports: B's names do not reach a module that imports A;
  an export that any other registered module has too is not exported;
  `filterOwnedMap` takes all registered modules for imports (pipeline.go:85); the constructor of an imported
  type leaks into the exports of a module that declares a type of its name (export.go:38);
  a selective import leaves the families out; a promoted constructor belongs to no
  module; an open import sets constructors without an ambiguity check, so the last import
  wins where docs/spec/language.md:1569 promises an error for every clash; a module that declares a name which a module it
  imports exports too is not counted as its owner, so a clash with another owner goes unreported and
  the last import wins, in the order of the import list (import.go:271, 172); the equations that a private instance
  gives an associated type are exported with the family, the instance is not (instance.go:110, 218); overlapping instances of two
  imported modules are not compared, only those of the module with what it imports (instance.go:107); a
  dependency between two modules suffices for families of one name to be merged, be one closed
  and the other associated (import.go:377, registry.go:126); of two constructors of one name in a module the later
  replaces the earlier.
- Standard library: `takeS` shadows its capabilities in its loop; `replicate`, `range` and `iterateN`
  charge a product that can overflow; `float64(MaxInt64)` passes `floatToInt`;
  `strPackedRoundtrip` is unsound on malformed strings; the two JSON encoders differ
  on `Result`, `Map` and `Set`.

Where a law of `types` or `stdlib` would contradict one of these it carries a hypothesis that excludes
the case, or the instance leaves the input out; so do the programs of `vm_programs` with these and the three of `vm_shadow`.
Two laws state what the code does where the specification of the language says otherwise, each with the line it departs
from: `ExportsOwn` (docs/spec/language.md:1577) and `ClashesReported` (docs/spec/language.md:1569).

### Bounds

- Server: `MaxTasks` timers and `MaxTexts` texts. An overwritten cancel function, a lost
  timer or a stale result involves two goroutines of a document, a third shows that the pattern
  does not repeat; `lsp_edits` has three of both, `lsp_two_docs` two for each of two
  documents so that the maps have two keys. The proofs cover all other values.
- Timing: `WindowPrompt` says that the few instructions between the staleness check and
  the publication take less time than the debounce delay (300 ms); it is set in
  `lsp_edits`, since otherwise any check followed by a publication is outrun. `CancelPrompt`
  says the same of a cancelled analysis and is set in no run. `lsp_two_docs` sets neither.
- Solver: seven scenarios, sets of three or four constraints. A branch with a class or with an equality; two branches in
  sequence on the same skolem; a class and an equality that mentions the skolem; two branches with a skolem each, nested or in
  sequence, the second with an existential; a nested equality in a branch; and, without a branch, two classes that no
  instance matches, but only after a trial has solved something. Four metavariables, one of them a branch's own and
  one the result of a family equation; three constructors. Of the four instances one is private, one plain, one has a
  context that is derivable and one a context that is the argument of the private one; so there
  are constraints that resolve, fail, are ambiguous, and fail after a trial has solved something. `ResolveDepth`
  is more than any context needs. `MaxDepth` nests
  branches two deep. The step limit may strike at any iteration. The theorems cover all other values.
- Machine: a program has no free input, so its bound is the list of programs. They are made to
  reach every opcode and every case of application (closure, partial application,
  constructor, primitive, thunk; one or several arguments; too few, enough, too many; on the
  stack or from a primitive), state shadowed and restored, failures through calls and
  callbacks, merges, conversions of lists and slices, recursion in tail position and not, each limit,
  and the run-time errors. Besides, all coincidences of two names in two nested functions,
  cases, or a case and a bind, and eight source programs (dictionaries, labels, list pipelines, bindings out of order)
  through the pipeline, with inlining and without, with four passes and with one. TLC's
  coverage shows that every action fires.
- Engine: two engines and one store of capacity one, so that every insertion after the first
  evicts; one configuring call in all, so that the engines agree in everything but one setting,
  which is where a key that omits a setting goes wrong; two modules of which one imports the other,
  two programs of which one reads the host binding; one runtime, two runs, two host values;
  while both runs are under way no engine is inside a call (`Apart`), since calls add objects and change none that a run holds. In part "names" a text has
  two names, and instead of being configured each engine starts with one of two implementations of a primitive, registered
  with its key or without; the modules and runtimes that the caches then offer differ in what the keys leave out.
  The theorems cover all other values.
- Standard library: four keys in maps, seven in sets, so that double rotations and deletions of a
  node with two children occur; sequences of twelve, joined with ones of four and nine and
  made from thirty, so that the spine has two levels; lists of four, buffers of two, three handles alive; strings of
  four bytes, among them truncated and malformed ones; integers of five bits, a mantissa of
  four; JSON types nested twice.
- Types: types of six nodes, two substituted names, two nested scopes with two calls in each, three
  solutions learnt one after the other, two alternatives of a case, three modules;
  30 steps of reduction, 20 nodes of a reduced type, alias chains of four.

### Fairness

`LspServer` assumes weak fairness of the main goroutine, of each timer and of each goroutine:
the Go scheduler runs what is runnable, a timer that is not stopped fires, `Analyze` has
a timeout. The client owes nothing. `ConstraintSolver` assumes that a loop goes on to its
next iteration; the checker owes nothing and the step limit may never strike.
`VmMachine` assumes that the machine goes on. The other specifications state no fairness:
nothing in them waits for anything, and their properties are about what may not happen.

## Proofs

TLAPS checks every theorem for all values of the constants, from the assumptions named in the modules that
declare them. Each follows from an inductive invariant: a conjunction of named parts,
proved to hold initially and to be kept by every action, one lemma for an action or a group of them.

### The server

`LspServerProofs`, from the assumptions of `LspServer` on bounds and alphabets:

- `TypeCorrect`: `Spec => []TypeOK`;
- `OneLive`: of the timers and goroutines of a document only the one whose cancel function
  the map holds has a live context;
- `TimersHeld`: no pending timer is missing from `debounceTimers`;
- `RunDrains`: when `Run` has returned no timer is pending, and what still runs is cancelled.

None of the last three is inductive alone. Arming a timer writes the entry of task
`nextTask`, so one must know that it was unused (`Counters`); and `DiagnoseCancel` and
`drainTimers`, which walk the two maps, reach every live goroutine and every pending timer only
because the maps hold them all, that is, because of the other two. The inductive invariant
is `IInv == TypeOK /\ Counters /\ Debounce`, with `Debounce` the conjunction of the three.

The same module proves `EditsSettle`: what an open document with nothing pending shows and stores is
the analysis of its newest text. Its two hypotheses are those of the run: clients open and
change (`EditsOnly`), and `WindowPrompt`. The invariant `EditsInv` follows the
newest task of a document. Unless a handler has changed the text and not yet armed its
timer, that task was armed after the last change, so what it captures is the current version (`Newest`).
Older goroutines may still publish, but when the newest timer has fired those past their
version check hold the current version too (`Overtaken`), and a version determines its text (`Captured`).
So it does not matter in which order they publish.

### The engine

`EngineProofs`, from the assumptions that `Engine` states (texts of modules and programs differ,
keys of primitives identify them, `None` is none of the values):

- `TypeCorrect`: `Spec => []TypeOK`;
- `Fresh`: a memoized digest is the one that would be computed now;
- `Sound`: an entry of a cache was made from the text and in the environment its key names;
- `Linkage`: a registered module, whoever compiled it, was compiled against the texts that its
  engine registered before it under the same names;
- `Fit`: a runtime that `NewRuntime` would find is the one it would assemble;
- `KeepsNames`: whatever names a text has, an engine has each module that it compiled itself under the one name
  that the references of its code to itself carry.

The chain is this. A digest is fresh, hence the key that `compileModule` and `assembleRuntime`
compute names the environment at that moment, hence `CacheSound`, which evictions and
resets only shrink. What an object holds is determined by its environment (`ModuleFits`,
`RuntimeFits`), so equal keys give equal contents: that is `Linkage` for a hit, and `Fit`. The
inductive invariant adds to these what a call under way will register (`Calls`) and that a module is
registered under a name its text has (`StoreNames`); allocation is by `Append`, so an object
keeps its text and its environment. `Fit` excludes what the code's documentation excludes,
closures of one function (limitation L1), and primitives registered over one with a key. Of the
modules it says that names and texts are equal; their order in a runtime is that of the engine
that assembled it.

`KeepsNames` is about the hazard that a key lacks the name. Two engines do meet it; that one engine cannot follows
from a fact about keys: an engine that registers its own module again under a second name looks it up with a key in which the module
itself is a dependency, since all that is registered is; but the module was compiled when its name was free, and was
not in its own environment (`OwnEntry`). So the lookup misses.

About engines and runs together (`EngineRuns`), also from `HostValsAssumption` (`None` and the mark of a
value that needs no host are no host values):

- `RunsAreConsistent`: a run enters its program with its own host value and finds all other
  bindings evaluated, whichever run evaluated them;
- `TemplateIsFinal`: a published template is never changed.

`SystemInv` adds two things to the engine's invariant. `RunInv` says what a run holds at each of its steps.
`Declared` says that a text that reads a host binding is only in modules, stores and runtimes
whose environment declares one: without it an engine might put a module that
another engine compiled into a runtime that has no host value to give, and the slot
of its binding would stay empty. It holds because the bindings are part of a module's
key and no call removes one.

### The solver

Three modules, from the assumptions on constants of `ConstraintSolver`: variables and constraints are
finitely many, metavariables, skolems and constructors differ, a given refines a skolem to a constructor.
The set of constraints, the instances, the family, the depth of branches and
what the checker emits are arbitrary.

- `SolverHoldsOnce` (`HeldOnce`): every constraint is queued once or inert, and no call
  returns one both as resolved and as a residual; nested equalities are excepted, of which the code does hold
  copies (`solver_nested`), and so it is proved that these copies disturb no other constraint;
- `SolverStuckBlocked` (`StuckAreBlocked`): a stuck equality or family equation waits for an unsolved metavariable
  under every entry of the index, also when a trial solved one and was rolled back;
- `SolverScopesOwn` (`ScopeOwnership`): an inert constraint, unless it is a nested equality, is listed under an open depth;
- `SolverLosesNothing` (`ClassesNeverLost`): a class constraint that was emitted stays on a worklist, saved by a
  scope or a residual until it is resolved, reported or generalized over, unless a limit has struck;
- `SolverLeavesOuter` (`OuterMetasUntouched`): no step of a call that solves a branch, the one that ends the branch
  included, changes a metavariable created outside it.

They follow from one invariant, `SolverInv` (`SolverInductive`), because each needs the others.
`Good` holds of the record that a step threads as well as of the state: `Sound` (chains of solutions
end, the index is consistent, what is stuck is blocked) and `Placed` (each constraint in one place, with a set
of those that are held outside). `FramesOK` says what the frames hold, `CallOK` what the call under way
may still answer, `Found` where the classes are. TLC checked `SolverInv` on the scenarios of `solver_branches`
before it was proved.

The hard part is that no call both resolves and defers a constraint. A class that
was resolved and then kicked out is looked at again under more solutions; `Answers` says that
under the present ones the call would not defer what it has resolved, and `Woken` that solving
a metavariable can only narrow what it would defer (fewer metavariables left, fewer instances that match).
Solving a skolem would break this, since it removes the mismatch that made one instance match alone. Hence
`GivensFirst` and `NoGivens`: givens come before everything in the worklist, what a given kicks out in front of one is
no class constraint, and while anything has been resolved no given is queued.

Two techniques replace what the provers lack. Induction over an operator is induction over a
set: `NatSetInduction` and `LeastNumber` come from the library's minimal element of a
well-founded relation, and a fold is a chain of values (`ChainExists`) along which a set
that each step stays in is an invariant (`StagedInvariant`, `StagedChain`). And that chains of solutions end is not
stated with a length: `Acyclic` says that no nonempty set of variables is closed under the solution, and
a set of counterexamples to a claim about zonking is such a set.

### The machine

`VmMachineProofs`, for any programs, limits and initial capacity of the frames, and any conversions between
lists and slices. Of bytecode it assumes one thing (`BytecodeAssumption`), which the machine's own comment relies
on: `OpPrim` stands for primitives without effect.

- `FramesStayConsistent` (`FramesConsistent`): each barrier frame belongs to one pending `runCallee`, in order,
  and the depth of the budget counts the call frames above the first;
- `SavedCapsStayIntact` (`SavedCapsIntact`): no step changes in place a capability map that the host, a `tryAt`
  or a merge has put aside;
- `LimitsAlwaysEscape` (`LimitsEscape`): an error of the budget or a cancellation passes every
  pending call unchanged;
- `CopyOnWrite`, about the operators alone, for heaps of any size: `Set`, `Delete`, `Filter` and
  `MergeWith` yield the contents they promise and leave every other environment as it
  was, the one they were given too if it is marked shared. That the machine marks an environment before it
  puts it aside is `SavedCapsStayIntact`.

The inductive invariant (`InvariantHolds`) is that the program is one of `Programs` and, while it runs,
`OK(vm)`. `OK` has a case for each of the four things that can be under way: `Runs` (the loop or `apply`), `Calls` (a
primitive or a callback), `Returns` and `Fails`. All share `Base`, of two parts. `Control` is the shape of the control
stack: a call of the loop stands at the bottom or on a `runCallee`, a call of a primitive on one that waits for it, and a
`runCallee` remembers where its barrier is and the depth its frames had. The depth is `Even` with the frames
in all cases but one: an error leaves it too high, until a `runCallee` puts it back to what it remembers, and that this is right needs
the memory to be right for all calls below, not just the last. `Sharing` is about capabilities. The obvious
invariant, that what has been put aside is marked shared, is not inductive, since marks are on references: a frame below may
hold an unmarked reference to the map. So `Spares(c, e)` says of an environment and a waiting call that writing the one leaves what the other
saved alone, and it is demanded (`FrameFit`, `CallFit`, `Fit`) of exactly the frames and calls that can run before
that call is resumed. TLC checked the invariant on the states of `vm_programs` before it was proved.

### The import scope

`ModuleScopeProofs`, for any modules, texts and orders of registration. `ScopeAssumption` says what
the parser and the checker's earlier phases ensure of a text: sequences are sequences (`TextsAssumption`), no constructor belongs to
two types and constructors and methods differ (`NamesAssumption`), an instance names its own module
(`InstancesAssumption`), equations are records (`FamiliesAssumption`). It restricts neither which families share a name
or are closed nor which instances enrich them.

- `ScopesAreExact` (`ScopesExact`): in a scope without errors each value is the module's own or comes from a module whose import brings
  it, and none that an import brings is missing; when two modules bring it, one of them is a module that
  declares it over an import of its own, which is the only clash that goes unreported (`Redeclares`);
  methods come with their class; families have the equations of all modules imported, and these
  agree; instances are those of the modules reached, and none of the module's own overlaps them;
  exports are a module's own and nothing inherited;
- `RegisteredModulesAreSettled`: what is registered later changes neither a module nor what it depends on;
- `ImportsInAnyOrder`: two lists with the same imports, both without errors, bring the same value names and instances, and a
  value that each module bringing it owns has the same origin. The last hypothesis is needed: a module that
  does not count as an owner hides a clash.

The invariant (`RegisteredModulesAreFit`) says of the store (`StoreOK`) that dependencies are registered, that exports
are well formed, and that a module exports the public instances of all it depends on; of each module that its exports
are its own (`AllOwn`); and of the last check (`IsCheck`) that its scope is what the declarations make of some scope that
the imports make of the store it began with. The fact about instances is what makes it an invariant of the store: an import
looks only at the exports of the module it names, while `InstancesInScope` speaks of all modules reached.
An import changes seven tables in up to a dozen steps. Three relations say what a step may do to names (`Named`), to tables
(`Tabled`) and to families (`Familied`); each holds of every step and is transitive, so it holds of an import, and
`Stage` says what holds after the first `i`. Imports that are refused count as steps that add an error only. TLC
checked the invariant on the 25628 states of the modules' part of `types`.

### The trail

`TrailProofs`, for any identifiers, values and nesting, from no assumption:

- `TrailsCanRollBack` (`CanRollBack`): at any time each open trial and probe can be rolled back to the tables and the
  trail it saw;
- `RollbacksRestore` (`RollbackRestores`): when one is, tables, trail, snapshot depth, touchability and
  flexibility are what they were when it began.

`RestoreExact` is about the loop of `Restore` alone. Undoing back to a position gives each identifier the old
value of its first write after it (`Before`), whatever came later; so `Restore` yields what a unifier `v` held as soon as the
trail extends that of `v` and `Before` is what `v` held. The invariant (`Consistent`) keeps this for every open scope, and
between nested ones (`Within`). A write keeps it because it records what it replaces. Two operations change a
table and leave no record. A chain is shortened without one while no snapshot is open, so the
invariant counts the snapshots (`Counted`): while any trial is open the depth is positive. And a branch removes the equalities
it gave: each was written after every scope around the branch was opened, so for those scopes `Before` is on
the trail and not in the table (`WithinRemove`); the scopes opened inside are closed by then. TLC checked the
invariant on the 148638 states of the machine, with one identifier, two values, three writes and two scopes,
and checks both properties on the unifier of `UnifyLaws` too (`Kept`).

### Only model-checked

- Liveness (`DiagnosticsArrive`, `SolveTerminates`, `Terminates`): fairness and `ENABLED` are out of the prover's reach.
- That what the machine computes is what the source means (`Agrees`): this is about the optimizer and the
  compiler, recursive operators on terms, and would be an induction over terms, which the provers cannot do.
- `TypeOK` of the machine says that operands and locals are values; that no local is read before it is
  written depends on the flow of the compiler's bytecode, of which the proofs assume nothing. `TailLoopsFlat` is about
  the loops of particular programs.
- The properties of `stdlib`, and the laws of types, unifier, families and exhaustiveness in `types`, for the
  two reasons of `Agrees`. That unification only refines solutions (`SolutionsRefine`) is among them; of `TrailScopes`
  it is left open which writes unification makes.

## Not modelled

The lexer and the parser with layout and the resolution of operators: what they decide is the grammar,
and a model would restate it with nothing to check it against. Desugaring and the elaboration of
expressions and declarations by the checker: recursive walks over syntax without shared state; where
they drive the solver, `ConstraintSolver` has the calls, and the elaboration of family declarations is
replaced by their equations. Diagnostics, spans, the explain observer and pretty-printing change no result.
Transport, header directives, the sandbox and the command line are I/O or sequences of calls that are modelled
one by one. Of the budgets the model has the machine's and the solver's step limit. `PROJECT.json` lists
what each modelled part leaves out.

## Plan

For the proofs:

1. The budget of the machine: counters balance and limits hold whatever the order of calls.
2. A refinement of the server to one that publishes the analysis of some text it received, and
   of `RuntimeGlobals` to runs that evaluate afresh, for programs without host bindings.

For the models: operator resolution and layout as pure functions; the elaboration of family
declarations; hover and completion as readers of the stored analysis.
