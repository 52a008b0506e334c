-------------------------- MODULE ConstraintSolver --------------------------
(***************************************************************************)
(* The constraint solver of compiler/check/solve together with the parts   *)
(* of the checker that drive it: constraints emitted while a term is       *)
(* checked, SolveWanteds over the worklist and the inert set, kick-out     *)
(* when the unifier solves a metavariable, and the implication scope of a  *)
(* GADT branch (CheckWithLocalScope).                                      *)
(*                                                                         *)
(* Types are flat: a metavariable, a skolem or a constructor. This keeps   *)
(* what the solver's control depends on (which metavariables a constraint  *)
(* is blocked on, whether a head is known, whether a side is a skolem) and *)
(* leaves structure, rows and kinds out. Each constraint carries two       *)
(* types: the arguments of a class or a family, the sides of an equality.  *)
(* One shape of structured type is kept, because the index of the inert    *)
(* set depends on it: a nested equality t ~ List t, whose sides mention    *)
(* the same metavariable. It is in Nested and carries t twice.             *)
(***************************************************************************)
EXTENDS Integers, Sequences, FiniteSets, SequencesExt

CONSTANTS
  Metas, Skolems, TyCons,\* the flat types
  None,                  \* no entry in a solution map
  Cts,                   \* constraints the checker may emit
  Scenarios,             \* the sets of them that one compilation unit emits
  Kind,                  \* Kind[c]: "class", "fun", "eq" or "given"
  Args,                  \* Args[c]: its two types when it is emitted
  Nested,                \* the equalities between a type and a type that contains it
  Locals,                \* Locals[c]: the existential skolems of the pattern of a given
  ResultMeta,            \* ResultMeta[c]: what a family equation defines
  Birth,                 \* Birth[m]: solver level at which m is created
  Instances,             \* the instances of the class, in search order
  ResolveDepth,          \* bound: the levels of contexts the resolver descends
  Family,                \* Family[p]: the reduct of the family at constructors p, or None
  EagerTypes,            \* types the checker unifies metavariables with eagerly
  MaxDepth               \* bound: nesting of case branches

Vars  == Metas \cup Skolems
Types == Vars \cup TyCons
Pairs == Types \X Types

ASSUME ConstraintsAssumption ==
  /\ Kind \in [Cts -> {"class", "fun", "eq", "given"}]
  /\ Args \in [Cts -> Pairs]
  /\ \A c \in Cts : Kind[c] = "given" => Args[c] \in Skolems \X TyCons
  /\ Nested \subseteq {c \in Cts : Kind[c] = "eq" /\ Args[c][1] = Args[c][2]}
  /\ Locals \in [Cts -> SUBSET Skolems]
  /\ ResultMeta \in [Cts -> Metas]
  /\ Scenarios \subseteq SUBSET Cts
ASSUME SignatureAssumption ==
  /\ Birth \in [Metas -> Nat]
  /\ Instances \in Seq([head : TyCons \X TyCons, private : BOOLEAN,
                        context : SUBSET (TyCons \X TyCons)])
  /\ ResolveDepth \in Nat
  /\ Family \in [TyCons \X TyCons -> TyCons \cup {None}]
  /\ MaxDepth \in Nat /\ None \notin Types /\ EagerTypes \subseteq Types
  /\ Metas \cap Skolems = {} /\ Vars \cap TyCons = {}
  /\ IsFiniteSet(Vars) /\ IsFiniteSet(Cts)

VARIABLES
  soln,           \* Unifier.soln on metavariables, skolemSoln on skolems
  args,           \* the types each constraint carries now
  worklist, inert,
  level,          \* Solver.level
  solverLevel,    \* Unifier.SolverLevel
  frames,         \* the case branches being checked, innermost last
  call,           \* which call of SolveWanteds is running
  residuals, resolutions, ambiguityCache,  \* the state of that call
  inaccessible,   \* Solver.inaccessible
  stopped,        \* the loop of that call has stopped at the step limit
  limited,        \* some call has stopped at the step limit
  fate            \* what became of each constraint

vars == <<soln, args, worklist, inert, level, solverLevel, frames, call, residuals,
          resolutions, ambiguityCache, inaccessible, stopped, limited, fate>>

Inert == INSTANCE InertSet WITH Keys <- Pairs

Fates == {"absent", "new", "pending", "solved", "reported", "lifted", "rigid"}
Calls == {"idle", "resolve", "deferrable", "local"}

TypeOK ==
  /\ soln \in [Vars -> Types \cup {None}]
  /\ args \in [Cts -> Pairs]
  /\ worklist \in Seq(Cts) /\ inert \in Inert!InertSets
  /\ level \in 0..MaxDepth /\ solverLevel \in -1..MaxDepth
  /\ frames \in Seq([saved : Seq(Cts), given : Cts, scoped : BOOLEAN])
  /\ call \in Calls
  /\ residuals \in Seq(Cts) /\ resolutions \subseteq Cts
  /\ ambiguityCache \subseteq Pairs \X BOOLEAN
  /\ inaccessible \in BOOLEAN /\ stopped \in BOOLEAN /\ limited \in BOOLEAN
  /\ fate \in [Cts -> Fates]

Init ==
  /\ soln = [v \in Vars |-> None] /\ args = Args
  /\ worklist = <<>> /\ inert = Inert!NewInertSet
  /\ level = 0 /\ solverLevel = -1 /\ frames = <<>> /\ call = "idle"
  /\ residuals = <<>> /\ resolutions = {} /\ ambiguityCache = {}
  /\ inaccessible = FALSE /\ stopped = FALSE /\ limited = FALSE
  /\ \E S \in Scenarios : fate = [c \in Cts |-> IF c \in S THEN "new" ELSE "absent"]

-----------------------------------------------------------------------------
(* The unifier on flat types. What one step of the solver changes is       *)
(* threaded through its unifications as a record and assigned at the end;  *)
(* ok is the answer of the call made last.                                 *)

State == [soln |-> soln, args |-> args, worklist |-> worklist, inert |-> inert,
          residuals |-> residuals, resolutions |-> resolutions,
          ambiguityCache |-> ambiguityCache, inaccessible |-> inaccessible,
          fate |-> fate, ok |-> TRUE]

\* The singleton makes TLC evaluate the next state once.
Becomes(next) ==
  \E st \in {next} :
    /\ soln' = st.soln /\ args' = st.args
    /\ worklist' = st.worklist /\ inert' = st.inert
    /\ residuals' = st.residuals /\ resolutions' = st.resolutions
    /\ ambiguityCache' = st.ambiguityCache /\ inaccessible' = st.inaccessible
    /\ fate' = st.fate

\* Solution chains are acyclic and no longer than the set of variables.
Deref(s, t) == IF t \in Vars /\ s[t] # None THEN s[t] ELSE t

Zonk(s, t) ==
  LET z[i \in 0..Cardinality(Vars)] == IF i = 0 THEN t ELSE Deref(s, z[i - 1])
  IN  z[Cardinality(Vars)]

zonkAll(s, ts) == <<Zonk(s, ts[1]), Zonk(s, ts[2])>>

\* The metavariables of the types, each once.
metaOf(t) == IF t \in Metas THEN <<t>> ELSE <<>>
collectMetaIDs(ts) ==
  IF ts[1] = ts[2] THEN metaOf(ts[1]) ELSE metaOf(ts[1]) \o metaOf(ts[2])

SliceHasMeta(ts) == collectMetaIDs(ts) # <<>>

Reactivate(st, m) ==
  [st EXCEPT !.worklist = Inert!KickOutCts(st.inert, m) \o @,
             !.inert = Inert!KickOut(@, m)]

\* solveMeta refuses a metavariable born outside the scope being solved;
\* otherwise it writes the solution and OnSolve runs.
solveMeta(st, m, t, slevel) ==
  IF slevel < 0 \/ Birth[m] >= slevel
  THEN Reactivate([st EXCEPT !.soln[m] = t, !.ok = TRUE], m)
  ELSE [st EXCEPT !.ok = FALSE]

UnifyZonked(st, x, y, slevel) ==
  CASE x # y /\ x \in Metas -> solveMeta(st, x, y, slevel)
    [] x # y /\ x \notin Metas /\ y \in Metas -> solveMeta(st, y, x, slevel)
    [] OTHER -> [st EXCEPT !.ok = (x = y)]

Unify(st, a, b, slevel) == UnifyZonked(st, Zonk(st.soln, a), Zonk(st.soln, b), slevel)

\* The arguments against an instance head, with touchability off.
UnifyMore(st, a, b) == IF st.ok THEN Unify(st, a, b, -1) ELSE st
UnifyHead(st, head, ts) == UnifyMore(Unify(st, head[1], ts[1], -1), head[2], ts[2])

\* withTrial restores the solutions on failure, and nothing else; withProbe
\* restores them in every case.
Kept(st, before) == IF st.ok THEN st ELSE [st EXCEPT !.soln = before]
Probe(st, head, ts) == [UnifyHead(st, head, ts) EXCEPT !.soln = st.soln]

-----------------------------------------------------------------------------
(* Class constraints.                                                      *)

\* Heads and contexts are closed, so resolving a context solves nothing: it
\* succeeds for the arguments derivable within the depth limit. A cycle is an
\* error of that attempt only, and a derivation need not contain one.
Derivable ==
  LET d[n \in 0..ResolveDepth] ==
        IF n = 0 THEN {}
        ELSE {p \in TyCons \X TyCons : \E i \in DOMAIN Instances :
                /\ ~Instances[i].private /\ Instances[i].head = p
                /\ Instances[i].context \subseteq d[n - 1]}
  IN  d[ResolveDepth]

\* Head and context are one trial: a context that cannot be resolved rolls the
\* solutions of the head back.
InContext(st, context) == [st EXCEPT !.ok = @ /\ context \subseteq Derivable]
Trial(st, inst, ts) == Kept(InContext(UnifyHead(st, inst.head, ts), inst.context), st.soln)

\* Instances are tried in order until one matches; its solutions stay. The
\* search does not see private ones.
TryNext(st, inst, ts) == IF st.ok \/ inst.private THEN st ELSE Trial(st, inst, ts)

resolveInstance(st, ts) ==
  LET try[i \in 0..Len(Instances)] ==
        IF i = 0 THEN [st EXCEPT !.ok = FALSE] ELSE TryNext(try[i - 1], Instances[i], ts)
  IN  try[Len(Instances)]

\* Probes of the heads, private ones too, run until a second instance matches;
\* the answer is cached.
Counted(st, n) == [st |-> st, n |-> IF st.ok THEN n + 1 ELSE n]
ProbeNext(p, head, ts) == IF p.n = 2 THEN p ELSE Counted(Probe(p.st, head, ts), p.n)
Answer(p, ts) ==
  [p.st EXCEPT !.ok = (p.n = 2), !.ambiguityCache = @ \cup {<<ts, p.n = 2>>}]

isAmbiguousInstance(st, ts) ==
  LET probe[i \in 0..Len(Instances)] ==
        IF i = 0 THEN [st |-> st, n |-> 0] ELSE ProbeNext(probe[i - 1], Instances[i].head, ts)
  IN  IF \E b \in BOOLEAN : <<ts, b>> \in st.ambiguityCache
      THEN [st EXCEPT !.ok = <<ts, TRUE>> \in st.ambiguityCache]
      ELSE Answer(probe[Len(Instances)], ts)

\* Variant: a local scope resolves what mentions a metavariable too.
shouldDeferAmbiguous(st, ts) ==
  IF call # "resolve" /\ SliceHasMeta(ts) THEN isAmbiguousInstance(st, ts)
  ELSE [st EXCEPT !.ok = FALSE]

\* The predicate the running call of SolveWanteds was given.
shouldDefer(st, ts) ==
  IF call = "deferrable" /\ SliceHasMeta(ts) THEN isAmbiguousInstance(st, ts)
  ELSE [st EXCEPT !.ok = call = "local" /\ SliceHasMeta(ts)]

\* ct is indexed under the metavariables its arguments had before the
\* resolution, also when the resolution failed.
Resolved(st, ct, ts) ==
  [st EXCEPT !.inert = Inert!InsertClass(@, ct, collectMetaIDs(ts), ts),
             !.resolutions = @ \cup {ct},
             !.fate[ct] = IF st.ok THEN "solved" ELSE "reported"]
resolveCtPlainClassKeyed(st, ct, ts) == Resolved(resolveInstance(st, ts), ct, ts)

\* Variant: a deferred constraint is resolved as well (a missing return).
DeferAndResolve(st, ct, ts) ==
  resolveCtPlainClassKeyed([st EXCEPT !.residuals = IF st.ok THEN Append(@, ct) ELSE @],
                           ct, ts)

\* st is the state after shouldDefer.
DeferOrResolve(st, ct, ts) ==
  IF st.ok THEN [st EXCEPT !.residuals = Append(@, ct)]
  ELSE resolveCtPlainClassKeyed(st, ct, ts)

\* Variant: the resolution cache is not consulted.
processWithoutCache(st, ct, ts) ==
  DeferOrResolve(shouldDefer([st EXCEPT !.args[ct] = ts], ts), ct, ts)

\* ts are the zonked arguments of ct.
processCtPlainClass(st, ct, ts) ==
  IF Inert!LookupResolution(st.inert, ts) \cap st.resolutions # {}
  THEN [st EXCEPT !.args[ct] = ts, !.resolutions = @ \cup {ct}, !.fate[ct] = "solved"]
  ELSE DeferOrResolve(shouldDefer([st EXCEPT !.args[ct] = ts], ts), ct, ts)

-----------------------------------------------------------------------------
(* Equalities and family equations.                                        *)

\* The metavariables of each side: what both sides mention is named twice.
blocking(ts) == metaOf(ts[1]) \o metaOf(ts[2])

\* A wanted equality: unified, stuck while a side is a metavariable, or an
\* error. st is the state after the unification, ts the zonked sides.
EqUnified(st, ct, ts) ==
  CASE st.ok -> [st EXCEPT !.fate[ct] = "solved"]
    [] ~st.ok /\ SliceHasMeta(ts) ->
         [st EXCEPT !.args[ct] = ts, !.inert = Inert!InsertEq(@, ct, blocking(ts))]
    [] OTHER -> [st EXCEPT !.fate[ct] = "reported"]

\* A type does not unify with one that contains it.
UnifySides(st, ct, ts) ==
  IF ct \in Nested THEN [st EXCEPT !.ok = FALSE] ELSE Unify(st, ts[1], ts[2], solverLevel)

processCtEq(st, ct, ts) == EqUnified(UnifySides(st, ct, ts), ct, ts)

\* A given equality: a skolem that zonks to itself is installed, and what
\* mentions it is woken; anything else is checked for contradiction.
Mentioning(st, t) == {c \in Cts : Kind[c] \in {"fun", "eq"} /\ t \in ToSet(st.args[c])}

WakeSkolem(st, wake) ==
  [st EXCEPT !.worklist = Inert!SkolemCts(st.inert, wake) \o @,
             !.inert = Inert!KickOutMentioningSkolem(@, wake)]

processGivenEq(st, ct, ts) ==
  IF ts[1] \in Skolems
  THEN WakeSkolem([st EXCEPT !.fate[ct] = "solved", !.soln[ts[1]] = ts[2],
                             !.inert = Inert!InsertGiven(@, ct)],
                  Mentioning(st, ts[1]))
  ELSE [Unify(st, ts[1], ts[2], solverLevel) EXCEPT
         !.fate[ct] = "solved",
         !.inaccessible = @ \/ ~(ts[1] = ts[2] \/ SliceHasMeta(ts))]

Reduces(ts) == ts \in TyCons \X TyCons /\ Family[ts] # None

\* Variant: the equation is registered again under its old metavariables.
processFunEqStale(st, ct, ts) ==
  IF Reduces(ts) THEN [Unify(st, ResultMeta[ct], Family[ts], solverLevel)
                        EXCEPT !.fate[ct] = "solved"]
  ELSE [st EXCEPT !.inert = Inert!InsertFunEq(@, ct, collectMetaIDs(st.args[ct]))]

\* A family equation: reduced and unified with its result, stuck again, or
\* left alone when no metavariable is left to wait for.
FunEqUnified(st, ct) == [st EXCEPT !.fate[ct] = IF st.ok THEN "solved" ELSE "reported"]

processCtFunEq(st, ct, ts) ==
  CASE Reduces(ts) ->
         FunEqUnified(Unify(st, ResultMeta[ct], Family[ts], solverLevel), ct)
    [] ~Reduces(ts) /\ SliceHasMeta(ts) ->
         [st EXCEPT !.args[ct] = ts,
                    !.inert = Inert!InsertFunEq(@, ct, collectMetaIDs(ts))]
    [] OTHER -> [st EXCEPT !.args[ct] = ts, !.fate[ct] = "rigid"]

-----------------------------------------------------------------------------
(* The checker between calls of SolveWanteds. It emits a constraint once,  *)
(* over metavariables that exist by then, and unifies eagerly: outside     *)
(* SolveWanteds touchability is off.                                       *)

Checking == call = "idle"

\* Metavariables that exist by now, and existentials of open branches only.
InScope(ts) ==
  /\ \A m \in Metas \cap ToSet(ts) : Birth[m] <= level
  /\ \A c \in Cts : Locals[c] \cap ToSet(ts) # {} =>
       \E i \in DOMAIN frames : frames[i].given = c

solveVars == <<residuals, resolutions, ambiguityCache>>
limits    == <<stopped, limited>>
scopeVars == <<level, solverLevel, frames>>

Emit(c) ==
  /\ Checking /\ fate[c] = "new" /\ Kind[c] \in {"class", "eq"} /\ InScope(args[c])
  /\ worklist' = Append(worklist, c)
  /\ fate' = [fate EXCEPT ![c] = "pending"]
  /\ UNCHANGED <<soln, args, inert, scopeVars, call, solveVars, inaccessible, limits>>

\* A family application with unsolved metavariables goes to the inert set with
\* a fresh result; one without is not a constraint.
RegisterStuckFunEq(c) ==
  /\ Checking /\ fate[c] = "new" /\ Kind[c] = "fun"
  /\ InScope(args[c])
  /\ Birth[ResultMeta[c]] = level /\ soln[ResultMeta[c]] = None
  /\ LET blockingOn == collectMetaIDs(zonkAll(soln, args[c])) IN
     /\ blockingOn # <<>>
     /\ inert' = Inert!InsertFunEq(inert, c, blockingOn)
  /\ fate' = [fate EXCEPT ![c] = "pending"]
  /\ UNCHANGED <<soln, args, worklist, scopeVars, call, solveVars, inaccessible, limits>>

EagerUnify(m, t) ==
  /\ Checking /\ InScope(<<m, t>>) /\ soln[m] = None
  /\ Becomes(Unify(State, m, t, solverLevel))
  /\ UNCHANGED <<scopeVars, call, limits>>

\* A GADT pattern: its equality is installed in the unifier and pushed on the
\* worklist. With existentials or evidence the branch is then checked inside
\* CheckWithLocalScope, otherwise directly.
EnterBranch(c, scoped) ==
  /\ Checking /\ fate[c] = "new" /\ Kind[c] = "given" /\ soln[args[c][1]] = None
  /\ Len(frames) < MaxDepth /\ (Locals[c] # {} => scoped)
  /\ soln' = [soln EXCEPT ![args[c][1]] = args[c][2]]
  /\ fate' = [fate EXCEPT ![c] = "pending"]
  /\ frames' = Append(frames, [saved |-> IF scoped THEN <<c>> \o worklist ELSE <<>>,
                               given |-> c, scoped |-> scoped])
  /\ worklist' = IF scoped THEN <<>> ELSE <<c>> \o worklist
  /\ level' = IF scoped THEN level + 1 ELSE level
  /\ inert' = IF scoped THEN Inert!EnterScope(inert) ELSE inert
  /\ UNCHANGED <<args, solverLevel, call, solveVars, inaccessible, limits>>

\* The equality is taken out of the unifier when the branch is done.
WithoutGiven(s, frame) == [s EXCEPT ![args[frame.given][1]] = None]

LeavePlainBranch ==
  /\ Checking /\ frames # <<>> /\ ~Last(frames).scoped
  /\ soln' = WithoutGiven(soln, Last(frames))
  /\ frames' = Front(frames)
  /\ UNCHANGED <<args, worklist, inert, level, solverLevel, call, solveVars,
                 inaccessible, limits, fate>>

-----------------------------------------------------------------------------
(* SolveWanteds.                                                           *)

StartSolving(kind) ==
  /\ Checking
  /\ call' = kind
  /\ inert' = Inert!Reset(inert)
  /\ residuals' = <<>> /\ resolutions' = {} /\ ambiguityCache' = {}
  /\ stopped' = FALSE
  /\ UNCHANGED <<soln, args, worklist, level, frames, inaccessible, limited, fate>>

\* The checker resolves what it has emitted, at any depth.
ResolveDeferred(kind) ==
  /\ kind \in {"resolve", "deferrable"} /\ StartSolving(kind)
  /\ UNCHANGED solverLevel

\* The body of a scoped branch is checked: touchability is enforced from here.
BodyChecked ==
  /\ frames # <<>> /\ Last(frames).scoped /\ StartSolving("local")
  /\ solverLevel' = level

Running   == call # "idle" /\ ~stopped
Pop(kind) == Running /\ worklist # <<>> /\ Kind[Head(worklist)] = kind
Popped    == [State EXCEPT !.worklist = Tail(@)]

Step(st) == Becomes(st) /\ UNCHANGED <<scopeVars, call, limits>>

Current == Head(worklist)
CurrentArgs == zonkAll(soln, args[Current])

ProcessClass == Pop("class") /\ Step(processCtPlainClass(Popped, Current, CurrentArgs))
ProcessEq    == Pop("eq")    /\ Step(processCtEq(Popped, Current, CurrentArgs))
ProcessGiven == Pop("given") /\ Step(processGivenEq(Popped, Current, CurrentArgs))
ProcessFunEq == Pop("fun")   /\ Step(processCtFunEq(Popped, Current, CurrentArgs))

\* The step limit, or a cancelled context, ends the loop and drops the
\* constraint in hand.
StepLimit ==
  /\ Running /\ worklist # <<>>
  /\ stopped' = TRUE /\ limited' = TRUE
  /\ Becomes([Popped EXCEPT !.fate[Head(worklist)] = "reported"])
  /\ UNCHANGED <<scopeVars, call>>

\* Class constraints still in the inert set are discharged unless deferred.
Discharged(st, ct) ==
  CASE st.ok -> [st EXCEPT !.residuals = Append(@, ct)]
    [] ~st.ok /\ ct \in st.resolutions -> st
    [] OTHER -> resolveCtPlainClassKeyed(st, ct, st.args[ct])

DischargeInert(st, ct) == Discharged(shouldDefer(st, zonkAll(st.soln, st.args[ct])), ct)

\* Residuals are tried once more with what is known at the end.
RetryZonked(st, ct, ts) ==
  DeferOrResolve(shouldDefer([st EXCEPT !.args[ct] = ts], ts), ct, ts)
RetryResidual(st, ct) == RetryZonked(st, ct, zonkAll(st.soln, st.args[ct]))

Retried(st, cts) ==
  LET retry[i \in 0..Len(cts)] ==
        IF i = 0 THEN [st EXCEPT !.residuals = <<>>] ELSE RetryResidual(retry[i - 1], cts[i])
  IN  [retry[Len(cts)] EXCEPT !.inert = Inert!Reset(@)]
RetriedAfter(st) == Retried(st, st.residuals)

\* The end of SolveWanteds, once its loop has stopped.
Collected ==
  LET disc[i \in 0..Len(inert.classMap)] ==
        IF i = 0 THEN State ELSE DischargeInert(disc[i - 1], inert.classMap[i])
  IN  RetriedAfter(disc[Len(inert.classMap)])

LoopDone == call # "idle" /\ (worklist = <<>> \/ stopped)

Settle(st, S, f) ==
  [st EXCEPT !.fate = [c \in Cts |-> IF c \in S THEN f ELSE @[c]],
             !.residuals = <<>>]

FinishResolve ==
  /\ LoopDone /\ call = "resolve"
  /\ Becomes(Collected)
  /\ call' = "idle"
  /\ UNCHANGED <<scopeVars, limits>>

\* Residuals are generalised over, or go back on the worklist.
Deferrable(st, lift) ==
  IF lift THEN Settle(st, ToSet(st.residuals), "lifted")
  ELSE [Settle(st, {}, "pending") EXCEPT !.worklist = @ \o st.residuals]

FinishDeferrable(lift) ==
  /\ LoopDone /\ call = "deferrable"
  /\ Becomes(Deferrable(Collected, lift))
  /\ call' = "idle"
  /\ UNCHANGED <<scopeVars, limits>>

\* Residuals that mention a metavariable of this scope or an existential of the
\* branch are errors, the others float out: the worklist becomes the saved one
\* followed by them.
IsLocal(t) == (t \in Metas /\ Birth[t] >= level) \/ t \in Locals[Last(frames).given]
MentionsLocal(st, ct) == \E t \in ToSet(zonkAll(st.soln, st.args[ct])) : IsLocal(t)

\* Variant: what floats out is forgotten.
RestoredWithoutFloat(saved, floatable) == saved

Restored(saved, floatable) == saved \o floatable

LocalDone(st, local) ==
  [Settle(st, local, "reported") EXCEPT
    !.worklist = Restored(Last(frames).saved,
                          Inert!Keep(st.residuals, Cts \ local)),
    !.inert = Inert!LeaveScope(@),
    !.soln = WithoutGiven(@, Last(frames))]
LeaveLocal(st) == LocalDone(st, {c \in ToSet(st.residuals) : MentionsLocal(st, c)})

FinishLocal ==
  /\ LoopDone /\ call = "local"
  /\ Becomes(LeaveLocal(Collected))
  /\ frames' = Front(frames) /\ level' = level - 1 /\ solverLevel' = -1
  /\ call' = "idle"
  /\ UNCHANGED limits

-----------------------------------------------------------------------------
Check ==
  \/ \E c \in Cts : \/ Emit(c) \/ RegisterStuckFunEq(c)
                    \/ \E scoped \in BOOLEAN : EnterBranch(c, scoped)
  \/ \E m \in Metas, t \in EagerTypes : EagerUnify(m, t)
  \/ LeavePlainBranch
  \/ \E kind \in {"resolve", "deferrable"} : ResolveDeferred(kind)
  \/ BodyChecked

Solve ==
  \/ ProcessClass \/ ProcessEq \/ ProcessGiven \/ ProcessFunEq
  \/ FinishResolve \/ FinishLocal
  \/ \E lift \in BOOLEAN : FinishDeferrable(lift)

Next == Check \/ Solve \/ StepLimit

Spec == Init /\ [][Next]_vars

\* SolveWanteds is a loop: nothing keeps it from its next iteration. The
\* checker owes nothing, and the step limit may never be reached. Solve is
\* enabled in every state of a call, so this is WF_vars(Solve) without the
\* ENABLED that TLC would evaluate in each state.
FairSpec == Spec /\ ([]<>(call = "idle") \/ []<><<Solve>>_vars)

-----------------------------------------------------------------------------
(* Properties.                                                             *)

Saved == UNION {ToSet(frames[i].saved) : i \in DOMAIN frames}
Held  == ToSet(worklist) \cup Saved \cup ToSet(residuals) \cup Inert!Members(inert)

\* A stuck equality or family equation of the inert set waits for a
\* metavariable that is still unsolved, under every index entry: whenever the
\* unifier solves one, inside a trial too, Reactivate has taken it out.
StuckAreBlocked ==
  \A m \in Metas :
    soln[m] # None =>
      \A c \in ToSet(inert.metaIndex[m]) : Kind[c] \notin {"fun", "eq"}

\* A constraint is queued once or is inert, never both: kick-out takes it out
\* of every bucket before it goes back on the worklist. A nested equality is
\* queued once for each of its copies in the bucket (NestedOnce).
ActiveXorInert ==
  /\ ToSet(worklist) \cap Inert!Members(inert) \subseteq Nested
  /\ \A i, j \in DOMAIN worklist : worklist[i] = worklist[j] => i = j \/ worklist[i] \in Nested

\* Every inert constraint is listed under the depth it is tagged with, which is
\* a depth still open: the Reset or LeaveScope that owns it will find it. They
\* leave copies of a nested equality behind.
ScopeOwnership ==
  \A c \in Inert!Members(inert) \ Nested :
    /\ inert.ctScope[c] \in 0..inert.scopeDepth
    /\ c \in inert.scopeCts[inert.ctScope[c]]

\* A class constraint the checker has emitted is held somewhere until it is
\* resolved, reported or generalised over, whatever scopes, kick-outs, failed
\* trials and resets come between.
ClassesNeverLost ==
  ~limited => \A c \in Cts : Kind[c] = "class" /\ fate[c] = "pending" => c \in Held

\* One call of SolveWanteds never returns a constraint both as resolved and as
\* a residual: its placeholder would be substituted and abstracted over.
ResolvedXorResidual == ToSet(residuals) \cap resolutions = {}

\* Every constraint but a nested equality is in one place: queued once or inert,
\* resolved or residual, through kick-outs, trials, branches and resets
\* (solver.go, inert.go).
HeldOnce == TypeOK /\ ActiveXorInert /\ ResolvedXorResidual

\* OutsideIn touchability: no step of a call that solves the wanteds of a branch,
\* the one that ends it included, changes the solution of a metavariable that
\* was created outside the branch.
OuterMetasUntouched ==
  [][call = "local" =>
       \A m \in Metas : Birth[m] < level => soln'[m] = soln[m]]_vars

\* SolveWanteds ends by itself: kick-outs of a failed trial wake constraints
\* that fail the same way, and the resolution cache breaks the cycle.
SolveTerminates == call # "idle" ~> call = "idle"

-----------------------------------------------------------------------------
(* What a comment of the code says and the code does not do.               *)

\* "Remove GADT given equalities scoped to this branch": a skolem is refined
\* only while a branch that refines it is being checked.
GivensScoped ==
  \A s \in Skolems :
    soln[s] # None => \E i \in DOMAIN frames : args[frames[i].given][1] = s

\* "Remove from other meta index buckets (via reverse map) to prevent duplicate
\* re-processing": no constraint is queued twice, or queued and indexed. KickOut
\* returns both copies that a nested equality has in the bucket of its
\* metavariable, and processing the second finds the first indexed again.
NestedOnce ==
  /\ ToSet(worklist) \cap Inert!Members(inert) = {}
  /\ \A i, j \in DOMAIN worklist : worklist[i] = worklist[j] => i = j

=============================================================================
