------------------------------- MODULE Engine -------------------------------
(***************************************************************************)
(* Engines of app/engine that share compilation caches. An Engine belongs  *)
(* to one goroutine; its host configures it, registers modules and asks    *)
(* for runtimes. Compiled modules and assembled runtimes go to a           *)
(* CacheStore, which any number of engines use at once, under a key made   *)
(* of the source and of a fingerprint of the engine. The engine memoizes   *)
(* its two fingerprints and every setter invalidates the ones it touches.  *)
(*                                                                         *)
(* A hash is taken to be injective: a fingerprint is the value hashed. The *)
(* Core module, which NewEngine registers from one source in every engine, *)
(* is left out. A source is a name: what its compilation depends on is     *)
(* given by the constants.                                                 *)
(***************************************************************************)
EXTENDS Integers, Sequences, FiniteSets

CONSTANTS
  Engines, None,
  Stores, Cap,         \* cache stores, and the capacity of each map (0: unlimited)
  Names,               \* valid module names
  Sources, Mains,      \* texts registered as modules, texts of programs
  NamesOf,             \* NamesOf[s]: the names hosts register source s under
  Imports,             \* Imports[s]: the names s imports
  NeedsRec,            \* texts that use rec or fix
  NeedsHost,           \* texts that refer to a host binding
  UsesAssumption,      \* texts with an assumption declaration
  Decls,               \* what hosts declare: bindings, assumptions, types
  PrimNames, Impls,    \* primitives and their implementations
  Code,                \* Code[i]: the function pointer of implementation i
  PrimKeys, Key,       \* Key[i]: the key that RegisterPrimWithKey is given with i
  Paths, Entries,      \* paths of module files, entry points set by hosts
  CompilerLimits,      \* limits with a setter that are part of both keys
  RuntimeLimits,       \* limits with a setter that are part of the runtime key
  Limits,              \* values given to a setter
  MaxOps,              \* bound: configuring calls and resets, over all engines
  MaxMods, MaxRts      \* bounds: objects allocated

Texts == Sources \cup Mains

ASSUME TextsAssumption ==
  /\ Sources \cap Mains = {}
  /\ NamesOf \in [Sources -> SUBSET Names]
  /\ Imports \in [Texts -> SUBSET Names]
  /\ NeedsRec \subseteq Texts /\ NeedsHost \subseteq Texts /\ UsesAssumption \subseteq Texts
ASSUME HostAssumption ==
  /\ Key \in [Impls -> PrimKeys] /\ \A i, j \in Impls : Key[i] = Key[j] => i = j
  /\ None \notin Impls \cup PrimKeys \cup Paths \cup Names \cup Texts
ASSUME BoundsAssumption ==
  Cap \in Nat /\ MaxOps \in Nat /\ MaxMods \in Nat /\ MaxRts \in Nat

VARIABLES
  host,            \* HostEnv without the primitives
  prims, primKeys, primSeq,
  order,           \* ModuleStore: the registered modules in order, [name, mod]
  recursion,       \* ModuleStore.recursion
  compilerLimits, runtimeLimits, pipelineFlags,
  cacheStore,      \* the CacheStore of each engine
  moduleEnvFp, runtimeFp,  \* memoized fingerprints; None when invalid
  call,            \* the registration or compilation an engine is in
  modules, runtimes,       \* the two maps of each CacheStore
  mods, rts,       \* *compiledModule and *Runtime objects allocated so far
  ops

hostVars  == <<host, prims, primKeys, primSeq>>
storeVars == <<order, recursion>>
limitVars == <<compilerLimits, runtimeLimits, pipelineFlags, cacheStore>>
fpVars    == <<moduleEnvFp, runtimeFp>>
cacheVars == <<modules, runtimes, mods, rts>>
vars == <<hostVars, storeVars, limitVars, fpVars, call, cacheVars, ops>>

Flags == [entryPoint : Entries \cup {"main"}, denyAssumptions : BOOLEAN, noInline : BOOLEAN,
          verifyIR : BOOLEAN]
HostEnvs == [bindings : SUBSET Decls, assumptions : SUBSET Decls,
             registeredTys : SUBSET Decls, gatedBuiltins : BOOLEAN, rewriteRules : BOOLEAN]

Idle == [op |-> "idle", src |-> None, name |-> None, rec |-> FALSE, saved |-> FALSE,
         path |-> None]

Init ==
  /\ host = [e \in Engines |->
       [bindings |-> {}, assumptions |-> {}, registeredTys |-> {},
        gatedBuiltins |-> FALSE, rewriteRules |-> FALSE]]
  /\ prims = [e \in Engines |-> [p \in PrimNames |-> None]]
  /\ primKeys = [e \in Engines |-> [p \in PrimNames |-> None]]
  /\ primSeq = [e \in Engines |-> 0]
  /\ order = [e \in Engines |-> <<>>]
  /\ recursion = [e \in Engines |-> FALSE]
  /\ compilerLimits = [e \in Engines |-> [l \in CompilerLimits |-> 0]]
  /\ runtimeLimits = [e \in Engines |-> [l \in RuntimeLimits |-> 0]]
  /\ pipelineFlags = [e \in Engines |->
       [entryPoint |-> "main", denyAssumptions |-> FALSE, noInline |-> FALSE,
        verifyIR |-> FALSE]]
  /\ cacheStore \in {[e \in Engines |-> st] : st \in Stores}
  /\ moduleEnvFp = [e \in Engines |-> None] /\ runtimeFp = [e \in Engines |-> None]
  /\ call = [e \in Engines |-> Idle]
  /\ modules = [st \in Stores |-> {}] /\ runtimes = [st \in Stores |-> {}]
  /\ mods = <<>> /\ rts = <<>> /\ ops = 0

-----------------------------------------------------------------------------
(* Fingerprints.                                                           *)

NameSource(entry) == <<entry.name, mods[entry.mod].src>>

StoreSources(e) == {NameSource(order[e][i]) : i \in DOMAIN order[e]}

\* The module part: what a module's compilation may depend on. The modules
\* are written in sorted order, each as its name and the hash of its source.
writeModuleEnvSection(e) ==
  [registeredTys |-> host[e].registeredTys, assumptions |-> host[e].assumptions,
   bindings |-> host[e].bindings, gatedBuiltins |-> host[e].gatedBuiltins,
   modules |-> StoreSources(e), limits |-> compilerLimits[e]]

\* A primitive is its key if it was registered with one, else its pointer.
PrimIdentity(e) ==
  [p \in {q \in PrimNames : prims[e][q] # None} |->
     IF primKeys[e][p] # None THEN <<"k", primKeys[e][p]>> ELSE <<"p", Code[prims[e][p]]>>]

\* Mutant: the limits are not part of the key.
RuntimeSectionWithoutLimits(e) ==
  [recursion |-> recursion[e], flags |-> pipelineFlags[e], prims |-> PrimIdentity(e),
   primSeq |-> primSeq[e]]

writeRuntimeSpecificSection(e) ==
  [limits |-> runtimeLimits[e], recursion |-> recursion[e], flags |-> pipelineFlags[e],
   prims |-> PrimIdentity(e), primSeq |-> primSeq[e]]

moduleEnvFingerprint(e) ==
  IF moduleEnvFp[e] # None THEN moduleEnvFp[e] ELSE writeModuleEnvSection(e)

runtimeFingerprint(e) ==
  IF runtimeFp[e] # None THEN runtimeFp[e]
  ELSE [env |-> moduleEnvFingerprint(e), own |-> writeRuntimeSpecificSection(e)]

computeModuleCacheKey(e, src)  == [src |-> src, fp |-> moduleEnvFingerprint(e)]
computeRuntimeCacheKey(e, src) == [src |-> src, fp |-> runtimeFingerprint(e)]

\* Every entry point into the pipeline computes both fingerprints.
pipeline(e) ==
  /\ moduleEnvFp' = [moduleEnvFp EXCEPT ![e] = moduleEnvFingerprint(e)]
  /\ runtimeFp' = [runtimeFp EXCEPT ![e] = runtimeFingerprint(e)]

invalidateRuntimeFingerprint(e) ==
  /\ runtimeFp' = [runtimeFp EXCEPT ![e] = None]
  /\ UNCHANGED moduleEnvFp

invalidateFingerprints(e) ==
  /\ moduleEnvFp' = [moduleEnvFp EXCEPT ![e] = None]
  /\ runtimeFp' = [runtimeFp EXCEPT ![e] = None]

-----------------------------------------------------------------------------
(* The configuring calls.                                                  *)

Configuring(e) ==
  /\ call[e] = Idle /\ ops < MaxOps /\ ops' = ops + 1
  /\ UNCHANGED <<storeVars, call, cacheVars>>

DeclareBinding(e, d) ==
  /\ Configuring(e)
  /\ host' = [host EXCEPT ![e].bindings = @ \cup {d}]
  /\ invalidateFingerprints(e)
  /\ UNCHANGED <<prims, primKeys, primSeq, limitVars>>

DeclareAssumption(e, d) ==
  /\ Configuring(e)
  /\ host' = [host EXCEPT ![e].assumptions = @ \cup {d}]
  /\ invalidateFingerprints(e)
  /\ UNCHANGED <<prims, primKeys, primSeq, limitVars>>

RegisterType(e, d) ==
  /\ Configuring(e)
  /\ host' = [host EXCEPT ![e].registeredTys = @ \cup {d}]
  /\ invalidateFingerprints(e)
  /\ UNCHANGED <<prims, primKeys, primSeq, limitVars>>

EnableRecursion(e) ==
  /\ Configuring(e)
  /\ host' = [host EXCEPT ![e].gatedBuiltins = TRUE]
  /\ invalidateFingerprints(e)
  /\ UNCHANGED <<prims, primKeys, primSeq, limitVars>>

\* Rewrite rules are not part of any key.
RegisterRewriteRule(e) ==
  /\ Configuring(e)
  /\ host' = [host EXCEPT ![e].rewriteRules = TRUE]
  /\ UNCHANGED <<prims, primKeys, primSeq, limitVars, fpVars>>

\* The key of an earlier RegisterPrimWithKey for the same name stays.
RegisterPrim(e, p, i) ==
  /\ Configuring(e)
  /\ prims' = [prims EXCEPT ![e][p] = i]
  /\ primSeq' = [primSeq EXCEPT ![e] = @ + 1]
  /\ invalidateRuntimeFingerprint(e)
  /\ UNCHANGED <<host, primKeys, limitVars>>

RegisterPrimWithKey(e, p, i) ==
  /\ Configuring(e)
  /\ prims' = [prims EXCEPT ![e][p] = i]
  /\ primKeys' = [primKeys EXCEPT ![e][p] = Key[i]]
  /\ primSeq' = [primSeq EXCEPT ![e] = @ + 1]
  /\ invalidateRuntimeFingerprint(e)
  /\ UNCHANGED <<host, limitVars>>

\* Mutant: a compiler limit taken for a runtime limit.
SetCompilerLimitLate(e, l, n) ==
  /\ Configuring(e)
  /\ compilerLimits' = [compilerLimits EXCEPT ![e][l] = n]
  /\ invalidateRuntimeFingerprint(e)
  /\ UNCHANGED <<hostVars, runtimeLimits, pipelineFlags, cacheStore>>

\* SetNestingLimit, SetMaxTFSteps, SetMaxSolverSteps and SetMaxResolveDepth.
SetCompilerLimit(e, l, n) ==
  /\ Configuring(e)
  /\ compilerLimits' = [compilerLimits EXCEPT ![e][l] = n]
  /\ invalidateFingerprints(e)
  /\ UNCHANGED <<hostVars, runtimeLimits, pipelineFlags, cacheStore>>

\* SetStepLimit, SetDepthLimit and SetAllocLimit.
SetRuntimeLimit(e, l, n) ==
  /\ Configuring(e)
  /\ runtimeLimits' = [runtimeLimits EXCEPT ![e][l] = n]
  /\ invalidateRuntimeFingerprint(e)
  /\ UNCHANGED <<hostVars, compilerLimits, pipelineFlags, cacheStore>>

SetFlags(e, flags) ==
  /\ Configuring(e)
  /\ pipelineFlags' = [pipelineFlags EXCEPT ![e] = flags]
  /\ invalidateRuntimeFingerprint(e)
  /\ UNCHANGED <<hostVars, compilerLimits, runtimeLimits, cacheStore>>

SetEntryPoint(e, n) == SetFlags(e, [pipelineFlags[e] EXCEPT !.entryPoint = n])
DenyAssumptions(e)  == SetFlags(e, [pipelineFlags[e] EXCEPT !.denyAssumptions = TRUE])
EnableVerifyIR(e)   == SetFlags(e, [pipelineFlags[e] EXCEPT !.verifyIR = TRUE])
DisableInlining(e)  == SetFlags(e, [pipelineFlags[e] EXCEPT !.noInline = TRUE])

SetCacheStore(e, st) ==
  /\ Configuring(e)
  /\ cacheStore' = [cacheStore EXCEPT ![e] = st]
  /\ UNCHANGED <<hostVars, compilerLimits, runtimeLimits, pipelineFlags, fpVars>>

-----------------------------------------------------------------------------
(* cache.Map: bounded, with a random victim when it is full, whether or    *)
(* not the key is new.                                                     *)

Get(c, key) == {x.obj : x \in {y \in c : y.key = key}}

Victims(c) == IF Cap > 0 /\ Cardinality(c) >= Cap THEN {{x} : x \in c} ELSE {{}}

Put(c, key, obj, gone) ==
  {x \in c \ gone : x.key # key} \cup {[key |-> key, obj |-> obj]}

ResetModule(st) ==
  /\ ops < MaxOps /\ ops' = ops + 1
  /\ modules' = [modules EXCEPT ![st] = {}]
  /\ UNCHANGED <<hostVars, storeVars, limitVars, fpVars, call, runtimes, mods, rts>>

ResetRuntime(st) ==
  /\ ops < MaxOps /\ ops' = ops + 1
  /\ runtimes' = [runtimes EXCEPT ![st] = {}]
  /\ UNCHANGED <<hostVars, storeVars, limitVars, fpVars, call, modules, mods, rts>>

-----------------------------------------------------------------------------
(* ModuleStore.                                                            *)

Registered(e) == {order[e][i].name : i \in DOMAIN order[e]}
Has(e, name)  == name \in Registered(e)

Module(e, name) ==
  mods[order[e][CHOOSE i \in DOMAIN order[e] : order[e][i].name = name].mod]

DepsOf(e, S) == UNION {Module(e, n).deps : n \in S \cap Registered(e)}

\* The names reachable from S through the imports of registered modules. The
\* operators in scope while a text is parsed are those of the reachable modules.
Reachable(e, S) ==
  LET r[k \in 0..Len(order[e])] ==
        IF k = 0 THEN S ELSE r[k - 1] \cup DepsOf(e, r[k - 1])
  IN  r[Len(order[e])]

\* The walk fails when it meets the module's own name or one already on its path.
CheckCircularDeps(e, name, deps) ==
  /\ name \notin Reachable(e, deps)
  /\ \A n \in Reachable(e, deps) \cap Registered(e) :
       n \notin Reachable(e, Module(e, n).deps)

\* Parsing and checking a text succeed: its imports are registered, the
\* builtins and host bindings it mentions are there.
Checks(e, src) ==
  /\ Imports[src] \subseteq Registered(e)
  /\ src \in NeedsRec => host[e].gatedBuiltins
  /\ src \in NeedsHost => host[e].bindings # {}

\* A compiledModule: name is the module its own references are qualified
\* with, sources the texts it was parsed and checked against, inlined whether
\* wrappers and dictionaries of other modules were inlined into its code; by
\* and env are the engine that compiled it and its environment then.
CompiledModule(e, name, src) ==
  [name |-> name, by |-> e, src |-> src, deps |-> Imports[src],
   sources |-> [n \in Reachable(e, Imports[src]) \cap Registered(e) |-> Module(e, n).src],
   inlined |-> ~pipelineFlags[e].noInline, filePath |-> None,
   env |-> writeModuleEnvSection(e)]

-----------------------------------------------------------------------------
(* Registering a module: a lookup in the shared cache, then, on a miss,    *)
(* the compilation. Other engines run in between.                          *)

Register(e, name, src, rec, path) ==
  /\ call[e] = Idle /\ ~Has(e, name)
  /\ call' = [call EXCEPT ![e] = [op |-> "lookup", src |-> src, name |-> name, rec |-> rec,
                                  saved |-> host[e].gatedBuiltins, path |-> path]]
  /\ UNCHANGED <<prims, primKeys, primSeq, storeVars, limitVars, cacheVars, ops>>

RegisterModule(e, name, src) ==
  Register(e, name, src, FALSE, None) /\ UNCHANGED <<host, fpVars>>

\* rec and fix are enabled for this registration only.
RegisterModuleRec(e, name, src) ==
  /\ Register(e, name, src, TRUE, None)
  /\ host' = [host EXCEPT ![e].gatedBuiltins = TRUE]
  /\ invalidateFingerprints(e)

RegisterModuleFile(e, name, src, path) ==
  Register(e, name, src, FALSE, path) /\ UNCHANGED <<host, fpVars>>

RestoreGates(e) ==
  host' = [host EXCEPT ![e].gatedBuiltins = IF call[e].rec THEN call[e].saved ELSE @]

\* Mutant: the module is put in front.
SucceedFirst(e, objs, m) ==
  /\ mods' = objs
  /\ order' = [order EXCEPT ![e] = <<[name |-> call[e].name, mod |-> m]>> \o @]
  /\ recursion' = [recursion EXCEPT ![e] = @ \/ call[e].rec]
  /\ RestoreGates(e) /\ invalidateFingerprints(e)
  /\ call' = [call EXCEPT ![e] = Idle]
  /\ UNCHANGED <<prims, primKeys, primSeq, limitVars, runtimes, rts, ops>>

\* Mutant: the module part of the fingerprint survives a registration.
SucceedStale(e, objs, m) ==
  /\ mods' = IF call[e].path = None THEN objs
             ELSE [objs EXCEPT ![m].filePath = call[e].path]
  /\ order' = [order EXCEPT ![e] = Append(@, [name |-> call[e].name, mod |-> m])]
  /\ recursion' = [recursion EXCEPT ![e] = @ \/ call[e].rec]
  /\ RestoreGates(e) /\ invalidateRuntimeFingerprint(e)
  /\ call' = [call EXCEPT ![e] = Idle]
  /\ UNCHANGED <<prims, primKeys, primSeq, limitVars, runtimes, rts, ops>>

\* RegisterModule returns without an error: objs is the heap with the module's
\* object m. A file's path is written into the object, which may be shared.
Succeed(e, objs, m) ==
  /\ mods' = IF call[e].path = None THEN objs
             ELSE [objs EXCEPT ![m].filePath = call[e].path]
  /\ order' = [order EXCEPT ![e] = Append(@, [name |-> call[e].name, mod |-> m])]
  /\ recursion' = [recursion EXCEPT ![e] = @ \/ call[e].rec]
  /\ RestoreGates(e) /\ invalidateFingerprints(e)
  /\ call' = [call EXCEPT ![e] = Idle]
  /\ UNCHANGED <<prims, primKeys, primSeq, limitVars, runtimes, rts, ops>>

\* RegisterModule fails; RegisterModuleRec invalidates again in any case.
Fail(e) ==
  /\ RestoreGates(e)
  /\ IF call[e].rec THEN invalidateFingerprints(e) ELSE UNCHANGED fpVars
  /\ call' = [call EXCEPT ![e] = Idle]
  /\ UNCHANGED <<prims, primKeys, primSeq, storeVars, limitVars, cacheVars, ops>>

LookupHit(e) ==
  /\ call[e].op = "lookup"
  /\ \E m \in Get(modules[cacheStore[e]], computeModuleCacheKey(e, call[e].src)) :
       Succeed(e, mods, m)
  /\ UNCHANGED modules

LookupMiss(e) ==
  /\ call[e].op = "lookup"
  /\ Get(modules[cacheStore[e]], computeModuleCacheKey(e, call[e].src)) = {}
  /\ pipeline(e)
  /\ call' = [call EXCEPT ![e].op = "compile"]
  /\ UNCHANGED <<hostVars, storeVars, limitVars, cacheVars, ops>>

Compiles(e) ==
  /\ CheckCircularDeps(e, call[e].name, Imports[call[e].src])
  /\ Checks(e, call[e].src)

\* Mutant: the key under which the module is stored has the gates that are
\* restored after RegisterModuleRec.
compileModuleRestored(e) ==
  /\ call[e].op = "compile" /\ Compiles(e) /\ Len(mods) < MaxMods
  /\ \E gone \in Victims(modules[cacheStore[e]]) :
       modules' = [modules EXCEPT ![cacheStore[e]] =
         Put(@, [src |-> call[e].src,
                 fp |-> [moduleEnvFingerprint(e) EXCEPT !.gatedBuiltins = call[e].saved]],
             Len(mods) + 1, gone)]
  /\ Succeed(e, Append(mods, CompiledModule(e, call[e].name, call[e].src)), Len(mods) + 1)

compileModule(e) ==
  /\ call[e].op = "compile" /\ Compiles(e) /\ Len(mods) < MaxMods
  /\ \E gone \in Victims(modules[cacheStore[e]]) :
       modules' = [modules EXCEPT ![cacheStore[e]] =
         Put(@, computeModuleCacheKey(e, call[e].src), Len(mods) + 1, gone)]
  /\ Succeed(e, Append(mods, CompiledModule(e, call[e].name, call[e].src)), Len(mods) + 1)

\* The text does not compile, or a limit or a cancelled context ends the checker.
CompileFails(e) == call[e].op = "compile" /\ Fail(e)

-----------------------------------------------------------------------------
(* Compiling a program.                                                    *)

\* Parse, Compile and Analyze leave nothing behind but the fingerprints.
Analyze(e) ==
  /\ call[e] = Idle /\ pipeline(e)
  /\ UNCHANGED <<hostVars, storeVars, limitVars, call, cacheVars, ops>>

\* A hit hands out the runtime found and changes nothing else.
NewRuntime(e, src) ==
  /\ call[e] = Idle /\ pipeline(e)
  /\ call' = IF Get(runtimes[cacheStore[e]], computeRuntimeCacheKey(e, src)) # {} THEN call
             ELSE [call EXCEPT ![e].op = "runtime", ![e].src = src]
  /\ UNCHANGED <<hostVars, storeVars, limitVars, cacheVars, ops>>

\* compileVar panics on a reference to a module that has no slots. If the name
\* is another text's, it panics or takes that text's slots.
Linked(e) == \A i \in DOMAIN order[e] : Has(e, mods[order[e][i].mod].name)

\* The Runtime, and the engine it was assembled in.
AssembledRuntime(e, src) ==
  [src |-> src, entries |-> order[e], prims |-> prims[e],
   gates |-> host[e].gatedBuiltins \/ recursion[e], bindings |-> host[e].bindings,
   limits |-> runtimeLimits[e], compilerLimits |-> compilerLimits[e],
   entryName |-> pipelineFlags[e].entryPoint,
   env |-> [env |-> writeModuleEnvSection(e), own |-> writeRuntimeSpecificSection(e)]]

MainCompiles(e) ==
  /\ Checks(e, call[e].src) /\ Linked(e)
  /\ call[e].src \in UsesAssumption => ~pipelineFlags[e].denyAssumptions

assembleRuntime(e) ==
  /\ call[e].op = "runtime" /\ MainCompiles(e) /\ Len(rts) < MaxRts
  /\ rts' = Append(rts, AssembledRuntime(e, call[e].src))
  /\ \E gone \in Victims(runtimes[cacheStore[e]]) :
       runtimes' = [runtimes EXCEPT ![cacheStore[e]] =
         Put(@, computeRuntimeCacheKey(e, call[e].src), Len(rts) + 1, gone)]
  /\ call' = [call EXCEPT ![e] = Idle]
  /\ UNCHANGED <<hostVars, storeVars, limitVars, fpVars, modules, mods, ops>>

\* The text does not compile, or a limit or a cancelled context ends the checker.
RuntimeFails(e) ==
  /\ call[e].op = "runtime"
  /\ call' = [call EXCEPT ![e] = Idle]
  /\ UNCHANGED <<hostVars, storeVars, limitVars, fpVars, cacheVars, ops>>

-----------------------------------------------------------------------------
ConfigureHost(e) ==
  \/ \E d \in Decls : DeclareBinding(e, d) \/ DeclareAssumption(e, d) \/ RegisterType(e, d)
  \/ EnableRecursion(e) \/ RegisterRewriteRule(e)
  \/ \E p \in PrimNames, i \in Impls :
       RegisterPrim(e, p, i) \/ RegisterPrimWithKey(e, p, i)

ConfigureLimits(e) ==
  \/ \E n \in Limits : \/ \E l \in CompilerLimits : SetCompilerLimit(e, l, n)
                       \/ \E l \in RuntimeLimits : SetRuntimeLimit(e, l, n)
  \/ \E n \in Entries : SetEntryPoint(e, n)
  \/ DenyAssumptions(e) \/ EnableVerifyIR(e) \/ DisableInlining(e)
  \/ \E st \in Stores : SetCacheStore(e, st)

CompileModules(e) ==
  \/ \E src \in Sources : \E name \in NamesOf[src] :
       \/ RegisterModule(e, name, src) \/ RegisterModuleRec(e, name, src)
       \/ \E path \in Paths : RegisterModuleFile(e, name, src, path)
  \/ LookupHit(e) \/ LookupMiss(e) \/ compileModule(e) \/ CompileFails(e)

CompilePrograms(e) ==
  \/ Analyze(e) \/ \E src \in Mains : NewRuntime(e, src)
  \/ assembleRuntime(e) \/ RuntimeFails(e)

Next ==
  \/ \E e \in Engines : \/ ConfigureHost(e) \/ ConfigureLimits(e)
                        \/ CompileModules(e) \/ CompilePrograms(e)
  \/ \E st \in Stores : ResetModule(st) \/ ResetRuntime(st)

Spec == Init /\ [][Next]_vars

-----------------------------------------------------------------------------
(* Properties.                                                             *)

HostOK ==
  /\ host \in [Engines -> HostEnvs]
  /\ prims \in [Engines -> [PrimNames -> Impls \cup {None}]]
  /\ primKeys \in [Engines -> [PrimNames -> PrimKeys \cup {None}]]
  /\ primSeq \in [Engines -> Nat]

LimitsOK ==
  /\ compilerLimits \in [Engines -> [CompilerLimits -> Limits \cup {0}]]
  /\ runtimeLimits \in [Engines -> [RuntimeLimits -> Limits \cup {0}]]
  /\ pipelineFlags \in [Engines -> Flags]
  /\ cacheStore \in [Engines -> Stores]

StoreOK ==
  /\ order \in [Engines -> Seq([name : Names, mod : 1..Len(mods)])]
  /\ recursion \in [Engines -> BOOLEAN]

CallOK ==
  call \in [Engines -> [op : {"idle", "lookup", "compile", "runtime"},
                        src : Texts \cup {None}, name : Names \cup {None},
                        rec : BOOLEAN, saved : BOOLEAN, path : Paths \cup {None}]]

CachesOK ==
  \A st \in Stores : /\ \A c \in modules[st] : c.obj \in 1..Len(mods)
                     /\ \A c \in runtimes[st] : c.obj \in 1..Len(rts)

TypeOK == HostOK /\ LimitsOK /\ StoreOK /\ CallOK /\ CachesOK /\ ops \in 0..MaxOps

\* A memoized fingerprint is the one that would be computed now: every setter,
\* registration and restored gate has invalidated what it changed.
FingerprintsFresh ==
  \A e \in Engines :
    /\ moduleEnvFp[e] # None => moduleEnvFp[e] = writeModuleEnvSection(e)
    /\ runtimeFp[e] # None =>
         runtimeFp[e] = [env |-> writeModuleEnvSection(e),
                         own |-> writeRuntimeSpecificSection(e)]

\* An object of a cache was made from the text and in the environment that
\* its key names, although its engine looked the key up before compiling.
CacheSound ==
  \A st \in Stores :
    /\ \A c \in modules[st] : c.key = [src |-> mods[c.obj].src, fp |-> mods[c.obj].env]
    /\ \A c \in runtimes[st] : c.key = [src |-> rts[c.obj].src, fp |-> rts[c.obj].env]

\* The code of a registered module, which another engine may have compiled,
\* was parsed and checked against the texts this engine has registered for
\* the same names, all of them before the module.
ModulesLinked ==
  \A e \in Engines : \A i \in DOMAIN order[e] :
    LET m == mods[order[e][i].mod] IN
    \A n \in DOMAIN m.sources :
      \E j \in 1..(i - 1) : NameSource(order[e][j]) = <<n, m.sources[n]>>

EntrySources(rt) == {NameSource(rt.entries[i]) : i \in DOMAIN rt.entries}

\* A runtime that NewRuntime would find in the cache now is the one it would
\* assemble: same text, modules, gates, bindings, limits and entry point, and
\* the same primitives unless they are closures of one function (limitation L1)
\* or were registered without a key over one that had a key.
RuntimesFit ==
  \A e \in Engines, src \in Mains :
    \A r \in Get(runtimes[cacheStore[e]], computeRuntimeCacheKey(e, src)) :
      LET found == rts[r]
          fresh == AssembledRuntime(e, src)
      IN  /\ \A f \in {"src", "gates", "bindings", "limits", "compilerLimits", "entryName"} :
               found[f] = fresh[f]
          /\ EntrySources(found) = EntrySources(fresh)
          /\ \A p \in PrimNames :
               \/ found.prims[p] = fresh.prims[p]
               \/ /\ found.prims[p] # None /\ fresh.prims[p] # None
                  /\ IF primKeys[e][p] = None
                     THEN Code[found.prims[p]] = Code[fresh.prims[p]]
                     ELSE primKeys[e][p] # Key[found.prims[p]]
                          \/ primKeys[e][p] # Key[fresh.prims[p]]

\* An engine has the modules it compiled itself under the one name that their
\* references to themselves carry, whatever names a text is given: it never
\* finds its own module in the cache under another name, since registering the
\* module changed its key. Only a module of another engine can be one that
\* compileVar does not resolve (~Linked).
OwnNamesKept ==
  \A o \in DOMAIN mods :
    LET own == order[mods[o].by]
    IN  {own[i].name : i \in {j \in DOMAIN own : own[j].mod = o}} = {mods[o].name}
=============================================================================
