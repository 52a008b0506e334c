---------------------------- MODULE EngineProofs ----------------------------
(***************************************************************************)
(* Proofs about Engine, and about EngineRuns below, for any engines,       *)
(* stores, capacities, texts, limits, runs, host values and bounds: what   *)
(* an engine takes from a shared cache is what it would have made itself,  *)
(* and a run reads its own globals.                                        *)
(*                                                                         *)
(* The argument for the engines has three parts. A memoized fingerprint is *)
(* the current one (FingerprintsFresh), so keys name the text and the      *)
(* environment of what is stored under them (CacheSound). Objects carry    *)
(* what their environment implies (ModuleFits, RuntimeFits) and their text *)
(* never changes, so equal keys imply equal contents.                      *)
(***************************************************************************)
EXTENDS EngineRuns, TLAPS

IsSeq(s) == \E S : s \in Seq(S)

\* What a compiled module owes to its text and environment.
ModuleFits(m) ==
  /\ {"name", "by", "src", "sources", "filePath", "env"} \subseteq DOMAIN m
  /\ m.by \in Engines
  /\ m.src \in Sources /\ m.name \in NamesOf[m.src]
  /\ \A n \in DOMAIN m.sources : <<n, m.sources[n]>> \in m.env.modules

\* What a runtime owes to the engine it was assembled in.
RuntimeFits(r) ==
  /\ r.gates = (r.env.env.gatedBuiltins \/ r.env.own.recursion)
  /\ r.bindings = r.env.env.bindings
  /\ r.limits = r.env.own.limits
  /\ r.compilerLimits = r.env.env.limits
  /\ r.entryName = r.env.own.flags.entryPoint
  /\ r.entries \in Seq([name : Names, mod : 1..Len(mods)])
  /\ EntrySources(r) = r.env.env.modules
  /\ r.prims \in [PrimNames -> Impls \cup {None}]
  /\ DOMAIN r.env.own.prims = {p \in PrimNames : r.prims[p] # None}
  /\ \A p \in DOMAIN r.env.own.prims :
       \/ \E k \in PrimKeys : r.env.own.prims[p] = <<"k", k>>
       \/ r.env.own.prims[p] = <<"p", Code[r.prims[p]]>>

Heap ==
  /\ IsSeq(mods) /\ IsSeq(rts)
  /\ modules = [st \in Stores |-> modules[st]]
  /\ runtimes = [st \in Stores |-> runtimes[st]]
  /\ \A i \in 1..Len(mods) : ModuleFits(mods[i])
  /\ \A i \in 1..Len(rts) : RuntimeFits(rts[i])

Calls ==
  \A e \in Engines : call[e].op \in {"lookup", "compile"} =>
    call[e].src \in Sources /\ call[e].name \in NamesOf[call[e].src]

StoreNames ==
  \A e \in Engines : \A i \in DOMAIN order[e] :
    order[e][i].name \in NamesOf[mods[order[e][i].mod].src]

Memos ==
  /\ moduleEnvFp = [e \in Engines |-> moduleEnvFp[e]]
  /\ runtimeFp = [e \in Engines |-> runtimeFp[e]]

Contents == Heap /\ Calls /\ StoreNames /\ CacheSound /\ ModulesLinked

IInv == TypeOK /\ Memos /\ FingerprintsFresh /\ Contents

-----------------------------------------------------------------------------
(* Sequences whose elements have no common type.                           *)

\* Appending to a sequence adds one element at its end and keeps the others.
LEMMA AppendSeq ==
  ASSUME NEW s, IsSeq(s), NEW x
  PROVE  /\ IsSeq(Append(s, x)) /\ Len(s) \in Nat
         /\ Len(Append(s, x)) = Len(s) + 1
         /\ Append(s, x)[Len(s) + 1] = x
         /\ \A i \in 1..Len(s) : Append(s, x)[i] = s[i]
<1>1. PICK S : s \in Seq(S)
  BY DEF IsSeq
<1>2. s \in Seq(S \cup {x})
  BY <1>1
<1>3. Append(s, x) \in Seq(S \cup {x})
  BY <1>2
<1> QED BY <1>2, <1>3 DEF IsSeq

\* Replacing an element gives a sequence of the same length.
LEMMA ExceptSeq ==
  ASSUME NEW s, IsSeq(s), NEW m \in 1..Len(s), NEW x
  PROVE  /\ IsSeq([s EXCEPT ![m] = x]) /\ Len([s EXCEPT ![m] = x]) = Len(s)
         /\ [s EXCEPT ![m] = x][m] = x
         /\ \A i \in 1..Len(s) : i # m => [s EXCEPT ![m] = x][i] = s[i]
<1>1. PICK S : s \in Seq(S)
  BY DEF IsSeq
<1>2. s \in Seq(S \cup {x})
  BY <1>1
<1>3. [s EXCEPT ![m] = x] \in Seq(S \cup {x})
  BY <1>2
<1> QED BY <1>2, <1>3 DEF IsSeq

-----------------------------------------------------------------------------
(* Fingerprints.                                                           *)

\* Under FingerprintsFresh the memo makes no difference.
LEMMA FingerprintIsSection ==
  ASSUME FingerprintsFresh, NEW e \in Engines
  PROVE  /\ moduleEnvFingerprint(e) = writeModuleEnvSection(e)
         /\ runtimeFingerprint(e) = [env |-> writeModuleEnvSection(e),
                                     own |-> writeRuntimeSpecificSection(e)]
BY DEF FingerprintsFresh, moduleEnvFingerprint, runtimeFingerprint

\* The texts of a store stay when its modules and their texts do.
LEMMA SourcesFrame ==
  ASSUME NEW e, order'[e] = order[e],
         \A i \in DOMAIN order[e] : mods'[order[e][i].mod].src = mods[order[e][i].mod].src
  PROVE  StoreSources(e)' = StoreSources(e)
BY DEF StoreSources, NameSource

\* The module part of a fingerprint stays when what it is made of does.
LEMMA EnvFrame ==
  ASSUME NEW e, StoreSources(e)' = StoreSources(e), compilerLimits'[e] = compilerLimits[e],
         \A f \in {"registeredTys", "assumptions", "bindings", "gatedBuiltins"} :
           host'[e][f] = host[e][f]
  PROVE  writeModuleEnvSection(e)' = writeModuleEnvSection(e)
<1>1. /\ host'[e].registeredTys = host[e].registeredTys
      /\ host'[e].assumptions = host[e].assumptions
      /\ host'[e].bindings = host[e].bindings
      /\ host'[e].gatedBuiltins = host[e].gatedBuiltins
  OBVIOUS
<1> QED BY <1>1 DEF writeModuleEnvSection

\* The runtime part likewise.
LEMMA OwnFrame ==
  ASSUME NEW e, runtimeLimits'[e] = runtimeLimits[e], recursion'[e] = recursion[e],
         pipelineFlags'[e] = pipelineFlags[e], prims'[e] = prims[e],
         primKeys'[e] = primKeys[e], primSeq'[e] = primSeq[e]
  PROVE  writeRuntimeSpecificSection(e)' = writeRuntimeSpecificSection(e)
<1>1. PrimIdentity(e)' = PrimIdentity(e)
  BY DEF PrimIdentity
<1> QED BY <1>1 DEF writeRuntimeSpecificSection

\* Engine x keeps what the module part of its fingerprint is made of.
SameEnv(x) ==
  /\ StoreSources(x)' = StoreSources(x) /\ compilerLimits'[x] = compilerLimits[x]
  /\ \A f \in {"registeredTys", "assumptions", "bindings", "gatedBuiltins"} :
       host'[x][f] = host[x][f]

SameOwn(x) ==
  /\ runtimeLimits'[x] = runtimeLimits[x] /\ recursion'[x] = recursion[x]
  /\ pipelineFlags'[x] = pipelineFlags[x] /\ prims'[x] = prims[x]
  /\ primKeys'[x] = primKeys[x] /\ primSeq'[x] = primSeq[x]

\* A step that leaves the other engines alone, and of e what it does not
\* invalidate, keeps the memos fresh.
LEMMA FreshInvalidated ==
  ASSUME Memos, FingerprintsFresh, NEW e \in Engines,
         \A x \in Engines \ {e} : SameEnv(x) /\ SameOwn(x),
         \/ invalidateFingerprints(e)
         \/ invalidateRuntimeFingerprint(e) /\ SameEnv(e)
  PROVE  (Memos /\ FingerprintsFresh)'
<1>1. \A x \in Engines : SameEnv(x) => writeModuleEnvSection(x)' = writeModuleEnvSection(x)
  BY EnvFrame DEF SameEnv
<1>2. \A x \in Engines :
        SameOwn(x) => writeRuntimeSpecificSection(x)' = writeRuntimeSpecificSection(x)
  BY OwnFrame DEF SameOwn
<1>3. /\ Memos'
      /\ \A x \in Engines \ {e} : moduleEnvFp'[x] = moduleEnvFp[x] /\ runtimeFp'[x] = runtimeFp[x]
      /\ runtimeFp'[e] = None
      /\ moduleEnvFp'[e] = None \/ (moduleEnvFp'[e] = moduleEnvFp[e] /\ SameEnv(e))
  BY DEF Memos, invalidateFingerprints, invalidateRuntimeFingerprint
<1> QED BY <1>1, <1>2, <1>3 DEF FingerprintsFresh

\* A step that changes no part of a fingerprint keeps the memos fresh, whether
\* it leaves them or computes those of one engine.
LEMMA FreshSame ==
  ASSUME Memos, FingerprintsFresh, NEW e \in Engines,
         \A x \in Engines : SameEnv(x) /\ SameOwn(x),
         UNCHANGED fpVars \/ pipeline(e)
  PROVE  (Memos /\ FingerprintsFresh)'
<1>1. \A x \in Engines : writeModuleEnvSection(x)' = writeModuleEnvSection(x)
  BY EnvFrame DEF SameEnv
<1>2. \A x \in Engines : writeRuntimeSpecificSection(x)' = writeRuntimeSpecificSection(x)
  BY OwnFrame DEF SameOwn
<1>3. CASE UNCHANGED fpVars
  BY <1>1, <1>2, <1>3 DEF fpVars, Memos, FingerprintsFresh
<1>4. CASE pipeline(e)
  <2>1. /\ Memos'
        /\ \A x \in Engines \ {e} :
             moduleEnvFp'[x] = moduleEnvFp[x] /\ runtimeFp'[x] = runtimeFp[x]
        /\ moduleEnvFp'[e] = moduleEnvFingerprint(e)
        /\ runtimeFp'[e] = runtimeFingerprint(e)
    BY <1>4 DEF Memos, pipeline
  <2> QED BY <1>1, <1>2, <2>1, FingerprintIsSection DEF FingerprintsFresh
<1> QED BY <1>3, <1>4

-----------------------------------------------------------------------------
(* Steps that leave stores and caches alone.                               *)

\* Linkage depends on the stores and the modules only.
LEMMA LinkedFrame ==
  ASSUME ModulesLinked, order' = order, mods' = mods
  PROVE  ModulesLinked'
BY DEF ModulesLinked, NameSource

\* Contents do not depend on the call an engine is in, if its text and name are
\* those of a registration.
LEMMA CallFrame ==
  ASSUME Contents, UNCHANGED <<order, cacheVars>>, Calls'
  PROVE  Contents'
<1>1. /\ order' = order /\ modules' = modules /\ runtimes' = runtimes
      /\ mods' = mods /\ rts' = rts
  BY DEF cacheVars
<1>2. Heap'
  <2>1. \A i \in 1..Len(rts) : EntrySources(rts[i])' = EntrySources(rts[i])
    BY <1>1 DEF EntrySources, NameSource
  <2>2. \A i \in 1..Len(rts) : RuntimeFits(rts[i])'
    BY <1>1, <2>1, ZenonT(60) DEF Contents, Heap, RuntimeFits
  <2> QED BY <1>1, <2>2 DEF Contents, Heap, ModuleFits, IsSeq
<1>3. StoreNames' /\ CacheSound'
  BY <1>1 DEF Contents, StoreNames, CacheSound
<1>4. ModulesLinked'
  BY <1>1, LinkedFrame DEF Contents
<1> QED BY <1>2, <1>3, <1>4 DEF Contents

\* The contents of stores and caches do not depend on an engine's settings.
LEMMA ContentsFrame ==
  ASSUME Contents, UNCHANGED <<order, call, cacheVars>>
  PROVE  Contents'
<1>1. Calls'
  BY DEF Contents, Calls
<1> QED BY <1>1, CallFrame

\* The texts of every store, when no module changes.
LEMMA SourcesUnchanged ==
  ASSUME order' = order, mods' = mods
  PROVE  \A x \in Engines : StoreSources(x)' = StoreSources(x)
BY DEF StoreSources, NameSource

\* Calls that configure the host environment of an engine keep the invariant.
LEMMA ConfigureHostIInv ==
  ASSUME IInv, NEW e \in Engines, ConfigureHost(e)
  PROVE  IInv'
<1> USE DEF Configuring, storeVars, limitVars, fpVars
<1>1. ASSUME NEW d \in Decls, DeclareBinding(e, d)
      PROVE  IInv'
  <2>1. TypeOK'
    <3>1. HostOK'
      BY <1>1, HostAssumption, ZenonT(60) DEF IInv, TypeOK, HostOK, DeclareBinding, hostVars, HostEnvs
    <3>2. LimitsOK'
      BY <1>1 DEF IInv, TypeOK, LimitsOK, DeclareBinding
    <3>3. ops' \in 0..MaxOps
      BY <1>1, BoundsAssumption DEF IInv, TypeOK, DeclareBinding
    <3> QED BY <1>1, <3>1, <3>2, <3>3 DEF IInv, TypeOK, StoreOK, CallOK, CachesOK, DeclareBinding, cacheVars
  <2>2. UNCHANGED <<order, call, cacheVars>>
    BY <1>1 DEF DeclareBinding
  <2>3. \A x \in Engines \ {e} : SameEnv(x) /\ SameOwn(x)
    BY <1>1, <2>2, SourcesUnchanged DEF IInv, TypeOK, HostOK, LimitsOK, StoreOK, HostEnvs, DeclareBinding, cacheVars, hostVars,
       SameEnv, SameOwn
  <2>4. (Memos /\ FingerprintsFresh)'
    BY <1>1, <2>3, FreshInvalidated DEF IInv, DeclareBinding
  <2> QED BY <2>1, <2>2, <2>4, ContentsFrame DEF IInv
<1>2. ASSUME NEW d \in Decls, DeclareAssumption(e, d)
      PROVE  IInv'
  <2>1. TypeOK'
    <3>1. HostOK'
      BY <1>2, HostAssumption, ZenonT(60) DEF IInv, TypeOK, HostOK, DeclareAssumption, hostVars, HostEnvs
    <3>2. LimitsOK'
      BY <1>2 DEF IInv, TypeOK, LimitsOK, DeclareAssumption
    <3>3. ops' \in 0..MaxOps
      BY <1>2, BoundsAssumption DEF IInv, TypeOK, DeclareAssumption
    <3> QED BY <1>2, <3>1, <3>2, <3>3 DEF IInv, TypeOK, StoreOK, CallOK, CachesOK, DeclareAssumption, cacheVars
  <2>2. UNCHANGED <<order, call, cacheVars>>
    BY <1>2 DEF DeclareAssumption
  <2>3. \A x \in Engines \ {e} : SameEnv(x) /\ SameOwn(x)
    BY <1>2, <2>2, SourcesUnchanged DEF IInv, TypeOK, HostOK, LimitsOK, StoreOK, HostEnvs, DeclareAssumption, cacheVars, hostVars,
       SameEnv, SameOwn
  <2>4. (Memos /\ FingerprintsFresh)'
    BY <1>2, <2>3, FreshInvalidated DEF IInv, DeclareAssumption
  <2> QED BY <2>1, <2>2, <2>4, ContentsFrame DEF IInv
<1>3. ASSUME NEW d \in Decls, RegisterType(e, d)
      PROVE  IInv'
  <2>1. TypeOK'
    <3>1. HostOK'
      BY <1>3, HostAssumption, ZenonT(60) DEF IInv, TypeOK, HostOK, RegisterType, hostVars, HostEnvs
    <3>2. LimitsOK'
      BY <1>3 DEF IInv, TypeOK, LimitsOK, RegisterType
    <3>3. ops' \in 0..MaxOps
      BY <1>3, BoundsAssumption DEF IInv, TypeOK, RegisterType
    <3> QED BY <1>3, <3>1, <3>2, <3>3 DEF IInv, TypeOK, StoreOK, CallOK, CachesOK, RegisterType, cacheVars
  <2>2. UNCHANGED <<order, call, cacheVars>>
    BY <1>3 DEF RegisterType
  <2>3. \A x \in Engines \ {e} : SameEnv(x) /\ SameOwn(x)
    BY <1>3, <2>2, SourcesUnchanged DEF IInv, TypeOK, HostOK, LimitsOK, StoreOK, HostEnvs, RegisterType, cacheVars, hostVars,
       SameEnv, SameOwn
  <2>4. (Memos /\ FingerprintsFresh)'
    BY <1>3, <2>3, FreshInvalidated DEF IInv, RegisterType
  <2> QED BY <2>1, <2>2, <2>4, ContentsFrame DEF IInv
<1>4. ASSUME EnableRecursion(e)
      PROVE  IInv'
  <2>1. TypeOK'
    <3>1. HostOK'
      BY <1>4, HostAssumption, ZenonT(60) DEF IInv, TypeOK, HostOK, EnableRecursion, hostVars, HostEnvs
    <3>2. LimitsOK'
      BY <1>4 DEF IInv, TypeOK, LimitsOK, EnableRecursion
    <3>3. ops' \in 0..MaxOps
      BY <1>4, BoundsAssumption DEF IInv, TypeOK, EnableRecursion
    <3> QED BY <1>4, <3>1, <3>2, <3>3 DEF IInv, TypeOK, StoreOK, CallOK, CachesOK, EnableRecursion, cacheVars
  <2>2. UNCHANGED <<order, call, cacheVars>>
    BY <1>4 DEF EnableRecursion
  <2>3. \A x \in Engines \ {e} : SameEnv(x) /\ SameOwn(x)
    BY <1>4, <2>2, SourcesUnchanged DEF IInv, TypeOK, HostOK, LimitsOK, StoreOK, HostEnvs, EnableRecursion, cacheVars, hostVars,
       SameEnv, SameOwn
  <2>4. (Memos /\ FingerprintsFresh)'
    BY <1>4, <2>3, FreshInvalidated DEF IInv, EnableRecursion
  <2> QED BY <2>1, <2>2, <2>4, ContentsFrame DEF IInv
<1>5. ASSUME RegisterRewriteRule(e)
      PROVE  IInv'
  <2>1. TypeOK'
    <3>1. HostOK'
      BY <1>5, HostAssumption, ZenonT(60) DEF IInv, TypeOK, HostOK, RegisterRewriteRule, hostVars, HostEnvs
    <3>2. LimitsOK'
      BY <1>5 DEF IInv, TypeOK, LimitsOK, RegisterRewriteRule
    <3>3. ops' \in 0..MaxOps
      BY <1>5, BoundsAssumption DEF IInv, TypeOK, RegisterRewriteRule
    <3> QED BY <1>5, <3>1, <3>2, <3>3 DEF IInv, TypeOK, StoreOK, CallOK, CachesOK, RegisterRewriteRule, cacheVars
  <2>2. UNCHANGED <<order, call, cacheVars>>
    BY <1>5 DEF RegisterRewriteRule
  <2>3. \A x \in Engines : SameEnv(x) /\ SameOwn(x)
    BY <1>5, <2>2, SourcesUnchanged DEF IInv, TypeOK, HostOK, LimitsOK, StoreOK, HostEnvs, RegisterRewriteRule, cacheVars, hostVars,
       SameEnv, SameOwn
  <2>4. (Memos /\ FingerprintsFresh)'
    BY <1>5, <2>3, FreshSame DEF IInv, RegisterRewriteRule
  <2> QED BY <2>1, <2>2, <2>4, ContentsFrame DEF IInv
<1>6. ASSUME NEW p \in PrimNames, NEW i \in Impls, RegisterPrim(e, p, i)
      PROVE  IInv'
  <2>1. TypeOK'
    <3>1. HostOK'
      BY <1>6, HostAssumption DEF IInv, TypeOK, HostOK, RegisterPrim, hostVars, HostEnvs
    <3>2. LimitsOK'
      BY <1>6 DEF IInv, TypeOK, LimitsOK, RegisterPrim
    <3>3. ops' \in 0..MaxOps
      BY <1>6, BoundsAssumption DEF IInv, TypeOK, RegisterPrim
    <3> QED BY <1>6, <3>1, <3>2, <3>3 DEF IInv, TypeOK, StoreOK, CallOK, CachesOK, RegisterPrim, cacheVars
  <2>2. UNCHANGED <<order, call, cacheVars>>
    BY <1>6 DEF RegisterPrim
  <2>3. (\A x \in Engines \ {e} : SameOwn(x)) /\ \A x \in Engines : SameEnv(x)
    BY <1>6, <2>2, SourcesUnchanged DEF IInv, TypeOK, HostOK, LimitsOK, StoreOK, HostEnvs, RegisterPrim, cacheVars, hostVars,
       SameEnv, SameOwn
  <2>4. (Memos /\ FingerprintsFresh)'
    BY <1>6, <2>3, FreshInvalidated DEF IInv, RegisterPrim
  <2> QED BY <2>1, <2>2, <2>4, ContentsFrame DEF IInv
<1>7. ASSUME NEW p \in PrimNames, NEW i \in Impls, RegisterPrimWithKey(e, p, i)
      PROVE  IInv'
  <2>1. TypeOK'
    <3>1. HostOK'
      BY <1>7, HostAssumption DEF IInv, TypeOK, HostOK, RegisterPrimWithKey, hostVars, HostEnvs
    <3>2. LimitsOK'
      BY <1>7 DEF IInv, TypeOK, LimitsOK, RegisterPrimWithKey
    <3>3. ops' \in 0..MaxOps
      BY <1>7, BoundsAssumption DEF IInv, TypeOK, RegisterPrimWithKey
    <3> QED BY <1>7, <3>1, <3>2, <3>3 DEF IInv, TypeOK, StoreOK, CallOK, CachesOK, RegisterPrimWithKey, cacheVars
  <2>2. UNCHANGED <<order, call, cacheVars>>
    BY <1>7 DEF RegisterPrimWithKey
  <2>3. (\A x \in Engines \ {e} : SameOwn(x)) /\ \A x \in Engines : SameEnv(x)
    BY <1>7, <2>2, SourcesUnchanged DEF IInv, TypeOK, HostOK, LimitsOK, StoreOK, HostEnvs, RegisterPrimWithKey, cacheVars, hostVars,
       SameEnv, SameOwn
  <2>4. (Memos /\ FingerprintsFresh)'
    BY <1>7, <2>3, FreshInvalidated DEF IInv, RegisterPrimWithKey
  <2> QED BY <2>1, <2>2, <2>4, ContentsFrame DEF IInv
<1> QED
  BY <1>1, <1>2, <1>3, <1>4, <1>5, <1>6, <1>7 DEF ConfigureHost

\* Calls that set limits, flags or the cache store of an engine keep the invariant.
LEMMA ConfigureLimitsIInv ==
  ASSUME IInv, NEW e \in Engines, ConfigureLimits(e)
  PROVE  IInv'
<1> USE DEF Configuring, storeVars, limitVars, fpVars
<1>1. ASSUME NEW l \in CompilerLimits, NEW n \in Limits, SetCompilerLimit(e, l, n)
      PROVE  IInv'
  <2>1. TypeOK'
    <3>1. HostOK'
      BY <1>1, HostAssumption DEF IInv, TypeOK, HostOK, SetCompilerLimit, hostVars, HostEnvs
    <3>2. LimitsOK'
      BY <1>1 DEF IInv, TypeOK, LimitsOK, SetCompilerLimit
    <3>3. ops' \in 0..MaxOps
      BY <1>1, BoundsAssumption DEF IInv, TypeOK, SetCompilerLimit
    <3> QED BY <1>1, <3>1, <3>2, <3>3 DEF IInv, TypeOK, StoreOK, CallOK, CachesOK, SetCompilerLimit, cacheVars
  <2>2. UNCHANGED <<order, call, cacheVars>>
    BY <1>1 DEF SetCompilerLimit
  <2>3. \A x \in Engines \ {e} : SameEnv(x) /\ SameOwn(x)
    BY <1>1, <2>2, SourcesUnchanged DEF IInv, TypeOK, HostOK, LimitsOK, StoreOK, HostEnvs, SetCompilerLimit, cacheVars, hostVars,
       SameEnv, SameOwn
  <2>4. (Memos /\ FingerprintsFresh)'
    BY <1>1, <2>3, FreshInvalidated DEF IInv, SetCompilerLimit
  <2> QED BY <2>1, <2>2, <2>4, ContentsFrame DEF IInv
<1>2. ASSUME NEW l \in RuntimeLimits, NEW n \in Limits, SetRuntimeLimit(e, l, n)
      PROVE  IInv'
  <2>1. TypeOK'
    <3>1. HostOK'
      BY <1>2, HostAssumption DEF IInv, TypeOK, HostOK, SetRuntimeLimit, hostVars, HostEnvs
    <3>2. LimitsOK'
      BY <1>2 DEF IInv, TypeOK, LimitsOK, SetRuntimeLimit
    <3>3. ops' \in 0..MaxOps
      BY <1>2, BoundsAssumption DEF IInv, TypeOK, SetRuntimeLimit
    <3> QED BY <1>2, <3>1, <3>2, <3>3 DEF IInv, TypeOK, StoreOK, CallOK, CachesOK, SetRuntimeLimit, cacheVars
  <2>2. UNCHANGED <<order, call, cacheVars>>
    BY <1>2 DEF SetRuntimeLimit
  <2>3. (\A x \in Engines \ {e} : SameOwn(x)) /\ \A x \in Engines : SameEnv(x)
    BY <1>2, <2>2, SourcesUnchanged DEF IInv, TypeOK, HostOK, LimitsOK, StoreOK, HostEnvs, SetRuntimeLimit, cacheVars, hostVars,
       SameEnv, SameOwn
  <2>4. (Memos /\ FingerprintsFresh)'
    BY <1>2, <2>3, FreshInvalidated DEF IInv, SetRuntimeLimit
  <2> QED BY <2>1, <2>2, <2>4, ContentsFrame DEF IInv
<1>3. ASSUME NEW f \in Flags, SetFlags(e, f)
      PROVE  IInv'
  <2>1. TypeOK'
    <3>1. HostOK'
      BY <1>3, HostAssumption DEF IInv, TypeOK, HostOK, SetFlags, hostVars, HostEnvs
    <3>2. LimitsOK'
      BY <1>3 DEF IInv, TypeOK, LimitsOK, SetFlags
    <3>3. ops' \in 0..MaxOps
      BY <1>3, BoundsAssumption DEF IInv, TypeOK, SetFlags
    <3> QED BY <1>3, <3>1, <3>2, <3>3 DEF IInv, TypeOK, StoreOK, CallOK, CachesOK, SetFlags, cacheVars
  <2>2. UNCHANGED <<order, call, cacheVars>>
    BY <1>3 DEF SetFlags
  <2>3. (\A x \in Engines \ {e} : SameOwn(x)) /\ \A x \in Engines : SameEnv(x)
    BY <1>3, <2>2, SourcesUnchanged DEF IInv, TypeOK, HostOK, LimitsOK, StoreOK, HostEnvs, SetFlags, cacheVars, hostVars,
       SameEnv, SameOwn
  <2>4. (Memos /\ FingerprintsFresh)'
    BY <1>3, <2>3, FreshInvalidated DEF IInv, SetFlags
  <2> QED BY <2>1, <2>2, <2>4, ContentsFrame DEF IInv
<1>4. ASSUME NEW st \in Stores, SetCacheStore(e, st)
      PROVE  IInv'
  <2>1. TypeOK'
    <3>1. HostOK'
      BY <1>4, HostAssumption DEF IInv, TypeOK, HostOK, SetCacheStore, hostVars, HostEnvs
    <3>2. LimitsOK'
      BY <1>4 DEF IInv, TypeOK, LimitsOK, SetCacheStore
    <3>3. ops' \in 0..MaxOps
      BY <1>4, BoundsAssumption DEF IInv, TypeOK, SetCacheStore
    <3> QED BY <1>4, <3>1, <3>2, <3>3 DEF IInv, TypeOK, StoreOK, CallOK, CachesOK, SetCacheStore, cacheVars
  <2>2. UNCHANGED <<order, call, cacheVars>>
    BY <1>4 DEF SetCacheStore
  <2>3. \A x \in Engines : SameEnv(x) /\ SameOwn(x)
    BY <1>4, <2>2, SourcesUnchanged DEF IInv, TypeOK, HostOK, LimitsOK, StoreOK, HostEnvs, SetCacheStore, cacheVars, hostVars,
       SameEnv, SameOwn
  <2>4. (Memos /\ FingerprintsFresh)'
    BY <1>4, <2>3, FreshSame DEF IInv, SetCacheStore
  <2> QED BY <2>1, <2>2, <2>4, ContentsFrame DEF IInv
<1>5. /\ \A n \in Entries : SetEntryPoint(e, n) => IInv'
      /\ DenyAssumptions(e) \/ EnableVerifyIR(e) \/ DisableInlining(e) => IInv'
  <2>1. /\ \A n \in Entries : [pipelineFlags[e] EXCEPT !.entryPoint = n] \in Flags
        /\ [pipelineFlags[e] EXCEPT !.denyAssumptions = TRUE] \in Flags
        /\ [pipelineFlags[e] EXCEPT !.verifyIR = TRUE] \in Flags
        /\ [pipelineFlags[e] EXCEPT !.noInline = TRUE] \in Flags
    BY DEF IInv, TypeOK, LimitsOK, Flags
  <2> QED BY <1>3, <2>1 DEF SetEntryPoint, DenyAssumptions, EnableVerifyIR, DisableInlining
<1> QED
  BY <1>1, <1>2, <1>4, <1>5 DEF ConfigureLimits

-----------------------------------------------------------------------------
(* Steps that change stores and caches.                                    *)

EntrySet(k) == [name : Names, mod : 1..k]

\* The entries of a store have a name and an object of the heap.
LEMMA EntryTypes ==
  ASSUME NEW k, NEW s \in Seq(EntrySet(k))
  PROVE  /\ Len(s) \in Nat /\ DOMAIN s = 1..Len(s)
         /\ \A i \in DOMAIN s : s[i].name \in Names /\ s[i].mod \in 1..k
<1>1. \A i \in DOMAIN s : s[i] \in EntrySet(k)
  OBVIOUS
<1> QED BY <1>1 DEF EntrySet

\* They still do when the heap has grown.
LEMMA EntriesGrow ==
  ASSUME NEW k \in Nat, NEW l \in Nat, k <= l, NEW s \in Seq(EntrySet(k))
  PROVE  s \in Seq(EntrySet(l))
<1>1. EntrySet(k) \subseteq EntrySet(l)
  BY DEF EntrySet
<1> QED BY <1>1

\* Appending a sequence of a set.
LEMMA AppendEntry ==
  ASSUME NEW S, NEW s \in Seq(S), NEW x \in S
  PROVE  /\ Append(s, x) \in Seq(S)
         /\ Len(s) \in Nat /\ DOMAIN s = 1..Len(s)
         /\ DOMAIN Append(s, x) = 1..(Len(s) + 1)
         /\ Append(s, x)[Len(s) + 1] = x
         /\ \A i \in DOMAIN s : Append(s, x)[i] = s[i]
OBVIOUS

\* A registered name and the text registered for it are among a store's texts.
LEMMA ModuleSource ==
  ASSUME NEW e, NEW n \in Registered(e)
  PROVE  <<n, Module(e, n).src>> \in StoreSources(e)
BY DEF Registered, Module, StoreSources, NameSource

\* What compileModule makes fits its text and environment.
LEMMA CompiledModuleFits ==
  ASSUME NEW e \in Engines, NEW src \in Sources, NEW name \in NamesOf[src]
  PROVE  ModuleFits(CompiledModule(e, name, src))
<1> DEFINE cm == CompiledModule(e, name, src)
<1>1. /\ cm.src = src /\ cm.name = name /\ cm.by = e /\ cm.env = writeModuleEnvSection(e)
      /\ {"name", "by", "src", "sources", "filePath", "env"} \subseteq DOMAIN cm
      /\ DOMAIN cm.sources \subseteq Registered(e)
      /\ \A n \in DOMAIN cm.sources : cm.sources[n] = Module(e, n).src
  BY DEF CompiledModule
<1>2. cm.env.modules = StoreSources(e)
  BY <1>1 DEF writeModuleEnvSection
<1> QED BY <1>1, <1>2, ModuleSource DEF ModuleFits

\* The objects of a heap that extends the modules by fitting ones.
Extends(objs) ==
  /\ IsSeq(objs) /\ Len(objs) \in Nat /\ Len(objs) >= Len(mods)
  /\ \A i \in 1..Len(mods) : objs[i] = mods[i]
  /\ \A i \in 1..Len(objs) : ModuleFits(objs[i])

\* Succeed writes at most the path of a file into the heap.
LEMMA SucceedHeap ==
  ASSUME NEW e \in Engines, NEW objs, NEW m \in 1..Len(objs), Extends(objs),
         Succeed(e, objs, m)
  PROVE  /\ IsSeq(mods') /\ Len(mods') = Len(objs)
         /\ \A i \in 1..Len(objs) :
              /\ ModuleFits(mods'[i])
              /\ mods'[i].src = objs[i].src /\ mods'[i].env = objs[i].env
              /\ mods'[i].sources = objs[i].sources
              /\ mods'[i].name = objs[i].name /\ mods'[i].by = objs[i].by
<1>1. CASE call[e].path = None
  BY <1>1 DEF Succeed, Extends
<1>2. CASE call[e].path # None
  <2>1. PICK x : x = [objs[m] EXCEPT !.filePath = call[e].path]
    OBVIOUS
  <2>2. mods' = [objs EXCEPT ![m] = x]
    BY <1>2, <2>1 DEF Succeed
  <2>3. /\ x.src = objs[m].src /\ x.env = objs[m].env /\ x.name = objs[m].name
        /\ x.by = objs[m].by /\ x.sources = objs[m].sources /\ DOMAIN x = DOMAIN objs[m]
    BY <2>1 DEF Extends, ModuleFits
  <2>4. ModuleFits(x)
    BY <2>3 DEF Extends, ModuleFits
  <2>5. IsSeq(objs)
    BY DEF Extends
  <2>6. /\ IsSeq([objs EXCEPT ![m] = x]) /\ Len([objs EXCEPT ![m] = x]) = Len(objs)
        /\ [objs EXCEPT ![m] = x][m] = x
        /\ \A i \in 1..Len(objs) : i # m => [objs EXCEPT ![m] = x][i] = objs[i]
    BY <2>5, ExceptSeq
  <2> QED BY <2>2, <2>3, <2>4, <2>6 DEF Extends
<1> QED BY <1>1, <1>2

\* A registration that succeeds with an object of the same text and
\* environment keeps the invariant.
LEMMA SucceedIInv ==
  ASSUME IInv, NEW e \in Engines, NEW objs, NEW m \in 1..Len(objs),
         call[e].op \in {"lookup", "compile"}, Extends(objs), Succeed(e, objs, m),
         objs[m].src = call[e].src, objs[m].env = writeModuleEnvSection(e),
         modules' = [st \in Stores |-> modules'[st]],
         \A st \in Stores : \A c \in modules'[st] :
           c.obj \in 1..Len(objs) /\ c.key = [src |-> objs[c.obj].src, fp |-> objs[c.obj].env]
  PROVE  IInv'
<1> DEFINE entry == [name |-> call[e].name, mod |-> m]
<1>1. /\ IsSeq(mods') /\ Len(mods') = Len(objs)
      /\ \A i \in 1..Len(objs) :
           /\ ModuleFits(mods'[i])
           /\ mods'[i].src = objs[i].src /\ mods'[i].env = objs[i].env
           /\ mods'[i].sources = objs[i].sources
  BY SucceedHeap
<1>2. \A i \in 1..Len(mods) :
        /\ i \in 1..Len(objs) /\ mods'[i].src = mods[i].src
        /\ mods'[i].env = mods[i].env /\ mods'[i].sources = mods[i].sources
  <2>1. Len(mods) \in Nat
    BY AppendSeq DEF IInv, Contents, Heap
  <2> QED BY <1>1, <2>1 DEF Extends
<1>3. /\ call[e].src \in Sources /\ call[e].name \in NamesOf[call[e].src]
      /\ call[e].name \in Names
  BY TextsAssumption DEF IInv, Contents, Calls
<1>4. /\ \A x \in Engines : order[x] \in Seq(EntrySet(Len(mods')))
      /\ entry \in EntrySet(Len(mods'))
  <2>1. /\ Len(mods) \in Nat /\ Len(mods') \in Nat /\ Len(mods) <= Len(mods')
    BY <1>1, AppendSeq DEF Extends, IInv, Contents, Heap
  <2>2. \A x \in Engines : order[x] \in Seq(EntrySet(Len(mods)))
    BY DEF IInv, TypeOK, StoreOK, EntrySet
  <2>3. entry \in EntrySet(Len(mods'))
    BY <1>1, <1>3 DEF EntrySet
  <2> QED BY <2>1, <2>2, <2>3, EntriesGrow
<1>5. /\ order'[e] = Append(order[e], entry)
      /\ \A x \in Engines \ {e} : order'[x] = order[x]
      /\ order' = [x \in Engines |-> order'[x]]
  BY DEF Succeed, IInv, TypeOK, StoreOK
<1>6. /\ order'[e] \in Seq(EntrySet(Len(mods')))
      /\ Len(order[e]) \in Nat /\ DOMAIN order[e] = 1..Len(order[e])
      /\ DOMAIN order'[e] = 1..(Len(order[e]) + 1)
      /\ order'[e][Len(order[e]) + 1] = entry
      /\ \A i \in DOMAIN order[e] : order'[e][i] = order[e][i]
  <2> HIDE DEF entry
  <2> QED BY <1>4, <1>5, AppendEntry
<1>7. \A x \in Engines : \A i \in DOMAIN order[x] : order[x][i].mod \in 1..Len(mods)
  <2>1. \A x \in Engines : order[x] \in Seq(EntrySet(Len(mods)))
    BY DEF IInv, TypeOK, StoreOK, EntrySet
  <2> QED BY <2>1, EntryTypes
<1>8. TypeOK'
  <2>1. HostOK'
    <3>1. call[e].saved \in BOOLEAN
      BY DEF IInv, TypeOK, CallOK
    <3>2. host' \in [Engines -> HostEnvs]
      <4>1. CASE call[e].rec
        <5>1. [host[e] EXCEPT !.gatedBuiltins = call[e].saved] \in HostEnvs
          BY <3>1, ZenonT(60) DEF IInv, TypeOK, HostOK, HostEnvs
        <5>2. host' = [host EXCEPT ![e] = [host[e] EXCEPT !.gatedBuiltins = call[e].saved]]
          BY <4>1 DEF Succeed, RestoreGates
        <5> QED BY <5>1, <5>2 DEF IInv, TypeOK, HostOK
      <4>2. CASE ~call[e].rec
        <5>1. [host[e] EXCEPT !.gatedBuiltins = host[e].gatedBuiltins] \in HostEnvs
          BY ZenonT(60) DEF IInv, TypeOK, HostOK, HostEnvs
        <5>2. host' = [host EXCEPT ![e] =
                         [host[e] EXCEPT !.gatedBuiltins = host[e].gatedBuiltins]]
          BY <4>2 DEF Succeed, RestoreGates
        <5> QED BY <5>1, <5>2 DEF IInv, TypeOK, HostOK
      <4> QED BY <4>1, <4>2
    <3> QED BY <3>2 DEF Succeed, IInv, TypeOK, HostOK
  <2>2. LimitsOK'
    BY DEF Succeed, IInv, TypeOK, LimitsOK, limitVars
  <2>3. StoreOK'
    <3>1. order' \in [Engines -> Seq(EntrySet(Len(mods')))]
      BY <1>4, <1>5, <1>6
    <3>2. recursion' \in [Engines -> BOOLEAN]
      BY DEF Succeed, IInv, TypeOK, StoreOK, CallOK
    <3> QED BY <3>1, <3>2 DEF StoreOK, EntrySet
  <2>4. CallOK'
    BY DEF Succeed, IInv, TypeOK, CallOK, Idle
  <2>5. CachesOK' /\ ops' \in 0..MaxOps
    BY <1>1 DEF Succeed, IInv, TypeOK, CachesOK
  <2> QED BY <2>1, <2>2, <2>3, <2>4, <2>5 DEF TypeOK
<1>9. (Memos /\ FingerprintsFresh)'
  <2>1. \A x \in Engines \ {e} : StoreSources(x)' = StoreSources(x)
    BY <1>2, <1>5, <1>7, SourcesFrame
  <2>2. \A x \in Engines \ {e} : SameEnv(x) /\ SameOwn(x)
    BY <2>1 DEF Succeed, RestoreGates, IInv, TypeOK, HostOK, HostEnvs, StoreOK, limitVars,
       SameEnv, SameOwn
  <2>3. invalidateFingerprints(e)
    BY DEF Succeed
  <2> QED BY <2>2, <2>3, FreshInvalidated DEF IInv
<1>10. Heap'
  <2>1. rts' = rts /\ runtimes' = runtimes
    BY DEF Succeed
  <2>2. ASSUME NEW r \in 1..Len(rts)
        PROVE  RuntimeFits(rts[r])'
    <3>1. RuntimeFits(rts[r])
      BY DEF IInv, Contents, Heap
    <3>2. rts[r].entries \in Seq(EntrySet(Len(mods)))
      BY <3>1 DEF RuntimeFits, EntrySet
    <3>3. rts[r].entries \in Seq(EntrySet(Len(mods')))
      BY <1>1, <3>2, EntriesGrow, AppendSeq DEF Extends, IInv, Contents, Heap
    <3>4. \A i \in DOMAIN rts[r].entries : rts[r].entries[i].mod \in 1..Len(mods)
      BY <3>2, EntryTypes
    <3>5. EntrySources(rts[r])' = EntrySources(rts[r])
      BY <1>2, <2>1, <3>4 DEF EntrySources, NameSource
    <3> QED BY <2>1, <3>1, <3>3, <3>5 DEF RuntimeFits, EntrySet
  <2> QED BY <1>1, <2>1, <2>2 DEF IInv, Contents, Heap
<1>11. Calls'
  BY DEF Succeed, IInv, TypeOK, CallOK, Contents, Calls, Idle
<1>12. StoreNames'
  <2>1. ASSUME NEW x \in Engines, NEW i \in DOMAIN order[x]
        PROVE  order[x][i].name \in NamesOf[mods'[order[x][i].mod].src]
    BY <1>2, <1>7 DEF IInv, Contents, StoreNames
  <2>2. entry.name \in NamesOf[mods'[entry.mod].src]
    BY <1>1, <1>3
  <2>3. \A i \in DOMAIN order'[e] : i \in DOMAIN order[e] \/ i = Len(order[e]) + 1
    BY <1>6
  <2> HIDE DEF entry
  <2> QED BY <1>5, <1>6, <2>1, <2>2, <2>3, ZenonT(60) DEF StoreNames
<1>13. CacheSound'
  <2>1. rts' = rts /\ runtimes' = runtimes
    BY DEF Succeed
  <2> QED BY <1>1, <2>1, ZenonT(60) DEF IInv, Contents, CacheSound
<1>14. ModulesLinked'
  <2>1. ASSUME NEW x \in Engines, NEW i \in DOMAIN order[x],
               NEW n \in DOMAIN mods'[order[x][i].mod].sources
        PROVE  \E j \in 1..(i - 1) :
                 <<order[x][j].name, mods'[order[x][j].mod].src>>
                   = <<n, mods'[order[x][i].mod].sources[n]>>
    <3>1. i \in 1..Len(order[x]) /\ Len(order[x]) \in Nat
      BY DEF IInv, TypeOK, StoreOK
    <3>2. PICK j \in 1..(i - 1) :
            NameSource(order[x][j]) = <<n, mods[order[x][i].mod].sources[n]>>
      BY <1>2, <1>7 DEF IInv, Contents, ModulesLinked
    <3>3. j \in DOMAIN order[x]
      BY <3>1 DEF IInv, TypeOK, StoreOK
    <3> QED BY <1>2, <1>7, <3>2, <3>3 DEF NameSource
  <2>2. ASSUME NEW n \in DOMAIN mods'[m].sources
        PROVE  \E j \in DOMAIN order[e] :
                 <<order[e][j].name, mods'[order[e][j].mod].src>> = <<n, mods'[m].sources[n]>>
    <3>1. <<n, objs[m].sources[n]>> \in writeModuleEnvSection(e).modules
      BY <1>1 DEF Extends, ModuleFits
    <3>2. <<n, objs[m].sources[n]>> \in StoreSources(e)
      BY <3>1 DEF writeModuleEnvSection
    <3> QED BY <1>1, <1>2, <1>7, <3>2 DEF StoreSources, NameSource
  <2>3. ASSUME NEW x \in Engines, x # e
        PROVE  \A i \in DOMAIN order'[x] : \A n \in DOMAIN mods'[order'[x][i].mod].sources :
                 \E j \in 1..(i - 1) :
                   NameSource(order[x][j])' = <<n, mods'[order'[x][i].mod].sources[n]>>
    <3>1. order'[x] = order[x]
      BY <1>5, <2>3
    <3>2. SUFFICES ASSUME NEW i \in DOMAIN order[x],
                          NEW n \in DOMAIN mods'[order[x][i].mod].sources
                   PROVE  \E j \in 1..(i - 1) :
                            NameSource(order[x][j])' = <<n, mods'[order[x][i].mod].sources[n]>>
      BY <3>1
    <3>3. PICK j \in 1..(i - 1) : <<order[x][j].name, mods'[order[x][j].mod].src>>
                                    = <<n, mods'[order[x][i].mod].sources[n]>>
      BY <2>1
    <3>4. NameSource(order[x][j])' = <<order[x][j].name, mods'[order[x][j].mod].src>>
      BY <3>1 DEF NameSource
    <3> QED BY <3>3, <3>4
  <2>4. ASSUME NEW i \in DOMAIN order'[e], NEW n \in DOMAIN mods'[order'[e][i].mod].sources
        PROVE  \E j \in 1..(i - 1) :
                 NameSource(order[e][j])' = <<n, mods'[order'[e][i].mod].sources[n]>>
    <3>1. CASE i \in DOMAIN order[e]
      <4>0. n \in DOMAIN mods'[order[e][i].mod].sources /\ order'[e][i] = order[e][i]
        BY <1>6, <3>1
      <4>1. PICK j \in 1..(i - 1) : <<order[e][j].name, mods'[order[e][j].mod].src>>
                                      = <<n, mods'[order[e][i].mod].sources[n]>>
        BY <2>1, <3>1, <4>0
      <4>2. j \in DOMAIN order[e]
        BY <1>6, <3>1
      <4> QED BY <1>6, <3>1, <4>1, <4>2 DEF NameSource
    <3>2. CASE i = Len(order[e]) + 1
      <4>1. PICK j \in DOMAIN order[e] :
              <<order[e][j].name, mods'[order[e][j].mod].src>> = <<n, mods'[m].sources[n]>>
        BY <1>6, <2>2, <3>2, SMTT(40)
      <4>2. j \in 1..(i - 1)
        BY <1>6, <3>2
      <4>3. /\ order'[e][j] = order[e][j] /\ order'[e][i].mod = m
            /\ NameSource(order[e][j])' = <<order[e][j].name, mods'[order[e][j].mod].src>>
        <5>1. order'[e][j] = order[e][j] /\ order'[e][i] = entry
          BY <1>6, <3>2, <4>1
        <5>2. NameSource(order[e][j])' = <<order'[e][j].name, mods'[order'[e][j].mod].src>>
          BY DEF NameSource
        <5> QED BY <5>1, <5>2
      <4> QED BY <4>1, <4>2, <4>3
    <3> QED BY <1>6, <3>1, <3>2
  <2> QED BY <2>3, <2>4, ZenonT(60) DEF ModulesLinked
<1> QED
  BY <1>8, <1>9, <1>10, <1>11, <1>12, <1>13, <1>14 DEF IInv, Contents

\* A hit registers an object that the same text and environment made.
LEMMA LookupHitIInv ==
  ASSUME IInv, NEW e \in Engines, LookupHit(e)
  PROVE  IInv'
<1> DEFINE st == cacheStore[e]
<1>1. PICK m \in Get(modules[st], computeModuleCacheKey(e, call[e].src)) : Succeed(e, mods, m)
  BY DEF LookupHit
<1>2. PICK c \in modules[st] :
        c.obj = m /\ c.key = [src |-> call[e].src, fp |-> writeModuleEnvSection(e)]
  BY FingerprintIsSection DEF Get, computeModuleCacheKey, IInv
<1>3. st \in Stores
  BY DEF IInv, TypeOK, LimitsOK
<1>4. /\ m \in 1..Len(mods)
      /\ c.key = [src |-> mods[m].src, fp |-> mods[m].env]
  BY <1>2, <1>3 DEF IInv, TypeOK, CachesOK, Contents, CacheSound
<1>5. mods[m].src = call[e].src /\ mods[m].env = writeModuleEnvSection(e)
  BY <1>2, <1>4
<1>6. Extends(mods)
  BY AppendSeq DEF Extends, IInv, Contents, Heap
<1>7. modules' = modules /\ call[e].op = "lookup"
  BY DEF LookupHit
<1>8. modules' = [t \in Stores |-> modules'[t]]
  BY <1>7 DEF IInv, Contents, Heap
<1>9. \A t \in Stores : \A d \in modules'[t] :
        d.obj \in 1..Len(mods) /\ d.key = [src |-> mods[d.obj].src, fp |-> mods[d.obj].env]
  BY <1>7 DEF IInv, TypeOK, CachesOK, Contents, CacheSound
<1> QED BY <1>1, <1>4, <1>5, <1>6, <1>7, <1>8, <1>9, SucceedIInv

\* A compiled module is stored under the key of its text and environment.
LEMMA CompileModuleIInv ==
  ASSUME IInv, NEW e \in Engines, compileModule(e)
  PROVE  IInv'
<1>1. PICK cm : cm = CompiledModule(e, call[e].name, call[e].src)
  OBVIOUS
<1>2. PICK objs : objs = Append(mods, cm)
  OBVIOUS
<1>3. PICK m : m = Len(mods) + 1
  OBVIOUS
<1>4. call[e].op = "compile" /\ Succeed(e, objs, m)
  BY <1>1, <1>2, <1>3 DEF compileModule
<1>5. call[e].src \in Sources /\ call[e].name \in NamesOf[call[e].src]
  BY <1>4 DEF IInv, Contents, Calls
<1>6. ModuleFits(cm) /\ cm.src = call[e].src /\ cm.env = writeModuleEnvSection(e)
  BY <1>1, <1>5, CompiledModuleFits DEF CompiledModule
<1>7. /\ Len(mods) \in Nat /\ IsSeq(objs) /\ Len(objs) = m /\ objs[m] = cm
      /\ \A i \in 1..Len(mods) : objs[i] = mods[i]
  BY <1>2, <1>3, AppendSeq DEF IInv, Contents, Heap
<1>8. Extends(objs)
  BY <1>3, <1>6, <1>7 DEF Extends, IInv, Contents, Heap
<1>9. PICK gone : modules' = [modules EXCEPT ![cacheStore[e]] =
        Put(@, [src |-> call[e].src, fp |-> writeModuleEnvSection(e)], m, gone)]
  BY <1>3, FingerprintIsSection DEF compileModule, computeModuleCacheKey, IInv
<1>10. modules' = [t \in Stores |-> modules'[t]]
  BY <1>9 DEF IInv, Contents, Heap
<1>11. ASSUME NEW t \in Stores, NEW c \in modules'[t]
       PROVE  c.obj \in 1..Len(objs) /\ c.key = [src |-> objs[c.obj].src, fp |-> objs[c.obj].env]
  <2>1. c \in modules[t] \/ c = [key |-> [src |-> call[e].src, fp |-> writeModuleEnvSection(e)],
                                 obj |-> m]
    BY <1>9 DEF Put, IInv, Contents, Heap
  <2>2. CASE c \in modules[t]
    <3>1. c.obj \in 1..Len(mods) /\ c.key = [src |-> mods[c.obj].src, fp |-> mods[c.obj].env]
      BY <2>2 DEF IInv, TypeOK, CachesOK, Contents, CacheSound
    <3> QED BY <1>3, <1>7, <3>1
  <2>3. CASE c = [key |-> [src |-> call[e].src, fp |-> writeModuleEnvSection(e)], obj |-> m]
    <3>1. /\ c.obj = m
          /\ c.key = [src |-> call[e].src, fp |-> writeModuleEnvSection(e)]
      BY <2>3
    <3> QED BY <1>3, <1>6, <1>7, <3>1
  <2> QED BY <2>1, <2>2, <2>3
<1>12. m \in 1..Len(objs)
  BY <1>3, <1>7
<1> QED BY <1>4, <1>6, <1>7, <1>8, <1>10, <1>11, <1>12, SucceedIInv

\* What assembleRuntime makes fits the engine.
LEMMA AssembledRuntimeFits ==
  ASSUME IInv, NEW e \in Engines, NEW src
  PROVE  RuntimeFits(AssembledRuntime(e, src))
<1>1. PICK r : r = AssembledRuntime(e, src)
  OBVIOUS
<1>2. /\ r.gates = (host[e].gatedBuiltins \/ recursion[e]) /\ r.bindings = host[e].bindings
      /\ r.limits = runtimeLimits[e] /\ r.compilerLimits = compilerLimits[e]
      /\ r.entryName = pipelineFlags[e].entryPoint
      /\ r.entries = order[e] /\ r.prims = prims[e]
      /\ r.env.env = writeModuleEnvSection(e) /\ r.env.own = writeRuntimeSpecificSection(e)
  BY <1>1 DEF AssembledRuntime
<1>3. /\ r.env.env.gatedBuiltins = host[e].gatedBuiltins /\ r.env.env.bindings = host[e].bindings
      /\ r.env.env.limits = compilerLimits[e] /\ r.env.env.modules = StoreSources(e)
      /\ r.env.own.recursion = recursion[e] /\ r.env.own.limits = runtimeLimits[e]
      /\ r.env.own.flags = pipelineFlags[e] /\ r.env.own.prims = PrimIdentity(e)
  BY <1>2 DEF writeModuleEnvSection, writeRuntimeSpecificSection
<1>4. EntrySources(r) = StoreSources(e)
  BY <1>2 DEF EntrySources, StoreSources
<1>5. /\ r.prims \in [PrimNames -> Impls \cup {None}]
      /\ DOMAIN PrimIdentity(e) = {p \in PrimNames : r.prims[p] # None}
      /\ \A p \in DOMAIN PrimIdentity(e) :
           \/ \E k \in PrimKeys : PrimIdentity(e)[p] = <<"k", k>>
           \/ PrimIdentity(e)[p] = <<"p", Code[r.prims[p]]>>
  <2>1. r.prims \in [PrimNames -> Impls \cup {None}]
    BY <1>2 DEF IInv, TypeOK, HostOK
  <2>2. DOMAIN PrimIdentity(e) = {p \in PrimNames : r.prims[p] # None}
    BY <1>2 DEF PrimIdentity
  <2>3. ASSUME NEW p \in PrimNames, r.prims[p] # None
        PROVE  \/ \E k \in PrimKeys : PrimIdentity(e)[p] = <<"k", k>>
               \/ PrimIdentity(e)[p] = <<"p", Code[r.prims[p]]>>
    <3>1. primKeys[e][p] \in PrimKeys \cup {None}
      BY DEF IInv, TypeOK, HostOK
    <3>2. PrimIdentity(e)[p] = IF primKeys[e][p] # None THEN <<"k", primKeys[e][p]>>
                               ELSE <<"p", Code[r.prims[p]]>>
      BY <1>2, <2>3 DEF PrimIdentity
    <3> QED BY <3>1, <3>2
  <2> QED BY <2>1, <2>2, <2>3
<1>6. r.entries \in Seq([name : Names, mod : 1..Len(mods)])
  BY <1>2 DEF IInv, TypeOK, StoreOK
<1> QED BY <1>1, <1>2, <1>3, <1>4, <1>5, <1>6 DEF RuntimeFits

\* A runtime is stored under the key of its text and engine.
LEMMA AssembleRuntimeIInv ==
  ASSUME IInv, NEW e \in Engines, assembleRuntime(e)
  PROVE  IInv'
<1>1. PICK r : r = AssembledRuntime(e, call[e].src)
  OBVIOUS
<1>2. rts' = Append(rts, r)
  BY <1>1 DEF assembleRuntime
<1>3. /\ RuntimeFits(r) /\ r.src = call[e].src
      /\ r.env = [env |-> writeModuleEnvSection(e), own |-> writeRuntimeSpecificSection(e)]
  BY <1>1, AssembledRuntimeFits DEF AssembledRuntime
<1>4. /\ order' = order /\ mods' = mods /\ modules' = modules
      /\ call' = [call EXCEPT ![e] = Idle]
      /\ UNCHANGED <<hostVars, storeVars, limitVars, fpVars, ops>>
  BY DEF assembleRuntime, storeVars
<1>5. /\ Len(rts) \in Nat /\ IsSeq(rts') /\ Len(rts') = Len(rts) + 1
      /\ rts'[Len(rts) + 1] = r /\ \A i \in 1..Len(rts) : rts'[i] = rts[i]
  BY <1>2, AppendSeq DEF IInv, Contents, Heap
<1> DEFINE key == [src |-> r.src, fp |-> r.env]
<1>6. PICK gone : runtimes' = [runtimes EXCEPT ![cacheStore[e]] =
                                 Put(@, key, Len(rts) + 1, gone)]
  BY <1>3, FingerprintIsSection DEF assembleRuntime, computeRuntimeCacheKey, IInv
<1>7. runtimes' = [t \in Stores |-> runtimes'[t]]
  BY <1>6 DEF IInv, Contents, Heap
<1>8. ASSUME NEW t \in Stores, NEW c \in runtimes'[t]
      PROVE  c.obj \in 1..Len(rts') /\ c.key = [src |-> rts'[c.obj].src, fp |-> rts'[c.obj].env]
  <2>1. c \in runtimes[t] \/ c = [key |-> key, obj |-> Len(rts) + 1]
    BY <1>6 DEF Put, IInv, Contents, Heap
  <2>2. CASE c \in runtimes[t]
    <3>1. c.obj \in 1..Len(rts) /\ c.key = [src |-> rts[c.obj].src, fp |-> rts[c.obj].env]
      BY <2>2 DEF IInv, TypeOK, CachesOK, Contents, CacheSound
    <3> QED BY <1>5, <3>1
  <2>3. CASE c = [key |-> key, obj |-> Len(rts) + 1]
    BY <1>5, <2>3
  <2> QED BY <2>1, <2>2, <2>3
<1>9. TypeOK'
  <2>1. CallOK'
    BY <1>4 DEF IInv, TypeOK, CallOK, Idle
  <2>2. CachesOK'
    BY <1>4, <1>8 DEF IInv, TypeOK, CachesOK
  <2> QED BY <1>4, <2>1, <2>2 DEF IInv, TypeOK, HostOK, LimitsOK, StoreOK, hostVars,
             limitVars, storeVars
<1>10. (Memos /\ FingerprintsFresh)'
  <2>1. \A x \in Engines : SameEnv(x) /\ SameOwn(x)
    BY <1>4, SourcesUnchanged DEF SameEnv, SameOwn, hostVars, limitVars, storeVars
  <2> QED BY <1>4, <2>1, FreshSame DEF IInv
<1>11. Heap'
  <2>1. ASSUME NEW i \in 1..Len(rts')
        PROVE  RuntimeFits(rts[i])'
    <3>1. RuntimeFits(rts'[i])
      BY <1>3, <1>5 DEF IInv, Contents, Heap
    <3>2. EntrySources(rts[i])' = EntrySources(rts'[i])
      BY <1>4 DEF EntrySources, NameSource
    <3> QED BY <1>4, <3>1, <3>2 DEF RuntimeFits
  <2> QED BY <1>4, <1>5, <1>7, <2>1 DEF IInv, Contents, Heap, ModuleFits
<1>12. (Calls /\ StoreNames /\ CacheSound /\ ModulesLinked)'
  <2>1. Calls'
    BY <1>4 DEF IInv, TypeOK, CallOK, Contents, Calls, Idle
  <2>2. StoreNames'
    BY <1>4 DEF IInv, Contents, StoreNames
  <2>3. CacheSound'
    BY <1>4, <1>8 DEF IInv, Contents, CacheSound
  <2>4. ModulesLinked'
    BY <1>4, LinkedFrame DEF IInv, Contents
  <2> QED BY <2>1, <2>2, <2>3, <2>4
<1> QED BY <1>9, <1>10, <1>11, <1>12 DEF IInv, Contents

-----------------------------------------------------------------------------
(* The other steps of a registration or compilation.                       *)

\* A registration begins: only the call, the gates and the memos change.
LEMMA RegisterIInv ==
  ASSUME IInv, NEW e \in Engines, NEW src \in Sources, NEW name \in NamesOf[src],
         NEW path \in Paths \cup {None}, NEW rec \in BOOLEAN,
         Register(e, name, src, rec, path),
         \/ UNCHANGED <<host, fpVars>>
         \/ /\ host' = [host EXCEPT ![e].gatedBuiltins = TRUE]
            /\ invalidateFingerprints(e)
  PROVE  IInv'
<1>1. /\ order' = order /\ UNCHANGED cacheVars /\ mods' = mods
      /\ UNCHANGED <<prims, primKeys, primSeq, storeVars, limitVars, ops>>
      /\ call' = [call EXCEPT ![e] = [op |-> "lookup", src |-> src, name |-> name,
                    rec |-> rec, saved |-> host[e].gatedBuiltins, path |-> path]]
  BY DEF Register, storeVars, cacheVars
<1>2. host' \in [Engines -> HostEnvs]
  <2>1. CASE UNCHANGED <<host, fpVars>>
    BY <2>1 DEF IInv, TypeOK, HostOK
  <2>2. CASE host' = [host EXCEPT ![e].gatedBuiltins = TRUE]
    BY <2>2, ZenonT(60) DEF IInv, TypeOK, HostOK, HostEnvs
  <2> QED BY <2>1, <2>2
<1>3. CallOK'
  <2>1. host[e].gatedBuiltins \in BOOLEAN /\ src \in Texts /\ name \in Names
    BY TextsAssumption DEF IInv, TypeOK, HostOK, HostEnvs, Texts
  <2> QED BY <1>1, <2>1 DEF IInv, TypeOK, CallOK
<1>4. TypeOK'
  BY <1>1, <1>2, <1>3 DEF IInv, TypeOK, HostOK, LimitsOK, StoreOK, CachesOK, storeVars,
     limitVars, cacheVars
<1>5. Calls'
  BY <1>1 DEF IInv, TypeOK, CallOK, Contents, Calls
<1>6. \A x \in Engines : SameOwn(x) /\ (x # e \/ host' = host => SameEnv(x))
  BY <1>1, SourcesUnchanged DEF IInv, TypeOK, HostOK, HostEnvs, SameEnv, SameOwn,
     storeVars, limitVars
<1>7. (Memos /\ FingerprintsFresh)'
  BY <1>6, FreshSame, FreshInvalidated DEF IInv
<1> QED BY <1>1, <1>4, <1>5, <1>7, CallFrame DEF IInv

\* A registration that fails restores the gates.
LEMMA FailIInv ==
  ASSUME IInv, NEW e \in Engines, Fail(e)
  PROVE  IInv'
<1>1. /\ order' = order /\ UNCHANGED cacheVars /\ mods' = mods
      /\ UNCHANGED <<prims, primKeys, primSeq, storeVars, limitVars, ops>>
      /\ call' = [call EXCEPT ![e] = Idle]
  BY DEF Fail, storeVars, cacheVars
<1>2. host' = IF call[e].rec THEN [host EXCEPT ![e] = [host[e] EXCEPT !.gatedBuiltins = call[e].saved]]
              ELSE host
  BY DEF Fail, RestoreGates, IInv, TypeOK, HostOK, HostEnvs
<1>3. call[e].saved \in BOOLEAN /\ call[e].rec \in BOOLEAN
  BY DEF IInv, TypeOK, CallOK
<1>4. host' \in [Engines -> HostEnvs]
  <2>1. [host[e] EXCEPT !.gatedBuiltins = call[e].saved] \in HostEnvs
    BY <1>3 DEF IInv, TypeOK, HostOK, HostEnvs
  <2> QED BY <1>2, <2>1 DEF IInv, TypeOK, HostOK
<1>5. CallOK' /\ Calls'
  BY <1>1 DEF IInv, TypeOK, CallOK, Contents, Calls, Idle
<1>6. TypeOK'
  BY <1>1, <1>4, <1>5 DEF IInv, TypeOK, HostOK, LimitsOK, StoreOK, CachesOK, storeVars,
     limitVars, cacheVars
<1>7. \A x \in Engines : SameOwn(x) /\ (x # e \/ host' = host => SameEnv(x))
  BY <1>1, <1>2, SourcesUnchanged DEF IInv, TypeOK, HostOK, SameEnv, SameOwn,
     storeVars, limitVars
<1>8. (Memos /\ FingerprintsFresh)'
  <2>1. CASE call[e].rec
    BY <1>7, <2>1, FreshInvalidated DEF IInv, Fail
  <2>2. CASE ~call[e].rec
    BY <1>2, <1>7, <2>2, FreshSame DEF IInv, Fail
  <2> QED BY <2>1, <2>2
<1> QED BY <1>1, <1>5, <1>6, <1>8, CallFrame DEF IInv

\* The steps that compute the fingerprints, or end a compilation of a program,
\* and change no setting.
LEMMA PipelineIInv ==
  ASSUME IInv, NEW e \in Engines, UNCHANGED fpVars \/ pipeline(e),
         UNCHANGED <<hostVars, storeVars, limitVars, cacheVars, ops>>, CallOK', Calls'
  PROVE  IInv'
<1>1. order' = order /\ mods' = mods
  BY DEF storeVars, cacheVars
<1>2. TypeOK'
  BY DEF IInv, TypeOK, HostOK, LimitsOK, StoreOK, CachesOK, hostVars, storeVars, limitVars,
     cacheVars
<1>3. \A x \in Engines : SameEnv(x) /\ SameOwn(x)
  BY <1>1, SourcesUnchanged DEF SameEnv, SameOwn, hostVars, storeVars, limitVars
<1>4. (Memos /\ FingerprintsFresh)'
  BY <1>3, FreshSame DEF IInv
<1> QED BY <1>1, <1>2, <1>4, CallFrame DEF IInv

\* Every step of a registration or of the compilation of a program.
LEMMA CompileIInv ==
  ASSUME IInv, NEW e \in Engines, CompileModules(e) \/ CompilePrograms(e)
  PROVE  IInv'
<1>1. ASSUME NEW src \in Sources, NEW name \in NamesOf[src], RegisterModule(e, name, src)
      PROVE  IInv'
  BY <1>1, RegisterIInv DEF RegisterModule
<1>2. ASSUME NEW src \in Sources, NEW name \in NamesOf[src], RegisterModuleRec(e, name, src)
      PROVE  IInv'
  BY <1>2, RegisterIInv DEF RegisterModuleRec
<1>3. ASSUME NEW src \in Sources, NEW name \in NamesOf[src], NEW path \in Paths,
             RegisterModuleFile(e, name, src, path)
      PROVE  IInv'
  BY <1>3, RegisterIInv DEF RegisterModuleFile
<1>4. CASE LookupMiss(e)
  <2>1. CallOK' /\ Calls'
    BY <1>4 DEF LookupMiss, IInv, TypeOK, CallOK, Contents, Calls
  <2> QED BY <1>4, <2>1, PipelineIInv DEF LookupMiss
<1>5. CASE CompileFails(e)
  BY <1>5, FailIInv DEF CompileFails
<1>6. CASE Analyze(e)
  <2>1. CallOK' /\ Calls'
    BY <1>6 DEF Analyze, IInv, TypeOK, CallOK, Contents, Calls
  <2> QED BY <1>6, <2>1, PipelineIInv DEF Analyze
<1>7. ASSUME NEW src \in Mains, NewRuntime(e, src)
      PROVE  IInv'
  <2>1. call' = call \/ call' = [call EXCEPT ![e].op = "runtime", ![e].src = src]
    BY <1>7 DEF NewRuntime
  <2>2. CallOK'
    BY <2>1 DEF IInv, TypeOK, CallOK, Texts
  <2>3. Calls'
    BY <2>1 DEF IInv, TypeOK, CallOK, Contents, Calls
  <2> QED BY <1>7, <2>2, <2>3, PipelineIInv DEF NewRuntime
<1>8. CASE RuntimeFails(e)
  <2>1. CallOK' /\ Calls'
    BY <1>8 DEF RuntimeFails, IInv, TypeOK, CallOK, Contents, Calls, Idle
  <2> QED BY <1>8, <2>1, PipelineIInv DEF RuntimeFails
<1> QED
  BY <1>1, <1>2, <1>3, <1>4, <1>5, <1>6, <1>7, <1>8, LookupHitIInv, CompileModuleIInv,
     AssembleRuntimeIInv
  DEF CompileModules, CompilePrograms

\* Emptying a map of a store keeps the invariant.
LEMMA ResetIInv ==
  ASSUME IInv, NEW st \in Stores, ResetModule(st) \/ ResetRuntime(st)
  PROVE  IInv'
<1>1. /\ order' = order /\ mods' = mods /\ rts' = rts /\ call' = call
      /\ UNCHANGED <<hostVars, storeVars, limitVars, fpVars>>
      /\ ops' \in 0..MaxOps
  BY BoundsAssumption DEF ResetModule, ResetRuntime, storeVars, IInv, TypeOK
<1>2. /\ modules' = [t \in Stores |-> modules'[t]] /\ runtimes' = [t \in Stores |-> runtimes'[t]]
      /\ \A t \in Stores : modules'[t] \subseteq modules[t] /\ runtimes'[t] \subseteq runtimes[t]
  BY DEF ResetModule, ResetRuntime, IInv, Contents, Heap
<1>3. TypeOK'
  BY <1>1, <1>2 DEF IInv, TypeOK, HostOK, LimitsOK, StoreOK, CallOK, CachesOK, hostVars,
     storeVars, limitVars
<1>4. (Memos /\ FingerprintsFresh)'
  <2>1. \A x \in Engines : SameEnv(x) /\ SameOwn(x)
    BY <1>1, SourcesUnchanged DEF SameEnv, SameOwn, hostVars, storeVars, limitVars
  <2>2. CASE Engines = {}
    BY <1>1, <2>2 DEF IInv, Memos, FingerprintsFresh, fpVars
  <2>3. ASSUME NEW e \in Engines
        PROVE  (Memos /\ FingerprintsFresh)'
    BY <1>1, <2>1, FreshSame DEF IInv
  <2> QED BY <2>2, <2>3
<1>5. Heap'
  <2>1. \A i \in 1..Len(rts) : EntrySources(rts[i])' = EntrySources(rts[i])
    BY <1>1 DEF EntrySources, NameSource
  <2>2. \A i \in 1..Len(rts) : RuntimeFits(rts[i])'
    BY <1>1, <2>1, ZenonT(60) DEF IInv, Contents, Heap, RuntimeFits
  <2> QED BY <1>1, <1>2, <2>2 DEF IInv, Contents, Heap, ModuleFits, IsSeq
<1>6. Calls' /\ StoreNames' /\ CacheSound'
  BY <1>1, <1>2 DEF IInv, Contents, Calls, StoreNames, CacheSound
<1>7. ModulesLinked'
  BY <1>1, LinkedFrame DEF IInv, Contents
<1> QED BY <1>3, <1>4, <1>5, <1>6, <1>7 DEF IInv, Contents

-----------------------------------------------------------------------------
(* The theorems.                                                           *)

\* The invariant holds initially.
LEMMA InitIInv == Init => IInv
<1> SUFFICES ASSUME Init PROVE IInv
  OBVIOUS
<1>1. TypeOK
  <2>1. HostOK
    BY DEF Init, HostOK, HostEnvs
  <2>2. LimitsOK
    BY DEF Init, LimitsOK, Flags
  <2>3. StoreOK /\ CallOK /\ CachesOK
    BY DEF Init, StoreOK, CallOK, CachesOK, Idle
  <2> QED BY <2>1, <2>2, <2>3, BoundsAssumption DEF Init, TypeOK
<1>2. Memos /\ FingerprintsFresh
  BY DEF Init, Memos, FingerprintsFresh
<1>3. Heap
  <2>1. IsSeq(mods) /\ IsSeq(rts) /\ Len(mods) = 0 /\ Len(rts) = 0
    BY DEF Init, IsSeq
  <2> QED BY <2>1 DEF Init, Heap
<1>4. Calls /\ StoreNames /\ CacheSound /\ ModulesLinked
  BY DEF Init, Calls, StoreNames, CacheSound, ModulesLinked, Idle
<1> QED BY <1>1, <1>2, <1>3, <1>4 DEF IInv, Contents

\* Every step keeps it.
LEMMA NextIInv == IInv /\ [Next]_vars => IInv'
<1> SUFFICES ASSUME IInv, [Next]_vars PROVE IInv'
  OBVIOUS
<1>1. CASE UNCHANGED vars
  <2>1. /\ UNCHANGED <<order, call, cacheVars>> /\ order' = order /\ mods' = mods
        /\ UNCHANGED <<hostVars, storeVars, limitVars, fpVars, cacheVars, ops>>
    BY <1>1 DEF vars, storeVars, cacheVars
  <2>2. CASE Engines = {}
    <3>1. TypeOK'
      BY <2>1 DEF IInv, TypeOK, HostOK, LimitsOK, StoreOK, CallOK, CachesOK, hostVars,
         storeVars, limitVars, cacheVars
    <3>2. (Memos /\ FingerprintsFresh)'
      BY <2>1, <2>2 DEF IInv, Memos, FingerprintsFresh, fpVars
    <3> QED BY <2>1, <3>1, <3>2, ContentsFrame DEF IInv
  <2>3. ASSUME NEW e \in Engines
        PROVE  IInv'
    <3>1. CallOK' /\ Calls'
      BY <2>1 DEF IInv, TypeOK, CallOK, Contents, Calls
    <3> QED BY <2>1, <3>1, PipelineIInv
  <2> QED BY <2>2, <2>3
<1>2. CASE Next
  BY <1>2, ConfigureHostIInv, ConfigureLimitsIInv, CompileIInv, ResetIInv DEF Next
<1> QED BY <1>1, <1>2

\* The inductive invariant holds in every reachable state.
THEOREM Inductive == Spec => []IInv
BY InitIInv, NextIInv, PTL DEF Spec

\* Every variable keeps its type, and caches and stores hold objects that exist.
THEOREM TypeCorrect == Spec => []TypeOK
<1>1. IInv => TypeOK
  BY DEF IInv
<1> QED BY <1>1, Inductive, PTL

\* No setter, registration or restored gate leaves a stale memo behind: what
\* pipeline() puts into keys is the current fingerprint.
THEOREM Fresh == Spec => []FingerprintsFresh
<1>1. IInv => FingerprintsFresh
  BY DEF IInv
<1> QED BY <1>1, Inductive, PTL

\* However engines interleave, whatever is evicted or reset, what a cache holds
\* under a key was made from the text and in the environment the key names.
THEOREM Sound == Spec => []CacheSound
<1>1. IInv => CacheSound
  BY DEF IInv, Contents
<1> QED BY <1>1, Inductive, PTL

\* A module taken from the cache was compiled against the texts that the engine
\* which registers it has under the same names.
THEOREM Linkage == Spec => []ModulesLinked
<1>1. IInv => ModulesLinked
  BY DEF IInv, Contents
<1> QED BY <1>1, Inductive, PTL

\* A runtime that NewRuntime takes from the cache is the one it would assemble.
THEOREM Fit == Spec => []RuntimesFit
<1>1. ASSUME IInv
      PROVE  RuntimesFit
  <2> SUFFICES ASSUME NEW e \in Engines, NEW src \in Mains,
                      NEW r \in Get(runtimes[cacheStore[e]], computeRuntimeCacheKey(e, src)),
                      NEW found, found = rts[r], NEW fresh, fresh = AssembledRuntime(e, src)
               PROVE  /\ \A f \in {"src", "gates", "bindings", "limits", "compilerLimits",
                                   "entryName"} : found[f] = fresh[f]
                      /\ EntrySources(found) = EntrySources(fresh)
                      /\ \A p \in PrimNames :
                           \/ found.prims[p] = fresh.prims[p]
                           \/ /\ found.prims[p] # None /\ fresh.prims[p] # None
                              /\ IF primKeys[e][p] = None
                                 THEN Code[found.prims[p]] = Code[fresh.prims[p]]
                                 ELSE primKeys[e][p] # Key[found.prims[p]]
                                      \/ primKeys[e][p] # Key[fresh.prims[p]]
    BY DEF RuntimesFit
  <2>1. /\ RuntimeFits(fresh) /\ fresh.src = src /\ fresh.prims = prims[e]
        /\ fresh.env = [env |-> writeModuleEnvSection(e), own |-> writeRuntimeSpecificSection(e)]
    BY <1>1, AssembledRuntimeFits DEF AssembledRuntime
  <2>2. PICK c \in runtimes[cacheStore[e]] :
          c.obj = r /\ c.key = [src |-> fresh.src, fp |-> fresh.env]
    BY <1>1, <2>1, FingerprintIsSection DEF Get, computeRuntimeCacheKey, IInv
  <2>3. cacheStore[e] \in Stores
    BY <1>1 DEF IInv, TypeOK, LimitsOK
  <2>4. /\ r \in 1..Len(rts) /\ c.key = [src |-> found.src, fp |-> found.env]
    BY <1>1, <2>2, <2>3 DEF IInv, TypeOK, CachesOK, Contents, CacheSound
  <2>5. RuntimeFits(found) /\ found.src = fresh.src /\ found.env = fresh.env
    BY <1>1, <2>2, <2>4 DEF IInv, Contents, Heap
  <2>6. /\ found.gates = fresh.gates /\ found.bindings = fresh.bindings
        /\ found.limits = fresh.limits /\ found.compilerLimits = fresh.compilerLimits
        /\ found.entryName = fresh.entryName
        /\ EntrySources(found) = EntrySources(fresh)
    BY <2>1, <2>5 DEF RuntimeFits
  <2>7. ASSUME NEW p \in PrimNames, found.prims[p] # fresh.prims[p]
        PROVE  /\ found.prims[p] # None /\ fresh.prims[p] # None
               /\ IF primKeys[e][p] = None THEN Code[found.prims[p]] = Code[fresh.prims[p]]
                  ELSE primKeys[e][p] # Key[found.prims[p]]
                       \/ primKeys[e][p] # Key[fresh.prims[p]]
    <3>1. found.prims[p] # None <=> fresh.prims[p] # None
      BY <2>1, <2>5 DEF RuntimeFits
    <3>2. /\ found.prims[p] # None /\ fresh.prims[p] # None
          /\ found.prims[p] \in Impls /\ fresh.prims[p] \in Impls
      BY <2>1, <2>5, <2>7, <3>1 DEF RuntimeFits
    <3>3. CASE primKeys[e][p] = None
      <4>1. fresh.env.own.prims[p] = <<"p", Code[fresh.prims[p]]>>
        BY <2>1, <3>2, <3>3 DEF writeRuntimeSpecificSection, PrimIdentity
      <4>2. p \in DOMAIN found.env.own.prims
        BY <2>5, <3>2 DEF RuntimeFits
      <4>3. \/ \E k \in PrimKeys : found.env.own.prims[p] = <<"k", k>>
            \/ found.env.own.prims[p] = <<"p", Code[found.prims[p]]>>
        BY <2>5, <4>2 DEF RuntimeFits
      <4> QED BY <2>5, <3>2, <3>3, <4>1, <4>3
    <3>4. CASE primKeys[e][p] # None
      BY <2>7, <3>2, <3>4, HostAssumption
    <3> QED BY <3>3, <3>4
  <2> QED BY <2>5, <2>6, <2>7
<1> QED BY <1>1, Inductive, PTL

-----------------------------------------------------------------------------
(* The names of an engine's own modules. While a registration is under way *)
(* its name is free, so the key under which the module is stored does not  *)
(* have the module itself. Once it is registered every key of its engine   *)
(* has it, and the lookup of the same text under another name misses.      *)

NamesFree ==
  \A x \in Engines : call[x].op \in {"lookup", "compile"} => ~Has(x, call[x].name)

\* Engine x has module o, and only under the module's own name.
OwnEntry(x, o) ==
  /\ \E i \in DOMAIN order[x] : order[x][i] = [name |-> mods[o].name, mod |-> o]
  /\ \A i \in DOMAIN order[x] : order[x][i].mod = o => order[x][i].name = mods[o].name

OwnModules ==
  \A o \in 1..Len(mods) :
    /\ <<mods[o].name, mods[o].src>> \notin mods[o].env.modules
    /\ OwnEntry(mods[o].by, o)

NamesInv == NamesFree /\ OwnModules

\* A step that changes no store and no module.
LEMMA NamesFrame ==
  ASSUME NamesInv, order' = order, mods' = mods, NamesFree'
  PROVE  NamesInv'
BY DEF NamesInv, OwnModules, OwnEntry

\* A registration that succeeds with another engine's module or with a new one,
\* whose key does not have the module itself.
LEMMA SucceedNames ==
  ASSUME IInv, NamesInv, NEW e \in Engines, NEW objs, NEW m \in 1..Len(objs),
         Extends(objs), Succeed(e, objs, m),
         m \in 1..Len(mods) => objs[m].by # e,
         \A o \in 1..Len(objs) : o \notin 1..Len(mods) =>
           /\ o = m /\ objs[o].by = e /\ objs[o].name = call[e].name
           /\ <<objs[o].name, objs[o].src>> \notin objs[o].env.modules
  PROVE  NamesInv'
<1> DEFINE entry == [name |-> call[e].name, mod |-> m]
<1>1. /\ Len(mods') = Len(objs)
      /\ \A i \in 1..Len(objs) :
           /\ mods'[i].src = objs[i].src /\ mods'[i].env = objs[i].env
           /\ mods'[i].name = objs[i].name /\ mods'[i].by = objs[i].by
  BY SucceedHeap
<1>2. /\ order' = [order EXCEPT ![e] = Append(@, entry)]
      /\ call' = [call EXCEPT ![e] = Idle]
  BY DEF Succeed
<1>3. order \in [Engines -> Seq(EntrySet(Len(mods)))] /\ Len(mods) \in Nat
  BY AppendSeq DEF IInv, TypeOK, StoreOK, EntrySet, Contents, Heap
<1>4. /\ order'[e] = Append(order[e], entry)
      /\ \A x \in Engines \ {e} : order'[x] = order[x]
  BY <1>2, <1>3
<1>5. /\ Len(order[e]) \in Nat /\ DOMAIN order[e] = 1..Len(order[e])
      /\ DOMAIN order'[e] = 1..(Len(order[e]) + 1)
      /\ order'[e][Len(order[e]) + 1] = entry
      /\ \A i \in DOMAIN order[e] : order'[e][i] = order[e][i] /\ order[e][i].mod \in 1..Len(mods)
  <2>1. order[e] \in Seq(EntrySet(Len(mods)))
    BY <1>3
  <2>2. \A i \in DOMAIN order[e] : order[e][i].mod \in 1..Len(mods)
    BY <2>1, EntryTypes
  <2>3. order[e] \in Seq(EntrySet(Len(mods)) \cup {entry})
    BY <2>1
  <2> HIDE DEF entry
  <2> QED BY <1>4, <2>2, <2>3, AppendEntry
<1>6. NamesFree'
  <2>1. call \in [Engines -> [op : {"idle", "lookup", "compile", "runtime"},
                              src : Texts \cup {None}, name : Names \cup {None},
                              rec : BOOLEAN, saved : BOOLEAN, path : Paths \cup {None}]]
    BY DEF IInv, TypeOK, CallOK
  <2>2. call'[e].op = "idle" /\ \A x \in Engines \ {e} : call'[x] = call[x]
    BY <1>2, <2>1 DEF Idle
  <2> QED BY <1>4, <2>2 DEF NamesInv, NamesFree, Has, Registered
<1>7. ASSUME NEW o \in 1..Len(mods)
      PROVE  /\ <<mods'[o].name, mods'[o].src>> \notin mods'[o].env.modules
             /\ OwnEntry(mods[o].by, o)'
  <2>1. /\ o \in 1..Len(objs) /\ objs[o] = mods[o] /\ mods[o].by \in Engines
    BY <1>3 DEF Extends, ModuleFits, IInv, Contents, Heap
  <2>2. /\ mods'[o].name = mods[o].name /\ mods'[o].src = mods[o].src
        /\ mods'[o].env = mods[o].env /\ mods'[o].by = mods[o].by
    BY <1>1, <2>1
  <2>3. /\ <<mods[o].name, mods[o].src>> \notin mods[o].env.modules
        /\ OwnEntry(mods[o].by, o)
    BY DEF NamesInv, OwnModules
  <2>4. CASE mods[o].by # e
    <3>1. mods'[o].by = mods[o].by /\ order'[mods[o].by] = order[mods[o].by]
      BY <1>4, <2>1, <2>2, <2>4
    <3> QED BY <2>2, <2>3, <3>1 DEF OwnEntry
  <2>5. CASE mods[o].by = e
    <3>1. o # m
      BY <2>1, <2>5
    <3>2. PICK i \in DOMAIN order[e] : order[e][i] = [name |-> mods[o].name, mod |-> o]
      BY <2>3, <2>5 DEF OwnEntry
    <3>3. i \in DOMAIN order'[e] /\ order'[e][i] = [name |-> mods'[o].name, mod |-> o]
      BY <1>5, <2>2, <3>2
    <3>4. ASSUME NEW j \in DOMAIN order'[e], order'[e][j].mod = o
          PROVE  order'[e][j].name = mods'[o].name
      <4>1. j # Len(order[e]) + 1
        BY <1>5, <3>1, <3>4
      <4>2. j \in DOMAIN order[e]
        BY <1>5, <4>1
      <4> QED BY <1>5, <2>2, <2>3, <2>5, <3>4, <4>2 DEF OwnEntry
    <3>5. mods'[o].by = e
      BY <2>2, <2>5
    <3> QED BY <2>2, <2>3, <3>3, <3>4, <3>5 DEF OwnEntry
  <2> QED BY <2>2, <2>3, <2>4, <2>5
<1>8. ASSUME NEW o \in 1..Len(objs), o \notin 1..Len(mods)
      PROVE  /\ <<mods'[o].name, mods'[o].src>> \notin mods'[o].env.modules
             /\ OwnEntry(e, o)' /\ mods'[o].by = e
  <2>1. /\ o = m /\ mods'[o].by = e /\ mods'[o].name = call[e].name
        /\ <<mods'[o].name, mods'[o].src>> \notin mods'[o].env.modules
    BY <1>1, <1>8
  <2>2. order'[e][Len(order[e]) + 1] = [name |-> mods'[o].name, mod |-> o]
    BY <1>5, <2>1
  <2>3. Len(order[e]) + 1 \in DOMAIN order'[e]
    BY <1>5
  <2>4. ASSUME NEW j \in DOMAIN order'[e], order'[e][j].mod = o
        PROVE  order'[e][j].name = mods'[o].name
    <3>1. j \notin DOMAIN order[e]
      BY <1>5, <1>8, <2>4
    <3>2. j = Len(order[e]) + 1
      BY <1>5, <3>1
    <3> QED BY <2>2, <3>2
  <2> QED BY <2>1, <2>2, <2>3, <2>4 DEF OwnEntry
<1>9. OwnModules'
  <2> SUFFICES ASSUME NEW o \in 1..Len(mods')
               PROVE  /\ <<mods'[o].name, mods'[o].src>> \notin mods'[o].env.modules
                      /\ OwnEntry(mods[o].by, o)'
    BY DEF OwnModules
  <2>1. CASE o \in 1..Len(mods)
    BY <1>7, <2>1
  <2>2. CASE o \notin 1..Len(mods)
    BY <1>1, <1>8, <2>2 DEF OwnEntry
  <2> QED BY <2>1, <2>2
<1> QED BY <1>6, <1>9 DEF NamesInv

\* A hit is never the engine's own module: its key has what the module's has not.
LEMMA LookupHitNames ==
  ASSUME IInv, NamesInv, NEW e \in Engines, LookupHit(e)
  PROVE  NamesInv'
<1> DEFINE st == cacheStore[e]
<1>1. PICK m \in Get(modules[st], computeModuleCacheKey(e, call[e].src)) : Succeed(e, mods, m)
  BY DEF LookupHit
<1>2. PICK c \in modules[st] :
        c.obj = m /\ c.key = [src |-> call[e].src, fp |-> writeModuleEnvSection(e)]
  BY FingerprintIsSection DEF Get, computeModuleCacheKey, IInv
<1>3. st \in Stores
  BY DEF IInv, TypeOK, LimitsOK
<1>4. m \in 1..Len(mods) /\ c.key = [src |-> mods[m].src, fp |-> mods[m].env]
  BY <1>2, <1>3 DEF IInv, TypeOK, CachesOK, Contents, CacheSound
<1>5. mods[m].env.modules = StoreSources(e)
  BY <1>2, <1>4 DEF writeModuleEnvSection
<1>6. mods[m].by # e
  <2> SUFFICES ASSUME mods[m].by = e PROVE FALSE
    OBVIOUS
  <2>1. <<mods[m].name, mods[m].src>> \notin mods[m].env.modules
    BY <1>4 DEF NamesInv, OwnModules
  <2>2. PICK i \in DOMAIN order[e] : order[e][i] = [name |-> mods[m].name, mod |-> m]
    BY <1>4 DEF NamesInv, OwnModules, OwnEntry
  <2>3. NameSource(order[e][i]) = <<mods[m].name, mods[m].src>>
    BY <2>2 DEF NameSource
  <2>4. <<mods[m].name, mods[m].src>> \in StoreSources(e)
    BY <2>2, <2>3 DEF StoreSources
  <2> QED BY <1>5, <2>1, <2>4
<1>7. Extends(mods)
  BY AppendSeq DEF Extends, IInv, Contents, Heap
<1> QED BY <1>1, <1>4, <1>6, <1>7, SucceedNames

\* A compiled module's name was free when its key was made.
LEMMA CompileModuleNames ==
  ASSUME IInv, NamesInv, NEW e \in Engines, compileModule(e)
  PROVE  NamesInv'
<1>1. PICK cm : cm = CompiledModule(e, call[e].name, call[e].src)
  OBVIOUS
<1>2. PICK objs : objs = Append(mods, cm)
  OBVIOUS
<1>3. PICK m : m = Len(mods) + 1
  OBVIOUS
<1>4. call[e].op = "compile" /\ Succeed(e, objs, m)
  BY <1>1, <1>2, <1>3 DEF compileModule
<1>5. call[e].src \in Sources /\ call[e].name \in NamesOf[call[e].src]
  BY <1>4 DEF IInv, Contents, Calls
<1>6. /\ ModuleFits(cm) /\ cm.by = e /\ cm.name = call[e].name
      /\ cm.env = writeModuleEnvSection(e)
  BY <1>1, <1>5, CompiledModuleFits DEF CompiledModule
<1>7. /\ Len(mods) \in Nat /\ IsSeq(objs) /\ Len(objs) = m /\ objs[m] = cm
      /\ \A i \in 1..Len(mods) : objs[i] = mods[i]
  BY <1>2, <1>3, AppendSeq DEF IInv, Contents, Heap
<1>8. Extends(objs)
  BY <1>3, <1>6, <1>7 DEF Extends, IInv, Contents, Heap
<1>9. <<cm.name, cm.src>> \notin cm.env.modules
  <2>1. cm.name \notin Registered(e)
    BY <1>4, <1>6 DEF NamesInv, NamesFree, Has
  <2>2. \A x \in StoreSources(e) : \E n \in Registered(e) : \E s : x = <<n, s>>
    BY DEF StoreSources, NameSource, Registered
  <2>3. cm.env.modules = StoreSources(e)
    BY <1>6 DEF writeModuleEnvSection
  <2> QED BY <2>1, <2>2, <2>3
<1>10. m \in 1..Len(objs) /\ m \notin 1..Len(mods)
       /\ \A o \in 1..Len(objs) : o \notin 1..Len(mods) => o = m
  BY <1>3, <1>7
<1> QED BY <1>4, <1>6, <1>7, <1>8, <1>9, <1>10, SucceedNames

\* Every step keeps the names.
LEMMA NextNames ==
  ASSUME IInv, NamesInv, [Next]_vars
  PROVE  NamesInv'
<1>0. call \in [Engines -> [op : {"idle", "lookup", "compile", "runtime"},
                            src : Texts \cup {None}, name : Names \cup {None},
                            rec : BOOLEAN, saved : BOOLEAN, path : Paths \cup {None}]]
  BY DEF IInv, TypeOK, CallOK
<1>1. ASSUME order' = order, mods' = mods, call' = call
      PROVE  NamesInv'
  BY <1>1, NamesFrame DEF NamesInv, NamesFree, Has, Registered
<1>2. ASSUME NEW e \in Engines, order' = order, mods' = mods, NEW c, call' = [call EXCEPT ![e] = c],
             \/ c.op \notin {"lookup", "compile"}
             \/ call[e].op \in {"lookup", "compile"} /\ c.name = call[e].name
             \/ ~Has(e, c.name)
      PROVE  NamesInv'
  <2>1. call'[e] = c /\ \A x \in Engines \ {e} : call'[x] = call[x]
    BY <1>0, <1>2
  <2>2. NamesFree'
    BY <1>2, <2>1 DEF NamesInv, NamesFree, Has, Registered
  <2> QED BY <1>2, <2>2, NamesFrame
<1>3. CASE UNCHANGED vars
  BY <1>1, <1>3 DEF vars, storeVars, cacheVars
<1>4. ASSUME NEW e \in Engines, ConfigureHost(e) \/ ConfigureLimits(e)
      PROVE  NamesInv'
  <2>1. Configuring(e)
    BY <1>4 DEF ConfigureHost, ConfigureLimits, DeclareBinding, DeclareAssumption, RegisterType,
       EnableRecursion, RegisterRewriteRule, RegisterPrim, RegisterPrimWithKey, SetCompilerLimit,
       SetRuntimeLimit, SetFlags, SetEntryPoint, DenyAssumptions, EnableVerifyIR, DisableInlining,
       SetCacheStore
  <2> QED BY <1>1, <2>1 DEF Configuring, storeVars, cacheVars
<1>5. ASSUME NEW e \in Engines, NEW name, NEW src, NEW rec, NEW path,
             Register(e, name, src, rec, path)
      PROVE  NamesInv'
  <2>1. PICK c : c = [op |-> "lookup", src |-> src, name |-> name, rec |-> rec,
                      saved |-> host[e].gatedBuiltins, path |-> path]
    OBVIOUS
  <2>2. /\ call' = [call EXCEPT ![e] = c] /\ c.name = name /\ ~Has(e, name)
        /\ order' = order /\ mods' = mods
    BY <1>5, <2>1 DEF Register, storeVars, cacheVars
  <2> QED BY <1>2, <2>2
<1>6. ASSUME NEW e \in Engines, CompileModules(e)
      PROVE  NamesInv'
  <2>1. CASE LookupMiss(e)
    <3>1. PICK c : c = [call[e] EXCEPT !.op = "compile"]
      OBVIOUS
    <3>2. /\ call' = [call EXCEPT ![e] = c] /\ order' = order /\ mods' = mods
          /\ call[e].op = "lookup"
      BY <2>1, <3>1 DEF LookupMiss, storeVars, cacheVars
    <3>3. c.name = call[e].name
      BY <1>0, <3>1
    <3> QED BY <1>2, <3>2, <3>3
  <2>2. CASE CompileFails(e)
    BY <1>2, <2>2 DEF CompileFails, Fail, storeVars, cacheVars, Idle
  <2> QED BY <1>5, <1>6, <2>1, <2>2, LookupHitNames, CompileModuleNames
      DEF CompileModules, RegisterModule, RegisterModuleRec, RegisterModuleFile
<1>7. ASSUME NEW e \in Engines, CompilePrograms(e)
      PROVE  NamesInv'
  <2>1. CASE Analyze(e)
    BY <1>1, <2>1 DEF Analyze, storeVars, cacheVars
  <2>2. ASSUME NEW src \in Mains, NewRuntime(e, src)
        PROVE  NamesInv'
    <3>1. PICK c : c = [[call[e] EXCEPT !.op = "runtime"] EXCEPT !.src = src]
      OBVIOUS
    <3>2. /\ call' = call \/ call' = [call EXCEPT ![e] = c]
          /\ order' = order /\ mods' = mods
      BY <1>0, <2>2, <3>1 DEF NewRuntime, storeVars, cacheVars
    <3>3. c.op = "runtime"
      BY <1>0, <3>1
    <3> QED BY <1>1, <1>2, <3>2, <3>3
  <2>3. CASE assembleRuntime(e)
    BY <1>2, <2>3 DEF assembleRuntime, storeVars, Idle
  <2>4. CASE RuntimeFails(e)
    BY <1>2, <2>4 DEF RuntimeFails, storeVars, cacheVars, Idle
  <2> QED BY <1>7, <2>1, <2>2, <2>3, <2>4 DEF CompilePrograms
<1>8. ASSUME NEW st \in Stores, ResetModule(st) \/ ResetRuntime(st)
      PROVE  NamesInv'
  BY <1>1, <1>8 DEF ResetModule, ResetRuntime, storeVars
<1> QED BY <1>3, <1>4, <1>6, <1>7, <1>8 DEF Next

\* Whatever names texts are registered under, in any engines that share any
\* stores, an engine has its own modules under the names they were compiled
\* with: compileVar can fail only on a module of another engine.
THEOREM KeepsNames == Spec => []OwnNamesKept
<1>1. Init => IInv /\ NamesInv
  <2> SUFFICES ASSUME Init PROVE NamesInv
    BY InitIInv
  <2>1. NamesFree
    BY DEF Init, NamesFree, Idle
  <2>2. OwnModules
    BY DEF Init, OwnModules
  <2> QED BY <2>1, <2>2 DEF NamesInv
<1>2. (IInv /\ NamesInv) /\ [Next]_vars => (IInv /\ NamesInv)'
  BY NextIInv, NextNames
<1>3. IInv /\ NamesInv => OwnNamesKept
  <2> SUFFICES ASSUME IInv, NamesInv, NEW o \in DOMAIN mods
               PROVE  {order[mods[o].by][i].name :
                        i \in {j \in DOMAIN order[mods[o].by] : order[mods[o].by][j].mod = o}}
                      = {mods[o].name}
    BY DEF OwnNamesKept
  <2>1. o \in 1..Len(mods)
    <3>1. PICK S : mods \in Seq(S)
      BY DEF IInv, Contents, Heap, IsSeq
    <3> QED BY <3>1
  <2>2. OwnEntry(mods[o].by, o)
    BY <2>1 DEF NamesInv, OwnModules
  <2>3. PICK i \in DOMAIN order[mods[o].by] :
          order[mods[o].by][i] = [name |-> mods[o].name, mod |-> o]
    BY <2>2 DEF OwnEntry
  <2>4. order[mods[o].by][i].mod = o /\ order[mods[o].by][i].name = mods[o].name
    BY <2>3
  <2> QED BY <2>2, <2>4 DEF OwnEntry
<1> QED BY <1>1, <1>2, <1>3, PTL DEF Spec

-----------------------------------------------------------------------------
(* Runs of shared runtimes. A run enters its program with its own host     *)
(* values and with every binding evaluated, and the template it may have   *)
(* copied is final. That a binding has been evaluated needs a fact about   *)
(* the engines: a text that reads a host binding is only part of runtimes  *)
(* that declare one (Declared), although the text may have been compiled   *)
(* by another engine. It holds because the bindings are part of a module's *)
(* key and no call removes one.                                            *)


ModulesDeclared ==
  \A i \in 1..Len(mods) : mods[i].src \in NeedsHost => mods[i].env.bindings # {}

StoresDeclared ==
  \A e \in Engines : \A i \in DOMAIN order[e] :
    mods[order[e][i].mod].src \in NeedsHost => host[e].bindings # {}

RuntimesDeclared ==
  \A o \in 1..Len(rts) :
    rts[o].src \in NeedsHost \/ ModulesReadHost(o) => rts[o].bindings # {}

Declared == ModulesDeclared /\ StoresDeclared /\ RuntimesDeclared /\ Len(rts) <= MaxRts

\* A run past RunWith has its runtime and the host values it declares.
RunOK(r) ==
  /\ run[r].pc # "idle" =>
       /\ run[r].rt \in 1..Len(rts)
       /\ run[r].host # None <=> rts[run[r].rt].bindings # {}
       /\ rts[run[r].rt].bindings # {} => run[r].globals.host = run[r].host
  /\ run[r].pc \in {"publish", "entry"} =>
       run[r].globals.mods # None /\ run[r].globals.main # None

TemplatesComplete ==
  \A o \in 1..MaxRts : template[o] # None => template[o].mods # None /\ template[o].main # None

RunInv == RunTypeOK /\ TemplatesComplete /\ \A r \in Runs : RunOK(r)

SystemInv == IInv /\ Declared /\ RunInv

-----------------------------------------------------------------------------
(* Steps of the engines.                                                   *)

\* No step of an engine removes a binding.
BindingsStay == \A x \in Engines : host[x].bindings \subseteq host'[x].bindings

\* A step that changes no object and no store.
LEMMA DeclaredFrame ==
  ASSUME Declared, order' = order, mods' = mods, rts' = rts, BindingsStay
  PROVE  Declared'
<1>1. ModulesDeclared'
  BY DEF Declared, ModulesDeclared
<1>2. StoresDeclared'
  BY DEF Declared, StoresDeclared, BindingsStay
<1>3. RuntimesDeclared'
  <2>1. \A o \in 1..Len(rts) : ModulesReadHost(o)' = ModulesReadHost(o)
    BY DEF ModulesReadHost
  <2> QED BY <2>1 DEF Declared, RuntimesDeclared
<1> QED BY <1>1, <1>2, <1>3 DEF Declared

\* Configuring an engine adds bindings at most.
LEMMA ConfigureDeclared ==
  ASSUME IInv, Declared, NEW e \in Engines, ConfigureHost(e) \/ ConfigureLimits(e)
  PROVE  Declared' /\ UNCHANGED <<order, mods, rts>>
<1>1. Configuring(e)
  BY DEF ConfigureHost, ConfigureLimits, DeclareBinding, DeclareAssumption, RegisterType,
     EnableRecursion, RegisterRewriteRule, RegisterPrim, RegisterPrimWithKey, SetCompilerLimit,
     SetRuntimeLimit, SetFlags, SetEntryPoint, DenyAssumptions, EnableVerifyIR, DisableInlining,
     SetCacheStore
<1>2. order' = order /\ mods' = mods /\ rts' = rts
  BY <1>1 DEF Configuring, storeVars, cacheVars
<1>3. BindingsStay
  <2>1. host \in [Engines -> HostEnvs]
    BY DEF IInv, TypeOK, HostOK
  <2>2. CASE ConfigureLimits(e)
    BY <2>2 DEF BindingsStay, ConfigureLimits, SetCompilerLimit, SetRuntimeLimit, SetFlags,
       SetEntryPoint, DenyAssumptions, EnableVerifyIR, DisableInlining, SetCacheStore, hostVars
  <2>3. CASE ConfigureHost(e)
    <3>1. \/ host' = host
          \/ \E d \in Decls : host' = [host EXCEPT ![e].bindings = @ \cup {d}]
          \/ \E d \in Decls : host' = [host EXCEPT ![e].assumptions = @ \cup {d}]
          \/ \E d \in Decls : host' = [host EXCEPT ![e].registeredTys = @ \cup {d}]
          \/ host' = [host EXCEPT ![e].gatedBuiltins = TRUE]
          \/ host' = [host EXCEPT ![e].rewriteRules = TRUE]
      BY <2>3 DEF ConfigureHost, DeclareBinding, DeclareAssumption, RegisterType,
         EnableRecursion, RegisterRewriteRule, RegisterPrim, RegisterPrimWithKey
    <3> QED BY <2>1, <3>1 DEF BindingsStay, HostEnvs
  <2> QED BY <2>2, <2>3
<1> QED BY <1>2, <1>3, DeclaredFrame

\* Restoring the gates after RegisterModuleRec leaves the bindings.
LEMMA GatesKeepBindings ==
  ASSUME IInv, NEW e \in Engines, RestoreGates(e)
  PROVE  BindingsStay
BY DEF BindingsStay, RestoreGates, IInv, TypeOK, HostOK, HostEnvs

\* Gating the builtins of an engine leaves the bindings of every engine as they were.
LEMMA GatingKeepsBindings ==
  ASSUME HostOK, NEW e \in Engines,
         host' = host \/ host' = [host EXCEPT ![e].gatedBuiltins = TRUE]
  PROVE  BindingsStay
<1>1. host \in [Engines -> HostEnvs]
  BY DEF HostOK
<1>2. ASSUME NEW x \in Engines
      PROVE  host'[x].bindings = host[x].bindings
  <2>1. CASE host' = host
    BY <2>1
  <2>2. CASE host' = [host EXCEPT ![e].gatedBuiltins = TRUE] /\ x # e
    BY <1>1, <2>2
  <2>3. CASE host' = [host EXCEPT ![e].gatedBuiltins = TRUE] /\ x = e
    <3>1. host'[e] = [host[e] EXCEPT !.gatedBuiltins = TRUE]
      BY <1>1, <2>3
    <3>2. host[e] \in HostEnvs
      BY <1>1
    <3> QED BY <2>3, <3>1, <3>2 DEF HostEnvs
  <2> QED BY <2>1, <2>2, <2>3
<1> QED BY <1>2 DEF BindingsStay

\* The modules a runtime has read the same when their texts stay.
LEMMA ReadsFrame ==
  ASSUME IInv, NEW o \in 1..Len(rts), rts'[o] = rts[o],
         \A i \in 1..Len(mods) : mods'[i].src = mods[i].src
  PROVE  ModulesReadHost(o)' = ModulesReadHost(o)
<1>1. rts[o].entries \in Seq([name : Names, mod : 1..Len(mods)])
  BY DEF IInv, Contents, Heap, RuntimeFits
<1>2. \A i \in DOMAIN rts[o].entries : rts[o].entries[i].mod \in 1..Len(mods)
  BY <1>1, EntryTypes DEF EntrySet
<1> QED BY <1>2 DEF ModulesReadHost

\* A module compiled or found in the cache reads bindings only if its new
\* engine declares some.
LEMMA SucceedDeclared ==
  ASSUME IInv, Declared, NEW e \in Engines, NEW objs, NEW m \in 1..Len(objs),
         Extends(objs), Succeed(e, objs, m), objs[m].env = writeModuleEnvSection(e),
         \A i \in 1..Len(objs) : objs[i].src \in NeedsHost => objs[i].env.bindings # {}
  PROVE  Declared'
<1>1. /\ IsSeq(mods') /\ Len(mods') = Len(objs)
      /\ \A i \in 1..Len(objs) : mods'[i].src = objs[i].src /\ mods'[i].env = objs[i].env
  BY SucceedHeap
<1>2. \A i \in 1..Len(mods) : i \in 1..Len(objs) /\ mods'[i].src = mods[i].src
  <2>1. Len(mods) \in Nat
    BY AppendSeq DEF IInv, Contents, Heap
  <2> QED BY <1>1, <2>1 DEF Extends
<1>3. /\ RestoreGates(e) /\ rts' = rts
      /\ order' = [order EXCEPT ![e] = Append(@, [name |-> call[e].name, mod |-> m])]
  BY DEF Succeed
<1>4. BindingsStay
  BY <1>3, GatesKeepBindings
<1>5. ModulesDeclared'
  BY <1>1 DEF ModulesDeclared
<1>6. StoresDeclared'
  <2> SUFFICES ASSUME NEW x \in Engines, NEW i \in DOMAIN order'[x],
                      mods'[order'[x][i].mod].src \in NeedsHost
               PROVE  host'[x].bindings # {}
    BY DEF StoresDeclared
  <2>1. order[x] \in Seq([name : Names, mod : 1..Len(mods)]) /\ order \in [Engines -> Seq([name : Names, mod : 1..Len(mods)])]
    BY DEF IInv, TypeOK, StoreOK
  <2>2. /\ Len(order[x]) \in Nat /\ DOMAIN order[x] = 1..Len(order[x])
        /\ \A j \in DOMAIN order[x] : order[x][j].mod \in 1..Len(mods)
    BY <2>1, EntryTypes DEF EntrySet
  <2>3. CASE i \in DOMAIN order[x] /\ order'[x][i] = order[x][i]
    <3>1. mods[order[x][i].mod].src \in NeedsHost
      BY <1>2, <2>2, <2>3
    <3> QED BY <1>4, <2>3, <3>1 DEF Declared, StoresDeclared, BindingsStay
  <2>4. CASE x = e /\ order'[x][i] = [name |-> call[e].name, mod |-> m]
    <3>1. objs[m].src \in NeedsHost
      BY <1>1, <2>4
    <3>2. objs[m].env.bindings = host[e].bindings
      BY DEF writeModuleEnvSection
    <3> QED BY <1>4, <2>4, <3>1, <3>2 DEF BindingsStay
  <2>5. \/ i \in DOMAIN order[x] /\ order'[x][i] = order[x][i]
        \/ x = e /\ order'[x][i] = [name |-> call[e].name, mod |-> m]
    <3>1. CASE x # e
      BY <1>3, <2>1, <3>1
    <3>2. CASE x = e
      <4>1. order'[x] = Append(order[x], [name |-> call[e].name, mod |-> m])
        BY <1>3, <2>1, <3>2
      <4>2. IsSeq(order[x])
        BY <2>1 DEF IsSeq
      <4>3. i \in 1..(Len(order[x]) + 1)
        BY <4>1, <4>2, AppendSeq DEF IsSeq
      <4> QED BY <2>2, <3>2, <4>1, <4>2, <4>3, AppendSeq
    <3> QED BY <3>1, <3>2
  <2> QED BY <2>3, <2>4, <2>5
<1>7. RuntimesDeclared'
  <2>1. \A o \in 1..Len(rts) : ModulesReadHost(o)' = ModulesReadHost(o)
    BY <1>2, <1>3, ReadsFrame
  <2> QED BY <1>3, <2>1 DEF Declared, RuntimesDeclared
<1> QED BY <1>3, <1>5, <1>6, <1>7 DEF Declared

\* LookupHit: the object has the environment of the engine that takes it.
LEMMA LookupHitDeclared ==
  ASSUME IInv, Declared, NEW e \in Engines, LookupHit(e)
  PROVE  Declared'
<1> DEFINE st == cacheStore[e]
<1>1. PICK m \in Get(modules[st], computeModuleCacheKey(e, call[e].src)) : Succeed(e, mods, m)
  BY DEF LookupHit
<1>2. PICK c \in modules[st] :
        c.obj = m /\ c.key = [src |-> call[e].src, fp |-> writeModuleEnvSection(e)]
  BY FingerprintIsSection DEF Get, computeModuleCacheKey, IInv
<1>3. st \in Stores
  BY DEF IInv, TypeOK, LimitsOK
<1>4. m \in 1..Len(mods) /\ c.key = [src |-> mods[m].src, fp |-> mods[m].env]
  BY <1>2, <1>3 DEF IInv, TypeOK, CachesOK, Contents, CacheSound
<1>5. mods[m].env = writeModuleEnvSection(e)
  BY <1>2, <1>4
<1>6. Extends(mods)
  BY AppendSeq DEF Extends, IInv, Contents, Heap
<1> QED BY <1>1, <1>4, <1>5, <1>6, SucceedDeclared DEF Declared, ModulesDeclared

\* compileModule: the checker has found the bindings that the text reads.
LEMMA CompileModuleDeclared ==
  ASSUME IInv, Declared, NEW e \in Engines, compileModule(e)
  PROVE  Declared'
<1>1. PICK cm : cm = CompiledModule(e, call[e].name, call[e].src)
  OBVIOUS
<1>2. PICK objs : objs = Append(mods, cm)
  OBVIOUS
<1>3. PICK m : m = Len(mods) + 1
  OBVIOUS
<1>4. call[e].op = "compile" /\ Checks(e, call[e].src) /\ Succeed(e, objs, m)
  BY <1>1, <1>2, <1>3 DEF compileModule, Compiles
<1>5. call[e].src \in Sources /\ call[e].name \in NamesOf[call[e].src]
  BY <1>4 DEF IInv, Contents, Calls
<1>6. ModuleFits(cm) /\ cm.src = call[e].src /\ cm.env = writeModuleEnvSection(e)
  BY <1>1, <1>5, CompiledModuleFits DEF CompiledModule
<1>7. /\ Len(mods) \in Nat /\ IsSeq(objs) /\ Len(objs) = m /\ objs[m] = cm
      /\ \A i \in 1..Len(mods) : objs[i] = mods[i]
  BY <1>2, <1>3, AppendSeq DEF IInv, Contents, Heap
<1>8. Extends(objs)
  BY <1>3, <1>6, <1>7 DEF Extends, IInv, Contents, Heap
<1>9. cm.env.bindings = host[e].bindings
  BY <1>6 DEF writeModuleEnvSection
<1>10. \A i \in 1..Len(objs) : objs[i].src \in NeedsHost => objs[i].env.bindings # {}
  BY <1>3, <1>4, <1>6, <1>7, <1>9 DEF Declared, ModulesDeclared, Checks
<1>11. m \in 1..Len(objs)
  BY <1>3, <1>7
<1> QED BY <1>4, <1>6, <1>7, <1>8, <1>10, <1>11, SucceedDeclared

\* assembleRuntime: the runtime has the modules and the bindings of the engine.
LEMMA AssembleDeclared ==
  ASSUME IInv, Declared, NEW e \in Engines, assembleRuntime(e)
  PROVE  /\ Declared' /\ Len(rts) \in Nat /\ Len(rts') = Len(rts) + 1
         /\ \A o \in 1..Len(rts) : rts'[o] = rts[o]
<1>1. PICK rt : rt = AssembledRuntime(e, call[e].src)
  OBVIOUS
<1>2. /\ rts' = Append(rts, rt) /\ Checks(e, call[e].src) /\ Len(rts) < MaxRts
      /\ order' = order /\ mods' = mods /\ host' = host
  BY <1>1 DEF assembleRuntime, MainCompiles, storeVars, hostVars
<1>3. /\ Len(rts) \in Nat /\ Len(rts') = Len(rts) + 1
      /\ rts'[Len(rts) + 1] = rt /\ \A o \in 1..Len(rts) : rts'[o] = rts[o]
  BY <1>2, AppendSeq DEF IInv, Contents, Heap
<1>4. rt.src = call[e].src /\ rt.entries = order[e] /\ rt.bindings = host[e].bindings
  BY <1>1 DEF AssembledRuntime
<1>5. ModulesDeclared' /\ StoresDeclared'
  BY <1>2 DEF Declared, ModulesDeclared, StoresDeclared
<1>6. ASSUME NEW o \in 1..Len(rts'), rts'[o].src \in NeedsHost \/ ModulesReadHost(o)'
      PROVE  rts'[o].bindings # {}
  <2>1. CASE o \in 1..Len(rts)
    <3>1. ModulesReadHost(o)' = ModulesReadHost(o)
      BY <1>2, <1>3, <2>1 DEF ModulesReadHost
    <3> QED BY <1>3, <1>6, <2>1, <3>1 DEF Declared, RuntimesDeclared
  <2>2. CASE o = Len(rts) + 1
    <3>1. rts'[o] = rt
      BY <1>3, <2>2
    <3>2. CASE rt.src \in NeedsHost
      BY <1>2, <1>4, <3>1, <3>2 DEF Checks
    <3>3. CASE ModulesReadHost(o)'
      <4>1. \E i \in DOMAIN order[e] : mods[order[e][i].mod].src \in NeedsHost
        BY <1>2, <1>4, <3>1, <3>3 DEF ModulesReadHost
      <4> QED BY <1>4, <3>1, <4>1 DEF Declared, StoresDeclared
    <3> QED BY <1>6, <3>1, <3>2, <3>3
  <2> QED BY <1>3, <2>1, <2>2
<1>7. Len(rts') <= MaxRts
  BY <1>2, <1>3, BoundsAssumption
<1> QED BY <1>3, <1>5, <1>6, <1>7 DEF Declared, RuntimesDeclared

\* A step of the engines keeps every runtime and its declarations.
LEMMA EngineStep ==
  ASSUME IInv, Declared, [Next]_vars
  PROVE  /\ Declared' /\ Len(rts) \in Nat /\ Len(rts') \in Nat /\ Len(rts') >= Len(rts)
         /\ \A o \in 1..Len(rts) : rts'[o] = rts[o]
<1>0. Len(rts) \in Nat
  BY AppendSeq DEF IInv, Contents, Heap
<1>1. ASSUME Declared' /\ UNCHANGED <<order, mods, rts>>
      PROVE  /\ Declared' /\ Len(rts) \in Nat /\ Len(rts') \in Nat /\ Len(rts') >= Len(rts)
             /\ \A o \in 1..Len(rts) : rts'[o] = rts[o]
  BY <1>0, <1>1
<1>2. ASSUME order' = order, mods' = mods, rts' = rts, BindingsStay
      PROVE  Declared' /\ UNCHANGED <<order, mods, rts>>
  BY <1>2, DeclaredFrame
<1>3. CASE UNCHANGED vars
  BY <1>1, <1>2, <1>3 DEF vars, storeVars, cacheVars, hostVars, BindingsStay
<1>4. ASSUME NEW e \in Engines, ConfigureHost(e) \/ ConfigureLimits(e)
      PROVE  Declared' /\ UNCHANGED <<order, mods, rts>>
  BY <1>4, ConfigureDeclared
<1>5. ASSUME NEW e \in Engines, CompileModules(e)
      PROVE  Declared' /\ rts' = rts
  <2>1. ASSUME NEW src \in Sources, NEW name \in NamesOf[src],
               \/ RegisterModule(e, name, src) \/ RegisterModuleRec(e, name, src)
               \/ \E path \in Paths : RegisterModuleFile(e, name, src, path)
        PROVE  Declared' /\ rts' = rts
    <3>1. order' = order /\ mods' = mods /\ rts' = rts
      BY <2>1 DEF RegisterModule, RegisterModuleRec, RegisterModuleFile, Register, storeVars,
         cacheVars
    <3>2. host' = host \/ host' = [host EXCEPT ![e].gatedBuiltins = TRUE]
      BY <2>1 DEF RegisterModule, RegisterModuleRec, RegisterModuleFile
    <3>3. BindingsStay
      BY <3>2, GatingKeepsBindings DEF IInv, TypeOK
    <3> QED BY <1>2, <3>1, <3>3
  <2>2. CASE LookupHit(e)
    <3>1. rts' = rts
      BY <2>2 DEF LookupHit, Succeed
    <3> QED BY <2>2, <3>1, LookupHitDeclared
  <2>3. CASE LookupMiss(e)
    BY <1>2, <2>3 DEF LookupMiss, storeVars, cacheVars, hostVars, BindingsStay
  <2>4. CASE compileModule(e)
    <3>1. rts' = rts
      BY <2>4 DEF compileModule, Succeed
    <3> QED BY <2>4, <3>1, CompileModuleDeclared
  <2>5. CASE CompileFails(e)
    <3>1. order' = order /\ mods' = mods /\ rts' = rts /\ RestoreGates(e)
      BY <2>5 DEF CompileFails, Fail, storeVars, cacheVars
    <3> QED BY <1>2, <3>1, GatesKeepBindings
  <2> QED BY <1>5, <2>1, <2>2, <2>3, <2>4, <2>5 DEF CompileModules
<1>6. ASSUME NEW e \in Engines, CompilePrograms(e)
      PROVE  assembleRuntime(e) \/ (Declared' /\ rts' = rts)
  <2>1. CASE Analyze(e) \/ (\E src \in Mains : NewRuntime(e, src)) \/ RuntimeFails(e)
    <3>1. order' = order /\ mods' = mods /\ rts' = rts /\ host' = host
      BY <2>1 DEF Analyze, NewRuntime, RuntimeFails, storeVars, cacheVars, hostVars
    <3> QED BY <1>2, <3>1 DEF BindingsStay
  <2> QED BY <1>6, <2>1 DEF CompilePrograms
<1>7. ASSUME NEW st \in Stores, ResetModule(st) \/ ResetRuntime(st)
      PROVE  Declared' /\ rts' = rts
  BY <1>2, <1>7 DEF ResetModule, ResetRuntime, storeVars, hostVars, BindingsStay
<1>8. ASSUME Declared', rts' = rts
      PROVE  /\ Declared' /\ Len(rts) \in Nat /\ Len(rts') \in Nat /\ Len(rts') >= Len(rts)
             /\ \A o \in 1..Len(rts) : rts'[o] = rts[o]
  BY <1>0, <1>8
<1>9. CASE Next
  BY <1>1, <1>4, <1>5, <1>6, <1>7, <1>8, <1>9, AssembleDeclared DEF Next
<1> QED BY <1>1, <1>3, <1>9

-----------------------------------------------------------------------------
(* Steps of the runs.                                                      *)

\* What RunTypeOK says of a run and of a template.
Slot   == HostVals \cup {None, Pure}
Arrays == [host : Slot, mods : Slot, main : Slot]
PCs    == {"idle", "load", "eval", "publish", "entry"}
RunType(n) == [pc : PCs, rt : 0..n, host : HostVals \cup {None}, globals : Arrays]

\* RunTypeOK with its sets named.
LEMMA RunTypes ==
  RunTypeOK <=> template \in [1..MaxRts -> Arrays \cup {None}] /\ run \in [Runs -> RunType(Len(rts))]
BY DEF RunTypeOK, RunType, Arrays, Slot, PCs

\* Runs and templates do not depend on an engine that only adds runtimes.
LEMMA RunFrame ==
  ASSUME RunInv, UNCHANGED <<template, run>>, Len(rts) \in Nat, Len(rts') \in Nat,
         Len(rts') >= Len(rts), \A o \in 1..Len(rts) : rts'[o] = rts[o]
  PROVE  RunInv'
<1>1. RunTypeOK'
  <2>1. RunType(Len(rts)) \subseteq RunType(Len(rts'))
    BY DEF RunType
  <2>2. run' \in [Runs -> RunType(Len(rts'))]
    BY <2>1, RunTypes DEF RunInv
  <2> QED BY <2>2, RunTypes DEF RunInv, RunTypeOK, RunType, Arrays, Slot, PCs
<1>2. TemplatesComplete'
  BY DEF RunInv, TemplatesComplete
<1>3. ASSUME NEW r \in Runs PROVE RunOK(r)'
  <2>1. RunOK(r) /\ run'[r] = run[r]
    BY DEF RunInv
  <2> QED BY <2>1 DEF RunOK
<1> QED BY <1>1, <1>2, <1>3 DEF RunInv

\* Every step of a run keeps the invariant: what it reads of a runtime is there,
\* and what it evaluates is a value.
LEMMA RunStep ==
  ASSUME SystemInv, RunNext, UNCHANGED vars
  PROVE  RunInv'
<1>1. /\ template \in [1..MaxRts -> Arrays \cup {None}]
      /\ run \in [Runs -> RunType(Len(rts))]
      /\ TemplatesComplete
  BY RunTypes DEF SystemInv, RunInv
<1>2. rts' = rts /\ mods' = mods
  BY DEF vars, cacheVars
<1>3. Len(rts) \in Nat /\ Len(rts) <= MaxRts
  BY AppendSeq DEF SystemInv, Declared, IInv, Contents, Heap
<1>4. PICK r \in Runs :
        \/ \E o \in 1..Len(rts), v \in HostVals \cup {None} : RunWith(r, o, v)
        \/ LoadTemplate(r) \/ EvalBindings(r) \/ Publish(r) \/ Return(r)
  BY DEF RunNext
<1>5. RunOK(r) /\ run[r] \in RunType(Len(rts))
  BY <1>1 DEF SystemInv, RunInv
<1> DEFINE x == run'[r]
           Step == /\ run' = [run EXCEPT ![r] = x] /\ x \in RunType(Len(rts)) /\ RunOK(r)'
<1>6. ASSUME Step, template' \in [1..MaxRts -> Arrays \cup {None}], TemplatesComplete'
      PROVE  RunInv'
  <2>1. RunTypeOK'
    <3>1. run' \in [Runs -> RunType(Len(rts))]
      BY <1>1, <1>6
    <3> QED BY <1>2, <1>6, <3>1 DEF RunTypeOK, RunType, Arrays, Slot, PCs
  <2>2. ASSUME NEW q \in Runs PROVE RunOK(q)'
    <3>1. CASE q # r
      <4>1. run'[q] = run[q] /\ RunOK(q)
        BY <1>1, <1>6, <3>1 DEF SystemInv, RunInv
      <4> QED BY <1>2, <4>1 DEF RunOK
    <3> QED BY <1>6, <3>1
  <2> QED BY <1>6, <2>1, <2>2 DEF RunInv
<1>7. ASSUME template' = template, Step PROVE RunInv'
  <2>1. TemplatesComplete'
    BY <1>1, <1>7 DEF TemplatesComplete
  <2> QED BY <1>1, <1>6, <1>7, <2>1
<1>8. ASSUME NEW o \in 1..Len(rts), NEW v \in HostVals \cup {None}, RunWith(r, o, v)
      PROVE  RunInv'
  <2>1. /\ template' = template /\ (v # None <=> rts[o].bindings # {})
        /\ x = [pc |-> "load", rt |-> o, host |-> v, globals |-> [Nil EXCEPT !.host = v]]
        /\ run' = [run EXCEPT ![r] = x]
    BY <1>1, <1>8 DEF RunWith
  <2>2. [Nil EXCEPT !.host = v] \in Arrays /\ [Nil EXCEPT !.host = v].host = v
    BY DEF Nil, Arrays, Slot
  <2>3. x \in RunType(Len(rts))
    BY <1>3, <2>1, <2>2 DEF RunType, PCs
  <2>4. RunOK(r)'
    <3>1. PICK g : g = [Nil EXCEPT !.host = v]
      OBVIOUS
    <3>2. x = [pc |-> "load", rt |-> o, host |-> v, globals |-> g] /\ g.host = v
      BY <2>1, <2>2, <3>1
    <3> QED BY <1>2, <2>1, <3>2 DEF RunOK
  <2> QED BY <1>7, <2>1, <2>3, <2>4
<1>9. CASE LoadTemplate(r)
  <2> DEFINE o == run[r].rt
  <2>1. /\ run[r].pc = "load" /\ template' = template
        /\ run' = [run EXCEPT ![r] = x]
        /\ x.pc = IF template[o] = None THEN "eval" ELSE "entry"
        /\ x.rt = o /\ x.host = run[r].host
        /\ x.globals = IF template[o] = None THEN run[r].globals ELSE Reinstalled(o, run[r].host)
        /\ x = [pc |-> x.pc, rt |-> o, host |-> run[r].host, globals |-> x.globals]
    BY <1>1, <1>5, <1>9 DEF LoadTemplate, RunType
  <2>2. o \in 1..Len(rts) /\ o \in 1..MaxRts
    BY <1>3, <1>5, <2>1, BoundsAssumption DEF RunOK
  <2>3. CASE template[o] = None
    <3>1. x \in RunType(Len(rts))
      BY <1>5, <2>1, <2>3 DEF RunType, PCs
    <3>2. RunOK(r)'
      BY <1>2, <1>5, <2>1, <2>3 DEF RunOK
    <3> QED BY <1>7, <2>1, <3>1, <3>2
  <2>4. CASE template[o] # None
    <3>1. template[o] \in Arrays /\ template[o].mods # None /\ template[o].main # None
      BY <1>1, <2>2, <2>4 DEF TemplatesComplete
    <3>2. /\ x.globals \in Arrays
          /\ x.globals.mods # None /\ x.globals.main # None
          /\ rts[o].bindings # {} => x.globals.host = run[r].host
      BY <1>5, <2>1, <2>4, <3>1 DEF Reinstalled, Arrays, Slot, RunType
    <3>3. x \in RunType(Len(rts))
      BY <1>5, <2>1, <2>4, <3>2 DEF RunType, PCs
    <3>4. RunOK(r)'
      BY <1>2, <1>5, <2>1, <2>4, <3>2 DEF RunOK
    <3> QED BY <1>7, <2>1, <3>3, <3>4
  <2> QED BY <2>3, <2>4
<1>10. CASE EvalBindings(r)
  <2> DEFINE o == run[r].rt
             g == run[r].globals
             m == Evaluated(ModulesReadHost(o), g.host)
             p == Evaluated(rts[o].src \in NeedsHost, g.host)
  <2>1. /\ run[r].pc = "eval" /\ template' = template
        /\ x = [pc |-> "publish", rt |-> o, host |-> run[r].host,
                globals |-> [host |-> g.host, mods |-> m, main |-> p]]
        /\ run' = [run EXCEPT ![r] = x]
    BY <1>1, <1>5, <1>10 DEF EvalBindings, RunType, Arrays
  <2>2. o \in 1..Len(rts)
    BY <1>5, <2>1 DEF RunOK
  <2>3. rts[o].bindings # {} => g.host = run[r].host /\ run[r].host # None
    BY <1>5, <2>1 DEF RunOK
  <2>4. rts[o].src \in NeedsHost \/ ModulesReadHost(o) => g.host # None
    BY <2>2, <2>3 DEF SystemInv, Declared, RuntimesDeclared
  <2>5. g.host \in Slot
    BY <1>5 DEF RunType, Arrays
  <2>6. m \in Slot /\ p \in Slot /\ m # None /\ p # None
    BY <2>4, <2>5, HostValsAssumption DEF Evaluated, Pure, Slot
  <2>7. x \in RunType(Len(rts))
    BY <1>5, <2>1, <2>5, <2>6 DEF RunType, PCs, Arrays
  <2>8. RunOK(r)'
    BY <1>2, <1>5, <2>1, <2>6 DEF RunOK
  <2> QED BY <1>7, <2>1, <2>7, <2>8
<1>11. CASE Publish(r)
  <2> DEFINE o == run[r].rt
             g == run[r].globals
  <2>1. /\ run[r].pc = "publish"
        /\ template' = [template EXCEPT ![o] = IF @ = None THEN g ELSE @]
        /\ x = [pc |-> "entry", rt |-> o, host |-> run[r].host, globals |-> g]
        /\ run' = [run EXCEPT ![r] = x]
    BY <1>1, <1>5, <1>11 DEF Publish, RunType
  <2>2. g \in Arrays /\ g.mods # None /\ g.main # None
    BY <1>5, <2>1 DEF RunOK, RunType
  <2>3. template' \in [1..MaxRts -> Arrays \cup {None}]
    BY <1>1, <2>1, <2>2
  <2>4. TemplatesComplete'
    BY <1>1, <2>1, <2>2 DEF TemplatesComplete
  <2>5. x \in RunType(Len(rts))
    BY <1>5, <2>1 DEF RunType, PCs
  <2>6. RunOK(r)'
    BY <1>2, <1>5, <2>1, <2>2 DEF RunOK
  <2> QED BY <1>6, <2>1, <2>3, <2>4, <2>5, <2>6
<1>12. CASE Return(r)
  <2>1. template' = template /\ x = Unstarted /\ run' = [run EXCEPT ![r] = x]
    BY <1>1, <1>12 DEF Return
  <2>2. x \in RunType(Len(rts)) /\ RunOK(r)'
    BY <1>3, <2>1 DEF RunOK, Unstarted, Nil, RunType, Arrays, Slot, PCs
  <2> QED BY <1>7, <2>1, <2>2
<1> QED BY <1>4, <1>8, <1>9, <1>10, <1>11, <1>12

-----------------------------------------------------------------------------
(* The theorems.                                                           *)

\* The invariant of engines and runs holds in every reachable state.
THEOREM SystemInductive == System => []SystemInv
<1>1. SystemInit => SystemInv
  <2> SUFFICES ASSUME SystemInit PROVE SystemInv
    OBVIOUS
  <2>1. IInv
    BY InitIInv DEF SystemInit
  <2>2. Len(rts) = 0 /\ Len(mods) = 0 /\ \A e \in Engines : DOMAIN order[e] = {}
    BY DEF SystemInit, Init
  <2>3. Declared
    BY <2>2, BoundsAssumption DEF Declared, ModulesDeclared, StoresDeclared, RuntimesDeclared
  <2>4. RunTypeOK
    <3>1. Unstarted \in RunType(Len(rts))
      BY <2>2 DEF Unstarted, Nil, RunType, Arrays, Slot, PCs
    <3> QED BY <3>1, RunTypes DEF SystemInit, RunInit
  <2>5. TemplatesComplete /\ \A r \in Runs : RunOK(r)
    BY DEF SystemInit, RunInit, TemplatesComplete, RunOK, Unstarted
  <2> QED BY <2>1, <2>3, <2>4, <2>5 DEF SystemInv, RunInv
<1>2. SystemInv /\ [SystemNext]_allVars => SystemInv'
  <2> SUFFICES ASSUME SystemInv, [SystemNext]_allVars PROVE SystemInv'
    OBVIOUS
  <2>1. CASE [Next]_vars /\ UNCHANGED <<template, run>>
    <3>1. IInv'
      BY <2>1, NextIInv DEF SystemInv
    <3>2. /\ Declared' /\ Len(rts) \in Nat /\ Len(rts') \in Nat /\ Len(rts') >= Len(rts)
          /\ \A o \in 1..Len(rts) : rts'[o] = rts[o]
      BY <2>1, EngineStep DEF SystemInv
    <3>3. RunInv'
      BY <2>1, <3>2, RunFrame DEF SystemInv
    <3> QED BY <3>1, <3>2, <3>3 DEF SystemInv
  <2>2. CASE RunNext /\ UNCHANGED vars
    <3>1. IInv' /\ Declared'
      BY <2>2, NextIInv, EngineStep DEF SystemInv
    <3> QED BY <2>2, <3>1, RunStep DEF SystemInv
  <2> QED BY <2>1, <2>2 DEF SystemNext, allVars
<1> QED BY <1>1, <1>2, PTL DEF System

\* Concurrent runs of shared runtimes (executeVM): both parts keep their types,
\* and a run enters its program with its own host values and finds every other
\* binding evaluated, whichever run evaluated it and whichever engine compiled it.
THEOREM RunsAreConsistent == System => []RunsConsistent
<1>1. SystemInv => RunsConsistent
  <2> SUFFICES ASSUME SystemInv PROVE RunsConsistent
    OBVIOUS
  <2>1. TypeOK /\ RunTypeOK
    BY DEF SystemInv, IInv, RunInv
  <2>2. EntrySeesOwnHost
    BY DEF SystemInv, RunInv, EntrySeesOwnHost, AtEntry, RunOK
  <2> QED BY <2>1, <2>2 DEF RunsConsistent
<1> QED BY <1>1, SystemInductive, PTL

\* The array a run publishes (globalsOnce) is complete and never replaced, so
\* that runs copying it at different times start from the same values.
THEOREM TemplateIsFinal == System => TemplateFinal
<1> DEFINE Final == \A o \in DOMAIN template :
             /\ template[o] # None => template'[o] = template[o]
             /\ template'[o] # None => template'[o].mods # None /\ template'[o].main # None
<1>1. SystemInv /\ SystemInv' /\ [SystemNext]_allVars => [Final]_runVars
  <2> SUFFICES ASSUME SystemInv, SystemInv', [SystemNext]_allVars, ~UNCHANGED runVars
               PROVE  Final
    OBVIOUS
  <2>1. RunNext
    BY DEF SystemNext, allVars, runVars
  <2>2. template \in [1..MaxRts -> Arrays \cup {None}]
    BY RunTypes DEF SystemInv, RunInv
  <2>3. \A o \in 1..MaxRts :
          template'[o] # None => template'[o].mods # None /\ template'[o].main # None
    BY DEF SystemInv, RunInv, TemplatesComplete
  <2>4. \A o \in 1..MaxRts : template[o] # None => template'[o] = template[o]
    BY <2>1, <2>2 DEF RunNext, RunWith, LoadTemplate, EvalBindings, Publish, Return
  <2> QED BY <2>2, <2>3, <2>4
<1> QED BY <1>1, SystemInductive, PTL DEF System, TemplateFinal
=============================================================================
