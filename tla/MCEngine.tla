------------------------------ MODULE MCEngine ------------------------------
(***************************************************************************)
(* Two instances side by side. In part "runs" every text has one name, the *)
(* engines are configured and what they assemble is run. In part "names"   *)
(* hosts register one text under two names, and every engine starts with   *)
(* its own choice of primitives and is not configured any further.         *)
(***************************************************************************)
EXTENDS EngineRuns, TLC

CONSTANTS e1, e2, st1, st2, A, B, C, srcA, srcB, prog, reader, i1, i2, k1, k2, f, p, d, path1, r1, r2, v1, v2
VARIABLE part

OneName == srcA :> {A} @@ srcB :> {B}
TwoNames == srcA :> {A, C} @@ srcB :> {B}
ImportTable == [t \in Texts |-> CASE t = srcA -> {} [] t = prog -> {B} [] OTHER -> {A}]
SameCode == [i \in Impls |-> f]
OwnKeys == [i \in Impls |-> IF i = i1 THEN k1 ELSE k2]
Symmetry == Permutations(Engines) \cup Permutations(Runs) \cup Permutations(HostVals)

Configured == INSTANCE Engine WITH
  NamesOf <- TwoNames, Mains <- {prog}, Paths <- {}, MaxOps <- 0

\* What RegisterPrim or RegisterPrimWithKey leaves.
PrimChoices == [i : Impls, k : {None}] \cup {[i |-> i, k |-> Key[i]] : i \in Impls}

\* The configuring calls of part "names", all at once.
ChoosePrims ==
  /\ part = "choose" /\ part' = "names"
  /\ \E c \in [Engines -> PrimChoices] :
       /\ prims' = [e \in Engines |-> [q \in PrimNames |-> c[e].i]]
       /\ primKeys' = [e \in Engines |-> [q \in PrimNames |-> c[e].k]]
       /\ primSeq' = [e \in Engines |-> 1]
  /\ UNCHANGED <<host, storeVars, limitVars, fpVars, call, cacheVars, ops, template, run>>

PartsInit == part \in {"runs", "choose"} /\ SystemInit

\* A bound: while every run is under way no engine is inside a call. Calls only
\* add objects, so a run sees the same in between; the theorems do not need it.
Apart == (\A r \in Runs : run[r].pc # "idle") => \A e \in Engines : call[e] = Idle

PartsNext ==
  \/ part = "runs" /\ SystemNext /\ UNCHANGED part /\ Apart'
  \/ ChoosePrims
  \/ part = "names" /\ Configured!Next /\ UNCHANGED <<template, run, part>>

Parts == PartsInit /\ [][PartsNext]_<<allVars, part>>

\* Part "runs" alone.
RunsPart == part = "runs" /\ SystemInit /\ [][SystemNext /\ UNCHANGED part]_<<allVars, part>>
=============================================================================
