----------------------------- MODULE EngineRuns -----------------------------
(* Engines that share caches, together with the concurrent executions of   *)
(* the runtimes they hand out. A host runs any runtime assembled so far:   *)
(* its own, or one that another engine has left in the cache.              *)
EXTENDS Engine

CONSTANTS Runs, HostVals
VARIABLES template, run

ASSUME HostValsAssumption == None \notin HostVals \cup {"pure"}

INSTANCE RuntimeGlobals

allVars == <<vars, template, run>>

SystemInit == Init /\ RunInit
SystemNext == \/ Next /\ UNCHANGED <<template, run>>
              \/ RunNext /\ UNCHANGED vars
System == SystemInit /\ [][SystemNext]_allVars

\* Both parts are well typed, and when its entry point runs a run has its own
\* host value and finds every other binding evaluated, though the template and
\* the runtime came from another run and another engine (executeVM).
RunsConsistent == TypeOK /\ RunTypeOK /\ EntrySeesOwnHost
=============================================================================
