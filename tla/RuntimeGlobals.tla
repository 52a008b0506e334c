--------------------------- MODULE RuntimeGlobals ---------------------------
(***************************************************************************)
(* Concurrent executions of the runtimes that engines have assembled:      *)
(* Runtime.RunWith of app/engine. Every run has a global array of its own. *)
(* The first one to get through evaluates the bindings of the modules and  *)
(* of the program and publishes the array as a template; runs that start   *)
(* later copy it and put their own host bindings over the copy.            *)
(*                                                                         *)
(* The array is abstracted to three slots: the host binding, what the      *)
(* modules' bindings evaluate to and what the program's own bindings       *)
(* evaluate to. A value is the host value it was computed from, or Pure.   *)
(***************************************************************************)
EXTENDS Integers, Sequences

CONSTANTS Runs, HostVals, None, NeedsHost, MaxRts

VARIABLES
  rts, mods,       \* the runtimes and modules of Engine; only read here
  template,        \* Runtime.cachedGlobals
  run              \* the executions

runVars == <<template, run>>

Pure == "pure"
Nil  == [host |-> None, mods |-> None, main |-> None]
Unstarted == [pc |-> "idle", rt |-> 0, host |-> None, globals |-> Nil]

RunInit ==
  /\ template = [o \in 1..MaxRts |-> None]
  /\ run = [r \in Runs |-> Unstarted]

RunTypeOK ==
  LET Slot == HostVals \cup {None, Pure}
      Arrays == [host : Slot, mods : Slot, main : Slot]
  IN  /\ template \in [1..MaxRts -> Arrays \cup {None}]
      /\ run \in [Runs -> [pc : {"idle", "load", "eval", "publish", "entry"},
                           rt : 0..Len(rts), host : HostVals \cup {None}, globals : Arrays]]

\* RunWith up to the fork. A run without the host bindings that were declared
\* fails in buildGlobalArray, which otherwise installs them; a binding that
\* was not declared is only warned about.
RunWith(r, o, v) ==
  /\ run[r].pc = "idle"
  /\ v # None <=> rts[o].bindings # {}
  /\ run' = [run EXCEPT ![r] = [pc |-> "load", rt |-> o, host |-> v,
                                globals |-> [Nil EXCEPT !.host = v]]]
  /\ UNCHANGED template

\* Mutant: the template replaces the host bindings of this run.
NotReinstalled(o, v) == template[o]

\* The published template, with the declared host bindings of this run.
Reinstalled(o, v) ==
  [template[o] EXCEPT !.host = IF rts[o].bindings = {} THEN @ ELSE v]

LoadTemplate(r) ==
  LET o == run[r].rt IN
  /\ run[r].pc = "load"
  /\ run' = [run EXCEPT
       ![r].pc = IF template[o] = None THEN "eval" ELSE "entry",
       ![r].globals = IF template[o] = None THEN @ ELSE Reinstalled(o, run[r].host)]
  /\ UNCHANGED template

\* Modules are checked with the host's bindings in scope and may read them.
ModulesReadHost(o) ==
  \E i \in DOMAIN rts[o].entries : mods[rts[o].entries[i].mod].src \in NeedsHost

Evaluated(readsHost, host) == IF readsHost THEN host ELSE Pure

\* The bindings of all modules, then those of the program, each reading what
\* was evaluated before it.
EvalBindings(r) ==
  LET o == run[r].rt IN
  /\ run[r].pc = "eval"
  /\ run' = [run EXCEPT ![r].pc = "publish",
       ![r].globals.mods = Evaluated(ModulesReadHost(o), run[r].globals.host),
       ![r].globals.main = Evaluated(rts[o].src \in NeedsHost, run[r].globals.host)]
  /\ UNCHANGED template

\* Mutant: every run that has evaluated the bindings stores its array.
PublishAgain(r) ==
  /\ run[r].pc = "publish"
  /\ template' = [template EXCEPT ![run[r].rt] = run[r].globals]
  /\ run' = [run EXCEPT ![r].pc = "entry"]

\* sync.Once: only the first run to come here stores its array.
Publish(r) ==
  /\ run[r].pc = "publish"
  /\ template' = [template EXCEPT ![run[r].rt] = IF @ = None THEN run[r].globals ELSE @]
  /\ run' = [run EXCEPT ![r].pc = "entry"]

\* The entry point has run, or a limit or an error has ended it or one of the
\* bindings. The run is over; its caller may start another.
Return(r) ==
  /\ run[r].pc \in {"eval", "entry"}
  /\ run' = [run EXCEPT ![r] = Unstarted]
  /\ UNCHANGED template

RunNext ==
  \E r \in Runs :
    \/ \E o \in 1..Len(rts), v \in HostVals \cup {None} : RunWith(r, o, v)
    \/ LoadTemplate(r) \/ EvalBindings(r) \/ Publish(r) \/ Return(r)

-----------------------------------------------------------------------------
(* Properties.                                                             *)

AtEntry(r) == run[r].pc = "entry"

\* When its entry point runs, a run has its own value in the slot of a declared
\* host binding and finds every other binding evaluated, whichever of the
\* concurrent runs evaluated it.
EntrySeesOwnHost ==
  \A r \in Runs : AtEntry(r) =>
    /\ run[r].globals.mods # None /\ run[r].globals.main # None
    /\ rts[run[r].rt].bindings # {} => run[r].globals.host = run[r].host

\* The template is published complete and never replaced, so that runs that
\* copy it at different times agree.
TemplateFinal ==
  [][\A o \in DOMAIN template :
       /\ template[o] # None => template'[o] = template[o]
       /\ template'[o] # None => template'[o].mods # None /\ template'[o].main # None]_runVars

\* "even when two callers share a cached *Runtime, they can pass different host
\* binding values via RunOptions.Bindings without cross-contamination"
\* (TestRuntimeCache_HostBindingsRespected): what a run reads was computed from
\* its own host values.
HostBindingsRespected ==
  \A r \in Runs : AtEntry(r) =>
    {run[r].globals.mods, run[r].globals.main} \subseteq {Pure, run[r].host}
=============================================================================
