----------------------------- MODULE TrailScopes ----------------------------
(***************************************************************************)
(* The clients of the trail: trials and probes of the checker, the solver  *)
(* and the exhaustiveness check, and branches of a case with the equalities*)
(* their patterns give, nested in any way.  What unification does is any   *)
(* sequence of writes: a metavariable solved, a chain shortened, a label   *)
(* context registered, a skolem refined.  Generated names, the overlay of  *)
(* generalization and stuck families are no matter of the trail.           *)
(***************************************************************************)
EXTENDS Trail

CONSTANTS
  Ids,        \* metavariables, skolems, level variables
  Values,     \* what the tables hold
  First,      \* the first fresh name
  MaxTrail,   \* bound on the writes on the trail
  MaxOpen     \* bound on the scopes open at a time

VARIABLES
  unifier,
  open        \* the open scopes, [kind, u, givens]: u the unifier when it was opened

trailVars == <<unifier, open>>

Top == open[Len(open)]
Below == SubSeq(open, 1, Len(open) - 1)

TrailInit == unifier = NewUnifier(First) /\ open = <<>>

(* solveMeta, solveLevelMeta, RegisterLabelContext, a skolem refined in a  *)
(* probe, a given equality that the solver takes from its queue.           *)
WriteTable ==
  /\ Len(unifier.trail) < MaxTrail
  /\ \E map \in Tables, id \in Ids, v \in Values : unifier' = Write(unifier, map, id, v)
  /\ UNCHANGED open

Shorten ==
  /\ Len(unifier.trail) < MaxTrail
  /\ \E map \in {"soln", "levels"} : \E id \in DOMAIN unifier[map], t \in Values :
       unifier' = Compress(unifier, map, id, unifier[map][id], t)
  /\ UNCHANGED open

Opens(kind, next) ==
  /\ Len(open) < MaxOpen
  /\ open' = Append(open, [kind |-> kind, u |-> unifier, givens |-> {}])
  /\ unifier' = next

Closes(kind, next) ==
  /\ open # <<>> /\ Top.kind = kind
  /\ open' = Below
  /\ unifier' = next

EnterTrial == Opens("trial", Trial(unifier))
KeepTrial == Closes("trial", Commit(unifier, Top.u))
RollBackTrial == Closes("trial", Rollback(unifier, Top.u))

(* canUnifyWith lets skolems be refined, constructorArgTypes does not. *)
EnterProbe == \E flex \in {unifier.flex, TRUE} : Opens("probe", [BeginProbe(unifier) EXCEPT !.flex = flex])
LeaveProbe == Closes("probe", EndProbe(unifier, Top.u))

EnterBranch == Opens("branch", [unifier EXCEPT !.level = @ + 1])

GiveEquality ==
  /\ open # <<>> /\ Top.kind = "branch" /\ Len(unifier.trail) < MaxTrail
  /\ \E sk \in Ids, t \in Values :
       /\ unifier' = InstallGivenEq(unifier, sk, t)
       /\ open' = [open EXCEPT ![Len(open)].givens = @ \cup {sk}]

LeaveBranch == Closes("branch", [RemoveGivenEqs(unifier, Top.givens) EXCEPT !.level = Top.u.level])

TrailNext ==
  \/ WriteTable \/ Shorten \/ EnterTrial \/ KeepTrial \/ RollBackTrial
  \/ EnterProbe \/ LeaveProbe \/ EnterBranch \/ GiveEquality \/ LeaveBranch

TrailSpec == TrailInit /\ [][TrailNext]_trailVars

--------------------------------------------------------------------------------
Contents(v) == <<v.soln, v.skolems, v.levels, v.labels, v.trail>>
Settings(v) == <<v.depth, v.level, v.flex, v.reduce>>

(* At any time every open trial and probe can be rolled back to what it    *)
(* saw, however many others have been kept or rolled back inside it, and   *)
(* although branches remove their equalities without a trace on the trail  *)
(* and chains are shortened without one while no snapshot is open          *)
(* (unify_trail.go).                                                       *)
CanRollBack ==
  \A i \in DOMAIN open :
    open[i].kind # "branch" => Contents(Restore(unifier, Len(open[i].u.trail))) = Contents(open[i].u)

(* A trial that is rolled back and a probe that ends leave the unifier as  *)
(* it was when they began (withTrial, withProbe, EndProbeIsolated).        *)
RollbackRestores ==
  RollBackTrial \/ LeaveProbe => Contents(unifier') = Contents(Top.u) /\ Settings(unifier') = Settings(Top.u)
=============================================================================
