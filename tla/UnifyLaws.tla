------------------------------ MODULE UnifyLaws ------------------------------
(***************************************************************************)
(* The unifier at work: equations from the program in any order, under     *)
(* trials, probes and the branches of a case whose pattern gives an        *)
(* equality, and what must hold whatever the order.                        *)
(***************************************************************************)
EXTENDS Unify

CONSTANTS
  Equations,    \* pairs of types to unify
  Branches,     \* <<constructor's result, scrutinee>> of the branches of a case
  Bindings,     \* <<type, constraints, watermark>> of bindings to generalize
  Grounds,      \* what metavariables may stand for, when all cases are tried
  FirstFresh,   \* metavariables up to here are in the equations
  MaxScopes,    \* scopes open at a time
  MaxCalls,     \* calls made
  Ids, Written, MaxTrail  \* of TrailScopes: what is written, where

ASSUME UnifyLawsBounds == FirstFresh \in Nat /\ MaxScopes \in Nat /\ MaxCalls \in Nat

VARIABLES
  u,        \* the unifier
  scopes,   \* the scopes open, [kind, u, givens], as in TrailScopes
  call,     \* the last call, [op, args, e]
  calls     \* how many calls were made

unifyVars == <<u, scopes, call, calls>>

(* The same unifier and scopes with any writes.                            *)
Kept == INSTANCE TrailScopes WITH unifier <- u, open <- scopes, Values <- Written, First <- FirstFresh, MaxOpen <- MaxScopes
AnyWrites == Kept!TrailNext /\ UNCHANGED <<call, calls>>

--------------------------------------------------------------------------------
UnifyInit ==
  /\ u = NewUnifier(FirstFresh)
  /\ scopes = <<>>
  /\ call = [op |-> "new", args |-> <<>>, e |-> ""]
  /\ calls = 0

Settled(r, op, args) == u' = r.u /\ call' = [op |-> op, args |-> args, e |-> r.e]

UnifyEquation ==
  /\ calls < MaxCalls
  /\ \E p \in Equations : Settled(Unify(u, p[1], p[2]), "unify", p)
  /\ calls' = calls + 1
  /\ UNCHANGED scopes

(* An attempt that may fail half way. *)
Try ==
  /\ calls < MaxCalls
  /\ \E p \in Equations : Settled(tryUnify(u, p[1], p[2]), "try", p)
  /\ calls' = calls + 1
  /\ UNCHANGED scopes

Probe ==
  /\ calls < MaxCalls
  /\ \E p \in Equations : Settled(canUnifyWith(u, p[1], p[2]), "probe", p)
  /\ calls' = calls + 1
  /\ UNCHANGED scopes

SolveFresh ==
  /\ calls < MaxCalls
  /\ \E p \in Equations : /\ p[1].k = "meta" /\ p[1].n \notin DOMAIN u.soln
                          /\ Settled(SolveFreshMeta(u, p[1], p[2]), "unify", p)
  /\ calls' = calls + 1
  /\ UNCHANGED scopes

Enter(kind, givens, next) ==
  /\ Len(scopes) < MaxScopes /\ calls < MaxCalls
  /\ scopes' = Append(scopes, [kind |-> kind, u |-> u, givens |-> givens])
  /\ u' = next
  /\ call' = [op |-> "enter", args |-> <<>>, e |-> ""]
  /\ calls' = calls + 1

EnterTrial == Enter("trial", {}, Trial(u))

(* A branch: the equalities of its pattern, one level further in. *)
Install(next, givens) == FoldSet(LAMBDA sk, v : InstallGivenEq(v, sk, givens[sk]), next, DOMAIN givens)

Giving(givens) ==
  /\ DOMAIN givens # {} /\ DOMAIN givens \cap DOMAIN u.skolems = {}
  /\ Enter("branch", DOMAIN givens, Install([u EXCEPT !.level = @ + 1], givens))

EnterBranch ==
  /\ \A i \in DOMAIN scopes : scopes[i].kind = "branch"
  /\ \E b \in Branches : Giving(extractGivenEqs(Zonk(u, b[1]).t, Zonk(u, b[2]).t))

Leave(op, next) ==
  /\ scopes' = Front(scopes)
  /\ u' = next
  /\ call' = [op |-> op, args |-> <<>>, e |-> ""]
  /\ UNCHANGED calls

LeaveTrial ==
  /\ scopes # <<>> /\ Last(scopes).kind = "trial"
  /\ Leave("commit", Commit(u, Last(scopes).u)) \/ Leave("rollback", Rollback(u, Last(scopes).u))

LeaveBranch ==
  /\ scopes # <<>> /\ Last(scopes).kind = "branch"
  /\ Leave("leave", RemoveGivenEqs([u EXCEPT !.level = @ - 1], Last(scopes).givens))

GeneralizeBinding ==
  /\ scopes = <<>> /\ calls < MaxCalls
  /\ \E b \in Bindings :
       \E r \in {Generalize(u, Zonk(u, b[1]).t, zonkAll(u, b[2]).t, b[3])} :
         u' = r.u /\ call' = [op |-> "generalize", args |-> <<Zonk(u, b[1]).t, r.t>>, e |-> ""]
  /\ calls' = calls + 1
  /\ UNCHANGED scopes

UnifyNext == UnifyEquation \/ Try \/ Probe \/ SolveFresh \/ EnterTrial \/ EnterBranch \/ LeaveTrial \/ LeaveBranch
             \/ GeneralizeBinding

--------------------------------------------------------------------------------
(* When two types are the same: a row is what its labels say, however it is*)
(* nested, grades count where both have them, an erroneous type is any     *)
(* type, a sort holds the kinds one level below.                           *)
FieldAt(row, label) == RowField(Entries(row), label)

Plain(t) == CompApp(expandAliases(FlattenCapRow(t), 0), {3, 4})

RECURSIVE SamePlain(_, _)
RECURSIVE Same(_, _)
Same(a, b) == SamePlain(Plain(a), Plain(b))

SamePlain(a, b) ==
  LET All(xs, ys) == Len(xs) = Len(ys) /\ \A i \in DOMAIN xs : Same(xs[i], ys[i])
      Graded(x, y) == IF Len(x) = 1 \/ Len(y) = 1 THEN Same(x[1], y[1]) ELSE All(x, y)
      v == freshName({0}, {a, b})
      Bare(t) == IF IsRecordOfRow(t) THEN t.args[2] ELSE t
  IN  CASE "error" \in {a.k, b.k} -> TRUE
        [] a.k = "con" /\ b.k = "con" -> IF a.n = b.n THEN normalizeLevel(a.args[1]) = normalizeLevel(b.args[1]) ELSE Adjacent(a.args[1], b.args[1])
        [] a.k = "row" /\ b.k = "row" -> /\ LabelsOf(Entries(a)) = LabelsOf(Entries(b)) /\ Len(Entries(a)) = Len(Entries(b))
                                         /\ \A l \in LabelsOf(Entries(a)) : Graded(FieldAt(a, l).args, FieldAt(b, l).args)
                                         /\ All(Tail_(a), Tail_(b))
        [] a.k = "crow" /\ b.k = "crow" -> All(NormalizeConstraints(Entries(a)) \o Tail_(a), NormalizeConstraints(Entries(b)) \o Tail_(b))
        [] a.k = b.k /\ a.k \in {"comp", "thunk"} -> \A i \in 1..Min({Len(a.args), Len(b.args)}) : Same(a.args[i], b.args[i])
        [] a.k = "forall" /\ b.k = "forall" -> Same(a.args[1], b.args[1]) /\ Same(Subst(a.args[2], a.n, Var(v)), Subst(b.args[2], b.n, Var(v)))
        [] {a.k, b.k} = {"app", "row"} -> (IsRecordOfRow(a) \/ IsRecordOfRow(b)) /\ Same(Bare(a), Bare(b))
        [] OTHER -> a.k = b.k /\ a.n = b.n /\ All(a.args, b.args)

Zonked(ts) == zonkAll(u, ts).t

(* Two types the unifier accepts are the same from then on, whatever it    *)
(* had to solve, in whichever order, under whichever scopes.  What a family*)
(* waits for is an equation of the solver.                                 *)
Waiting(t) == HasNode(t, {"family"})

UnifySolves ==
  LET Solved(z) == Waiting(z[1]) \/ Waiting(z[2]) \/ Same(z[1], z[2])
  IN  (call.op = "unify" /\ call.e = "") => Solved(Zonked(call.args))

(* The name that stands for the bound variables of two quantified types is *)
(* in a solution: the one case in which the types remain different.        *)
NameEscaped == \E m \in DOMAIN u.soln : \E x \in FreeVars(u.soln[m]) : x < 0

UnifySound == NameEscaped \/ UnifySolves

(* Replacing metavariables by any of the ground types.                     *)
RECURSIVE Filled(_, _)
Filled(t, by) == IF t.k = "meta" THEN by[t.n] ELSE [t EXCEPT !.args = [i \in DOMAIN t.args |-> Filled(t.args[i], by)]]

(* Two types the unifier refuses are the same for no choice of what is     *)
(* unsolved and respects the labels around each tail: it never gives up a  *)
(* program that has a type.  An untouchable metavariable is a postponement,*)
(* not a refusal.                                                          *)
UnifyComplete ==
  LET Allowed(m) == {g \in Grounds : ~RepeatsLabel(u, Meta(m), g)}
      Different(z, metas) ==
        \A by \in [metas -> Grounds] : (\A m \in metas : by[m] \in Allowed(m)) => ~Same(Filled(z[1], by), Filled(z[2], by))
      Refused(z) == Different(z, MetasOf(z[1]) \cup MetasOf(z[2]))
  IN  (call.op = "unify" /\ call.e \in {"mismatch", "occurs", "rigid", "duplabel"}) => Refused(Zonked(call.args))

(* No solution contains its own metavariable, through any chain.           *)
RECURSIVE Reached(_, _, _)
Reached(v, seen, todo) ==
  IF todo \subseteq seen THEN seen ELSE Reached(v, seen \cup todo, UNION {MetasOf(v.soln[m]) : m \in todo \cap DOMAIN v.soln})

SolutionsAcyclic == \A m \in DOMAIN u.soln : m \notin Reached(u, {}, MetasOf(u.soln[m]))

(* A row that shows no label twice does not after its tail was solved,     *)
(* however many rows the tail went through.                                *)
RECURSIVE LabelsDistinct(_)
LabelsDistinct(t) ==
  /\ t.k = "row" => Cardinality(LabelsOf(Entries(FlattenCapRow(t)))) = Len(Entries(FlattenCapRow(t)))
  /\ \A i \in DOMAIN t.args : LabelsDistinct(t.args[i])

RowLabelsKept ==
  (call'.op = "unify" /\ call'.e = "" /\ \A k \in {1, 2} : LabelsDistinct(Zonk(u, call'.args[k]).t)) =>
    \A k \in {1, 2} : LabelsDistinct(Zonk(u', call'.args[k]).t)

(* A probe, a failed attempt and a trial rolled back leave no trace, also  *)
(* of what was shortened meanwhile or of what a branch gave.               *)
Maps(v) == <<v.soln, v.skolems, v.levels, v.labels, v.trail, v.depth, v.level, v.flex, v.reduce>>

RollbackExact ==
  /\ Kept!RollbackRestores
  /\ (call'.op = "probe" \/ (call'.op = "try" /\ call'.e # "")) => Maps(u') = Maps(u)

(* What is known about a type is only made more precise: what it has become*)
(* after a step is what it was before, refined.                            *)
SolutionsRefine ==
  call'.op \in {"unify", "try", "enter", "commit"} =>
    \A m \in DOMAIN u.soln : Zonk(u', Meta(m)).t = Zonk(u', Zonk(u, Meta(m)).t).t

(* A generalized type is a scheme of the type it was: its binders replaced *)
(* by the metavariables they were made from, in order, give the type back, *)
(* and no such metavariable is left.  A binder inside the type that already*)
(* has a generated name would capture it.                                  *)
RECURSIVE BoundNames(_)
BoundNames(t) == (IF t.k = "forall" THEN {t.n} ELSE {}) \cup UNION {BoundNames(t.args[i]) : i \in DOMAIN t.args}

RECURSIVE WithoutContext(_)
WithoutContext(t) == IF t.k = "evidence" THEN WithoutContext(t.args[2]) ELSE t

GeneralizedInstance ==
  (call.op = "generalize" /\ BoundNames(call.args[1]) = {}) =>
    LET scheme == call.args[2]
        metas == SetToSortSeq(MetasOf(call.args[1]) \ MetasOf(scheme), <)
        Instance == PeelForalls(scheme, [i \in DOMAIN metas |-> <<Meta(metas[i])>>]).body
    IN  Len(Binders(scheme)) = Len(metas) => Equal(WithoutContext(Instance), Filled(call.args[1], [m \in MetasOf(call.args[1]) |-> Meta(m)]))

(* Unification succeeds exactly where types can be made equal, and leaves  *)
(* them equal, with solutions that contain no cycle and that generalize to *)
(* a scheme of the type, and can always be taken back to where any open    *)
(* trial began (unify.go, row_unify.go, decl_generalize.go,                *)
(* unify_trail.go).                                                        *)
UnifierExact == UnifySound /\ UnifyComplete /\ SolutionsAcyclic /\ GeneralizedInstance /\ Kept!CanRollBack
=============================================================================
