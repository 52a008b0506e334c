------------------------------ MODULE FamilyLaws ------------------------------
(***************************************************************************)
(* What the checker relies on in type families and aliases: a reduction is *)
(* never taken back by what is learnt later, the families of rows agree    *)
(* with each other, a family declared injective is, cyclic aliases are     *)
(* found.                                                                  *)
(***************************************************************************)
EXTENDS Unify

CONSTANTS
  Applications,  \* <<family, arguments>>, with metavariables
  MaxLearnt,     \* how many of them are learnt
  Learnt,        \* what a metavariable may turn out to be
  Candidates,    \* families declared injective
  AliasTables    \* the aliases of programs, by name

ASSUME FamilyLawsBounds == MaxLearnt \in Nat

VARIABLES
  app,       \* an application, its metavariables replaced one by one
  declared,  \* a family whose declaration is checked
  aliases    \* the aliases of a program

familyVars == <<app, declared, aliases>>


RECURSIVE Replacing(_, _, _)
Replacing(t, m, by) ==
  IF t.k = "meta" /\ t.n = m THEN by ELSE [t EXCEPT !.args = [i \in DOMAIN t.args |-> Replacing(t.args[i], m, by)]]

Unknown(a) == UNION {MetasOf(a[2][i]) : i \in DOMAIN a[2]}

Learning(a, m, t) == <<a[1], [i \in DOMAIN a[2] |-> Replacing(a[2][i], m, t)], a[3] - 1>>

Learn(m, t) == app[3] > 0 /\ app' = Learning(app, m, t) /\ UNCHANGED <<declared, aliases>>

FamilyNext == \E m \in Unknown(app), t \in Learnt : Learn(m, t)

--------------------------------------------------------------------------------
(* Reductions.                                                             *)
Reduction(a) == reduceN(ReduceState(MaxTFSteps, 1000), FamilyApp(a[1], a[2], TypeKind))

Decided(r) == r.r.stuck = <<>> /\ r.r.errs = 0 /\ ~HasNode(r.t, {"family"})

(* No variable twice in a pattern: the second occurrence is compared with  *)
(* types that are not known yet.                                           *)
RECURSIVE VarCount(_, _)
VarCount(t, x) == IF t.k = "var" THEN (IF t.n = x THEN 1 ELSE 0) ELSE FoldSeq(LAMBDA c, n : n + VarCount(c, x), 0, t.args)

Linear(eq) == \A x \in UNION {FreeVars(p) : p \in Range(eq.pats)} \ {0} : VarCount(node("all", 0, eq.pats), x) = 1

LinearFamily(name) == name \in DOMAIN Families => \A eq \in Range(Families[name].eqs) : Linear(eq)

(* A reduction is never premature: once an application has a result, or is *)
(* an error, no later solution of a metavariable changes it.               *)
ReducesOnce(before, after, m, t) ==
  /\ Decided(before) => after.r.errs > 0 \/ Equal(after.t, reduceN(ReduceState(MaxTFSteps, 1000), Replacing(before.t, m, t)).t)
  /\ before.r.errs > 0 => after.r.errs > 0

Stable ==
  \A m \in Unknown(app), t \in Learnt : app' = Learning(app, m, t) => ReducesOnce(Reduction(app), Reduction(app'), m, t)

ReductionStable == LinearFamily(app[1]) => Stable

OrderedRow(row) == \A i \in 1..Len(row.args) - 1 : row.args[i].n < row.args[i + 1].n

RECURSIVE Taken(_, _)
Taken(row, fields) ==
  IF fields = <<>> THEN row ELSE Taken(reduceAtLabel(Without_, Label(fields[1].n), row).ts[1], Tail(fields))

MergedFrom(a, b, both) ==
  (OrderedRow(a) /\ OrderedRow(b)) =>
    /\ \A f \in Range(Entries(a) \o Entries(b)) : reduceAtLabel(Lookup_, Label(f.n), both).ts = <<f.args[1]>>
    /\ OrderedRow(both) /\ Taken(both, Entries(a)) = b

(* The families of rows agree: what Merge builds has every field of either *)
(* row, in order, and taking out the fields of one leaves the other.       *)
MergeKeepsFields ==
  app[1] = Merge_ => \A r \in {Reduction(app)} : Decided(r) => MergedFrom(app[2][1], app[2][2], r.t)

--------------------------------------------------------------------------------
(* Injectivity.                                                            *)
freshPatVars(u, eq) ==
  LET vars == SetToSortSeq(UNION {FreeVars(p) : p \in Range(eq.pats)} \ {0}, <)
  IN  [u |-> [u EXCEPT !.fresh = @ + Len(vars)],
       subs |-> [x \in Range(vars) |-> Meta(u.fresh + SelectInSeq(vars, LAMBDA v : v = x))]]

(* Mutant: only the first patterns of two equations are compared. *)
patternsMatchFirst(u, ps, qs) == tryUnify(u, ps[1], qs[1])

RECURSIVE matchPatterns(_, _, _)
matchPatterns(r, ps, qs) ==
  IF ps = <<>> \/ r.e # "" THEN r ELSE matchPatterns(tryUnify(r.u, ps[1], qs[1]), Tail(ps), Tail(qs))

patternsMatch(u, ps, qs) == matchPatterns(Ok(u), ps, qs)

(* Two equations with the same result must have the same patterns: each of *)
(* the attempts keeps what it solved.                                      *)
Under(eq, s) == [pats |-> [i \in DOMAIN eq.pats |-> SubstMany(eq.pats[i], s, <<>>)], rhs |-> SubstMany(eq.rhs, s, <<>>)]

patternsInjective(r, x, y) ==
  LET Outcome(p) == [u |-> p.u, ok |-> p.e = ""]
  IN  IF r.e # "" THEN [u |-> r.u, ok |-> TRUE] ELSE Outcome(patternsMatch(r.u, x.pats, y.pats))

renamedInjective(u, x, y) == patternsInjective(tryUnify(u, x.rhs, y.rhs), x, y)

secondRenamed(fi, fj, eqI, eqJ) == renamedInjective(fj.u, Under(eqI, fi.subs), Under(eqJ, fj.subs))

firstRenamed(fi, eqI, eqJ) == secondRenamed(fi, freshPatVars(fi.u, eqJ), eqI, eqJ)

pairInjective(u, eqI, eqJ) == firstRenamed(freshPatVars(u, eqI), eqI, eqJ)

RECURSIVE pairsInjective(_, _, _)
pairsInjective(acc, eqs, pairs) ==
  LET Both(r) == [u |-> r.u, ok |-> acc.ok /\ r.ok]
  IN  IF pairs = <<>> THEN acc
      ELSE pairsInjective(Both(pairInjective(acc.u, eqs[pairs[1][1]], eqs[pairs[1][2]])), eqs, Tail(pairs))

VerifyInjectivity(u, eqs) ==
  pairsInjective([u |-> u, ok |-> TRUE], eqs,
                 SetToSortSeq({<<i, j>> \in (1..Len(eqs)) \X (1..Len(eqs)) : i < j}, LAMBDA p, q : LexLess(p, q)))

(* A family accepted as injective has no result for two different lists of *)
(* arguments, provided each equation's result mentions all its variables.  *)
Determined(eq) == UNION {FreeVars(p) : p \in Range(eq.pats)} \subseteq FreeVars(eq.rhs)

InjectivitySound ==
  VerifyInjectivity(NewUnifier(0), declared.eqs).ok =>
    LET Closed == {t \in Learnt : MetasOf(t) = {} /\ ~IsRow(t) /\ ~IsLabelLiteral(t)}
        Same(p, q) == p.ts # <<>> /\ p = q
        Results == {p \in [1..declared.params -> Closed] \X [1..declared.params -> Closed] :
                      Same(ReduceEquations(declared.eqs, p[1]), ReduceEquations(declared.eqs, p[2]))}
    IN  (\A eq \in Range(declared.eqs) : Determined(eq)) => \A p \in Results : p[1] = p[2]

--------------------------------------------------------------------------------
(* Aliases: the search finds a cycle exactly when one exists.              *)
RECURSIVE ReachableFrom(_, _)
ReachableFrom(seen, todo) ==
  IF todo \subseteq seen THEN seen
  ELSE ReachableFrom(seen \cup todo, UNION {AliasRefs(aliases[a].body, DOMAIN aliases) : a \in todo})

AliasCycleFound ==
  HasAliasCycle(aliases) <=>
    \E a \in DOMAIN aliases : a \in ReachableFrom({}, AliasRefs(aliases[a].body, DOMAIN aliases))

(* The checks made once, on declarations, hold of every use: a family that *)
(* passes VerifyInjectivity is injective, an alias table that passes       *)
(* validateAliasGraph expands, a merged row has the fields of both.        *)
FamiliesExact == MergeKeepsFields /\ InjectivitySound /\ AliasCycleFound
=============================================================================
