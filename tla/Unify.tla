------------------------------- MODULE Unify --------------------------------
(***************************************************************************)
(* The unifier (internal/compiler/check/unify) over types: solutions of    *)
(* metavariables, levels and refined skolems, label contexts of row tails, *)
(* zonking with path compression, touchability.  Trail has the record that *)
(* each operation takes and returns, and how what it writes is taken back. *)
(* A metavariable of level l > 0 has the level as its argument.  Names the *)
(* unifier generates are negative.                                         *)
(***************************************************************************)
EXTENDS Family, Trail

CONSTANTS
  Computation_, Thunk_, Record_,  \* constructors the unifier knows
  MaxTFSteps                      \* steps of one reduction pass

ASSUME UnifyBounds == MaxTFSteps \in Nat

MetaAt(i, l) == IF l = 0 THEN Meta(i) ELSE node("meta", i, <<Lit(l)>>)
LevelOf(m) == IF m.args = <<>> THEN 0 ELSE m.args[1].n

Labelled(ls) == node("labels", 0, [i \in 1..Cardinality(ls) |-> Var(SetToSortSeq(ls, <)[i])])
LabelSet(u, id) == IF id \in DOMAIN u.labels THEN {u.labels[id].args[i].n : i \in DOMAIN u.labels[id].args} ELSE {}

--------------------------------------------------------------------------------
(* Zonking.                                                                *)
At(u, t) == [u |-> u, t |-> t]

RECURSIVE zonkLevel(_, _)
RECURSIVE zonkLevels(_, _)
zonkLevels(acc, ls) ==
  LET One(z) == zonkLevels(At(z.u, Append(acc.t, z.t)), Tail(ls))
  IN  IF ls = <<>> THEN acc ELSE One(zonkLevel(acc.u, ls[1]))

zonkLevel(u, l) ==
  LET Chased(was, z) == At(Compress(z.u, "levels", l.n, was, z.t), z.t)
      Rebuilt(z) == At(z.u, [l EXCEPT !.args = z.t])
  IN  CASE l.k = "lmeta" -> IF l.n \in DOMAIN u.levels THEN Chased(u.levels[l.n], zonkLevel(u, u.levels[l.n])) ELSE At(u, l)
        [] OTHER -> Rebuilt(zonkLevels(At(u, <<>>), l.args))

(* An application of Computation or Thunk to a grade and three types, and  *)
(* in unification also to the three types alone, is the type itself.       *)
CompApp(t, arities) ==
  LET spine == UnwindApp(t, <<>>)
      Tag == IF spine.head.n = Computation_ THEN "comp" ELSE "thunk"
  IN  IF t.k = "app" /\ spine.head.k = "con" /\ spine.head.n \in {Computation_, Thunk_} /\ Len(spine.args) \in arities
      THEN CBPV(Tag, IF Len(spine.args) = 4 THEN Tail(spine.args) \o <<spine.args[1]>> ELSE spine.args)
      ELSE t

Reducing(u, r) == [u EXCEPT !.fresh = r.fresh, !.stuck = @ \o r.stuck]

RECURSIVE zonkInner(_, _)

RECURSIVE zonkEach(_, _)
zonkEach(acc, ts) ==
  LET One(z) == zonkEach(At(z.u, Append(acc.t, z.t)), Tail(ts))
  IN  IF ts = <<>> THEN acc ELSE One(zonkInner(acc.u, Head(ts)))

zonkAll(u, ts) == zonkEach(At(u, <<>>), ts)

zonkFamily(z, t) ==
  LET same == [t EXCEPT !.args = z.t]
      Tried(step) == IF step.t = <<>> THEN At(z.u, same) ELSE zonkInner(Reducing(z.u, step.r), step.t[1])
  IN  IF same = t THEN At(z.u, same)
      ELSE Tried(ReduceTyFamily(ReduceState(MaxTFSteps, z.u.fresh), t.n, SubSeq(z.t, 1, Len(z.t) - 1)))

(* An entry is visited also when nothing in it is unknown: a constraint    *)
(* variable may stand for a class by now.                                  *)
ZonkEntries(u, e) ==
  LET From == IF e.k = "quant" THEN 2 ELSE 1
      Rebuilt(z) == At(z.u, IF e.k = "varc" THEN DecomposeConstraintType(MapChildren(e, 1, z.t)) ELSE MapChildren(e, From, z.t))
  IN  Rebuilt(zonkAll(u, SubSeq(e.args, From, Len(e.args))))

zonkInner(u, t) ==
  LET Chased(was, z) == At(IF u.temp = <<>> THEN Compress(z.u, "soln", t.n, was, z.t) ELSE z.u, z.t)
      Rebuilt(z) == At(z.u, MapChildren(t, 1, z.t))
      Wrapped(z) == At(z.u, Evidence(IF z.t[1].k = "crow" THEN z.t[1] ELSE t.args[1], z.t[2]))
      Applied(z) == At(z.u, CompApp(App(z.t[1], z.t[2]), {4}))
  IN  CASE t.k \in EntryKinds -> ZonkEntries(u, t)
        [] ~HasMeta(t) -> At(u, t)
        [] t.k = "meta" -> IF t.n \in DOMAIN u.temp THEN Chased(u.temp[t.n], zonkInner(u, u.temp[t.n]))
                           ELSE IF t.n \in DOMAIN u.soln THEN Chased(u.soln[t.n], zonkInner(u, u.soln[t.n]))
                           ELSE At(u, t)
        [] t.k = "skolem" -> IF t.n \in DOMAIN u.skolems THEN zonkInner(u, u.skolems[t.n]) ELSE At(u, t)
        [] t.k = "con" -> LET z == zonkLevel(u, t.args[1]) IN At(z.u, ConLevel(t.n, z.t))
        [] t.k = "family" -> zonkFamily(zonkAll(u, t.args), t)
        [] t.k = "evidence" -> Wrapped(zonkAll(u, t.args))
        [] t.k = "app" -> Applied(zonkAll(u, t.args))
        [] OTHER -> Rebuilt(zonkAll(u, t.args))

Zonk(u, t) == zonkInner(u, t)

--------------------------------------------------------------------------------
(* Levels.                                                                 *)
Ok(u) == [u |-> u, e |-> ""]
Fail(u, e) == [u |-> u, e |-> e]

LevelTag == [lit |-> 0, lvar |-> 1, lmeta |-> 2, lsucc |-> 3, lmax |-> 4]

RECURSIVE levelCompare(_, _)
levelCompare(a, b) ==
  LET First(x, y) == IF levelCompare(x.args[1], y.args[1]) # 0 THEN levelCompare(x.args[1], y.args[1])
                     ELSE levelCompare(x.args[2], y.args[2])
  IN  CASE a.k # b.k -> LevelTag[a.k] - LevelTag[b.k]
        [] a.k = "lsucc" -> levelCompare(a.args[1], b.args[1])
        [] a.k = "lmax" -> First(a, b)
        [] OTHER -> a.n - b.n

LargerLit(a, b) == IF a.n >= b.n THEN a ELSE b

RECURSIVE normalizeLevel(_)
normalizeLevel(l) ==
  LET IsLit(e) == e.k = "lit"
      Joined(a, b) ==
        CASE IsLit(a) /\ IsLit(b) -> LargerLit(a, b)
          [] a = Lit(0) -> b
          [] b = Lit(0) \/ a = b -> a
          [] levelCompare(a, b) > 0 -> node("lmax", 0, <<b, a>>)
          [] OTHER -> node("lmax", 0, <<a, b>>)
      Next_(e) == IF IsLit(e) THEN Lit(e.n + 1) ELSE node("lsucc", 0, <<e>>)
  IN  CASE l.k = "lmax" -> Joined(normalizeLevel(l.args[1]), normalizeLevel(l.args[2]))
        [] l.k = "lsucc" -> Next_(normalizeLevel(l.args[1]))
        [] OTHER -> l

levelContainsMeta(l) == HasNode(l, {"lmeta"})

RECURSIVE levelOccursIn(_, _)
levelOccursIn(id, l) == (l.k = "lmeta" /\ l.n = id) \/ \E i \in DOMAIN l.args : levelOccursIn(id, l.args[i])

solveLevelMeta(u, m, l) ==
  CASE l.k = "lmeta" /\ l.n = m.n -> Ok(u)
    [] levelOccursIn(m.n, l) -> Fail(u, "occurs")
    [] OTHER -> Ok(Write(u, "levels", m.n, l))

RECURSIVE UnifyLevels(_, _, _)

RECURSIVE unifyLevelParts(_, _, _)
unifyLevelParts(r, as, bs) ==
  IF as = <<>> \/ r.e # "" THEN r ELSE unifyLevelParts(UnifyLevels(r.u, as[1], bs[1]), Tail(as), Tail(bs))

unifyLevelHeads(u, a, b) ==
  CASE a.k = "lmeta" -> solveLevelMeta(u, a, b)
    [] b.k = "lmeta" -> solveLevelMeta(u, b, a)
    [] a.k = b.k /\ a.n = b.n -> unifyLevelParts(Ok(u), a.args, b.args)
    [] OTHER -> Fail(u, "mismatch")

NormalLevels(ls) == IF \E i \in {1, 2} : levelContainsMeta(ls[i]) THEN ls ELSE [i \in {1, 2} |-> normalizeLevel(ls[i])]

unifyZonkedLevels(u, ls) == unifyLevelHeads(u, ls[1], ls[2])

unifyLevelsAt(z) == unifyZonkedLevels(z.u, NormalLevels(z.t))

UnifyLevels(u, l1, l2) == unifyLevelsAt(zonkLevels(At(u, <<>>), <<l1, l2>>))

Adjacent(a, b) == a.k = "lit" /\ b.k = "lit" /\ (a.n + 1 = b.n \/ b.n + 1 = a.n)

--------------------------------------------------------------------------------
(* Solving a metavariable.  Inside an implication only those created there *)
(* may be solved.  The solution is what was given, not its zonked form.    *)
Untouchable(u, m) == u.level >= 0 /\ LevelOf(m) < u.level

Occurs(m, t) == m.n \in MetasOf(t)

RepeatsLabel(u, m, t) == t.k = "row" /\ LabelsOf(Entries(t)) \cap LabelSet(u, m.n) # {}

solveMeta(u, m, t) ==
  LET Checked(z) == CASE Occurs(m, z.t) -> Fail(z.u, "occurs")
                      [] RepeatsLabel(z.u, m, t) -> Fail(z.u, "duplabel")
                      [] OTHER -> Ok(Write(z.u, "soln", m.n, t))
  IN  CASE t.k = "meta" /\ t.n = m.n -> Ok(u)
        [] Untouchable(u, m) -> Fail(u, "untouchable")
        [] OTHER -> Checked(Zonk(u, t))

(* The shortcut of constraint generation, without the label context.       *)
SolveFreshMeta(u, m, t) ==
  LET Checked(z) == IF Occurs(m, z.t) THEN Fail(z.u, "declined") ELSE Ok(Write(z.u, "soln", m.n, t))
  IN  IF Untouchable(u, m) THEN Fail(u, "declined") ELSE Checked(Zonk(u, t))

--------------------------------------------------------------------------------
(* Rows: the entries both have are unified pairwise, then each tail with   *)
(* what only the other row has.                                            *)
Pairs(xs, ys) == [i \in DOMAIN xs |-> <<xs[i], ys[i]>>]

Clash == <<Var(-1), Con(-1)>>

(* Grades count only where both fields have them. *)
FieldPairs(f, g) ==
  CASE Len(f.args) = 1 \/ Len(g.args) = 1 -> <<<<f.args[1], g.args[1]>>>>
    [] Len(f.args) # Len(g.args) -> <<<<f.args[1], g.args[1]>>, Clash>>
    [] OTHER -> Pairs(f.args, g.args)

EntryPairs(e, g) ==
  IF Len(HeadClass(e).args) # Len(HeadClass(g).args) THEN <<Clash>> ELSE Pairs(HeadClass(e).args, HeadClass(g).args)

RegisterLabelContext(u, id, labels) == Write(u, "labels", id, Labelled(labels))

RegisteredLabels(z, row) ==
  IF z.t.k = "meta" THEN RegisterLabelContext(z.u, z.t.n, LabelsOf(Entries(row)) \cup LabelSet(z.u, z.t.n)) ELSE z.u

RECURSIVE registerEvCapLabels(_, _)
registerEvCapLabels(u, rows) ==
  CASE rows = <<>> -> u
    [] IsOpen(rows[1]) -> registerEvCapLabels(RegisteredLabels(Zonk(u, Last(rows[1].args)), rows[1]), Tail(rows))
    [] OTHER -> registerEvCapLabels(u, Tail(rows))

(* What is left to do: the pairs in order, then rest, two rows or two      *)
(* quantified types whose kinds are among the pairs.                       *)
Todo(u, pairs, rest) == [u |-> u, e |-> "", pairs |-> pairs, rest |-> rest]
Stop(u, e) == [u |-> u, e |-> e, pairs |-> <<>>, rest |-> <<>>]

ClassifiedCaps(u, a, b, c) ==
  Todo(u, FlattenSeq([i \in DOMAIN c.shared |-> FieldPairs(c.shared[i], RowField(Entries(b), c.shared[i].n))]),
       <<Row("row", c.onlyA, Tail_(a)), Row("row", c.onlyB, Tail_(b))>>)

unifyNormalRows(u, a, b) ==
  IF ErrorType \in {a, b} THEN Stop(u, "mismatch")
  ELSE ClassifiedCaps(registerEvCapLabels(u, <<a, b>>), a, b, ClassifyRowFields(Entries(a), Entries(b)))

unifyEvCapRows(u, r1, r2) == unifyNormalRows(u, NormalizeRow(r1), NormalizeRow(r2))

unifyEvConRows(u, a, b) ==
  LET Classified(c) ==
        Todo(u, FlattenSeq([i \in DOMAIN c.shared |-> EntryPairs(c.shared[i][1], c.shared[i][2])]),
             <<Row("crow", c.onlyA, Tail_(a)), Row("crow", c.onlyB, Tail_(b))>>)
  IN  Classified(ClassifyConstraints(NormalizeConstraints(Entries(a)), NormalizeConstraints(Entries(b))))

unifyEvidenceRows(u, a, b) ==
  CASE a.k # b.k -> Stop(u, "mismatch")
    [] a.k = "row" -> unifyEvCapRows(u, a, b)
    [] OTHER -> unifyEvConRows(u, a, b)

(* registerFreshTailLabels: a tail two open rows share avoids the labels of*)
(* both.                                                                   *)
registerFreshTailLabels(u, a, b, id) ==
  LET Around(v, t) == IF t.k = "meta" THEN LabelSet(v, t.n) ELSE {}
      All(z) == Around(z.u, z.t[1]) \cup Around(z.u, z.t[2]) \cup LabelsOf(Entries(a)) \cup LabelsOf(Entries(b))
      Registered(z) == IF All(z) = {} THEN z.u ELSE RegisterLabelContext(z.u, id, All(z))
  IN  IF a.k = "row" THEN Registered(zonkAll(u, <<Last(a.args), Last(b.args)>>)) ELSE u

(* Mutant: a row with a tail stands for its tail. *)
ExtraTail(row, tail) == IF tail # <<>> THEN tail[1] ELSE Row(row.k, Entries(row), tail)

Extra(row, tail) == IF Entries(row) = <<>> /\ tail # <<>> THEN tail[1] ELSE Row(row.k, Entries(row), tail)

(* The metavariable two open rows share is created at level 0.             *)
SharedTail(u, a, b, r) ==
  Todo(registerFreshTailLabels([u EXCEPT !.fresh = r.n], a, b, r.n),
       <<<<Last(a.args), Extra(b, <<r>>)>>, <<Last(b.args), Extra(a, <<r>>)>>>>, <<>>)

resolveEvidenceTails(u, a, b) ==
  CASE \E row \in {a, b} : Entries(row) # <<>> /\ ~IsOpen(IF row = a THEN b ELSE a) -> Stop(u, "mismatch")
    [] IsOpen(a) /\ IsOpen(b) -> SharedTail(u, a, b, Meta(u.fresh + 1))
    [] IsOpen(a) -> Todo(u, <<<<Last(a.args), Extra(b, <<>>)>>>>, <<>>)
    [] IsOpen(b) -> Todo(u, <<<<Last(b.args), Extra(a, <<>>)>>>>, <<>>)
    [] OTHER -> Todo(u, <<>>, <<>>)

--------------------------------------------------------------------------------
(* Unify.                                                                  *)
UnderBinder(u, a, b) ==
  Todo([u EXCEPT !.fresh = @ + 1], <<<<Subst(a.args[2], a.n, Var(-u.fresh - 1)), Subst(b.args[2], b.n, Var(-u.fresh - 1))>>>>, <<>>)

Later(u, rest) ==
  CASE rest = <<>> -> Todo(u, <<>>, <<>>)
    [] rest[1].k = "forall" -> UnderBinder(u, rest[1], rest[2])
    [] OTHER -> resolveEvidenceTails(u, rest[1], rest[2])

(* A type that is applied against Computation or Thunk, whose grade is not *)
(* compared.                                                               *)
unifyAppWithTriple(u, app, cbpv) ==
  LET Spine(s, extra) ==
        IF extra < 0 THEN Stop(u, "mismatch")
        ELSE Todo(u, <<<<FoldLeft(App, s.head, SubSeq(s.args, 1, extra)), Con(IF cbpv.k = "comp" THEN Computation_ ELSE Thunk_)>>>>
                     \o Pairs(SubSeq(s.args, extra + 1, extra + 3), SubSeq(cbpv.args, 1, 3)), <<>>)
      Of(s) == Spine(s, Len(s.args) - 3)
  IN  Of(UnwindApp(app, <<>>))

IsRecordOfRow(t) == t.k = "app" /\ t.args[1].k = "con" /\ t.args[1].n = Record_ /\ IsRow(t.args[2])

Rowed(t) == IsRow(t) \/ IsRecordOfRow(t)
RowIn(t) == IF IsRow(t) THEN t ELSE t.args[2]

unifyFamilies(u, a, b) ==
  CASE Equal(a, b) -> Todo(u, <<>>, <<>>)
    [] a.n \in DOMAIN Families /\ Families[a.n].injective -> Todo(u, Pairs(Front(a.args), Front(b.args)), <<>>)
    [] OTHER -> Stop(u, "mismatch")

unifyCons(u, a, b) ==
  LET Adjoining(z) == IF Adjacent(z.t[1], z.t[2]) THEN Todo(z.u, <<>>, <<>>) ELSE Stop(z.u, "mismatch")
      Levels(r) == [u |-> r.u, e |-> r.e, pairs |-> <<>>, rest |-> <<>>]
  IN  IF a.n = b.n THEN Levels(UnifyLevels(u, a.args[1], b.args[1])) ELSE Adjoining(zonkLevels(At(u, <<>>), <<a.args[1], b.args[1]>>))

(* Two types neither of which is erroneous or a metavariable.              *)
Decomposed(u, a, b) ==
  LET Both(k) == a.k = k /\ b.k = k
      Given(t) == t.k = "skolem" /\ t.n \in DOMAIN u.skolems
  IN  CASE Given(a) -> Todo(u, <<<<u.skolems[a.n], b>>>>, <<>>)
        [] Both("skolem") /\ a.n = b.n -> Todo(u, <<>>, <<>>)
        [] a.k # "skolem" /\ Given(b) -> Todo(u, <<<<a, u.skolems[b.n]>>>>, <<>>)
        [] "skolem" \in {a.k, b.k} /\ u.flex -> Todo(IF a.k = "skolem" THEN Write(u, "skolems", a.n, b) ELSE Write(u, "skolems", b.n, a), <<>>, <<>>)
        [] "skolem" \in {a.k, b.k} -> Stop(u, "rigid")
        [] Both("var") /\ a.n = b.n -> Todo(u, <<>>, <<>>)
        [] Both("con") -> unifyCons(u, a, b)
        [] Both("arrow") \/ Both("app") \/ Both("evidence") -> Todo(u, Pairs(a.args, b.args), <<>>)
        [] Both("comp") \/ Both("thunk") -> Todo(u, Pairs(SubSeq(a.args, 1, Min({Len(a.args), Len(b.args)})), b.args), <<>>)
        [] Both("forall") -> Todo(u, <<<<a.args[1], b.args[1]>>>>, <<a, b>>)
        [] Both("family") /\ a.n = b.n /\ Len(a.args) = Len(b.args) -> unifyFamilies(u, a, b)
        [] Rowed(a) /\ Rowed(b) -> unifyEvidenceRows(u, RowIn(a), RowIn(b))
        [] a.k = "app" /\ b.k \in {"comp", "thunk"} -> unifyAppWithTriple(u, a, b)
        [] b.k = "app" /\ a.k \in {"comp", "thunk"} -> unifyAppWithTriple(u, b, a)
        [] OTHER -> Stop(u, "mismatch")

(* Both types are zonked first, then each is normalized.                   *)
Reduced(u, r) == At(Reducing(u, r.r), r.t)

normalizeOne(u, t) ==
  IF u.reduce THEN Reduced(u, reduceN(ReduceState(MaxTFSteps, u.fresh), expandAliases(t, 0))) ELSE At(u, t)

RECURSIVE normalize(_, _)
normalize(acc, ts) ==
  LET One(z) == normalize(At(z.u, Append(acc.t, CompApp(z.t, {3, 4}))), Tail(ts))
  IN  IF ts = <<>> THEN acc ELSE One(normalizeOne(acc.u, Head(ts)))

RECURSIVE Unify(_, _, _)

RECURSIVE unifyTodo(_)
RECURSIVE unifyAll(_, _)
unifyAll(u, pairs) ==
  LET First(r) == IF r.e # "" THEN r ELSE unifyAll(r.u, Tail(pairs))
  IN  IF pairs = <<>> THEN Ok(u) ELSE First(Unify(u, pairs[1][1], pairs[1][2]))

unifyRest(r, rest) == IF r.e # "" THEN r ELSE unifyTodo(Later(r.u, rest))

unifyTodo(todo) ==
  CASE todo.e # "" -> Fail(todo.u, todo.e)
    [] todo.rest = <<>> -> unifyAll(todo.u, todo.pairs)
    [] OTHER -> unifyRest(unifyAll(todo.u, todo.pairs), todo.rest)

solvePair(u, p) == solveMeta(u, p[1], p[2])

unifyHeads(u, a, b) ==
  CASE "error" \in {a.k, b.k} -> Ok(u)
    [] "meta" \in {a.k, b.k} -> solvePair(u, IF a.k = "meta" THEN <<a, b>> ELSE <<b, a>>)
    [] OTHER -> unifyTodo(Decomposed(u, a, b))

unifyNormal(n) == unifyHeads(n.u, n.t[1], n.t[2])

unifyZonked(z) == unifyNormal(normalize(At(z.u, <<>>), z.t))

Unify(u, a, b) == unifyZonked(zonkAll(u, <<a, b>>))

--------------------------------------------------------------------------------
(* Clients of the unifier (checker.go).                                    *)
EndTrial(r, t) == [r EXCEPT !.u = IF r.e = "" THEN Commit(r.u, t) ELSE Rollback(r.u, t)]

tryUnify(u, a, b) == EndTrial(Unify(Trial(u), a, b), u)

(* canUnifyWith: can a constructor's result type be the scrutinee's?  The  *)
(* variables of applications and arrows become metavariables.              *)
RECURSIVE substVarsWithMetas(_, _)
substVarsWithMetas(t, metas) ==
  CASE t.k = "var" -> metas[t.n]
    [] t.k \in {"app", "arrow"} -> [t EXCEPT !.args = [i \in DOMAIN t.args |-> substVarsWithMetas(t.args[i], metas)]]
    [] OTHER -> t

instantiateFresh(u, t) ==
  LET vars == SetToSortSeq(FreeVars(t), <)
  IN  At([u EXCEPT !.fresh = @ + Len(vars)],
         substVarsWithMetas(t, [x \in Range(vars) |-> Meta(u.fresh + SelectInSeq(vars, LAMBDA v : v = x))]))

Probed(r, t) == [u |-> EndProbe(r.u, t), e |-> r.e]

unifyWith(z, t) == Unify(z.u, z.t, t)

canUnifyWith(u, retTy, scrutTy) == Probed(unifyWith(instantiateFresh([BeginProbe(u) EXCEPT !.flex = TRUE], retTy), scrutTy), u)

(* extractGivenEqs: an argument of the scrutinee that is a skolem is, in   *)
(* the branch, the argument of the constructor's result.                   *)
extractGivenEqs(conRetTy, scrutTy) ==
  LET Givens(con, scrut) ==
        IF Len(con) # Len(scrut) THEN <<>>
        ELSE FoldLeft(LAMBDA m, i : IF scrut[i].k # "skolem" \/ con[i].k = "meta" \/ con[i] = scrut[i] THEN m
                                    ELSE (scrut[i].n :> con[i]) @@ m, <<>>, [i \in DOMAIN scrut |-> i])
  IN  Givens(UnwindApp(conRetTy, <<>>).args, UnwindApp(scrutTy, <<>>).args)

(* generalizeWith: the metavariables created after a watermark become      *)
(* variables named in their order, the constraints left over parameters,   *)
(* each around the ones before.  A temporary solution hides the others, and*)
(* nothing is shortened meanwhile.                                         *)
Wrapped(body, cs) == FoldLeft(LAMBDA b, c : Evidence(Row("crow", <<c>>, <<>>), b), body, cs)

Quantified(count, body) == FoldRight(LAMBDA i, b : Forall(i, TypeKind, b), [i \in 1..count |-> i], body)

Overlaid(u, metas) == [u EXCEPT !.temp = [m \in Range(metas) |-> Var(SelectInSeq(metas, LAMBDA n : n = m))]]

GeneralizedAt(z, count) == At([z.u EXCEPT !.temp = <<>>], Quantified(count, Wrapped(Head(z.t), Tail(z.t))))

GeneralizeOver(u, t, constraints, metas) ==
  IF metas = <<>> /\ constraints = <<>> THEN At(u, t)
  ELSE GeneralizedAt(zonkAll(Overlaid(u, metas), <<t>> \o constraints), Len(metas))

Generalize(u, t, constraints, watermark) ==
  GeneralizeOver(u, t, constraints,
    SetToSortSeq({m \in UNION {MetasOf(x) : x \in {t} \cup UNION {Range(c.args) : c \in Range(constraints)}} : m > watermark}, <))
=============================================================================
