----------------------------- MODULE Optimizer ------------------------------
(***************************************************************************)
(* From the Core the checker emits to the Core the bytecode compiler gets: *)
(* label erasure (ir/label_erase.go), the structural checks of ir/verify.go*)
(* the optimizer (compiler/optimize) with its inlining policy              *)
(* (engine/inline_policy.go) and the fusion rules that the list pack       *)
(* registers (stdlib/list_fusion.go), the order of bindings (ir/deps.go).  *)
(*                                                                         *)
(* A binding is a record with x, e and gen, whether the checker generated  *)
(* it (evidence). A program has mods, the bindings of the imported module, *)
(* which refer to each other by QVar, bindings, the main ones in the order *)
(* written, and entry. A rule maps a node to a node and leaves alone those *)
(* it does not match. Types are left out, so type arguments only disappear;*)
(* the code rewrites in place, which shows only in candidates: one follows *)
(* the optimization of its binding.                                        *)
(***************************************************************************)
EXTENDS CoreIr, FiniteSets, TLC

CoreBinding(x, e) == [x |-> x, e |-> e, gen |-> FALSE]
Evidence(x, e)    == [x |-> x, e |-> e, gen |-> TRUE]

-----------------------------------------------------------------------------
(* Traversals (ir/walk.go). Parts are the direct subterms.                 *)

\* A sequence whose elements TLC evaluates once.
Listed(s) == s \o <<>>

Parts(t) ==
  CASE t.k \in {"Lam", "Fix"} -> <<t.b>>
    [] t.k = "Bind" -> <<t.c, t.b>>
    [] t.k = "Case" -> <<t.s>> \o [i \in DOMAIN t.alts |-> t.alts[i].b]
    [] OTHER -> Children(t)

WithParts(t, ps) ==
  CASE t.k \in {"Lam", "Fix"} -> [t EXCEPT !.b = ps[1]]
    [] t.k = "Bind"  -> [t EXCEPT !.c = ps[1], !.b = ps[2]]
    [] t.k = "Case"  -> [t EXCEPT !.s = ps[1],
                                  !.alts = Listed([i \in DOMAIN @ |-> [@[i] EXCEPT !.b = ps[i + 1]]])]
    [] t.k = "App"   -> [t EXCEPT !.f = ps[1], !.a = ps[2]]
    [] t.k = "Merge" -> [t EXCEPT !.l = ps[1], !.r = ps[2]]
    [] t.k \in {"Con", "PrimOp", "RecordLit"} -> [t EXCEPT !.args = ps]
    [] t.k = "RecordUpdate" -> [t EXCEPT !.e = ps[1], !.args = Tail(ps)]
    [] ps = <<>> -> t
    [] OTHER -> [t EXCEPT !.e = ps[1]]

RECURSIVE Subterms(_), nodeSize(_)
Subterms(t) == {t} \cup UNION {Subterms(p) : p \in ToSet(Parts(t))}
nodeSize(t) == FoldLeft(LAMBDA n, p : n + nodeSize(p), 1, Parts(t))

QualifiedNames(t) == {q.x : q \in {s \in Subterms(t) : s.k = "QVar"}}
BoundNames(t) ==
  UNION {IF s.k \in {"Lam", "Fix", "Bind"} THEN {s.x}
         ELSE IF s.k = "Case" THEN UNION {ToSet(Bindings(a.p)) : a \in ToSet(s.alts)}
         ELSE {} : s \in Subterms(t)}
fvNames(t)  == traverseFV(t) \cup QualifiedNames(t)
AllNames(t) == fvNames(t) \cup BoundNames(t)

-----------------------------------------------------------------------------
(* Label erasure. A binder of a label is the parameter of a function, if   *)
(* its body passes the label on; a label is a string.                      *)

bodyHasLabelTyVar(t, x) == \E s \in Subterms(t) : s.k = "LabelVarApp" /\ s.x = x

\* ls: the map of the label variables in scope, which all binders share. With
\* a term goes the map after it: leaving a binder takes its name out, even
\* when a binder further out has it too.
RECURSIVE eraseLabelRec(_, _)
Erased(t, ls) == [t |-> t, ls |-> ls]
ErasedParts(ps, ls) ==
  FoldLeft(LAMBDA done, p : LET e == eraseLabelRec(p, done.ls)
                            IN  Erased(Append(done.t, e.t), e.ls),
           Erased(<<>>, ls), ps)
eraseLabelRec(t, ls) ==
  LET parts == ErasedParts(IF t.k \in {"Con", "PrimOp", "VariantLit"} THEN <<>> ELSE Parts(t),
                           IF t.k = "LabelLam" /\ bodyHasLabelTyVar(t.e, t.x) THEN ls \cup {t.x} ELSE ls)
      after == parts.ls
  IN  CASE t.k = "LabelLam" /\ bodyHasLabelTyVar(t.e, t.x) ->
             Erased(Lam(t.x, parts.t[1]), after \ {t.x})
        [] t.k = "LabelLam" /\ ~bodyHasLabelTyVar(t.e, t.x) -> Erased(TyLam(parts.t[1]), after)
        [] t.k = "LabelApp" -> Erased(App(parts.t[1], Lit(StrLit("#" \o t.l))), after)
        [] t.k = "LabelVarApp" /\ t.x \in after -> Erased(App(parts.t[1], Var(t.x)), after)
        [] t.k = "LabelVarApp" /\ t.x \notin after -> Erased(TyApp(parts.t[1]), after)
        [] t.k \in {"Con", "PrimOp", "VariantLit"} -> Erased(t, ls)
        [] OTHER -> Erased(WithParts(t, parts.t), after)

EraseLabelArgs(t) == eraseLabelRec(t, {}).t

\* What is demanded of the result: V4a and V4b, V6, V7, V8.
verifyCore(t) ==
  \A s \in Subterms(t) :
    /\ s.k = "Force" => s.e.k # "Force"
    /\ s.k = "Thunk" => s.e.k # "Thunk"
    /\ s.k # "LabelApp"
    /\ s.k = "Fix"   => PeelTyLam(s.b).k \in {"Lam", "Thunk"}
    /\ s.k = "Bind"  => s.c.k \notin {"Thunk", "Lam"}
VerifyProgram(bs) == \A b \in ToSet(bs) : verifyCore(b.e)

-----------------------------------------------------------------------------
(* Substitution (subst.go). subs maps names to terms, fv holds the names   *)
(* free in them. A name is fresh because a global counter makes it so.     *)

freshName(x, used) ==
  LET suffix == CHOOSE n \in 1..(Cardinality(used) + 1) : (x \o "$r" \o ToString(n)) \notin used
  IN  x \o "$r" \o ToString(suffix)

Dropping(subs, xs) == [x \in DOMAIN subs \ xs |-> subs[x]]
UsedIn(t, subs, fv) == AllNames(t) \cup fv \cup UNION {AllNames(subs[x]) : x \in DOMAIN subs}

\* The payload of a label pattern keeps its name.
RECURSIVE renamePatternVar(_, _)
renamePatternVar(p, names) ==
  CASE p.k = "PVar" /\ p.x \in DOMAIN names -> PVar(names[p.x].x)
    [] p.k \in {"PCon", "PRecord"} ->
         [p EXCEPT !.args = Listed([i \in DOMAIN @ |-> renamePatternVar(@[i], names)])]
    [] OTHER -> p

RECURSIVE substMany(_, _, _)
Renamed(t, names) == substMany(t, names, {names[x].x : x \in DOMAIN names})
\* The renaming of those of xs that would capture; a mutant without it.
NoFreshNames(xs, t, subs, fv) == <<>>
FreshNames(xs, t, subs, fv) == [x \in xs \cap fv |-> Var(freshName(x, xs \cup UsedIn(t, subs, fv)))]
NewName(x, names) == IF x \in DOMAIN names THEN names[x].x ELSE x

SubstAlt(a, subs, fv) ==
  LET names == FreshNames(ToSet(Bindings(a.p)), a.b, subs, fv)
  IN  Alt(renamePatternVar(a.p, names),
          substMany(Renamed(a.b, names), Dropping(subs, ToSet(Bindings(a.p))), fv))

\* A function or Fix that shadows a name keeps its own, whatever else is
\* substituted under it.
substMany(t, subs, fv) ==
  LET names == FreshNames({t.x}, t.b, subs, fv)      \* of a node that binds x in b
  IN  CASE DOMAIN subs = {} -> t
        [] DOMAIN subs # {} /\ t.k = "Var" -> IF t.x \in DOMAIN subs THEN subs[t.x] ELSE t
        [] DOMAIN subs # {} /\ t.k \in {"Lam", "Fix"} ->
             IF t.x \in DOMAIN subs
             THEN [t EXCEPT !.b = substMany(@, Dropping(subs, {t.x}), fv)]
             ELSE [t EXCEPT !.x = NewName(@, names), !.b = substMany(Renamed(@, names), subs, fv)]
        [] DOMAIN subs # {} /\ t.k = "Bind" ->
             [t EXCEPT !.c = substMany(@, subs, fv), !.x = NewName(@, names),
                       !.b = substMany(Renamed(@, names), Dropping(subs, {t.x}), fv)]
        [] DOMAIN subs # {} /\ t.k = "Case" ->
             Case(substMany(t.s, subs, fv),
                  Listed([i \in DOMAIN t.alts |-> SubstAlt(t.alts[i], subs, fv)]))
        [] OTHER -> WithParts(t, Listed([i \in DOMAIN Parts(t) |-> substMany(Parts(t)[i], subs, fv)]))

substFV(t, x, e) == substMany(t, x :> e, fvNames(e))

-----------------------------------------------------------------------------
(* Algebraic rules (optimize.go, subst.go, case_of_case.go).               *)

betaReduce(t) ==
  IF t.k = "App" /\ t.f.k = "Lam" THEN substFV(t.f.b, t.f.x, t.a) ELSE t
tyAppBeta(t) == IF t.k = "TyApp" /\ t.e.k = "TyLam" THEN t.e.e ELSE t
appTyLamFloat(t) == IF t.k = "App" /\ t.f.k = "TyLam" THEN TyLam(App(t.f.e, t.a)) ELSE t

Field(t, l) == t.args[CHOOSE i \in DOMAIN t.ls : t.ls[i] = l /\ \A j \in 1..(i - 1) : t.ls[j] # l]
HasField(t, l) == t.k = "RecordLit" /\ l \in ToSet(t.ls)
FieldOr(t, l) == IF HasField(t, l) THEN Field(t, l) ELSE RecordProj(t, l)

\* The variables of pattern p, with the parts of the term they stand for; a
\* constructor pattern under another is decomposed only where the term is
\* known, and a literal one is not compared.
RECURSIVE collectPatSubs(_, _), CollectAll(_, _)
collectPatSubs(p, v) ==
  CASE p.k = "PVar" -> p.x :> v
    [] p.k = "PRecord" -> CollectAll(p.args, [i \in DOMAIN p.ls |-> FieldOr(v, p.ls[i])])
    [] p.k = "PCon" /\ v.k = "Con" /\ v.c = p.c -> CollectAll(p.args, v.args)
    [] OTHER -> <<>>
CollectAll(ps, vs) ==
  IF ps = <<>> \/ vs = <<>> THEN <<>>
  ELSE CollectAll(Tail(ps), Tail(vs)) @@ collectPatSubs(Head(ps), Head(vs))

SubstAll(t, subs) == substMany(t, subs, UNION {fvNames(subs[x]) : x \in DOMAIN subs})

caseOfKnownCtor(t) ==
  IF t.k = "Case" /\ t.s.k = "Con" /\ \E a \in ToSet(t.alts) : a.p.k = "PCon" /\ a.p.c = t.s.c
  THEN LET alt == SelectSeq(t.alts, LAMBDA a : a.p.k = "PCon" /\ a.p.c = t.s.c)[1]
       IN  SubstAll(alt.b, CollectAll(alt.p.args, t.s.args))
  ELSE t

\* The first equal literal or variable; failing that, the last wildcard.
caseOfKnownLit(t) ==
  IF t.k # "Case" \/ t.s.k # "Lit" THEN t
  ELSE LET hits  == SelectSeq(t.alts, LAMBDA a : a.p.k = "PVar" \/ (a.p.k = "PLit" /\ a.p.v = t.s.v))
           wilds == SelectSeq(t.alts, LAMBDA a : a.p.k = "PWild")
       IN  CASE hits # <<>> -> SubstAll(hits[1].b, collectPatSubs(hits[1].p, t.s))
             [] hits = <<>> /\ wilds # <<>> -> Last(wilds).b
             [] OTHER -> t

bindPureElim(t) ==
  IF t.k = "Bind" /\ t.c.k = "Pure" THEN substFV(t.b, t.x, t.c.e) ELSE t
forceThunkElim(t) == IF t.k = "Force" /\ t.e.k = "Thunk" THEN t.e.e ELSE t
recordProjKnown(t) ==
  IF t.k = "RecordProj" /\ HasField(t.e, t.l) THEN Field(t.e, t.l) ELSE t

\* The updates of the inner node that the outer one does not repeat, then the
\* outer ones.
recordUpdateChain(t) ==
  IF t.k = "RecordUpdate" /\ t.e.k = "RecordUpdate"
  THEN LET kept == SelectSeq([i \in DOMAIN t.e.ls |-> i], LAMBDA i : t.e.ls[i] \notin ToSet(t.ls))
       IN  RecordUpdate(t.e.e, [i \in DOMAIN kept |-> t.e.ls[kept[i]]] \o t.ls,
                        [i \in DOMAIN kept |-> t.e.args[kept[i]]] \o t.args)
  ELSE t

RECURSIVE UnderTyApp(_)
UnderTyApp(t) == IF t.k = "TyApp" THEN UnderTyApp(t.e) ELSE t
primOpAbsorb(t) ==
  IF t.k # "App" THEN t
  ELSE LET po == UnderTyApp(t.f)
       IN  IF po.k = "PrimOp" /\ Len(po.args) < PrimSig[po.p].arity
           THEN PrimOp(po.p, Append(po.args, t.a)) ELSE t

maxDuplicateSize == 50
\* The names of a pattern that free has are renamed, one after the other.
RECURSIVE avoidCapture(_, _, _)
avoidCapture(a, xs, free) ==
  IF xs = <<>> THEN a
  ELSE LET names == FreshNames({Head(xs)}, a.b, <<>>, free \cup ToSet(Bindings(a.p)))
       IN  avoidCapture(IF Head(xs) \in free THEN Alt(renamePatternVar(a.p, names), Renamed(a.b, names))
                        ELSE a, Tail(xs), free)
\* The alternatives of an inner case, with the rest of the outer node moved in.
PushIn(inner, free, rest(_)) ==
  Case(inner.s, Listed([i \in DOMAIN inner.alts |->
    LET a == avoidCapture(inner.alts[i], Bindings(inner.alts[i].p), free)
    IN  Alt(a.p, rest(a.b))]))
AltsSize(alts) == FoldLeft(LAMBDA n, a : n + nodeSize(a.b), 0, alts)

caseOfCase(t) ==
  IF t.k = "Case" /\ t.s.k = "Case" /\ AltsSize(t.alts) <= maxDuplicateSize
  THEN PushIn(t.s, UNION {fvNames(a.b) : a \in ToSet(t.alts)}, LAMBDA e : Case(e, t.alts))
  ELSE t
bindOfCase(t) ==
  IF t.k = "Bind" /\ t.c.k = "Case" /\ nodeSize(t.b) <= maxDuplicateSize
  THEN PushIn(t.c, fvNames(t.b), LAMBDA e : Bind(e, t.x, t.b))
  ELSE t

-----------------------------------------------------------------------------
(* Rules that depend on the program (optimize.go, inline.go). R holds the  *)
(* terms to put for a reference: inline and dicts by the name of a main    *)
(* binding, extInline and extDicts by the name of an imported one. Names   *)
(* are compared as they are, without regard to local binders.              *)

KnownFor(t, local, external) ==
  CASE t.k = "Var" /\ t.x \in DOMAIN local -> local[t.x]
    [] t.k = "QVar" /\ t.x \in DOMAIN external -> external[t.x]
    [] OTHER -> t

\* Con{C} applied to arguments, under type applications, as Con{C, args}.
RECURSIVE ConSpine(_, _)
ConSpine(t, args) ==
  CASE t.k = "App"   -> ConSpine(t.f, <<t.a>> \o args)
    [] t.k = "TyApp" -> ConSpine(t.e, args)
    [] t.k = "Con" /\ args # <<>> -> Con(t.c, args)
    [] OTHER -> Lit(StrLit(""))
normalizeConApp(t) == ConSpine(t, <<>>)

\* A dictionary is put in only where it is taken apart.
caseOfKnownDict(t, R) ==
  IF t.k # "Case" THEN t
  ELSE LET dict  == KnownFor(t.s, R.dicts, R.extDicts)
           known == caseOfKnownCtor(Case(dict, t.alts))
       IN  CASE dict = t.s -> t
             [] dict # t.s /\ known # Case(dict, t.alts) -> known
             [] dict # t.s /\ known = Case(dict, t.alts) /\ normalizeConApp(dict).k = "Con" ->
                  caseOfKnownCtor(Case(normalizeConApp(dict), t.alts))
             [] OTHER -> known
inlineRule(t, R) == KnownFor(t, R.inline, R.extInline)

-----------------------------------------------------------------------------
(* Rules the list pack registers.                                          *)

OptVarX   == "$opt_x"
OptVarAcc == "$opt_acc"
Over(t, p, n, q) ==              \* p applied to n arguments, the last a q of two
  /\ t.k = "PrimOp" /\ t.p = p /\ Len(t.args) = n
  /\ t.args[n].k = "PrimOp" /\ t.args[n].p = q /\ Len(t.args[n].args) = 2
Clear(names, terms) == \A t \in terms : traverseFV(t) \cap names = {}
App2(f, a, b) == App(App(f, a), b)
WhenTrue(p, e, other) ==
  Case(App(p, Var(OptVarX)), <<Alt(PCon("True", <<>>), e), Alt(PCon("False", <<>>), other)>>)

listPackedRoundtrip(t) ==
  IF /\ t.k = "PrimOp" /\ Len(t.args) = 1 /\ t.args[1].k = "PrimOp" /\ Len(t.args[1].args) = 1
     /\ <<t.p, t.args[1].p>> \in {<<"listFromSlice", "listToSlice">>, <<"listToSlice", "listFromSlice">>}
  THEN t.args[1].args[1] ELSE t
listMapMapFusion(t) ==
  IF ~Over(t, "listMap", 2, "listMap") THEN t
  ELSE LET f == t.args[1]  g == t.args[2].args[1]
       IN  IF ~Clear({OptVarX}, {f, g}) THEN t
           ELSE PrimOp("listMap", <<Lam(OptVarX, App(f, App(g, Var(OptVarX)))), t.args[2].args[2]>>)
\* The other rules are folds whose step applies the inner function or tests
\* the inner predicate.
Fused(t, fold, params, step, unit) ==
  IF ~Clear({OptVarX, OptVarAcc}, {t.args[1], Last(t.args).args[1]}) THEN t
  ELSE PrimOp(fold, <<Lam(params[1], Lam(params[2], step)), unit, Last(t.args).args[2]>>)
RightOrder == <<OptVarX, OptVarAcc>>
LeftOrder  == <<OptVarAcc, OptVarX>>
listFoldrMapFusion(t) ==
  IF ~Over(t, "listFoldr", 3, "listMap") THEN t
  ELSE Fused(t, "listFoldr", RightOrder,
             App2(t.args[1], App(t.args[3].args[1], Var(OptVarX)), Var(OptVarAcc)), t.args[2])
listFoldrFilterFusion(t) ==
  IF ~Over(t, "listFoldr", 3, "listFilter") THEN t
  ELSE Fused(t, "listFoldr", RightOrder,
             WhenTrue(t.args[3].args[1], App2(t.args[1], Var(OptVarX), Var(OptVarAcc)), Var(OptVarAcc)),
             t.args[2])
listFoldlMapFusion(t) ==
  IF ~Over(t, "foldl", 3, "listMap") THEN t
  ELSE Fused(t, "foldl", LeftOrder,
             App2(t.args[1], Var(OptVarAcc), App(t.args[3].args[1], Var(OptVarX))), t.args[2])
listFoldlFilterFusion(t) ==
  IF ~Over(t, "foldl", 3, "listFilter") THEN t
  ELSE Fused(t, "foldl", LeftOrder,
             WhenTrue(t.args[3].args[1], App2(t.args[1], Var(OptVarAcc), Var(OptVarX)), Var(OptVarAcc)),
             t.args[2])
listMapFilterFusion(t) ==
  IF ~Over(t, "listMap", 2, "listFilter") THEN t
  ELSE Fused(t, "listFoldr", RightOrder,
             WhenTrue(t.args[2].args[1],
                      Con("Cons", <<App(t.args[1], Var(OptVarX)), Var(OptVarAcc)>>), Var(OptVarAcc)),
             Con("Nil", <<>>))

-----------------------------------------------------------------------------
(* Passes (optimize.go).                                                   *)

Algebraic(t) ==
  primOpAbsorb(recordUpdateChain(recordProjKnown(forceThunkElim(bindPureElim(
    caseOfKnownLit(caseOfKnownCtor(appTyLamFloat(tyAppBeta(betaReduce(t))))))))))
Registered(t) ==
  listMapFilterFusion(listFoldlFilterFusion(listFoldlMapFusion(listFoldrFilterFusion(
    listFoldrMapFusion(listMapMapFusion(listPackedRoundtrip(t)))))))
apply(t, R) ==
  Registered(inlineRule(caseOfKnownDict(bindOfCase(caseOfCase(Algebraic(t))), R), R))

\* Bottom-up: the parts of a node first, then the node once.
RECURSIVE TransformMut(_, _), optimize(_, _, _), Repeat(_, _, _, _)
TransformMut(t, R) ==
  LET parts == Listed([i \in DOMAIN Parts(t) |-> TransformMut(Parts(t)[i], R)])
  IN  IF parts = Parts(t) THEN apply(t, R) ELSE apply(WithParts(t, parts), R)

maxPasses == 4
\* n: the passes before the context is cancelled, at most maxPasses.
Repeat(t, next, R, n) == IF next = t THEN t ELSE optimize(next, R, n - 1)
optimize(t, R, n) == IF n = 0 THEN t ELSE Repeat(t, TransformMut(t, R), R, n)

-----------------------------------------------------------------------------
(* What may be inlined (inline.go, inline_policy.go).                      *)

maxInlineSize         == 20
maxEvidenceInlineSize == 60
RECURSIVE PeelLams(_), SpineRoot(_)
PeelLams(t) == CASE t.k = "Lam" -> PeelLams(t.b) [] t.k = "TyLam" -> PeelLams(t.e) [] OTHER -> t

Simple(t) == t.k \in {"Var", "QVar", "Lit"}
\* The head of a spine whose arguments are simple, or the node that is not.
SpineRoot(t) ==
  CASE t.k = "TyApp" -> SpineRoot(t.e)
    [] t.k = "App" /\ Simple(t.a) -> SpineRoot(t.f)
    [] OTHER -> t
IsTransparentAlias(t) ==
  LET core == PeelTyLam(t)
  IN  \/ core.k = "PrimOp" /\ core.args = <<>> /\ ~PrimSig[core.p].eff
      \/ SpineRoot(core).k \in {"Var", "QVar"}
IsMethodSelector(t) == PeelLams(t).k = "Case" /\ Len(PeelLams(t).alts) = 1

\* self: the names of the space the binding is in.
Recursive(b, external) == b.x \in (IF external THEN QualifiedNames(b.e) ELSE traverseFV(b.e))
eligibleInlineBody(b, external) ==
  b.e.k = "Lam" /\ nodeSize(b.e) <= maxInlineSize /\ ~Recursive(b, external)
eligibleEvidenceBody(b, external) ==
  /\ nodeSize(b.e) <= maxEvidenceInlineSize /\ ~Recursive(b, external)
  /\ PeelLams(b.e).k \in {"Con", "App", "Case"}
IsDictionary(b, external) ==
  b.gen /\ PeelLams(b.e).k \in {"Con", "App"} /\ ~Recursive(b, external)

transparentInlineWhitelist == {"$", "&", "fix", "rec", "force", "pure", "bind"}
collectExternalInlineBindings(b) ==
  /\ ~b.gen
  /\ b.x \in transparentInlineWhitelist \/ IsTransparentAlias(b.e) \/ IsMethodSelector(b.e)
collectInlineCandidates(b, inline) ==
  IF b.gen THEN eligibleEvidenceBody(b, FALSE) ELSE inline /\ eligibleInlineBody(b, FALSE)
collectExternal(b) ==
  /\ collectExternalInlineBindings(b)
  /\ eligibleInlineBody(b, TRUE) \/ IsTransparentAlias(b.e) \/ eligibleEvidenceBody(b, TRUE)

Named(bs, names) == [x \in names |-> (CHOOSE b \in ToSet(bs) : b.x = x).e]
\* The names are chosen before any binding is optimized; a candidate that has
\* been optimized since is put in as it is now.
NamesOf(bs, inline) ==
  [inline |-> {b.x : b \in {c \in ToSet(bs) : collectInlineCandidates(c, inline)}},
   dicts |-> {b.x : b \in {c \in ToSet(bs) : IsDictionary(c, FALSE)}}]
RulesNow(bs, names, mods, inline) ==
  LET of(sel(_)) == {b.x : b \in {c \in ToSet(mods) : inline /\ sel(c)}}
  IN  [inline |-> Named(bs, names.inline), dicts |-> Named(bs, names.dicts),
       extInline |-> Named(mods, of(collectExternal)),
       extDicts |-> Named(mods, of(LAMBDA b : IsDictionary(b, TRUE)))]

RECURSIVE OptimizeBindings(_, _, _, _, _, _)
OptimizeBindings(bs, i, names, mods, inline, n) ==
  IF i > Len(bs) THEN bs
  ELSE OptimizeBindings(
         [bs EXCEPT ![i].e = optimize(@, RulesNow(bs, names, mods, inline), n)],
         i + 1, names, mods, inline, n)
OptimizeProgram(bs, mods, inline, n) ==
  OptimizeBindings(bs, 1, NamesOf(bs, inline), mods, inline, n)

-----------------------------------------------------------------------------
(* The order of evaluation (deps.go): Kahn's algorithm, first come first   *)
(* served; what is in a cycle follows in the order written.                *)

Dependencies(bs, i) == {j \in DOMAIN bs : j # i /\ bs[j].x \in fvNames(bs[i].e)}
Ascending(bs, p(_)) == SelectSeq([i \in DOMAIN bs |-> i], p)
RECURSIVE Kahn(_, _, _)
Kahn(bs, queue, out) ==
  IF queue = <<>> THEN out
  ELSE LET done == ToSet(out) \cup {Head(queue)}
       IN  Kahn(bs, Tail(queue) \o Ascending(bs, LAMBDA i :
                      Head(queue) \in Dependencies(bs, i) /\ Dependencies(bs, i) \subseteq done),
                Append(out, Head(queue)))
SortBindings(bs) ==
  LET sorted == Kahn(bs, Ascending(bs, LAMBDA i : Dependencies(bs, i) = {}), <<>>)
      order  == sorted \o Ascending(bs, LAMBDA i : i \notin ToSet(sorted))
  IN  Listed([i \in DOMAIN order |-> bs[order[i]]])

-----------------------------------------------------------------------------
(* The pipeline (pipeline.go). A module is optimized for itself: its       *)
(* references are qualified, so none of its own names is inlined.          *)

EraseLabelArgsProgram(bs) == Listed([i \in DOMAIN bs |-> [bs[i] EXCEPT !.e = EraseLabelArgs(@)]])
\* With verification on, what is malformed stops the compiler.
postCheck(bs, mods, inline, n) ==
  LET erased == EraseLabelArgsProgram(bs)
  IN  IF Assert(VerifyProgram(erased), "IR verification failed")
      THEN OptimizeProgram(erased, mods, inline, n) ELSE <<>>
compileModule(mods, n) == postCheck(mods, <<>>, FALSE, n)
\* The entry is a main binding like the others.
EntryName == "main"
compileMain(p, mods, inline, n) ==
  postCheck(Append(p.bindings, CoreBinding(EntryName, p.entry)), mods, inline, n)
\* The entry is sorted with the other bindings, which may depend on it, and then
\* taken from among them.
AssembledFrom(p, mods, sorted) ==
  [p EXCEPT !.bindings = SortBindings(mods) \o SelectSeq(sorted, LAMBDA b : b.x # EntryName),
            !.entry = SelectSeq(sorted, LAMBDA b : b.x = EntryName)[1].e]
Assembled(p, mods, main) == AssembledFrom(p, mods, SortBindings(main))
AssembledWith(p, mods, inline, n) == Assembled(p, mods, compileMain(p, mods, inline, n))
assembleRuntime(p, inline, n) == AssembledWith(p, compileModule(p.mods, n), inline, n)
=============================================================================
