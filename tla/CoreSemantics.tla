--------------------------- MODULE CoreSemantics ----------------------------
(***************************************************************************)
(* What a Core program means: an environment evaluator with no bytecode,   *)
(* stack, frame or shared map, the reference for the compiler and the      *)
(* virtual machine. Variables denote their innermost binder; capabilities  *)
(* are a function threaded through the evaluation.                         *)
(*                                                                         *)
(* An outcome is a value with the capabilities after it, or an error. g is *)
(* the function from the names of the evaluated bindings to their values.  *)
(***************************************************************************)
EXTENDS CoreIr, VmValues

\* Lists as values (internal/host/stdlib/list.go): listToSlice and buildList go
\* back and forth. The machine has the three as parameters, which its instances
\* bind to these definitions.
RECURSIVE IsListVal(_), listToSlice(_), buildList(_)
IsListVal(v) ==
  v.t = "con" /\ (v.c = "Nil" \/ (v.c = "Cons" /\ Len(v.args) = 2 /\ IsListVal(v.args[2])))
listToSlice(v) == IF v.c = "Nil" THEN <<>> ELSE <<v.args[1]>> \o listToSlice(v.args[2])
buildList(vs) ==
  IF vs = <<>> THEN ConVal("Nil", <<>>) ELSE ConVal("Cons", <<Head(vs), buildList(Tail(vs))>>)

Gives(v, caps)  == [ok |-> TRUE, v |-> v, caps |-> caps]
Error(kind, l, d) == [ok |-> FALSE, e |-> kind, l |-> l, d |-> d]
Stuck == Error("runtime", "", Nil)

\* Functions and suspended computations close over their environment; self is
\* the name of the Fix they belong to, or "".
FunVal(t, env, self)  == [t |-> "fun", x |-> t.x, b |-> t.b, env |-> env, self |-> self]
SuspVal(t, env, self) == [t |-> "susp", b |-> t.e, env |-> env, self |-> self]
InnerEnv(v) == IF v.self = "" THEN v.env ELSE (v.self :> v) @@ v.env
IsRecursive(v) == v.t = "susp" /\ v.self # ""

\* The bindings of a match, or Nil.
Miss == [t |-> "miss"]
RECURSIVE Match(_, _), MatchAll(_, _)
Both(a, b) == IF a = Miss \/ b = Miss THEN Miss ELSE b @@ a
MatchAll(ps, vs) ==
  IF ps = <<>> THEN <<>> ELSE Both(Match(Head(ps), Head(vs)), MatchAll(Tail(ps), Tail(vs)))
Match(p, v) ==
  CASE p.k = "PVar"  -> p.x :> v
    [] p.k = "PWild" -> <<>>
    [] p.k = "PLit"  -> IF v = p.v THEN <<>> ELSE Miss
    [] p.k = "PCon"  ->
         IF v.t = "con" /\ v.c = p.c /\ Len(v.args) = Len(p.args)
         THEN MatchAll(p.args, v.args) ELSE Miss
    [] p.k = "PRecord" ->
         IF v.t = "rec" /\ ToSet(p.ls) \subseteq DOMAIN v.f
         THEN MatchAll(p.args, [i \in DOMAIN p.ls |-> v.f[p.ls[i]]]) ELSE Miss
    [] p.k = "PLabel" ->
         IF v.t = "variant" /\ v.l = p.l THEN (IF p.x = "" THEN <<>> ELSE p.x :> v.v) ELSE Miss

RECURSIVE Sem(_, _, _, _), SemList(_, _, _, _, _), SemAlts(_, _, _, _, _),
          Perform(_, _, _), ApplyAll(_, _, _, _), RunPrim(_, _, _, _), Iterate(_, _, _, _, _)

\* A recursive computation that is returned runs.
RunSusp(g, v, caps) == Sem(g, v.b, InnerEnv(v), caps)
Returned(g, r) == IF r.ok /\ IsRecursive(r.v) THEN Perform(g, r.v, r.caps) ELSE r

\* Run the computation v denotes, if it denotes one.
Perform(g, v, caps) ==
  CASE IsRecursive(v) ->
         LET r == RunSusp(g, v, caps) IN IF r.ok THEN Perform(g, r.v, r.caps) ELSE r
    [] IsDeferred(v) -> RunPrim(g, v.p, v.args, caps)
    [] OTHER -> Gives(v, caps)
Performed(g, r) == IF r.ok THEN Perform(g, r.v, r.caps) ELSE r
Drive(g, v, caps) == Performed(g, ApplyAll(g, v, <<UnitVal>>, caps))

\* A suspended computation takes one argument and ignores it; several go to
\* its result, as applyN has it.
ApplyRest(g, r, args) == IF r.ok /\ args # <<>> THEN ApplyAll(g, r.v, args, r.caps) ELSE r
ApplyAll(g, f, args, caps) ==
  CASE f.t = "fun" ->
         ApplyRest(g, Returned(g, Sem(g, f.b, (f.x :> Head(args)) @@ InnerEnv(f), caps)), Tail(args))
    [] f.t = "con" -> Gives(ConVal(f.c, f.args \o args), caps)
    [] f.t = "prim" /\ (PrimSig[f.p].eff \/ Len(f.args) + Len(args) < PrimSig[f.p].arity) ->
         Gives(PrimVal(f.p, f.args \o args), caps)
    [] f.t = "prim" /\ ~PrimSig[f.p].eff /\ Len(f.args) + Len(args) >= PrimSig[f.p].arity ->
         LET n == PrimSig[f.p].arity - Len(f.args)
         IN  ApplyRest(g, RunPrim(g, f.p, f.args \o SubSeq(args, 1, n), caps),
                       SubSeq(args, n + 1, Len(args)))
    [] f.t = "susp" ->
         ApplyRest(g, Returned(g, RunSusp(g, f, caps)), IF Len(args) = 1 THEN <<>> ELSE args)
    [] OTHER -> Stuck

\* f on each item in turn: folding from the left, from the right (of the items
\* reversed), or with the results in a slice.
ArgumentsOf(how, acc, item) ==
  CASE how = "foldl" -> <<acc, item>> [] how = "foldr" -> <<item, acc>> [] how = "map" -> <<item>>
Accumulated(how, acc, r) ==
  IF r.ok /\ how = "map" THEN [r EXCEPT !.v = SliceVal(Append(acc.vs, @))] ELSE r
Iterate(g, f, r, items, how) ==
  IF ~r.ok \/ items = <<>> THEN r
  ELSE Iterate(g, f, Accumulated(how, r.v, ApplyAll(g, f, ArgumentsOf(how, r.v, Head(items)), r.caps)),
               Tail(items), how)
Chosen(items, tests) ==
  LET kept == SelectSeq([i \in DOMAIN items |-> i], LAMBDA i : tests[i] = TrueVal)
  IN  [i \in DOMAIN kept |-> items[kept[i]]]

Without(caps, l) == [m \in DOMAIN caps \ {l} |-> caps[m]]
PutBack(caps, l, before) == IF l \in DOMAIN before THEN (l :> before[l]) @@ caps ELSE Without(caps, l)

\* What a primitive makes of the outcome r of the function it calls.
ListOfResults(p, items, r) ==
  IF r.ok THEN Gives(buildList(IF p = "listMap" THEN r.v.vs ELSE Chosen(items, r.v.vs)), r.caps) ELSE r
Modified(l, r) == IF r.ok THEN Gives(UnitVal, (l :> r.v) @@ r.caps) ELSE r
StateRun(l, before, r) ==
  IF r.ok THEN Gives(Tuple(r.caps[l], r.v), PutBack(r.caps, l, before)) ELSE r
Tried(l, before, r) ==
  CASE r.ok -> Gives(ConVal("Ok", <<r.v>>), r.caps)
    [] ~r.ok /\ r.e = "fail" /\ r.l = l -> Gives(ConVal("Err", <<r.d>>), before)
    [] OTHER -> r

RunPrim(g, p, args, caps) ==
  CASE p = "add"   -> Gives(IntLit(args[1].n + args[2].n), caps)
    [] p = "empty" -> Gives(StrLit(""), caps)
    [] p = "foldl" -> Iterate(g, args[1], Gives(args[2], caps), listToSlice(args[3]), "foldl")
    [] p = "listFoldr" ->
         Iterate(g, args[1], Gives(args[2], caps), Reverse(listToSlice(args[3])), "foldr")
    [] p \in {"listMap", "listFilter"} ->
         ListOfResults(p, listToSlice(args[2]),
           Iterate(g, args[1], Gives(SliceVal(<<>>), caps), listToSlice(args[2]), "map"))
    [] p = "listToSlice"   -> Gives(IF args[1].t = "slice" THEN args[1] ELSE SliceVal(listToSlice(args[1])), caps)
    [] p = "listFromSlice" -> Gives(IF args[1].t = "slice" THEN buildList(args[1].vs) ELSE args[1], caps)
    [] p = "getAt" -> IF args[1].l \in DOMAIN caps THEN Gives(caps[args[1].l], caps) ELSE Stuck
    [] p = "putAt" -> Gives(UnitVal, (args[1].l :> args[2]) @@ caps)
    [] p = "failWithAt" -> Error("fail", args[1].l, args[2])
    [] p = "modifyAt" ->
         IF args[1].l \notin DOMAIN caps THEN Stuck
         ELSE Modified(args[1].l, ApplyAll(g, args[2], <<caps[args[1].l]>>, caps))
    [] p = "runStateAt" ->
         StateRun(args[1].l, caps, Drive(g, args[3], (args[1].l :> args[2]) @@ caps))
    [] p = "tryAt" -> Tried(args[1].l, caps, Drive(g, args[2], caps))

\* Arguments from left to right, into a sequence of values.
SemList(g, ts, env, vs, caps) ==
  IF ts = <<>> THEN [ok |-> TRUE, vs |-> vs, caps |-> caps]
  ELSE LET r == Sem(g, Head(ts), env, caps)
       IN  IF r.ok THEN SemList(g, Tail(ts), env, Append(vs, r.v), r.caps) ELSE r
SemAlts(g, v, alts, env, caps) ==
  IF alts = <<>> THEN Stuck
  ELSE LET m == Match(Head(alts).p, v)
       IN  IF m = Miss THEN SemAlts(g, v, Tail(alts), env, caps)
           ELSE Sem(g, Head(alts).b, m @@ env, caps)

Built(t, r) ==
  CASE ~r.ok -> r
    [] r.ok /\ t.k = "Con" -> Gives(ConVal(t.c, r.vs), r.caps)
    [] r.ok /\ t.k = "RecordLit" ->
         Gives(RecordVal([l \in ToSet(t.ls) |-> r.vs[CHOOSE i \in DOMAIN t.ls : t.ls[i] = l]]), r.caps)
    [] r.ok /\ t.k = "RecordProj" ->
         IF r.vs[1].t = "rec" /\ t.l \in DOMAIN r.vs[1].f THEN Gives(r.vs[1].f[t.l], r.caps)
         ELSE Stuck
    [] r.ok /\ t.k = "RecordUpdate" ->
         IF r.vs[1].t = "rec"
         THEN Gives(RecordVal([l \in ToSet(t.ls) |-> r.vs[1 + CHOOSE i \in DOMAIN t.ls : t.ls[i] = l]]
                              @@ r.vs[1].f), r.caps)
         ELSE Stuck
    [] r.ok /\ t.k = "VariantLit" -> Gives(VariantVal(t.l, r.vs[1]), r.caps)

RECURSIVE SpineOf(_, _)
SpineOf(t, args) ==
  CASE t.k = "App" -> SpineOf(t.f, <<t.a>> \o args)
    [] t.k \in {"TyApp", "TyLam"} -> SpineOf(t.e, args)
    [] OTHER -> <<t>> \o args

\* Labels are strings, and their variables are apart from those of terms.
LabelKey(x) == "@" \o x

\* An application, a bind and a merge, when the outcomes of their parts are known.
ApplyHead(g, r) == IF r.ok THEN ApplyAll(g, Head(r.vs), Tail(r.vs), r.caps) ELSE r
Continued(g, t, env, r) == IF r.ok THEN Sem(g, t.b, (t.x :> r.v) @@ env, r.caps) ELSE r
Joined(l, r) ==
  CASE ~l.ok -> l
    [] l.ok /\ ~r.ok -> r
    [] OTHER -> Gives(Tuple(l.v, r.v), r.caps @@ l.caps)

Sem(g, t, env, caps) ==
  CASE t.k = "Var"  -> IF t.x \in DOMAIN env THEN Gives(env[t.x], caps)
                       ELSE IF t.x \in DOMAIN g THEN Gives(g[t.x], caps) ELSE Stuck
    [] t.k = "QVar" -> IF t.x \in DOMAIN g THEN Gives(g[t.x], caps) ELSE Stuck
    [] t.k = "Lit"  -> Gives(t.v, caps)
    [] t.k = "Lam"  -> Gives(FunVal(t, env, ""), caps)
    [] t.k = "LabelLam" -> Gives(FunVal([x |-> LabelKey(t.x), b |-> t.e], env, ""), caps)
    [] t.k \in {"LabelApp", "LabelVarApp"} ->
         ApplyRest(g, Sem(g, t.e, env, caps),
                   <<IF t.k = "LabelApp" THEN StrLit("#" \o t.l) ELSE env[LabelKey(t.x)]>>)
    [] t.k = "Thunk" -> Gives(SuspVal(t, env, ""), caps)
    [] t.k = "Fix"  ->
         LET b == PeelTyLam(t.b)
         IN  CASE b.k = "Lam"   -> Gives(FunVal(b, env, t.x), caps)
               [] b.k = "Thunk" -> Gives(SuspVal(b, env, t.x), caps)
               [] OTHER -> Stuck
    [] t.k \in {"Pure", "TyLam", "TyApp"} -> Sem(g, t.e, env, caps)
    [] t.k = "Force" ->
         LET r == Sem(g, t.e, env, caps)
         IN  CASE ~r.ok -> r
               [] r.ok /\ r.v.t = "susp" -> Returned(g, RunSusp(g, r.v, r.caps))
               [] OTHER -> Stuck
    [] t.k = "Bind" ->
         Continued(g, t, env, Performed(g, Sem(g, t.c, env, caps)))
    [] t.k = "Case" ->
         LET r == Sem(g, t.s, env, caps)
         IN  IF r.ok THEN SemAlts(g, r.v, t.alts, env, r.caps) ELSE r
    [] t.k = "App" ->
         ApplyHead(g, SemList(g, SpineOf(t, <<>>), env, <<>>, caps))
    [] t.k = "PrimOp" ->
         LET r == SemList(g, t.args, env, <<>>, caps)
         IN  CASE ~r.ok -> r
               [] r.ok /\ r.vs = <<>> /\ (PrimSig[t.p].arity # 0 \/ PrimSig[t.p].eff) ->
                    Gives(PrimVal(t.p, <<>>), r.caps)
               [] OTHER -> IF r.vs = <<>> THEN RunPrim(g, t.p, <<>>, r.caps)
                           ELSE ApplyAll(g, PrimVal(t.p, <<>>), r.vs, r.caps)
    [] t.k = "Merge" ->
         Joined(Performed(g, Sem(g, t.l, env, Only(caps, t.ls[1]))),
                Performed(g, Sem(g, t.r, env, Only(caps, t.ls[2]))))
    [] OTHER -> Built(t, SemList(g, IF t.k = "RecordUpdate" THEN <<t.e>> \o t.args
                                    ELSE IF t.k \in {"RecordProj", "VariantLit"} THEN <<t.e>>
                                    ELSE t.args, env, <<>>, caps))

\* The bindings in order, without capabilities; then the entry, performed.
RECURSIVE SemProgram(_, _, _, _)
SemProgram(g, bindings, entry, caps) ==
  IF bindings = <<>> THEN Performed(g, Sem(g, entry, <<>>, caps))
  ELSE LET r == Returned(g, Sem(g, Head(bindings).e, <<>>, <<>>))
       IN  IF r.ok THEN SemProgram((Head(bindings).x :> r.v) @@ g, Tail(bindings), entry, caps) ELSE r

\* Values as a host can tell them apart: functions and computations are opaque.
RECURSIVE Shown(_)
Shown(v) ==
  CASE v.t \in {"fun", "susp", "prim", "clo", "thunk", "pap"} -> [t |-> "opaque"]
    [] v.t = "con"     -> ConVal(v.c, [i \in DOMAIN v.args |-> Shown(v.args[i])])
    [] v.t = "rec"     -> RecordVal([l \in DOMAIN v.f |-> Shown(v.f[l])])
    [] v.t = "variant" -> VariantVal(v.l, Shown(v.v))
    [] OTHER -> v
ShownOutcome(r) ==
  IF r.ok THEN Gives(Shown(r.v), [l \in DOMAIN r.caps |-> Shown(r.caps[l])])
  ELSE Error(r.e, r.l, Shown(r.d))
=============================================================================
