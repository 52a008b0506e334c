----------------------------- MODULE VmCompiler -----------------------------
(***************************************************************************)
(* The bytecode compiler (internal/runtime/vm/compiler*.go): Core to       *)
(* prototypes. A compiler state c is the Compiler with its top frame:      *)
(*   prims   the globals that are aliases of a primitive                   *)
(*   protos  the finished prototypes; a prototype is named by its position *)
(*   descs   the pool of match descriptors shared by all frames            *)
(*   start, end  the range of the top frame in that pool                   *)
(*   code, locals, nl, self, np  the frame: instructions, named locals,    *)
(*       numLocals, fixSelfSlot (-1: none) and the number of parameters    *)
(*   fails   the instructions whose fail target is not yet known           *)
(* An instruction is a record; jumps count instructions instead of bytes,  *)
(* and constants and names are operands instead of indices of a pool.      *)
(***************************************************************************)
EXTENDS CoreIr

emit(c, i)   == [c EXCEPT !.code = Append(@, i)]
op0(o)       == [op |-> o]
op1(o, a)    == [op |-> o, a |-> a]
op2(o, a, b) == [op |-> o, a |-> a, b |-> b]

-----------------------------------------------------------------------------
(* Locals, descriptors, frames.                                            *)

allocLocal(c, x) ==
  [c EXCEPT !.locals = Append(@, [x |-> x, slot |-> c.nl]), !.nl = @ + 1]

RECURSIVE allocLocals(_, _)
allocLocals(c, xs) ==
  IF xs = <<>> THEN c ELSE allocLocals(allocLocal(c, Head(xs)), Tail(xs))

popLocals(c, n) == [c EXCEPT !.locals = SubSeq(@, 1, n)]

\* The slot of the local of that name allocated last, or -1.
resolveLocal(c, x) ==
  IF \E l \in ToSet(c.locals) : l.x = x
  THEN LET named == SelectSeq(c.locals, LAMBDA l : l.x = x) IN Last(named).slot
  ELSE -1

\* Descriptors are appended to the shared pool; the operand is the position
\* after the append, relative to the start of the frame.
addMatchDesc(c, d) == [c EXCEPT !.descs = Append(@, d), !.end = Len(c.descs) + 1]
LastDesc(c) == c.end - 1 - c.start

\* The slots a closure captures from its parent frame: the local of that name
\* or, failing that, the entry of the index list at the same position.
CaptureSlot(c, x, i, indices) ==
  IF resolveLocal(c, x) >= 0 THEN resolveLocal(c, x)
  ELSE IF i <= Len(indices) THEN indices[i] ELSE -1
resolveCapturesFiltered(c, vars, indices) ==
  SelectSeq([i \in DOMAIN vars |->
              [x |-> vars[i], slot |-> CaptureSlot(c, vars[i], i, indices)]],
            LAMBDA l : l.slot >= 0)

enterFrame(c) ==
  [prims |-> c.prims, protos |-> c.protos, descs |-> c.descs,
   start |-> Len(c.descs), end |-> Len(c.descs), code |-> <<>>, locals |-> <<>>,
   nl |-> 0, self |-> -1, np |-> 0, fails |-> <<>>]

\* Back in the parent c, with the prototype of the child frame f added; op
\* names the instruction that uses it, "" for none.
leaveFrame(c, f, captures, op) ==
  [c EXCEPT
    !.protos = Append(f.protos,
      [code |-> f.code, nl |-> f.nl, np |-> f.np, self |-> f.self,
       captures |-> captures, descs |-> SubSeq(f.descs, f.start + 1, f.end)]),
    !.descs = f.descs,
    !.code = IF op = "" THEN @ ELSE Append(@, op1(op, Len(f.protos) + 1))]

-----------------------------------------------------------------------------
(* Patterns (compiler_match.go). The value to test is on top of the stack. *)

SlotName(p) == IF p.k = "PVar" THEN p.x ELSE "$match"
isIrrefutableBinding(p) == p.k \in {"PVar", "PWild"}

Failing(c, i)  == [emit(c, i) EXCEPT !.fails = Append(@, Len(c.code) + 1)]
StoreNew(c, x) == emit(allocLocal(c, x), op1("StoreLocal", c.nl))

\* The arguments get slots, then the test; then the tests of the arguments
\* that can fail.
Described(c, op) == Failing(c, op2(op, LastDesc(c), 0))
MatchDesc(c, p, base) ==
  addMatchDesc(c, [c |-> IF p.k = "PCon" THEN p.c ELSE "",
                   ls |-> IF p.k = "PRecord" THEN p.ls ELSE <<>>,
                   slots |-> [i \in DOMAIN p.args |-> base + i - 1]])
SlotNames(ps) == [i \in DOMAIN ps |-> SlotName(ps[i])]

RECURSIVE compilePatternCollect(_, _), compileSubPatterns(_, _, _)
compilePatternCollect(c, p) ==
  CASE p.k = "PVar"  -> StoreNew(c, p.x)
    [] p.k = "PWild" -> emit(c, op0("Pop"))
    [] p.k = "PLit"  -> Failing(c, op2("MatchLit", p.v, 0))
    [] p.k = "PLabel" /\ p.x = "" ->
         emit(Failing(c, op2("MatchLabel", p.l, 0)), op0("Pop"))
    [] p.k = "PLabel" /\ p.x # "" ->
         StoreNew(Failing(c, op2("MatchLabel", p.l, 0)), p.x)
    [] OTHER ->
         compileSubPatterns(
           Described(MatchDesc(allocLocals(c, SlotNames(p.args)), p, c.nl),
                     IF p.k = "PCon" THEN "MatchCon" ELSE "MatchRecord"),
           p.args, c.nl)

compileSubPatterns(c, ps, slot) ==
  IF ps = <<>> THEN c
  ELSE compileSubPatterns(
         IF isIrrefutableBinding(Head(ps)) THEN c
         ELSE compilePatternCollect(emit(c, op1("LoadLocal", slot)), Head(ps)),
         Tail(ps), slot + 1)

\* Fail targets are absolute, jumps relative to the instruction after them.
patchTo(c, positions, target) ==
  [c EXCEPT !.code = [i \in DOMAIN @ |->
     IF Contains(positions, i) THEN [@[i] EXCEPT !.b = target] ELSE @[i]]]
patchJumps(c, positions) ==
  [c EXCEPT !.code = [i \in DOMAIN @ |->
     IF Contains(positions, i) THEN [@[i] EXCEPT !.a = Len(c.code) - i] ELSE @[i]]]

-----------------------------------------------------------------------------
(* Expressions (compiler_expr.go, compiler_closure.go). scope tells locals *)
(* from globals; slots come from the frame's own list of locals.           *)

RECURSIVE compileExpr(_, _, _, _), compileArgs(_, _, _), compileAlts(_, _, _, _, _, _, _)

compileArgs(c, scope, args) ==
  IF args = <<>> THEN c
  ELSE compileArgs(compileExpr(c, scope, Head(args), FALSE), scope, Tail(args))

\* The scope is asked for the bare name, of a qualified reference too.
compileVar(c, scope, t) ==
  emit(c, IF IsLocal(scope, t.x) THEN op1("LoadLocal", resolveLocal(c, t.x))
          ELSE op1("LoadGlobal", t.x))

\* The frame of a closure: captures, the Fix name, parameters, in this order.
CaptureNames(caps) == [i \in DOMAIN caps |-> caps[i].x]
CaptureSlots(caps) == [i \in DOMAIN caps |-> caps[i].slot]
WithSelf(f, self) ==
  IF self = "" THEN f ELSE [allocLocal(f, self) EXCEPT !.self = f.nl]
ChildFrame(c, caps, self, params) ==
  [allocLocals(WithSelf(allocLocals(enterFrame(c), CaptureNames(caps)), self), params)
     EXCEPT !.np = Len(params)]

\* compileMultiParamProto, compileChildProto, compileFixProto, compileFixMultiProto.
childProto(c, caps, self, params, scope, body, op) ==
  leaveFrame(c,
    emit(compileExpr(ChildFrame(c, caps, self, params), scope, body, TRUE), op0("Return")),
    CaptureSlots(caps), op)

compileMergeChildProto(c, caps, scope, body) ==
  leaveFrame(c,
    emit(emit(compileExpr(ChildFrame(c, caps, "", <<>>), scope, body, FALSE),
              op0("ForceEffectful")), op0("Return")),
    CaptureSlots(caps), "Thunk")

\* The parameters and the body of nested lambdas, with the scope the index
\* pass gives the innermost body.
RECURSIVE lamChain(_, _, _, _)
lamStep(t, inner, scope, params) ==
  IF inner.k = "Lam" THEN lamChain(inner, scope, "", params)
  ELSE [params |-> params, body |-> t.b, scope |-> scope]
lamChain(t, scope, self, params) ==
  lamStep(t, PeelTyLam(t.b), BodyScope(FVars(t), scope, self, <<t.x>>), Append(params, t.x))
flattenLamChain(t, scope, self) == lamChain(t, scope, self, <<>>)

LamProto(c, caps, self, chain, op) ==
  childProto(c, caps, self, chain.params, chain.scope, chain.body, op)
compileLam(c, scope, t, self, op) ==
  LamProto(c, resolveCapturesFiltered(c, FVars(t), Indices(FVars(t), scope, self)),
           self, flattenLamChain(t, scope, self), op)

compileThunk(c, scope, t, self, op) ==
  childProto(c, resolveCapturesFiltered(c, FVars(t.e), Indices(FVars(t.e), scope, self)),
             self, <<>>, BodyScope(FVars(t.e), scope, self, <<>>), t.e, op)

compileFix(c, scope, x, body) ==
  CASE body.k = "Lam"   -> compileLam(c, scope, body, x, "FixClosure")
    [] body.k = "Thunk" -> compileThunk(c, scope, body, x, "FixThunk")
    [] OTHER -> emit(emit(c, op1("Const", StrLit("fix without lambda or thunk"))), op0("Raise"))

MergeChild(c, scope, e) ==
  compileMergeChildProto(c, resolveCapturesFiltered(c, FVars(e), Indices(FVars(e), scope, "")),
                         BodyScope(FVars(e), scope, "", <<>>), e)
compileMerge(c, scope, t) ==
  emit(MergeChild(MergeChild(c, scope, t.l), scope, t.r), op1("Merge", t.ls))

\* The head and the arguments of nested applications.
RECURSIVE spine(_, _)
PeelTyApp(t) == IF t.k = "TyApp" THEN t.e ELSE t
spine(t, args) ==
  IF t.k = "App" THEN spine(PeelTyApp(t.f), <<t.a>> \o args) ELSE [f |-> t, args |-> args]
collectAppSpine(t) == spine(t, <<>>)

\* Arguments beyond a primitive's arity are applied one at a time.
RECURSIVE applyExtras(_, _, _, _)
applyExtras(c, scope, args, tail) ==
  IF args = <<>> THEN c
  ELSE applyExtras(emit(compileExpr(c, scope, Head(args), FALSE),
                        op0(IF tail /\ Len(args) = 1 THEN "TailApply" ELSE "Apply")),
                   scope, Tail(args), tail)

PrimCode(p, n) == op2(IF PrimSig[p].eff THEN "EffectPrim" ELSE "Prim", p, n)
callGlobalPrim(c, scope, p, args, tail) ==
  applyExtras(emit(compileArgs(c, scope, SubSeq(args, 1, PrimSig[p].arity)),
                   PrimCode(p, PrimSig[p].arity)),
              scope, SubSeq(args, PrimSig[p].arity + 1, Len(args)), tail)

\* varGlobalPrim: a global alias of a primitive with enough arguments.
IsGlobalPrim(c, scope, f, n) ==
  /\ f.k \in {"Var", "QVar"} /\ ~IsLocal(scope, f.x)
  /\ f.x \in DOMAIN c.prims /\ n >= PrimSig[c.prims[f.x]].arity
\* A saturated call of the Fix the frame belongs to.
IsSelfCall(c, scope, f, n) ==
  /\ f.k \in {"Var", "QVar"} /\ IsLocal(scope, f.x)
  /\ c.self >= 0 /\ n = c.np /\ resolveLocal(c, f.x) = c.self

ApplyCode(n, tail) ==
  IF n = 1 THEN op0(IF tail THEN "TailApply" ELSE "Apply")
  ELSE op1(IF tail THEN "TailApplyN" ELSE "ApplyN", n)

compileSpine(c, scope, f, args, tail) ==
  CASE IsGlobalPrim(c, scope, f, Len(args)) ->
         callGlobalPrim(c, scope, c.prims[f.x], args, tail)
    [] ~IsGlobalPrim(c, scope, f, Len(args)) /\ IsSelfCall(c, scope, f, Len(args)) ->
         emit(compileArgs(c, scope, args),
              op1(IF tail THEN "TailRecurseSelf" ELSE "RecurseSelf", Len(args)))
    [] OTHER -> emit(compileArgs(compileExpr(c, scope, f, FALSE), scope, args),
                     ApplyCode(Len(args), tail))
compileApp(c, scope, sp, tail) == compileSpine(c, scope, sp.f, sp.args, tail)

\* compilePatternMatch: test and jump, one alternative after the other. Only
\* the last alternative inherits the tail position; fails are the tests of the
\* previous one.
altJump(c, scope, scrut, alts, tail, ends, fails) ==
  compileAlts(c, scope, scrut, Tail(alts), tail, Append(ends, Len(c.code)), fails)
altBodyNoTail(c, scope, scrut, alts, tail, ends, saved) ==
  altJump(emit(popLocals(compileExpr(c, Reverse(Bindings(Head(alts).p)) \o scope,
                                     Head(alts).b, FALSE), saved),
               op1("Jump", 0)),
          scope, scrut, alts, tail, ends, c.fails)
altBody(c, scope, scrut, alts, tail, ends, saved) ==
  altJump(emit(popLocals(compileExpr(c, Reverse(Bindings(Head(alts).p)) \o scope,
                                     Head(alts).b, tail /\ Len(alts) = 1), saved),
               op1("Jump", 0)),
          scope, scrut, alts, tail, ends, c.fails)
compileAlts(c, scope, scrut, alts, tail, ends, fails) ==
  IF alts = <<>>
  THEN patchJumps(patchTo(emit(emit(c, op1("LoadLocal", scrut)), op0("MatchFail")),
                          fails, Len(c.code) + 2), ends)
  ELSE altBody(compilePatternCollect(
                 emit([patchTo(c, fails, Len(c.code) + 1) EXCEPT !.fails = <<>>],
                      op1("LoadLocal", scrut)), Head(alts).p),
               scope, scrut, alts, tail, ends, Len(c.locals))

compilePatternMatch(c, scope, alts, tail) ==
  popLocals(compileAlts(StoreNew(c, "$scrut"), scope, c.nl, alts, tail, <<>>, <<>>),
            Len(c.locals))
compileCase(c, scope, t, tail) ==
  compilePatternMatch(compileExpr(c, scope, t.s, FALSE), scope, t.alts, tail)

\* The local of a Bind stays in the list: nothing pops it.
BindBody(c, scope, x, b, tail) ==
  compileExpr(emit(allocLocal(c, x), op1("Bind", c.nl)), <<x>> \o scope, b, tail)
compileBind(c, scope, t, tail) ==
  BindBody(compileExpr(c, scope, t.c, FALSE), scope, t.x, t.b, tail)

compilePrimOp(c, scope, t) ==
  CASE t.args = <<>> /\ PrimSig[t.p].arity = 0 /\ ~PrimSig[t.p].eff -> emit(c, PrimCode(t.p, 0))
    [] t.args = <<>> /\ (PrimSig[t.p].arity # 0 \/ PrimSig[t.p].eff) ->
         emit(c, op1("PrimPartial", t.p))
    [] t.args # <<>> /\ Len(t.args) = PrimSig[t.p].arity ->
         emit(compileArgs(c, scope, t.args), PrimCode(t.p, Len(t.args)))
    [] OTHER -> emit(compileArgs(emit(c, op1("PrimPartial", t.p)), scope, t.args),
                     ApplyCode(Len(t.args), FALSE))

compileNode(c, scope, t, tail) ==
  CASE t.k \in {"Var", "QVar"} -> compileVar(c, scope, t)
    [] t.k = "Lit"   -> emit(c, op1("Const", t.v))
    [] t.k = "Lam"   -> compileLam(c, scope, t, "", "Closure")
    [] t.k = "App"   -> compileApp(c, scope, collectAppSpine(t), tail)
    [] t.k = "Con"   -> emit(compileArgs(c, scope, t.args), op2("Con", t.c, Len(t.args)))
    [] t.k = "Case"  -> compileCase(c, scope, t, tail)
    [] t.k = "Fix"   -> compileFix(c, scope, t.x, PeelTyLam(t.b))
    [] t.k = "Bind"  -> compileBind(c, scope, t, tail)
    [] t.k = "Thunk" -> compileThunk(c, scope, t, "", "Thunk")
    [] t.k = "Force" -> emit(compileExpr(c, scope, t.e, FALSE),
                             op0(IF tail THEN "ForceTail" ELSE "Force"))
    [] t.k = "Merge"  -> compileMerge(c, scope, t)
    [] t.k = "PrimOp" -> compilePrimOp(c, scope, t)
    [] t.k = "RecordLit" /\ t.ls = <<>> -> emit(c, op0("ConstUnit"))
    [] t.k = "RecordLit" /\ t.ls # <<>> ->
         emit(compileArgs(c, scope, t.args), op1("Record", t.ls))
    [] t.k = "RecordProj" -> emit(compileExpr(c, scope, t.e, FALSE), op1("RecordProj", t.l))
    [] t.k = "RecordUpdate" ->
         emit(compileArgs(c, scope, <<t.e>> \o t.args), op1("RecordUpdate", t.ls))
    [] t.k = "VariantLit" -> emit(compileExpr(c, scope, t.e, FALSE), op1("Variant", t.l))

StepKindsNoApp == {"Force", "Bind", "Case", "PrimOp", "Fix"}
StepKinds == {"App", "Force", "Bind", "Case", "PrimOp", "Fix"}

\* Asking for the frame's locals first makes TLC evaluate the frame here, not
\* under the instructions that follow.
compileExpr(c, scope, t, tail) ==
  IF c.nl >= 0 /\ t.k \in {"TyApp", "TyLam", "Pure"} THEN compileExpr(c, scope, t.e, tail)
  ELSE compileNode(IF t.k \in StepKinds THEN emit(c, op0("Step")) ELSE c, scope, t, tail)

-----------------------------------------------------------------------------
(* Programs: bindings in order, then the entry expression.                 *)

CompileBinding(c, t) ==
  leaveFrame(c, emit(compileExpr(enterFrame(c), <<>>, t, FALSE), op0("Return")), <<>>, "")
CompileExpr(c, t) ==
  leaveFrame(c, emit(emit(compileExpr(enterFrame(c), <<>>, t, FALSE), op0("ForceEffectful")),
                     op0("Return")), <<>>, "")

\* RecordGlobalPrim for every binding that is a bare primitive.
Aliases(bindings) ==
  {b \in ToSet(bindings) :
     b.e.k = "PrimOp" /\ b.e.args = <<>> /\ PrimSig[b.e.p].arity > 0}
NewCompiler(aliases) ==
  [prims |-> [x \in {b.x : b \in aliases} |-> (CHOOSE b \in aliases : b.x = x).e.p],
   protos |-> <<>>, descs |-> <<>>, code |-> <<>>]

\* The prototypes, and the position of each binding's, the entry last.
RECURSIVE compileBindings(_, _, _)
compileBindings(c, bindings, roots) ==
  IF bindings = <<>> THEN [c |-> c, roots |-> roots]
  ELSE LET d == CompileBinding(c, Head(bindings).e)
       IN  compileBindings(d, Tail(bindings), Append(roots, Len(d.protos)))

Linked(c, roots) == [protos |-> c.protos, roots |-> Append(roots, Len(c.protos))]
WithEntry(r, entry) == Linked(CompileExpr(r.c, entry), r.roots)
precompileVM(bindings, entry) ==
  WithEntry(compileBindings(NewCompiler(Aliases(bindings)), bindings, <<>>), entry)
=============================================================================
