----------------------------- MODULE VmMachine ------------------------------
(***************************************************************************)
(* The virtual machine (internal/runtime/vm/vm*.go), the primitives that   *)
(* call back into it (internal/host/stdlib) and the part of the runtime    *)
(* that evaluates the bindings of a program and then its entry.            *)
(*                                                                         *)
(* vm is the VM struct with its budget:                                    *)
(*   stack, locals, frames   the three slices                              *)
(*   calls  the Go calls between the innermost execute loop and Run that   *)
(*          wait for a result, one record for each                         *)
(*   mode   what runs: the loop of execute ("run"), apply or applyN        *)
(*          ("apply"), the Applier callback of a primitive ("host"),       *)
(*          callPrim ("prim"), forceEffectful ("force"), or the last of    *)
(*          calls, which receives a result ("ret") or an error ("err");    *)
(*          "done" and "failed" once the program has ended                 *)
(*   req    the arguments of what runs                                     *)
(*   heap   the capability maps; the first one belongs to the host         *)
(*   steps, depth, alloc, lim   the budget                                 *)
(*   fcap, gen   capacity of the frames slice, how often append moved it   *)
(* Spans, sources, the observer and the trace hook are left out.           *)
(***************************************************************************)
EXTENDS VmValues

CONSTANTS
    Programs,  \* compiled programs: prototypes, the root of each binding and of the
               \* entry, the bindings, and as text the caps, lim and loop of the source
    FrameCap,  \* initial capacity of the frames slice (64 in NewVM)
    isList(_), toSlice(_), fromSlice(_)   \* the lists of CoreSemantics

ASSUME FrameCapAssumption == FrameCap \in Nat \ {0}

\* "OpPrim is emitted only for non-effectful saturated primitives"
\* (vm_execute.go:622, compileApp and compilePrimOp).
ASSUME BytecodeAssumption ==
  \A p \in Programs : \A i \in DOMAIN p.protos : \A k \in DOMAIN p.protos[i].code :
    p.protos[i].code[k].op = "Prim" => ~PrimSig[p.protos[i].code[k].a].eff

VARIABLES
    vm,
    prog,      \* the program that runs
    globals,   \* name -> value; Nil is a cell without a value yet
    pos        \* the binding under evaluation; one past the last for the entry

vars == <<vm, prog, globals, pos>>

Arity(f) == prog.protos[f.p].np

-----------------------------------------------------------------------------
(* Operand stack, results and errors.                                      *)

push(s, v) == [s EXCEPT !.stack = Append(@, v)]
PopN(s, n) == [s EXCEPT !.stack = SubSeq(@, 1, Len(@) - n)]
Top(s)     == s.stack[Len(s.stack)]
TopN(s, n) == SubSeq(s.stack, Len(s.stack) - n + 1, Len(s.stack))

Ask(s, mode, req)       == [s EXCEPT !.mode = mode, !.req = req]
ReturnTo(s, v, ce)      == Ask(s, "ret", [v |-> v, ce |-> ce])
ReturnCap(s, v, r)      == ReturnTo([s EXCEPT !.heap = r.h], v, r.ce)
Throw(s, kind, l, d)    == Ask(s, "err", [e |-> kind, l |-> l, d |-> d])
runtimeError(s)         == Throw(s, "runtime", "", Nil)
LimitError(s)           == Throw(s, "limit", "", Nil)
Await(s, call)          == [s EXCEPT !.calls = Append(@, call)]

-----------------------------------------------------------------------------
(* Budget: count first, then refuse at the limit; a limit of 0 is none.    *)
(* An allocation costs one unit whatever its size.                         *)

Limited(s, count, limit) == IF limit > 0 /\ count >= limit THEN LimitError(s) ELSE s
Step(s)  == Limited([s EXCEPT !.steps = @ + 1], s.steps + 1, s.lim.steps)
Enter(s) == Limited([s EXCEPT !.depth = @ + 1], s.depth + 1, s.lim.depth)
Alloc(s) == Limited([s EXCEPT !.alloc = @ + 1], s.alloc + 1, s.lim.alloc)
Leave(s) == [s EXCEPT !.depth = IF @ > 0 THEN @ - 1 ELSE @]

Refused(s) == s.mode = "err"
PushUnlessFailing(s, v) == IF Refused(s) THEN s ELSE push(s, v)
Allocate(s, v)          == PushUnlessFailing(Alloc(s), v)

-----------------------------------------------------------------------------
(* Frames and locals.                                                      *)

currentFrame(s) == s.frames[Len(s.frames)]
WithCap(s, ce)  == [s EXCEPT !.frames[Len(s.frames)].cap = ce]

\* A pointer to the current frame refers to the array the slice has now, which
\* append leaves behind when it moves the slice.
FramePtr(s) == [i |-> Len(s.frames), gen |-> s.gen]
StoreCapEnv(s, ptr, ce) ==
  IF ptr.gen = s.gen THEN [s EXCEPT !.frames[ptr.i].cap = ce] ELSE s

Grown(s, f, full) ==
  [s EXCEPT !.frames = Append(@, f),
            !.fcap = IF full THEN 2 * @ ELSE @,
            !.gen = IF full THEN @ + 1 ELSE @]
AppendFrame(s, f)      == Grown(s, f, Len(s.frames) = s.fcap)
NewFrame(p, bp, ce)    == [p |-> p, ip |-> 1, bp |-> bp, cap |-> ce, barrier |-> FALSE]
pushFrame(s, p, bp, ce) == AppendFrame(s, NewFrame(p, bp, ce))

ensureLocals(ls, n) == IF Len(ls) < n THEN ls \o [i \in 1..(n - Len(ls)) |-> Nil] ELSE ls
SetAt(ls, i, v)     == [ensureLocals(ls, i) EXCEPT ![i] = v]
setLocal(s, bp, slot, v) == [s EXCEPT !.locals = SetAt(@, bp + slot + 1, v)]
getLocal(s, slot)   == s.locals[currentFrame(s).bp + slot + 1]
captureLocals(s, slots) == [i \in DOMAIN slots |-> getLocal(s, slots[i])]

\* The slots of a frame for f: captures, itself if it is a Fix, arguments.
Slots(f, args) ==
  ensureLocals(f.cap \o (IF prog.protos[f.p].self >= 0 THEN <<f>> ELSE <<>>) \o args,
               prog.protos[f.p].nl)
Below(s, bp) == SubSeq(s.locals, 1, bp)

\* callClosure, callClosureMulti, callThunk: a frame of its own.
Entered(s, f, args, ce) ==
  IF Refused(s) THEN s
  ELSE pushFrame([s EXCEPT !.locals = @ \o Slots(f, args)], f.p, Len(s.locals), ce)
callClosure(s, f, args) == Entered(Enter(s), f, args, currentFrame(s).cap)

\* tailCallClosure, tailCallClosureMulti: the current frame is reused.
Restart(s, p) == [s EXCEPT !.frames[Len(s.frames)].p = p, !.frames[Len(s.frames)].ip = 1]
tailCallClosure(s, f, args) ==
  Restart([s EXCEPT !.locals = Below(s, currentFrame(s).bp) \o Slots(f, args)], f.p)

\* tailCallThunk: as above, but what lies beyond the slots of f stays.
KeepBeyond(new, old) == new \o SubSeq(old, Len(new) + 1, Len(old))
tailCallThunk(s, f) ==
  Restart([s EXCEPT !.locals =
             KeepBeyond(Below(s, currentFrame(s).bp) \o Slots(f, <<>>), @)], f.p)

enterClosureMulti(s, f, args, tail) ==
  IF tail THEN tailCallClosure(s, f, args) ELSE callClosure(s, f, args)

force(s, v, tail) ==
  CASE v.t = "thunk" /\ tail  -> tailCallThunk(s, v)
    [] v.t = "thunk" /\ ~tail -> callClosure(s, v, <<>>)
    [] OTHER -> runtimeError(s)

\* runCallee up to the call of setup: what to restore is on calls, a barrier
\* frame on frames.
barrierFrame(s, ce) ==
  AppendFrame(Await(s, [c |-> "callee", fp |-> Len(s.frames), locals |-> Len(s.locals),
                        sp |-> Len(s.stack), depth |-> s.depth]),
              [p |-> 0, ip |-> 1, bp |-> Len(s.locals), cap |-> ce, barrier |-> TRUE])
runCallee(s, ce, f, args) == callClosure(Ask(barrierFrame(s, ce), "run", <<>>), f, args)

\* Run: the slices are emptied, their capacity stays.
Run(s, p, ce) ==
  [s EXCEPT !.stack = <<>>, !.locals = <<>>, !.frames = <<NewFrame(p, 0, ce)>>,
            !.mode = "run", !.req = <<>>]

-----------------------------------------------------------------------------
(* Initial states: a program, its first binding about to run.              *)

NewVM(caps, lim) ==
  [stack |-> <<>>, locals |-> <<>>, frames |-> <<>>, calls |-> <<>>, mode |-> "run",
   req |-> <<>>, heap |-> <<caps>>, steps |-> 0, depth |-> 0, alloc |-> 0, lim |-> lim,
   fcap |-> FrameCap, gen |-> 0]

\* Bindings run without capabilities, the entry with the map of the host.
RunCapEnv(i, bindings) == NewCapEnv(IF i <= Len(bindings) THEN 0 ELSE 1)

Init ==
  /\ prog \in Programs
  /\ vm = Run(NewVM(prog.text.caps, prog.text.lim), prog.roots[1], RunCapEnv(1, prog.bindings))
  /\ globals = [x \in {b.x : b \in ToSet(prog.bindings)} |-> Nil]
  /\ pos = 1

Do(s) == vm' = s /\ UNCHANGED <<prog, globals, pos>>

-----------------------------------------------------------------------------
(* execute: one action per opcode or group of opcodes.                     *)

Code  == prog.protos[currentFrame(vm).p].code
Instr == Code[currentFrame(vm).ip]
At(ops) ==
  /\ vm.mode = "run" /\ ~currentFrame(vm).barrier
  /\ currentFrame(vm).p \in DOMAIN prog.protos /\ currentFrame(vm).ip \in DOMAIN Code
  /\ Instr.op \in ops
Fetched == [vm EXCEPT !.frames[Len(vm.frames)].ip = @ + 1]

OpStep == At({"Step"}) /\ Do(Step(Fetched))
\* The context is polled at some of the budget's operations.
Cancelled == At({"Step"}) /\ Do(LimitError(Fetched))

OpLoadLocal  == At({"LoadLocal"}) /\ Do(push(Fetched, getLocal(vm, Instr.a)))
OpLoadGlobal ==
  /\ At({"LoadGlobal"})
  /\ Do(IF globals[Instr.a] = Nil THEN runtimeError(Fetched)
        ELSE push(Fetched, globals[Instr.a]))
OpStoreLocal ==
  /\ At({"StoreLocal"})
  /\ Do(setLocal(PopN(Fetched, 1), currentFrame(vm).bp, Instr.a, Top(vm)))
OpPop       == At({"Pop"}) /\ Do(PopN(Fetched, 1))
OpConst     ==
  /\ At({"Const"})
  /\ Do(IF Instr.a.t = "str" THEN Allocate(Fetched, Instr.a) ELSE push(Fetched, Instr.a))
OpConstUnit   == At({"ConstUnit"}) /\ Do(push(Fetched, UnitVal))
OpPrimPartial == At({"PrimPartial"}) /\ Do(push(Fetched, PrimVal(Instr.a, <<>>)))

NewClosure(p) == VMClosure(p, captureLocals(vm, prog.protos[p].captures))
NewThunk(p, auto) == VMThunkVal(p, captureLocals(vm, prog.protos[p].captures), auto)
OpClosure  == At({"Closure", "FixClosure"}) /\ Do(Allocate(Fetched, NewClosure(Instr.a)))
OpThunk    ==
  /\ At({"Thunk"})
  /\ Do(Allocate(WithCap(Fetched, MarkShared(currentFrame(vm).cap)), NewThunk(Instr.a, FALSE)))
OpFixThunk == At({"FixThunk"}) /\ Do(Allocate(Fetched, NewThunk(Instr.a, TRUE)))

\* A function and its arguments; at: the operands below them.
Applied(s, f, args, at, tail) ==
  Ask(s, "apply", [f |-> f, args |-> args, at |-> at, tail |-> tail])
OpApply ==
  /\ At({"Apply", "TailApply"})
  /\ Do(Applied(PopN(Fetched, 2), TopN(vm, 2)[1], TopN(vm, 1), Len(vm.stack) - 2,
                Instr.op = "TailApply"))
\* dispatchApplyN: function and arguments stay on the stack for now.
OpApplyN ==
  /\ At({"ApplyN", "TailApplyN"})
  /\ Do(Applied(Fetched, TopN(vm, Instr.a + 1)[1], TopN(vm, Instr.a),
                Len(vm.stack) - Instr.a - 1, Instr.op = "TailApplyN"))

\* A saturated call of the closure that runs: captures and the self slot are
\* copied from the frame of the caller.
SelfSlots(s, n) == SubSeq(s.locals, currentFrame(s).bp + 1, currentFrame(s).bp + n)
KeptWithoutSelf(p) == prog.protos[p].self
Kept(p) == prog.protos[p].self + 1
Recursed(s, p, slots, ce) ==
  IF Refused(s) THEN s
  ELSE pushFrame([s EXCEPT !.locals = @ \o ensureLocals(slots, prog.protos[p].nl)],
                 p, Len(s.locals), ce)
OpRecurseSelf ==
  /\ At({"RecurseSelf"})
  /\ Do(Recursed(Enter(PopN(Fetched, Instr.a)), currentFrame(vm).p,
                 SelfSlots(vm, Kept(currentFrame(vm).p)) \o TopN(vm, Instr.a),
                 currentFrame(vm).cap))
OpTailRecurseSelf ==
  /\ At({"TailRecurseSelf"})
  /\ Do(Restart([PopN(Fetched, Instr.a) EXCEPT !.locals =
          KeepBeyond(Below(vm, currentFrame(vm).bp)
            \o ensureLocals(SelfSlots(vm, Kept(currentFrame(vm).p)) \o TopN(vm, Instr.a),
                            prog.protos[currentFrame(vm).p].nl), @)],
        currentFrame(vm).p))

\* OpReturn with a recursive computation as result: run it in this frame.
TailForced(s, f) == IF Refused(s) THEN s ELSE tailCallThunk(s, f)
OpReturnForce ==
  /\ At({"Return"}) /\ IsAutoForce(Top(vm))
  /\ Do(TailForced(Step(PopN(Fetched, 1)), Top(vm)))

popFrame(s) ==
  Leave([s EXCEPT !.frames = SubSeq(@, 1, Len(@) - 1),
                  !.locals = SubSeq(@, 1, currentFrame(s).bp)])
Caller == vm.frames[Len(vm.frames) - 1]
Returning == At({"Return"}) /\ ~IsAutoForce(Top(vm))
OpReturn ==
  /\ Returning /\ Len(vm.frames) > 1 /\ ~Caller.barrier
  /\ Do(push(WithCap(popFrame(PopN(vm, 1)), currentFrame(vm).cap), Top(vm)))
ReturnToBarrier ==
  /\ Returning /\ Len(vm.frames) > 1 /\ Caller.barrier
  /\ Do(ReturnTo(popFrame(PopN(vm, 1)), Top(vm), currentFrame(vm).cap))
\* The bottom frame: Run returns. evalPrecompiledBindings goes on to the next
\* binding, executeVM to the entry.
BindingDone ==
  /\ Returning /\ Len(vm.frames) = 1 /\ pos <= Len(prog.bindings)
  /\ globals' = [globals EXCEPT ![prog.bindings[pos].x] = Top(vm)]
  /\ pos' = pos + 1
  /\ vm' = Run(vm, prog.roots[pos + 1], RunCapEnv(pos + 1, prog.bindings))
  /\ UNCHANGED prog
ProgramDone ==
  /\ Returning /\ Len(vm.frames) = 1 /\ pos > Len(prog.bindings)
  /\ Do(Ask(vm, "done", [v |-> Top(vm), ce |-> currentFrame(vm).cap]))

OpForce ==
  /\ At({"Force", "ForceTail"})
  /\ Do(force(PopN(Fetched, 1), Top(vm), Instr.op = "ForceTail"))

Forcing(s, v, ce) == Ask(s, "force", [v |-> v, ce |-> ce])
OpForceEffectful ==
  /\ At({"ForceEffectful"})
  /\ Do(Forcing(Await(PopN(Fetched, 1),
                      [c |-> "push", ptr |-> FramePtr(vm), at |-> Len(vm.stack) - 1]),
                Top(vm), currentFrame(vm).cap))
OpBind ==
  /\ At({"Bind"})
  /\ Do(Forcing(Await(PopN(Fetched, 1),
                      [c |-> "bind", ptr |-> FramePtr(vm), bp |-> currentFrame(vm).bp,
                       slot |-> Instr.a]),
                Top(vm), currentFrame(vm).cap))

\* The capabilities are split by label; forceMergeChild runs the left side
\* and, when it has returned, the right one.
RunChild(s, v, ce) == IF Refused(s) THEN s ELSE runCallee(s, ce, v, <<>>)
forceMergeChild(s, v, ce) == RunChild(Step(s), v, ce)
Split(s, ptr, left, right, l, r) ==
  forceMergeChild(
    Await([s EXCEPT !.heap = r.h], [c |-> "merge", ptr |-> ptr, right |-> right, cap |-> r.ce]),
    left, l.ce)
SplitRight(s, ptr, left, right, ce, ls, l) ==
  Split(s, ptr, left, right, l, Filter(l.h, ce, ls[2]))
OpMerge ==
  /\ At({"Merge"})
  /\ Do(SplitRight(PopN(Fetched, 2), FramePtr(vm), TopN(vm, 2)[1], Top(vm),
                   MarkShared(currentFrame(vm).cap), Instr.a,
                   Filter(vm.heap, MarkShared(currentFrame(vm).cap), Instr.a[1])))

OpCon ==
  /\ At({"Con"})
  /\ Do(Allocate(PopN(Fetched, Instr.b), ConVal(Instr.a, TopN(vm, Instr.b))))
FieldsOf(ls, vals) == [l \in ToSet(ls) |-> vals[CHOOSE i \in DOMAIN ls : ls[i] = l]]
OpRecord ==
  /\ At({"Record"})
  /\ Do(Allocate(PopN(Fetched, Len(Instr.a)),
                 RecordVal(FieldsOf(Instr.a, TopN(vm, Len(Instr.a))))))
Projected(s, r, l) ==
  IF r.t = "rec" /\ l \in DOMAIN r.f THEN push(s, r.f[l]) ELSE runtimeError(s)
OpRecordProj == At({"RecordProj"}) /\ Do(Projected(PopN(Fetched, 1), Top(vm), Instr.a))
Updated(s, r, fields) ==
  CASE Refused(s) -> s
    [] ~Refused(s) /\ r.t = "rec" -> Allocate(s, RecordVal(fields @@ r.f))
    [] OTHER -> runtimeError(s)
OpRecordUpdate ==
  /\ At({"RecordUpdate"})
  /\ Do(Updated(Alloc(PopN(Fetched, Len(Instr.a) + 1)), TopN(vm, Len(Instr.a) + 1)[1],
                FieldsOf(Instr.a, TopN(vm, Len(Instr.a)))))
OpVariant == At({"Variant"}) /\ Do(push(PopN(Fetched, 1), VariantVal(Instr.a, Top(vm))))

\* Tests pop the value; a failed one jumps.
Desc == prog.protos[currentFrame(vm).p].descs[Instr.a + 1]
JumpTo(s, ip) == [s EXCEPT !.frames[Len(s.frames)].ip = ip]
Missed(s) == JumpTo(PopN(s, 1), Instr.b)
\* setLocal for each slot in turn.
Bound(s, slots, vals) ==
  [s EXCEPT !.locals =
     FoldLeft(LAMBDA ls, i : SetAt(ls, currentFrame(s).bp + slots[i] + 1, vals[i]),
              @, [i \in DOMAIN slots |-> i])]
OpMatchCon ==
  /\ At({"MatchCon"})
  /\ Do(IF Top(vm).t = "con" /\ Top(vm).c = Desc.c /\ Len(Top(vm).args) = Len(Desc.slots)
        THEN Bound(PopN(Fetched, 1), Desc.slots, Top(vm).args) ELSE Missed(vm))
OpMatchLit == At({"MatchLit"}) /\ Do(IF Top(vm) = Instr.a THEN PopN(Fetched, 1) ELSE Missed(vm))
OpMatchLabel ==
  /\ At({"MatchLabel"})
  /\ Do(IF Top(vm).t = "variant" /\ Top(vm).l = Instr.a
        THEN push(PopN(Fetched, 1), Top(vm).v) ELSE Missed(vm))
MatchedRecord(s, r, ls, slots) ==
  CASE Refused(s) -> s
    [] ~Refused(s) /\ ToSet(ls) \subseteq DOMAIN r.f ->
         Bound(s, slots, [i \in DOMAIN ls |-> r.f[ls[i]]])
    [] OTHER -> JumpTo(s, Instr.b)
OpMatchRecord ==
  /\ At({"MatchRecord"})
  /\ Do(IF Top(vm).t = "rec"
        THEN MatchedRecord(Alloc(PopN(Fetched, 1)), Top(vm), Desc.ls, Desc.slots)
        ELSE Missed(vm))
OpMatchFail == At({"MatchFail", "Raise"}) /\ Do(runtimeError(PopN(Fetched, 1)))
OpJump      == At({"Jump"}) /\ Do(JumpTo(vm, currentFrame(vm).ip + 1 + Instr.a))

\* The primitive reads its arguments where they are on the stack.
Calling(s, p, args, ce) == Ask(s, "prim", [p |-> p, args |-> args, ce |-> ce])
OpPrim ==
  /\ At({"Prim"})
  /\ Do(Calling(Await(Fetched, [c |-> "prim", ptr |-> FramePtr(vm),
                                at |-> Len(vm.stack) - Instr.b]),
                Instr.a, TopN(vm, Instr.b), currentFrame(vm).cap))
OpEffectPrim ==
  /\ At({"EffectPrim"})
  /\ Do(Allocate(PopN(Fetched, Instr.b), PrimVal(Instr.a, TopN(vm, Instr.b))))

-----------------------------------------------------------------------------
(* apply (one argument, already popped) and applyN (two or more, with the  *)
(* function still on the stack below them). When applyN succeeds           *)
(* dispatchApplyN drops them; when it fails they stay.                     *)

Applying(kinds) == vm.mode = "apply" /\ vm.req.f.t \in kinds
ToRun == Ask(vm, "run", <<>>)
Clean(s, at)          == IF Refused(s) THEN s ELSE [s EXCEPT !.stack = SubSeq(@, 1, at)]
Deliver(s, at, v)     == IF Refused(s) THEN s ELSE push(Clean(s, at), v)

\* A closure or a partial application of one, with all its arguments.
Fun(f) == IF f.t = "pap" THEN f.f ELSE f
AllArgs(f, args) == IF f.t = "clo" THEN args ELSE f.args \o args
Excess(f, args) == Len(AllArgs(f, args)) - Arity(Fun(f))
Enough(f, args) == SubSeq(AllArgs(f, args), 1, Arity(Fun(f)))
Extras(f, args) == SubSeq(AllArgs(f, args), Arity(Fun(f)) + 1, Len(AllArgs(f, args)))

ApplyEnter ==
  /\ Applying({"clo", "pap"}) /\ Excess(vm.req.f, vm.req.args) = 0
  /\ Do(Clean(enterClosureMulti(ToRun, Fun(vm.req.f), AllArgs(vm.req.f, vm.req.args),
                                vm.req.tail), vm.req.at))
\* applyN extends a partial application without charging for it.
ApplyPartial ==
  /\ Applying({"clo", "pap"}) /\ Excess(vm.req.f, vm.req.args) < 0
  /\ Do(Deliver(IF vm.req.f.t = "pap" /\ Len(vm.req.args) > 1 THEN ToRun ELSE Alloc(ToRun),
                vm.req.at, PAPVal(Fun(vm.req.f), AllArgs(vm.req.f, vm.req.args))))
\* The arguments beyond the arity are applied one at a time to the result.
ApplyOver ==
  /\ Applying({"clo", "pap"}) /\ Excess(vm.req.f, vm.req.args) > 0
  /\ Do(runCallee(Await(vm, [c |-> "over", at |-> vm.req.at,
                             extras |-> Extras(vm.req.f, vm.req.args)]),
                  currentFrame(vm).cap, Fun(vm.req.f), Enough(vm.req.f, vm.req.args)))
ApplyCon ==
  /\ Applying({"con"})
  /\ Do(Deliver(Alloc(ToRun), vm.req.at, ConVal(vm.req.f.c, vm.req.f.args \o vm.req.args)))

\* applyPrim and the primitive cases of applyN.
PrimExcess(f, args) == Len(f.args) + Len(args) - PrimSig[f.p].arity
PrimEnough(f, args) == SubSeq(f.args \o args, 1, PrimSig[f.p].arity)
PrimExtras(f, args) == SubSeq(f.args \o args, PrimSig[f.p].arity + 1, Len(f.args) + Len(args))
ApplyPrimPartial ==
  /\ Applying({"prim"})
  /\ \/ PrimExcess(vm.req.f, vm.req.args) < 0
     \/ PrimSig[vm.req.f.p].eff /\ (PrimExcess(vm.req.f, vm.req.args) = 0 \/ Len(vm.req.args) = 1)
  /\ Do(Deliver(ToRun, vm.req.at, PrimVal(vm.req.f.p, vm.req.f.args \o vm.req.args)))
ApplyPrim ==
  /\ Applying({"prim"}) /\ ~PrimSig[vm.req.f.p].eff
  /\ PrimExcess(vm.req.f, vm.req.args) = 0
  /\ Do(Calling(Await(vm, [c |-> "push", ptr |-> FramePtr(vm), at |-> vm.req.at]),
                vm.req.f.p, vm.req.f.args \o vm.req.args, currentFrame(vm).cap))
Overflowing(s, r) == Await(s, [c |-> "over", at |-> r.at, extras |-> PrimExtras(r.f, r.args)])
ApplyPrimOver ==
  /\ Applying({"prim"})
  /\ PrimExcess(vm.req.f, vm.req.args) > 0 /\ Len(vm.req.args) > 1
  /\ Do(IF PrimSig[vm.req.f.p].eff
        THEN ReturnTo(Overflowing(vm, vm.req), PrimVal(vm.req.f.p, PrimEnough(vm.req.f, vm.req.args)),
                      currentFrame(vm).cap)
        ELSE Calling(Overflowing(vm, vm.req), vm.req.f.p, PrimEnough(vm.req.f, vm.req.args),
                     currentFrame(vm).cap))

\* One argument: the thunk is forced and the argument ignored. More: they are
\* applied to the result.
ApplyThunk ==
  /\ Applying({"thunk"}) /\ Len(vm.req.args) = 1
  /\ Do(force(ToRun, vm.req.f, vm.req.tail))
ApplyThunkN ==
  /\ Applying({"thunk"}) /\ Len(vm.req.args) > 1
  /\ Do(runCallee(Await(vm, [c |-> "thunkN", args |-> vm.req.args, at |-> vm.req.at,
                             tail |-> vm.req.tail]),
                  currentFrame(vm).cap, vm.req.f, <<>>))
ApplyOther ==
  /\ vm.mode = "apply" /\ vm.req.f.t \notin {"clo", "pap", "con", "prim", "thunk"}
  /\ Do(runtimeError(vm))

-----------------------------------------------------------------------------
(* applyForPrim and applyNForPrim, the callbacks of a primitive: the same  *)
(* cases, but the result goes to the primitive and nothing is charged.     *)

Hosting(kinds) == vm.mode = "host" /\ vm.req.f.t \in kinds
Host(s, f, args, ce) == Ask(s, "host", [f |-> f, args |-> args, ce |-> ce])
HostRest(s, rest) == IF rest = <<>> THEN s ELSE Await(s, [c |-> "hostN", args |-> rest])

HostEnter ==
  /\ Hosting({"clo", "pap"}) /\ Excess(vm.req.f, vm.req.args) >= 0
  /\ Do(runCallee(HostRest(vm, Extras(vm.req.f, vm.req.args)), vm.req.ce,
                  Fun(vm.req.f), Enough(vm.req.f, vm.req.args)))
HostPartial ==
  /\ Hosting({"clo", "pap"}) /\ Excess(vm.req.f, vm.req.args) < 0
  /\ Do(ReturnTo(vm, PAPVal(Fun(vm.req.f), AllArgs(vm.req.f, vm.req.args)), vm.req.ce))
HostCon ==
  /\ Hosting({"con"})
  /\ Do(ReturnTo(vm, ConVal(vm.req.f.c, vm.req.f.args \o vm.req.args), vm.req.ce))
HostPrimPartial ==
  /\ Hosting({"prim"}) /\ (PrimExcess(vm.req.f, vm.req.args) < 0 \/ PrimSig[vm.req.f.p].eff)
  /\ Do(ReturnTo(vm, PrimVal(vm.req.f.p, vm.req.f.args \o vm.req.args), vm.req.ce))
HostPrim ==
  /\ Hosting({"prim"}) /\ PrimExcess(vm.req.f, vm.req.args) >= 0 /\ ~PrimSig[vm.req.f.p].eff
  /\ Do(Calling(HostRest(vm, PrimExtras(vm.req.f, vm.req.args)), vm.req.f.p,
                PrimEnough(vm.req.f, vm.req.args), vm.req.ce))
HostThunk ==
  /\ Hosting({"thunk"})
  /\ Do(runCallee(HostRest(vm, IF Len(vm.req.args) = 1 THEN <<>> ELSE vm.req.args),
                  vm.req.ce, vm.req.f, <<>>))
HostOther ==
  /\ vm.mode = "host" /\ vm.req.f.t \notin {"clo", "pap", "con", "prim", "thunk"}
  /\ Do(runtimeError(vm))

\* forceEffectful and forceEffectfulForPrim.
ForceThunk ==
  /\ vm.mode = "force" /\ IsAutoForce(vm.req.v)
  /\ Do(RunChild(Step(vm), vm.req.v, vm.req.ce))
ForcePrimUnshared ==
  /\ vm.mode = "force" /\ IsDeferred(vm.req.v)
  /\ Do(Calling(vm, vm.req.v.p, vm.req.v.args, vm.req.ce))
ForcePrim ==
  /\ vm.mode = "force" /\ IsDeferred(vm.req.v)
  /\ Do(Calling(vm, vm.req.v.p, vm.req.v.args, MarkShared(vm.req.ce)))
ForceNothing ==
  /\ vm.mode = "force" /\ ~IsAutoForce(vm.req.v) /\ ~IsDeferred(vm.req.v)
  /\ Do(ReturnTo(vm, vm.req.v, vm.req.ce))

-----------------------------------------------------------------------------
(* The primitives (internal/host/stdlib), through callPrim. A label is a   *)
(* string argument; the anonymous effects are those of a fixed label.      *)

Prim(names) == vm.mode = "prim" /\ vm.req.p \in names
Arg(i) == vm.req.args[i]
LabelCap == Caps(vm.heap, vm.req.ce)

PrimAdd   == Prim({"add"}) /\ Do(ReturnTo(vm, IntLit(Arg(1).n + Arg(2).n), vm.req.ce))
PrimEmpty == Prim({"empty"}) /\ Do(ReturnTo(vm, StrLit(""), vm.req.ce))

\* One round of foldl's loop.
Folding(s, f, acc, list, ce) ==
  CASE list.t = "con" /\ list.c = "Nil" -> ReturnTo(s, acc, ce)
    [] list.t = "con" /\ list.c = "Cons" ->
         Host(Await(s, [c |-> "fold", f |-> f, list |-> list.args[2]]),
              f, <<acc, list.args[1]>>, ce)
    [] OTHER -> runtimeError(s)
PrimFoldl == Prim({"foldl"}) /\ Do(Folding(vm, Arg(1), Arg(2), Arg(3), vm.req.ce))

\* listMapImpl, listFilterImpl, listFoldrImpl: a round of the loop. The items
\* are those left, acc is what the rounds before have made; listFoldr starts
\* from the end. The list that is built is charged before the rounds of
\* listMap, after those of listFilter.
WalkArgs(p, item, acc) == IF p = "listFoldr" THEN <<item, acc>> ELSE <<item>>
WalkAcc(p, item, acc, v) ==
  CASE p = "listMap"    -> Append(acc, v)
    [] p = "listFilter" -> IF v.t = "con" /\ v.c = "True" THEN Append(acc, item) ELSE acc
    [] p = "listFoldr"  -> v
Finished(s, p, acc, ce) ==
  IF Refused(s) THEN s ELSE ReturnTo(s, IF p = "listFoldr" THEN acc ELSE fromSlice(acc), ce)
Walking(s, p, f, acc, items, ce) ==
  CASE Refused(s) -> s
    [] ~Refused(s) /\ items = <<>> ->
         Finished(IF p = "listFilter" THEN Alloc(s) ELSE s, p, acc, ce)
    [] OTHER -> Host(Await(s, [c |-> "walk", p |-> p, f |-> f, acc |-> acc, items |-> items]),
                     f, WalkArgs(p, Head(items), acc), ce)
PrimWalk ==
  /\ Prim({"listMap", "listFilter"})
  /\ Do(IF isList(Arg(2))
        THEN Walking(IF vm.req.p = "listMap" THEN Alloc(vm) ELSE vm, vm.req.p, Arg(1), <<>>,
                     toSlice(Arg(2)), vm.req.ce)
        ELSE runtimeError(vm))
PrimFoldr ==
  /\ Prim({"listFoldr"})
  /\ Do(IF isList(Arg(3))
        THEN Walking(vm, "listFoldr", Arg(1), Arg(2), Reverse(toSlice(Arg(3))), vm.req.ce)
        ELSE runtimeError(vm))
\* Either way, what has the form asked for already passes through.
Converted(s, v, ce) == IF Refused(s) THEN s ELSE ReturnTo(s, v, ce)
PrimToSlice ==
  /\ Prim({"listToSlice"})
  /\ Do(CASE Arg(1).t = "slice" -> ReturnTo(vm, Arg(1), vm.req.ce)
          [] Arg(1).t # "slice" /\ isList(Arg(1)) ->
               Converted(Alloc(vm), SliceVal(toSlice(Arg(1))), vm.req.ce)
          [] OTHER -> runtimeError(vm))
PrimFromSlice ==
  /\ Prim({"listFromSlice"})
  /\ Do(CASE Arg(1).t = "con" /\ Arg(1).c \in {"Cons", "Nil"} -> ReturnTo(vm, Arg(1), vm.req.ce)
          [] Arg(1).t = "slice" -> Converted(Alloc(vm), fromSlice(Arg(1).vs), vm.req.ce)
          [] OTHER -> runtimeError(vm))

PrimGet ==
  /\ Prim({"getAt"})
  /\ Do(IF Arg(1).l \in DOMAIN LabelCap THEN ReturnTo(vm, LabelCap[Arg(1).l], vm.req.ce)
        ELSE runtimeError(vm))
PrimPut ==
  /\ Prim({"putAt"})
  /\ Do(ReturnCap(vm, UnitVal, Set(vm.heap, vm.req.ce, Arg(1).l, Arg(2))))
PrimModify ==
  /\ Prim({"modifyAt"})
  /\ Do(IF Arg(1).l \in DOMAIN LabelCap
        THEN Host(Await(vm, [c |-> "modify", l |-> Arg(1).l]), Arg(2),
                  <<LabelCap[Arg(1).l]>>, vm.req.ce)
        ELSE runtimeError(vm))
PrimFail == Prim({"failWithAt"}) /\ Do(Throw(vm, "fail", Arg(1).l, Arg(2)))

\* driveEffectful: apply the suspended computation, then force its result.
driveEffectful(s, thunk, ce) == Host(Await(s, [c |-> "drive"]), thunk, <<UnitVal>>, ce)
Handling(s, thunk, r) == driveEffectful([s EXCEPT !.heap = r.h], thunk, r.ce)
\* The capability the handler shadows is kept to be put back.
PrimRunState ==
  /\ Prim({"runStateAt"})
  /\ Do(Handling(Await(vm, [c |-> "state", l |-> Arg(1).l,
                            saved |-> IF Arg(1).l \in DOMAIN LabelCap
                                      THEN LabelCap[Arg(1).l] ELSE Nil]),
                 Arg(3), Set(vm.heap, vm.req.ce, Arg(1).l, Arg(2))))
PrimTry ==
  /\ Prim({"tryAt"})
  /\ Do(driveEffectful(Await(vm, [c |-> "try", l |-> Arg(1).l, ce |-> vm.req.ce]),
                       Arg(2), vm.req.ce))

-----------------------------------------------------------------------------
(* A result reaches the last of calls.                                     *)

Call == vm.calls[Len(vm.calls)]
Receives(c) == vm.mode = "ret" /\ Call.c = c
Popped(s) == [s EXCEPT !.calls = SubSeq(@, 1, Len(@) - 1)]
Resume(s) == Ask(Popped(s), "run", <<>>)

\* runCallee, when setup left a value on the barrier instead of a frame.
BarrierValue ==
  /\ vm.mode = "run" /\ currentFrame(vm).barrier
  /\ Do(ReturnTo(PopN(vm, 1), Top(vm), currentFrame(vm).cap))
\* runCallee's end: the operand stack is not restored.
CalleeGone(s, call) ==
  [s EXCEPT !.frames = SubSeq(@, 1, call.fp), !.locals = SubSeq(@, 1, call.locals)]
CalleeReturns == Receives("callee") /\ Do(CalleeGone(Popped(vm), Call))

\* The value goes on the stack, the capabilities to the frame that asked, if
\* the pointer to it still refers to the frame.
PushReturns ==
  /\ vm.mode = "ret" /\ Call.c \in {"push", "prim"}
  /\ Do(Deliver(StoreCapEnv(Resume(vm), Call.ptr, vm.req.ce), Call.at, vm.req.v))
BindReturns ==
  /\ Receives("bind")
  /\ Do(setLocal(StoreCapEnv(Resume(vm), Call.ptr, vm.req.ce), Call.bp, Call.slot, vm.req.v))
MergeLeftReturns ==
  /\ Receives("merge")
  /\ Do(forceMergeChild(Await(Popped(vm), [c |-> "merged", ptr |-> Call.ptr, v |-> vm.req.v,
                                           ce |-> vm.req.ce]),
                        Call.right, Call.cap))
Merged(s, ptr, v, r) == push(StoreCapEnv([s EXCEPT !.heap = r.h], ptr, r.ce), v)
MergeRightReturns ==
  /\ Receives("merged")
  /\ Do(Merged(Resume(vm), Call.ptr, Tuple(Call.v, vm.req.v),
               MergeWith(vm.heap, Call.ce, vm.req.ce)))
OverReturns ==
  /\ Receives("over")
  /\ Do(IF Call.extras = <<>>
        THEN Deliver(WithCap(Resume(vm), vm.req.ce), Call.at, vm.req.v)
        ELSE Applied(barrierFrame(Await(Popped(vm), [Call EXCEPT !.extras = Tail(@)]), vm.req.ce),
                     vm.req.v, <<Head(Call.extras)>>, Len(vm.stack), FALSE))
\* The capabilities the thunk returned are dropped.
ThunkReturns ==
  /\ Receives("thunkN")
  /\ Do(Applied(Popped(vm), vm.req.v, Call.args, Call.at, Call.tail))

HostReturns  == Receives("hostN") /\ Do(Host(Popped(vm), vm.req.v, Call.args, vm.req.ce))
DriveReturns == Receives("drive") /\ Do(Forcing(Popped(vm), vm.req.v, vm.req.ce))
FoldReturns  ==
  /\ Receives("fold")
  /\ Do(Folding(Popped(vm), Call.f, vm.req.v, Call.list, vm.req.ce))
WalkReturns ==
  /\ Receives("walk")
  /\ Do(Walking(Popped(vm), Call.p, Call.f, WalkAcc(Call.p, Head(Call.items), Call.acc, vm.req.v),
                Tail(Call.items), vm.req.ce))
ModifyReturns ==
  /\ Receives("modify")
  /\ Do(ReturnCap(Popped(vm), UnitVal, Set(vm.heap, vm.req.ce, Call.l, vm.req.v)))
Restored(h, ce, l, saved) == IF saved = Nil THEN Delete(h, ce, l) ELSE Set(h, ce, l, saved)
StateReturns ==
  /\ Receives("state")
  /\ Do(IF Call.l \in DOMAIN LabelCap
        THEN ReturnCap(Popped(vm), Tuple(LabelCap[Call.l], vm.req.v),
                       Restored(vm.heap, vm.req.ce, Call.l, Call.saved))
        ELSE runtimeError(Popped(vm)))
TryReturns ==
  Receives("try") /\ Do(ReturnTo(Popped(vm), ConVal("Ok", <<vm.req.v>>), vm.req.ce))

-----------------------------------------------------------------------------
(* An error reaches the last of calls.                                     *)

Raised(cs) == vm.mode = "err" /\ vm.calls # <<>> /\ Call.c \in cs
RestoreNoDepth(s, d) == s
RestoreDepth(s, d) == [s EXCEPT !.depth = IF @ > d THEN d ELSE @]
CalleeFails == Raised({"callee"}) /\ Do(RestoreDepth(CalleeGone(Popped(vm), Call), Call.depth))
PrimFails   == Raised({"prim"}) /\ Do([Popped(vm) EXCEPT !.stack = SubSeq(@, 1, Call.at)])

\* Only a failure with a detail and the label of the handler is caught; the
\* capabilities are those of the call.
CaughtByLabel == vm.req.l = Call.l
Caught == vm.req.e = "fail" /\ vm.req.l = Call.l
TryCatches ==
  /\ Raised({"try"}) /\ Caught
  /\ Do(ReturnTo(Popped(vm), ConVal("Err", <<vm.req.d>>), Call.ce))
Propagates ==
  /\ Raised({"push", "bind", "merge", "merged", "over", "thunkN", "hostN", "drive", "fold",
             "walk", "modify", "state", "try"})
  /\ Call.c = "try" => ~Caught
  /\ Do(Popped(vm))
\* Run returns the error: its slices are emptied, the depth is what it was.
RunFails ==
  /\ vm.mode = "err" /\ vm.calls = <<>>
  /\ Do([vm EXCEPT !.mode = "failed", !.stack = <<>>, !.locals = <<>>, !.frames = <<>>,
                   !.depth = 0])

-----------------------------------------------------------------------------

Execute ==
  \/ OpStep \/ Cancelled \/ OpLoadLocal \/ OpLoadGlobal \/ OpStoreLocal \/ OpPop
  \/ OpConst \/ OpConstUnit \/ OpPrimPartial \/ OpClosure \/ OpThunk \/ OpFixThunk
  \/ OpApply \/ OpApplyN \/ OpRecurseSelf \/ OpTailRecurseSelf \/ OpReturnForce
  \/ OpReturn \/ ReturnToBarrier \/ OpForce \/ OpForceEffectful \/ OpBind \/ OpMerge
  \/ OpCon \/ OpRecord \/ OpRecordProj \/ OpRecordUpdate \/ OpVariant \/ OpMatchCon
  \/ OpMatchLit \/ OpMatchLabel \/ OpMatchRecord \/ OpMatchFail \/ OpJump
  \/ OpPrim \/ OpEffectPrim
Apply ==
  \/ ApplyEnter \/ ApplyPartial \/ ApplyOver \/ ApplyCon \/ ApplyPrimPartial \/ ApplyPrim
  \/ ApplyPrimOver \/ ApplyThunk \/ ApplyThunkN \/ ApplyOther
Callback ==
  \/ HostEnter \/ HostPartial \/ HostCon \/ HostPrimPartial \/ HostPrim \/ HostThunk
  \/ HostOther \/ ForceThunk \/ ForcePrim \/ ForceNothing
Primitive ==
  \/ PrimAdd \/ PrimEmpty \/ PrimFoldl \/ PrimWalk \/ PrimFoldr \/ PrimToSlice \/ PrimFromSlice
  \/ PrimGet \/ PrimPut \/ PrimModify \/ PrimFail \/ PrimRunState \/ PrimTry
Result ==
  \/ BarrierValue \/ CalleeReturns \/ PushReturns \/ BindReturns \/ MergeLeftReturns
  \/ MergeRightReturns \/ OverReturns \/ ThunkReturns \/ HostReturns \/ DriveReturns
  \/ FoldReturns \/ WalkReturns \/ ModifyReturns \/ StateReturns \/ TryReturns
Failure == CalleeFails \/ PrimFails \/ TryCatches \/ Propagates \/ RunFails

Next == Execute \/ BindingDone \/ ProgramDone \/ Apply \/ Callback \/ Primitive \/ Result \/ Failure

Spec == Init /\ [][Next]_vars /\ WF_vars(Next)

-----------------------------------------------------------------------------
(* Properties.                                                             *)

Live == vm.mode \notin {"done", "failed"}
FrameOK(f) ==
  /\ f.bp \in 0..Len(vm.locals)
  /\ f.barrier \/ f.ip \in 1..Len(prog.protos[f.p].code)
  /\ f.cap.m \in 0..Len(vm.heap)

\* The machine is well typed: no operand and no argument on its way is an empty
\* slot, that is, no instruction of execute (vm_execute.go) loads a local that
\* was not stored before; every frame is within its code and the locals.
TypeOK ==
  /\ vm.mode \in {"run", "apply", "host", "prim", "force", "ret", "err", "done", "failed"}
  /\ \A i \in DOMAIN vm.stack : vm.stack[i] # Nil
  /\ vm.mode \in {"apply", "host", "prim"} => \A i \in DOMAIN vm.req.args : vm.req.args[i] # Nil
  /\ \A i \in DOMAIN vm.frames : FrameOK(vm.frames[i])
  /\ pos \in 1..(Len(prog.bindings) + 1)

Callees == {k \in DOMAIN vm.calls : vm.calls[k].c = "callee"}

\* Whatever mix of returns, callbacks and failures led here, every barrier
\* frame belongs to one pending runCallee, in order, and the depth counted
\* by the budget is the number of call frames above the first: an error that
\* runCallee unwinds (vm_apply_host.go) leaves no depth behind.
FramesConsistent ==
  Live =>
    /\ {i \in DOMAIN vm.frames : vm.frames[i].barrier} = {vm.calls[k].fp + 1 : k \in Callees}
    /\ \A j, k \in Callees : j < k => vm.calls[j].fp < vm.calls[k].fp
    /\ vm.mode # "err" => vm.depth = Len(vm.frames) - Cardinality(Callees) - 1

\* Capabilities put aside are never changed in place: the map the host gave
\* to RunWith, the environment a tryAt will restore, and the two halves of a
\* merge while the other side runs. This is what the shared flag of CapEnv
\* (capenv.go) and the calls of MarkShared are for.
SavedCapsIntact ==
  [][/\ vm'.heap[1] = vm.heap[1]
     /\ \A i \in DOMAIN vm.calls :
          /\ vm.calls[i].c \in {"try", "merged"} =>
               Caps(vm'.heap, vm.calls[i].ce) = Caps(vm.heap, vm.calls[i].ce)
          /\ vm.calls[i].c = "merge" =>
               Caps(vm'.heap, vm.calls[i].cap) = Caps(vm.heap, vm.calls[i].cap)]_vars

\* A budget error or a cancellation ends the program: no handler of the
\* program (tryAtImpl, fail.go) turns it into a result.
LimitsEscape ==
  [][vm.mode = "err" /\ vm.req.e = "limit" =>
       vm'.mode \in {"err", "failed"} /\ vm'.req = vm.req]_vars

\* A program that recurses only in tail position, in the last alternative of
\* its cases, runs in one call frame however often it loops (compileApp,
\* OpTailRecurseSelf, OpReturn's reuse of the frame).
TailLoopsFlat == prog.text.loop => vm.depth <= 1

\* Every program ends, by itself or at a limit: each way to loop passes an
\* OpStep or an Enter (compileExpr, budget.go).
Terminates == <>(vm.mode \in {"done", "failed"})

\* The comment in applyN says that "runCallee may have reallocated the frames
\* slice, invalidating the original frame ptr": no handler writes the
\* capabilities a callee returns through such a pointer.
FrameWritesLand ==
  vm.mode = "ret" /\ Call.c \in {"push", "prim", "bind", "merged"} => Call.ptr.gen = vm.gen
=============================================================================
