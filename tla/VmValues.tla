------------------------------ MODULE VmValues ------------------------------
(***************************************************************************)
(* Runtime values (internal/runtime/eval/value.go).                        *)
(***************************************************************************)
EXTENDS Primitives, CapEnv, Integers, Sequences, SequencesExt

-----------------------------------------------------------------------------
(* Values. A literal is its own value. A recursive closure refers to       *)
(* itself: instead of the cycle, it is put in its self slot whenever a     *)
(* frame is set up for it.                                                 *)

Nil                   == [t |-> "nil"]      \* an empty slot
ConVal(c, args)       == [t |-> "con", c |-> c, args |-> args]
RecordVal(f)          == [t |-> "rec", f |-> f]
VariantVal(l, v)      == [t |-> "variant", l |-> l, v |-> v]
VMClosure(p, cap)     == [t |-> "clo", p |-> p, cap |-> cap]
VMThunkVal(p, cap, a) == [t |-> "thunk", p |-> p, cap |-> cap, auto |-> a]
PAPVal(f, args)       == [t |-> "pap", f |-> f, args |-> args]
PrimVal(p, args)      == [t |-> "prim", p |-> p, args |-> args]

SliceVal(vs)          == [t |-> "slice", vs |-> vs]     \* a host value that holds values

UnitVal     == RecordVal(<<>>)
Tuple(a, b) == RecordVal("_1" :> a @@ "_2" :> b)

IsAutoForce(v) == v.t = "thunk" /\ v.auto
\* A saturated effectful primitive: a computation that has not run yet.
IsDeferred(v)  == v.t = "prim" /\ PrimSig[v.p].eff /\ Len(v.args) >= PrimSig[v.p].arity

TrueVal == ConVal("True", <<>>)

=============================================================================
