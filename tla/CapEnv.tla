------------------------------- MODULE CapEnv -------------------------------
(***************************************************************************)
(* The copy-on-write capability environment                                *)
(* (internal/runtime/eval/capenv.go). h is the heap of capability maps; an *)
(* environment ce names one of them, 0 standing for the nil map, and says  *)
(* whether it is shared. An operation returns the heap and the new         *)
(* environment: shared maps are copied, the others are changed in place.   *)
(***************************************************************************)
EXTENDS Naturals, Sequences

NewCapEnv(m)   == [m |-> m, shared |-> TRUE]
EmptyCapEnv    == [m |-> 0, shared |-> FALSE]
MarkShared(ce) == [ce EXCEPT !.shared = TRUE]
Caps(h, ce)    == IF ce.m = 0 THEN <<>> ELSE h[ce.m]

Same(h, ce)  == [h |-> h, ce |-> ce]
Fresh(h, m)  == [h |-> Append(h, m), ce |-> [m |-> Len(h) + 1, shared |-> FALSE]]
Write(h, ce, m) ==
  IF ce.m = 0 \/ ce.shared THEN Fresh(h, m) ELSE Same([h EXCEPT ![ce.m] = m], ce)

Only(f, ls) == [l \in DOMAIN f \cap ls |-> f[l]]

\* f with v at l, and g with the entries of f over its own.
SetCap(f, l, v) == [x \in DOMAIN f \cup {l} |-> IF x = l THEN v ELSE f[x]]
MergeCaps(f, g)   == [x \in DOMAIN f \cup DOMAIN g |-> IF x \in DOMAIN f THEN f[x] ELSE g[x]]

Set(h, ce, l, v) == Write(h, ce, SetCap(Caps(h, ce), l, v))
Delete(h, ce, l) ==
  IF ce.m = 0 THEN Same(h, ce)
  ELSE Write(h, ce, Only(h[ce.m], DOMAIN h[ce.m] \ {l}))
Filter(h, ce, ls) ==
  IF ce.m = 0 \/ ls = {} THEN Same(h, EmptyCapEnv) ELSE Fresh(h, Only(h[ce.m], ls))
MergeWith(h, ce, other) ==
  IF ce.m = 0 /\ other.m = 0 THEN Same(h, EmptyCapEnv)
  ELSE Fresh(h, MergeCaps(Caps(h, other), Caps(h, ce)))
=============================================================================
