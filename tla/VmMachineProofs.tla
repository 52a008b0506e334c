-------------------------- MODULE VmMachineProofs ---------------------------
(***************************************************************************)
(* Proofs about the virtual machine for every bytecode, whatever its       *)
(* operands are: frames and pending calls stay matched and the depth of    *)
(* the budget exact, capabilities put aside are never changed in place,    *)
(* and an error of the budget reaches the end of the program.              *)
(***************************************************************************)
EXTENDS VmMachine, FiniteSetTheorems, TLAPS

-----------------------------------------------------------------------------
(* The shape of a state of the machine. Operands, locals, code and the     *)
(* values in flight may be anything.                                       *)

IsVM(s) ==
  s = [stack |-> s.stack, locals |-> s.locals, frames |-> s.frames, calls |-> s.calls,
       mode |-> s.mode, req |-> s.req, heap |-> s.heap, steps |-> s.steps,
       depth |-> s.depth, alloc |-> s.alloc, lim |-> s.lim, fcap |-> s.fcap, gen |-> s.gen]

\* A sequence of anything.
IsASeq(q) == q \in Seq({q[i] : i \in DOMAIN q})

IsEnv(h, e) ==
  /\ e = [m |-> e.m, shared |-> e.shared]
  /\ e.m \in 0..Len(h) /\ e.shared \in BOOLEAN
IsFrame(f) ==
  /\ f = [p |-> f.p, ip |-> f.ip, bp |-> f.bp, cap |-> f.cap, barrier |-> f.barrier]
  /\ f.barrier \in BOOLEAN

-----------------------------------------------------------------------------
(* The control stack: frames and the Go calls that wait.                   *)

\* Who waits for a result: the innermost loop of execute, or a primitive and
\* the Applier callbacks it made.
LoopCalls == {"push", "bind", "prim", "merge", "merged", "over", "thunkN"}
HostCalls == {"hostN", "drive", "fold", "walk", "modify", "state", "try"}

IsCallee(C, k) == C[k].c = "callee"
\* How many of the first k calls are runCallees.
Rank(C, k) == Cardinality({j \in 1..k : IsCallee(C, j)})

\* The loop runs, nothing above it: no call, or a runCallee on top.
Looping(C) == C = <<>> \/ IsCallee(C, Len(C))
\* A result is on its way to something else than a runCallee.
Waiting(C) == C # <<>> /\ ~IsCallee(C, Len(C))

\* A runCallee remembers the frames below its barrier, and the depth then.
CalleeOK(F, C, k) ==
  /\ C[k].fp \in Nat /\ C[k].fp >= 1 /\ C[k].fp + 1 <= Len(F)
  /\ C[k].depth = C[k].fp - Rank(C, k)
\* What calls may stand on what.
CallOK(C, k) ==
  /\ C[k].c \in LoopCalls \cup HostCalls \cup {"callee"}
  /\ C[k].c = "over" => C[k] = [c |-> "over", at |-> C[k].at, extras |-> C[k].extras]
  /\ C[k].c \in LoopCalls => k = 1 \/ IsCallee(C, k - 1)
  /\ C[k].c \notin LoopCalls => k > 1 /\ ~IsCallee(C, k - 1)

Control(F, C) ==
  /\ IsASeq(F) /\ IsASeq(C)
  /\ F # <<>> /\ ~F[1].barrier
  /\ \A i \in DOMAIN F : IsFrame(F[i])
  /\ \A k \in DOMAIN C : CallOK(C, k) /\ (IsCallee(C, k) => CalleeOK(F, C, k))
  /\ \A j, k \in DOMAIN C : j < k /\ IsCallee(C, j) /\ IsCallee(C, k) => C[j].fp < C[k].fp
  /\ \A i \in DOMAIN F : F[i].barrier <=> \E k \in DOMAIN C : IsCallee(C, k) /\ C[k].fp + 1 = i

-----------------------------------------------------------------------------
(* Capability environments: what may write the map of a saved one.         *)

\* Only NewCapEnv gives out the map of the host, and it is shared.
Owned(h, e) == IsEnv(h, e) /\ (e.m = 1 => e.shared)

\* An operation on e does not change in place what call c has put aside.
Spares(c, e) ==
  /\ c.c \in {"try", "merged"} /\ e.m = c.ce.m /\ e.m # 0 => e.shared
  /\ c.c = "merge" => e.m = 0 \/ e.m # c.cap.m
Fit(C, h, e) == Owned(h, e) /\ \A j \in DOMAIN C : Spares(C[j], e)

\* A frame runs under the calls that a runCallee on top of them entered.
FrameFit(C, h, i, e) ==
  /\ Owned(h, e)
  /\ \A j, k \in DOMAIN C : j < k /\ IsCallee(C, k) /\ C[k].fp < i => Spares(C[j], e)
\* The environments that a saved call hands out when it is its turn.
CallFit(C, h, k, e) == Owned(h, e) /\ \A j \in 1..(k - 1) : Spares(C[j], e)
SavedOK(C, h, k) ==
  /\ C[k].c = "try"    => CallFit(C, h, k, C[k].ce)
  /\ C[k].c = "merge"  => CallFit(C, h, k, C[k].cap)
  /\ C[k].c = "merged" => IsEnv(h, C[k].ce)

Sharing(F, C, h) ==
  /\ IsASeq(h) /\ h # <<>>
  /\ \A i \in DOMAIN F : FrameFit(C, h, i, F[i].cap)
  /\ \A k \in DOMAIN C : SavedOK(C, h, k)

-----------------------------------------------------------------------------
(* The inductive invariant.                                                *)

Base(s) == IsVM(s) /\ Control(s.frames, s.calls) /\ Sharing(s.frames, s.calls, s.heap)

\* The depth counts the frames that are no barrier, but the first.
Even(s) == s.depth = Len(s.frames) - Rank(s.calls, Len(s.calls)) - 1

Steady(s)  == Base(s) /\ Looping(s.calls) /\ Even(s)
Pending(s) == Base(s) /\ Waiting(s.calls) /\ Even(s)

Runs(s) == s.mode \in {"run", "apply"} /\ Steady(s)
Calls(s) ==
  /\ s.mode \in {"host", "prim", "force"} /\ Pending(s)
  /\ Fit(s.calls, s.heap, s.req.ce)
  /\ s.mode = "prim" /\ PrimSig[s.req.p].eff => s.req.ce.shared
\* A runCallee gets its result when only its barrier is left above its frames.
Returns(s) ==
  /\ s.mode = "ret" /\ Base(s) /\ Even(s) /\ s.calls # <<>>
  /\ Fit(s.calls, s.heap, s.req.ce)
  /\ IsCallee(s.calls, Len(s.calls)) => Len(s.frames) = s.calls[Len(s.calls)].fp + 1
\* An error leaves the depth too high until a runCallee puts it right.
Fails(s) ==
  /\ s.mode = "err" /\ Base(s) /\ s.depth \in Nat
  /\ Waiting(s.calls) => Even(s)
  /\ s.calls # <<>> /\ IsCallee(s.calls, Len(s.calls)) =>
       s.depth >= s.calls[Len(s.calls)].depth

OK(s) == Runs(s) \/ Calls(s) \/ Returns(s) \/ Fails(s)

IInv == prog \in Programs /\ (Live => OK(vm))

-----------------------------------------------------------------------------
(* Sequences and the shape of a state.                                     *)

LEMMA SeqFacts ==
  ASSUME NEW q, IsASeq(q)
  PROVE  Len(q) \in Nat /\ DOMAIN q = 1..Len(q) /\ (q = <<>> <=> Len(q) = 0)
BY DEF IsASeq

LEMMA SeqOfOwn ==
  ASSUME NEW S, NEW q \in Seq(S)
  PROVE  IsASeq(q)
<1> DEFINE T == {q[i] : i \in DOMAIN q}
<1>1. DOMAIN q = 1..Len(q) /\ Len(q) \in Nat
  OBVIOUS
<1>2. q \in [1..Len(q) -> T]
  BY <1>1
<1>3. q \in Seq(T)
  <2> HIDE DEF T
  <2> QED BY <1>1, <1>2
<1> QED BY <1>3 DEF IsASeq

LEMMA AppendFacts ==
  ASSUME NEW q, IsASeq(q), NEW x
  PROVE  LET r == Append(q, x) IN
         /\ IsASeq(r) /\ Len(r) = Len(q) + 1 /\ r # <<>> /\ r[Len(q) + 1] = x
         /\ DOMAIN r = 1..(Len(q) + 1) /\ \A i \in 1..Len(q) : r[i] = q[i]
<1> DEFINE r == Append(q, x)
           S == {q[i] : i \in DOMAIN q} \cup {x}
<1>1. q \in Seq(S) /\ x \in S
  BY DEF IsASeq
<1>2. /\ r \in Seq(S) /\ Len(r) = Len(q) + 1 /\ r[Len(q) + 1] = x
      /\ \A i \in 1..Len(q) : r[i] = q[i]
  BY <1>1
<1>3. Len(r) # 0
  BY <1>1, <1>2
<1>4. IsASeq(r)
  BY <1>2, SeqOfOwn
<1>5. r # <<>> /\ DOMAIN r = 1..(Len(q) + 1)
  BY <1>2, <1>3
<1> QED BY <1>2, <1>4, <1>5

LEMMA PrefixFacts ==
  ASSUME NEW q, IsASeq(q), NEW n \in 0..Len(q)
  PROVE  LET r == SubSeq(q, 1, n) IN
         /\ IsASeq(r) /\ Len(r) = n /\ (n # 0 => r # <<>>)
         /\ DOMAIN r = 1..n /\ \A i \in 1..n : r[i] = q[i]
<1> DEFINE r == SubSeq(q, 1, n)
           S == {q[i] : i \in DOMAIN q}
<1>1. q \in Seq(S) /\ Len(q) \in Nat
  BY DEF IsASeq
<1>2. r \in Seq(S) /\ Len(r) = n /\ \A i \in 1..n : r[i] = q[i]
  BY <1>1
<1>3. IsASeq(r)
  BY <1>2, SeqOfOwn
<1>4. (n # 0 => r # <<>>) /\ DOMAIN r = 1..n
  BY <1>2
<1> QED BY <1>2, <1>3, <1>4

LEMMA UpdateFacts ==
  ASSUME NEW q, IsASeq(q), NEW n, NEW x
  PROVE  LET r == [q EXCEPT ![n] = x] IN
         /\ IsASeq(r) /\ Len(r) = Len(q) /\ DOMAIN r = 1..Len(q)
         /\ \A i \in 1..Len(q) : r[i] = IF i = n THEN x ELSE q[i]
<1> DEFINE r == [q EXCEPT ![n] = x]
           S == {q[i] : i \in DOMAIN q} \cup {x}
<1>1. q \in Seq(S) /\ Len(q) \in Nat /\ DOMAIN q = 1..Len(q)
  BY DEF IsASeq
<1>2. DOMAIN r = 1..Len(q) /\ \A i \in 1..Len(q) : r[i] = IF i = n THEN x ELSE q[i]
  BY <1>1
<1>3. r \in [1..Len(q) -> S]
  BY <1>1, <1>2
<1>4. r \in Seq(S) /\ Len(r) = Len(q)
  BY <1>1, <1>3
<1> QED BY <1>2, <1>4, SeqOfOwn

-----------------------------------------------------------------------------
(* Counting runCallees.                                                    *)

LEMMA RankType ==
  ASSUME NEW C, NEW k \in Nat
  PROVE  Rank(C, k) \in Nat /\ IsFiniteSet({j \in 1..k : IsCallee(C, j)})
<1> DEFINE S == {j \in 1..k : IsCallee(C, j)}
<1>1. IsFiniteSet(1..k)
  BY FS_Interval
<1>2. IsFiniteSet(S)
  BY <1>1, FS_Subset
<1>3. Cardinality(S) \in Nat
  BY <1>2, FS_CardinalityType
<1> QED BY <1>2, <1>3 DEF Rank

LEMMA RankSame ==
  ASSUME NEW C, NEW D, NEW k \in Nat, \A j \in 1..k : D[j] = C[j]
  PROVE  Rank(D, k) = Rank(C, k)
<1>1. \A j \in 1..k : IsCallee(D, j) <=> IsCallee(C, j)
  BY DEF IsCallee
<1>2. {j \in 1..k : IsCallee(D, j)} = {j \in 1..k : IsCallee(C, j)}
  BY <1>1
<1> QED BY <1>2 DEF Rank

LEMMA RankNext ==
  ASSUME NEW C, NEW k \in Nat
  PROVE  Rank(C, k + 1) = IF IsCallee(C, k + 1) THEN Rank(C, k) + 1 ELSE Rank(C, k)
<1> DEFINE S == {j \in 1..k : IsCallee(C, j)}
           T == {j \in 1..(k + 1) : IsCallee(C, j)}
<1>1. IsFiniteSet(S) /\ Cardinality(S) \in Nat /\ k + 1 \notin S
  <2>1. IsFiniteSet(S)
    BY RankType
  <2> QED BY <2>1, FS_CardinalityType
<1>2. CASE IsCallee(C, k + 1)
  <2>1. T = S \cup {k + 1}
    BY <1>2
  <2>2. Cardinality(T) = Cardinality(S) + 1
    BY <1>1, <2>1, FS_AddElement
  <2> QED BY <1>2, <2>2 DEF Rank
<1>3. CASE ~IsCallee(C, k + 1)
  <2>1. T = S
    BY <1>3
  <2> QED BY <1>3, <2>1 DEF Rank
<1> QED BY <1>2, <1>3

LEMMA RankNone ==
  ASSUME NEW C
  PROVE  Rank(C, 0) = 0
<1>1. {j \in 1..0 : IsCallee(C, j)} = {}
  OBVIOUS
<1> QED BY <1>1, FS_EmptySet DEF Rank

-----------------------------------------------------------------------------
(* What may be done to the control stack.                                  *)

LEMMA FitsFrame ==
  ASSUME NEW C, NEW h, NEW e, Fit(C, h, e), NEW i
  PROVE  FrameFit(C, h, i, e)
BY DEF Fit, FrameFit

\* The frame the loop runs in lies above every saved environment.
LEMMA CurrentFits ==
  ASSUME NEW F, NEW C, NEW h, Control(F, C), Sharing(F, C, h), Looping(C)
  PROVE  F[Len(F)].barrier \in BOOLEAN /\ IsFrame(F[Len(F)]) /\ Fit(C, h, F[Len(F)].cap)
<1>1. Len(F) \in Nat /\ DOMAIN F = 1..Len(F) /\ Len(F) # 0 /\ Len(C) \in Nat /\ DOMAIN C = 1..Len(C)
  BY SeqFacts DEF Control
<1>2. IsFrame(F[Len(F)]) /\ FrameFit(C, h, Len(F), F[Len(F)].cap)
  BY <1>1 DEF Control, Sharing
<1>3. ASSUME NEW j \in DOMAIN C PROVE Spares(C[j], F[Len(F)].cap)
  <2>1. IsCallee(C, Len(C)) /\ Len(C) \in DOMAIN C
    BY <1>1, SeqFacts DEF Looping
  <2>2. C[Len(C)].fp < Len(F)
    BY <1>1, <2>1 DEF Control, CalleeOK
  <2>3. CASE j = Len(C)
    BY <2>1, <2>3 DEF Spares, IsCallee
  <2>4. CASE j # Len(C)
    BY <1>1, <1>2, <2>1, <2>2, <2>4 DEF FrameFit
  <2> QED BY <2>3, <2>4
<1> QED BY <1>2, <1>3 DEF Fit, FrameFit, IsFrame

LEMMA FramesUpdated ==
  ASSUME NEW F, NEW C, NEW h, Control(F, C), Sharing(F, C, h),
         NEW G, IsASeq(G), Len(G) = Len(F),
         \A i \in 1..Len(F) : /\ IsFrame(G[i]) /\ G[i].barrier = F[i].barrier
                              /\ FrameFit(C, h, i, G[i].cap)
  PROVE  Control(G, C) /\ Sharing(G, C, h)
<1>1. /\ Len(F) \in Nat /\ DOMAIN F = 1..Len(F) /\ Len(F) # 0 /\ DOMAIN G = 1..Len(F) /\ G # <<>>
      /\ Len(C) \in Nat /\ DOMAIN C = 1..Len(C)
  BY SeqFacts DEF Control
<1>2. \A k \in DOMAIN C : IsCallee(C, k) => CalleeOK(G, C, k)
  BY DEF Control, CalleeOK
<1>3. Control(G, C)
  BY <1>1, <1>2 DEF Control
<1>4. Sharing(G, C, h)
  BY <1>1 DEF Sharing
<1> QED BY <1>3, <1>4

LEMMA FramePushed ==
  ASSUME NEW F, NEW C, NEW h, Control(F, C), Sharing(F, C, h),
         NEW f, IsFrame(f), ~f.barrier, FrameFit(C, h, Len(F) + 1, f.cap),
         NEW G, G = Append(F, f)
  PROVE  Control(G, C) /\ Sharing(G, C, h) /\ Len(G) = Len(F) + 1
<1>1. /\ Len(F) \in Nat /\ DOMAIN F = 1..Len(F) /\ Len(F) # 0
      /\ Len(C) \in Nat /\ DOMAIN C = 1..Len(C)
  BY SeqFacts DEF Control
<1>2. /\ IsASeq(G) /\ Len(G) = Len(F) + 1 /\ DOMAIN G = 1..(Len(F) + 1) /\ G # <<>>
      /\ G[Len(F) + 1] = f /\ \A i \in 1..Len(F) : G[i] = F[i]
  <2>1. IsASeq(F)
    BY DEF Control
  <2> QED BY <2>1, AppendFacts
<1>3. \A k \in DOMAIN C : IsCallee(C, k) => CalleeOK(G, C, k)
  BY <1>1, <1>2 DEF Control, CalleeOK
<1>4. \A i \in DOMAIN G : G[i].barrier <=> \E k \in DOMAIN C : IsCallee(C, k) /\ C[k].fp + 1 = i
  <2>1. \A k \in DOMAIN C : IsCallee(C, k) => C[k].fp \in Nat /\ C[k].fp + 1 <= Len(F)
    BY DEF Control, CalleeOK
  <2>2. \A i \in 1..Len(F) : G[i].barrier <=> \E k \in DOMAIN C : IsCallee(C, k) /\ C[k].fp + 1 = i
    BY <1>1, <1>2 DEF Control
  <2>3. ~\E k \in DOMAIN C : IsCallee(C, k) /\ C[k].fp + 1 = Len(F) + 1
    BY <1>1, <2>1
  <2> QED BY <1>1, <1>2, <2>2, <2>3
<1>5. Control(G, C)
  BY <1>1, <1>2, <1>3, <1>4 DEF Control
<1>6. Sharing(G, C, h)
  BY <1>1, <1>2 DEF Sharing
<1> QED BY <1>2, <1>5, <1>6

LEMMA FramePopped ==
  ASSUME NEW F, NEW C, NEW h, Control(F, C), Sharing(F, C, h),
         Len(F) > 1, ~F[Len(F)].barrier, NEW G, G = SubSeq(F, 1, Len(F) - 1)
  PROVE  Control(G, C) /\ Sharing(G, C, h) /\ Len(G) = Len(F) - 1
<1>1. /\ Len(F) \in Nat /\ DOMAIN F = 1..Len(F)
      /\ Len(C) \in Nat /\ DOMAIN C = 1..Len(C)
  BY SeqFacts DEF Control
<1>2. /\ IsASeq(G) /\ Len(G) = Len(F) - 1 /\ DOMAIN G = 1..(Len(F) - 1) /\ G # <<>>
      /\ \A i \in 1..(Len(F) - 1) : G[i] = F[i]
  <2>1. IsASeq(F) /\ Len(F) - 1 \in 0..Len(F) /\ Len(F) - 1 # 0
    BY <1>1 DEF Control
  <2> QED BY <2>1, PrefixFacts
<1>3. ASSUME NEW k \in DOMAIN C, IsCallee(C, k) PROVE CalleeOK(G, C, k)
  <2>1. CalleeOK(F, C, k) /\ C[k].fp + 1 # Len(F)
    BY <1>1, <1>3 DEF Control
  <2> QED BY <1>1, <1>2, <2>1 DEF CalleeOK
<1>4. Control(G, C)
  BY <1>1, <1>2, <1>3 DEF Control
<1>5. Sharing(G, C, h)
  BY <1>1, <1>2 DEF Sharing
<1> QED BY <1>2, <1>4, <1>5

\* A loop or a primitive waits for something else than a runCallee.
LEMMA CallPushed ==
  ASSUME NEW F, NEW C, NEW h, Control(F, C), Sharing(F, C, h),
         NEW c, c.c \in LoopCalls \cup HostCalls,
         c.c = "over" => c = [c |-> "over", at |-> c.at, extras |-> c.extras],
         c.c \in LoopCalls => Looping(C), c.c \in HostCalls => Waiting(C),
         c.c = "try" => Fit(C, h, c.ce), c.c = "merge" => Fit(C, h, c.cap),
         c.c = "merged" => IsEnv(h, c.ce)
  PROVE  LET D == Append(C, c) IN
         /\ Control(F, D) /\ Sharing(F, D, h) /\ Waiting(D)
         /\ Rank(D, Len(D)) = Rank(C, Len(C))
<1> DEFINE D == Append(C, c)
<1>1. /\ Len(F) \in Nat /\ DOMAIN F = 1..Len(F)
      /\ Len(C) \in Nat /\ DOMAIN C = 1..Len(C) /\ (C = <<>> <=> Len(C) = 0)
  BY SeqFacts DEF Control
<1>2. /\ IsASeq(D) /\ Len(D) = Len(C) + 1 /\ DOMAIN D = 1..(Len(C) + 1) /\ D # <<>>
      /\ D[Len(C) + 1] = c /\ \A k \in 1..Len(C) : D[k] = C[k]
  <2>1. IsASeq(C)
    BY DEF Control
  <2> QED BY <2>1, AppendFacts
<1> HIDE DEF D
<1>3. ~IsCallee(D, Len(C) + 1) /\ \A k \in 1..Len(C) : IsCallee(D, k) <=> IsCallee(C, k)
  BY <1>2 DEF IsCallee, LoopCalls, HostCalls
<1>4. ASSUME NEW k \in 0..Len(C) PROVE Rank(D, k) = Rank(C, k)
  <2>1. k \in Nat /\ \A j \in 1..k : D[j] = C[j]
    BY <1>1, <1>2
  <2> QED BY <2>1, RankSame
<1>5. Rank(D, Len(D)) = Rank(C, Len(C))
  BY <1>1, <1>2, <1>3, <1>4, RankNext
<1>6. ASSUME NEW k \in DOMAIN D PROVE CallOK(D, k)
  <2>1. CASE k \in 1..Len(C)
    <3>1. CallOK(C, k) /\ D[k] = C[k]
      BY <1>1, <1>2, <2>1 DEF Control
    <3>2. k > 1 => (IsCallee(D, k - 1) <=> IsCallee(C, k - 1))
      BY <1>1, <1>3, <2>1
    <3> QED BY <2>1, <3>1, <3>2 DEF CallOK
  <2>2. CASE k = Len(C) + 1
    <3>1. D[k] = c
      BY <1>2, <2>2
    <3>2. c.c \in LoopCalls => k = 1 \/ IsCallee(D, k - 1)
      BY <1>1, <1>3, <2>2 DEF Looping
    <3>3. c.c \notin LoopCalls => k > 1 /\ ~IsCallee(D, k - 1)
      BY <1>1, <1>3, <2>2 DEF Waiting
    <3> QED BY <3>1, <3>2, <3>3 DEF CallOK
  <2> QED BY <1>1, <1>2, <2>1, <2>2
<1>7. \A k \in DOMAIN D : IsCallee(D, k) => k \in DOMAIN C /\ IsCallee(C, k) /\ D[k] = C[k] /\ Rank(D, k) = Rank(C, k)
  BY <1>1, <1>2, <1>3, <1>4
<1>8. \A k \in DOMAIN D : IsCallee(D, k) => CalleeOK(F, D, k)
  BY <1>7 DEF Control, CalleeOK
<1>9. \A i \in DOMAIN F : F[i].barrier <=> \E k \in DOMAIN D : IsCallee(D, k) /\ D[k].fp + 1 = i
  <2>1. \A k \in DOMAIN C : k \in DOMAIN D /\ D[k] = C[k] /\ (IsCallee(D, k) <=> IsCallee(C, k))
    BY <1>1, <1>2, <1>3
  <2> QED BY <1>7, <2>1 DEF Control
<1>10. Control(F, D)
  BY <1>2, <1>6, <1>7, <1>8, <1>9 DEF Control
<1>11. ASSUME NEW i \in DOMAIN F PROVE FrameFit(D, h, i, F[i].cap)
  <2>1. FrameFit(C, h, i, F[i].cap)
    BY DEF Sharing
  <2>2. \A j, k \in DOMAIN D : j < k /\ IsCallee(D, k) => j \in DOMAIN C /\ D[j] = C[j]
    BY <1>1, <1>2, <1>7
  <2> QED BY <1>7, <2>1, <2>2 DEF FrameFit
<1>12. ASSUME NEW k \in DOMAIN D PROVE SavedOK(D, h, k)
  <2>1. \A j \in 1..(k - 1) : j \in DOMAIN C /\ D[j] = C[j]
    BY <1>1, <1>2
  <2>2. CASE k \in 1..Len(C)
    <3>1. SavedOK(C, h, k) /\ D[k] = C[k]
      BY <1>1, <1>2, <2>2 DEF Sharing
    <3> QED BY <2>1, <3>1 DEF SavedOK, CallFit
  <2>3. CASE k = Len(C) + 1
    <3>1. D[k] = c
      BY <1>2, <2>3
    <3> QED BY <2>1, <3>1 DEF SavedOK, CallFit, Fit
  <2> QED BY <1>1, <1>2, <2>2, <2>3
<1>13. Sharing(F, D, h) /\ Waiting(D)
  BY <1>2, <1>3, <1>11, <1>12 DEF Sharing, Waiting
<1> QED BY <1>5, <1>10, <1>13 DEF D

\* A runCallee: its barrier on the frames, its record on the calls.
LEMMA CalleePushed ==
  ASSUME NEW F, NEW C, NEW h, Control(F, C), Sharing(F, C, h), Waiting(C),
         NEW b, IsFrame(b), b.barrier, Fit(C, h, b.cap),
         NEW c, c.c = "callee", c.fp = Len(F), c.depth = Len(F) - Rank(C, Len(C)) - 1
  PROVE  LET G == Append(F, b)
             D == Append(C, c) IN
         /\ Control(G, D) /\ Sharing(G, D, h) /\ Looping(D) /\ Len(G) = Len(F) + 1
         /\ Rank(D, Len(D)) = Rank(C, Len(C)) + 1
         /\ D[Len(D)] = c
<1> DEFINE G == Append(F, b)
           D == Append(C, c)
<1>1. /\ Len(F) \in Nat /\ DOMAIN F = 1..Len(F) /\ Len(F) # 0
      /\ Len(C) \in Nat /\ DOMAIN C = 1..Len(C) /\ Len(C) # 0 /\ ~IsCallee(C, Len(C))
  BY SeqFacts DEF Control, Waiting
<1>2. /\ IsASeq(D) /\ Len(D) = Len(C) + 1 /\ DOMAIN D = 1..(Len(C) + 1) /\ D # <<>>
      /\ D[Len(C) + 1] = c /\ \A k \in 1..Len(C) : D[k] = C[k]
  <2>1. IsASeq(C)
    BY DEF Control
  <2> QED BY <2>1, AppendFacts
<1>3. /\ IsASeq(G) /\ Len(G) = Len(F) + 1 /\ DOMAIN G = 1..(Len(F) + 1) /\ G # <<>>
      /\ G[Len(F) + 1] = b /\ \A i \in 1..Len(F) : G[i] = F[i]
  <2>1. IsASeq(F)
    BY DEF Control
  <2> QED BY <2>1, AppendFacts
<1> HIDE DEF G, D
<1>4. IsCallee(D, Len(C) + 1) /\ \A k \in 1..Len(C) : IsCallee(D, k) <=> IsCallee(C, k)
  BY <1>2 DEF IsCallee
<1>5. ASSUME NEW k \in 0..Len(C) PROVE Rank(D, k) = Rank(C, k)
  <2>1. k \in Nat /\ \A j \in 1..k : D[j] = C[j]
    BY <1>1, <1>2
  <2> QED BY <2>1, RankSame
<1>6. Rank(D, Len(D)) = Rank(C, Len(C)) + 1 /\ Rank(C, Len(C)) \in Nat
  <2>1. Rank(D, Len(C) + 1) = IF IsCallee(D, Len(C) + 1) THEN Rank(D, Len(C)) + 1 ELSE Rank(D, Len(C))
    BY <1>1, RankNext
  <2>2. Rank(C, Len(C)) \in Nat
    BY <1>1, RankType
  <2>3. Rank(D, Len(C)) = Rank(C, Len(C))
    <3>1. Len(C) \in 0..Len(C)
      BY <1>1
    <3> QED BY <1>5, <3>1
  <2> QED BY <1>2, <1>4, <2>1, <2>2, <2>3
<1>7. \A k \in 1..Len(C) : IsCallee(C, k) => /\ C[k].fp \in Nat /\ C[k].fp + 1 <= Len(F)
                                              /\ C[k].fp < Len(F)
  <2>1. \A k \in 1..Len(C) : IsCallee(C, k) => C[k].fp \in Nat /\ C[k].fp + 1 <= Len(F)
    BY <1>1 DEF Control, CalleeOK
  <2> QED BY <1>1, <2>1
<1>8. ASSUME NEW k \in DOMAIN D PROVE CallOK(D, k)
  <2>1. CASE k \in 1..Len(C)
    <3>1. CallOK(C, k) /\ D[k] = C[k]
      BY <1>1, <1>2, <2>1 DEF Control
    <3>2. k > 1 => (IsCallee(D, k - 1) <=> IsCallee(C, k - 1))
      BY <1>1, <1>4, <2>1
    <3> QED BY <2>1, <3>1, <3>2 DEF CallOK
  <2>2. CASE k = Len(C) + 1
    <3>1. D[k].c = "callee" /\ k > 1 /\ ~IsCallee(D, k - 1)
      BY <1>1, <1>2, <1>4, <2>2
    <3> QED BY <3>1 DEF CallOK, LoopCalls, HostCalls
  <2> QED BY <1>1, <1>2, <2>1, <2>2
<1>9. ASSUME NEW k \in DOMAIN D, IsCallee(D, k) PROVE CalleeOK(G, D, k)
  <2>1. CASE k \in 1..Len(C)
    <3>1. CalleeOK(F, C, k) /\ D[k] = C[k] /\ Rank(D, k) = Rank(C, k)
      BY <1>1, <1>2, <1>4, <1>5, <1>9, <2>1 DEF Control
    <3> QED BY <1>1, <1>3, <3>1 DEF CalleeOK
  <2>2. CASE k = Len(C) + 1
    BY <1>1, <1>2, <1>3, <1>6, <2>2 DEF CalleeOK
  <2> QED BY <1>1, <1>2, <2>1, <2>2
<1>10. ASSUME NEW j \in DOMAIN D, NEW k \in DOMAIN D, j < k, IsCallee(D, j), IsCallee(D, k)
       PROVE  D[j].fp < D[k].fp
  <2>1. j \in 1..Len(C) /\ D[j] = C[j] /\ IsCallee(C, j)
    BY <1>1, <1>2, <1>4, <1>10
  <2>2. CASE k \in 1..Len(C)
    BY <1>1, <1>2, <1>4, <1>10, <2>1, <2>2 DEF Control
  <2>3. CASE k = Len(C) + 1
    BY <1>2, <1>7, <2>1, <2>3
  <2> QED BY <1>1, <1>2, <2>2, <2>3
<1>11. ASSUME NEW i \in DOMAIN G
       PROVE  G[i].barrier <=> \E k \in DOMAIN D : IsCallee(D, k) /\ D[k].fp + 1 = i
  <2>1. CASE i \in 1..Len(F)
    <3>1. G[i].barrier <=> \E k \in 1..Len(C) : IsCallee(C, k) /\ C[k].fp + 1 = i
      BY <1>1, <1>3, <2>1 DEF Control
    <3>2. D[Len(C) + 1].fp + 1 # i
      BY <1>1, <1>2, <2>1
    <3>3. \A k \in DOMAIN D : k \in 1..Len(C) \/ k = Len(C) + 1
      BY <1>1, <1>2
    <3>4. 1..Len(C) \subseteq DOMAIN D
      BY <1>1, <1>2
    <3> QED BY <1>2, <1>4, <3>1, <3>2, <3>3, <3>4
  <2>2. CASE i = Len(F) + 1
    <3>1. G[i].barrier /\ Len(C) + 1 \in DOMAIN D /\ D[Len(C) + 1].fp + 1 = i
      BY <1>1, <1>2, <1>3, <2>2
    <3> QED BY <1>4, <3>1
  <2> QED BY <1>1, <1>3, <2>1, <2>2
<1>12. Control(G, D)
  <2>1. ~G[1].barrier /\ \A i \in DOMAIN G : IsFrame(G[i])
    BY <1>1, <1>3 DEF Control
  <2> QED BY <1>2, <1>3, <1>8, <1>9, <1>10, <1>11, <2>1 DEF Control
<1>13. ASSUME NEW i \in DOMAIN G PROVE FrameFit(D, h, i, G[i].cap)
  <2>1. CASE i \in 1..Len(F)
    <3>1. FrameFit(C, h, i, F[i].cap) /\ G[i] = F[i]
      BY <1>1, <1>3, <2>1 DEF Sharing
    <3>2. ASSUME NEW j \in DOMAIN D, NEW k \in DOMAIN D, j < k, IsCallee(D, k), D[k].fp < i
          PROVE  Spares(D[j], F[i].cap)
      <4>1. k # Len(C) + 1
        BY <1>1, <1>2, <2>1, <3>2
      <4>2. k \in 1..Len(C) /\ j \in 1..Len(C)
        BY <1>1, <1>2, <3>2, <4>1
      <4>3. D[j] = C[j] /\ D[k] = C[k] /\ IsCallee(C, k)
        BY <1>2, <1>4, <3>2, <4>2
      <4> QED BY <1>1, <3>1, <3>2, <4>2, <4>3 DEF FrameFit
    <3> QED BY <3>1, <3>2 DEF FrameFit
  <2>2. CASE i = Len(F) + 1
    <3>1. ASSUME NEW j \in DOMAIN D, NEW k \in DOMAIN D, j < k PROVE Spares(D[j], b.cap)
      <4>1. j \in 1..Len(C) /\ D[j] = C[j]
        BY <1>1, <1>2, <3>1
      <4> QED BY <1>1, <4>1 DEF Fit
    <3> QED BY <1>3, <2>2, <3>1 DEF FrameFit, Fit
  <2> QED BY <1>1, <1>3, <2>1, <2>2
<1>14. ASSUME NEW k \in DOMAIN D PROVE SavedOK(D, h, k)
  <2>1. CASE k \in 1..Len(C)
    <3>1. SavedOK(C, h, k) /\ D[k] = C[k] /\ \A j \in 1..(k - 1) : D[j] = C[j]
      BY <1>1, <1>2, <2>1 DEF Sharing
    <3> QED BY <3>1 DEF SavedOK, CallFit
  <2>2. CASE k = Len(C) + 1
    BY <1>2, <2>2 DEF SavedOK
  <2> QED BY <1>1, <1>2, <2>1, <2>2
<1>15. Sharing(G, D, h)
  BY <1>13, <1>14 DEF Sharing
<1> QED BY <1>2, <1>3, <1>4, <1>6, <1>12, <1>15 DEF Looping, G, D

\* The calls below the last one, whatever the frames above a runCallee's.
LEMMA CallsBelow ==
  ASSUME NEW F, NEW C, Control(F, C), C # <<>>
  PROVE  LET D == SubSeq(C, 1, Len(C) - 1) IN
         /\ Len(C) \in Nat /\ DOMAIN C = 1..Len(C) /\ Len(C) # 0
         /\ IsASeq(D) /\ Len(D) = Len(C) - 1 /\ DOMAIN D = 1..(Len(C) - 1)
         /\ (D = <<>> <=> Len(C) = 1)
         /\ Len(C) # 1 => (IsCallee(D, Len(D)) <=> IsCallee(C, Len(C) - 1))
         /\ \A k \in 1..(Len(C) - 1) : /\ D[k] = C[k] /\ (IsCallee(D, k) <=> IsCallee(C, k))
                                       /\ CallOK(D, k) /\ Rank(D, k) = Rank(C, k)
         /\ Rank(D, Len(D)) \in Nat
         /\ Rank(C, Len(C)) = IF IsCallee(C, Len(C)) THEN Rank(D, Len(D)) + 1 ELSE Rank(D, Len(D))
<1> DEFINE D == SubSeq(C, 1, Len(C) - 1)
<1>1. /\ IsASeq(C) /\ Len(C) \in Nat /\ DOMAIN C = 1..Len(C) /\ Len(C) # 0
  BY SeqFacts DEF Control
<1>2. Len(C) - 1 \in 0..Len(C) /\ Len(C) - 1 \in Nat
  BY <1>1
<1>3. /\ IsASeq(D) /\ Len(D) = Len(C) - 1 /\ DOMAIN D = 1..(Len(C) - 1)
      /\ \A k \in 1..(Len(C) - 1) : D[k] = C[k]
  BY <1>1, <1>2, PrefixFacts
<1>4. ASSUME NEW k \in 0..(Len(C) - 1) PROVE Rank(D, k) = Rank(C, k)
  <2>1. k \in Nat /\ \A j \in 1..k : D[j] = C[j]
    BY <1>1, <1>3
  <2> QED BY <2>1, RankSame
<1>5. ASSUME NEW k \in 1..(Len(C) - 1) PROVE CallOK(D, k) /\ (IsCallee(D, k) <=> IsCallee(C, k))
  <2>1. CallOK(C, k) /\ D[k] = C[k] /\ (k > 1 => D[k - 1] = C[k - 1])
    BY <1>1, <1>3 DEF Control
  <2> QED BY <2>1 DEF CallOK, IsCallee
<1>6. /\ D = <<>> <=> Len(C) = 1
      /\ Len(C) # 1 => (IsCallee(D, Len(D)) <=> IsCallee(C, Len(C) - 1))
  <2>1. D = <<>> <=> Len(D) = 0
    BY <1>3, SeqFacts
  <2>2. Len(C) # 1 => Len(D) \in 1..(Len(C) - 1)
    BY <1>1, <1>3
  <2> QED BY <1>1, <1>3, <1>5, <2>1, <2>2
<1>7. /\ Rank(D, Len(D)) \in Nat /\ Rank(D, Len(D)) = Rank(C, Len(C) - 1)
      /\ Rank(C, Len(C)) = IF IsCallee(C, Len(C)) THEN Rank(C, Len(C) - 1) + 1 ELSE Rank(C, Len(C) - 1)
  <2>1. (Len(C) - 1) + 1 = Len(C) /\ Len(C) - 1 \in 0..(Len(C) - 1)
    BY <1>1
  <2>2. Rank(C, (Len(C) - 1) + 1) =
          IF IsCallee(C, (Len(C) - 1) + 1) THEN Rank(C, Len(C) - 1) + 1 ELSE Rank(C, Len(C) - 1)
    BY <1>2, RankNext
  <2>3. Rank(D, Len(C) - 1) = Rank(C, Len(C) - 1) /\ Rank(C, Len(C) - 1) \in Nat
    BY <1>2, <1>4, <2>1, RankType
  <2> QED BY <1>3, <2>1, <2>2, <2>3
<1> QED BY <1>1, <1>3, <1>4, <1>5, <1>6, <1>7

LEMMA CallPopped ==
  ASSUME NEW F, NEW C, NEW h, Control(F, C), Sharing(F, C, h),
         C # <<>>, ~IsCallee(C, Len(C)), NEW D, D = SubSeq(C, 1, Len(C) - 1)
  PROVE  /\ Control(F, D) /\ Sharing(F, D, h)
         /\ Rank(D, Len(D)) = Rank(C, Len(C))
         /\ C[Len(C)].c \in LoopCalls => Looping(D)
         /\ C[Len(C)].c \in HostCalls => Waiting(D)
<1>1. /\ Len(C) \in Nat /\ DOMAIN C = 1..Len(C) /\ Len(C) # 0
      /\ IsASeq(D) /\ Len(D) = Len(C) - 1 /\ DOMAIN D = 1..(Len(C) - 1)
      /\ (D = <<>> <=> Len(C) = 1)
      /\ Len(C) # 1 => (IsCallee(D, Len(D)) <=> IsCallee(C, Len(C) - 1))
      /\ \A k \in 1..(Len(C) - 1) : /\ D[k] = C[k] /\ (IsCallee(D, k) <=> IsCallee(C, k))
                                    /\ CallOK(D, k) /\ Rank(D, k) = Rank(C, k)
      /\ Rank(D, Len(D)) = Rank(C, Len(C))
  BY CallsBelow
<1>2. ASSUME NEW k \in DOMAIN C, IsCallee(C, k) PROVE k \in DOMAIN D /\ D[k] = C[k] /\ IsCallee(D, k)
  BY <1>1, <1>2
<1>3. ASSUME NEW k \in DOMAIN D
      PROVE  k \in DOMAIN C /\ CallOK(D, k) /\ D[k] = C[k]
             /\ (IsCallee(D, k) <=> IsCallee(C, k)) /\ (IsCallee(D, k) => CalleeOK(F, D, k))
  <2>1. k \in DOMAIN C /\ CallOK(D, k) /\ D[k] = C[k] /\ (IsCallee(D, k) <=> IsCallee(C, k))
        /\ Rank(D, k) = Rank(C, k)
    BY <1>1
  <2>2. IsCallee(C, k) => CalleeOK(F, C, k)
    BY <2>1 DEF Control
  <2> QED BY <2>1, <2>2 DEF CalleeOK
<1>4. \A i \in DOMAIN F : F[i].barrier <=> \E k \in DOMAIN D : IsCallee(D, k) /\ D[k].fp + 1 = i
  BY <1>2, <1>3 DEF Control
<1>5. Control(F, D)
  BY <1>1, <1>3, <1>4 DEF Control
<1>6. ASSUME NEW i \in DOMAIN F PROVE FrameFit(D, h, i, F[i].cap)
  <2>1. FrameFit(C, h, i, F[i].cap)
    BY DEF Sharing
  <2> QED BY <1>3, <2>1 DEF FrameFit
<1>7. ASSUME NEW k \in DOMAIN D PROVE SavedOK(D, h, k)
  <2>1. SavedOK(C, h, k) /\ D[k] = C[k] /\ \A j \in 1..(k - 1) : D[j] = C[j]
    BY <1>1 DEF Sharing
  <2> QED BY <2>1 DEF SavedOK, CallFit
<1>8. Sharing(F, D, h)
  BY <1>6, <1>7 DEF Sharing
<1>9. C[Len(C)].c \in LoopCalls => Looping(D)
  <2>1. CallOK(C, Len(C))
    BY <1>1 DEF Control
  <2> QED BY <1>1, <2>1 DEF CallOK, Looping
<1>10. C[Len(C)].c \in HostCalls => Waiting(D)
  <2>1. CallOK(C, Len(C)) /\ (C[Len(C)].c \in HostCalls => C[Len(C)].c \notin LoopCalls)
    BY <1>1 DEF Control, LoopCalls, HostCalls
  <2> QED BY <1>1, <2>1 DEF CallOK, Waiting
<1> QED BY <1>1, <1>5, <1>8, <1>9, <1>10

LEMMA CalleePopped ==
  ASSUME NEW F, NEW C, NEW h, Control(F, C), Sharing(F, C, h),
         C # <<>>, IsCallee(C, Len(C))
  PROVE  LET D == SubSeq(C, 1, Len(C) - 1)
             G == SubSeq(F, 1, C[Len(C)].fp) IN
         /\ Control(G, D) /\ Sharing(G, D, h) /\ Waiting(D)
         /\ Rank(D, Len(D)) = Rank(C, Len(C)) - 1
         /\ Len(G) = C[Len(C)].fp /\ C[Len(C)].fp \in Nat
         /\ C[Len(C)].depth = C[Len(C)].fp - Rank(C, Len(C)) /\ Rank(C, Len(C)) \in Nat
<1> DEFINE D == SubSeq(C, 1, Len(C) - 1)
           G == SubSeq(F, 1, C[Len(C)].fp)
<1>1. /\ Len(C) \in Nat /\ DOMAIN C = 1..Len(C) /\ Len(C) # 0
      /\ IsASeq(D) /\ Len(D) = Len(C) - 1 /\ DOMAIN D = 1..(Len(C) - 1)
      /\ (D = <<>> <=> Len(C) = 1)
      /\ Len(C) # 1 => (IsCallee(D, Len(D)) <=> IsCallee(C, Len(C) - 1))
      /\ \A k \in 1..(Len(C) - 1) : /\ D[k] = C[k] /\ (IsCallee(D, k) <=> IsCallee(C, k))
                                    /\ CallOK(D, k) /\ Rank(D, k) = Rank(C, k)
      /\ Rank(D, Len(D)) = Rank(C, Len(C)) - 1 /\ Rank(C, Len(C)) \in Nat
  <2>1. /\ Len(C) \in Nat /\ DOMAIN C = 1..Len(C) /\ Len(C) # 0
        /\ IsASeq(D) /\ Len(D) = Len(C) - 1 /\ DOMAIN D = 1..(Len(C) - 1)
        /\ (D = <<>> <=> Len(C) = 1)
        /\ Len(C) # 1 => (IsCallee(D, Len(D)) <=> IsCallee(C, Len(C) - 1))
        /\ \A k \in 1..(Len(C) - 1) : /\ D[k] = C[k] /\ (IsCallee(D, k) <=> IsCallee(C, k))
                                      /\ CallOK(D, k) /\ Rank(D, k) = Rank(C, k)
        /\ Rank(D, Len(D)) \in Nat
        /\ Rank(C, Len(C)) = IF IsCallee(C, Len(C)) THEN Rank(D, Len(D)) + 1 ELSE Rank(D, Len(D))
    BY CallsBelow
  <2>2. Rank(D, Len(D)) = Rank(C, Len(C)) - 1 /\ Rank(C, Len(C)) \in Nat
    BY <2>1, SMTT(40)
  <2> QED BY <2>1, <2>2
<1> DEFINE n == C[Len(C)].fp
<1>2. /\ n \in Nat /\ n >= 1 /\ n + 1 <= Len(F)
      /\ C[Len(C)].depth = n - Rank(C, Len(C))
  BY <1>1 DEF Control, CalleeOK
<1>3. Len(F) \in Nat /\ DOMAIN F = 1..Len(F)
  BY SeqFacts DEF Control
<1>4. /\ IsASeq(G) /\ Len(G) = n /\ DOMAIN G = 1..n /\ G # <<>>
      /\ \A i \in 1..n : G[i] = F[i]
  <2>1. IsASeq(F) /\ n \in 0..Len(F) /\ n # 0
    BY <1>2, <1>3 DEF Control
  <2> QED BY <2>1, PrefixFacts
<1> HIDE DEF D, G
<1>5. ASSUME NEW k \in DOMAIN D
      PROVE  /\ k \in DOMAIN C /\ CallOK(D, k) /\ D[k] = C[k] /\ Rank(D, k) = Rank(C, k)
             /\ (IsCallee(D, k) <=> IsCallee(C, k)) /\ k < Len(C)
  BY <1>1
<1>6. ASSUME NEW k \in DOMAIN D, IsCallee(D, k)
      PROVE  CalleeOK(G, D, k)
  <2>1. CalleeOK(F, C, k) /\ C[k].fp < n
    BY <1>1, <1>5, <1>6 DEF Control
  <2> QED BY <1>2, <1>4, <1>5, <2>1 DEF CalleeOK
<1>7. ASSUME NEW i \in DOMAIN G
      PROVE  G[i].barrier <=> \E k \in DOMAIN D : IsCallee(D, k) /\ D[k].fp + 1 = i
  <2>1. i \in DOMAIN F /\ G[i] = F[i] /\ i # n + 1
    BY <1>2, <1>3, <1>4
  <2>2. F[i].barrier <=> \E k \in DOMAIN C : IsCallee(C, k) /\ C[k].fp + 1 = i
    BY <2>1 DEF Control
  <2>3. \A k \in DOMAIN C : k # Len(C) => k \in DOMAIN D
    BY <1>1
  <2> QED BY <1>5, <2>1, <2>2, <2>3
<1>8. Control(G, D)
  <2>1. ~G[1].barrier /\ \A i \in DOMAIN G : IsFrame(G[i])
    BY <1>2, <1>3, <1>4 DEF Control
  <2>2. \A j, k \in DOMAIN D : j < k /\ IsCallee(D, j) /\ IsCallee(D, k) => D[j].fp < D[k].fp
    BY <1>5 DEF Control
  <2> QED BY <1>1, <1>4, <1>5, <1>6, <1>7, <2>1, <2>2 DEF Control
<1>9. ASSUME NEW i \in DOMAIN G PROVE FrameFit(D, h, i, G[i].cap)
  <2>1. FrameFit(C, h, i, F[i].cap) /\ G[i] = F[i]
    BY <1>2, <1>3, <1>4 DEF Sharing
  <2> QED BY <1>5, <2>1 DEF FrameFit
<1>10. ASSUME NEW k \in DOMAIN D PROVE SavedOK(D, h, k)
  <2>1. SavedOK(C, h, k) /\ D[k] = C[k] /\ \A j \in 1..(k - 1) : D[j] = C[j]
    BY <1>1 DEF Sharing
  <2> QED BY <2>1 DEF SavedOK, CallFit
<1>11. Sharing(G, D, h)
  BY <1>9, <1>10 DEF Sharing
<1>12. Waiting(D)
  <2>1. CallOK(C, Len(C)) /\ C[Len(C)].c \notin LoopCalls
    BY <1>1 DEF Control, IsCallee, LoopCalls
  <2> QED BY <1>1, <2>1 DEF CallOK, Waiting
<1> QED BY <1>1, <1>2, <1>4, <1>8, <1>11, <1>12 DEF D, G

LEMMA HeapGrown ==
  ASSUME NEW F, NEW C, NEW h, Sharing(F, C, h), NEW g, IsASeq(g), Len(g) >= Len(h)
  PROVE  Sharing(F, C, g) /\ \A e : Fit(C, h, e) => Fit(C, g, e)
<1>1. Len(h) \in Nat /\ Len(g) \in Nat /\ Len(h) # 0 /\ g # <<>>
  BY SeqFacts DEF Sharing
<1>2. \A e : Owned(h, e) => Owned(g, e)
  BY <1>1 DEF Owned, IsEnv
<1>3. \A e : IsEnv(h, e) => IsEnv(g, e)
  BY <1>1 DEF IsEnv
<1>4. \A i \in DOMAIN F : FrameFit(C, g, i, F[i].cap)
  BY <1>2 DEF Sharing, FrameFit
<1>5. \A k \in DOMAIN C : SavedOK(C, g, k)
  BY <1>2, <1>3 DEF Sharing, SavedOK, CallFit
<1>6. \A e : Fit(C, h, e) => Fit(C, g, e)
  BY <1>2 DEF Fit
<1> QED BY <1>1, <1>4, <1>5, <1>6 DEF Sharing
-----------------------------------------------------------------------------
(* Steps that leave the control stack and the capabilities alone.          *)

\* The same frames, but for where they are in which code.
SameFrames(F, G) ==
  /\ IsASeq(G) /\ Len(G) = Len(F)
  /\ \A i \in 1..Len(F) : IsFrame(G[i]) /\ G[i].barrier = F[i].barrier /\ G[i].cap = F[i].cap
\* t is s but for operands, locals, counters, and what runs.
Alike(s, t) ==
  /\ IsVM(t) /\ SameFrames(s.frames, t.frames)
  /\ t.calls = s.calls /\ t.heap = s.heap /\ t.depth = s.depth
\* The loop goes on, or is refused.
Plain(s, t) == Alike(s, t) /\ t.mode \in {"run", "apply", "err"}

LEMMA AlikeSelf ==
  ASSUME NEW s, Base(s)
  PROVE  Alike(s, s)
<1>1. IsASeq(s.frames) /\ \A i \in DOMAIN s.frames : IsFrame(s.frames[i])
  BY DEF Base, Control
<1> QED BY <1>1, SeqFacts DEF Base, Alike, SameFrames

LEMMA AlikeFields ==
  ASSUME NEW s, NEW t, Alike(s, t), NEW x
  PROVE  /\ Alike(s, [t EXCEPT !.stack = x])  /\ [t EXCEPT !.stack = x].mode = t.mode
         /\ Alike(s, [t EXCEPT !.locals = x]) /\ [t EXCEPT !.locals = x].mode = t.mode
         /\ Alike(s, [t EXCEPT !.steps = x])  /\ [t EXCEPT !.steps = x].mode = t.mode
         /\ Alike(s, [t EXCEPT !.alloc = x])  /\ [t EXCEPT !.alloc = x].mode = t.mode
BY DEF Alike, IsVM

LEMMA AlikeAsked ==
  ASSUME NEW s, NEW t, Alike(s, t), NEW mode, NEW req
  PROVE  LET r == Ask(t, mode, req) IN
         Alike(s, r) /\ r.mode = mode /\ r.req = req
<1> DEFINE u == [t EXCEPT !.mode = mode]
           r == [u EXCEPT !.req = req]
<1>1. Alike(s, u) /\ u.mode = mode
  BY DEF Alike, IsVM
<1> HIDE DEF u
<1>2. Alike(s, r) /\ r.mode = mode /\ r.req = req
  BY <1>1 DEF Alike, IsVM
<1>3. r = Ask(t, mode, req)
  BY DEF Ask, u
<1> HIDE DEF r
<1> QED BY <1>2, <1>3

LEMMA AlikeThrown ==
  ASSUME NEW s, NEW t, Alike(s, t)
  PROVE  /\ \A k, l, d : Alike(s, Throw(t, k, l, d)) /\ Throw(t, k, l, d).mode = "err"
         /\ Alike(s, runtimeError(t)) /\ runtimeError(t).mode = "err"
         /\ Alike(s, LimitError(t)) /\ LimitError(t).mode = "err"
<1>1. ASSUME NEW k, NEW l, NEW d
      PROVE  Alike(s, Throw(t, k, l, d)) /\ Throw(t, k, l, d).mode = "err"
  BY AlikeAsked DEF Throw
<1> QED BY <1>1 DEF runtimeError, LimitError

LEMMA AlikeCharged ==
  ASSUME NEW s, NEW t, Alike(s, t)
  PROVE  /\ Alike(s, Alloc(t)) /\ Alloc(t).mode \in {t.mode, "err"}
         /\ Alike(s, Step(t)) /\ Step(t).mode \in {t.mode, "err"}
<1>1. ASSUME NEW u, Alike(s, u), NEW c, NEW l
      PROVE  Alike(s, Limited(u, c, l)) /\ Limited(u, c, l).mode \in {u.mode, "err"}
  BY <1>1, AlikeThrown DEF Limited
<1>2. /\ Alike(s, [t EXCEPT !.alloc = t.alloc + 1]) /\ [t EXCEPT !.alloc = t.alloc + 1].mode = t.mode
      /\ Alike(s, [t EXCEPT !.steps = t.steps + 1]) /\ [t EXCEPT !.steps = t.steps + 1].mode = t.mode
  BY AlikeFields
<1> QED BY <1>1, <1>2 DEF Alloc, Step

LEMMA FrameFields ==
  ASSUME NEW f, IsFrame(f), NEW x
  PROVE  /\ IsFrame([f EXCEPT !.ip = x])  /\ [f EXCEPT !.ip = x].barrier = f.barrier
         /\ [f EXCEPT !.ip = x].cap = f.cap
         /\ IsFrame([f EXCEPT !.p = x])   /\ [f EXCEPT !.p = x].barrier = f.barrier
         /\ [f EXCEPT !.p = x].cap = f.cap
         /\ IsFrame([f EXCEPT !.cap = x]) /\ [f EXCEPT !.cap = x].barrier = f.barrier
         /\ [f EXCEPT !.cap = x].cap = x
BY DEF IsFrame

LEMMA SameButOne ==
  ASSUME NEW F, SameFrames(F, F), NEW n, NEW f,
         n \in 1..Len(F) => IsFrame(f) /\ f.barrier = F[n].barrier /\ f.cap = F[n].cap
  PROVE  SameFrames(F, [F EXCEPT ![n] = f])
<1> DEFINE G == [F EXCEPT ![n] = f]
<1>1. /\ IsASeq(G) /\ Len(G) = Len(F)
      /\ \A i \in 1..Len(F) : G[i] = IF i = n THEN f ELSE F[i]
  <2>1. IsASeq(F)
    BY DEF SameFrames
  <2> QED BY <2>1, UpdateFacts
<1> QED BY <1>1 DEF SameFrames

LEMMA AlikeFrames ==
  ASSUME NEW s, NEW t, Alike(s, t), NEW G, SameFrames(t.frames, G)
  PROVE  Alike(s, [t EXCEPT !.frames = G]) /\ [t EXCEPT !.frames = G].mode = t.mode
<1>1. SameFrames(s.frames, G)
  BY DEF Alike, SameFrames
<1> QED BY <1>1 DEF Alike, IsVM

LEMMA AlikeJumped ==
  ASSUME NEW s, NEW t, Alike(s, t), NEW ip, NEW p
  PROVE  /\ Alike(s, JumpTo(t, ip)) /\ JumpTo(t, ip).mode = t.mode
         /\ Alike(s, Restart(t, p)) /\ Restart(t, p).mode = t.mode
<1> DEFINE F == t.frames
           n == Len(F)
           c == F[n]
           e == [c EXCEPT !.p = p]
           f == [c EXCEPT !.ip = ip]
           g == [e EXCEPT !.ip = 1]
<1>1. SameFrames(F, F) /\ (n \in 1..Len(F) => IsFrame(c))
  BY DEF Alike, SameFrames
<1>2. SameFrames(F, [F EXCEPT ![n] = f])
  <2>1. IsFrame(c) => IsFrame(f) /\ f.barrier = c.barrier /\ f.cap = c.cap
    <3> HIDE DEF c
    <3> QED BY FrameFields
  <2> HIDE DEF f, n, F
  <2> QED BY <1>1, <2>1, SameButOne
<1>3. SameFrames(F, [F EXCEPT ![n] = g])
  <2>1. IsFrame(c) => IsFrame(e) /\ e.barrier = c.barrier /\ e.cap = c.cap
    <3> HIDE DEF c
    <3> QED BY FrameFields
  <2>2. IsFrame(c) => IsFrame(g) /\ g.barrier = c.barrier /\ g.cap = c.cap
    <3> HIDE DEF c, e
    <3> QED BY <2>1, FrameFields, ZenonT(60)
  <2> HIDE DEF g, n, F
  <2> QED BY <1>1, <2>2, SameButOne
<1>4. JumpTo(t, ip) = [t EXCEPT !.frames = [F EXCEPT ![n] = f]]
  BY DEF JumpTo
<1>5. Restart(t, p) = [t EXCEPT !.frames = [F EXCEPT ![n] = g]]
  BY DEF Restart, Alike, IsVM
<1> DEFINE G == [F EXCEPT ![n] = f]
           H == [F EXCEPT ![n] = g]
<1>6. SameFrames(t.frames, G) /\ JumpTo(t, ip) = [t EXCEPT !.frames = G]
  BY <1>2, <1>4
<1>7. SameFrames(t.frames, H) /\ Restart(t, p) = [t EXCEPT !.frames = H]
  BY <1>3, <1>5
<1> HIDE DEF G, H
<1>8. Alike(s, JumpTo(t, ip)) /\ JumpTo(t, ip).mode = t.mode
  BY <1>6, AlikeFrames
<1>9. Alike(s, Restart(t, p)) /\ Restart(t, p).mode = t.mode
  BY <1>7, AlikeFrames
<1> QED BY <1>8, <1>9

\* The operators of execute and apply that do so.
LEMMA AlikeOperands ==
  ASSUME NEW s, NEW t, Alike(s, t), NEW x, NEW y
  PROVE  /\ Alike(s, push(t, x)) /\ push(t, x).mode = t.mode
         /\ Alike(s, PopN(t, x)) /\ PopN(t, x).mode = t.mode
         /\ Alike(s, Clean(t, x)) /\ Clean(t, x).mode = t.mode
         /\ Alike(s, PushUnlessFailing(t, x)) /\ PushUnlessFailing(t, x).mode = t.mode
         /\ Alike(s, Deliver(t, y, x)) /\ Deliver(t, y, x).mode = t.mode
         /\ Alike(s, Allocate(t, x)) /\ Allocate(t, x).mode \in {t.mode, "err"}
<1>1. ASSUME NEW u, Alike(s, u), NEW v
      PROVE  Alike(s, push(u, v)) /\ push(u, v).mode = u.mode
  BY <1>1, AlikeFields DEF push
<1>2. Alike(s, PopN(t, x)) /\ PopN(t, x).mode = t.mode
  BY AlikeFields DEF PopN
<1>3. ASSUME NEW v
      PROVE  Alike(s, Clean(t, v)) /\ Clean(t, v).mode = t.mode
  BY AlikeFields DEF Clean
<1>4. ASSUME NEW u, Alike(s, u)
      PROVE  Alike(s, PushUnlessFailing(u, x)) /\ PushUnlessFailing(u, x).mode = u.mode
  BY <1>1, <1>4 DEF PushUnlessFailing
<1>5. Alike(s, Deliver(t, y, x)) /\ Deliver(t, y, x).mode = t.mode
  BY <1>1, <1>3 DEF Deliver
<1>6. Alike(s, Allocate(t, x)) /\ Allocate(t, x).mode \in {t.mode, "err"}
  BY <1>4, AlikeCharged DEF Allocate
<1> QED BY <1>1, <1>2, <1>3, <1>4, <1>5, <1>6

LEMMA AlikeLocals ==
  ASSUME NEW s, NEW t, Alike(s, t), NEW x, NEW y, NEW z
  PROVE  /\ Alike(s, setLocal(t, x, y, z)) /\ setLocal(t, x, y, z).mode = t.mode
         /\ Alike(s, Bound(t, x, y)) /\ Bound(t, x, y).mode = t.mode
         /\ Alike(s, tailCallThunk(t, x)) /\ tailCallThunk(t, x).mode = t.mode
         /\ Alike(s, tailCallClosure(t, x, y)) /\ tailCallClosure(t, x, y).mode = t.mode
         /\ Alike(s, Missed(t)) /\ Missed(t).mode = t.mode
<1>1. ASSUME NEW v PROVE Alike(s, [t EXCEPT !.locals = v]) /\ [t EXCEPT !.locals = v].mode = t.mode
  BY AlikeFields
<1>2. ASSUME NEW v, NEW p
      PROVE  LET r == Restart([t EXCEPT !.locals = v], p) IN Alike(s, r) /\ r.mode = t.mode
  <2> DEFINE u == [t EXCEPT !.locals = v]
  <2>1. Alike(s, u) /\ u.mode = t.mode
    BY <1>1
  <2> HIDE DEF u
  <2>2. Alike(s, Restart(u, p)) /\ Restart(u, p).mode = u.mode
    BY <2>1, AlikeJumped
  <2> QED BY <2>1, <2>2 DEF u
<1>3. Alike(s, Missed(t)) /\ Missed(t).mode = t.mode
  BY AlikeOperands, AlikeJumped DEF Missed
<1>4. Alike(s, setLocal(t, x, y, z)) /\ setLocal(t, x, y, z).mode = t.mode
  BY <1>1 DEF setLocal
<1>5. Alike(s, Bound(t, x, y)) /\ Bound(t, x, y).mode = t.mode
  BY <1>1 DEF Bound
<1>6. Alike(s, tailCallThunk(t, x)) /\ tailCallThunk(t, x).mode = t.mode
  BY <1>2 DEF tailCallThunk
<1>7. Alike(s, tailCallClosure(t, x, y)) /\ tailCallClosure(t, x, y).mode = t.mode
  BY <1>2 DEF tailCallClosure
<1> QED BY <1>3, <1>4, <1>5, <1>6, <1>7

LEMMA AlikeFetched ==
  ASSUME NEW s, Alike(s, vm)
  PROVE  Alike(s, Fetched) /\ Fetched.mode = vm.mode
<1>1. Fetched = JumpTo(vm, vm.frames[Len(vm.frames)].ip + 1)
  BY DEF Fetched, JumpTo
<1> QED BY <1>1, AlikeJumped

-----------------------------------------------------------------------------
(* What a step comes to: the invariant, and no capability has changed.     *)

LEMMA SameShape ==
  ASSUME NEW s, NEW t, Base(s), Alike(s, t)
  PROVE  Base(t) /\ Len(t.frames) = Len(s.frames) /\ t.calls = s.calls /\ t.heap = s.heap
<1>1. \A i \in 1..Len(s.frames) : FrameFit(s.calls, s.heap, i, t.frames[i].cap)
  <2>1. DOMAIN s.frames = 1..Len(s.frames)
    BY SeqFacts DEF Base, Control
  <2> QED BY <2>1 DEF Base, Sharing, Alike, SameFrames
<1>2. /\ IsASeq(t.frames) /\ Len(t.frames) = Len(s.frames)
      /\ \A i \in 1..Len(s.frames) : IsFrame(t.frames[i]) /\ t.frames[i].barrier = s.frames[i].barrier
  BY DEF Alike, SameFrames
<1>3. Control(t.frames, s.calls) /\ Sharing(t.frames, s.calls, s.heap)
  BY <1>1, <1>2, FramesUpdated DEF Base
<1> QED BY <1>2, <1>3 DEF Base, Alike

LEMMA SteadyFails ==
  ASSUME NEW s, Base(s), Looping(s.calls), s.mode = "err",
         s.depth >= Len(s.frames) - Rank(s.calls, Len(s.calls)) - 1, s.depth \in Nat
  PROVE  Fails(s)
<1>1. ~Waiting(s.calls)
  BY DEF Looping, Waiting
<1>2. ASSUME s.calls # <<>>, IsCallee(s.calls, Len(s.calls))
      PROVE  s.depth >= s.calls[Len(s.calls)].depth
  <2>1. Len(s.calls) \in DOMAIN s.calls /\ Len(s.calls) \in Nat /\ Len(s.frames) \in Nat
    BY <1>2, SeqFacts DEF Base, Control
  <2>2. PICK rank : rank = Rank(s.calls, Len(s.calls))
    OBVIOUS
  <2>3. rank \in Nat
    BY <2>1, <2>2, RankType
  <2>4. CalleeOK(s.frames, s.calls, Len(s.calls))
    BY <1>2, <2>1 DEF Base, Control
  <2>5. PICK top : top = s.calls[Len(s.calls)]
    OBVIOUS
  <2>6. top.fp \in Nat /\ top.fp + 1 <= Len(s.frames) /\ top.depth = top.fp - rank
    BY <2>2, <2>4, <2>5 DEF CalleeOK
  <2>7. s.depth >= Len(s.frames) - rank - 1
    BY <2>2
  <2>8. s.depth >= top.depth
    BY <2>1, <2>3, <2>6, <2>7
  <2> QED BY <2>5, <2>8
<1> QED BY <1>1, <1>2 DEF Fails

\* Each runCallee has a barrier of its own above the first frame.
LEMMA RankBound ==
  ASSUME NEW F, NEW C, Control(F, C)
  PROVE  /\ Rank(C, Len(C)) \in Nat /\ Len(F) \in Nat
         /\ Rank(C, Len(C)) <= Len(F) - 1
<1> DEFINE S == {j \in 1..Len(C) : IsCallee(C, j)}
           T == 1..(Len(F) - 1)
           f == [j \in S |-> C[j].fp]
<1>1. /\ Len(F) \in Nat /\ Len(F) # 0 /\ Len(C) \in Nat /\ DOMAIN C = 1..Len(C)
  BY SeqFacts DEF Control
<1>2. \A j \in S : C[j].fp \in T
  BY <1>1 DEF Control, CalleeOK
<1>3. f \in [S -> T]
  BY <1>2
<1>4. \A j, k \in S : j # k => C[j].fp # C[k].fp
  <2>1. \A j, k \in S : j < k => C[j].fp < C[k].fp /\ C[j].fp \in Nat /\ C[k].fp \in Nat
    BY <1>1, <1>2 DEF Control
  <2>2. \A j, k \in S : j < k \/ k < j \/ j = k
    BY <1>1
  <2>3. \A m, n \in Nat : m < n => m # n
    OBVIOUS
  <2> QED BY <2>1, <2>2, <2>3
<1>5. IsFiniteSet(T) /\ Cardinality(T) = Len(F) - 1
  <2>1. 1 \in Int /\ Len(F) - 1 \in Int /\ Len(F) - 1 >= 0
    BY <1>1
  <2>2. IsFiniteSet(T) /\ Cardinality(T) = IF 1 > Len(F) - 1 THEN 0 ELSE (Len(F) - 1) - 1 + 1
    BY <2>1, FS_Interval
  <2> QED BY <2>1, <2>2
<1>6. IsFiniteSet(S)
  BY <1>1, RankType
<1>7. Cardinality(S) \in Nat
  BY <1>6, FS_CardinalityType
<1>8. Cardinality(S) <= Cardinality(T)
  <2>1. ASSUME Cardinality(T) < Cardinality(S) PROVE FALSE
    <3> HIDE DEF f, S, T
    <3>1. \E j, k \in S : j # k /\ f[j] = f[k]
      BY <1>3, <1>5, <1>6, <2>1, FS_PigeonHole
    <3> QED BY <1>4, <3>1 DEF f
  <2> QED BY <1>1, <1>5, <1>7, <2>1
<1> QED BY <1>1, <1>5, <1>7, <1>8 DEF Rank

\* What a step comes to when the loop goes on or an error stops it.
Settled(s, t) == (Runs(t) \/ Fails(t)) /\ t.heap = s.heap

LEMMA PlainSettled ==
  ASSUME NEW s, NEW t, Steady(s), Plain(s, t)
  PROVE  Settled(s, t)
<1>1. Base(t) /\ Len(t.frames) = Len(s.frames) /\ t.calls = s.calls /\ t.heap = s.heap
  BY SameShape DEF Steady, Plain
<1>2. Steady(t)
  BY <1>1 DEF Steady, Even, Plain, Alike
<1>3. CASE t.mode = "err"
  <2>1. t.depth \in Nat /\ t.depth >= Len(t.frames) - Rank(t.calls, Len(t.calls)) - 1
    <3>1. Rank(t.calls, Len(t.calls)) \in Nat /\ Len(t.frames) \in Nat
          /\ Rank(t.calls, Len(t.calls)) <= Len(t.frames) - 1
      BY <1>1, RankBound DEF Base
    <3> QED BY <1>2, <3>1 DEF Steady, Even
  <2>2. Fails(t)
    BY <1>2, <1>3, <2>1, SteadyFails DEF Steady
  <2> QED BY <1>1, <2>2 DEF Settled
<1>4. CASE t.mode \in {"run", "apply"}
  BY <1>1, <1>2, <1>4 DEF Settled, Runs
<1> QED BY <1>3, <1>4 DEF Plain

-----------------------------------------------------------------------------
(* Capabilities given to a frame, frames and calls pushed and popped.      *)

CapAt(s, n, e) == [s EXCEPT !.frames[n].cap = e]

\* One frame holds other capabilities.
LEMMA CapStored ==
  ASSUME NEW s, Base(s), NEW e, Fit(s.calls, s.heap, e), NEW n,
         NEW t, t = CapAt(s, n, e)
  PROVE  /\ Base(t) /\ Len(t.frames) = Len(s.frames) /\ t.calls = s.calls /\ t.heap = s.heap
         /\ t.depth = s.depth /\ t.mode = s.mode
<1> DEFINE F == s.frames
           c == F[n]
           f == [c EXCEPT !.cap = e]
           G == [F EXCEPT ![n] = f]
<1>1. /\ IsASeq(F) /\ Len(F) \in Nat /\ DOMAIN F = 1..Len(F)
      /\ \A i \in 1..Len(F) : IsFrame(F[i]) /\ FrameFit(s.calls, s.heap, i, F[i].cap)
  BY SeqFacts DEF Base, Control, Sharing
<1>2. n \in 1..Len(F) => IsFrame(f) /\ f.barrier = c.barrier /\ f.cap = e
  <2>1. IsFrame(c) => IsFrame(f) /\ f.barrier = c.barrier /\ f.cap = e
    <3> HIDE DEF c
    <3> QED BY FrameFields, ZenonT(60)
  <2> QED BY <1>1, <2>1
<1>3. /\ IsASeq(G) /\ Len(G) = Len(F)
      /\ \A i \in 1..Len(F) : G[i] = IF i = n THEN f ELSE F[i]
  <2> HIDE DEF F, f
  <2> QED BY <1>1, UpdateFacts
<1>4. ASSUME NEW i \in 1..Len(F)
      PROVE  IsFrame(G[i]) /\ G[i].barrier = F[i].barrier /\ FrameFit(s.calls, s.heap, i, G[i].cap)
  <2>1. CASE i = n
    <3>1. FrameFit(s.calls, s.heap, i, e)
      BY FitsFrame
    <3>2. G[i] = f
      BY <1>3, <2>1
    <3> HIDE DEF G, f
    <3> QED BY <1>2, <2>1, <3>1, <3>2
  <2>2. CASE i # n
    <3>1. G[i] = F[i]
      BY <1>3, <2>2
    <3> HIDE DEF G
    <3> QED BY <1>1, <3>1
  <2> QED BY <2>1, <2>2
<1>5. Control(G, s.calls) /\ Sharing(G, s.calls, s.heap)
  <2> HIDE DEF G
  <2> QED BY <1>3, <1>4, FramesUpdated DEF Base
<1>6. /\ Base(t) /\ Len(t.frames) = Len(s.frames) /\ t.calls = s.calls /\ t.heap = s.heap
      /\ t.depth = s.depth /\ t.mode = s.mode
  <2>1. Len(G) = Len(s.frames)
    BY <1>3
  <2>2. t = [s EXCEPT !.frames = G]
    BY DEF CapAt
  <2> HIDE DEF G
  <2>3. /\ IsVM(t) /\ t.frames = G /\ t.calls = s.calls /\ t.heap = s.heap
        /\ t.depth = s.depth /\ t.mode = s.mode
    BY <2>2 DEF Base, IsVM
  <2> QED BY <1>5, <2>1, <2>3 DEF Base
<1> QED BY <1>6

\* t is s with other capabilities in some frame.
CapsGiven(s, t) ==
  /\ Base(t) /\ t.calls = s.calls /\ t.heap = s.heap /\ t.mode = s.mode
  /\ Even(s) => Even(t)
  /\ Len(t.frames) = Len(s.frames)

LEMMA CapWritten ==
  ASSUME NEW s, Base(s), NEW e, Fit(s.calls, s.heap, e), NEW ptr
  PROVE  CapsGiven(s, WithCap(s, e)) /\ CapsGiven(s, StoreCapEnv(s, ptr, e))
<1>1. ASSUME NEW n PROVE CapsGiven(s, CapAt(s, n, e))
  <2> DEFINE t == CapAt(s, n, e)
  <2>1. /\ Base(t) /\ t.calls = s.calls /\ t.heap = s.heap /\ t.mode = s.mode
        /\ Len(t.frames) = Len(s.frames) /\ t.depth = s.depth
    BY CapStored
  <2> HIDE DEF t
  <2> QED BY <2>1 DEF CapsGiven, Even, t
<1>2. CapsGiven(s, s)
  BY DEF CapsGiven
<1> QED BY <1>1, <1>2 DEF WithCap, StoreCapEnv, CapAt

\* A frame is pushed after Enter has counted it.
LEMMA FrameEntered ==
  ASSUME NEW s, Base(s), NEW p, NEW bp, NEW e, FrameFit(s.calls, s.heap, Len(s.frames) + 1, e)
  PROVE  LET t == pushFrame(s, p, bp, e) IN
         /\ Base(t) /\ t.calls = s.calls /\ t.heap = s.heap /\ t.mode = s.mode
         /\ t.depth = s.depth /\ Len(t.frames) = Len(s.frames) + 1
<1> DEFINE f == NewFrame(p, bp, e)
           G == Append(s.frames, f)
           t == pushFrame(s, p, bp, e)
<1>1. IsFrame(f) /\ ~f.barrier /\ f.cap = e
  BY DEF IsFrame, NewFrame
<1>2. Control(G, s.calls) /\ Sharing(G, s.calls, s.heap) /\ Len(G) = Len(s.frames) + 1
  <2> HIDE DEF f
  <2> QED BY <1>1, FramePushed DEF Base
<1>3. /\ IsVM(t) /\ t.calls = s.calls /\ t.heap = s.heap /\ t.mode = s.mode
      /\ t.depth = s.depth /\ t.frames = G
  <2> HIDE DEF f
  <2> DEFINE full == Len(s.frames) = s.fcap
             a == [s EXCEPT !.frames = G]
             b == [a EXCEPT !.fcap = IF full THEN 2 * s.fcap ELSE s.fcap]
             d == [b EXCEPT !.gen = IF full THEN s.gen + 1 ELSE s.gen]
  <2>1. /\ IsVM(a) /\ a.calls = s.calls /\ a.heap = s.heap /\ a.mode = s.mode
        /\ a.depth = s.depth /\ a.frames = G /\ a.fcap = s.fcap /\ a.gen = s.gen
    <3> HIDE DEF G
    <3> QED BY DEF Base, IsVM
  <2>2. /\ IsVM(b) /\ b.calls = s.calls /\ b.heap = s.heap /\ b.mode = s.mode
        /\ b.depth = s.depth /\ b.frames = G /\ b.gen = s.gen
    <3> HIDE DEF G, a, full
    <3> QED BY <2>1 DEF IsVM
  <2>3. /\ IsVM(d) /\ d.calls = s.calls /\ d.heap = s.heap /\ d.mode = s.mode
        /\ d.depth = s.depth /\ d.frames = G
    <3> HIDE DEF G, b, full
    <3> QED BY <2>2 DEF IsVM
  <2>4. t = d
    BY <2>1, <2>2 DEF pushFrame, AppendFrame, Grown, f
  <2> HIDE DEF d, t
  <2> QED BY <2>3, <2>4
<1>4. /\ Base(t) /\ t.calls = s.calls /\ t.heap = s.heap /\ t.mode = s.mode
      /\ t.depth = s.depth /\ Len(t.frames) = Len(s.frames) + 1
  <2> HIDE DEF t, G
  <2> QED BY <1>2, <1>3 DEF Base
<1> QED BY <1>4

LEMMA EvenDepth ==
  ASSUME NEW s, Base(s), Even(s)
  PROVE  s.depth \in Nat /\ Len(s.frames) \in Nat /\ Rank(s.calls, Len(s.calls)) \in Nat
<1>1. /\ Rank(s.calls, Len(s.calls)) \in Nat /\ Len(s.frames) \in Nat
      /\ Rank(s.calls, Len(s.calls)) <= Len(s.frames) - 1
  BY RankBound DEF Base
<1> QED BY <1>1 DEF Even

LEMMA Entering ==
  ASSUME NEW s, Steady(s), NEW e, e = Enter(s)
  PROVE  /\ IsVM(e) /\ e.frames = s.frames /\ e.calls = s.calls /\ e.heap = s.heap
         /\ e.depth = s.depth + 1 /\ e.mode \in {s.mode, "err"}
<1> DEFINE u == [s EXCEPT !.depth = s.depth + 1]
<1>1. /\ IsVM(u) /\ u.frames = s.frames /\ u.calls = s.calls /\ u.heap = s.heap
      /\ u.depth = s.depth + 1 /\ u.mode = s.mode
  BY DEF Steady, Base, IsVM
<1>2. Alike(u, u)
  <2>1. SameFrames(s.frames, s.frames)
    BY AlikeSelf DEF Steady, Alike
  <2> QED BY <1>1, <2>1 DEF Alike
<1>3. LimitError(u).frames = u.frames
  BY <1>1 DEF LimitError, Throw, Ask, IsVM
<1>4. e = u \/ e = LimitError(u)
  BY DEF Enter, Limited
<1> HIDE DEF u
<1>5. Alike(u, LimitError(u)) /\ LimitError(u).mode = "err"
  BY <1>2, AlikeThrown
<1> QED BY <1>1, <1>3, <1>4, <1>5 DEF Alike

\* A frame that runs with ce, unless the depth is at its limit.
LEMMA FrameCalled ==
  ASSUME NEW s, Steady(s), s.mode = "run", NEW ce, Fit(s.calls, s.heap, ce),
         NEW x, NEW p, NEW bp, NEW t,
         t = IF Refused(Enter(s)) THEN Enter(s)
             ELSE pushFrame([Enter(s) EXCEPT !.locals = x], p, bp, ce)
  PROVE  Settled(s, t)
<1> DEFINE e == Enter(s)
           u == [e EXCEPT !.locals = x]
<1>1. /\ IsVM(e) /\ e.frames = s.frames /\ e.calls = s.calls /\ e.heap = s.heap
      /\ e.depth = s.depth + 1 /\ e.mode \in {"run", "err"}
  <2> HIDE DEF e
  <2>1. e = Enter(s)
    BY DEF e
  <2> QED BY <2>1, Entering
<1>2. s.depth \in Nat /\ Len(s.frames) \in Nat /\ Rank(s.calls, Len(s.calls)) \in Nat
      /\ s.depth = Len(s.frames) - Rank(s.calls, Len(s.calls)) - 1
  BY EvenDepth DEF Steady, Even
<1> HIDE DEF e
<1>3. CASE e.mode = "err"
  <2>1. Base(e) /\ Looping(e.calls)
    BY <1>1 DEF Steady, Base
  <2>2. Fails(e)
    BY <1>1, <1>2, <1>3, <2>1, SteadyFails, SMTT(40)
  <2>3. t = e
    BY <1>3 DEF Refused, e
  <2> QED BY <1>1, <2>2, <2>3 DEF Settled
<1>4. CASE e.mode = "run"
  <2>1. /\ IsVM(u) /\ u.frames = s.frames /\ u.calls = s.calls /\ u.heap = s.heap
        /\ u.depth = s.depth + 1 /\ u.mode = "run"
    BY <1>1, <1>4 DEF IsVM
  <2>2. t = pushFrame(u, p, bp, ce)
    BY <1>4 DEF Refused, e
  <2> HIDE DEF u
  <2>3. Base(u) /\ FrameFit(u.calls, u.heap, Len(u.frames) + 1, ce)
    BY <2>1, FitsFrame DEF Steady, Base
  <2>4. /\ Base(t) /\ t.calls = u.calls /\ t.heap = u.heap /\ t.mode = u.mode
        /\ t.depth = u.depth /\ Len(t.frames) = Len(u.frames) + 1
    BY <2>2, <2>3, FrameEntered
  <2>5. Even(t)
    BY <1>2, <2>1, <2>4, SMTT(40) DEF Even
  <2> QED BY <2>1, <2>4, <2>5 DEF Settled, Runs, Steady
<1> QED BY <1>1, <1>3, <1>4

LEMMA ClosureCalled ==
  ASSUME NEW s, Steady(s), s.mode = "run", NEW f, NEW args
  PROVE  Settled(s, callClosure(s, f, args))
<1> DEFINE ce == s.frames[Len(s.frames)].cap
           e == Enter(s)
           t == callClosure(s, f, args)
<1>1. Fit(s.calls, s.heap, ce)
  BY CurrentFits DEF Steady, Base
<1>2. t = IF Refused(e) THEN e
          ELSE pushFrame([e EXCEPT !.locals = e.locals \o Slots(f, args)], f.p, Len(e.locals), ce)
  BY DEF callClosure, Entered, currentFrame
<1> HIDE DEF ce, t
<1> QED BY <1>1, <1>2, FrameCalled DEF t

LEMMA SelfRecursed ==
  ASSUME NEW s, Steady(s), s.mode = "run", NEW ce, Fit(s.calls, s.heap, ce), NEW p, NEW slots
  PROVE  Settled(s, Recursed(Enter(s), p, slots, ce))
<1> DEFINE e == Enter(s)
           t == Recursed(e, p, slots, ce)
<1>1. t = IF Refused(e) THEN e
          ELSE pushFrame([e EXCEPT !.locals = e.locals \o ensureLocals(slots, prog.protos[p].nl)],
                         p, Len(e.locals), ce)
  BY DEF Recursed
<1> HIDE DEF t
<1> QED BY <1>1, FrameCalled DEF t

-----------------------------------------------------------------------------
(* Waiting for a result.                                                   *)

\* What a call puts aside when it is made.
Saves(s, c) ==
  /\ c.c = "try" => Fit(s.calls, s.heap, c.ce)
  /\ c.c = "merge" => Fit(s.calls, s.heap, c.cap)
  /\ c.c = "merged" => IsEnv(s.heap, c.ce)
  /\ c.c = "over" => c = [c |-> "over", at |-> c.at, extras |-> c.extras]

LEMMA Awaited ==
  ASSUME NEW s, Base(s), Even(s), NEW c, Saves(s, c),
         \/ c.c \in LoopCalls /\ Looping(s.calls)
         \/ c.c \in HostCalls /\ Waiting(s.calls)
  PROVE  /\ Pending(Await(s, c)) /\ Await(s, c).heap = s.heap /\ Await(s, c).mode = s.mode
         /\ Await(s, c).frames = s.frames
         /\ \A e : Fit(s.calls, s.heap, e) /\ Spares(c, e) => Fit(Await(s, c).calls, s.heap, e)
<1> DEFINE D == Append(s.calls, c)
           t == [s EXCEPT !.calls = D]
<1>1. c.c \in LoopCalls => c.c \notin HostCalls
  BY DEF LoopCalls, HostCalls
<1>2. Control(s.frames, D) /\ Sharing(s.frames, D, s.heap) /\ Waiting(D)
      /\ Rank(D, Len(D)) = Rank(s.calls, Len(s.calls))
  <2>1. Control(s.frames, s.calls) /\ Sharing(s.frames, s.calls, s.heap)
    BY DEF Base
  <2>2. /\ c.c \in LoopCalls \cup HostCalls
        /\ c.c \in LoopCalls => Looping(s.calls)
        /\ c.c \in HostCalls => Waiting(s.calls)
    BY <1>1
  <2>3. /\ c.c = "over" => c = [c |-> "over", at |-> c.at, extras |-> c.extras]
        /\ c.c = "try" => Fit(s.calls, s.heap, c.ce)
        /\ c.c = "merge" => Fit(s.calls, s.heap, c.cap)
        /\ c.c = "merged" => IsEnv(s.heap, c.ce)
    BY DEF Saves
  <2>4. D = Append(s.calls, c)
    OBVIOUS
  <2> HIDE DEF D
  <2> QED BY <2>1, <2>2, <2>3, <2>4, CallPushed
<1>3. ASSUME NEW e, Fit(s.calls, s.heap, e), Spares(c, e) PROVE Fit(D, s.heap, e)
  <2>1. /\ DOMAIN s.calls = 1..Len(s.calls) /\ Len(s.calls) \in Nat /\ DOMAIN D = 1..(Len(s.calls) + 1)
        /\ D[Len(s.calls) + 1] = c /\ \A k \in 1..Len(s.calls) : D[k] = s.calls[k]
    <3>1. IsASeq(s.calls)
      BY DEF Base, Control
    <3> QED BY <3>1, SeqFacts, AppendFacts
  <2> HIDE DEF D
  <2> QED BY <1>3, <2>1 DEF Fit
<1>4. t = Await(s, c)
  BY DEF Await
<1> HIDE DEF D
<1>5. /\ IsVM(t) /\ t.calls = D /\ t.heap = s.heap /\ t.mode = s.mode /\ t.frames = s.frames
      /\ t.depth = s.depth
  BY DEF Base, IsVM
<1> HIDE DEF t
<1> QED BY <1>2, <1>3, <1>4, <1>5 DEF Pending, Base, Even

\* Most calls put no capabilities aside.
Plainly == {"push", "bind", "prim", "thunkN", "hostN", "drive", "fold", "walk", "modify", "state"}

LEMMA AwaitedPlainly ==
  ASSUME NEW s, Base(s), Even(s), NEW c,
         c.c \in Plainly \/ c = [c |-> "over", at |-> c.at, extras |-> c.extras],
         \/ c.c \in LoopCalls /\ Looping(s.calls)
         \/ c.c \in HostCalls /\ Waiting(s.calls)
  PROVE  /\ Pending(Await(s, c)) /\ Await(s, c).heap = s.heap /\ Await(s, c).mode = s.mode
         /\ Await(s, c).frames = s.frames
         /\ \A e : Fit(s.calls, s.heap, e) => Fit(Await(s, c).calls, s.heap, e)
<1>1. c.c \notin {"try", "merge", "merged"}
  BY DEF Plainly
<1>2. Saves(s, c)
  BY <1>1 DEF Saves, Plainly
<1>3. \A e : Spares(c, e)
  BY <1>1 DEF Spares
<1> QED BY <1>2, <1>3, Awaited

LEMMA CalleeAwaited ==
  ASSUME NEW s, Pending(s), NEW ce, Fit(s.calls, s.heap, ce), NEW t, t = barrierFrame(s, ce)
  PROVE  Steady(t) /\ t.heap = s.heap /\ t.mode = s.mode
<1> DEFINE call == [c |-> "callee", fp |-> Len(s.frames), locals |-> Len(s.locals),
                    sp |-> Len(s.stack), depth |-> s.depth]
           b == [p |-> 0, ip |-> 1, bp |-> Len(s.locals), cap |-> ce, barrier |-> TRUE]
           D == Append(s.calls, call)
           G == Append(s.frames, b)
           u == [s EXCEPT !.calls = D]
           full == Len(u.frames) = u.fcap
           v == [u EXCEPT !.frames = G]
           w == [v EXCEPT !.fcap = IF full THEN 2 * u.fcap ELSE u.fcap]
           x == [w EXCEPT !.gen = IF full THEN u.gen + 1 ELSE u.gen]
<1>1. /\ call.c = "callee" /\ call.fp = Len(s.frames) /\ call.depth = s.depth
      /\ IsFrame(b) /\ b.barrier /\ b.cap = ce
  BY DEF IsFrame
<1>2. s.depth = Len(s.frames) - Rank(s.calls, Len(s.calls)) - 1
  BY DEF Pending, Even
<1>3. /\ Control(G, D) /\ Sharing(G, D, s.heap) /\ Looping(D) /\ Len(G) = Len(s.frames) + 1
      /\ Rank(D, Len(D)) = Rank(s.calls, Len(s.calls)) + 1
  <2>1. Control(s.frames, s.calls) /\ Sharing(s.frames, s.calls, s.heap) /\ Waiting(s.calls)
    BY DEF Pending, Base
  <2>2. call.depth = Len(s.frames) - Rank(s.calls, Len(s.calls)) - 1 /\ Fit(s.calls, s.heap, b.cap)
    BY <1>1, <1>2
  <2>3. D = Append(s.calls, call) /\ G = Append(s.frames, b)
    OBVIOUS
  <2> HIDE DEF call, b, D, G
  <2> QED BY <1>1, <2>1, <2>2, <2>3, CalleePushed
<1>4. t = x
  <2>1. /\ u.frames = s.frames /\ u.calls = D /\ u.heap = s.heap /\ u.mode = s.mode
        /\ u.depth = s.depth /\ IsVM(u) /\ u = Await(s, call)
    <3> HIDE DEF D
    <3>1. /\ u.frames = s.frames /\ u.calls = D /\ u.heap = s.heap /\ u.mode = s.mode
          /\ u.depth = s.depth /\ IsVM(u)
      BY DEF Pending, Base, IsVM
    <3>2. u = Await(s, call)
      BY DEF Await, D
    <3> QED BY <3>1, <3>2
  <2>2. t = Grown(u, b, full)
    <3> HIDE DEF u, full
    <3>1. t = AppendFrame(Await(s, call), b)
      BY DEF barrierFrame
    <3> QED BY <2>1, <3>1 DEF AppendFrame, full
  <2>3. v.fcap = u.fcap /\ v.gen = u.gen /\ w.gen = u.gen
    <3> HIDE DEF u, G, full
    <3> QED BY <2>1 DEF IsVM
  <2> HIDE DEF u, full, b
  <2> QED BY <2>1, <2>2, <2>3 DEF Grown
<1>5. /\ IsVM(x) /\ x.frames = G /\ x.calls = D /\ x.heap = s.heap /\ x.mode = s.mode
      /\ x.depth = s.depth
  <2> HIDE DEF D, G, full
  <2>1. /\ IsVM(u) /\ u.calls = D /\ u.heap = s.heap /\ u.mode = s.mode /\ u.depth = s.depth
    BY DEF Pending, Base, IsVM
  <2> HIDE DEF u
  <2>2. /\ IsVM(v) /\ v.frames = G /\ v.calls = D /\ v.heap = s.heap /\ v.mode = s.mode
        /\ v.depth = s.depth
    BY <2>1 DEF IsVM
  <2> HIDE DEF v
  <2>3. /\ IsVM(w) /\ w.frames = G /\ w.calls = D /\ w.heap = s.heap /\ w.mode = s.mode
        /\ w.depth = s.depth
    BY <2>2 DEF IsVM
  <2> HIDE DEF w
  <2> QED BY <2>3 DEF IsVM
<1> HIDE DEF x, D, G
<1>6. Even(t)
  <2>1. Rank(s.calls, Len(s.calls)) \in Nat /\ Len(s.frames) \in Nat
    BY EvenDepth DEF Pending
  <2> QED BY <1>2, <1>3, <1>4, <1>5, <2>1 DEF Even
<1> QED BY <1>3, <1>4, <1>5, <1>6 DEF Steady, Base

LEMMA CalleeRuns ==
  ASSUME NEW s, Pending(s), NEW ce, Fit(s.calls, s.heap, ce), NEW f, NEW args
  PROVE  Settled(s, runCallee(s, ce, f, args))
<1> DEFINE t == barrierFrame(s, ce)
           u == Ask(t, "run", <<>>)
<1>1. Steady(t) /\ t.heap = s.heap
  BY CalleeAwaited
<1> HIDE DEF t
<1>2. Alike(t, u) /\ u.mode = "run"
  BY <1>1, AlikeSelf, AlikeAsked DEF Steady
<1> HIDE DEF u
<1>3. Settled(t, u)
  BY <1>1, <1>2, PlainSettled DEF Plain
<1>4. Steady(u) /\ u.heap = s.heap
  BY <1>1, <1>2, <1>3 DEF Settled, Runs, Fails
<1>5. Settled(u, callClosure(u, f, args))
  BY <1>2, <1>4, ClosureCalled
<1>6. runCallee(s, ce, f, args) = callClosure(u, f, args)
  BY DEF runCallee, t, u
<1> QED BY <1>4, <1>5, <1>6 DEF Settled

LEMMA PendingFails ==
  ASSUME NEW s, Base(s), Even(s), ~Looping(s.calls), NEW t, Alike(s, t), t.mode = "err"
  PROVE  Settled(s, t)
<1>1. Base(t) /\ Len(t.frames) = Len(s.frames) /\ t.calls = s.calls /\ t.heap = s.heap
  BY SameShape
<1>2. Even(t)
  BY <1>1 DEF Even, Alike
<1>3. t.depth \in Nat
  BY <1>1, <1>2, EvenDepth
<1> QED BY <1>1, <1>2, <1>3 DEF Settled, Fails, Looping

LEMMA ChildRuns ==
  ASSUME NEW s, Pending(s), s.mode # "err", NEW ce, Fit(s.calls, s.heap, ce), NEW v
  PROVE  Settled(s, RunChild(Step(s), v, ce))
<1> DEFINE t == Step(s)
<1>1. Alike(s, t) /\ t.mode \in {s.mode, "err"}
  BY AlikeSelf, AlikeCharged DEF Pending
<1> HIDE DEF t
<1>2. CASE t.mode = "err"
  <2>1. ~Looping(s.calls)
    BY DEF Pending, Looping, Waiting
  <2>2. Settled(s, t)
    BY <1>1, <1>2, <2>1, PendingFails DEF Pending
  <2> QED BY <1>2, <2>2 DEF RunChild, Refused, t
<1>3. CASE t.mode # "err"
  <2>1. Base(t) /\ Len(t.frames) = Len(s.frames) /\ t.calls = s.calls /\ t.heap = s.heap
    BY <1>1, SameShape DEF Pending
  <2>2. Pending(t)
    BY <1>1, <2>1 DEF Pending, Even, Alike
  <2>3. Settled(t, runCallee(t, ce, v, <<>>))
    BY <2>1, <2>2, CalleeRuns
  <2>4. RunChild(t, v, ce) = runCallee(t, ce, v, <<>>)
    BY <1>3 DEF RunChild, Refused
  <2> QED BY <2>1, <2>3, <2>4 DEF Settled, t
<1> QED BY <1>2, <1>3

-----------------------------------------------------------------------------
(* A result or an error leaves a call behind.                              *)

LastCall(s) == s.calls[Len(s.calls)]

LEMMA CallLeft ==
  ASSUME NEW s, Base(s), s.calls # <<>>, ~IsCallee(s.calls, Len(s.calls))
  PROVE  /\ Base(Popped(s)) /\ Popped(s).heap = s.heap /\ Popped(s).frames = s.frames
         /\ Popped(s).depth = s.depth /\ Popped(s).mode = s.mode /\ Popped(s).req = s.req
         /\ Even(Popped(s)) <=> Even(s)
         /\ LastCall(s).c \in LoopCalls => Looping(Popped(s).calls)
         /\ LastCall(s).c \in HostCalls => Waiting(Popped(s).calls)
         /\ LastCall(s).c \in LoopCalls \cup HostCalls
<1> DEFINE C == s.calls
           D == SubSeq(C, 1, Len(C) - 1)
           t == [s EXCEPT !.calls = D]
<1>1. Control(s.frames, C) /\ Sharing(s.frames, C, s.heap) /\ D = SubSeq(C, 1, Len(C) - 1)
  BY DEF Base
<1>2. /\ Control(s.frames, D) /\ Sharing(s.frames, D, s.heap)
      /\ Rank(D, Len(D)) = Rank(C, Len(C))
      /\ C[Len(C)].c \in LoopCalls => Looping(D)
      /\ C[Len(C)].c \in HostCalls => Waiting(D)
  <2>1. C # <<>> /\ ~IsCallee(C, Len(C))
    OBVIOUS
  <2> HIDE DEF C, D
  <2> QED BY <1>1, <2>1, CallPopped
<1>3. t = Popped(s)
  BY DEF Popped
<1>4. C[Len(C)].c \in LoopCalls \cup HostCalls
  <2>1. Len(C) \in DOMAIN C
    BY SeqFacts DEF Base, Control
  <2> QED BY <2>1 DEF Base, Control, CallOK, IsCallee
<1> HIDE DEF D
<1>5. /\ IsVM(t) /\ t.calls = D /\ t.heap = s.heap /\ t.frames = s.frames
      /\ t.depth = s.depth /\ t.mode = s.mode /\ t.req = s.req
  BY DEF Base, IsVM
<1> HIDE DEF t
<1> QED BY <1>2, <1>3, <1>4, <1>5 DEF Base, Even, LastCall

LEMMA FitLeft ==
  ASSUME NEW s, Base(s), s.calls # <<>>, NEW h, NEW e, Fit(s.calls, h, e)
  PROVE  Fit(Popped(s).calls, h, e)
<1> DEFINE D == SubSeq(s.calls, 1, Len(s.calls) - 1)
<1>1. /\ DOMAIN s.calls = 1..Len(s.calls) /\ DOMAIN D = 1..(Len(s.calls) - 1)
      /\ \A k \in 1..(Len(s.calls) - 1) : D[k] = s.calls[k]
      /\ Len(s.calls) \in Nat
  <2>1. IsASeq(s.calls) /\ Len(s.calls) \in Nat /\ Len(s.calls) # 0 /\ DOMAIN s.calls = 1..Len(s.calls)
    BY SeqFacts DEF Base, Control
  <2>2. Len(s.calls) - 1 \in 0..Len(s.calls)
    BY <2>1
  <2> QED BY <2>1, <2>2, PrefixFacts
<1>2. Popped(s).calls = D
  BY DEF Popped, Base, IsVM
<1> HIDE DEF D
<1> QED BY <1>1, <1>2 DEF Fit

LEMMA CalleeLeft ==
  ASSUME NEW s, Base(s), s.calls # <<>>, IsCallee(s.calls, Len(s.calls)),
         NEW t, t = CalleeGone(Popped(s), LastCall(s))
  PROVE  /\ Base(t) /\ Waiting(t.calls) /\ t.heap = s.heap /\ t.depth = s.depth
         /\ t.mode = s.mode /\ t.req = s.req /\ t.calls = Popped(s).calls
         /\ Len(t.frames) = LastCall(s).fp /\ LastCall(s).fp \in Nat
         /\ Rank(s.calls, Len(s.calls)) \in Nat
         /\ Rank(t.calls, Len(t.calls)) = Rank(s.calls, Len(s.calls)) - 1
         /\ LastCall(s).depth = LastCall(s).fp - Rank(s.calls, Len(s.calls))
<1> DEFINE C == s.calls
           F == s.frames
           D == SubSeq(C, 1, Len(C) - 1)
           G == SubSeq(F, 1, C[Len(C)].fp)
           L == SubSeq(s.locals, 1, C[Len(C)].locals)
           u == [s EXCEPT !.calls = D]
           v == [u EXCEPT !.frames = G]
           w == [v EXCEPT !.locals = L]
<1>1. Control(F, C) /\ Sharing(F, C, s.heap) /\ D = SubSeq(C, 1, Len(C) - 1)
      /\ G = SubSeq(F, 1, C[Len(C)].fp) /\ C # <<>> /\ IsCallee(C, Len(C))
  BY DEF Base
<1>2. /\ Control(G, D) /\ Sharing(G, D, s.heap) /\ Waiting(D)
      /\ Rank(D, Len(D)) = Rank(C, Len(C)) - 1
      /\ Len(G) = C[Len(C)].fp /\ C[Len(C)].fp \in Nat
      /\ C[Len(C)].depth = C[Len(C)].fp - Rank(C, Len(C)) /\ Rank(C, Len(C)) \in Nat
  <2> HIDE DEF C, D, F, G
  <2> QED BY <1>1, CalleePopped
<1>3. /\ IsVM(u) /\ u.calls = D /\ u.heap = s.heap /\ u.frames = s.frames /\ u.locals = s.locals
      /\ u.depth = s.depth /\ u.mode = s.mode /\ u.req = s.req /\ u = Popped(s)
  <2>1. u = Popped(s)
    BY DEF Popped
  <2> HIDE DEF D
  <2>2. /\ IsVM(u) /\ u.calls = D /\ u.heap = s.heap /\ u.frames = s.frames /\ u.locals = s.locals
        /\ u.depth = s.depth /\ u.mode = s.mode /\ u.req = s.req
    BY DEF Base, IsVM
  <2> QED BY <2>1, <2>2
<1>4. /\ IsVM(v) /\ v.calls = D /\ v.heap = s.heap /\ v.frames = G /\ v.locals = s.locals
      /\ v.depth = s.depth /\ v.mode = s.mode /\ v.req = s.req
  <2> HIDE DEF D, G, u
  <2> QED BY <1>3 DEF IsVM
<1>5. /\ IsVM(w) /\ w.calls = D /\ w.heap = s.heap /\ w.frames = G
      /\ w.depth = s.depth /\ w.mode = s.mode /\ w.req = s.req
  <2> HIDE DEF D, G, L, v
  <2> QED BY <1>4 DEF IsVM
<1>6. t = w
  <2>1. t = CalleeGone(u, C[Len(C)]) /\ u.frames = s.frames /\ u.locals = s.locals
        /\ v.locals = s.locals
    BY <1>3, <1>4 DEF LastCall
  <2> HIDE DEF u
  <2> QED BY <2>1 DEF CalleeGone
<1> HIDE DEF w, D, G
<1> QED BY <1>2, <1>3, <1>5, <1>6 DEF Base, LastCall

-----------------------------------------------------------------------------
(* Capability maps: what is written is fresh, or nobody has put it aside.  *)

\* g holds what h held, as far as it has been put aside.
Unspoilt(C, h, g) ==
  /\ g[1] = h[1]
  /\ \A i \in DOMAIN C : /\ C[i].c \in {"try", "merged"} => Caps(g, C[i].ce) = Caps(h, C[i].ce)
                         /\ C[i].c = "merge" => Caps(g, C[i].cap) = Caps(h, C[i].cap)
\* The heap of r may take the place of h, its environment be used.
Moved(F, C, h, r) ==
  Sharing(F, C, r.h) /\ Fit(C, r.h, r.ce) /\ Unspoilt(C, h, r.h) /\ Len(r.h) >= Len(h)

LEMMA SavedEnvs ==
  ASSUME NEW F, NEW C, NEW h, Sharing(F, C, h), NEW k \in DOMAIN C
  PROVE  /\ C[k].c \in {"try", "merged"} => C[k].ce.m \in 0..Len(h)
         /\ C[k].c = "merge" => C[k].cap.m \in 0..Len(h)
<1>1. SavedOK(C, h, k)
  BY DEF Sharing
<1> QED BY <1>1 DEF SavedOK, CallFit, Owned, IsEnv

LEMMA SameMoved ==
  ASSUME NEW F, NEW C, NEW h, Sharing(F, C, h), NEW e, Fit(C, h, e)
  PROVE  Moved(F, C, h, Same(h, e)) /\ Same(h, e).h = h /\ Same(h, e).ce = e
<1>1. Len(h) \in Nat
  BY SeqFacts DEF Sharing
<1> QED BY <1>1 DEF Moved, Same, Unspoilt

LEMMA EmptyFits ==
  ASSUME NEW F, NEW C, NEW h, Sharing(F, C, h)
  PROVE  Fit(C, h, EmptyCapEnv) /\ EmptyCapEnv.m = 0
<1>1. Len(h) \in Nat
  BY SeqFacts DEF Sharing
<1> QED BY <1>1 DEF Fit, Owned, IsEnv, Spares, EmptyCapEnv

LEMMA FreshMoved ==
  ASSUME NEW F, NEW C, NEW h, Sharing(F, C, h), NEW m
  PROVE  Moved(F, C, h, Fresh(h, m)) /\ Fresh(h, m).ce.m = Len(h) + 1
         /\ Len(Fresh(h, m).h) = Len(h) + 1
<1> DEFINE g == Append(h, m)
           e == [m |-> Len(h) + 1, shared |-> FALSE]
<1>1. Fresh(h, m).h = g /\ Fresh(h, m).ce = e
  BY DEF Fresh
<1>2. Len(h) \in Nat /\ Len(h) # 0 /\ IsASeq(h)
  BY SeqFacts DEF Sharing
<1>3. IsASeq(g) /\ Len(g) = Len(h) + 1 /\ \A i \in 1..Len(h) : g[i] = h[i]
  BY <1>2, AppendFacts
<1> HIDE DEF g
<1>4. Sharing(F, C, g) /\ Len(g) >= Len(h)
  <2>1. Len(g) >= Len(h)
    BY <1>2, <1>3
  <2> QED BY <1>3, <2>1, HeapGrown
<1>5. ASSUME NEW d, d.m \in 0..Len(h) PROVE Caps(g, d) = Caps(h, d)
  BY <1>2, <1>3, <1>5 DEF Caps
<1>6. Unspoilt(C, h, g)
  <2>1. g[1] = h[1]
    BY <1>2, <1>3
  <2> QED BY <2>1, <1>5, SavedEnvs DEF Unspoilt
<1>7. ASSUME NEW k \in DOMAIN C PROVE Spares(C[k], e)
  <2>1. e.m = Len(h) + 1
    OBVIOUS
  <2> HIDE DEF e
  <2> QED BY <1>2, <2>1, SavedEnvs DEF Spares
<1>8. Fit(C, g, e)
  <2>1. e = [m |-> e.m, shared |-> e.shared] /\ e.m = Len(h) + 1 /\ e.shared \in BOOLEAN
    OBVIOUS
  <2> HIDE DEF e
  <2>2. e.m \in 0..Len(g) /\ e.m # 1
    BY <1>2, <1>3, <2>1
  <2>3. Owned(g, e)
    BY <2>1, <2>2 DEF Owned, IsEnv
  <2> QED BY <1>7, <2>3 DEF Fit
<1> QED BY <1>1, <1>3, <1>4, <1>6, <1>8 DEF Moved

LEMMA WriteMoved ==
  ASSUME NEW F, NEW C, NEW h, Sharing(F, C, h), NEW e, Fit(C, h, e), NEW m
  PROVE  Moved(F, C, h, Write(h, e, m))
<1>1. CASE e.m = 0 \/ e.shared
  BY <1>1, FreshMoved DEF Write
<1>2. CASE ~(e.m = 0 \/ e.shared)
  <2> DEFINE g == [h EXCEPT ![e.m] = m]
  <2>1. Write(h, e, m) = Same(g, e)
    BY <1>2 DEF Write
  <2>2. Len(h) \in Nat /\ Len(h) # 0 /\ IsASeq(h) /\ e.m \in 1..Len(h) /\ e.m # 1
    BY <1>2, SeqFacts DEF Sharing, Fit, Owned, IsEnv
  <2>3. /\ IsASeq(g) /\ Len(g) = Len(h)
        /\ \A i \in 1..Len(h) : g[i] = IF i = e.m THEN m ELSE h[i]
    BY <2>2, UpdateFacts
  <2> HIDE DEF g
  <2>4. Sharing(F, C, g) /\ Fit(C, g, e)
    <3>1. Len(g) >= Len(h)
      BY <2>2, <2>3
    <3> QED BY <2>3, <3>1, HeapGrown
  <2>5. ASSUME NEW d, d.m \in 0..Len(h), d.m # e.m PROVE Caps(g, d) = Caps(h, d)
    BY <2>2, <2>3, <2>5 DEF Caps
  <2>6. ASSUME NEW k \in DOMAIN C
        PROVE  /\ C[k].c \in {"try", "merged"} => C[k].ce.m # e.m
               /\ C[k].c = "merge" => C[k].cap.m # e.m
    <3>1. Spares(C[k], e)
      BY DEF Fit
    <3> QED BY <1>2, <3>1 DEF Spares
  <2>7. Unspoilt(C, h, g)
    <3>1. g[1] = h[1]
      BY <2>2, <2>3
    <3> QED BY <2>5, <2>6, <3>1, SavedEnvs DEF Unspoilt
  <2> QED BY <2>1, <2>2, <2>3, <2>4, <2>7 DEF Moved, Same
<1> QED BY <1>1, <1>2

LEMMA HeapsMoved ==
  ASSUME NEW F, NEW C, NEW h, Sharing(F, C, h), NEW e, NEW x, NEW v
  PROVE  /\ Fit(C, h, e) => Moved(F, C, h, Set(h, e, x, v)) /\ Moved(F, C, h, Delete(h, e, x))
         /\ Moved(F, C, h, MergeWith(h, e, v))
         /\ Moved(F, C, h, Filter(h, e, x))
         /\ Filter(h, e, x).ce.m \in {0, Len(h) + 1}
<1>1. Fit(C, h, e) => Moved(F, C, h, Set(h, e, x, v))
  BY WriteMoved DEF Set
<1>2. Fit(C, h, e) => Moved(F, C, h, Delete(h, e, x))
  BY WriteMoved, SameMoved DEF Delete
<1>3. Moved(F, C, h, MergeWith(h, e, v))
  BY FreshMoved, SameMoved, EmptyFits DEF MergeWith
<1>4. Moved(F, C, h, Filter(h, e, x)) /\ Filter(h, e, x).ce.m \in {0, Len(h) + 1}
  BY FreshMoved, SameMoved, EmptyFits DEF Filter
<1> QED BY <1>1, <1>2, <1>3, <1>4

LEMMA HeapTaken ==
  ASSUME NEW s, Base(s), NEW r, Moved(s.frames, s.calls, s.heap, r),
         NEW t, t = [s EXCEPT !.heap = r.h]
  PROVE  /\ Base(t) /\ t.heap = r.h /\ t.calls = s.calls /\ t.frames = s.frames
         /\ t.depth = s.depth /\ t.mode = s.mode
<1>1. /\ IsVM(t) /\ t.heap = r.h /\ t.calls = s.calls /\ t.frames = s.frames
      /\ t.depth = s.depth /\ t.mode = s.mode
  BY DEF Base, IsVM
<1> QED BY <1>1 DEF Base, Moved

-----------------------------------------------------------------------------
(* The actions, one by one.                                                *)

\* What each of them is to show.
Safe(t) == OK(t) /\ Unspoilt(vm.calls, vm.heap, t.heap)

LEMMA PlainOperands ==
  ASSUME NEW s, NEW t, Plain(s, t), NEW x, NEW y
  PROVE  /\ Plain(s, push(t, x)) /\ Plain(s, PopN(t, x)) /\ Plain(s, Clean(t, x))
         /\ Plain(s, Deliver(t, y, x)) /\ Plain(s, Allocate(t, x))
         /\ Plain(s, Alloc(t)) /\ Plain(s, Step(t))
         /\ Plain(s, runtimeError(t)) /\ Plain(s, LimitError(t))
BY AlikeOperands, AlikeCharged, AlikeThrown DEF Plain

LEMMA PlainLocals ==
  ASSUME NEW s, NEW t, Plain(s, t), NEW x, NEW y, NEW z
  PROVE  /\ Plain(s, setLocal(t, x, y, z)) /\ Plain(s, Bound(t, x, y))
         /\ Plain(s, tailCallThunk(t, x)) /\ Plain(s, tailCallClosure(t, x, y))
         /\ Plain(s, TailForced(t, x))
         /\ Plain(s, JumpTo(t, x)) /\ Plain(s, Missed(t))
BY AlikeLocals, AlikeJumped DEF Plain, TailForced

LEMMA PlainAsked ==
  ASSUME NEW s, NEW t, Alike(s, t), NEW x, NEW y, NEW z, NEW w
  PROVE  Plain(s, Applied(t, x, y, z, w)) /\ Plain(s, Ask(t, "run", x))
BY AlikeAsked DEF Plain, Applied

LEMMA SettledSafe ==
  ASSUME NEW s, s.heap = vm.heap, NEW t, Settled(s, t)
  PROVE  Safe(t)
BY DEF Safe, Settled, OK, Unspoilt

LEMMA PlainSafe ==
  ASSUME Steady(vm), NEW t, Plain(vm, t)
  PROVE  Safe(t)
BY PlainSettled, SettledSafe

\* The loop: the frame that runs holds capabilities nobody has put aside.
LEMMA LoopRuns ==
  ASSUME OK(vm), vm.mode \in {"run", "apply"}
  PROVE  /\ Steady(vm) /\ Alike(vm, vm) /\ Plain(vm, vm)
         /\ Fit(vm.calls, vm.heap, currentFrame(vm).cap)
<1>1. Steady(vm)
  BY DEF OK, Runs, Calls, Returns, Fails
<1>2. Alike(vm, vm)
  BY <1>1, AlikeSelf DEF Steady
<1>3. Fit(vm.calls, vm.heap, currentFrame(vm).cap)
  BY <1>1, CurrentFits DEF Steady, Base, currentFrame
<1> QED BY <1>1, <1>2, <1>3 DEF Plain

LEMMA FetchedPlain ==
  ASSUME OK(vm), vm.mode = "run"
  PROVE  Plain(vm, Fetched) /\ Fetched.mode = "run"
<1>1. Alike(vm, vm)
  BY LoopRuns
<1> QED BY <1>1, AlikeFetched DEF Plain

\* Instructions on operands, locals and the position in the code.
Ordinary ==
  \/ OpStep \/ Cancelled \/ OpLoadLocal \/ OpLoadGlobal \/ OpStoreLocal \/ OpPop
  \/ OpConst \/ OpConstUnit \/ OpPrimPartial \/ OpClosure \/ OpFixThunk
  \/ OpApply \/ OpApplyN \/ OpTailRecurseSelf \/ OpReturnForce
  \/ OpCon \/ OpRecord \/ OpRecordProj \/ OpRecordUpdate \/ OpVariant \/ OpMatchCon
  \/ OpMatchLit \/ OpMatchLabel \/ OpMatchRecord \/ OpMatchFail \/ OpJump \/ OpEffectPrim

LEMMA OrdinarySafe ==
  ASSUME OK(vm), Ordinary
  PROVE  Safe(vm')
<1>1. vm.mode = "run"
  BY DEF Ordinary, At, OpStep, Cancelled, OpLoadLocal, OpLoadGlobal, OpStoreLocal, OpPop,
         OpConst, OpConstUnit, OpPrimPartial, OpClosure, OpFixThunk, OpApply, OpApplyN,
         OpTailRecurseSelf, OpReturnForce, OpCon, OpRecord, OpRecordProj, OpRecordUpdate,
         OpVariant, OpMatchCon, OpMatchLit, OpMatchLabel, OpMatchRecord, OpMatchFail,
         OpJump, OpEffectPrim
<1>2. Plain(vm, Fetched) /\ Plain(vm, vm)
  BY <1>1, LoopRuns, FetchedPlain
<1> SUFFICES Plain(vm, vm')
  BY <1>1, LoopRuns, PlainSafe
<1>3. CASE OpStep
  BY <1>2, <1>3, PlainOperands DEF OpStep, Do
<1>4. CASE Cancelled
  BY <1>2, <1>4, PlainOperands DEF Cancelled, Do
<1>5. CASE OpLoadLocal
  BY <1>2, <1>5, PlainOperands DEF OpLoadLocal, Do
<1>6. CASE OpLoadGlobal
  BY <1>2, <1>6, PlainOperands DEF OpLoadGlobal, Do
<1>7. CASE OpStoreLocal
  BY <1>2, <1>7, PlainOperands, PlainLocals DEF OpStoreLocal, Do
<1>8. CASE OpPop
  BY <1>2, <1>8, PlainOperands DEF OpPop, Do
<1>9. CASE OpConst
  BY <1>2, <1>9, PlainOperands DEF OpConst, Do
<1>10. CASE OpConstUnit
  BY <1>2, <1>10, PlainOperands DEF OpConstUnit, Do
<1>11. CASE OpPrimPartial
  BY <1>2, <1>11, PlainOperands DEF OpPrimPartial, Do
<1>12. CASE OpClosure
  BY <1>2, <1>12, PlainOperands DEF OpClosure, Do
<1>13. CASE OpFixThunk
  BY <1>2, <1>13, PlainOperands DEF OpFixThunk, Do
<1>14. CASE OpApply
  <2>1. Plain(vm, PopN(Fetched, 2))
    BY <1>2, PlainOperands
  <2> QED BY <1>14, <2>1, PlainAsked DEF OpApply, Do, Plain
<1>15. CASE OpApplyN
  BY <1>2, <1>15, PlainAsked DEF OpApplyN, Do, Plain
<1>16. CASE OpTailRecurseSelf
  <2> DEFINE t == PopN(Fetched, Instr.a)
  <2>1. Alike(vm, t) /\ t.mode \in {"run", "apply", "err"}
    BY <1>2, PlainOperands DEF Plain
  <2> HIDE DEF t
  <2>2. ASSUME NEW ls, NEW p PROVE Plain(vm, Restart([t EXCEPT !.locals = ls], p))
    <3> DEFINE u == [t EXCEPT !.locals = ls]
    <3>1. Alike(vm, u) /\ u.mode = t.mode
      BY <2>1, AlikeFields
    <3> HIDE DEF u
    <3>2. Plain(vm, Restart(u, p))
      BY <2>1, <3>1, AlikeJumped DEF Plain
    <3> QED BY <3>2 DEF u
  <2> QED BY <1>16, <2>2 DEF OpTailRecurseSelf, Do, t
<1>17. CASE OpReturnForce
  <2>1. Plain(vm, PopN(vm, 1))
    BY <1>2, PlainOperands
  <2>2. Plain(vm, PopN(Fetched, 1))
    BY <1>2, PlainOperands
  <2>3. Plain(vm, Step(PopN(Fetched, 1)))
    BY <2>2, PlainOperands
  <2> QED BY <1>17, <2>3, PlainLocals DEF OpReturnForce, Do
<1>18. CASE OpCon
  BY <1>2, <1>18, PlainOperands DEF OpCon, Do
<1>19. CASE OpRecord
  BY <1>2, <1>19, PlainOperands DEF OpRecord, Do
<1>20. CASE OpRecordProj
  BY <1>2, <1>20, PlainOperands DEF OpRecordProj, Do, Projected
<1>21. CASE OpRecordUpdate
  <2> DEFINE t == Alloc(PopN(Fetched, Len(Instr.a) + 1))
  <2>1. Plain(vm, PopN(Fetched, Len(Instr.a) + 1))
    BY <1>2, PlainOperands
  <2>2. Plain(vm, t)
    BY <2>1, PlainOperands
  <2> HIDE DEF t
  <2>3. ASSUME NEW r, NEW fs PROVE Plain(vm, Updated(t, r, fs))
    BY <2>2, PlainOperands DEF Updated
  <2> QED BY <1>21, <2>3 DEF OpRecordUpdate, Do, t
<1>22. CASE OpVariant
  BY <1>2, <1>22, PlainOperands DEF OpVariant, Do
<1>23. CASE OpMatchCon
  <2>1. Plain(vm, PopN(Fetched, 1))
    BY <1>2, PlainOperands
  <2> QED BY <1>2, <1>23, <2>1, PlainLocals DEF OpMatchCon, Do
<1>24. CASE OpMatchLit
  BY <1>2, <1>24, PlainOperands, PlainLocals DEF OpMatchLit, Do
<1>25. CASE OpMatchLabel
  BY <1>2, <1>25, PlainOperands, PlainLocals DEF OpMatchLabel, Do
<1>26. CASE OpMatchRecord
  <2> DEFINE t == Alloc(PopN(Fetched, 1))
  <2>1. Plain(vm, PopN(Fetched, 1))
    BY <1>2, PlainOperands
  <2>2. Plain(vm, t)
    BY <2>1, PlainOperands
  <2> HIDE DEF t
  <2>3. ASSUME NEW r, NEW ls, NEW ss PROVE Plain(vm, MatchedRecord(t, r, ls, ss))
    BY <2>2, PlainLocals DEF MatchedRecord
  <2> QED BY <1>2, <1>26, <2>3, PlainLocals DEF OpMatchRecord, Do, t
<1>27. CASE OpMatchFail
  BY <1>2, <1>27, PlainOperands DEF OpMatchFail, Do
<1>28. CASE OpJump
  BY <1>2, <1>28, PlainLocals DEF OpJump, Do
<1>29. CASE OpEffectPrim
  BY <1>2, <1>29, PlainOperands DEF OpEffectPrim, Do
<1> QED BY <1>3, <1>4, <1>5, <1>6, <1>7, <1>8, <1>9, <1>10, <1>11, <1>12, <1>13, <1>14, <1>15,
           <1>16, <1>17, <1>18, <1>19, <1>20, <1>21, <1>22, <1>23, <1>24, <1>25, <1>26, <1>27,
           <1>28, <1>29 DEF Ordinary

-----------------------------------------------------------------------------
(* Calls of closures and thunks; waiting for a primitive or a computation. *)

LEMMA StillSteady ==
  ASSUME NEW s, Steady(s), NEW t, Alike(s, t)
  PROVE  Steady(t) /\ t.calls = s.calls /\ t.heap = s.heap
<1>1. Base(t) /\ Len(t.frames) = Len(s.frames) /\ t.calls = s.calls /\ t.heap = s.heap
  BY SameShape DEF Steady
<1> QED BY <1>1 DEF Steady, Even, Alike

LEMMA StillPending ==
  ASSUME NEW s, Pending(s), NEW t, Alike(s, t)
  PROVE  Pending(t) /\ t.calls = s.calls /\ t.heap = s.heap
<1>1. Base(t) /\ Len(t.frames) = Len(s.frames) /\ t.calls = s.calls /\ t.heap = s.heap
  BY SameShape DEF Pending
<1> QED BY <1>1 DEF Pending, Even, Alike

LEMMA SharedFits ==
  ASSUME NEW C, NEW h, NEW e, Fit(C, h, e)
  PROVE  Fit(C, h, MarkShared(e)) /\ MarkShared(e).shared /\ MarkShared(e).m = e.m
<1> DEFINE d == MarkShared(e)
<1>1. d = [m |-> d.m, shared |-> d.shared] /\ d.m = e.m /\ d.shared /\ d.shared \in BOOLEAN
  <2> DEFINE E == [m : 0..Len(h), shared : BOOLEAN]
  <2>1. e \in E
    BY DEF Fit, Owned, IsEnv
  <2>2. d \in E /\ d.m = e.m /\ d.shared = TRUE
    BY <2>1 DEF MarkShared
  <2> HIDE DEF d
  <2> QED BY <2>2
<1> HIDE DEF d
<1>2. Owned(h, d)
  BY <1>1 DEF Fit, Owned, IsEnv
<1>3. \A j \in DOMAIN C : Spares(C[j], d)
  BY <1>1 DEF Fit, Spares
<1> QED BY <1>1, <1>2, <1>3 DEF Fit, d

LEMMA AskedCalls ==
  ASSUME NEW s, Pending(s), NEW ce, Fit(s.calls, s.heap, ce), NEW x, NEW y
  PROVE  /\ OK(Forcing(s, x, ce)) /\ Forcing(s, x, ce).heap = s.heap
         /\ OK(Host(s, x, y, ce)) /\ Host(s, x, y, ce).heap = s.heap
         /\ (PrimSig[x].eff => ce.shared) => OK(Calling(s, x, y, ce))
         /\ Calling(s, x, y, ce).heap = s.heap
<1>1. Alike(s, s)
  BY AlikeSelf DEF Pending
<1>2. ASSUME NEW t, Alike(s, t), t.mode \in {"host", "prim", "force"}, t.req.ce = ce,
             t.mode = "prim" /\ PrimSig[t.req.p].eff => ce.shared
      PROVE  OK(t)
  <2>1. Pending(t) /\ t.calls = s.calls /\ t.heap = s.heap
    BY <1>2, StillPending
  <2> QED BY <1>2, <2>1 DEF OK, Calls
<1>3. OK(Forcing(s, x, ce)) /\ Forcing(s, x, ce).heap = s.heap
  <2> DEFINE t == Forcing(s, x, ce)
  <2>1. Alike(s, t) /\ t.mode = "force" /\ t.req.ce = ce
    BY <1>1, AlikeAsked DEF Forcing
  <2> HIDE DEF t
  <2>2. OK(t) /\ t.heap = s.heap
    BY <1>2, <2>1 DEF Alike
  <2> QED BY <2>2 DEF t
<1>4. OK(Host(s, x, y, ce)) /\ Host(s, x, y, ce).heap = s.heap
  <2> DEFINE t == Host(s, x, y, ce)
  <2>1. Alike(s, t) /\ t.mode = "host" /\ t.req.ce = ce
    BY <1>1, AlikeAsked DEF Host
  <2> HIDE DEF t
  <2>2. OK(t) /\ t.heap = s.heap
    BY <1>2, <2>1 DEF Alike
  <2> QED BY <2>2 DEF t
<1>5. /\ (PrimSig[x].eff => ce.shared) => OK(Calling(s, x, y, ce))
      /\ Calling(s, x, y, ce).heap = s.heap
  <2> DEFINE t == Calling(s, x, y, ce)
  <2>1. Alike(s, t) /\ t.mode = "prim" /\ t.req.ce = ce /\ t.req.p = x
    BY <1>1, AlikeAsked DEF Calling
  <2> HIDE DEF t
  <2>2. t.heap = s.heap /\ ((PrimSig[x].eff => ce.shared) => OK(t))
    BY <1>2, <2>1 DEF Alike
  <2> QED BY <2>2 DEF t
<1> QED BY <1>3, <1>4, <1>5

LEMMA AskedReturns ==
  ASSUME NEW s, Pending(s), NEW ce, Fit(s.calls, s.heap, ce), NEW v
  PROVE  OK(ReturnTo(s, v, ce)) /\ ReturnTo(s, v, ce).heap = s.heap
<1> DEFINE t == ReturnTo(s, v, ce)
<1>1. Alike(s, t) /\ t.mode = "ret" /\ t.req.ce = ce
  BY AlikeSelf, AlikeAsked DEF Pending, ReturnTo
<1> HIDE DEF t
<1>2. Pending(t) /\ t.calls = s.calls /\ t.heap = s.heap
  BY <1>1, StillPending
<1>3. Returns(t)
  BY <1>1, <1>2 DEF Returns, Pending, Waiting
<1> QED BY <1>2, <1>3 DEF OK, t

LEMMA Forced ==
  ASSUME NEW s, Steady(s), s.mode = "run", NEW v, NEW tail
  PROVE  Settled(s, force(s, v, tail))
<1>1. Plain(s, s)
  BY AlikeSelf DEF Plain, Steady
<1>2. Plain(s, tailCallThunk(s, v)) /\ Plain(s, runtimeError(s))
  BY <1>1, PlainLocals, PlainOperands
<1>3. Settled(s, callClosure(s, v, <<>>))
  BY ClosureCalled
<1> QED BY <1>2, <1>3, PlainSettled DEF force

LEMMA ClosureEntered ==
  ASSUME NEW s, Steady(s), s.mode = "run", NEW f, NEW args, NEW tail
  PROVE  Settled(s, enterClosureMulti(s, f, args, tail))
<1>1. Plain(s, s)
  BY AlikeSelf DEF Plain, Steady
<1>2. Plain(s, tailCallClosure(s, f, args))
  BY <1>1, PlainLocals
<1>3. Settled(s, callClosure(s, f, args))
  BY ClosureCalled
<1> QED BY <1>2, <1>3, PlainSettled DEF enterClosureMulti

LEMMA CleanSettled ==
  ASSUME NEW s, NEW t, Settled(s, t), NEW at
  PROVE  Settled(s, Clean(t, at))
<1>1. CASE Fails(t)
  BY <1>1 DEF Fails, Clean, Refused
<1>2. CASE Runs(t)
  <2>1. Plain(t, t)
    BY <1>2, AlikeSelf DEF Plain, Runs, Steady
  <2>2. Settled(t, Clean(t, at))
    BY <1>2, <2>1, PlainOperands, PlainSettled DEF Runs
  <2> QED BY <2>2 DEF Settled
<1> QED BY <1>1, <1>2 DEF Settled

LEMMA FrameOpsSafe ==
  ASSUME OK(vm), OpThunk \/ OpRecurseSelf \/ OpForce
  PROVE  Safe(vm')
<1>1. vm.mode = "run"
  BY DEF OpThunk, OpRecurseSelf, OpForce, At
<1> DEFINE ce == currentFrame(vm).cap
<1>2. Plain(vm, Fetched) /\ Fetched.mode = "run" /\ Steady(vm) /\ Fit(vm.calls, vm.heap, ce)
  BY <1>1, LoopRuns, FetchedPlain
<1> HIDE DEF ce
<1>3. ASSUME NEW n
      PROVE  /\ Steady(PopN(Fetched, n)) /\ PopN(Fetched, n).mode = "run"
             /\ PopN(Fetched, n).heap = vm.heap /\ PopN(Fetched, n).calls = vm.calls
  BY <1>2, AlikeOperands, StillSteady DEF Plain
<1>4. CASE OpThunk
  <2> DEFINE u == WithCap(Fetched, MarkShared(ce))
  <2>1. Steady(Fetched) /\ Fetched.heap = vm.heap /\ Fetched.calls = vm.calls
    BY <1>2, StillSteady DEF Plain
  <2>2. Steady(u) /\ u.heap = vm.heap /\ u.mode = "run"
    <3>1. Fit(Fetched.calls, Fetched.heap, MarkShared(ce))
      BY <1>2, <2>1, SharedFits
    <3>2. CapsGiven(Fetched, u)
      BY <2>1, <3>1, CapWritten DEF Steady
    <3> HIDE DEF u
    <3> QED BY <1>2, <2>1, <3>2 DEF Steady, CapsGiven
  <2> HIDE DEF u
  <2>3. ASSUME NEW v PROVE Settled(u, Allocate(u, v))
    <3>1. Plain(u, u)
      BY <2>2, AlikeSelf DEF Plain, Steady
    <3> QED BY <2>2, <3>1, PlainOperands, PlainSettled
  <2> QED BY <1>4, <2>2, <2>3, SettledSafe DEF OpThunk, Do, u, ce
<1>5. CASE OpRecurseSelf
  <2> DEFINE s == PopN(Fetched, Instr.a)
  <2>1. Steady(s) /\ s.mode = "run" /\ s.heap = vm.heap /\ s.calls = vm.calls
    BY <1>3
  <2> HIDE DEF s
  <2>2. ASSUME NEW p, NEW slots PROVE Settled(s, Recursed(Enter(s), p, slots, ce))
    BY <1>2, <2>1, SelfRecursed
  <2> QED BY <1>5, <2>1, <2>2, SettledSafe DEF OpRecurseSelf, Do, s, ce
<1>6. CASE OpForce
  <2> DEFINE s == PopN(Fetched, 1)
  <2>1. Steady(s) /\ s.mode = "run" /\ s.heap = vm.heap
    BY <1>3
  <2> HIDE DEF s
  <2> QED BY <1>6, <2>1, Forced, SettledSafe DEF OpForce, Do, s
<1> QED BY <1>4, <1>5, <1>6

LEMMA LoopAwaited ==
  ASSUME NEW s, Steady(s), NEW c,
         c.c \in {"push", "bind", "prim", "thunkN"} \/ c = [c |-> "over", at |-> c.at, extras |-> c.extras]
  PROVE  /\ Pending(Await(s, c)) /\ Await(s, c).heap = s.heap
         /\ \A e : Fit(s.calls, s.heap, e) => Fit(Await(s, c).calls, s.heap, e)
<1>1. c.c \in LoopCalls /\ Looping(s.calls)
  <2>1. c.c \in {"push", "bind", "prim", "thunkN", "over"}
    OBVIOUS
  <2> QED BY <2>1 DEF LoopCalls, Steady
<1>2. c.c \in Plainly \/ c = [c |-> "over", at |-> c.at, extras |-> c.extras]
  BY DEF Plainly
<1> QED BY <1>1, <1>2, AwaitedPlainly DEF Steady

\* The same for what a waiting loop then asks for.
LEMMA WaitCalls ==
  ASSUME NEW s, Steady(s), s.heap = vm.heap, NEW c,
         c.c \in {"push", "bind", "prim", "thunkN"} \/ c = [c |-> "over", at |-> c.at, extras |-> c.extras],
         NEW ce, Fit(s.calls, s.heap, ce)
  PROVE  /\ \A v : Safe(Forcing(Await(s, c), v, ce))
         /\ \A p, args : ~PrimSig[p].eff => Safe(Calling(Await(s, c), p, args, ce))
         /\ \A v : Safe(ReturnTo(Await(s, c), v, ce))
         /\ \A f, args : Safe(runCallee(Await(s, c), ce, f, args))
<1> DEFINE u == Await(s, c)
<1>1. Pending(u) /\ u.heap = vm.heap /\ Fit(u.calls, u.heap, ce)
  BY LoopAwaited
<1> HIDE DEF u
<1>2. ASSUME NEW v PROVE Safe(Forcing(u, v, ce))
  BY <1>1, AskedCalls, ZenonT(60) DEF Safe, Unspoilt
<1>3. ASSUME NEW p, NEW args, ~PrimSig[p].eff PROVE Safe(Calling(u, p, args, ce))
  BY <1>1, <1>3, AskedCalls DEF Safe, Unspoilt
<1>4. ASSUME NEW v PROVE Safe(ReturnTo(u, v, ce))
  BY <1>1, AskedReturns DEF Safe, Unspoilt
<1>5. ASSUME NEW f, NEW args PROVE Safe(runCallee(u, ce, f, args))
  BY <1>1, CalleeRuns, SettledSafe
<1> QED BY <1>2, <1>3, <1>4, <1>5 DEF u

LEMMA WaitOpsSafe ==
  ASSUME OK(vm), prog \in Programs, OpForceEffectful \/ OpBind \/ OpPrim
  PROVE  Safe(vm')
<1>1. vm.mode = "run"
  BY DEF OpForceEffectful, OpBind, OpPrim, At
<1> DEFINE ce == currentFrame(vm).cap
<1>2. Plain(vm, Fetched) /\ Fetched.mode = "run" /\ Steady(vm) /\ Fit(vm.calls, vm.heap, ce)
  BY <1>1, LoopRuns, FetchedPlain
<1> HIDE DEF ce
<1>3. /\ Steady(PopN(Fetched, 1)) /\ PopN(Fetched, 1).heap = vm.heap
      /\ PopN(Fetched, 1).calls = vm.calls
  BY <1>2, AlikeOperands, StillSteady DEF Plain
<1>4. Steady(Fetched) /\ Fetched.heap = vm.heap /\ Fetched.calls = vm.calls
  BY <1>2, StillSteady DEF Plain
<1>5. CASE OpForceEffectful
  <2> DEFINE c == [c |-> "push", ptr |-> FramePtr(vm), at |-> Len(vm.stack) - 1]
  <2>1. c.c = "push" /\ vm' = Forcing(Await(PopN(Fetched, 1), c), Top(vm), ce)
    BY <1>5 DEF OpForceEffectful, Do, ce
  <2> HIDE DEF c
  <2> QED BY <1>2, <1>3, <2>1, WaitCalls
<1>6. CASE OpBind
  <2> DEFINE c == [c |-> "bind", ptr |-> FramePtr(vm), bp |-> currentFrame(vm).bp, slot |-> Instr.a]
  <2>1. c.c = "bind" /\ vm' = Forcing(Await(PopN(Fetched, 1), c), Top(vm), ce)
    BY <1>6 DEF OpBind, Do, ce
  <2> HIDE DEF c
  <2> QED BY <1>2, <1>3, <2>1, WaitCalls
<1>7. CASE OpPrim
  <2> DEFINE c == [c |-> "prim", ptr |-> FramePtr(vm), at |-> Len(vm.stack) - Instr.b]
  <2>1. c.c = "prim" /\ vm' = Calling(Await(Fetched, c), Instr.a, TopN(vm, Instr.b), ce)
    BY <1>7 DEF OpPrim, Do, ce
  <2>2. ~PrimSig[Instr.a].eff
    BY <1>7, BytecodeAssumption DEF OpPrim, At, Instr, Code
  <2> HIDE DEF c
  <2> QED BY <1>2, <1>4, <2>1, <2>2, WaitCalls
<1> QED BY <1>5, <1>6, <1>7

LEMMA ApplySafe ==
  ASSUME OK(vm), Apply
  PROVE  Safe(vm')
<1>1. vm.mode = "apply"
  BY DEF Apply, Applying, ApplyEnter, ApplyPartial, ApplyOver, ApplyCon, ApplyPrimPartial,
         ApplyPrim, ApplyPrimOver, ApplyThunk, ApplyThunkN, ApplyOther
<1> DEFINE ce == currentFrame(vm).cap
<1>2. Plain(vm, vm) /\ Steady(vm) /\ Fit(vm.calls, vm.heap, ce)
  BY <1>1, LoopRuns
<1> HIDE DEF ce
<1>3. Plain(vm, ToRun) /\ Steady(ToRun) /\ ToRun.heap = vm.heap /\ ToRun.mode = "run"
  <2>1. Alike(vm, ToRun) /\ ToRun.mode = "run"
    BY <1>2, AlikeAsked DEF Plain, ToRun
  <2> QED BY <1>2, <2>1, StillSteady DEF Plain
<1>4. CASE ApplyEnter
  BY <1>3, <1>4, ClosureEntered, CleanSettled, SettledSafe DEF ApplyEnter, Do
<1>5. CASE ApplyPartial
  <2>1. Plain(vm, Alloc(ToRun))
    BY <1>3, PlainOperands
  <2> QED BY <1>2, <1>3, <1>5, <2>1, PlainOperands, PlainSafe DEF ApplyPartial, Do
<1>6. CASE ApplyOver
  <2> DEFINE c == [c |-> "over", at |-> vm.req.at, extras |-> Extras(vm.req.f, vm.req.args)]
  <2>1. /\ c = [c |-> "over", at |-> c.at, extras |-> c.extras]
        /\ vm' = runCallee(Await(vm, c), ce, Fun(vm.req.f), Enough(vm.req.f, vm.req.args))
    BY <1>6 DEF ApplyOver, Do, ce
  <2> HIDE DEF c
  <2> QED BY <1>2, <2>1, WaitCalls
<1>7. CASE ApplyCon
  <2>1. Plain(vm, Alloc(ToRun))
    BY <1>3, PlainOperands
  <2> QED BY <1>2, <1>7, <2>1, PlainOperands, PlainSafe DEF ApplyCon, Do
<1>8. CASE ApplyPrimPartial
  BY <1>2, <1>3, <1>8, PlainOperands, PlainSafe DEF ApplyPrimPartial, Do
<1>9. CASE ApplyPrim
  <2> DEFINE c == [c |-> "push", ptr |-> FramePtr(vm), at |-> vm.req.at]
  <2>1. /\ c.c = "push" /\ ~PrimSig[vm.req.f.p].eff
        /\ vm' = Calling(Await(vm, c), vm.req.f.p, vm.req.f.args \o vm.req.args, ce)
    BY <1>9 DEF ApplyPrim, Do, ce
  <2> HIDE DEF c
  <2> QED BY <1>2, <2>1, WaitCalls
<1>10. CASE ApplyPrimOver
  <2> DEFINE c == [c |-> "over", at |-> vm.req.at, extras |-> PrimExtras(vm.req.f, vm.req.args)]
             args == PrimEnough(vm.req.f, vm.req.args)
  <2>1. /\ c = [c |-> "over", at |-> c.at, extras |-> c.extras]
        /\ vm' = IF PrimSig[vm.req.f.p].eff THEN ReturnTo(Await(vm, c), PrimVal(vm.req.f.p, args), ce)
                 ELSE Calling(Await(vm, c), vm.req.f.p, args, ce)
    BY <1>10 DEF ApplyPrimOver, Overflowing, Do, ce
  <2> HIDE DEF c, args
  <2> QED BY <1>2, <2>1, WaitCalls
<1>11. CASE ApplyThunk
  BY <1>3, <1>11, Forced, SettledSafe DEF ApplyThunk, Do
<1>12. CASE ApplyThunkN
  <2> DEFINE c == [c |-> "thunkN", args |-> vm.req.args, at |-> vm.req.at, tail |-> vm.req.tail]
  <2>1. c.c = "thunkN" /\ vm' = runCallee(Await(vm, c), ce, vm.req.f, <<>>)
    BY <1>12 DEF ApplyThunkN, Do, ce
  <2> HIDE DEF c
  <2> QED BY <1>2, <2>1, WaitCalls
<1>13. CASE ApplyOther
  BY <1>2, <1>13, PlainOperands, PlainSafe DEF ApplyOther, Do
<1> QED BY <1>4, <1>5, <1>6, <1>7, <1>8, <1>9, <1>10, <1>11, <1>12, <1>13 DEF Apply

-----------------------------------------------------------------------------
(* Returns of frames, the two sides of a merge.                            *)

\* The topmost barrier is that of the last runCallee.
LEMMA BarrierLast ==
  ASSUME NEW F, NEW C, Control(F, C), Looping(C), NEW n \in DOMAIN F, F[n].barrier,
         \A i \in DOMAIN F : i > n => ~F[i].barrier
  PROVE  C # <<>> /\ IsCallee(C, Len(C)) /\ C[Len(C)].fp + 1 = n
<1>1. /\ Len(F) \in Nat /\ DOMAIN F = 1..Len(F)
      /\ Len(C) \in Nat /\ DOMAIN C = 1..Len(C) /\ (C = <<>> <=> Len(C) = 0)
  BY SeqFacts DEF Control
<1>2. PICK k \in DOMAIN C : IsCallee(C, k) /\ C[k].fp + 1 = n
  BY DEF Control
<1>3. C # <<>> /\ IsCallee(C, Len(C)) /\ Len(C) \in DOMAIN C
  BY <1>1, <1>2 DEF Looping
<1> DEFINE m == C[Len(C)].fp
<1>4. m \in Nat /\ m + 1 \in DOMAIN F /\ F[m + 1].barrier
  <2>1. m \in Nat /\ m + 1 <= Len(F)
    BY <1>3 DEF Control, CalleeOK
  <2>2. m + 1 \in DOMAIN F
    BY <1>1, <2>1
  <2> QED BY <1>3, <2>1, <2>2 DEF Control
<1>5. CASE k = Len(C)
  BY <1>2, <1>3, <1>5
<1>6. CASE k # Len(C)
  <2>1. k < Len(C)
    BY <1>1, <1>6
  <2>2. C[k].fp < m /\ C[k].fp \in Nat
    BY <1>2, <1>3, <2>1 DEF Control, CalleeOK
  <2>3. m + 1 > n
    BY <1>2, <1>4, <2>2
  <2> QED BY <1>4, <2>3
<1> QED BY <1>5, <1>6

LEMMA FrameLeft ==
  ASSUME NEW s, Steady(s), Len(s.frames) > 1, ~s.frames[Len(s.frames)].barrier,
         NEW t, t = popFrame(s)
  PROVE  /\ Steady(t) /\ t.calls = s.calls /\ t.heap = s.heap /\ t.mode = s.mode
         /\ Len(t.frames) = Len(s.frames) - 1
<1> DEFINE F == s.frames
           C == s.calls
           G == SubSeq(F, 1, Len(F) - 1)
           L == SubSeq(s.locals, 1, currentFrame(s).bp)
           u == [s EXCEPT !.frames = G]
           v == [u EXCEPT !.locals = L]
<1>1. Control(G, C) /\ Sharing(G, C, s.heap) /\ Len(G) = Len(F) - 1
  BY FramePopped DEF Steady, Base
<1>2. s.depth \in Nat /\ s.depth > 0 /\ s.depth - 1 = Len(G) - Rank(C, Len(C)) - 1
  <2>1. Rank(C, Len(C)) \in Nat /\ Len(G) \in Nat /\ Rank(C, Len(C)) <= Len(G) - 1
    BY <1>1, RankBound
  <2>2. s.depth \in Nat /\ Len(F) \in Nat /\ s.depth = Len(F) - Rank(C, Len(C)) - 1
    BY EvenDepth DEF Steady, Even
  <2> QED BY <1>1, <2>1, <2>2
<1>3. /\ IsVM(v) /\ v.frames = G /\ v.calls = C /\ v.heap = s.heap /\ v.mode = s.mode
      /\ v.depth = s.depth
  <2>1. /\ IsVM(u) /\ u.frames = G /\ u.calls = C /\ u.heap = s.heap /\ u.mode = s.mode
        /\ u.depth = s.depth
    <3> HIDE DEF G
    <3> QED BY DEF Steady, Base, IsVM
  <2> HIDE DEF u, L
  <2> QED BY <2>1 DEF IsVM
<1>4. t = Leave(v)
  <2>1. u.locals = s.locals
    BY DEF Steady, Base, IsVM
  <2> QED BY <2>1 DEF popFrame
<1> HIDE DEF v, G
<1>5. /\ IsVM(t) /\ t.frames = G /\ t.calls = C /\ t.heap = s.heap /\ t.mode = s.mode
      /\ t.depth = s.depth - 1
  BY <1>2, <1>3, <1>4 DEF Leave, IsVM
<1>6. Even(t)
  BY <1>2, <1>5 DEF Even
<1> QED BY <1>1, <1>5, <1>6 DEF Steady, Base

\* The result of a callee whose barrier is on top.
LEMMA CalleeReturned ==
  ASSUME NEW s, Steady(s), s.calls # <<>>, IsCallee(s.calls, Len(s.calls)),
         Len(s.frames) = s.calls[Len(s.calls)].fp + 1,
         NEW ce, Fit(s.calls, s.heap, ce), NEW v
  PROVE  OK(ReturnTo(s, v, ce)) /\ ReturnTo(s, v, ce).heap = s.heap
<1> DEFINE t == ReturnTo(s, v, ce)
<1>1. Alike(s, t) /\ t.mode = "ret" /\ t.req.ce = ce
  BY AlikeSelf, AlikeAsked DEF Steady, ReturnTo
<1> HIDE DEF t
<1>2. Steady(t) /\ t.calls = s.calls /\ t.heap = s.heap /\ Len(t.frames) = Len(s.frames)
  BY <1>1, StillSteady DEF Alike, SameFrames
<1>3. Returns(t)
  BY <1>1, <1>2 DEF Returns, Steady
<1> QED BY <1>2, <1>3 DEF OK, t

LEMMA ReturnSafe ==
  ASSUME OK(vm), OpReturn \/ ReturnToBarrier
  PROVE  Safe(vm')
<1> DEFINE ce == currentFrame(vm).cap
           s == PopN(vm, 1)
           t == popFrame(s)
<1>1. vm.mode = "run" /\ ~vm.frames[Len(vm.frames)].barrier /\ Len(vm.frames) > 1
  BY DEF OpReturn, ReturnToBarrier, Returning, At, currentFrame
<1>2. Steady(vm) /\ Fit(vm.calls, vm.heap, ce) /\ Alike(vm, vm)
  BY <1>1, LoopRuns
<1> HIDE DEF ce
<1>3. /\ Steady(s) /\ s.calls = vm.calls /\ s.heap = vm.heap /\ s.mode = "run"
      /\ Len(s.frames) = Len(vm.frames) /\ ~s.frames[Len(s.frames)].barrier
  <2>1. Alike(vm, s) /\ s.mode = "run"
    BY <1>1, <1>2, AlikeOperands
  <2>2. Len(vm.frames) \in 1..Len(vm.frames)
    <3>1. Len(vm.frames) \in Nat
      BY <1>2, SeqFacts DEF Steady, Base, Control
    <3> QED BY <1>1, <3>1
  <2> HIDE DEF s
  <2> QED BY <1>1, <1>2, <2>1, <2>2, StillSteady DEF Alike, SameFrames
<1> HIDE DEF s
<1>4. /\ Steady(t) /\ t.calls = vm.calls /\ t.heap = vm.heap /\ t.mode = "run"
      /\ Len(t.frames) = Len(vm.frames) - 1
  <2> HIDE DEF t
  <2>1. t = popFrame(s)
    BY DEF t
  <2> QED BY <1>1, <1>3, <2>1, FrameLeft
<1> HIDE DEF t
<1>5. CASE OpReturn
  <2> DEFINE u == WithCap(t, ce)
  <2>1. CapsGiven(t, u)
    BY <1>2, <1>4, CapWritten DEF Steady
  <2>2. vm' = push(u, Top(vm))
    BY <1>5 DEF OpReturn, Do, ce, s, t
  <2> HIDE DEF u
  <2>3. Steady(u) /\ u.heap = vm.heap /\ u.mode = "run"
    BY <1>4, <2>1 DEF Steady, CapsGiven
  <2>4. Plain(u, u)
    BY <2>3, AlikeSelf DEF Plain, Steady
  <2>5. Settled(u, vm')
    BY <2>2, <2>3, <2>4, PlainOperands, PlainSettled
  <2> QED BY <2>3, <2>5, SettledSafe
<1>6. CASE ReturnToBarrier
  <2> DEFINE F == vm.frames
             C == vm.calls
             n == Len(F) - 1
  <2>1. Len(F) \in Nat /\ DOMAIN F = 1..Len(F) /\ Control(F, C) /\ Looping(C)
    BY <1>2, SeqFacts DEF Steady, Base, Control
  <2>2. n \in DOMAIN F /\ F[n].barrier /\ \A i \in DOMAIN F : i > n => ~F[i].barrier
    BY <1>1, <1>6, <2>1 DEF ReturnToBarrier, Caller
  <2>3. C # <<>> /\ IsCallee(C, Len(C)) /\ C[Len(C)].fp + 1 = n
    <3> HIDE DEF n, F, C
    <3> QED BY <2>1, <2>2, BarrierLast
  <2>4. vm' = ReturnTo(t, Top(vm), ce)
    BY <1>6 DEF ReturnToBarrier, Do, ce, s, t
  <2>5. OK(vm') /\ vm'.heap = t.heap
    BY <1>2, <1>4, <2>3, <2>4, CalleeReturned
  <2> QED BY <1>4, <2>5 DEF Safe, Unspoilt
<1> QED BY <1>5, <1>6

LEMMA BarrierValueSafe ==
  ASSUME OK(vm), BarrierValue
  PROVE  Safe(vm')
<1> DEFINE ce == currentFrame(vm).cap
           s == PopN(vm, 1)
           F == vm.frames
           C == vm.calls
           n == Len(F)
<1>1. vm.mode = "run" /\ F[n].barrier /\ vm' = ReturnTo(s, Top(vm), ce)
  BY DEF BarrierValue, Do, currentFrame
<1>2. Steady(vm) /\ Fit(vm.calls, vm.heap, ce) /\ Alike(vm, vm)
  BY <1>1, LoopRuns
<1> HIDE DEF ce
<1>3. Steady(s) /\ s.calls = vm.calls /\ s.heap = vm.heap /\ Len(s.frames) = n
  <2>1. Alike(vm, s)
    BY <1>2, AlikeOperands
  <2> HIDE DEF s
  <2> QED BY <1>2, <2>1, StillSteady DEF Alike, SameFrames
<1> HIDE DEF s
<1>4. C # <<>> /\ IsCallee(C, Len(C)) /\ C[Len(C)].fp + 1 = n
  <2>1. /\ Len(F) \in Nat /\ DOMAIN F = 1..Len(F) /\ F # <<>> /\ (F = <<>> <=> Len(F) = 0)
        /\ Control(F, C) /\ Looping(C)
    BY <1>2, SeqFacts DEF Steady, Base, Control
  <2>2. n \in DOMAIN F /\ \A i \in DOMAIN F : i > n => ~F[i].barrier
    BY <2>1
  <2> HIDE DEF n, F, C
  <2> QED BY <1>1, <2>1, <2>2, BarrierLast
<1>5. OK(vm') /\ vm'.heap = s.heap
  BY <1>1, <1>2, <1>3, <1>4, CalleeReturned
<1> QED BY <1>3, <1>5 DEF Safe, Unspoilt

\* The environment that is split is shared, the halves are fresh.
LEMMA MergeSafe ==
  ASSUME OK(vm), OpMerge
  PROVE  Safe(vm')
<1> DEFINE ce == MarkShared(currentFrame(vm).cap)
           s == PopN(Fetched, 2)
           ls == Instr.a
           l == Filter(vm.heap, ce, ls[1])
           r == Filter(l.h, ce, ls[2])
           c == [c |-> "merge", ptr |-> FramePtr(vm), right |-> Top(vm), cap |-> r.ce]
           u == [s EXCEPT !.heap = r.h]
           w == Await(u, c)
           C == vm.calls
<1>1. vm.mode = "run"
  BY DEF OpMerge, At
<1>2. vm' = RunChild(Step(w), TopN(vm, 2)[1], l.ce)
  <2> HIDE DEF ce, s, l
  <2>1. vm' = SplitRight(s, FramePtr(vm), TopN(vm, 2)[1], Top(vm), ce, ls, l)
    BY DEF OpMerge, Do, ce, s, l
  <2> QED BY <2>1 DEF SplitRight, Split, forceMergeChild
<1>3. Steady(s) /\ s.heap = vm.heap /\ s.calls = C /\ s.mode = "run"
  <2>1. Alike(vm, s) /\ s.mode = "run" /\ Steady(vm)
    <3>1. Plain(vm, Fetched) /\ Fetched.mode = "run" /\ Steady(vm)
      BY <1>1, LoopRuns, FetchedPlain
    <3> QED BY <3>1, AlikeOperands DEF Plain
  <2> HIDE DEF s
  <2> QED BY <2>1, StillSteady
<1> HIDE DEF ce, s, ls
<1> DEFINE F == s.frames
<1>4. Sharing(F, C, vm.heap)
  BY <1>3 DEF Steady, Base
<1>5. Moved(F, C, vm.heap, l)
  <2> HIDE DEF F, C
  <2> QED BY <1>4, HeapsMoved
<1>6. Moved(F, C, l.h, r) /\ r.ce.m \in {0, Len(l.h) + 1}
  <2>1. Sharing(F, C, l.h)
    BY <1>5 DEF Moved
  <2> HIDE DEF F, C, l
  <2> QED BY <2>1, HeapsMoved
<1> HIDE DEF l, r
<1>7. Fit(C, r.h, l.ce) /\ (l.ce.m = 0 \/ l.ce.m # r.ce.m)
  <2>1. Sharing(F, C, l.h) /\ Fit(C, l.h, l.ce) /\ IsASeq(r.h) /\ Len(r.h) >= Len(l.h)
    BY <1>5, <1>6 DEF Moved, Sharing
  <2>2. Fit(C, r.h, l.ce)
    <3> HIDE DEF F, C
    <3> QED BY <2>1, HeapGrown
  <2>3. Len(l.h) \in Nat /\ l.ce.m \in 0..Len(l.h)
    BY <2>1, SeqFacts DEF Sharing, Fit, Owned, IsEnv
  <2> QED BY <1>6, <2>2, <2>3
<1>8. Moved(F, C, vm.heap, r)
  <2>1. Unspoilt(C, vm.heap, r.h)
    BY <1>5, <1>6 DEF Moved, Unspoilt
  <2>2. Len(vm.heap) \in Nat /\ Len(l.h) \in Nat /\ Len(r.h) \in Nat
    BY <1>4, <1>5, <1>6, SeqFacts DEF Moved, Sharing
  <2> HIDE DEF F, C
  <2> QED BY <1>5, <1>6, <2>1, <2>2 DEF Moved
<1>9. Base(u) /\ Even(u) /\ Looping(u.calls) /\ u.heap = r.h /\ u.calls = C /\ u.mode = "run"
  <2>1. /\ Base(u) /\ u.heap = r.h /\ u.calls = s.calls /\ u.frames = s.frames
        /\ u.depth = s.depth /\ u.mode = s.mode
    <3>1. Base(s) /\ Moved(s.frames, s.calls, s.heap, r) /\ u = [s EXCEPT !.heap = r.h]
      BY <1>3, <1>8 DEF Steady
    <3> HIDE DEF u
    <3> QED BY <3>1, HeapTaken
  <2> HIDE DEF u
  <2> QED BY <1>3, <2>1 DEF Steady, Even
<1> HIDE DEF u
<1>10. /\ c.c = "merge" /\ c.cap = r.ce
  OBVIOUS
<1> HIDE DEF c
<1>11. c.c \in LoopCalls /\ Saves(u, c) /\ Spares(c, l.ce)
  BY <1>7, <1>8, <1>9, <1>10 DEF LoopCalls, Saves, Spares, Moved
<1>12. Pending(w) /\ w.heap = r.h /\ w.mode = "run" /\ Fit(w.calls, r.h, l.ce)
  BY <1>7, <1>9, <1>11, Awaited
<1> HIDE DEF w
<1>13. Settled(w, vm')
  BY <1>2, <1>12, ChildRuns
<1> QED BY <1>8, <1>12, <1>13 DEF Safe, Settled, OK, Moved

-----------------------------------------------------------------------------
(* Callbacks, primitives, results.                                         *)

LEMMA CallRuns ==
  ASSUME OK(vm), vm.mode \in {"host", "prim", "force"}
  PROVE  /\ Pending(vm) /\ Fit(vm.calls, vm.heap, vm.req.ce)
         /\ vm.mode = "prim" /\ PrimSig[vm.req.p].eff => vm.req.ce.shared
BY DEF OK, Runs, Calls, Returns, Fails

\* A primitive, or a callback of one, waits and puts nothing aside.
HostWaits(c) == c.c \in {"hostN", "drive", "fold", "walk", "modify", "state"}

LEMMA HostAwaited ==
  ASSUME NEW s, Pending(s), NEW c, HostWaits(c), NEW e, Fit(s.calls, s.heap, e)
  PROVE  Pending(Await(s, c)) /\ Await(s, c).heap = s.heap /\ Fit(Await(s, c).calls, s.heap, e)
<1>1. c.c \in HostCalls /\ c.c \in Plainly /\ Waiting(s.calls)
  BY DEF HostCalls, Plainly, Pending, HostWaits
<1> QED BY <1>1, AwaitedPlainly DEF Pending

\* A primitive returns, calls back or fails; s waits for it.
LEMMA PendingSafe ==
  ASSUME NEW s, Pending(s), s.heap = vm.heap, NEW ce, Fit(s.calls, s.heap, ce)
  PROVE  /\ \A v : Safe(ReturnTo(s, v, ce))
         /\ \A v : Safe(Forcing(s, v, ce))
         /\ \A f, args : Safe(Host(s, f, args, ce))
         /\ \A p, args : ~PrimSig[p].eff => Safe(Calling(s, p, args, ce))
         /\ \A f, args : Safe(runCallee(s, ce, f, args))
<1>1. ASSUME NEW t, OK(t), t.heap = s.heap PROVE Safe(t)
  BY <1>1 DEF Safe, Unspoilt
<1>2. ASSUME NEW v PROVE Safe(ReturnTo(s, v, ce))
  BY <1>1, AskedReturns
<1>3. ASSUME NEW v PROVE Safe(Forcing(s, v, ce))
  BY <1>1, AskedCalls
<1>4. ASSUME NEW f, NEW args PROVE Safe(Host(s, f, args, ce))
  BY <1>1, AskedCalls
<1>5. ASSUME NEW p, NEW args, ~PrimSig[p].eff PROVE Safe(Calling(s, p, args, ce))
  BY <1>1, <1>5, AskedCalls
<1>6. ASSUME NEW f, NEW args PROVE Safe(runCallee(s, ce, f, args))
  BY CalleeRuns, SettledSafe
<1> QED BY <1>2, <1>3, <1>4, <1>5, <1>6

LEMMA PendingThrows ==
  ASSUME NEW s, Pending(s), s.heap = vm.heap
  PROVE  /\ Safe(runtimeError(s)) /\ \A k, l, d : Safe(Throw(s, k, l, d))
         /\ s.mode = "err" => Safe(s)
<1>1. Alike(s, s) /\ Base(s) /\ Even(s) /\ ~Looping(s.calls)
  BY AlikeSelf DEF Pending, Looping, Waiting
<1>2. ASSUME NEW t, Alike(s, t), t.mode = "err" PROVE Safe(t)
  BY <1>1, <1>2, PendingFails, SettledSafe
<1> QED BY <1>1, <1>2, AlikeThrown

LEMMA Allocated ==
  ASSUME NEW s, Pending(s)
  PROVE  Pending(Alloc(s)) /\ Alloc(s).calls = s.calls /\ Alloc(s).heap = s.heap
<1>1. Alike(s, Alloc(s))
  BY AlikeSelf, AlikeCharged DEF Pending
<1> QED BY <1>1, StillPending

LEMMA RestKept ==
  ASSUME NEW s, Pending(s), NEW ce, Fit(s.calls, s.heap, ce), NEW rest
  PROVE  /\ Pending(HostRest(s, rest)) /\ HostRest(s, rest).heap = s.heap
         /\ Fit(HostRest(s, rest).calls, s.heap, ce)
<1> DEFINE c == [c |-> "hostN", args |-> rest]
<1>1. c.c = "hostN" /\ HostRest(s, rest) = IF rest = <<>> THEN s ELSE Await(s, c)
  BY DEF HostRest
<1> HIDE DEF c
<1>2. HostWaits(c)
  BY <1>1 DEF HostWaits
<1>3. Pending(Await(s, c)) /\ Await(s, c).heap = s.heap /\ Fit(Await(s, c).calls, s.heap, ce)
  BY <1>2, HostAwaited
<1> QED BY <1>1, <1>3

LEMMA CallbackSafe ==
  ASSUME OK(vm), Callback
  PROVE  Safe(vm')
<1>1. vm.mode \in {"host", "force"}
  BY DEF Callback, Hosting, HostEnter, HostPartial, HostCon, HostPrimPartial, HostPrim, HostThunk,
         HostOther, ForceThunk, ForcePrim, ForceNothing
<1>2. Pending(vm) /\ Fit(vm.calls, vm.heap, vm.req.ce)
  BY <1>1, CallRuns
<1>3. ASSUME NEW rest
      PROVE  LET s == HostRest(vm, rest) IN
             Pending(s) /\ s.heap = vm.heap /\ Fit(s.calls, s.heap, vm.req.ce)
  BY <1>2, RestKept
<1>4. CASE HostEnter
  BY <1>3, <1>4, PendingSafe DEF HostEnter, Do
<1>5. CASE HostPartial
  BY <1>2, <1>5, PendingSafe DEF HostPartial, Do
<1>6. CASE HostCon
  BY <1>2, <1>6, PendingSafe DEF HostCon, Do
<1>7. CASE HostPrimPartial
  BY <1>2, <1>7, PendingSafe DEF HostPrimPartial, Do
<1>8. CASE HostPrim
  BY <1>3, <1>8, PendingSafe DEF HostPrim, Do
<1>9. CASE HostThunk
  BY <1>3, <1>9, PendingSafe DEF HostThunk, Do
<1>10. CASE HostOther
  BY <1>2, <1>10, PendingThrows DEF HostOther, Do
<1>11. CASE ForceThunk
  <2>1. vm.mode # "err" /\ vm' = RunChild(Step(vm), vm.req.v, vm.req.ce)
    BY <1>11 DEF ForceThunk, Do
  <2> QED BY <1>2, <2>1, ChildRuns, SettledSafe
<1>12. CASE ForcePrim
  <2>1. Fit(vm.calls, vm.heap, MarkShared(vm.req.ce)) /\ MarkShared(vm.req.ce).shared
    BY <1>2, SharedFits
  <2>2. vm' = Calling(vm, vm.req.v.p, vm.req.v.args, MarkShared(vm.req.ce))
    BY <1>12 DEF ForcePrim, Do
  <2> QED BY <1>2, <2>1, <2>2, AskedCalls DEF Safe, Unspoilt
<1>13. CASE ForceNothing
  BY <1>2, <1>13, PendingSafe DEF ForceNothing, Do
<1> QED BY <1>4, <1>5, <1>6, <1>7, <1>8, <1>9, <1>10, <1>11, <1>12, <1>13 DEF Callback

LEMMA HostSafe ==
  ASSUME NEW s, Pending(s), s.heap = vm.heap, NEW ce, Fit(s.calls, s.heap, ce), NEW c,
         HostWaits(c), NEW f, NEW args
  PROVE  Safe(Host(Await(s, c), f, args, ce))
<1>1. /\ Pending(Await(s, c)) /\ Await(s, c).heap = vm.heap
      /\ Fit(Await(s, c).calls, Await(s, c).heap, ce)
  BY HostAwaited
<1> QED BY <1>1, PendingSafe

LEMMA FoldingSafe ==
  ASSUME NEW s, Pending(s), s.heap = vm.heap, NEW ce, Fit(s.calls, s.heap, ce),
         NEW f, NEW acc, NEW list
  PROVE  Safe(Folding(s, f, acc, list, ce))
<1> DEFINE c == [c |-> "fold", f |-> f, list |-> list.args[2]]
<1>1. HostWaits(c)
  BY DEF HostWaits
<1>2. \/ Folding(s, f, acc, list, ce) = ReturnTo(s, acc, ce)
      \/ Folding(s, f, acc, list, ce) = Host(Await(s, c), f, <<acc, list.args[1]>>, ce)
      \/ Folding(s, f, acc, list, ce) = runtimeError(s)
  BY DEF Folding
<1> HIDE DEF c
<1> QED BY <1>1, <1>2, HostSafe, PendingSafe, PendingThrows

LEMMA WalkingSafe ==
  ASSUME NEW s, Pending(s), s.heap = vm.heap, NEW ce, Fit(s.calls, s.heap, ce),
         NEW p, NEW f, NEW acc, NEW items
  PROVE  Safe(Walking(s, p, f, acc, items, ce))
<1> DEFINE c == [c |-> "walk", p |-> p, f |-> f, acc |-> acc, items |-> items]
<1>1. HostWaits(c)
  BY DEF HostWaits
<1>2. ASSUME NEW u, Pending(u), u.heap = vm.heap, Fit(u.calls, u.heap, ce)
      PROVE  Safe(Finished(u, p, acc, ce))
  BY <1>2, PendingSafe, PendingThrows DEF Finished, Refused
<1>3. Safe(Finished(s, p, acc, ce)) /\ Safe(Finished(Alloc(s), p, acc, ce))
  <2>1. Pending(Alloc(s)) /\ Alloc(s).heap = vm.heap /\ Fit(Alloc(s).calls, Alloc(s).heap, ce)
    BY Allocated
  <2> QED BY <1>2, <2>1
<1>4. \/ Refused(s) /\ Walking(s, p, f, acc, items, ce) = s
      \/ Walking(s, p, f, acc, items, ce) = Finished(s, p, acc, ce)
      \/ Walking(s, p, f, acc, items, ce) = Finished(Alloc(s), p, acc, ce)
      \/ Walking(s, p, f, acc, items, ce)
           = Host(Await(s, c), f, WalkArgs(p, Head(items), acc), ce)
  BY DEF Walking
<1> HIDE DEF c
<1> QED BY <1>1, <1>3, <1>4, HostSafe, PendingThrows DEF Refused

LEMMA CapReturned ==
  ASSUME NEW s, Pending(s), NEW r, Moved(s.frames, s.calls, s.heap, r), NEW v
  PROVE  OK(ReturnCap(s, v, r)) /\ ReturnCap(s, v, r).heap = r.h
<1> DEFINE u == [s EXCEPT !.heap = r.h]
<1>1. /\ Base(u) /\ u.heap = r.h /\ u.calls = s.calls /\ u.frames = s.frames
      /\ u.depth = s.depth /\ u.mode = s.mode
  <2>1. Base(s) /\ u = [s EXCEPT !.heap = r.h]
    BY DEF Pending
  <2> HIDE DEF u
  <2> QED BY <2>1, HeapTaken
<1>2. ReturnCap(s, v, r) = ReturnTo(u, v, r.ce)
  BY DEF ReturnCap
<1> HIDE DEF u
<1>3. Pending(u) /\ Fit(u.calls, u.heap, r.ce)
  BY <1>1 DEF Pending, Even, Moved
<1> QED BY <1>1, <1>2, <1>3, AskedReturns

\* The computation a handler runs, with capabilities that have just been written.
LEMMA HandlingSafe ==
  ASSUME NEW s, Pending(s), NEW r, Moved(s.frames, s.calls, s.heap, r), NEW thunk
  PROVE  OK(Handling(s, thunk, r)) /\ Handling(s, thunk, r).heap = r.h
<1> DEFINE u == [s EXCEPT !.heap = r.h]
           c == [c |-> "drive"]
<1>1. /\ Base(u) /\ u.heap = r.h /\ u.calls = s.calls /\ u.frames = s.frames
      /\ u.depth = s.depth /\ u.mode = s.mode
  <2>1. Base(s) /\ u = [s EXCEPT !.heap = r.h]
    BY DEF Pending
  <2> HIDE DEF u
  <2> QED BY <2>1, HeapTaken
<1>2. Handling(s, thunk, r) = Host(Await(u, c), thunk, <<UnitVal>>, r.ce)
  BY DEF Handling, driveEffectful
<1>3. HostWaits(c)
  BY DEF HostWaits
<1> HIDE DEF u, c
<1>4. Pending(u) /\ Fit(u.calls, u.heap, r.ce)
  BY <1>1 DEF Pending, Even, Moved
<1>5. Pending(Await(u, c)) /\ Await(u, c).heap = u.heap /\ Fit(Await(u, c).calls, Await(u, c).heap, r.ce)
  BY <1>3, <1>4, HostAwaited
<1> QED BY <1>1, <1>2, <1>5, AskedCalls

LEMMA PrimitiveSafe ==
  ASSUME OK(vm), Primitive
  PROVE  Safe(vm')
<1> DEFINE ce == vm.req.ce
           C == vm.calls
           F == vm.frames
<1>1. vm.mode = "prim"
  BY DEF Primitive, Prim, PrimAdd, PrimEmpty, PrimFoldl, PrimWalk, PrimFoldr, PrimToSlice,
         PrimFromSlice, PrimGet, PrimPut, PrimModify, PrimFail, PrimRunState, PrimTry
<1>2. Pending(vm) /\ Fit(C, vm.heap, ce) /\ (PrimSig[vm.req.p].eff => ce.shared)
  BY <1>1, CallRuns
<1>3. Pending(Alloc(vm)) /\ Alloc(vm).calls = vm.calls /\ Alloc(vm).heap = vm.heap
  BY <1>2, Allocated
<1>4. ASSUME NEW l, NEW v
      PROVE  Moved(F, C, vm.heap, Set(vm.heap, ce, l, v))
  BY <1>2, HeapsMoved DEF Pending, Base
<1>5. CASE PrimAdd
  BY <1>2, <1>5, PendingSafe DEF PrimAdd, Do
<1>6. CASE PrimEmpty
  BY <1>2, <1>6, PendingSafe DEF PrimEmpty, Do
<1>7. CASE PrimFoldl
  BY <1>2, <1>7, FoldingSafe DEF PrimFoldl, Do
<1>8. CASE PrimWalk
  BY <1>2, <1>3, <1>8, WalkingSafe, PendingThrows DEF PrimWalk, Do
<1>9. CASE PrimFoldr
  BY <1>2, <1>9, WalkingSafe, PendingThrows DEF PrimFoldr, Do
<1>10. ASSUME NEW v PROVE Safe(Converted(Alloc(vm), v, ce))
  BY <1>2, <1>3, PendingSafe, PendingThrows DEF Converted, Refused
<1>11. CASE PrimToSlice
  BY <1>2, <1>10, <1>11, PendingSafe, PendingThrows DEF PrimToSlice, Do
<1>12. CASE PrimFromSlice
  BY <1>2, <1>10, <1>12, PendingSafe, PendingThrows DEF PrimFromSlice, Do
<1>13. CASE PrimGet
  BY <1>2, <1>13, PendingSafe, PendingThrows DEF PrimGet, Do
<1>14. CASE PrimPut
  <2>1. vm' = ReturnCap(vm, UnitVal, Set(vm.heap, ce, Arg(1).l, Arg(2)))
    BY <1>14 DEF PrimPut, Do
  <2> QED BY <1>2, <1>4, <2>1, CapReturned DEF Safe, Moved
<1>15. CASE PrimModify
  <2> DEFINE c == [c |-> "modify", l |-> Arg(1).l]
  <2>1. HostWaits(c)
    BY DEF HostWaits
  <2>2. \/ vm' = Host(Await(vm, c), Arg(2), <<LabelCap[Arg(1).l]>>, ce)
        \/ vm' = runtimeError(vm)
    BY <1>15 DEF PrimModify, Do
  <2> HIDE DEF c
  <2> QED BY <1>2, <2>1, <2>2, HostSafe, PendingThrows
<1>16. CASE PrimFail
  BY <1>2, <1>16, PendingThrows DEF PrimFail, Do
<1>17. CASE PrimRunState
  <2> DEFINE c == [c |-> "state", l |-> Arg(1).l,
                   saved |-> IF Arg(1).l \in DOMAIN LabelCap THEN LabelCap[Arg(1).l] ELSE Nil]
             r == Set(vm.heap, ce, Arg(1).l, Arg(2))
             u == Await(vm, c)
  <2>1. HostWaits(c)
    BY DEF HostWaits
  <2>2. vm' = Handling(u, Arg(3), r)
    BY <1>17 DEF PrimRunState, Do
  <2> HIDE DEF c
  <2>3. Pending(u) /\ u.heap = vm.heap /\ Fit(u.calls, vm.heap, ce)
    BY <1>2, <2>1, HostAwaited
  <2> HIDE DEF u
  <2>4. Moved(u.frames, u.calls, u.heap, r)
    BY <2>3, HeapsMoved DEF Pending, Base
  <2>5. OK(vm') /\ vm'.heap = r.h
    BY <2>2, <2>3, <2>4, HandlingSafe
  <2>6. Moved(F, C, vm.heap, r)
    BY <1>4
  <2> QED BY <2>5, <2>6 DEF Safe, Moved
<1>18. CASE PrimTry
  <2> DEFINE c == [c |-> "try", l |-> Arg(1).l, ce |-> ce]
             d == [c |-> "drive"]
             u == Await(vm, c)
  <2>1. c.c = "try" /\ c.ce = ce /\ d.c = "drive"
    OBVIOUS
  <2>2. vm' = Host(Await(u, d), Arg(2), <<UnitVal>>, ce)
    BY <1>18 DEF PrimTry, driveEffectful, Do
  <2>3. ce.shared
    BY <1>2, <1>18 DEF PrimTry, Prim, PrimSig
  <2> HIDE DEF c, d
  <2>4. c.c \in HostCalls /\ Saves(vm, c) /\ Spares(c, ce)
    BY <1>2, <2>1, <2>3 DEF HostCalls, Saves, Spares
  <2>5. Pending(u) /\ u.heap = vm.heap /\ Fit(u.calls, u.heap, ce)
    BY <1>2, <2>4, Awaited DEF Pending
  <2> HIDE DEF u
  <2>6. HostWaits(d)
    BY <2>1 DEF HostWaits
  <2> QED BY <2>2, <2>5, <2>6, HostSafe
<1> QED BY <1>5, <1>6, <1>7, <1>8, <1>9, <1>11, <1>12, <1>13, <1>14, <1>15, <1>16, <1>17, <1>18
        DEF Primitive

-----------------------------------------------------------------------------
(* Results: what the last of calls does with one.                          *)

LEMMA ReturnRuns ==
  ASSUME OK(vm), vm.mode = "ret"
  PROVE  /\ Base(vm) /\ Even(vm) /\ vm.calls # <<>> /\ Fit(vm.calls, vm.heap, vm.req.ce)
         /\ IsCallee(vm.calls, Len(vm.calls)) => Len(vm.frames) = Call.fp + 1
         /\ Call = LastCall(vm) /\ (IsCallee(vm.calls, Len(vm.calls)) <=> Call.c = "callee")
         /\ Fit(Popped(vm).calls, vm.heap, vm.req.ce)
         /\ Len(vm.calls) \in DOMAIN vm.calls
<1>1. /\ Base(vm) /\ Even(vm) /\ vm.calls # <<>> /\ Fit(vm.calls, vm.heap, vm.req.ce)
      /\ IsCallee(vm.calls, Len(vm.calls)) => Len(vm.frames) = Call.fp + 1
  BY DEF OK, Runs, Calls, Returns, Fails, Call
<1>2. Fit(Popped(vm).calls, vm.heap, vm.req.ce)
  BY <1>1, FitLeft
<1>3. Len(vm.calls) \in DOMAIN vm.calls
  <2>1. IsASeq(vm.calls)
    BY <1>1 DEF Base, Control
  <2> QED BY <1>1, <2>1, SeqFacts
<1> QED BY <1>1, <1>2, <1>3 DEF LastCall, Call, IsCallee

\* The loop gets a result and goes on.
LEMMA LoopResumes ==
  ASSUME OK(vm), vm.mode = "ret", Call.c \in LoopCalls
  PROVE  /\ Steady(Popped(vm)) /\ Popped(vm).heap = vm.heap /\ Popped(vm).mode = "ret"
         /\ Steady(Resume(vm)) /\ Resume(vm).heap = vm.heap /\ Resume(vm).mode = "run"
         /\ Fit(Resume(vm).calls, vm.heap, vm.req.ce)
         /\ Resume(vm).calls = Popped(vm).calls
<1> DEFINE s == Popped(vm)
<1>1. ~IsCallee(vm.calls, Len(vm.calls))
  BY ReturnRuns DEF LoopCalls
<1>2. Steady(s) /\ s.heap = vm.heap /\ s.mode = "ret" /\ Fit(s.calls, vm.heap, vm.req.ce)
  BY <1>1, ReturnRuns, CallLeft DEF Steady
<1> HIDE DEF s
<1>3. Alike(s, s)
  BY <1>2, AlikeSelf DEF Steady
<1>4. Alike(s, Ask(s, "run", <<>>)) /\ Ask(s, "run", <<>>).mode = "run"
  BY <1>3, AlikeAsked
<1>5. Steady(Ask(s, "run", <<>>)) /\ Ask(s, "run", <<>>).calls = s.calls
      /\ Ask(s, "run", <<>>).heap = s.heap
  BY <1>2, <1>4, StillSteady
<1> QED BY <1>2, <1>4, <1>5 DEF Resume, s

\* A primitive gets a result and goes on.
LEMMA HostResumes ==
  ASSUME OK(vm), vm.mode = "ret", Call.c \in HostCalls
  PROVE  /\ Pending(Popped(vm)) /\ Popped(vm).heap = vm.heap /\ Popped(vm).mode = "ret"
         /\ Fit(Popped(vm).calls, Popped(vm).heap, vm.req.ce)
<1>1. ~IsCallee(vm.calls, Len(vm.calls))
  BY ReturnRuns DEF HostCalls
<1> QED BY <1>1, ReturnRuns, CallLeft DEF Pending

LEMMA CalleeReturnsSafe ==
  ASSUME OK(vm), CalleeReturns
  PROVE  Safe(vm')
<1> DEFINE t == CalleeGone(Popped(vm), LastCall(vm))
<1>1. vm.mode = "ret" /\ Call.c = "callee" /\ vm' = CalleeGone(Popped(vm), Call)
  BY DEF CalleeReturns, Receives, Do
<1>2. /\ Base(vm) /\ Even(vm) /\ vm.calls # <<>> /\ IsCallee(vm.calls, Len(vm.calls))
      /\ Len(vm.frames) = LastCall(vm).fp + 1 /\ vm' = t
      /\ Fit(Popped(vm).calls, vm.heap, vm.req.ce)
  BY <1>1, ReturnRuns
<1>3. /\ Base(t) /\ Waiting(t.calls) /\ t.heap = vm.heap /\ t.depth = vm.depth
      /\ t.mode = vm.mode /\ t.req = vm.req /\ t.calls = Popped(vm).calls
      /\ Len(t.frames) = LastCall(vm).fp /\ LastCall(vm).fp \in Nat
      /\ Rank(vm.calls, Len(vm.calls)) \in Nat
      /\ Rank(t.calls, Len(t.calls)) = Rank(vm.calls, Len(vm.calls)) - 1
  BY <1>2, CalleeLeft
<1> HIDE DEF t
<1>4. Even(t)
  <2> DEFINE fp == LastCall(vm).fp
             r == Rank(vm.calls, Len(vm.calls))
  <2>1. fp \in Nat /\ r \in Nat /\ t.depth = vm.depth /\ Len(t.frames) = fp
        /\ Rank(t.calls, Len(t.calls)) = r - 1
    BY <1>3
  <2>2. vm.depth = (fp + 1) - r - 1
    BY <1>2 DEF Even
  <2> HIDE DEF fp, r
  <2>3. t.depth = Len(t.frames) - Rank(t.calls, Len(t.calls)) - 1
    BY <2>1, <2>2
  <2> QED BY <2>3 DEF Even
<1>5. Returns(t)
  BY <1>1, <1>2, <1>3, <1>4 DEF Returns, Waiting
<1> QED BY <1>2, <1>3, <1>5 DEF Safe, OK, Unspoilt

\* The value on the stack or in a local, the capabilities in a frame.
LEMMA Handed ==
  ASSUME NEW s, Steady(s), s.mode = "run", NEW e, Fit(s.calls, s.heap, e), NEW ptr,
         NEW x, NEW y, NEW z
  PROVE  /\ Settled(s, Deliver(StoreCapEnv(s, ptr, e), x, y))
         /\ Settled(s, Deliver(WithCap(s, e), x, y))
         /\ Settled(s, push(StoreCapEnv(s, ptr, e), x))
         /\ Settled(s, setLocal(StoreCapEnv(s, ptr, e), x, y, z))
<1>1. ASSUME NEW u, CapsGiven(s, u)
      PROVE  Settled(s, Deliver(u, x, y)) /\ Settled(s, push(u, x)) /\ Settled(s, setLocal(u, x, y, z))
  <2>1. Steady(u) /\ u.mode = "run" /\ u.heap = s.heap
    BY <1>1 DEF CapsGiven, Steady
  <2>2. Plain(u, u)
    BY <2>1, AlikeSelf DEF Plain, Steady
  <2>3. Plain(u, Deliver(u, x, y)) /\ Plain(u, push(u, x))
    BY <2>2, PlainOperands
  <2>4. Plain(u, setLocal(u, x, y, z))
    BY <2>2, PlainLocals
  <2>5. Settled(u, Deliver(u, x, y)) /\ Settled(u, push(u, x)) /\ Settled(u, setLocal(u, x, y, z))
    BY <2>1, <2>3, <2>4, PlainSettled
  <2> QED BY <2>1, <2>5 DEF Settled
<1>2. CapsGiven(s, WithCap(s, e)) /\ CapsGiven(s, StoreCapEnv(s, ptr, e))
  BY CapWritten DEF Steady
<1> QED BY <1>1, <1>2

LEMMA HandedSafe ==
  ASSUME OK(vm), PushReturns \/ BindReturns
  PROVE  Safe(vm')
<1> DEFINE s == Resume(vm)
<1>1. vm.mode = "ret" /\ Call.c \in LoopCalls
  BY DEF PushReturns, BindReturns, Receives, LoopCalls
<1>2. Steady(s) /\ s.heap = vm.heap /\ s.mode = "run" /\ Fit(s.calls, s.heap, vm.req.ce)
  BY <1>1, LoopResumes
<1>3. \/ vm' = Deliver(StoreCapEnv(s, Call.ptr, vm.req.ce), Call.at, vm.req.v)
      \/ vm' = setLocal(StoreCapEnv(s, Call.ptr, vm.req.ce), Call.bp, Call.slot, vm.req.v)
  BY DEF PushReturns, BindReturns, Do
<1> HIDE DEF s
<1> QED BY <1>2, <1>3, Handed, SettledSafe

LEMMA ThunkReturnsSafe ==
  ASSUME OK(vm), ThunkReturns
  PROVE  Safe(vm')
<1> DEFINE s == Popped(vm)
<1>1. vm.mode = "ret" /\ Call.c \in LoopCalls /\ vm' = Applied(s, vm.req.v, Call.args, Call.at, Call.tail)
  BY DEF ThunkReturns, Receives, LoopCalls, Do
<1>2. Steady(s) /\ s.heap = vm.heap
  BY <1>1, LoopResumes
<1> HIDE DEF s
<1>3. Alike(s, s)
  BY <1>2, AlikeSelf DEF Steady
<1>4. Plain(s, vm')
  BY <1>1, <1>3, PlainAsked
<1> QED BY <1>2, <1>4, PlainSettled, SettledSafe

\* The arguments left over: another runCallee under the same call.
LEMMA OverReturnsSafe ==
  ASSUME OK(vm), OverReturns
  PROVE  Safe(vm')
<1> DEFINE s == Resume(vm)
           u == Popped(vm)
           ce == vm.req.ce
           c == [Call EXCEPT !.extras = Tail(Call.extras)]
           w == Await(u, c)
           t == barrierFrame(w, ce)
<1>1. vm.mode = "ret" /\ Call.c = "over" /\ Call.c \in LoopCalls
  BY DEF OverReturns, Receives, LoopCalls
<1>2. /\ Steady(s) /\ s.heap = vm.heap /\ s.mode = "run" /\ Fit(s.calls, s.heap, ce)
      /\ Steady(u) /\ u.heap = vm.heap /\ Fit(u.calls, u.heap, ce)
  BY <1>1, LoopResumes
<1>3. \/ vm' = Deliver(WithCap(s, ce), Call.at, vm.req.v)
      \/ vm' = Applied(t, vm.req.v, <<Head(Call.extras)>>, Len(vm.stack), FALSE)
  BY DEF OverReturns, Do
<1>4. c = [c |-> "over", at |-> c.at, extras |-> c.extras]
  <2>1. CallOK(vm.calls, Len(vm.calls))
    BY <1>1, ReturnRuns DEF Base, Control
  <2>2. Call = [c |-> "over", at |-> Call.at, extras |-> Call.extras]
    BY <1>1, <2>1 DEF CallOK, Call
  <2> DEFINE at == Call.at
             old == Call.extras
             new == Tail(old)
             x == Call
  <2>3. x = [c |-> "over", at |-> at, extras |-> old] /\ c = [x EXCEPT !.extras = new]
    BY <2>2
  <2> HIDE DEF at, old, new, x, c
  <2>4. c = [c |-> "over", at |-> at, extras |-> new]
    BY <2>3
  <2> QED BY <2>4
<1> HIDE DEF s, u, ce, c
<1>5. CASE vm' = Deliver(WithCap(s, ce), Call.at, vm.req.v)
  BY <1>2, <1>5, Handed, SettledSafe
<1>6. CASE vm' = Applied(t, vm.req.v, <<Head(Call.extras)>>, Len(vm.stack), FALSE)
  <2>1. Pending(w) /\ w.heap = vm.heap /\ Fit(w.calls, w.heap, ce)
    BY <1>2, <1>4, LoopAwaited
  <2> HIDE DEF w
  <2>2. Steady(t) /\ t.heap = vm.heap
    BY <2>1, CalleeAwaited
  <2> HIDE DEF t
  <2>3. Alike(t, t)
    BY <2>2, AlikeSelf DEF Steady
  <2>4. Plain(t, vm')
    BY <1>6, <2>3, PlainAsked
  <2> QED BY <2>2, <2>4, PlainSettled, SettledSafe
<1> QED BY <1>3, <1>5, <1>6

\* The left side is done: its capabilities are put aside, those of the right
\* side are taken up.
LEMMA MergeLeftSafe ==
  ASSUME OK(vm), MergeLeftReturns
  PROVE  Safe(vm')
<1> DEFINE u == Popped(vm)
           e == vm.req.ce
           d == Call.cap
           c == [c |-> "merged", ptr |-> Call.ptr, v |-> vm.req.v, ce |-> e]
           w == Await(u, c)
<1>1. vm.mode = "ret" /\ Call.c = "merge" /\ Call.c \in LoopCalls
      /\ vm' = RunChild(Step(w), Call.right, d)
  BY DEF MergeLeftReturns, Receives, LoopCalls, Do, forceMergeChild
<1>2. /\ Steady(u) /\ u.heap = vm.heap /\ u.mode = "ret"
      /\ Base(vm) /\ Fit(vm.calls, vm.heap, e) /\ Len(vm.calls) \in DOMAIN vm.calls
      /\ vm.calls # <<>>
  BY <1>1, LoopResumes, ReturnRuns
<1>3. c.c = "merged" /\ c.ce = e
  OBVIOUS
<1>4. Fit(u.calls, vm.heap, d) /\ (e.m = 0 \/ e.m # d.m)
  <2>1. CallFit(vm.calls, vm.heap, Len(vm.calls), d)
    BY <1>1, <1>2 DEF Base, Sharing, SavedOK, Call
  <2>2. Spares(Call, e)
    BY <1>2 DEF Fit, Call
  <2>3. e.m = 0 \/ e.m # d.m
    BY <1>1, <2>2 DEF Spares
  <2>4. /\ DOMAIN u.calls = 1..(Len(vm.calls) - 1)
        /\ \A k \in 1..(Len(vm.calls) - 1) : u.calls[k] = vm.calls[k]
    <3>1. u.calls = SubSeq(vm.calls, 1, Len(vm.calls) - 1)
      BY <1>2 DEF Base, IsVM, Popped
    <3> HIDE DEF u
    <3> QED BY <1>2, <3>1, CallsBelow DEF Base
  <2> HIDE DEF u, d, e
  <2>5. Fit(u.calls, vm.heap, d)
    BY <2>1, <2>4 DEF Fit, CallFit
  <2> QED BY <2>3, <2>5
<1> HIDE DEF u, e, d, c
<1>5. c.c \in LoopCalls /\ Saves(u, c)
  BY <1>2, <1>3 DEF LoopCalls, Saves, Fit, Owned
<1>6. Spares(c, d)
  BY <1>3, <1>4 DEF Spares
<1>7. Pending(w) /\ w.heap = vm.heap /\ w.mode = "ret" /\ Fit(w.calls, w.heap, d)
  BY <1>2, <1>4, <1>5, <1>6, Awaited DEF Steady
<1> HIDE DEF w
<1> QED BY <1>1, <1>7, ChildRuns, SettledSafe

\* Both sides are done: their capabilities become those of the frame.
LEMMA MergeRightSafe ==
  ASSUME OK(vm), MergeRightReturns
  PROVE  Safe(vm')
<1> DEFINE s == Resume(vm)
           r == MergeWith(vm.heap, Call.ce, vm.req.ce)
           u == [s EXCEPT !.heap = r.h]
<1>1. vm.mode = "ret" /\ Call.c = "merged" /\ Call.c \in LoopCalls
      /\ vm' = push(StoreCapEnv(u, Call.ptr, r.ce), Tuple(Call.v, vm.req.v))
  BY DEF MergeRightReturns, Receives, LoopCalls, Merged, Do
<1>2. Steady(s) /\ s.heap = vm.heap /\ s.mode = "run" /\ Base(vm)
  BY <1>1, LoopResumes, ReturnRuns
<1>3. Moved(s.frames, s.calls, s.heap, r)
  <2> HIDE DEF s
  <2> QED BY <1>2, HeapsMoved DEF Steady, Base
<1>4. Moved(vm.frames, vm.calls, vm.heap, r)
  BY <1>2, HeapsMoved DEF Base
<1> HIDE DEF s, r
<1>5. /\ Base(u) /\ u.heap = r.h /\ u.calls = s.calls /\ u.frames = s.frames
      /\ u.depth = s.depth /\ u.mode = s.mode
  <2>1. Base(s) /\ u = [s EXCEPT !.heap = r.h]
    BY <1>2 DEF Steady
  <2> HIDE DEF u
  <2> QED BY <1>3, <2>1, HeapTaken
<1> HIDE DEF u
<1>6. Steady(u) /\ u.mode = "run" /\ Fit(u.calls, u.heap, r.ce)
  BY <1>2, <1>3, <1>5 DEF Steady, Even, Moved
<1>7. Settled(u, vm')
  BY <1>1, <1>6, Handed
<1> QED BY <1>4, <1>5, <1>7 DEF Safe, Settled, OK, Moved

LEMMA HostResultSafe ==
  ASSUME OK(vm),
         HostReturns \/ DriveReturns \/ FoldReturns \/ WalkReturns \/ ModifyReturns
         \/ StateReturns \/ TryReturns
  PROVE  Safe(vm')
<1> DEFINE s == Popped(vm)
           ce == vm.req.ce
<1>1. vm.mode = "ret" /\ Call.c \in HostCalls
  BY DEF HostReturns, DriveReturns, FoldReturns, WalkReturns, ModifyReturns, StateReturns,
         TryReturns, Receives, HostCalls
<1>2. Pending(s) /\ s.heap = vm.heap /\ Fit(s.calls, s.heap, ce)
  BY <1>1, HostResumes
<1>3. Base(vm) /\ Fit(vm.calls, vm.heap, ce)
  BY <1>1, ReturnRuns
<1>4. ASSUME NEW l, NEW x, NEW v, NEW r, r \in {Set(vm.heap, ce, l, x), Delete(vm.heap, ce, l)}
      PROVE  Safe(ReturnCap(s, v, r))
  <2> HIDE DEF s, ce
  <2>1. Moved(s.frames, s.calls, s.heap, r)
    BY <1>2, <1>4, HeapsMoved DEF Pending, Base
  <2>2. Moved(vm.frames, vm.calls, vm.heap, r)
    BY <1>3, <1>4, HeapsMoved DEF Base
  <2>3. OK(ReturnCap(s, v, r)) /\ ReturnCap(s, v, r).heap = r.h
    BY <1>2, <2>1, CapReturned
  <2> QED BY <2>2, <2>3 DEF Safe, Moved
<1>5. CASE HostReturns
  <2>1. vm' = Host(s, vm.req.v, Call.args, ce)
    BY <1>5 DEF HostReturns, Do
  <2> HIDE DEF s, ce
  <2> QED BY <1>2, <2>1, PendingSafe
<1>6. CASE DriveReturns
  <2>1. vm' = Forcing(s, vm.req.v, ce)
    BY <1>6 DEF DriveReturns, Do
  <2> HIDE DEF s, ce
  <2> QED BY <1>2, <2>1, PendingSafe
<1>7. CASE FoldReturns
  <2>1. vm' = Folding(s, Call.f, vm.req.v, Call.list, ce)
    BY <1>7 DEF FoldReturns, Do
  <2> HIDE DEF s, ce
  <2> QED BY <1>2, <2>1, FoldingSafe
<1>8. CASE WalkReturns
  <2>1. vm' = Walking(s, Call.p, Call.f, WalkAcc(Call.p, Head(Call.items), Call.acc, vm.req.v),
                      Tail(Call.items), ce)
    BY <1>8 DEF WalkReturns, Do
  <2> HIDE DEF s, ce
  <2> QED BY <1>2, <2>1, WalkingSafe
<1>9. CASE ModifyReturns
  <2>1. vm' = ReturnCap(s, UnitVal, Set(vm.heap, ce, Call.l, vm.req.v))
    BY <1>9 DEF ModifyReturns, Do
  <2> HIDE DEF s, ce
  <2> QED BY <1>4, <2>1
<1>10. CASE StateReturns
  <2> DEFINE r == Restored(vm.heap, ce, Call.l, Call.saved)
  <2>1. \/ vm' = ReturnCap(s, Tuple(LabelCap[Call.l], vm.req.v), r)
        \/ vm' = runtimeError(s)
    BY <1>10 DEF StateReturns, Do
  <2>2. r = Delete(vm.heap, ce, Call.l) \/ r = Set(vm.heap, ce, Call.l, Call.saved)
    BY DEF Restored
  <2> HIDE DEF s, ce, r
  <2> QED BY <1>2, <1>4, <2>1, <2>2, PendingThrows
<1>11. CASE TryReturns
  <2>1. vm' = ReturnTo(s, ConVal("Ok", <<vm.req.v>>), ce)
    BY <1>11 DEF TryReturns, Do
  <2> HIDE DEF s, ce
  <2> QED BY <1>2, <2>1, PendingSafe
<1> QED BY <1>5, <1>6, <1>7, <1>8, <1>9, <1>10, <1>11

LEMMA ResultSafe ==
  ASSUME OK(vm), Result
  PROVE  Safe(vm')
BY BarrierValueSafe, CalleeReturnsSafe, HandedSafe, ThunkReturnsSafe, OverReturnsSafe,
   MergeLeftSafe, MergeRightSafe, HostResultSafe DEF Result

-----------------------------------------------------------------------------
(* Errors: what the last of calls does with one.                           *)

LEMMA ErrorRuns ==
  ASSUME OK(vm), vm.mode = "err"
  PROVE  Fails(vm) /\ Base(vm)
BY DEF OK, Runs, Calls, Returns, Fails

\* runCallee puts the depth right.
LEMMA CalleeFailsSafe ==
  ASSUME OK(vm), CalleeFails
  PROVE  Safe(vm') /\ vm'.mode = vm.mode /\ vm'.req = vm.req
<1> DEFINE t == CalleeGone(Popped(vm), LastCall(vm))
           d == LastCall(vm).depth
           fp == LastCall(vm).fp
           n == Rank(vm.calls, Len(vm.calls))
           w == [t EXCEPT !.depth = d]
<1>1. vm.mode = "err" /\ vm.calls # <<>> /\ IsCallee(vm.calls, Len(vm.calls))
      /\ vm' = RestoreDepth(t, d)
  BY DEF CalleeFails, Raised, Do, Call, LastCall, IsCallee
<1>2. Base(vm) /\ vm.depth \in Nat /\ vm.depth >= d
  BY <1>1, ErrorRuns DEF Fails, LastCall
<1>3. /\ Base(t) /\ Waiting(t.calls) /\ t.heap = vm.heap /\ t.depth = vm.depth
      /\ t.mode = vm.mode /\ t.req = vm.req
      /\ Len(t.frames) = fp /\ fp \in Nat /\ n \in Nat
      /\ Rank(t.calls, Len(t.calls)) = n - 1 /\ d = fp - n
  BY <1>1, <1>2, CalleeLeft
<1> HIDE DEF t, d, fp, n
<1>4. vm' = w
  <2>1. (IF t.depth > d THEN d ELSE t.depth) = d
    BY <1>2, <1>3
  <2> QED BY <1>1, <2>1 DEF RestoreDepth
<1>5. IsVM(w) /\ w.frames = t.frames /\ w.calls = t.calls /\ w.heap = t.heap /\ w.mode = t.mode
      /\ w.req = t.req /\ w.depth = d
  BY <1>3 DEF Base, IsVM
<1> HIDE DEF w
<1>6. Base(w) /\ Waiting(w.calls)
  BY <1>3, <1>5 DEF Base
<1>7. Even(w)
  <2>1. d = fp - (n - 1) - 1
    BY <1>3
  <2> QED BY <1>3, <1>5, <2>1 DEF Even
<1>8. Fails(w)
  BY <1>1, <1>3, <1>5, <1>6, <1>7, EvenDepth DEF Fails, Waiting
<1> QED BY <1>3, <1>4, <1>5, <1>8 DEF Safe, OK, Unspoilt

\* Any other call is given up.
LEMMA ErrorPasses ==
  ASSUME OK(vm), vm.mode = "err", vm.calls # <<>>, Call.c # "callee"
  PROVE  /\ Safe(Popped(vm)) /\ \A x : Safe([Popped(vm) EXCEPT !.stack = x])
         /\ Popped(vm).mode = "err" /\ Popped(vm).req = vm.req
         /\ Popped(vm).heap = vm.heap /\ IsVM(Popped(vm))
         /\ Call.c \in HostCalls => Pending(Popped(vm))
<1> DEFINE s == Popped(vm)
<1>1. Call = LastCall(vm) /\ ~IsCallee(vm.calls, Len(vm.calls))
  BY DEF Call, LastCall, IsCallee
<1>2. Base(vm) /\ Even(vm)
  BY <1>1, ErrorRuns DEF Fails, Waiting
<1>3. /\ Base(s) /\ Even(s) /\ s.heap = vm.heap /\ s.mode = "err" /\ s.req = vm.req
      /\ Call.c \in LoopCalls => Looping(s.calls)
      /\ Call.c \in HostCalls => Waiting(s.calls)
      /\ Call.c \in LoopCalls \cup HostCalls
  BY <1>1, <1>2, CallLeft
<1> HIDE DEF s
<1>4. Alike(s, s)
  BY <1>3, AlikeSelf
<1>5. ASSUME NEW t, Alike(s, t), t.mode = "err" PROVE Safe(t)
  <2>1. CASE Looping(s.calls)
    BY <1>3, <1>5, <2>1, PlainSettled, SettledSafe DEF Plain, Steady
  <2>2. CASE ~Looping(s.calls)
    BY <1>3, <1>5, <2>2, PendingFails, SettledSafe
  <2> QED BY <2>1, <2>2
<1>6. \A x : Safe([s EXCEPT !.stack = x])
  BY <1>3, <1>4, <1>5, AlikeFields, ZenonT(60)
<1> QED BY <1>3, <1>4, <1>5, <1>6 DEF Pending, Base, s

\* The handler goes on with the capabilities it was called with.
LEMMA TryCatchesSafe ==
  ASSUME OK(vm), TryCatches
  PROVE  Safe(vm')
<1> DEFINE s == Popped(vm)
           e == Call.ce
<1>1. vm.mode = "err" /\ vm.calls # <<>> /\ Call.c = "try"
      /\ vm' = ReturnTo(s, ConVal("Err", <<vm.req.d>>), e)
  BY DEF TryCatches, Raised, Do
<1>2. Pending(s) /\ s.heap = vm.heap /\ Base(vm)
  BY <1>1, ErrorPasses, ErrorRuns DEF HostCalls
<1>3. Fit(s.calls, vm.heap, e)
  <2>1. DOMAIN vm.calls = 1..Len(vm.calls) /\ Len(vm.calls) \in DOMAIN vm.calls
    BY <1>1, <1>2, SeqFacts DEF Base, Control
  <2>2. CallFit(vm.calls, vm.heap, Len(vm.calls), e)
    BY <1>1, <1>2, <2>1 DEF Base, Sharing, SavedOK, Call
  <2>3. /\ DOMAIN s.calls = 1..(Len(vm.calls) - 1)
        /\ \A k \in 1..(Len(vm.calls) - 1) : s.calls[k] = vm.calls[k]
    <3>1. s.calls = SubSeq(vm.calls, 1, Len(vm.calls) - 1)
      BY <1>2 DEF Base, IsVM, Popped
    <3> HIDE DEF s
    <3> QED BY <1>1, <1>2, <3>1, CallsBelow DEF Base
  <2> HIDE DEF s, e
  <2> QED BY <2>2, <2>3 DEF Fit, CallFit
<1> HIDE DEF s, e
<1> QED BY <1>1, <1>2, <1>3, PendingSafe

\* A failure is caught, or it is the same failure one call further out.
LEMMA FailureSafe ==
  ASSUME OK(vm), Failure, ~RunFails
  PROVE  Safe(vm') /\ ((vm'.mode = "err" /\ vm'.req = vm.req) \/ Caught)
<1>1. CASE CalleeFails
  BY <1>1, CalleeFailsSafe DEF CalleeFails, Raised
<1>2. CASE PrimFails
  <2> DEFINE s == Popped(vm)
             t == [s EXCEPT !.stack = SubSeq(s.stack, 1, Call.at)]
  <2>1. vm.mode = "err" /\ vm.calls # <<>> /\ Call.c # "callee" /\ vm' = t
    BY <1>2 DEF PrimFails, Raised, Do
  <2>2. s.mode = "err" /\ s.req = vm.req /\ IsVM(s) /\ Safe(t)
    BY <2>1, ErrorPasses
  <2>3. t.mode = "err" /\ t.req = vm.req
    <3> HIDE DEF s
    <3> QED BY <2>2 DEF IsVM
  <2> QED BY <2>1, <2>2, <2>3
<1>3. CASE TryCatches
  BY <1>3, TryCatchesSafe DEF TryCatches
<1>4. CASE Propagates
  BY <1>4, ErrorPasses DEF Propagates, Raised, Do
<1> QED BY <1>1, <1>2, <1>3, <1>4 DEF Failure

-----------------------------------------------------------------------------
(* The start of a binding and of the entry, every step, the theorems.      *)

\* Run starts with one frame, nobody waiting; its capabilities are shared.
LEMMA RunStarts ==
  ASSUME NEW s, IsVM(s), IsASeq(s.heap), s.heap # <<>>, s.calls = <<>>, s.depth = 0,
         NEW p, NEW ce, ce \in {NewCapEnv(0), NewCapEnv(1)}
  PROVE  OK(Run(s, p, ce)) /\ Run(s, p, ce).heap = s.heap
<1> DEFINE f == NewFrame(p, 0, ce)
           F == <<f>>
           a == [s EXCEPT !.stack = <<>>]
           b == [a EXCEPT !.locals = <<>>]
           c == [b EXCEPT !.frames = F]
           d == [c EXCEPT !.mode = "run"]
           t == [d EXCEPT !.req = <<>>]
<1>1. IsFrame(f) /\ ~f.barrier /\ f.cap = ce
  BY DEF NewFrame, IsFrame
<1> HIDE DEF f
<1>2. IsASeq(F) /\ Len(F) = 1 /\ F # <<>> /\ DOMAIN F = {1} /\ F[1] = f
  <2>1. F \in Seq({f})
    OBVIOUS
  <2>2. IsASeq(F)
    BY <2>1, SeqOfOwn
  <2> QED BY <2>2
<1> HIDE DEF F
<1>3. IsVM(t) /\ t.frames = F /\ t.calls = <<>> /\ t.heap = s.heap /\ t.depth = 0 /\ t.mode = "run"
  <2>1. IsVM(a) /\ a.calls = <<>> /\ a.heap = s.heap /\ a.depth = 0
    BY DEF IsVM
  <2> HIDE DEF a
  <2>2. IsVM(b) /\ b.calls = <<>> /\ b.heap = s.heap /\ b.depth = 0
    BY <2>1 DEF IsVM
  <2> HIDE DEF b
  <2>3. IsVM(c) /\ c.frames = F /\ c.calls = <<>> /\ c.heap = s.heap /\ c.depth = 0
    BY <2>2 DEF IsVM
  <2> HIDE DEF c
  <2>4. IsVM(d) /\ d.frames = F /\ d.calls = <<>> /\ d.heap = s.heap /\ d.depth = 0 /\ d.mode = "run"
    BY <2>3 DEF IsVM
  <2> HIDE DEF d
  <2> QED BY <2>4 DEF IsVM
<1>4. t = Run(s, p, ce)
  BY DEF Run, F, f
<1> HIDE DEF t
<1>5. IsASeq(<<>>) /\ Len(<<>>) = 0 /\ DOMAIN <<>> = {}
  <2>1. <<>> \in Seq({})
    OBVIOUS
  <2>2. IsASeq(<<>>)
    BY <2>1, SeqOfOwn
  <2> QED BY <2>2
<1>6. Control(F, <<>>)
  BY <1>1, <1>2, <1>5 DEF Control
<1>7. Sharing(F, <<>>, s.heap)
  <2>1. Len(s.heap) \in Nat /\ Len(s.heap) # 0
    BY SeqFacts
  <2>2. Owned(s.heap, ce)
    <3>1. \/ ce = [m |-> 0, shared |-> TRUE]
          \/ ce = [m |-> 1, shared |-> TRUE]
      BY DEF NewCapEnv
    <3>2. ce = [m |-> ce.m, shared |-> ce.shared] /\ ce.m \in {0, 1} /\ ce.shared = TRUE
      BY <3>1
    <3>3. ce.m \in 0..Len(s.heap)
      BY <2>1, <3>2
    <3>4. ce.shared \in BOOLEAN /\ ce.shared
      BY <3>2
    <3>5. IsEnv(s.heap, ce)
      BY <3>2, <3>3, <3>4 DEF IsEnv
    <3> QED BY <3>4, <3>5 DEF Owned
  <2> QED BY <1>1, <1>2, <1>5, <2>2 DEF Sharing, FrameFit
<1>8. Even(t)
  <2>1. Rank(t.calls, Len(t.calls)) = 0
    BY <1>3, <1>5, RankNone
  <2>2. t.depth = 0 /\ Len(t.frames) = 1
    BY <1>2, <1>3
  <2>3. t.depth = Len(t.frames) - Rank(t.calls, Len(t.calls)) - 1
    BY <2>1, <2>2
  <2> QED BY <2>3 DEF Even
<1>9. Runs(t)
  BY <1>3, <1>6, <1>7, <1>8 DEF Runs, Steady, Base, Looping
<1> QED BY <1>3, <1>4, <1>9 DEF OK

LEMMA RunCaps ==
  ASSUME NEW i, NEW bindings
  PROVE  RunCapEnv(i, bindings) \in {NewCapEnv(0), NewCapEnv(1)}
BY DEF RunCapEnv

\* A binding is done when the bottom frame returns: then nobody waits.
LEMMA BindingDoneSafe ==
  ASSUME OK(vm), BindingDone
  PROVE  Safe(vm')
<1> DEFINE F == vm.frames
           C == vm.calls
<1>1. vm.mode = "run" /\ Len(F) = 1
      /\ vm' = Run(vm, prog.roots[pos + 1], RunCapEnv(pos + 1, prog.bindings))
  BY DEF BindingDone, Returning, At
<1>2. Base(vm) /\ Looping(C) /\ Even(vm)
  BY <1>1, LoopRuns DEF Steady
<1>3. C = <<>>
  <2>1. Control(F, C) /\ Len(C) \in Nat /\ DOMAIN C = 1..Len(C) /\ (C = <<>> <=> Len(C) = 0)
    BY <1>2, SeqFacts DEF Base, Control
  <2>2. ASSUME C # <<>> PROVE FALSE
    <3>1. IsCallee(C, Len(C)) /\ Len(C) \in DOMAIN C
      BY <1>2, <2>1, <2>2 DEF Looping
    <3>2. CalleeOK(F, C, Len(C))
      BY <2>1, <3>1 DEF Control
    <3> QED BY <1>1, <3>2 DEF CalleeOK
  <2> QED BY <2>2
<1>4. vm.depth = 0
  BY <1>1, <1>2, <1>3, RankNone DEF Even
<1>5. IsVM(vm) /\ IsASeq(vm.heap) /\ vm.heap # <<>>
  BY <1>2 DEF Base, Sharing
<1>6. OK(vm') /\ vm'.heap = vm.heap
  BY <1>1, <1>3, <1>4, <1>5, RunCaps, RunStarts
<1> QED BY <1>6 DEF Safe, Unspoilt

\* The actions that end the program.
Ends == ProgramDone \/ RunFails

LEMMA StepSafe ==
  ASSUME OK(vm), prog \in Programs, Next, ~Ends
  PROVE  Safe(vm')
<1>1. CASE Execute
  BY <1>1, OrdinarySafe, FrameOpsSafe, WaitOpsSafe, ReturnSafe, MergeSafe DEF Execute, Ordinary
<1>2. CASE BindingDone
  BY <1>2, BindingDoneSafe
<1>3. CASE Apply
  BY <1>3, ApplySafe
<1>4. CASE Callback
  BY <1>4, CallbackSafe
<1>5. CASE Primitive
  BY <1>5, PrimitiveSafe
<1>6. CASE Result
  BY <1>6, ResultSafe
<1>7. CASE Failure
  BY <1>7, FailureSafe DEF Ends
<1> QED BY <1>1, <1>2, <1>3, <1>4, <1>5, <1>6, <1>7 DEF Next, Ends

\* The end leaves the heap alone.
LEMMA Ended ==
  ASSUME OK(vm), Ends
  PROVE  vm'.heap = vm.heap /\ vm'.mode \in {"done", "failed"}
         /\ (vm.mode = "err" => vm'.req = vm.req)
<1>1. IsVM(vm)
  BY DEF OK, Runs, Calls, Returns, Fails, Steady, Pending, Base
<1>2. CASE ProgramDone
  BY <1>1, <1>2 DEF ProgramDone, Do, Ask, Returning, At, IsVM
<1>3. CASE RunFails
  BY <1>1, <1>3 DEF RunFails, Do, IsVM
<1> QED BY <1>2, <1>3 DEF Ends

\* Only a program that has not ended takes a step, and only the last of calls
\* sees an error.
LEMMA StepModes ==
  ASSUME Next
  PROVE  Live /\ prog' = prog /\ (vm.mode = "err" => Failure)
<1>1. CASE Execute
  <2>1. vm.mode = "run" /\ \E s : Do(s)
    BY <1>1 DEF Execute, At, Returning, OpStep, Cancelled, OpLoadLocal, OpLoadGlobal, OpStoreLocal,
       OpPop, OpConst, OpConstUnit, OpPrimPartial, OpClosure, OpThunk, OpFixThunk, OpApply,
       OpApplyN, OpRecurseSelf, OpTailRecurseSelf, OpReturnForce, OpReturn, ReturnToBarrier,
       OpForce, OpForceEffectful, OpBind, OpMerge, OpCon, OpRecord, OpRecordProj,
       OpRecordUpdate, OpVariant, OpMatchCon, OpMatchLit, OpMatchLabel, OpMatchRecord,
       OpMatchFail, OpJump, OpPrim, OpEffectPrim
  <2> QED BY <2>1 DEF Live, Do
<1>2. CASE BindingDone \/ ProgramDone
  BY <1>2 DEF BindingDone, ProgramDone, Returning, At, Live, Do
<1>3. CASE Apply
  <2>1. vm.mode = "apply" /\ \E s : Do(s)
    BY <1>3 DEF Apply, Applying, ApplyEnter, ApplyPartial, ApplyOver, ApplyCon, ApplyPrimPartial,
       ApplyPrim, ApplyPrimOver, ApplyThunk, ApplyThunkN, ApplyOther
  <2> QED BY <2>1 DEF Live, Do
<1>4. CASE Callback
  <2>1. vm.mode \in {"host", "force"} /\ \E s : Do(s)
    BY <1>4 DEF Callback, Hosting, HostEnter, HostPartial, HostCon, HostPrimPartial, HostPrim,
       HostThunk, HostOther, ForceThunk, ForcePrim, ForceNothing
  <2> QED BY <2>1 DEF Live, Do
<1>5. CASE Primitive
  <2>1. vm.mode = "prim" /\ \E s : Do(s)
    BY <1>5 DEF Primitive, Prim, PrimAdd, PrimEmpty, PrimFoldl, PrimWalk, PrimFoldr, PrimToSlice,
       PrimFromSlice, PrimGet, PrimPut, PrimModify, PrimFail, PrimRunState, PrimTry
  <2> QED BY <2>1 DEF Live, Do
<1>6. CASE Result
  <2>1. vm.mode \in {"run", "ret"} /\ \E s : Do(s)
    BY <1>6 DEF Result, Receives, BarrierValue, CalleeReturns, PushReturns, BindReturns,
       MergeLeftReturns, MergeRightReturns, OverReturns, ThunkReturns, HostReturns,
       DriveReturns, FoldReturns, WalkReturns, ModifyReturns, StateReturns, TryReturns
  <2> QED BY <2>1 DEF Live, Do
<1>7. CASE Failure
  <2>1. vm.mode = "err" /\ \E s : Do(s)
    BY <1>7 DEF Failure, Raised, CalleeFails, PrimFails, TryCatches, Propagates, RunFails
  <2> QED BY <1>7, <2>1 DEF Live, Do
<1> QED BY <1>1, <1>2, <1>3, <1>4, <1>5, <1>6, <1>7 DEF Next

LEMMA InitInv == Init => IInv
<1> SUFFICES ASSUME Init PROVE IInv
  OBVIOUS
<1> DEFINE s == NewVM(prog.text.caps, prog.text.lim)
<1>1. IsVM(s) /\ s.heap = <<prog.text.caps>> /\ s.calls = <<>> /\ s.depth = 0
  BY DEF NewVM, IsVM
<1>2. IsASeq(s.heap) /\ s.heap # <<>>
  <2>1. s.heap \in Seq({prog.text.caps}) /\ s.heap # <<>>
    BY <1>1
  <2> QED BY <2>1, SeqOfOwn
<1>3. vm = Run(s, prog.roots[1], RunCapEnv(1, prog.bindings)) /\ prog \in Programs
  BY DEF Init
<1> HIDE DEF s
<1> QED BY <1>1, <1>2, <1>3, RunCaps, RunStarts, SMTT(40) DEF IInv

LEMMA StepInv == IInv /\ [Next]_vars => IInv'
<1> SUFFICES ASSUME IInv, [Next]_vars PROVE IInv'
  OBVIOUS
<1>1. CASE UNCHANGED vars
  BY <1>1 DEF vars, IInv, Live
<1>2. CASE Next
  <2>1. Live /\ prog' = prog /\ OK(vm)
    BY <1>2, StepModes DEF IInv
  <2>2. CASE Ends
    BY <2>1, <2>2, Ended DEF IInv, Live
  <2>3. CASE ~Ends
    BY <1>2, <2>1, <2>3, StepSafe DEF IInv, Safe
  <2> QED BY <2>2, <2>3
<1> QED BY <1>1, <1>2

\* Control stack, depth and saved capabilities fit together in every state
\* that execute, apply, the Applier callbacks, the primitives and runCallee
\* (vm_execute.go, vm_apply.go, vm_apply_host.go) reach, for every bytecode.
THEOREM InvariantHolds == Spec => []IInv
BY InitInv, StepInv, PTL DEF Spec

LEMMA StackMatches == IInv => FramesConsistent
<1> SUFFICES ASSUME IInv, Live
             PROVE  /\ {i \in DOMAIN vm.frames : vm.frames[i].barrier} = {vm.calls[k].fp + 1 : k \in Callees}
                    /\ \A j, k \in Callees : j < k => vm.calls[j].fp < vm.calls[k].fp
                    /\ vm.mode # "err" => vm.depth = Len(vm.frames) - Cardinality(Callees) - 1
  BY DEF FramesConsistent
<1> DEFINE F == vm.frames
           C == vm.calls
<1>1. Control(F, C) /\ (vm.mode # "err" => Even(vm))
  BY DEF IInv, OK, Runs, Calls, Returns, Fails, Steady, Pending, Base
<1>2. /\ Len(C) \in Nat /\ DOMAIN C = 1..Len(C) /\ DOMAIN F = 1..Len(F) /\ Len(F) \in Nat
      /\ Callees = {j \in 1..Len(C) : IsCallee(C, j)}
  BY <1>1, SeqFacts DEF Control, Callees, IsCallee
<1>3. \A k \in Callees : C[k].fp + 1 \in DOMAIN F
  BY <1>1, <1>2 DEF Control, CalleeOK
<1>4. \A i \in DOMAIN F : F[i].barrier <=> \E k \in Callees : C[k].fp + 1 = i
  BY <1>1, <1>2 DEF Control
<1>5. {i \in DOMAIN F : F[i].barrier} = {C[k].fp + 1 : k \in Callees}
  BY <1>3, <1>4
<1>6. \A j, k \in Callees : j < k => C[j].fp < C[k].fp
  BY <1>1, <1>2 DEF Control
<1>7. vm.mode # "err" => vm.depth = Len(F) - Cardinality(Callees) - 1
  BY <1>1, <1>2 DEF Even, Rank
<1> QED BY <1>5, <1>6, <1>7

\* Whatever mix of returns, callbacks and failures led to a state, each barrier
\* frame belongs to one pending runCallee (vm_apply_host.go) and the depth of
\* the budget counts the call frames above the first.
THEOREM FramesStayConsistent == Spec => []FramesConsistent
BY InvariantHolds, StackMatches, PTL

\* No step of the machine changes a capability map in place that the host, a
\* tryAt or a merge has put aside (capenv.go, MarkShared).
THEOREM SavedCapsStayIntact == Spec => SavedCapsIntact
<1>1. IInv /\ [Next]_vars =>
        [/\ vm'.heap[1] = vm.heap[1]
         /\ \A i \in DOMAIN vm.calls :
              /\ vm.calls[i].c \in {"try", "merged"} =>
                   Caps(vm'.heap, vm.calls[i].ce) = Caps(vm.heap, vm.calls[i].ce)
              /\ vm.calls[i].c = "merge" =>
                   Caps(vm'.heap, vm.calls[i].cap) = Caps(vm.heap, vm.calls[i].cap)]_vars
  <2> SUFFICES ASSUME IInv, Next PROVE Unspoilt(vm.calls, vm.heap, vm'.heap)
    BY DEF Unspoilt
  <2>1. OK(vm) /\ prog \in Programs
    BY StepModes DEF IInv
  <2>2. CASE Ends
    BY <2>1, <2>2, Ended DEF Unspoilt
  <2>3. CASE ~Ends
    BY <2>1, <2>3, StepSafe DEF Safe
  <2> QED BY <2>2, <2>3
<1> QED BY <1>1, InvariantHolds, PTL DEF Spec, SavedCapsIntact

\* No tryAt (fail.go) catches an error of the budget (budget.go).
THEOREM LimitsAlwaysEscape == Spec => LimitsEscape
<1>1. IInv /\ [Next]_vars =>
        [vm.mode = "err" /\ vm.req.e = "limit" =>
           vm'.mode \in {"err", "failed"} /\ vm'.req = vm.req]_vars
  <2> SUFFICES ASSUME IInv, Next, vm.mode = "err", vm.req.e = "limit"
               PROVE  vm'.mode \in {"err", "failed"} /\ vm'.req = vm.req
    OBVIOUS
  <2>1. OK(vm) /\ Failure /\ ~Caught
    BY StepModes DEF IInv, Caught
  <2>2. CASE RunFails
    <3>1. IsVM(vm)
      BY <2>1, ErrorRuns DEF Base
    <3> QED BY <2>2, <3>1 DEF RunFails, Do, IsVM
  <2>3. CASE ~RunFails
    BY <2>1, <2>3, FailureSafe
  <2> QED BY <2>2, <2>3
<1> QED BY <1>1, InvariantHolds, PTL DEF Spec, LimitsEscape

-----------------------------------------------------------------------------
(* Copy-on-write isolation of capability environments, for heaps of any    *)
(* size and any labels and values: whoever holds a shared environment      *)
(* keeps what it holds, whatever is done with a copy of it.                *)


CONSTANTS Labels, Values

\* Capability maps, heaps of them, and the environments over a heap.
CapMaps == UNION {[ls -> Values] : ls \in SUBSET Labels}
Heaps   == Seq(CapMaps)
Envs(h) == [m : 0..Len(h), shared : BOOLEAN]

LEMMA EmptyMap == <<>> \in CapMaps /\ DOMAIN <<>> = {}
<1>1. PICK e : e = <<>>
  OBVIOUS
<1>2. DOMAIN e = {} /\ e = [x \in {} |-> 0]
  BY <1>1
<1>3. e \in [{} -> Values]
  BY <1>2
<1> QED BY <1>1, <1>2, <1>3 DEF CapMaps

LEMMA MapType ==
  ASSUME NEW m
  PROVE  m \in CapMaps <=> m \in [DOMAIN m -> Values] /\ DOMAIN m \subseteq Labels
BY DEF CapMaps

LEMMA CapsType ==
  ASSUME NEW h \in Heaps, NEW ce \in Envs(h)
  PROVE  Caps(h, ce) \in CapMaps
<1>1. ce.m \in 0..Len(h) /\ Len(h) \in Nat
  BY DEF Heaps, Envs
<1>2. CASE ce.m = 0
  BY <1>2, EmptyMap DEF Caps
<1>3. CASE ce.m # 0
  <2>1. ce.m \in 1..Len(h)
    BY <1>1, <1>3
  <2> QED BY <1>3, <2>1 DEF Caps, Heaps
<1> QED BY <1>2, <1>3

LEMMA MergedMap ==
  ASSUME NEW f \in CapMaps, NEW m \in CapMaps, NEW n, n = MergeCaps(f, m)
  PROVE  /\ n \in CapMaps /\ DOMAIN n = DOMAIN f \cup DOMAIN m
         /\ \A x \in DOMAIN f : n[x] = f[x]
         /\ \A x \in DOMAIN m \ DOMAIN f : n[x] = m[x]
<1>1. n = [x \in DOMAIN f \cup DOMAIN m |-> IF x \in DOMAIN f THEN f[x] ELSE m[x]]
  BY DEF MergeCaps
<1>2. /\ f \in [DOMAIN f -> Values] /\ DOMAIN f \subseteq Labels
      /\ m \in [DOMAIN m -> Values] /\ DOMAIN m \subseteq Labels
  BY MapType
<1>3. n \in [DOMAIN f \cup DOMAIN m -> Values] /\ DOMAIN n = DOMAIN f \cup DOMAIN m
  BY <1>1, <1>2
<1>4. n \in CapMaps
  BY <1>2, <1>3, MapType
<1> QED BY <1>1, <1>3, <1>4

LEMMA SetMap ==
  ASSUME NEW m \in CapMaps, NEW l \in Labels, NEW v \in Values
  PROVE  SetCap(m, l, v) \in CapMaps
<1>1. m \in [DOMAIN m -> Values] /\ DOMAIN m \subseteq Labels
  BY MapType
<1>2. PICK n : n = SetCap(m, l, v)
  OBVIOUS
<1>3. n \in [DOMAIN m \cup {l} -> Values] /\ DOMAIN n = DOMAIN m \cup {l}
  BY <1>1, <1>2 DEF SetCap
<1> QED BY <1>1, <1>2, <1>3, MapType

LEMMA OnlyMap ==
  ASSUME NEW m \in CapMaps, NEW ls
  PROVE  Only(m, ls) \in CapMaps
<1>1. m \in [DOMAIN m -> Values] /\ DOMAIN m \subseteq Labels
  BY MapType
<1>2. PICK n : n = Only(m, ls)
  OBVIOUS
<1>3. n = [l \in DOMAIN m \cap ls |-> m[l]]
  BY <1>2 DEF Only
<1>4. n \in [DOMAIN n -> Values] /\ DOMAIN n \subseteq Labels
  BY <1>1, <1>3
<1> QED BY <1>2, <1>4, MapType

-----------------------------------------------------------------------------
(* What an operation may do to the heap.                                   *)

\* The environments whose contents an operation on ce must leave alone: all
\* of them when ce is shared, those over another map when ce is the only
\* holder of its map.
Untouched(h, ce, r) ==
  \A d \in Envs(h) :
    ce.shared \/ ce.m = 0 \/ d.m # ce.m => d \in Envs(r.h) /\ Caps(r.h, d) = Caps(h, d)

\* r is a heap and an environment that holds m.
Holds(h, ce, m, r) ==
  /\ r.h \in Heaps /\ r.ce \in Envs(r.h) /\ Caps(r.h, r.ce) = m
  /\ Untouched(h, ce, r)

LEMMA SameHolds ==
  ASSUME NEW h \in Heaps, NEW ce \in Envs(h), NEW d \in Envs(h), NEW r, r = Same(h, d)
  PROVE  Holds(h, ce, Caps(h, d), r)
BY DEF Same, Holds, Untouched

LEMMA FreshHolds ==
  ASSUME NEW h \in Heaps, NEW ce \in Envs(h), NEW m \in CapMaps, NEW r, r = Fresh(h, m)
  PROVE  Holds(h, ce, m, r) /\ ~r.ce.shared
<1>1. PICK k : k = Append(h, m)
  OBVIOUS
<1>2. /\ k \in Heaps /\ Len(h) \in Nat /\ Len(k) = Len(h) + 1 /\ k[Len(h) + 1] = m
      /\ \A i \in 1..Len(h) : k[i] = h[i]
  BY <1>1 DEF Heaps
<1>3. r.h = k /\ r.ce = [m |-> Len(h) + 1, shared |-> FALSE]
  BY <1>1 DEF Fresh
<1>4. r.ce \in Envs(r.h) /\ Caps(r.h, r.ce) = m /\ ~r.ce.shared
  BY <1>2, <1>3 DEF Envs, Caps
<1>5. ASSUME NEW d \in Envs(h) PROVE d \in Envs(r.h) /\ Caps(r.h, d) = Caps(h, d)
  <2>1. d.m \in 0..Len(h) /\ d.shared \in BOOLEAN /\ d = [m |-> d.m, shared |-> d.shared]
    BY DEF Envs
  <2>2. d \in Envs(k)
    BY <1>2, <2>1 DEF Envs
  <2>3. Caps(k, d) = Caps(h, d)
    BY <1>2, <2>1 DEF Caps
  <2> QED BY <1>3, <2>2, <2>3
<1> QED BY <1>2, <1>3, <1>4, <1>5 DEF Holds, Untouched

LEMMA WriteHolds ==
  ASSUME NEW h \in Heaps, NEW ce \in Envs(h), NEW m \in CapMaps, NEW r, r = Write(h, ce, m)
  PROVE  Holds(h, ce, m, r) /\ ~r.ce.shared
<1>1. CASE ce.m = 0 \/ ce.shared
  BY <1>1, FreshHolds DEF Write
<1>2. CASE ce.m # 0 /\ ~ce.shared
  <2>1. PICK k : k = [h EXCEPT ![ce.m] = m]
    OBVIOUS
  <2>2. ce.m \in 1..Len(h) /\ Len(h) \in Nat
    BY <1>2 DEF Envs, Heaps
  <2>3. k \in Heaps /\ Len(k) = Len(h) /\ k[ce.m] = m /\ \A i \in 1..Len(h) : i # ce.m => k[i] = h[i]
    BY <2>1, <2>2 DEF Heaps
  <2>4. r.h = k /\ r.ce = ce
    BY <1>2, <2>1 DEF Write, Same
  <2>5. Envs(k) = Envs(h)
    BY <2>3 DEF Envs
  <2>6. ASSUME NEW d \in Envs(h), d.m # ce.m PROVE Caps(k, d) = Caps(h, d)
    <3>1. d.m \in 0..Len(h)
      BY DEF Envs
    <3> QED BY <2>2, <2>3, <2>6, <3>1 DEF Caps
  <2>7. Caps(k, ce) = m
    BY <1>2, <2>3 DEF Caps
  <2> QED BY <1>2, <2>3, <2>4, <2>5, <2>6, <2>7 DEF Holds, Untouched
<1> QED BY <1>1, <1>2

-----------------------------------------------------------------------------
(* The theorems.                                                           *)

\* Every operation of capenv.go gives an environment with the contents asked
\* for and leaves the contents of every other environment as they were; an
\* environment marked shared is itself among those others.
THEOREM CopyOnWrite ==
  ASSUME NEW h \in Heaps, NEW ce \in Envs(h)
  PROVE  /\ \A l \in Labels, v \in Values :
              Holds(h, ce, SetCap(Caps(h, ce), l, v), Set(h, ce, l, v))
         /\ \A l \in Labels :
              Holds(h, ce, Only(Caps(h, ce), DOMAIN Caps(h, ce) \ {l}), Delete(h, ce, l))
         /\ \A ls \in SUBSET Labels :
              Holds(h, ce, Only(Caps(h, ce), ls), Filter(h, ce, ls))
         /\ \A other \in Envs(h) :
              Holds(h, ce, MergeCaps(Caps(h, other), Caps(h, ce)), MergeWith(h, ce, other))
<1>1. PICK caps : caps = Caps(h, ce)
  OBVIOUS
<1>2. caps \in CapMaps /\ (ce.m # 0 => h[ce.m] = caps) /\ (ce.m = 0 => caps = <<>>)
  BY <1>1, CapsType DEF Caps
<1>3. EmptyCapEnv \in Envs(h) /\ Caps(h, EmptyCapEnv) = <<>>
  BY DEF EmptyCapEnv, Envs, Heaps, Caps
<1>4. \A ls : Only(<<>>, ls) = <<>> /\ \A m \in CapMaps : Only(m, {}) = <<>>
  <2>1. PICK e : e = <<>>
    OBVIOUS
  <2>2. DOMAIN e = {} /\ e = [x \in {} |-> 0]
    BY <2>1
  <2>3. \A ls : DOMAIN e \cap ls = {}
    BY <2>2
  <2>4. \A ls : Only(e, ls) = e
    BY <2>2, <2>3 DEF Only
  <2>5. \A m : DOMAIN m \cap {} = {}
    OBVIOUS
  <2>6. \A m : Only(m, {}) = e
    BY <2>2, <2>5 DEF Only
  <2> QED BY <2>1, <2>4, <2>6
<1>5. ASSUME NEW l \in Labels, NEW v \in Values
      PROVE  Holds(h, ce, SetCap(caps, l, v), Set(h, ce, l, v))
  <2>1. SetCap(caps, l, v) \in CapMaps
    BY <1>2, SetMap
  <2> QED BY <1>1, <2>1, WriteHolds DEF Set
<1>6. ASSUME NEW l \in Labels
      PROVE  Holds(h, ce, Only(caps, DOMAIN caps \ {l}), Delete(h, ce, l))
  <2>1. CASE ce.m = 0
    BY <1>1, <1>2, <1>4, <2>1, SameHolds DEF Delete
  <2>2. CASE ce.m # 0
    <3>1. Only(caps, DOMAIN caps \ {l}) \in CapMaps
      BY <1>2, OnlyMap
    <3> QED BY <1>2, <2>2, <3>1, WriteHolds DEF Delete
  <2> QED BY <2>1, <2>2
<1>7. ASSUME NEW ls \in SUBSET Labels
      PROVE  Holds(h, ce, Only(caps, ls), Filter(h, ce, ls))
  <2>1. CASE ce.m = 0 \/ ls = {}
    <3>1. Only(caps, ls) = <<>>
      BY <1>2, <1>4, <2>1
    <3> QED BY <1>3, <2>1, <3>1, SameHolds DEF Filter
  <2>2. CASE ce.m # 0 /\ ls # {}
    <3>1. Only(caps, ls) \in CapMaps
      BY <1>2, OnlyMap
    <3> QED BY <1>2, <2>2, <3>1, FreshHolds DEF Filter
  <2> QED BY <2>1, <2>2
<1>8. ASSUME NEW other \in Envs(h)
      PROVE  Holds(h, ce, MergeCaps(Caps(h, other), caps), MergeWith(h, ce, other))
  <2>1. PICK more : more = Caps(h, other)
    OBVIOUS
  <2>2. more \in CapMaps /\ (other.m = 0 => more = <<>>)
    BY <2>1, CapsType DEF Caps
  <2>3. CASE ce.m = 0 /\ other.m = 0
    <3>1. PICK e : e = <<>>
      OBVIOUS
    <3>2. DOMAIN e = {} /\ e = [x \in {} |-> 0]
      BY <3>1
    <3>3. MergeCaps(e, e) = e
      BY <3>2 DEF MergeCaps
    <3>4. MergeCaps(more, caps) = <<>>
      BY <1>2, <2>2, <2>3, <3>1, <3>3
    <3> QED BY <1>3, <2>1, <2>3, <3>4, SameHolds DEF MergeWith
  <2>4. CASE ~(ce.m = 0 /\ other.m = 0)
    <3>1. MergeCaps(more, caps) \in CapMaps
      BY <1>2, <2>2, MergedMap
    <3> QED BY <1>1, <2>1, <2>4, <3>1, FreshHolds DEF MergeWith
  <2> QED BY <2>3, <2>4
<1> QED BY <1>1, <1>5, <1>6, <1>7, <1>8

=============================================================================
