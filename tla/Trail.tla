-------------------------------- MODULE Trail -------------------------------
(***************************************************************************)
(* What the unifier remembers and how it takes it back                     *)
(* (internal/compiler/check/unify/unify_trail.go).                         *)
(*                                                                         *)
(* Every operation takes a unifier u and returns the next one: a record    *)
(*   soln, skolems, levels, labels   tables by number                      *)
(*   temp      the overlay of generalization                               *)
(*   trail     the writes to tables, [map, id, old] with nothing or one    *)
(*             value as old                                                *)
(*   depth     the snapshots taken and not yet ended                       *)
(*   fresh     the counter of metavariables and generated names            *)
(*   level     SolverLevel, -1 when touchability is off                    *)
(*   flex      FlexSkolems;  reduce  whether aliases and families are seen *)
(*   stuck     family applications given to the solver                     *)
(***************************************************************************)
EXTENDS Integers, Sequences

Tables == {"soln", "skolems", "levels", "labels"}

NewUnifier(fresh) ==
  [soln |-> <<>>, skolems |-> <<>>, levels |-> <<>>, labels |-> <<>>, temp |-> <<>>, trail |-> <<>>, depth |-> 0,
   fresh |-> fresh, level |-> 0, flex |-> FALSE, reduce |-> TRUE, stuck |-> <<>>]

--------------------------------------------------------------------------------
(* Writes.                                                                 *)
Removed(table, ids) == [x \in DOMAIN table \ ids |-> table[x]]

Put(u, map, id, v) == [u EXCEPT ![map] = [x \in DOMAIN @ \cup {id} |-> IF x = id THEN v ELSE @[x]]]

Held(u, map, id) == IF id \in DOMAIN u[map] THEN <<u[map][id]>> ELSE <<>>

Trailed(u, map, id) == [u EXCEPT !.trail = Append(@, [map |-> map, id |-> id, old |-> Held(u, map, id)])]

Write(u, map, id, v) == Put(Trailed(u, map, id), map, id, v)

(* A chain of solutions is shortened in the table, on the trail only while *)
(* a snapshot is open.                                                     *)
Compress(u, map, id, was, t) ==
  IF t = was THEN u ELSE IF u.depth > 0 THEN Write(u, map, id, t) ELSE Put(u, map, id, t)

InstallGivenEq(u, sk, t) == Write(u, "skolems", sk, t)
RemoveGivenEqs(u, sks) == [u EXCEPT !.skolems = Removed(@, sks)]

--------------------------------------------------------------------------------
(* Snapshots.                                                              *)
Undo(u, e) == IF e.old = <<>> THEN [u EXCEPT ![e.map] = Removed(@, {e.id})] ELSE Put(u, e.map, e.id, e.old[1])

Snapshot(u) == [u EXCEPT !.depth = @ + 1]
AbandonSnapshot(u) == [u EXCEPT !.depth = @ - 1]

Cut(u, pos) == [u EXCEPT !.trail = SubSeq(@, 1, pos), !.depth = @ - 1]

(* Mutant: the writes are undone oldest first. *)
RestoreForward(u, pos) ==
  LET done[k \in pos..Len(u.trail)] == IF k = pos THEN u ELSE Undo(done[k - 1], u.trail[k])
  IN  Cut(done[Len(u.trail)], pos)

Restore(u, pos) ==
  LET back[k \in pos..Len(u.trail)] == IF k = Len(u.trail) THEN u ELSE Undo(back[k + 1], u.trail[k + 1])
  IN  Cut(back[pos], pos)

(* A trial is kept when it succeeds, a probe never is; neither looks at    *)
(* touchability (checker.go).  t is the unifier when it began.             *)
Trial(u) == [Snapshot(u) EXCEPT !.level = -1]
Commit(u, t) == AbandonSnapshot([u EXCEPT !.level = t.level])
Rollback(u, t) == Restore([u EXCEPT !.level = t.level], Len(t.trail))

(* BeginProbeIsolated and EndProbeIsolated. *)
BeginProbe(u) == [Snapshot(u) EXCEPT !.level = -1, !.reduce = FALSE]
EndProbe(u, t) == Restore([u EXCEPT !.level = t.level, !.reduce = t.reduce, !.flex = t.flex], Len(t.trail))
=============================================================================
