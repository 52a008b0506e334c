------------------------------ MODULE InertSet ------------------------------
(***************************************************************************)
(* The inert set of the constraint solver (compiler/check/solve/inert.go)  *)
(* as a record and one operator per method.                                *)
(*                                                                         *)
(* The buckets of classMap and funEqs partition the constraints by name;   *)
(* no method looks at two names at once, so each map is one sequence here. *)
(* A bucket is a sequence: kick-out returns its constraints in order. The  *)
(* lists of scopeCts only grow until their scope is cleared and are then   *)
(* visited as a whole, so each is a set.                                   *)
(***************************************************************************)
EXTENDS Integers, FiniteSets, SequencesExt

CONSTANTS
  Cts,       \* constraints: pointers, each with its own identity
  Metas,     \* metavariable IDs
  Keys,      \* canonical keys of class constraints
  MaxDepth   \* bound: nesting of scopes

NoScope == -1    \* no entry in ctScope

Depths == 0..MaxDepth

InertSets == [
  classMap  : Seq(Cts), funEqs : Seq(Cts), givenEqs : Seq(Cts),
  metaIndex : [Metas -> Seq(Cts)], ctMetas : [Cts -> Seq(Metas)],
  resolutionKeys : SUBSET (Keys \X Cts),
  scopeDepth: Depths, ctScope : [Cts -> Depths \cup {NoScope}],
  scopeCts  : [Depths -> SUBSET Cts]]

NewInertSet == [
  classMap  |-> <<>>, funEqs |-> <<>>, givenEqs |-> <<>>,
  metaIndex |-> [m \in Metas |-> <<>>], ctMetas |-> [c \in Cts |-> <<>>],
  resolutionKeys |-> {},
  scopeDepth|-> 0, ctScope |-> [c \in Cts |-> NoScope],
  scopeCts  |-> [d \in Depths |-> {}]]

\* The elements of s at the places of I, in order.
Sift(s, I) ==
  LET kept[i \in 0..Len(s)] ==
        IF i = 0 THEN <<>> ELSE IF i \in I THEN Append(kept[i - 1], s[i]) ELSE kept[i - 1]
  IN  kept[Len(s)]

\* The elements of s that are in S; s without the first n[c] copies of each c.
Keep(s, S)       == Sift(s, {i \in DOMAIN s : s[i] \in S})
Occurs(s, x)     == Cardinality({i \in DOMAIN s : s[i] = x})
DropCopies(s, n) ==
  Sift(s, {i \in DOMAIN s : n[s[i]] < Cardinality({j \in 1..i : s[j] = s[i]})})

-----------------------------------------------------------------------------
(* Insertion.                                                              *)

\* Both directions of the index. ct enters the bucket of m once for each time
\* ids names m, and what the reverse map held for ct is overwritten.
indexMetas(is, ct, ids) ==
  IF ids = <<>> THEN is
  ELSE [is EXCEPT
    !.metaIndex = [m \in Metas |-> @[m] \o [i \in 1..Occurs(ids, m) |-> ct]],
    !.ctMetas[ct] = ids]

\* Variant: the depth is recorded and the list of the scope is not extended.
tagScopeUnlisted(is, ct) == [is EXCEPT !.ctScope[ct] = is.scopeDepth]

tagScope(is, ct) ==
  [is EXCEPT !.ctScope[ct] = is.scopeDepth,
             !.scopeCts[is.scopeDepth] = @ \cup {ct}]

\* A resolved class constraint also enters the resolution cache; a later one
\* with the same key takes its place there.
InsertClass(is, ct, ids, canonKey) ==
  [tagScope(indexMetas(is, ct, ids), ct) EXCEPT
    !.classMap = Append(@, ct),
    !.resolutionKeys = {p \in @ : p[1] # canonKey} \cup {<<canonKey, ct>>}]

\* The constraint resolved under the key: at most one.
LookupResolution(is, canonKey) ==
  {ct \in Cts : <<canonKey, ct>> \in is.resolutionKeys}

InsertFunEq(is, ct, blockingOn) ==
  [tagScope(indexMetas(is, ct, blockingOn), ct) EXCEPT !.funEqs = Append(@, ct)]

\* A stuck equality lives in the meta index only.
InsertEq(is, ct, blockingOn) == tagScope(indexMetas(is, ct, blockingOn), ct)

InsertGiven(is, ct) == [tagScope(is, ct) EXCEPT !.givenEqs = Append(@, ct)]

-----------------------------------------------------------------------------
(* Removal.                                                                *)

\* One copy of each constraint of S leaves the bucket of m for each time the
\* reverse map names m; the map forgets the constraints, so that any copy of
\* them left behind stays.
Unindexed(is, S, m) ==
  DropCopies(is.metaIndex[m], [c \in Cts |-> IF c \in S THEN Occurs(is.ctMetas[c], m) ELSE 0])

RemoveFromBuckets(is, ct, S) ==
  [is EXCEPT
    !.metaIndex = [m \in Metas |-> IF m \in S THEN Unindexed(is, {ct}, m) ELSE @[m]],
    !.ctMetas[ct] = <<>>]

removeFromOtherMetaBuckets(is, ct, skip) ==
  RemoveFromBuckets(is, ct, ToSet(is.ctMetas[ct]) \ {skip})

removeClass(is, ct)  == [is EXCEPT !.classMap = RemoveFirst(@, ct)]
removeFunEq(is, ct)  == [is EXCEPT !.funEqs = RemoveFirst(@, ct)]
RemovePrimary(is, ct) == removeClass(removeFunEq(is, ct), ct)

\* The constraints blocked on m, in bucket order and as often as they are in the
\* bucket, and the set without them. ctScope and scopeCts keep their entries.
KickOutCts(is, m) == is.metaIndex[m]

KickOut(is, m) ==
  LET out[i \in 0..Len(is.metaIndex[m])] ==
        IF i = 0 THEN [is EXCEPT !.metaIndex[m] = <<>>]
        ELSE removeFromOtherMetaBuckets(RemovePrimary(out[i - 1], is.metaIndex[m][i]),
                                        is.metaIndex[m][i], m)
  IN  out[Len(is.metaIndex[m])]

\* Every family equation and every stuck equality among S, each once: S is the
\* set of constraints whose types mention the skolem. ctMetas of an equality
\* and scopeCts keep their entries.
SkolemCts(is, S) ==
  Keep(is.funEqs, S) \o
  SetToSeq({ct \in S : \E m \in Metas : Contains(is.metaIndex[m], ct)}
           \ ToSet(is.classMap \o is.funEqs))

\* The set without them: kicked is SkolemCts(is, S).
WithoutSkolemCts(is, S, kicked) ==
  [is EXCEPT
    !.funEqs = Keep(@, Cts \ S),
    !.metaIndex = [m \in Metas |->
       Keep(@[m], {ct \in Cts : \/ ct \notin kicked
                               \/ /\ Contains(is.funEqs, ct)
                                  /\ ~Contains(is.ctMetas[ct], m)})],
    !.ctMetas = [c \in Cts |-> IF c \in kicked /\ Contains(is.funEqs, c) THEN <<>> ELSE @[c]],
    !.ctScope = [c \in Cts |-> IF c \in kicked THEN NoScope ELSE @[c]]]

KickOutMentioningSkolem(is, S) == WithoutSkolemCts(is, S, ToSet(SkolemCts(is, S)))

\* Everything tagged at depth d or deeper leaves; any removal empties the cache.
ClearCts(is, d, gone) ==
  [is EXCEPT
    !.classMap = Keep(@, Cts \ gone),
    !.funEqs   = Keep(@, Cts \ gone),
    !.givenEqs = Keep(@, Cts \ gone),
    !.metaIndex = [m \in Metas |-> Unindexed(is, gone, m)],
    !.ctMetas = [c \in Cts |-> IF c \in gone THEN <<>> ELSE @[c]],
    !.ctScope = [c \in Cts |-> IF c \in gone THEN NoScope ELSE @[c]],
    !.scopeCts = [e \in Depths |-> IF e >= d THEN {} ELSE @[e]],
    !.resolutionKeys = IF gone = {} THEN @ ELSE {}]

clearScope(is, d) == ClearCts(is, d, UNION {is.scopeCts[e] : e \in d..MaxDepth})

Reset(is) == clearScope(is, is.scopeDepth)

EnterScope(is) == [is EXCEPT !.scopeDepth = @ + 1]

LeaveScope(is) == [clearScope(is, is.scopeDepth) EXCEPT !.scopeDepth = @ - 1]

-----------------------------------------------------------------------------
(* What is in the set.                                                     *)

Indexed(is) == UNION {ToSet(is.metaIndex[m]) : m \in Metas}
Members(is) == ToSet(is.classMap) \cup ToSet(is.funEqs) \cup Indexed(is)
=============================================================================
