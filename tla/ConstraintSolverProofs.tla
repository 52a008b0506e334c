----------------------- MODULE ConstraintSolverProofs -----------------------
(***************************************************************************)
(* The solver keeps every constraint in one place, blocked on what is      *)
(* unsolved, owned by an open scope, and never loses a class constraint,   *)
(* for every program, signature and depth of branches.                     *)
(***************************************************************************)
EXTENDS SolverLemmas

-----------------------------------------------------------------------------
(* The inductive invariant, on the states a step threads.                  *)

States == [
  soln : Solutions, args : [Cts -> Pairs], worklist : Seq(Cts), inert : Inert!InertSets,
  residuals : Seq(Cts), resolutions : SUBSET Cts,
  ambiguityCache : SUBSET (Pairs \X BOOLEAN), inaccessible : BOOLEAN,
  fate : [Cts -> Fates], ok : BOOLEAN]

\* StuckAreBlocked of a state.
Blocked(s, is) ==
  \A m \in Metas :
    s[m] # None => \A c \in ToSet(is.metaIndex[m]) : c \notin Of("fun") \cup Of("eq")

\* A given is processed before any class constraint is resolved: nothing kicked
\* out in front of one is a class constraint.
GivensFirst(st) ==
  /\ Ordered(st.worklist)
  /\ Elems(st.inert.classMap) # {} => Elems(st.worklist) \cap Of("given") = {}

Sound(st) ==
  /\ st \in States
  /\ Acyclic(st.soln) /\ InertOK(st.inert) /\ OfScope(st.inert)
  /\ Blocked(st.soln, st.inert)
  /\ GivensFirst(st)
  /\ \A c \in Of("given") : st.args[c] = Args[c]
  /\ \A c \in Elems(st.inert.classMap) : st.fate[c] # "pending"

\* A constraint is in one place. Those of away are held outside the state: in
\* the worklists of the enclosing scopes, in hand, or still to be retried.
Placed(st, away) ==
  /\ Once(st.worklist) /\ Once(st.residuals)
  /\ Elems(st.worklist) \cap Members(st.inert) = {}
  /\ Elems(st.residuals) \cap (Elems(st.worklist) \cup Members(st.inert)) = {}
  /\ away \cap (Elems(st.worklist) \cup Members(st.inert) \cup Elems(st.residuals)) = {}
  /\ \A c \in Elems(st.worklist) \cup Members(st.inert) \cup Elems(st.residuals)
             \cup (away \ Nested) :
       st.fate[c] \notin {"new", "absent"}
  /\ ToSet(st.residuals) \subseteq Of("class")
  /\ Members(st.inert) \cap Of("given") = {}

Good(st, away) == Sound(st) /\ Placed(st, away)

\* ts unifies with the head h of an instance, both being zonked.
Matches(h, ts) ==
  /\ ts[1] \in Metas \/ ts[1] = h[1]
  /\ ts[2] \in Metas \/ ts[2] = h[2]
  /\ ts[1] = ts[2] => h[1] = h[2]

Ambiguous(ts) ==
  \E i, j \in 1..Len(Instances) :
    i # j /\ Matches(Instances[i].head, ts) /\ Matches(Instances[j].head, ts)

\* What a call of the given kind answers on ts.
MayDefer(kind, ts) ==
  SliceHasMeta(ts) /\ (kind = "local" \/ (kind = "deferrable" /\ Ambiguous(ts)))

NoGivens(st) == Elems(st.worklist) \cap Of("given") = {}

\* The cached answers are right.
CacheOK(st) == \A p \in st.ambiguityCache : p[2] <=> Ambiguous(p[1])

\* During a call: what it has resolved it would not defer any more, whatever
\* has been solved since.
Answers(kind, st) ==
  /\ Elems(st.inert.classMap) \subseteq st.resolutions /\ st.resolutions \subseteq Of("class")
  /\ st.resolutions # {} \/ st.residuals # <<>> => NoGivens(st)
  /\ Elems(st.residuals) \cap st.resolutions = {}
  /\ \A c \in st.resolutions : ~MayDefer(kind, zonkAll(st.soln, st.args[c]))
  /\ \A p \in st.inert.resolutionKeys : p[2] \in st.resolutions /\ ~MayDefer(kind, p[1])
  /\ CacheOK(st)
  /\ kind = "resolve" => st.residuals = <<>>

\* Between calls nothing of the last one is left.
Resting(st) ==
  st.inert.classMap = <<>> /\ st.inert.resolutionKeys = {} /\ st.residuals = <<>>

\* ClassesNeverLost of a state.
Found(st, away) ==
  \A c \in Of("class") :
    st.fate[c] = "pending" => c \in Elems(st.worklist) \cup Elems(st.residuals) \cup away

Scoped(fs) == {i \in DOMAIN fs : fs[i].scoped}

FramesOK ==
  /\ frames \in Seq([saved : Seq(Cts), given : Cts, scoped : BOOLEAN])
  /\ Len(frames) <= MaxDepth
  /\ level = Cardinality(Scoped(frames)) /\ level = inert.scopeDepth
  /\ \A i \in DOMAIN frames :
       /\ Once(frames[i].saved) /\ Ordered(frames[i].saved)
       /\ frames[i].given \in Of("given")
       /\ ~frames[i].scoped => frames[i].saved = <<>>
  /\ \A i, j \in DOMAIN frames :
       i # j => Elems(frames[i].saved) \cap Elems(frames[j].saved) = {}

CallOK ==
  /\ call \in Calls /\ stopped \in BOOLEAN /\ limited \in BOOLEAN
  /\ solverLevel = IF call = "local" THEN level ELSE -1
  /\ call = "local" => frames # <<>> /\ Last(frames).scoped
  /\ IF call = "idle" THEN Resting(State) ELSE Answers(call, State)
  /\ stopped => limited

\* What the enclosing scopes have saved.
SavedIn(fs) == UNION {Elems(fs[i].saved) : i \in DOMAIN fs}
Aside == SavedIn(frames)

SolverInv ==
  /\ Good(State, Aside)
  /\ FramesOK /\ CallOK
  /\ ~limited => Found(State, Aside)

\* Under s2 no call defers what it would not defer under s.
Narrows(s, s2) ==
  \A kind \in Calls, ts \in Pairs :
    MayDefer(kind, zonkAll(s2, ts)) => MayDefer(kind, zonkAll(s, ts))

\* What unification may do to a state: extend the solutions and put inert
\* constraints back on the worklist.
Woken(st, r) ==
  /\ r.args = st.args /\ r.residuals = st.residuals /\ r.resolutions = st.resolutions
  /\ r.fate = st.fate
  /\ CacheOK(st) => CacheOK(r)
  /\ Narrows(st.soln, r.soln)
  /\ Members(r.inert) \subseteq Members(st.inert)
  /\ Elems(st.worklist) \subseteq Elems(r.worklist)
  /\ Elems(r.worklist) \subseteq Elems(st.worklist) \cup Members(st.inert)
  /\ Elems(r.inert.classMap) \subseteq Elems(st.inert.classMap)
  /\ r.inert.resolutionKeys = st.inert.resolutionKeys
  /\ r.inert.scopeDepth = st.inert.scopeDepth
  /\ \A m \in Metas : ToSet(r.inert.metaIndex[m]) \subseteq ToSet(st.inert.metaIndex[m])

-----------------------------------------------------------------------------
(* Unification.                                                            *)

\* The metavariables a constraint is indexed under.
LEMMA MetaIDs ==
  ASSUME NEW ts \in Pairs
  PROVE  /\ collectMetaIDs(ts) \in Seq(Metas) /\ IsInjective(collectMetaIDs(ts))
         /\ ToSet(collectMetaIDs(ts)) = Metas \cap {ts[1], ts[2]}
         /\ SliceHasMeta(ts) <=> ts[1] \in Metas \/ ts[2] \in Metas
         /\ blocking(ts) \in Seq(Metas) /\ ToSet(blocking(ts)) = Metas \cap {ts[1], ts[2]}
         /\ ts[1] # ts[2] => IsInjective(blocking(ts))
<1> DEFINE p == metaOf(ts[1])
           q == metaOf(ts[2])
<1>1. \A t : /\ metaOf(t) \in Seq(Metas) /\ ToSet(metaOf(t)) = Metas \cap {t}
             /\ (metaOf(t) = <<>> <=> t \notin Metas)
             /\ IsInjective(metaOf(t))
  <2>1. ASSUME NEW t, t \in Metas
        PROVE  /\ <<t>> \in Seq(Metas) /\ ToSet(<<t>>) = {t} /\ <<t>> # <<>>
               /\ IsInjective(<<t>>)
    BY <2>1 DEF ToSet, IsInjective
  <2>2. /\ IsInjective(<<>>) /\ <<>> \in Seq(Metas)
    BY DEF IsInjective
  <2>3. ASSUME NEW t, t \in Metas
        PROVE  metaOf(t) = <<t>> /\ Metas \cap {t} = {t}
    BY <2>3 DEF metaOf
  <2>4. ASSUME NEW t, t \notin Metas
        PROVE  metaOf(t) = <<>> /\ Metas \cap {t} = {}
    BY <2>4 DEF metaOf
  <2>5. ASSUME NEW t, t \notin Metas
        PROVE  /\ metaOf(t) \in Seq(Metas) /\ ToSet(metaOf(t)) = Metas \cap {t}
               /\ metaOf(t) = <<>> /\ IsInjective(metaOf(t))
    BY <2>2, <2>4, <2>5, EmptyElems
  <2> QED BY <2>1, <2>3, <2>5
<1>2. /\ p \in Seq(Metas) /\ ToSet(p) = Metas \cap {ts[1]} /\ (p = <<>> <=> ts[1] \notin Metas)
      /\ q \in Seq(Metas) /\ ToSet(q) = Metas \cap {ts[2]} /\ (q = <<>> <=> ts[2] \notin Metas)
  BY <1>1
<1>3. IsInjective(p)
  BY <1>1
<1>4. ts[1] # ts[2] => IsInjective(p \o q)
  <2>1. p = (IF ts[1] \in Metas THEN <<ts[1]>> ELSE <<>>)
        /\ q = (IF ts[2] \in Metas THEN <<ts[2]>> ELSE <<>>)
    BY DEF metaOf
  <2> HIDE DEF p, q
  <2> QED BY <2>1 DEF IsInjective
<1> HIDE DEF p, q
<1>5. p \o q \in Seq(Metas) /\ ToSet(p \o q) = ToSet(p) \cup ToSet(q)
  BY <1>2, ConcatElems
<1>6. p \o q = <<>> <=> p = <<>> /\ q = <<>>
  BY <1>2
<1>7. blocking(ts) = p \o q
  BY DEF blocking, p, q
<1>8. CASE ts[1] = ts[2]
  <2>1. collectMetaIDs(ts) = p
    BY <1>8 DEF collectMetaIDs, p
  <2> QED BY <1>2, <1>3, <1>5, <1>7, <1>8, <2>1 DEF SliceHasMeta
<1>9. CASE ts[1] # ts[2]
  <2>1. collectMetaIDs(ts) = p \o q
    BY <1>9 DEF collectMetaIDs, p, q
  <2> QED BY <1>2, <1>4, <1>5, <1>6, <1>7, <1>9, <2>1 DEF SliceHasMeta
<1> QED BY <1>8, <1>9

LEMMA ZonkPair ==
  ASSUME NEW s \in Solutions, Acyclic(s), NEW ts \in Pairs
  PROVE  /\ zonkAll(s, ts) \in Pairs
         /\ \A i \in {1, 2} : /\ zonkAll(s, ts)[i] = Zonk(s, ts[i])
                              /\ zonkAll(s, ts)[i] \in Vars => s[zonkAll(s, ts)[i]] = None
         /\ zonkAll(s, zonkAll(s, ts)) = zonkAll(s, ts)
<1>1. ts[1] \in Types /\ ts[2] \in Types
  BY DEF Pairs
<1>2. /\ Zonk(s, ts[1]) \in Types /\ (Zonk(s, ts[1]) \in Vars => s[Zonk(s, ts[1])] = None)
      /\ Zonk(s, ts[2]) \in Types /\ (Zonk(s, ts[2]) \in Vars => s[Zonk(s, ts[2])] = None)
  BY <1>1, ZonkRoot
<1>3. Zonk(s, Zonk(s, ts[1])) = Zonk(s, ts[1]) /\ Zonk(s, Zonk(s, ts[2])) = Zonk(s, ts[2])
  BY <1>1, ZonkIdempotent
<1> QED BY <1>2, <1>3 DEF zonkAll, Pairs

\* Solving a metavariable leaves a call no new reason to defer.
LEMMA NarrowsSolve ==
  ASSUME NEW s \in Solutions, Acyclic(s), NEW m \in Metas, s[m] = None,
         NEW t \in Types, m # t, t \in Vars => s[t] = None
  PROVE  Narrows(s, [s EXCEPT ![m] = t])
<1> SUFFICES ASSUME NEW kind \in Calls, NEW ts \in Pairs,
                    MayDefer(kind, zonkAll([s EXCEPT ![m] = t], ts))
             PROVE  MayDefer(kind, zonkAll(s, ts))
  BY DEF Narrows
<1>1. PICK z : z = zonkAll(s, ts)
  OBVIOUS
<1>2. PICK y : y = zonkAll([s EXCEPT ![m] = t], ts)
  OBVIOUS
<1>3. z \in Pairs /\ z[1] = Zonk(s, ts[1]) /\ z[2] = Zonk(s, ts[2])
  BY <1>1, ZonkPair
<1>4. /\ [s EXCEPT ![m] = t] \in Solutions /\ Acyclic([s EXCEPT ![m] = t])
  BY AcyclicExtend DEF Vars
<1>5. y \in Pairs /\ y[1] = Zonk([s EXCEPT ![m] = t], ts[1]) /\ y[2] = Zonk([s EXCEPT ![m] = t], ts[2])
  BY <1>2, <1>4, ZonkPair
<1>6. /\ y[1] = IF z[1] = m THEN t ELSE z[1]
      /\ y[2] = IF z[2] = m THEN t ELSE z[2]
  <2>1. ts[1] \in Types /\ ts[2] \in Types /\ m \in Vars
    BY DEF Pairs, Vars
  <2> QED BY <1>3, <1>5, <2>1, ZonkExtend
<1>7. SliceHasMeta(y) => SliceHasMeta(z)
  BY <1>3, <1>5, <1>6, MetaIDs
<1>8. ASSUME NEW h, Matches(h, y) PROVE Matches(h, z)
  BY <1>6, <1>8 DEF Matches
<1>9. Ambiguous(y) => Ambiguous(z)
  BY <1>8 DEF Ambiguous
<1> QED BY <1>1, <1>2, <1>7, <1>9 DEF MayDefer

LEMMA StateType ==
  ASSUME NEW st \in States
  PROVE  /\ st.soln \in Solutions /\ st.args \in [Cts -> Pairs]
         /\ st.worklist \in Seq(Cts) /\ st.inert \in Inert!InertSets
         /\ st.residuals \in Seq(Cts) /\ st.resolutions \subseteq Cts
         /\ st.ambiguityCache \subseteq Pairs \X BOOLEAN /\ st.inaccessible \in BOOLEAN
         /\ st.fate \in [Cts -> Fates] /\ st.ok \in BOOLEAN
BY DEF States

\* A state that differs only in what the placement does not speak of.
SamePlaces(st, r) ==
  /\ r \in States /\ r.soln = st.soln /\ r.args = st.args /\ r.worklist = st.worklist
  /\ r.inert = st.inert /\ r.residuals = st.residuals /\ r.fate = st.fate

LEMMA SameGood ==
  ASSUME NEW st, NEW r, NEW away, Good(st, away), SamePlaces(st, r)
  PROVE  Good(r, away)
<1>1. Sound(r)
  BY DEF Good, SamePlaces, Sound, GivensFirst
<1>2. Placed(r, away)
  BY DEF Good, SamePlaces, Placed
<1> QED BY <1>1, <1>2 DEF Good

LEMMA NarrowsRefl == \A s : Narrows(s, s)
BY DEF Narrows

LEMMA SameWoken ==
  ASSUME NEW st, NEW r, SamePlaces(st, r), r.resolutions = st.resolutions,
         CacheOK(st) => CacheOK(r)
  PROVE  Woken(st, r)
BY NarrowsRefl DEF SamePlaces, Woken

LEMMA WokenTrans ==
  ASSUME NEW st, NEW r, NEW q, Woken(st, r), Woken(r, q)
  PROVE  Woken(st, q)
<1>1. Narrows(st.soln, q.soln)
  BY DEF Woken, Narrows
<1> QED BY <1>1 DEF Woken

\* The index entries of a metavariable are members.
LEMMA IndexedMember ==
  ASSUME NEW is \in Inert!InertSets, NEW m \in Metas
  PROVE  Elems(is.metaIndex[m]) \subseteq Members(is)
BY MembersDef

Solving(st, m, t) == Reactivate([st EXCEPT !.soln[m] = t, !.ok = TRUE], m)

SolvedTo(st, m, t, r) ==
  Woken(st, r) /\ r.ok = TRUE /\ r.soln = [st.soln EXCEPT ![m] = t]

LEMMA SolveMetaOK ==
  ASSUME NEW st, NEW away, Good(st, away), NEW m \in Metas, st.soln[m] = None,
         NEW t \in Types, m # t, t \in Vars => st.soln[t] = None,
         NEW r, r = Solving(st, m, t)
  PROVE  Good(r, away) /\ SolvedTo(st, m, t, r)
<1>1. PICK is : is = st.inert
  OBVIOUS
<1>2. PICK b : b = is.metaIndex[m]
  OBVIOUS
<1>3. PICK k : k = Inert!KickOut(is, m)
  OBVIOUS
<1>4. PICK s : s = [st.soln EXCEPT ![m] = t]
  OBVIOUS
<1>5. /\ st \in States /\ Acyclic(st.soln) /\ InertOK(is) /\ OfScope(is)
      /\ Blocked(st.soln, is) /\ GivensFirst(st) /\ Placed(st, away)
      /\ is \in Inert!InertSets /\ b \in Seq(Cts) /\ st.soln \in Solutions
      /\ st.worklist \in Seq(Cts)
  BY <1>1, <1>2, StateType, InertType DEF Good, Sound
<1>6. s \in Solutions /\ Acyclic(s) /\ Narrows(st.soln, s)
  BY <1>4, <1>5, AcyclicExtend, NarrowsSolve DEF Vars
<1>7. Shrunk(is, ToSet(b), k) /\ k.metaIndex[m] = <<>>
  BY <1>2, <1>3, <1>5, KickOutOK
<1>8. /\ InertOK(k) /\ OfScope(k) /\ k \in Inert!InertSets
      /\ Members(k) = Members(is) \ Elems(b)
      /\ Elems(k.classMap) = Elems(is.classMap) \ Elems(b)
      /\ \A x \in Metas : ToSet(k.metaIndex[x]) \subseteq ToSet(is.metaIndex[x])
      /\ k.scopeDepth = is.scopeDepth /\ k.resolutionKeys = is.resolutionKeys
  <2>1. /\ InertOK(k) /\ OfScope(k) /\ Members(k) = Members(is) \ ToSet(b)
        /\ Elems(k.classMap) = Elems(is.classMap) \ ToSet(b)
        /\ \A x \in Metas : ToSet(k.metaIndex[x]) \subseteq ToSet(is.metaIndex[x])
        /\ k.scopeDepth = is.scopeDepth /\ k.resolutionKeys = is.resolutionKeys
    BY <1>5, <1>7 DEF Shrunk
  <2>2. k \in Inert!InertSets
    BY <2>1 DEF InertOK, Buckets
  <2>3. /\ Members(is) \ ToSet(b) = Members(is) \ Elems(b)
        /\ Elems(is.classMap) \ ToSet(b) = Elems(is.classMap) \ Elems(b)
    BY DEF Members, Elems
  <2> QED BY <2>1, <2>2, <2>3
<1>9. Elems(b) \subseteq Members(is)
  BY <1>2, <1>5, IndexedMember
<1>10. /\ b \o st.worklist \in Seq(Cts)
       /\ Elems(b \o st.worklist) = Elems(b) \cup Elems(st.worklist)
       /\ Once(b \o st.worklist)
  <2>1. Once(b) /\ Once(st.worklist) /\ Elems(b) \cap Elems(st.worklist) = {}
    BY <1>1, <1>2, <1>5, <1>9 DEF InertOK, Buckets, Placed
  <2> QED BY <1>5, <2>1, ConcatElems
<1>11. r = [st EXCEPT !.soln = s, !.ok = TRUE, !.worklist = b \o st.worklist, !.inert = k]
  BY <1>1, <1>2, <1>3, <1>4, <1>5 DEF Solving, Reactivate, Inert!KickOutCts, States
<1>12. /\ r \in States /\ r.soln = s /\ r.ok = TRUE /\ r.worklist = b \o st.worklist /\ r.inert = k
       /\ r.args = st.args /\ r.residuals = st.residuals /\ r.resolutions = st.resolutions
       /\ r.fate = st.fate /\ r.ambiguityCache = st.ambiguityCache
  BY <1>5, <1>6, <1>8, <1>10, <1>11 DEF States
<1>13. Blocked(s, k)
  <2> SUFFICES ASSUME NEW x \in Metas, s[x] # None, NEW c \in ToSet(k.metaIndex[x])
               PROVE  c \notin Of("fun") \cup Of("eq")
    BY DEF Blocked
  <2>1. CASE x = m
    BY <1>7, <2>1, EmptyElems
  <2>2. CASE x # m
    BY <1>4, <1>5, <1>8, <2>2 DEF Blocked, Solutions, Vars
  <2> QED BY <2>1, <2>2
<1>14. GivensFirst(r)
  <2>1. Elems(b) \cap Of("given") = {}
    BY <1>1, <1>5, <1>9 DEF Placed
  <2>2. Elems(b) \cap Of("class") \subseteq Elems(is.classMap)
    BY <1>2, <1>5 DEF InertOK, Kinds
  <2>3. Elems(b) \cap Of("class") = {} \/ Elems(st.worklist) \cap Of("given") = {}
    BY <1>1, <1>5, <2>2 DEF GivensFirst
  <2>4. Ordered(b \o st.worklist)
    BY <1>5, <2>1, <2>3, OrderedUniform, OrderedConcat DEF GivensFirst
  <2>5. Elems(k.classMap) # {} => Elems(b \o st.worklist) \cap Of("given") = {}
    BY <1>1, <1>5, <1>8, <1>10, <2>1 DEF GivensFirst
  <2> QED BY <1>12, <2>4, <2>5 DEF GivensFirst
<1>15. Sound(r)
  <2>1. /\ \A c \in Of("given") : r.args[c] = Args[c]
        /\ \A c \in Elems(k.classMap) : r.fate[c] # "pending"
    BY <1>1, <1>8, <1>12 DEF Good, Sound
  <2> QED BY <1>6, <1>8, <1>12, <1>13, <1>14, <2>1 DEF Sound
<1>16. Placed(r, away)
  BY <1>1, <1>5, <1>8, <1>9, <1>10, <1>12 DEF Placed
<1>17. Woken(st, r)
  BY <1>1, <1>6, <1>8, <1>9, <1>10, <1>12 DEF Woken, CacheOK
<1> QED BY <1>4, <1>12, <1>15, <1>16, <1>17 DEF Good, SolvedTo

\* A unification, whatever it answers. Only an unsolved metavariable of one
\* side is written, and only one the level allows.
Unified(st, a, b, slevel, r) ==
  /\ Woken(st, r) /\ r.ok \in BOOLEAN
  /\ \A v \in Vars : r.soln[v] # st.soln[v] =>
       /\ v \in Metas /\ v \in {Zonk(st.soln, a), Zonk(st.soln, b)}
       /\ slevel < 0 \/ Birth[v] >= slevel
  /\ ~r.ok => r.soln = st.soln

LEMMA OkGood ==
  ASSUME NEW st, NEW away, Good(st, away), NEW b \in BOOLEAN,
         NEW r, r = [st EXCEPT !.ok = b]
  PROVE  Good(r, away) /\ Woken(st, r) /\ r.soln = st.soln /\ r.ok = b
<1>1. SamePlaces(st, r) /\ r.resolutions = st.resolutions /\ r.ok = b
      /\ r.ambiguityCache = st.ambiguityCache
  BY DEF Good, Sound, SamePlaces, States
<1>2. CacheOK(st) => CacheOK(r)
  BY <1>1 DEF CacheOK
<1> QED BY <1>1, <1>2, SameGood, SameWoken DEF SamePlaces

LEMMA UnifyOK ==
  ASSUME NEW st, NEW away, Good(st, away), NEW a \in Types, NEW b \in Types,
         NEW slevel \in Int, NEW r, r = Unify(st, a, b, slevel)
  PROVE  Good(r, away) /\ Unified(st, a, b, slevel, r)
<1>1. PICK x : x = Zonk(st.soln, a)
  OBVIOUS
<1>2. PICK y : y = Zonk(st.soln, b)
  OBVIOUS
<1>3. st \in States /\ st.soln \in Solutions /\ Acyclic(st.soln)
  BY StateType DEF Good, Sound
<1>4. /\ x \in Types /\ (x \in Vars => st.soln[x] = None)
      /\ y \in Types /\ (y \in Vars => st.soln[y] = None)
  BY <1>1, <1>2, <1>3, ZonkRoot
<1>5. r = UnifyZonked(st, x, y, slevel)
  BY <1>1, <1>2 DEF Unify
<1>6. ASSUME NEW m \in Metas, NEW t \in Types, m # t, m \in {x, y}, t \in {x, y},
             r = solveMeta(st, m, t, slevel)
      PROVE  Good(r, away) /\ Unified(st, a, b, slevel, r)
  <2>1. st.soln[m] = None /\ (t \in Vars => st.soln[t] = None)
    BY <1>4, <1>6 DEF Vars
  <2>2. CASE slevel < 0 \/ Birth[m] >= slevel
    <3>1. r = Solving(st, m, t)
      BY <1>6, <2>2 DEF solveMeta, Solving
    <3>2. Good(r, away) /\ SolvedTo(st, m, t, r)
      BY <1>6, <2>1, <3>1, SolveMetaOK
    <3>3. \A v \in Vars : r.soln[v] # st.soln[v] => v = m
      BY <1>3, <3>2 DEF Solutions, SolvedTo
    <3> QED BY <1>1, <1>2, <1>6, <2>2, <3>2, <3>3 DEF Unified, SolvedTo
  <2>3. CASE ~(slevel < 0 \/ Birth[m] >= slevel)
    <3>1. r = [st EXCEPT !.ok = FALSE]
      BY <1>6, <2>3 DEF solveMeta
    <3> QED BY <3>1, OkGood DEF Unified
  <2> QED BY <2>2, <2>3
<1>7. CASE x # y /\ x \in Metas
  BY <1>4, <1>5, <1>6, <1>7 DEF UnifyZonked
<1>8. CASE x # y /\ x \notin Metas /\ y \in Metas
  BY <1>4, <1>5, <1>6, <1>8 DEF UnifyZonked
<1>9. CASE ~(x # y /\ x \in Metas) /\ ~(x # y /\ x \notin Metas /\ y \in Metas)
  <2>1. r = [st EXCEPT !.ok = (x = y)]
    BY <1>5, <1>9 DEF UnifyZonked
  <2>2. PICK e : e = (x = y)
    OBVIOUS
  <2>3. e \in BOOLEAN /\ r = [st EXCEPT !.ok = e]
    BY <2>1, <2>2
  <2>4. Good(r, away) /\ Woken(st, r) /\ r.soln = st.soln /\ r.ok = e
    BY <2>3, OkGood
  <2> QED BY <2>3, <2>4 DEF Unified
<1> QED BY <1>7, <1>8, <1>9

-----------------------------------------------------------------------------
(* Matching an instance head.                                              *)

Zonked(s, ts) == \A i \in {1, 2} : ts[i] \in Vars => s[ts[i]] = None

\* One side of a head against a type that zonks to z.
Sided(st, h, z, r) ==
  /\ Woken(st, r) /\ r.ok \in BOOLEAN
  /\ r.ok <=> (z \in Metas \/ z = h)
  /\ r.soln = IF z \in Metas THEN [st.soln EXCEPT ![z] = h] ELSE st.soln

LEMMA UnifySide ==
  ASSUME NEW st, NEW away, Good(st, away), NEW h \in TyCons, NEW b \in Types,
         NEW r, r = Unify(st, h, b, -1), NEW z, z = Zonk(st.soln, b)
  PROVE  Good(r, away) /\ Sided(st, h, z, r)
<1>1. st \in States /\ st.soln \in Solutions /\ Acyclic(st.soln)
  BY StateType DEF Good, Sound
<1>2. h \in Types /\ h \notin Vars /\ h \notin Metas
  BY SignatureAssumption DEF Types, Vars
<1>3. Zonk(st.soln, h) = h
  BY <1>1, <1>2, ZonkStays
<1>4. z \in Types /\ (z \in Vars => st.soln[z] = None)
  BY <1>1, ZonkRoot
<1>5. r = UnifyZonked(st, h, z, -1)
  BY <1>3 DEF Unify
<1>6. CASE z \in Metas
  <2>1. r = Solving(st, z, h)
    BY <1>2, <1>5, <1>6 DEF UnifyZonked, solveMeta, Solving
  <2>2. st.soln[z] = None /\ z # h /\ (h \in Vars => st.soln[h] = None)
    BY <1>2, <1>4, <1>6 DEF Vars
  <2>3. Good(r, away) /\ SolvedTo(st, z, h, r)
    BY <1>2, <1>6, <2>1, <2>2, SolveMetaOK
  <2> QED BY <1>6, <2>3 DEF Sided, SolvedTo
<1>7. CASE z \notin Metas
  <2>1. PICK e : e = (h = z)
    OBVIOUS
  <2>2. e \in BOOLEAN /\ r = [st EXCEPT !.ok = e]
    BY <1>2, <1>5, <1>7, <2>1 DEF UnifyZonked
  <2>3. Good(r, away) /\ Woken(st, r) /\ r.soln = st.soln /\ r.ok = e
    BY <2>2, OkGood
  <2> QED BY <1>7, <2>1, <2>2, <2>3 DEF Sided
<1> QED BY <1>6, <1>7

\* Both sides of a head: the match is exact, and only metavariables of the
\* arguments are solved.
Headed(st, head, ts, r) ==
  /\ Woken(st, r) /\ r.ok \in BOOLEAN
  /\ r.ok <=> Matches(head, ts)
  /\ \A v \in Vars : r.soln[v] # st.soln[v] => v \in Metas /\ v \in {ts[1], ts[2]}

LEMMA UnifyHeadOK ==
  ASSUME NEW st, NEW away, Good(st, away), NEW head \in TyCons \X TyCons, NEW ts \in Pairs,
         Zonked(st.soln, ts), NEW r, r = UnifyHead(st, head, ts)
  PROVE  Good(r, away) /\ Headed(st, head, ts, r)
<1>1. PICK q : q = Unify(st, head[1], ts[1], -1)
  OBVIOUS
<1>2. /\ head[1] \in TyCons /\ head[2] \in TyCons /\ head[1] \notin Vars /\ head[2] \notin Vars
      /\ head[1] \in Types /\ ts[1] \in Types /\ ts[2] \in Types
  BY SignatureAssumption DEF Pairs, Types, Vars
<1>3. st \in States /\ st.soln \in Solutions /\ Acyclic(st.soln)
  BY StateType DEF Good, Sound
<1>4. Zonk(st.soln, ts[1]) = ts[1] /\ Zonk(st.soln, ts[2]) = ts[2]
  BY <1>2, <1>3, ZonkStays DEF Zonked
<1>5. Good(q, away) /\ Sided(st, head[1], ts[1], q)
  BY <1>1, <1>2, <1>4, UnifySide
<1>6. CASE ~q.ok
  <2>1. r = q
    BY <1>1, <1>6 DEF UnifyHead, UnifyMore
  <2>2. ts[1] \notin Metas /\ ts[1] # head[1] /\ q.soln = st.soln
    BY <1>5, <1>6 DEF Sided
  <2>3. ~Matches(head, ts)
    BY <2>2 DEF Matches
  <2> QED BY <1>5, <1>6, <2>1, <2>2, <2>3 DEF Headed, Sided
<1>7. CASE q.ok
  <2>1. PICK z : z = Zonk(q.soln, ts[2])
    OBVIOUS
  <2>2. r = Unify(q, head[2], ts[2], -1)
    BY <1>1, <1>7 DEF UnifyHead, UnifyMore
  <2>3. Good(r, away) /\ Sided(q, head[2], z, r)
    BY <1>2, <1>5, <2>1, <2>2, UnifySide
  <2>4. Woken(st, r)
    BY <1>5, <2>3, WokenTrans DEF Sided
  <2>5. q.soln \in Solutions
    BY <1>5, StateType DEF Good, Sound
  <2>6. CASE ts[1] \in Metas
    <3>1. q.soln = [st.soln EXCEPT ![ts[1]] = head[1]]
      BY <1>5, <2>6 DEF Sided
    <3>2. z = IF ts[2] = ts[1] THEN head[1] ELSE ts[2]
      <4>1. ts[1] \in Vars /\ st.soln[ts[1]] = None /\ ts[1] # head[1]
        BY <1>2, <2>6 DEF Zonked, Vars
      <4> QED BY <1>2, <1>3, <1>4, <2>1, <3>1, <4>1, ZonkExtend
    <3>3. r.ok <=> Matches(head, ts)
      BY <1>2, <2>3, <2>6, <3>2 DEF Sided, Matches, Vars
    <3>4. \A v \in Vars : r.soln[v] # st.soln[v] => v \in Metas /\ v \in {ts[1], ts[2]}
      <4>1. \A v \in Vars : q.soln[v] # st.soln[v] => v = ts[1]
        BY <1>3, <3>1 DEF Solutions
      <4>2. \A v \in Vars : r.soln[v] # q.soln[v] => v = z /\ z \in Metas
        BY <2>3, <2>5 DEF Sided, Solutions
      <4>3. z \in Metas => z = ts[2]
        BY <1>2, <3>2 DEF Vars
      <4> QED BY <2>6, <4>1, <4>2, <4>3
    <3> QED BY <2>3, <2>4, <3>3, <3>4 DEF Headed, Sided
  <2>7. CASE ts[1] \notin Metas
    <3>1. q.soln = st.soln /\ ts[1] = head[1] /\ z = ts[2]
      BY <1>4, <1>5, <1>7, <2>1, <2>7 DEF Sided
    <3>2. r.ok <=> Matches(head, ts)
      BY <1>2, <2>3, <3>1 DEF Sided, Matches, Vars
    <3>3. \A v \in Vars : r.soln[v] # st.soln[v] => v \in Metas /\ v \in {ts[1], ts[2]}
      BY <2>3, <2>5, <3>1 DEF Sided, Solutions
    <3> QED BY <2>3, <2>4, <3>2, <3>3 DEF Headed, Sided
  <2> QED BY <2>6, <2>7
<1> QED BY <1>6, <1>7

\* The solutions are restored, and what was woken stays awake.
LEMMA RestoreOK ==
  ASSUME NEW st, NEW away, Good(st, away), NEW q, Good(q, away), Woken(st, q),
         NEW r, r = [q EXCEPT !.soln = st.soln]
  PROVE  Good(r, away) /\ Woken(st, r) /\ r.soln = st.soln /\ r.ok = q.ok
<1>1. q \in States /\ st.soln \in Solutions
  BY StateType DEF Good, Sound
<1>2. /\ r \in States /\ r.soln = st.soln /\ r.args = q.args /\ r.worklist = q.worklist
      /\ r.inert = q.inert /\ r.residuals = q.residuals /\ r.fate = q.fate
      /\ r.resolutions = q.resolutions /\ r.ok = q.ok /\ r.ambiguityCache = q.ambiguityCache
  BY <1>1 DEF States
<1>3. Blocked(st.soln, q.inert)
  BY DEF Woken, Good, Sound, Blocked
<1>4. Sound(r)
  BY <1>2, <1>3 DEF Good, Sound, GivensFirst
<1>5. Placed(r, away)
  BY <1>2 DEF Good, Placed
<1>6. Woken(st, r)
  BY <1>2, NarrowsRefl DEF Woken, CacheOK
<1> QED BY <1>2, <1>4, <1>5, <1>6 DEF Good

\* A probe answers whether the head matches and solves nothing.
Probed(st, head, ts, r) ==
  /\ Woken(st, r) /\ r.soln = st.soln /\ r.ok \in BOOLEAN /\ (r.ok <=> Matches(head, ts))

LEMMA ProbeOK ==
  ASSUME NEW st, NEW away, Good(st, away), NEW head \in TyCons \X TyCons, NEW ts \in Pairs,
         Zonked(st.soln, ts), NEW r, r = Probe(st, head, ts)
  PROVE  Good(r, away) /\ Probed(st, head, ts, r)
<1>1. PICK q : q = UnifyHead(st, head, ts)
  OBVIOUS
<1>2. Good(q, away) /\ Headed(st, head, ts, q)
  BY <1>1, UnifyHeadOK
<1>3. r = [q EXCEPT !.soln = st.soln]
  BY <1>1 DEF Probe
<1>4. Good(r, away) /\ Woken(st, r) /\ r.soln = st.soln /\ r.ok = q.ok
  BY <1>2, <1>3, RestoreOK DEF Headed
<1> QED BY <1>2, <1>4 DEF Probed, Headed

\* A trial keeps its solutions when it succeeds.
Tried(st, ts, r) ==
  /\ Woken(st, r) /\ r.ok \in BOOLEAN
  /\ ~r.ok => r.soln = st.soln
  /\ \A v \in Vars : r.soln[v] # st.soln[v] => v \in Metas /\ v \in {ts[1], ts[2]}

LEMMA TrialOK ==
  ASSUME NEW st, NEW away, Good(st, away), NEW inst, inst.head \in TyCons \X TyCons,
         NEW ts \in Pairs, Zonked(st.soln, ts), NEW r, r = Trial(st, inst, ts)
  PROVE  Good(r, away) /\ Tried(st, ts, r)
<1>1. PICK u : u = UnifyHead(st, inst.head, ts)
  OBVIOUS
<1>2. Good(u, away) /\ Headed(st, inst.head, ts, u)
  BY <1>1, UnifyHeadOK
<1>3. PICK b \in BOOLEAN : b <=> u.ok /\ inst.context \subseteq Derivable
  OBVIOUS
<1>4. PICK q : q = [u EXCEPT !.ok = b]
  OBVIOUS
<1>5. Good(q, away) /\ Woken(st, q) /\ q.soln = u.soln /\ q.ok = b
  <2>1. Good(q, away) /\ Woken(u, q) /\ q.soln = u.soln /\ q.ok = b
    BY <1>2, <1>4, OkGood
  <2> QED BY <1>2, <2>1, WokenTrans DEF Headed
<1>6. r = Kept(q, st.soln)
  <2>1. u.ok \in BOOLEAN
    BY <1>2 DEF Headed
  <2>2. (u.ok /\ inst.context \subseteq Derivable) = b
    BY <1>3, <2>1
  <2> QED BY <1>1, <1>4, <2>2 DEF Trial, InContext
<1>7. CASE q.ok
  <2>1. r = q
    BY <1>6, <1>7 DEF Kept
  <2> QED BY <1>2, <1>5, <1>7, <2>1 DEF Headed, Tried
<1>8. CASE ~q.ok
  <2>1. r = [q EXCEPT !.soln = st.soln]
    BY <1>6, <1>8 DEF Kept
  <2>2. Good(r, away) /\ Woken(st, r) /\ r.soln = st.soln /\ r.ok = q.ok
    BY <1>5, <2>1, RestoreOK
  <2> QED BY <1>5, <2>2 DEF Tried
<1> QED BY <1>7, <1>8

-----------------------------------------------------------------------------
(* Class constraints.                                                      *)

LEMMA TryNextOK ==
  ASSUME NEW st, NEW away, NEW ts \in Pairs, Zonked(st.soln, ts),
         NEW x, Good(x, away), Tried(st, ts, x), NEW inst, inst.head \in TyCons \X TyCons,
         NEW r, r = TryNext(x, inst, ts)
  PROVE  Good(r, away) /\ Tried(st, ts, r)
<1>1. CASE x.ok \/ inst.private
  BY <1>1 DEF TryNext
<1>2. CASE ~(x.ok \/ inst.private)
  <2>1. r = Trial(x, inst, ts) /\ x.soln = st.soln /\ Woken(st, x)
    BY <1>2 DEF TryNext, Tried
  <2>2. Zonked(x.soln, ts)
    BY <2>1
  <2>3. Good(r, away) /\ Tried(x, ts, r)
    BY <2>1, <2>2, TrialOK
  <2>4. Woken(st, r)
    BY <2>1, <2>3, WokenTrans DEF Tried
  <2> QED BY <2>1, <2>3, <2>4 DEF Tried
<1> QED BY <1>1, <1>2

\* The instances and their heads.
LEMMA InstanceType ==
  /\ Len(Instances) \in Nat
  /\ \A i \in 1..Len(Instances) : Instances[i].head \in TyCons \X TyCons
<1> DEFINE I == [head : TyCons \X TyCons, private : BOOLEAN, context : SUBSET (TyCons \X TyCons)]
<1>1. Instances \in Seq(I)
  BY SignatureAssumption
<1>2. \A x \in I : x.head \in TyCons \X TyCons
  OBVIOUS
<1> HIDE DEF I
<1>3. Len(Instances) \in Nat /\ \A i \in 1..Len(Instances) : Instances[i] \in I
  BY <1>1
<1> QED BY <1>2, <1>3

LEMMA ResolveInstanceOK ==
  ASSUME NEW st, NEW away, Good(st, away), NEW ts \in Pairs, Zonked(st.soln, ts),
         NEW r, r = resolveInstance(st, ts)
  PROVE  Good(r, away) /\ Tried(st, ts, r)
<1> DEFINE N == Len(Instances)
           start == [st EXCEPT !.ok = FALSE]
           U == {x \in States : Good(x, away) /\ Tried(st, ts, x)}
           P == [i \in 0..N |-> U]
           F == [i \in 1..N |-> [x \in U |-> TryNext(x, Instances[i], ts)]]
           Body(g) == [i \in 0..N |-> IF i = 0 THEN start ELSE TryNext(g[i - 1], Instances[i], ts)]
           try == CHOOSE g : g = Body(g)
<1>1. N \in Nat /\ \A i \in 1..N : Instances[i].head \in TyCons \X TyCons
  BY InstanceType
<1>2. start \in U
  <2>1. Good(start, away) /\ Woken(st, start) /\ start.soln = st.soln /\ start.ok = FALSE
    BY OkGood
  <2> HIDE DEF start
  <2> QED BY <2>1 DEF Tried, Good, Sound
<1>3. ASSUME NEW i \in 1..N, NEW x \in U PROVE TryNext(x, Instances[i], ts) \in U
  <2>1. PICK y : y = TryNext(x, Instances[i], ts)
    OBVIOUS
  <2>2. Good(x, away) /\ Tried(st, ts, x) /\ Instances[i].head \in TyCons \X TyCons
    BY <1>1
  <2>3. Good(y, away) /\ Tried(st, ts, y)
    BY <2>1, <2>2, TryNextOK
  <2> QED BY <2>1, <2>3 DEF Good, Sound
<1> HIDE DEF N, start, U
<1>4. P \in [0..N -> SUBSET U] /\ start \in P[0]
  BY <1>1, <1>2
<1>5. \A i \in 1..N : \A x \in P[i - 1] : F[i][x] \in P[i]
  <2> SUFFICES ASSUME NEW i \in 1..N, NEW x \in P[i - 1] PROVE F[i][x] \in P[i]
    OBVIOUS
  <2>1. i - 1 \in 0..N /\ i \in 0..N
    BY <1>1
  <2> QED BY <1>3, <2>1
<1>6. PICK g : IsStaged(g, N, U, P, start, F)
  <2> HIDE DEF P, F
  <2> QED BY <1>1, <1>4, <1>5, StagedChain
<1>7. g = Body(g)
  <2>1. ASSUME NEW i \in 0..N
        PROVE  g[i] = IF i = 0 THEN start ELSE TryNext(g[i - 1], Instances[i], ts)
    <3>1. CASE i = 0
      BY <1>6, <3>1 DEF IsStaged
    <3>2. CASE i # 0
      <4>1. i \in 1..N /\ i - 1 \in 0..N
        BY <1>1, <3>2
      <4> QED BY <1>6, <3>2, <4>1 DEF IsStaged
    <3> QED BY <3>1, <3>2
  <2> QED BY <1>6, <2>1 DEF IsStaged
<1>8. try = Body(try)
  <2> HIDE DEF Body
  <2> QED BY <1>7
<1>9. r = try[N]
  BY DEF resolveInstance, N, start
<1> HIDE DEF try
<1>10. try[N] \in U
  <2>1. try[0] \in P[0]
    BY <1>1, <1>4, <1>8
  <2>2. ASSUME NEW i \in 1..N, try[i - 1] \in P[i - 1] PROVE try[i] \in P[i]
    <3>1. i - 1 \in 0..N /\ i \in 0..N /\ i # 0
      BY <1>1
    <3>2. try[i] = TryNext(try[i - 1], Instances[i], ts)
      BY <1>8, <3>1
    <3> QED BY <1>3, <2>2, <3>1, <3>2
  <2>3. \A i \in 0..N : try[i] \in P[i]
    <3> HIDE DEF P
    <3> QED BY <1>1, <2>1, <2>2, StagedInvariant
  <2> QED BY <1>1, <2>3
<1> QED BY <1>9, <1>10 DEF U

\* How many of the first i instances match, up to two.
Counts(i, n, ts) ==
  /\ n \in {0, 1, 2}
  /\ n = 0 => \A j \in 1..i : ~Matches(Instances[j].head, ts)
  /\ n = 1 => \E j \in 1..i : /\ Matches(Instances[j].head, ts)
                              /\ \A k \in 1..i : Matches(Instances[k].head, ts) => k = j
  /\ n = 2 => \E j, k \in 1..i : /\ j # k /\ Matches(Instances[j].head, ts)
                                 /\ Matches(Instances[k].head, ts)

\* Probing leaves the solutions as they are.
Watched(st, r) == Woken(st, r) /\ r.soln = st.soln

LEMMA ProbeNextOK ==
  ASSUME NEW st, NEW away, NEW ts \in Pairs, Zonked(st.soln, ts),
         NEW i \in Nat, Instances[i + 1].head \in TyCons \X TyCons,
         NEW x, Good(x, away), Watched(st, x), NEW n, Counts(i, n, ts),
         NEW r, r = ProbeNext([st |-> x, n |-> n], Instances[i + 1].head, ts)
  PROVE  /\ r = [st |-> r.st, n |-> r.n]
         /\ Good(r.st, away) /\ Watched(st, r.st) /\ Counts(i + 1, r.n, ts)
<1>0. 1..(i + 1) = 1..i \cup {i + 1} /\ i + 1 \notin 1..i
  OBVIOUS
<1>1. CASE n = 2
  <2>1. r = [st |-> x, n |-> n]
    BY <1>1 DEF ProbeNext
  <2>2. Counts(i + 1, n, ts)
    BY <1>0, <1>1 DEF Counts
  <2> QED BY <2>1, <2>2
<1>2. CASE n # 2
  <2>1. PICK y : y = Probe(x, Instances[i + 1].head, ts)
    OBVIOUS
  <2>2. Zonked(x.soln, ts)
    BY DEF Watched
  <2>3. Good(y, away) /\ Probed(x, Instances[i + 1].head, ts, y)
    BY <2>1, <2>2, ProbeOK
  <2>4. r = [st |-> y, n |-> IF y.ok THEN n + 1 ELSE n]
    BY <1>2, <2>1 DEF ProbeNext, Counted
  <2>5. Watched(st, y)
    BY <2>3, WokenTrans DEF Probed, Watched
  <2>6. Counts(i + 1, IF y.ok THEN n + 1 ELSE n, ts)
    <3>1. y.ok <=> Matches(Instances[i + 1].head, ts)
      BY <2>3 DEF Probed
    <3>2. CASE n = 0 /\ y.ok
      BY <1>0, <3>1, <3>2 DEF Counts
    <3>3. CASE n = 0 /\ ~y.ok
      BY <1>0, <3>1, <3>3 DEF Counts
    <3>4. CASE n = 1 /\ y.ok
      <4>1. PICK j \in 1..i : Matches(Instances[j].head, ts)
        BY <3>4 DEF Counts
      <4>2. j # i + 1 /\ j \in 1..(i + 1) /\ i + 1 \in 1..(i + 1)
        BY <1>0
      <4> QED BY <3>1, <3>4, <4>1, <4>2 DEF Counts
    <3>5. CASE n = 1 /\ ~y.ok
      BY <1>0, <3>1, <3>5 DEF Counts
    <3> QED BY <1>2, <3>2, <3>3, <3>4, <3>5 DEF Counts
  <2> QED BY <2>3, <2>4, <2>5, <2>6
<1> QED BY <1>1, <1>2

\* The answer of isAmbiguousInstance.
Judged(st, ts, r) ==
  /\ Watched(st, r) /\ r.ok \in BOOLEAN
  /\ CacheOK(st) => (r.ok <=> Ambiguous(ts))

LEMMA AnswerOK ==
  ASSUME NEW st, NEW away, NEW ts \in Pairs, NEW x, Good(x, away), Watched(st, x),
         NEW n, Counts(Len(Instances), n, ts), NEW p, p.st = x, p.n = n,
         NEW r, r = Answer(p, ts)
  PROVE  Good(r, away) /\ Judged(st, ts, r)
<1>1. PICK e : e = (n = 2)
  OBVIOUS
<1>2. Len(Instances) \in Nat /\ e \in BOOLEAN
  BY <1>1, SignatureAssumption
<1>3. e <=> Ambiguous(ts)
  BY <1>1 DEF Counts, Ambiguous
<1>4. PICK ac : ac = x.ambiguityCache \cup {<<ts, e>>}
  OBVIOUS
<1>5. x \in States /\ ac \subseteq Pairs \X BOOLEAN
  <2>1. <<ts, e>> \in Pairs \X BOOLEAN
    BY <1>2
  <2> QED BY <1>4, <2>1, StateType DEF Good, Sound
<1>6. /\ SamePlaces(x, r) /\ r.resolutions = x.resolutions /\ r.ok = e
      /\ r.ambiguityCache = x.ambiguityCache \cup {<<ts, e>>}
  <2>1. r = [x EXCEPT !.ok = e, !.ambiguityCache = ac]
    BY <1>1, <1>4 DEF Answer
  <2>2. r \in States /\ r.ambiguityCache = ac /\ r.ok = e
    BY <1>2, <1>5, <2>1 DEF States
  <2>3. /\ r.soln = x.soln /\ r.args = x.args /\ r.worklist = x.worklist
        /\ r.inert = x.inert /\ r.residuals = x.residuals /\ r.fate = x.fate
        /\ r.resolutions = x.resolutions
    BY <1>5, <2>1 DEF States
  <2> QED BY <1>4, <2>2, <2>3 DEF SamePlaces
<1>7. CacheOK(x) => CacheOK(r)
  BY <1>3, <1>6 DEF CacheOK
<1>8. Good(r, away) /\ Woken(x, r) /\ r.soln = x.soln
  BY <1>6, <1>7, SameGood, SameWoken DEF SamePlaces
<1>9. Watched(st, r)
  BY <1>8, WokenTrans DEF Watched
<1> QED BY <1>2, <1>3, <1>6, <1>8, <1>9 DEF Judged

LEMMA IsAmbiguousOK ==
  ASSUME NEW st, NEW away, Good(st, away), NEW ts \in Pairs, Zonked(st.soln, ts),
         NEW r, r = isAmbiguousInstance(st, ts)
  PROVE  Good(r, away) /\ Judged(st, ts, r)
<1> DEFINE N == Len(Instances)
           start == [st |-> st, n |-> 0]
           U == [st : States, n : {0, 1, 2}]
           P == [i \in 0..N |-> {p \in U : /\ Good(p.st, away) /\ Watched(st, p.st)
                                           /\ Counts(i, p.n, ts)}]
           F == [i \in 1..N |-> [p \in U |-> ProbeNext(p, Instances[i].head, ts)]]
           Body(g) == [i \in 0..N |->
                         IF i = 0 THEN start ELSE ProbeNext(g[i - 1], Instances[i].head, ts)]
           probe == CHOOSE g : g = Body(g)
<1>1. N \in Nat /\ \A i \in 1..N : Instances[i].head \in TyCons \X TyCons
  BY InstanceType
<1>2. st \in States /\ Watched(st, st)
  <2>1. SamePlaces(st, st)
    BY DEF Good, Sound, SamePlaces
  <2> QED BY <2>1, SameWoken DEF Watched, SamePlaces
<1>3. CASE \E b \in BOOLEAN : <<ts, b>> \in st.ambiguityCache
  <2>1. PICK e : e = (<<ts, TRUE>> \in st.ambiguityCache)
    OBVIOUS
  <2>2. e \in BOOLEAN /\ r = [st EXCEPT !.ok = e]
    BY <1>3, <2>1 DEF isAmbiguousInstance
  <2>3. Good(r, away) /\ Woken(st, r) /\ r.soln = st.soln /\ r.ok = e
    BY <2>2, OkGood
  <2>4. CacheOK(st) => (e <=> Ambiguous(ts))
    <3> SUFFICES ASSUME CacheOK(st) PROVE e <=> Ambiguous(ts)
      OBVIOUS
    <3>1. ASSUME NEW b \in BOOLEAN, <<ts, b>> \in st.ambiguityCache PROVE b <=> Ambiguous(ts)
      <4>1. <<ts, b>>[1] = ts /\ <<ts, b>>[2] = b
        OBVIOUS
      <4> QED BY <3>1, <4>1 DEF CacheOK
    <3>2. PICK b \in BOOLEAN : <<ts, b>> \in st.ambiguityCache
      BY <1>3
    <3>3. CASE b = TRUE
      BY <2>1, <3>1, <3>2, <3>3
    <3>4. CASE b = FALSE
      <4>1. ~Ambiguous(ts)
        BY <3>1, <3>2, <3>4
      <4>2. <<ts, TRUE>> \in st.ambiguityCache => Ambiguous(ts)
        BY <3>1
      <4> QED BY <2>1, <4>1, <4>2
    <3> QED BY <3>2, <3>3, <3>4
  <2> QED BY <2>2, <2>3, <2>4 DEF Judged, Watched
<1>4. CASE ~ \E b \in BOOLEAN : <<ts, b>> \in st.ambiguityCache
  <2>1. start \in P[0]
    <3>1. Counts(0, 0, ts)
      BY DEF Counts
    <3>2. start \in U /\ start.st = st /\ start.n = 0
      BY <1>2
    <3> HIDE DEF start, U
    <3> QED BY <1>1, <1>2, <3>1, <3>2
  <2>2. ASSUME NEW i \in 1..N, NEW p \in P[i - 1]
        PROVE  ProbeNext(p, Instances[i].head, ts) \in P[i] /\ p \in U
    <3>1. i - 1 \in 0..N /\ i \in 0..N /\ i - 1 \in Nat /\ (i - 1) + 1 = i
      BY <1>1
    <3>2. /\ p \in U /\ Good(p.st, away) /\ Watched(st, p.st) /\ Counts(i - 1, p.n, ts)
          /\ p = [st |-> p.st, n |-> p.n]
      BY <3>1
    <3>3. PICK x, n : x = p.st /\ n = p.n
      OBVIOUS
    <3>4. PICK q : q = ProbeNext(p, Instances[i].head, ts)
      OBVIOUS
    <3>5. q = ProbeNext([st |-> x, n |-> n], Instances[(i - 1) + 1].head, ts)
      BY <3>1, <3>2, <3>3, <3>4
    <3>6. Good(x, away) /\ Watched(st, x) /\ Counts(i - 1, n, ts)
          /\ Instances[(i - 1) + 1].head \in TyCons \X TyCons
      BY <1>1, <3>1, <3>2, <3>3
    <3>7. /\ q = [st |-> q.st, n |-> q.n]
          /\ Good(q.st, away) /\ Watched(st, q.st) /\ Counts((i - 1) + 1, q.n, ts)
      BY <3>1, <3>5, <3>6, ProbeNextOK
    <3>8. q \in U
      BY <3>7 DEF Good, Sound, Counts
    <3> HIDE DEF U
    <3> QED BY <3>1, <3>2, <3>4, <3>7, <3>8
  <2>3. P \in [0..N -> SUBSET U]
    OBVIOUS
  <2> HIDE DEF N, start, U, P
  <2>4. \A i \in 1..N : \A p \in P[i - 1] : F[i][p] \in P[i]
    BY <2>2
  <2>5. PICK g : IsStaged(g, N, U, P, start, F)
    <3> HIDE DEF F
    <3> QED BY <1>1, <2>1, <2>3, <2>4, StagedChain
  <2>6. g = Body(g)
    <3>1. ASSUME NEW i \in 0..N
          PROVE  g[i] = IF i = 0 THEN start ELSE ProbeNext(g[i - 1], Instances[i].head, ts)
      <4>1. CASE i = 0
        BY <2>5, <4>1 DEF IsStaged
      <4>2. CASE i # 0
        <5>1. i \in 1..N /\ i - 1 \in 0..N
          BY <1>1, <4>2
        <5> QED BY <2>5, <4>2, <5>1 DEF IsStaged
      <4> QED BY <4>1, <4>2
    <3> QED BY <2>5, <3>1 DEF IsStaged
  <2>7. probe = Body(probe)
    <3> HIDE DEF Body
    <3> QED BY <2>6
  <2>8. r = Answer(probe[N], ts)
    BY <1>4 DEF isAmbiguousInstance, N, start
  <2> HIDE DEF probe
  <2>9. probe[N] \in P[N]
    <3>1. probe[0] \in P[0]
      BY <1>1, <2>1, <2>7
    <3>2. ASSUME NEW i \in 1..N, probe[i - 1] \in P[i - 1] PROVE probe[i] \in P[i]
      <4>1. i - 1 \in 0..N /\ i \in 0..N /\ i # 0
        BY <1>1
      <4>2. probe[i] = ProbeNext(probe[i - 1], Instances[i].head, ts)
        BY <2>7, <4>1
      <4> QED BY <2>2, <3>2, <4>1, <4>2
    <3>3. \A i \in 0..N : probe[i] \in P[i]
      BY <1>1, <3>1, <3>2, StagedInvariant
    <3> QED BY <1>1, <3>3
  <2>10. PICK x, n : x = probe[N].st /\ n = probe[N].n
    OBVIOUS
  <2>11. Good(x, away) /\ Watched(st, x) /\ Counts(Len(Instances), n, ts)
    BY <1>1, <2>9, <2>10 DEF P, N
  <2> QED BY <2>8, <2>10, <2>11, AnswerOK
<1> QED BY <1>3, <1>4

\* The answer of shouldDefer.
Decided(st, ts, r) ==
  /\ Watched(st, r) /\ r.ok \in BOOLEAN
  /\ CacheOK(st) => (r.ok <=> MayDefer(call, ts))

LEMMA ShouldDeferOK ==
  ASSUME NEW st, NEW away, Good(st, away), NEW ts \in Pairs, Zonked(st.soln, ts),
         NEW r, r = shouldDefer(st, ts)
  PROVE  Good(r, away) /\ Decided(st, ts, r)
<1>1. CASE call = "deferrable" /\ SliceHasMeta(ts)
  <2>1. r = isAmbiguousInstance(st, ts)
    BY <1>1 DEF shouldDefer
  <2>2. Good(r, away) /\ Judged(st, ts, r)
    BY <2>1, IsAmbiguousOK
  <2> QED BY <1>1, <2>2 DEF Judged, Decided, MayDefer
<1>2. CASE ~(call = "deferrable" /\ SliceHasMeta(ts))
  <2>1. PICK e : e = (call = "local" /\ SliceHasMeta(ts))
    OBVIOUS
  <2>2. e \in BOOLEAN /\ r = [st EXCEPT !.ok = e]
    BY <1>2, <2>1 DEF shouldDefer
  <2>3. Good(r, away) /\ Woken(st, r) /\ r.soln = st.soln /\ r.ok = e
    BY <2>2, OkGood
  <2> QED BY <1>2, <2>1, <2>2, <2>3 DEF Decided, Watched, MayDefer
<1> QED BY <1>1, <1>2

\* No class constraint of the worklist is still to be answered.
Drained(st) == \A c \in Elems(st.worklist) \cap Of("class") : st.fate[c] # "pending"

\* What holds during a call survives unification.
LEMMA WokenKeeps ==
  ASSUME NEW st, NEW away, Good(st, away), NEW r, Woken(st, r)
  PROVE  /\ \A kind \in Calls : Answers(kind, st) => Answers(kind, r)
         /\ NoGivens(st) => NoGivens(r)
         /\ Drained(st) => Drained(r)
         /\ \A S : Found(st, S) => Found(r, S)
<1>1. NoGivens(st) => NoGivens(r)
  BY DEF Good, Placed, Woken, NoGivens
<1>2. ASSUME NEW kind \in Calls, Answers(kind, st) PROVE Answers(kind, r)
  <2>1. ASSUME NEW c \in r.resolutions PROVE ~MayDefer(kind, zonkAll(r.soln, r.args[c]))
    <3>1. c \in st.resolutions /\ r.args[c] = st.args[c] /\ st.args[c] \in Pairs
      BY <2>1, StateType DEF Woken, Good, Sound
    <3>2. ~MayDefer(kind, zonkAll(st.soln, st.args[c]))
      BY <1>2, <3>1 DEF Answers
    <3> QED BY <3>1, <3>2 DEF Woken, Narrows
  <2> QED BY <1>1, <1>2, <2>1 DEF Answers, Woken
<1>3. Drained(st) => Drained(r)
  <2>1. Members(st.inert) \cap Of("class") \subseteq Elems(st.inert.classMap)
    <3>1. Kinds(st.inert) /\ st.inert \in Inert!InertSets
      BY StateType DEF Good, Sound, InertOK
    <3>2. Of("fun") \cap Of("class") = {}
      BY DEF Of
    <3>3. Elems(st.inert.funEqs) \subseteq Of("fun")
      BY <3>1, PlainElems DEF Kinds
    <3> QED BY <3>1, <3>2, <3>3, MembersDef DEF Kinds
  <2>2. \A c \in Elems(st.inert.classMap) : st.fate[c] # "pending"
    BY DEF Good, Sound
  <2> QED BY <2>1, <2>2 DEF Drained, Woken
<1>4. \A S : Found(st, S) => Found(r, S)
  BY DEF Found, Woken
<1> QED BY <1>1, <1>2, <1>3, <1>4

\* The constraint ct, in hand, has been answered or deferred.
Handled(q, ct, away, r) ==
  /\ Good(r, away) /\ Answers(call, r) /\ NoGivens(r)
  /\ Found(q, away \cup {ct}) => Found(r, away)
  /\ Drained(q) => Drained(r)
  /\ r.resolutions \subseteq q.resolutions \cup {ct}
  /\ r.inert.scopeDepth = q.inert.scopeDepth
  /\ call = "local" => r.soln = q.soln

InHand(q, ct, away) ==
  /\ Good(q, away \cup {ct}) /\ ct \notin away /\ ct \in Of("class")
  /\ Answers(call, q) /\ NoGivens(q) /\ call \in Calls

LEMMA DeferOK ==
  ASSUME NEW q, NEW ct, NEW away, InHand(q, ct, away),
         MayDefer(call, zonkAll(q.soln, q.args[ct])),
         NEW r, r = [q EXCEPT !.residuals = Append(@, ct)]
  PROVE  Handled(q, ct, away, r)
<1>1. q \in States /\ q.residuals \in Seq(Cts) /\ ct \in Cts
  BY StateType DEF InHand, Good, Sound, Of
<1>2. ct \notin Elems(q.residuals) /\ ct \notin Elems(q.worklist) /\ ct \notin Members(q.inert)
  BY DEF InHand, Good, Placed
<1>3. PICK rs : rs = Append(q.residuals, ct)
  OBVIOUS
<1>4. /\ rs \in Seq(Cts) /\ Elems(rs) = Elems(q.residuals) \cup {ct} /\ Once(rs)
      /\ ToSet(rs) = ToSet(q.residuals) \cup {ct} /\ ct \notin Nested
  <2>1. ct \notin Nested /\ Once(q.residuals)
    BY NestedKind DEF InHand, Good, Placed
  <2>2. /\ rs \in Seq(Cts) /\ Elems(rs) = Elems(q.residuals) \cup ({ct} \ Nested) /\ Once(rs)
        /\ ToSet(rs) = ToSet(q.residuals) \cup {ct}
    BY <1>1, <1>2, <1>3, <2>1, AppendElems
  <2> QED BY <2>1, <2>2
<1>5. /\ r \in States /\ r.residuals = rs /\ r.soln = q.soln /\ r.args = q.args
      /\ r.worklist = q.worklist /\ r.inert = q.inert /\ r.fate = q.fate
      /\ r.resolutions = q.resolutions /\ r.ambiguityCache = q.ambiguityCache
  BY <1>1, <1>3, <1>4 DEF States
<1>6. Sound(r)
  BY <1>5 DEF InHand, Good, Sound, GivensFirst
<1>7. Placed(r, away)
  BY <1>2, <1>4, <1>5 DEF InHand, Good, Placed
<1>8. Answers(call, r)
  <2>1. ct \notin q.resolutions
    BY DEF InHand, Answers
  <2>2. call # "resolve"
    BY DEF MayDefer
  <2> QED BY <1>4, <1>5, <2>1, <2>2 DEF InHand, Answers, CacheOK, NoGivens
<1>9. Found(q, away \cup {ct}) => Found(r, away)
  BY <1>4, <1>5 DEF Found
<1> QED BY <1>5, <1>6, <1>7, <1>8, <1>9 DEF Handled, Good, InHand, NoGivens, Drained

\* Resolved, with the state after the instances were tried.
LEMMA ResolvedOK ==
  ASSUME NEW p, NEW ct, NEW away, InHand(p, ct, away), NEW ts \in Pairs,
         ~MayDefer(call, zonkAll(p.soln, p.args[ct])), ~MayDefer(call, ts),
         NEW r, r = Resolved(p, ct, ts)
  PROVE  Handled(p, ct, away, r)
<1>1. /\ p \in States /\ ct \in Cts /\ InertOK(p.inert) /\ OfScope(p.inert)
      /\ p.inert \in Inert!InertSets /\ p.fate \in [Cts -> Fates] /\ p.resolutions \subseteq Cts
  BY StateType DEF InHand, Good, Sound, Of
<1>2. ct \notin Elems(p.residuals) /\ ct \notin Elems(p.worklist) /\ ct \notin Members(p.inert)
  BY DEF InHand, Good, Placed
<1>3. PICK k : k = Inert!InsertClass(p.inert, ct, collectMetaIDs(ts), ts)
  OBVIOUS
<1>4. PICK f : f = [p.fate EXCEPT ![ct] = IF p.ok THEN "solved" ELSE "reported"]
  OBVIOUS
<1>5. PICK rs : rs = p.resolutions \cup {ct}
  OBVIOUS
<1>6. /\ InertOK(k) /\ Members(k) = Members(p.inert) \cup {ct}
      /\ Elems(k.classMap) = Elems(p.inert.classMap) \cup {ct}
      /\ k.scopeDepth = p.inert.scopeDepth
      /\ k.resolutionKeys \subseteq p.inert.resolutionKeys \cup {<<ts, ct>>}
      /\ \A m \in Metas : ToSet(k.metaIndex[m]) \subseteq ToSet(p.inert.metaIndex[m]) \cup {ct}
      /\ OfScope(k)
  <2>1. /\ collectMetaIDs(ts) \in Seq(Metas) /\ IsInjective(collectMetaIDs(ts))
        /\ ct \in Of("class")
    BY MetaIDs DEF InHand
  <2>2. Classed(p.inert, ct, ts, k)
    BY <1>1, <1>2, <1>3, <2>1, InsertClassOK
  <2> QED BY <1>1, <2>2 DEF Classed
<1>7. /\ f \in [Cts -> Fates] /\ f[ct] \in {"solved", "reported"}
      /\ \A c \in Cts : c # ct => f[c] = p.fate[c]
  BY <1>1, <1>4 DEF Fates
<1>8. /\ r \in States /\ r.inert = k /\ r.resolutions = rs /\ r.fate = f
      /\ r.soln = p.soln /\ r.args = p.args /\ r.worklist = p.worklist
      /\ r.residuals = p.residuals /\ r.ambiguityCache = p.ambiguityCache
  <2>1. k \in Inert!InertSets /\ rs \in SUBSET Cts
    BY <1>1, <1>5, <1>6 DEF InertOK, Buckets
  <2>2. r = [p EXCEPT !.inert = k, !.resolutions = rs, !.fate = f]
    BY <1>1, <1>3, <1>4, <1>5 DEF Resolved, States
  <2> QED BY <1>1, <1>7, <2>1, <2>2 DEF States
<1>9. NoGivens(r)
  BY <1>8 DEF InHand, NoGivens
<1>10. Sound(r)
  <2>1. Blocked(r.soln, r.inert)
    <3>1. ct \notin Of("fun") \cup Of("eq")
      BY DEF InHand, Of
    <3>2. Blocked(p.soln, p.inert)
      BY DEF InHand, Good, Sound
    <3> QED BY <1>6, <1>8, <3>1, <3>2 DEF Blocked
  <2>2. GivensFirst(r)
    BY <1>8, <1>9 DEF GivensFirst, InHand, Good, Sound, NoGivens
  <2>3. \A c \in Elems(k.classMap) : f[c] # "pending"
    <3>1. \A c \in Elems(p.inert.classMap) : p.fate[c] # "pending" /\ c \in Cts
      BY <1>1, InertType, ElemsType DEF InHand, Good, Sound
    <3> QED BY <1>6, <1>7, <3>1
  <2>4. Acyclic(r.soln) /\ \A c \in Of("given") : r.args[c] = Args[c]
    BY <1>8 DEF InHand, Good, Sound
  <2> QED BY <1>6, <1>8, <2>1, <2>2, <2>3, <2>4 DEF Sound
<1>11. Placed(r, away)
  <2>1. ct \notin Of("given")
    BY DEF InHand, Of
  <2>2. \A c \in Cts : p.fate[c] \notin {"new", "absent"} => f[c] \notin {"new", "absent"}
    BY <1>7
  <2>3. Elems(p.worklist) \cup Members(p.inert) \cup Elems(p.residuals) \subseteq Cts
    BY <1>1, StateType, MembersType, ElemsType
  <2>4. \A c \in away \ Nested : p.fate[c] \notin {"new", "absent"} /\ c # ct
    BY DEF InHand, Good, Placed
  <2>5. \A c \in away \ Nested : f[c] = p.fate[c]
    <3>1. \A c : c # ct => [p.fate EXCEPT ![ct] = IF p.ok THEN "solved" ELSE "reported"][c] = p.fate[c]
      BY <1>1
    <3> QED BY <1>4, <2>4, <3>1
  <2>6. \A c \in Elems(r.worklist) \cup Members(r.inert) \cup Elems(r.residuals)
                 \cup (away \ Nested) :
          r.fate[c] \notin {"new", "absent"}
    BY <1>6, <1>7, <1>8, <2>2, <2>3, <2>4, <2>5 DEF InHand, Good, Placed
  <2> QED BY <1>2, <1>6, <1>8, <2>1, <2>6 DEF InHand, Good, Placed
<1>12. Answers(call, r)
  <2>1. Elems(k.classMap) \subseteq rs /\ rs \subseteq Of("class")
    BY <1>5, <1>6 DEF InHand, Answers
  <2>2. Elems(r.residuals) \cap rs = {}
    BY <1>2, <1>5, <1>8 DEF InHand, Answers
  <2>3. \A c \in rs : ~MayDefer(call, zonkAll(r.soln, r.args[c]))
    BY <1>5, <1>8 DEF InHand, Answers
  <2>4. \A x \in k.resolutionKeys : x[2] \in rs /\ ~MayDefer(call, x[1])
    <3> SUFFICES ASSUME NEW x \in k.resolutionKeys PROVE x[2] \in rs /\ ~MayDefer(call, x[1])
      OBVIOUS
    <3>1. CASE x = <<ts, ct>>
      BY <1>5, <3>1
    <3>2. CASE x # <<ts, ct>>
      BY <1>5, <1>6, <3>2 DEF InHand, Answers
    <3> QED BY <3>1, <3>2
  <2> QED BY <1>8, <1>9, <2>1, <2>2, <2>3, <2>4 DEF InHand, Answers, CacheOK
<1>13. Found(p, away \cup {ct}) => Found(r, away)
  <2>1. ASSUME NEW c \in Of("class"), f[c] = "pending" PROVE p.fate[c] = "pending" /\ c # ct
    BY <1>7, <2>1 DEF Of
  <2> QED BY <1>8, <2>1 DEF Found
<1>14. Drained(p) => Drained(r)
  <2>1. ASSUME NEW c \in Of("class"), f[c] = "pending" PROVE p.fate[c] = "pending"
    BY <1>7, <2>1 DEF Of
  <2> QED BY <1>8, <2>1 DEF Drained
<1> QED BY <1>5, <1>6, <1>8, <1>9, <1>10, <1>11, <1>12, <1>13, <1>14 DEF Handled, Good

LEMMA ZonkedPair ==
  ASSUME NEW st \in States, Acyclic(st.soln), NEW c \in Cts, NEW ts, ts = zonkAll(st.soln, st.args[c])
  PROVE  ts \in Pairs /\ Zonked(st.soln, ts) /\ zonkAll(st.soln, ts) = ts
<1>1. st.soln \in Solutions /\ st.args[c] \in Pairs
  BY StateType
<1> QED BY <1>1, ZonkPair DEF Zonked

\* Handling goes on from a state that unification has reached.
LEMMA HandledLater ==
  ASSUME NEW q, NEW ct, NEW away, InHand(q, ct, away), NEW p, Woken(q, p),
         call = "local" => p.soln = q.soln, NEW r, Handled(p, ct, away, r)
  PROVE  Handled(q, ct, away, r)
<1>1. /\ Drained(q) => Drained(p)
      /\ Found(q, away \cup {ct}) => Found(p, away \cup {ct})
  BY WokenKeeps DEF InHand
<1>2. p.resolutions = q.resolutions /\ p.inert.scopeDepth = q.inert.scopeDepth
  BY DEF Woken
<1> QED BY <1>1, <1>2 DEF Handled

LEMMA WokenInHand ==
  ASSUME NEW q, NEW ct, NEW away, InHand(q, ct, away), NEW p, Good(p, away \cup {ct}), Woken(q, p)
  PROVE  InHand(p, ct, away)
BY WokenKeeps DEF InHand

LEMMA DeferOrResolveOK ==
  ASSUME NEW q, NEW ct, NEW away, InHand(q, ct, away),
         NEW ts, ts = zonkAll(q.soln, q.args[ct]), q.ok <=> MayDefer(call, ts),
         NEW r, r = DeferOrResolve(q, ct, ts)
  PROVE  Handled(q, ct, away, r)
<1>1. CASE q.ok
  <2>1. r = [q EXCEPT !.residuals = Append(@, ct)]
    BY <1>1 DEF DeferOrResolve
  <2> QED BY <1>1, <2>1, DeferOK
<1>2. CASE ~q.ok
  <2>1. PICK p : p = resolveInstance(q, ts)
    OBVIOUS
  <2>2. r = Resolved(p, ct, ts)
    BY <1>2, <2>1 DEF DeferOrResolve, resolveCtPlainClassKeyed
  <2>3. q \in States /\ Acyclic(q.soln) /\ ct \in Cts /\ Good(q, away \cup {ct}) /\ call \in Calls
    BY DEF InHand, Good, Sound, Of
  <2>4. ts \in Pairs /\ Zonked(q.soln, ts) /\ q.args[ct] \in Pairs
    BY <2>3, ZonkedPair, StateType
  <2>5. Good(p, away \cup {ct}) /\ Tried(q, ts, p)
    BY <2>1, <2>3, <2>4, ResolveInstanceOK
  <2>6. Woken(q, p)
    BY <2>5 DEF Tried
  <2>7. InHand(p, ct, away)
    BY <2>5, <2>6, WokenInHand
  <2>8. ~MayDefer(call, zonkAll(p.soln, p.args[ct]))
    BY <1>2, <2>3, <2>4, <2>6 DEF Woken, Narrows
  <2>9. Handled(p, ct, away, r)
    BY <1>2, <2>2, <2>4, <2>7, <2>8, ResolvedOK
  <2>10. ASSUME call = "local" PROVE p.soln = q.soln
    <3>1. ts[1] \notin Metas /\ ts[2] \notin Metas
      BY <1>2, <2>4, <2>10, MetaIDs DEF MayDefer
    <3>2. \A v \in Vars : p.soln[v] = q.soln[v]
      BY <2>5, <3>1 DEF Tried
    <3>3. p.soln \in Solutions /\ q.soln \in Solutions
      BY <2>3, <2>5, StateType DEF Good, Sound
    <3> QED BY <3>2, <3>3 DEF Solutions
  <2> QED BY <2>6, <2>9, <2>10, HandledLater
<1> QED BY <1>1, <1>2

\* The zonked arguments are written back.
Written(st, ct, ts, r) ==
  /\ r.soln = st.soln /\ r.args[ct] = ts
  /\ r.worklist = st.worklist /\ r.inert = st.inert /\ r.residuals = st.residuals
  /\ r.resolutions = st.resolutions /\ r.fate = st.fate
  /\ r.ambiguityCache = st.ambiguityCache /\ r.ok = st.ok
  /\ \A kind : Answers(kind, st) => Answers(kind, r)

LEMMA WriteArgs ==
  ASSUME NEW st, NEW away, Good(st, away), NEW ct \in Cts, ct \notin Of("given"),
         NEW ts, ts = zonkAll(st.soln, st.args[ct]), NEW r, r = [st EXCEPT !.args[ct] = ts]
  PROVE  Good(r, away) /\ Written(st, ct, ts, r)
<1>1. st \in States /\ Acyclic(st.soln) /\ st.args \in [Cts -> Pairs] /\ st.resolutions \subseteq Cts
  BY StateType DEF Good, Sound
<1>2. ts \in Pairs /\ zonkAll(st.soln, ts) = ts
  BY <1>1, ZonkedPair
<1>3. PICK a : a = [st.args EXCEPT ![ct] = ts]
  OBVIOUS
<1>4. a \in [Cts -> Pairs] /\ a[ct] = ts /\ \A c \in Cts : c # ct => a[c] = st.args[c]
  BY <1>1, <1>2, <1>3
<1>5. r = [st EXCEPT !.args = a]
  BY <1>1, <1>3 DEF States
<1>6. /\ r \in States /\ r.args = a /\ r.soln = st.soln
      /\ r.worklist = st.worklist /\ r.inert = st.inert /\ r.residuals = st.residuals
      /\ r.resolutions = st.resolutions /\ r.fate = st.fate
      /\ r.ambiguityCache = st.ambiguityCache /\ r.ok = st.ok
  BY <1>1, <1>4, <1>5, SMTT(40) DEF States
<1>7. \A c \in Of("given") : r.args[c] = Args[c]
  BY <1>4, <1>6 DEF Good, Sound, Of
<1>8. Good(r, away)
  <2>1. Sound(r)
    BY <1>6, <1>7 DEF Good, Sound, GivensFirst
  <2>2. Placed(r, away)
    BY <1>6 DEF Good, Placed
  <2> QED BY <2>1, <2>2 DEF Good
<1>9. ASSUME NEW kind, Answers(kind, st) PROVE Answers(kind, r)
  <2>1. \A c \in r.resolutions : zonkAll(r.soln, r.args[c]) = zonkAll(st.soln, st.args[c])
    BY <1>1, <1>2, <1>4, <1>6
  <2> QED BY <1>6, <1>9, <2>1 DEF Answers, CacheOK, NoGivens
<1> QED BY <1>4, <1>6, <1>8, <1>9 DEF Written

LEMMA HandleOK ==
  ASSUME NEW st, NEW ct, NEW away, InHand(st, ct, away),
         NEW ts, ts = zonkAll(st.soln, st.args[ct]),
         NEW r, r = DeferOrResolve(shouldDefer([st EXCEPT !.args[ct] = ts], ts), ct, ts)
  PROVE  Handled(st, ct, away, r)
<1>1. PICK w : w = [st EXCEPT !.args[ct] = ts]
  OBVIOUS
<1>2. PICK q : q = shouldDefer(w, ts)
  OBVIOUS
<1>3. /\ st \in States /\ Acyclic(st.soln) /\ ct \in Cts /\ ct \notin Of("given")
      /\ Good(st, away \cup {ct})
  BY DEF InHand, Good, Sound, Of
<1>4. ts \in Pairs /\ Zonked(st.soln, ts) /\ zonkAll(st.soln, ts) = ts
  BY <1>3, ZonkedPair
<1>5. /\ Good(w, away \cup {ct}) /\ w.soln = st.soln /\ w.args[ct] = ts
      /\ w.worklist = st.worklist /\ w.inert = st.inert /\ w.residuals = st.residuals
      /\ w.resolutions = st.resolutions /\ w.fate = st.fate
      /\ \A kind : Answers(kind, st) => Answers(kind, w)
  <2>1. Good(w, away \cup {ct}) /\ Written(st, ct, ts, w)
    BY <1>1, <1>3, WriteArgs
  <2> QED BY <2>1 DEF Written
<1>6. InHand(w, ct, away)
  BY <1>5 DEF InHand, NoGivens
<1>7. Good(q, away \cup {ct}) /\ Decided(w, ts, q)
  BY <1>2, <1>4, <1>5, ShouldDeferOK
<1>8. Woken(w, q) /\ q.soln = st.soln /\ q.args[ct] = ts /\ (q.ok <=> MayDefer(call, ts))
  BY <1>5, <1>6, <1>7 DEF Decided, Watched, Woken, InHand, Answers
<1>9. InHand(q, ct, away)
  BY <1>6, <1>7, <1>8, WokenInHand
<1>10. Handled(q, ct, away, r)
  <2>1. ts = zonkAll(q.soln, q.args[ct])
    BY <1>4, <1>8
  <2>2. r = DeferOrResolve(q, ct, ts)
    BY <1>1, <1>2
  <2> QED BY <1>8, <1>9, <2>1, <2>2, DeferOrResolveOK
<1>11. Handled(w, ct, away, r)
  BY <1>5, <1>6, <1>8, <1>10, HandledLater
<1> QED BY <1>5, <1>11 DEF Handled, Found, Drained

\* A constraint answered from the resolution cache.
LEMMA CachedOK ==
  ASSUME NEW st, NEW ct, NEW away, InHand(st, ct, away),
         NEW ts, ts = zonkAll(st.soln, st.args[ct]),
         Inert!LookupResolution(st.inert, ts) \cap st.resolutions # {},
         NEW r, r = [st EXCEPT !.args[ct] = ts, !.resolutions = @ \cup {ct}, !.fate[ct] = "solved"]
  PROVE  Handled(st, ct, away, r)
<1>1. PICK w : w = [st EXCEPT !.args[ct] = ts]
  OBVIOUS
<1>2. /\ st \in States /\ Acyclic(st.soln) /\ ct \in Cts /\ ct \notin Of("given")
      /\ Good(st, away \cup {ct})
  BY DEF InHand, Good, Sound, Of
<1>3. zonkAll(st.soln, ts) = ts
  BY <1>2, ZonkedPair
<1>4. /\ Good(w, away \cup {ct}) /\ w.soln = st.soln /\ w.args[ct] = ts
      /\ w.worklist = st.worklist /\ w.inert = st.inert /\ w.residuals = st.residuals
      /\ w.resolutions = st.resolutions /\ w.fate = st.fate
      /\ \A kind : Answers(kind, st) => Answers(kind, w)
  <2>1. Good(w, away \cup {ct}) /\ Written(st, ct, ts, w)
    BY <1>1, <1>2, WriteArgs
  <2> QED BY <2>1 DEF Written
<1>5. w \in States /\ w.fate \in [Cts -> Fates] /\ w.resolutions \subseteq Cts
  BY <1>4, StateType DEF Good, Sound
<1>6. PICK f : f = [w.fate EXCEPT ![ct] = "solved"]
  OBVIOUS
<1>7. PICK rs : rs = w.resolutions \cup {ct}
  OBVIOUS
<1>8. f \in [Cts -> Fates] /\ f[ct] = "solved" /\ \A c : c # ct => f[c] = w.fate[c]
  <2>1. \A c : c # ct => [w.fate EXCEPT ![ct] = "solved"][c] = w.fate[c]
    BY <1>5
  <2>2. [w.fate EXCEPT ![ct] = "solved"] \in [Cts -> Fates]
    BY <1>5 DEF Fates
  <2>3. [w.fate EXCEPT ![ct] = "solved"][ct] = "solved"
    BY <1>2, <1>5
  <2> QED BY <1>6, <2>1, <2>2, <2>3
<1>9. /\ r \in States /\ r.soln = w.soln /\ r.args = w.args /\ r.worklist = w.worklist
      /\ r.inert = w.inert /\ r.residuals = w.residuals /\ r.resolutions = rs /\ r.fate = f
      /\ r.ambiguityCache = w.ambiguityCache
  <2>1. r = [w EXCEPT !.resolutions = rs, !.fate = f]
    BY <1>1, <1>2, <1>4, <1>6, <1>7 DEF States
  <2>2. rs \in SUBSET Cts
    BY <1>2, <1>5, <1>7
  <2> QED BY <1>5, <1>8, <2>1, <2>2 DEF States
<1>10. NoGivens(r)
  BY <1>4, <1>9 DEF InHand, NoGivens
<1>11. Sound(r)
  BY <1>4, <1>8, <1>9 DEF Good, Sound, GivensFirst
<1>12. Placed(r, away)
  BY <1>4, <1>8, <1>9 DEF Good, Placed
<1>13. ~MayDefer(call, ts)
  <2>1. PICK c : c \in Inert!LookupResolution(st.inert, ts)
    OBVIOUS
  <2>2. <<ts, c>> \in st.inert.resolutionKeys
    BY <2>1 DEF Inert!LookupResolution
  <2>3. <<ts, c>>[1] = ts
    OBVIOUS
  <2> QED BY <2>2, <2>3 DEF InHand, Answers
<1>14. Answers(call, r)
  <2>1. Answers(call, w)
    BY <1>4 DEF InHand
  <2>2. ct \notin Elems(w.residuals) /\ ct \in Of("class")
    BY <1>4 DEF Good, Placed, InHand
  <2>3. \A c \in rs : ~MayDefer(call, zonkAll(r.soln, r.args[c]))
    BY <1>3, <1>4, <1>7, <1>9, <1>13, <2>1 DEF Answers
  <2> QED BY <1>7, <1>9, <1>10, <2>1, <2>2, <2>3 DEF Answers, CacheOK
<1>15. Found(st, away \cup {ct}) => Found(r, away)
  BY <1>4, <1>8, <1>9 DEF Found
<1>16. Drained(st) => Drained(r)
  BY <1>4, <1>8, <1>9 DEF Drained
<1> QED BY <1>4, <1>7, <1>9, <1>10, <1>11, <1>12, <1>14, <1>15, <1>16 DEF Handled, Good

LEMMA ProcessClassOK ==
  ASSUME NEW st, NEW ct, NEW away, InHand(st, ct, away),
         NEW ts, ts = zonkAll(st.soln, st.args[ct]), NEW r, r = processCtPlainClass(st, ct, ts)
  PROVE  Handled(st, ct, away, r)
<1>1. CASE Inert!LookupResolution(st.inert, ts) \cap st.resolutions # {}
  <2>1. r = [st EXCEPT !.args[ct] = ts, !.resolutions = @ \cup {ct}, !.fate[ct] = "solved"]
    BY <1>1 DEF processCtPlainClass
  <2> QED BY <1>1, <2>1, CachedOK
<1>2. CASE Inert!LookupResolution(st.inert, ts) \cap st.resolutions = {}
  <2>1. r = DeferOrResolve(shouldDefer([st EXCEPT !.args[ct] = ts], ts), ct, ts)
    BY <1>2 DEF processCtPlainClass
  <2> QED BY <2>1, HandleOK
<1> QED BY <1>1, <1>2

-----------------------------------------------------------------------------
(* Equalities and family equations.                                        *)

\* In a local call, no metavariable born outside its scope has been solved.
Outer(q, r) ==
  \A m \in Metas : Birth[m] < solverLevel => r.soln[m] = q.soln[m]

\* The constraint ct is in hand, whatever its kind, or has been processed.
Taken(q, ct, away) ==
  /\ Good(q, away \cup {ct}) /\ (ct \in Nested \/ ct \notin away) /\ ct \in Cts
  /\ Answers(call, q) /\ call \in Calls /\ solverLevel \in Int

Carried(q, ct, away, r) ==
  /\ Good(r, away)
  /\ \A kind : Answers(kind, q) => Answers(kind, r)
  /\ Found(q, away \cup {ct}) => Found(r, away)
  /\ r.inert.scopeDepth = q.inert.scopeDepth

Processed(q, ct, away, r) ==
  /\ Good(r, away) /\ Answers(call, r)
  /\ Found(q, away \cup {ct}) => Found(r, away)
  /\ r.inert.scopeDepth = q.inert.scopeDepth
  /\ Outer(q, r)

\* r is q but for what is recorded of ct.
ButFor(q, ct, r) ==
  /\ r \in States /\ r.soln = q.soln /\ r.worklist = q.worklist
  /\ r.residuals = q.residuals /\ r.resolutions = q.resolutions
  /\ r.ambiguityCache = q.ambiguityCache
  /\ \A c : c # ct => r.fate[c] = q.fate[c] /\ r.args[c] = q.args[c]
  /\ ct \in Of("given") => r.args[ct] = q.args[ct]

\* A constraint that is done with leaves the solver's hands.
LEMMA DropOK ==
  ASSUME NEW q, NEW ct \in Cts, NEW away, Good(q, away \cup {ct}), ct \in Nested \/ ct \notin away,
         NEW r, ButFor(q, ct, r), r.inert = q.inert,
         ct \notin Of("class") \/ (r.args[ct] = q.args[ct] /\ r.fate[ct] # "pending")
  PROVE  Carried(q, ct, away, r)
<1>1. ct \notin Elems(q.inert.classMap)
  <2>1. q.inert \in Inert!InertSets /\ ct \notin Members(q.inert)
    BY StateType DEF Good, Sound, Placed
  <2> QED BY <2>1, MembersDef
<1>2. Sound(r)
  <2>1. \A c \in Of("given") : r.args[c] = Args[c]
    BY DEF ButFor, Good, Sound
  <2>2. \A c \in Elems(r.inert.classMap) : r.fate[c] # "pending"
    BY <1>1 DEF ButFor, Good, Sound
  <2> QED BY <2>1, <2>2 DEF ButFor, Good, Sound, GivensFirst
<1>3. Placed(r, away)
  BY DEF ButFor, Good, Placed
<1>4. ASSUME NEW kind, Answers(kind, q) PROVE Answers(kind, r)
  <2>1. \A c \in r.resolutions : r.args[c] = q.args[c]
    BY <1>4 DEF ButFor, Answers
  <2> QED BY <1>4, <2>1 DEF ButFor, Answers, CacheOK, NoGivens
<1>5. Found(q, away \cup {ct}) => Found(r, away)
  BY DEF ButFor, Found
<1> QED BY <1>2, <1>3, <1>4, <1>5 DEF Carried, Good

\* A stuck constraint goes to the inert set, under unsolved metavariables.
LEMMA StuckOK ==
  ASSUME NEW q, NEW ct \in Cts, NEW away, Good(q, away \cup {ct}), ct \in Nested \/ ct \notin away,
         ct \in Of("fun") \cup Of("eq"), NEW r, ButFor(q, ct, r), r.fate[ct] = q.fate[ct],
         NEW ids, Grown(q.inert, ct, ids, r.inert), \A m \in ToSet(ids) : q.soln[m] = None
  PROVE  Carried(q, ct, away, r)
<1>1. ct \notin Of("class") /\ ct \notin Of("given")
  BY DEF Of
<1>2. /\ InertOK(r.inert) /\ Members(r.inert) \subseteq Members(q.inert) \cup {ct}
      /\ r.inert.classMap = q.inert.classMap /\ r.inert.scopeDepth = q.inert.scopeDepth
      /\ r.inert.resolutionKeys = q.inert.resolutionKeys
      /\ \A m \in Metas : ToSet(r.inert.metaIndex[m]) =
           IF m \in ToSet(ids) THEN ToSet(q.inert.metaIndex[m]) \cup {ct}
           ELSE ToSet(q.inert.metaIndex[m])
      /\ OfScope(r.inert)
  BY DEF Grown, Good, Sound
<1>3. Elems(q.inert.classMap) \subseteq Of("class")
  BY PlainElems DEF Good, Sound, InertOK, Kinds
<1>4. Blocked(r.soln, r.inert)
  BY <1>2, ZenonT(60) DEF Blocked, Good, Sound, ButFor
<1>5. Sound(r)
  <2>1. \A c \in Of("given") : r.args[c] = Args[c]
    BY DEF ButFor, Good, Sound
  <2>2. \A c \in Elems(r.inert.classMap) : r.fate[c] # "pending"
    BY <1>1, <1>2, <1>3 DEF ButFor, Good, Sound
  <2>3. GivensFirst(r)
    BY <1>2 DEF ButFor, Good, Sound, GivensFirst
  <2> QED BY <1>2, <1>4, <2>1, <2>2, <2>3 DEF ButFor, Good, Sound
<1>6. Placed(r, away)
  <2>1. \A c : r.fate[c] = q.fate[c]
    BY DEF ButFor
  <2>2. /\ ct \notin Elems(q.worklist) /\ ct \notin Elems(q.residuals)
    BY DEF Good, Placed
  <2>3. ct \in Nested => ct \notin Members(r.inert)
    BY PlainElems
  <2> QED BY <1>1, <1>2, <2>1, <2>2, <2>3 DEF ButFor, Good, Placed
<1>7. ASSUME NEW kind, Answers(kind, q) PROVE Answers(kind, r)
  <2>1. \A c \in r.resolutions : r.args[c] = q.args[c]
    BY <1>1, <1>7 DEF ButFor, Answers
  <2> QED BY <1>2, <1>7, <2>1 DEF ButFor, Answers, CacheOK, NoGivens
<1>8. Found(q, away \cup {ct}) => Found(r, away)
  BY <1>1 DEF ButFor, Found
<1> QED BY <1>2, <1>5, <1>6, <1>7, <1>8 DEF Carried, Good

\* What a unification makes of the state in hand.
LEMMA UnifyTaken ==
  ASSUME NEW q, NEW ct, NEW away, Taken(q, ct, away), NEW a \in Types, NEW b \in Types,
         NEW u, u = Unify(q, a, b, solverLevel)
  PROVE  /\ Taken(u, ct, away) /\ Outer(q, u) /\ Woken(q, u)
         /\ ~u.ok => u.soln = q.soln
<1>1. Good(u, away \cup {ct}) /\ Unified(q, a, b, solverLevel, u)
  BY UnifyOK DEF Taken
<1>2. Woken(q, u)
  BY <1>1 DEF Unified
<1>3. Answers(call, u)
  BY <1>2, WokenKeeps DEF Taken
<1>4. Outer(q, u)
  <2> SUFFICES ASSUME NEW m \in Metas, Birth[m] < solverLevel PROVE u.soln[m] = q.soln[m]
    BY DEF Outer
  <2>1. m \in Vars /\ Birth[m] \in Nat /\ solverLevel \in Int
    BY SignatureAssumption DEF Vars, Taken
  <2>2. ~(solverLevel < 0 \/ Birth[m] >= solverLevel)
    BY <2>1
  <2> QED BY <1>1, <2>1, <2>2 DEF Unified
<1> QED BY <1>1, <1>2, <1>3, <1>4 DEF Taken, Unified

\* What is done after a unification.
LEMMA ProcessedLater ==
  ASSUME NEW q, NEW ct, NEW away, Taken(q, ct, away), NEW u, Taken(u, ct, away),
         Woken(q, u), Outer(q, u), NEW r, Carried(u, ct, away, r), r.soln = u.soln
  PROVE  Processed(q, ct, away, r)
<1>1. Found(q, away \cup {ct}) => Found(u, away \cup {ct})
  BY WokenKeeps DEF Taken
<1>2. u.inert.scopeDepth = q.inert.scopeDepth
  BY DEF Woken
<1> QED BY <1>1, <1>2 DEF Processed, Carried, Taken, Outer

LEMMA WokenSelf ==
  ASSUME NEW q, NEW away, Good(q, away)
  PROVE  Woken(q, q) /\ Outer(q, q)
<1>1. SamePlaces(q, q)
  BY DEF Good, Sound, SamePlaces
<1> QED BY <1>1, SameWoken DEF Outer

LEMMA SetFate ==
  ASSUME NEW q \in States, NEW ct \in Cts, NEW f \in Fates, NEW r, r = [q EXCEPT !.fate[ct] = f]
  PROVE  ButFor(q, ct, r) /\ r.inert = q.inert
<1>1. PICK g : g = [q.fate EXCEPT ![ct] = f]
  OBVIOUS
<1>2. q.fate \in [Cts -> Fates]
  BY StateType
<1>3. g \in [Cts -> Fates] /\ \A c : c # ct => g[c] = q.fate[c]
  <2>1. \A c : c # ct => [q.fate EXCEPT ![ct] = f][c] = q.fate[c]
    BY <1>2
  <2>2. [q.fate EXCEPT ![ct] = f] \in [Cts -> Fates]
    BY <1>2
  <2> QED BY <1>1, <2>1, <2>2
<1>4. r = [q EXCEPT !.fate = g]
  BY <1>1 DEF States
<1>5. /\ r \in States /\ r.fate = g /\ r.args = q.args /\ r.soln = q.soln /\ r.worklist = q.worklist
      /\ r.residuals = q.residuals /\ r.resolutions = q.resolutions
      /\ r.ambiguityCache = q.ambiguityCache /\ r.inert = q.inert
  BY <1>3, <1>4 DEF States
<1> QED BY <1>3, <1>5 DEF ButFor

\* The equality or the equation ct is done with after a unification.
LEMMA DoneOK ==
  ASSUME NEW q, NEW ct, NEW away, Taken(q, ct, away), ct \notin Of("class"),
         NEW u, Taken(u, ct, away), Woken(q, u), Outer(q, u),
         NEW f \in Fates, NEW r, r = [u EXCEPT !.fate[ct] = f]
  PROVE  Processed(q, ct, away, r)
<1>1. u \in States /\ ct \in Cts
  BY DEF Taken, Good, Sound
<1>2. ButFor(u, ct, r) /\ r.inert = u.inert
  BY <1>1, SetFate
<1>3. Carried(u, ct, away, r)
  BY <1>1, <1>2, DropOK DEF Taken
<1> QED BY <1>2, <1>3, ProcessedLater DEF ButFor

\* The arguments of a stuck constraint, written back when it is inserted.
Inserting(q, ct, ts, k) == [q EXCEPT !.args[ct] = ts, !.inert = k]

LEMMA SetInert ==
  ASSUME NEW q \in States, NEW ct \in Cts, ct \notin Of("given"), NEW ts \in Pairs,
         NEW k \in Inert!InertSets, NEW r, r = Inserting(q, ct, ts, k)
  PROVE  ButFor(q, ct, r) /\ r.inert = k /\ r.fate = q.fate
<1>1. PICK a : a = [q.args EXCEPT ![ct] = ts]
  OBVIOUS
<1>2. q.args \in [Cts -> Pairs]
  BY StateType
<1>3. a \in [Cts -> Pairs] /\ \A c : c # ct => a[c] = q.args[c]
  <2>1. \A c : c # ct => [q.args EXCEPT ![ct] = ts][c] = q.args[c]
    BY <1>2
  <2>2. [q.args EXCEPT ![ct] = ts] \in [Cts -> Pairs]
    BY <1>2
  <2> QED BY <1>1, <2>1, <2>2
<1>4. r = [q EXCEPT !.args = a, !.inert = k]
  BY <1>1 DEF States, Inserting
<1>5. /\ r \in States /\ r.fate = q.fate /\ r.args = a /\ r.soln = q.soln /\ r.worklist = q.worklist
      /\ r.residuals = q.residuals /\ r.resolutions = q.resolutions
      /\ r.ambiguityCache = q.ambiguityCache /\ r.inert = k
  BY <1>3, <1>4 DEF States
<1> QED BY <1>3, <1>5 DEF ButFor

\* Insertion of a stuck equality or family equation under its metavariables.
LEMMA InsertStuck ==
  ASSUME NEW q, NEW ct, NEW away, Taken(q, ct, away), NEW ts \in Pairs, Zonked(q.soln, ts),
         NEW k, \/ /\ ct \in Of("eq") /\ k = Inert!InsertEq(q.inert, ct, blocking(ts))
                   /\ ct \in Nested \/ ts[1] # ts[2]
                \/ ct \in Of("fun") /\ k = Inert!InsertFunEq(q.inert, ct, collectMetaIDs(ts)),
         NEW r, r = Inserting(q, ct, ts, k)
  PROVE  Carried(q, ct, away, r) /\ r.soln = q.soln
<1>1. /\ q \in States /\ ct \in Cts /\ Good(q, away \cup {ct}) /\ InertOK(q.inert)
      /\ ct \in Nested \/ ct \notin away
  BY DEF Taken, Good, Sound
<1>2. PICK ids : ids = IF ct \in Of("eq") THEN blocking(ts) ELSE collectMetaIDs(ts)
  OBVIOUS
<1>3. ids \in Seq(Metas) /\ ToSet(ids) = Metas \cap {ts[1], ts[2]}
  BY <1>2, MetaIDs
<1>4. ct \notin Members(q.inert)
  BY <1>1, PlainElems DEF Good, Placed
<1>5. Grown(q.inert, ct, ids, k)
  <2>1. CASE /\ ct \in Of("eq") /\ k = Inert!InsertEq(q.inert, ct, blocking(ts))
             /\ ct \in Nested \/ ts[1] # ts[2]
    <3>1. k = Inert!InsertEq(q.inert, ct, ids) /\ (ct \in Nested \/ IsInjective(ids))
      BY <1>2, <2>1, MetaIDs
    <3> QED BY <1>1, <1>3, <1>4, <2>1, <3>1, InsertEqOK
  <2>2. CASE ct \in Of("fun") /\ k = Inert!InsertFunEq(q.inert, ct, collectMetaIDs(ts))
    <3>1. ids = collectMetaIDs(ts) /\ IsInjective(ids)
      BY <1>2, <2>2, MetaIDs DEF Of
    <3> QED BY <1>1, <1>3, <1>4, <2>2, <3>1, InsertFunEqOK
  <2> QED BY <1>2, <2>1, <2>2
<1>6. k \in Inert!InertSets
  BY <1>5 DEF Grown, InertOK, Buckets
<1>7. ct \in Of("fun") \cup Of("eq") /\ ct \notin Of("given")
  BY DEF Of
<1>8. ButFor(q, ct, r) /\ r.inert = k /\ r.fate = q.fate
  BY <1>1, <1>6, <1>7, SetInert
<1>9. \A m \in ToSet(ids) : q.soln[m] = None
  BY <1>3 DEF Zonked, Vars
<1>10. Carried(q, ct, away, r)
  BY <1>1, <1>5, <1>7, <1>8, <1>9, StuckOK
<1> QED BY <1>8, <1>10 DEF ButFor

LEMMA ProcessEqOK ==
  ASSUME NEW q, NEW ct \in Of("eq"), NEW away, Taken(q, ct, away),
         NEW ts, ts = zonkAll(q.soln, q.args[ct]), NEW r, r = processCtEq(q, ct, ts)
  PROVE  Processed(q, ct, away, r)
<1>1. q \in States /\ Acyclic(q.soln) /\ ct \in Cts /\ ct \notin Of("class")
  BY DEF Taken, Good, Sound, Of
<1>2. ts \in Pairs /\ Zonked(q.soln, ts) /\ ts[1] \in Types /\ ts[2] \in Types
  BY <1>1, ZonkedPair DEF Pairs
<1>3. PICK u : u = UnifySides(q, ct, ts)
  OBVIOUS
<1>4. /\ Taken(u, ct, away) /\ Outer(q, u) /\ Woken(q, u) /\ (~u.ok => u.soln = q.soln)
      /\ ~u.ok => ct \in Nested \/ ts[1] # ts[2]
  <2>1. CASE ct \in Nested
    <3>1. u = [q EXCEPT !.ok = FALSE]
      BY <1>3, <2>1 DEF UnifySides
    <3>2. Good(u, away \cup {ct}) /\ Woken(q, u) /\ u.soln = q.soln
      BY <3>1, OkGood DEF Taken
    <3>3. Answers(call, u)
      BY <3>2, WokenKeeps DEF Taken
    <3> QED BY <2>1, <3>2, <3>3 DEF Taken, Outer
  <2>2. CASE ct \notin Nested
    <3>1. u = Unify(q, ts[1], ts[2], solverLevel)
      BY <1>3, <2>2 DEF UnifySides
    <3>2. Taken(u, ct, away) /\ Outer(q, u) /\ Woken(q, u) /\ (~u.ok => u.soln = q.soln)
      BY <1>2, <3>1, UnifyTaken
    <3>3. ts[1] = ts[2] => u.ok
      BY <1>1, <3>1 DEF Unify, UnifyZonked, States
    <3> QED BY <3>2, <3>3
  <2> QED BY <2>1, <2>2
<1>5. r = EqUnified(u, ct, ts)
  BY <1>3 DEF processCtEq
<1>6. CASE u.ok
  <2>1. r = [u EXCEPT !.fate[ct] = "solved"] /\ "solved" \in Fates
    BY <1>5, <1>6 DEF EqUnified, Fates
  <2> QED BY <1>1, <1>4, <2>1, DoneOK
<1>7. CASE ~u.ok /\ SliceHasMeta(ts)
  <2>1. PICK k : k = Inert!InsertEq(u.inert, ct, blocking(ts))
    OBVIOUS
  <2>2. r = Inserting(u, ct, ts, k)
    BY <1>5, <1>7, <2>1 DEF EqUnified, Inserting
  <2>3. Zonked(u.soln, ts)
    BY <1>2, <1>4, <1>7
  <2>4. Carried(u, ct, away, r) /\ r.soln = u.soln
    BY <1>2, <1>4, <1>7, <2>1, <2>2, <2>3, InsertStuck
  <2> QED BY <1>4, <2>4, ProcessedLater
<1>8. CASE ~u.ok /\ ~SliceHasMeta(ts)
  <2>1. r = [u EXCEPT !.fate[ct] = "reported"] /\ "reported" \in Fates
    BY <1>5, <1>8 DEF EqUnified, Fates
  <2> QED BY <1>1, <1>4, <2>1, DoneOK
<1> QED BY <1>6, <1>7, <1>8

LEMMA ProcessFunEqOK ==
  ASSUME NEW q, NEW ct \in Of("fun"), NEW away, Taken(q, ct, away),
         NEW ts, ts = zonkAll(q.soln, q.args[ct]), NEW r, r = processCtFunEq(q, ct, ts)
  PROVE  Processed(q, ct, away, r)
<1>1. q \in States /\ Acyclic(q.soln) /\ ct \in Cts /\ ct \notin Of("class") /\ ct \notin Of("given")
  BY DEF Taken, Good, Sound, Of
<1>2. ts \in Pairs /\ Zonked(q.soln, ts) /\ ts[1] \in Types /\ ts[2] \in Types
  BY <1>1, ZonkedPair DEF Pairs
<1>3. Woken(q, q) /\ Outer(q, q)
  BY WokenSelf DEF Taken
<1>4. CASE Reduces(ts)
  <2>1. PICK u : u = Unify(q, ResultMeta[ct], Family[ts], solverLevel)
    OBVIOUS
  <2>2. ResultMeta[ct] \in Types /\ Family[ts] \in Types
    BY <1>1, <1>4, ConstraintsAssumption, SignatureAssumption DEF Reduces, Types, Vars
  <2>3. Taken(u, ct, away) /\ Outer(q, u) /\ Woken(q, u)
    BY <2>1, <2>2, UnifyTaken
  <2>4. PICK f : f = IF u.ok THEN "solved" ELSE "reported"
    OBVIOUS
  <2>5. r = [u EXCEPT !.fate[ct] = f] /\ f \in Fates
    BY <1>4, <2>1, <2>4 DEF processCtFunEq, FunEqUnified, Fates
  <2> QED BY <1>1, <2>3, <2>5, DoneOK
<1>5. CASE ~Reduces(ts) /\ SliceHasMeta(ts)
  <2>1. PICK k : k = Inert!InsertFunEq(q.inert, ct, collectMetaIDs(ts))
    OBVIOUS
  <2>2. r = Inserting(q, ct, ts, k)
    BY <1>5, <2>1 DEF processCtFunEq, Inserting
  <2>3. Carried(q, ct, away, r) /\ r.soln = q.soln
    BY <1>2, <2>1, <2>2, InsertStuck
  <2> QED BY <1>3, <2>3, ProcessedLater
<1>6. CASE ~Reduces(ts) /\ ~SliceHasMeta(ts)
  <2>1. r = [q EXCEPT !.args[ct] = ts, !.fate[ct] = "rigid"]
    BY <1>6 DEF processCtFunEq
  <2>2. PICK w : w = Inserting(q, ct, ts, q.inert)
    OBVIOUS
  <2>3. q.inert \in Inert!InertSets
    BY <1>1, StateType
  <2>4. ButFor(q, ct, w) /\ w.inert = q.inert
    BY <1>1, <1>2, <2>2, <2>3, SetInert
  <2>5. r = [w EXCEPT !.fate[ct] = "rigid"]
    BY <1>1, <2>1, <2>2 DEF States, Inserting
  <2>6. ButFor(w, ct, r) /\ r.inert = w.inert
    <3>1. w \in States /\ "rigid" \in Fates
      BY <2>4 DEF ButFor, Fates
    <3> QED BY <1>1, <2>5, <3>1, SetFate
  <2>7. ButFor(q, ct, r) /\ r.inert = q.inert
    BY <1>1, <2>4, <2>6 DEF ButFor
  <2>8. Carried(q, ct, away, r)
    BY <1>1, <2>7, DropOK DEF Taken
  <2> QED BY <1>3, <2>7, <2>8, ProcessedLater DEF ButFor
<1> QED BY <1>4, <1>5, <1>6

\* A given that refines a skolem: nothing has been resolved or deferred yet.
Installing(q, ct, sk, t, S) ==
  WakeSkolem([q EXCEPT !.fate[ct] = "solved", !.soln[sk] = t,
                       !.inert = Inert!InsertGiven(@, ct)], S)

LEMMA InstallOK ==
  ASSUME NEW q, NEW ct \in Of("given"), NEW away, Taken(q, ct, away),
         q.resolutions = {}, q.residuals = <<>>,
         NEW sk \in Skolems, NEW t \in TyCons, NEW S \in SUBSET Cts, S \cap Of("class") = {},
         NEW r, r = Installing(q, ct, sk, t, S)
  PROVE  Processed(q, ct, away, r)
<1>1. /\ q \in States /\ Acyclic(q.soln) /\ ct \in Cts /\ ct \notin Of("class")
      /\ InertOK(q.inert) /\ q.inert \in Inert!InertSets /\ Blocked(q.soln, q.inert)
      /\ q.soln \in Solutions /\ q.fate \in [Cts -> Fates] /\ q.worklist \in Seq(Cts)
      /\ Placed(q, away \cup {ct}) /\ OfScope(q.inert)
  BY StateType DEF Taken, Good, Sound, Of
<1>2. PICK g : g = Inert!InsertGiven(q.inert, ct)
  OBVIOUS
<1>3. PICK kicked : kicked = Inert!SkolemCts(g, S)
  OBVIOUS
<1>4. PICK k : k = Inert!KickOutMentioningSkolem(g, S)
  OBVIOUS
<1>5. PICK s : s = [q.soln EXCEPT ![sk] = t]
  OBVIOUS
<1>6. PICK f : f = [q.fate EXCEPT ![ct] = "solved"]
  OBVIOUS
<1>7. /\ s \in Solutions /\ Acyclic(s) /\ \A m \in Metas : s[m] = q.soln[m]
  <2>1. sk \in Vars /\ t \in Types /\ sk # t /\ t \notin Vars /\ sk \notin Metas
    BY SignatureAssumption DEF Vars, Types
  <2>2. s \in Solutions /\ Acyclic(s)
    BY <1>1, <1>5, <2>1, AcyclicExtend
  <2> QED BY <1>1, <1>5, <2>1, <2>2 DEF Solutions, Vars
<1>8. /\ f \in [Cts -> Fates] /\ f[ct] = "solved" /\ \A c : c # ct => f[c] = q.fate[c]
  <2>1. \A c : c # ct => [q.fate EXCEPT ![ct] = "solved"][c] = q.fate[c]
    BY <1>1
  <2>2. [q.fate EXCEPT ![ct] = "solved"] \in [Cts -> Fates]
    BY <1>1 DEF Fates
  <2>3. [q.fate EXCEPT ![ct] = "solved"][ct] = "solved"
    BY <1>1
  <2> QED BY <1>6, <2>1, <2>2, <2>3
<1>9. /\ ct \notin Members(q.inert) /\ ct \notin Elems(q.worklist) /\ ct \notin Elems(q.residuals)
      /\ ct \notin Nested /\ ct \notin away
  BY <1>1, NestedKind DEF Placed, Taken
<1>10. Grown(q.inert, ct, <<>>, g)
  BY <1>1, <1>2, <1>9, InsertGivenOK
<1>11. /\ InertOK(g) /\ g \in Inert!InertSets /\ OfScope(g)
       /\ Members(g) \subseteq Members(q.inert)
       /\ g.classMap = q.inert.classMap /\ g.scopeDepth = q.inert.scopeDepth
       /\ g.resolutionKeys = q.inert.resolutionKeys
       /\ \A m \in Metas : ToSet(g.metaIndex[m]) = ToSet(q.inert.metaIndex[m])
  <2>1. /\ InertOK(g) /\ g \in Inert!InertSets
        /\ Members(g) \subseteq Members(q.inert) \cup {ct}
        /\ g.classMap = q.inert.classMap /\ g.scopeDepth = q.inert.scopeDepth
        /\ g.resolutionKeys = q.inert.resolutionKeys /\ OfScope(g)
    BY <1>1, <1>10 DEF Grown, InertOK, Buckets
  <2>2. \A m \in Metas : ToSet(g.metaIndex[m]) = ToSet(q.inert.metaIndex[m])
    BY <1>10, EmptyElems DEF Grown
  <2>3. ct \notin Members(g)
    <3>1. ct \notin Elems(g.classMap) /\ ct \notin Elems(g.funEqs)
      BY <2>1, PlainElems DEF InertOK, Kinds, Of
    <3>2. \A m \in Metas : ct \notin Elems(g.metaIndex[m])
      BY <1>1, <1>9, <2>2, IndexedMember DEF Elems
    <3> QED BY <2>1, <3>1, <3>2, MembersDef
  <2> QED BY <2>1, <2>2, <2>3
<1>12. /\ kicked \in Seq(Cts) /\ Once(kicked)
       /\ Elems(kicked) \subseteq S \cap Members(g)
  BY <1>3, <1>11, SkolemCtsElems
<1>13. Shrunk(g, ToSet(kicked), k)
  BY <1>3, <1>4, <1>11, KickOutSkolemOK
<1>14. /\ InertOK(k) /\ OfScope(k) /\ k \in Inert!InertSets
       /\ Members(k) = Members(g) \ Elems(kicked)
       /\ Elems(k.classMap) \subseteq Elems(q.inert.classMap)
       /\ \A x \in Metas : ToSet(k.metaIndex[x]) \subseteq ToSet(q.inert.metaIndex[x])
       /\ k.scopeDepth = q.inert.scopeDepth /\ k.resolutionKeys = q.inert.resolutionKeys
  <2>1. /\ InertOK(k) /\ OfScope(k) /\ Members(k) = Members(g) \ ToSet(kicked)
        /\ Elems(k.classMap) \subseteq Elems(q.inert.classMap)
        /\ \A x \in Metas : ToSet(k.metaIndex[x]) \subseteq ToSet(q.inert.metaIndex[x])
        /\ k.scopeDepth = q.inert.scopeDepth /\ k.resolutionKeys = q.inert.resolutionKeys
    BY <1>11, <1>13 DEF Shrunk
  <2>2. k \in Inert!InertSets
    BY <2>1 DEF InertOK, Buckets
  <2>3. Members(g) \ ToSet(kicked) = Members(g) \ Elems(kicked)
    BY DEF Members, Elems
  <2> QED BY <2>1, <2>2, <2>3
<1>15. /\ kicked \o q.worklist \in Seq(Cts)
       /\ Elems(kicked \o q.worklist) = Elems(kicked) \cup Elems(q.worklist)
       /\ Once(kicked \o q.worklist)
  <2>1. Once(q.worklist) /\ Elems(kicked) \cap Elems(q.worklist) = {}
    BY <1>1, <1>11, <1>12 DEF Placed
  <2> QED BY <1>1, <1>12, <2>1, ConcatElems
<1>16. PICK wl : wl = kicked \o q.worklist
  OBVIOUS
<1>17. /\ r \in States /\ r.soln = s /\ r.worklist = wl /\ r.inert = k /\ r.fate = f
       /\ r.args = q.args /\ r.residuals = q.residuals /\ r.resolutions = q.resolutions
       /\ r.ambiguityCache = q.ambiguityCache
  <2>1. PICK w : w = [q EXCEPT !.fate[ct] = "solved", !.soln[sk] = t,
                               !.inert = Inert!InsertGiven(@, ct)]
    OBVIOUS
  <2>2. w = [q EXCEPT !.fate = f, !.soln = s, !.inert = g]
    BY <1>1, <1>2, <1>5, <1>6, <2>1 DEF States
  <2>3. /\ w \in States /\ w.soln = s /\ w.worklist = q.worklist /\ w.inert = g /\ w.fate = f
        /\ w.args = q.args /\ w.residuals = q.residuals /\ w.resolutions = q.resolutions
        /\ w.ambiguityCache = q.ambiguityCache
    BY <1>1, <1>7, <1>8, <1>11, <2>2 DEF States
  <2>4. r = WakeSkolem(w, S)
    BY <2>1 DEF Installing
  <2>5. r = [w EXCEPT !.worklist = wl, !.inert = k]
    BY <1>3, <1>4, <1>16, <2>3, <2>4 DEF WakeSkolem, States
  <2> QED BY <1>14, <1>15, <1>16, <2>3, <2>5 DEF States
<1>18. Elems(k.classMap) = {} /\ k.resolutionKeys = {}
  BY <1>14 DEF Taken, Answers
<1>19. GivensFirst(r)
  <2>1. Elems(kicked) \cap Of("class") = {}
    BY <1>12
  <2>2. Ordered(kicked) /\ Ordered(q.worklist)
    BY <1>12, <2>1, OrderedUniform DEF Taken, Good, Sound, GivensFirst
  <2>3. Ordered(kicked \o q.worklist)
    BY <1>1, <1>12, <2>1, <2>2, OrderedConcat
  <2> QED BY <1>16, <1>17, <1>18, <2>3 DEF GivensFirst
<1>20. Blocked(s, k)
  BY <1>1, <1>7, <1>14 DEF Blocked
<1>21. Sound(r)
  <2>1. \A c \in Of("given") : r.args[c] = Args[c]
    BY <1>17 DEF Taken, Good, Sound
  <2> QED BY <1>7, <1>14, <1>17, <1>18, <1>19, <1>20, <2>1 DEF Sound
<1>22. Placed(r, away)
  <2>1. Elems(wl) = Elems(kicked) \cup Elems(q.worklist) /\ Once(wl)
    BY <1>15, <1>16
  <2>2. Elems(wl) \cup Members(k) \subseteq Elems(q.worklist) \cup Members(q.inert)
    BY <1>11, <1>12, <1>14, <2>1
  <2>3. \A c \in Elems(q.worklist) \cup Members(q.inert) \cup Elems(q.residuals)
                 \cup (away \ Nested) :
          f[c] \notin {"new", "absent"}
    BY <1>1, <1>8 DEF Placed
  <2>4. Elems(wl) \cap Members(k) = {}
    BY <1>1, <1>11, <1>14, <2>1 DEF Placed
  <2>5. Members(k) \cap Of("given") = {}
    BY <1>1, <1>11, <1>14 DEF Placed
  <2>6. \A c \in Elems(wl) \cup Members(k) \cup Elems(q.residuals) \cup (away \ Nested) :
          f[c] \notin {"new", "absent"}
    BY <2>2, <2>3
  <2> QED BY <1>1, <1>17, <2>1, <2>2, <2>4, <2>5, <2>6 DEF Placed
<1>23. Answers(call, r)
  BY <1>17, <1>18, EmptyElems DEF Taken, Answers, CacheOK
<1>24. Found(q, away \cup {ct}) => Found(r, away)
  <2>1. Elems(q.worklist) \subseteq Elems(wl)
    BY <1>15, <1>16
  <2> QED BY <1>1, <1>8, <1>17, <2>1 DEF Found
<1> QED BY <1>7, <1>14, <1>17, <1>21, <1>22, <1>23, <1>24 DEF Processed, Good, Outer

LEMMA ProcessGivenOK ==
  ASSUME NEW q, NEW ct \in Of("given"), NEW away, Taken(q, ct, away),
         q.resolutions = {}, q.residuals = <<>>,
         NEW ts, ts = zonkAll(q.soln, q.args[ct]), NEW r, r = processGivenEq(q, ct, ts)
  PROVE  Processed(q, ct, away, r)
<1>1. q \in States /\ Acyclic(q.soln) /\ ct \in Cts /\ ct \notin Of("class") /\ q.soln \in Solutions
  BY StateType DEF Taken, Good, Sound, Of
<1>2. ts \in Pairs /\ ts[1] \in Types /\ ts[2] \in Types
  BY <1>1, ZonkedPair DEF Pairs
<1>3. ts[2] \in TyCons
  <2>1. q.args[ct] = Args[ct] /\ Args[ct] \in Skolems \X TyCons
    BY ConstraintsAssumption DEF Taken, Good, Sound, Of
  <2>2. Args[ct][2] \in TyCons /\ Args[ct][2] \in Types /\ Args[ct][2] \notin Vars
    BY <2>1, SignatureAssumption DEF Types
  <2>3. ts[2] = Zonk(q.soln, Args[ct][2])
    BY <2>1 DEF zonkAll
  <2> QED BY <1>1, <2>2, <2>3, ZonkStays
<1>4. CASE ts[1] \in Skolems
  <2>1. PICK S : S = Mentioning(q, ts[1])
    OBVIOUS
  <2>2. S \in SUBSET Cts /\ S \cap Of("class") = {}
    BY <2>1 DEF Mentioning, Of
  <2>3. r = Installing(q, ct, ts[1], ts[2], S)
    BY <1>4, <2>1 DEF processGivenEq, Installing
  <2> QED BY <1>3, <1>4, <2>2, <2>3, InstallOK
<1>5. CASE ts[1] \notin Skolems
  <2>1. PICK u : u = Unify(q, ts[1], ts[2], solverLevel)
    OBVIOUS
  <2>2. Taken(u, ct, away) /\ Outer(q, u) /\ Woken(q, u)
    BY <1>2, <2>1, UnifyTaken
  <2>3. u \in States /\ u.inaccessible \in BOOLEAN
    BY <2>2, StateType DEF Taken, Good, Sound
  <2>4. PICK b : b = (u.inaccessible \/ ~(ts[1] = ts[2] \/ SliceHasMeta(ts)))
    OBVIOUS
  <2>5. PICK w : w = [u EXCEPT !.fate[ct] = "solved"]
    OBVIOUS
  <2>6. ButFor(u, ct, w) /\ w.inert = u.inert
    <3>1. "solved" \in Fates
      BY DEF Fates
    <3> QED BY <1>1, <2>3, <2>5, <3>1, SetFate
  <2>7. b \in BOOLEAN /\ r = [w EXCEPT !.inaccessible = b]
    BY <1>5, <2>1, <2>3, <2>4, <2>5 DEF processGivenEq, States
  <2>8. ButFor(u, ct, r) /\ r.inert = u.inert
    <3>1. /\ r \in States /\ r.soln = w.soln /\ r.worklist = w.worklist
          /\ r.residuals = w.residuals /\ r.resolutions = w.resolutions /\ r.inert = w.inert
          /\ r.ambiguityCache = w.ambiguityCache /\ r.fate = w.fate /\ r.args = w.args
      BY <2>6, <2>7 DEF ButFor, States
    <3> QED BY <2>6, <3>1 DEF ButFor
  <2>9. Carried(u, ct, away, r)
    BY <1>1, <2>2, <2>8, DropOK DEF Taken
  <2> QED BY <2>2, <2>8, <2>9, ProcessedLater DEF ButFor
<1> QED BY <1>4, <1>5

\* Popping the worklist takes its head in hand.
WithoutHead(st) == [st EXCEPT !.worklist = Tail(@)]

PoppedTo(st, ct, away, r) ==
  /\ Good(r, away \cup {ct}) /\ (ct \in Nested \/ ct \notin away) /\ ct \in Cts
  /\ r.soln = st.soln /\ r.args = st.args /\ r.inert = st.inert /\ r.fate = st.fate
  /\ r.residuals = st.residuals /\ r.resolutions = st.resolutions
  /\ Elems(r.worklist) \subseteq Elems(st.worklist) /\ ct \in Nested \cup Elems(st.worklist)
  /\ \A kind : Answers(kind, st) => Answers(kind, r)
  /\ Found(st, away) => Found(r, away \cup {ct})
  /\ ct \in Of("class") => NoGivens(r)

LEMMA PopOK ==
  ASSUME NEW st, NEW away, Good(st, away), st.worklist # <<>>,
         NEW r, r = WithoutHead(st), NEW ct, ct = Head(st.worklist)
  PROVE  PoppedTo(st, ct, away, r)
<1>1. st \in States /\ st.worklist \in Seq(Cts)
  BY StateType DEF Good, Sound
<1>2. /\ ct \in Cts /\ Tail(st.worklist) \in Seq(Cts)
      /\ Elems(st.worklist) = ({ct} \ Nested) \cup Elems(Tail(st.worklist))
      /\ Once(Tail(st.worklist)) /\ ct \notin Elems(Tail(st.worklist))
  BY <1>1, TailElems DEF Good, Placed
<1>3. Ordered(Tail(st.worklist)) /\ (ct \in Of("class") => Elems(Tail(st.worklist)) \cap Of("given") = {})
  BY <1>1, OrderedTail DEF Good, Sound, GivensFirst
<1>4. /\ r \in States /\ r.worklist = Tail(st.worklist)
      /\ r.soln = st.soln /\ r.args = st.args /\ r.inert = st.inert /\ r.fate = st.fate
      /\ r.residuals = st.residuals /\ r.resolutions = st.resolutions
      /\ r.ambiguityCache = st.ambiguityCache
  BY <1>1, <1>2 DEF States, WithoutHead
<1>5. Sound(r)
  <2>1. GivensFirst(r)
    BY <1>2, <1>3, <1>4 DEF GivensFirst, Good, Sound
  <2> QED BY <1>4, <2>1 DEF Good, Sound
<1>6. Placed(r, away \cup {ct}) /\ (ct \in Nested \/ ct \notin away)
  <2>1. CASE ct \in Nested
    <3>1. Elems(st.worklist) = Elems(r.worklist)
      BY <1>2, <1>4, <2>1
    <3>2. ct \notin Elems(r.worklist) \cup Members(r.inert) \cup Elems(r.residuals)
      BY <2>1, PlainElems
    <3>3. (away \cup {ct}) \ Nested = away \ Nested
      BY <2>1
    <3> QED BY <1>2, <1>4, <2>1, <3>1, <3>2, <3>3 DEF Good, Placed
  <2>2. CASE ct \notin Nested
    <3>1. Elems(st.worklist) = {ct} \cup Elems(r.worklist) /\ ct \notin Elems(r.worklist)
      BY <1>2, <1>4, <2>2
    <3> QED BY <1>2, <1>4, <2>2, <3>1 DEF Good, Placed
  <2> QED BY <2>1, <2>2
<1>7. \A kind : Answers(kind, st) => Answers(kind, r)
  BY <1>2, <1>4 DEF Answers, CacheOK, NoGivens
<1>8. Found(st, away) => Found(r, away \cup {ct})
  BY <1>2, <1>4 DEF Found
<1> QED BY <1>2, <1>3, <1>4, <1>5, <1>6, <1>7, <1>8 DEF Good, NoGivens, PoppedTo

-----------------------------------------------------------------------------
(* The end of a call.                                                      *)

\* While a call ends: what later steps rely on.
Ending(st, away, r) ==
  /\ Good(r, away) /\ Answers(call, r)
  /\ Found(st, away) => Found(r, away)
  /\ Drained(st) => Drained(r)
  /\ r.inert.scopeDepth = st.inert.scopeDepth
  /\ r.soln = st.soln

\* The class constraints of the inert set have been resolved in this call, so
\* none of them is deferred and none is resolved again.
LEMMA DischargeOK ==
  ASSUME NEW st, NEW away, Good(st, away), Answers(call, st), call \in Calls,
         NEW ct \in st.resolutions, NEW r, r = DischargeInert(st, ct)
  PROVE  Ending(st, away, r) /\ r.resolutions = st.resolutions /\ r.residuals = st.residuals
<1>1. st \in States /\ Acyclic(st.soln) /\ ct \in Cts
  BY StateType DEF Good, Sound
<1>2. PICK ts : ts = zonkAll(st.soln, st.args[ct])
  OBVIOUS
<1>3. ts \in Pairs /\ Zonked(st.soln, ts)
  BY <1>1, <1>2, ZonkedPair
<1>4. PICK q : q = shouldDefer(st, ts)
  OBVIOUS
<1>5. Good(q, away) /\ Decided(st, ts, q)
  BY <1>3, <1>4, ShouldDeferOK
<1>6. Woken(st, q) /\ q.soln = st.soln
  BY <1>5 DEF Decided, Watched
<1>7. ~q.ok
  BY <1>2, <1>5 DEF Decided, Answers
<1>8. r = q
  BY <1>2, <1>4, <1>6, <1>7 DEF DischargeInert, Discharged, Woken
<1>9. Answers(call, q) /\ (Drained(st) => Drained(q)) /\ (Found(st, away) => Found(q, away))
  BY <1>6, WokenKeeps
<1> QED BY <1>5, <1>6, <1>8, <1>9 DEF Ending, Woken

\* A residual is taken up again; the others wait.
LEMMA RetryOK ==
  ASSUME NEW st, NEW ct, NEW away, InHand(st, ct, away), NEW r, r = RetryResidual(st, ct)
  PROVE  Handled(st, ct, away, r)
<1>1. PICK ts : ts = zonkAll(st.soln, st.args[ct])
  OBVIOUS
<1>2. r = DeferOrResolve(shouldDefer([st EXCEPT !.args[ct] = ts], ts), ct, ts)
  BY <1>1 DEF RetryResidual, RetryZonked
<1> QED BY <1>1, <1>2, HandleOK

\* Reset empties what the call has left in its scope.
Emptied(st, r) ==
  /\ r.inert.classMap = <<>> /\ r.inert.resolutionKeys = {}
  /\ r.inert.scopeDepth = st.inert.scopeDepth
  /\ r.soln = st.soln /\ r.args = st.args /\ r.worklist = st.worklist
  /\ r.residuals = st.residuals /\ r.resolutions = st.resolutions /\ r.fate = st.fate
  /\ r.ambiguityCache = st.ambiguityCache

LEMMA SmallerInert ==
  ASSUME NEW st, NEW away, Good(st, away), NEW k, NEW d, Cleared(st.inert, d, k)
  PROVE  /\ InertOK(k) /\ k \in Inert!InertSets /\ OfScope(k) /\ Blocked(st.soln, k)
         /\ k.classMap = <<>> /\ k.resolutionKeys = {} /\ k.scopeDepth = d
         /\ Members(k) \subseteq Members(st.inert)
<1>1. OfScope(st.inert) /\ Blocked(st.soln, st.inert)
  BY DEF Good, Sound
<1>2. /\ InertOK(k) /\ k.classMap = <<>> /\ k.resolutionKeys = {} /\ k.scopeDepth = d
      /\ Members(k) \subseteq Members(st.inert)
      /\ \A x \in Metas : ToSet(k.metaIndex[x]) \subseteq ToSet(st.inert.metaIndex[x])
  BY <1>1 DEF Cleared
<1>3. OfScope(k)
  BY <1>2, EmptyElems DEF OfScope
<1>4. Blocked(st.soln, k)
  BY <1>1, <1>2 DEF Blocked
<1>5. k \in Inert!InertSets
  BY <1>2 DEF InertOK, Buckets
<1> QED BY <1>2, <1>3, <1>4, <1>5

LEMMA ResetGood ==
  ASSUME NEW st, NEW away, Good(st, away), NEW r, r = [st EXCEPT !.inert = Inert!Reset(@)]
  PROVE  Good(r, away) /\ Emptied(st, r)
<1>1. PICK k : k = Inert!Reset(st.inert)
  OBVIOUS
<1>2. Cleared(st.inert, st.inert.scopeDepth, k)
  BY <1>1, ResetOK DEF Good, Sound
<1>3. /\ InertOK(k) /\ k \in Inert!InertSets /\ OfScope(k) /\ Blocked(st.soln, k)
      /\ k.classMap = <<>> /\ k.resolutionKeys = {} /\ k.scopeDepth = st.inert.scopeDepth
      /\ Members(k) \subseteq Members(st.inert)
  BY <1>2, SmallerInert
<1>4. st \in States /\ r = [st EXCEPT !.inert = k]
  BY <1>1 DEF Good, Sound, States
<1>5. /\ r \in States /\ r.inert = k /\ r.soln = st.soln /\ r.args = st.args
      /\ r.worklist = st.worklist /\ r.residuals = st.residuals
      /\ r.resolutions = st.resolutions /\ r.fate = st.fate
      /\ r.ambiguityCache = st.ambiguityCache
  BY <1>3, <1>4 DEF States
<1>6. Sound(r)
  BY <1>3, <1>5, EmptyElems DEF Good, Sound, GivensFirst
<1>7. Placed(r, away)
  BY <1>3, <1>5 DEF Good, Placed
<1> QED BY <1>3, <1>5, <1>6, <1>7 DEF Good, Emptied

\* What is left when the residuals have been retried.
Ended(st, away, r) ==
  /\ Good(r, away)
  /\ r.inert.classMap = <<>> /\ r.inert.resolutionKeys = {}
  /\ r.inert.scopeDepth = st.inert.scopeDepth
  /\ call = "resolve" => r.residuals = <<>>
  /\ Found(st, away) => Found(r, away)
  /\ Drained(st) => Drained(r)
  /\ call = "local" => r.soln = st.soln

\* Stage i of the retry: the residuals after the i-th are held back.
Retrying(st, cts, away, i, x) ==
  LET rest == away \cup {cts[j] : j \in (i + 1)..Len(cts)} IN
  /\ Good(x, rest) /\ Answers(call, x)
  /\ cts # <<>> => NoGivens(x)
  /\ Found(st, away) => Found(x, rest)
  /\ Drained(st) => Drained(x)
  /\ x.inert.scopeDepth = st.inert.scopeDepth
  /\ call = "local" => x.soln = st.soln

LEMMA ClassElems ==
  ASSUME NEW q \in Seq(Cts), ToSet(q) \subseteq Of("class")
  PROVE  /\ Elems(q) = ToSet(q) /\ Elems(q) = {q[j] : j \in 1..Len(q)}
         /\ \A i \in 1..Len(q) : q[i] \in Elems(q) /\ q[i] \notin Nested
<1>1. Elems(q) = ToSet(q)
  BY NestedKind, PlainElems
<1>2. ToSet(q) = {q[j] : j \in 1..Len(q)}
  BY DEF ToSet
<1> QED BY <1>1, <1>2, NestedKind

LEMMA RetryStart ==
  ASSUME NEW st, NEW away, Good(st, away), Answers(call, st),
         NEW x, x = [st EXCEPT !.residuals = <<>>]
  PROVE  Retrying(st, st.residuals, away, 0, x) /\ x \in States
<1>1. PICK cts : cts = st.residuals
  OBVIOUS
<1>2. st \in States /\ cts \in Seq(Cts) /\ ToSet(cts) \subseteq Of("class")
  BY <1>1, StateType DEF Good, Sound, Placed
<1>3. {cts[j] : j \in (0 + 1)..Len(cts)} = Elems(cts)
  BY <1>2, ClassElems
<1>4. /\ x \in States /\ x.residuals = <<>> /\ x.soln = st.soln /\ x.args = st.args
      /\ x.worklist = st.worklist /\ x.inert = st.inert
      /\ x.resolutions = st.resolutions /\ x.fate = st.fate
      /\ x.ambiguityCache = st.ambiguityCache
  <2>1. PICK e : e = <<>>
    OBVIOUS
  <2>2. e \in Seq(Cts) /\ x = [st EXCEPT !.residuals = e]
    BY <2>1
  <2>3. /\ x \in States /\ x.residuals = e /\ x.soln = st.soln /\ x.args = st.args
        /\ x.worklist = st.worklist /\ x.inert = st.inert
        /\ x.resolutions = st.resolutions /\ x.fate = st.fate
        /\ x.ambiguityCache = st.ambiguityCache
    BY <1>2, <2>2 DEF States
  <2> QED BY <2>1, <2>3
<1>5. Sound(x)
  BY <1>4 DEF Good, Sound, GivensFirst
<1>6. Placed(x, away \cup Elems(cts))
  BY <1>1, <1>4, EmptyElems DEF Good, Placed
<1>7. Answers(call, x)
  BY <1>4, EmptyElems DEF Answers, CacheOK, NoGivens
<1>8. cts # <<>> => NoGivens(x)
  BY <1>1, <1>4 DEF Answers, NoGivens
<1>9. Found(st, away) => Found(x, away \cup Elems(cts))
  BY <1>1, <1>4 DEF Found
<1>10. Drained(st) => Drained(x)
  BY <1>4 DEF Drained
<1> QED BY <1>1, <1>3, <1>4, <1>5, <1>6, <1>7, <1>8, <1>9, <1>10 DEF Retrying, Good

LEMMA RetryNext ==
  ASSUME NEW st, NEW away, NEW cts \in Seq(Of("class")), Once(cts), Elems(cts) \cap away = {},
         call \in Calls, NEW i \in 1..Len(cts), NEW x, Retrying(st, cts, away, i - 1, x),
         NEW y, y = RetryResidual(x, cts[i])
  PROVE  Retrying(st, cts, away, i, y) /\ y \in States
<1>1. PICK rest : rest = away \cup {cts[j] : j \in (i + 1)..Len(cts)}
  OBVIOUS
<1>2. PICK ct : ct = cts[i]
  OBVIOUS
<1>3. /\ ct \in Of("class") /\ ct \in Elems(cts) /\ cts # <<>> /\ DOMAIN cts = 1..Len(cts)
      /\ Len(cts) \in Nat /\ ct \notin Nested
  <2>1. ct \in ToSet(cts) /\ ct \in Of("class")
    BY <1>2 DEF ToSet
  <2>2. ct \notin Nested /\ ct \in Elems(cts)
    BY <2>1, NestedKind DEF Elems
  <2> QED BY <2>1, <2>2
<1>4. away \cup {cts[j] : j \in ((i - 1) + 1)..Len(cts)} = rest \cup {ct}
  <2>1. ((i - 1) + 1)..Len(cts) = {i} \cup (i + 1)..Len(cts)
    BY <1>3
  <2> QED BY <1>1, <1>2, <2>1
<1>5. ct \notin rest
  <2>1. ct \notin away
    BY <1>3
  <2>2. \A j \in (i + 1)..Len(cts) : cts[j] # ct
    <3>1. \A j \in (i + 1)..Len(cts) : j # i /\ j \in DOMAIN cts /\ i \in DOMAIN cts
      BY <1>3
    <3> QED BY <1>2, <1>3, <3>1 DEF Once
  <2> QED BY <1>1, <2>1, <2>2
<1>6. /\ Good(x, rest \cup {ct}) /\ Answers(call, x) /\ NoGivens(x)
      /\ Found(st, away) => Found(x, rest \cup {ct})
      /\ Drained(st) => Drained(x)
      /\ x.inert.scopeDepth = st.inert.scopeDepth
      /\ call = "local" => x.soln = st.soln
  BY <1>3, <1>4 DEF Retrying
<1>7. InHand(x, ct, rest)
  BY <1>3, <1>5, <1>6 DEF InHand
<1>8. Handled(x, ct, rest, y)
  BY <1>2, <1>7, RetryOK
<1>9. Retrying(st, cts, away, i, y)
  BY <1>1, <1>6, <1>8 DEF Retrying, Handled
<1> QED BY <1>8, <1>9 DEF Handled, Good, Sound

LEMMA RetriedOK ==
  ASSUME NEW st, NEW away, Good(st, away), Answers(call, st), call \in Calls,
         NEW r, r = RetriedAfter(st)
  PROVE  Ended(st, away, r)
<1> DEFINE cts == st.residuals
           N == Len(cts)
           start == [st EXCEPT !.residuals = <<>>]
           P == [i \in 0..N |-> {x \in States : Retrying(st, cts, away, i, x)}]
           F == [i \in 1..N |-> [x \in States |-> RetryResidual(x, cts[i])]]
           Body(g) == [i \in 0..N |-> IF i = 0 THEN start ELSE RetryResidual(g[i - 1], cts[i])]
           retry == CHOOSE g : g = Body(g)
<1>1. cts \in Seq(Of("class")) /\ Once(cts) /\ Elems(cts) \cap away = {} /\ N \in Nat
  <2>1. st.residuals \in Seq(Cts) /\ ToSet(st.residuals) \subseteq Of("class")
    BY StateType DEF Good, Sound, Placed
  <2>2. st.residuals \in Seq(Of("class"))
    BY <2>1 DEF ToSet, Elems
  <2> QED BY <2>1, <2>2 DEF Good, Placed
<1>2. Retrying(st, cts, away, 0, start) /\ start \in States
  BY RetryStart
<1> HIDE DEF cts, start
<1>3. ASSUME NEW i \in 1..N, NEW x, Retrying(st, cts, away, i - 1, x)
      PROVE  Retrying(st, cts, away, i, RetryResidual(x, cts[i])) /\ RetryResidual(x, cts[i]) \in States
  <2>1. PICK y : y = RetryResidual(x, cts[i])
    OBVIOUS
  <2>2. Retrying(st, cts, away, i, y) /\ y \in States
    BY <1>1, <1>3, <2>1, RetryNext
  <2> QED BY <2>1, <2>2
<1> HIDE DEF N
<1>4. ASSUME NEW i \in 1..N, NEW x \in P[i - 1]
      PROVE  RetryResidual(x, cts[i]) \in P[i] /\ x \in States
  <2>1. i - 1 \in 0..N /\ i \in 0..N
    BY <1>1
  <2> QED BY <1>3, <2>1
<1>5. P \in [0..N -> SUBSET States] /\ start \in P[0]
  BY <1>1, <1>2
<1>6. \A i \in 1..N : \A x \in P[i - 1] : F[i][x] \in P[i]
  <2> HIDE DEF P
  <2> QED BY <1>4
<1>7. PICK g : IsStaged(g, N, States, P, start, F)
  <2> HIDE DEF P, F
  <2> QED BY <1>1, <1>5, <1>6, StagedChain
<1>8. g = Body(g)
  <2>1. ASSUME NEW i \in 0..N
        PROVE  g[i] = IF i = 0 THEN start ELSE RetryResidual(g[i - 1], cts[i])
    <3>1. CASE i = 0
      BY <1>7, <3>1 DEF IsStaged
    <3>2. CASE i # 0
      <4>1. i \in 1..N /\ i - 1 \in 0..N
        BY <1>1, <3>2
      <4> QED BY <1>7, <3>2, <4>1 DEF IsStaged
    <3> QED BY <3>1, <3>2
  <2> QED BY <1>7, <2>1 DEF IsStaged
<1>9. retry = Body(retry)
  <2> HIDE DEF Body
  <2> QED BY <1>8
<1>10. r = [retry[N] EXCEPT !.inert = Inert!Reset(@)]
  BY DEF RetriedAfter, Retried, N, start, cts
<1> HIDE DEF retry
<1>11. retry[N] \in P[N]
  <2>1. retry[0] \in P[0]
    BY <1>1, <1>5, <1>9
  <2>2. ASSUME NEW i \in 1..N, retry[i - 1] \in P[i - 1] PROVE retry[i] \in P[i]
    <3>1. i - 1 \in 0..N /\ i \in 0..N /\ i # 0
      BY <1>1
    <3>2. retry[i] = RetryResidual(retry[i - 1], cts[i])
      BY <1>9, <3>1
    <3> HIDE DEF P
    <3> QED BY <1>4, <2>2, <3>2
  <2> HIDE DEF P
  <2>3. \A i \in 0..N : retry[i] \in P[i]
    BY <1>1, <2>1, <2>2, StagedInvariant
  <2> QED BY <1>1, <2>3
<1>12. PICK x : x = retry[N]
  OBVIOUS
<1>13. Retrying(st, cts, away, N, x)
  BY <1>1, <1>11, <1>12
<1>14. away \cup {cts[j] : j \in (Len(cts) + 1)..Len(cts)} = away
  BY <1>1 DEF N
<1>15. /\ Good(x, away) /\ Answers(call, x)
       /\ Found(st, away) => Found(x, away)
       /\ Drained(st) => Drained(x)
       /\ x.inert.scopeDepth = st.inert.scopeDepth
       /\ call = "local" => x.soln = st.soln
  BY <1>13, <1>14 DEF Retrying, N
<1>16. Good(r, away) /\ Emptied(x, r)
  BY <1>10, <1>12, <1>15, ResetGood
<1> QED BY <1>15, <1>16 DEF Ended, Emptied, Answers, Found, Drained

LEMMA CollectedOK ==
  ASSUME Good(State, Aside), Answers(call, State), call \in Calls
  PROVE  Ended(State, Aside, Collected)
<1>1. PICK st : st = State
  OBVIOUS
<1>2. PICK away : away = Aside
  OBVIOUS
<1> DEFINE cts == inert.classMap
           N == Len(cts)
           U == {x \in States : /\ Ending(st, away, x)
                                /\ x.resolutions = st.resolutions /\ x.residuals = st.residuals}
           P == [i \in 0..N |-> U]
           F == [i \in 1..N |-> [x \in U |-> DischargeInert(x, cts[i])]]
           Body(g) == [i \in 0..N |-> IF i = 0 THEN State ELSE DischargeInert(g[i - 1], cts[i])]
           disc == CHOOSE g : g = Body(g)
<1>3. Good(st, away) /\ Answers(call, st) /\ st \in States /\ st.inert = inert
  BY <1>1, <1>2 DEF Good, Sound, State
<1>4. cts \in Seq(Cts) /\ N \in Nat /\ \A i \in 1..N : cts[i] \in st.resolutions
  <2>1. /\ cts \in Seq(Cts) /\ Elems(cts) \subseteq st.resolutions
        /\ ToSet(cts) \subseteq Of("class")
    BY <1>3, StateType, InertType DEF Answers, Good, Sound, InertOK, Kinds
  <2> HIDE DEF cts
  <2> QED BY <2>1, ClassElems
<1>5. st \in U
  BY <1>3 DEF Ending
<1>6. ASSUME NEW i \in 1..N, NEW x \in U PROVE DischargeInert(x, cts[i]) \in U
  <2>1. PICK y : y = DischargeInert(x, cts[i])
    OBVIOUS
  <2>2. /\ Ending(st, away, x) /\ x.resolutions = st.resolutions /\ x.residuals = st.residuals
        /\ cts[i] \in x.resolutions
    BY <1>4
  <2>3. Ending(x, away, y) /\ y.resolutions = x.resolutions /\ y.residuals = x.residuals
    BY <2>1, <2>2, DischargeOK DEF Ending
  <2>4. Ending(st, away, y) /\ y \in States
    BY <2>2, <2>3 DEF Ending, Good, Sound
  <2> QED BY <2>1, <2>2, <2>3, <2>4
<1> HIDE DEF N, cts, U
<1>7. P \in [0..N -> SUBSET U] /\ st \in P[0]
  BY <1>4, <1>5
<1>8. \A i \in 1..N : \A x \in P[i - 1] : F[i][x] \in P[i]
  <2> SUFFICES ASSUME NEW i \in 1..N, NEW x \in P[i - 1] PROVE F[i][x] \in P[i]
    OBVIOUS
  <2>1. i - 1 \in 0..N /\ i \in 0..N
    BY <1>4
  <2> QED BY <1>6, <2>1
<1>9. PICK g : IsStaged(g, N, U, P, st, F)
  <2> HIDE DEF P, F
  <2> QED BY <1>4, <1>7, <1>8, StagedChain
<1>10. g = Body(g)
  <2>1. ASSUME NEW i \in 0..N
        PROVE  g[i] = IF i = 0 THEN State ELSE DischargeInert(g[i - 1], cts[i])
    <3>1. CASE i = 0
      BY <1>1, <1>9, <3>1 DEF IsStaged
    <3>2. CASE i # 0
      <4>1. i \in 1..N /\ i - 1 \in 0..N
        BY <1>4, <3>2
      <4> QED BY <1>9, <3>2, <4>1 DEF IsStaged
    <3> QED BY <3>1, <3>2
  <2> QED BY <1>9, <2>1 DEF IsStaged
<1>11. disc = Body(disc)
  <2> HIDE DEF Body
  <2> QED BY <1>10
<1>12. Collected = RetriedAfter(disc[N])
  BY DEF Collected, N, cts
<1> HIDE DEF disc
<1>13. disc[N] \in U
  <2>1. disc[0] \in P[0]
    BY <1>1, <1>4, <1>7, <1>11
  <2>2. ASSUME NEW i \in 1..N, disc[i - 1] \in P[i - 1] PROVE disc[i] \in P[i]
    <3>1. i - 1 \in 0..N /\ i \in 0..N /\ i # 0
      BY <1>4
    <3>2. disc[i] = DischargeInert(disc[i - 1], cts[i])
      BY <1>11, <3>1
    <3> QED BY <1>6, <2>2, <3>1, <3>2
  <2>3. \A i \in 0..N : disc[i] \in P[i]
    <3> HIDE DEF P
    <3> QED BY <1>4, <2>1, <2>2, StagedInvariant
  <2> QED BY <1>4, <2>3
<1>14. PICK x : x = disc[N]
  OBVIOUS
<1>15. Ending(st, away, x)
  BY <1>13, <1>14 DEF U
<1>16. PICK r : r = RetriedAfter(x)
  OBVIOUS
<1>17. Ended(x, away, r)
  BY <1>15, <1>16, RetriedOK DEF Ending
<1>18. Ended(st, away, r)
  BY <1>15, <1>17 DEF Ending, Ended
<1> QED BY <1>1, <1>2, <1>12, <1>14, <1>16, <1>18

-----------------------------------------------------------------------------
(* The actions.                                                            *)

\* The variables take the values of the state a step has reached.
LEMMA BecomesState ==
  ASSUME NEW st \in States, Becomes(st)
  PROVE  /\ SamePlaces(st, State') /\ State'.resolutions = st.resolutions
         /\ State'.ambiguityCache = st.ambiguityCache
         /\ inert' = st.inert /\ residuals' = st.residuals /\ worklist' = st.worklist
         /\ soln' = st.soln /\ fate' = st.fate
<1>1. /\ soln' = st.soln /\ args' = st.args
      /\ worklist' = st.worklist /\ inert' = st.inert
      /\ residuals' = st.residuals /\ resolutions' = st.resolutions
      /\ ambiguityCache' = st.ambiguityCache /\ inaccessible' = st.inaccessible
      /\ fate' = st.fate
  BY DEF Becomes
<1>2. PICK t : t = State'
  OBVIOUS
<1>3. t = [soln |-> st.soln, args |-> st.args, worklist |-> st.worklist, inert |-> st.inert,
           residuals |-> st.residuals, resolutions |-> st.resolutions,
           ambiguityCache |-> st.ambiguityCache, inaccessible |-> st.inaccessible,
           fate |-> st.fate, ok |-> TRUE]
  BY <1>1, <1>2 DEF State
<1>4. SamePlaces(st, t) /\ t.resolutions = st.resolutions /\ t.ambiguityCache = st.ambiguityCache
  BY <1>3 DEF SamePlaces, States
<1> QED BY <1>1, <1>2, <1>4

LEMMA BecomesOK ==
  ASSUME NEW st, NEW away, Good(st, away), Becomes(st), Aside' = away
  PROVE  /\ Good(State, Aside)'
         /\ \A kind : Answers(kind, st) => Answers(kind, State')
         /\ Resting(st) => Resting(State')
         /\ Found(st, away) => Found(State, Aside)'
         /\ inert'.scopeDepth = st.inert.scopeDepth
<1>1. st \in States
  BY DEF Good, Sound
<1>2. PICK t : t = State'
  OBVIOUS
<1>3. SamePlaces(st, t) /\ t.resolutions = st.resolutions /\ t.ambiguityCache = st.ambiguityCache
      /\ inert' = st.inert
  BY <1>1, <1>2, BecomesState
<1>4. Good(t, away)
  BY <1>3, SameGood
<1>5. \A kind : Answers(kind, st) => Answers(kind, t)
  BY <1>3 DEF Answers, SamePlaces, CacheOK, NoGivens
<1>6. Resting(st) => Resting(t)
  BY <1>3 DEF Resting, SamePlaces
<1>7. Found(st, away) => Found(t, away)
  BY <1>3 DEF Found, SamePlaces
<1> QED BY <1>2, <1>3, <1>4, <1>5, <1>6, <1>7

LEMMA FramesSame ==
  ASSUME FramesOK, UNCHANGED <<frames, level>>, inert'.scopeDepth = inert.scopeDepth
  PROVE  FramesOK' /\ Aside' = Aside
<1>1. Aside' = Aside
  BY DEF Aside
<1>2. Scoped(frames)' = Scoped(frames)
  BY DEF Scoped
<1> QED BY <1>1, <1>2 DEF FramesOK

LEMMA StateFields ==
  /\ State.soln = soln /\ State.args = args /\ State.worklist = worklist /\ State.inert = inert
  /\ State.residuals = residuals /\ State.resolutions = resolutions /\ State.fate = fate
  /\ State.ambiguityCache = ambiguityCache
BY DEF State

\* The loop takes the head of the worklist in hand.
LEMMA TakeHead ==
  ASSUME SolverInv, Running, worklist # <<>>
  PROVE  /\ Taken(Popped, Current, Aside) /\ call # "idle"
         /\ Popped.soln = soln /\ Popped.args = args /\ Popped.inert.scopeDepth = inert.scopeDepth
         /\ Current \in Of("class") => NoGivens(Popped)
         /\ Current \in Of("given") => Popped.resolutions = {} /\ Popped.residuals = <<>>
         /\ Found(State, Aside) => Found(Popped, Aside \cup {Current})
<1>1. PICK st : st = State
  OBVIOUS
<1>2. PICK r : r = Popped
  OBVIOUS
<1>3. PICK ct : ct = Current
  OBVIOUS
<1>4. /\ Good(st, Aside) /\ st.worklist # <<>> /\ call # "idle" /\ Answers(call, st)
      /\ call \in Calls /\ solverLevel \in Int
  <2>1. level \in Int
    <3>1. inert \in Inert!InertSets
      BY StateType, StateFields DEF SolverInv, Good, Sound
    <3>2. inert.scopeDepth \in 0..MaxDepth
      BY <3>1, InertType
    <3> QED BY <3>2, SignatureAssumption DEF SolverInv, FramesOK
  <2>2. solverLevel \in Int
    BY <2>1 DEF SolverInv, CallOK
  <2> QED BY <1>1, <2>2, StateFields DEF SolverInv, CallOK, Running
<1>5. r = WithoutHead(st) /\ ct = Head(st.worklist)
  BY <1>1, <1>2, <1>3, StateFields DEF Popped, Current, WithoutHead
<1>6. /\ Good(r, Aside \cup {ct}) /\ (ct \in Nested \/ ct \notin Aside) /\ ct \in Cts
      /\ r.soln = st.soln /\ r.args = st.args /\ r.inert = st.inert /\ r.fate = st.fate
      /\ r.residuals = st.residuals /\ r.resolutions = st.resolutions
      /\ Elems(r.worklist) \subseteq Elems(st.worklist) /\ ct \in Nested \cup Elems(st.worklist)
      /\ \A kind : Answers(kind, st) => Answers(kind, r)
      /\ Found(st, Aside) => Found(r, Aside \cup {ct})
      /\ ct \in Of("class") => NoGivens(r)
  <2>1. PoppedTo(st, ct, Aside, r)
    BY <1>4, <1>5, PopOK
  <2> QED BY <2>1 DEF PoppedTo
<1>7. Taken(r, ct, Aside)
  BY <1>4, <1>6 DEF Taken
<1>8. ct \in Of("given") => r.resolutions = {} /\ r.residuals = <<>>
  BY <1>4, <1>6, NestedKind DEF Answers, NoGivens
<1> QED BY <1>1, <1>2, <1>3, <1>4, <1>6, <1>7, <1>8, StateFields

\* One iteration of the loop.
LEMMA IterationOK ==
  ASSUME SolverInv, Running, worklist # <<>>, NEW r, Step(r), Processed(Popped, Current, Aside, r)
  PROVE  /\ SolverInv' /\ call' = call
         /\ call = "local" => \A m \in Metas : Birth[m] < level => soln'[m] = soln[m]
<1>1. /\ Good(r, Aside) /\ Answers(call, r) /\ Outer(Popped, r)
      /\ r.inert.scopeDepth = inert.scopeDepth /\ Popped.soln = soln
      /\ Found(State, Aside) => Found(r, Aside)
      /\ call # "idle"
  BY TakeHead DEF Processed
<1>2. /\ Becomes(r) /\ UNCHANGED <<level, solverLevel, frames, call, stopped, limited>>
  BY DEF Step, scopeVars, limits
<1>3. Aside' = Aside
  BY <1>2 DEF Aside
<1>4. /\ Good(State, Aside)'
      /\ \A kind : Answers(kind, r) => Answers(kind, State')
      /\ Found(r, Aside) => Found(State, Aside)'
      /\ inert'.scopeDepth = r.inert.scopeDepth
  BY <1>1, <1>2, <1>3, BecomesOK
<1>5. FramesOK'
  BY <1>1, <1>2, <1>4, FramesSame DEF SolverInv
<1>6. CallOK'
  <2>1. Answers(call', State')
    BY <1>1, <1>2, <1>4
  <2> QED BY <1>1, <1>2, <2>1 DEF CallOK, SolverInv
<1>7. ~limited' => Found(State, Aside)'
  BY <1>1, <1>2, <1>4 DEF SolverInv
<1>8. call = "local" => \A m \in Metas : Birth[m] < level => soln'[m] = soln[m]
  <2>1. r \in States
    BY <1>1 DEF Good, Sound
  <2>2. soln' = r.soln
    BY <1>2, <2>1, BecomesState
  <2> QED BY <1>1, <2>2 DEF Outer, SolverInv, CallOK
<1> QED BY <1>2, <1>4, <1>5, <1>6, <1>7, <1>8 DEF SolverInv

LEMMA ClassProcessed ==
  ASSUME NEW q, NEW ct, NEW away, NEW r, Handled(q, ct, away, r),
         call # "local" => solverLevel = -1
  PROVE  Processed(q, ct, away, r)
<1>1. Outer(q, r)
  <2> SUFFICES ASSUME NEW m \in Metas, Birth[m] < solverLevel PROVE r.soln[m] = q.soln[m]
    BY DEF Outer
  <2>1. Birth[m] \in Nat
    BY SignatureAssumption
  <2>2. call = "local"
    BY <2>1
  <2> QED BY <2>2 DEF Handled
<1> QED BY <1>1 DEF Handled, Processed

LEMMA ProcessStep ==
  ASSUME SolverInv, ProcessClass \/ ProcessEq \/ ProcessGiven \/ ProcessFunEq
  PROVE  /\ SolverInv' /\ call' = call
         /\ call = "local" => \A m \in Metas : Birth[m] < level => soln'[m] = soln[m]
<1>1. Running /\ worklist # <<>>
  BY DEF ProcessClass, ProcessEq, ProcessGiven, ProcessFunEq, Pop
<1>2. PICK q : q = Popped
  OBVIOUS
<1>3. PICK ct : ct = Current
  OBVIOUS
<1>4. PICK ts : ts = CurrentArgs
  OBVIOUS
<1>5. /\ Taken(q, ct, Aside) /\ call # "idle" /\ q.soln = soln /\ q.args = args
      /\ ct \in Of("class") => NoGivens(q)
      /\ ct \in Of("given") => q.resolutions = {} /\ q.residuals = <<>>
  BY <1>1, <1>2, <1>3, TakeHead
<1>6. ts = zonkAll(q.soln, q.args[ct]) /\ ct \in Cts
  BY <1>3, <1>4, <1>5 DEF CurrentArgs, Taken
<1>7. ASSUME NEW r, Step(r), Processed(q, ct, Aside, r)
      PROVE  /\ SolverInv' /\ call' = call
             /\ call = "local" => \A m \in Metas : Birth[m] < level => soln'[m] = soln[m]
  BY <1>1, <1>2, <1>3, <1>7, IterationOK
<1>8. CASE ProcessClass
  <2>1. PICK r : r = processCtPlainClass(q, ct, ts)
    OBVIOUS
  <2>2. Step(r) /\ ct \in Of("class")
    BY <1>2, <1>3, <1>4, <1>6, <1>8, <2>1 DEF ProcessClass, Pop, Current, Of
  <2>3. InHand(q, ct, Aside)
    BY <1>5, <2>2, NestedKind DEF InHand, Taken
  <2>4. Handled(q, ct, Aside, r)
    BY <1>6, <2>1, <2>3, ProcessClassOK
  <2>5. call # "local" => solverLevel = -1
    BY DEF SolverInv, CallOK
  <2> QED BY <1>7, <2>2, <2>4, <2>5, ClassProcessed
<1>9. CASE ProcessEq
  <2>1. PICK r : r = processCtEq(q, ct, ts)
    OBVIOUS
  <2>2. Step(r) /\ ct \in Of("eq")
    BY <1>2, <1>3, <1>4, <1>6, <1>9, <2>1 DEF ProcessEq, Pop, Current, Of
  <2> QED BY <1>5, <1>6, <1>7, <2>1, <2>2, ProcessEqOK
<1>10. CASE ProcessGiven
  <2>1. PICK r : r = processGivenEq(q, ct, ts)
    OBVIOUS
  <2>2. Step(r) /\ ct \in Of("given")
    BY <1>2, <1>3, <1>4, <1>6, <1>10, <2>1 DEF ProcessGiven, Pop, Current, Of
  <2> QED BY <1>5, <1>6, <1>7, <2>1, <2>2, ProcessGivenOK
<1>11. CASE ProcessFunEq
  <2>1. PICK r : r = processCtFunEq(q, ct, ts)
    OBVIOUS
  <2>2. Step(r) /\ ct \in Of("fun")
    BY <1>2, <1>3, <1>4, <1>6, <1>11, <2>1 DEF ProcessFunEq, Pop, Current, Of
  <2> QED BY <1>5, <1>6, <1>7, <2>1, <2>2, ProcessFunEqOK
<1> QED BY <1>8, <1>9, <1>10, <1>11

LEMMA StepLimitOK ==
  ASSUME SolverInv, StepLimit
  PROVE  SolverInv' /\ soln' = soln
<1>1. Running /\ worklist # <<>> /\ stopped' = TRUE /\ limited' = TRUE
      /\ UNCHANGED <<level, solverLevel, frames, call>>
  BY DEF StepLimit, scopeVars
<1>2. PICK q : q = Popped
  OBVIOUS
<1>3. PICK ct : ct = Current
  OBVIOUS
<1>4. PICK r : r = [q EXCEPT !.fate[ct] = "reported"]
  OBVIOUS
<1>5. Becomes(r)
  BY <1>2, <1>3, <1>4 DEF StepLimit, Current
<1>6. /\ Taken(q, ct, Aside) /\ call # "idle" /\ q.soln = soln
      /\ q.inert.scopeDepth = inert.scopeDepth
  BY <1>1, <1>2, <1>3, TakeHead
<1>7. q \in States /\ ct \in Cts /\ "reported" \in Fates /\ q.fate \in [Cts -> Fates]
  BY <1>6, StateType DEF Taken, Good, Sound, Fates
<1>8. ButFor(q, ct, r) /\ r.inert = q.inert
  BY <1>4, <1>7, SetFate
<1>9. r.args[ct] = q.args[ct] /\ r.fate[ct] # "pending"
  BY <1>4, <1>7 DEF States
<1>10. Carried(q, ct, Aside, r)
  BY <1>6, <1>7, <1>8, <1>9, DropOK DEF Taken
<1>11. Good(r, Aside) /\ Answers(call, r) /\ r.inert.scopeDepth = inert.scopeDepth
  BY <1>6, <1>10 DEF Carried, Taken
<1>12. Aside' = Aside
  BY <1>1 DEF Aside
<1>13. /\ Good(State, Aside)'
       /\ \A kind : Answers(kind, r) => Answers(kind, State')
       /\ inert'.scopeDepth = r.inert.scopeDepth
  BY <1>5, <1>11, <1>12, BecomesOK
<1>14. FramesOK'
  BY <1>1, <1>11, <1>13, FramesSame DEF SolverInv
<1>15. CallOK'
  <2>1. Answers(call', State')
    BY <1>1, <1>11, <1>13
  <2> QED BY <1>1, <1>6, <2>1 DEF CallOK, SolverInv
<1>16. soln' = soln
  <2>1. r \in States /\ r.soln = q.soln
    BY <1>8 DEF ButFor
  <2> QED BY <1>5, <1>6, <2>1, BecomesState
<1> QED BY <1>1, <1>13, <1>14, <1>15, <1>16 DEF SolverInv

-----------------------------------------------------------------------------
(* Branches.                                                               *)

LEMMA FrontElems ==
  ASSUME NEW D, NEW fs \in Seq(D), fs # <<>>
  PROVE  /\ Front(fs) \in Seq(D) /\ Len(Front(fs)) = Len(fs) - 1 /\ Len(fs) \in Nat \ {0}
         /\ DOMAIN Front(fs) = 1..(Len(fs) - 1) /\ DOMAIN fs = 1..Len(fs)
         /\ \A i \in 1..(Len(fs) - 1) : Front(fs)[i] = fs[i]
         /\ Last(fs) = fs[Len(fs)] /\ Last(fs) \in D
<1>1. Len(fs) \in Nat \ {0} /\ DOMAIN fs = 1..Len(fs) /\ Last(fs) = fs[Len(fs)]
  BY DEF Last
<1>2. Last(fs) \in D
  BY <1>1
<1>3. /\ SubSeq(fs, 1, Len(fs) - 1) \in Seq(D)
      /\ Len(SubSeq(fs, 1, Len(fs) - 1)) = Len(fs) - 1
      /\ \A i \in 1..(Len(fs) - 1) : SubSeq(fs, 1, Len(fs) - 1)[i] = fs[i]
  BY <1>1
<1>4. DOMAIN SubSeq(fs, 1, Len(fs) - 1) = 1..(Len(fs) - 1)
  BY <1>3
<1> QED BY <1>1, <1>2, <1>3, <1>4 DEF Front

\* The innermost frame f of fs, the others fs2, and what the others have saved.
IsFrames(fs) ==
  /\ fs \in Seq([saved : Seq(Cts), given : Cts, scoped : BOOLEAN])
  /\ Len(fs) <= MaxDepth
  /\ \A i \in DOMAIN fs :
       /\ Once(fs[i].saved) /\ Ordered(fs[i].saved)
       /\ fs[i].given \in Of("given")
       /\ ~fs[i].scoped => fs[i].saved = <<>>
  /\ \A i, j \in DOMAIN fs : i # j => Elems(fs[i].saved) \cap Elems(fs[j].saved) = {}

LEMMA ScopedCard ==
  ASSUME NEW fs, IsFrames(fs)
  PROVE  /\ IsFiniteSet(Scoped(fs)) /\ Cardinality(Scoped(fs)) \in Nat
         /\ Cardinality(Scoped(fs)) <= Len(fs)
<1>1. Len(fs) \in Nat /\ Scoped(fs) \subseteq 1..Len(fs)
  BY DEF IsFrames, Scoped
<1>2. IsFiniteSet(1..Len(fs)) /\ Cardinality(1..Len(fs)) = Len(fs)
  <2>1. PICK n \in Nat : n = Len(fs)
    BY <1>1
  <2>2. IsFiniteSet(1..n) /\ Cardinality(1..n) = IF 1 > n THEN 0 ELSE n - 1 + 1
    BY FS_Interval
  <2> QED BY <2>1, <2>2
<1> QED BY <1>1, <1>2, FS_Subset, FS_CardinalityType

LEMMA FrontFrames ==
  ASSUME NEW fs, IsFrames(fs), fs # <<>>, NEW f, f = Last(fs), NEW g, g = Front(fs)
  PROVE  /\ IsFrames(g) /\ SavedIn(fs) = SavedIn(g) \cup Elems(f.saved)
         /\ SavedIn(g) \cap Elems(f.saved) = {}
         /\ f.saved \in Seq(Cts) /\ Once(f.saved) /\ Ordered(f.saved) /\ f.given \in Of("given")
         /\ f.scoped \in BOOLEAN /\ (~f.scoped => f.saved = <<>>)
         /\ f.scoped => Cardinality(Scoped(g)) = Cardinality(Scoped(fs)) - 1
                        /\ Cardinality(Scoped(fs)) # 0
         /\ ~f.scoped => Cardinality(Scoped(g)) = Cardinality(Scoped(fs))
<1>1. PICK n : n = Len(fs)
  OBVIOUS
<1>2. /\ g \in Seq([saved : Seq(Cts), given : Cts, scoped : BOOLEAN]) /\ Len(g) = n - 1
      /\ n \in Nat \ {0} /\ DOMAIN g = 1..(n - 1) /\ DOMAIN fs = 1..n
      /\ \A i \in 1..(n - 1) : g[i] = fs[i]
      /\ f = fs[n] /\ f \in [saved : Seq(Cts), given : Cts, scoped : BOOLEAN]
  <2>1. PICK D : D = [saved : Seq(Cts), given : Cts, scoped : BOOLEAN]
    OBVIOUS
  <2>2. fs \in Seq(D)
    BY <2>1 DEF IsFrames
  <2> QED BY <1>1, <2>1, <2>2, FrontElems
<1>3. 1..n = 1..(n - 1) \cup {n} /\ n \notin 1..(n - 1) /\ MaxDepth \in Nat
  BY <1>2, SignatureAssumption
<1>4. IsFrames(g)
  <2>1. Len(g) <= MaxDepth
    BY <1>1, <1>2, <1>3 DEF IsFrames
  <2>2. \A i \in DOMAIN g : i \in DOMAIN fs /\ g[i] = fs[i]
    BY <1>2, <1>3
  <2> QED BY <1>2, <2>1, <2>2 DEF IsFrames
<1>5. SavedIn(fs) = SavedIn(g) \cup Elems(f.saved)
  <2>1. \A x : x \in SavedIn(fs) <=> \E i \in 1..n : x \in Elems(fs[i].saved)
    BY <1>2 DEF SavedIn
  <2>2. \A x : x \in SavedIn(g) <=> \E i \in 1..(n - 1) : x \in Elems(fs[i].saved)
    BY <1>2 DEF SavedIn
  <2> QED BY <1>2, <1>3, <2>1, <2>2
<1>6. SavedIn(g) \cap Elems(f.saved) = {}
  <2>1. \A x : x \in SavedIn(g) <=> \E i \in 1..(n - 1) : x \in Elems(fs[i].saved)
    BY <1>2 DEF SavedIn
  <2>2. \A i \in 1..(n - 1) : Elems(fs[i].saved) \cap Elems(fs[n].saved) = {}
    BY <1>2, <1>3 DEF IsFrames
  <2> QED BY <1>2, <2>1, <2>2
<1>7. /\ f.saved \in Seq(Cts) /\ Once(f.saved) /\ Ordered(f.saved) /\ f.given \in Of("given")
      /\ f.scoped \in BOOLEAN /\ (~f.scoped => f.saved = <<>>)
  BY <1>2, <1>3 DEF IsFrames
<1>8. Scoped(g) = Scoped(fs) \ {n} /\ (n \in Scoped(fs) <=> f.scoped)
  BY <1>2, <1>3 DEF Scoped
<1>9. IsFiniteSet(Scoped(fs)) /\ Cardinality(Scoped(fs)) \in Nat
  BY ScopedCard
<1>10. f.scoped => Cardinality(Scoped(g)) = Cardinality(Scoped(fs)) - 1
                   /\ Cardinality(Scoped(fs)) # 0
  <2>1. IsFiniteSet(Scoped(g)) /\ Cardinality(Scoped(g)) \in Nat
    BY <1>4, ScopedCard
  <2> QED BY <1>8, <1>9, <2>1, FS_RemoveElement
<1>11. ~f.scoped => Scoped(g) = Scoped(fs)
  BY <1>8
<1> QED BY <1>4, <1>5, <1>6, <1>7, <1>10, <1>11

LEMMA FramesAre ==
  /\ FramesOK <=> IsFrames(frames) /\ level = Cardinality(Scoped(frames)) /\ level = inert.scopeDepth
  /\ Aside = SavedIn(frames)
BY DEF FramesOK, IsFrames, Aside

LEMMA FramesArePrimed ==
  /\ FramesOK' <=> IsFrames(frames') /\ level' = Cardinality(Scoped(frames')) /\ level' = inert'.scopeDepth
  /\ Aside' = SavedIn(frames')
BY DEF FramesOK, IsFrames, Aside, Scoped

-----------------------------------------------------------------------------
(* The end of a call, as an action.                                        *)

\* The call has ended in r: it leaves nothing behind.
Closed(r, away) ==
  /\ Good(r, away) /\ Resting(r)
  /\ ~limited => Found(r, away)

LEMMA CallEnds ==
  ASSUME SolverInv, LoopDone, NEW st, st = Collected
  PROVE  /\ Good(st, Aside) /\ st.inert.classMap = <<>> /\ st.inert.resolutionKeys = {}
         /\ st.inert.scopeDepth = inert.scopeDepth
         /\ call = "resolve" => st.residuals = <<>>
         /\ ~limited => Found(st, Aside) /\ Drained(st)
         /\ call = "local" => st.soln = soln
<1>1. Ended(State, Aside, st)
  BY CollectedOK DEF SolverInv, CallOK, LoopDone
<1>2. ~limited => Drained(State)
  <2>1. ~limited => worklist = <<>>
    BY DEF LoopDone, SolverInv, CallOK
  <2> QED BY <2>1, StateFields, EmptyElems DEF Drained
<1>3. ~limited => Found(State, Aside)
  BY DEF SolverInv
<1> QED BY <1>1, <1>2, <1>3, StateFields DEF Ended

\* The invariant is back once the checker goes on.
LEMMA BackToIdle ==
  ASSUME SolverInv, NEW r, NEW away, Closed(r, away), Becomes(r), call' = "idle", Aside' = away,
         UNCHANGED <<stopped, limited>>, solverLevel' = -1, FramesOK'
  PROVE  SolverInv'
<1>1. /\ Good(State, Aside)' /\ Resting(State')
      /\ Found(r, away) => Found(State, Aside)'
  BY BecomesOK DEF Closed
<1>2. CallOK'
  <2>1. Resting(State)'
    BY <1>1 DEF Resting
  <2> QED BY <2>1 DEF CallOK, SolverInv, Calls
<1>3. ~limited' => Found(State, Aside)'
  BY <1>1 DEF Closed
<1> QED BY <1>1, <1>2, <1>3 DEF SolverInv

LEMMA FinishResolveOK ==
  ASSUME SolverInv, FinishResolve
  PROVE  SolverInv'
<1>1. LoopDone /\ call = "resolve" /\ call' = "idle" /\ Becomes(Collected)
      /\ UNCHANGED <<level, solverLevel, frames, stopped, limited>>
  BY DEF FinishResolve, scopeVars, limits
<1>2. PICK r : r = Collected
  OBVIOUS
<1>3. /\ Closed(r, Aside) /\ r.inert.scopeDepth = inert.scopeDepth /\ Good(r, Aside)
  BY <1>1, <1>2, CallEnds DEF Closed, Resting
<1>4. inert' = r.inert /\ Becomes(r)
  BY <1>1, <1>2, <1>3, BecomesState DEF Good, Sound
<1>5. FramesOK' /\ Aside' = Aside
  BY <1>1, <1>3, <1>4, FramesSame DEF SolverInv
<1>6. solverLevel' = -1
  BY <1>1 DEF SolverInv, CallOK
<1> QED BY <1>1, <1>3, <1>4, <1>5, <1>6, BackToIdle

\* A state whose residuals have been settled: their fates are f2, and the
\* worklist is w.
Settled(st, f2, w, r) ==
  /\ r \in States /\ r.soln = st.soln /\ r.args = st.args /\ r.inert = st.inert
  /\ r.fate = f2 /\ r.worklist = w /\ r.residuals = <<>>

LEMMA SettleFields ==
  ASSUME NEW st \in States, NEW S, NEW f \in Fates, NEW r, r = Settle(st, S, f),
         NEW f2, f2 = [c \in Cts |-> IF c \in S THEN f ELSE st.fate[c]]
  PROVE  Settled(st, f2, st.worklist, r) /\ f2 \in [Cts -> Fates]
<1>1. st.fate \in [Cts -> Fates]
  BY StateType
<1>2. f2 \in [Cts -> Fates]
  BY <1>1
<1>3. PICK e : e = <<>>
  OBVIOUS
<1>4. e \in Seq(Cts) /\ r = [st EXCEPT !.fate = f2, !.residuals = e]
  BY <1>3 DEF Settle, States
<1>5. /\ r \in States /\ r.soln = st.soln /\ r.args = st.args /\ r.inert = st.inert
      /\ r.fate = f2 /\ r.worklist = st.worklist /\ r.residuals = e
  BY <1>2, <1>4 DEF States
<1> QED BY <1>2, <1>3, <1>5 DEF Settled

LEMMA DeferrableOK ==
  ASSUME NEW st, NEW away \in SUBSET Cts, Good(st, away), st.inert.classMap = <<>>, st.inert.resolutionKeys = {},
         ~limited => Found(st, away), NEW lift \in BOOLEAN, NEW r, r = Deferrable(st, lift)
  PROVE  Closed(r, away) /\ r.inert = st.inert
<1>1. st \in States /\ st.fate \in [Cts -> Fates] /\ st.worklist \in Seq(Cts)
      /\ st.residuals \in Seq(Cts) /\ ToSet(st.residuals) \subseteq Of("class")
      /\ "lifted" \in Fates /\ "pending" \in Fates
  BY StateType DEF Good, Sound, Placed, Fates
<1>2. CASE lift
  <2>1. PICK f2 : f2 = [c \in Cts |-> IF c \in ToSet(st.residuals) THEN "lifted" ELSE st.fate[c]]
    OBVIOUS
  <2>2. Settled(st, f2, st.worklist, r) /\ f2 \in [Cts -> Fates]
    BY <1>1, <1>2, <2>1, SettleFields DEF Deferrable
  <2>3. Sound(r)
    BY <2>2, EmptyElems DEF Settled, Good, Sound, GivensFirst
  <2>4. Placed(r, away)
    <3>1. \A c \in Cts : st.fate[c] \notin {"new", "absent"} => f2[c] \notin {"new", "absent"}
      BY <2>1
    <3>2. Elems(r.worklist) \cup Members(r.inert) \cup Elems(r.residuals) \cup away
            \subseteq Elems(st.worklist) \cup Members(st.inert) \cup Elems(st.residuals) \cup away
      BY <2>2, EmptyElems DEF Settled
    <3>3. Elems(st.worklist) \cup Members(st.inert) \cup Elems(st.residuals) \cup away
            \subseteq Cts
      BY <1>1, ElemsType, MembersType, StateType
    <3> QED BY <2>2, <3>1, <3>2, <3>3, EmptyElems DEF Settled, Good, Placed
  <2>5. ~limited => Found(r, away)
    <3>1. Elems(st.residuals) \subseteq ToSet(st.residuals)
      BY PlainElems
    <3> QED BY <2>1, <2>2, <3>1 DEF Settled, Found, Of
  <2> QED BY <2>2, <2>3, <2>4, <2>5 DEF Closed, Good, Resting, Settled
<1>3. CASE ~lift
  <2>1. PICK q : q = Settle(st, {}, "pending")
    OBVIOUS
  <2>2. Settled(st, st.fate, st.worklist, q)
    <3>1. PICK f2 : f2 = [c \in Cts |-> IF c \in {} THEN "pending" ELSE st.fate[c]]
      OBVIOUS
    <3>2. f2 = st.fate
      BY <1>1, <3>1
    <3> QED BY <1>1, <2>1, <3>1, <3>2, SettleFields
  <2>3. PICK w : w = st.worklist \o st.residuals
    OBVIOUS
  <2>4. r = [q EXCEPT !.worklist = w]
    BY <1>3, <2>1, <2>2, <2>3 DEF Deferrable, Settled
  <2>5. w \in Seq(Cts) /\ Elems(w) = Elems(st.worklist) \cup Elems(st.residuals) /\ Once(w)
    BY <1>1, <2>3, ConcatElems DEF Good, Placed
  <2>6. Settled(st, st.fate, w, r)
    <3>1. q \in States /\ q.residuals = <<>>
      BY <2>2 DEF Settled
    <3>2. /\ r \in States /\ r.soln = q.soln /\ r.args = q.args /\ r.inert = q.inert
          /\ r.fate = q.fate /\ r.worklist = w /\ r.residuals = q.residuals
      BY <2>4, <2>5, <3>1 DEF States
    <3> QED BY <2>2, <3>1, <3>2 DEF Settled
  <2>7. Ordered(w)
    <3>1. Of("class") \cap Of("given") = {}
      BY DEF Of
    <3>2. Elems(st.residuals) \cap Of("given") = {}
      BY <1>1, <3>1, PlainElems
    <3>3. Ordered(st.worklist) /\ Ordered(st.residuals)
      BY <1>1, <3>2, OrderedUniform DEF Good, Sound, GivensFirst
    <3> QED BY <1>1, <2>3, <3>2, <3>3, OrderedConcat
  <2>8. Sound(r)
    BY <2>6, <2>7, EmptyElems DEF Settled, Good, Sound, GivensFirst
  <2>9. Placed(r, away)
    BY <2>5, <2>6, EmptyElems DEF Settled, Good, Placed
  <2>10. ~limited => Found(r, away)
    BY <2>5, <2>6 DEF Settled, Found
  <2> QED BY <2>6, <2>8, <2>9, <2>10 DEF Closed, Good, Resting, Settled
<1> QED BY <1>2, <1>3

LEMMA SavedType ==
  ASSUME FramesOK
  PROVE  Aside \subseteq Cts
<1>1. ASSUME NEW i \in DOMAIN frames PROVE Elems(frames[i].saved) \subseteq Cts
  <2>1. frames[i] \in [saved : Seq(Cts), given : Cts, scoped : BOOLEAN]
    <3>1. PICK D : D = [saved : Seq(Cts), given : Cts, scoped : BOOLEAN]
      OBVIOUS
    <3>2. frames \in Seq(D)
      BY <3>1 DEF FramesOK
    <3>3. frames[i] \in D
      BY <3>2
    <3> QED BY <3>1, <3>3
  <2>2. frames[i].saved \in Seq(Cts)
    BY <2>1
  <2> QED BY <2>2, ElemsType
<1> QED BY <1>1 DEF Aside, SavedIn

LEMMA FinishDeferrableOK ==
  ASSUME SolverInv, NEW lift \in BOOLEAN, FinishDeferrable(lift)
  PROVE  SolverInv'
<1>1. LoopDone /\ call = "deferrable" /\ call' = "idle" /\ Becomes(Deferrable(Collected, lift))
      /\ UNCHANGED <<level, solverLevel, frames, stopped, limited>>
  BY DEF FinishDeferrable, scopeVars, limits
<1>2. PICK st : st = Collected
  OBVIOUS
<1>3. PICK r : r = Deferrable(st, lift)
  OBVIOUS
<1>4. /\ Good(st, Aside) /\ st.inert.classMap = <<>> /\ st.inert.resolutionKeys = {}
      /\ st.inert.scopeDepth = inert.scopeDepth
      /\ ~limited => Found(st, Aside)
  BY <1>1, <1>2, CallEnds
<1>5. Closed(r, Aside) /\ r.inert.scopeDepth = inert.scopeDepth /\ Good(r, Aside)
  BY <1>3, <1>4, DeferrableOK, SavedType DEF Closed, SolverInv
<1>6. inert' = r.inert /\ Becomes(r)
  BY <1>1, <1>2, <1>3, <1>5, BecomesState DEF Good, Sound
<1>7. FramesOK' /\ Aside' = Aside
  BY <1>1, <1>5, <1>6, FramesSame DEF SolverInv
<1>8. solverLevel' = -1
  BY <1>1 DEF SolverInv, CallOK
<1> QED BY <1>1, <1>5, <1>6, <1>7, <1>8, BackToIdle

\* Leaving the scope of a branch whose given equality refines the skolem v:
\* what its frame has saved comes back, in front of the residuals that float.
Leaving(st, v, saved, local, r) ==
  r = [Settle(st, local, "reported") EXCEPT
        !.worklist = saved \o Inert!Keep(st.residuals, Cts \ local),
        !.inert = Inert!LeaveScope(@),
        !.soln = [@ EXCEPT ![v] = None]]

Reported(st, local) == [c \in Cts |-> IF c \in local THEN "reported" ELSE st.fate[c]]
Forgotten(st, v) == [st.soln EXCEPT ![v] = None]
Floated(st, saved, local) == saved \o Inert!Keep(st.residuals, Cts \ local)

Left(st, f2, w, k, s, r) ==
  /\ r \in States /\ r.soln = s /\ r.args = st.args /\ r.inert = k
  /\ r.fate = f2 /\ r.worklist = w /\ r.residuals = <<>>

LEMMA LeavingFields ==
  ASSUME NEW st \in States, NEW v, NEW saved, NEW local, NEW r, Leaving(st, v, saved, local, r),
         NEW f2, f2 = Reported(st, local),
         NEW w, w = Floated(st, saved, local), w \in Seq(Cts),
         NEW k, k = Inert!LeaveScope(st.inert), k \in Inert!InertSets,
         NEW s, s = Forgotten(st, v), s \in Solutions
  PROVE  Left(st, f2, w, k, s, r)
<1>1. PICK q : q = Settle(st, local, "reported")
  OBVIOUS
<1>2. Settled(st, f2, st.worklist, q)
  <2>1. "reported" \in Fates
    BY DEF Fates
  <2> QED BY <1>1, <2>1, SettleFields DEF Reported
<1>3. q \in States /\ q.inert = st.inert /\ q.soln = st.soln /\ q.residuals = <<>>
  BY <1>2 DEF Settled
<1>4. r = [q EXCEPT !.worklist = w, !.inert = k, !.soln = s]
  BY <1>1, <1>3 DEF Leaving, States, Floated, Forgotten
<1>5. /\ r \in States /\ r.soln = s /\ r.args = q.args /\ r.inert = k
      /\ r.fate = q.fate /\ r.worklist = w /\ r.residuals = q.residuals
  BY <1>3, <1>4 DEF States
<1> QED BY <1>2, <1>3, <1>5 DEF Settled, Left

\* The call has ended in st, inside a scope whose frame holds saved.
Leavable(st, away, saved) ==
  /\ saved \in Seq(Cts) /\ away \subseteq Cts
  /\ Good(st, away \cup Elems(saved)) /\ away \cap Elems(saved) = {}
  /\ Once(saved) /\ Ordered(saved) /\ st.inert.scopeDepth # 0
  /\ ~limited => Found(st, away \cup Elems(saved)) /\ Drained(st)

LEMMA LeavingOK ==
  ASSUME NEW st, NEW away, NEW saved, Leavable(st, away, saved),
         NEW v \in Skolems, NEW local, NEW r, Leaving(st, v, saved, local, r)
  PROVE  Closed(r, away) /\ r.inert.scopeDepth = st.inert.scopeDepth - 1
<1> /\ saved \in Seq(Cts) /\ away \subseteq Cts
    /\ Good(st, away \cup Elems(saved)) /\ away \cap Elems(saved) = {}
    /\ Once(saved) /\ Ordered(saved) /\ st.inert.scopeDepth # 0
    /\ ~limited => Found(st, away \cup Elems(saved)) /\ Drained(st)
  BY DEF Leavable
<1>1. PICK f2 : f2 = [c \in Cts |-> IF c \in local THEN "reported" ELSE st.fate[c]]
  OBVIOUS
<1>2. PICK kept : kept = Inert!Keep(st.residuals, Cts \ local)
  OBVIOUS
<1>3. PICK w : w = saved \o kept
  OBVIOUS
<1>4. PICK k : k = Inert!LeaveScope(st.inert)
  OBVIOUS
<1>5. PICK s : s = [st.soln EXCEPT ![v] = None]
  OBVIOUS
<1>6. /\ st \in States /\ st.fate \in [Cts -> Fates] /\ st.residuals \in Seq(Cts)
      /\ ToSet(st.residuals) \subseteq Of("class") /\ Once(st.residuals)
      /\ st.soln \in Solutions /\ Acyclic(st.soln) /\ InertOK(st.inert)
      /\ Elems(st.residuals) \cap (away \cup Elems(saved)) = {}
  BY StateType DEF Good, Sound, Placed
<1>7. /\ kept \in Seq(Cts) /\ Elems(kept) = Elems(st.residuals) \cap (Cts \ local) /\ Once(kept)
  BY <1>2, <1>6, KeepElems
<1>8. /\ w \in Seq(Cts) /\ Elems(w) = Elems(saved) \cup Elems(kept) /\ Once(w)
  <2>1. Elems(saved) \cap Elems(kept) = {}
    BY <1>6, <1>7
  <2> QED BY <1>3, <1>7, <2>1, ConcatElems
<1>9. Cleared(st.inert, st.inert.scopeDepth - 1, k)
  BY <1>4, <1>6, LeaveScopeOK
<1>10. /\ InertOK(k) /\ k \in Inert!InertSets /\ OfScope(k) /\ Blocked(st.soln, k)
       /\ k.classMap = <<>> /\ k.resolutionKeys = {} /\ k.scopeDepth = st.inert.scopeDepth - 1
       /\ Members(k) \subseteq Members(st.inert)
  BY <1>9, SmallerInert
<1>11. s \in Solutions /\ Acyclic(s)
  BY <1>5, <1>6, AcyclicForget DEF Vars
<1>12. /\ r \in States /\ r.soln = s /\ r.args = st.args /\ r.inert = k
       /\ r.fate = f2 /\ r.worklist = w /\ r.residuals = <<>>
  <2>1. f2 = Reported(st, local) /\ w = Floated(st, saved, local) /\ s = Forgotten(st, v)
    BY <1>1, <1>2, <1>3, <1>5 DEF Reported, Floated, Forgotten
  <2>2. Left(st, f2, w, k, s, r)
    BY <1>4, <1>6, <1>8, <1>10, <1>11, <2>1, LeavingFields
  <2> QED BY <2>2 DEF Left
<1>13. Blocked(s, k)
  <2>1. \A m \in Metas : s[m] # None => st.soln[m] # None
    BY <1>5, <1>6 DEF Solutions, Vars
  <2> QED BY <1>10, <2>1 DEF Blocked
<1>14. Ordered(w)
  <2>1. Elems(kept) \cap Of("given") = {}
    BY <1>6, <1>7, PlainElems DEF Of
  <2>2. Ordered(kept)
    BY <1>7, <2>1, OrderedUniform
  <2> QED BY <1>3, <1>7, <2>1, <2>2, OrderedConcat
<1>15. Sound(r)
  BY <1>10, <1>11, <1>12, <1>13, <1>14, EmptyElems DEF Good, Sound, GivensFirst
<1>16. Placed(r, away)
  <2>1. Elems(w) \cup Members(k) \cup (away \ Nested)
          \subseteq Elems(saved) \cup Elems(st.residuals) \cup Members(st.inert) \cup (away \ Nested)
    BY <1>7, <1>8, <1>10
  <2>2. Elems(saved) \cup Elems(st.residuals) \cup Members(st.inert) \cup away \subseteq Cts
    BY <1>6, ElemsType, MembersType, StateType
  <2>3. \A c \in Elems(saved) \cup Elems(st.residuals) \cup Members(st.inert) \cup (away \ Nested) :
          st.fate[c] \notin {"new", "absent"}
    <3>1. Elems(saved) \cap Nested = {}
      BY PlainElems
    <3> QED BY <3>1 DEF Good, Placed
  <2>4. \A c \in Cts : st.fate[c] \notin {"new", "absent"} => f2[c] \notin {"new", "absent"}
    BY <1>1
  <2>5. \A c \in Elems(w) \cup Members(k) \cup (away \ Nested) : f2[c] \notin {"new", "absent"}
    BY <2>1, <2>2, <2>3, <2>4
  <2>6. Elems(w) \cap Members(k) = {} /\ away \cap (Elems(w) \cup Members(k)) = {}
    <3>1. Elems(saved) \cap Members(st.inert) = {}
          /\ Elems(st.residuals) \cap Members(st.inert) = {}
          /\ away \cap Members(st.inert) = {}
      BY DEF Good, Placed
    <3> QED BY <1>6, <1>7, <1>8, <1>10, <3>1
  <2>7. Members(k) \cap Of("given") = {}
    BY <1>10 DEF Good, Placed
  <2> QED BY <1>8, <1>12, <2>5, <2>6, <2>7, EmptyElems DEF Placed
<1>17. ~limited => Found(r, away)
  <2> SUFFICES ASSUME ~limited, NEW c \in Of("class"), f2[c] = "pending"
               PROVE  c \in Elems(w) \cup away
    BY <1>12 DEF Found
  <2>1. c \in Cts /\ c \notin local /\ st.fate[c] = "pending"
    BY <1>1 DEF Of
  <2>2. c \in Elems(st.worklist) \cup Elems(st.residuals) \cup away \cup Elems(saved)
    BY <2>1 DEF Found
  <2>3. c \notin Elems(st.worklist)
    BY <2>1 DEF Drained
  <2> QED BY <1>7, <1>8, <2>1, <2>2, <2>3
<1> QED BY <1>10, <1>12, <1>15, <1>16, <1>17 DEF Closed, Good, Resting

\* The given equality of a branch refines a skolem.
LEMMA GivenSkolem ==
  ASSUME SolverInv, NEW c \in Of("given")
  PROVE  /\ args[c] = Args[c] /\ args[c][1] \in Skolems /\ args[c][2] \in TyCons
<1>1. args[c] = Args[c]
  BY StateFields DEF SolverInv, Good, Sound
<1>2. Args[c] \in Skolems \X TyCons
  BY ConstraintsAssumption DEF Of
<1> QED BY <1>1, <1>2

LEMMA FinishLocalOK ==
  ASSUME SolverInv, FinishLocal
  PROVE  SolverInv' /\ \A m \in Metas : soln'[m] = soln[m]
<1>1. /\ LoopDone /\ call = "local" /\ call' = "idle" /\ Becomes(LeaveLocal(Collected))
      /\ frames' = Front(frames) /\ level' = level - 1 /\ solverLevel' = -1
      /\ UNCHANGED <<stopped, limited>>
  BY DEF FinishLocal, limits
<1>2. PICK st : st = Collected
  OBVIOUS
<1>3. PICK f : f = Last(frames)
  OBVIOUS
<1>4. PICK g : g = Front(frames)
  OBVIOUS
<1>5. PICK away : away = SavedIn(g)
  OBVIOUS
<1>6. PICK v : v = args[f.given][1]
  OBVIOUS
<1>7. PICK r : r = LeaveLocal(st)
  OBVIOUS
<1>8. /\ frames # <<>> /\ f.scoped /\ IsFrames(frames) /\ level = Cardinality(Scoped(frames))
      /\ level = inert.scopeDepth /\ Aside = SavedIn(frames)
  BY <1>1, <1>3, FramesAre DEF SolverInv, CallOK
<1>9. /\ IsFrames(g) /\ Aside = away \cup Elems(f.saved) /\ away \cap Elems(f.saved) = {}
      /\ f.saved \in Seq(Cts) /\ Once(f.saved) /\ Ordered(f.saved) /\ f.given \in Of("given")
      /\ Cardinality(Scoped(g)) = level - 1 /\ level # 0
  BY <1>3, <1>4, <1>5, <1>8, FrontFrames
<1>10. /\ Good(st, Aside) /\ st.inert.scopeDepth = inert.scopeDepth
       /\ ~limited => Found(st, Aside) /\ Drained(st)
       /\ st.soln = soln
  BY <1>1, <1>2, CallEnds
<1>11. PICK local : local = {c \in ToSet(st.residuals) : MentionsLocal(st, c)}
  OBVIOUS
<1>12. Leaving(st, v, f.saved, local, r)
  BY <1>3, <1>6, <1>7, <1>11 DEF LeaveLocal, LocalDone, Restored, WithoutGiven, Leaving
<1>13. v \in Skolems /\ away \subseteq Cts
  BY <1>6, <1>9, GivenSkolem, SavedType DEF SolverInv
<1>14. Closed(r, away) /\ r.inert.scopeDepth = level - 1
  <2>1. PICK sv : sv = f.saved
    OBVIOUS
  <2>2. Leavable(st, away, sv) /\ Leaving(st, v, sv, local, r)
    BY <1>8, <1>9, <1>10, <1>12, <1>13, <2>1 DEF Leavable
  <2>3. Closed(r, away) /\ r.inert.scopeDepth = st.inert.scopeDepth - 1
    BY <1>13, <2>2, LeavingOK
  <2> QED BY <1>8, <1>10, <2>3
<1>15. Becomes(r) /\ inert' = r.inert
  BY <1>1, <1>2, <1>7, <1>14, BecomesState DEF Closed, Good, Sound
<1>16. FramesOK' /\ Aside' = away
  BY <1>1, <1>4, <1>5, <1>9, <1>14, <1>15, FramesArePrimed
<1>17. \A m \in Metas : soln'[m] = soln[m]
  <2>1. st \in States /\ st.soln \in Solutions
    BY <1>10, StateType DEF Good, Sound
  <2>2. r.soln = [soln EXCEPT ![v] = None]
    <3>1. PICK q : q = Settle(st, local, "reported")
      OBVIOUS
    <3>2. q \in States /\ q.soln = st.soln
      <4>1. PICK f2 : f2 = [c \in Cts |-> IF c \in local THEN "reported" ELSE st.fate[c]]
        OBVIOUS
      <4>2. Settled(st, f2, st.worklist, q)
        <5>1. "reported" \in Fates
          BY DEF Fates
        <5> QED BY <2>1, <3>1, <4>1, <5>1, SettleFields
      <4> QED BY <4>2 DEF Settled
    <3> QED BY <1>10, <1>12, <3>1, <3>2 DEF Leaving, States
  <2>3. soln' = r.soln
    BY <1>15 DEF Becomes
  <2>4. \A m \in Metas : m # v /\ m \in Vars
    BY <1>13, SignatureAssumption DEF Vars
  <2> QED BY <1>10, <2>1, <2>2, <2>3, <2>4 DEF Solutions
<1> QED BY <1>1, <1>14, <1>15, <1>16, <1>17, BackToIdle

-----------------------------------------------------------------------------
(* The checker between calls.                                              *)

\* r is the current state with other solutions, worklist, inert set or fates.
Assigned(s, w, k, f2, r) ==
  /\ r \in States /\ r.soln = s /\ r.worklist = w /\ r.inert = k /\ r.fate = f2
  /\ r.args = args /\ r.residuals = residuals

LEMMA AssignedState ==
  ASSUME SolverInv, NEW s \in Solutions, NEW w \in Seq(Cts), NEW k \in Inert!InertSets,
         NEW f2 \in [Cts -> Fates], soln' = s, worklist' = w, inert' = k, fate' = f2,
         UNCHANGED <<args, solveVars, inaccessible>>
  PROVE  \E r : Assigned(s, w, k, f2, r) /\ Becomes(r)
<1>1. PICK st : st = State
  OBVIOUS
<1>2. PICK r : r = [st EXCEPT !.soln = s, !.worklist = w, !.inert = k, !.fate = f2]
  OBVIOUS
<1>3. st \in States
  BY <1>1 DEF SolverInv, Good, Sound
<1>4. /\ r \in States /\ r.soln = s /\ r.worklist = w /\ r.inert = k /\ r.fate = f2
      /\ r.args = st.args /\ r.residuals = st.residuals /\ r.resolutions = st.resolutions
      /\ r.ambiguityCache = st.ambiguityCache /\ r.inaccessible = st.inaccessible
  BY <1>2, <1>3 DEF States
<1>5. st.inaccessible = inaccessible
  BY <1>1 DEF State
<1>6. Becomes(r)
  BY <1>1, <1>4, <1>5, StateFields DEF Becomes, solveVars
<1>7. Assigned(s, w, k, f2, r)
  BY <1>1, <1>4, StateFields DEF Assigned
<1> QED BY <1>6, <1>7

\* What is aside is saved.
LEMMA AsidePlain == Aside \cap Nested = {}
BY PlainElems DEF Aside, SavedIn

\* Between calls: the parts of the invariant, on the variables.
LEMMA IdleFacts ==
  ASSUME SolverInv, Checking
  PROVE  /\ soln \in Solutions /\ Acyclic(soln) /\ args \in [Cts -> Pairs]
         /\ worklist \in Seq(Cts) /\ Once(worklist) /\ Ordered(worklist)
         /\ inert \in Inert!InertSets /\ InertOK(inert) /\ OfScope(inert) /\ Blocked(soln, inert)
         /\ inert.classMap = <<>> /\ inert.resolutionKeys = {} /\ residuals = <<>>
         /\ fate \in [Cts -> Fates] /\ solverLevel = -1 /\ Aside \subseteq Cts
         /\ Members(inert) \subseteq Cts /\ Elems(worklist) \subseteq Cts
         /\ \A c \in Of("given") : args[c] = Args[c]
         /\ Elems(worklist) \cap Members(inert) = {}
         /\ Aside \cap (Elems(worklist) \cup Members(inert)) = {}
         /\ \A c \in Elems(worklist) \cup Members(inert) \cup Aside :
              fate[c] \notin {"new", "absent"}
         /\ Members(inert) \cap Of("given") = {}
         /\ ~limited => \A c \in Of("class") :
                          fate[c] = "pending" => c \in Elems(worklist) \cup Aside
<1>1. Good(State, Aside) /\ Resting(State) /\ State \in States
  BY DEF SolverInv, CallOK, Checking, Good, Sound
<1>2. /\ soln \in Solutions /\ args \in [Cts -> Pairs] /\ worklist \in Seq(Cts)
      /\ inert \in Inert!InertSets /\ fate \in [Cts -> Fates]
  BY <1>1, StateType, StateFields
<1>3. /\ inert.classMap = <<>> /\ inert.resolutionKeys = {} /\ residuals = <<>>
  BY <1>1, StateFields DEF Resting
<1>4. /\ Acyclic(soln) /\ InertOK(inert) /\ OfScope(inert) /\ Blocked(soln, inert)
      /\ Ordered(worklist) /\ \A c \in Of("given") : args[c] = Args[c]
  BY <1>1, StateFields DEF Good, Sound, GivensFirst
<1>5. /\ Once(worklist) /\ Elems(worklist) \cap Members(inert) = {}
      /\ Aside \cap (Elems(worklist) \cup Members(inert)) = {}
      /\ \A c \in Elems(worklist) \cup Members(inert) \cup Aside :
              fate[c] \notin {"new", "absent"}
      /\ Members(inert) \cap Of("given") = {}
  <2>1. Aside \ Nested = Aside
    BY AsidePlain
  <2> QED BY <1>1, <2>1, StateFields DEF Good, Placed
<1>6. Aside \subseteq Cts /\ solverLevel = -1
  BY SavedType DEF SolverInv, CallOK, Checking
<1>7. Members(inert) \subseteq Cts /\ Elems(worklist) \subseteq Cts
  BY <1>2, MembersType, ElemsType
<1>8. ~limited => \A c \in Of("class") : fate[c] = "pending" => c \in Elems(worklist) \cup Aside
  BY <1>3, StateFields, EmptyElems DEF SolverInv, Found
<1> QED BY <1>2, <1>3, <1>4, <1>5, <1>6, <1>7, <1>8

\* What a step of the checker must leave, on the parts it assigns.
Idle(s, w, k, f2, away) ==
  /\ s \in Solutions /\ w \in Seq(Cts) /\ k \in Inert!InertSets /\ f2 \in [Cts -> Fates]
  /\ Acyclic(s) /\ InertOK(k) /\ Blocked(s, k) /\ Ordered(w) /\ Once(w)
  /\ k.classMap = <<>> /\ k.resolutionKeys = {}
  /\ Elems(w) \cap Members(k) = {} /\ away \cap (Elems(w) \cup Members(k)) = {}
  /\ \A c \in Elems(w) \cup Members(k) \cup away : f2[c] \notin {"new", "absent"}
  /\ Members(k) \cap Of("given") = {}
  /\ ~limited => \A c \in Of("class") : f2[c] = "pending" => c \in Elems(w) \cup away

LEMMA IdleStep ==
  ASSUME SolverInv, Checking, NEW s, NEW w, NEW k, NEW f2, NEW away, Idle(s, w, k, f2, away),
         soln' = s, worklist' = w, inert' = k, fate' = f2,
         UNCHANGED <<args, solveVars, inaccessible, limits, solverLevel, call>>,
         FramesOK', Aside' = away
  PROVE  SolverInv'
<1>1. PICK r : Assigned(s, w, k, f2, r) /\ Becomes(r)
  BY AssignedState DEF Idle
<1>2. residuals = <<>> /\ solverLevel = -1 /\ \A c \in Of("given") : args[c] = Args[c]
  BY IdleFacts
<1>3. OfScope(k)
  BY EmptyElems DEF Idle, OfScope
<1>4. Sound(r)
  BY <1>1, <1>2, <1>3, EmptyElems DEF Idle, Assigned, Sound, GivensFirst
<1>5. Placed(r, away)
  BY <1>1, <1>2, EmptyElems DEF Idle, Assigned, Placed
<1>6. Closed(r, away)
  BY <1>1, <1>2, <1>4, <1>5 DEF Idle, Assigned, Closed, Good, Resting, Found
<1>7. UNCHANGED <<stopped, limited>> /\ call' = "idle" /\ solverLevel' = -1
  BY <1>2 DEF limits, Checking
<1> QED BY <1>1, <1>6, <1>7, BackToIdle

\* A constraint that becomes pending.
LEMMA NowPending ==
  ASSUME SolverInv, Checking, NEW c \in Cts, fate[c] = "new", NEW f2, f2 = [fate EXCEPT ![c] = "pending"]
  PROVE  /\ f2 \in [Cts -> Fates] /\ f2[c] = "pending" /\ \A x \in Cts \ {c} : f2[x] = fate[x]
         /\ c \notin Elems(worklist) \cup Members(inert) \cup Aside
         /\ \A x \in Elems(worklist) \cup Members(inert) \cup Aside \cup {c} :
              f2[x] \notin {"new", "absent"}
<1>1. /\ f2 \in [Cts -> Fates] /\ f2[c] = "pending" /\ \A x \in Cts \ {c} : f2[x] = fate[x]
  BY IdleFacts DEF Fates
<1>2. c \notin Elems(worklist) \cup Members(inert) \cup Aside
  BY IdleFacts
<1>3. Elems(worklist) \cup Members(inert) \cup Aside \subseteq Cts
  BY IdleFacts
<1>4. \A x \in Elems(worklist) \cup Members(inert) \cup Aside : fate[x] \notin {"new", "absent"}
  BY IdleFacts
<1> QED BY <1>1, <1>2, <1>3, <1>4

LEMMA EmitOK ==
  ASSUME SolverInv, NEW c \in Cts, Emit(c)
  PROVE  SolverInv'
<1>1. /\ Checking /\ fate[c] = "new" /\ c \notin Of("given")
      /\ worklist' = Append(worklist, c) /\ fate' = [fate EXCEPT ![c] = "pending"]
      /\ UNCHANGED <<soln, args, inert, level, solverLevel, frames, call, solveVars,
                     inaccessible, limits>>
  BY DEF Emit, scopeVars, Of
<1>2. PICK w : w = Append(worklist, c)
  OBVIOUS
<1>3. PICK f2 : f2 = [fate EXCEPT ![c] = "pending"]
  OBVIOUS
<1>4. /\ f2 \in [Cts -> Fates] /\ f2[c] = "pending" /\ \A x \in Cts \ {c} : f2[x] = fate[x]
      /\ c \notin Elems(worklist) \cup Members(inert) \cup Aside
      /\ \A x \in Elems(worklist) \cup Members(inert) \cup Aside \cup {c} :
           f2[x] \notin {"new", "absent"}
  BY <1>1, <1>3, NowPending
<1>5. /\ w \in Seq(Cts) /\ Elems(w) = Elems(worklist) \cup ({c} \ Nested) /\ Once(w) /\ Ordered(w)
  <2>1. worklist \in Seq(Cts) /\ Once(worklist) /\ Ordered(worklist)
    BY <1>1, IdleFacts
  <2>2. w \in Seq(Cts) /\ Elems(w) = Elems(worklist) \cup ({c} \ Nested) /\ Once(w)
    BY <1>2, <1>4, <2>1, AppendElems
  <2> QED BY <1>1, <1>2, <2>1, <2>2, OrderedAppend
<1>6. Idle(soln, w, inert, f2, Aside)
  <2>1. \A x \in Of("class") : x # c /\ f2[x] = "pending" => fate[x] = "pending"
    BY <1>4 DEF Of
  <2>2. \A x \in Of("class") : x \notin Nested
    BY NestedKind
  <2> QED BY <1>1, <1>4, <1>5, <2>1, <2>2, IdleFacts DEF Idle
<1>7. FramesOK' /\ Aside' = Aside
  BY <1>1, FramesSame DEF SolverInv
<1> QED BY <1>1, <1>2, <1>3, <1>6, <1>7, IdleStep

LEMMA RegisterOK ==
  ASSUME SolverInv, NEW c \in Cts, RegisterStuckFunEq(c)
  PROVE  SolverInv'
<1>1. PICK ts : ts = zonkAll(soln, args[c])
  OBVIOUS
<1>2. PICK ids : ids = collectMetaIDs(ts)
  OBVIOUS
<1>3. PICK k : k = Inert!InsertFunEq(inert, c, ids)
  OBVIOUS
<1>4. PICK f2 : f2 = [fate EXCEPT ![c] = "pending"]
  OBVIOUS
<1>5. /\ Checking /\ fate[c] = "new" /\ c \in Of("fun") /\ inert' = k /\ fate' = f2
      /\ UNCHANGED <<soln, args, worklist, level, solverLevel, frames, call, solveVars,
                     inaccessible, limits>>
  BY <1>1, <1>2, <1>3, <1>4 DEF RegisterStuckFunEq, scopeVars, Of
<1>6. /\ f2 \in [Cts -> Fates] /\ f2[c] = "pending" /\ \A x \in Cts \ {c} : f2[x] = fate[x]
      /\ c \notin Elems(worklist) \cup Members(inert) \cup Aside
      /\ \A x \in Elems(worklist) \cup Members(inert) \cup Aside \cup {c} :
           f2[x] \notin {"new", "absent"}
  BY <1>4, <1>5, NowPending
<1>7. soln \in Solutions /\ Acyclic(soln) /\ args[c] \in Pairs
  BY <1>5, IdleFacts
<1>8. ts \in Pairs /\ \A i \in {1, 2} : ts[i] \in Vars => soln[ts[i]] = None
  BY <1>1, <1>7, ZonkPair
<1>9. ids \in Seq(Metas) /\ IsInjective(ids) /\ ToSet(ids) = Metas \cap {ts[1], ts[2]}
  BY <1>2, <1>8, MetaIDs
<1>10. InertOK(inert) /\ Blocked(soln, inert) /\ inert.classMap = <<>> /\ inert.resolutionKeys = {}
  BY <1>5, IdleFacts
<1>11. Grown(inert, c, ids, k)
  BY <1>3, <1>5, <1>6, <1>9, <1>10, InsertFunEqOK
<1>12. /\ InertOK(k) /\ Members(k) \subseteq Members(inert) \cup {c}
       /\ k.classMap = <<>> /\ k.scopeDepth = inert.scopeDepth /\ k.resolutionKeys = {}
       /\ k \in Inert!InertSets
  BY <1>10, <1>11 DEF Grown, InertOK, Buckets
<1>13. Blocked(soln, k)
  <2> SUFFICES ASSUME NEW m \in Metas, soln[m] # None, NEW x \in ToSet(k.metaIndex[m])
               PROVE  x \notin Of("fun") \cup Of("eq")
    BY DEF Blocked
  <2>1. m \notin ToSet(ids)
    BY <1>8, <1>9 DEF Vars
  <2>2. x \in ToSet(inert.metaIndex[m])
    BY <1>11, <2>1 DEF Grown
  <2> QED BY <1>10, <2>2 DEF Blocked
<1>14. Idle(soln, worklist, k, f2, Aside)
  <2>1. \A x \in Of("class") : f2[x] = "pending" => fate[x] = "pending"
    BY <1>5, <1>6 DEF Of
  <2>2. c \notin Of("given")
    BY <1>5 DEF Of
  <2> QED BY <1>5, <1>6, <1>12, <1>13, <2>1, <2>2, IdleFacts DEF Idle
<1>15. FramesOK' /\ Aside' = Aside
  BY <1>5, <1>12, FramesSame DEF SolverInv
<1> QED BY <1>5, <1>14, <1>15, IdleStep

LEMMA EagerUnifyOK ==
  ASSUME SolverInv, NEW m \in Metas, NEW t \in EagerTypes, EagerUnify(m, t)
  PROVE  SolverInv'
<1>1. /\ Checking /\ Becomes(Unify(State, m, t, solverLevel))
      /\ UNCHANGED <<level, solverLevel, frames, call, stopped, limited>>
  BY DEF EagerUnify, scopeVars, limits
<1>2. PICK st : st = State
  OBVIOUS
<1>3. PICK r : r = Unify(st, m, t, solverLevel)
  OBVIOUS
<1>4. Good(st, Aside) /\ Resting(st) /\ (~limited => Found(st, Aside))
  BY <1>1, <1>2 DEF SolverInv, CallOK, Checking
<1>5. solverLevel \in Int /\ solverLevel = -1
  BY <1>1, IdleFacts
<1>6. m \in Types /\ t \in Types
  BY SignatureAssumption DEF Types, Vars
<1>7. Good(r, Aside) /\ Unified(st, m, t, solverLevel, r)
  BY <1>3, <1>4, <1>5, <1>6, UnifyOK
<1>8. Woken(st, r)
  BY <1>7 DEF Unified
<1>9. r.inert.classMap = <<>>
  <2>1. r.inert.classMap \in Seq(Cts)
    BY <1>7, StateType, InertType DEF Good, Sound
  <2>2. ToSet(r.inert.classMap) = {}
    <3>1. Elems(r.inert.classMap) = {}
      BY <1>4, <1>8, EmptyElems DEF Woken, Resting
    <3>2. ToSet(r.inert.classMap) \subseteq Of("class")
      BY <1>7 DEF Good, Sound, InertOK, Kinds
    <3> QED BY <2>1, <3>1, <3>2, ClassElems
  <2> QED BY <2>1, <2>2, ElemsType
<1>10. Closed(r, Aside)
  <2>1. Resting(r)
    BY <1>4, <1>8, <1>9 DEF Woken, Resting
  <2>2. Found(st, Aside) => Found(r, Aside)
    BY <1>8 DEF Woken, Found
  <2> QED BY <1>4, <1>7, <2>1, <2>2 DEF Closed
<1>11. Becomes(r) /\ r.inert.scopeDepth = inert.scopeDepth
  BY <1>1, <1>2, <1>3, <1>8, StateFields DEF Woken
<1>12. inert' = r.inert
  BY <1>7, <1>11, BecomesState DEF Good, Sound
<1>13. FramesOK' /\ Aside' = Aside
  BY <1>1, <1>11, <1>12, FramesSame DEF SolverInv
<1> QED BY <1>1, <1>5, <1>10, <1>11, <1>13, BackToIdle DEF Checking

\* One frame more.
LEMMA AppendFrames ==
  ASSUME NEW fs, IsFrames(fs), Len(fs) < MaxDepth,
         NEW f \in [saved : Seq(Cts), given : Cts, scoped : BOOLEAN],
         Once(f.saved), Ordered(f.saved), f.given \in Of("given"),
         ~f.scoped => f.saved = <<>>, SavedIn(fs) \cap Elems(f.saved) = {},
         NEW g, g = Append(fs, f)
  PROVE  /\ IsFrames(g) /\ SavedIn(g) = SavedIn(fs) \cup Elems(f.saved)
         /\ Cardinality(Scoped(g)) = Cardinality(Scoped(fs)) + (IF f.scoped THEN 1 ELSE 0)
<1>1. PICK D : D = [saved : Seq(Cts), given : Cts, scoped : BOOLEAN]
  OBVIOUS
<1>2. PICK n : n = Len(fs)
  OBVIOUS
<1>3. fs \in Seq(D) /\ f \in D /\ n \in Nat /\ MaxDepth \in Nat
  BY <1>1, <1>2, SignatureAssumption DEF IsFrames
<1>4. /\ g \in Seq(D) /\ Len(g) = n + 1 /\ DOMAIN g = 1..(n + 1) /\ DOMAIN fs = 1..n
      /\ \A i \in 1..n : g[i] = fs[i]
      /\ g[n + 1] = f
  BY <1>2, <1>3
<1>5. 1..(n + 1) = 1..n \cup {n + 1} /\ n + 1 \notin 1..n
  BY <1>3
<1>6. \A i \in 1..n : Elems(fs[i].saved) \cap Elems(f.saved) = {}
  BY <1>4 DEF SavedIn
<1>7. IsFrames(g)
  <2>1. Len(g) <= MaxDepth
    BY <1>2, <1>3, <1>4
  <2>2. \A i \in 1..n : /\ Once(g[i].saved) /\ Ordered(g[i].saved)
                        /\ g[i].given \in Of("given")
                        /\ ~g[i].scoped => g[i].saved = <<>>
    BY <1>4 DEF IsFrames
  <2>3. \A i, j \in 1..n : i # j => Elems(g[i].saved) \cap Elems(g[j].saved) = {}
    BY <1>4 DEF IsFrames
  <2>4. \A i \in 1..n : Elems(g[i].saved) \cap Elems(g[n + 1].saved) = {}
    BY <1>4, <1>6
  <2>5. \A i \in 1..(n + 1) : /\ Once(g[i].saved) /\ Ordered(g[i].saved)
                              /\ g[i].given \in Of("given")
                              /\ ~g[i].scoped => g[i].saved = <<>>
    BY <1>4, <1>5, <2>2
  <2>6. \A i, j \in 1..(n + 1) : i # j => Elems(g[i].saved) \cap Elems(g[j].saved) = {}
    BY <1>5, <2>3, <2>4
  <2>7. g \in Seq([saved : Seq(Cts), given : Cts, scoped : BOOLEAN]) /\ DOMAIN g = 1..(n + 1)
    BY <1>1, <1>4
  <2>8. \A i \in DOMAIN g : /\ Once(g[i].saved) /\ Ordered(g[i].saved)
                            /\ g[i].given \in Of("given")
                            /\ ~g[i].scoped => g[i].saved = <<>>
    BY <2>5, <2>7
  <2>9. \A i, j \in DOMAIN g : i # j => Elems(g[i].saved) \cap Elems(g[j].saved) = {}
    BY <2>6, <2>7
  <2>10. g \in Seq([saved : Seq(Cts), given : Cts, scoped : BOOLEAN])
    BY <2>7
  <2> QED BY <2>1, <2>8, <2>9, <2>10 DEF IsFrames
<1>8. SavedIn(g) = SavedIn(fs) \cup Elems(f.saved)
  <2>1. \A x : x \in SavedIn(g) <=> \E i \in 1..(n + 1) : x \in Elems(g[i].saved)
    BY <1>4 DEF SavedIn
  <2>2. \A x : x \in SavedIn(fs) <=> \E i \in 1..n : x \in Elems(fs[i].saved)
    BY <1>4 DEF SavedIn
  <2> QED BY <1>4, <1>5, <2>1, <2>2, ZenonT(60)
<1>9. Scoped(g) = Scoped(fs) \cup (IF f.scoped THEN {n + 1} ELSE {}) /\ n + 1 \notin Scoped(fs)
  BY <1>4, <1>5 DEF Scoped
<1>10. IsFiniteSet(Scoped(fs)) /\ Cardinality(Scoped(fs)) \in Nat
  BY ScopedCard
<1>11. CASE f.scoped
  <2>1. Scoped(g) = Scoped(fs) \cup {n + 1}
    BY <1>9, <1>11
  <2>2. Cardinality(Scoped(fs) \cup {n + 1}) = Cardinality(Scoped(fs)) + 1
    BY <1>9, <1>10, FS_AddElement
  <2> QED BY <1>7, <1>8, <1>11, <2>1, <2>2
<1>12. CASE ~f.scoped
  <2>1. Scoped(g) = Scoped(fs)
    BY <1>9, <1>12
  <2> QED BY <1>7, <1>8, <1>10, <1>12, <2>1
<1> QED BY <1>11, <1>12

LEMMA EnterBranchOK ==
  ASSUME SolverInv, NEW c \in Cts, NEW scoped \in BOOLEAN, EnterBranch(c, scoped)
  PROVE  SolverInv'
<1>1. PICK v : v = args[c][1]
  OBVIOUS
<1>2. PICK t : t = args[c][2]
  OBVIOUS
<1>3. PICK s : s = [soln EXCEPT ![v] = t]
  OBVIOUS
<1>4. PICK f2 : f2 = [fate EXCEPT ![c] = "pending"]
  OBVIOUS
<1>5. PICK q : q = <<c>> \o worklist
  OBVIOUS
<1>6. PICK saved : saved = IF scoped THEN q ELSE <<>>
  OBVIOUS
<1>7. PICK w : w = IF scoped THEN <<>> ELSE q
  OBVIOUS
<1>8. PICK k : k = IF scoped THEN Inert!EnterScope(inert) ELSE inert
  OBVIOUS
<1>9. PICK f : f = [saved |-> saved, given |-> c, scoped |-> scoped]
  OBVIOUS
<1>10. PICK g : g = Append(frames, f)
  OBVIOUS
<1>11. /\ Checking /\ fate[c] = "new" /\ c \in Of("given") /\ soln[v] = None
       /\ Len(frames) < MaxDepth /\ soln' = s /\ fate' = f2 /\ frames' = g /\ worklist' = w
       /\ inert' = k /\ level' = IF scoped THEN level + 1 ELSE level
       /\ UNCHANGED <<args, solverLevel, call, solveVars, inaccessible, limits>>
  BY <1>1, <1>2, <1>3, <1>4, <1>5, <1>6, <1>7, <1>8, <1>9, <1>10 DEF EnterBranch, Of
<1>12. v \in Skolems /\ t \in TyCons
  BY <1>1, <1>2, <1>11, GivenSkolem
<1>13. /\ soln \in Solutions /\ Acyclic(soln) /\ worklist \in Seq(Cts) /\ Once(worklist)
       /\ Ordered(worklist) /\ InertOK(inert) /\ inert \in Inert!InertSets /\ Blocked(soln, inert)
       /\ inert.classMap = <<>> /\ inert.resolutionKeys = {} /\ Aside \subseteq Cts
       /\ Elems(worklist) \cap Members(inert) = {}
       /\ Aside \cap (Elems(worklist) \cup Members(inert)) = {}
       /\ Members(inert) \cap Of("given") = {}
  BY <1>11, IdleFacts
<1>14. /\ f2 \in [Cts -> Fates] /\ f2[c] = "pending" /\ \A x \in Cts \ {c} : f2[x] = fate[x]
       /\ c \notin Elems(worklist) \cup Members(inert) \cup Aside
       /\ \A x \in Elems(worklist) \cup Members(inert) \cup Aside \cup {c} :
            f2[x] \notin {"new", "absent"}
  BY <1>4, <1>11, NowPending
<1>15. s \in Solutions /\ Acyclic(s) /\ \A m \in Metas : s[m] = soln[m]
  <2>1. v \in Vars /\ t \in Types /\ v # t /\ t \notin Vars
    BY <1>12, SignatureAssumption DEF Vars, Types
  <2>2. s \in Solutions /\ Acyclic(s)
    BY <1>3, <1>13, <2>1, AcyclicExtend
  <2>3. \A m \in Metas : m # v /\ m \in Vars
    BY <1>12, SignatureAssumption DEF Vars
  <2>4. \A m \in Metas : s[m] = soln[m]
    BY <1>3, <1>13, <2>3 DEF Solutions
  <2> QED BY <2>2, <2>4
<1>16. q \in Seq(Cts) /\ Elems(q) = {c} \cup Elems(worklist) /\ Once(q) /\ Ordered(q)
  <2>1. PICK one : one = <<c>>
    OBVIOUS
  <2>2. one \in Seq(Cts) /\ Elems(one) = {c} /\ Once(one)
    <3>1. c \notin Nested
      BY <1>11, NestedKind
    <3> QED BY <2>1, <3>1 DEF ToSet, Elems, Once
  <2>3. Elems(one) \cap Of("class") = {}
    BY <1>11, <2>2 DEF Of
  <2>4. Ordered(one)
    BY <2>2, <2>3, OrderedUniform
  <2>5. q \in Seq(Cts) /\ Elems(q) = {c} \cup Elems(worklist) /\ Once(q)
    <3>1. Elems(one) \cap Elems(worklist) = {} /\ Once(worklist) /\ worklist \in Seq(Cts)
      BY <1>13, <1>14, <2>2
    <3>2. q = one \o worklist
      BY <1>5, <2>1
    <3> QED BY <2>2, <3>1, <3>2, ConcatElems
  <2> QED BY <1>5, <1>13, <2>1, <2>2, <2>3, <2>4, <2>5, OrderedConcat
<1>17. PICK e : e = <<>>
  OBVIOUS
<1>18. e \in Seq(Cts) /\ Elems(e) = {} /\ Once(e) /\ Ordered(e)
  BY <1>17, EmptyElems DEF Ordered
<1>19. /\ w \in Seq(Cts) /\ saved \in Seq(Cts) /\ Once(w) /\ Once(saved) /\ Ordered(w) /\ Ordered(saved)
       /\ Elems(w) \cup Elems(saved) = {c} \cup Elems(worklist) /\ Elems(w) \cap Elems(saved) = {}
       /\ ~scoped => saved = <<>>
  BY <1>6, <1>7, <1>16, <1>17, <1>18
<1>20. /\ IsFrames(frames) /\ Aside = SavedIn(frames) /\ level = Cardinality(Scoped(frames))
       /\ level = inert.scopeDepth /\ level \in Nat /\ level <= Len(frames) /\ Len(frames) \in Nat
       /\ MaxDepth \in Nat
  <2>1. /\ IsFrames(frames) /\ Aside = SavedIn(frames) /\ level = Cardinality(Scoped(frames))
        /\ level = inert.scopeDepth
    BY FramesAre DEF SolverInv
  <2>2. Len(frames) \in Nat
    BY <2>1 DEF IsFrames
  <2> QED BY <2>1, <2>2, ScopedCard, SignatureAssumption
<1>21. /\ f \in [saved : Seq(Cts), given : Cts, scoped : BOOLEAN]
       /\ f.saved = saved /\ f.given = c /\ f.scoped = scoped
  BY <1>9, <1>19
<1>22. /\ IsFrames(g) /\ SavedIn(g) = Aside \cup Elems(saved)
       /\ Cardinality(Scoped(g)) = level + (IF scoped THEN 1 ELSE 0)
  <2>1. SavedIn(frames) \cap Elems(f.saved) = {}
    BY <1>13, <1>14, <1>19, <1>20, <1>21
  <2>2. Once(f.saved) /\ Ordered(f.saved) /\ f.given \in Of("given") /\ (~f.scoped => f.saved = <<>>)
    BY <1>11, <1>19, <1>21
  <2>3. /\ IsFrames(g) /\ SavedIn(g) = SavedIn(frames) \cup Elems(f.saved)
        /\ Cardinality(Scoped(g)) = Cardinality(Scoped(frames)) + (IF f.scoped THEN 1 ELSE 0)
    BY <1>10, <1>11, <1>20, <1>21, <2>1, <2>2, AppendFrames
  <2> QED BY <1>20, <1>21, <2>3
<1>23. /\ InertOK(k) /\ Members(k) = Members(inert)
       /\ k.metaIndex = inert.metaIndex /\ k.classMap = <<>> /\ k.resolutionKeys = {}
       /\ k.scopeDepth = IF scoped THEN level + 1 ELSE level
       /\ k \in Inert!InertSets
  <2>1. CASE scoped
    <3>1. inert.scopeDepth < MaxDepth /\ k = Inert!EnterScope(inert)
      BY <1>8, <1>11, <1>20, <2>1
    <3>2. /\ InertOK(k) /\ Members(k) = Members(inert)
          /\ k.metaIndex = inert.metaIndex /\ k.classMap = inert.classMap
          /\ k.resolutionKeys = inert.resolutionKeys /\ k.scopeDepth = inert.scopeDepth + 1
      BY <1>13, <3>1, EnterScopeOK
    <3> QED BY <1>13, <1>20, <2>1, <3>2 DEF InertOK, Buckets
  <2>2. CASE ~scoped
    BY <1>8, <1>13, <1>20, <2>2
  <2> QED BY <2>1, <2>2
<1>24. PICK away : away = Aside \cup Elems(saved)
  OBVIOUS
<1>25. Idle(s, w, k, f2, away)
  <2>1. Blocked(s, k)
    BY <1>13, <1>15, <1>23 DEF Blocked
  <2>2. /\ Elems(w) \cap Members(k) = {} /\ away \cap (Elems(w) \cup Members(k)) = {}
        /\ Elems(w) \cup Members(k) \cup away
             = Elems(worklist) \cup Members(inert) \cup Aside \cup {c}
    <3>1. /\ \A x \in Elems(w) \cup Elems(saved) : x = c \/ x \in Elems(worklist)
          /\ \A x \in {c} \cup Elems(worklist) : x \in Elems(w) \/ x \in Elems(saved)
          /\ \A x \in Elems(w) : x \notin Elems(saved)
      BY <1>19
    <3>2. Elems(w) \cap Members(inert) = {} /\ Elems(saved) \cap Members(inert) = {}
          /\ Aside \cap Elems(w) = {} /\ Aside \cap Members(inert) = {}
      BY <1>13, <1>14, <3>1
    <3> QED BY <1>23, <1>24, <3>1, <3>2
  <2>3. \A x \in Elems(w) \cup Members(k) \cup away : f2[x] \notin {"new", "absent"}
    BY <1>14, <2>2
  <2>4. ~limited => \A x \in Of("class") : f2[x] = "pending" => x \in Elems(w) \cup away
    <3> SUFFICES ASSUME ~limited, NEW x \in Of("class"), f2[x] = "pending"
                 PROVE  x \in Elems(w) \cup away
      OBVIOUS
    <3>1. x # c /\ x \in Cts
      BY <1>11 DEF Of
    <3>2. fate[x] = "pending"
      BY <1>14, <3>1
    <3>3. x \in Elems(worklist) \cup Aside
      BY <1>11, <3>2, IdleFacts
    <3> QED BY <1>19, <1>24, <3>3
  <2>5. Members(k) \cap Of("given") = {}
    BY <1>13, <1>23
  <2> QED BY <1>14, <1>15, <1>19, <1>23, <2>1, <2>2, <2>3, <2>4, <2>5 DEF Idle
<1>26. FramesOK' /\ Aside' = away
  <2>1. level' = Cardinality(Scoped(frames')) /\ level' = inert'.scopeDepth
    BY <1>11, <1>20, <1>22, <1>23
  <2> QED BY <1>11, <1>22, <1>24, <2>1, FramesArePrimed
<1> QED BY <1>11, <1>25, <1>26, IdleStep

LEMMA LeavePlainOK ==
  ASSUME SolverInv, LeavePlainBranch
  PROVE  SolverInv'
<1>1. PICK f : f = Last(frames)
  OBVIOUS
<1>2. PICK g : g = Front(frames)
  OBVIOUS
<1>3. PICK v : v = args[f.given][1]
  OBVIOUS
<1>4. PICK s : s = [soln EXCEPT ![v] = None]
  OBVIOUS
<1>5. /\ Checking /\ frames # <<>> /\ ~f.scoped /\ soln' = s /\ frames' = g
      /\ UNCHANGED <<args, worklist, inert, level, solverLevel, call, solveVars,
                     inaccessible, limits, fate>>
  BY <1>1, <1>2, <1>3, <1>4 DEF LeavePlainBranch, WithoutGiven
<1>6. /\ IsFrames(frames) /\ Aside = SavedIn(frames) /\ level = Cardinality(Scoped(frames))
      /\ level = inert.scopeDepth
  BY FramesAre DEF SolverInv
<1>7. /\ IsFrames(g) /\ SavedIn(frames) = SavedIn(g) \cup Elems(f.saved)
      /\ f.saved = <<>> /\ f.given \in Of("given")
      /\ Cardinality(Scoped(g)) = Cardinality(Scoped(frames))
  BY <1>1, <1>2, <1>5, <1>6, FrontFrames
<1>8. SavedIn(g) = Aside
  BY <1>6, <1>7, EmptyElems
<1>9. v \in Skolems /\ soln \in Solutions /\ Acyclic(soln) /\ Blocked(soln, inert)
  BY <1>3, <1>5, <1>7, GivenSkolem, IdleFacts
<1>10. s \in Solutions /\ Acyclic(s)
  BY <1>4, <1>9, AcyclicForget DEF Vars
<1>11. Blocked(s, inert)
  <2>1. \A m \in Metas : s[m] # None => soln[m] # None
    BY <1>4, <1>9 DEF Solutions, Vars
  <2> QED BY <1>9, <2>1 DEF Blocked
<1>12. Idle(s, worklist, inert, fate, Aside)
  BY <1>5, <1>10, <1>11, IdleFacts DEF Idle
<1>13. FramesOK' /\ Aside' = Aside
  BY <1>5, <1>6, <1>7, <1>8, FramesArePrimed
<1> QED BY <1>5, <1>12, <1>13, IdleStep

\* A call starts with nothing of the last one.
LEMMA StartOK ==
  ASSUME SolverInv, NEW kind \in Calls \ {"idle"}, StartSolving(kind),
         solverLevel' = IF kind = "local" THEN level ELSE -1,
         kind = "local" => frames # <<>> /\ Last(frames).scoped
  PROVE  SolverInv'
<1>1. PICK st : st = State
  OBVIOUS
<1>2. PICK q : q = [st EXCEPT !.inert = Inert!Reset(@)]
  OBVIOUS
<1>3. PICK none : none = {}
  OBVIOUS
<1>4. PICK r : r = [q EXCEPT !.resolutions = none, !.ambiguityCache = none]
  OBVIOUS
<1>5. Good(st, Aside) /\ Resting(st) /\ Checking
  BY <1>1 DEF SolverInv, CallOK, Checking, StartSolving
<1>6. Good(q, Aside) /\ Emptied(st, q)
  BY <1>2, <1>5, ResetGood
<1>7. st \in States /\ q \in States /\ none \subseteq Cts /\ none \subseteq Pairs \X BOOLEAN
  BY <1>3, <1>5, <1>6 DEF Good, Sound
<1>8. /\ r \in States /\ r.soln = q.soln /\ r.args = q.args /\ r.worklist = q.worklist
      /\ r.inert = q.inert /\ r.residuals = q.residuals /\ r.fate = q.fate
      /\ r.resolutions = none /\ r.ambiguityCache = none /\ r.inaccessible = q.inaccessible
  BY <1>4, <1>7 DEF States
<1>9. q.inert = Inert!Reset(inert) /\ q.inaccessible = inaccessible
  BY <1>1, <1>2, <1>7 DEF State
<1>10. Becomes(r)
  <2>1. /\ inert' = Inert!Reset(inert) /\ residuals' = <<>> /\ resolutions' = {}
        /\ ambiguityCache' = {} /\ UNCHANGED <<soln, args, worklist, inaccessible, fate>>
    BY DEF StartSolving
  <2>2. /\ r.soln = soln /\ r.args = args /\ r.worklist = worklist /\ r.fate = fate
        /\ r.residuals = <<>>
    BY <1>1, <1>5, <1>6, <1>8, StateFields DEF Emptied, Resting
  <2> QED BY <1>3, <1>8, <1>9, <2>1, <2>2 DEF Becomes
<1>11. Good(r, Aside)
  <2>1. SamePlaces(q, r)
    BY <1>8 DEF SamePlaces
  <2> QED BY <1>6, <2>1, SameGood
<1>12. Answers(kind, r)
  <2>1. r.residuals = <<>> /\ r.inert.classMap = <<>> /\ r.inert.resolutionKeys = {}
    BY <1>5, <1>6, <1>8 DEF Emptied, Resting
  <2> QED BY <1>3, <1>8, <2>1, EmptyElems DEF Answers, CacheOK
<1>13. ~limited => Found(r, Aside)
  <2>1. ~limited => Found(st, Aside)
    BY <1>1 DEF SolverInv
  <2> QED BY <1>6, <1>8, <2>1 DEF Emptied, Found
<1>14. UNCHANGED <<level, frames, limited>> /\ call' = kind /\ stopped' = FALSE
  BY DEF StartSolving
<1>15. Aside' = Aside
  BY <1>14 DEF Aside
<1>16. /\ Good(State, Aside)' /\ Answers(kind, State')
       /\ Found(r, Aside) => Found(State, Aside)'
       /\ inert'.scopeDepth = r.inert.scopeDepth
  BY <1>10, <1>11, <1>12, <1>15, BecomesOK
<1>17. inert'.scopeDepth = inert.scopeDepth
  BY <1>1, <1>6, <1>8, <1>16, StateFields DEF Emptied
<1>18. FramesOK'
  BY <1>14, <1>17, FramesSame DEF SolverInv
<1>19. CallOK'
  <2>1. /\ call' \in Calls /\ stopped' \in BOOLEAN /\ limited' \in BOOLEAN /\ ~stopped'
        /\ call' = kind /\ call' # "idle"
    BY <1>14 DEF SolverInv, CallOK
  <2>2. solverLevel' = IF call' = "local" THEN level' ELSE -1
    BY <1>14
  <2>3. call' = "local" => frames' # <<>> /\ Last(frames').scoped
    BY <1>14
  <2>4. Answers(call', State')
    BY <1>16, <2>1
  <2> QED BY <2>1, <2>2, <2>3, <2>4 DEF CallOK
<1>20. ~limited' => Found(State, Aside)'
  BY <1>13, <1>14, <1>16
<1> QED BY <1>16, <1>18, <1>19, <1>20 DEF SolverInv

LEMMA InitOK == Init => SolverInv
<1> SUFFICES ASSUME Init PROVE SolverInv
  OBVIOUS
<1>1. PICK st : st = State
  OBVIOUS
<1>2. PICK is : is = Inert!NewInertSet
  OBVIOUS
<1>3. PICK e : e = <<>>
  OBVIOUS
<1>4. /\ e \in Seq(Cts) /\ e \in Seq(Metas) /\ ToSet(e) = {} /\ Elems(e) = {}
      /\ Once(e) /\ Ordered(e)
  BY <1>3, EmptyElems DEF Ordered
<1>5. MaxDepth \in Nat
  BY SignatureAssumption
<1>6. /\ is.classMap = e /\ is.funEqs = e /\ is.givenEqs = e
      /\ is.metaIndex = [m \in Metas |-> e] /\ is.ctMetas = [c \in Cts |-> e]
      /\ is.resolutionKeys = {} /\ is.scopeDepth = 0
      /\ is.ctScope = [c \in Cts |-> -1] /\ is.scopeCts = [d \in 0..MaxDepth |-> {}]
  BY <1>2, <1>3 DEF Inert!NewInertSet, Inert!NoScope, Inert!Depths
<1>7. is \in Inert!InertSets
  <2>1. PICK mi : mi = [m \in Metas |-> e]
    OBVIOUS
  <2>2. PICK cm : cm = [c \in Cts |-> e]
    OBVIOUS
  <2>3. PICK cs : cs = [c \in Cts |-> -1]
    OBVIOUS
  <2>4. PICK sc : sc = [d \in 0..MaxDepth |-> {}]
    OBVIOUS
  <2>5. /\ mi \in [Metas -> Seq(Cts)] /\ cm \in [Cts -> Seq(Metas)]
        /\ cs \in [Cts -> (0..MaxDepth) \cup {-1}] /\ sc \in [0..MaxDepth -> SUBSET Cts]
        /\ 0 \in 0..MaxDepth
    BY <1>4, <1>5, <2>1, <2>2, <2>3, <2>4
  <2>6. is = [classMap |-> e, funEqs |-> e, givenEqs |-> e, metaIndex |-> mi, ctMetas |-> cm,
              resolutionKeys |-> {}, scopeDepth |-> 0, ctScope |-> cs, scopeCts |-> sc]
    BY <1>2, <1>3, <2>1, <2>2, <2>3, <2>4 DEF Inert!NewInertSet, Inert!NoScope, Inert!Depths
  <2> QED BY <1>4, <2>5, <2>6 DEF Inert!InertSets, Inert!NoScope, Inert!Depths
<1>8. \A m \in Metas : is.metaIndex[m] = e
  BY <1>6
<1>9. Members(is) = {}
  <2>1. \A c : c \notin Members(is)
    BY <1>4, <1>6, <1>7, <1>8, MembersDef
  <2> QED BY <2>1
<1>10. InertOK(is) /\ OfScope(is)
  BY <1>4, <1>6, <1>7, <1>8, <1>9 DEF InertOK, Buckets, Kinds, Owned, OfScope
<1>11. PICK s : s = [v \in Vars |-> None]
  OBVIOUS
<1>12. s \in Solutions /\ Acyclic(s)
  <2>1. s \in Solutions
    BY <1>11 DEF Solutions
  <2>2. None \notin Vars
    BY SignatureAssumption DEF Types
  <2> QED BY <1>11, <2>1, <2>2 DEF Acyclic
<1>13. PICK S : fate = [c \in Cts |-> IF c \in S THEN "new" ELSE "absent"]
  BY DEF Init
<1>14. fate \in [Cts -> Fates] /\ \A c \in Cts : fate[c] # "pending"
  BY <1>13 DEF Fates
<1>15. /\ soln = s /\ args = Args /\ worklist = e /\ inert = is /\ level = 0 /\ solverLevel = -1
       /\ frames = <<>> /\ call = "idle" /\ residuals = e /\ resolutions = {} /\ ambiguityCache = {}
       /\ inaccessible = FALSE /\ stopped = FALSE /\ limited = FALSE
  BY <1>2, <1>3, <1>11 DEF Init
<1>16. st \in States
  <2>1. st = [soln |-> s, args |-> Args, worklist |-> e, inert |-> is, residuals |-> e,
              resolutions |-> {}, ambiguityCache |-> {}, inaccessible |-> FALSE,
              fate |-> fate, ok |-> TRUE]
    BY <1>1, <1>15 DEF State
  <2> QED BY <1>4, <1>7, <1>12, <1>14, <2>1, ConstraintsAssumption DEF States
<1>17. /\ st.soln = s /\ st.args = Args /\ st.worklist = e /\ st.inert = is /\ st.residuals = e
       /\ st.resolutions = {} /\ st.fate = fate
  BY <1>1, <1>15, StateFields
<1>18. Aside = {}
  BY <1>15 DEF Aside, SavedIn
<1>19. Good(st, {})
  <2>1. Blocked(s, is)
    BY <1>4, <1>8 DEF Blocked
  <2>2. Sound(st)
    BY <1>4, <1>6, <1>10, <1>12, <1>16, <1>17, <2>1 DEF Sound, GivensFirst
  <2>3. Placed(st, {})
    BY <1>4, <1>9, <1>17 DEF Placed
  <2> QED BY <2>2, <2>3 DEF Good
<1>20. FramesOK
  <2>1. Scoped(frames) = {}
    BY <1>15 DEF Scoped
  <2>2. Cardinality(Scoped(frames)) = 0
    BY <2>1, FS_EmptySet
  <2>3. IsFrames(frames)
    BY <1>5, <1>15 DEF IsFrames
  <2> QED BY <1>6, <1>15, <2>2, <2>3, FramesAre
<1>21. CallOK
  <2>1. Resting(State)
    BY <1>1, <1>3, <1>6, <1>17 DEF Resting
  <2> QED BY <1>15, <2>1 DEF CallOK, Calls
<1>22. Found(State, Aside)
  BY <1>1, <1>14, <1>17 DEF Found, Of
<1> QED BY <1>1, <1>18, <1>19, <1>20, <1>21, <1>22 DEF SolverInv

LEMMA StutterOK ==
  ASSUME SolverInv, UNCHANGED vars
  PROVE  SolverInv'
<1>1. PICK r : r = State
  OBVIOUS
<1>2. State' = State
  BY DEF State, vars
<1>3. Aside' = Aside
  BY DEF Aside, vars
<1>4. FramesOK'
  BY FramesSame DEF SolverInv, vars
<1>5. Good(State', Aside') /\ (~limited' => Found(State', Aside'))
  BY <1>2, <1>3 DEF SolverInv, vars
<1>6. CallOK'
  BY <1>2 DEF SolverInv, CallOK, vars
<1> QED BY <1>4, <1>5, <1>6 DEF SolverInv

LEMMA CheckOK ==
  ASSUME SolverInv, Check
  PROVE  SolverInv' /\ call = "idle"
<1>1. ASSUME NEW c \in Cts, Emit(c) \/ RegisterStuckFunEq(c) \/ \E scoped \in BOOLEAN : EnterBranch(c, scoped)
      PROVE  SolverInv' /\ call = "idle"
  BY <1>1, EmitOK, RegisterOK, EnterBranchOK
     DEF Emit, RegisterStuckFunEq, EnterBranch, Checking
<1>2. ASSUME NEW m \in Metas, NEW t \in EagerTypes, EagerUnify(m, t)
      PROVE  SolverInv' /\ call = "idle"
  BY <1>2, EagerUnifyOK DEF EagerUnify, Checking
<1>3. CASE LeavePlainBranch
  BY <1>3, LeavePlainOK DEF LeavePlainBranch, Checking
<1>4. ASSUME NEW kind \in {"resolve", "deferrable"}, ResolveDeferred(kind)
      PROVE  SolverInv' /\ call = "idle"
  <2>1. StartSolving(kind) /\ solverLevel' = solverLevel /\ call = "idle"
    BY <1>4 DEF ResolveDeferred, StartSolving, Checking
  <2>2. solverLevel' = IF kind = "local" THEN level ELSE -1
    BY <2>1 DEF SolverInv, CallOK
  <2>3. kind \in Calls \ {"idle"} /\ kind # "local"
    BY DEF Calls
  <2> QED BY <2>1, <2>2, <2>3, StartOK
<1>5. CASE BodyChecked
  <2>1. /\ StartSolving("local") /\ solverLevel' = level /\ call = "idle"
        /\ frames # <<>> /\ Last(frames).scoped
    BY <1>5 DEF BodyChecked, StartSolving, Checking
  <2>2. "local" \in Calls \ {"idle"}
    BY DEF Calls
  <2> QED BY <2>1, <2>2, StartOK
<1> QED BY <1>1, <1>2, <1>3, <1>4, <1>5 DEF Check

\* What a step may do to the metavariables from outside the scope being solved.
OuterKept ==
  call = "local" => \A m \in Metas : Birth[m] < level => soln'[m] = soln[m]

LEMMA StepOK ==
  ASSUME SolverInv, [Next]_vars
  PROVE  SolverInv' /\ OuterKept
<1>1. CASE Check
  BY <1>1, CheckOK DEF OuterKept
<1>2. CASE ProcessClass \/ ProcessEq \/ ProcessGiven \/ ProcessFunEq
  BY <1>2, ProcessStep DEF OuterKept
<1>3. CASE FinishResolve
  <2>1. call = "resolve"
    BY <1>3 DEF FinishResolve
  <2> QED BY <1>3, <2>1, FinishResolveOK DEF OuterKept
<1>4. CASE FinishLocal
  BY <1>4, FinishLocalOK DEF OuterKept
<1>5. ASSUME NEW lift \in BOOLEAN, FinishDeferrable(lift)
      PROVE  SolverInv' /\ OuterKept
  <2>1. call = "deferrable"
    BY <1>5 DEF FinishDeferrable
  <2> QED BY <1>5, <2>1, FinishDeferrableOK DEF OuterKept
<1>6. CASE StepLimit
  BY <1>6, StepLimitOK DEF OuterKept
<1>7. CASE UNCHANGED vars
  <2>1. soln' = soln
    BY <1>7 DEF vars
  <2> QED BY <1>7, <2>1, StutterOK DEF OuterKept
<1> QED BY <1>1, <1>2, <1>3, <1>4, <1>5, <1>6, <1>7 DEF Next, Solve

-----------------------------------------------------------------------------
(* The theorems.                                                           *)

\* The inductive invariant of the solver: through emission, kick-outs, failed
\* trials, resets, branches and the step limit (solver.go, inert.go, unify.go)
\* every constraint is in one place, every chain of solutions ends, what is
\* stuck waits for what is unsolved, and a call never gains a reason to defer.
THEOREM SolverInductive == Spec => []SolverInv
<1>1. Init => SolverInv
  BY InitOK
<1>2. SolverInv /\ [Next]_vars => SolverInv'
  BY StepOK
<1> QED BY <1>1, <1>2, PTL DEF Spec

LEMMA InvTypes == SolverInv => TypeOK
<1> SUFFICES ASSUME SolverInv PROVE TypeOK
  OBVIOUS
<1>1. State \in States
  BY DEF SolverInv, Good, Sound
<1>2. /\ soln \in Solutions /\ args \in [Cts -> Pairs] /\ worklist \in Seq(Cts)
      /\ inert \in Inert!InertSets /\ residuals \in Seq(Cts) /\ resolutions \subseteq Cts
      /\ ambiguityCache \subseteq Pairs \X BOOLEAN /\ fate \in [Cts -> Fates]
  BY <1>1, StateType, StateFields
<1>3. inaccessible \in BOOLEAN
  <2>1. State.inaccessible = inaccessible
    BY DEF State
  <2> QED BY <1>1, <2>1, StateType
<1>4. level \in 0..MaxDepth
  <2>1. inert.scopeDepth \in 0..MaxDepth
    BY <1>2, InertType
  <2> QED BY <2>1 DEF SolverInv, FramesOK
<1>5. solverLevel \in -1..MaxDepth
  <2>1. MaxDepth \in Nat
    BY SignatureAssumption
  <2>2. solverLevel = level \/ solverLevel = -1
    BY DEF SolverInv, CallOK
  <2> QED BY <1>4, <2>1, <2>2
<1>6. /\ frames \in Seq([saved : Seq(Cts), given : Cts, scoped : BOOLEAN])
      /\ call \in Calls /\ stopped \in BOOLEAN /\ limited \in BOOLEAN
  BY DEF SolverInv, FramesOK, CallOK
<1> QED BY <1>2, <1>3, <1>4, <1>5, <1>6 DEF TypeOK, Solutions

\* Every constraint but a nested equality is in one place: a constraint kicked
\* out is queued once, one that is queued is not inert. A call of SolveWanteds
\* never returns a constraint both as resolved and as a residual. Copies of a
\* nested equality are left out, as the code keeps several (processCtEq,
\* indexMetas, KickOut).
THEOREM SolverHoldsOnce == Spec => []HeldOnce
<1>1. SolverInv => HeldOnce
  <2> SUFFICES ASSUME SolverInv PROVE HeldOnce
    OBVIOUS
  <2>1. ActiveXorInert
    <3>1. Once(worklist) /\ Elems(worklist) \cap Members(inert) = {}
      BY StateFields DEF SolverInv, Good, Placed
    <3> QED BY <3>1 DEF ActiveXorInert, Once, Elems, Members
  <2>2. ResolvedXorResidual
    <3>1. CASE call = "idle"
      BY <3>1, StateFields, EmptyElems DEF SolverInv, CallOK, Resting, ResolvedXorResidual
    <3>2. CASE call # "idle"
      <4>1. Elems(residuals) \cap resolutions = {} /\ ToSet(residuals) \subseteq Of("class")
        BY <3>2, StateFields DEF SolverInv, CallOK, Answers, Good, Placed
      <4>2. ToSet(residuals) \cap Nested = {}
        BY <4>1, NestedKind
      <4> QED BY <4>1, <4>2, PlainElems DEF ResolvedXorResidual
    <3> QED BY <3>1, <3>2
  <2> QED BY <2>1, <2>2, InvTypes DEF HeldOnce
<1> QED BY <1>1, SolverInductive, PTL

\* A stuck equality or family equation waits for an unsolved metavariable under
\* every entry of the index, inside trials too (Reactivate, Unifier.OnSolve).
THEOREM SolverStuckBlocked == Spec => []StuckAreBlocked
<1>1. SolverInv => StuckAreBlocked
  <2> SUFFICES ASSUME SolverInv, NEW m \in Metas, soln[m] # None,
                      NEW c \in ToSet(inert.metaIndex[m])
               PROVE  Kind[c] \notin {"fun", "eq"}
    BY DEF StuckAreBlocked
  <2>1. Blocked(soln, inert) /\ inert \in Inert!InertSets
    BY StateFields, StateType DEF SolverInv, Good, Sound
  <2>2. c \in Cts
    <3>1. inert.metaIndex[m] \in Seq(Cts)
      BY <2>1, InertType
    <3> QED BY <3>1, ElemsType
  <2> QED BY <2>1, <2>2 DEF Blocked, Of
<1> QED BY <1>1, SolverInductive, PTL

\* Every inert constraint but a nested equality is listed under the open depth it
\* is tagged with: the Reset or LeaveScope that owns it finds it (tagScope,
\* clearScope).
THEOREM SolverScopesOwn == Spec => []ScopeOwnership
<1>1. SolverInv => ScopeOwnership
  BY StateFields DEF SolverInv, Good, Sound, InertOK, Owned, ScopeOwnership, Members
<1> QED BY <1>1, SolverInductive, PTL

\* No class constraint is lost: until it is resolved, reported or generalised
\* over it is on a worklist, saved by a scope or a residual (SolveWanteds,
\* CheckWithLocalScope).
THEOREM SolverLosesNothing == Spec => []ClassesNeverLost
<1>1. SolverInv => ClassesNeverLost
  <2> SUFFICES ASSUME SolverInv, ~limited, NEW c \in Cts, Kind[c] = "class", fate[c] = "pending"
               PROVE  c \in Held
    BY DEF ClassesNeverLost
  <2>1. c \in Elems(worklist) \cup Elems(residuals) \cup Aside
    BY StateFields DEF SolverInv, Found, Of
  <2>2. Aside \subseteq Saved
    BY PlainElems DEF Aside, SavedIn, Saved
  <2> QED BY <2>1, <2>2, PlainElems DEF Held
<1> QED BY <1>1, SolverInductive, PTL

\* No step of a call that solves the wanteds of a branch, its last included,
\* changes the solution of a metavariable created outside the branch, neither by
\* an equality nor by a trial of an instance head (solveMeta, withTrial,
\* shouldDefer).
THEOREM SolverLeavesOuter == Spec => OuterMetasUntouched
<1>1. SolverInv /\ [Next]_vars => [OuterKept]_vars
  BY StepOK
<1>2. [][OuterKept]_vars => OuterMetasUntouched
  BY PTL DEF OuterMetasUntouched, OuterKept
<1> QED BY <1>1, <1>2, SolverInductive, PTL DEF Spec

=============================================================================
