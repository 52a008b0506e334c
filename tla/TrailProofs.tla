----------------------------- MODULE TrailProofs ----------------------------
(***************************************************************************)
(* The trail restores what a snapshot saw, for any identifiers, any values *)
(* and any nesting of trials, probes and branches.                         *)
(*                                                                         *)
(* Undoing the trail back to a position gives every identifier the old     *)
(* value of the first write after it (Before), in whatever order and       *)
(* however often it was written (RestoreExact). So it is enough that what  *)
(* happens since a scope was opened never changes that (Within): a write   *)
(* records the value it replaces, and a branch removes only what it has    *)
(* written itself, after every trial it is in was opened.                  *)
(***************************************************************************)
EXTENDS TrailScopes, WellFoundedInduction, TLAPS

--------------------------------------------------------------------------------
(* The shape of a unifier.                                                 *)
IsTable(m) == m = [x \in DOMAIN m |-> m[x]]
IsASeq(q) == q \in Seq({q[i] : i \in DOMAIN q})
IsEntry(e) ==
  /\ e = [map |-> e.map, id |-> e.id, old |-> e.old] /\ e.map \in Tables
  /\ e.old = <<>> \/ e.old = <<e.old[1]>>

IsUnifier(u) ==
  /\ u = [f \in DOMAIN u |-> u[f]]
  /\ Tables \cup {"trail", "depth", "level", "flex", "reduce"} \subseteq DOMAIN u
  /\ \A t \in Tables : IsTable(u[t])
  /\ IsASeq(u.trail) /\ \A i \in DOMAIN u.trail : IsEntry(u.trail[i])
  /\ u.depth \in Int

--------------------------------------------------------------------------------
(* What an identifier held at a position of the trail.                     *)
Writes(q, pos, t, x) == {k \in (pos + 1)..Len(q) : q[k].map = t /\ q[k].id = x}
FirstOf(ks) == CHOOSE k \in ks : \A j \in ks : k <= j
Before(u, pos, t, x) ==
  IF Writes(u.trail, pos, t, x) = {} THEN Held(u, t, x) ELSE u.trail[FirstOf(Writes(u.trail, pos, t, x))].old

\* The unifier with its tables as they were at a position.
Known(u, t) == DOMAIN u[t] \cup {u.trail[k].id : k \in DOMAIN u.trail}
TableAt(u, pos, t) == [x \in {y \in Known(u, t) : Before(u, pos, t, y) # <<>>} |-> Before(u, pos, t, x)[1]]
UndoneTo(u, pos) == [f \in DOMAIN u |-> IF f \in Tables THEN TableAt(u, pos, f) ELSE u[f]]

--------------------------------------------------------------------------------
(* The inductive invariant.                                                *)

\* What has happened in scope s up to w: the trail has grown, what was in the
\* tables can be read off it, a snapshot is counted, and what a branch gave is
\* on the trail.
Prefix(p, q) == Len(p) <= Len(q) /\ \A i \in 1..Len(p) : q[i] = p[i]
Counted(s) == IF s.kind = "branch" THEN 0 ELSE 1
Within(s, w) ==
  /\ Prefix(s.u.trail, w.trail)
  /\ s.kind # "branch" => \A t \in Tables : \A x : Before(w, Len(s.u.trail), t, x) = Held(s.u, t, x)
  /\ \A sk \in s.givens : Writes(w.trail, Len(s.u.trail), "skolems", sk) # {}
  /\ w.depth >= s.u.depth + Counted(s)

\* What a scope opened on s.u has started from.
Starts(s, w) ==
  /\ w.depth = s.u.depth + Counted(s)
  /\ s.kind # "probe" => w.flex = s.u.flex /\ w.reduce = s.u.reduce

IsScope(s) ==
  /\ s = [kind |-> s.kind, u |-> s.u, givens |-> s.givens]
  /\ s.kind \in {"trial", "probe", "branch"} /\ IsUnifier(s.u)
  /\ s.kind # "branch" => s.givens = {}

AfterIn(w, q, i) == IF i = Len(q) THEN w ELSE q[i + 1].u

Consistent(w, q) ==
  /\ IsUnifier(w) /\ w.depth >= 0
  /\ IsASeq(q) /\ \A i \in DOMAIN q : IsScope(q[i]) /\ q[i].u.depth >= 0
  /\ \A i \in DOMAIN q : Starts(q[i], AfterIn(w, q, i)) /\ Within(q[i], w)
  /\ \A i, j \in DOMAIN q : i < j => Within(q[i], q[j].u)

IInv == Consistent(unifier, open)

--------------------------------------------------------------------------------
(* Sequences.                                                              *)

LEMMA SeqFacts ==
  ASSUME NEW q, IsASeq(q)
  PROVE  Len(q) \in Nat /\ DOMAIN q = 1..Len(q) /\ (q = <<>> <=> Len(q) = 0)
BY DEF IsASeq

LEMMA SeqOfOwn ==
  ASSUME NEW S, NEW q \in Seq(S)
  PROVE  IsASeq(q)
<1> DEFINE T == {q[i] : i \in DOMAIN q}
<1>1. DOMAIN q = 1..Len(q) /\ Len(q) \in Nat
  OBVIOUS
<1>2. q \in [1..Len(q) -> T]
  BY <1>1
<1>3. q \in Seq(T)
  <2> HIDE DEF T
  <2> QED BY <1>1, <1>2
<1> QED BY <1>3 DEF IsASeq

LEMMA AppendFacts ==
  ASSUME NEW q, IsASeq(q), NEW x
  PROVE  /\ IsASeq(Append(q, x)) /\ Len(Append(q, x)) = Len(q) + 1 /\ Append(q, x) # <<>>
         /\ Append(q, x)[Len(q) + 1] = x /\ DOMAIN Append(q, x) = 1..(Len(q) + 1)
         /\ \A i \in 1..Len(q) : Append(q, x)[i] = q[i]
<1> DEFINE S == {q[i] : i \in DOMAIN q} \cup {x}
           r == Append(q, x)
<1>1. q \in Seq(S) /\ x \in S
  BY DEF IsASeq
<1>2. /\ r \in Seq(S) /\ Len(r) = Len(q) + 1 /\ r[Len(q) + 1] = x
      /\ \A i \in 1..Len(q) : r[i] = q[i]
  BY <1>1
<1>3. Len(r) # 0
  BY <1>1, <1>2
<1> HIDE DEF r, S
<1>4. IsASeq(r)
  BY <1>2, SeqOfOwn
<1>5. r # <<>> /\ DOMAIN r = 1..(Len(q) + 1)
  BY <1>2, <1>3
<1> QED BY <1>2, <1>4, <1>5 DEF r

LEMMA PrefixFacts ==
  ASSUME NEW q, IsASeq(q), NEW n \in 0..Len(q)
  PROVE  /\ IsASeq(SubSeq(q, 1, n)) /\ Len(SubSeq(q, 1, n)) = n /\ DOMAIN SubSeq(q, 1, n) = 1..n
         /\ \A i \in 1..n : SubSeq(q, 1, n)[i] = q[i]
<1> DEFINE S == {q[i] : i \in DOMAIN q}
           r == SubSeq(q, 1, n)
<1>1. q \in Seq(S) /\ Len(q) \in Nat
  BY DEF IsASeq
<1>2. r \in Seq(S) /\ Len(r) = n /\ \A i \in 1..n : r[i] = q[i]
  BY <1>1
<1>3. DOMAIN r = 1..n
  BY <1>2
<1> HIDE DEF r, S
<1>4. IsASeq(r)
  BY <1>2, SeqOfOwn
<1> QED BY <1>2, <1>3, <1>4 DEF r

\* Two sequences with the same elements are the same.
LEMMA SameSeq ==
  ASSUME NEW p, NEW q, IsASeq(p), IsASeq(q), Len(p) = Len(q), \A i \in 1..Len(p) : p[i] = q[i]
  PROVE  p = q
<1> DEFINE S == {p[i] : i \in DOMAIN p}
<1>1. p \in Seq(S) /\ Len(p) \in Nat /\ DOMAIN q = 1..Len(p) /\ DOMAIN p = 1..Len(p)
  BY SeqFacts DEF IsASeq
<1>2. p = [i \in 1..Len(p) |-> p[i]] /\ q = [i \in 1..Len(p) |-> q[i]]
  BY <1>1 DEF IsASeq
<1> QED BY <1>2

LEMMA LeastNumber ==
  ASSUME NEW T, T \subseteq Nat, T # {}
  PROVE  \E n \in T : \A k \in T : n <= k
<1>1. PICK n \in T : \A k \in T : ~(<<k, n>> \in OpToRel(<, Nat))
  BY ONLY NatLessThanWellFounded, WFMin, T \subseteq Nat, T # {}
<1>2. \A k \in T : ~(k < n)
  BY <1>1 DEF OpToRel
<1> QED BY <1>2

LEMMA FirstOfIs ==
  ASSUME NEW ks, ks \subseteq Nat, ks # {}
  PROVE  FirstOf(ks) \in ks /\ \A j \in ks : FirstOf(ks) <= j
BY LeastNumber DEF FirstOf

LEMMA FirstOfUnique ==
  ASSUME NEW ks, ks \subseteq Nat, NEW m \in ks, \A j \in ks : m <= j
  PROVE  FirstOf(ks) = m
<1>1. FirstOf(ks) \in ks /\ FirstOf(ks) <= m
  BY FirstOfIs
<1>2. FirstOf(ks) \in Nat /\ m \in Nat /\ m <= FirstOf(ks)
  BY <1>1
<1> HIDE DEF FirstOf
<1> QED BY <1>1, <1>2

--------------------------------------------------------------------------------
(* What an identifier held.                                                *)

LEMMA WritesFacts ==
  ASSUME NEW q, IsASeq(q), NEW pos \in 0..Len(q), NEW t, NEW x
  PROVE  /\ Writes(q, pos, t, x) \subseteq Nat
         /\ \A k : k \in Writes(q, pos, t, x) <=> k \in (pos + 1)..Len(q) /\ q[k].map = t /\ q[k].id = x
<1>1. Len(q) \in Nat
  BY SeqFacts
<1> QED BY <1>1 DEF Writes

\* Before the last entries, and before one more.
LEMMA BeforeEnd ==
  ASSUME NEW u, IsUnifier(u), NEW t, NEW x
  PROVE  Before(u, Len(u.trail), t, x) = Held(u, t, x)
<1>1. Len(u.trail) \in Nat
  BY SeqFacts DEF IsUnifier
<1> QED BY <1>1 DEF Before, Writes

LEMMA BeforeStep ==
  ASSUME NEW u, IsUnifier(u), NEW pos \in 0..Len(u.trail), pos < Len(u.trail), NEW t, NEW x
  PROVE  Before(u, pos, t, x) =
           IF u.trail[pos + 1].map = t /\ u.trail[pos + 1].id = x THEN u.trail[pos + 1].old ELSE Before(u, pos + 1, t, x)
<1> DEFINE q == u.trail
           A == Writes(q, pos, t, x)
           B == Writes(q, pos + 1, t, x)
           hit == q[pos + 1].map = t /\ q[pos + 1].id = x
<1>1. IsASeq(q) /\ Len(q) \in Nat /\ pos + 1 \in 0..Len(q)
  BY SeqFacts DEF IsUnifier
<1>2. A \subseteq Nat /\ \A k : k \in A <=> k \in (pos + 1)..Len(q) /\ q[k].map = t /\ q[k].id = x
  BY <1>1, WritesFacts
<1>3. \A k : k \in B <=> k \in (pos + 2)..Len(q) /\ q[k].map = t /\ q[k].id = x
  BY <1>1, WritesFacts
<1> HIDE DEF A, B
<1>4. CASE hit
  <2>1. pos + 1 \in A /\ \A j \in A : pos + 1 <= j
    BY <1>1, <1>2, <1>4
  <2>2. FirstOf(A) = pos + 1
    BY <1>2, <2>1, FirstOfUnique
  <2> QED BY <1>4, <2>1, <2>2 DEF Before, A
<1>5. CASE ~hit
  <2>1. \A k : k \in A <=> k \in B
    BY <1>1, <1>2, <1>3, <1>5
  <2>2. A = B
    BY <2>1
  <2> QED BY <1>5, <2>2 DEF Before, A, B
<1> QED BY <1>4, <1>5

LEMMA BeforeShape ==
  ASSUME NEW u, IsUnifier(u), NEW pos \in 0..Len(u.trail), NEW t, NEW x
  PROVE  /\ Before(u, pos, t, x) = <<>> \/ Before(u, pos, t, x) = <<Before(u, pos, t, x)[1]>>
         /\ Before(u, pos, t, x) # <<>> => x \in Known(u, t)
<1> DEFINE q == u.trail
           A == Writes(q, pos, t, x)
<1>1. IsASeq(q) /\ Len(q) \in Nat /\ DOMAIN q = 1..Len(q)
  BY SeqFacts DEF IsUnifier
<1>2. A \subseteq Nat /\ \A k \in A : k \in DOMAIN q /\ q[k].id = x
  BY <1>1, WritesFacts
<1>3. CASE A = {}
  BY <1>3 DEF Before, Held, Known
<1>4. CASE A # {}
  <2>1. PICK k : k = FirstOf(A) /\ k \in A
    BY <1>2, <1>4, FirstOfIs
  <2>2. Before(u, pos, t, x) = q[k].old
    BY <1>4, <2>1 DEF Before
  <2>3. IsEntry(q[k]) /\ x \in Known(u, t)
    BY <1>2, <2>1 DEF IsUnifier, Known
  <2> QED BY <2>2, <2>3 DEF IsEntry
<1> QED BY <1>3, <1>4

--------------------------------------------------------------------------------
(* The loop of Restore.                                                    *)

LEMMA TablesAt ==
  ASSUME NEW u, IsUnifier(u), NEW pos \in 0..Len(u.trail), NEW t \in Tables
  PROVE  /\ UndoneTo(u, pos)[t] = TableAt(u, pos, t)
         /\ \A x : x \in DOMAIN TableAt(u, pos, t) <=> Before(u, pos, t, x) # <<>>
         /\ \A x \in DOMAIN TableAt(u, pos, t) : TableAt(u, pos, t)[x] = Before(u, pos, t, x)[1]
<1>1. t \in DOMAIN u
  BY DEF IsUnifier
<1>2. \A x : Before(u, pos, t, x) # <<>> => x \in Known(u, t)
  BY BeforeShape
<1> HIDE DEF Before, Known
<1> QED BY <1>1, <1>2 DEF UndoneTo, TableAt

\* A table that holds what was held before a position.
LEMMA TableIs ==
  ASSUME NEW u, IsUnifier(u), NEW pos \in 0..Len(u.trail), NEW t \in Tables,
         NEW m, IsTable(m),
         \A x : Before(u, pos, t, x) = IF x \in DOMAIN m THEN <<m[x]>> ELSE <<>>
  PROVE  TableAt(u, pos, t) = m
<1> DEFINE T == TableAt(u, pos, t)
<1>1. \A x : x \in DOMAIN T <=> x \in DOMAIN m
  BY TablesAt
<1>2. \A x \in DOMAIN T : T[x] = m[x]
  BY <1>1, TablesAt
<1>3. T = [x \in DOMAIN T |-> T[x]]
  BY DEF TableAt
<1> HIDE DEF T
<1>4. DOMAIN T = DOMAIN m
  BY <1>1
<1>5. T = [x \in DOMAIN m |-> m[x]]
  BY <1>2, <1>3, <1>4
<1> QED BY <1>5 DEF T, IsTable

LEMMA NothingUndone ==
  ASSUME NEW u, IsUnifier(u)
  PROVE  UndoneTo(u, Len(u.trail)) = u
<1> DEFINE n == Len(u.trail)
<1>1. n \in 0..n
  BY SeqFacts DEF IsUnifier
<1>2. ASSUME NEW t \in Tables PROVE TableAt(u, n, t) = u[t]
  <2>1. IsTable(u[t])
    BY DEF IsUnifier
  <2>2. \A x : Before(u, n, t, x) = IF x \in DOMAIN u[t] THEN <<u[t][x]>> ELSE <<>>
    BY BeforeEnd DEF Held
  <2> QED BY <1>1, <2>1, <2>2, TableIs
<1>3. \A f \in DOMAIN u : (IF f \in Tables THEN TableAt(u, n, f) ELSE u[f]) = u[f]
  BY <1>2
<1>4. UndoneTo(u, n) = [f \in DOMAIN u |-> u[f]]
  BY <1>3 DEF UndoneTo
<1> QED BY <1>4 DEF IsUnifier

LEMMA UndoStep ==
  ASSUME NEW u, IsUnifier(u), NEW pos \in 0..Len(u.trail), pos < Len(u.trail)
  PROVE  Undo(UndoneTo(u, pos + 1), u.trail[pos + 1]) = UndoneTo(u, pos)
<1> DEFINE e == u.trail[pos + 1]
           a == UndoneTo(u, pos + 1)
           b == UndoneTo(u, pos)
           r == Undo(a, e)
           T == a[e.map]
<1>1. /\ Len(u.trail) \in Nat /\ pos + 1 \in DOMAIN u.trail /\ pos + 1 \in 0..Len(u.trail)
      /\ IsEntry(e) /\ e.map \in Tables /\ e.map \in DOMAIN u
  BY SeqFacts DEF IsUnifier, IsEntry
<1>2. \A t : \A x : Before(u, pos, t, x) = IF e.map = t /\ e.id = x THEN e.old ELSE Before(u, pos + 1, t, x)
  BY BeforeStep
<1>3. \A t \in Tables : /\ a[t] = TableAt(u, pos + 1, t)
                        /\ \A x : x \in DOMAIN a[t] <=> Before(u, pos + 1, t, x) # <<>>
                        /\ \A x \in DOMAIN a[t] : a[t][x] = Before(u, pos + 1, t, x)[1]
  BY <1>1, TablesAt
<1>4. \A t, x : Before(u, pos + 1, t, x) = <<>> \/ Before(u, pos + 1, t, x) = <<Before(u, pos + 1, t, x)[1]>>
  BY <1>1, BeforeShape
<1>5. a = [f \in DOMAIN u |-> a[f]] /\ DOMAIN a = DOMAIN u /\ \A f \in DOMAIN u \ Tables : a[f] = u[f]
  BY DEF UndoneTo
<1>6. b = [f \in DOMAIN u |-> b[f]] /\ DOMAIN b = DOMAIN u /\ \A f \in DOMAIN u \ Tables : b[f] = u[f]
  BY DEF UndoneTo
<1>7. \A t \in Tables : b[t] = TableAt(u, pos, t)
  BY TablesAt
<1>8. \E m : r = [a EXCEPT ![e.map] = m] /\ IsTable(m)
            /\ \A x : Before(u, pos, e.map, x) = IF x \in DOMAIN m THEN <<m[x]>> ELSE <<>>
  <2>1. CASE e.old = <<>>
    <3> DEFINE m == Removed(T, {e.id})
    <3>1. r = [a EXCEPT ![e.map] = m]
      BY <2>1 DEF Undo
    <3>2. IsTable(m) /\ \A x : x \in DOMAIN m <=> x \in DOMAIN T /\ x # e.id
      BY DEF IsTable, Removed
    <3>3. \A x \in DOMAIN m : m[x] = T[x]
      BY DEF Removed
    <3>4. ASSUME NEW x PROVE Before(u, pos, e.map, x) = IF x \in DOMAIN m THEN <<m[x]>> ELSE <<>>
      <4> HIDE DEF m
      <4> QED BY <1>1, <1>2, <1>3, <1>4, <2>1, <3>2, <3>3
    <3> QED BY <3>1, <3>2, <3>4
  <2>2. CASE e.old # <<>>
    <3> DEFINE m == [x \in DOMAIN T \cup {e.id} |-> IF x = e.id THEN e.old[1] ELSE T[x]]
    <3>1. r = [a EXCEPT ![e.map] = m]
      BY <2>2 DEF Undo, Put
    <3>2. IsTable(m) /\ DOMAIN m = DOMAIN T \cup {e.id}
      BY DEF IsTable
    <3>3. \A x \in DOMAIN m : m[x] = IF x = e.id THEN e.old[1] ELSE T[x]
      OBVIOUS
    <3>4. ASSUME NEW x PROVE Before(u, pos, e.map, x) = IF x \in DOMAIN m THEN <<m[x]>> ELSE <<>>
      <4>1. e.old = <<e.old[1]>>
        BY <1>1, <2>2 DEF IsEntry
      <4> HIDE DEF m
      <4> QED BY <1>1, <1>2, <1>3, <1>4, <4>1, <3>2, <3>3
    <3> QED BY <3>1, <3>2, <3>4
  <2> QED BY <2>1, <2>2
<1>9. PICK m : r = [a EXCEPT ![e.map] = m] /\ IsTable(m)
            /\ \A x : Before(u, pos, e.map, x) = IF x \in DOMAIN m THEN <<m[x]>> ELSE <<>>
  BY <1>8
<1>10. m = b[e.map]
  BY <1>1, <1>7, <1>9, TableIs
<1>11. ASSUME NEW t \in Tables, t # e.map PROVE a[t] = b[t]
  <2>1. \A x : Before(u, pos, t, x) = Before(u, pos + 1, t, x)
    BY <1>2, <1>11
  <2>2. IsTable(a[t])
    BY <1>3 DEF TableAt, IsTable
  <2>3. \A x : Before(u, pos, t, x) = IF x \in DOMAIN a[t] THEN <<a[t][x]>> ELSE <<>>
    BY <1>3, <1>4, <2>1
  <2> QED BY <1>7, <2>2, <2>3, TableIs
<1>12. \A f \in DOMAIN u : r[f] = b[f]
  BY <1>1, <1>5, <1>6, <1>9, <1>10, <1>11, ZenonT(60)
<1>13. r = [f \in DOMAIN u |-> r[f]]
  BY <1>5, <1>9
<1> HIDE DEF r, b
<1>14. r = b
  BY <1>6, <1>12, <1>13
<1> QED BY <1>14 DEF r, b

LEMMA RestoreIs ==
  ASSUME NEW u, IsUnifier(u), NEW pos \in 0..Len(u.trail)
  PROVE  Restore(u, pos) = Cut(UndoneTo(u, pos), pos)
<1> DEFINE N == Len(u.trail)
           Body(g) == [k \in pos..N |-> IF k = N THEN u ELSE Undo(g[k + 1], u.trail[k + 1])]
           G == [k \in pos..N |-> UndoneTo(u, k)]
           back == CHOOSE g : g = Body(g)
<1>1. N \in Nat /\ pos \in Nat /\ pos <= N
  BY SeqFacts DEF IsUnifier
<1>2. G = Body(G)
  <2>1. ASSUME NEW k \in pos..N, k # N PROVE UndoneTo(u, k) = Undo(G[k + 1], u.trail[k + 1])
    <3>1. k \in 0..N /\ k < N /\ k + 1 \in pos..N
      BY <1>1, <2>1
    <3>2. G[k + 1] = UndoneTo(u, k + 1)
      BY <3>1
    <3> QED BY <3>1, <3>2, UndoStep
  <2>2. UndoneTo(u, N) = u
    BY NothingUndone
  <2>3. \A k \in pos..N : UndoneTo(u, k) = IF k = N THEN u ELSE Undo(G[k + 1], u.trail[k + 1])
    BY <2>1, <2>2
  <2> HIDE DEF N
  <2> QED BY <2>3
<1>3. back = Body(back)
  <2> HIDE DEF Body, G
  <2> QED BY <1>2
<1>4. Restore(u, pos) = Cut(back[pos], pos)
  BY DEF Restore
<1> HIDE DEF back, N, G
<1>5. back[N] = u
  BY <1>1, <1>3
<1>6. \A k \in pos..N : k # N => back[k] = Undo(back[k + 1], u.trail[k + 1])
  BY <1>1, <1>3
<1> DEFINE Wrong == {m \in Nat : N - m \in pos..N /\ back[N - m] # UndoneTo(u, N - m)}
<1>7. Wrong = {}
  <2>1. SUFFICES ASSUME Wrong # {} PROVE FALSE
    OBVIOUS
  <2>2. PICK m \in Wrong : \A j \in Wrong : m <= j
    BY <2>1, LeastNumber
  <2>3. m # 0
    BY <1>1, <1>5, <2>2, NothingUndone DEF N
  <2>4. /\ m \in Nat /\ m - 1 \in Nat /\ N - m \in pos..N /\ N - m # N /\ N - (m - 1) = (N - m) + 1
        /\ N - (m - 1) \in pos..N /\ N - m \in 0..N /\ N - m < N /\ ~(m <= m - 1)
    BY <1>1, <2>2, <2>3
  <2>5. back[(N - m) + 1] = UndoneTo(u, (N - m) + 1)
    BY <2>2, <2>4
  <2>6. back[N - m] = UndoneTo(u, N - m)
    BY <1>6, <2>4, <2>5, UndoStep DEF N
  <2> QED BY <2>2, <2>6
<1>8. back[pos] = UndoneTo(u, pos)
  <2>1. N - pos \in Nat /\ N - (N - pos) = pos /\ pos \in pos..N
    BY <1>1
  <2> QED BY <1>7, <2>1
<1> QED BY <1>4, <1>8

\* u can be rolled back to v.
Recovers(u, v) ==
  Prefix(v.trail, u.trail) /\ \A t \in Tables : \A x : Before(u, Len(v.trail), t, x) = Held(v, t, x)

LEMMA RestoreExact ==
  ASSUME NEW u, NEW v, IsUnifier(u), IsUnifier(v), Recovers(u, v), NEW r, r = Restore(u, Len(v.trail))
  PROVE  /\ IsUnifier(r) /\ Contents(r) = Contents(v)
         /\ r.depth = u.depth - 1 /\ r.level = u.level /\ r.flex = u.flex /\ r.reduce = u.reduce
<1> DEFINE n == Len(v.trail)
           a == UndoneTo(u, n)
<1>1. /\ n \in 0..Len(u.trail) /\ IsASeq(u.trail) /\ IsASeq(v.trail) /\ u.depth \in Int
      /\ \A i \in 1..n : u.trail[i] = v.trail[i]
  BY SeqFacts DEF IsUnifier, Recovers, Prefix
<1>2. \A t \in Tables : a[t] = v[t]
  <2>1. ASSUME NEW t \in Tables PROVE TableAt(u, n, t) = v[t]
    <3>1. IsTable(v[t])
      BY DEF IsUnifier
    <3>2. \A x : Before(u, n, t, x) = IF x \in DOMAIN v[t] THEN <<v[t][x]>> ELSE <<>>
      BY DEF Recovers, Held
    <3> QED BY <1>1, <3>1, <3>2, TableIs
  <2> QED BY <1>1, <2>1, TablesAt
<1>3. a = [f \in DOMAIN u |-> a[f]] /\ DOMAIN a = DOMAIN u /\ \A f \in DOMAIN u \ Tables : a[f] = u[f]
  BY DEF UndoneTo
<1>4. SubSeq(u.trail, 1, n) = v.trail
  <2>1. PICK q, m, c : q = u.trail /\ m = n /\ c = SubSeq(q, 1, m)
    OBVIOUS
  <2>2. IsASeq(q) /\ m \in 0..Len(q)
    BY <1>1, <2>1
  <2>3. IsASeq(c) /\ Len(c) = m /\ \A i \in 1..m : c[i] = q[i]
    BY <2>1, <2>2, PrefixFacts
  <2>4. c = v.trail
    BY <1>1, <2>1, <2>3, SameSeq, ZenonT(60)
  <2> QED BY <2>1, <2>4
<1>5. {"trail", "depth", "level", "flex", "reduce"} \subseteq DOMAIN u \ Tables /\ Tables \subseteq DOMAIN u
  BY DEF IsUnifier, Tables
<1>6. r = Cut(a, n)
  BY <1>1, RestoreIs
<1> HIDE DEF a, n
<1>7. /\ DOMAIN r = DOMAIN u /\ r = [f \in DOMAIN u |-> r[f]]
      /\ r.trail = v.trail /\ r.depth = u.depth - 1
      /\ \A f \in DOMAIN u \ {"trail", "depth"} : r[f] = a[f]
  BY <1>3, <1>4, <1>5, <1>6 DEF Cut
<1>8. \A t \in Tables : r[t] = v[t]
  BY <1>2, <1>5, <1>7
<1>9. r.level = u.level /\ r.flex = u.flex /\ r.reduce = u.reduce
  BY <1>3, <1>5, <1>7
<1>10. IsUnifier(r)
  BY <1>1, <1>5, <1>7, <1>8, SMTT(40) DEF IsUnifier
<1> QED BY <1>7, <1>8, <1>9, <1>10 DEF Contents, Tables

--------------------------------------------------------------------------------
(* What may happen inside a scope.                                         *)

\* Other settings, the same tables and trail.
LEMMA SameTables ==
  ASSUME NEW u, IsUnifier(u), NEW r, r = [f \in DOMAIN u |-> r[f]],
         \A f \in Tables \cup {"trail"} : r[f] = u[f], r.depth \in Int
  PROVE  /\ IsUnifier(r) /\ Contents(r) = Contents(u)
         /\ \A t \in Tables : \A x : \A pos : Before(r, pos, t, x) = Before(u, pos, t, x)
<1>1. r.trail = u.trail /\ \A t \in Tables : r[t] = u[t]
  OBVIOUS
<1>2. IsUnifier(r)
  BY <1>1 DEF IsUnifier
<1>3. Contents(r) = Contents(u)
  BY <1>1 DEF Contents, Tables
<1>4. \A t \in Tables : \A x : \A pos : Before(r, pos, t, x) = Before(u, pos, t, x)
  BY <1>1 DEF Before, Held
<1> QED BY <1>2, <1>3, <1>4

LEMMA WithinSame ==
  ASSUME NEW s, IsScope(s), NEW w, IsUnifier(w), Within(s, w), NEW r, IsUnifier(r),
         Contents(r) = Contents(w), r.depth >= s.u.depth + Counted(s)
  PROVE  Within(s, r)
<1>1. r.trail = w.trail /\ \A t \in Tables : r[t] = w[t]
  BY DEF Contents, Tables
<1>2. \A t \in Tables : \A x : Before(r, Len(s.u.trail), t, x) = Before(w, Len(s.u.trail), t, x)
  BY <1>1 DEF Before, Held
<1> QED BY <1>1, <1>2 DEF Within

\* A write records what it replaces.
Written(w, r, t, x) ==
  /\ IsUnifier(r) /\ DOMAIN r = DOMAIN w /\ \A f \in DOMAIN w \ (Tables \cup {"trail"}) : r[f] = w[f]
  /\ Len(r.trail) = Len(w.trail) + 1 /\ \A i \in 1..Len(w.trail) : r.trail[i] = w.trail[i]
  /\ r.trail[Len(w.trail) + 1].map = t /\ r.trail[Len(w.trail) + 1].id = x
  /\ r.trail[Len(w.trail) + 1].old = Held(w, t, x)
  /\ \A tt, xx : ~(tt = t /\ xx = x) /\ tt \in Tables => Held(r, tt, xx) = Held(w, tt, xx)

LEMMA PutIs ==
  ASSUME NEW w, IsUnifier(w), NEW t \in Tables, NEW x, NEW v, NEW r, r = Put(w, t, x, v)
  PROVE  /\ IsUnifier(r) /\ DOMAIN r = DOMAIN w /\ \A f \in DOMAIN w \ {t} : r[f] = w[f]
         /\ \A tt, xx : ~(tt = t /\ xx = x) /\ tt \in Tables => Held(r, tt, xx) = Held(w, tt, xx)
<1> DEFINE m == [y \in DOMAIN w[t] \cup {x} |-> IF y = x THEN v ELSE w[t][y]]
<1>1. r = [w EXCEPT ![t] = m] /\ t \in DOMAIN w /\ w = [f \in DOMAIN w |-> w[f]]
  BY DEF Put, IsUnifier
<1>2. DOMAIN m = DOMAIN w[t] \cup {x} /\ (\A y \in DOMAIN m : y # x => m[y] = w[t][y]) /\ IsTable(m)
  BY DEF IsTable
<1> HIDE DEF m
<1>3. DOMAIN r = DOMAIN w /\ r = [f \in DOMAIN w |-> r[f]] /\ r[t] = m /\ \A f \in DOMAIN w \ {t} : r[f] = w[f]
  BY <1>1
<1>4. {"trail", "depth"} \cap Tables = {} /\ "trail" \in DOMAIN w /\ "depth" \in DOMAIN w /\ Tables \subseteq DOMAIN w
  BY DEF Tables, IsUnifier
<1>5. r.trail = w.trail /\ r.depth = w.depth
  BY <1>3, <1>4
<1>6. IsUnifier(r)
  BY <1>2, <1>3, <1>4, <1>5 DEF IsUnifier
<1>7. ASSUME NEW tt \in Tables, NEW xx, ~(tt = t /\ xx = x) PROVE Held(r, tt, xx) = Held(w, tt, xx)
  <2>1. CASE tt = t
    BY <1>2, <1>3, <1>7, <2>1 DEF Held
  <2>2. CASE tt # t
    BY <1>3, <1>4, <2>2 DEF Held
  <2> QED BY <2>1, <2>2
<1> QED BY <1>3, <1>6, <1>7

LEMMA WriteIs ==
  ASSUME NEW w, IsUnifier(w), NEW t \in Tables, NEW x, NEW v
  PROVE  Written(w, Write(w, t, x, v), t, x)
<1>1. PICK e : e = [map |-> t, id |-> x, old |-> Held(w, t, x)]
  OBVIOUS
<1>2. PICK q : q = Append(w.trail, e)
  OBVIOUS
<1>3. IsEntry(e)
  BY <1>1 DEF IsEntry, Held
<1>4. IsASeq(w.trail) /\ Len(w.trail) \in Nat /\ DOMAIN w.trail = 1..Len(w.trail) /\ \A i \in DOMAIN w.trail : IsEntry(w.trail[i])
  BY SeqFacts DEF IsUnifier
<1>5. /\ IsASeq(q) /\ Len(q) = Len(w.trail) + 1 /\ DOMAIN q = 1..(Len(w.trail) + 1)
      /\ q[Len(w.trail) + 1] = e /\ \A i \in 1..Len(w.trail) : q[i] = w.trail[i]
  BY <1>2, <1>4, AppendFacts
<1>6. \A i \in DOMAIN q : IsEntry(q[i])
  <2>1. ASSUME NEW i \in DOMAIN q PROVE IsEntry(q[i])
    <3>1. i = Len(w.trail) + 1 \/ i \in 1..Len(w.trail)
      BY <1>4, <1>5
    <3> QED BY <1>3, <1>4, <1>5, <3>1
  <2> QED BY <2>1
<1>7. PICK a : a = Trailed(w, t, x)
  OBVIOUS
<1>8. a = [w EXCEPT !.trail = q]
  BY <1>1, <1>2, <1>7 DEF Trailed
<1>9. "trail" \in DOMAIN w /\ "trail" \notin Tables /\ Tables \subseteq DOMAIN w /\ "depth" \in DOMAIN w /\ w = [f \in DOMAIN w |-> w[f]]
  BY DEF IsUnifier, Tables
<1>10. DOMAIN a = DOMAIN w /\ a = [f \in DOMAIN w |-> a[f]] /\ a.trail = q /\ \A f \in DOMAIN w \ {"trail"} : a[f] = w[f]
  BY <1>8, <1>9
<1>11. IsUnifier(a)
  BY <1>5, <1>6, <1>9, <1>10 DEF IsUnifier
<1>12. PICK r : r = Put(a, t, x, v)
  OBVIOUS
<1>13. /\ IsUnifier(r) /\ DOMAIN r = DOMAIN a /\ \A f \in DOMAIN a \ {t} : r[f] = a[f]
       /\ \A tt, xx : ~(tt = t /\ xx = x) /\ tt \in Tables => Held(r, tt, xx) = Held(a, tt, xx)
  BY <1>11, <1>12, PutIs
<1>14. \A tt \in Tables : \A xx : Held(a, tt, xx) = Held(w, tt, xx)
  BY <1>9, <1>10 DEF Held
<1>15. r = Write(w, t, x, v)
  BY <1>7, <1>12 DEF Write
<1>16. r.trail = q
  BY <1>9, <1>10, <1>13
<1>17. \A f \in DOMAIN w \ (Tables \cup {"trail"}) : r[f] = w[f]
  BY <1>10, <1>13
<1>18. Written(w, r, t, x)
  BY <1>1, <1>5, <1>10, <1>13, <1>14, <1>16, <1>17 DEF Written
<1> QED BY <1>15, <1>18

LEMMA BeforeWritten ==
  ASSUME NEW w, IsUnifier(w), NEW r, NEW t, NEW x, Written(w, r, t, x), NEW pos \in 0..Len(w.trail),
         NEW tt \in Tables, NEW xx
  PROVE  /\ Before(r, pos, tt, xx) = Before(w, pos, tt, xx)
         /\ Writes(w.trail, pos, tt, xx) \subseteq Writes(r.trail, pos, tt, xx)
<1>1. PICK q, p, n : q = r.trail /\ p = w.trail /\ n = Len(p)
  OBVIOUS
<1>2. PICK A, B : A = Writes(p, pos, tt, xx) /\ B = Writes(q, pos, tt, xx)
  OBVIOUS
<1>3. /\ IsASeq(q) /\ IsASeq(p) /\ n \in Nat /\ pos \in 0..n /\ pos \in 0..Len(q) /\ Len(q) = n + 1
      /\ (\A i \in 1..n : q[i] = p[i]) /\ q[n + 1].map = t /\ q[n + 1].id = x /\ q[n + 1].old = Held(w, t, x)
  BY <1>1, SeqFacts DEF Written, IsUnifier
<1>4. A \subseteq Nat /\ \A k : k \in A <=> k \in (pos + 1)..n /\ p[k].map = tt /\ p[k].id = xx
  BY <1>1, <1>2, <1>3, WritesFacts
<1>5. B \subseteq Nat /\ \A k : k \in B <=> k \in (pos + 1)..(n + 1) /\ q[k].map = tt /\ q[k].id = xx
  BY <1>2, <1>3, WritesFacts
<1>6. A \subseteq B /\ B \subseteq A \cup {n + 1} /\ n + 1 \notin A /\ (n + 1 \in B <=> tt = t /\ xx = x)
  BY <1>3, <1>4, <1>5
<1>7. CASE A # {}
  <2>1. PICK k : k = FirstOf(A)
    OBVIOUS
  <2>2. k \in A /\ \A j \in A : k <= j
    BY <1>4, <1>7, <2>1, FirstOfIs
  <2>3. k \in 1..n /\ k <= n + 1
    BY <1>3, <1>4, <2>2
  <2>4. k \in B /\ \A j \in B : k <= j
    BY <1>6, <2>2, <2>3
  <2>5. FirstOf(B) = k
    BY <1>5, <2>4, FirstOfUnique
  <2>6. q[k].old = p[k].old
    BY <1>3, <2>3
  <2> QED BY <1>1, <1>2, <1>6, <1>7, <2>1, <2>4, <2>5, <2>6 DEF Before
<1>8. CASE A = {} /\ tt = t /\ xx = x
  <2>1. B = {n + 1}
    BY <1>6, <1>8
  <2>2. n + 1 \in B /\ \A j \in B : n + 1 <= j
    BY <1>3, <2>1
  <2>3. FirstOf(B) = n + 1
    BY <1>5, <2>2, FirstOfUnique
  <2> QED BY <1>1, <1>2, <1>3, <1>6, <1>8, <2>1, <2>3 DEF Before
<1>9. CASE A = {} /\ ~(tt = t /\ xx = x)
  <2>1. B = {}
    BY <1>6, <1>9
  <2>2. Held(r, tt, xx) = Held(w, tt, xx)
    BY <1>9 DEF Written
  <2> QED BY <1>1, <1>2, <1>6, <1>9, <2>1, <2>2 DEF Before
<1> QED BY <1>7, <1>8, <1>9

LEMMA WithinWrite ==
  ASSUME NEW s, IsScope(s), NEW w, IsUnifier(w), Within(s, w), NEW r, NEW t, NEW x, Written(w, r, t, x)
  PROVE  Within(s, r)
<1> DEFINE pos == Len(s.u.trail)
<1>1. /\ pos \in Nat /\ Len(w.trail) \in Nat /\ pos \in 0..Len(w.trail) /\ Len(r.trail) = Len(w.trail) + 1
      /\ \A i \in 1..Len(w.trail) : r.trail[i] = w.trail[i]
  BY SeqFacts DEF IsScope, IsUnifier, Within, Prefix, Written
<1>2. Prefix(s.u.trail, r.trail)
  BY <1>1, SMTT(40) DEF Within, Prefix
<1>3. r.depth = w.depth
  BY DEF Written, IsUnifier, Tables
<1> HIDE DEF pos
<1>4. \A tt \in Tables : \A xx : /\ Before(r, pos, tt, xx) = Before(w, pos, tt, xx)
                                 /\ Writes(w.trail, pos, tt, xx) \subseteq Writes(r.trail, pos, tt, xx)
  BY <1>1, BeforeWritten
<1>5. "skolems" \in Tables
  BY DEF Tables
<1>6. s.kind # "branch" => \A tt \in Tables : \A xx : Before(r, pos, tt, xx) = Held(s.u, tt, xx)
  BY <1>4 DEF Within, pos
<1>7. \A sk \in s.givens : Writes(r.trail, pos, "skolems", sk) # {}
  <2>1. SUFFICES ASSUME NEW sk \in s.givens PROVE Writes(r.trail, pos, "skolems", sk) # {}
    OBVIOUS
  <2>2. Writes(w.trail, pos, "skolems", sk) # {}
    BY DEF Within, pos
  <2> HIDE DEF Writes
  <2> QED BY <1>4, <1>5, <2>2
<1>8. r.depth >= s.u.depth + Counted(s)
  BY <1>3 DEF Within
<1> QED BY <1>2, <1>6, <1>7, <1>8 DEF Within, pos

\* A chain shortened without a trace, while no snapshot is open.
LEMMA WithinPut ==
  ASSUME NEW s, IsScope(s), s.u.depth >= 0, NEW w, IsUnifier(w), Within(s, w), w.depth = 0,
         NEW t \in {"soln", "levels"}, NEW x, NEW v, NEW r, r = Put(w, t, x, v)
  PROVE  Within(s, r)
<1>1. /\ IsUnifier(r) /\ \A f \in DOMAIN w \ {t} : r[f] = w[f]
  BY PutIs DEF Tables
<1>2. r.trail = w.trail /\ r.depth = w.depth
  BY <1>1 DEF IsUnifier, Tables
<1>3. s.kind = "branch"
  BY DEF Within, Counted, IsScope, IsUnifier
<1> QED BY <1>2, <1>3 DEF Within

\* The branch b, opened after s, removes what it has given.
LEMMA WithinRemove ==
  ASSUME NEW s, IsScope(s), NEW b, IsScope(b), NEW w, IsUnifier(w), Within(s, w), Within(b, w), Within(s, b.u),
         NEW r, r = RemoveGivenEqs(w, b.givens)
  PROVE  /\ IsUnifier(r) /\ DOMAIN r = DOMAIN w /\ \A f \in DOMAIN w \ {"skolems"} : r[f] = w[f]
         /\ Within(s, r)
<1> DEFINE m == Removed(w.skolems, b.givens)
           pos == Len(s.u.trail)
<1>1. r = [w EXCEPT !.skolems = m] /\ w = [f \in DOMAIN w |-> w[f]] /\ {"skolems", "trail", "depth"} \cup Tables \subseteq DOMAIN w
  BY DEF RemoveGivenEqs, IsUnifier, Tables
<1>2. /\ IsTable(m) /\ \A x : x \notin b.givens => (x \in DOMAIN m <=> x \in DOMAIN w.skolems)
      /\ \A x \in DOMAIN m : m[x] = w.skolems[x]
  BY DEF Removed, IsTable
<1> HIDE DEF m
<1>3. DOMAIN r = DOMAIN w /\ r = [f \in DOMAIN w |-> r[f]] /\ r.skolems = m /\ \A f \in DOMAIN w \ {"skolems"} : r[f] = w[f]
  BY <1>1
<1>4. r.trail = w.trail /\ r.depth = w.depth /\ \A t \in Tables : t # "skolems" => r[t] = w[t]
  BY <1>1, <1>3
<1>5. IsUnifier(r)
  BY <1>1, <1>2, <1>3, <1>4 DEF IsUnifier
<1>6. \A t \in Tables : \A x : ~(t = "skolems" /\ x \in b.givens) => Held(r, t, x) = Held(w, t, x)
  <2>1. SUFFICES ASSUME NEW t \in Tables, NEW x, ~(t = "skolems" /\ x \in b.givens) PROVE Held(r, t, x) = Held(w, t, x)
    OBVIOUS
  <2>2. CASE t = "skolems"
    BY <1>2, <1>3, <2>1, <2>2 DEF Held
  <2>3. CASE t # "skolems"
    BY <1>4, <2>3 DEF Held
  <2> QED BY <2>2, <2>3
<1>7. /\ pos \in Nat /\ Len(b.u.trail) \in Nat /\ pos <= Len(b.u.trail)
  BY SeqFacts DEF Within, Prefix, IsScope, IsUnifier
<1>8. \A x \in b.givens : Writes(w.trail, pos, "skolems", x) # {}
  <2>1. SUFFICES ASSUME NEW x \in b.givens PROVE Writes(w.trail, pos, "skolems", x) # {}
    OBVIOUS
  <2>2. PICK k : k \in Writes(w.trail, Len(b.u.trail), "skolems", x)
    BY DEF Within
  <2>3. Len(w.trail) \in Nat
    BY SeqFacts DEF IsUnifier
  <2>4. k \in Writes(w.trail, pos, "skolems", x)
    BY <1>7, <2>2, <2>3 DEF Writes
  <2> QED BY <2>4
<1> HIDE DEF pos
<1>9. ASSUME NEW t \in Tables, NEW x PROVE Before(r, pos, t, x) = Before(w, pos, t, x)
  <2>1. CASE t = "skolems" /\ x \in b.givens
    BY <1>4, <1>8, <2>1 DEF Before
  <2>2. CASE ~(t = "skolems" /\ x \in b.givens)
    <3>1. Held(r, t, x) = Held(w, t, x)
      BY <1>6, <2>2
    <3> QED BY <1>4, <3>1 DEF Before
  <2> QED BY <2>1, <2>2
<1>10. Within(s, r)
  BY <1>4, <1>9 DEF Within, pos
<1> QED BY <1>3, <1>5, <1>10

--------------------------------------------------------------------------------
(* Scopes open and close.                                                  *)

\* Nothing opens or closes.
LEMMA ConsistentInside ==
  ASSUME NEW w, NEW q, Consistent(w, q), NEW r, IsUnifier(r), r.depth = w.depth, r.flex = w.flex, r.reduce = w.reduce,
         \A i \in DOMAIN q : Within(q[i], r)
  PROVE  Consistent(r, q)
<1>1. ASSUME NEW i \in DOMAIN q PROVE Starts(q[i], AfterIn(r, q, i))
  <2>1. Starts(q[i], AfterIn(w, q, i))
    BY DEF Consistent
  <2> QED BY <2>1 DEF Starts, AfterIn
<1> QED BY <1>1 DEF Consistent

\* A trial, a probe or a branch begins.
LEMMA ConsistentOpened ==
  ASSUME NEW w, NEW q, Consistent(w, q), NEW kind \in {"trial", "probe", "branch"},
         NEW s, s = [kind |-> kind, u |-> w, givens |-> {}], NEW r, IsUnifier(r), Contents(r) = Contents(w), Starts(s, r)
  PROVE  Consistent(r, Append(q, s))
<1>1. PICK p, n : p = Append(q, s) /\ n = Len(q)
  OBVIOUS
<1>2. /\ IsASeq(q) /\ n \in Nat /\ DOMAIN q = 1..n /\ IsUnifier(w) /\ w.depth >= 0 /\ w.depth \in Int /\ r.depth \in Int
      /\ \A i \in 1..n : IsScope(q[i]) /\ q[i].u.depth >= 0
  BY <1>1, SeqFacts DEF Consistent, IsUnifier
<1>3. IsASeq(p) /\ Len(p) = n + 1 /\ DOMAIN p = 1..(n + 1) /\ p[n + 1] = s /\ \A i \in 1..n : p[i] = q[i]
  BY <1>1, <1>2, AppendFacts
<1>4. s.kind = kind /\ s.u = w /\ s.givens = {} /\ IsScope(s)
  BY <1>2 DEF IsScope
<1>5. r.depth >= w.depth /\ r.depth = w.depth + Counted(s) /\ Counted(s) \in Nat
  BY <1>2, <1>4 DEF Starts, Counted
<1>6. r.trail = w.trail /\ \A t \in Tables : r[t] = w[t]
  BY DEF Contents, Tables
<1>7. Within(s, r)
  <2>1. Prefix(w.trail, r.trail)
    BY <1>6, SeqFacts, <1>2 DEF Prefix, IsUnifier
  <2>2. \A t \in Tables : \A x : Before(r, Len(w.trail), t, x) = Held(w, t, x)
    BY <1>6, BeforeEnd DEF Held
  <2> QED BY <1>2, <1>4, <1>5, <2>1, <2>2 DEF Within
<1>8. \A i \in 1..n : Within(q[i], w) /\ Within(q[i], r)
  <2>1. SUFFICES ASSUME NEW i \in 1..n PROVE Within(q[i], w) /\ Within(q[i], r)
    OBVIOUS
  <2>2. Within(q[i], w) /\ IsScope(q[i])
    BY <1>2 DEF Consistent
  <2>3. r.depth >= q[i].u.depth + Counted(q[i])
    BY <1>2, <1>5, <2>2 DEF Within, Counted, IsScope, IsUnifier
  <2> QED BY <1>2, <2>2, <2>3, WithinSame
<1>9. ASSUME NEW i \in 1..n PROVE Starts(p[i], AfterIn(r, p, i))
  <2>1. Starts(q[i], AfterIn(w, q, i))
    BY <1>2 DEF Consistent
  <2>2. p[i + 1].u = AfterIn(w, q, i) /\ i # n + 1
    <3>1. CASE i = n
      BY <1>1, <1>2, <1>3, <1>4, <3>1 DEF AfterIn
    <3>2. CASE i # n
      <4>1. i + 1 \in 1..n
        BY <1>2, <3>2
      <4> QED BY <1>1, <1>2, <1>3, <3>2, <4>1 DEF AfterIn
    <3> QED BY <3>1, <3>2
  <2> QED BY <1>3, <2>1, <2>2 DEF AfterIn
<1>10. ASSUME NEW i \in 1..(n + 1) PROVE /\ IsScope(p[i]) /\ p[i].u.depth >= 0
                                         /\ Starts(p[i], AfterIn(r, p, i)) /\ Within(p[i], r)
  <2>1. CASE i = n + 1
    BY <1>2, <1>3, <1>4, <1>7, <2>1 DEF AfterIn
  <2>2. CASE i # n + 1
    <3>1. i \in 1..n
      BY <1>2, <2>2
    <3> QED BY <1>2, <1>3, <1>8, <1>9, <3>1
  <2> QED BY <2>1, <2>2
<1>11. ASSUME NEW i \in 1..(n + 1), NEW j \in 1..(n + 1), i < j PROVE Within(p[i], p[j].u)
  <2>1. i \in 1..n
    BY <1>2, <1>11
  <2>2. CASE j = n + 1
    BY <1>3, <1>4, <1>8, <2>1, <2>2
  <2>3. CASE j # n + 1
    <3>1. j \in 1..n
      BY <1>2, <2>3
    <3> QED BY <1>2, <1>3, <1>11, <2>1, <3>1 DEF Consistent
  <2> QED BY <2>2, <2>3
<1>12. r.depth >= 0
  BY <1>2, <1>5
<1>13. Consistent(r, p)
  BY <1>3, <1>10, <1>11, <1>12 DEF Consistent
<1> QED BY <1>1, <1>13

\* The innermost one ends.
LEMMA ConsistentClosed ==
  ASSUME NEW w, NEW q, Consistent(w, q), q # <<>>, NEW s, s = q[Len(q)], NEW r, IsUnifier(r),
         r.depth = s.u.depth, r.flex = s.u.flex, r.reduce = s.u.reduce,
         \A i \in DOMAIN q : i < Len(q) => Within(q[i], r)
  PROVE  Consistent(r, SubSeq(q, 1, Len(q) - 1))
<1>1. PICK p, n : n = Len(q) - 1 /\ p = SubSeq(q, 1, n)
  OBVIOUS
<1>2. /\ IsASeq(q) /\ n \in Nat /\ Len(q) = n + 1 /\ DOMAIN q = 1..(n + 1) /\ n \in 0..Len(q)
      /\ \A i \in 1..(n + 1) : IsScope(q[i]) /\ q[i].u.depth >= 0
  BY <1>1, SeqFacts DEF Consistent
<1>3. IsASeq(p) /\ Len(p) = n /\ DOMAIN p = 1..n /\ \A i \in 1..n : p[i] = q[i]
  BY <1>1, <1>2, PrefixFacts
<1>4. ASSUME NEW i \in 1..n PROVE Starts(p[i], AfterIn(r, p, i))
  <2>1. i \in 1..(n + 1) /\ i # n + 1
    BY <1>2
  <2>2. Starts(q[i], q[i + 1].u)
    BY <1>2, <2>1 DEF Consistent, AfterIn
  <2>3. CASE i = n
    BY <1>2, <1>3, <2>2, <2>3 DEF Starts, AfterIn
  <2>4. CASE i # n
    <3>1. i + 1 \in 1..n
      BY <1>2, <2>4
    <3> QED BY <1>3, <2>2, <2>4, <3>1 DEF AfterIn
  <2> QED BY <2>3, <2>4
<1>5. \A i \in 1..n : IsScope(p[i]) /\ p[i].u.depth >= 0 /\ Within(p[i], r)
  <2>1. SUFFICES ASSUME NEW i \in 1..n PROVE IsScope(p[i]) /\ p[i].u.depth >= 0 /\ Within(p[i], r)
    OBVIOUS
  <2>2. i \in 1..(n + 1) /\ i < Len(q)
    BY <1>2
  <2> QED BY <1>2, <1>3, <2>2
<1>6. \A i, j \in 1..n : i < j => Within(p[i], p[j].u)
  <2>1. SUFFICES ASSUME NEW i \in 1..n, NEW j \in 1..n, i < j PROVE Within(p[i], p[j].u)
    OBVIOUS
  <2>2. i \in DOMAIN q /\ j \in DOMAIN q
    BY <1>2
  <2> QED BY <1>3, <2>1, <2>2 DEF Consistent
<1>7. r.depth >= 0
  BY <1>2
<1>8. Consistent(r, p)
  BY <1>3, <1>4, <1>5, <1>6, <1>7 DEF Consistent
<1> QED BY <1>1, <1>8

--------------------------------------------------------------------------------
(* The actions.                                                            *)

\* The settings are fields, and no tables.
LEMMA Fields ==
  ASSUME NEW u, IsUnifier(u)
  PROVE  /\ u = [f \in DOMAIN u |-> u[f]] /\ Tables \cup {"trail"} \subseteq DOMAIN u \ {"depth", "level", "flex", "reduce"}
         /\ {"depth", "level", "flex", "reduce"} \subseteq DOMAIN u \ (Tables \cup {"trail"})
         /\ u.depth \in Int
BY DEF IsUnifier, Tables

LEMMA InitConsistent ==
  ASSUME TrailInit
  PROVE  IInv
<1>1. PICK none : none = <<>>
  OBVIOUS
<1>2. IsTable(none) /\ IsASeq(none) /\ DOMAIN none = {}
  BY <1>1 DEF IsTable, IsASeq
<1>3. /\ unifier.soln = none /\ unifier.skolems = none /\ unifier.levels = none /\ unifier.labels = none
      /\ unifier.trail = none /\ unifier.depth = 0 /\ unifier = [f \in DOMAIN unifier |-> unifier[f]]
      /\ Tables \cup {"trail", "depth", "level", "flex", "reduce"} \subseteq DOMAIN unifier /\ open = none
  BY <1>1 DEF TrailInit, NewUnifier, Tables
<1>4. \A t \in Tables : unifier[t] = none
  BY <1>3 DEF Tables
<1>5. IsUnifier(unifier)
  BY <1>2, <1>3, <1>4 DEF IsUnifier
<1> QED BY <1>2, <1>3, <1>5 DEF IInv, Consistent

LEMMA WriteConsistent ==
  ASSUME NEW w, NEW q, Consistent(w, q), NEW t \in Tables, NEW x, NEW v
  PROVE  Consistent(Write(w, t, x, v), q)
<1>1. PICK r : r = Write(w, t, x, v)
  OBVIOUS
<1>2. IsUnifier(w) /\ \A i \in DOMAIN q : IsScope(q[i]) /\ Within(q[i], w)
  BY DEF Consistent
<1>3. Written(w, r, t, x)
  BY <1>1, <1>2, WriteIs
<1>4. \A i \in DOMAIN q : Within(q[i], r)
  BY <1>2, <1>3, WithinWrite
<1>5. IsUnifier(r) /\ r.depth = w.depth /\ r.flex = w.flex /\ r.reduce = w.reduce
  BY <1>2, <1>3, Fields DEF Written
<1> QED BY <1>1, <1>4, <1>5, ConsistentInside

LEMMA CompressConsistent ==
  ASSUME NEW w, NEW q, Consistent(w, q), NEW t \in {"soln", "levels"}, NEW x, NEW was, NEW v
  PROVE  Consistent(Compress(w, t, x, was, v), q)
<1>1. PICK r : r = Compress(w, t, x, was, v)
  OBVIOUS
<1>2. t \in Tables /\ t \notin {"trail", "depth", "level", "flex", "reduce"}
  BY DEF Tables
<1>3. CASE v = was
  BY <1>1, <1>3 DEF Compress
<1>4. CASE v # was /\ w.depth > 0
  BY <1>1, <1>2, <1>4, WriteConsistent DEF Compress
<1>5. CASE v # was /\ ~(w.depth > 0)
  <2>1. /\ IsUnifier(w) /\ w.depth = 0
        /\ \A i \in DOMAIN q : IsScope(q[i]) /\ q[i].u.depth >= 0 /\ Within(q[i], w)
    BY <1>5 DEF Consistent, IsUnifier
  <2>2. r = Put(w, t, x, v)
    BY <1>1, <1>5 DEF Compress
  <2>3. \A i \in DOMAIN q : Within(q[i], r)
    BY <2>1, <2>2, WithinPut
  <2>4. IsUnifier(r) /\ \A f \in DOMAIN w \ {t} : r[f] = w[f]
    BY <1>2, <2>1, <2>2, PutIs
  <2>5. r.depth = w.depth /\ r.flex = w.flex /\ r.reduce = w.reduce
    BY <1>2, <2>1, <2>4, Fields
  <2> QED BY <1>1, <2>3, <2>4, <2>5, ConsistentInside
<1> QED BY <1>1, <1>3, <1>4, <1>5

\* The scope that ends.
LEMMA TopFacts ==
  ASSUME NEW w, NEW q, Consistent(w, q), q # <<>>, NEW s, s = q[Len(q)]
  PROVE  /\ IsUnifier(w) /\ IsScope(s) /\ s.u.depth >= 0 /\ Starts(s, w) /\ Within(s, w)
         /\ Len(q) \in DOMAIN q /\ w.depth = s.u.depth + Counted(s) /\ s.u.depth \in Int /\ w.depth \in Int
         /\ \A i \in DOMAIN q : i < Len(q) => IsScope(q[i]) /\ Within(q[i], w) /\ Within(q[i], s.u)
                                             /\ s.u.depth >= q[i].u.depth + Counted(q[i])
<1>1. Len(q) \in DOMAIN q
  BY SeqFacts DEF Consistent
<1>2. IsUnifier(w) /\ IsScope(s) /\ s.u.depth >= 0 /\ Starts(s, w) /\ Within(s, w)
  BY <1>1 DEF Consistent, AfterIn
<1>3. w.depth = s.u.depth + Counted(s) /\ s.u.depth \in Int /\ w.depth \in Int
  BY <1>2 DEF Starts, IsScope, IsUnifier
<1>4. \A i \in DOMAIN q : i < Len(q) => IsScope(q[i]) /\ Within(q[i], w) /\ Within(q[i], s.u)
  BY <1>1 DEF Consistent
<1>5. \A i \in DOMAIN q : i < Len(q) => s.u.depth >= q[i].u.depth + Counted(q[i])
  BY <1>4 DEF Within
<1> QED BY <1>1, <1>2, <1>3, <1>4, <1>5

LEMMA ScopeRecovers ==
  ASSUME NEW s, NEW w, Within(s, w), s.kind # "branch"
  PROVE  Recovers(w, s.u)
BY DEF Within, Recovers

\* A trial that is rolled back, or a probe, ends as it began.
LEMMA RestoreConsistent ==
  ASSUME NEW w, NEW q, Consistent(w, q), q # <<>>, NEW s, s = q[Len(q)], s.kind # "branch",
         NEW a, IsUnifier(a), Contents(a) = Contents(w), a.depth = w.depth, a.level = s.u.level,
         a.flex = s.u.flex, a.reduce = s.u.reduce
  PROVE  /\ Consistent(Restore(a, Len(s.u.trail)), SubSeq(q, 1, Len(q) - 1))
         /\ Contents(Restore(a, Len(s.u.trail))) = Contents(s.u)
         /\ Settings(Restore(a, Len(s.u.trail))) = Settings(s.u)
<1>1. PICK r : r = Restore(a, Len(s.u.trail))
  OBVIOUS
<1>2. /\ IsUnifier(w) /\ IsScope(s) /\ IsUnifier(s.u) /\ Within(s, w) /\ w.depth = s.u.depth + 1 /\ s.u.depth \in Int
      /\ \A i \in DOMAIN q : i < Len(q) => IsScope(q[i]) /\ Within(q[i], s.u)
                                          /\ s.u.depth >= q[i].u.depth + Counted(q[i])
  <2>1. /\ IsUnifier(w) /\ IsScope(s) /\ Within(s, w) /\ w.depth = s.u.depth + Counted(s) /\ s.u.depth \in Int
        /\ \A i \in DOMAIN q : i < Len(q) => IsScope(q[i]) /\ Within(q[i], s.u)
                                            /\ s.u.depth >= q[i].u.depth + Counted(q[i])
    BY TopFacts
  <2>2. Counted(s) = 1 /\ IsUnifier(s.u)
    BY <2>1 DEF Counted, IsScope
  <2> QED BY <2>1, <2>2
<1>3. Within(s, a)
  BY <1>2, WithinSame DEF Counted
<1>4. Recovers(a, s.u)
  BY <1>3, ScopeRecovers
<1>5. IsUnifier(r) /\ Contents(r) = Contents(s.u) /\ r.depth = a.depth - 1 /\ r.level = a.level /\ r.flex = a.flex /\ r.reduce = a.reduce
  BY <1>1, <1>2, <1>4, RestoreExact
<1>6. r.depth = s.u.depth /\ r.level = s.u.level /\ r.flex = s.u.flex /\ r.reduce = s.u.reduce
  BY <1>2, <1>5
<1>7. \A i \in DOMAIN q : i < Len(q) => Within(q[i], r)
  BY <1>2, <1>5, <1>6, WithinSame
<1>8. Consistent(r, SubSeq(q, 1, Len(q) - 1))
  BY <1>5, <1>6, <1>7, ConsistentClosed
<1> QED BY <1>1, <1>5, <1>6, <1>8 DEF Settings

LEMMA NextConsistent ==
  ASSUME IInv, [TrailNext]_trailVars
  PROVE  IInv'
<1> DEFINE w == unifier
           q == open
           s == Top
<1>1. Consistent(w, q) /\ IsUnifier(w)
  BY DEF IInv, Consistent
<1>2. CASE WriteTable
  BY <1>1, <1>2, WriteConsistent DEF WriteTable, IInv
<1>3. CASE Shorten
  BY <1>1, <1>3, CompressConsistent DEF Shorten, IInv
<1>4. CASE EnterTrial
  <2>1. PICK r, t : r = Trial(w) /\ t = [kind |-> "trial", u |-> w, givens |-> {}]
    OBVIOUS
  <2>2. unifier' = r /\ open' = Append(q, t)
    BY <1>4, <2>1 DEF EnterTrial, Opens
  <2>3. /\ r = [f \in DOMAIN w |-> r[f]] /\ r.depth = w.depth + 1 /\ r.flex = w.flex /\ r.reduce = w.reduce
        /\ \A f \in Tables \cup {"trail"} : r[f] = w[f]
    BY <1>1, <2>1, Fields DEF Trial, Snapshot
  <2>4. r.depth \in Int
    BY <1>1, <2>3, Fields
  <2>5. IsUnifier(r) /\ Contents(r) = Contents(w)
    BY <1>1, <2>3, <2>4, SameTables
  <2>6. Starts(t, r)
    BY <2>1, <2>3 DEF Starts, Counted
  <2> QED BY <1>1, <2>1, <2>2, <2>5, <2>6, ConsistentOpened DEF IInv
<1>5. CASE KeepTrial
  <2>1. PICK r : r = Commit(w, s.u)
    OBVIOUS
  <2>2. unifier' = r /\ open' = SubSeq(q, 1, Len(q) - 1) /\ q # <<>> /\ s.kind = "trial"
    BY <1>5, <2>1 DEF KeepTrial, Closes, Below
  <2>3. /\ r = [f \in DOMAIN w |-> r[f]] /\ r.depth = w.depth - 1 /\ r.flex = w.flex /\ r.reduce = w.reduce
        /\ \A f \in Tables \cup {"trail"} : r[f] = w[f]
    BY <1>1, <2>1, Fields DEF Commit, AbandonSnapshot
  <2>4. /\ w.depth = s.u.depth + 1 /\ Starts(s, w) /\ s.u.depth \in Int
        /\ \A i \in DOMAIN q : i < Len(q) => IsScope(q[i]) /\ Within(q[i], w) /\ s.u.depth >= q[i].u.depth + Counted(q[i])
    BY <1>1, <2>2, TopFacts DEF Counted, Top
  <2>5. r.depth = s.u.depth /\ r.flex = s.u.flex /\ r.reduce = s.u.reduce
    BY <2>2, <2>3, <2>4 DEF Starts
  <2>6. IsUnifier(r) /\ Contents(r) = Contents(w)
    BY <1>1, <2>3, <2>4, <2>5, SameTables
  <2>7. \A i \in DOMAIN q : i < Len(q) => Within(q[i], r)
    BY <1>1, <2>4, <2>5, <2>6, WithinSame
  <2> QED BY <1>1, <2>2, <2>5, <2>6, <2>7, ConsistentClosed DEF IInv, Top
<1>6. CASE RollBackTrial
  <2>1. PICK a : a = [w EXCEPT !.level = s.u.level]
    OBVIOUS
  <2>2. unifier' = Restore(a, Len(s.u.trail)) /\ open' = SubSeq(q, 1, Len(q) - 1) /\ q # <<>> /\ s.kind = "trial"
    BY <1>6, <2>1 DEF RollBackTrial, Closes, Below, Rollback
  <2>3. /\ a = [f \in DOMAIN w |-> a[f]] /\ a.depth = w.depth /\ a.level = s.u.level /\ a.flex = w.flex /\ a.reduce = w.reduce
        /\ \A f \in Tables \cup {"trail"} : a[f] = w[f]
    BY <1>1, <2>1, Fields
  <2>4. IsUnifier(a) /\ Contents(a) = Contents(w)
    BY <1>1, <2>3, Fields, SameTables
  <2>5. a.flex = s.u.flex /\ a.reduce = s.u.reduce
    BY <1>1, <2>2, <2>3, TopFacts DEF Starts, Top
  <2> QED BY <1>1, <2>2, <2>3, <2>4, <2>5, RestoreConsistent DEF IInv, Top
<1>7. CASE EnterProbe
  <2>1. PICK flex \in {w.flex, TRUE} : Opens("probe", [BeginProbe(w) EXCEPT !.flex = flex])
    BY <1>7 DEF EnterProbe
  <2>2. PICK r, t : r = [BeginProbe(w) EXCEPT !.flex = flex] /\ t = [kind |-> "probe", u |-> w, givens |-> {}]
    OBVIOUS
  <2>3. unifier' = r /\ open' = Append(q, t)
    BY <2>1, <2>2 DEF Opens
  <2>4. /\ r = [f \in DOMAIN w |-> r[f]] /\ r.depth = w.depth + 1
        /\ \A f \in Tables \cup {"trail"} : r[f] = w[f]
    BY <1>1, <2>2, Fields DEF BeginProbe, Snapshot
  <2>5. r.depth \in Int
    BY <1>1, <2>4, Fields
  <2>6. IsUnifier(r) /\ Contents(r) = Contents(w)
    BY <1>1, <2>4, <2>5, SameTables
  <2>7. Starts(t, r)
    BY <2>2, <2>4 DEF Starts, Counted
  <2> QED BY <1>1, <2>2, <2>3, <2>6, <2>7, ConsistentOpened DEF IInv
<1>8. CASE LeaveProbe
  <2>1. PICK a : a = [w EXCEPT !.level = s.u.level, !.reduce = s.u.reduce, !.flex = s.u.flex]
    OBVIOUS
  <2>2. unifier' = Restore(a, Len(s.u.trail)) /\ open' = SubSeq(q, 1, Len(q) - 1) /\ q # <<>> /\ s.kind = "probe"
    BY <1>8, <2>1 DEF LeaveProbe, Closes, Below, EndProbe
  <2>3. /\ a = [f \in DOMAIN w |-> a[f]] /\ a.depth = w.depth /\ a.level = s.u.level /\ a.flex = s.u.flex /\ a.reduce = s.u.reduce
        /\ \A f \in Tables \cup {"trail"} : a[f] = w[f]
    BY <1>1, <2>1, Fields
  <2>4. IsUnifier(a) /\ Contents(a) = Contents(w)
    BY <1>1, <2>3, Fields, SameTables
  <2> QED BY <1>1, <2>2, <2>3, <2>4, RestoreConsistent DEF IInv, Top
<1>9. CASE EnterBranch
  <2>1. PICK r, t : r = [w EXCEPT !.level = @ + 1] /\ t = [kind |-> "branch", u |-> w, givens |-> {}]
    OBVIOUS
  <2>2. unifier' = r /\ open' = Append(q, t)
    BY <1>9, <2>1 DEF EnterBranch, Opens
  <2>3. /\ r = [f \in DOMAIN w |-> r[f]] /\ r.depth = w.depth /\ r.flex = w.flex /\ r.reduce = w.reduce
        /\ \A f \in Tables \cup {"trail"} : r[f] = w[f] /\ w.depth \in Int
    BY <1>1, <2>1, Fields
  <2>4. IsUnifier(r) /\ Contents(r) = Contents(w)
    BY <1>1, <2>3, Fields, SameTables
  <2>5. Starts(t, r)
    BY <1>1, <2>1, <2>3, Fields DEF Starts, Counted
  <2> QED BY <1>1, <2>1, <2>2, <2>4, <2>5, ConsistentOpened DEF IInv
<1>10. CASE GiveEquality
  <2>1. PICK sk \in Ids, t \in Values :
          /\ unifier' = InstallGivenEq(w, sk, t)
          /\ open' = [open EXCEPT ![Len(open)].givens = @ \cup {sk}]
    BY <1>10 DEF GiveEquality
  <2>2. PICK r : r = Write(w, "skolems", sk, t)
    OBVIOUS
  <2>3. unifier' = r /\ q # <<>> /\ s.kind = "branch" /\ "skolems" \in Tables
    BY <1>10, <2>1, <2>2 DEF GiveEquality, InstallGivenEq, Tables
  <2>4. PICK n, p, b : n = Len(q) /\ p = open' /\ b = [s EXCEPT !.givens = @ \cup {sk}]
    OBVIOUS
  <2>5. /\ IsScope(s) /\ IsUnifier(s.u) /\ Within(s, w) /\ n \in DOMAIN q
        /\ IsASeq(q) /\ n \in Nat /\ DOMAIN q = 1..n
    BY <1>1, <2>3, <2>4, TopFacts, SeqFacts DEF Top, Consistent, IsScope
  <2>6. Written(w, r, "skolems", sk) /\ Consistent(r, q)
    BY <1>1, <2>2, <2>3, WriteIs, WriteConsistent
  <2>7. b = [kind |-> "branch", u |-> s.u, givens |-> s.givens \cup {sk}]
    BY <2>3, <2>4, <2>5 DEF IsScope
  <2>8. p = [q EXCEPT ![n] = b]
    BY <2>1, <2>4 DEF Top
  <2>9. Within(b, r)
    <3>1. Within(s, r)
      BY <2>6, <2>5, <2>3, <2>4 DEF Consistent, Top
    <3>2. Writes(r.trail, Len(s.u.trail), "skolems", sk) # {}
      <4>1. /\ Len(w.trail) \in Nat /\ Len(s.u.trail) \in Nat /\ Len(s.u.trail) <= Len(w.trail)
            /\ Len(r.trail) = Len(w.trail) + 1 /\ r.trail[Len(w.trail) + 1].map = "skolems" /\ r.trail[Len(w.trail) + 1].id = sk
        BY <1>1, <2>5, <2>6, SeqFacts DEF IsUnifier, Within, Prefix, Written
      <4>2. Len(w.trail) + 1 \in Writes(r.trail, Len(s.u.trail), "skolems", sk)
        BY <4>1 DEF Writes
      <4> QED BY <4>2
    <3> HIDE DEF Writes
    <3> QED BY <2>3, <2>7, <3>1, <3>2 DEF Within, Counted
  <2>10. IsScope(b) /\ b.u = s.u /\ b.kind = s.kind
    BY <2>3, <2>5, <2>7 DEF IsScope
  <2>11. IsASeq(p) /\ DOMAIN p = 1..n /\ Len(p) = n /\ p[n] = b /\ \A i \in 1..n : i # n => p[i] = q[i]
    <3>1. q \in Seq({q[i] : i \in DOMAIN q}) /\ Len(q) = n
      BY <2>4, <2>5 DEF IsASeq
    <3>2. PICK S : S = {q[i] : i \in DOMAIN q} \cup {b}
      OBVIOUS
    <3>3. q \in Seq(S) /\ b \in S /\ n \in 1..n
      BY <2>5, <3>1, <3>2
    <3>4. p \in Seq(S) /\ Len(p) = n /\ p[n] = b /\ \A i \in 1..n : i # n => p[i] = q[i]
      BY <2>8, <3>1, <3>3
    <3> QED BY <3>4, SeqOfOwn
  <2>12. \A i \in 1..n : p[i].u = q[i].u /\ p[i].kind = q[i].kind
    BY <2>4, <2>10, <2>11 DEF Top
  <2>13. ASSUME NEW i \in 1..n
         PROVE  IsScope(p[i]) /\ p[i].u.depth >= 0 /\ Starts(p[i], AfterIn(r, p, i)) /\ Within(p[i], r)
    <3>1. IsScope(q[i]) /\ q[i].u.depth >= 0 /\ Starts(q[i], AfterIn(r, q, i)) /\ Within(q[i], r)
      BY <2>5, <2>6 DEF Consistent
    <3>2. AfterIn(r, p, i) = AfterIn(r, q, i)
      <4>1. CASE i = n
        BY <2>4, <2>11, <4>1 DEF AfterIn
      <4>2. CASE i # n
        <5>1. i + 1 \in 1..n
          BY <2>5, <4>2
        <5> QED BY <2>4, <2>11, <2>12, <4>2, <5>1 DEF AfterIn
      <4> QED BY <4>1, <4>2
    <3>3. Starts(p[i], AfterIn(r, p, i))
      BY <2>12, <3>1, <3>2 DEF Starts, Counted
    <3>4. IsScope(p[i]) /\ Within(p[i], r)
      BY <2>9, <2>10, <2>11, <3>1
    <3> QED BY <2>12, <3>1, <3>3, <3>4
  <2>14. ASSUME NEW i \in 1..n, NEW j \in 1..n, i < j PROVE Within(p[i], p[j].u)
    <3>1. i # n
      BY <2>5, <2>14
    <3>2. Within(q[i], q[j].u)
      BY <2>5, <2>6, <2>14 DEF Consistent
    <3> QED BY <2>11, <2>12, <3>1, <3>2
  <2>15. Consistent(r, p)
    BY <2>6, <2>11, <2>13, <2>14 DEF Consistent
  <2> QED BY <2>3, <2>4, <2>15 DEF IInv
<1>11. CASE LeaveBranch
  <2>1. PICK a, r : a = RemoveGivenEqs(w, s.givens) /\ r = [a EXCEPT !.level = s.u.level]
    OBVIOUS
  <2>2. unifier' = r /\ open' = SubSeq(q, 1, Len(q) - 1) /\ q # <<>> /\ s.kind = "branch"
    BY <1>11, <2>1 DEF LeaveBranch, Closes, Below
  <2>3. /\ w.depth = s.u.depth /\ IsScope(s) /\ Starts(s, w) /\ Within(s, w) /\ s.u.depth \in Int
        /\ \A i \in DOMAIN q : i < Len(q) => IsScope(q[i]) /\ Within(q[i], w) /\ Within(q[i], s.u)
                                            /\ s.u.depth >= q[i].u.depth + Counted(q[i])
    <3>1. w.depth = s.u.depth + 0
      BY <1>1, <2>2, TopFacts DEF Counted, Top
    <3> QED BY <1>1, <2>2, <3>1, TopFacts DEF Top
  <2>4. IsUnifier(a) /\ DOMAIN a = DOMAIN w /\ \A f \in DOMAIN w \ {"skolems"} : a[f] = w[f]
    <3>1. a = [w EXCEPT !.skolems = Removed(w.skolems, s.givens)]
      BY <2>1 DEF RemoveGivenEqs
    <3>2. IsTable(Removed(w.skolems, s.givens))
      BY DEF IsTable, Removed
    <3>3. PICK m : m = Removed(w.skolems, s.givens)
      OBVIOUS
    <3>4. /\ "skolems" \in DOMAIN w /\ w = [f \in DOMAIN w |-> w[f]]
          /\ {"trail", "depth"} \cap Tables = {} /\ {"trail", "depth"} \subseteq DOMAIN w /\ "skolems" \notin {"trail", "depth"}
      BY <1>1 DEF IsUnifier, Tables
    <3>5. DOMAIN a = DOMAIN w /\ a = [f \in DOMAIN w |-> a[f]] /\ a.skolems = m /\ \A f \in DOMAIN w \ {"skolems"} : a[f] = w[f]
      BY <3>1, <3>3, <3>4
    <3>6. IsUnifier(a)
      BY <1>1, <3>2, <3>3, <3>4, <3>5 DEF IsUnifier
    <3> QED BY <3>5, <3>6
  <2>5. a.depth = w.depth /\ a.flex = w.flex /\ a.reduce = w.reduce
    BY <1>1, <2>4, Fields DEF Tables
  <2>6. /\ r = [f \in DOMAIN a |-> r[f]] /\ r.depth = a.depth /\ r.flex = a.flex /\ r.reduce = a.reduce
        /\ \A f \in Tables \cup {"trail"} : r[f] = a[f]
    BY <2>1, <2>4, Fields
  <2>7. r.depth = s.u.depth /\ r.flex = s.u.flex /\ r.reduce = s.u.reduce
    BY <2>2, <2>3, <2>5, <2>6 DEF Starts
  <2>8. IsUnifier(r) /\ Contents(r) = Contents(a)
    BY <2>3, <2>4, <2>6, <2>7, SameTables
  <2>9. \A i \in DOMAIN q : i < Len(q) => Within(q[i], r)
    <3>1. SUFFICES ASSUME NEW i \in DOMAIN q, i < Len(q) PROVE Within(q[i], r)
      OBVIOUS
    <3>2. Within(q[i], a)
      BY <1>1, <2>1, <2>3, <3>1, WithinRemove
    <3> QED BY <2>3, <2>4, <2>7, <2>8, <3>1, <3>2, WithinSame
  <2> QED BY <1>1, <2>2, <2>7, <2>8, <2>9, ConsistentClosed DEF IInv, Top
<1>12. CASE UNCHANGED trailVars
  BY <1>12 DEF trailVars, IInv
<1> QED BY <1>2, <1>3, <1>4, <1>5, <1>6, <1>7, <1>8, <1>9, <1>10, <1>11, <1>12 DEF TrailNext

--------------------------------------------------------------------------------
LEMMA AlwaysConsistent == TrailSpec => []IInv
<1>1. TrailInit => IInv
  BY InitConsistent
<1>2. IInv /\ [TrailNext]_trailVars => IInv'
  BY NextConsistent
<1> QED BY <1>1, <1>2, PTL DEF TrailSpec

(* For any identifiers and values, and any nesting of trials, probes and   *)
(* branches: every open trial and probe can be rolled back to what it saw  *)
(* (unify_trail.go).                                                       *)
THEOREM TrailsCanRollBack == TrailSpec => []CanRollBack
<1>1. IInv => CanRollBack
  <2>1. SUFFICES ASSUME IInv, NEW i \in DOMAIN open, open[i].kind # "branch"
                 PROVE  Contents(Restore(unifier, Len(open[i].u.trail))) = Contents(open[i].u)
    BY DEF CanRollBack
  <2>2. IsUnifier(unifier) /\ IsUnifier(open[i].u) /\ Recovers(unifier, open[i].u)
    BY <2>1, ScopeRecovers DEF IInv, Consistent, IsScope
  <2> QED BY <2>2, RestoreExact
<1> QED BY <1>1, AlwaysConsistent, PTL

(* And one that is rolled back, or a probe that ends, leaves the unifier,  *)
(* its tables, its trail and its settings as it was when it began          *)
(* (withTrial, withProbe, EndProbeIsolated).                               *)
THEOREM RollbacksRestore == TrailSpec => [][RollbackRestores]_trailVars
<1>1. IInv => RollbackRestores
  <2> DEFINE w == unifier
             s == Top
  <2>1. SUFFICES ASSUME IInv, RollBackTrial \/ LeaveProbe
                 PROVE  Contents(unifier') = Contents(s.u) /\ Settings(unifier') = Settings(s.u)
    BY DEF RollbackRestores
  <2>2. Consistent(w, open) /\ IsUnifier(w)
    BY <2>1 DEF IInv, Consistent
  <2>3. CASE RollBackTrial
    <3>1. PICK a : a = [w EXCEPT !.level = s.u.level]
      OBVIOUS
    <3>2. unifier' = Restore(a, Len(s.u.trail)) /\ open # <<>> /\ s.kind = "trial"
      BY <2>3, <3>1 DEF RollBackTrial, Closes, Rollback
    <3>3. /\ a = [f \in DOMAIN w |-> a[f]] /\ a.depth = w.depth /\ a.level = s.u.level /\ a.flex = w.flex /\ a.reduce = w.reduce
          /\ \A f \in Tables \cup {"trail"} : a[f] = w[f]
      BY <2>2, <3>1, Fields
    <3>4. IsUnifier(a) /\ Contents(a) = Contents(w)
      BY <2>2, <3>3, Fields, SameTables
    <3>5. a.flex = s.u.flex /\ a.reduce = s.u.reduce
      BY <2>2, <3>2, <3>3, TopFacts DEF Starts, Top
    <3> QED BY <2>2, <3>2, <3>3, <3>4, <3>5, RestoreConsistent DEF Top
  <2>4. CASE LeaveProbe
    <3>1. PICK a : a = [w EXCEPT !.level = s.u.level, !.reduce = s.u.reduce, !.flex = s.u.flex]
      OBVIOUS
    <3>2. unifier' = Restore(a, Len(s.u.trail)) /\ open # <<>> /\ s.kind = "probe"
      BY <2>4, <3>1 DEF LeaveProbe, Closes, EndProbe
    <3>3. /\ a = [f \in DOMAIN w |-> a[f]] /\ a.depth = w.depth /\ a.level = s.u.level /\ a.flex = s.u.flex /\ a.reduce = s.u.reduce
          /\ \A f \in Tables \cup {"trail"} : a[f] = w[f]
      BY <2>2, <3>1, Fields
    <3>4. IsUnifier(a) /\ Contents(a) = Contents(w)
      BY <2>2, <3>3, Fields, SameTables
    <3> QED BY <2>2, <3>2, <3>3, <3>4, RestoreConsistent DEF Top
  <2> QED BY <2>1, <2>3, <2>4
<1> QED BY <1>1, AlwaysConsistent, PTL
=============================================================================
