---------------------------- MODULE SolverLemmas ----------------------------
(***************************************************************************)
(* What the proofs about the constraint solver need of natural numbers,    *)
(* sequences, solution chains and the inert set.                           *)
(*                                                                         *)
(* The library's induction theorems quantify over an operator. Induction   *)
(* is stated here over a set, and a function defined by recursion on 0..N  *)
(* is shown to exist (Chain), so that the folds of the model can be        *)
(* reasoned about. For solution chains no number is needed: Acyclic says   *)
(* that no set of variables is closed under the solution, and a set of     *)
(* counterexamples is such a set.                                          *)
(***************************************************************************)
EXTENDS ConstraintSolver, FiniteSetTheorems, SequenceTheorems, WellFoundedInduction, TLAPS

-----------------------------------------------------------------------------
(* Induction and recursion on natural numbers.                             *)

\* A set that holds 0 and the successor of each of its numbers holds them all.
LEMMA NatSetInduction ==
  ASSUME NEW S, 0 \in S, \A n \in Nat : n \in S => n + 1 \in S
  PROVE  Nat \subseteq S
<1> DEFINE T == Nat \ S
<1>1. SUFFICES ASSUME T # {} PROVE FALSE
  OBVIOUS
<1>2. PICK n \in T : \A k \in T : ~(<<k, n>> \in OpToRel(<, Nat))
  BY ONLY <1>1, NatLessThanWellFounded, WFMin, T \subseteq Nat
<1>3. n # 0 /\ n \in Nat
  OBVIOUS
<1>4. n - 1 \in Nat /\ n - 1 < n
  BY <1>3
<1>5. <<n - 1, n>> \in OpToRel(<, Nat)
  BY <1>3, <1>4 DEF OpToRel
<1>6. n - 1 \in S
  BY <1>2, <1>4, <1>5
<1> QED BY <1>3, <1>4, <1>6

\* A nonempty set of numbers has a least one.
LEMMA LeastNumber ==
  ASSUME NEW T, T \subseteq Nat, T # {}
  PROVE  \E n \in T : \A k \in T : n <= k
<1>1. PICK n \in T : \A k \in T : ~(<<k, n>> \in OpToRel(<, Nat))
  BY ONLY NatLessThanWellFounded, WFMin, T \subseteq Nat, T # {}
<1>2. \A k \in T : ~(k < n)
  BY <1>1 DEF OpToRel
<1> QED BY <1>2

\* The values a fold takes: a, then F[i] of the value before.
IsChain(g, N, D, a, F) ==
  /\ g \in [0..N -> D]
  /\ g[0] = a
  /\ \A i \in 1..N : g[i] = F[i][g[i - 1]]

\* A fold whose step stays inside D has such values.
LEMMA ChainExists ==
  ASSUME NEW N \in Nat, NEW D, NEW a \in D, NEW F \in [Nat -> [D -> D]]
  PROVE  \E g : IsChain(g, N, D, a, F)
<1> DEFINE S == {n \in Nat : \E g : IsChain(g, n, D, a, F)}
<1>1. 0 \in S
  <2> DEFINE g == [i \in 0..0 |-> a]
  <2>1. IsChain(g, 0, D, a, F)
    BY DEF IsChain
  <2> QED BY <2>1
<1>2. ASSUME NEW n \in Nat, n \in S PROVE n + 1 \in S
  <2>1. PICK g : IsChain(g, n, D, a, F)
    BY <1>2
  <2> DEFINE h == [i \in 0..(n + 1) |-> IF i = n + 1 THEN F[n + 1][g[n]] ELSE g[i]]
  <2>2. g[n] \in D /\ F[n + 1] \in [D -> D]
    BY <2>1 DEF IsChain
  <2>3. h \in [0..(n + 1) -> D]
    <3>1. \A i \in 0..(n + 1) : i = n + 1 \/ i \in 0..n
      OBVIOUS
    <3> QED BY <2>1, <2>2, <3>1 DEF IsChain
  <2>4. ASSUME NEW i \in 1..(n + 1) PROVE h[i] = F[i][h[i - 1]]
    <3>1. CASE i = n + 1
      BY <3>1
    <3>2. CASE i # n + 1
      <4>1. /\ i \in 1..n /\ i - 1 \in 0..n /\ i \in 0..(n + 1)
            /\ i - 1 \in 0..(n + 1) /\ i - 1 # n + 1
        BY <3>2
      <4>2. h[i] = g[i] /\ h[i - 1] = g[i - 1]
        BY <4>1, <3>2
      <4> QED BY <4>1, <4>2, <2>1 DEF IsChain
    <3> QED BY <3>1, <3>2
  <2>5. h[0] = a
    BY <2>1 DEF IsChain
  <2>6. IsChain(h, n + 1, D, a, F)
    <3> HIDE DEF h
    <3> QED BY <2>3, <2>4, <2>5 DEF IsChain
  <2> QED BY <2>6
<1>3. Nat \subseteq S
  <2> HIDE DEF S
  <2> QED BY <1>1, <1>2, NatSetInduction
<1> QED BY <1>3

\* A property every step of a fold keeps holds of all its values.
LEMMA ChainInvariant ==
  ASSUME NEW N \in Nat, NEW D, NEW g, g[0] \in D,
         \A i \in 1..N : g[i - 1] \in D => g[i] \in D
  PROVE  \A i \in 0..N : g[i] \in D
<1> DEFINE S == {i \in Nat : i \in 0..N => g[i] \in D}
<1>1. 0 \in S
  OBVIOUS
<1>2. ASSUME NEW n \in Nat, n \in S PROVE n + 1 \in S
  <2>1. SUFFICES ASSUME n + 1 \in 0..N PROVE g[n + 1] \in D
    OBVIOUS
  <2>2. n + 1 \in 1..N /\ n \in 0..N /\ (n + 1) - 1 = n
    BY <2>1
  <2> QED BY <1>2, <2>2
<1>3. Nat \subseteq S
  <2> HIDE DEF S
  <2> QED BY <1>1, <1>2, NatSetInduction
<1> QED BY <1>3

\* The same where what holds depends on how far the fold has come.
LEMMA StagedInvariant ==
  ASSUME NEW N \in Nat, NEW P, NEW g, g[0] \in P[0],
         \A i \in 1..N : g[i - 1] \in P[i - 1] => g[i] \in P[i]
  PROVE  \A i \in 0..N : g[i] \in P[i]
<1> DEFINE S == {i \in Nat : i \in 0..N => g[i] \in P[i]}
<1>1. 0 \in S
  OBVIOUS
<1>2. ASSUME NEW n \in Nat, n \in S PROVE n + 1 \in S
  <2>1. SUFFICES ASSUME n + 1 \in 0..N PROVE g[n + 1] \in P[n + 1]
    OBVIOUS
  <2>2. n + 1 \in 1..N /\ n \in 0..N /\ (n + 1) - 1 = n
    BY <2>1
  <2> QED BY <1>2, <2>2
<1>3. Nat \subseteq S
  <2> HIDE DEF S
  <2> QED BY <1>1, <1>2, NatSetInduction
<1> QED BY <1>3

IsStaged(g, N, U, P, a, F) ==
  /\ g \in [0..N -> U] /\ g[0] = a
  /\ \A i \in 1..N : g[i - 1] \in P[i - 1] /\ g[i] = F[i][g[i - 1]]

\* A fold exists when each step, from what its stage allows, reaches the next
\* stage; F[i] need only be the step there.
LEMMA StagedChain ==
  ASSUME NEW N \in Nat, NEW U, NEW P \in [0..N -> SUBSET U], NEW a \in P[0], NEW F,
         \A i \in 1..N : \A x \in P[i - 1] : F[i][x] \in P[i]
  PROVE  \E g : IsStaged(g, N, U, P, a, F)
<1> DEFINE G == [i \in Nat |-> [x \in U |->
                  IF i \in 1..N /\ x \in P[i - 1] THEN F[i][x] ELSE x]]
<1>1. a \in U /\ 0 \in 0..N
  OBVIOUS
<1>2. G \in [Nat -> [U -> U]]
  <2>1. ASSUME NEW i \in Nat, NEW x \in U
        PROVE  (IF i \in 1..N /\ x \in P[i - 1] THEN F[i][x] ELSE x) \in U
    <3>1. CASE i \in 1..N /\ x \in P[i - 1]
      <4>1. F[i][x] \in P[i] /\ i \in 0..N
        BY <3>1
      <4> QED BY <3>1, <4>1
    <3>2. CASE ~(i \in 1..N /\ x \in P[i - 1])
      BY <3>2
    <3> QED BY <3>1, <3>2
  <2> QED BY <2>1
<1>3. PICK g : IsChain(g, N, U, a, G)
  <2> HIDE DEF G
  <2> QED BY <1>1, <1>2, ChainExists
<1>4. /\ g \in [0..N -> U] /\ g[0] = a
      /\ \A i \in 1..N : g[i] = G[i][g[i - 1]]
  BY <1>3 DEF IsChain
<1>5. \A i \in 1..N : g[i - 1] \in P[i - 1] => g[i] = F[i][g[i - 1]]
  <2> SUFFICES ASSUME NEW i \in 1..N, g[i - 1] \in P[i - 1] PROVE g[i] = F[i][g[i - 1]]
    OBVIOUS
  <2>1. i \in Nat /\ i - 1 \in 0..N
    OBVIOUS
  <2>2. g[i - 1] \in U /\ g[i] = G[i][g[i - 1]]
    BY <1>4, <2>1
  <2> QED BY <2>1, <2>2
<1> HIDE DEF G
<1>6. \A i \in 0..N : g[i] \in P[i]
  <2>1. g[0] \in P[0]
    BY <1>4
  <2>2. \A i \in 1..N : g[i - 1] \in P[i - 1] => g[i] \in P[i]
    BY <1>5
  <2> QED BY <2>1, <2>2, StagedInvariant
<1>7. \A i \in 1..N : i - 1 \in 0..N
  OBVIOUS
<1>8. IsStaged(g, N, U, P, a, F)
  BY <1>4, <1>5, <1>6, <1>7 DEF IsStaged
<1> QED BY <1>8

-----------------------------------------------------------------------------
(* Solution chains.                                                        *)

\* No set of variables is closed under the solution: no chain runs in a cycle.
Acyclic(s) == \A S \in SUBSET Vars : S # {} => \E v \in S : s[v] \notin S

Solutions == [Vars -> Types \cup {None}]

LEMMA DerefType ==
  ASSUME NEW s \in Solutions, NEW t \in Types
  PROVE  Deref(s, t) \in Types
BY DEF Solutions, Deref, Types

\* The values Zonk goes through.
LEMMA ZonkChain ==
  ASSUME NEW s \in Solutions, NEW t \in Types
  PROVE  \E z \in [0..Cardinality(Vars) -> Types] :
           /\ z[0] = t
           /\ \A i \in 1..Cardinality(Vars) : z[i] = Deref(s, z[i - 1])
           /\ Zonk(s, t) = z[Cardinality(Vars)]
<1> DEFINE N == Cardinality(Vars)
           Body(g) == [i \in 0..N |-> IF i = 0 THEN t ELSE Deref(s, g[i - 1])]
           F == [i \in Nat |-> [x \in Types |-> Deref(s, x)]]
           z == CHOOSE g : g = Body(g)
<1>1. N \in Nat
  BY SignatureAssumption, FS_CardinalityType
<1>2. F \in [Nat -> [Types -> Types]]
  BY DerefType
<1>3. PICK g : IsChain(g, N, Types, t, F)
  <2> HIDE DEF F, N
  <2> QED BY <1>1, <1>2, ChainExists
<1>4. g = Body(g)
  <2> HIDE DEF N
  <2>1. ASSUME NEW i \in 0..N PROVE g[i] = IF i = 0 THEN t ELSE Deref(s, g[i - 1])
    <3>1. CASE i = 0
      BY <1>3, <3>1 DEF IsChain
    <3>2. CASE i # 0
      <4>1. i \in 1..N /\ i - 1 \in 0..N /\ i \in Nat
        BY <1>1, <3>2
      <4>2. g[i] = F[i][g[i - 1]] /\ g[i - 1] \in Types
        BY <1>3, <4>1 DEF IsChain
      <4> QED BY <4>1, <4>2, <3>2
    <3> QED BY <3>1, <3>2
  <2>2. g = [i \in 0..N |-> g[i]]
    BY <1>3 DEF IsChain
  <2> QED BY <2>1, <2>2
<1>5. z = Body(z)
  <2> HIDE DEF Body
  <2> QED BY <1>4
<1>6. Zonk(s, t) = z[N]
  BY DEF Zonk
<1> HIDE DEF z, N
<1>7. z[0] = t
  BY <1>1, <1>5
<1>8. ASSUME NEW i \in 1..N PROVE z[i] = Deref(s, z[i - 1])
  <2>1. i \in 0..N /\ i # 0
    BY <1>1
  <2> QED BY <1>5, <2>1
<1>9. \A i \in 0..N : z[i] \in Types
  BY <1>1, <1>7, <1>8, ChainInvariant, DerefType
<1>10. z \in [0..N -> Types]
  BY <1>5, <1>9
<1> QED BY <1>6, <1>7, <1>8, <1>10 DEF N

\* What Zonk leaves is not solved: a chain of distinct variables is no longer
\* than the set of variables.
LEMMA ZonkRoot ==
  ASSUME NEW s \in Solutions, Acyclic(s), NEW t \in Types
  PROVE  /\ Zonk(s, t) \in Types
         /\ Zonk(s, t) \in Vars => s[Zonk(s, t)] = None
<1> DEFINE N == Cardinality(Vars)
<1>1. N \in Nat
  BY SignatureAssumption, FS_CardinalityType
<1>2. PICK z \in [0..N -> Types] :
        /\ z[0] = t
        /\ \A i \in 1..N : z[i] = Deref(s, z[i - 1])
        /\ Zonk(s, t) = z[N]
  BY ZonkChain
<1> HIDE DEF N
<1>3. z[N] \in Types
  BY <1>1, <1>2
<1>4. SUFFICES ASSUME z[N] \in Vars, s[z[N]] # None PROVE FALSE
  BY <1>2, <1>3
<1> DEFINE Moves(i) == z[i] \in Vars /\ s[z[i]] # None
<1>5. \A i \in 0..N : Moves(i)
  <2> DEFINE S == {k \in Nat : k \in 0..N => Moves(N - k)}
  <2>1. 0 \in S
    BY <1>1, <1>4
  <2>2. ASSUME NEW k \in Nat, k \in S PROVE k + 1 \in S
    <3>1. SUFFICES ASSUME k + 1 \in 0..N PROVE Moves(N - (k + 1))
      OBVIOUS
    <3>2. /\ N - k \in 1..N /\ k \in 0..N /\ N - (k + 1) = (N - k) - 1
      BY <1>1, <3>1
    <3>3. z[N - k] = Deref(s, z[(N - k) - 1]) /\ Moves(N - k)
      BY <1>2, <2>2, <3>2
    <3>4. \A x : Deref(s, x) \in Vars /\ s[Deref(s, x)] # None => x \in Vars /\ s[x] # None
      BY DEF Deref
    <3>5. Moves((N - k) - 1)
      BY <3>3, <3>4
    <3> QED BY <3>2, <3>5
  <2>3. Nat \subseteq S
    <3> HIDE DEF S
    <3> QED BY <2>1, <2>2, NatSetInduction
  <2>4. ASSUME NEW i \in 0..N PROVE Moves(i)
    <3>1. N - i \in Nat /\ N - i \in 0..N /\ N - (N - i) = i
      BY <1>1
    <3>2. N - i \in S
      BY <2>3, <3>1
    <3>3. Moves(N - (N - i))
      BY <3>1, <3>2
    <3> QED BY <3>1, <3>3
  <2> QED BY <2>4
<1>6. \A i \in 1..N : z[i] = s[z[i - 1]]
  <2>1. SUFFICES ASSUME NEW i \in 1..N PROVE z[i] = s[z[i - 1]]
    OBVIOUS
  <2>2. i - 1 \in 0..N
    BY <1>1
  <2> QED BY <1>2, <1>5, <2>2 DEF Deref
<1>7. PICK i, j \in 0..N : i # j /\ z[i] = z[j]
  <2> DEFINE I == 0..N
  <2>1. z \in [I -> Vars]
    BY <1>2, <1>5
  <2>2. IsFiniteSet(I) /\ Cardinality(I) = N + 1
    BY <1>1, FS_Interval
  <2>3. Cardinality(Vars) < Cardinality(I)
    BY <1>1, <2>2 DEF N
  <2> HIDE DEF I
  <2>4. \E i, j \in I : i # j /\ z[i] = z[j]
    <3>1. IsFiniteSet(Vars)
      BY SignatureAssumption
    <3> QED BY ONLY <2>1, <2>2, <2>3, <3>1, FS_PigeonHole
  <2> QED BY <2>4 DEF I
<1>8. ASSUME NEW a \in 0..N, NEW b \in 0..N, a < b, z[a] = z[b] PROVE FALSE
  <2> DEFINE S == {z[k] : k \in a..(b - 1)}
  <2>1. S \subseteq Vars
    BY <1>1, <1>5, <1>8
  <2>2. z[a] \in S
    <3>1. a \in a..(b - 1)
      BY <1>1, <1>8
    <3> QED BY <3>1
  <2>3. ASSUME NEW k \in a..(b - 1) PROVE s[z[k]] \in S
    <3>1. k + 1 \in 1..N /\ (k + 1) - 1 = k
      BY <1>1, <1>8
    <3>2. s[z[k]] = z[k + 1]
      BY <1>6, <3>1
    <3>3. CASE k + 1 = b
      BY <1>1, <1>8, <3>2, <3>3
    <3>4. CASE k + 1 # b
      <4>1. k + 1 \in a..(b - 1)
        BY <1>1, <1>8, <3>4
      <4> QED BY <3>2, <4>1
    <3> QED BY <3>3, <3>4
  <2> QED BY <2>1, <2>2, <2>3 DEF Acyclic
<1>9. i < j \/ j < i
  BY <1>1, <1>7
<1> QED BY <1>7, <1>8, <1>9

\* A type that is not solved is left alone.
LEMMA ZonkStays ==
  ASSUME NEW s \in Solutions, NEW t \in Types, t \in Vars => s[t] = None
  PROVE  Zonk(s, t) = t
<1> DEFINE N == Cardinality(Vars)
<1>1. N \in Nat
  BY SignatureAssumption, FS_CardinalityType
<1>2. PICK z \in [0..N -> Types] :
        /\ z[0] = t
        /\ \A i \in 1..N : z[i] = Deref(s, z[i - 1])
        /\ Zonk(s, t) = z[N]
  BY ZonkChain
<1> HIDE DEF N
<1> DEFINE D == {t}
<1>3. z[0] \in D /\ \A i \in 1..N : z[i - 1] \in D => z[i] \in D
  BY <1>2 DEF Deref
<1>4. \A i \in 0..N : z[i] \in D
  <2> HIDE DEF D
  <2> QED BY <1>1, <1>3, ChainInvariant
<1> QED BY <1>1, <1>2, <1>4

\* Following the chain of its solution gives the same as following t's own.
LEMMA ZonkStep ==
  ASSUME NEW s \in Solutions, Acyclic(s), NEW t \in Vars, s[t] # None
  PROVE  Zonk(s, t) = Zonk(s, s[t])
<1> DEFINE N == Cardinality(Vars)
           u == s[t]
<1>1. N \in Nat /\ N # 0
  BY SignatureAssumption, FS_CardinalityType, FS_EmptySet
<1>2. t \in Types /\ u \in Types /\ Deref(s, t) = u
  BY DEF Types, Solutions, Deref
<1>3. PICK z \in [0..N -> Types] :
        /\ z[0] = t
        /\ \A i \in 1..N : z[i] = Deref(s, z[i - 1])
        /\ Zonk(s, t) = z[N]
  BY <1>2, ZonkChain
<1>4. PICK y \in [0..N -> Types] :
        /\ y[0] = u
        /\ \A i \in 1..N : y[i] = Deref(s, y[i - 1])
        /\ Zonk(s, u) = y[N]
  BY <1>2, ZonkChain
<1> HIDE DEF N, u
<1>5. \A i \in 0..(N - 1) : y[i] = z[i + 1]
  <2> DEFINE S == {i \in Nat : i \in 0..(N - 1) => y[i] = z[i + 1]}
  <2>1. 0 \in S
    <3>1. 1 \in 1..N /\ 1 - 1 = 0
      BY <1>1
    <3> QED BY <1>2, <1>3, <1>4, <3>1
  <2>2. ASSUME NEW i \in Nat, i \in S PROVE i + 1 \in S
    <3>1. SUFFICES ASSUME i + 1 \in 0..(N - 1) PROVE y[i + 1] = z[(i + 1) + 1]
      OBVIOUS
    <3>2. /\ i \in 0..(N - 1) /\ i + 1 \in 1..N /\ (i + 1) - 1 = i
          /\ (i + 1) + 1 \in 1..N /\ ((i + 1) + 1) - 1 = i + 1
      BY <1>1, <3>1
    <3> QED BY <1>3, <1>4, <2>2, <3>2
  <2>3. Nat \subseteq S
    <3> HIDE DEF S
    <3> QED BY <2>1, <2>2, NatSetInduction
  <2> QED BY <1>1, <2>3
<1>6. y[N - 1] = z[N] /\ y[N] = Deref(s, y[N - 1])
  BY <1>1, <1>4, <1>5
<1>7. Deref(s, z[N]) = z[N]
  BY <1>2, <1>3, ZonkRoot DEF Deref
<1> QED BY <1>3, <1>4, <1>6, <1>7 DEF u

\* Zonking twice is zonking once.
LEMMA ZonkIdempotent ==
  ASSUME NEW s \in Solutions, Acyclic(s), NEW t \in Types
  PROVE  Zonk(s, Zonk(s, t)) = Zonk(s, t)
BY ZonkRoot, ZonkStays

\* Writing the solution of a root keeps the chains acyclic, as long as what it
\* is solved with is not solved itself and is another type.
LEMMA AcyclicExtend ==
  ASSUME NEW s \in Solutions, Acyclic(s), NEW m \in Vars, NEW t \in Types,
         m # t, t \in Vars => s[t] = None
  PROVE  /\ [s EXCEPT ![m] = t] \in Solutions
         /\ Acyclic([s EXCEPT ![m] = t])
<1> DEFINE r == [s EXCEPT ![m] = t]
<1>1. r \in Solutions
  BY DEF Solutions
<1>2. SUFFICES ASSUME NEW S \in SUBSET Vars, S # {}, \A v \in S : r[v] \in S
               PROVE  FALSE
  BY <1>1 DEF Acyclic
<1>3. None \notin Vars
  BY SignatureAssumption DEF Types
<1>4. t \notin S
  <2>1. SUFFICES ASSUME t \in S PROVE FALSE
    OBVIOUS
  <2>2. r[t] = None
    BY <2>1 DEF Solutions
  <2> QED BY <1>2, <1>3, <2>1, <2>2
<1>5. m \notin S
  BY <1>2, <1>4 DEF Solutions
<1>6. \A v \in S : s[v] \in S
  BY <1>2, <1>5 DEF Solutions
<1> QED BY <1>2, <1>6 DEF Acyclic

\* Taking a solution away keeps them acyclic.
LEMMA AcyclicForget ==
  ASSUME NEW s \in Solutions, Acyclic(s), NEW v \in Vars
  PROVE  /\ [s EXCEPT ![v] = None] \in Solutions
         /\ Acyclic([s EXCEPT ![v] = None])
<1> DEFINE r == [s EXCEPT ![v] = None]
<1>1. r \in Solutions
  BY DEF Solutions
<1>2. SUFFICES ASSUME NEW S \in SUBSET Vars, S # {}, \A w \in S : r[w] \in S
               PROVE  FALSE
  BY <1>1 DEF Acyclic
<1>3. None \notin Vars
  BY SignatureAssumption DEF Types
<1>4. v \notin S
  BY <1>2, <1>3 DEF Solutions
<1>5. \A w \in S : s[w] \in S
  BY <1>2, <1>4 DEF Solutions
<1> QED BY <1>2, <1>5 DEF Acyclic

\* What a new solution m := t changes: types that zonked to m now zonk to t.
LEMMA ZonkExtend ==
  ASSUME NEW s \in Solutions, Acyclic(s), NEW m \in Vars, s[m] = None,
         NEW t \in Types, m # t, t \in Vars => s[t] = None, NEW x \in Types
  PROVE  Zonk([s EXCEPT ![m] = t], x) = IF Zonk(s, x) = m THEN t ELSE Zonk(s, x)
<1> DEFINE r == [s EXCEPT ![m] = t]
           Fits(y) == Zonk(r, y) = IF Zonk(s, y) = m THEN t ELSE Zonk(s, y)
           B == {y \in Vars : ~Fits(y)}
<1>1. r \in Solutions /\ Acyclic(r)
  BY AcyclicExtend
<1>2. ASSUME NEW y \in Types, y \notin Vars PROVE Fits(y)
  <2>1. Zonk(r, y) = y /\ Zonk(s, y) = y
    BY <1>1, <1>2, ZonkStays
  <2> QED BY <1>2, <2>1
<1>3. ASSUME NEW y \in B PROVE s[y] \in B
  <2>1. y \in Vars /\ y \in Types /\ ~Fits(y)
    BY DEF Types
  <2>2. y # m
    <3>1. SUFFICES ASSUME y = m PROVE Fits(m)
      BY <2>1
    <3>2. Zonk(s, m) = m
      BY <2>1, <3>1, ZonkStays
    <3>3. r[m] = t /\ t # None
      BY SignatureAssumption DEF Solutions
    <3>4. Zonk(r, m) = Zonk(r, t)
      BY <1>1, <3>3, ZonkStep
    <3>5. t \in Vars => r[t] = None
      BY DEF Solutions
    <3>6. Zonk(r, t) = t
      BY <1>1, <3>5, ZonkStays
    <3> QED BY <3>2, <3>4, <3>6
  <2>3. r[y] = s[y]
    BY <2>1, <2>2 DEF Solutions
  <2>4. s[y] # None
    <3>1. SUFFICES ASSUME s[y] = None PROVE FALSE
      OBVIOUS
    <3>2. Zonk(s, y) = y /\ Zonk(r, y) = y
      BY <1>1, <2>1, <2>3, <3>1, ZonkStays
    <3> QED BY <2>1, <2>2, <3>2
  <2>5. Zonk(s, y) = Zonk(s, s[y]) /\ Zonk(r, y) = Zonk(r, s[y])
    BY <1>1, <2>1, <2>3, <2>4, ZonkStep
  <2>6. s[y] \in Types
    BY <2>1, <2>4 DEF Solutions
  <2>7. ~Fits(s[y])
    BY <2>1, <2>5
  <2>8. s[y] \in Vars
    BY <1>2, <2>6, <2>7
  <2> HIDE DEF Fits
  <2> QED BY <2>7, <2>8
<1>4. B = {}
  <2> HIDE DEF B
  <2>1. B \subseteq Vars
    BY DEF B
  <2> QED BY <1>3, <2>1 DEF Acyclic
<1>5. Fits(x)
  <2> HIDE DEF Fits
  <2> QED BY <1>2, <1>4
<1> QED BY <1>5

-----------------------------------------------------------------------------
(* Sequences that hold a constraint once, and the sets of their elements.  *)
(* Copies of nested equalities are not counted: the index holds as many of *)
(* them as it happens to, and nothing below is said about them but where   *)
(* they come from.                                                         *)

Once(q)  == \A i, j \in DOMAIN q : q[i] = q[j] /\ q[i] \notin Nested => i = j
Elems(q) == ToSet(q) \ Nested

LEMMA EmptyElems == ToSet(<<>>) = {} /\ Elems(<<>>) = {} /\ Once(<<>>)
BY DEF ToSet, Once, Elems

LEMMA ElemsType ==
  ASSUME NEW D, NEW q \in Seq(D)
  PROVE  /\ ToSet(q) \subseteq D /\ Elems(q) \subseteq ToSet(q) /\ Elems(q) \subseteq D
         /\ \A c : Contains(q, c) <=> c \in ToSet(q)
         /\ q # <<>> => ToSet(q) # {}
<1>1. DOMAIN q = 1..Len(q) /\ Len(q) \in Nat /\ \A i \in DOMAIN q : q[i] \in D
  OBVIOUS
<1>2. ToSet(q) \subseteq D /\ \A c : Contains(q, c) <=> c \in ToSet(q)
  BY <1>1 DEF ToSet, Contains
<1>3. ASSUME q # <<>> PROVE q[1] \in ToSet(q)
  <2>1. 1 \in DOMAIN q
    BY <1>1, <1>3
  <2> QED BY <2>1 DEF ToSet
<1> QED BY <1>2, <1>3 DEF Elems

LEMMA AppendElems ==
  ASSUME NEW D, NEW q \in Seq(D), NEW c \in D
  PROVE  /\ Append(q, c) \in Seq(D)
         /\ ToSet(Append(q, c)) = ToSet(q) \cup {c}
         /\ Elems(Append(q, c)) = Elems(q) \cup ({c} \ Nested)
         /\ Once(q) /\ c \notin Elems(q) => Once(Append(q, c))
<1> DEFINE r == Append(q, c)
<1>1. /\ r \in Seq(D) /\ Len(r) = Len(q) + 1 /\ r[Len(q) + 1] = c
      /\ \A i \in 1..Len(q) : r[i] = q[i]
  OBVIOUS
<1>2. DOMAIN r = 1..(Len(q) + 1) /\ DOMAIN q = 1..Len(q) /\ Len(q) \in Nat
  OBVIOUS
<1> HIDE DEF r
<1>3. ToSet(r) = ToSet(q) \cup {c}
  <2>1. \A i \in DOMAIN r : i \in DOMAIN q \/ i = Len(q) + 1
    BY <1>2
  <2>2. ToSet(r) \subseteq ToSet(q) \cup {c}
    BY <1>1, <1>2, <2>1 DEF ToSet
  <2>3. DOMAIN q \subseteq DOMAIN r /\ Len(q) + 1 \in DOMAIN r
    BY <1>2
  <2>4. ToSet(q) \subseteq ToSet(r)
    BY <1>1, <1>2, <2>3 DEF ToSet
  <2>5. c \in ToSet(r)
    BY <1>1, <2>3 DEF ToSet
  <2> QED BY <2>2, <2>4, <2>5
<1>4. ASSUME Once(q), c \notin Elems(q), NEW i \in DOMAIN r, NEW j \in DOMAIN r,
             r[i] = r[j], r[i] \notin Nested
      PROVE  i = j
  <2>1. \A k \in 1..Len(q) : q[k] # c \/ c \in Nested
    BY <1>2, <1>4 DEF ToSet, Elems
  <2> QED BY <1>1, <1>2, <1>4, <2>1 DEF Once
<1>5. Once(q) /\ c \notin Elems(q) => Once(r)
  BY <1>4 DEF Once
<1> QED BY <1>1, <1>3, <1>5 DEF r, Elems

LEMMA ConcatElems ==
  ASSUME NEW D, NEW q \in Seq(D), NEW r \in Seq(D)
  PROVE  /\ q \o r \in Seq(D)
         /\ ToSet(q \o r) = ToSet(q) \cup ToSet(r)
         /\ Elems(q \o r) = Elems(q) \cup Elems(r)
         /\ Once(q) /\ Once(r) /\ Elems(q) \cap Elems(r) = {} => Once(q \o r)
<1> DEFINE u == q \o r
<1>1. /\ u \in Seq(D) /\ Len(u) = Len(q) + Len(r)
      /\ \A i \in 1..Len(q) : u[i] = q[i]
      /\ \A i \in 1..Len(r) : u[Len(q) + i] = r[i]
  OBVIOUS
<1>2. /\ DOMAIN u = 1..(Len(q) + Len(r)) /\ DOMAIN q = 1..Len(q) /\ DOMAIN r = 1..Len(r)
      /\ Len(q) \in Nat /\ Len(r) \in Nat
  OBVIOUS
<1> HIDE DEF u
<1>3. ASSUME NEW i \in DOMAIN u
      PROVE  \/ i \in DOMAIN q /\ u[i] = q[i]
             \/ i - Len(q) \in DOMAIN r /\ u[i] = r[i - Len(q)]
  <2>1. CASE i <= Len(q)
    BY <1>1, <1>2, <2>1
  <2>2. CASE i > Len(q)
    <3>1. i - Len(q) \in 1..Len(r) /\ Len(q) + (i - Len(q)) = i
      BY <1>2, <2>2
    <3> QED BY <1>1, <1>2, <3>1
  <2> QED BY <1>2, <2>1, <2>2
<1>4. ToSet(u) = ToSet(q) \cup ToSet(r)
  <2>1. ToSet(u) \subseteq ToSet(q) \cup ToSet(r)
    BY <1>3 DEF ToSet
  <2>2. ToSet(q) \subseteq ToSet(u)
    <3>1. DOMAIN q \subseteq DOMAIN u
      BY <1>2
    <3> QED BY <1>1, <1>2, <3>1 DEF ToSet
  <2>3. ToSet(r) \subseteq ToSet(u)
    <3>1. \A i \in DOMAIN r : Len(q) + i \in DOMAIN u
      BY <1>2
    <3> QED BY <1>1, <1>2, <3>1 DEF ToSet
  <2> QED BY <2>1, <2>2, <2>3
<1>5. ASSUME Once(q), Once(r), Elems(q) \cap Elems(r) = {},
             NEW i \in DOMAIN u, NEW j \in DOMAIN u, u[i] = u[j], u[i] \notin Nested
      PROVE  i = j
  <2>1. i \in Int /\ j \in Int /\ Len(q) \in Int
    BY <1>2
  <2>2. \A a \in DOMAIN q, b \in DOMAIN r : q[a] # r[b] \/ q[a] \in Nested
    BY <1>5 DEF ToSet, Elems
  <2>3. CASE i \in DOMAIN q /\ u[i] = q[i] /\ j \in DOMAIN q /\ u[j] = q[j]
    BY <1>5, <2>3 DEF Once
  <2>4. CASE /\ i - Len(q) \in DOMAIN r /\ u[i] = r[i - Len(q)]
             /\ j - Len(q) \in DOMAIN r /\ u[j] = r[j - Len(q)]
    <3>1. i - Len(q) = j - Len(q)
      BY <1>5, <2>4 DEF Once
    <3> QED BY <2>1, <3>1
  <2> QED BY <1>3, <1>5, <2>2, <2>3, <2>4
<1>6. Once(q) /\ Once(r) /\ Elems(q) \cap Elems(r) = {} => Once(u)
  BY <1>5 DEF Once
<1> QED BY <1>1, <1>4, <1>6 DEF u, Elems

LEMMA TailElems ==
  ASSUME NEW D, NEW q \in Seq(D), q # <<>>
  PROVE  /\ Head(q) \in D /\ Tail(q) \in Seq(D)
         /\ ToSet(q) = {Head(q)} \cup ToSet(Tail(q))
         /\ Elems(q) = ({Head(q)} \ Nested) \cup Elems(Tail(q))
         /\ Once(q) => Once(Tail(q)) /\ Head(q) \notin Elems(Tail(q))
<1> DEFINE r == Tail(q)
<1>1. /\ r \in Seq(D) /\ Len(r) = Len(q) - 1 /\ Head(q) = q[1] /\ Head(q) \in D
      /\ \A i \in 1..Len(r) : r[i] = q[i + 1]
      /\ Len(q) \in Nat /\ Len(q) # 0
  OBVIOUS
<1>2. DOMAIN r = 1..(Len(q) - 1) /\ DOMAIN q = 1..Len(q)
  BY <1>1
<1> HIDE DEF r
<1>3. ASSUME NEW i \in DOMAIN q PROVE i = 1 \/ (i - 1 \in DOMAIN r /\ q[i] = r[i - 1])
  <2>1. CASE i # 1
    <3>1. i - 1 \in 1..Len(r) /\ (i - 1) + 1 = i
      BY <1>1, <1>2, <2>1
    <3> QED BY <1>1, <1>2, <3>1
  <2> QED BY <2>1
<1>4. \A i \in DOMAIN r : i + 1 \in DOMAIN q /\ r[i] = q[i + 1] /\ i + 1 # 1 /\ i \in Int
  BY <1>1, <1>2
<1>5. 1 \in DOMAIN q
  BY <1>1, <1>2
<1>6. ToSet(q) = {Head(q)} \cup ToSet(r)
  <2>1. ToSet(q) \subseteq {Head(q)} \cup ToSet(r)
    BY <1>1, <1>3 DEF ToSet
  <2>2. ToSet(r) \subseteq ToSet(q)
    BY <1>4 DEF ToSet
  <2>3. Head(q) \in ToSet(q)
    BY <1>1, <1>5 DEF ToSet
  <2> QED BY <2>1, <2>2, <2>3
<1>7. ASSUME Once(q) PROVE Once(r) /\ Head(q) \notin Elems(r)
  <2>1. ASSUME NEW i \in DOMAIN r, NEW j \in DOMAIN r, r[i] = r[j], r[i] \notin Nested
        PROVE  i = j
    <3>1. i + 1 = j + 1
      BY <1>4, <1>7, <2>1 DEF Once
    <3> QED BY <1>4, <3>1
  <2>2. ASSUME NEW i \in DOMAIN r, r[i] = Head(q), r[i] \notin Nested PROVE FALSE
    BY <1>1, <1>4, <1>5, <1>7, <2>2 DEF Once
  <2> QED BY <2>1, <2>2 DEF Once, ToSet, Elems
<1> QED BY <1>1, <1>6, <1>7 DEF r, Elems

\* RemoveFirst takes the only occurrence of c out; of a nested equality, one.
LEMMA RemoveElems ==
  ASSUME NEW D, NEW q \in Seq(D), NEW c
  PROVE  /\ RemoveFirst(q, c) \in Seq(D)
         /\ ToSet(RemoveFirst(q, c)) \subseteq ToSet(q)
         /\ Once(q) => /\ Once(RemoveFirst(q, c))
                       /\ Elems(RemoveFirst(q, c)) = Elems(q) \ {c}
<1>1. DOMAIN q = 1..Len(q) /\ Len(q) \in Nat
  OBVIOUS
<1>2. CASE ~\E i \in 1..Len(q) : q[i] = c
  <2>1. RemoveFirst(q, c) = q
    BY <1>2 DEF RemoveFirst
  <2>2. c \notin ToSet(q)
    BY <1>1, <1>2 DEF ToSet
  <2> QED BY <2>1, <2>2 DEF Elems
<1>3. CASE \E i \in 1..Len(q) : q[i] = c
  <2> DEFINE I == {i \in 1..Len(q) : q[i] = c}
             k == SelectInSeq(q, LAMBDA v : v = c)
             r == RemoveFirst(q, c)
  <2>1. k \in I
    <3>1. I \subseteq Nat /\ I # {}
      BY <1>1, <1>3
    <3>2. k = Min(I)
      BY <3>1 DEF SelectInSeq
    <3>3. \E n \in I : \A j \in I : n <= j
      <4> HIDE DEF I
      <4> QED BY <3>1, LeastNumber
    <3> HIDE DEF I
    <3> QED BY <3>2, <3>3 DEF Min
  <2>2. r = SubSeq(q, 1, k - 1) \o SubSeq(q, k + 1, Len(q))
    BY <1>3 DEF RemoveFirst, RemoveAt
  <2>3. k \in 1..Len(q) /\ q[k] = c
    BY <2>1
  <2> HIDE DEF k, r
  <2>4. /\ r \in Seq(D) /\ Len(r) = Len(q) - 1
        /\ \A i \in 1..(k - 1) : r[i] = q[i]
        /\ \A i \in k..(Len(q) - 1) : r[i] = q[i + 1]
    <3> DEFINE u == SubSeq(q, 1, k - 1)
               v == SubSeq(q, k + 1, Len(q))
    <3>1. /\ u \in Seq(D) /\ Len(u) = k - 1 /\ \A i \in 1..(k - 1) : u[i] = q[i]
      BY <1>1, <2>3
    <3>2. /\ v \in Seq(D) /\ Len(v) = Len(q) - k
          /\ \A i \in 1..(Len(q) - k) : v[i] = q[k + i]
      <4>1. \A i \in (k + 1)..Len(q) : q[i] \in D
        BY <1>1, <2>3
      <4>2. /\ v \in Seq(D)
            /\ Len(v) = IF k + 1 <= Len(q) THEN Len(q) - (k + 1) + 1 ELSE 0
            /\ \A i \in 1..(Len(q) - (k + 1) + 1) : v[i] = q[(k + 1) + i - 1]
        <5> k + 1 \in Int /\ Len(q) \in Int
          BY <1>1, <2>3
        <5> DEFINE a == k + 1
                   b == Len(q)
        <5> HIDE DEF a, b
        <5>1. a \in Int /\ b \in Int /\ \A i \in a..b : q[i] \in D
          BY <4>1 DEF a, b
        <5>2. /\ SubSeq(q, a, b) \in Seq(D)
              /\ Len(SubSeq(q, a, b)) = IF a <= b THEN b - a + 1 ELSE 0
              /\ \A i \in 1..(b - a + 1) : SubSeq(q, a, b)[i] = q[a + i - 1]
          BY <5>1, SubSeqProperties
        <5> QED BY <5>2 DEF a, b
      <4>3. \A i \in 1..(Len(q) - k) : (k + 1) + i - 1 = k + i
        BY <1>1, <2>3
      <4>4. Len(q) - (k + 1) + 1 = Len(q) - k /\ (~(k + 1 <= Len(q)) => Len(q) - k = 0)
        <5>1. \A x, n \in Nat : /\ n - (x + 1) + 1 = n - x
                               /\ x <= n /\ ~(x + 1 <= n) => n - x = 0
          OBVIOUS
        <5>2. k \in Nat /\ k <= Len(q)
          BY <1>1, <2>3
        <5>3. Len(q) \in Nat
          BY <1>1
        <5> HIDE DEF k
        <5> QED BY ONLY <5>1, <5>2, <5>3
      <4> HIDE DEF v
      <4> QED BY <1>1, <2>3, <4>2, <4>3, <4>4
    <3>3. r = u \o v
      BY <2>2
    <3> HIDE DEF u, v
    <3>4. /\ r \in Seq(D) /\ Len(r) = Len(u) + Len(v)
          /\ \A i \in 1..Len(u) : r[i] = u[i]
          /\ \A i \in 1..Len(v) : r[Len(u) + i] = v[i]
      <4>1. u \in Seq(D) /\ v \in Seq(D)
        BY <3>1, <3>2
      <4> QED BY <3>3, <4>1
    <3>5. ASSUME NEW i \in k..(Len(q) - 1) PROVE r[i] = q[i + 1]
      <4>1. /\ i - (k - 1) \in 1..(Len(q) - k) /\ (k - 1) + (i - (k - 1)) = i
            /\ k + (i - (k - 1)) = i + 1
        BY <1>1, <2>3
      <4> QED BY <3>1, <3>2, <3>4, <4>1, SMTT(40)
    <3> QED BY <1>1, <2>3, <3>1, <3>2, <3>4, <3>5
  <2>5. DOMAIN r = 1..(Len(q) - 1)
    BY <1>1, <2>3, <2>4
  <2> DEFINE At(i) == IF i < k THEN i ELSE i + 1
  <2>6. \A i \in DOMAIN r : At(i) \in DOMAIN q /\ r[i] = q[At(i)] /\ At(i) # k
    BY <1>1, <2>3, <2>4, <2>5
  <2>7. \A i, j \in DOMAIN r : At(i) = At(j) => i = j
    BY <1>1, <2>3, <2>5
  <2>8. \A j \in DOMAIN q : j # k => \E i \in DOMAIN r : j = At(i)
    <3>1. SUFFICES ASSUME NEW j \in DOMAIN q, j # k PROVE \E i \in DOMAIN r : j = At(i)
      OBVIOUS
    <3>2. CASE j < k
      <4>1. j \in DOMAIN r /\ j = At(j)
        BY <1>1, <2>3, <2>5, <3>2
      <4> QED BY <4>1
    <3>3. CASE j > k
      <4>1. j - 1 \in DOMAIN r /\ j = At(j - 1)
        BY <1>1, <2>3, <2>5, <3>3
      <4> QED BY <4>1
    <3> QED BY <1>1, <2>3, <3>1, <3>2, <3>3
  <2> HIDE DEF At
  <2>9. ToSet(r) \subseteq ToSet(q)
    BY <2>6 DEF ToSet
  <2>10. ASSUME Once(q) PROVE Once(r) /\ Elems(r) = Elems(q) \ {c}
    <3>1. Once(r)
      BY <2>6, <2>7, <2>10 DEF Once
    <3>2. c \notin Elems(r)
      BY <1>1, <2>3, <2>6, <2>10 DEF Once, ToSet, Elems
    <3>3. ASSUME NEW d \in ToSet(q), d # c PROVE d \in ToSet(r)
      <4>1. PICK j \in DOMAIN q : d = q[j]
        BY DEF ToSet
      <4>2. j # k
        BY <2>3, <3>3, <4>1
      <4>3. PICK i \in DOMAIN r : j = At(i)
        BY <2>8, <4>2
      <4>4. r[i] = d
        BY <2>6, <4>1, <4>3
      <4> QED BY <4>4 DEF ToSet
    <3> QED BY <2>9, <3>1, <3>2, <3>3 DEF Elems
  <2> QED BY <2>4, <2>9, <2>10 DEF r
<1> QED BY <1>2, <1>3

\* Sift is the subsequence at the places of S.
LEMMA SiftElems ==
  ASSUME NEW D, NEW q \in Seq(D), NEW S
  PROVE  /\ Inert!Sift(q, S) \in Seq(D)
         /\ ToSet(Inert!Sift(q, S)) = {q[i] : i \in S \cap DOMAIN q}
         /\ Once(q) => Once(Inert!Sift(q, S))
<1> DEFINE N == Len(q)
           Body(g) == [i \in 0..N |->
             IF i = 0 THEN <<>> ELSE IF i \in S THEN Append(g[i - 1], q[i]) ELSE g[i - 1]]
           F == [i \in Nat |-> [x \in Seq(D) |->
                  IF i \in 1..N /\ i \in S THEN Append(x, q[i]) ELSE x]]
           k == CHOOSE g : g = Body(g)
<1>1. N \in Nat /\ DOMAIN q = 1..N /\ \A i \in 1..N : q[i] \in D
  OBVIOUS
<1>2. F \in [Nat -> [Seq(D) -> Seq(D)]]
  <2>1. ASSUME NEW i \in Nat, NEW x \in Seq(D)
        PROVE  (IF i \in 1..N /\ i \in S THEN Append(x, q[i]) ELSE x) \in Seq(D)
    BY <1>1
  <2> QED BY <2>1
<1>3. PICK g : IsChain(g, N, Seq(D), <<>>, F)
  <2>1. <<>> \in Seq(D)
    OBVIOUS
  <2> HIDE DEF F, N
  <2> QED BY <1>1, <1>2, <2>1, ChainExists
<1> HIDE DEF N
<1>4. g = Body(g)
  <2>1. ASSUME NEW i \in 0..N
        PROVE  g[i] = IF i = 0 THEN <<>> ELSE IF i \in S THEN Append(g[i - 1], q[i]) ELSE g[i - 1]
    <3>1. CASE i = 0
      BY <1>3, <3>1 DEF IsChain
    <3>2. CASE i # 0
      <4>1. i \in 1..N /\ i - 1 \in 0..N /\ i \in Nat
        BY <1>1, <3>2
      <4>2. g[i] = F[i][g[i - 1]] /\ g[i - 1] \in Seq(D)
        BY <1>3, <4>1 DEF IsChain
      <4> QED BY <4>1, <4>2, <3>2
    <3> QED BY <3>1, <3>2
  <2>2. g = [i \in 0..N |-> g[i]]
    BY <1>3 DEF IsChain
  <2> QED BY <2>1, <2>2
<1>5. k = Body(k)
  <2> HIDE DEF Body
  <2> QED BY <1>4
<1>6. Inert!Sift(q, S) = k[N]
  BY DEF Inert!Sift, N
<1> HIDE DEF k
<1>7. k[0] = <<>>
  BY <1>1, <1>5
<1>8. ASSUME NEW i \in 1..N
      PROVE  k[i] = IF i \in S THEN Append(k[i - 1], q[i]) ELSE k[i - 1]
  <2>1. i \in 0..N /\ i # 0
    BY <1>1
  <2> QED BY <1>5, <2>1
<1> DEFINE Upto(i) == {q[j] : j \in S \cap (1..i)}
           Good(i) == /\ k[i] \in Seq(D)
                      /\ ToSet(k[i]) = Upto(i)
                      /\ Once(q) => Once(k[i])
           T == {i \in Nat : i \in 0..N => Good(i)}
<1>9. Nat \subseteq T
  <2>1. 0 \in T
    <3>1. Upto(0) = {}
      OBVIOUS
    <3>2. <<>> \in Seq(D)
      OBVIOUS
    <3> HIDE DEF Upto
    <3> QED BY <1>7, <3>1, <3>2, EmptyElems
  <2>2. ASSUME NEW i \in Nat, i \in T PROVE i + 1 \in T
    <3>1. SUFFICES ASSUME i + 1 \in 0..N PROVE Good(i + 1)
      OBVIOUS
    <3>2. i + 1 \in 1..N /\ (i + 1) - 1 = i /\ i \in 0..N
      BY <1>1, <3>1
    <3>3. Good(i)
      BY <2>2, <3>2
    <3>4. Upto(i + 1) = IF i + 1 \in S THEN Upto(i) \cup {q[i + 1]} ELSE Upto(i)
      <4>1. 1..(i + 1) = 1..i \cup {i + 1}
        OBVIOUS
      <4> QED BY <4>1
    <3>5. Once(q) => q[i + 1] \notin Upto(i) \ Nested
      <4>1. \A j \in 1..i : j \in DOMAIN q /\ j # i + 1 /\ i + 1 \in DOMAIN q
        BY <1>1, <3>2
      <4> QED BY <4>1 DEF Once
    <3>6. q[i + 1] \in D
      BY <1>1, <3>2
    <3> HIDE DEF Upto
    <3>7. CASE i + 1 \in S
      <4>1. k[i + 1] = Append(k[i], q[i + 1])
        BY <1>8, <3>2, <3>7
      <4>2. /\ Append(k[i], q[i + 1]) \in Seq(D)
            /\ ToSet(Append(k[i], q[i + 1])) = ToSet(k[i]) \cup {q[i + 1]}
            /\ Once(k[i]) /\ q[i + 1] \notin Elems(k[i]) => Once(Append(k[i], q[i + 1]))
        BY <3>3, <3>6, AppendElems
      <4> QED BY <3>3, <3>4, <3>5, <3>7, <4>1, <4>2 DEF Elems
    <3>8. CASE i + 1 \notin S
      <4>1. k[i + 1] = k[i]
        BY <1>8, <3>2, <3>8
      <4> QED BY <3>3, <3>4, <3>8, <4>1
    <3> QED BY <3>7, <3>8
  <2> HIDE DEF T
  <2> QED BY <2>1, <2>2, NatSetInduction
<1>10. Good(N)
  <2>1. N \in T
    <3> HIDE DEF T
    <3> QED BY <1>1, <1>9
  <2>2. N \in 0..N
    BY <1>1
  <2> HIDE DEF Good
  <2> QED BY <2>1, <2>2
<1>11. Upto(N) = {q[i] : i \in S \cap DOMAIN q}
  BY <1>1
<1> HIDE DEF Upto
<1> QED BY <1>6, <1>10, <1>11

\* Keep is the subsequence of the elements of S.
LEMMA KeepElems ==
  ASSUME NEW D, NEW q \in Seq(D), NEW S
  PROVE  /\ Inert!Keep(q, S) \in Seq(D)
         /\ ToSet(Inert!Keep(q, S)) = ToSet(q) \cap S
         /\ Elems(Inert!Keep(q, S)) = Elems(q) \cap S
         /\ Once(q) => Once(Inert!Keep(q, S))
<1> DEFINE I == {i \in DOMAIN q : q[i] \in S}
<1>1. Inert!Keep(q, S) = Inert!Sift(q, I)
  BY DEF Inert!Keep
<1>2. {q[i] : i \in I \cap DOMAIN q} = ToSet(q) \cap S
  BY DEF ToSet
<1> HIDE DEF I
<1> QED BY <1>1, <1>2, SiftElems DEF Elems

\* A finite set of places with its number.
LEMMA PlacesCount ==
  ASSUME NEW n \in Nat, NEW S, S \subseteq 1..n
  PROVE  /\ IsFiniteSet(S) /\ Cardinality(S) \in Nat
         /\ (Cardinality(S) = 0 <=> S = {})
         /\ \A i : S = {i} => Cardinality(S) = 1
<1>1. IsFiniteSet(1..n)
  BY FS_Interval
<1>2. IsFiniteSet(S)
  <2> DEFINE T == 1..n
  <2> HIDE DEF T
  <2>1. IsFiniteSet(T) /\ S \subseteq T
    BY <1>1 DEF T
  <2> QED BY <2>1, FS_Subset
<1> QED BY <1>2, FS_CardinalityType, FS_EmptySet, FS_Singleton

\* How often x is in q: not at all, or once where only one place holds it.
LEMMA OccursCount ==
  ASSUME NEW D, NEW q \in Seq(D), NEW x
  PROVE  /\ Inert!Occurs(q, x) \in Nat
         /\ (Inert!Occurs(q, x) = 0 <=> x \notin ToSet(q))
         /\ (\A i, j \in DOMAIN q : q[i] = x /\ q[j] = x => i = j) => Inert!Occurs(q, x) <= 1
<1> DEFINE S == {i \in DOMAIN q : q[i] = x}
<1>1. DOMAIN q = 1..Len(q) /\ Len(q) \in Nat
  OBVIOUS
<1>2. Inert!Occurs(q, x) = Cardinality(S)
  BY DEF Inert!Occurs, Inert!Cardinality, Cardinality
<1>3. S = {} <=> x \notin ToSet(q)
  BY DEF ToSet
<1>4. (\A i, j \in DOMAIN q : q[i] = x /\ q[j] = x => i = j) => S = {} \/ \E i : S = {i}
  OBVIOUS
<1> HIDE DEF S
<1>5. S \subseteq 1..Len(q)
  BY <1>1 DEF S
<1>6. /\ Cardinality(S) \in Nat /\ (Cardinality(S) = 0 <=> S = {})
      /\ \A i : S = {i} => Cardinality(S) = 1
  BY <1>1, <1>5, PlacesCount
<1>7. S = {} \/ (\E i : S = {i}) => Cardinality(S) <= 1
  BY <1>6
<1>8. Inert!Occurs(q, x) \in Nat /\ (Inert!Occurs(q, x) = 0 <=> x \notin ToSet(q))
  BY ONLY <1>2, <1>3, <1>6
<1>9. (\A i, j \in DOMAIN q : q[i] = x /\ q[j] = x => i = j) => Inert!Occurs(q, x) <= 1
  BY ONLY <1>2, <1>4, <1>7
<1> QED BY ONLY <1>8, <1>9

\* DropCopies takes out what it is to take any copy of, nested equalities apart.
LEMMA DropElems ==
  ASSUME NEW D, NEW q \in Seq(D), NEW n \in [D -> Nat]
  PROVE  /\ Inert!DropCopies(q, n) \in Seq(D)
         /\ ToSet(Inert!DropCopies(q, n)) \subseteq ToSet(q)
         /\ Once(q) => /\ Once(Inert!DropCopies(q, n))
                       /\ Elems(Inert!DropCopies(q, n)) = {c \in Elems(q) : n[c] = 0}
<1> DEFINE Upto(i) == {j \in 1..i : q[j] = q[i]}
           I == {i \in DOMAIN q : n[q[i]] < Cardinality(Upto(i))}
<1>1. DOMAIN q = 1..Len(q) /\ Len(q) \in Nat /\ \A i \in DOMAIN q : q[i] \in D
  OBVIOUS
<1>2. Inert!DropCopies(q, n) = Inert!Sift(q, I)
  BY DEF Inert!DropCopies, Inert!Cardinality, Cardinality
<1>3. \A i \in DOMAIN q : i \in Nat /\ Upto(i) \subseteq 1..i /\ i \in Upto(i)
  BY <1>1
<1>4. ASSUME Once(q), NEW i \in DOMAIN q, q[i] \notin Nested PROVE Upto(i) = {i}
  <2>1. \A j \in 1..i : j \in DOMAIN q
    BY <1>1, <1>4
  <2> QED BY <1>3, <1>4, <2>1 DEF Once
<1> HIDE DEF Upto
<1>5. ASSUME Once(q), NEW i \in DOMAIN q, q[i] \notin Nested PROVE i \in I <=> n[q[i]] = 0
  <2>1. Cardinality(Upto(i)) = 1
    BY <1>3, <1>4, <1>5, PlacesCount
  <2>2. n[q[i]] \in Nat
    BY <1>1, <1>5
  <2> QED BY <1>5, <2>1, <2>2
<1> DEFINE T == {q[i] : i \in I \cap DOMAIN q}
<1>6. T \subseteq ToSet(q)
  BY DEF ToSet
<1>7. Once(q) => T \ Nested = {c \in Elems(q) : n[c] = 0}
  BY <1>5 DEF ToSet, Elems
<1>8. Inert!Sift(q, I) \in Seq(D) /\ ToSet(Inert!Sift(q, I)) = T
      /\ (Once(q) => Once(Inert!Sift(q, I)))
  <2> HIDE DEF I
  <2> QED BY SiftElems
<1> HIDE DEF I, T
<1> QED BY <1>2, <1>6, <1>7, <1>8 DEF Elems

\* A sequence with k copies of c behind it.
LEMMA CopiesElems ==
  ASSUME NEW D, NEW q \in Seq(D), NEW c \in D, NEW k \in Nat, Once(q), c \notin Elems(q),
         c \in Nested \/ k <= 1
  PROVE  /\ q \o [i \in 1..k |-> c] \in Seq(D)
         /\ ToSet(q \o [i \in 1..k |-> c]) = ToSet(q) \cup (IF k = 0 THEN {} ELSE {c})
         /\ Once(q \o [i \in 1..k |-> c])
<1> DEFINE r == [i \in 1..k |-> c]
<1>1. r \in Seq(D) /\ DOMAIN r = 1..k /\ \A i \in 1..k : r[i] = c
  OBVIOUS
<1> HIDE DEF r
<1>2. ToSet(r) = IF k = 0 THEN {} ELSE {c}
  <2>1. k # 0 => 1 \in 1..k
    OBVIOUS
  <2> QED BY <1>1, <2>1 DEF ToSet
<1>3. Once(r)
  BY <1>1 DEF Once
<1> QED BY <1>1, <1>2, <1>3, ConcatElems DEF r, Elems

\* SetToSeq lists a finite set, each element once.
LEMMA SetToSeqElems ==
  ASSUME NEW S, IsFiniteSet(S)
  PROVE  SetToSeq(S) \in Seq(S) /\ ToSet(SetToSeq(S)) = S /\ Once(SetToSeq(S))
<1> DEFINE n == Cardinality(S)
           f == SetToSeq(S)
<1>1. n \in Nat /\ ExistsBijection(1..n, S)
  BY FS_CardinalityType
<1>2. PICK b \in Bijection(1..n, S) : TRUE
  BY <1>1 DEF ExistsBijection
<1>3. b \in [1..n -> S] /\ IsInjective(b)
  BY <1>2 DEF Bijection, Injection, IsInjective
<1>4. f \in [1..n -> S] /\ IsInjective(f)
  BY <1>3 DEF SetToSeq
<1> HIDE DEF f, n
<1>5. f \in Seq(S) /\ DOMAIN f = 1..n
  BY <1>1, <1>4
<1>6. Once(f)
  BY <1>4 DEF IsInjective, Once
<1>7. f \in Surjection(1..n, S)
  <2> DEFINE I == 1..n
  <2>1. IsFiniteSet(I) /\ Cardinality(I) = Cardinality(S)
    <3>1. IsFiniteSet(I) /\ Cardinality(I) = IF 1 > n THEN 0 ELSE n - 1 + 1
      BY <1>1, FS_Interval
    <3> QED BY <1>1, <3>1 DEF n
  <2>2. f \in Injection(I, S)
    BY <1>4 DEF IsInjective, Injection
  <2> HIDE DEF I
  <2>3. f \in Surjection(I, S)
    BY <2>1, <2>2, FS_Injection
  <2> QED BY <2>3 DEF I
<1>8. ToSet(f) = S
  BY <1>4, <1>7 DEF Surjection, ToSet
<1> QED BY <1>5, <1>6, <1>8 DEF f

-----------------------------------------------------------------------------
(* The order of the worklist: givens are pushed to the front and classes   *)
(* to the back.                                                            *)

Of(kind) == {c \in Cts : Kind[c] = kind}

\* Only equalities are nested.
LEMMA NestedKind ==
  /\ Of("class") \cap Nested = {} /\ Of("fun") \cap Nested = {}
  /\ Of("given") \cap Nested = {}
BY ConstraintsAssumption DEF Of

\* No class constraint comes before a given equality.
Ordered(q) ==
  \A i, j \in DOMAIN q : i < j /\ q[i] \in Of("class") => q[j] \notin Of("given")

LEMMA OrderedAppend ==
  ASSUME NEW q \in Seq(Cts), Ordered(q), NEW c \in Cts, c \notin Of("given")
  PROVE  Ordered(Append(q, c))
BY DEF Ordered

LEMMA OrderedTail ==
  ASSUME NEW q \in Seq(Cts), Ordered(q), q # <<>>
  PROVE  Ordered(Tail(q)) /\ (Head(q) \in Of("class") => Elems(Tail(q)) \cap Of("given") = {})
<1> DEFINE r == Tail(q)
<1>1. \A i \in DOMAIN r : i + 1 \in DOMAIN q /\ r[i] = q[i + 1] /\ i \in Nat /\ 1 < i + 1
  OBVIOUS
<1>2. 1 \in DOMAIN q /\ Head(q) = q[1]
  OBVIOUS
<1> HIDE DEF r
<1>3. Ordered(r)
  <2>1. \A i, j \in DOMAIN r : i < j => i + 1 < j + 1
    BY <1>1
  <2> QED BY <1>1, <2>1 DEF Ordered
<1>4. Head(q) \in Of("class") => Elems(r) \cap Of("given") = {}
  BY <1>1, <1>2 DEF Ordered, ToSet, Elems
<1> QED BY <1>3, <1>4 DEF r

LEMMA OrderedConcat ==
  ASSUME NEW q \in Seq(Cts), NEW r \in Seq(Cts), Ordered(q), Ordered(r),
         Elems(q) \cap Of("class") = {} \/ Elems(r) \cap Of("given") = {}
  PROVE  Ordered(q \o r)
<1> DEFINE u == q \o r
<1>1. /\ DOMAIN u = 1..(Len(q) + Len(r)) /\ DOMAIN q = 1..Len(q) /\ DOMAIN r = 1..Len(r)
      /\ Len(q) \in Nat /\ Len(r) \in Nat
      /\ \A i \in 1..Len(q) : u[i] = q[i]
      /\ \A i \in 1..Len(r) : u[Len(q) + i] = r[i]
  OBVIOUS
<1> HIDE DEF u
<1>2. ASSUME NEW i \in DOMAIN u
      PROVE  \/ i \in DOMAIN q /\ u[i] = q[i]
             \/ i - Len(q) \in DOMAIN r /\ u[i] = r[i - Len(q)] /\ i > Len(q)
  <2>1. CASE i <= Len(q)
    BY <1>1, <2>1
  <2>2. CASE i > Len(q)
    <3>1. i - Len(q) \in 1..Len(r) /\ Len(q) + (i - Len(q)) = i
      BY <1>1, <2>2
    <3> QED BY <1>1, <2>2, <3>1
  <2> QED BY <1>1, <2>1, <2>2
<1>3. ASSUME NEW i \in DOMAIN u, NEW j \in DOMAIN u, i < j,
             u[i] \in Of("class"), u[j] \in Of("given")
      PROVE  FALSE
  <2>1. i \in Nat /\ j \in Nat
    BY <1>1
  <2>2. CASE i \in DOMAIN q /\ u[i] = q[i] /\ j \in DOMAIN q /\ u[j] = q[j]
    BY <1>3, <2>2 DEF Ordered
  <2>3. CASE /\ i \in DOMAIN q /\ u[i] = q[i]
             /\ j - Len(q) \in DOMAIN r /\ u[j] = r[j - Len(q)]
    BY <1>3, <2>3, NestedKind DEF ToSet, Elems
  <2>4. CASE /\ i - Len(q) \in DOMAIN r /\ u[i] = r[i - Len(q)] /\ i > Len(q)
             /\ j - Len(q) \in DOMAIN r /\ u[j] = r[j - Len(q)]
    <3>1. i - Len(q) < j - Len(q)
      BY <1>1, <1>3, <2>1
    <3> QED BY <1>3, <2>4, <3>1 DEF Ordered
  <2>5. CASE /\ i - Len(q) \in DOMAIN r /\ i > Len(q) /\ j \in DOMAIN q
    BY <1>1, <1>3, <2>5
  <2> QED BY <1>2, <2>2, <2>3, <2>4, <2>5
<1> QED BY <1>3 DEF Ordered, u

LEMMA OrderedUniform ==
  ASSUME NEW q \in Seq(Cts), Elems(q) \cap Of("class") = {} \/ Elems(q) \cap Of("given") = {}
  PROVE  Ordered(q)
BY NestedKind DEF Ordered, ToSet, Elems

-----------------------------------------------------------------------------
(* The inert set: what its operations do to its members, buckets and       *)
(* scopes. The solver's invariant rests on these facts: an insertion adds  *)
(* one member, a kick-out takes its constraints out of every bucket, and   *)
(* clearing a scope takes out what is tagged with it.                      *)

Members(is) == Inert!Members(is) \ Nested

\* A bucket holds a constraint once, and from a constraint the buckets it is in
\* can be found.
Buckets(is) ==
  /\ is \in Inert!InertSets
  /\ Once(is.classMap) /\ Once(is.funEqs)
  /\ \A m \in Metas : /\ Once(is.metaIndex[m])
                      /\ \A c \in Elems(is.metaIndex[m]) : m \in ToSet(is.ctMetas[c])

LEMMA PlainElems ==
  /\ \A q : Elems(q) \cap Nested = {} /\ Elems(q) \subseteq ToSet(q)
  /\ \A is : Members(is) \cap Nested = {}
  /\ \A q : ToSet(q) \cap Nested = {} => Elems(q) = ToSet(q)
BY DEF Elems, Members

\* What the primary buckets hold.
Kinds(is) ==
  /\ ToSet(is.classMap) \subseteq Of("class") /\ ToSet(is.funEqs) \subseteq Of("fun")
  /\ \A m \in Metas : Elems(is.metaIndex[m]) \cap Of("class") \subseteq Elems(is.classMap)

\* ScopeOwnership of a set.
Owned(is) ==
  \A c \in Members(is) :
    /\ is.ctScope[c] \in 0..is.scopeDepth
    /\ c \in is.scopeCts[is.ctScope[c]]

InertOK(is) == Buckets(is) /\ Kinds(is) /\ Owned(is)

\* The class constraints and the cached resolutions belong to the scope being
\* solved: its Reset takes them out.
OfScope(is) ==
  /\ \A c \in Elems(is.classMap) : is.ctScope[c] = is.scopeDepth
  /\ \A p \in is.resolutionKeys : p[2] \in is.scopeCts[is.scopeDepth]

\* The operators InertSet takes from SequencesExt are those used here.
LEMMA SameOps ==
  /\ \A q : Inert!ToSet(q) = ToSet(q)
  /\ \A q, c : Inert!Contains(q, c) <=> Contains(q, c)
  /\ \A q, c : Inert!RemoveFirst(q, c) = RemoveFirst(q, c)
  /\ \A S : Inert!SetToSeq(S) = SetToSeq(S)
<1>1. \A q : Inert!ToSet(q) = ToSet(q)
  BY DEF ToSet, Inert!ToSet
<1>2. \A q, c : Inert!Contains(q, c) <=> Contains(q, c)
  BY DEF Contains, Inert!Contains
<1>3. \A S : Inert!Min(S) = Min(S)
  BY DEF Min, Inert!Min
<1>4. \A q, c : Inert!RemoveFirst(q, c) = RemoveFirst(q, c)
  BY <1>3 DEF RemoveFirst, Inert!RemoveFirst, RemoveAt, Inert!RemoveAt,
              SelectInSeq, Inert!SelectInSeq
<1>5. \A f : Inert!IsInjective(f) <=> IsInjective(f)
  BY DEF IsInjective, Inert!IsInjective
<1>6. \A S : Inert!SetToSeq(S) = SetToSeq(S)
  <2>1. \A S : Inert!Cardinality(S) = Cardinality(S)
    BY DEF Cardinality, Inert!Cardinality
  <2> QED BY <1>5, <2>1 DEF SetToSeq, Inert!SetToSeq
<1> QED BY <1>1, <1>2, <1>4, <1>6

LEMMA InertType ==
  ASSUME NEW is \in Inert!InertSets
  PROVE  /\ is.classMap \in Seq(Cts) /\ is.funEqs \in Seq(Cts) /\ is.givenEqs \in Seq(Cts)
         /\ is.metaIndex \in [Metas -> Seq(Cts)] /\ is.ctMetas \in [Cts -> Seq(Metas)]
         /\ is.resolutionKeys \subseteq Pairs \X Cts
         /\ is.scopeDepth \in 0..MaxDepth
         /\ is.ctScope \in [Cts -> (0..MaxDepth) \cup {-1}]
         /\ is.scopeCts \in [0..MaxDepth -> SUBSET Cts]
BY DEF Inert!InertSets, Inert!Depths, Inert!NoScope

LEMMA MembersDef ==
  ASSUME NEW is \in Inert!InertSets, NEW c
  PROVE  c \in Members(is) <=>
           \/ c \in Elems(is.classMap) \/ c \in Elems(is.funEqs)
           \/ \E m \in Metas : c \in Elems(is.metaIndex[m])
<1>1. c \in Inert!Indexed(is) <=> \E m \in Metas : c \in ToSet(is.metaIndex[m])
  BY SameOps DEF Inert!Indexed
<1> QED BY <1>1, SameOps DEF Members, Inert!Members, Elems

LEMMA MembersType ==
  ASSUME NEW is \in Inert!InertSets
  PROVE  Members(is) \subseteq Cts
<1>1. SUFFICES ASSUME NEW c \in Members(is) PROVE c \in Cts
  OBVIOUS
<1>2. CASE c \in Elems(is.classMap)
  BY <1>2, InertType, ElemsType
<1>3. CASE c \in Elems(is.funEqs)
  BY <1>3, InertType, ElemsType
<1>4. CASE \E m \in Metas : c \in Elems(is.metaIndex[m])
  BY <1>4, InertType, ElemsType
<1> QED BY <1>2, <1>3, <1>4, MembersDef

-----------------------------------------------------------------------------
(* Insertion.                                                              *)

\* What the common part of the insertions, the index and the tag, does.
Tagged(is, c, ids, r) ==
  /\ Buckets(r)
  /\ r.classMap = is.classMap /\ r.funEqs = is.funEqs /\ r.givenEqs = is.givenEqs
  /\ r.resolutionKeys = is.resolutionKeys /\ r.scopeDepth = is.scopeDepth
  /\ \A m \in Metas : ToSet(r.metaIndex[m]) =
       IF m \in ToSet(ids) THEN ToSet(is.metaIndex[m]) \cup {c} ELSE ToSet(is.metaIndex[m])
  /\ r.ctScope = [is.ctScope EXCEPT ![c] = is.scopeDepth]
  /\ r.scopeCts = [is.scopeCts EXCEPT ![is.scopeDepth] = @ \cup {c}]

LEMMA IndexAndTag ==
  ASSUME NEW is, InertOK(is), NEW c \in Cts, c \notin Members(is),
         NEW ids \in Seq(Metas), c \in Nested \/ IsInjective(ids),
         NEW r, r = Inert!tagScope(Inert!indexMetas(is, c, ids), c)
  PROVE  Tagged(is, c, ids, r)
<1> DEFINE x == Inert!indexMetas(is, c, ids)
           copied(m) == is.metaIndex[m] \o [i \in 1..Inert!Occurs(ids, m) |-> c]
           appended == [m \in Metas |-> copied(m)]
<1>1. is \in Inert!InertSets /\ Buckets(is)
  BY DEF InertOK, Buckets
<1>2. \A m \in Metas : /\ Inert!Occurs(ids, m) \in Nat
                       /\ (Inert!Occurs(ids, m) = 0 <=> m \notin ToSet(ids))
                       /\ (c \in Nested \/ Inert!Occurs(ids, m) <= 1)
  <2>1. IsInjective(ids) => \A m : \A i, j \in DOMAIN ids : ids[i] = m /\ ids[j] = m => i = j
    BY DEF IsInjective
  <2> QED BY <2>1, OccursCount
<1>3. \A m \in Metas : c \notin Elems(is.metaIndex[m])
  BY <1>1, MembersDef
<1>4. ASSUME NEW m \in Metas
      PROVE  /\ copied(m) \in Seq(Cts)
             /\ ToSet(copied(m)) = IF m \in ToSet(ids) THEN ToSet(is.metaIndex[m]) \cup {c}
                                                       ELSE ToSet(is.metaIndex[m])
             /\ Once(copied(m))
  <2> DEFINE k == Inert!Occurs(ids, m)
  <2>1. is.metaIndex[m] \in Seq(Cts) /\ Once(is.metaIndex[m]) /\ c \notin Elems(is.metaIndex[m])
    BY <1>1, <1>3, InertType DEF Buckets
  <2>2. k \in Nat /\ (k = 0 <=> m \notin ToSet(ids)) /\ (c \in Nested \/ k <= 1)
    BY <1>2
  <2> HIDE DEF k
  <2>3. LET r1 == is.metaIndex[m] \o [i \in 1..k |-> c]
        IN  /\ r1 \in Seq(Cts)
            /\ ToSet(r1) = ToSet(is.metaIndex[m]) \cup (IF k = 0 THEN {} ELSE {c})
            /\ Once(r1)
    BY <2>1, <2>2, CopiesElems
  <2> QED BY <2>2, <2>3 DEF k
<1>5. /\ x \in Inert!InertSets
      /\ x.classMap = is.classMap /\ x.funEqs = is.funEqs /\ x.givenEqs = is.givenEqs
      /\ x.resolutionKeys = is.resolutionKeys /\ x.scopeDepth = is.scopeDepth
      /\ x.ctScope = is.ctScope /\ x.scopeCts = is.scopeCts
      /\ x.metaIndex = appended
      /\ \A d \in Cts : d # c => x.ctMetas[d] = is.ctMetas[d]
      /\ ids # <<>> => x.ctMetas[c] = ids
  <2>1. appended \in [Metas -> Seq(Cts)]
    BY <1>1, <1>4, InertType
  <2>2. CASE ids = <<>>
    <3>1. ASSUME NEW m \in Metas PROVE copied(m) = is.metaIndex[m]
      <4>1. Inert!Occurs(ids, m) = 0
        BY <1>2, <2>2, EmptyElems
      <4>2. is.metaIndex[m] \in Seq(Cts)
        BY <1>1, InertType
      <4> QED BY <4>1, <4>2
    <3> HIDE DEF copied
    <3>2. appended = is.metaIndex
      BY <1>1, <3>1, InertType
    <3>3. x = is
      BY <2>2 DEF Inert!indexMetas
    <3> QED BY <1>1, <2>2, <3>2, <3>3
  <2>3. CASE ids # <<>>
    <3> HIDE DEF appended
    <3>1. x = [is EXCEPT !.metaIndex = appended, !.ctMetas = [is.ctMetas EXCEPT ![c] = ids]]
      BY <1>1, <2>3, SameOps DEF Inert!indexMetas, appended, Inert!InertSets
    <3>2. [is.ctMetas EXCEPT ![c] = ids] \in [Cts -> Seq(Metas)]
      BY <1>1, InertType
    <3> HIDE DEF x
    <3> QED BY <1>1, <2>1, <3>1, <3>2 DEF Inert!InertSets
  <2> QED BY <2>2, <2>3
<1>6. /\ r \in Inert!InertSets
      /\ r.classMap = x.classMap /\ r.funEqs = x.funEqs /\ r.givenEqs = x.givenEqs
      /\ r.resolutionKeys = x.resolutionKeys /\ r.scopeDepth = x.scopeDepth
      /\ r.metaIndex = x.metaIndex /\ r.ctMetas = x.ctMetas
      /\ r.ctScope = [is.ctScope EXCEPT ![c] = is.scopeDepth]
      /\ r.scopeCts = [is.scopeCts EXCEPT ![is.scopeDepth] = @ \cup {c}]
  <2> HIDE DEF x, appended
  <2>1. /\ [is.ctScope EXCEPT ![c] = is.scopeDepth] \in [Cts -> (0..MaxDepth) \cup {-1}]
        /\ [is.scopeCts EXCEPT ![is.scopeDepth] = @ \cup {c}] \in [0..MaxDepth -> SUBSET Cts]
    BY <1>1, InertType, ZenonT(60)
  <2>2. r = [x EXCEPT !.ctScope = [is.ctScope EXCEPT ![c] = is.scopeDepth],
                      !.scopeCts = [is.scopeCts EXCEPT ![is.scopeDepth] = @ \cup {c}]]
    BY <1>5 DEF x, Inert!tagScope, Inert!InertSets
  <2> QED BY <1>5, <2>1, <2>2, ZenonT(60) DEF Inert!InertSets, Inert!Depths, Inert!NoScope
<1>7. ASSUME NEW m \in Metas
      PROVE  /\ r.metaIndex[m] = copied(m)
             /\ \A d \in Elems(r.metaIndex[m]) : m \in ToSet(r.ctMetas[d])
  <2> HIDE DEF x, copied
  <2>1. r.metaIndex[m] = copied(m)
    BY <1>5, <1>6
  <2>2. m \in ToSet(ids) => ids # <<>>
    BY EmptyElems
  <2>3. Elems(is.metaIndex[m]) \subseteq Cts
    BY <1>1, InertType, ElemsType
  <2>4. \A d \in Elems(is.metaIndex[m]) : m \in ToSet(r.ctMetas[d])
    BY <1>1, <1>3, <1>5, <1>6, <2>3 DEF Buckets
  <2>5. m \in ToSet(ids) => m \in ToSet(r.ctMetas[c])
    BY <1>5, <1>6, <2>2
  <2> HIDE DEF appended
  <2> QED BY <1>4, <2>1, <2>4, <2>5 DEF Elems
<1> HIDE DEF x, appended
<1>8. Buckets(r)
  <2>1. ASSUME NEW m \in Metas
        PROVE  Once(r.metaIndex[m]) /\ \A d \in Elems(r.metaIndex[m]) : m \in ToSet(r.ctMetas[d])
    BY <1>4, <1>7
  <2> QED BY <1>1, <1>5, <1>6, <2>1 DEF Buckets
<1>9. \A m \in Metas : ToSet(r.metaIndex[m]) = IF m \in ToSet(ids)
                       THEN ToSet(is.metaIndex[m]) \cup {c} ELSE ToSet(is.metaIndex[m])
  BY <1>4, <1>7
<1> QED BY <1>5, <1>6, <1>8, <1>9 DEF Tagged

\* What the tag of a new member means for the ownership of scopes.
LEMMA TagOwned ==
  ASSUME NEW is, Buckets(is), Owned(is), NEW r, r \in Inert!InertSets, NEW c \in Cts,
         Members(r) \subseteq Members(is) \cup {c},
         r.scopeDepth = is.scopeDepth,
         r.ctScope = [is.ctScope EXCEPT ![c] = is.scopeDepth],
         r.scopeCts = [is.scopeCts EXCEPT ![is.scopeDepth] = @ \cup {c}]
  PROVE  Owned(r)
<1>1. is \in Inert!InertSets
  BY DEF Buckets
<1>2. /\ is.ctScope \in [Cts -> (0..MaxDepth) \cup {-1}]
      /\ is.scopeCts \in [0..MaxDepth -> SUBSET Cts] /\ is.scopeDepth \in 0..MaxDepth
  BY <1>1, InertType
<1>3. MaxDepth \in Nat
  BY SignatureAssumption
<1>4. SUFFICES ASSUME NEW d \in Members(r)
               PROVE  r.ctScope[d] \in 0..r.scopeDepth /\ d \in r.scopeCts[r.ctScope[d]]
  BY DEF Owned
<1>5. d \in Cts
  BY MembersType
<1>6. CASE d = c
  BY <1>2, <1>3, <1>6
<1>7. CASE d # c
  <2>1. is.ctScope[d] \in 0..is.scopeDepth /\ d \in is.scopeCts[is.ctScope[d]]
    BY <1>4, <1>7 DEF Owned
  <2>2. is.ctScope[d] \in 0..MaxDepth
    BY <1>2, <1>3, <2>1
  <2> QED BY <1>2, <1>5, <1>7, <2>1, <2>2
<1> QED BY <1>6, <1>7

\* A resolved class constraint becomes a member of the current scope.
\* r is is with the class constraint c, resolved under key.
Classed(is, c, key, r) ==
  /\ InertOK(r) /\ Members(r) = Members(is) \cup {c}
  /\ Elems(r.classMap) = Elems(is.classMap) \cup {c}
  /\ r.scopeDepth = is.scopeDepth
  /\ r.resolutionKeys \subseteq is.resolutionKeys \cup {<<key, c>>}
  /\ \A m \in Metas : ToSet(r.metaIndex[m]) \subseteq ToSet(is.metaIndex[m]) \cup {c}
  /\ OfScope(is) => OfScope(r)

LEMMA InsertClassOK ==
  ASSUME NEW is, InertOK(is), NEW c \in Of("class"), c \notin Members(is),
         NEW ids \in Seq(Metas), IsInjective(ids), NEW key \in Pairs,
         NEW r, r = Inert!InsertClass(is, c, ids, key)
  PROVE  Classed(is, c, key, r)
<1>1. c \in Cts /\ Buckets(is) /\ Kinds(is) /\ Owned(is) /\ is \in Inert!InertSets
  BY DEF Of, InertOK, Buckets
<1>2. PICK t : t = Inert!tagScope(Inert!indexMetas(is, c, ids), c)
  OBVIOUS
<1>3. Tagged(is, c, ids, t) /\ t \in Inert!InertSets
  <2>1. Tagged(is, c, ids, t)
    BY <1>1, <1>2, IndexAndTag
  <2> QED BY <2>1 DEF Tagged, Buckets
<1> DEFINE keys == {p \in t.resolutionKeys : p[1] # key} \cup {<<key, c>>}
           cm == Append(t.classMap, c)
<1>4. /\ cm \in Seq(Cts) /\ Elems(cm) = Elems(is.classMap) \cup {c} /\ Once(cm)
      /\ ToSet(cm) = ToSet(is.classMap) \cup {c}
  <2>1. c \notin Elems(is.classMap) /\ is.classMap \in Seq(Cts) /\ Once(is.classMap)
    BY <1>1, MembersDef, InertType DEF Buckets
  <2>2. t.classMap = is.classMap
    BY <1>3 DEF Tagged
  <2> QED BY <1>1, <2>1, <2>2, AppendElems, NestedKind
<1>5. keys \subseteq Pairs \X Cts /\ keys \subseteq is.resolutionKeys \cup {<<key, c>>}
  <2>1. t.resolutionKeys \subseteq Pairs \X Cts /\ t.resolutionKeys = is.resolutionKeys
    BY <1>3, InertType DEF Tagged
  <2> QED BY <1>1, <2>1
<1>6. r = [t EXCEPT !.classMap = cm, !.resolutionKeys = keys]
  BY <1>2, <1>3 DEF Inert!InsertClass, Inert!InertSets
<1> HIDE DEF keys, cm
<1>7. /\ r \in Inert!InertSets
      /\ r.classMap = cm /\ r.funEqs = t.funEqs
      /\ r.metaIndex = t.metaIndex /\ r.ctMetas = t.ctMetas
      /\ r.scopeDepth = t.scopeDepth /\ r.resolutionKeys = keys
      /\ r.ctScope = t.ctScope /\ r.scopeCts = t.scopeCts
  BY <1>3, <1>4, <1>5, <1>6 DEF Inert!InertSets
<1>8. Buckets(r)
  BY <1>1, <1>3, <1>4, <1>7 DEF Buckets, Tagged
<1>9. Members(r) = Members(is) \cup {c}
  <2>1. ASSUME NEW d PROVE d \in Members(r) <=> d \in Members(is) \/ d = c
    <3>1. d \in Members(r) <=>
            \/ d \in Elems(is.classMap) \/ d = c \/ d \in Elems(is.funEqs)
            \/ \E m \in Metas : d \in Elems(r.metaIndex[m])
      BY <1>3, <1>4, <1>7, MembersDef DEF Tagged
    <3>2. d \in Members(is) <=>
            \/ d \in Elems(is.classMap) \/ d \in Elems(is.funEqs)
            \/ \E m \in Metas : d \in Elems(is.metaIndex[m])
      BY <1>1, MembersDef
    <3>3. \A m \in Metas : d # c => (d \in Elems(r.metaIndex[m]) <=> d \in Elems(is.metaIndex[m]))
      BY <1>3, <1>7, ZenonT(60) DEF Tagged, Elems
    <3> QED BY <3>1, <3>2, <3>3
  <2> QED BY <2>1
<1>10. Kinds(r)
  <2>1. ToSet(r.classMap) \subseteq Of("class") /\ ToSet(r.funEqs) \subseteq Of("fun")
    BY <1>1, <1>3, <1>4, <1>7 DEF Kinds, Tagged
  <2>2. ASSUME NEW m \in Metas PROVE Elems(r.metaIndex[m]) \cap Of("class") \subseteq Elems(r.classMap)
    <3>1. Elems(r.metaIndex[m]) \subseteq Elems(is.metaIndex[m]) \cup {c}
      BY <1>3, <1>7, ZenonT(60) DEF Tagged, Elems
    <3> QED BY <1>1, <1>4, <1>7, <3>1 DEF Kinds
  <2> QED BY <2>1, <2>2 DEF Kinds
<1>11. Owned(r)
  <2>1. /\ r.scopeDepth = is.scopeDepth
        /\ r.ctScope = [is.ctScope EXCEPT ![c] = is.scopeDepth]
        /\ r.scopeCts = [is.scopeCts EXCEPT ![is.scopeDepth] = @ \cup {c}]
    BY <1>3, <1>7 DEF Tagged
  <2> QED BY <1>1, <1>7, <1>9, <2>1, TagOwned
<1>12. ASSUME OfScope(is) PROVE OfScope(r)
  <2>1. /\ is.ctScope \in [Cts -> (0..MaxDepth) \cup {-1}]
        /\ is.scopeCts \in [0..MaxDepth -> SUBSET Cts] /\ is.scopeDepth \in 0..MaxDepth
        /\ Elems(is.classMap) \subseteq Cts
    BY <1>1, InertType, ElemsType
  <2>2. \A d \in Elems(r.classMap) : r.ctScope[d] = r.scopeDepth
    BY <1>1, <1>3, <1>4, <1>7, <1>12, <2>1 DEF OfScope, Tagged
  <2>3. r.scopeCts[r.scopeDepth] = is.scopeCts[is.scopeDepth] \cup {c}
    <3>1. r.scopeCts = [is.scopeCts EXCEPT ![is.scopeDepth] = @ \cup {c}]
      BY <1>3, <1>7 DEF Tagged
    <3>2. r.scopeDepth = is.scopeDepth
      BY <1>3, <1>7 DEF Tagged
    <3> QED BY <2>1, <3>1, <3>2
  <2>4. \A p \in r.resolutionKeys : p \in is.resolutionKeys \/ p[2] = c
    BY <1>5, <1>7
  <2>5. \A p \in r.resolutionKeys : p[2] \in r.scopeCts[r.scopeDepth]
    BY <1>12, <2>3, <2>4 DEF OfScope
  <2> QED BY <2>2, <2>5 DEF OfScope
<1>13. \A m \in Metas : ToSet(r.metaIndex[m]) \subseteq ToSet(is.metaIndex[m]) \cup {c}
  BY <1>3, <1>7, ZenonT(60) DEF Tagged
<1> QED BY <1>13, <1>3, <1>4, <1>5, <1>7, <1>8, <1>9, <1>10, <1>11, <1>12 DEF InertOK, Tagged, Classed

\* What the insertion of a stuck equality, a family equation or a given does.
Grown(is, c, ids, r) ==
  /\ InertOK(r)
  /\ Members(r) \subseteq Members(is) \cup {c}
  /\ r.classMap = is.classMap /\ r.scopeDepth = is.scopeDepth
  /\ r.resolutionKeys = is.resolutionKeys
  /\ \A m \in Metas : ToSet(r.metaIndex[m]) =
       IF m \in ToSet(ids) THEN ToSet(is.metaIndex[m]) \cup {c} ELSE ToSet(is.metaIndex[m])
  /\ OfScope(is) => OfScope(r)

\* A tagged set in which at most funEqs and givenEqs change after the tag.
LEMMA TaggedGrown ==
  ASSUME NEW is, InertOK(is), NEW c \in Cts, c \notin Of("class"), c \notin Members(is),
         NEW ids \in Seq(Metas), NEW t, Tagged(is, c, ids, t),
         NEW r, r \in Inert!InertSets, Once(r.funEqs),
         \/ r.funEqs = t.funEqs
         \/ c \in Of("fun") /\ ToSet(r.funEqs) = ToSet(t.funEqs) \cup {c},
         r.classMap = t.classMap, r.metaIndex = t.metaIndex, r.ctMetas = t.ctMetas,
         r.scopeDepth = t.scopeDepth, r.resolutionKeys = t.resolutionKeys,
         r.ctScope = t.ctScope, r.scopeCts = t.scopeCts
  PROVE  Grown(is, c, ids, r)
<1>1. Buckets(is) /\ Kinds(is) /\ Owned(is) /\ is \in Inert!InertSets
  BY DEF InertOK, Buckets
<1>2. Buckets(r)
  BY DEF Buckets, Tagged
<1>3. Members(r) \subseteq Members(is) \cup {c}
  <2>1. SUFFICES ASSUME NEW d \in Members(r), d # c PROVE d \in Members(is)
    OBVIOUS
  <2>2. \/ d \in Elems(is.classMap) \/ d \in Elems(is.funEqs)
        \/ \E m \in Metas : d \in Elems(r.metaIndex[m])
    BY <2>1, MembersDef DEF Tagged, Elems
  <2>3. \A m \in Metas : d \in Elems(r.metaIndex[m]) => d \in Elems(is.metaIndex[m])
    BY <2>1, ZenonT(60) DEF Tagged, Elems
  <2> QED BY <1>1, <2>2, <2>3, MembersDef
<1>4. Kinds(r)
  <2>1. ToSet(r.classMap) \subseteq Of("class") /\ ToSet(r.funEqs) \subseteq Of("fun")
    BY <1>1 DEF Kinds, Tagged
  <2>2. ASSUME NEW m \in Metas PROVE Elems(r.metaIndex[m]) \cap Of("class") \subseteq Elems(r.classMap)
    <3>1. Elems(r.metaIndex[m]) \subseteq Elems(is.metaIndex[m]) \cup {c}
      BY ZenonT(60) DEF Tagged, Elems
    <3>2. r.classMap = is.classMap
      BY DEF Tagged
    <3> QED BY <1>1, <3>1, <3>2 DEF Kinds
  <2> QED BY <2>1, <2>2 DEF Kinds
<1>5. /\ r.scopeDepth = is.scopeDepth
      /\ r.ctScope = [is.ctScope EXCEPT ![c] = is.scopeDepth]
      /\ r.scopeCts = [is.scopeCts EXCEPT ![is.scopeDepth] = @ \cup {c}]
  BY DEF Tagged
<1>6. Owned(r)
  BY <1>1, <1>3, <1>5, TagOwned
<1>7. ASSUME OfScope(is) PROVE OfScope(r)
  <2>1. /\ is.ctScope \in [Cts -> (0..MaxDepth) \cup {-1}]
        /\ is.scopeCts \in [0..MaxDepth -> SUBSET Cts] /\ is.scopeDepth \in 0..MaxDepth
        /\ Elems(is.classMap) \subseteq Cts
    BY <1>1, InertType, ElemsType
  <2>2. c \notin Elems(is.classMap) /\ r.classMap = is.classMap
    BY <1>1, MembersDef DEF Tagged
  <2>3. \A d \in Elems(r.classMap) : r.ctScope[d] = r.scopeDepth
    BY <1>5, <1>7, <2>1, <2>2 DEF OfScope
  <2>4. is.scopeCts[is.scopeDepth] \subseteq r.scopeCts[r.scopeDepth]
    BY <1>5, <2>1
  <2>5. r.resolutionKeys = is.resolutionKeys
    BY DEF Tagged
  <2>6. \A p \in r.resolutionKeys : p[2] \in r.scopeCts[r.scopeDepth]
    BY <1>7, <2>4, <2>5 DEF OfScope
  <2> QED BY <2>3, <2>6 DEF OfScope
<1> QED BY <1>2, <1>3, <1>4, <1>6, <1>7 DEF Grown, InertOK, Tagged

LEMMA InsertFunEqOK ==
  ASSUME NEW is, InertOK(is), NEW c \in Of("fun"), c \notin Members(is),
         NEW ids \in Seq(Metas), IsInjective(ids),
         NEW r, r = Inert!InsertFunEq(is, c, ids)
  PROVE  Grown(is, c, ids, r)
<1>1. c \in Cts /\ c \notin Of("class") /\ is \in Inert!InertSets /\ Buckets(is)
  BY DEF Of, InertOK, Buckets
<1>2. PICK t : t = Inert!tagScope(Inert!indexMetas(is, c, ids), c)
  OBVIOUS
<1>3. Tagged(is, c, ids, t)
  BY <1>1, <1>2, IndexAndTag
<1>4. t \in Inert!InertSets /\ t.funEqs = is.funEqs
  BY <1>3 DEF Tagged, Buckets
<1> DEFINE fe == Append(t.funEqs, c)
<1>5. fe \in Seq(Cts) /\ ToSet(fe) = ToSet(t.funEqs) \cup {c} /\ Once(fe)
  <2>1. c \notin Elems(is.funEqs) /\ is.funEqs \in Seq(Cts) /\ Once(is.funEqs)
    BY <1>1, MembersDef, InertType DEF Buckets
  <2> QED BY <1>1, <1>4, <2>1, AppendElems
<1>6. r = [t EXCEPT !.funEqs = fe]
  BY <1>2, <1>4 DEF Inert!InsertFunEq, Inert!InertSets
<1> HIDE DEF fe
<1>7. /\ r \in Inert!InertSets /\ r.funEqs = fe
      /\ r.classMap = t.classMap /\ r.metaIndex = t.metaIndex /\ r.ctMetas = t.ctMetas
      /\ r.scopeDepth = t.scopeDepth /\ r.resolutionKeys = t.resolutionKeys
      /\ r.ctScope = t.ctScope /\ r.scopeCts = t.scopeCts
  BY <1>4, <1>5, <1>6 DEF Inert!InertSets
<1> QED BY <1>1, <1>3, <1>5, <1>7, TaggedGrown

LEMMA InsertEqOK ==
  ASSUME NEW is, InertOK(is), NEW c \in Of("eq"), c \notin Members(is),
         NEW ids \in Seq(Metas), c \in Nested \/ IsInjective(ids),
         NEW r, r = Inert!InsertEq(is, c, ids)
  PROVE  Grown(is, c, ids, r)
<1>1. c \in Cts /\ c \notin Of("class")
  BY DEF Of
<1>2. r = Inert!tagScope(Inert!indexMetas(is, c, ids), c)
  BY DEF Inert!InsertEq
<1>3. Tagged(is, c, ids, r)
  BY <1>1, <1>2, IndexAndTag
<1>4. r \in Inert!InertSets /\ Once(r.funEqs)
  BY <1>3 DEF Tagged, Buckets
<1> QED BY <1>1, <1>3, <1>4, TaggedGrown

LEMMA InsertGivenOK ==
  ASSUME NEW is, InertOK(is), NEW c \in Of("given"), c \notin Members(is),
         NEW r, r = Inert!InsertGiven(is, c)
  PROVE  Grown(is, c, <<>>, r)
<1>1. c \in Cts /\ c \notin Of("class") /\ is \in Inert!InertSets
  BY DEF Of, InertOK, Buckets
<1>2. PICK t : t = Inert!tagScope(Inert!indexMetas(is, c, <<>>), c)
  OBVIOUS
<1>3. Tagged(is, c, <<>>, t)
  <2>1. <<>> \in Seq(Metas) /\ IsInjective(<<>>)
    BY DEF IsInjective
  <2> QED BY <1>1, <1>2, <2>1, IndexAndTag
<1>4. t \in Inert!InertSets /\ Once(t.funEqs)
  BY <1>3 DEF Tagged, Buckets
<1> DEFINE ge == Append(t.givenEqs, c)
<1>5. ge \in Seq(Cts)
  BY <1>1, <1>4, InertType
<1>6. r = [t EXCEPT !.givenEqs = ge]
  BY <1>2, <1>4 DEF Inert!InsertGiven, Inert!indexMetas, Inert!InertSets
<1> HIDE DEF ge
<1>7. /\ r \in Inert!InertSets /\ r.funEqs = t.funEqs
      /\ r.classMap = t.classMap /\ r.metaIndex = t.metaIndex /\ r.ctMetas = t.ctMetas
      /\ r.scopeDepth = t.scopeDepth /\ r.resolutionKeys = t.resolutionKeys
      /\ r.ctScope = t.ctScope /\ r.scopeCts = t.scopeCts
  BY <1>4, <1>5, <1>6 DEF Inert!InertSets
<1>8. <<>> \in Seq(Metas)
  OBVIOUS
<1> QED BY <1>1, <1>3, <1>4, <1>7, <1>8, TaggedGrown

-----------------------------------------------------------------------------
(* Kick-out.                                                               *)

\* o is is without the bucket of m and without the constraints of gone.
KickedOut(is, m, gone, o) ==
  /\ Buckets(o) /\ o.metaIndex[m] = <<>>
  /\ Elems(o.classMap) = Elems(is.classMap) \ gone
  /\ Elems(o.funEqs) = Elems(is.funEqs) \ gone
  /\ \A x \in Metas \ {m} : Elems(o.metaIndex[x]) = Elems(is.metaIndex[x]) \ gone
  /\ ToSet(o.classMap) \subseteq ToSet(is.classMap)
  /\ ToSet(o.funEqs) \subseteq ToSet(is.funEqs)
  /\ \A x \in Metas \ {m} : ToSet(o.metaIndex[x]) \subseteq ToSet(is.metaIndex[x])
  /\ o.scopeDepth = is.scopeDepth /\ o.ctScope = is.ctScope /\ o.scopeCts = is.scopeCts
  /\ o.resolutionKeys = is.resolutionKeys

\* What is left of the bucket of m when constraints are taken out of the index.
LEMMA UnindexedElems ==
  ASSUME NEW is \in Inert!InertSets, NEW S, NEW m \in Metas
  PROVE  /\ Inert!Unindexed(is, S, m) \in Seq(Cts)
         /\ ToSet(Inert!Unindexed(is, S, m)) \subseteq ToSet(is.metaIndex[m])
         /\ Once(is.metaIndex[m]) =>
              /\ Once(Inert!Unindexed(is, S, m))
              /\ Elems(Inert!Unindexed(is, S, m)) =
                   {c \in Elems(is.metaIndex[m]) : c \in S => m \notin ToSet(is.ctMetas[c])}
<1> DEFINE n == [c \in Cts |-> IF c \in S THEN Inert!Occurs(is.ctMetas[c], m) ELSE 0]
<1>1. is.metaIndex[m] \in Seq(Cts) /\ \A c \in Cts : is.ctMetas[c] \in Seq(Metas)
  BY InertType
<1>2. \A c \in Cts : n[c] \in Nat /\ (n[c] = 0 <=> (c \in S => m \notin ToSet(is.ctMetas[c])))
  BY <1>1, OccursCount
<1>3. n \in [Cts -> Nat]
  BY <1>2
<1>4. Inert!Unindexed(is, S, m) = Inert!DropCopies(is.metaIndex[m], n)
  BY DEF Inert!Unindexed
<1>5. Elems(is.metaIndex[m]) \subseteq Cts
  BY <1>1, ElemsType
<1> HIDE DEF n
<1> QED BY <1>1, <1>2, <1>3, <1>4, <1>5, DropElems

\* One iteration of KickOut.
KickOne(o, c, m) == Inert!removeFromOtherMetaBuckets(Inert!RemovePrimary(o, c), c, m)

LEMMA KickOneFields ==
  ASSUME NEW o \in Inert!InertSets, NEW c \in Cts, NEW m \in Metas
  PROVE  /\ KickOne(o, c, m) \in Inert!InertSets
         /\ KickOne(o, c, m).classMap = RemoveFirst(o.classMap, c)
         /\ KickOne(o, c, m).funEqs = RemoveFirst(o.funEqs, c)
         /\ KickOne(o, c, m).metaIndex =
              [x \in Metas |-> IF x \in ToSet(o.ctMetas[c]) \ {m}
                               THEN Inert!Unindexed(o, {c}, x) ELSE o.metaIndex[x]]
         /\ KickOne(o, c, m).ctMetas = [o.ctMetas EXCEPT ![c] = <<>>]
         /\ KickOne(o, c, m).scopeDepth = o.scopeDepth
         /\ KickOne(o, c, m).ctScope = o.ctScope
         /\ KickOne(o, c, m).scopeCts = o.scopeCts
         /\ KickOne(o, c, m).resolutionKeys = o.resolutionKeys
<1> DEFINE cm == RemoveFirst(o.classMap, c)
           fe == RemoveFirst(o.funEqs, c)
           mi == [x \in Metas |-> IF x \in ToSet(o.ctMetas[c]) \ {m}
                                  THEN Inert!Unindexed(o, {c}, x) ELSE o.metaIndex[x]]
           cs == [o.ctMetas EXCEPT ![c] = <<>>]
<1>1. cm \in Seq(Cts) /\ fe \in Seq(Cts) /\ mi \in [Metas -> Seq(Cts)]
  BY InertType, RemoveElems, UnindexedElems
<1>2. cs \in [Cts -> Seq(Metas)]
  <2>1. <<>> \in Seq(Metas)
    OBVIOUS
  <2> QED BY <2>1, InertType
<1>3. PICK p : p = Inert!RemovePrimary(o, c)
  OBVIOUS
<1>4. p = [o EXCEPT !.classMap = cm, !.funEqs = fe]
  BY <1>3, SameOps DEF Inert!RemovePrimary, Inert!removeClass, Inert!removeFunEq, Inert!InertSets
<1>5. p.metaIndex = o.metaIndex /\ p.ctMetas = o.ctMetas /\ p \in Inert!InertSets
  <2> HIDE DEF cm, fe
  <2> QED BY <1>1, <1>4 DEF Inert!InertSets
<1>6. KickOne(o, c, m) = [p EXCEPT !.metaIndex = mi, !.ctMetas = cs]
  <2>1. KickOne(o, c, m) = Inert!RemoveFromBuckets(p, c, ToSet(o.ctMetas[c]) \ {m})
    BY <1>3, <1>5, SameOps DEF KickOne, Inert!removeFromOtherMetaBuckets
  <2>2. \A x \in Metas : Inert!Unindexed(p, {c}, x) = Inert!Unindexed(o, {c}, x)
    BY <1>5 DEF Inert!Unindexed
  <2> DEFINE M == ToSet(o.ctMetas[c]) \ {m}
             mp == [x \in Metas |-> IF x \in M THEN Inert!Unindexed(p, {c}, x)
                                               ELSE p.metaIndex[x]]
  <2>3. mp = mi
    BY <1>5, <2>2
  <2>4. Inert!RemoveFromBuckets(p, c, M) = [p EXCEPT !.metaIndex = mp,
                                                     !.ctMetas = [p.ctMetas EXCEPT ![c] = <<>>]]
    BY <1>5 DEF Inert!RemoveFromBuckets, Inert!InertSets
  <2> HIDE DEF mi, mp
  <2> QED BY <1>5, <2>1, <2>3, <2>4
<1> HIDE DEF cm, fe, mi, cs
<1>7. /\ KickOne(o, c, m) \in Inert!InertSets
      /\ KickOne(o, c, m).classMap = cm /\ KickOne(o, c, m).funEqs = fe
      /\ KickOne(o, c, m).metaIndex = mi /\ KickOne(o, c, m).ctMetas = cs
      /\ KickOne(o, c, m).scopeDepth = o.scopeDepth
      /\ KickOne(o, c, m).ctScope = o.ctScope
      /\ KickOne(o, c, m).scopeCts = o.scopeCts
      /\ KickOne(o, c, m).resolutionKeys = o.resolutionKeys
  BY <1>1, <1>2, <1>4, <1>5, <1>6, ZenonT(60) DEF Inert!InertSets
<1> QED BY <1>7 DEF cm, fe, mi, cs

LEMMA KickOneOK ==
  ASSUME NEW is, NEW m \in Metas, NEW gone, NEW o, KickedOut(is, m, gone, o), NEW c \in Cts
  PROVE  KickedOut(is, m, gone \cup {c}, KickOne(o, c, m))
<1>1. PICK r : r = KickOne(o, c, m)
  OBVIOUS
<1>2. o \in Inert!InertSets /\ Buckets(o)
  BY DEF KickedOut, Buckets
<1>3. /\ r \in Inert!InertSets
      /\ r.classMap = RemoveFirst(o.classMap, c) /\ r.funEqs = RemoveFirst(o.funEqs, c)
      /\ r.metaIndex = [x \in Metas |-> IF x \in ToSet(o.ctMetas[c]) \ {m}
                                        THEN Inert!Unindexed(o, {c}, x) ELSE o.metaIndex[x]]
      /\ r.ctMetas = [o.ctMetas EXCEPT ![c] = <<>>]
      /\ r.scopeDepth = o.scopeDepth /\ r.ctScope = o.ctScope /\ r.scopeCts = o.scopeCts
      /\ r.resolutionKeys = o.resolutionKeys
  BY <1>1, <1>2, KickOneFields
<1>4. /\ o.classMap \in Seq(Cts) /\ o.funEqs \in Seq(Cts) /\ o.ctMetas \in [Cts -> Seq(Metas)]
      /\ \A x \in Metas : o.metaIndex[x] \in Seq(Cts)
  BY <1>2, InertType
<1>5. /\ Once(r.classMap) /\ Elems(r.classMap) = Elems(o.classMap) \ {c}
      /\ ToSet(r.classMap) \subseteq ToSet(o.classMap)
  BY <1>2, <1>3, <1>4, RemoveElems DEF Buckets
<1>6. /\ Once(r.funEqs) /\ Elems(r.funEqs) = Elems(o.funEqs) \ {c}
      /\ ToSet(r.funEqs) \subseteq ToSet(o.funEqs)
  BY <1>2, <1>3, <1>4, RemoveElems DEF Buckets
<1>7. o.metaIndex[m] = <<>> /\ r.metaIndex[m] = <<>>
  BY <1>3 DEF KickedOut
<1>8. ASSUME NEW x \in Metas
      PROVE  /\ Once(r.metaIndex[x]) /\ Elems(r.metaIndex[x]) = Elems(o.metaIndex[x]) \ {c}
             /\ ToSet(r.metaIndex[x]) \subseteq ToSet(o.metaIndex[x])
  <2>1. Once(o.metaIndex[x]) /\ (c \in Elems(o.metaIndex[x]) => x \in ToSet(o.ctMetas[c]))
    BY <1>2 DEF Buckets
  <2>2. CASE x = m
    BY <1>7, <2>2, EmptyElems
  <2>3. CASE x # m /\ x \in ToSet(o.ctMetas[c])
    <3>1. r.metaIndex[x] = Inert!Unindexed(o, {c}, x)
      BY <1>3, <2>3
    <3> QED BY <1>2, <1>4, <2>1, <2>3, <3>1, UnindexedElems
  <2>4. CASE x # m /\ x \notin ToSet(o.ctMetas[c])
    <3>1. r.metaIndex[x] = o.metaIndex[x]
      BY <1>3, <2>4
    <3> QED BY <2>1, <2>4, <3>1
  <2> QED BY <2>2, <2>3, <2>4
<1>9. ASSUME NEW x \in Metas, NEW d \in Elems(r.metaIndex[x])
      PROVE  x \in ToSet(r.ctMetas[d])
  <2>1. d # c /\ d \in Elems(o.metaIndex[x]) /\ d \in Cts
    BY <1>4, <1>8, <1>9, ElemsType, ZenonT(60)
  <2>2. r.ctMetas[d] = o.ctMetas[d]
    BY <1>3, <1>4, <2>1
  <2> QED BY <1>2, <2>1, <2>2 DEF Buckets
<1>10. Buckets(r)
  BY <1>3, <1>5, <1>6, <1>8, <1>9 DEF Buckets
<1>11. /\ Elems(r.classMap) = Elems(is.classMap) \ (gone \cup {c})
       /\ Elems(r.funEqs) = Elems(is.funEqs) \ (gone \cup {c})
       /\ \A x \in Metas \ {m} : Elems(r.metaIndex[x]) = Elems(is.metaIndex[x]) \ (gone \cup {c})
       /\ ToSet(r.classMap) \subseteq ToSet(is.classMap) /\ ToSet(r.funEqs) \subseteq ToSet(is.funEqs)
       /\ \A x \in Metas \ {m} : ToSet(r.metaIndex[x]) \subseteq ToSet(is.metaIndex[x])
  <2>1. /\ Elems(r.classMap) = Elems(is.classMap) \ (gone \cup {c})
        /\ Elems(r.funEqs) = Elems(is.funEqs) \ (gone \cup {c})
        /\ ToSet(r.classMap) \subseteq ToSet(is.classMap) /\ ToSet(r.funEqs) \subseteq ToSet(is.funEqs)
    BY <1>5, <1>6 DEF KickedOut
  <2>2. ASSUME NEW x \in Metas \ {m}
        PROVE  /\ Elems(r.metaIndex[x]) = Elems(is.metaIndex[x]) \ (gone \cup {c})
               /\ ToSet(r.metaIndex[x]) \subseteq ToSet(is.metaIndex[x])
    <3>1. /\ Elems(o.metaIndex[x]) = Elems(is.metaIndex[x]) \ gone
          /\ ToSet(o.metaIndex[x]) \subseteq ToSet(is.metaIndex[x])
      BY DEF KickedOut
    <3> QED BY <1>8, <3>1
  <2> QED BY <2>1, <2>2
<1>12. /\ r.scopeDepth = is.scopeDepth /\ r.ctScope = is.ctScope /\ r.scopeCts = is.scopeCts
       /\ r.resolutionKeys = is.resolutionKeys
  BY <1>3 DEF KickedOut
<1> QED BY <1>1, <1>7, <1>10, <1>11, <1>12 DEF KickedOut

\* KickOut takes the bucket of m out of every bucket.
LEMMA KickOutAll ==
  ASSUME NEW is, Buckets(is), NEW m \in Metas
  PROVE  KickedOut(is, m, ToSet(is.metaIndex[m]), Inert!KickOut(is, m))
<1> DEFINE b == is.metaIndex[m]
           N == Len(b)
           start == [is EXCEPT !.metaIndex[m] = <<>>]
           Body(g) == [i \in 0..N |-> IF i = 0 THEN start ELSE KickOne(g[i - 1], b[i], m)]
           F == [i \in Nat |-> [o \in Inert!InertSets |->
                  IF i \in 1..N THEN KickOne(o, b[i], m) ELSE o]]
           out == CHOOSE g : g = Body(g)
<1>1. is \in Inert!InertSets /\ b \in Seq(Cts)
  BY InertType DEF Buckets
<1>2. N \in Nat /\ DOMAIN b = 1..N /\ \A i \in 1..N : b[i] \in Cts
  BY <1>1
<1>3. KickedOut(is, m, {}, start) /\ start \in Inert!InertSets
  <2> DEFINE mi == [is.metaIndex EXCEPT ![m] = <<>>]
  <2>1. mi \in [Metas -> Seq(Cts)] /\ mi[m] = <<>> /\ \A x \in Metas \ {m} : mi[x] = is.metaIndex[x]
    <3>1. <<>> \in Seq(Cts)
      OBVIOUS
    <3> QED BY <1>1, <3>1, InertType
  <2>2. start = [is EXCEPT !.metaIndex = mi]
    BY <1>1 DEF Inert!InertSets
  <2> HIDE DEF mi, start
  <2>3. /\ start \in Inert!InertSets /\ start.metaIndex = mi
        /\ start.classMap = is.classMap /\ start.funEqs = is.funEqs
        /\ start.ctMetas = is.ctMetas /\ start.scopeDepth = is.scopeDepth
        /\ start.ctScope = is.ctScope /\ start.scopeCts = is.scopeCts
        /\ start.resolutionKeys = is.resolutionKeys
    BY <1>1, <2>1, <2>2 DEF Inert!InertSets
  <2>4. Buckets(start)
    <3>1. ASSUME NEW x \in Metas
          PROVE  /\ Once(start.metaIndex[x])
                 /\ \A c \in Elems(start.metaIndex[x]) : x \in ToSet(start.ctMetas[c])
      BY <2>1, <2>3, EmptyElems DEF Buckets
    <3> QED BY <2>3, <3>1 DEF Buckets
  <2> QED BY <2>1, <2>3, <2>4 DEF KickedOut
<1>4. F \in [Nat -> [Inert!InertSets -> Inert!InertSets]]
  <2>1. ASSUME NEW i \in Nat, NEW o \in Inert!InertSets
        PROVE  (IF i \in 1..N THEN KickOne(o, b[i], m) ELSE o) \in Inert!InertSets
    BY <1>2, KickOneFields
  <2> QED BY <2>1
<1>5. PICK g : IsChain(g, N, Inert!InertSets, start, F)
  <2> HIDE DEF F, N, start
  <2> QED BY <1>2, <1>3, <1>4, ChainExists
<1> HIDE DEF N, b, start
<1>6. g = Body(g)
  <2>1. ASSUME NEW i \in 0..N
        PROVE  g[i] = IF i = 0 THEN start ELSE KickOne(g[i - 1], b[i], m)
    <3>1. CASE i = 0
      BY <1>5, <3>1 DEF IsChain
    <3>2. CASE i # 0
      <4>1. i \in 1..N /\ i - 1 \in 0..N /\ i \in Nat
        BY <1>2, <3>2
      <4>2. g[i] = F[i][g[i - 1]] /\ g[i - 1] \in Inert!InertSets
        BY <1>5, <4>1 DEF IsChain
      <4> QED BY <4>1, <4>2, <3>2
    <3> QED BY <3>1, <3>2
  <2>2. g = [i \in 0..N |-> g[i]]
    BY <1>5 DEF IsChain
  <2> QED BY <2>1, <2>2
<1>7. out = Body(out)
  <2> HIDE DEF Body
  <2> QED BY <1>6
<1>8. Inert!KickOut(is, m) = out[N]
  BY DEF Inert!KickOut, N, b, start, KickOne
<1> HIDE DEF out
<1> DEFINE Upto(i) == {b[j] : j \in 1..i}
           S == {i \in Nat : i \in 0..N => KickedOut(is, m, Upto(i), out[i])}
<1>9. Nat \subseteq S
  <2>1. 0 \in S
    <3>1. Upto(0) = {} /\ out[0] = start
      BY <1>2, <1>7
    <3> HIDE DEF Upto
    <3> QED BY <1>3, <3>1
  <2>2. ASSUME NEW i \in Nat, i \in S PROVE i + 1 \in S
    <3>1. SUFFICES ASSUME i + 1 \in 0..N PROVE KickedOut(is, m, Upto(i + 1), out[i + 1])
      OBVIOUS
    <3>2. i + 1 \in 1..N /\ (i + 1) - 1 = i /\ i \in 0..N /\ i + 1 # 0
      BY <1>2, <3>1
    <3>3. out[i + 1] = KickOne(out[i], b[i + 1], m)
      BY <1>7, <3>1, <3>2
    <3>4. Upto(i + 1) = Upto(i) \cup {b[i + 1]}
      <4>1. 1..(i + 1) = 1..i \cup {i + 1}
        OBVIOUS
      <4> QED BY <4>1
    <3> HIDE DEF Upto
    <3>5. KickedOut(is, m, Upto(i), out[i])
      BY <2>2, <3>2
    <3>6. b[i + 1] \in Cts
      BY <1>2, <3>2
    <3> QED BY <3>3, <3>4, <3>5, <3>6, KickOneOK
  <2> HIDE DEF S
  <2> QED BY <2>1, <2>2, NatSetInduction
<1>10. Upto(N) = ToSet(b)
  BY <1>2 DEF ToSet
<1>11. KickedOut(is, m, Upto(N), out[N])
  <2>1. N \in S
    <3> HIDE DEF S
    <3> QED BY <1>2, <1>9
  <2>2. N \in 0..N
    BY <1>2
  <2> HIDE DEF Upto
  <2> QED BY <2>1, <2>2
<1> QED BY <1>8, <1>10, <1>11 DEF b

\* r is is without the constraints of gone.
Shrunk(is, gone, r) ==
  /\ InertOK(r)
  /\ Members(r) = Members(is) \ gone
  /\ Elems(r.classMap) = Elems(is.classMap) \ gone
  /\ \A x \in Metas : ToSet(r.metaIndex[x]) \subseteq ToSet(is.metaIndex[x])
  /\ r.scopeDepth = is.scopeDepth /\ r.resolutionKeys = is.resolutionKeys
  /\ OfScope(is) => OfScope(r)

LEMMA KickOutOK ==
  ASSUME NEW is, InertOK(is), NEW m \in Metas
  PROVE  /\ Shrunk(is, ToSet(is.metaIndex[m]), Inert!KickOut(is, m))
         /\ Inert!KickOut(is, m).metaIndex[m] = <<>>
<1> DEFINE gone == ToSet(is.metaIndex[m])
<1>1. PICK r : r = Inert!KickOut(is, m)
  OBVIOUS
<1>2. is \in Inert!InertSets /\ Buckets(is) /\ Kinds(is) /\ Owned(is)
  BY DEF InertOK, Buckets
<1>3. KickedOut(is, m, gone, r)
  BY <1>1, <1>2, KickOutAll
<1>4. ASSUME NEW x \in Metas
      PROVE  /\ Elems(r.metaIndex[x]) = Elems(is.metaIndex[x]) \ gone
             /\ ToSet(r.metaIndex[x]) \subseteq ToSet(is.metaIndex[x])
  <2>1. CASE x = m
    BY <1>3, <2>1, EmptyElems DEF KickedOut, Elems
  <2>2. CASE x # m
    BY <1>3, <2>2 DEF KickedOut
  <2> QED BY <2>1, <2>2
<1> HIDE DEF gone
<1>5. r \in Inert!InertSets /\ Buckets(r)
  BY <1>3 DEF KickedOut, Buckets
<1>6. Members(r) = Members(is) \ gone
  <2>1. ASSUME NEW d PROVE d \in Members(r) <=> d \in Members(is) /\ d \notin gone
    <3>1. d \in Members(r) <=>
            \/ d \in Elems(r.classMap) \/ d \in Elems(r.funEqs)
            \/ \E x \in Metas : d \in Elems(r.metaIndex[x])
      BY <1>5, MembersDef
    <3>2. d \in Members(is) <=>
            \/ d \in Elems(is.classMap) \/ d \in Elems(is.funEqs)
            \/ \E x \in Metas : d \in Elems(is.metaIndex[x])
      BY <1>2, MembersDef
    <3> QED BY <1>3, <1>4, <3>1, <3>2 DEF KickedOut
  <2> QED BY <2>1
<1>7. Kinds(r)
  BY <1>2, <1>3, <1>4 DEF Kinds, KickedOut
<1>8. Owned(r)
  BY <1>2, <1>3, <1>6 DEF Owned, KickedOut
<1>9. OfScope(is) => OfScope(r)
  BY <1>3 DEF OfScope, KickedOut
<1>10. Shrunk(is, gone, r)
  BY <1>3, <1>4, <1>5, <1>6, <1>7, <1>8, <1>9 DEF Shrunk, InertOK, KickedOut
<1>11. r.metaIndex[m] = <<>>
  BY <1>3 DEF KickedOut
<1> QED BY <1>1, <1>10, <1>11 DEF gone

\* What a new given wakes: members that mention the skolem, each once.
LEMMA SkolemCtsElems ==
  ASSUME NEW is, InertOK(is), NEW S \in SUBSET Cts
  PROVE  /\ Inert!SkolemCts(is, S) \in Seq(Cts) /\ Once(Inert!SkolemCts(is, S))
         /\ ToSet(Inert!SkolemCts(is, S)) \subseteq S
         /\ Elems(Inert!SkolemCts(is, S)) \subseteq Members(is)
         /\ Elems(is.funEqs) \cap S \subseteq ToSet(Inert!SkolemCts(is, S))
<1>1. is \in Inert!InertSets /\ Buckets(is)
  BY DEF InertOK, Buckets
<1>2. /\ is.funEqs \in Seq(Cts) /\ Once(is.funEqs) /\ is.classMap \in Seq(Cts)
      /\ \A m \in Metas : is.metaIndex[m] \in Seq(Cts)
  BY <1>1, InertType DEF Buckets
<1> DEFINE T == {ct \in S : \E m \in Metas : Contains(is.metaIndex[m], ct)}
                \ ToSet(is.classMap \o is.funEqs)
           k == Inert!Keep(is.funEqs, S)
           t == SetToSeq(T)
<1>3. k \in Seq(Cts) /\ ToSet(k) = ToSet(is.funEqs) \cap S /\ Once(k)
  BY <1>2, KeepElems
<1>4. /\ T \subseteq S /\ T \cap ToSet(is.funEqs) = {} /\ T \ Nested \subseteq Members(is)
  <2>1. ToSet(is.classMap \o is.funEqs) = ToSet(is.classMap) \cup ToSet(is.funEqs)
    BY <1>2, ConcatElems
  <2>2. \A m \in Metas, c \in Cts : Contains(is.metaIndex[m], c) => c \in ToSet(is.metaIndex[m])
    BY <1>2, ElemsType
  <2>3. T \subseteq S /\ T \cap ToSet(is.funEqs) = {}
    BY <2>1
  <2>4. T \ Nested \subseteq Members(is)
    BY <1>1, <2>2, MembersDef DEF Elems
  <2> QED BY <2>3, <2>4
<1> HIDE DEF T
<1>5. IsFiniteSet(T)
  <2>1. T \in SUBSET Cts
    BY <1>4
  <2>2. IsFiniteSet(Cts)
    BY SignatureAssumption
  <2> QED BY ONLY <2>1, <2>2, FS_Subset
<1>6. t \in Seq(T) /\ ToSet(t) = T /\ Once(t)
  BY <1>5, SetToSeqElems
<1>7. t \in Seq(Cts)
  BY <1>4, <1>6, SeqMonotonic
<1> HIDE DEF k, t
<1>8. k \o t \in Seq(Cts) /\ ToSet(k \o t) = ToSet(k) \cup T /\ Once(k \o t)
  BY <1>3, <1>4, <1>6, <1>7, ConcatElems DEF Elems
<1>9. Inert!SkolemCts(is, S) = k \o t
  BY SameOps DEF Inert!SkolemCts, k, t, T
<1>10. Elems(is.funEqs) \cap S \subseteq Members(is)
  BY <1>1, MembersDef
<1> QED BY <1>3, <1>4, <1>8, <1>9, <1>10 DEF Elems

LEMMA KickOutSkolemOK ==
  ASSUME NEW is, InertOK(is), NEW S \in SUBSET Cts, S \cap Of("class") = {}
  PROVE  Shrunk(is, ToSet(Inert!SkolemCts(is, S)), Inert!KickOutMentioningSkolem(is, S))
<1> DEFINE gone == ToSet(Inert!SkolemCts(is, S))
           fe == Inert!Keep(is.funEqs, Cts \ S)
           mi == [m \in Metas |->
                   Inert!Keep(is.metaIndex[m],
                     {ct \in Cts : \/ ct \notin gone
                                   \/ /\ Contains(is.funEqs, ct)
                                      /\ ~Contains(is.ctMetas[ct], m)})]
           cs == [c \in Cts |-> IF c \in gone /\ Contains(is.funEqs, c) THEN <<>> ELSE is.ctMetas[c]]
           sc == [c \in Cts |-> IF c \in gone THEN -1 ELSE is.ctScope[c]]
<1>1. PICK r : r = Inert!KickOutMentioningSkolem(is, S)
  OBVIOUS
<1>2. is \in Inert!InertSets /\ Buckets(is) /\ Kinds(is) /\ Owned(is)
  BY DEF InertOK, Buckets
<1>3. r = [is EXCEPT !.funEqs = fe, !.metaIndex = mi, !.ctMetas = cs, !.ctScope = sc]
  BY <1>1, <1>2, SameOps DEF Inert!KickOutMentioningSkolem, Inert!WithoutSkolemCts,
                              Inert!NoScope, Inert!InertSets
<1>4. /\ is.funEqs \in Seq(Cts) /\ is.classMap \in Seq(Cts)
      /\ \A m \in Metas : is.metaIndex[m] \in Seq(Cts)
      /\ is.ctMetas \in [Cts -> Seq(Metas)] /\ is.ctScope \in [Cts -> (0..MaxDepth) \cup {-1}]
  BY <1>2, InertType
<1>5. gone \subseteq S /\ gone \subseteq Cts /\ Elems(is.funEqs) \cap S \subseteq gone
  BY SkolemCtsElems
<1> HIDE DEF gone
<1>6. /\ fe \in Seq(Cts) /\ Elems(fe) = Elems(is.funEqs) \ gone /\ Once(fe)
      /\ ToSet(fe) \subseteq ToSet(is.funEqs)
  <2>1. /\ fe \in Seq(Cts) /\ Elems(fe) = Elems(is.funEqs) \cap (Cts \ S) /\ Once(fe)
        /\ ToSet(fe) = ToSet(is.funEqs) \cap (Cts \ S)
    BY <1>2, <1>4, KeepElems DEF Buckets
  <2>2. Elems(is.funEqs) \subseteq Cts
    BY <1>4, ElemsType
  <2> QED BY <1>5, <2>1, <2>2
<1>7. ASSUME NEW m \in Metas
      PROVE  /\ mi[m] \in Seq(Cts) /\ Elems(mi[m]) = Elems(is.metaIndex[m]) \ gone /\ Once(mi[m])
             /\ ToSet(mi[m]) \subseteq ToSet(is.metaIndex[m])
  <2> DEFINE K == {ct \in Cts : \/ ct \notin gone
                                \/ /\ Contains(is.funEqs, ct)
                                   /\ ~Contains(is.ctMetas[ct], m)}
  <2>1. Once(is.metaIndex[m]) /\ \A c \in Elems(is.metaIndex[m]) : m \in ToSet(is.ctMetas[c])
    BY <1>2 DEF Buckets
  <2>2. \A c \in Elems(is.metaIndex[m]) : c \in Cts /\ Contains(is.ctMetas[c], m)
    BY <1>4, <2>1, ElemsType
  <2>3. Elems(is.metaIndex[m]) \cap K = Elems(is.metaIndex[m]) \ gone
    BY <2>2
  <2>4. mi[m] = Inert!Keep(is.metaIndex[m], K)
    OBVIOUS
  <2> HIDE DEF K, mi
  <2> QED BY <1>4, <2>1, <2>3, <2>4, KeepElems
<1>8. /\ cs \in [Cts -> Seq(Metas)] /\ sc \in [Cts -> (0..MaxDepth) \cup {-1}]
      /\ mi \in [Metas -> Seq(Cts)]
      /\ \A d \in Cts \ gone : cs[d] = is.ctMetas[d] /\ sc[d] = is.ctScope[d]
  <2>1. <<>> \in Seq(Metas)
    OBVIOUS
  <2> QED BY <1>4, <1>7, <2>1
<1> HIDE DEF fe, mi, cs, sc
<1>9. /\ r \in Inert!InertSets /\ r.funEqs = fe /\ r.metaIndex = mi /\ r.ctMetas = cs
      /\ r.ctScope = sc /\ r.classMap = is.classMap /\ r.scopeDepth = is.scopeDepth
      /\ r.scopeCts = is.scopeCts /\ r.resolutionKeys = is.resolutionKeys
  BY <1>2, <1>3, <1>6, <1>8 DEF Inert!InertSets, Inert!Depths, Inert!NoScope
<1>10. Buckets(r)
  <2>1. ASSUME NEW m \in Metas, NEW c \in Elems(r.metaIndex[m])
        PROVE  m \in ToSet(r.ctMetas[c])
    <3>1. c \in Elems(is.metaIndex[m]) /\ c \notin gone
      BY <1>7, <1>9
    <3>2. c \in Cts
      BY <1>4, <3>1, ElemsType
    <3> QED BY <1>2, <1>8, <1>9, <3>1, <3>2 DEF Buckets
  <2> QED BY <1>2, <1>6, <1>7, <1>9, <2>1 DEF Buckets
<1>11. Elems(is.classMap) \cap gone = {}
  BY <1>2, <1>5 DEF Kinds, Elems
<1>12. Members(r) = Members(is) \ gone
  <2>1. ASSUME NEW d PROVE d \in Members(r) <=> d \in Members(is) /\ d \notin gone
    <3>1. d \in Members(r) <=>
            \/ d \in Elems(r.classMap) \/ d \in Elems(r.funEqs)
            \/ \E x \in Metas : d \in Elems(r.metaIndex[x])
      BY <1>9, MembersDef
    <3>2. d \in Members(is) <=>
            \/ d \in Elems(is.classMap) \/ d \in Elems(is.funEqs)
            \/ \E x \in Metas : d \in Elems(is.metaIndex[x])
      BY <1>2, MembersDef
    <3> QED BY <1>6, <1>7, <1>9, <1>11, <3>1, <3>2
  <2> QED BY <2>1
<1>13. Kinds(r)
  BY <1>2, <1>6, <1>7, <1>9 DEF Kinds
<1>14. Owned(r)
  <2>1. Members(is) \subseteq Cts
    BY <1>2, MembersType
  <2> QED BY <1>2, <1>8, <1>9, <1>12, <2>1 DEF Owned
<1>15. OfScope(is) => OfScope(r)
  <2>1. Elems(is.classMap) \subseteq Cts
    BY <1>4, ElemsType
  <2> QED BY <1>8, <1>9, <1>11, <2>1 DEF OfScope
<1>16. Shrunk(is, gone, r)
  BY <1>7, <1>9, <1>10, <1>11, <1>12, <1>13, <1>14, <1>15 DEF Shrunk, InertOK
<1> QED BY <1>1, <1>16 DEF gone

-----------------------------------------------------------------------------
(* Scopes.                                                                 *)

\* What clearing the innermost scope leaves, at depth d afterwards: members
\* tagged outside it.
Cleared(is, d, r) ==
  /\ InertOK(r)
  /\ Members(r) \subseteq Members(is)
  /\ \A x \in Metas : ToSet(r.metaIndex[x]) \subseteq ToSet(is.metaIndex[x])
  /\ r.scopeDepth = d
  /\ OfScope(is) => r.classMap = <<>> /\ r.resolutionKeys = {}

\* clearScope at the current depth. Every member it leaves is tagged with a
\* smaller depth.
LEMMA ClearScopeOK ==
  ASSUME NEW is, InertOK(is), NEW r, r = Inert!clearScope(is, is.scopeDepth)
  PROVE  /\ Cleared(is, is.scopeDepth, r)
         /\ \A c \in Members(r) : r.ctScope[c] # is.scopeDepth
<1> DEFINE gone == UNION {is.scopeCts[e] : e \in is.scopeDepth..MaxDepth}
           cm == Inert!Keep(is.classMap, Cts \ gone)
           fe == Inert!Keep(is.funEqs, Cts \ gone)
           ge == Inert!Keep(is.givenEqs, Cts \ gone)
           mi == [m \in Metas |-> Inert!Unindexed(is, gone, m)]
           cs == [c \in Cts |-> IF c \in gone THEN <<>> ELSE is.ctMetas[c]]
           sc == [c \in Cts |-> IF c \in gone THEN -1 ELSE is.ctScope[c]]
           sl == [e \in 0..MaxDepth |-> IF e >= is.scopeDepth THEN {} ELSE is.scopeCts[e]]
           rk == IF gone = {} THEN is.resolutionKeys ELSE {}
<1>1. is \in Inert!InertSets /\ Buckets(is) /\ Kinds(is) /\ Owned(is)
  BY DEF InertOK, Buckets
<1>2. /\ is.funEqs \in Seq(Cts) /\ is.classMap \in Seq(Cts) /\ is.givenEqs \in Seq(Cts)
      /\ \A m \in Metas : is.metaIndex[m] \in Seq(Cts)
      /\ is.ctMetas \in [Cts -> Seq(Metas)] /\ is.ctScope \in [Cts -> (0..MaxDepth) \cup {-1}]
      /\ is.scopeCts \in [0..MaxDepth -> SUBSET Cts] /\ is.scopeDepth \in 0..MaxDepth
      /\ is.resolutionKeys \subseteq Pairs \X Cts
  BY <1>1, InertType
<1>3. MaxDepth \in Nat /\ is.scopeDepth \in Nat /\ is.scopeDepth \in is.scopeDepth..MaxDepth
  <2>1. MaxDepth \in Nat
    BY SignatureAssumption
  <2> QED BY <1>2, <2>1
<1>4. r = [is EXCEPT !.classMap = cm, !.funEqs = fe, !.givenEqs = ge, !.metaIndex = mi,
                     !.ctMetas = cs, !.ctScope = sc, !.scopeCts = sl, !.resolutionKeys = rk]
  BY <1>1, SameOps, ZenonT(60) DEF Inert!clearScope, Inert!ClearCts, Inert!NoScope, Inert!Depths, Inert!InertSets
<1>5. is.scopeCts[is.scopeDepth] \subseteq gone
  BY <1>3
<1>6. \A c \in Members(is) : c \notin gone => is.ctScope[c] < is.scopeDepth
  <2>1. SUFFICES ASSUME NEW c \in Members(is), ~(is.ctScope[c] < is.scopeDepth)
                 PROVE  c \in gone
    OBVIOUS
  <2>2. is.ctScope[c] \in 0..is.scopeDepth /\ c \in is.scopeCts[is.ctScope[c]]
    BY <1>1 DEF Owned
  <2>3. is.ctScope[c] = is.scopeDepth
    BY <1>3, <2>1, <2>2
  <2> QED BY <1>5, <2>2, <2>3
<1> HIDE DEF gone
<1>7. /\ cm \in Seq(Cts) /\ Elems(cm) = Elems(is.classMap) \ gone /\ Once(cm)
      /\ fe \in Seq(Cts) /\ Elems(fe) = Elems(is.funEqs) \ gone /\ Once(fe)
      /\ ToSet(cm) = ToSet(is.classMap) \ gone /\ ToSet(fe) = ToSet(is.funEqs) \ gone
      /\ ge \in Seq(Cts)
  <2>1. /\ cm \in Seq(Cts) /\ Elems(cm) = Elems(is.classMap) \cap (Cts \ gone) /\ Once(cm)
        /\ ToSet(cm) = ToSet(is.classMap) \cap (Cts \ gone)
    BY <1>1, <1>2, KeepElems DEF Buckets
  <2>2. /\ fe \in Seq(Cts) /\ Elems(fe) = Elems(is.funEqs) \cap (Cts \ gone) /\ Once(fe)
        /\ ToSet(fe) = ToSet(is.funEqs) \cap (Cts \ gone)
    BY <1>1, <1>2, KeepElems DEF Buckets
  <2>3. ge \in Seq(Cts)
    BY <1>2, KeepElems
  <2>4. /\ Elems(is.classMap) \subseteq Cts /\ Elems(is.funEqs) \subseteq Cts
        /\ ToSet(is.classMap) \subseteq Cts /\ ToSet(is.funEqs) \subseteq Cts
    BY <1>2, ElemsType
  <2> HIDE DEF cm, fe, ge
  <2> QED BY <2>1, <2>2, <2>3, <2>4
<1>8. ASSUME NEW m \in Metas
      PROVE  /\ mi[m] \in Seq(Cts) /\ Elems(mi[m]) = Elems(is.metaIndex[m]) \ gone /\ Once(mi[m])
             /\ ToSet(mi[m]) \subseteq ToSet(is.metaIndex[m])
  <2>1. Once(is.metaIndex[m]) /\ \A c \in Elems(is.metaIndex[m]) : m \in ToSet(is.ctMetas[c])
    BY <1>1 DEF Buckets
  <2>2. mi[m] = Inert!Unindexed(is, gone, m)
    OBVIOUS
  <2> HIDE DEF mi
  <2> QED BY <1>1, <2>1, <2>2, UnindexedElems
<1>9. /\ cs \in [Cts -> Seq(Metas)] /\ sc \in [Cts -> (0..MaxDepth) \cup {-1}]
      /\ mi \in [Metas -> Seq(Cts)] /\ sl \in [0..MaxDepth -> SUBSET Cts]
      /\ rk \subseteq Pairs \X Cts
      /\ \A d \in Cts \ gone : cs[d] = is.ctMetas[d] /\ sc[d] = is.ctScope[d]
      /\ \A e \in 0..MaxDepth : e < is.scopeDepth => sl[e] = is.scopeCts[e]
  <2>1. <<>> \in Seq(Metas)
    OBVIOUS
  <2>2. cs \in [Cts -> Seq(Metas)] /\ sc \in [Cts -> (0..MaxDepth) \cup {-1}]
    BY <1>2, <2>1
  <2>3. mi \in [Metas -> Seq(Cts)]
    BY <1>8
  <2>4. /\ sl \in [0..MaxDepth -> SUBSET Cts] /\ rk \subseteq Pairs \X Cts
        /\ \A e \in 0..MaxDepth : e < is.scopeDepth => sl[e] = is.scopeCts[e]
    BY <1>2, <1>3
  <2> QED BY <2>2, <2>3, <2>4
<1> HIDE DEF cm, fe, ge, mi, cs, sc, sl, rk
<1>10. /\ r \in Inert!InertSets /\ r.funEqs = fe /\ r.metaIndex = mi /\ r.ctMetas = cs
       /\ r.ctScope = sc /\ r.classMap = cm /\ r.scopeDepth = is.scopeDepth
       /\ r.scopeCts = sl /\ r.resolutionKeys = rk
  BY <1>1, <1>4, <1>7, <1>9, ZenonT(60) DEF Inert!InertSets, Inert!Depths, Inert!NoScope
<1>11. Buckets(r)
  <2>1. ASSUME NEW m \in Metas, NEW c \in Elems(r.metaIndex[m])
        PROVE  m \in ToSet(r.ctMetas[c])
    <3>1. c \in Elems(is.metaIndex[m]) /\ c \notin gone
      BY <1>8, <1>10
    <3>2. c \in Cts
      BY <1>2, <3>1, ElemsType
    <3> QED BY <1>1, <1>9, <1>10, <3>1, <3>2 DEF Buckets
  <2> QED BY <1>7, <1>8, <1>10, <2>1 DEF Buckets
<1>12. \A d \in Members(r) : d \in Members(is) /\ d \notin gone /\ d \in Cts
  <2>1. SUFFICES ASSUME NEW d \in Members(r)
                 PROVE  d \in Members(is) /\ d \notin gone
    BY <1>10, MembersType
  <2>2. \/ d \in Elems(r.classMap) \/ d \in Elems(r.funEqs)
        \/ \E x \in Metas : d \in Elems(r.metaIndex[x])
    BY <1>10, MembersDef
  <2> QED BY <1>1, <1>7, <1>8, <1>10, <2>2, MembersDef
<1>13. Kinds(r)
  BY <1>1, <1>7, <1>8, <1>10 DEF Kinds
<1>14. ASSUME NEW c \in Members(r)
       PROVE  /\ r.ctScope[c] \in 0..r.scopeDepth /\ c \in r.scopeCts[r.ctScope[c]]
              /\ r.ctScope[c] # is.scopeDepth
  <2>1. c \in Members(is) /\ c \notin gone /\ c \in Cts
    BY <1>12
  <2>2. /\ is.ctScope[c] \in 0..is.scopeDepth /\ c \in is.scopeCts[is.ctScope[c]]
        /\ is.ctScope[c] < is.scopeDepth
    BY <1>1, <1>6, <2>1 DEF Owned
  <2>3. is.ctScope[c] \in 0..MaxDepth /\ is.ctScope[c] # is.scopeDepth
    BY <1>2, <1>3, <2>2
  <2> QED BY <1>9, <1>10, <2>1, <2>2, <2>3
<1>15. Owned(r)
  BY <1>14 DEF Owned
<1>16. ASSUME OfScope(is) PROVE r.classMap = <<>> /\ r.resolutionKeys = {}
  <2>1. ToSet(is.classMap) \subseteq gone
    <3>1. \A c \in ToSet(is.classMap) : c \in Elems(is.classMap) /\ c \in Members(is)
      BY <1>1, MembersDef, NestedKind DEF Kinds, Elems
    <3>2. \A c \in ToSet(is.classMap) : c \in is.scopeCts[is.scopeDepth]
      BY <1>1, <1>16, <3>1 DEF Owned, OfScope
    <3> QED BY <1>5, <3>2
  <2>2. r.classMap = <<>>
    BY <1>7, <1>10, <2>1, ElemsType
  <2>3. \A p \in is.resolutionKeys : p[2] \in gone
    BY <1>5, <1>16 DEF OfScope
  <2>4. r.resolutionKeys = {}
    BY <1>10, <2>3 DEF rk
  <2> QED BY <2>2, <2>4
<1>17. \A x \in Metas : ToSet(r.metaIndex[x]) \subseteq ToSet(is.metaIndex[x])
  BY <1>8, <1>10
<1>18. Members(r) \subseteq Members(is)
  BY <1>12
<1>19. Cleared(is, is.scopeDepth, r)
  BY <1>10, <1>11, <1>13, <1>15, <1>16, <1>17, <1>18 DEF Cleared, InertOK
<1> QED BY <1>14, <1>19

LEMMA ResetOK ==
  ASSUME NEW is, InertOK(is), NEW r, r = Inert!Reset(is)
  PROVE  Cleared(is, is.scopeDepth, r)
BY ClearScopeOK DEF Inert!Reset

LEMMA LeaveScopeOK ==
  ASSUME NEW is, InertOK(is), is.scopeDepth # 0, NEW r, r = Inert!LeaveScope(is)
  PROVE  Cleared(is, is.scopeDepth - 1, r)
<1>1. PICK x : x = Inert!clearScope(is, is.scopeDepth)
  OBVIOUS
<1>2. Cleared(is, is.scopeDepth, x) /\ \A c \in Members(x) : x.ctScope[c] # is.scopeDepth
  BY <1>1, ClearScopeOK
<1>3. x \in Inert!InertSets /\ InertOK(x) /\ x.scopeDepth = is.scopeDepth
  BY <1>2 DEF Cleared, InertOK, Buckets
<1>4. is.scopeDepth \in 0..MaxDepth /\ MaxDepth \in Nat
  BY <1>3, InertType, SignatureAssumption
<1>5. r = [x EXCEPT !.scopeDepth = is.scopeDepth - 1]
  BY <1>1, <1>3 DEF Inert!LeaveScope, Inert!InertSets
<1>6. /\ r \in Inert!InertSets /\ r.scopeDepth = is.scopeDepth - 1
      /\ r.classMap = x.classMap /\ r.funEqs = x.funEqs /\ r.metaIndex = x.metaIndex
      /\ r.ctMetas = x.ctMetas /\ r.resolutionKeys = x.resolutionKeys
      /\ r.ctScope = x.ctScope /\ r.scopeCts = x.scopeCts
  <2>1. is.scopeDepth - 1 \in 0..MaxDepth
    BY <1>4
  <2> QED BY <1>3, <1>5, <2>1 DEF Inert!InertSets, Inert!Depths
<1>7. Members(r) = Members(x)
  BY <1>6 DEF Members, Inert!Members, Inert!Indexed
<1>8. Buckets(r) /\ Kinds(r)
  BY <1>3, <1>6 DEF InertOK, Buckets, Kinds
<1>9. Owned(r)
  <2>1. SUFFICES ASSUME NEW c \in Members(r)
                 PROVE  r.ctScope[c] \in 0..r.scopeDepth /\ c \in r.scopeCts[r.ctScope[c]]
    BY DEF Owned
  <2>2. /\ x.ctScope[c] \in 0..is.scopeDepth /\ c \in x.scopeCts[x.ctScope[c]]
        /\ x.ctScope[c] # is.scopeDepth
    BY <1>2, <1>3, <1>7 DEF InertOK, Owned
  <2> QED BY <1>4, <1>6, <2>2
<1> QED BY <1>2, <1>6, <1>7, <1>8, <1>9 DEF Cleared, InertOK

LEMMA EnterScopeOK ==
  ASSUME NEW is, InertOK(is), is.scopeDepth < MaxDepth, NEW r, r = Inert!EnterScope(is)
  PROVE  /\ InertOK(r) /\ Members(r) = Members(is)
         /\ r.metaIndex = is.metaIndex /\ r.classMap = is.classMap
         /\ r.resolutionKeys = is.resolutionKeys /\ r.scopeDepth = is.scopeDepth + 1
<1>1. is \in Inert!InertSets
  BY DEF InertOK, Buckets
<1>2. is.scopeDepth \in 0..MaxDepth /\ MaxDepth \in Nat
  BY <1>1, InertType, SignatureAssumption
<1>3. r = [is EXCEPT !.scopeDepth = is.scopeDepth + 1]
  BY <1>1 DEF Inert!EnterScope, Inert!InertSets
<1>4. /\ r \in Inert!InertSets /\ r.scopeDepth = is.scopeDepth + 1
      /\ r.classMap = is.classMap /\ r.funEqs = is.funEqs /\ r.metaIndex = is.metaIndex
      /\ r.ctMetas = is.ctMetas /\ r.resolutionKeys = is.resolutionKeys
      /\ r.ctScope = is.ctScope /\ r.scopeCts = is.scopeCts
  <2>1. is.scopeDepth + 1 \in 0..MaxDepth
    BY <1>2
  <2> QED BY <1>1, <1>3, <2>1 DEF Inert!InertSets, Inert!Depths
<1>5. Members(r) = Members(is)
  BY <1>4 DEF Members, Inert!Members, Inert!Indexed
<1>6. Buckets(r) /\ Kinds(r)
  BY <1>4 DEF InertOK, Buckets, Kinds
<1>7. Owned(r)
  <2>1. SUFFICES ASSUME NEW c \in Members(r)
                 PROVE  r.ctScope[c] \in 0..r.scopeDepth /\ c \in r.scopeCts[r.ctScope[c]]
    BY DEF Owned
  <2>2. is.ctScope[c] \in 0..is.scopeDepth /\ c \in is.scopeCts[is.ctScope[c]]
    BY <1>5 DEF InertOK, Owned
  <2> QED BY <1>2, <1>4, <2>2
<1> QED BY <1>4, <1>5, <1>6, <1>7 DEF InertOK

=============================================================================
