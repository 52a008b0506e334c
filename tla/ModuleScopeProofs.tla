-------------------------- MODULE ModuleScopeProofs --------------------------
(***************************************************************************)
(* What is in scope and what a module exports, for any modules and any     *)
(* texts (ScopesExact).                                                    *)
(*                                                                         *)
(* An import is a chain of small steps on the scope. Three relations say   *)
(* what a step of module m may do: to the names (Named), to the tables     *)
(* (Tabled) and to the families (Familied). Each is kept by composition,   *)
(* so a whole import satisfies them, and Stage says what holds after the   *)
(* first imports. Of the registered modules one has to know that their     *)
(* exports are what their texts and the modules they depend on make them   *)
(* (StoreOK); that is the inductive invariant.                             *)
(***************************************************************************)
EXTENDS ModuleScope, SequenceTheorems, WellFoundedInduction, TLAPS

-----------------------------------------------------------------------------
(* Numbers, sequences, scopes.                                             *)

\* A set that holds 0 and the successor of each of its numbers holds them all.
LEMMA NumbersFromZero ==
  ASSUME NEW S, 0 \in S, \A n \in Nat : n \in S => n + 1 \in S
  PROVE  Nat \subseteq S
<1> DEFINE T == Nat \ S
<1>1. SUFFICES ASSUME T # {} PROVE FALSE
  OBVIOUS
<1>2. PICK n \in T : \A k \in T : ~(<<k, n>> \in OpToRel(<, Nat))
  BY ONLY <1>1, NatLessThanWellFounded, WFMin, T \subseteq Nat
<1>3. n # 0 /\ n \in Nat
  OBVIOUS
<1>4. n - 1 \in Nat /\ n - 1 < n
  BY <1>3
<1>5. <<n - 1, n>> \in OpToRel(<, Nat)
  BY <1>3, <1>4 DEF OpToRel
<1>6. n - 1 \in S
  BY <1>2, <1>4, <1>5
<1> QED BY <1>3, <1>4, <1>6

Fields == {"ns", "tns", "vals", "cons", "conInfo", "kinds", "aliases", "classes", "pkinds", "pcons", "families", "insts", "scopes", "errors"}
IsScope(sc) == sc = [f \in Fields |-> sc[f]]

\* The scope before the first import.
LEMMA EmptyIsScope ==
  /\ IsScope(EmptyScope)
  /\ \A f \in Fields \ {"insts", "errors"} : DOMAIN EmptyScope[f] = {}
  /\ EmptyScope.insts = {} /\ EmptyScope.errors = {}
BY DEF IsScope, EmptyScope, NoMap, Fields

\* An error and nothing else.
LEMMA ErringFields ==
  ASSUME NEW sc, IsScope(sc), NEW kind, NEW x
  PROVE  LET r == Erring(sc, kind, x)
         IN  /\ IsScope(r) /\ r.errors = sc.errors \cup {<<kind, x>>}
             /\ \A g \in Fields : g # "errors" => r[g] = sc[g]
BY DEF IsScope, Erring, Fields

-----------------------------------------------------------------------------
(* One table.                                                              *)

Tables == {"vals", "cons", "kinds", "aliases", "classes", "pkinds", "pcons"}

\* A table binds names to a module, the others as before.
Bound(f, names, bad, m, old) == f = Over(From(names \ bad, m), old)
Reported(errors, space, bad, old) == errors = old \cup {<<space, x>> : x \in bad}

\* What importExcept does to a scope.
ExceptFields(r, sc, table, space, names, bad, m) ==
  /\ IsScope(r)
  /\ Bound(r[space], names, bad \cup Private, m, sc[space])
  /\ Reported(r.errors, space, bad, sc.errors)
  /\ Bound(r[table], names, bad, m, sc[table])
  /\ IF table \in {"vals", "cons"} THEN Bound(r.vals, names, bad, m, sc.vals) ELSE r.vals = sc.vals
  /\ \A g \in Fields : g \notin {space, table, "vals", "errors"} => r[g] = sc[g]

\* importExcept writes the names, one table and the errors, for values a second table.
LEMMA ImportExceptFields ==
  ASSUME NEW sc, IsScope(sc), NEW table \in Tables, NEW names, NEW bad, NEW m
  PROVE  ExceptFields(importExcept(sc, table, names, bad, m), sc, table, SpaceOf(table), names, bad, m)
<1>a. PICK space : space = SpaceOf(table)
  OBVIOUS
<1>b. PICK r : r = importExcept(sc, table, names, bad, m)
  OBVIOUS
<1>1. space \in Fields /\ table \in Fields /\ "errors" \in Fields /\ "vals" \in Fields /\ space \in {"ns", "tns"}
      /\ table \notin {"ns", "tns", "errors"} /\ (space = "ns" <=> table \in {"vals", "cons"})
  BY <1>a DEF SpaceOf, Fields, Tables
<1>2. PICK r1 : r1 = [sc EXCEPT ![space] = Over(From(names \ (bad \cup Private), m), sc[space])]
  OBVIOUS
<1>3. IsScope(r1) /\ r1[space] = Over(From(names \ (bad \cup Private), m), sc[space]) /\ \A g \in Fields : g # space => r1[g] = sc[g]
  BY <1>1, <1>2 DEF IsScope
<1>4. PICK r2 : r2 = [r1 EXCEPT !["errors"] = sc.errors \cup {<<space, x>> : x \in bad}]
  OBVIOUS
<1>5. IsScope(r2) /\ r2["errors"] = sc.errors \cup {<<space, x>> : x \in bad} /\ \A g \in Fields : g # "errors" => r2[g] = r1[g]
  BY <1>1, <1>3, <1>4 DEF IsScope
<1>6. PICK r3 : r3 = [r2 EXCEPT ![table] = Over(From(names \ bad, m), sc[table])]
  OBVIOUS
<1>7. IsScope(r3) /\ r3[table] = Over(From(names \ bad, m), sc[table]) /\ \A g \in Fields : g # table => r3[g] = r2[g]
  BY <1>1, <1>5, <1>6 DEF IsScope
<1>8. PICK r4 : r4 = [r3 EXCEPT !["vals"] = Over(From(names \ bad, m), sc.vals)]
  OBVIOUS
<1>9. IsScope(r4) /\ r4["vals"] = Over(From(names \ bad, m), sc.vals) /\ \A g \in Fields : g # "vals" => r4[g] = r3[g]
  BY <1>1, <1>7, <1>8 DEF IsScope
<1>10. r = IF table = "cons" THEN r4 ELSE r3
  <2>1. r1.errors = sc.errors /\ r2[table] = sc[table] /\ r3.vals = IF table = "vals" THEN Over(From(names \ bad, m), sc.vals) ELSE sc.vals
    BY <1>1, <1>3, <1>5, <1>7
  <2>2. r2 = [r1 EXCEPT !.errors = r1.errors \cup {<<space, x>> : x \in bad}]
    BY <1>4, <2>1
  <2>3. r2 = [sc EXCEPT ![space] = Over(From(names \ (bad \cup Private), m), @), !.errors = @ \cup {<<space, x>> : x \in bad}]
    BY <1>2, <2>2, <1>1 DEF IsScope
  <2>4. r3 = [r2 EXCEPT ![table] = Over(From(names \ bad, m), @)]
    BY <1>6, <2>1
  <2>5. table = "cons" => r4 = [r3 EXCEPT !.vals = Over(From(names \ bad, m), @)]
    BY <1>8, <2>1
  <2>6. {<<space, x>> : x \in bad} = {<<SpaceOf(table), x>> : x \in bad}
    BY <1>a
  <2>7. r2 = [sc EXCEPT ![SpaceOf(table)] = Over(From(names \ (bad \cup Private), m), @), !.errors = @ \cup {<<SpaceOf(table), x>> : x \in bad}]
    BY <2>3, <2>6, <1>a
  <2>8. r = IF table = "cons" THEN [r3 EXCEPT !.vals = Over(From(names \ bad, m), @)] ELSE r3
    BY <1>b, <2>7, <2>4 DEF importExcept
  <2> QED BY <2>5, <2>8
<1>11. /\ r[space] = Over(From(names \ (bad \cup Private), m), sc[space])
       /\ r.errors = sc.errors \cup {<<space, x>> : x \in bad}
       /\ r[table] = Over(From(names \ bad, m), sc[table])
       /\ r.vals = IF table \in {"vals", "cons"} THEN Over(From(names \ bad, m), sc.vals) ELSE sc.vals
       /\ \A g \in Fields : g \notin {space, table, "vals", "errors"} => r[g] = sc[g]
  BY <1>1, <1>3, <1>5, <1>7, <1>9, <1>10
<1>12. ExceptFields(r, sc, table, space, names, bad, m)
  BY <1>7, <1>9, <1>10, <1>11 DEF ExceptFields, Bound, Reported
<1> QED BY <1>a, <1>b, <1>12

-----------------------------------------------------------------------------
(* What a step of an import of m may do: to the names V of values it binds,*)
(* to the tables, to the families.                                         *)

Named(st, sc, r, m, V) ==
  /\ sc.errors \subseteq r.errors
  /\ DOMAIN sc.ns \subseteq DOMAIN r.ns /\ DOMAIN sc.vals \subseteq DOMAIN r.vals
  /\ \A x \in DOMAIN r.ns : (x \in DOMAIN sc.ns /\ r.ns[x] = sc.ns[x]) \/ (x \in V /\ r.ns[x] = m)
  /\ \A x \in DOMAIN r.vals : (x \in DOMAIN sc.vals /\ r.vals[x] = sc.vals[x]) \/ (x \in V /\ r.vals[x] = m)
  /\ \A e \in r.errors \ sc.errors : e[1] = "ns" => e[2] \in V /\ e[2] \in DOMAIN sc.ns /\ sc.ns[e[2]] # m
  /\ r.errors = {} => \A x \in V :
       /\ x \in DOMAIN r.vals
       /\ x \notin Private =>
            x \in DOMAIN r.ns /\ (x \in DOMAIN sc.ns /\ sc.ns[x] # m => ~(Owns(st, "ns", sc.ns[x], x) /\ Owns(st, "ns", m, x)))

Tabled(sc, r, ex) ==
  /\ DOMAIN r.aliases \subseteq DOMAIN sc.aliases \cup ex.aliases
  /\ DOMAIN sc.classes \subseteq DOMAIN r.classes /\ DOMAIN r.classes \subseteq DOMAIN sc.classes \cup DOMAIN ex.classes
  /\ \A c \in DOMAIN r.conInfo : (c \in DOMAIN sc.conInfo /\ r.conInfo[c] = sc.conInfo[c]) \/ (c \in DOMAIN ex.cons /\ r.conInfo[c] = ex.cons[c])
  /\ sc.insts \subseteq r.insts /\ r.insts \subseteq sc.insts \cup ex.insts

\* Families as the registry holds them.
IsFamily(fam) == fam = [class |-> fam.class, eqs |-> fam.eqs] /\ IsEquations(fam.eqs)
AreFamilies(fams) == \A x \in DOMAIN fams : IsFamily(fams[x])

Holds(fams, x, fam) == x \in DOMAIN fams /\ Range(fam.eqs) \subseteq Range(fams[x].eqs)

\* A family that joined those there were: its equations contradict none.
Joined(old, fams, x, fam) == Holds(fams, x, fam) /\ (x \in DOMAIN old => Agree(old[x].eqs, fam.eqs))

Familied(sc, r) ==
  AreFamilies(sc.families) => AreFamilies(r.families) /\ \A x \in DOMAIN sc.families : Holds(r.families, x, sc.families[x])

Step(st, sc, r, m, V) ==
  IsScope(sc) /\ IsScope(r) /\ Named(st, sc, r, m, V) /\ Tabled(sc, r, Exports(st, m)) /\ Familied(sc, r)

\* Steps of one module compose.
LEMMA NamedTrans ==
  ASSUME NEW st, NEW sc, NEW r, NEW s, NEW m, NEW V, NEW W, Named(st, sc, r, m, V), Named(st, r, s, m, W)
  PROVE  Named(st, sc, s, m, V \cup W)
<1>1. sc.errors \subseteq s.errors /\ DOMAIN sc.ns \subseteq DOMAIN s.ns /\ DOMAIN sc.vals \subseteq DOMAIN s.vals
  BY DEF Named
<1>2. \A x \in DOMAIN s.ns : (x \in DOMAIN sc.ns /\ s.ns[x] = sc.ns[x]) \/ (x \in V \cup W /\ s.ns[x] = m)
  BY DEF Named
<1>3. \A x \in DOMAIN s.vals : (x \in DOMAIN sc.vals /\ s.vals[x] = sc.vals[x]) \/ (x \in V \cup W /\ s.vals[x] = m)
  BY DEF Named
<1>4. \A e \in s.errors \ sc.errors : e[1] = "ns" => e[2] \in V \cup W /\ e[2] \in DOMAIN sc.ns /\ sc.ns[e[2]] # m
  BY DEF Named
<1>5. ASSUME s.errors = {}, NEW x \in V \cup W
      PROVE  /\ x \in DOMAIN s.vals
             /\ x \notin Private =>
                  x \in DOMAIN s.ns /\ (x \in DOMAIN sc.ns /\ sc.ns[x] # m => ~(Owns(st, "ns", sc.ns[x], x) /\ Owns(st, "ns", m, x)))
  <2>1. r.errors = {}
    BY <1>5 DEF Named
  <2> QED BY <1>5, <2>1 DEF Named
<1> QED BY <1>1, <1>2, <1>3, <1>4, <1>5 DEF Named

\* Steps of one module on a scope compose.
LEMMA StepTrans ==
  ASSUME NEW st, NEW sc, NEW r, NEW s, NEW m, NEW V, NEW W, Step(st, sc, r, m, V), Step(st, r, s, m, W)
  PROVE  Step(st, sc, s, m, V \cup W)
<1>1. Named(st, sc, s, m, V \cup W)
  BY NamedTrans DEF Step
<1>2. Tabled(sc, s, Exports(st, m))
  BY DEF Step, Tabled
<1>3. Familied(sc, s)
  BY DEF Step, Familied, Holds
<1> QED BY <1>1, <1>2, <1>3 DEF Step

\* A step that leaves the names of values and the families as they are.
LEMMA OtherStep ==
  ASSUME NEW st, NEW sc, NEW r, NEW m, IsScope(sc), IsScope(r), r.ns = sc.ns, r.vals = sc.vals, r.families = sc.families,
         sc.errors \subseteq r.errors, \A e \in r.errors \ sc.errors : e[1] # "ns", Tabled(sc, r, Exports(st, m))
  PROVE  Step(st, sc, r, m, {})
BY DEF Step, Named, Familied, Holds

-----------------------------------------------------------------------------
(* The steps an import is made of.                                         *)

ValueNames(table, names) == IF table \in {"vals", "cons"} THEN names ELSE {}

\* The names are the module's.
ListedIn(ex, table, names) ==
  (table = "aliases" => names \subseteq ex.aliases) /\ (table = "classes" => names \subseteq DOMAIN ex.classes)

ExceptStep(st, sc, r, table, names, bad, m) ==
  /\ Step(st, sc, r, m, ValueNames(table, names))
  /\ r.insts = sc.insts /\ (r.errors = {} => bad = {})
  /\ table = "classes" => names \ bad \subseteq DOMAIN r.classes

\* Names of one table: those that clash are reported and the others bound.
LEMMA ImportExceptStep ==
  ASSUME NEW st, NEW sc, IsScope(sc), NEW table \in Tables, NEW names, NEW m,
         ListedIn(Exports(st, m), table, names),
         NEW bad, bad = AmbiguousOf(st, sc, table, names, m)
  PROVE  ExceptStep(st, sc, importExcept(sc, table, names, bad, m), table, names, bad, m)
<1> DEFINE V == ValueNames(table, names)
<1>a. PICK space : space = SpaceOf(table)
  OBVIOUS
<1>b. PICK r : r = importExcept(sc, table, names, bad, m)
  OBVIOUS
<1>c. ExceptFields(r, sc, table, space, names, bad, m)
  BY <1>a, <1>b, ImportExceptFields
<1>1. /\ IsScope(r) /\ sc.errors \subseteq r.errors /\ \A e \in r.errors \ sc.errors : e[1] = space /\ e[2] \in bad
      /\ r.errors = {} => bad = {}
      /\ Bound(r[space], names, bad \cup Private, m, sc[space])
      /\ Bound(r[table], names, bad, m, sc[table])
      /\ IF table \in {"vals", "cons"} THEN Bound(r.vals, names, bad, m, sc.vals) ELSE r.vals = sc.vals
      /\ \A g \in Fields : g \notin {space, table, "vals", "errors"} => r[g] = sc[g]
  <2>1. r.errors = sc.errors \cup {<<space, x>> : x \in bad}
    BY <1>c DEF ExceptFields, Reported
  <2>3. \A e : e \in r.errors <=> e \in sc.errors \/ \E x \in bad : e = <<space, x>>
    BY <2>1
  <2>4. \A x : <<space, x>>[1] = space /\ <<space, x>>[2] = x
    OBVIOUS
  <2>5. ASSUME r.errors = {}, bad # {} PROVE FALSE
    <3>1. PICK x : x \in bad
      BY <2>5
    <3>2. <<space, x>> \in r.errors
      BY <2>3, <3>1
    <3> QED BY <2>5, <3>2
  <2>6. sc.errors \subseteq r.errors
    BY <2>3
  <2>7. \A e \in r.errors \ sc.errors : e[1] = space /\ e[2] \in bad
    BY <2>3, <2>4
  <2>2. sc.errors \subseteq r.errors /\ (\A e \in r.errors \ sc.errors : e[1] = space /\ e[2] \in bad) /\ (r.errors = {} => bad = {})
    BY <2>5, <2>6, <2>7
  <2> QED BY <1>c, <2>2 DEF ExceptFields
<1>2. bad = {x \in names : checkAmbiguous(st, sc, space, x, m)}
  BY <1>a DEF AmbiguousOf
<1>3. \A g \in {"conInfo", "insts", "families"} : r[g] = sc[g]
  BY <1>a, <1>1 DEF Fields, Tables, SpaceOf
<1>4. table # "aliases" => r.aliases = sc.aliases
  BY <1>a, <1>1 DEF Fields, Tables, SpaceOf
<1>5. table # "classes" => r.classes = sc.classes
  BY <1>a, <1>1 DEF Fields, Tables, SpaceOf
<1>6. Tabled(sc, r, Exports(st, m))
  <2>1. DOMAIN r.aliases \subseteq DOMAIN sc.aliases \cup Exports(st, m).aliases
    BY <1>1, <1>4 DEF Bound, Over, From, ListedIn
  <2>2. DOMAIN sc.classes \subseteq DOMAIN r.classes /\ DOMAIN r.classes \subseteq DOMAIN sc.classes \cup DOMAIN Exports(st, m).classes
    BY <1>1, <1>5 DEF Bound, Over, From, ListedIn
  <2> QED BY <2>1, <2>2, <1>3 DEF Tabled
<1>7. table = "classes" => names \ bad \subseteq DOMAIN r.classes
  BY <1>1 DEF Bound, Over, From
<1>8. r.errors = {} => bad = {}
  BY <1>1
<1>9. Familied(sc, r)
  BY <1>3 DEF Familied, Holds
<1>10. Named(st, sc, r, m, V)
  <2>1. CASE table \notin {"vals", "cons"}
    <3>1. r.ns = sc.ns /\ r.vals = sc.vals /\ space = "tns"
      BY <1>a, <1>1, <2>1 DEF Fields, Tables, SpaceOf
    <3>0. \A e \in r.errors \ sc.errors : e[1] # "ns"
      BY <1>1, <3>1
    <3>2. V = {}
      BY <2>1 DEF ValueNames
    <3> QED BY <1>1, <3>0, <3>1, <3>2 DEF Named
  <2>2. CASE table \in {"vals", "cons"}
    <3>1. V = names /\ space = "ns"
      BY <1>a, <2>2 DEF ValueNames, SpaceOf
    <3>2. Bound(r.vals, names, bad, m, sc.vals) /\ Bound(r.ns, names, bad \cup Private, m, sc.ns)
          /\ sc.errors \subseteq r.errors /\ \A e \in r.errors \ sc.errors : e[2] \in bad
      BY <1>1, <2>2, <3>1
    <3>3. DOMAIN r.ns = (names \ (bad \cup Private)) \cup DOMAIN sc.ns /\ DOMAIN r.vals = (names \ bad) \cup DOMAIN sc.vals
      BY <3>2 DEF Bound, Over, From
    <3>4. /\ \A x \in names \ (bad \cup Private) : r.ns[x] = m
          /\ \A x \in DOMAIN sc.ns \ (names \ (bad \cup Private)) : r.ns[x] = sc.ns[x]
      BY <3>2 DEF Bound, Over, From
    <3>5. /\ \A x \in names \ bad : r.vals[x] = m
          /\ \A x \in DOMAIN sc.vals \ (names \ bad) : r.vals[x] = sc.vals[x]
      BY <3>2 DEF Bound, Over, From
    <3>6. \A x \in bad : x \in names /\ x \in DOMAIN sc.ns /\ sc.ns[x] # m
      BY <1>2, <3>1 DEF checkAmbiguous
    <3>7. ASSUME NEW x \in names \ bad, x \notin Private, x \in DOMAIN sc.ns, sc.ns[x] # m
          PROVE  ~(Owns(st, "ns", sc.ns[x], x) /\ Owns(st, "ns", m, x))
      <4>1. ~checkAmbiguous(st, sc, "ns", x, m)
        BY <1>2, <3>1, <3>7
      <4> QED BY <4>1, <3>7 DEF checkAmbiguous
    <3>8. /\ \A x \in DOMAIN r.ns : (x \in DOMAIN sc.ns /\ r.ns[x] = sc.ns[x]) \/ (x \in V /\ r.ns[x] = m)
          /\ \A x \in DOMAIN r.vals : (x \in DOMAIN sc.vals /\ r.vals[x] = sc.vals[x]) \/ (x \in V /\ r.vals[x] = m)
      BY <3>1, <3>3, <3>4, <3>5
    <3>9. \A e \in r.errors \ sc.errors : e[1] = "ns" => e[2] \in V /\ e[2] \in DOMAIN sc.ns /\ sc.ns[e[2]] # m
      BY <3>1, <3>2, <3>6
    <3>10. r.errors = {} => \A x \in V :
             /\ x \in DOMAIN r.vals
             /\ x \notin Private =>
                  x \in DOMAIN r.ns /\ (x \in DOMAIN sc.ns /\ sc.ns[x] # m => ~(Owns(st, "ns", sc.ns[x], x) /\ Owns(st, "ns", m, x)))
      BY <1>8, <3>1, <3>3, <3>7
    <3> QED BY <3>2, <3>3, <3>8, <3>9, <3>10 DEF Named
  <2> QED BY <2>1, <2>2
<1> QED BY <1>b, <1>1, <1>3, <1>6, <1>7, <1>8, <1>9, <1>10 DEF Step, ExceptStep

\* Names of one table, their clashes found on the way.
LEMMA ImportNamesStep ==
  ASSUME NEW st, NEW sc, IsScope(sc), NEW table \in Tables, NEW names, NEW m,
         ListedIn(Exports(st, m), table, names)
  PROVE  LET r == importNames(st, sc, table, names, m)
         IN  Step(st, sc, r, m, ValueNames(table, names)) /\ r.insts = sc.insts
<1>1. PICK bad : bad = AmbiguousOf(st, sc, table, names, m)
  OBVIOUS
<1>2. importNames(st, sc, table, names, m) = importExcept(sc, table, names, bad, m)
  BY <1>1 DEF importNames
<1> QED BY <1>1, <1>2, ImportExceptStep DEF ExceptStep

\* Names of a table of no values.
LEMMA ImportPlainStep ==
  ASSUME NEW st, NEW sc, IsScope(sc), NEW table \in Tables \ {"aliases", "classes"}, NEW names, NEW m
  PROVE  LET r == importNames(st, sc, table, names, m)
         IN  Step(st, sc, r, m, ValueNames(table, names)) /\ r.insts = sc.insts
BY ImportNamesStep DEF ListedIn

\* Promoted kinds and constructors.
LEMMA ImportPromotedStep ==
  ASSUME NEW st, NEW sc, IsScope(sc), NEW kinds, NEW cons, NEW m
  PROVE  LET r == importPromoted(st, sc, kinds, cons, m)
         IN  Step(st, sc, r, m, {}) /\ r.insts = sc.insts
<1> DEFINE q == importNames(st, sc, "pkinds", kinds, m)
           r == importNames(st, q, "pcons", cons, m)
<1>1. Step(st, sc, q, m, {}) /\ q.insts = sc.insts
  <2>1. Step(st, sc, q, m, ValueNames("pkinds", kinds)) /\ q.insts = sc.insts
    BY ImportPlainStep DEF Tables
  <2> QED BY <2>1 DEF ValueNames
<1>2. Step(st, q, r, m, {}) /\ r.insts = q.insts
  <2>1. IsScope(q)
    BY <1>1 DEF Step
  <2> HIDE DEF q
  <2>2. Step(st, q, r, m, ValueNames("pcons", cons)) /\ r.insts = q.insts
    BY <2>1, ImportPlainStep DEF Tables
  <2> QED BY <2>2 DEF ValueNames
<1>3. Step(st, sc, r, m, {} \cup {})
  BY <1>1, <1>2, StepTrans
<1> QED BY <1>1, <1>2, <1>3 DEF importPromoted

\* The constructors' types.
LEMMA ConInfoStep ==
  ASSUME NEW st, NEW sc, IsScope(sc), NEW m, NEW f, DOMAIN f \subseteq DOMAIN Exports(st, m).cons, \A c \in DOMAIN f : f[c] = Exports(st, m).cons[c]
  PROVE  LET r == [sc EXCEPT !.conInfo = Over(f, @)]
         IN  Step(st, sc, r, m, {}) /\ r.insts = sc.insts
<1> DEFINE r == [sc EXCEPT !.conInfo = Over(f, @)]
<1>1. IsScope(r) /\ r.conInfo = Over(f, sc.conInfo) /\ \A g \in Fields : g # "conInfo" => r[g] = sc[g]
  BY DEF IsScope, Fields
<1>2. \A g \in {"ns", "vals", "families", "errors", "aliases", "classes", "insts"} : r[g] = sc[g]
  BY <1>1 DEF Fields
<1> HIDE DEF r
<1>3. Tabled(sc, r, Exports(st, m))
  BY <1>1, <1>2 DEF Tabled, Over
<1>4. Step(st, sc, r, m, {})
  BY <1>1, <1>2, <1>3, OtherStep
<1> QED BY <1>2, <1>4 DEF r

\* The instances of a module.
LEMMA InstancesStep ==
  ASSUME NEW st, NEW sc, IsScope(sc), NEW m
  PROVE  LET r == importInstances(sc, Exports(st, m))
         IN  Step(st, sc, r, m, {}) /\ r.insts = sc.insts \cup Exports(st, m).insts
<1> DEFINE r == importInstances(sc, Exports(st, m))
<1>1. IsScope(r) /\ r.insts = sc.insts \cup Exports(st, m).insts /\ \A g \in Fields : g # "insts" => r[g] = sc[g]
  BY DEF IsScope, Fields, importInstances
<1>2. \A g \in {"ns", "vals", "families", "errors", "aliases", "classes", "conInfo"} : r[g] = sc[g]
  BY <1>1 DEF Fields
<1> HIDE DEF r
<1>3. Tabled(sc, r, Exports(st, m))
  BY <1>1, <1>2 DEF Tabled
<1>4. Step(st, sc, r, m, {})
  BY <1>1, <1>2, <1>3, OtherStep
<1> QED BY <1>1, <1>4 DEF r

\* The alias of a module.
LEMMA ScopesStep ==
  ASSUME NEW st, NEW sc, IsScope(sc), NEW m, NEW v
  PROVE  LET r == [sc EXCEPT !.scopes = Over(v, @)]
         IN  Step(st, sc, r, m, {}) /\ r.insts = sc.insts
<1> DEFINE r == [sc EXCEPT !.scopes = Over(v, @)]
<1>1. IsScope(r) /\ \A g \in Fields : g # "scopes" => r[g] = sc[g]
  BY DEF IsScope, Fields
<1>2. \A g \in {"ns", "vals", "families", "errors", "aliases", "classes", "conInfo", "insts"} : r[g] = sc[g]
  BY <1>1 DEF Fields
<1> HIDE DEF r
<1>3. Tabled(sc, r, Exports(st, m))
  BY <1>2 DEF Tabled
<1>4. Step(st, sc, r, m, {})
  BY <1>1, <1>2, <1>3, OtherStep
<1> QED BY <1>2, <1>4 DEF r

\* An error that is not about a name of a value.
LEMMA ErringStep ==
  ASSUME NEW st, NEW sc, IsScope(sc), NEW m, NEW kind, kind # "ns", NEW x
  PROVE  LET r == Erring(sc, kind, x)
         IN  Step(st, sc, r, m, {}) /\ r.insts = sc.insts /\ r.errors # {}
<1> DEFINE r == Erring(sc, kind, x)
<1>1. IsScope(r) /\ r.errors = sc.errors \cup {<<kind, x>>} /\ \A g \in Fields : g # "errors" => r[g] = sc[g]
  BY ErringFields
<1>2. \A g \in {"ns", "vals", "families", "aliases", "classes", "conInfo", "insts"} : r[g] = sc[g]
  BY <1>1 DEF Fields
<1> HIDE DEF r
<1>3. Tabled(sc, r, Exports(st, m))
  BY <1>2 DEF Tabled
<1>4. Step(st, sc, r, m, {})
  BY <1>1, <1>2, <1>3, OtherStep
<1> QED BY <1>1, <1>2, <1>4 DEF r

-----------------------------------------------------------------------------
(* Families.                                                               *)

IsMerge(acc) == acc = [eqs |-> acc.eqs, bad |-> acc.bad] /\ acc.bad \in BOOLEAN /\ IsEquations(acc.eqs)

\* One equation: it is known, added, or contradicted.
LEMMA MergeEquationOnce ==
  ASSUME NEW acc, IsMerge(acc), NEW e, e = [pat |-> e.pat, rhs |-> e.rhs]
  PROVE  LET r == MergeEquation(acc, e)
         IN  /\ IsMerge(r)
             /\ Range(acc.eqs) \subseteq Range(r.eqs) /\ Range(r.eqs) \subseteq Range(acc.eqs) \cup {e}
             /\ ~r.bad => ~acc.bad /\ e \in Range(r.eqs) /\ \A x \in Range(acc.eqs) : x.pat = e.pat => x = e
<1> DEFINE r == MergeEquation(acc, e)
           s == acc.eqs
<1>1. s \in Seq(Range(s)) /\ \A x \in Range(s) : x = [pat |-> x.pat, rhs |-> x.rhs]
  BY DEF IsMerge, IsEquations, IsSequence
<1>2. CASE acc.bad \/ Conflicts(s, e)
  <2>1. r = [eqs |-> s, bad |-> TRUE]
    BY <1>2 DEF MergeEquation
  <2> QED BY <2>1 DEF IsMerge
<1>3. CASE ~acc.bad /\ ~Conflicts(s, e) /\ Known(s, e)
  <2>1. r = acc
    BY <1>3 DEF MergeEquation
  <2>2. PICK i \in DOMAIN s : s[i].pat = e.pat
    BY <1>3 DEF Known
  <2>3. s[i].rhs = e.rhs
    BY <1>3, <2>2 DEF Conflicts
  <2>4. s[i] = [pat |-> s[i].pat, rhs |-> s[i].rhs] /\ s[i] \in Range(s)
    BY <1>1 DEF Range
  <2>5. s[i] = e
    BY <2>2, <2>3, <2>4
  <2>6. \A x \in Range(s) : x.pat = e.pat => x = e
    <3>1. \A k \in DOMAIN s : s[k].pat = e.pat => s[k].rhs = e.rhs
      BY <1>3 DEF Conflicts
    <3> QED BY <1>1, <3>1 DEF Range
  <2> QED BY <2>1, <2>4, <2>5, <2>6
<1>4. CASE ~acc.bad /\ ~Conflicts(s, e) /\ ~Known(s, e)
  <2>1. r = [eqs |-> Append(s, e), bad |-> FALSE]
    BY <1>4 DEF MergeEquation
  <2>2. s \in Seq(Range(s) \cup {e})
    <3>1. DOMAIN s = 1..Len(s) /\ Len(s) \in Nat
      BY <1>1
    <3>2. s = [i \in 1..Len(s) |-> s[i]] /\ \A i \in 1..Len(s) : s[i] \in Range(s)
      BY <1>1, <3>1, SMTT(40) DEF Range
    <3> QED BY <1>1, <3>1, <3>2
  <2>3. /\ Append(s, e) \in Seq(Range(s) \cup {e}) /\ Len(Append(s, e)) = Len(s) + 1 /\ Len(s) \in Nat
        /\ \A i \in 1..Len(s) : Append(s, e)[i] = s[i]
        /\ Append(s, e)[Len(s) + 1] = e
    BY <2>2
  <2>4. DOMAIN s = 1..Len(s) /\ DOMAIN Append(s, e) = 1..(Len(s) + 1)
    BY <2>2, <2>3
  <2>5. Range(Append(s, e)) = Range(s) \cup {e}
    BY <2>3, <2>4 DEF Range
  <2>6. \A x \in Range(s) : x.pat # e.pat
    BY <1>4 DEF Known, Range
  <2>7. IsEquations(Append(s, e))
    BY <1>1, <2>3, <2>5 DEF IsEquations, IsSequence
  <2> QED BY <2>1, <2>5, <2>6, <2>7, <1>4 DEF IsMerge
<1> QED BY <1>2, <1>3, <1>4 DEF IsMerge

IsMerging(f, old, new) == f = [i \in 0..Len(new) |-> IF i = 0 THEN [eqs |-> old, bad |-> FALSE] ELSE MergeEquation(f[i - 1], new[i])]

\* The recursive function of MergeEquations exists.
LEMMA MergingExists ==
  ASSUME NEW old, NEW new, Len(new) \in Nat
  PROVE  \E f : IsMerging(f, old, new)
<1> DEFINE P(n) == \E f : f = [i \in 0..n |-> IF i = 0 THEN [eqs |-> old, bad |-> FALSE] ELSE MergeEquation(f[i - 1], new[i])]
           S == {n \in Nat : P(n)}
<1>1. P(0)
  <2> DEFINE g == [i \in 0..0 |-> [eqs |-> old, bad |-> FALSE]]
  <2>1. g = [i \in 0..0 |-> IF i = 0 THEN [eqs |-> old, bad |-> FALSE] ELSE MergeEquation(g[i - 1], new[i])]
    OBVIOUS
  <2> QED BY <2>1
<1>2. ASSUME NEW n \in Nat, P(n) PROVE P(n + 1)
  <2>1. PICK f : f = [i \in 0..n |-> IF i = 0 THEN [eqs |-> old, bad |-> FALSE] ELSE MergeEquation(f[i - 1], new[i])]
    BY <1>2
  <2> DEFINE g == [i \in 0..(n + 1) |-> IF i = n + 1 THEN MergeEquation(f[n], new[n + 1]) ELSE f[i]]
  <2>2. ASSUME NEW i \in 0..(n + 1) PROVE g[i] = IF i = 0 THEN [eqs |-> old, bad |-> FALSE] ELSE MergeEquation(g[i - 1], new[i])
    <3>1. CASE i = 0
      BY <2>1, <3>1
    <3>2. CASE i \in 1..n
      <4>1. g[i] = f[i] /\ g[i - 1] = f[i - 1] /\ i \in 0..n /\ i # 0
        BY <3>2
      <4> HIDE DEF g
      <4> QED BY <2>1, <4>1
    <3>3. CASE i = n + 1
      <4>1. g[i] = MergeEquation(f[n], new[n + 1]) /\ g[i - 1] = f[n] /\ i # 0 /\ n + 1 - 1 = n
        BY <3>3
      <4> HIDE DEF g
      <4> QED BY <3>3, <4>1
    <3> QED BY <3>1, <3>2, <3>3
  <2>3. g = [i \in 0..(n + 1) |-> g[i]]
    OBVIOUS
  <2>4. g = [i \in 0..(n + 1) |-> IF i = 0 THEN [eqs |-> old, bad |-> FALSE] ELSE MergeEquation(g[i - 1], new[i])]
    <3> HIDE DEF g
    <3> QED BY <2>2, <2>3
  <2> QED BY <2>4
<1>3. Nat \subseteq S
  <2>1. 0 \in S
    BY <1>1
  <2>2. \A n \in Nat : n \in S => n + 1 \in S
    <3> HIDE DEF P
    <3> QED BY <1>2
  <2> HIDE DEF S
  <2> QED BY <2>1, <2>2, NumbersFromZero
<1> QED BY <1>3 DEF IsMerging

\* Merging keeps the old equations, adds new ones only, and all of them
\* unless one contradicts an old one.
Merged(r, old, new) ==
  /\ IsMerge(r)
  /\ Range(old) \subseteq Range(r.eqs) /\ Range(r.eqs) \subseteq Range(old) \cup Range(new)
  /\ ~r.bad => Range(new) \subseteq Range(r.eqs) /\ Agree(old, new)

\* All equations in turn: without a conflict all are there, and the old ones always.
LEMMA MergeEquationsExact ==
  ASSUME NEW old, NEW new, IsEquations(old), IsEquations(new)
  PROVE  Merged(MergeEquations(old, new), old, new)
<1>1. new \in Seq(Range(new)) /\ Len(new) \in Nat /\ DOMAIN new = 1..Len(new)
  BY DEF IsEquations, IsSequence
<1>2. PICK f : f = CHOOSE g : IsMerging(g, old, new)
  OBVIOUS
<1>3. IsMerging(f, old, new)
  BY <1>1, <1>2, MergingExists
<1>4. MergeEquations(old, new) = f[Len(new)]
  BY <1>2 DEF MergeEquations, IsMerging
<1> DEFINE Q(i) == /\ IsMerge(f[i])
                   /\ Range(old) \subseteq Range(f[i].eqs) /\ Range(f[i].eqs) \subseteq Range(old) \cup Range(new)
                   /\ ~f[i].bad => \A k \in 1..i : new[k] \in Range(f[i].eqs) /\ \A x \in Range(old) : x.pat = new[k].pat => x = new[k]
           S == {i \in Nat : i <= Len(new) => Q(i)}
<1>5. Q(0)
  <2>1. f[0] = [eqs |-> old, bad |-> FALSE]
    BY <1>1, <1>3 DEF IsMerging
  <2> QED BY <2>1 DEF IsMerge
<1>6. ASSUME NEW i \in Nat, i + 1 <= Len(new), Q(i) PROVE Q(i + 1)
  <2>1. f[i + 1] = MergeEquation(f[i], new[i + 1])
    <3>1. i + 1 \in 0..Len(new) /\ i + 1 # 0 /\ i + 1 - 1 = i
      BY <1>1, <1>6
    <3>2. \A j \in 0..Len(new) : f[j] = IF j = 0 THEN [eqs |-> old, bad |-> FALSE] ELSE MergeEquation(f[j - 1], new[j])
      BY <1>3 DEF IsMerging
    <3>3. f[i + 1] = MergeEquation(f[i + 1 - 1], new[i + 1])
      BY <3>1, <3>2
    <3> QED BY <3>1, <3>3
  <2>2. new[i + 1] \in Range(new) /\ i + 1 \in DOMAIN new
    BY <1>1, <1>6 DEF Range
  <2>3. new[i + 1] = [pat |-> new[i + 1].pat, rhs |-> new[i + 1].rhs]
    BY <2>2 DEF IsEquations
  <2>4. PICK acc, e : acc = f[i] /\ e = new[i + 1]
    OBVIOUS
  <2>5. PICK r : r = MergeEquation(acc, e)
    OBVIOUS
  <2>6. /\ IsMerge(r)
        /\ Range(acc.eqs) \subseteq Range(r.eqs) /\ Range(r.eqs) \subseteq Range(acc.eqs) \cup {e}
        /\ ~r.bad => ~acc.bad /\ e \in Range(r.eqs) /\ \A x \in Range(acc.eqs) : x.pat = e.pat => x = e
    <3>1. IsMerge(acc) /\ e = [pat |-> e.pat, rhs |-> e.rhs]
      BY <1>6, <2>3, <2>4
    <3> QED BY ONLY <2>5, <3>1, MergeEquationOnce
  <2>7. f[i + 1] = r
    BY <2>1, <2>4, <2>5
  <2>8. ASSUME ~r.bad, NEW k \in 1..(i + 1) PROVE new[k] \in Range(r.eqs) /\ \A x \in Range(old) : x.pat = new[k].pat => x = new[k]
    <3>1. CASE k = i + 1
      <4>1. Range(old) \subseteq Range(acc.eqs)
        BY <1>6, <2>4
      <4> QED BY <2>4, <2>6, <2>8, <3>1, <4>1
    <3>2. CASE k \in 1..i
      <4>1. new[k] \in Range(acc.eqs) /\ \A x \in Range(old) : x.pat = new[k].pat => x = new[k]
        BY <1>6, <2>4, <2>6, <2>8, <3>2
      <4> QED BY <2>6, <4>1
    <3> QED BY <3>1, <3>2
  <2>9. Range(old) \subseteq Range(r.eqs) /\ Range(r.eqs) \subseteq Range(old) \cup Range(new)
    BY <1>6, <2>2, <2>4, <2>6
  <2> QED BY <2>6, <2>7, <2>8, <2>9
<1>7. Nat \subseteq S
  <2>1. 0 \in S
    BY <1>5
  <2>2. \A n \in Nat : n \in S => n + 1 \in S
    <3> HIDE DEF Q
    <3> QED BY <1>1, <1>6
  <2> HIDE DEF S
  <2> QED BY <2>1, <2>2, NumbersFromZero
<1>8. Q(Len(new))
  BY <1>1, <1>7
<1>9. ~f[Len(new)].bad => Range(new) \subseteq Range(f[Len(new)].eqs) /\ Agree(old, new)
  <2> SUFFICES ASSUME ~f[Len(new)].bad, NEW e \in Range(new)
               PROVE  e \in Range(f[Len(new)].eqs) /\ \A x \in Range(old) : x.pat = e.pat => x = e
    BY DEF Agree
  <2>1. PICK k \in 1..Len(new) : e = new[k]
    BY <1>1 DEF Range
  <2> QED BY <1>8, <2>1
<1> QED BY <1>4, <1>8, <1>9 DEF Merged

\* A family merged with one of its name is one.
LEMMA RegisterFamilyExact ==
  ASSUME NEW old, NEW new, IsFamily(old), IsFamily(new)
  PROVE  LET r == RegisterFamily(old, new)
         IN  /\ Merged(r, old.eqs, new.eqs)
             /\ IsFamily([class |-> old.class, eqs |-> r.eqs])
<1>1. PICK r : r = RegisterFamily(old, new)
  OBVIOUS
<1>2. Merged(r, old.eqs, new.eqs)
  <2>1. CASE OtherClass(old, new)
    <3>1. r = [eqs |-> old.eqs, bad |-> TRUE]
      BY <1>1, <2>1 DEF RegisterFamily
    <3> QED BY <3>1 DEF Merged, IsMerge, IsFamily
  <2>2. CASE ~OtherClass(old, new)
    <3>1. r = MergeEquations(old.eqs, new.eqs)
      BY <1>1, <2>2 DEF RegisterFamily
    <3> QED BY <3>1, MergeEquationsExact DEF IsFamily
  <2> QED BY <2>1, <2>2
<1>3. IsFamily([class |-> old.class, eqs |-> r.eqs])
  BY <1>2 DEF IsFamily, Merged, IsMerge
<1> QED BY <1>1, <1>2, <1>3

\* What RegisterFamilies does to a scope.
LEMMA RegisterFamiliesFields ==
  ASSUME NEW sc, IsScope(sc), NEW fams
  PROVE  LET r == RegisterFamilies(sc, fams)
             known == DOMAIN fams \cap DOMAIN sc.families
         IN  /\ IsScope(r)
             /\ \A g \in Fields : g \notin {"families", "errors"} => r[g] = sc[g]
             /\ sc.errors \subseteq r.errors /\ \A e \in r.errors \ sc.errors : e[1] = "family"
             /\ \A x \in known : RegisterFamily(sc.families[x], fams[x]).bad => <<"family", x>> \in r.errors
             /\ DOMAIN r.families = DOMAIN fams \cup DOMAIN sc.families
             /\ \A x \in DOMAIN sc.families \ known : r.families[x] = sc.families[x]
             /\ \A x \in DOMAIN fams \ known : r.families[x] = fams[x]
             /\ \A x \in known : r.families[x] = [class |-> sc.families[x].class, eqs |-> RegisterFamily(sc.families[x], fams[x]).eqs]
<1> DEFINE known == DOMAIN fams \cap DOMAIN sc.families
           joined == [x \in known |-> RegisterFamily(sc.families[x], fams[x])]
           Family(x) == IF x \in known THEN [class |-> sc.families[x].class, eqs |-> joined[x].eqs] ELSE fams[x]
           news == [x \in DOMAIN fams |-> Family(x)]
           bad == {x \in known : joined[x].bad}
           errs == {<<"family", x>> : x \in bad}
<1>1. PICK r : r = RegisterFamilies(sc, fams)
  OBVIOUS
<1>2. r = [sc EXCEPT !.families = Over(news, @), !.errors = @ \cup errs]
  BY <1>1 DEF RegisterFamilies
<1> HIDE DEF news, errs
<1>3. IsScope(r) /\ (\A g \in Fields : g \notin {"families", "errors"} => r[g] = sc[g]) /\ r.families = Over(news, sc.families) /\ r.errors = sc.errors \cup errs
  BY <1>2 DEF IsScope, Fields
<1>4. \A e \in errs : e[1] = "family"
  <2> HIDE DEF bad
  <2>1. \A x : <<"family", x>>[1] = "family"
    OBVIOUS
  <2> QED BY <2>1 DEF errs
<1>5. \A x \in known : joined[x].bad => <<"family", x>> \in errs
  BY DEF errs
<1>6. DOMAIN news = DOMAIN fams /\ \A x \in DOMAIN fams : news[x] = Family(x)
  BY DEF news
<1>7. DOMAIN r.families = DOMAIN fams \cup DOMAIN sc.families
  BY <1>3, <1>6 DEF Over
<1>8. \A x \in DOMAIN sc.families \ known : r.families[x] = sc.families[x]
  BY <1>3, <1>6 DEF Over
<1>9. \A x \in DOMAIN fams : r.families[x] = Family(x)
  BY <1>3, <1>6 DEF Over
<1>10. \A x \in known : RegisterFamily(sc.families[x], fams[x]).bad => <<"family", x>> \in r.errors
  BY <1>3, <1>5
<1> QED BY <1>1, <1>3, <1>4, <1>7, <1>8, <1>9, <1>10

\* Families that are well formed stay so, and keep their equations.
LEMMA RegisterFamiliesExact ==
  ASSUME NEW sc, IsScope(sc), NEW fams, AreFamilies(sc.families), AreFamilies(fams)
  PROVE  LET r == RegisterFamilies(sc, fams)
         IN  /\ AreFamilies(r.families)
             /\ \A x \in DOMAIN sc.families : Holds(r.families, x, sc.families[x])
             /\ r.errors = {} => \A x \in DOMAIN fams : Joined(sc.families, r.families, x, fams[x])
<1>1. PICK r : r = RegisterFamilies(sc, fams)
  OBVIOUS
<1> DEFINE known == DOMAIN fams \cap DOMAIN sc.families
<1>2. /\ DOMAIN r.families = DOMAIN fams \cup DOMAIN sc.families
      /\ \A x \in known : RegisterFamily(sc.families[x], fams[x]).bad => <<"family", x>> \in r.errors
      /\ \A x \in DOMAIN sc.families \ known : r.families[x] = sc.families[x]
      /\ \A x \in DOMAIN fams \ known : r.families[x] = fams[x]
      /\ \A x \in known : r.families[x] = [class |-> sc.families[x].class, eqs |-> RegisterFamily(sc.families[x], fams[x]).eqs]
  BY <1>1, RegisterFamiliesFields
<1>3. \A x \in known : /\ Merged(RegisterFamily(sc.families[x], fams[x]), sc.families[x].eqs, fams[x].eqs)
                       /\ IsFamily([class |-> sc.families[x].class, eqs |-> RegisterFamily(sc.families[x], fams[x]).eqs])
  BY RegisterFamilyExact DEF AreFamilies
<1>4. AreFamilies(r.families)
  BY <1>2, <1>3 DEF AreFamilies
<1>5. \A x \in known : r.families[x].eqs = RegisterFamily(sc.families[x], fams[x]).eqs
  <2> TAKE x \in known
  <2>1. PICK a, b : a = sc.families[x].class /\ b = RegisterFamily(sc.families[x], fams[x]).eqs
    OBVIOUS
  <2>2. r.families[x] = [class |-> a, eqs |-> b]
    BY <1>2, <2>1
  <2> QED BY <2>1, <2>2
<1>6. ASSUME NEW x \in DOMAIN sc.families PROVE Holds(r.families, x, sc.families[x])
  <2>1. CASE x \in known
    BY <1>2, <1>3, <1>5, <2>1 DEF Holds, Merged
  <2>2. CASE x \notin known
    BY <1>2, <1>6, <2>2 DEF Holds
  <2> QED BY <2>1, <2>2
<1>7. ASSUME r.errors = {}, NEW x \in DOMAIN fams PROVE Joined(sc.families, r.families, x, fams[x])
  <2>1. CASE x \in known
    <3>1. ~RegisterFamily(sc.families[x], fams[x]).bad
      BY <1>2, <1>7, <2>1
    <3> QED BY <1>2, <1>3, <1>5, <2>1, <3>1 DEF Joined, Holds, Merged
  <2>2. CASE x \notin known
    BY <1>2, <1>7, <2>2 DEF Joined, Holds
  <2> QED BY <2>1, <2>2
<1> QED BY <1>1, <1>4, <1>6, <1>7

FamiliesStep(st, sc, r, ex, names, m) ==
  /\ Step(st, sc, r, m, {}) /\ r.insts = sc.insts
  /\ r.errors = {} /\ AreFamilies(sc.families) => \A x \in names : Joined(sc.families, r.families, x, ex.families[x])

\* The families of a module: those that clash are reported and the others
\* joined with the ones in scope.
LEMMA ImportFamiliesStep ==
  ASSUME NEW st, NEW sc, IsScope(sc), NEW m, NEW ex, ex = Exports(st, m), NEW names, names \subseteq DOMAIN ex.families,
         AreFamilies(ex.families)
  PROVE  FamiliesStep(st, sc, importFamilies(st, sc, ex, names, m), ex, names, m)
<1> DEFINE bad == AmbiguousOf(st, sc, "families", names, m)
           tns == Over(From(names \ (bad \cup Private), m), sc.tns)
           errs == {<<"tns", x>> : x \in bad}
<1>1. PICK q : q = [sc EXCEPT !.tns = tns, !.errors = @ \cup errs]
  OBVIOUS
<1>2. PICK fams : fams = [x \in names \ bad |-> ex.families[x]]
  OBVIOUS
<1>3. PICK r : r = RegisterFamilies(q, fams)
  OBVIOUS
<1>4. r = importFamilies(st, sc, ex, names, m)
  BY <1>1, <1>2, <1>3 DEF importFamilies, importFamiliesExcept
<1>5. bad \subseteq names
  BY DEF AmbiguousOf
<1>6. /\ \A e \in errs : e[1] = "tns"
      /\ errs = {} => bad = {}
  <2> HIDE DEF bad
  <2>1. \A x : <<"tns", x>>[1] = "tns"
    OBVIOUS
  <2>2. \A x \in bad : <<"tns", x>> \in errs
    OBVIOUS
  <2> QED BY <2>1, <2>2
<1> HIDE DEF tns, errs, bad
<1>7. IsScope(q) /\ q.errors = sc.errors \cup errs /\ \A g \in Fields : g \notin {"tns", "errors"} => q[g] = sc[g]
  BY <1>1 DEF IsScope, Fields
<1>8. \A g \in {"ns", "vals", "families", "aliases", "classes", "conInfo", "insts"} : q[g] = sc[g]
  BY <1>7 DEF Fields
<1>9. /\ IsScope(r)
      /\ \A g \in Fields : g \notin {"families", "errors"} => r[g] = q[g]
      /\ q.errors \subseteq r.errors /\ \A e \in r.errors \ q.errors : e[1] = "family"
  BY <1>3, <1>7, RegisterFamiliesFields
<1>10. \A g \in {"ns", "vals", "aliases", "classes", "conInfo", "insts"} : r[g] = sc[g]
  BY <1>8, <1>9 DEF Fields
<1>11. Tabled(sc, r, ex)
  BY <1>10 DEF Tabled
<1>12. sc.errors \subseteq r.errors /\ \A e \in r.errors \ sc.errors : e[1] # "ns"
  BY <1>6, <1>7, <1>9
<1>13. Named(st, sc, r, m, {})
  BY <1>10, <1>12 DEF Named
<1>14. ASSUME AreFamilies(sc.families)
       PROVE  /\ AreFamilies(r.families)
              /\ \A x \in DOMAIN sc.families : Holds(r.families, x, sc.families[x])
              /\ r.errors = {} => \A x \in names : Joined(sc.families, r.families, x, ex.families[x])
  <2>1. AreFamilies(fams)
    BY <1>2, <1>14 DEF AreFamilies
  <2>2. AreFamilies(q.families) /\ q.families = sc.families
    BY <1>8, <1>14
  <2>3. /\ AreFamilies(r.families)
        /\ \A x \in DOMAIN q.families : Holds(r.families, x, q.families[x])
        /\ r.errors = {} => \A x \in DOMAIN fams : Joined(q.families, r.families, x, fams[x])
    BY <1>3, <1>7, <2>1, <2>2, RegisterFamiliesExact
  <2>4. r.errors = {} => bad = {}
    BY <1>6, <1>7, <1>9
  <2> QED BY <1>2, <2>2, <2>3, <2>4
<1>15. Familied(sc, r)
  BY <1>14 DEF Familied
<1>16. Step(st, sc, r, m, {})
  BY <1>9, <1>11, <1>13, <1>15 DEF Step
<1> QED BY <1>4, <1>10, <1>14, <1>16 DEF FamiliesStep

-----------------------------------------------------------------------------
(* The forms of an import.                                                 *)

\* What every registered module exports: constructors and methods of texts,
\* constructors of its own types, families of equations.
AllConstructors == UNION {UNION Range(d.types) : d \in Declarations}
AllMethods == UNION {MethodsOf(d, DOMAIN d.classes) : d \in Declarations}

ExportOK(ex) ==
  /\ DOMAIN ex.cons \subseteq AllConstructors /\ \A c \in DOMAIN ex.cons : ex.cons[c] \in ex.types
  /\ \A c \in DOMAIN ex.classes : ex.classes[c] \subseteq AllMethods
  /\ AreFamilies(ex.families)

\* No name is a constructor and a method.
LEMMA ConstructorsAreNoMethods ==
  AllConstructors \cap AllMethods = {}
<1> SUFFICES ASSUME NEW x, x \in AllConstructors, x \in AllMethods PROVE FALSE
  OBVIOUS
<1>1. PICK d \in Declarations : x \in UNION Range(d.types)
  BY DEF AllConstructors
<1>2. PICK t \in DOMAIN d.types : x \in d.types[t]
  BY <1>1 DEF Range
<1>3. PICK e \in Declarations : x \in MethodsOf(e, DOMAIN e.classes)
  BY DEF AllMethods
<1>4. PICK c \in DOMAIN e.classes : x \in e.classes[c]
  BY <1>3 DEF MethodsOf
<1> QED BY <1>2, <1>4, ScopeAssumption DEF ScopeAssumption, NamesAssumption

\* What an import of d has done.
Brought(ex, d) == {x \in ex.values \cup DOMAIN ex.cons : BringsOf(ex, d, x)}

Imported(st, sc, r, d) ==
  LET ex == Exports(st, d.mod)
  IN  \E V \in SUBSET Brought(ex, d) :
        /\ Step(st, sc, r, d.mod, V)
        /\ r.errors = {} => V = Brought(ex, d) /\ r.insts = sc.insts \cup ex.insts
        /\ Whole(d) => \A c \in DOMAIN ex.classes : c \in DOMAIN r.classes \/ V \cap ex.classes[c] = {}
        /\ r.errors = {} /\ d.names = <<>> /\ AreFamilies(sc.families) =>
             \A x \in DOMAIN ex.families : Joined(sc.families, r.families, x, ex.families[x])

\* What joins the families of a scope joins those of the scopes before it.
LEMMA JoinedBefore ==
  ASSUME NEW old, NEW mid, \A x \in DOMAIN old : Holds(mid, x, old[x]), NEW fams, NEW x, NEW fam, Joined(mid, fams, x, fam)
  PROVE  Joined(old, fams, x, fam)
BY DEF Joined, Holds, Agree

\* Types, constructors and aliases of an open import.
LEMMA OpenTypesStep ==
  ASSUME NEW st, NEW sc, IsScope(sc), NEW m, NEW ex, ex = Exports(st, m)
  PROVE  LET r == openTypes(st, sc, ex, m)
         IN  Step(st, sc, r, m, DOMAIN ex.cons) /\ r.insts = sc.insts
<1>1. PICK a : a = [sc EXCEPT !.conInfo = Over(ex.cons, @)]
  OBVIOUS
<1>2. PICK b : b = importNames(st, a, "kinds", ex.types, m)
  OBVIOUS
<1>3. PICK c : c = importNames(st, b, "cons", DOMAIN ex.cons, m)
  OBVIOUS
<1>4. PICK r : r = importNames(st, c, "aliases", ex.aliases, m)
  OBVIOUS
<1>5. r = openTypes(st, sc, ex, m)
  BY <1>1, <1>2, <1>3, <1>4 DEF openTypes
<1>6. Step(st, sc, a, m, {}) /\ a.insts = sc.insts
  BY <1>1, ConInfoStep
<1>7. IsScope(a)
  BY <1>6 DEF Step
<1>8. Step(st, a, b, m, {}) /\ b.insts = a.insts
  <2>1. Step(st, a, b, m, ValueNames("kinds", ex.types)) /\ b.insts = a.insts
    BY <1>2, <1>7, ImportPlainStep DEF Tables
  <2> QED BY <2>1 DEF ValueNames
<1>9. IsScope(b)
  BY <1>8 DEF Step
<1>10. Step(st, b, c, m, DOMAIN ex.cons) /\ c.insts = b.insts
  <2>1. Step(st, b, c, m, ValueNames("cons", DOMAIN ex.cons)) /\ c.insts = b.insts
    BY <1>3, <1>9, ImportPlainStep DEF Tables
  <2> QED BY <2>1 DEF ValueNames
<1>11. IsScope(c)
  BY <1>10 DEF Step
<1>12. Step(st, c, r, m, {}) /\ r.insts = c.insts
  <2>1. Step(st, c, r, m, ValueNames("aliases", ex.aliases)) /\ r.insts = c.insts
    BY <1>4, <1>11, ImportNamesStep DEF Tables, ListedIn
  <2> QED BY <2>1 DEF ValueNames
<1>13. Step(st, sc, b, m, {} \cup {})
  BY <1>6, <1>8, StepTrans
<1>14. Step(st, sc, c, m, ({} \cup {}) \cup DOMAIN ex.cons)
  BY <1>10, <1>13, StepTrans
<1>15. Step(st, sc, r, m, (({} \cup {}) \cup DOMAIN ex.cons) \cup {})
  BY <1>12, <1>14, StepTrans
<1>16. (({} \cup {}) \cup DOMAIN ex.cons) \cup {} = DOMAIN ex.cons
  OBVIOUS
<1>17. Step(st, sc, r, m, DOMAIN ex.cons)
  BY ONLY <1>15, <1>16
<1> QED BY <1>5, <1>6, <1>8, <1>10, <1>12, <1>17

ClassesStep(st, sc, r, ex, bad, m) ==
  /\ Step(st, sc, r, m, ex.values \ MethodsOf(ex, bad)) /\ r.insts = sc.insts \cup ex.insts
  /\ DOMAIN ex.classes \ bad \subseteq DOMAIN r.classes
  /\ r.errors = {} => bad = {}

\* Classes, instances, values and promoted names of an open import.
LEMMA OpenFromClassesStep ==
  ASSUME NEW st, NEW sc, IsScope(sc), NEW m, NEW ex, ex = Exports(st, m),
         NEW bad, bad = AmbiguousOf(st, sc, "classes", DOMAIN ex.classes, m)
  PROVE  ClassesStep(st, sc, openFromClasses(st, sc, ex, m), ex, bad, m)
<1>2. PICK a : a = importExcept(sc, "classes", DOMAIN ex.classes, bad, m)
  OBVIOUS
<1>3. PICK b : b = importInstances(a, ex)
  OBVIOUS
<1>4. PICK V : V = ex.values \ MethodsOf(ex, bad)
  OBVIOUS
<1>5. PICK c : c = importNames(st, b, "vals", V, m)
  OBVIOUS
<1>6. PICK r : r = importPromoted(st, c, ex.pkinds, ex.pcons, m)
  OBVIOUS
<1>7. r = openFromClasses(st, sc, ex, m)
  BY <1>2, <1>3, <1>4, <1>5, <1>6 DEF openFromClasses, openClasses, openValues
<1>8. Step(st, sc, a, m, {}) /\ a.insts = sc.insts /\ (a.errors = {} => bad = {}) /\ DOMAIN ex.classes \ bad \subseteq DOMAIN a.classes
  <2>1. "classes" \in Tables /\ ListedIn(Exports(st, m), "classes", DOMAIN ex.classes)
    BY DEF Tables, ListedIn
  <2>2. /\ Step(st, sc, a, m, ValueNames("classes", DOMAIN ex.classes)) /\ a.insts = sc.insts /\ (a.errors = {} => bad = {})
        /\ DOMAIN ex.classes \ bad \subseteq DOMAIN a.classes
    <3>1. PICK names : names = DOMAIN ex.classes
      OBVIOUS
    <3>2. bad = AmbiguousOf(st, sc, "classes", names, m) /\ a = importExcept(sc, "classes", names, bad, m) /\ ListedIn(Exports(st, m), "classes", names)
      BY <1>2, <2>1, <3>1
    <3>3. ExceptStep(st, sc, a, "classes", names, bad, m)
      BY <2>1, <3>2, ImportExceptStep
    <3> QED BY <3>1, <3>3 DEF ExceptStep
  <2> QED BY <2>2 DEF ValueNames
<1>9. IsScope(a)
  BY <1>8 DEF Step
<1>10. Step(st, a, b, m, {}) /\ b.insts = a.insts \cup ex.insts
  BY <1>3, <1>9, InstancesStep
<1>11. IsScope(b)
  BY <1>10 DEF Step
<1>12. Step(st, b, c, m, V) /\ c.insts = b.insts
  <2>1. Step(st, b, c, m, ValueNames("vals", V)) /\ c.insts = b.insts
    BY <1>5, <1>11, ImportPlainStep DEF Tables
  <2> QED BY <2>1 DEF ValueNames
<1>13. IsScope(c)
  BY <1>12 DEF Step
<1>14. Step(st, c, r, m, {}) /\ r.insts = c.insts
  BY <1>6, <1>13, ImportPromotedStep
<1>15. Step(st, sc, b, m, {} \cup {})
  BY <1>8, <1>10, StepTrans
<1>16. Step(st, sc, c, m, ({} \cup {}) \cup V)
  BY <1>12, <1>15, StepTrans
<1>17. Step(st, sc, r, m, (({} \cup {}) \cup V) \cup {})
  BY <1>14, <1>16, StepTrans
<1>18. (({} \cup {}) \cup V) \cup {} = V
  OBVIOUS
<1>19. Step(st, sc, r, m, V)
  BY ONLY <1>17, <1>18
<1>20. DOMAIN a.classes \subseteq DOMAIN r.classes /\ (r.errors = {} => a.errors = {})
  BY <1>10, <1>12, <1>14 DEF Step, Tabled, Named
<1> QED BY <1>4, <1>7, <1>8, <1>10, <1>12, <1>14, <1>19, <1>20 DEF ClassesStep

\* An open import brings every value and constructor.
LEMMA OpenImported ==
  ASSUME NEW st, NEW sc, IsScope(sc), NEW d, NEW ex, ex = Exports(st, d.mod), ExportOK(ex), Whole(d)
  PROVE  Imported(st, sc, importOpen(st, sc, ex, d.mod), d)
<1>0. PICK m : m = d.mod
  OBVIOUS
<1>1. PICK a : a = openTypes(st, sc, ex, m)
  OBVIOUS
<1>2. PICK b : b = openFromClasses(st, a, ex, m)
  OBVIOUS
<1>3. PICK fams : fams = DOMAIN ex.families
  OBVIOUS
<1>4. PICK r : r = importFamilies(st, b, ex, fams, m)
  OBVIOUS
<1>5. r = importOpen(st, sc, ex, d.mod)
  BY <1>0, <1>1, <1>2, <1>3, <1>4 DEF importOpen
<1>6. PICK bad : bad = AmbiguousOf(st, a, "classes", DOMAIN ex.classes, m)
  OBVIOUS
<1>7. PICK W : W = ex.values \ MethodsOf(ex, bad)
  OBVIOUS
<1>8. Step(st, sc, a, m, DOMAIN ex.cons) /\ a.insts = sc.insts /\ IsScope(a)
  <2>1. Step(st, sc, a, m, DOMAIN ex.cons) /\ a.insts = sc.insts
    BY <1>0, <1>1, OpenTypesStep
  <2> QED BY <2>1 DEF Step
<1>9. /\ Step(st, a, b, m, W) /\ b.insts = a.insts \cup ex.insts /\ IsScope(b)
      /\ DOMAIN ex.classes \ bad \subseteq DOMAIN b.classes /\ (b.errors = {} => bad = {})
  <2>1. /\ Step(st, a, b, m, W) /\ b.insts = a.insts \cup ex.insts
        /\ DOMAIN ex.classes \ bad \subseteq DOMAIN b.classes /\ (b.errors = {} => bad = {})
    <3>1. ClassesStep(st, a, b, ex, bad, m)
      BY <1>0, <1>2, <1>6, <1>8, OpenFromClassesStep
    <3> QED BY <1>7, <3>1 DEF ClassesStep
  <2> QED BY <2>1 DEF Step
<1>10. /\ Step(st, b, r, m, {}) /\ r.insts = b.insts
       /\ r.errors = {} /\ AreFamilies(b.families) => \A x \in fams : Joined(b.families, r.families, x, ex.families[x])
  <2>1. FamiliesStep(st, b, r, ex, fams, m)
    BY <1>0, <1>3, <1>4, <1>9, ImportFamiliesStep DEF ExportOK
  <2> QED BY <2>1 DEF FamiliesStep
<1>11. PICK V : V = (DOMAIN ex.cons \cup W) \cup {}
  OBVIOUS
<1>12. Step(st, sc, b, m, DOMAIN ex.cons \cup W)
  BY <1>8, <1>9, StepTrans
<1>13. Step(st, sc, r, m, V)
  BY <1>10, <1>11, <1>12, StepTrans
<1>14. Brought(ex, d) = ex.values \cup DOMAIN ex.cons
  BY DEF Brought, BringsOf
<1>15. V \in SUBSET Brought(ex, d)
  BY <1>7, <1>11, <1>14
<1>16. r.errors = {} => b.errors = {}
  BY <1>10 DEF Step, Named
<1>17. r.errors = {} => V = Brought(ex, d) /\ r.insts = sc.insts \cup ex.insts
  <2>1. bad = {} => W = ex.values
    BY <1>7 DEF MethodsOf
  <2> QED BY <1>8, <1>9, <1>10, <1>11, <1>14, <1>16, <2>1
<1>18. ASSUME NEW c \in DOMAIN ex.classes PROVE c \in DOMAIN r.classes \/ V \cap ex.classes[c] = {}
  <2>1. CASE c \notin bad
    BY <1>9, <1>10, <1>18, <2>1 DEF Step, Tabled
  <2>2. CASE c \in bad
    <3>1. W \cap ex.classes[c] = {}
      BY <1>7, <2>2 DEF MethodsOf
    <3>2. DOMAIN ex.cons \cap ex.classes[c] = {}
      BY ConstructorsAreNoMethods DEF ExportOK
    <3> QED BY <1>11, <3>1, <3>2
  <2> QED BY <2>1, <2>2
<1>19. ASSUME r.errors = {}, AreFamilies(sc.families)
       PROVE  \A x \in DOMAIN ex.families : Joined(sc.families, r.families, x, ex.families[x])
  <2>1. AreFamilies(b.families) /\ \A x \in DOMAIN sc.families : Holds(b.families, x, sc.families[x])
    BY <1>12, <1>19 DEF Step, Familied
  <2>2. \A x \in DOMAIN ex.families : Joined(b.families, r.families, x, ex.families[x])
    BY <1>3, <1>10, <1>19, <2>1
  <2> QED BY <2>1, <2>2, JoinedBefore
<1> QED BY <1>0, <1>5, <1>13, <1>15, <1>17, <1>18, <1>19 DEF Imported

\* An import under an alias brings no value.
LEMMA QualifiedImported ==
  ASSUME NEW st, NEW sc, IsScope(sc), NEW d, NEW ex, ex = Exports(st, d.mod), ExportOK(ex), d.alias # 0
  PROVE  Imported(st, sc, importQualified(st, sc, ex, d.alias, d.mod), d)
<1>0. PICK m : m = d.mod
  OBVIOUS
<1>1. PICK a : a = [sc EXCEPT !.scopes = Over(From({d.alias}, m), @)]
  OBVIOUS
<1>2. PICK b : b = importInstances(a, ex)
  OBVIOUS
<1>3. PICK fams : fams = DOMAIN ex.families
  OBVIOUS
<1>4. PICK r : r = importFamilies(st, b, ex, fams, m)
  OBVIOUS
<1>5. r = importQualified(st, sc, ex, d.alias, d.mod)
  BY <1>0, <1>1, <1>2, <1>3, <1>4 DEF importQualified
<1>8. Step(st, sc, a, m, {}) /\ a.insts = sc.insts /\ IsScope(a)
  <2>1. Step(st, sc, a, m, {}) /\ a.insts = sc.insts
    BY <1>0, <1>1, ScopesStep
  <2> QED BY <2>1 DEF Step
<1>9. Step(st, a, b, m, {}) /\ b.insts = a.insts \cup ex.insts /\ IsScope(b)
  <2>1. Step(st, a, b, m, {}) /\ b.insts = a.insts \cup ex.insts
    BY <1>0, <1>2, <1>8, InstancesStep
  <2> QED BY <2>1 DEF Step
<1>10. /\ Step(st, b, r, m, {}) /\ r.insts = b.insts
       /\ r.errors = {} /\ AreFamilies(b.families) => \A x \in fams : Joined(b.families, r.families, x, ex.families[x])
  <2>1. FamiliesStep(st, b, r, ex, fams, m)
    BY <1>0, <1>3, <1>4, <1>9, ImportFamiliesStep DEF ExportOK
  <2> QED BY <2>1 DEF FamiliesStep
<1>12. Step(st, sc, b, m, {} \cup {})
  BY <1>8, <1>9, StepTrans
<1>13. Step(st, sc, r, m, {})
  <2>1. Step(st, sc, r, m, ({} \cup {}) \cup {})
    BY <1>10, <1>12, StepTrans
  <2>2. ({} \cup {}) \cup {} = {}
    OBVIOUS
  <2> QED BY ONLY <2>1, <2>2
<1>14. Brought(ex, d) = {} /\ ~Whole(d)
  BY DEF Brought, BringsOf, Whole, ItemsOf
<1>19. ASSUME r.errors = {}, AreFamilies(sc.families)
       PROVE  \A x \in DOMAIN ex.families : Joined(sc.families, r.families, x, ex.families[x])
  <2>1. AreFamilies(b.families) /\ \A x \in DOMAIN sc.families : Holds(b.families, x, sc.families[x])
    BY <1>12, <1>19 DEF Step, Familied
  <2>2. \A x \in DOMAIN ex.families : Joined(b.families, r.families, x, ex.families[x])
    BY <1>3, <1>10, <1>19, <2>1
  <2> QED BY <2>1, <2>2, JoinedBefore
<1> QED BY <1>0, <1>5, <1>8, <1>9, <1>10, <1>13, <1>14, <1>19 DEF Imported

\* What an item brings.
ItemNames(ex, item) == {x \in ex.values \cup DOMAIN ex.cons : ItemBrings(ex, item, x)}

ItemStep(st, sc, r, ex, item, m) ==
  \E V \in SUBSET ItemNames(ex, item) : Step(st, sc, r, m, V) /\ r.insts = sc.insts /\ (r.errors = {} => V = ItemNames(ex, item))

\* An item: its value, type, constructors and alias.
LEMMA ItemBeforeClassStep ==
  ASSUME NEW st, NEW sc, IsScope(sc), NEW m, NEW ex, ex = Exports(st, m), NEW item, NEW cons, cons \subseteq DOMAIN ex.cons
  PROVE  LET r == itemBeforeClass(st, sc, ex, item, cons, m)
         IN  Step(st, sc, r, m, ({item.name} \cap ex.values) \cup cons) /\ r.insts = sc.insts
<1>0. PICK f, V, K, A : f = [c \in cons |-> ex.cons[c]] /\ V = {item.name} \cap ex.values /\ K = {item.name} \cap ex.types /\ A = {item.name} \cap ex.aliases
  OBVIOUS
<1>1. PICK a : a = [sc EXCEPT !.conInfo = Over(f, @)]
  OBVIOUS
<1>2. PICK b : b = importNames(st, a, "vals", V, m)
  OBVIOUS
<1>3. PICK c : c = importNames(st, b, "kinds", K, m)
  OBVIOUS
<1>4. PICK e : e = importNames(st, c, "cons", cons, m)
  OBVIOUS
<1>5. PICK r : r = importNames(st, e, "aliases", A, m)
  OBVIOUS
<1>6. r = itemBeforeClass(st, sc, ex, item, cons, m)
  BY <1>0, <1>1, <1>2, <1>3, <1>4, <1>5 DEF itemBeforeClass
<1>7. Step(st, sc, a, m, {}) /\ a.insts = sc.insts
  BY <1>0, <1>1, ConInfoStep
<1>8. Step(st, a, b, m, V) /\ b.insts = a.insts
  <2>1. IsScope(a)
    BY <1>7 DEF Step
  <2>2. Step(st, a, b, m, ValueNames("vals", V)) /\ b.insts = a.insts
    BY <1>2, <2>1, ImportPlainStep DEF Tables
  <2> QED BY <2>2 DEF ValueNames
<1>9. Step(st, b, c, m, {}) /\ c.insts = b.insts
  <2>1. IsScope(b)
    BY <1>8 DEF Step
  <2>2. Step(st, b, c, m, ValueNames("kinds", K)) /\ c.insts = b.insts
    BY <1>3, <2>1, ImportPlainStep DEF Tables
  <2> QED BY <2>2 DEF ValueNames
<1>10. Step(st, c, e, m, cons) /\ e.insts = c.insts
  <2>1. IsScope(c)
    BY <1>9 DEF Step
  <2>2. Step(st, c, e, m, ValueNames("cons", cons)) /\ e.insts = c.insts
    BY <1>4, <2>1, ImportPlainStep DEF Tables
  <2> QED BY <2>2 DEF ValueNames
<1>11. Step(st, e, r, m, {}) /\ r.insts = e.insts
  <2>1. IsScope(e)
    BY <1>10 DEF Step
  <2>2. ListedIn(Exports(st, m), "aliases", A)
    BY <1>0 DEF ListedIn
  <2>3. Step(st, e, r, m, ValueNames("aliases", A)) /\ r.insts = e.insts
    BY <1>5, <2>1, <2>2, ImportNamesStep DEF Tables
  <2> QED BY <2>3 DEF ValueNames
<1>12. Step(st, sc, b, m, {} \cup V)
  BY <1>7, <1>8, StepTrans
<1>13. Step(st, sc, c, m, ({} \cup V) \cup {})
  BY <1>9, <1>12, StepTrans
<1>14. Step(st, sc, e, m, (({} \cup V) \cup {}) \cup cons)
  BY <1>10, <1>13, StepTrans
<1>15. Step(st, sc, r, m, ((({} \cup V) \cup {}) \cup cons) \cup {})
  BY <1>11, <1>14, StepTrans
<1>16. ((({} \cup V) \cup {}) \cup cons) \cup {} = ({item.name} \cap ex.values) \cup cons
  BY <1>0
<1>17. Step(st, sc, r, m, ({item.name} \cap ex.values) \cup cons)
  BY ONLY <1>15, <1>16
<1> QED BY <1>6, <1>7, <1>8, <1>9, <1>10, <1>11, <1>17

ClassItemStep(st, sc, r, ex, item, m) ==
  \E W : /\ Step(st, sc, r, m, W) /\ r.insts = sc.insts
         /\ W \subseteq IF item.name \in DOMAIN ex.classes THEN importClassSubs(ex, item) ELSE {}
         /\ r.errors = {} => W = IF item.name \in DOMAIN ex.classes THEN importClassSubs(ex, item) ELSE {}

\* An item: its class and the methods it names.
LEMMA ItemFromClassStep ==
  ASSUME NEW st, NEW sc, IsScope(sc), NEW m, NEW ex, ex = Exports(st, m), NEW item
  PROVE  ClassItemStep(st, sc, itemFromClass(st, sc, ex, item, m), ex, item, m)
<1>1. PICK names : names = {item.name} \cap DOMAIN ex.classes
  OBVIOUS
<1>2. PICK bad : bad = AmbiguousOf(st, sc, "classes", names, m)
  OBVIOUS
<1>3. PICK W : W = IF item.name \in DOMAIN ex.classes \ bad THEN importClassSubs(ex, item) ELSE {}
  OBVIOUS
<1>4. PICK a : a = importExcept(sc, "classes", names, bad, m)
  OBVIOUS
<1>5. PICK r : r = importNames(st, a, "vals", W, m)
  OBVIOUS
<1>6. r = itemFromClass(st, sc, ex, item, m)
  BY <1>1, <1>2, <1>3, <1>4, <1>5 DEF itemFromClass, importClass
<1>7. Step(st, sc, a, m, {}) /\ a.insts = sc.insts /\ (a.errors = {} => bad = {})
  <2>1. ListedIn(Exports(st, m), "classes", names) /\ "classes" \in Tables
    BY <1>1 DEF ListedIn, Tables
  <2>2. ExceptStep(st, sc, a, "classes", names, bad, m)
    BY <1>2, <1>4, <2>1, ImportExceptStep
  <2> QED BY <2>2 DEF ExceptStep, ValueNames
<1>8. Step(st, a, r, m, W) /\ r.insts = a.insts
  <2>1. IsScope(a)
    BY <1>7 DEF Step
  <2>2. Step(st, a, r, m, ValueNames("vals", W)) /\ r.insts = a.insts
    BY <1>5, <2>1, ImportPlainStep DEF Tables
  <2> QED BY <2>2 DEF ValueNames
<1>9. Step(st, sc, r, m, W)
  <2>1. Step(st, sc, r, m, {} \cup W)
    BY <1>7, <1>8, StepTrans
  <2>2. {} \cup W = W
    OBVIOUS
  <2> QED BY ONLY <2>1, <2>2
<1>10. r.errors = {} => bad = {}
  BY <1>7, <1>8 DEF Step, Named
<1>11. /\ W \subseteq IF item.name \in DOMAIN ex.classes THEN importClassSubs(ex, item) ELSE {}
       /\ r.errors = {} => W = IF item.name \in DOMAIN ex.classes THEN importClassSubs(ex, item) ELSE {}
  BY <1>3, <1>10
<1> QED BY <1>6, <1>7, <1>8, <1>9, <1>11 DEF ClassItemStep

\* An item: its family and its promoted names.
LEMMA ItemFromFamilyStep ==
  ASSUME NEW st, NEW sc, IsScope(sc), NEW m, NEW ex, ex = Exports(st, m), NEW item, AreFamilies(ex.families)
  PROVE  LET r == itemFromFamily(st, sc, ex, item, m)
         IN  Step(st, sc, r, m, {}) /\ r.insts = sc.insts
<1>1. PICK names, kinds, cons : names = {item.name} \cap DOMAIN ex.families /\ kinds = {item.name} \cap ex.pkinds /\ cons = {item.name} \cap ex.pcons
  OBVIOUS
<1>2. PICK a : a = importFamilies(st, sc, ex, names, m)
  OBVIOUS
<1>3. PICK r : r = importPromoted(st, a, kinds, cons, m)
  OBVIOUS
<1>4. r = itemFromFamily(st, sc, ex, item, m)
  BY <1>1, <1>2, <1>3 DEF itemFromFamily
<1>5. Step(st, sc, a, m, {}) /\ a.insts = sc.insts
  <2>1. names \subseteq DOMAIN ex.families
    BY <1>1
  <2>2. FamiliesStep(st, sc, a, ex, names, m)
    BY <1>2, <2>1, ImportFamiliesStep
  <2> QED BY <2>2 DEF FamiliesStep
<1>6. Step(st, a, r, m, {}) /\ r.insts = a.insts
  <2>1. IsScope(a)
    BY <1>5 DEF Step
  <2> QED BY <1>3, <2>1, ImportPromotedStep
<1>7. Step(st, sc, r, m, {} \cup {})
  BY <1>5, <1>6, StepTrans
<1> QED BY <1>4, <1>5, <1>6, <1>7

ItemOK(item) == item.subs \in {"bare", "all", "some"}

\* The three groups of names of an item are those it brings.
LEMMA ItemNamesExact ==
  ASSUME NEW ex, ExportOK(ex), NEW item, ItemOK(item)
  PROVE  ItemNames(ex, item) = ({item.name} \cap ex.values) \cup (IF item.name \in ex.types THEN importTypeSubs(ex, item) ELSE {})
                                 \cup (IF item.name \in DOMAIN ex.classes THEN importClassSubs(ex, item) ELSE {})
<1> DEFINE T == IF item.name \in ex.types THEN importTypeSubs(ex, item) ELSE {}
           C == IF item.name \in DOMAIN ex.classes THEN importClassSubs(ex, item) ELSE {}
<1>1. item.subs \in {"bare", "all", "some"}
  BY DEF ItemOK
<1>2. \A x : x \in T <=> x \in DOMAIN ex.cons /\ ex.cons[x] = item.name /\ (item.subs = "all" \/ (item.subs = "some" /\ x \in item.list))
  <2>1. \A x \in DOMAIN ex.cons : ex.cons[x] \in ex.types
    BY DEF ExportOK
  <2>2. CASE item.subs = "bare"
    BY <2>1, <2>2 DEF importTypeSubs, ChosenSubs
  <2>3. CASE item.subs = "all"
    BY <2>1, <2>3 DEF importTypeSubs, ChosenSubs
  <2>4. CASE item.subs = "some"
    BY <2>1, <2>4 DEF importTypeSubs, ChosenSubs
  <2> QED BY <1>1, <2>2, <2>3, <2>4
<1>3. \A x : x \in C <=> x \in ex.values /\ item.name \in DOMAIN ex.classes /\ x \in ex.classes[item.name] /\ (item.subs # "some" \/ x \in item.list)
  <2>2. CASE item.subs = "bare"
    BY <2>2 DEF importClassSubs, ChosenSubs
  <2>3. CASE item.subs = "all"
    BY <2>3 DEF importClassSubs, ChosenSubs
  <2>4. CASE item.subs = "some"
    BY <2>4 DEF importClassSubs, ChosenSubs
  <2> QED BY <1>1, <2>2, <2>3, <2>4
<1>4. \A x : item.name \in DOMAIN ex.classes /\ x \in ex.classes[item.name] => x \notin DOMAIN ex.cons
  BY ConstructorsAreNoMethods DEF ExportOK
<1> HIDE DEF T, C
<1>5. ItemNames(ex, item) = ({item.name} \cap ex.values) \cup T \cup C
  BY <1>2, <1>3, <1>4 DEF ItemNames, ItemBrings
<1> QED BY <1>5 DEF T, C

\* One item of a list.
LEMMA ImportItemStep ==
  ASSUME NEW st, NEW sc, IsScope(sc), NEW m, NEW ex, ex = Exports(st, m), ExportOK(ex), NEW item, ItemOK(item)
  PROVE  ItemStep(st, sc, importItem(st, sc, ex, item, m), ex, item, m)
<1>1. PICK N : N = ItemNames(ex, item)
  OBVIOUS
<1>2. PICK T, C : /\ T = IF item.name \in ex.types THEN importTypeSubs(ex, item) ELSE {}
                  /\ C = IF item.name \in DOMAIN ex.classes THEN importClassSubs(ex, item) ELSE {}
  OBVIOUS
<1>3. N = ({item.name} \cap ex.values) \cup T \cup C
  BY <1>1, <1>2, ItemNamesExact
<1>4. PICK r : r = importItem(st, sc, ex, item, m)
  OBVIOUS
<1>5. CASE item.name \notin UNION {ex.values, ex.types, ex.aliases, DOMAIN ex.classes, DOMAIN ex.families, ex.pkinds, ex.pcons}
  <2>1. r = Erring(sc, "missing", item.name)
    BY <1>4, <1>5 DEF importItem
  <2>2. Step(st, sc, r, m, {}) /\ r.insts = sc.insts /\ r.errors # {}
    BY <2>1, ErringStep
  <2> QED BY <1>4, <2>2 DEF ItemStep
<1>6. CASE ~(item.name \notin UNION {ex.values, ex.types, ex.aliases, DOMAIN ex.classes, DOMAIN ex.families, ex.pkinds, ex.pcons})
  <2>1. PICK a : a = itemBeforeClass(st, sc, ex, item, T, m)
    OBVIOUS
  <2>2. PICK b : b = itemFromClass(st, a, ex, item, m)
    OBVIOUS
  <2>3. r = itemFromFamily(st, b, ex, item, m)
    BY <1>2, <1>4, <1>6, <2>1, <2>2 DEF importItem
  <2>4. PICK V : V = ({item.name} \cap ex.values) \cup T
    OBVIOUS
  <2>5. Step(st, sc, a, m, V) /\ a.insts = sc.insts
    <3>1. T \subseteq DOMAIN ex.cons
      BY <1>2 DEF importTypeSubs, ChosenSubs
    <3> QED BY <2>1, <2>4, <3>1, ItemBeforeClassStep
  <2>6. PICK W : /\ Step(st, a, b, m, W) /\ b.insts = a.insts /\ W \subseteq C
                 /\ b.errors = {} => W = C
    <3>1. IsScope(a)
      BY <2>5 DEF Step
    <3>2. ClassItemStep(st, a, b, ex, item, m)
      BY <2>2, <3>1, ItemFromClassStep
    <3> QED BY <1>2, <3>2 DEF ClassItemStep
  <2>7. Step(st, b, r, m, {}) /\ r.insts = b.insts
    <3>1. IsScope(b)
      BY <2>6 DEF Step
    <3> QED BY <2>3, <3>1, ItemFromFamilyStep DEF ExportOK
  <2>8. Step(st, sc, b, m, V \cup W)
    BY <2>5, <2>6, StepTrans
  <2>9. Step(st, sc, r, m, (V \cup W) \cup {})
    BY <2>7, <2>8, StepTrans
  <2>10. PICK U : U = (V \cup W) \cup {}
    OBVIOUS
  <2>11. r.errors = {} => b.errors = {}
    BY <2>7 DEF Step, Named
  <2>12. U \in SUBSET N /\ (r.errors = {} => U = N)
    BY <1>3, <2>4, <2>6, <2>10, <2>11
  <2>13. Step(st, sc, r, m, U) /\ r.insts = sc.insts
    BY <2>5, <2>6, <2>7, <2>9, <2>10
  <2> QED BY <1>1, <1>4, <2>12, <2>13 DEF ItemStep
<1> QED BY <1>5, <1>6

IsItems(f, st, sc, ex, items, m) == f = [i \in 0..Len(items) |-> IF i = 0 THEN sc ELSE importItem(st, f[i - 1], ex, items[i], m)]

\* The recursive function of importItems exists.
LEMMA ItemsExist ==
  ASSUME NEW st, NEW sc, NEW ex, NEW items, NEW m, Len(items) \in Nat
  PROVE  \E f : IsItems(f, st, sc, ex, items, m)
<1> DEFINE P(n) == \E f : f = [i \in 0..n |-> IF i = 0 THEN sc ELSE importItem(st, f[i - 1], ex, items[i], m)]
           S == {n \in Nat : P(n)}
<1>1. P(0)
  <2> DEFINE g == [i \in 0..0 |-> sc]
  <2>1. g = [i \in 0..0 |-> IF i = 0 THEN sc ELSE importItem(st, g[i - 1], ex, items[i], m)]
    OBVIOUS
  <2> QED BY <2>1
<1>2. ASSUME NEW n \in Nat, P(n) PROVE P(n + 1)
  <2>1. PICK f : f = [i \in 0..n |-> IF i = 0 THEN sc ELSE importItem(st, f[i - 1], ex, items[i], m)]
    BY <1>2
  <2> DEFINE g == [i \in 0..(n + 1) |-> IF i = n + 1 THEN importItem(st, f[n], ex, items[n + 1], m) ELSE f[i]]
  <2>2. ASSUME NEW i \in 0..(n + 1) PROVE g[i] = IF i = 0 THEN sc ELSE importItem(st, g[i - 1], ex, items[i], m)
    <3>1. CASE i = 0
      BY <2>1, <3>1
    <3>2. CASE i \in 1..n
      <4>1. g[i] = f[i] /\ g[i - 1] = f[i - 1] /\ i \in 0..n /\ i # 0
        BY <3>2
      <4> HIDE DEF g
      <4> QED BY <2>1, <4>1
    <3>3. CASE i = n + 1
      <4>1. g[i] = importItem(st, f[n], ex, items[n + 1], m) /\ g[i - 1] = f[n] /\ i # 0 /\ n + 1 - 1 = n
        BY <3>3
      <4> HIDE DEF g
      <4> QED BY <3>3, <4>1
    <3> QED BY <3>1, <3>2, <3>3
  <2>3. g = [i \in 0..(n + 1) |-> g[i]]
    OBVIOUS
  <2>4. g = [i \in 0..(n + 1) |-> IF i = 0 THEN sc ELSE importItem(st, g[i - 1], ex, items[i], m)]
    <3> HIDE DEF g
    <3> QED BY <2>2, <2>3
  <2> QED BY <2>4
<1>3. Nat \subseteq S
  <2>1. 0 \in S /\ \A n \in Nat : n \in S => n + 1 \in S
    <3> HIDE DEF P
    <3> QED BY <1>1, <1>2
  <2> HIDE DEF S
  <2> QED BY <2>1, NumbersFromZero
<1> QED BY <1>3 DEF IsItems

ItemsStep(st, sc, r, m, N) == \E V \in SUBSET N : Step(st, sc, r, m, V) /\ r.insts = sc.insts /\ (r.errors = {} => V = N)

\* All items of a list.
ItemsNames(ex, items) == UNION {ItemNames(ex, item) : item \in Range(items)}

LEMMA ImportItemsStep ==
  ASSUME NEW st, NEW sc, IsScope(sc), NEW m, NEW ex, ex = Exports(st, m), ExportOK(ex),
         NEW items, IsSequence(items), \A item \in Range(items) : ItemOK(item)
  PROVE  ItemsStep(st, sc, importItems(st, sc, ex, items, m), m, ItemsNames(ex, items))
<1>1. Len(items) \in Nat /\ DOMAIN items = 1..Len(items)
  BY DEF IsSequence
<1>2. PICK f : f = CHOOSE g : IsItems(g, st, sc, ex, items, m)
  OBVIOUS
<1>3. IsItems(f, st, sc, ex, items, m)
  BY <1>1, <1>2, ItemsExist
<1>4. importItems(st, sc, ex, items, m) = f[Len(items)]
  BY <1>2 DEF importItems, IsItems
<1> DEFINE N(i) == UNION {ItemNames(ex, items[k]) : k \in 1..i}
           Q(i) == \E V \in SUBSET N(i) : Step(st, sc, f[i], m, V) /\ f[i].insts = sc.insts /\ (f[i].errors = {} => V = N(i))
           S == {i \in Nat : i <= Len(items) => Q(i)}
<1>5. Q(0)
  <2>1. f[0] = sc
    BY <1>1, <1>3 DEF IsItems
  <2>2. Tabled(sc, sc, Exports(st, m))
    BY DEF Tabled
  <2>3. Step(st, sc, sc, m, {})
    BY <2>2, OtherStep
  <2>4. N(0) = {}
    OBVIOUS
  <2> HIDE DEF N
  <2> QED BY <2>1, <2>3, <2>4
<1>6. ASSUME NEW i \in Nat, i + 1 <= Len(items), Q(i) PROVE Q(i + 1)
  <2>1. f[i + 1] = importItem(st, f[i], ex, items[i + 1], m)
    <3>1. i + 1 \in 0..Len(items) /\ i + 1 # 0 /\ i + 1 - 1 = i
      BY <1>1, <1>6
    <3>2. \A j \in 0..Len(items) : f[j] = IF j = 0 THEN sc ELSE importItem(st, f[j - 1], ex, items[j], m)
      BY <1>3 DEF IsItems
    <3>3. f[i + 1] = importItem(st, f[i + 1 - 1], ex, items[i + 1], m)
      BY <3>1, <3>2
    <3> QED BY <3>1, <3>3
  <2>2. PICK a, item : a = f[i] /\ item = items[i + 1]
    OBVIOUS
  <2>3. ItemOK(item)
    BY <1>1, <1>6, <2>2 DEF Range
  <2>4. N(i + 1) = N(i) \cup ItemNames(ex, item)
    <3>1. 1..(i + 1) = 1..i \cup {i + 1}
      BY <1>6
    <3> QED BY <2>2, <3>1
  <2>5. PICK M : M = N(i)
    OBVIOUS
  <2>6. PICK V \in SUBSET M : Step(st, sc, a, m, V) /\ a.insts = sc.insts /\ (a.errors = {} => V = M)
    BY <1>6, <2>2, <2>5
  <2>7. PICK r : r = importItem(st, a, ex, item, m)
    OBVIOUS
  <2>8. ItemStep(st, a, r, ex, item, m)
    <3>1. IsScope(a)
      BY <2>6 DEF Step
    <3> QED BY <2>3, <2>7, <3>1, ImportItemStep
  <2>9. PICK W \in SUBSET ItemNames(ex, item) : Step(st, a, r, m, W) /\ r.insts = a.insts /\ (r.errors = {} => W = ItemNames(ex, item))
    BY <2>8 DEF ItemStep
  <2>10. Step(st, sc, r, m, V \cup W)
    BY <2>6, <2>9, StepTrans
  <2>11. r.errors = {} => a.errors = {}
    BY <2>9 DEF Step, Named
  <2>12. V \cup W \in SUBSET N(i + 1) /\ (r.errors = {} => V \cup W = N(i + 1))
    <3> HIDE DEF N
    <3> QED BY <2>4, <2>5, <2>6, <2>9, <2>11
  <2>13. f[i + 1] = r
    BY <2>1, <2>2, <2>7
  <2> HIDE DEF N
  <2> QED BY <2>6, <2>9, <2>10, <2>12, <2>13
<1>7. Nat \subseteq S
  <2>1. 0 \in S
    BY <1>5
  <2>2. \A n \in Nat : n \in S => n + 1 \in S
    <3> HIDE DEF Q
    <3> QED BY <1>1, <1>6
  <2> HIDE DEF S
  <2> QED BY <2>1, <2>2, NumbersFromZero
<1>8. Q(Len(items))
  <2> HIDE DEF Q
  <2> QED BY <1>1, <1>7
<1>9. N(Len(items)) = ItemsNames(ex, items)
  BY <1>1 DEF Range, ItemsNames
<1> HIDE DEF N
<1>10. ItemsStep(st, sc, f[Len(items)], m, N(Len(items)))
  BY <1>8 DEF ItemsStep
<1> QED BY <1>4, <1>9, <1>10

\* A selective import brings what its items name.
LEMMA SelectiveImported ==
  ASSUME NEW st, NEW sc, IsScope(sc), NEW d, NEW ex, ex = Exports(st, d.mod), ExportOK(ex), d.alias = 0, d.names # <<>>,
         IsSequence(d.names[1]), \A item \in Range(d.names[1]) : ItemOK(item)
  PROVE  Imported(st, sc, importSelective(st, sc, ex, d.names[1], d.mod), d)
<1>1. PICK m, items : m = d.mod /\ items = d.names[1]
  OBVIOUS
<1>2. PICK a : a = importInstances(sc, ex)
  OBVIOUS
<1>3. PICK r : r = importItems(st, a, ex, items, m)
  OBVIOUS
<1>4. r = importSelective(st, sc, ex, d.names[1], d.mod)
  BY <1>1, <1>2, <1>3 DEF importSelective
<1>5. Step(st, sc, a, m, {}) /\ a.insts = sc.insts \cup ex.insts
  BY <1>1, <1>2, InstancesStep
<1>6. PICK N : N = ItemsNames(ex, items)
  OBVIOUS
<1>7. PICK V \in SUBSET N : Step(st, a, r, m, V) /\ r.insts = a.insts /\ (r.errors = {} => V = N)
  <2>1. IsScope(a) /\ IsSequence(items) /\ \A item \in Range(items) : ItemOK(item)
    BY <1>1, <1>5 DEF Step
  <2>2. ex = Exports(st, m)
    BY <1>1
  <2>3. ItemsStep(st, a, importItems(st, a, ex, items, m), m, ItemsNames(ex, items))
    BY <2>1, <2>2, ImportItemsStep
  <2> QED BY <1>3, <1>6, <2>3 DEF ItemsStep
<1>8. N = Brought(ex, d)
  <2>1. ItemsOf(d) = Range(items) /\ ~Whole(d)
    BY <1>1 DEF ItemsOf, Whole
  <2>2. \A x : BringsOf(ex, d, x) <=> x \in ex.values \cup DOMAIN ex.cons /\ \E item \in Range(items) : ItemBrings(ex, item, x)
    BY <2>1 DEF BringsOf
  <2>3. \A x : x \in N <=> \E item \in Range(items) : x \in ex.values \cup DOMAIN ex.cons /\ ItemBrings(ex, item, x)
    BY <1>6 DEF ItemNames, ItemsNames
  <2> QED BY <2>2, <2>3 DEF Brought
<1>9. Step(st, sc, r, m, V)
  <2>1. Step(st, sc, r, m, {} \cup V)
    BY <1>5, <1>7, StepTrans
  <2>2. {} \cup V = V
    OBVIOUS
  <2> QED BY ONLY <2>1, <2>2
<1>10. ~Whole(d)
  BY DEF Whole
<1>11. /\ V \in SUBSET Brought(ex, d) /\ Step(st, sc, r, d.mod, V)
       /\ r.errors = {} => V = Brought(ex, d) /\ r.insts = sc.insts \cup ex.insts
  BY <1>1, <1>5, <1>7, <1>8, <1>9
<1> QED BY <1>4, <1>10, <1>11 DEF Imported

-----------------------------------------------------------------------------
(* One import, and the imports of a module.                                *)

DeclOK(d) == d.names # <<>> => IsSequence(d.names[1]) /\ \A item \in Range(d.names[1]) : ItemOK(item)

Refused(sc, r) ==
  /\ IsScope(r) /\ r.errors # {} /\ sc.errors \subseteq r.errors /\ \A e \in r.errors \ sc.errors : e[1] # "ns"
  /\ \A g \in Fields : g # "errors" => r[g] = sc[g]

\* An error refuses an import.
LEMMA ErringRefused ==
  ASSUME NEW sc, IsScope(sc), NEW kind, kind # "ns", NEW x
  PROVE  Refused(sc, Erring(sc, kind, x))
<1>1. PICK r : r = Erring(sc, kind, x)
  OBVIOUS
<1>2. IsScope(r) /\ r.errors = sc.errors \cup {<<kind, x>>} /\ \A g \in Fields : g # "errors" => r[g] = sc[g]
  BY <1>1, ErringFields
<1>3. \A e \in r.errors \ sc.errors : e[1] = kind
  BY <1>2
<1>4. r.errors # {} /\ sc.errors \subseteq r.errors
  BY <1>2
<1> QED BY <1>1, <1>2, <1>3, <1>4 DEF Refused

\* An import is refused, or it brings what it names.
LEMMA ImportDeclExact ==
  ASSUME NEW st, \A m \in DOMAIN st : ExportOK(Exports(st, m)), NEW sc, IsScope(sc), NEW seen, NEW d, DeclOK(d)
  PROVE  LET r == importDecl(st, sc, seen, d)
         IN  IF ~CoreMisused(d) /\ d.mod \in DOMAIN st \ seen THEN Imported(st, sc, r, d) ELSE Refused(sc, r)
<1>1. PICK r : r = importDecl(st, sc, seen, d)
  OBVIOUS
<1>2. CASE ~(~CoreMisused(d) /\ d.mod \in DOMAIN st \ seen)
  <2>1. \E kind \in {"core", "duplicate", "unknown"} : r = Erring(sc, kind, d.mod)
    BY <1>1, <1>2 DEF importDecl
  <2>2. Refused(sc, r)
    BY <2>1, ErringRefused
  <2> QED BY <1>1, <1>2, <2>2
<1>3. CASE ~CoreMisused(d) /\ d.mod \in DOMAIN st \ seen
  <2>1. PICK ex : ex = Exports(st, d.mod)
    OBVIOUS
  <2>2. ExportOK(ex)
    BY <1>3, <2>1
  <2>3. CASE d.alias # 0 /\ d.alias \in DOMAIN sc.scopes
    <3>1. r = Erring(sc, "alias", d.alias)
      BY <1>1, <1>3, <2>3 DEF importDecl
    <3>2. Step(st, sc, r, d.mod, {}) /\ r.errors # {}
      BY <3>1, ErringStep
    <3>3. ~Whole(d)
      BY <2>3 DEF Whole
    <3>4. Imported(st, sc, r, d)
      BY <3>2, <3>3 DEF Imported
    <3> QED BY <1>1, <1>3, <3>4
  <2>4. CASE d.alias # 0 /\ d.alias \notin DOMAIN sc.scopes
    <3>1. r = importQualified(st, sc, ex, d.alias, d.mod)
      BY <1>1, <1>3, <2>1, <2>4 DEF importDecl
    <3>2. Imported(st, sc, r, d)
      BY <2>1, <2>2, <2>4, <3>1, QualifiedImported
    <3> QED BY <1>1, <1>3, <3>2
  <2>5. CASE d.alias = 0 /\ d.names # <<>>
    <3>1. r = importSelective(st, sc, ex, d.names[1], d.mod)
      BY <1>1, <1>3, <2>1, <2>5 DEF importDecl
    <3>2. Imported(st, sc, r, d)
      BY <2>1, <2>2, <2>5, <3>1, SelectiveImported DEF DeclOK
    <3> QED BY <1>1, <1>3, <3>2
  <2>6. CASE d.alias = 0 /\ d.names = <<>>
    <3>1. r = importOpen(st, sc, ex, d.mod)
      BY <1>1, <1>3, <2>1, <2>6 DEF importDecl
    <3>2. Imported(st, sc, r, d)
      BY <2>1, <2>2, <2>6, <3>1, OpenImported DEF Whole
    <3> QED BY <1>1, <1>3, <3>2
  <2> QED BY <2>3, <2>4, <2>5, <2>6
<1> QED BY <1>2, <1>3

\* The imports accepted among the first i, and the modules that bring a name.
AcceptedBy(st, imports, i) == {k \in Accepted(st, imports) : k <= i}
ExportsOf(st, imports, k) == Exports(st, imports[k].mod)
BringersBy(st, imports, i, x) == {imports[k].mod : k \in {j \in AcceptedBy(st, imports, i) : x \in Brought(ExportsOf(st, imports, j), imports[j])}}
InstancesBy(st, imports, i) == UNION {ExportsOf(st, imports, k).insts : k \in AcceptedBy(st, imports, i)}

\* The names of values after the first i imports.
NameStage(st, imports, i, sc) ==
  /\ \A x \in DOMAIN sc.vals : sc.vals[x] \in BringersBy(st, imports, i, x)
  /\ \A x \in DOMAIN sc.ns : sc.ns[x] \in BringersBy(st, imports, i, x)
  /\ \A e \in sc.errors : e[1] = "ns" => \E m1, m2 \in BringersBy(st, imports, i, e[2]) : m1 # m2
  /\ sc.errors = {} => \A x : BringersBy(st, imports, i, x) # {} => x \in DOMAIN sc.vals /\ (x \notin Private => x \in DOMAIN sc.ns)
  /\ sc.errors = {} => \A x : x \notin Private => \A m1, m2 \in BringersBy(st, imports, i, x) :
       m1 # m2 => \E m \in BringersBy(st, imports, i, x) : ~Owns(st, "ns", m, x)

\* Its tables.
TableStage(st, imports, i, sc) ==
  /\ sc.errors = {} => 1..i \subseteq Accepted(st, imports)
  /\ \A k \in AcceptedBy(st, imports, i) : Whole(imports[k]) =>
       \A c \in DOMAIN ExportsOf(st, imports, k).classes : \A x \in ExportsOf(st, imports, k).classes[c] :
         x \in DOMAIN sc.vals /\ sc.vals[x] = imports[k].mod => c \in DOMAIN sc.classes
  /\ sc.insts \subseteq InstancesBy(st, imports, i) /\ (sc.errors = {} => InstancesBy(st, imports, i) \subseteq sc.insts)
  /\ \A x \in DOMAIN sc.aliases : \E m \in DOMAIN st : x \in Exports(st, m).aliases
  /\ \A c \in DOMAIN sc.classes : \E m \in DOMAIN st : c \in DOMAIN Exports(st, m).classes
  /\ \A c \in DOMAIN sc.conInfo : \E k \in AcceptedBy(st, imports, i) :
       c \in DOMAIN ExportsOf(st, imports, k).cons /\ sc.conInfo[c] = ExportsOf(st, imports, k).cons[c]

\* Its families, and those of the modules imported.
AgreeOn(ex1, ex2) == \A x \in DOMAIN ex1.families \cap DOMAIN ex2.families : Agree(ex1.families[x].eqs, ex2.families[x].eqs)

FamilyStage(st, imports, i, sc) ==
  /\ AreFamilies(sc.families)
  /\ sc.errors = {} => \A k \in AcceptedBy(st, imports, i) : imports[k].names = <<>> =>
       \A x \in DOMAIN ExportsOf(st, imports, k).families : Holds(sc.families, x, ExportsOf(st, imports, k).families[x])
  /\ sc.errors = {} => \A k, l \in AcceptedBy(st, imports, i) :
       k # l /\ imports[k].names = <<>> /\ imports[l].names = <<>> => AgreeOn(ExportsOf(st, imports, k), ExportsOf(st, imports, l))

Stage(st, imports, i, sc) ==
  IsScope(sc) /\ NameStage(st, imports, i, sc) /\ TableStage(st, imports, i, sc) /\ FamilyStage(st, imports, i, sc)

\* A refused import changes none of this.
LEMMA RefusedKeepsStage ==
  ASSUME NEW st, NEW imports, NEW i \in Nat, NEW sc, NEW r, Stage(st, imports, i, sc), Refused(sc, r), i + 1 \notin Accepted(st, imports),
         Accepted(st, imports) \subseteq Nat \ {0}
  PROVE  Stage(st, imports, i + 1, r)
<1>1. AcceptedBy(st, imports, i + 1) = AcceptedBy(st, imports, i)
  BY DEF AcceptedBy
<1>2. \A x : BringersBy(st, imports, i + 1, x) = BringersBy(st, imports, i, x)
  BY <1>1 DEF BringersBy
<1>3. InstancesBy(st, imports, i + 1) = InstancesBy(st, imports, i)
  BY <1>1 DEF InstancesBy
<1>4. \A g \in {"ns", "vals", "families", "aliases", "classes", "conInfo", "insts"} : r[g] = sc[g]
  BY DEF Refused, Fields
<1>5. r.errors # {} /\ \A e \in r.errors : e[1] = "ns" => e \in sc.errors
  BY DEF Refused
<1>6. NameStage(st, imports, i + 1, r)
  BY <1>2, <1>4, <1>5 DEF NameStage, Stage
<1>7. TableStage(st, imports, i + 1, r)
  BY <1>1, <1>3, <1>4, <1>5 DEF TableStage, Stage
<1>8. FamilyStage(st, imports, i + 1, r)
  BY <1>1, <1>3, <1>4, <1>5 DEF FamilyStage, Stage
<1> QED BY <1>6, <1>7, <1>8 DEF Stage, Refused

\* The names that an accepted import adds are its own.
LEMMA NextBringers ==
  ASSUME NEW st, NEW imports, NEW i \in Nat, i + 1 \in Accepted(st, imports), Accepted(st, imports) \subseteq Nat \ {0},
         NEW m, m = imports[i + 1].mod, NEW x
  PROVE  /\ AcceptedBy(st, imports, i + 1) = AcceptedBy(st, imports, i) \cup {i + 1}
         /\ \A k \in AcceptedBy(st, imports, i) : imports[k].mod # m
         /\ m \notin BringersBy(st, imports, i, x)
         /\ BringersBy(st, imports, i + 1, x) =
              BringersBy(st, imports, i, x) \cup (IF x \in Brought(Exports(st, m), imports[i + 1]) THEN {m} ELSE {})
<1>1. AcceptedBy(st, imports, i + 1) = AcceptedBy(st, imports, i) \cup {i + 1}
  BY DEF AcceptedBy
<1>2. ASSUME NEW k \in AcceptedBy(st, imports, i) PROVE imports[k].mod # m
  <2>1. k \in Accepted(st, imports) /\ k <= i /\ k \in Nat
    BY <1>2 DEF AcceptedBy
  <2>2. k # 0
    BY <2>1
  <2>3. imports[k].mod \in Seen(imports, i + 1)
    BY <2>1, <2>2 DEF Accepted, Seen
  <2> QED BY <2>3 DEF Accepted
<1>3. m \notin BringersBy(st, imports, i, x)
  BY <1>2 DEF BringersBy
<1>4. BringersBy(st, imports, i + 1, x) = BringersBy(st, imports, i, x) \cup (IF x \in Brought(Exports(st, m), imports[i + 1]) THEN {m} ELSE {})
  BY <1>1 DEF BringersBy, ExportsOf
<1> QED BY <1>1, <1>2, <1>3, <1>4

\* An accepted import adds the names it brings.
LEMMA ImportedKeepsNames ==
  ASSUME NEW st, NEW imports, NEW i \in Nat, NEW sc, NEW r, Stage(st, imports, i, sc), i + 1 \in Accepted(st, imports),
         Accepted(st, imports) \subseteq Nat \ {0}, Imported(st, sc, r, imports[i + 1])
  PROVE  NameStage(st, imports, i + 1, r)
<1>1. PICK d, m, ex : d = imports[i + 1] /\ m = d.mod /\ ex = Exports(st, m)
  OBVIOUS
<1>2. PICK N : N = Brought(ex, d)
  OBVIOUS
<1>3. PICK V \in SUBSET N : Step(st, sc, r, m, V) /\ (r.errors = {} => V = N)
  BY <1>1, <1>2 DEF Imported
<1>4. Named(st, sc, r, m, V)
  BY <1>3 DEF Step
<1> DEFINE B(x) == BringersBy(st, imports, i, x)
           C(x) == BringersBy(st, imports, i + 1, x)
<1>5. \A x : m \notin B(x) /\ C(x) = B(x) \cup (IF x \in N THEN {m} ELSE {})
  BY <1>1, <1>2, NextBringers
<1>6. /\ \A x \in DOMAIN sc.vals : sc.vals[x] \in B(x)
      /\ \A x \in DOMAIN sc.ns : sc.ns[x] \in B(x)
      /\ \A e \in sc.errors : e[1] = "ns" => \E m1, m2 \in B(e[2]) : m1 # m2
      /\ sc.errors = {} => \A x : B(x) # {} => x \in DOMAIN sc.vals /\ (x \notin Private => x \in DOMAIN sc.ns)
      /\ sc.errors = {} => \A x : x \notin Private => \A m1, m2 \in B(x) : m1 # m2 => \E n \in B(x) : ~Owns(st, "ns", n, x)
  BY DEF Stage, NameStage
<1> HIDE DEF B, C
<1>7. \A x \in DOMAIN r.vals : r.vals[x] \in C(x)
  BY <1>3, <1>4, <1>5, <1>6 DEF Named
<1>8. \A x \in DOMAIN r.ns : r.ns[x] \in C(x)
  BY <1>3, <1>4, <1>5, <1>6 DEF Named
<1>9. ASSUME NEW e \in r.errors, e[1] = "ns" PROVE \E m1, m2 \in C(e[2]) : m1 # m2
  <2>1. CASE e \in sc.errors
    BY <1>5, <1>6, <1>9, <2>1
  <2>2. CASE e \notin sc.errors
    <3>1. e[2] \in V /\ e[2] \in DOMAIN sc.ns /\ sc.ns[e[2]] # m
      BY <1>4, <1>9, <2>2 DEF Named
    <3>2. sc.ns[e[2]] \in C(e[2]) /\ m \in C(e[2])
      BY <1>3, <1>5, <1>6, <3>1
    <3> QED BY <3>1, <3>2
  <2> QED BY <2>1, <2>2
<1>10. r.errors = {} => sc.errors = {} /\ V = N
  BY <1>3, <1>4 DEF Named
<1>11. ASSUME r.errors = {}, NEW x, C(x) # {} PROVE x \in DOMAIN r.vals /\ (x \notin Private => x \in DOMAIN r.ns)
  <2>1. CASE x \in N
    BY <1>4, <1>10, <1>11, <2>1 DEF Named
  <2>2. CASE x \notin N
    <3>1. B(x) # {}
      BY <1>5, <1>11, <2>2
    <3> QED BY <1>4, <1>6, <1>10, <1>11, <3>1 DEF Named
  <2> QED BY <2>1, <2>2
<1>12. ASSUME r.errors = {}, NEW x, x \notin Private, NEW m1 \in C(x), NEW m2 \in C(x), m1 # m2
       PROVE  \E n \in C(x) : ~Owns(st, "ns", n, x)
  <2>1. CASE m1 \in B(x) /\ m2 \in B(x)
    BY <1>5, <1>6, <1>10, <1>12, <2>1
  <2>2. CASE ~(m1 \in B(x) /\ m2 \in B(x))
    <3>1. x \in N /\ B(x) # {} /\ m \in C(x)
      BY <1>5, <1>12, <2>2
    <3>2. x \in DOMAIN sc.ns /\ sc.ns[x] \in B(x) /\ sc.ns[x] # m
      BY <1>5, <1>6, <1>10, <1>12, <3>1
    <3>3. ~(Owns(st, "ns", sc.ns[x], x) /\ Owns(st, "ns", m, x))
      BY <1>4, <1>10, <1>12, <3>1, <3>2 DEF Named
    <3> QED BY <1>5, <3>1, <3>2, <3>3
  <2> QED BY <2>1, <2>2
<1> QED BY <1>7, <1>8, <1>9, <1>11, <1>12 DEF NameStage, C

\* An accepted import adds instances, classes, aliases and constructors.
LEMMA ImportedKeepsTables ==
  ASSUME NEW st, NEW imports, NEW i \in Nat, NEW sc, NEW r, Stage(st, imports, i, sc), i + 1 \in Accepted(st, imports),
         Accepted(st, imports) \subseteq Nat \ {0}, Imported(st, sc, r, imports[i + 1])
  PROVE  TableStage(st, imports, i + 1, r)
<1>1. PICK d, m, ex : d = imports[i + 1] /\ m = d.mod /\ ex = Exports(st, m)
  OBVIOUS
<1>2. PICK V : /\ Step(st, sc, r, m, V) /\ (r.errors = {} => r.insts = sc.insts \cup ex.insts)
               /\ Whole(d) => \A c \in DOMAIN ex.classes : c \in DOMAIN r.classes \/ V \cap ex.classes[c] = {}
  BY <1>1 DEF Imported
<1>3. Named(st, sc, r, m, V) /\ Tabled(sc, r, ex)
  BY <1>1, <1>2 DEF Step
<1>4. AcceptedBy(st, imports, i + 1) = AcceptedBy(st, imports, i) \cup {i + 1} /\ \A k \in AcceptedBy(st, imports, i) : imports[k].mod # m
  BY <1>1, NextBringers
<1>5. m \in DOMAIN st
  BY <1>1 DEF Accepted
<1>6. r.errors = {} => sc.errors = {}
  BY <1>3 DEF Named
<1>7. r.errors = {} => 1..(i + 1) \subseteq Accepted(st, imports)
  <2>1. 1..(i + 1) = 1..i \cup {i + 1}
    OBVIOUS
  <2> QED BY <1>6, <2>1 DEF Stage, TableStage
<1>8. ASSUME NEW k \in AcceptedBy(st, imports, i + 1), Whole(imports[k]), NEW c \in DOMAIN ExportsOf(st, imports, k).classes,
             NEW x \in ExportsOf(st, imports, k).classes[c], x \in DOMAIN r.vals, r.vals[x] = imports[k].mod
      PROVE  c \in DOMAIN r.classes
  <2>1. CASE k \in AcceptedBy(st, imports, i)
    <3>1. imports[k].mod # m
      BY <1>4, <2>1
    <3>2. x \in DOMAIN sc.vals /\ sc.vals[x] = imports[k].mod
      BY <1>3, <1>8, <3>1 DEF Named
    <3>3. c \in DOMAIN sc.classes
      BY <1>8, <2>1, <3>2 DEF Stage, TableStage
    <3> QED BY <1>3, <3>3 DEF Tabled
  <2>2. CASE k = i + 1
    <3>1. ~(x \in DOMAIN sc.vals /\ sc.vals[x] = m)
      <4>1. m \notin BringersBy(st, imports, i, x)
        BY <1>1, NextBringers
      <4> QED BY <4>1 DEF Stage, NameStage
    <3>2. x \in V
      BY <1>1, <1>3, <1>8, <2>2, <3>1 DEF Named
    <3>3. c \in DOMAIN ex.classes /\ x \in ex.classes[c] /\ Whole(d)
      BY <1>1, <1>8, <2>2 DEF ExportsOf
    <3> QED BY <1>2, <3>2, <3>3
  <2> QED BY <1>4, <2>1, <2>2
<1>9. InstancesBy(st, imports, i + 1) = InstancesBy(st, imports, i) \cup ex.insts
  BY <1>1, <1>4 DEF InstancesBy, ExportsOf
<1>10. r.insts \subseteq InstancesBy(st, imports, i + 1) /\ (r.errors = {} => InstancesBy(st, imports, i + 1) \subseteq r.insts)
  BY <1>2, <1>3, <1>6, <1>9 DEF Stage, TableStage, Tabled
<1>11. \A x \in DOMAIN r.aliases : \E n \in DOMAIN st : x \in Exports(st, n).aliases
  BY <1>1, <1>3, <1>5 DEF Stage, TableStage, Tabled
<1>12. \A c \in DOMAIN r.classes : \E n \in DOMAIN st : c \in DOMAIN Exports(st, n).classes
  BY <1>1, <1>3, <1>5 DEF Stage, TableStage, Tabled
<1>13. ASSUME NEW c \in DOMAIN r.conInfo
       PROVE  \E k \in AcceptedBy(st, imports, i + 1) : c \in DOMAIN ExportsOf(st, imports, k).cons /\ r.conInfo[c] = ExportsOf(st, imports, k).cons[c]
  <2>1. CASE c \in DOMAIN sc.conInfo /\ r.conInfo[c] = sc.conInfo[c]
    BY <1>4, <2>1 DEF Stage, TableStage
  <2>2. CASE c \in DOMAIN ex.cons /\ r.conInfo[c] = ex.cons[c]
    BY <1>1, <1>4, <2>2 DEF ExportsOf
  <2> QED BY <1>3, <1>13, <2>1, <2>2 DEF Tabled
<1> QED BY <1>7, <1>8, <1>10, <1>11, <1>12, <1>13 DEF TableStage

\* An accepted import adds equations.
LEMMA ImportedKeepsFamilies ==
  ASSUME NEW st, NEW imports, NEW i \in Nat, NEW sc, NEW r, Stage(st, imports, i, sc), i + 1 \in Accepted(st, imports),
         Accepted(st, imports) \subseteq Nat \ {0}, Imported(st, sc, r, imports[i + 1])
  PROVE  FamilyStage(st, imports, i + 1, r)
<1>1. PICK d, m, ex : d = imports[i + 1] /\ m = d.mod /\ ex = Exports(st, m)
  OBVIOUS
<1>2. PICK V : /\ Step(st, sc, r, m, V)
               /\ r.errors = {} /\ d.names = <<>> /\ AreFamilies(sc.families) =>
                    \A x \in DOMAIN ex.families : Joined(sc.families, r.families, x, ex.families[x])
  BY <1>1 DEF Imported
<1>3. Named(st, sc, r, m, V) /\ Familied(sc, r)
  BY <1>1, <1>2 DEF Step
<1>4. AcceptedBy(st, imports, i + 1) = AcceptedBy(st, imports, i) \cup {i + 1}
  BY <1>1, NextBringers, ZenonT(60)
<1>5. AreFamilies(sc.families)
  BY DEF Stage, FamilyStage
<1>6. AreFamilies(r.families) /\ \A x \in DOMAIN sc.families : Holds(r.families, x, sc.families[x])
  BY <1>3, <1>5 DEF Familied
<1>7. r.errors = {} => sc.errors = {}
  BY <1>3 DEF Named
<1>8. ASSUME r.errors = {}, NEW k \in AcceptedBy(st, imports, i), imports[k].names = <<>>, NEW x \in DOMAIN ExportsOf(st, imports, k).families
      PROVE  Holds(sc.families, x, ExportsOf(st, imports, k).families[x])
  BY <1>7, <1>8 DEF Stage, FamilyStage
<1>9. ASSUME r.errors = {}, d.names = <<>>, NEW x \in DOMAIN ex.families PROVE Joined(sc.families, r.families, x, ex.families[x])
  BY <1>2, <1>5, <1>9
<1>10. ExportsOf(st, imports, i + 1) = ex /\ imports[i + 1].names = d.names
  BY <1>1 DEF ExportsOf
<1>11. ASSUME r.errors = {}, NEW k \in AcceptedBy(st, imports, i + 1), imports[k].names = <<>>, NEW x \in DOMAIN ExportsOf(st, imports, k).families
       PROVE  Holds(r.families, x, ExportsOf(st, imports, k).families[x])
  <2>1. CASE k \in AcceptedBy(st, imports, i)
    <3>1. Holds(sc.families, x, ExportsOf(st, imports, k).families[x])
      BY <1>8, <1>11, <2>1
    <3> QED BY <1>6, <3>1 DEF Holds
  <2>2. CASE k = i + 1
    BY <1>9, <1>10, <1>11, <2>2 DEF Joined
  <2> QED BY <1>4, <2>1, <2>2
<1>12. ASSUME r.errors = {}, d.names = <<>>, NEW k \in AcceptedBy(st, imports, i), imports[k].names = <<>>
       PROVE  AgreeOn(ExportsOf(st, imports, k), ex) /\ AgreeOn(ex, ExportsOf(st, imports, k))
  <2>1. ASSUME NEW x \in DOMAIN ExportsOf(st, imports, k).families, x \in DOMAIN ex.families
        PROVE  \A e1 \in Range(ExportsOf(st, imports, k).families[x].eqs) : \A e2 \in Range(ex.families[x].eqs) : e1.pat = e2.pat => e1 = e2
    <3>1. Holds(sc.families, x, ExportsOf(st, imports, k).families[x])
      BY <1>8, <1>12
    <3>2. Joined(sc.families, r.families, x, ex.families[x])
      BY <1>9, <1>12, <2>1
    <3> QED BY <3>1, <3>2 DEF Holds, Joined, Agree
  <2> QED BY <2>1 DEF AgreeOn, Agree
<1>13. ASSUME r.errors = {}, NEW k \in AcceptedBy(st, imports, i + 1), NEW l \in AcceptedBy(st, imports, i + 1),
              k # l, imports[k].names = <<>>, imports[l].names = <<>>
       PROVE  AgreeOn(ExportsOf(st, imports, k), ExportsOf(st, imports, l))
  <2>1. CASE k = i + 1
    BY <1>4, <1>10, <1>12, <1>13, <2>1
  <2>2. CASE l = i + 1
    BY <1>4, <1>10, <1>12, <1>13, <2>2
  <2>3. CASE k # i + 1 /\ l # i + 1
    BY <1>4, <1>7, <1>13, <2>3 DEF Stage, FamilyStage
  <2> QED BY <2>1, <2>2, <2>3
<1> QED BY <1>6, <1>11, <1>13 DEF FamilyStage

ImportsOK(imports) == IsSequence(imports) /\ \A d \in Range(imports) : DeclOK(d)

IsImporting(f, st, imports) ==
  f = [i \in 0..Len(imports) |-> IF i = 0 THEN EmptyScope ELSE importDecl(st, f[i - 1], Seen(imports, i), imports[i])]

\* The recursive function of Import exists.
LEMMA ImportingExists ==
  ASSUME NEW st, NEW imports, Len(imports) \in Nat
  PROVE  \E f : IsImporting(f, st, imports)
<1> DEFINE P(n) == \E f : f = [i \in 0..n |-> IF i = 0 THEN EmptyScope ELSE importDecl(st, f[i - 1], Seen(imports, i), imports[i])]
           S == {n \in Nat : P(n)}
<1>1. P(0)
  <2> DEFINE g == [i \in 0..0 |-> EmptyScope]
  <2>1. g = [i \in 0..0 |-> IF i = 0 THEN EmptyScope ELSE importDecl(st, g[i - 1], Seen(imports, i), imports[i])]
    OBVIOUS
  <2> QED BY <2>1
<1>2. ASSUME NEW n \in Nat, P(n) PROVE P(n + 1)
  <2>1. PICK f : f = [i \in 0..n |-> IF i = 0 THEN EmptyScope ELSE importDecl(st, f[i - 1], Seen(imports, i), imports[i])]
    BY <1>2
  <2> DEFINE g == [i \in 0..(n + 1) |-> IF i = n + 1 THEN importDecl(st, f[n], Seen(imports, n + 1), imports[n + 1]) ELSE f[i]]
  <2>2. ASSUME NEW i \in 0..(n + 1) PROVE g[i] = IF i = 0 THEN EmptyScope ELSE importDecl(st, g[i - 1], Seen(imports, i), imports[i])
    <3>1. CASE i = 0
      BY <2>1, <3>1
    <3>2. CASE i \in 1..n
      <4>1. g[i] = f[i] /\ g[i - 1] = f[i - 1] /\ i \in 0..n /\ i # 0
        BY <3>2
      <4> HIDE DEF g
      <4> QED BY <2>1, <4>1
    <3>3. CASE i = n + 1
      <4>1. g[i] = importDecl(st, f[n], Seen(imports, n + 1), imports[n + 1]) /\ g[i - 1] = f[n] /\ i # 0 /\ n + 1 - 1 = n
        BY <3>3
      <4> HIDE DEF g
      <4> QED BY <3>3, <4>1
    <3> QED BY <3>1, <3>2, <3>3
  <2>3. g = [i \in 0..(n + 1) |-> g[i]]
    OBVIOUS
  <2>4. g = [i \in 0..(n + 1) |-> IF i = 0 THEN EmptyScope ELSE importDecl(st, g[i - 1], Seen(imports, i), imports[i])]
    <3> HIDE DEF g
    <3> QED BY <2>2, <2>3
  <2> QED BY <2>4
<1>3. Nat \subseteq S
  <2>1. 0 \in S /\ \A n \in Nat : n \in S => n + 1 \in S
    <3> HIDE DEF P
    <3> QED BY <1>1, <1>2
  <2> HIDE DEF S
  <2> QED BY <2>1, NumbersFromZero
<1> QED BY <1>3 DEF IsImporting

\* Nothing is imported before the first import.
LEMMA EmptyStage ==
  ASSUME NEW st, NEW imports, Accepted(st, imports) \subseteq Nat \ {0}
  PROVE  Stage(st, imports, 0, EmptyScope)
<1>1. PICK sc : sc = EmptyScope
  OBVIOUS
<1>2. IsScope(sc) /\ sc.insts = {} /\ sc.errors = {} /\ \A f \in {"vals", "ns", "aliases", "classes", "conInfo", "families"} : DOMAIN sc[f] = {}
  BY <1>1, EmptyIsScope DEF Fields
<1>3. AcceptedBy(st, imports, 0) = {}
  BY DEF AcceptedBy
<1>4. \A x : BringersBy(st, imports, 0, x) = {}
  BY <1>3 DEF BringersBy
<1>5. InstancesBy(st, imports, 0) = {}
  BY <1>3 DEF InstancesBy
<1>6. NameStage(st, imports, 0, sc)
  BY <1>2, <1>4 DEF NameStage
<1>7. TableStage(st, imports, 0, sc)
  BY <1>2, <1>3, <1>5 DEF TableStage
<1>8. FamilyStage(st, imports, 0, sc)
  BY <1>2, <1>3 DEF FamilyStage, AreFamilies
<1> QED BY <1>1, <1>2, <1>6, <1>7, <1>8 DEF Stage

\* What the imports of a module make of the scope.
LEMMA ImportExact ==
  ASSUME NEW st, \A m \in DOMAIN st : ExportOK(Exports(st, m)), NEW imports, ImportsOK(imports)
  PROVE  Stage(st, imports, Len(imports), Import(st, imports))
<1>1. Len(imports) \in Nat /\ DOMAIN imports = 1..Len(imports)
  BY DEF ImportsOK, IsSequence
<1>2. PICK f : f = CHOOSE g : IsImporting(g, st, imports)
  OBVIOUS
<1>3. IsImporting(f, st, imports)
  BY <1>1, <1>2, ImportingExists
<1>4. Import(st, imports) = f[Len(imports)]
  BY <1>2 DEF Import, IsImporting
<1>5. Accepted(st, imports) \subseteq Nat \ {0} /\ Accepted(st, imports) \subseteq DOMAIN imports
  BY <1>1 DEF Accepted
<1> DEFINE Q(i) == Stage(st, imports, i, f[i])
           S == {i \in Nat : i <= Len(imports) => Q(i)}
<1>6. Q(0)
  <2>1. f[0] = EmptyScope
    BY <1>1, <1>3 DEF IsImporting
  <2> QED BY <1>5, <2>1, EmptyStage
<1>7. ASSUME NEW i \in Nat, i + 1 <= Len(imports), Q(i) PROVE Q(i + 1)
  <2>1. f[i + 1] = importDecl(st, f[i], Seen(imports, i + 1), imports[i + 1])
    <3>1. i + 1 \in 0..Len(imports) /\ i + 1 # 0 /\ i + 1 - 1 = i
      BY <1>1, <1>7
    <3>2. \A j \in 0..Len(imports) : f[j] = IF j = 0 THEN EmptyScope ELSE importDecl(st, f[j - 1], Seen(imports, j), imports[j])
      BY <1>3 DEF IsImporting
    <3>3. f[i + 1] = importDecl(st, f[i + 1 - 1], Seen(imports, i + 1), imports[i + 1])
      BY <3>1, <3>2
    <3> QED BY <3>1, <3>3
  <2>2. PICK sc, d, seen : sc = f[i] /\ d = imports[i + 1] /\ seen = Seen(imports, i + 1)
    OBVIOUS
  <2>3. PICK r : r = importDecl(st, sc, seen, d)
    OBVIOUS
  <2>4. i + 1 \in DOMAIN imports /\ DeclOK(d)
    BY <1>1, <1>7, <2>2 DEF ImportsOK, Range
  <2>5. Stage(st, imports, i, sc) /\ IsScope(sc)
    BY <1>7, <2>2 DEF Stage
  <2>6. IF ~CoreMisused(d) /\ d.mod \in DOMAIN st \ seen THEN Imported(st, sc, r, d) ELSE Refused(sc, r)
    BY <2>3, <2>4, <2>5, ImportDeclExact
  <2>7. i + 1 \in Accepted(st, imports) <=> ~CoreMisused(d) /\ d.mod \in DOMAIN st \ seen
    BY <2>2, <2>4 DEF Accepted
  <2>8. Stage(st, imports, i + 1, r)
    <3>1. CASE i + 1 \in Accepted(st, imports)
      <4>1. Imported(st, sc, r, imports[i + 1])
        BY <2>2, <2>6, <2>7, <3>1
      <4>2. NameStage(st, imports, i + 1, r) /\ TableStage(st, imports, i + 1, r) /\ FamilyStage(st, imports, i + 1, r)
        BY <1>5, <2>5, <3>1, <4>1, ImportedKeepsNames, ImportedKeepsTables, ImportedKeepsFamilies
      <4>3. IsScope(r)
        BY <4>1 DEF Imported, Step
      <4> QED BY <4>2, <4>3 DEF Stage
    <3>2. CASE i + 1 \notin Accepted(st, imports)
      <4>1. Refused(sc, r)
        BY <2>6, <2>7, <3>2
      <4> QED BY <1>5, <2>5, <3>2, <4>1, RefusedKeepsStage
    <3> QED BY <3>1, <3>2
  <2> QED BY <2>1, <2>2, <2>3, <2>8
<1>8. Nat \subseteq S
  <2>1. 0 \in S
    BY <1>6
  <2>2. \A n \in Nat : n \in S => n + 1 \in S
    <3> HIDE DEF Q
    <3> QED BY <1>1, <1>7
  <2> HIDE DEF S
  <2> QED BY <2>1, <2>2, NumbersFromZero
<1> QED BY <1>1, <1>4, <1>8

-----------------------------------------------------------------------------
(* The declarations of a module over the imported scope.                   *)

DeclaredBy(d) == d.values \cup MethodsOf(d, DOMAIN d.classes) \cup DOMAIN DeclaredCons(d)

\* The declared names go over the imported ones.
LEMMA DeclareNamesFields ==
  ASSUME NEW sc, IsScope(sc), NEW m, NEW d
  PROVE  LET r == declareNames(sc, m, d)
         IN  /\ IsScope(r)
             /\ r.vals = Over(From(DeclaredBy(d), m), sc.vals)
             /\ r.classes = Over(From(DOMAIN d.classes, m), sc.classes)
             /\ r.aliases = Over(From(d.aliases, m), sc.aliases)
             /\ r.conInfo = Over(DeclaredCons(d), sc.conInfo)
             /\ \A g \in {"ns", "insts", "families", "errors"} : r[g] = sc[g]
<1>1. PICK cons, V, C : cons = DeclaredCons(d) /\ V = DeclaredBy(d) /\ C = DOMAIN d.classes
  OBVIOUS
<1>2. PICK v1, v2, v3, v4, v5, v6, v7, v8 :
        /\ v1 = Over(From(DOMAIN d.types, m), sc.kinds) /\ v2 = Over(From(DOMAIN d.types, m), sc.pkinds)
        /\ v3 = Over(From(DOMAIN cons, m), sc.cons) /\ v4 = Over(From(DOMAIN cons, m), sc.pcons)
        /\ v5 = Over(cons, sc.conInfo) /\ v6 = Over(From(d.aliases, m), sc.aliases) /\ v7 = Over(From(C, m), sc.classes)
        /\ v8 = Over(From(V, m), sc.vals)
  OBVIOUS
<1>3. PICK r : r = [sc EXCEPT !.kinds = v1, !.pkinds = v2, !.cons = v3, !.pcons = v4, !.conInfo = v5, !.aliases = v6, !.classes = v7, !.vals = v8]
  OBVIOUS
<1>4. r = declareNames(sc, m, d)
  BY <1>1, <1>2, <1>3 DEF declareNames, DeclaredBy, IsScope, Fields
<1>5. IsScope(r) /\ r.vals = v8 /\ r.classes = v7 /\ r.aliases = v6 /\ r.conInfo = v5
  BY <1>3 DEF IsScope, Fields
<1>6. \A g \in {"ns", "insts", "families", "errors"} : r[g] = sc[g]
  BY <1>3 DEF IsScope, Fields
<1> QED BY <1>1, <1>2, <1>4, <1>5, <1>6

\* The families declared join the ones in scope.
LEMMA DeclareFamiliesFields ==
  ASSUME NEW sc, IsScope(sc), NEW d \in Declarations, AreFamilies(sc.families)
  PROVE  LET r == declareFamilies(sc, d)
         IN  /\ IsScope(r)
             /\ \A g \in {"ns", "vals", "classes", "aliases", "conInfo", "insts"} : r[g] = sc[g]
             /\ sc.errors \subseteq r.errors /\ \A e \in r.errors \ sc.errors : e[1] = "family"
             /\ AreFamilies(r.families)
             /\ \A x \in DOMAIN sc.families : Holds(r.families, x, sc.families[x])
<1>1. PICK taken : taken = {x \in DOMAIN d.families \cap (DOMAIN sc.families \cup DOMAIN sc.aliases) : d.families[x].class = 0}
  OBVIOUS
<1>2. PICK errs : errs = {<<"family", x>> : x \in taken}
  OBVIOUS
<1>3. PICK fams : fams = [x \in DOMAIN d.families \ taken |-> d.families[x]]
  OBVIOUS
<1>4. PICK q : q = [sc EXCEPT !.errors = @ \cup errs]
  OBVIOUS
<1>5. PICK r : r = RegisterFamilies(q, fams)
  OBVIOUS
<1>6. r = declareFamilies(sc, d)
  BY <1>1, <1>2, <1>3, <1>4, <1>5 DEF declareFamilies
<1>7. IsScope(q) /\ q.errors = sc.errors \cup errs /\ \A g \in Fields : g # "errors" => q[g] = sc[g]
  BY <1>4 DEF IsScope, Fields
<1>8. \A g \in {"ns", "vals", "classes", "aliases", "conInfo", "insts", "families"} : q[g] = sc[g]
  BY <1>7 DEF Fields
<1>9. /\ IsScope(r)
      /\ \A g \in Fields : g \notin {"families", "errors"} => r[g] = q[g]
      /\ q.errors \subseteq r.errors /\ \A e \in r.errors \ q.errors : e[1] = "family"
  BY <1>5, <1>7, RegisterFamiliesFields
<1>10. \A g \in {"ns", "vals", "classes", "aliases", "conInfo", "insts"} : r[g] = sc[g]
  BY <1>8, <1>9 DEF Fields
<1>11. \A e \in errs : e[1] = "family"
  <2>1. \A x : <<"family", x>>[1] = "family"
    OBVIOUS
  <2> QED BY <1>2, <2>1
<1>12. sc.errors \subseteq r.errors /\ \A e \in r.errors \ sc.errors : e[1] = "family"
  BY <1>7, <1>9, <1>11
<1>13. AreFamilies(fams)
  <2>1. \A x \in DOMAIN fams : x \in DOMAIN d.families /\ fams[x] = d.families[x]
    BY <1>3
  <2>2. \A x \in DOMAIN d.families : IsFamily(d.families[x])
    BY ScopeAssumption DEF ScopeAssumption, FamiliesAssumption, IsFamily
  <2> QED BY <2>1, <2>2 DEF AreFamilies
<1>14. AreFamilies(r.families) /\ \A x \in DOMAIN q.families : Holds(r.families, x, q.families[x])
  <2>1. AreFamilies(q.families)
    BY <1>8
  <2> QED BY <1>5, <1>7, <1>13, <2>1, RegisterFamiliesExact
<1> QED BY <1>6, <1>8, <1>9, <1>10, <1>12, <1>14

IsEnriched(r, fam, new) == r = [class |-> fam.class, eqs |-> fam.eqs \o new]

Extended(r, fam, new) == IsFamily(r) /\ Range(fam.eqs) \subseteq Range(r.eqs) /\ Range(new) \subseteq Range(r.eqs)

\* The equations of instances follow those of the family.
LEMMA EnrichedFamily ==
  ASSUME NEW fam, IsFamily(fam), NEW new, IsEquations(new), NEW r, IsEnriched(r, fam, new)
  PROVE  Extended(r, fam, new)
<1>1. PICK old, both : old = fam.eqs /\ both = fam.eqs \o new
  OBVIOUS
<1>2. /\ old \in Seq(Range(old)) /\ \A e \in Range(old) : e = [pat |-> e.pat, rhs |-> e.rhs]
      /\ new \in Seq(Range(new)) /\ \A e \in Range(new) : e = [pat |-> e.pat, rhs |-> e.rhs]
  BY <1>1 DEF IsFamily, IsEquations, IsSequence
<1>3. PICK T : T = Range(old) \cup Range(new)
  OBVIOUS
<1>4. old \in Seq(T) /\ new \in Seq(T)
  <2>1. \A i \in 1..Len(old) : old[i] \in T
    BY <1>2, <1>3 DEF Range
  <2>2. \A i \in 1..Len(new) : new[i] \in T
    BY <1>2, <1>3 DEF Range
  <2>3. Len(old) \in Nat /\ old = [i \in 1..Len(old) |-> old[i]] /\ Len(new) \in Nat /\ new = [i \in 1..Len(new) |-> new[i]]
    BY <1>2
  <2>4. old \in [1..Len(old) -> T] /\ new \in [1..Len(new) -> T]
    BY <2>1, <2>2, <2>3
  <2> QED BY <2>3, <2>4, SeqDef
<1>5. /\ both \in Seq(T) /\ Len(both) = Len(old) + Len(new) /\ Len(old) \in Nat /\ Len(new) \in Nat
      /\ \A i \in 1..(Len(old) + Len(new)) : both[i] = IF i <= Len(old) THEN old[i] ELSE new[i - Len(old)]
  BY <1>1, <1>4, ConcatProperties
<1>6. DOMAIN both = 1..(Len(old) + Len(new)) /\ DOMAIN old = 1..Len(old) /\ DOMAIN new = 1..Len(new)
  BY <1>4, <1>5
<1>7. Range(both) = T
  <2>1. ASSUME NEW i \in DOMAIN both PROVE both[i] \in T
    BY <1>5, <1>6, ElementOfSeq
  <2>2. ASSUME NEW i \in DOMAIN old PROVE \E k \in DOMAIN both : both[k] = old[i]
    BY <1>5, <1>6
  <2>3. ASSUME NEW i \in DOMAIN new PROVE \E k \in DOMAIN both : both[k] = new[i]
    <3>1. Len(old) + i \in DOMAIN both /\ ~(Len(old) + i <= Len(old)) /\ (Len(old) + i) - Len(old) = i
      BY <1>5, <1>6
    <3> QED BY <1>5, <1>6, <3>1
  <2> QED BY <1>3, <2>1, <2>2, <2>3 DEF Range
<1>8. \A e \in T : e = [pat |-> e.pat, rhs |-> e.rhs]
  BY <1>2, <1>3
<1>9. IsEquations(both)
  BY <1>5, <1>7, <1>8 DEF IsEquations, IsSequence
<1>10. r = [class |-> fam.class, eqs |-> both] /\ r.eqs = both
  BY <1>1 DEF IsEnriched
<1>11. IsFamily(r)
  <2>1. r.class = fam.class /\ r = [class |-> r.class, eqs |-> r.eqs]
    BY <1>10
  <2> QED BY <1>9, <1>10, <2>1 DEF IsFamily
<1> QED BY <1>1, <1>3, <1>7, <1>10, <1>11 DEF Extended

\* Without errors: the instances, the overlaps and the equations they add.
InstancesAdded(r, sc, d) ==
  /\ r.insts = sc.insts \cup d.insts \cup d.hidden
  /\ \A i \in d.insts : \A j \in sc.insts \cup d.insts : i.pat = j.pat => i = j
  /\ \A x \in DOMAIN sc.families : Holds(r.families, x, sc.families[x])
  /\ \A x \in DOMAIN d.enriched : x \in DOMAIN r.families /\ Range(d.enriched[x]) \subseteq Range(r.families[x].eqs)

\* The instances declared and the equations they add.
LEMMA DeclareInstancesFields ==
  ASSUME NEW sc, IsScope(sc), NEW d \in Declarations, AreFamilies(sc.families)
  PROVE  LET r == declareInstances(sc, d)
         IN  /\ IsScope(r)
             /\ \A g \in {"ns", "vals", "classes", "aliases", "conInfo"} : r[g] = sc[g]
             /\ sc.errors \subseteq r.errors /\ \A e \in r.errors \ sc.errors : e[1] # "ns"
             /\ AreFamilies(r.families)
             /\ r.errors = {} => InstancesAdded(r, sc, d)
<1>1. PICK bad : bad = {i \in d.insts : \E j \in sc.insts \cup d.insts : Overlapping(i, j)}
  OBVIOUS
<1>2. PICK known : known = {x \in DOMAIN d.enriched \cap DOMAIN sc.families : sc.families[x].class # 0}
  OBVIOUS
<1>3. PICK errs : errs = {<<"overlap", i.pat>> : i \in bad} \cup {<<"family", x>> : x \in DOMAIN d.enriched \ known}
  OBVIOUS
<1>4. PICK insts : insts = sc.insts \cup (d.insts \ bad) \cup d.hidden
  OBVIOUS
<1> DEFINE Enriched(x) == IF x \in known THEN sc.families[x].eqs \o d.enriched[x] ELSE sc.families[x].eqs
<1>5. PICK fams : fams = [x \in DOMAIN sc.families |-> [class |-> sc.families[x].class, eqs |-> Enriched(x)]]
  OBVIOUS
<1>6. PICK r : r = [sc EXCEPT !.insts = insts, !.families = fams, !.errors = @ \cup errs]
  OBVIOUS
<1>7. r = declareInstances(sc, d)
  <2>1. sc.errors \cup errs = sc.errors \cup {<<"overlap", i.pat>> : i \in bad} \cup {<<"family", x>> : x \in DOMAIN d.enriched \ known}
    BY <1>3
  <2>2. r = [sc EXCEPT !.insts = insts, !.families = fams,
               !.errors = @ \cup {<<"overlap", i.pat>> : i \in bad} \cup {<<"family", x>> : x \in DOMAIN d.enriched \ known}]
    BY <1>6, <2>1
  <2>3. declareInstances(sc, d) =
          [sc EXCEPT !.insts = insts, !.families = fams,
             !.errors = @ \cup {<<"overlap", i.pat>> : i \in bad} \cup {<<"family", x>> : x \in DOMAIN d.enriched \ known}]
    BY <1>1, <1>2, <1>4, <1>5 DEF declareInstances
  <2> QED BY <2>2, <2>3
<1>8. IsScope(r) /\ r.insts = insts /\ r.families = fams /\ r.errors = sc.errors \cup errs
  BY <1>6 DEF IsScope, Fields
<1>9. \A g \in {"ns", "vals", "classes", "aliases", "conInfo"} : r[g] = sc[g]
  BY <1>6 DEF IsScope, Fields
<1>10. /\ \A e \in errs : e[1] # "ns"
       /\ errs = {} => bad = {} /\ DOMAIN d.enriched \subseteq known
  <2>1. \A x : <<"family", x>>[1] = "family" /\ <<"overlap", x>>[1] = "overlap"
    OBVIOUS
  <2>2. \A e \in errs : e[1] \in {"family", "overlap"}
    BY <1>3, <2>1
  <2>3. \A i \in bad : <<"overlap", i.pat>> \in errs
    BY <1>3
  <2>4. \A x \in DOMAIN d.enriched \ known : <<"family", x>> \in errs
    BY <1>3
  <2> QED BY <2>2, <2>3, <2>4
<1>11. r.errors = {} => bad = {} /\ DOMAIN d.enriched \subseteq known
  BY <1>8, <1>10
<1>12. r.errors = {} => r.insts = sc.insts \cup d.insts \cup d.hidden
  BY <1>4, <1>8, <1>11
<1>13. DOMAIN r.families = DOMAIN sc.families /\ known \subseteq DOMAIN sc.families /\ known \subseteq DOMAIN d.enriched
  BY <1>2, <1>5, <1>8
<1>14. ASSUME NEW x \in known PROVE Extended(r.families[x], sc.families[x], d.enriched[x])
  <2>1. PICK fam, new, s : fam = sc.families[x] /\ new = d.enriched[x] /\ s = r.families[x]
    OBVIOUS
  <2>2. x \in DOMAIN d.enriched /\ x \in DOMAIN sc.families
    BY <1>13, <1>14
  <2>3. IsFamily(fam)
    BY <2>1, <2>2 DEF AreFamilies
  <2>4. IsEquations(new)
    BY <2>1, <2>2, ScopeAssumption DEF ScopeAssumption, FamiliesAssumption
  <2>5. IsEnriched(s, fam, new)
    BY <1>5, <1>8, <1>14, <2>1, <2>2 DEF IsEnriched
  <2>6. Extended(s, fam, new)
    BY ONLY <2>3, <2>4, <2>5, EnrichedFamily
  <2> QED BY <2>1, <2>6
<1>15. ASSUME NEW x \in DOMAIN sc.families \ known PROVE IsFamily(r.families[x]) /\ r.families[x].eqs = sc.families[x].eqs
  <2>1. PICK fam : fam = sc.families[x]
    OBVIOUS
  <2>2. r.families[x] = [class |-> fam.class, eqs |-> fam.eqs]
    BY <1>5, <1>8, <1>15, <2>1
  <2>3. IsFamily(fam)
    BY <1>15, <2>1 DEF AreFamilies
  <2>4. IsFamily([class |-> fam.class, eqs |-> fam.eqs])
    BY <2>3 DEF IsFamily
  <2> QED BY <2>1, <2>2, <2>4
<1>16. AreFamilies(r.families)
  BY <1>13, <1>14, <1>15 DEF AreFamilies, Extended
<1>17. \A x \in DOMAIN sc.families : Holds(r.families, x, sc.families[x])
  BY <1>13, <1>14, <1>15 DEF Holds, Extended
<1>18. r.errors = {} => \A x \in DOMAIN d.enriched : x \in DOMAIN r.families /\ Range(d.enriched[x]) \subseteq Range(r.families[x].eqs)
  BY <1>11, <1>13, <1>14 DEF Extended
<1>19. r.errors = {} => \A i \in d.insts : \A j \in sc.insts \cup d.insts : i.pat = j.pat => i = j
  BY <1>1, <1>11 DEF Overlapping
<1>20. sc.errors \subseteq r.errors /\ \A e \in r.errors \ sc.errors : e[1] # "ns"
  BY <1>8, <1>10
<1> QED BY <1>7, <1>8, <1>9, <1>12, <1>16, <1>17, <1>18, <1>19, <1>20 DEF InstancesAdded

\* What the declarations make of the imported scope.
Overlaid(r, sc, m, d) ==
  /\ IsScope(r) /\ sc.errors \subseteq r.errors /\ \A e \in r.errors \ sc.errors : e[1] # "ns"
  /\ DOMAIN r.vals = DeclaredBy(d) \cup DOMAIN sc.vals
  /\ (\A x \in DeclaredBy(d) : r.vals[x] = m) /\ \A x \in DOMAIN sc.vals \ DeclaredBy(d) : r.vals[x] = sc.vals[x]
  /\ DOMAIN r.classes = DOMAIN d.classes \cup DOMAIN sc.classes
  /\ DOMAIN r.aliases = d.aliases \cup DOMAIN sc.aliases
  /\ DOMAIN r.conInfo = DOMAIN DeclaredCons(d) \cup DOMAIN sc.conInfo
  /\ \A c \in DOMAIN DeclaredCons(d) : r.conInfo[c] = DeclaredCons(d)[c]
  /\ \A c \in DOMAIN sc.conInfo \ DOMAIN DeclaredCons(d) : r.conInfo[c] = sc.conInfo[c]
  /\ AreFamilies(r.families)
  /\ r.errors = {} => InstancesAdded(r, sc, d)

\* All declarations over the imported scope.
LEMMA DeclareExact ==
  ASSUME NEW sc, IsScope(sc), NEW m, NEW d \in Declarations, AreFamilies(sc.families)
  PROVE  Overlaid(Declare(sc, m, d), sc, m, d)
<1>1. PICK a : a = declareNames(sc, m, d)
  OBVIOUS
<1>2. PICK b : b = declareFamilies(a, d)
  OBVIOUS
<1>3. PICK r : r = declareInstances(b, d)
  OBVIOUS
<1>4. r = Declare(sc, m, d)
  BY <1>1, <1>2, <1>3 DEF Declare
<1>5. /\ IsScope(a)
      /\ a.vals = Over(From(DeclaredBy(d), m), sc.vals)
      /\ a.classes = Over(From(DOMAIN d.classes, m), sc.classes)
      /\ a.aliases = Over(From(d.aliases, m), sc.aliases)
      /\ a.conInfo = Over(DeclaredCons(d), sc.conInfo)
      /\ \A g \in {"ns", "insts", "families", "errors"} : a[g] = sc[g]
  BY <1>1, DeclareNamesFields
<1>6. AreFamilies(a.families)
  BY <1>5
<1>7. /\ IsScope(b)
      /\ \A g \in {"ns", "vals", "classes", "aliases", "conInfo", "insts"} : b[g] = a[g]
      /\ a.errors \subseteq b.errors /\ \A e \in b.errors \ a.errors : e[1] = "family"
      /\ AreFamilies(b.families)
      /\ \A x \in DOMAIN a.families : Holds(b.families, x, a.families[x])
  BY <1>2, <1>5, <1>6, DeclareFamiliesFields
<1>8. /\ IsScope(r)
      /\ \A g \in {"ns", "vals", "classes", "aliases", "conInfo"} : r[g] = b[g]
      /\ b.errors \subseteq r.errors /\ \A e \in r.errors \ b.errors : e[1] # "ns"
      /\ AreFamilies(r.families)
      /\ r.errors = {} => InstancesAdded(r, b, d)
  BY <1>3, <1>7, DeclareInstancesFields
<1>9. /\ r.vals = Over(From(DeclaredBy(d), m), sc.vals) /\ r.classes = Over(From(DOMAIN d.classes, m), sc.classes)
      /\ r.aliases = Over(From(d.aliases, m), sc.aliases) /\ r.conInfo = Over(DeclaredCons(d), sc.conInfo)
      /\ b.insts = sc.insts /\ a.families = sc.families /\ a.errors = sc.errors
  BY <1>5, <1>7, <1>8
<1>10. sc.errors \subseteq r.errors /\ \A e \in r.errors \ sc.errors : e[1] # "ns"
  BY <1>7, <1>8, <1>9
<1>11. /\ DOMAIN r.vals = DeclaredBy(d) \cup DOMAIN sc.vals
       /\ (\A x \in DeclaredBy(d) : r.vals[x] = m) /\ \A x \in DOMAIN sc.vals \ DeclaredBy(d) : r.vals[x] = sc.vals[x]
       /\ DOMAIN r.classes = DOMAIN d.classes \cup DOMAIN sc.classes /\ DOMAIN r.aliases = d.aliases \cup DOMAIN sc.aliases
  BY <1>9 DEF Over, From
<1>12. /\ DOMAIN r.conInfo = DOMAIN DeclaredCons(d) \cup DOMAIN sc.conInfo
       /\ \A c \in DOMAIN DeclaredCons(d) : r.conInfo[c] = DeclaredCons(d)[c]
       /\ \A c \in DOMAIN sc.conInfo \ DOMAIN DeclaredCons(d) : r.conInfo[c] = sc.conInfo[c]
  BY <1>9 DEF Over
<1>13. r.errors = {} => InstancesAdded(r, sc, d)
  BY <1>7, <1>8, <1>9 DEF InstancesAdded, Holds
<1> QED BY <1>4, <1>8, <1>10, <1>11, <1>12, <1>13 DEF Overlaid

\* The type of a constructor of a module is the one that declares it.
LEMMA DeclaredConsExact ==
  ASSUME NEW d \in Declarations
  PROVE  /\ DOMAIN DeclaredCons(d) = UNION Range(d.types)
         /\ \A t \in DOMAIN d.types : \A c \in d.types[t] : c \in DOMAIN DeclaredCons(d) /\ DeclaredCons(d)[c] = t
         /\ \A c \in DOMAIN DeclaredCons(d) : DeclaredCons(d)[c] \in DOMAIN d.types /\ c \in d.types[DeclaredCons(d)[c]]
<1>1. DOMAIN DeclaredCons(d) = UNION Range(d.types)
  BY DEF DeclaredCons
<1>2. \A t1, t2 \in DOMAIN d.types : t1 # t2 => d.types[t1] \cap d.types[t2] = {}
  BY ScopeAssumption DEF ScopeAssumption, NamesAssumption
<1>3. ASSUME NEW c \in DOMAIN DeclaredCons(d) PROVE DeclaredCons(d)[c] \in DOMAIN d.types /\ c \in d.types[DeclaredCons(d)[c]]
  <2>1. DeclaredCons(d)[c] = CHOOSE t \in DOMAIN d.types : c \in d.types[t]
    BY <1>1, <1>3 DEF DeclaredCons
  <2>2. \E t \in DOMAIN d.types : c \in d.types[t]
    BY <1>1, <1>3 DEF Range
  <2> QED BY <2>1, <2>2
<1>4. ASSUME NEW t \in DOMAIN d.types, NEW c \in d.types[t] PROVE c \in DOMAIN DeclaredCons(d) /\ DeclaredCons(d)[c] = t
  <2>1. c \in DOMAIN DeclaredCons(d)
    BY <1>1 DEF Range
  <2> QED BY <1>2, <1>3, <1>4, <2>1
<1> QED BY <1>1, <1>3, <1>4

-----------------------------------------------------------------------------
(* Dependencies.                                                           *)

DepsKnown(st) == \A m \in DOMAIN st : Range(st[m].deps) \subseteq DOMAIN st

\* The modules reached are the least closed set.
LEMMA DependenciesClosed ==
  ASSUME NEW st, DepsKnown(st), NEW ms, ms \subseteq DOMAIN st
  PROVE  /\ DependenciesOf(st, ms) \subseteq DOMAIN st /\ ms \subseteq DependenciesOf(st, ms)
         /\ Closed(st, DependenciesOf(st, ms))
         /\ \A ns \in SUBSET DOMAIN st : ms \subseteq ns /\ Closed(st, ns) => DependenciesOf(st, ms) \subseteq ns
<1>1. DependenciesOf(st, ms) \subseteq DOMAIN st /\ ms \subseteq DependenciesOf(st, ms)
  BY DEF DependenciesOf
<1>2. \A ns \in SUBSET DOMAIN st : ms \subseteq ns /\ Closed(st, ns) => DependenciesOf(st, ms) \subseteq ns
  BY DEF DependenciesOf
<1>3. ASSUME NEW m \in DependenciesOf(st, ms), NEW k \in Range(st[m].deps) PROVE k \in DependenciesOf(st, ms)
  <2>1. k \in DOMAIN st
    BY <1>1, <1>3 DEF DepsKnown
  <2>2. ASSUME NEW ns \in SUBSET DOMAIN st, ms \subseteq ns, Closed(st, ns) PROVE k \in ns
    BY <1>2, <1>3, <2>2 DEF Closed
  <2> QED BY <2>1, <2>2 DEF DependenciesOf
<1>4. Closed(st, DependenciesOf(st, ms))
  BY <1>3 DEF Closed
<1> QED BY <1>1, <1>2, <1>4

\* Of several modules: those of each.
LEMMA DependenciesUnion ==
  ASSUME NEW st, DepsKnown(st), NEW ms, ms \subseteq DOMAIN st
  PROVE  \A n : n \in DependenciesOf(st, ms) <=> \E m \in ms : n \in DependenciesOf(st, {m})
<1> DEFINE D == DependenciesOf(st, ms)
           U == UNION {DependenciesOf(st, {m}) : m \in ms}
<1>1. D \subseteq DOMAIN st /\ ms \subseteq D /\ Closed(st, D)
  BY DependenciesClosed
<1>2. ASSUME NEW m \in ms PROVE /\ DependenciesOf(st, {m}) \subseteq DOMAIN st /\ m \in DependenciesOf(st, {m})
                                /\ Closed(st, DependenciesOf(st, {m}))
                                /\ DependenciesOf(st, {m}) \subseteq D
  <2>1. PICK one : one = {m}
    OBVIOUS
  <2>2. one \subseteq DOMAIN st /\ one \subseteq D
    BY <1>1, <2>1
  <2>3. /\ DependenciesOf(st, one) \subseteq DOMAIN st /\ one \subseteq DependenciesOf(st, one)
        /\ Closed(st, DependenciesOf(st, one))
        /\ \A ns \in SUBSET DOMAIN st : one \subseteq ns /\ Closed(st, ns) => DependenciesOf(st, one) \subseteq ns
    BY <2>2, DependenciesClosed
  <2>4. DependenciesOf(st, one) \subseteq D
    BY <1>1, <2>2, <2>3
  <2> QED BY <2>1, <2>3, <2>4
<1>3. U \subseteq DOMAIN st /\ ms \subseteq U /\ U \subseteq D
  BY <1>2
<1>4. Closed(st, U)
  BY <1>2 DEF Closed
<1>5. D \subseteq U
  <2> HIDE DEF U
  <2> QED BY <1>3, <1>4, DependenciesClosed
<1>6. \A n : n \in U <=> \E m \in ms : n \in DependenciesOf(st, {m})
  OBVIOUS
<1> QED BY <1>3, <1>5, <1>6

KeepsDependencies(new, st, m, mod) ==
  /\ DOMAIN new = DOMAIN st \cup {m} /\ new[m] = mod /\ \A n \in DOMAIN st : new[n] = st[n]
  /\ DepsKnown(new)
  /\ \A n \in DOMAIN st : \A k : k \in DependenciesOf(new, {n}) <=> k \in DependenciesOf(st, {n})
  /\ \A k : k \in DependenciesOf(new, {m}) <=> k = m \/ k \in DependenciesOf(st, Range(mod.deps))

\* A new module changes nobody's dependencies.
LEMMA StoredDependencies ==
  ASSUME NEW st, DepsKnown(st), NEW m, m \notin DOMAIN st, NEW mod, Range(mod.deps) \subseteq DOMAIN st
  PROVE  KeepsDependencies(Stored(st, m, mod), st, m, mod)
<1>1. PICK new : new = Stored(st, m, mod)
  OBVIOUS
<1>2. DOMAIN new = DOMAIN st \cup {m} /\ new[m] = mod /\ \A n \in DOMAIN st : new[n] = st[n]
  BY <1>1 DEF Stored, Over, From
<1>3. DepsKnown(new)
  BY <1>2 DEF DepsKnown
<1>4. ASSUME NEW ns \in SUBSET DOMAIN st, Closed(st, ns) PROVE Closed(new, ns)
  BY <1>2, <1>4 DEF Closed
<1>5. ASSUME NEW ns \in SUBSET DOMAIN new, Closed(new, ns) PROVE Closed(st, ns \cap DOMAIN st)
  BY <1>2, <1>5 DEF Closed, DepsKnown
<1>6. ASSUME NEW n \in DOMAIN st PROVE \A k : k \in DependenciesOf(new, {n}) <=> k \in DependenciesOf(st, {n})
  <2>1. PICK one, D, E : one = {n} /\ D = DependenciesOf(st, one) /\ E = DependenciesOf(new, one)
    OBVIOUS
  <2>2. one \subseteq DOMAIN st /\ one \subseteq DOMAIN new
    BY <1>2, <2>1
  <2>3. D \subseteq DOMAIN st /\ one \subseteq D /\ Closed(st, D)
        /\ \A ns \in SUBSET DOMAIN st : one \subseteq ns /\ Closed(st, ns) => D \subseteq ns
    BY <2>1, <2>2, DependenciesClosed
  <2>4. E \subseteq DOMAIN new /\ one \subseteq E /\ Closed(new, E)
        /\ \A ns \in SUBSET DOMAIN new : one \subseteq ns /\ Closed(new, ns) => E \subseteq ns
    BY <1>3, <2>1, <2>2, DependenciesClosed
  <2>5. E \subseteq D
    BY <1>2, <1>4, <2>3, <2>4
  <2>6. D \subseteq E
    <3>1. PICK F : F = E \cap DOMAIN st
      OBVIOUS
    <3>2. Closed(st, F) /\ F \subseteq DOMAIN st /\ one \subseteq F
      BY <1>5, <2>2, <2>4, <3>1
    <3> QED BY <2>3, <3>1, <3>2
  <2> QED BY <2>1, <2>5, <2>6
<1>7. \A k : k \in DependenciesOf(new, {m}) <=> k = m \/ k \in DependenciesOf(st, Range(mod.deps))
  <2>1. PICK one, deps, D, E : one = {m} /\ deps = Range(mod.deps) /\ D = DependenciesOf(st, deps) /\ E = DependenciesOf(new, one)
    OBVIOUS
  <2>2. deps \subseteq DOMAIN st /\ one \subseteq DOMAIN new
    BY <1>2, <2>1
  <2>3. D \subseteq DOMAIN st /\ deps \subseteq D /\ Closed(st, D)
        /\ \A ns \in SUBSET DOMAIN st : deps \subseteq ns /\ Closed(st, ns) => D \subseteq ns
    BY <2>1, <2>2, DependenciesClosed
  <2>4. E \subseteq DOMAIN new /\ one \subseteq E /\ Closed(new, E)
        /\ \A ns \in SUBSET DOMAIN new : one \subseteq ns /\ Closed(new, ns) => E \subseteq ns
    BY <1>3, <2>1, <2>2, DependenciesClosed
  <2>5. E \subseteq D \cup {m}
    <3>1. PICK F : F = D \cup {m}
      OBVIOUS
    <3>2. Closed(new, D)
      BY <1>4, <2>3
    <3>3. Closed(new, F)
      BY <1>2, <2>1, <2>3, <3>1, <3>2 DEF Closed
    <3>4. F \subseteq DOMAIN new /\ one \subseteq F
      BY <1>2, <2>1, <2>3, <3>1
    <3> QED BY <2>4, <3>1, <3>3, <3>4
  <2>6. D \cup {m} \subseteq E
    <3>1. PICK F : F = E \cap DOMAIN st
      OBVIOUS
    <3>2. m \in E
      BY <2>1, <2>4
    <3>3. deps \subseteq F
      BY <1>2, <2>1, <2>2, <2>4, <3>1, <3>2 DEF Closed
    <3>4. Closed(st, F) /\ F \subseteq DOMAIN st
      BY <1>5, <2>4, <3>1
    <3> QED BY <2>3, <3>1, <3>2, <3>3, <3>4
  <2> QED BY <2>1, <2>5, <2>6
<1> QED BY <1>1, <1>2, <1>3, <1>6, <1>7 DEF KeepsDependencies

-----------------------------------------------------------------------------
(* The scope of a module that was checked.                                 *)

\* A constructor is exported by the module that declares it, or by one that
\* has it from a module it imports; the first kind counts as owned.
ConstructorsFrom(st, m) ==
  /\ OwnConstructors(st[m].src.decls) \ Private \subseteq Exports(st, m).ownedNames
  /\ \A c \in DOMAIN Exports(st, m).cons : c \in OwnConstructors(st[m].src.decls) \/ \E n \in Range(st[m].deps) : c \in DOMAIN Exports(st, n).cons

\* The registered modules: they depend on registered ones, export what they
\* should, and have the public instances of the modules they depend on.
StoreOK(st) ==
  /\ DepsKnown(st)
  /\ \A m \in DOMAIN st : ConstructorsFrom(st, m)
  /\ \A m \in DOMAIN st : ExportOK(Exports(st, m))
  /\ \A m \in DOMAIN st : \A i : i \in Exports(st, m).insts <=> \E n \in DependenciesOf(st, {m}) : i \in st[n].src.decls.insts
  /\ \A m \in DOMAIN st : \A i \in st[m].src.decls.insts : i.of = m

\* The scope sc of m is what the accepted imports and its declarations make.
IsCheck(st, m, src, sc) ==
  /\ m \notin DOMAIN st /\ src.decls \in Declarations /\ Owned(m, src.decls)
  /\ \E n \in Nat : \E sc0 :
       /\ AcceptedBy(st, AllImports(src), n) = Accepted(st, AllImports(src))
       /\ IsScope(sc0) /\ NameStage(st, AllImports(src), n, sc0) /\ FamilyStage(st, AllImports(src), n, sc0)
       /\ TableStage(st, AllImports(src), n, sc0)
       /\ Overlaid(sc, sc0, m, src.decls)

\* The instances of an import belong to other modules.
LEMMA InstancesByOthers ==
  ASSUME NEW st, StoreOK(st), NEW imports, NEW n
  PROVE  \A i \in InstancesBy(st, imports, n) : i.of \in DOMAIN st
<1> SUFFICES ASSUME NEW i \in InstancesBy(st, imports, n) PROVE i.of \in DOMAIN st
  OBVIOUS
<1>1. PICK k \in Accepted(st, imports) : i \in Exports(st, imports[k].mod).insts
  BY DEF InstancesBy, AcceptedBy, ExportsOf
<1>2. PICK m : m = imports[k].mod
  OBVIOUS
<1>3. m \in DOMAIN st /\ i \in Exports(st, m).insts
  BY <1>1, <1>2 DEF Accepted
<1>4. PICK j \in DependenciesOf(st, {m}) : i \in st[j].src.decls.insts
  BY <1>3 DEF StoreOK
<1>5. j \in DOMAIN st
  BY <1>4 DEF DependenciesOf
<1> QED BY <1>4, <1>5 DEF StoreOK

\* The modules that bring a name, in the two ways of saying it.
LEMMA BringingExact ==
  ASSUME NEW n, AcceptedBy(last.store, AllImports(last.src), n) = Accepted(last.store, AllImports(last.src))
  PROVE  \A x : Bringing(x) = BringersBy(last.store, AllImports(last.src), n, x)
<1> SUFFICES ASSUME NEW x PROVE Bringing(x) = BringersBy(last.store, AllImports(last.src), n, x)
  OBVIOUS
<1>1. PICK st, imports : st = last.store /\ imports = AllImports(last.src)
  OBVIOUS
<1>2. \A d : d \in Imports_ <=> \E k \in Accepted(st, imports) : d = imports[k]
  BY <1>1 DEF Imports_
<1>3. \A d : x \in Brought(Exports(st, d.mod), d) <=> BringsOf(Ex(d), d, x)
  BY <1>1 DEF Brought, BringsOf, Ex
<1>4. \A m : m \in Bringing(x) <=> \E d \in Imports_ : BringsOf(Ex(d), d, x) /\ m = d.mod
  BY DEF Bringing
<1>5. \A m : m \in BringersBy(st, imports, n, x) <=>
               \E k \in Accepted(st, imports) : x \in Brought(Exports(st, imports[k].mod), imports[k]) /\ m = imports[k].mod
  BY <1>1 DEF BringersBy, ExportsOf
<1>6. \A m : m \in Bringing(x) <=> m \in BringersBy(st, imports, n, x)
  BY <1>2, <1>3, <1>4, <1>5
<1> QED BY <1>1, <1>6

\* A module that brings a value and does not own it has it from a module it
\* imports and is not the one that declares the constructor.
LEMMA NotOwned ==
  ASSUME StoreOK(last.store), NEW m \in DOMAIN last.store, NEW x, x \notin Private, ~Owns(last.store, "ns", m, x),
         x \in Exports(last.store, m).values \cup DOMAIN Exports(last.store, m).cons
  PROVE  Redeclares(m, x)
<1>1. PICK st, ex, d : st = last.store /\ ex = Exports(st, m) /\ d = st[m].src.decls
  OBVIOUS
<1>2. ConstructorsFrom(st, m) /\ Range(st[m].deps) \subseteq DOMAIN st
  BY <1>1 DEF StoreOK, DepsKnown
<1>3. x \notin ex.ownedNames /\ (x \in ex.values => \E n \in Range(st[m].deps) : x \in Exports(st, n).values)
  BY <1>1 DEF Owns, moduleOwnedNames, DepExports
<1>4. x \notin OwnConstructors(d)
  BY <1>1, <1>2, <1>3 DEF ConstructorsFrom
<1>5. \E n \in Range(st[m].deps) : x \in Exports(st, n).values \cup DOMAIN Exports(st, n).cons
  BY <1>1, <1>2, <1>3, <1>4 DEF ConstructorsFrom
<1> QED BY <1>1, <1>4, <1>5 DEF Redeclares

\* Names come from the modules that bring them and clashes are reported.
LEMMA NamesExact ==
  ASSUME StoreOK(last.store), IsCheck(last.store, last.name, last.src, last.sc)
  PROVE  ScopeJustified /\ ClashesReported
<1>1. PICK st, imports, m, d, sc : st = last.store /\ imports = AllImports(last.src) /\ m = last.name /\ d = last.src.decls /\ sc = last.sc
  OBVIOUS
<1>2. PICK n, sc0 :
        /\ n \in Nat /\ AcceptedBy(st, imports, n) = Accepted(st, imports) /\ NameStage(st, imports, n, sc0)
        /\ Overlaid(sc, sc0, m, d)
  BY <1>1 DEF IsCheck
<1>3. \A x : Bringing(x) = BringersBy(st, imports, n, x)
  BY <1>1, <1>2, BringingExact
<1>4. /\ \A x \in DOMAIN sc0.vals : sc0.vals[x] \in Bringing(x)
      /\ \A e \in sc0.errors : e[1] = "ns" => \E m1, m2 \in Bringing(e[2]) : m1 # m2
      /\ sc0.errors = {} => \A x : Bringing(x) # {} => x \in DOMAIN sc0.vals
      /\ sc0.errors = {} => \A x : x \notin Private => \A m1, m2 \in Bringing(x) :
           m1 # m2 => \E k \in Bringing(x) : ~Owns(st, "ns", k, x)
  BY <1>2, <1>3 DEF NameStage
<1>5. /\ sc0.errors \subseteq sc.errors /\ \A e \in sc.errors \ sc0.errors : e[1] # "ns"
      /\ DOMAIN sc.vals = DeclaredBy(d) \cup DOMAIN sc0.vals
      /\ \A x \in DOMAIN sc0.vals \ DeclaredBy(d) : sc.vals[x] = sc0.vals[x]
  BY <1>2 DEF Overlaid
<1>6. Declared(last.src) = DeclaredBy(d)
  BY <1>1 DEF Declared, DeclaredBy
<1>7. Valid => sc0.errors = {}
  BY <1>1, <1>5 DEF Valid
<1>8. ScopeJustified
  BY <1>1, <1>4, <1>5, <1>6, <1>7 DEF ScopeJustified
<1>9. \A x \in ValueErrors : \E m1, m2 \in Bringing(x) : m1 # m2
  <2> SUFFICES ASSUME NEW x \in ValueErrors PROVE \E m1, m2 \in Bringing(x) : m1 # m2
    OBVIOUS
  <2>1. PICK e \in sc.errors : e[1] = "ns" /\ x = e[2]
    BY <1>1 DEF ValueErrors
  <2>2. e \in sc0.errors
    BY <1>5, <2>1
  <2> QED BY <1>4, <2>1, <2>2
<1>10. ASSUME Valid, NEW x, x \notin Private, NEW m1 \in Bringing(x), NEW m2 \in Bringing(x), m1 # m2
       PROVE  \E k \in Bringing(x) : Redeclares(k, x)
  <2>1. PICK k \in Bringing(x) : ~Owns(st, "ns", k, x)
    BY <1>4, <1>7, <1>10
  <2>2. PICK e \in Imports_ : k = e.mod /\ BringsOf(Ex(e), e, x)
    BY <2>1 DEF Bringing
  <2>3. k \in DOMAIN st /\ x \in Exports(st, k).values \cup DOMAIN Exports(st, k).cons
    BY <1>1, <2>2 DEF Imports_, Accepted, BringsOf, Ex
  <2>4. Redeclares(k, x)
    BY <1>1, <1>10, <2>1, <2>3, NotOwned
  <2> QED BY <2>1, <2>4
<1>11. ClashesReported
  BY <1>9, <1>10 DEF ClashesReported
<1> QED BY <1>8, <1>11

\* A method comes with its class: a name that the module declares is not
\* from an import.
LEMMA MethodsExact ==
  ASSUME IsCheck(last.store, last.name, last.src, last.sc)
  PROVE  MethodsKeepTheirClass
<1>1. PICK st, imports, m, d, sc : st = last.store /\ imports = AllImports(last.src) /\ m = last.name /\ d = last.src.decls /\ sc = last.sc
  OBVIOUS
<1>2. PICK n, sc0 :
        /\ n \in Nat /\ AcceptedBy(st, imports, n) = Accepted(st, imports) /\ TableStage(st, imports, n, sc0)
        /\ Overlaid(sc, sc0, m, d)
  BY <1>1 DEF IsCheck
<1> SUFFICES ASSUME NEW e \in Imports_, Whole(e), NEW c \in DOMAIN Ex(e).classes, NEW x \in Ex(e).classes[c],
                    x \in DOMAIN last.sc.vals, last.sc.vals[x] = e.mod
             PROVE  c \in DOMAIN last.sc.classes
  BY DEF MethodsKeepTheirClass
<1>3. PICK k \in Accepted(st, imports) : e = imports[k]
  BY <1>1 DEF Imports_
<1>4. e.mod # m
  BY <1>1, <1>3 DEF IsCheck, Accepted
<1>5. x \in DOMAIN sc0.vals /\ sc0.vals[x] = e.mod
  BY <1>1, <1>2, <1>4 DEF Overlaid
<1>6. Ex(e) = ExportsOf(st, imports, k)
  BY <1>1, <1>3 DEF Ex, ExportsOf
<1>7. c \in DOMAIN sc0.classes
  BY <1>2, <1>3, <1>5, <1>6 DEF TableStage
<1> QED BY <1>1, <1>2, <1>7 DEF Overlaid

\* What a scope without errors holds: J are the instances of its imports.
HoldsImports(st, imports, d, sc, J) ==
  /\ \A i : i \in J <=> \E k \in Accepted(st, imports) : i \in ExportsOf(st, imports, k).insts
  /\ J \cap (d.insts \cup d.hidden) = {}
  /\ sc.insts = J \cup d.insts \cup d.hidden
  /\ \A i \in d.insts : \A j \in J \cup d.insts : i.pat = j.pat => i = j
  /\ AreFamilies(sc.families)
  /\ \A x \in DOMAIN d.enriched : x \in DOMAIN sc.families /\ Range(d.enriched[x]) \subseteq Range(sc.families[x].eqs)
  /\ \A k \in Accepted(st, imports) : imports[k].names = <<>> =>
       \A x \in DOMAIN ExportsOf(st, imports, k).families : Holds(sc.families, x, ExportsOf(st, imports, k).families[x])
  /\ \A k, l \in Accepted(st, imports) :
       k # l /\ imports[k].names = <<>> /\ imports[l].names = <<>> => AgreeOn(ExportsOf(st, imports, k), ExportsOf(st, imports, l))

HoldsDeclared(st, imports, d, sc) ==
  /\ d.aliases \subseteq DOMAIN sc.aliases /\ \A x \in DOMAIN sc.aliases \ d.aliases : \E m \in DOMAIN st : x \in Exports(st, m).aliases
  /\ DOMAIN d.classes \subseteq DOMAIN sc.classes
  /\ \A c \in DOMAIN sc.classes \ DOMAIN d.classes : \E m \in DOMAIN st : c \in DOMAIN Exports(st, m).classes
  /\ \A c \in DOMAIN DeclaredCons(d) : c \in DOMAIN sc.conInfo /\ sc.conInfo[c] = DeclaredCons(d)[c]
  /\ \A c \in DOMAIN sc.conInfo \ DOMAIN DeclaredCons(d) :
       \E k \in Accepted(st, imports) : c \in DOMAIN ExportsOf(st, imports, k).cons /\ sc.conInfo[c] = ExportsOf(st, imports, k).cons[c]

\* The tables of a scope, with errors or without.
LEMMA DeclaredScope ==
  ASSUME NEW st, NEW m, NEW src, NEW sc, IsCheck(st, m, src, sc)
  PROVE  HoldsDeclared(st, AllImports(src), src.decls, sc)
<1>1. PICK n, sc0 : n \in Nat /\ TableStage(st, AllImports(src), n, sc0) /\ Overlaid(sc, sc0, m, src.decls)
  BY DEF IsCheck
<1> QED BY <1>1 DEF HoldsDeclared, Overlaid, TableStage, AcceptedBy

\* A scope without errors, after all imports and declarations.
LEMMA ValidScope ==
  ASSUME NEW st, StoreOK(st), NEW m, NEW src, NEW sc, IsCheck(st, m, src, sc), sc.errors = {}
  PROVE  \E J : HoldsImports(st, AllImports(src), src.decls, sc, J)
<1>1. PICK imports, d : imports = AllImports(src) /\ d = src.decls
  OBVIOUS
<1>2. /\ m \notin DOMAIN st /\ d \in Declarations /\ Owned(m, d)
      /\ \E n \in Nat : \E sc0 :
           /\ AcceptedBy(st, imports, n) = Accepted(st, imports)
           /\ NameStage(st, imports, n, sc0) /\ FamilyStage(st, imports, n, sc0) /\ TableStage(st, imports, n, sc0)
           /\ Overlaid(sc, sc0, m, d)
  BY <1>1 DEF IsCheck
<1>3. PICK n, sc0 :
        /\ n \in Nat /\ AcceptedBy(st, imports, n) = Accepted(st, imports) /\ FamilyStage(st, imports, n, sc0) /\ TableStage(st, imports, n, sc0)
        /\ Overlaid(sc, sc0, m, d)
  BY <1>2
<1>4. PICK J : J = InstancesBy(st, imports, n)
  OBVIOUS
<1>5. sc0.errors = {}
  BY <1>3 DEF Overlaid
<1>6. sc0.insts = J
  BY <1>3, <1>4, <1>5 DEF TableStage
<1>7. \A i : i \in J <=> \E k \in Accepted(st, imports) : i \in ExportsOf(st, imports, k).insts
  BY <1>3, <1>4 DEF InstancesBy
<1>8. J \cap (d.insts \cup d.hidden) = {}
  <2>1. \A i \in J : i.of \in DOMAIN st
    BY <1>4, InstancesByOthers
  <2>2. \A i \in d.insts \cup d.hidden : i.of = m
    BY <1>2 DEF Owned
  <2> QED BY <1>2, <2>1, <2>2
<1>9. /\ sc.insts = J \cup d.insts \cup d.hidden /\ AreFamilies(sc.families)
      /\ \A i \in d.insts : \A j \in J \cup d.insts : i.pat = j.pat => i = j
      /\ \A x \in DOMAIN sc0.families : Holds(sc.families, x, sc0.families[x])
      /\ \A x \in DOMAIN d.enriched : x \in DOMAIN sc.families /\ Range(d.enriched[x]) \subseteq Range(sc.families[x].eqs)
  BY <1>3, <1>6 DEF Overlaid, InstancesAdded
<1>10. \A k \in Accepted(st, imports) : imports[k].names = <<>> =>
         \A x \in DOMAIN ExportsOf(st, imports, k).families : Holds(sc0.families, x, ExportsOf(st, imports, k).families[x])
  BY <1>3, <1>5 DEF FamilyStage
<1>11. \A k \in Accepted(st, imports) : imports[k].names = <<>> =>
         \A x \in DOMAIN ExportsOf(st, imports, k).families : Holds(sc.families, x, ExportsOf(st, imports, k).families[x])
  BY <1>9, <1>10 DEF Holds
<1>12. \A k, l \in Accepted(st, imports) :
         k # l /\ imports[k].names = <<>> /\ imports[l].names = <<>> => AgreeOn(ExportsOf(st, imports, k), ExportsOf(st, imports, l))
  BY <1>3, <1>5 DEF FamilyStage
<1>13. HoldsImports(st, imports, d, sc, J)
  BY <1>7, <1>8, <1>9, <1>11, <1>12 DEF HoldsImports
<1> QED BY <1>1, <1>13

\* Families have all the equations that were imported or added.
LEMMA FamiliesExact ==
  ASSUME StoreOK(last.store), IsCheck(last.store, last.name, last.src, last.sc)
  PROVE  FamiliesMerged
<1> SUFFICES ASSUME Valid PROVE
    /\ \A d \in Imports_ : d.names = <<>> => \A x \in DOMAIN Ex(d).families :
         x \in DOMAIN last.sc.families /\ Range(Ex(d).families[x].eqs) \subseteq Range(last.sc.families[x].eqs)
    /\ \A x \in DOMAIN last.src.decls.enriched :
         x \in DOMAIN last.sc.families /\ Range(last.src.decls.enriched[x]) \subseteq Range(last.sc.families[x].eqs)
    /\ \A d1, d2 \in {d \in Imports_ : d.names = <<>>} : d1 # d2 =>
         \A x \in DOMAIN Ex(d1).families \cap DOMAIN Ex(d2).families : Agree(Ex(d1).families[x].eqs, Ex(d2).families[x].eqs)
  BY DEF FamiliesMerged
<1>1. PICK st, imports, decls, sc : st = last.store /\ imports = AllImports(last.src) /\ decls = last.src.decls /\ sc = last.sc
  OBVIOUS
<1>2. PICK J : HoldsImports(st, imports, decls, sc, J)
  BY <1>1, ValidScope DEF Valid
<1>3. \A d \in Imports_ : d.names = <<>> => \A x \in DOMAIN Ex(d).families : Holds(sc.families, x, Ex(d).families[x])
  <2> SUFFICES ASSUME NEW d \in Imports_, d.names = <<>>, NEW x \in DOMAIN Ex(d).families PROVE Holds(sc.families, x, Ex(d).families[x])
    OBVIOUS
  <2>1. PICK k \in Accepted(st, imports) : d = imports[k]
    BY <1>1 DEF Imports_
  <2>2. Ex(d) = ExportsOf(st, imports, k)
    BY <1>1, <2>1 DEF Ex, ExportsOf
  <2> QED BY <1>2, <2>1, <2>2 DEF HoldsImports
<1>4. ASSUME NEW d1 \in Imports_, NEW d2 \in Imports_, d1.names = <<>>, d2.names = <<>>, d1 # d2
      PROVE  AgreeOn(Ex(d1), Ex(d2))
  <2>1. PICK k \in Accepted(st, imports), l \in Accepted(st, imports) : d1 = imports[k] /\ d2 = imports[l]
    BY <1>1 DEF Imports_
  <2>2. Ex(d1) = ExportsOf(st, imports, k) /\ Ex(d2) = ExportsOf(st, imports, l) /\ k # l
    BY <1>1, <1>4, <2>1 DEF Ex, ExportsOf
  <2> QED BY <1>2, <1>4, <2>1, <2>2 DEF HoldsImports
<1>5. \A x \in DOMAIN decls.enriched : x \in DOMAIN sc.families /\ Range(decls.enriched[x]) \subseteq Range(sc.families[x].eqs)
  BY <1>2 DEF HoldsImports
<1> QED BY <1>1, <1>3, <1>4, <1>5 DEF Holds, AgreeOn

AreImported(st, imports, ms) == \A m : m \in ms <=> \E k \in Accepted(st, imports) : m = imports[k].mod
AreReached(st, imports, ms) ==
  \A i : (\E k \in Accepted(st, imports) : i \in ExportsOf(st, imports, k).insts)
           <=> \E n \in DependenciesOf(st, ms) : i \in st[n].src.decls.insts

\* The instances of the imports are those of the modules they reach.
LEMMA ImportsReach ==
  ASSUME NEW st, StoreOK(st), NEW imports, NEW ms, AreImported(st, imports, ms)
  PROVE  ms \subseteq DOMAIN st /\ AreReached(st, imports, ms)
<1>1. ms \subseteq DOMAIN st
  BY DEF Accepted, AreImported
<1>2. DepsKnown(st)
  BY DEF StoreOK
<1>3. \A n : n \in DependenciesOf(st, ms) <=> \E m \in ms : n \in DependenciesOf(st, {m})
  BY <1>1, <1>2, DependenciesUnion
<1>4. \A i : (\E k \in Accepted(st, imports) : i \in ExportsOf(st, imports, k).insts) <=> \E m \in ms : i \in Exports(st, m).insts
  BY DEF ExportsOf, AreImported
<1>5. \A m \in ms : \A i : i \in Exports(st, m).insts <=> \E n \in DependenciesOf(st, {m}) : i \in st[n].src.decls.insts
  BY <1>1 DEF StoreOK
<1>6. \A i : (\E m \in ms : i \in Exports(st, m).insts) <=> \E n \in DependenciesOf(st, ms) : i \in st[n].src.decls.insts
  BY <1>3, <1>5
<1> QED BY <1>1, <1>4, <1>6 DEF AreReached

\* The instances in scope are those of the modules reached.
LEMMA InstancesExact ==
  ASSUME StoreOK(last.store), IsCheck(last.store, last.name, last.src, last.sc)
  PROVE  InstancesInScope
<1> SUFFICES ASSUME Valid
             PROVE  /\ last.sc.insts = ReachedInstances \cup last.src.decls.insts \cup last.src.decls.hidden
                    /\ \A i \in last.src.decls.insts : \A j \in ReachedInstances \cup last.src.decls.insts : i.pat = j.pat => i = j
  BY DEF InstancesInScope
<1>1. PICK st, imports, decls, sc : st = last.store /\ imports = AllImports(last.src) /\ decls = last.src.decls /\ sc = last.sc
  OBVIOUS
<1>2. PICK J : HoldsImports(st, imports, decls, sc, J)
  BY <1>1, ValidScope DEF Valid
<1>3. PICK ms : ms = {d.mod : d \in Imports_}
  OBVIOUS
<1>4. AreImported(st, imports, ms)
  <2>1. \A d : d \in Imports_ <=> \E k \in Accepted(st, imports) : d = imports[k]
    BY <1>1 DEF Imports_
  <2> QED BY <1>3, <2>1 DEF AreImported
<1>5. \A i : i \in J <=> \E n \in DependenciesOf(st, ms) : i \in st[n].src.decls.insts
  <2>1. AreReached(st, imports, ms)
    BY <1>1, <1>4, ImportsReach
  <2> QED BY <1>2, <2>1 DEF AreReached, HoldsImports
<1>6. ReachedModules = DependenciesOf(st, ms)
  BY <1>1, <1>3 DEF ReachedModules
<1>7. J = ReachedInstances
  BY <1>1, <1>5, <1>6 DEF ReachedInstances
<1>8. /\ sc.insts = J \cup decls.insts \cup decls.hidden
      /\ \A i \in decls.insts : \A j \in J \cup decls.insts : i.pat = j.pat => i = j
  BY <1>2 DEF HoldsImports
<1> QED BY <1>1, <1>7, <1>8

-----------------------------------------------------------------------------
(* The exports of a module that was checked without errors.                *)

IsExport(ex, st, sc, d) ==
  /\ ex.types = DOMAIN d.types \ Private
  /\ \A c : c \in DOMAIN ex.cons <=> c \in DOMAIN sc.conInfo /\ sc.conInfo[c] \in ex.types /\ c \notin Private
  /\ \A c \in DOMAIN ex.cons : ex.cons[c] = sc.conInfo[c]
  /\ \A x : x \in ex.aliases <=> x \in DOMAIN sc.aliases /\ x \notin Private /\ \A m \in DOMAIN st : x \notin Exports(st, m).aliases
  /\ \A c : c \in DOMAIN ex.classes <=>
              c \in DOMAIN sc.classes /\ c \notin Private /\ \A m \in DOMAIN st : c \notin DOMAIN Exports(st, m).classes
  /\ \A c \in DOMAIN ex.classes : c \in DOMAIN d.classes => ex.classes[c] = d.classes[c]
  /\ ex.insts = sc.insts \ d.hidden
  /\ \A x \in DOMAIN ex.families : x \in DOMAIN sc.families /\ ex.families[x] = sc.families[x]
  /\ OwnConstructors(d) \ Private \subseteq ex.ownedNames

\* The exports, name by name.
LEMMA ExportFields ==
  ASSUME NEW st, NEW sc, NEW d
  PROVE  IsExport(ExportModule(st, sc, d), st, sc, d)
<1>1. PICK ex, types, cons, others, aliases, classes, fams :
        /\ ex = ExportModule(st, sc, d)
        /\ types = DOMAIN d.types \ Private
        /\ cons = {c \in DOMAIN sc.conInfo : sc.conInfo[c] \in types /\ c \notin Private}
        /\ others = {Exports(st, m) : m \in DOMAIN st}
        /\ aliases = filterOwnedMap(DOMAIN sc.aliases, UNION {x.aliases : x \in others})
        /\ classes = filterOwnedMap(DOMAIN sc.classes, UNION {DOMAIN x.classes : x \in others})
        /\ fams = filterOwnedOrEnrichedFamilies(st, sc.families)
  OBVIOUS
<1>2. /\ ex.types = types
      /\ ex.cons = [c \in cons |-> sc.conInfo[c]]
      /\ ex.aliases = aliases
      /\ ex.classes = [c \in classes |-> IF c \in DOMAIN d.classes THEN d.classes[c] ELSE Exports(st, sc.classes[c]).classes[c]]
      /\ ex.insts = sc.insts \ d.hidden
      /\ ex.families = fams
  <2>1. ex.types = types
    BY <1>1 DEF ExportModule
  <2>2. ex.cons = [c \in cons |-> sc.conInfo[c]]
    BY <1>1 DEF ExportModule
  <2>3. ex.aliases = aliases
    BY <1>1 DEF ExportModule
  <2>4. ex.classes = [c \in classes |-> IF c \in DOMAIN d.classes THEN d.classes[c] ELSE Exports(st, sc.classes[c]).classes[c]]
    BY <1>1 DEF ExportModule
  <2>5. ex.insts = sc.insts \ d.hidden
    BY <1>1 DEF ExportModule
  <2>6. ex.families = fams
    BY <1>1 DEF ExportModule
  <2> QED BY <2>1, <2>2, <2>3, <2>4, <2>5, <2>6
<1>3. \A x : x \in aliases <=> x \in DOMAIN sc.aliases /\ x \notin Private /\ \A m \in DOMAIN st : x \notin Exports(st, m).aliases
  BY <1>1 DEF filterOwnedMap
<1>4. \A c : c \in classes <=> c \in DOMAIN sc.classes /\ c \notin Private /\ \A m \in DOMAIN st : c \notin DOMAIN Exports(st, m).classes
  BY <1>1 DEF filterOwnedMap
<1>5. \A x \in DOMAIN fams : x \in DOMAIN sc.families /\ fams[x] = sc.families[x]
  BY <1>1 DEF filterOwnedOrEnrichedFamilies
<1>6. DOMAIN ex.cons = cons /\ DOMAIN ex.classes = classes
  BY <1>2
<1>7. \A c : c \in cons <=> c \in DOMAIN sc.conInfo /\ sc.conInfo[c] \in types /\ c \notin Private
  BY <1>1
<1>8. \A c \in DOMAIN ex.cons : ex.cons[c] = sc.conInfo[c]
  BY <1>2
<1>9. \A c \in DOMAIN ex.classes : c \in DOMAIN d.classes => ex.classes[c] = d.classes[c]
  BY <1>2
<1>10. OwnConstructors(d) \ Private \subseteq ex.ownedNames
  <2>1. ex.ownedNames = types \cup ((UNION {d.types[t] : t \in types}) \ Private)
    BY <1>1 DEF ExportModule
  <2> QED BY <1>1, <2>1 DEF OwnConstructors
<1>11. IsExport(ex, st, sc, d)
  BY <1>1, <1>2, <1>3, <1>4, <1>5, <1>6, <1>7, <1>8, <1>9, <1>10 DEF IsExport
<1> QED BY <1>1, <1>11

\* Exported constructors are declared or from an import.
ExportsConstructors(ex, st, imports, d) ==
  /\ OwnConstructors(d) \ Private \subseteq ex.ownedNames
  /\ \A c \in DOMAIN ex.cons : c \in OwnConstructors(d) \/ \E k \in Accepted(st, imports) : c \in DOMAIN ExportsOf(st, imports, k).cons

\* The exports are fit to be imported, and hold the instances of the imports
\* and the public ones.
LEMMA ExportedOK ==
  ASSUME NEW st, StoreOK(st), NEW m, NEW src, NEW sc, IsCheck(st, m, src, sc), sc.errors = {},
         NEW J, HoldsImports(st, AllImports(src), src.decls, sc, J)
  PROVE  /\ ExportOK(ExportModule(st, sc, src.decls))
         /\ ExportsConstructors(ExportModule(st, sc, src.decls), st, AllImports(src), src.decls)
         /\ ExportModule(st, sc, src.decls).insts = J \cup src.decls.insts
<1>1. PICK imports, d, ex : imports = AllImports(src) /\ d = src.decls /\ ex = ExportModule(st, sc, src.decls)
  OBVIOUS
<1>2. IsExport(ex, st, sc, d)
  BY <1>1, ExportFields
<1>3. HoldsDeclared(st, imports, d, sc)
  BY <1>1, DeclaredScope
<1>4. /\ J \cap (d.insts \cup d.hidden) = {} /\ sc.insts = J \cup d.insts \cup d.hidden
      /\ AreFamilies(sc.families)
  BY <1>1 DEF HoldsImports
<1>5. d \in Declarations /\ d.insts \cap d.hidden = {}
  BY <1>1 DEF IsCheck, Owned
<1>6. ex.insts = J \cup d.insts
  BY <1>2, <1>4, <1>5 DEF IsExport
<1>7. ASSUME NEW c \in DOMAIN ex.cons
      PROVE  /\ c \in AllConstructors /\ ex.cons[c] \in ex.types
             /\ c \in OwnConstructors(d) \/ \E k \in Accepted(st, imports) : c \in DOMAIN ExportsOf(st, imports, k).cons
  <2>1. c \in DOMAIN sc.conInfo /\ ex.cons[c] = sc.conInfo[c] /\ ex.cons[c] \in ex.types /\ ex.types = DOMAIN d.types \ Private
    BY <1>2 DEF IsExport
  <2>2. CASE c \in DOMAIN DeclaredCons(d)
    <3>1. c \in UNION Range(d.types) /\ c \in d.types[DeclaredCons(d)[c]]
      BY <1>5, <2>2, DeclaredConsExact
    <3>2. DeclaredCons(d)[c] \in DOMAIN d.types \ Private
      BY <1>3, <2>1, <2>2 DEF HoldsDeclared
    <3> QED BY <1>5, <2>1, <3>1, <3>2 DEF AllConstructors, OwnConstructors
  <2>3. CASE c \notin DOMAIN DeclaredCons(d)
    <3>1. PICK k \in Accepted(st, imports) : c \in DOMAIN ExportsOf(st, imports, k).cons
      BY <1>3, <2>1, <2>3 DEF HoldsDeclared
    <3>2. PICK n : n = imports[k].mod
      OBVIOUS
    <3>3. n \in DOMAIN st /\ c \in DOMAIN Exports(st, n).cons
      BY <3>1, <3>2 DEF Accepted, ExportsOf
    <3>4. c \in AllConstructors
      BY <3>3 DEF StoreOK, ExportOK
    <3> QED BY <2>1, <3>1, <3>4
  <2> QED BY <2>2, <2>3
<1>8. ASSUME NEW c \in DOMAIN ex.classes PROVE ex.classes[c] \subseteq AllMethods
  <2>1. c \in DOMAIN d.classes
    BY <1>2, <1>3 DEF IsExport, HoldsDeclared
  <2>2. ex.classes[c] = d.classes[c]
    BY <1>2, <2>1 DEF IsExport
  <2>3. d.classes[c] \subseteq MethodsOf(d, DOMAIN d.classes)
    BY <2>1 DEF MethodsOf
  <2> QED BY <1>5, <2>2, <2>3 DEF AllMethods
<1>9. AreFamilies(ex.families)
  BY <1>2, <1>4 DEF IsExport, AreFamilies
<1>10. ExportOK(ex)
  BY <1>7, <1>8, <1>9 DEF ExportOK
<1>11. ExportsConstructors(ex, st, imports, d)
  BY <1>2, <1>7 DEF ExportsConstructors, IsExport
<1> QED BY <1>1, <1>6, <1>10, <1>11

\* A module mod that is registered after its check.
IsModule(mod, st, sc, src) ==
  /\ mod.exports = ExportModule(st, sc, src.decls) /\ mod.src.decls = src.decls
  /\ \A k : k \in Range(mod.deps) <=> \E j \in Accepted(st, AllImports(src)) : k = AllImports(src)[j].mod

\* A store with a new module is as it should be.
LEMMA StoreKept ==
  ASSUME NEW st, StoreOK(st), NEW m, NEW src, NEW sc, IsCheck(st, m, src, sc), sc.errors = {},
         NEW mod, IsModule(mod, st, sc, src)
  PROVE  StoreOK(Stored(st, m, mod))
<1>1. PICK new, imports, d, ex, deps :
        new = Stored(st, m, mod) /\ imports = AllImports(src) /\ d = src.decls /\ ex = mod.exports /\ deps = Range(mod.deps)
  OBVIOUS
<1>2. m \notin DOMAIN st /\ Owned(m, d) /\ DepsKnown(st)
  BY <1>1 DEF IsCheck, StoreOK
<1>3. AreImported(st, imports, deps)
  BY <1>1 DEF IsModule, AreImported
<1>4. deps \subseteq DOMAIN st /\ AreReached(st, imports, deps)
  BY <1>3, ImportsReach
<1>5. /\ DOMAIN new = DOMAIN st \cup {m} /\ new[m] = mod /\ \A n \in DOMAIN st : new[n] = st[n]
      /\ DepsKnown(new)
      /\ \A n \in DOMAIN st : \A k : k \in DependenciesOf(new, {n}) <=> k \in DependenciesOf(st, {n})
      /\ \A k : k \in DependenciesOf(new, {m}) <=> k = m \/ k \in DependenciesOf(st, deps)
  <2>1. Range(mod.deps) \subseteq DOMAIN st
    BY <1>1, <1>4
  <2>2. KeepsDependencies(new, st, m, mod)
    BY <1>1, <1>2, <2>1, StoredDependencies
  <2> QED BY <1>1, <2>2 DEF KeepsDependencies
<1>6. PICK J : HoldsImports(st, imports, d, sc, J)
  BY <1>1, ValidScope
<1>7. ExportOK(ex) /\ ExportsConstructors(ex, st, imports, d) /\ ex.insts = J \cup d.insts
  BY <1>1, <1>6, ExportedOK DEF IsModule
<1>8. \A n \in DOMAIN st : Exports(new, n) = Exports(st, n)
  BY <1>5 DEF Exports
<1>9. Exports(new, m) = ex /\ new[m].src.decls = d
  BY <1>1, <1>5 DEF Exports, IsModule
<1>10. \A n \in DOMAIN new : ExportOK(Exports(new, n))
  BY <1>5, <1>7, <1>8, <1>9 DEF StoreOK
<1>11. ASSUME NEW n \in DOMAIN st
       PROVE  \A i : i \in Exports(new, n).insts <=> \E k \in DependenciesOf(new, {n}) : i \in new[k].src.decls.insts
  <2>1. \A i : i \in Exports(st, n).insts <=> \E k \in DependenciesOf(st, {n}) : i \in st[k].src.decls.insts
    BY DEF StoreOK
  <2>2. \A k \in DependenciesOf(st, {n}) : k \in DOMAIN st /\ new[k] = st[k]
    BY <1>5 DEF DependenciesOf
  <2>3. \A k : k \in DependenciesOf(new, {n}) <=> k \in DependenciesOf(st, {n})
    BY <1>5
  <2> QED BY <1>8, <2>1, <2>2, <2>3
<1>12. \A i : i \in Exports(new, m).insts <=> \E k \in DependenciesOf(new, {m}) : i \in new[k].src.decls.insts
  <2>1. \A i : i \in J <=> \E k \in DependenciesOf(st, deps) : i \in st[k].src.decls.insts
    BY <1>4, <1>6 DEF AreReached, HoldsImports
  <2>2. \A k \in DependenciesOf(st, deps) : k \in DOMAIN st /\ new[k] = st[k]
    BY <1>5 DEF DependenciesOf
  <2>3. \A k : k \in DependenciesOf(new, {m}) <=> k = m \/ k \in DependenciesOf(st, deps)
    BY <1>5
  <2> QED BY <1>7, <1>9, <2>1, <2>2, <2>3
<1>13. \A n \in DOMAIN new : \A i \in new[n].src.decls.insts : i.of = n
  <2>1. \A i \in d.insts : i.of = m
    BY <1>2 DEF Owned
  <2> QED BY <1>5, <1>9, <2>1 DEF StoreOK
<1>14. \A n \in DOMAIN new : \A i : i \in Exports(new, n).insts <=> \E k \in DependenciesOf(new, {n}) : i \in new[k].src.decls.insts
  BY <1>5, <1>11, <1>12
<1>15. ASSUME NEW n \in DOMAIN st PROVE ConstructorsFrom(new, n)
  <2>1. ConstructorsFrom(st, n) /\ Range(st[n].deps) \subseteq DOMAIN st
    BY <1>2 DEF StoreOK, DepsKnown
  <2> QED BY <1>5, <1>8, <2>1 DEF ConstructorsFrom
<1>16. ConstructorsFrom(new, m)
  <2>1. \A c : (\E k \in Accepted(st, imports) : c \in DOMAIN ExportsOf(st, imports, k).cons) => \E n \in deps : c \in DOMAIN Exports(st, n).cons
    BY <1>3 DEF AreImported, ExportsOf
  <2>2. Range(new[m].deps) = deps
    BY <1>1, <1>5
  <2> QED BY <1>4, <1>7, <1>8, <1>9, <2>1, <2>2 DEF ConstructorsFrom, ExportsConstructors
<1>17. StoreOK(new)
  BY <1>5, <1>10, <1>13, <1>14, <1>15, <1>16 DEF StoreOK
<1> QED BY <1>1, <1>17

\* ExportsOwn of any modules.
TypeLevelNames(ex) == ex.aliases \cup DOMAIN ex.classes \cup ex.types
OtherNames(st, m) == UNION {TypeLevelNames(Exports(st, n)) : n \in DOMAIN st \ {m}}

OwnExports(ex, d, others) ==
  /\ ex.aliases \subseteq d.aliases /\ DOMAIN ex.classes \subseteq DOMAIN d.classes
  /\ (d.aliases \cup DOMAIN d.classes) \ (others \cup Private) \subseteq ex.aliases \cup DOMAIN ex.classes
  /\ DOMAIN d.types \cap others = {} => DOMAIN ex.cons = (UNION {d.types[t] : t \in DOMAIN d.types \ Private}) \ Private

AllOwn(st) == \A m \in DOMAIN st : OwnExports(Exports(st, m), st[m].src.decls, OtherNames(st, m))

\* AllOwn of the store is ExportsOwn.
LEMMA ExportsOwnOf ==
  AllOwn(store) <=> ExportsOwn
<1>1. \A m : OtherNames(store, m) = OthersExport(m)
  BY DEF OtherNames, OthersExport, TypeLevelNames
<1> QED BY <1>1 DEF AllOwn, OwnExports, ExportsOwn

\* Exports are a module's own, also those of an erroneous one.
LEMMA ExportedOwn ==
  ASSUME NEW st, StoreOK(st), NEW m, NEW src, NEW sc, IsCheck(st, m, src, sc),
         NEW others, others = OtherNames(st, m)
  PROVE  OwnExports(ExportModule(st, sc, src.decls), src.decls, others)
<1>1. PICK imports, d, ex : imports = AllImports(src) /\ d = src.decls /\ ex = ExportModule(st, sc, src.decls)
  OBVIOUS
<1>2. IsExport(ex, st, sc, d)
  BY <1>1, ExportFields
<1>3. HoldsDeclared(st, imports, d, sc) /\ m \notin DOMAIN st /\ d \in Declarations
  BY <1>1, DeclaredScope DEF IsCheck
<1>4. \A n \in DOMAIN st : TypeLevelNames(Exports(st, n)) \subseteq others
  BY <1>3 DEF OtherNames
<1>5. \A x : x \in others <=> \E n \in DOMAIN st : x \in TypeLevelNames(Exports(st, n))
  BY <1>3 DEF OtherNames
<1>6. ex.aliases \subseteq d.aliases /\ DOMAIN ex.classes \subseteq DOMAIN d.classes
  BY <1>2, <1>3 DEF IsExport, HoldsDeclared
<1>7. ASSUME NEW x \in d.aliases \cup DOMAIN d.classes, x \notin others, x \notin Private PROVE x \in ex.aliases \cup DOMAIN ex.classes
  <2>1. \A n \in DOMAIN st : x \notin Exports(st, n).aliases /\ x \notin DOMAIN Exports(st, n).classes
    BY <1>4, <1>7 DEF TypeLevelNames
  <2>2. x \in DOMAIN sc.aliases \/ x \in DOMAIN sc.classes
    BY <1>3, <1>7 DEF HoldsDeclared
  <2> QED BY <1>2, <1>7, <2>1, <2>2 DEF IsExport
<1>8. ASSUME DOMAIN d.types \cap others = {}
      PROVE  \A c : c \in DOMAIN ex.cons <=> (\E t \in DOMAIN d.types \ Private : c \in d.types[t]) /\ c \notin Private
  <2>1. /\ \A t \in DOMAIN d.types : \A c \in d.types[t] : c \in DOMAIN DeclaredCons(d) /\ DeclaredCons(d)[c] = t
        /\ \A c \in DOMAIN DeclaredCons(d) : DeclaredCons(d)[c] \in DOMAIN d.types /\ c \in d.types[DeclaredCons(d)[c]]
    BY <1>3, DeclaredConsExact
  <2>2. \A c \in DOMAIN DeclaredCons(d) : c \in DOMAIN sc.conInfo /\ sc.conInfo[c] = DeclaredCons(d)[c]
    BY <1>3 DEF HoldsDeclared
  <2>3. ASSUME NEW c \in DOMAIN sc.conInfo, sc.conInfo[c] \in DOMAIN d.types PROVE c \in DOMAIN DeclaredCons(d)
    <3> SUFFICES ASSUME c \notin DOMAIN DeclaredCons(d) PROVE FALSE
      OBVIOUS
    <3>1. PICK k \in Accepted(st, imports) : c \in DOMAIN ExportsOf(st, imports, k).cons /\ sc.conInfo[c] = ExportsOf(st, imports, k).cons[c]
      BY <1>3, <2>3 DEF HoldsDeclared
    <3>4. PICK n : n = imports[k].mod
      OBVIOUS
    <3>5. n \in DOMAIN st /\ c \in DOMAIN Exports(st, n).cons /\ sc.conInfo[c] = Exports(st, n).cons[c]
      BY <3>1, <3>4 DEF Accepted, ExportsOf
    <3>2. sc.conInfo[c] \in Exports(st, n).types
      BY <3>5 DEF StoreOK, ExportOK
    <3>3. sc.conInfo[c] \in others
      BY <1>4, <3>2, <3>5 DEF TypeLevelNames
    <3> QED BY <1>8, <2>3, <3>3
  <2>4. \A c : c \in DOMAIN ex.cons <=> c \in DOMAIN sc.conInfo /\ sc.conInfo[c] \in DOMAIN d.types \ Private /\ c \notin Private
    BY <1>2 DEF IsExport
  <2> QED BY <2>1, <2>2, <2>3, <2>4
<1>9. OwnExports(ex, d, others)
  <2>1. PICK decls : decls = (UNION {d.types[t] : t \in DOMAIN d.types \ Private}) \ Private
    OBVIOUS
  <2>2. \A c : c \in decls <=> (\E t \in DOMAIN d.types \ Private : c \in d.types[t]) /\ c \notin Private
    BY <2>1
  <2>3. DOMAIN d.types \cap others = {} => DOMAIN ex.cons = decls
    BY <1>8, <2>2
  <2> QED BY <1>6, <1>7, <2>1, <2>3 DEF OwnExports
<1> QED BY <1>1, <1>9

\* A new module leaves the exports of the others their own.
LEMMA OwnKept ==
  ASSUME NEW st, StoreOK(st), AllOwn(st), NEW m, NEW src, NEW sc, IsCheck(st, m, src, sc),
         NEW mod, IsModule(mod, st, sc, src)
  PROVE  AllOwn(Stored(st, m, mod))
<1>1. PICK new : new = Stored(st, m, mod)
  OBVIOUS
<1>2. DOMAIN new = DOMAIN st \cup {m} /\ new[m] = mod /\ m \notin DOMAIN st /\ \A n \in DOMAIN st : new[n] = st[n]
  BY <1>1 DEF Stored, Over, From, IsCheck
<1>3. ASSUME NEW n \in DOMAIN st PROVE OwnExports(Exports(new, n), new[n].src.decls, OtherNames(new, n))
  <2>1. Exports(new, n) = Exports(st, n) /\ new[n].src.decls = st[n].src.decls
    BY <1>2 DEF Exports
  <2>2. OwnExports(Exports(st, n), st[n].src.decls, OtherNames(st, n))
    BY DEF AllOwn
  <2>3. OtherNames(st, n) \subseteq OtherNames(new, n)
    BY <1>2 DEF OtherNames, Exports
  <2> QED BY <2>1, <2>2, <2>3 DEF OwnExports
<1>4. OwnExports(Exports(new, m), new[m].src.decls, OtherNames(new, m))
  <2>1. OtherNames(new, m) = OtherNames(st, m)
    BY <1>2 DEF OtherNames, Exports
  <2>2. Exports(new, m) = ExportModule(st, sc, src.decls) /\ new[m].src.decls = src.decls
    BY <1>2 DEF Exports, IsModule
  <2> QED BY <2>1, <2>2, ExportedOwn
<1>5. AllOwn(new)
  BY <1>2, <1>3, <1>4 DEF AllOwn
<1> QED BY <1>1, <1>5

-----------------------------------------------------------------------------
(* The texts.                                                              *)

\* The imports of a text, with Core's.
LEMMA AllImportsOK ==
  ASSUME NEW src \in Texts
  PROVE  ImportsOK(AllImports(src))
<1>1. PICK imports : imports = src.imports
  OBVIOUS
<1>2. IsSequence(imports) /\ \A d \in Range(imports) : DeclOK(d)
  BY <1>1, ScopeAssumption DEF ScopeAssumption, TextsAssumption, DeclOK, ItemOK
<1>3. CASE \E i \in DOMAIN imports : imports[i].mod = Core
  BY <1>1, <1>2, <1>3 DEF AllImports, injectCoreImport, ImportsOK
<1>4. CASE ~\E i \in DOMAIN imports : imports[i].mod = Core
  <2>1. PICK core : core = [mod |-> Core, alias |-> 0, names |-> <<>>]
    OBVIOUS
  <2>2. PICK all : all = <<core>> \o imports
    OBVIOUS
  <2>3. AllImports(src) = all
    BY <1>1, <1>4, <2>1, <2>2 DEF AllImports, injectCoreImport
  <2>4. DeclOK(core)
    BY <2>1 DEF DeclOK
  <2>5. PICK D : D = Range(imports) \cup {core}
    OBVIOUS
  <2>6. imports \in Seq(D) /\ <<core>> \in Seq(D)
    BY <1>2, <2>5 DEF IsSequence
  <2>7. /\ Len(all) = 1 + Len(imports) /\ Len(imports) \in Nat /\ DOMAIN imports = 1..Len(imports) /\ DOMAIN all = 1..Len(all)
        /\ all[1] = core /\ \A i \in 1..Len(imports) : all[i + 1] = imports[i]
    BY <2>2, <2>6
  <2>8. ASSUME NEW i \in DOMAIN all PROVE all[i] \in Range(all) /\ DeclOK(all[i])
    <3>1. all[i] \in Range(all)
      BY DEF Range
    <3>2. CASE i = 1
      BY <2>4, <2>7, <3>1, <3>2
    <3>3. CASE i # 1
      <4>1. i - 1 \in 1..Len(imports) /\ i - 1 + 1 = i
        BY <2>7, <3>3
      <4>2. all[i] = imports[i - 1]
        BY <2>7, <4>1
      <4> QED BY <1>2, <2>7, <3>1, <4>1, <4>2 DEF Range
    <3> QED BY <3>2, <3>3
  <2>9. all = [i \in 1..Len(all) |-> all[i]] /\ Len(all) \in Nat
    BY <2>2, <2>6
  <2>10. all \in Seq(Range(all))
    BY <2>7, <2>8, <2>9
  <2>11. \A d \in Range(all) : DeclOK(d)
    BY <2>8 DEF Range
  <2> QED BY <2>3, <2>10, <2>11 DEF ImportsOK, IsSequence
<1> QED BY <1>3, <1>4

\* The scope of a text that is checked against registered modules.
LEMMA CheckedScopeExact ==
  ASSUME NEW st, StoreOK(st), NEW m \in ModuleNames, m \notin DOMAIN st, NEW src \in Sources[m], NEW sc, sc = CheckedScope(st, m, src)
  PROVE  /\ IsCheck(st, m, src, sc)
         /\ sc.errors = {} => IsModule(Compiled(sc, st, src), st, sc, src)
<1>1. PICK imports, d, n : imports = AllImports(src) /\ d = src.decls /\ n = Len(imports)
  OBVIOUS
<1>2. src \in Texts /\ d \in Declarations /\ Owned(m, d)
  BY <1>1, ScopeAssumption DEF Texts, Declarations, ScopeAssumption, InstancesAssumption
<1>3. ImportsOK(imports)
  BY <1>1, <1>2, AllImportsOK
<1>4. n \in Nat /\ DOMAIN imports = 1..n
  BY <1>1, <1>3 DEF ImportsOK, IsSequence
<1>5. PICK sc0 : sc0 = Import(st, imports)
  OBVIOUS
<1>6. Stage(st, imports, n, sc0)
  BY <1>1, <1>3, <1>5, ImportExact DEF StoreOK
<1>7. AcceptedBy(st, imports, n) = Accepted(st, imports)
  BY <1>4 DEF AcceptedBy, Accepted
<1>8. sc = Declare(sc0, m, d)
  BY <1>1, <1>5 DEF CheckedScope
<1>9. IsScope(sc0) /\ NameStage(st, imports, n, sc0) /\ TableStage(st, imports, n, sc0) /\ FamilyStage(st, imports, n, sc0)
  BY <1>6 DEF Stage
<1>10. Overlaid(sc, sc0, m, d)
  BY <1>2, <1>8, <1>9, DeclareExact DEF FamilyStage
<1>11. IsCheck(st, m, src, sc)
  BY <1>1, <1>2, <1>4, <1>7, <1>9, <1>10 DEF IsCheck
<1>12. ASSUME sc.errors = {} PROVE IsModule(Compiled(sc, st, src), st, sc, src)
  <2>1. sc0.errors = {}
    BY <1>10, <1>12 DEF Overlaid
  <2>2. Accepted(st, imports) = 1..n
    BY <1>4, <1>9, <2>1 DEF TableStage, Accepted
  <2>3. PICK mod : mod = Compiled(sc, st, src)
    OBVIOUS
  <2>4. mod.exports = ExportModule(st, sc, src.decls) /\ mod.src.decls = src.decls /\ mod.deps = [i \in 1..n |-> imports[i].mod]
    BY <1>1, <1>4, <2>3 DEF Compiled, Deps
  <2>5. \A k : k \in Range(mod.deps) <=> \E j \in 1..n : k = imports[j].mod
    BY <2>4 DEF Range
  <2> QED BY <1>1, <2>2, <2>3, <2>4, <2>5 DEF IsModule
<1> QED BY <1>11, <1>12

-----------------------------------------------------------------------------
(* The inductive invariant.                                                *)

IInv ==
  /\ (Valid => StoreOK(store)) /\ AllOwn(store)
  /\ StoreOK(last.store) /\ IsCheck(last.store, last.name, last.src, last.sc)

\* The store before Core.
LEMMA NothingStored ==
  StoreOK(NoMap) /\ AllOwn(NoMap) /\ \A imports : Accepted(NoMap, imports) = {}
<1>1. PICK st : st = NoMap
  OBVIOUS
<1>2. DOMAIN st = {}
  BY <1>1 DEF NoMap
<1>3. StoreOK(st)
  BY <1>2 DEF StoreOK, DepsKnown
<1>4. AllOwn(st)
  BY <1>2 DEF AllOwn
<1>5. \A imports : Accepted(st, imports) = {}
  BY <1>2 DEF Accepted
<1> QED BY <1>1, <1>3, <1>4, <1>5

\* Core is checked against no module and imports none.
LEMMA CoreExact ==
  ASSUME NEW src, src = [imports |-> <<>>, decls |-> CoreDecls]
  PROVE  IsCheck(NoMap, Core, src, CoreScope) /\ IsModule(CoreModule, NoMap, CoreScope, src)
<1>1. PICK st, imports, d, sc, sc0, mod :
        /\ st = NoMap /\ imports = AllImports(src) /\ d = CoreDecls /\ sc = CoreScope /\ sc0 = EmptyScope /\ mod = CoreModule
  OBVIOUS
<1>2. DOMAIN st = {} /\ Accepted(st, imports) = {}
  BY <1>1, NothingStored DEF NoMap
<1>3. AcceptedBy(st, imports, 0) = {}
  BY <1>2 DEF AcceptedBy
<1>4. Stage(st, imports, 0, sc0)
  <2>1. Accepted(st, imports) \subseteq Nat \ {0}
    BY <1>2
  <2> QED BY <1>1, <2>1, EmptyStage
<1>5. IsScope(sc0) /\ NameStage(st, imports, 0, sc0) /\ TableStage(st, imports, 0, sc0) /\ FamilyStage(st, imports, 0, sc0)
  BY <1>4 DEF Stage
<1>6. d \in Declarations /\ Owned(Core, d) /\ src.decls = d
  BY <1>1, ScopeAssumption DEF Declarations, ScopeAssumption, InstancesAssumption
<1>7. sc = Declare(sc0, Core, d)
  BY <1>1 DEF CoreScope
<1>8. Overlaid(sc, sc0, Core, d)
  BY <1>5, <1>6, <1>7, DeclareExact DEF FamilyStage
<1>9. IsCheck(st, Core, src, sc)
  BY <1>1, <1>2, <1>3, <1>5, <1>6, <1>8 DEF IsCheck
<1>10. IsModule(mod, st, sc, src)
  <2>1. mod.exports = ExportModule(st, sc, d) /\ mod.src.decls = d /\ mod.deps = <<>>
    BY <1>1 DEF CoreModule
  <2>2. Range(mod.deps) = {}
    BY <2>1 DEF Range
  <2> QED BY <1>1, <1>2, <1>6, <2>1, <2>2 DEF IsModule
<1> QED BY <1>1, <1>9, <1>10

\* The invariant holds when Core is registered.
LEMMA InitHolds ==
  ASSUME ScopeInit
  PROVE  IInv
<1>1. PICK src : src = [imports |-> <<>>, decls |-> CoreDecls]
  OBVIOUS
<1>2. IsCheck(NoMap, Core, src, CoreScope) /\ IsModule(CoreModule, NoMap, CoreScope, src)
  BY <1>1, CoreExact
<1>3. last.store = NoMap /\ last.name = Core /\ last.src = src /\ last.sc = CoreScope
  BY <1>1 DEF ScopeInit, CoreModule
<1>4. store = Stored(NoMap, Core, CoreModule)
  BY DEF ScopeInit, CoreStore
<1>5. StoreOK(NoMap) /\ AllOwn(NoMap)
  BY NothingStored
<1>6. AllOwn(store)
  BY <1>2, <1>4, <1>5, OwnKept
<1>7. Valid => StoreOK(store)
  BY <1>2, <1>3, <1>4, <1>5, StoreKept DEF Valid
<1> QED BY <1>2, <1>3, <1>5, <1>6, <1>7 DEF IInv

\* Registering a module keeps the invariant, also when its text has errors.
LEMMA RegisterKeeps ==
  ASSUME IInv, last.sc.errors = {}, NEW m \in ModuleNames, NEW src \in Sources[m], RegisterModule(m, src)
  PROVE  IInv'
<1>1. PICK sc : /\ sc = CheckedScope(store, m, src)
                /\ last' = [store |-> store, name |-> m, src |-> src, sc |-> sc]
                /\ store' = IF sc.errors = {} THEN Stored(store, m, Compiled(sc, store, src)) ELSE store
  BY DEF RegisterModule
<1>2. m \notin DOMAIN store /\ StoreOK(store) /\ AllOwn(store)
  BY DEF RegisterModule, IInv, Valid
<1>3. IsCheck(store, m, src, sc) /\ (sc.errors = {} => IsModule(Compiled(sc, store, src), store, sc, src))
  BY <1>1, <1>2, CheckedScopeExact
<1>4. StoreOK(store') /\ AllOwn(store')
  <2>1. CASE sc.errors = {}
    BY <1>1, <1>2, <1>3, <2>1, StoreKept, OwnKept
  <2>2. CASE sc.errors # {}
    BY <1>1, <1>2, <2>2
  <2> QED BY <2>1, <2>2
<1>5. last'.store = store /\ last'.name = m /\ last'.src = src /\ last'.sc = sc
  BY <1>1
<1>6. StoreOK(last'.store) /\ IsCheck(last'.store, last'.name, last'.src, last'.sc)
  BY <1>2, <1>3, <1>5
<1>7. AllOwn(store)' = AllOwn(store') /\ StoreOK(store)' = StoreOK(store')
  OBVIOUS
<1> QED BY <1>4, <1>6, <1>7 DEF IInv

\* Every step keeps the invariant.
LEMMA StepKeeps ==
  IInv /\ [ScopeNext]_scopeVars => IInv'
<1> SUFFICES ASSUME IInv, [ScopeNext]_scopeVars PROVE IInv'
  OBVIOUS
<1>1. CASE ScopeNext
  <2>1. last.sc.errors = {} /\ \E m \in ModuleNames : \E src \in Sources[m] : RegisterModule(m, src)
    BY <1>1 DEF ScopeNext
  <2>2. PICK m \in ModuleNames : \E src \in Sources[m] : RegisterModule(m, src)
    BY <2>1
  <2>3. PICK src \in Sources[m] : RegisterModule(m, src)
    BY <2>2
  <2> QED BY <2>1, <2>3, RegisterKeeps
<1>2. CASE UNCHANGED scopeVars
  BY <1>2 DEF scopeVars, IInv, Valid
<1> QED BY <1>1, <1>2

\* The invariant gives what is wanted of scopes.
LEMMA IInvExact ==
  IInv => ScopesExact
<1> SUFFICES ASSUME IInv PROVE ScopesExact
  OBVIOUS
<1>1. StoreOK(last.store) /\ IsCheck(last.store, last.name, last.src, last.sc) /\ AllOwn(store)
  BY DEF IInv
<1>2. ScopeJustified /\ ClashesReported
  BY <1>1, NamesExact
<1>3. MethodsKeepTheirClass
  BY <1>1, MethodsExact
<1>4. FamiliesMerged
  BY <1>1, FamiliesExact
<1>5. InstancesInScope
  BY <1>1, InstancesExact
<1>6. ExportsOwn
  BY <1>1, ExportsOwnOf
<1> QED BY <1>2, <1>3, <1>4, <1>5, <1>6 DEF ScopesExact

-----------------------------------------------------------------------------
(* The theorems.                                                           *)

\* The registered modules and the scope checked last are always as the
\* imports and the declarations make them (checker.go, modscope, export.go):
\* the inductive invariant, from which the next theorem follows.
THEOREM RegisteredModulesAreFit ==
  ScopeSpec => []IInv
<1>1. ScopeInit => IInv
  BY InitHolds
<1> QED BY <1>1, StepKeeps, PTL DEF ScopeSpec

\* Whatever modules are registered, in whatever order and with whatever
\* imports: a value in scope comes from a module whose import brings it; of
\* several that bring it one redeclares a value of its own imports, or a clash
\* is reported; a method comes with its class; families have the equations of
\* every module imported, and these contradict each other nowhere; the
\* instances in scope are those of the modules reached, and the module's own
\* overlap none of them; exports are the module's own (import.go, registry.go,
\* instance.go, export.go).
THEOREM ScopesAreExact ==
  ScopeSpec => []ScopesExact
<1>1. IInv => ScopesExact
  BY IInvExact
<1> QED BY <1>1, RegisteredModulesAreFit, PTL

\* A module that is registered later changes neither a registered one nor what
\* that one depends on: a check reads the same of it at any time (checker.go,
\* the module store of the engine).
Settled(m) ==
  /\ m \in DOMAIN store' /\ store'[m] = store[m]
  /\ \A k : k \in DependenciesOf(store', {m}) <=> k \in DependenciesOf(store, {m})

THEOREM RegisteredModulesAreSettled ==
  ScopeSpec => [][\A m \in DOMAIN store : Settled(m)]_scopeVars
<1>1. IInv /\ [ScopeNext]_scopeVars => [\A m \in DOMAIN store : Settled(m)]_scopeVars
  <2> SUFFICES ASSUME IInv, ScopeNext, NEW n \in DOMAIN store PROVE Settled(n)
    OBVIOUS
  <2>1. last.sc.errors = {} /\ \E m \in ModuleNames : \E src \in Sources[m] : RegisterModule(m, src)
    BY DEF ScopeNext
  <2>2. PICK m \in ModuleNames : \E src \in Sources[m] : RegisterModule(m, src)
    BY <2>1
  <2>3. PICK src \in Sources[m] : RegisterModule(m, src)
    BY <2>2
  <2>4. PICK sc : /\ sc = CheckedScope(store, m, src)
                  /\ store' = IF sc.errors = {} THEN Stored(store, m, Compiled(sc, store, src)) ELSE store
    BY <2>3 DEF RegisterModule
  <2>5. m \notin DOMAIN store /\ StoreOK(store)
    BY <2>1, <2>3 DEF RegisterModule, IInv, Valid
  <2>6. CASE sc.errors # {}
    BY <2>4, <2>6 DEF Settled
  <2>7. CASE sc.errors = {}
    <3>1. PICK mod : mod = Compiled(sc, store, src)
      OBVIOUS
    <3>2. IsModule(mod, store, sc, src)
      BY <2>4, <2>5, <2>7, <3>1, CheckedScopeExact
    <3>3. Range(mod.deps) \subseteq DOMAIN store
      BY <3>2 DEF IsModule, Accepted
    <3>4. KeepsDependencies(Stored(store, m, mod), store, m, mod)
      BY <2>5, <3>3, StoredDependencies DEF StoreOK
    <3> QED BY <2>4, <2>7, <3>1, <3>4 DEF Settled, KeepsDependencies
  <2> QED BY <2>6, <2>7
<1> QED BY <1>1, RegisteredModulesAreFit, PTL DEF ScopeSpec

\* The order in which a module lists its imports matters for none of the
\* values in scope and of the instances; it may matter for where a value is
\* from, unless all modules that bring it own it (import.go:172-186).
THEOREM ImportsInAnyOrder ==
  ASSUME NEW st, StoreOK(st), NEW a, NEW b, ImportsOK(a), ImportsOK(b), Range(a) = Range(b),
         NEW sa, NEW sb, sa = Import(st, a), sb = Import(st, b), sa.errors = {}, sb.errors = {}
  PROVE  /\ DOMAIN sa.vals = DOMAIN sb.vals /\ sa.insts = sb.insts
         /\ \A x \in DOMAIN sa.vals \ Private :
              (\A d \in Range(a) : x \in Brought(Exports(st, d.mod), d) => Owns(st, "ns", d.mod, x)) => sa.vals[x] = sb.vals[x]
<1> DEFINE Brings(x) == {d.mod : d \in {e \in Range(a) : x \in Brought(Exports(st, e.mod), e)}}
           Brought_ == UNION {Exports(st, d.mod).insts : d \in Range(a)}
<1>1. ASSUME NEW is, NEW sc, ImportsOK(is), Range(is) = Range(a), sc = Import(st, is), sc.errors = {}
      PROVE  /\ \A x : x \in DOMAIN sc.vals <=> Brings(x) # {}
             /\ \A x \in DOMAIN sc.vals : sc.vals[x] \in Brings(x)
             /\ sc.insts = Brought_
             /\ \A x : x \notin Private => \A m1, m2 \in Brings(x) : m1 # m2 => \E m \in Brings(x) : ~Owns(st, "ns", m, x)
  <2>1. PICK n : n = Len(is)
    OBVIOUS
  <2>2. n \in Nat /\ DOMAIN is = 1..n
    BY <1>1, <2>1 DEF ImportsOK, IsSequence
  <2>3. Stage(st, is, n, sc)
    BY <1>1, <2>1, ImportExact DEF StoreOK
  <2>4. AcceptedBy(st, is, n) = 1..n
    BY <1>1, <2>2, <2>3 DEF Stage, TableStage, AcceptedBy, Accepted
  <2>5. \A d : d \in Range(a) <=> \E k \in 1..n : d = is[k]
    BY <1>1, <2>2 DEF Range
  <2>6. \A x : \A m : m \in BringersBy(st, is, n, x) <=> \E k \in 1..n : x \in Brought(Exports(st, is[k].mod), is[k]) /\ m = is[k].mod
    BY <2>4 DEF BringersBy, ExportsOf
  <2>7. \A x : \A m : m \in Brings(x) <=> \E d \in Range(a) : x \in Brought(Exports(st, d.mod), d) /\ m = d.mod
    OBVIOUS
  <2>8. ASSUME NEW x PROVE BringersBy(st, is, n, x) = Brings(x)
    <3>1. \A m : m \in BringersBy(st, is, n, x) <=> m \in Brings(x)
      <4> HIDE DEF Brings
      <4> QED BY <2>5, <2>6, <2>7
    <3> QED BY <3>1
  <2>9. InstancesBy(st, is, n) = Brought_
    <3>1. \A i : i \in InstancesBy(st, is, n) <=> \E k \in 1..n : i \in Exports(st, is[k].mod).insts
      BY <2>4 DEF InstancesBy, ExportsOf
    <3>2. \A i : i \in Brought_ <=> \E d \in Range(a) : i \in Exports(st, d.mod).insts
      OBVIOUS
    <3>3. \A i : i \in InstancesBy(st, is, n) <=> i \in Brought_
      <4> HIDE DEF Brought_
      <4> QED BY <2>5, <3>1, <3>2
    <3> QED BY <3>3
  <2>10. sc.insts = Brought_
    BY <1>1, <2>3, <2>9 DEF Stage, TableStage
  <2>11. NameStage(st, is, n, sc)
    BY <2>3 DEF Stage
  <2> HIDE DEF Brings, Brought_
  <2> QED BY <1>1, <2>8, <2>10, <2>11 DEF NameStage
<1>2. /\ \A x : x \in DOMAIN sa.vals <=> Brings(x) # {}
      /\ \A x \in DOMAIN sa.vals : sa.vals[x] \in Brings(x)
      /\ sa.insts = Brought_
      /\ \A x : x \notin Private => \A m1, m2 \in Brings(x) : m1 # m2 => \E m \in Brings(x) : ~Owns(st, "ns", m, x)
  <2> HIDE DEF Brings, Brought_
  <2> QED BY <1>1
<1>3. /\ \A x : x \in DOMAIN sb.vals <=> Brings(x) # {}
      /\ \A x \in DOMAIN sb.vals : sb.vals[x] \in Brings(x)
      /\ sb.insts = Brought_
  <2> HIDE DEF Brings, Brought_
  <2> QED BY <1>1
<1>4. DOMAIN sa.vals = DOMAIN sb.vals /\ sa.insts = sb.insts
  <2> HIDE DEF Brings, Brought_
  <2> QED BY <1>2, <1>3
<1>5. ASSUME NEW x \in DOMAIN sa.vals \ Private, \A d \in Range(a) : x \in Brought(Exports(st, d.mod), d) => Owns(st, "ns", d.mod, x)
      PROVE  sa.vals[x] = sb.vals[x]
  <2>1. \A m \in Brings(x) : Owns(st, "ns", m, x)
    BY <1>5
  <2> HIDE DEF Brings, Brought_
  <2> QED BY <1>2, <1>3, <1>4, <1>5, <2>1
<1> QED BY <1>4, <1>5

=============================================================================
