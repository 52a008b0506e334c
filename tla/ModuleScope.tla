------------------------------ MODULE ModuleScope ------------------------------
(***************************************************************************)
(* Modules checked one after another: what an import brings into scope     *)
(* (internal/compiler/check/modscope), what a module exports (export.go),  *)
(* how the registry merges the equations of families.                      *)
(*                                                                         *)
(* A source is [imports, decls].  An import is [mod, alias, names]: alias 0*)
(* and names <<>> for an open import; a selective one has the sequence of  *)
(* its items [name, subs, list] in a sequence of one.  Declarations are    *)
(* [values, types, aliases, classes, families, enriched, insts, hidden]:   *)
(* types maps to sets of constructors, classes to sets of methods (values  *)
(* of their own), families to [class, eqs] with class 0 for a closed one,  *)
(* insts and hidden are the public and the private instances [of, pat] (of *)
(* the module, for a class and the types pat), enriched adds the equations *)
(* of instances to associated types in scope.                              *)
(***************************************************************************)
EXTENDS Integers, FiniteSets, Sequences, Functions

CONSTANTS
  ModuleNames, \* the modules that can be registered
  Core,        \* the module every other one imports
  CoreDecls,   \* its declarations
  Sources,     \* the texts a module of a name can have, by name
  Private      \* the private names

VARIABLES
  store, \* the registered modules: exports, dependencies and source
  last   \* the check that ended last: its store, name, source and scope

scopeVars == <<store, last>>

(* The texts.  Constructors and methods are told apart by their first      *)
(* letter; no constructor has two types; an instance names its module.     *)
Texts == UNION {Sources[m] : m \in ModuleNames}
Declarations == {src.decls : src \in Texts} \cup {CoreDecls}

IsSequence(s) == s \in Seq(Range(s))
IsEquations(eqs) == IsSequence(eqs) /\ \A e \in Range(eqs) : e = [pat |-> e.pat, rhs |-> e.rhs]

TextsAssumption ==
  /\ Core \notin ModuleNames
  /\ \A src \in Texts : IsSequence(src.imports) /\ \A d \in Range(src.imports) : d.names # <<>> =>
       IsSequence(d.names[1]) /\ \A item \in Range(d.names[1]) : item.subs \in {"bare", "all", "some"}

NamesAssumption ==
  \A d \in Declarations :
    /\ \A t1, t2 \in DOMAIN d.types : t1 # t2 => d.types[t1] \cap d.types[t2] = {}
    /\ \A e \in Declarations : \A t \in DOMAIN d.types : \A c \in DOMAIN e.classes : d.types[t] \cap e.classes[c] = {}

Owned(m, d) == (\A i \in d.insts \cup d.hidden : i.of = m) /\ d.insts \cap d.hidden = {}
InstancesAssumption == Owned(Core, CoreDecls) /\ \A m \in ModuleNames : \A src \in Sources[m] : Owned(m, src.decls)

FamiliesAssumption ==
  \A d \in Declarations :
    /\ \A x \in DOMAIN d.families :
         d.families[x] = [class |-> d.families[x].class, eqs |-> d.families[x].eqs] /\ IsEquations(d.families[x].eqs)
    /\ \A x \in DOMAIN d.enriched : IsEquations(d.enriched[x])

ASSUME ScopeAssumption == TextsAssumption /\ NamesAssumption /\ InstancesAssumption /\ FamiliesAssumption

--------------------------------------------------------------------------------
NoMap == <<>>
Over(new, old) == [x \in DOMAIN new \cup DOMAIN old |-> IF x \in DOMAIN new THEN new[x] ELSE old[x]]
From(xs, m) == [x \in xs |-> m]

--------------------------------------------------------------------------------
(* Ownership of names, by the exports of the direct dependencies.          *)
Exports(st, m) == st[m].exports
DepExports(st, m) == {Exports(st, d) : d \in Range(st[m].deps) \cap DOMAIN st}

moduleOwnedTypeNames(st, m) ==
  LET TypeNames(ex) == ex.aliases \cup DOMAIN ex.classes \cup DOMAIN ex.families
  IN  Exports(st, m).ownedTypes \cup (TypeNames(Exports(st, m)) \ UNION {TypeNames(ex) : ex \in DepExports(st, m)})

moduleOwnedNames(st, m) ==
  Exports(st, m).ownedNames \cup (Exports(st, m).values \ UNION {ex.values : ex \in DepExports(st, m)})

Owns(st, space, m, x) == x \in IF space = "ns" THEN moduleOwnedNames(st, m) ELSE moduleOwnedTypeNames(st, m)

(* The modules that can be reached from some: they are in every set that   *)
(* holds those and the dependencies of its members.                        *)
Closed(st, ms) == \A m \in ms : Range(st[m].deps) \subseteq ms
DependenciesOf(st, ms) == {m \in DOMAIN st : \A ns \in SUBSET DOMAIN st : ms \subseteq ns /\ Closed(st, ns) => m \in ns}

moduleDependsOn(st, a, b) == b \in DependenciesOf(st, Range(st[a].deps))

(* Mutant: a module that depends on another one never clashes with it. *)
checkAmbiguousLax(st, sc, space, x, m) ==
  /\ x \notin Private
  /\ x \in DOMAIN sc[space]
  /\ LET prev == sc[space][x]
     IN  prev # m /\ (Owns(st, space, prev, x) \/ Owns(st, space, m, x)) /\ ~moduleDependsOn(st, m, prev) /\ ~moduleDependsOn(st, prev, m)

checkAmbiguous(st, sc, space, x, m) ==
  /\ x \notin Private
  /\ x \in DOMAIN sc[space]
  /\ LET prev == sc[space][x]
         prevOwns == Owns(st, space, prev, x)
         curOwns == Owns(st, space, m, x)
     IN  /\ prev # m
         /\ prevOwns \/ curOwns
         /\ ~(prevOwns /\ ~curOwns /\ moduleDependsOn(st, m, prev))
         /\ ~(curOwns /\ ~prevOwns /\ moduleDependsOn(st, prev, m))

--------------------------------------------------------------------------------
(* A scope while it is built: the names claimed in the two namespaces, the *)
(* tables of the registry by name, with the module a name is from, the     *)
(* aliases of modules and the errors.                                      *)
EmptyScope ==
  [ns |-> NoMap, tns |-> NoMap, vals |-> NoMap, cons |-> NoMap, conInfo |-> NoMap, kinds |-> NoMap, aliases |-> NoMap,
   classes |-> NoMap, pkinds |-> NoMap, pcons |-> NoMap, families |-> NoMap, insts |-> {}, scopes |-> NoMap, errors |-> {}]

Erring(sc, kind, x) == [sc EXCEPT !.errors = @ \cup {<<kind, x>>}]

SpaceOf(table) == IF table \in {"vals", "cons"} THEN "ns" ELSE "tns"

AmbiguousOf(st, sc, table, names, m) == {x \in names : checkAmbiguous(st, sc, SpaceOf(table), x, m)}

importExcept(sc, table, names, bad, m) ==
  LET claimed == [sc EXCEPT ![SpaceOf(table)] = Over(From(names \ (bad \cup Private), m), @),
                            !.errors = @ \cup {<<SpaceOf(table), x>> : x \in bad}]
      bound == [claimed EXCEPT ![table] = Over(From(names \ bad, m), @)]
  IN  IF table = "cons" THEN [bound EXCEPT !.vals = Over(From(names \ bad, m), @)] ELSE bound

importNames(st, sc, table, names, m) == importExcept(sc, table, names, AmbiguousOf(st, sc, table, names, m), m)

importPromoted(st, sc, kinds, cons, m) == importNames(st, importNames(st, sc, "pkinds", kinds, m), "pcons", cons, m)

(* RegisterFamily merges the equations that are new by their patterns and  *)
(* stops at one that an equation with another result contradicts.          *)
Conflicts(eqs, e) == \E i \in DOMAIN eqs : eqs[i].pat = e.pat /\ eqs[i].rhs # e.rhs
Known(eqs, e) == \E i \in DOMAIN eqs : eqs[i].pat = e.pat

MergeEquation(acc, e) ==
  CASE acc.bad \/ Conflicts(acc.eqs, e) -> [eqs |-> acc.eqs, bad |-> TRUE]
    [] ~acc.bad /\ Known(acc.eqs, e) /\ ~Conflicts(acc.eqs, e) -> acc
    [] OTHER -> [eqs |-> Append(acc.eqs, e), bad |-> FALSE]

MergeEquations(old, new) ==
  LET merged[i \in 0..Len(new)] == IF i = 0 THEN [eqs |-> old, bad |-> FALSE] ELSE MergeEquation(merged[i - 1], new[i])
  IN  merged[Len(new)]

OtherClass(old, new) == old.class # 0 /\ new.class # 0 /\ old.class # new.class
RegisterFamily(old, new) == IF OtherClass(old, new) THEN [eqs |-> old.eqs, bad |-> TRUE] ELSE MergeEquations(old.eqs, new.eqs)

RegisterFamilies(sc, families) ==
  LET known == DOMAIN families \cap DOMAIN sc.families
      joined == [x \in known |-> RegisterFamily(sc.families[x], families[x])]
      Family(x) == IF x \in known THEN [class |-> sc.families[x].class, eqs |-> joined[x].eqs] ELSE families[x]
  IN  [sc EXCEPT !.families = Over([x \in DOMAIN families |-> Family(x)], @),
                 !.errors = @ \cup {<<"family", x>> : x \in {y \in known : joined[y].bad}}]

importFamiliesExcept(sc, ex, names, bad, m) ==
  RegisterFamilies([sc EXCEPT !.tns = Over(From(names \ (bad \cup Private), m), @), !.errors = @ \cup {<<"tns", x>> : x \in bad}],
                   [x \in names \ bad |-> ex.families[x]])

importFamilies(st, sc, ex, names, m) == importFamiliesExcept(sc, ex, names, AmbiguousOf(st, sc, "families", names, m), m)

importInstances(sc, ex) == [sc EXCEPT !.insts = @ \cup ex.insts]

MethodsOf(ex, classes) == UNION {ex.classes[c] : c \in classes}

openValues(st, sc, ex, ambiguous, m) == importNames(st, sc, "vals", ex.values \ MethodsOf(ex, ambiguous), m)

(* The tables of a module one after the other; who stays for the classes   *)
(* that are ambiguous when their turn comes.                               *)
openClasses(st, sc, ex, bad, m) ==
  openValues(st, importInstances(importExcept(sc, "classes", DOMAIN ex.classes, bad, m), ex), ex, bad, m)

openTypes(st, sc, ex, m) ==
  importNames(st, importNames(st, importNames(st, [sc EXCEPT !.conInfo = Over(ex.cons, @)], "kinds", ex.types, m),
                              "cons", DOMAIN ex.cons, m), "aliases", ex.aliases, m)

openFromClasses(st, sc, ex, m) ==
  importPromoted(st, openClasses(st, sc, ex, AmbiguousOf(st, sc, "classes", DOMAIN ex.classes, m), m), ex.pkinds, ex.pcons, m)

importOpen(st, sc, ex, m) ==
  importFamilies(st, openFromClasses(st, openTypes(st, sc, ex, m), ex, m), ex, DOMAIN ex.families, m)

(* What an item of a selective import names of the constructors of a type  *)
(* or of the methods of a class.                                           *)
ChosenSubs(item, all) == CASE item.subs = "all" -> all [] item.subs = "some" -> all \cap item.list [] OTHER -> {}

importClassSubs(ex, item) ==
  ex.values \cap IF item.subs = "bare" THEN ex.classes[item.name] ELSE ChosenSubs(item, ex.classes[item.name])

importTypeSubs(ex, item) == ChosenSubs(item, {c \in DOMAIN ex.cons : ex.cons[c] = item.name})

importClass(st, sc, ex, item, bad, m) ==
  importNames(st, importExcept(sc, "classes", {item.name} \cap DOMAIN ex.classes, bad, m), "vals",
              IF item.name \in DOMAIN ex.classes \ bad THEN importClassSubs(ex, item) ELSE {}, m)

itemFromClass(st, sc, ex, item, m) ==
  importClass(st, sc, ex, item, AmbiguousOf(st, sc, "classes", {item.name} \cap DOMAIN ex.classes, m), m)

itemBeforeClass(st, sc, ex, item, cons, m) ==
  importNames(st,
    importNames(st,
      importNames(st,
        importNames(st, [sc EXCEPT !.conInfo = Over([c \in cons |-> ex.cons[c]], @)], "vals", {item.name} \cap ex.values, m),
        "kinds", {item.name} \cap ex.types, m),
      "cons", cons, m),
    "aliases", {item.name} \cap ex.aliases, m)

itemFromFamily(st, sc, ex, item, m) ==
  importPromoted(st, importFamilies(st, sc, ex, {item.name} \cap DOMAIN ex.families, m),
                 {item.name} \cap ex.pkinds, {item.name} \cap ex.pcons, m)

importItem(st, sc, ex, item, m) ==
  IF item.name \notin UNION {ex.values, ex.types, ex.aliases, DOMAIN ex.classes, DOMAIN ex.families, ex.pkinds, ex.pcons}
  THEN Erring(sc, "missing", item.name)
  ELSE itemFromFamily(st,
         itemFromClass(st,
           itemBeforeClass(st, sc, ex, item, IF item.name \in ex.types THEN importTypeSubs(ex, item) ELSE {}, m), ex, item, m),
         ex, item, m)

importItems(st, sc, ex, items, m) ==
  LET after[i \in 0..Len(items)] == IF i = 0 THEN sc ELSE importItem(st, after[i - 1], ex, items[i], m)
  IN  after[Len(items)]

importSelective(st, sc, ex, items, m) == importItems(st, importInstances(sc, ex), ex, items, m)

(* One import.  A module counts as imported before its alias is looked at. *)
CoreMisused(d) == d.mod = Core /\ (d.alias # 0 \/ d.names # <<>>)

importQualified(st, sc, ex, alias, m) ==
  importFamilies(st, importInstances([sc EXCEPT !.scopes = Over(From({alias}, m), @)], ex), ex, DOMAIN ex.families, m)

importDecl(st, sc, seen, d) ==
  LET ex == Exports(st, d.mod)
  IN  IF CoreMisused(d) THEN Erring(sc, "core", d.mod)
      ELSE IF d.mod \in seen THEN Erring(sc, "duplicate", d.mod)
      ELSE IF d.mod \notin DOMAIN st THEN Erring(sc, "unknown", d.mod)
      ELSE IF d.alias # 0 /\ d.alias \in DOMAIN sc.scopes THEN Erring(sc, "alias", d.alias)
      ELSE IF d.alias # 0 THEN importQualified(st, sc, ex, d.alias, d.mod)
      ELSE IF d.names # <<>> THEN importSelective(st, sc, ex, d.names[1], d.mod)
      ELSE importOpen(st, sc, ex, d.mod)

Seen(imports, i) == {imports[j].mod : j \in {k \in 1..(i - 1) : ~CoreMisused(imports[k])}}

Import(st, imports) ==
  LET after[i \in 0..Len(imports)] ==
        IF i = 0 THEN EmptyScope ELSE importDecl(st, after[i - 1], Seen(imports, i), imports[i])
  IN  after[Len(imports)]

injectCoreImport(imports) ==
  IF \E i \in DOMAIN imports : imports[i].mod = Core THEN imports
  ELSE <<[mod |-> Core, alias |-> 0, names |-> <<>>]>> \o imports

--------------------------------------------------------------------------------
(* The declarations of a module go into the same tables, over the imported *)
(* names.  A closed family must be new; an instance that overlaps with one *)
(* in scope is refused; the others append their equations.                 *)
DeclaredCons(d) == [c \in UNION Range(d.types) |-> CHOOSE t \in DOMAIN d.types : c \in d.types[t]]

declareNames(sc, m, d) ==
  LET cons == DeclaredCons(d)
  IN  [sc EXCEPT !.kinds = Over(From(DOMAIN d.types, m), @), !.pkinds = Over(From(DOMAIN d.types, m), @),
                 !.cons = Over(From(DOMAIN cons, m), @), !.pcons = Over(From(DOMAIN cons, m), @),
                 !.conInfo = Over(cons, @), !.aliases = Over(From(d.aliases, m), @), !.classes = Over(From(DOMAIN d.classes, m), @),
                 !.vals = Over(From(d.values \cup MethodsOf(d, DOMAIN d.classes) \cup DOMAIN cons, m), @)]

declareFamilies(sc, d) ==
  LET taken == {x \in DOMAIN d.families \cap (DOMAIN sc.families \cup DOMAIN sc.aliases) : d.families[x].class = 0}
  IN  RegisterFamilies([sc EXCEPT !.errors = @ \cup {<<"family", x>> : x \in taken}], [x \in DOMAIN d.families \ taken |-> d.families[x]])

Overlapping(i, j) == i.pat = j.pat /\ i # j

declareInstances(sc, d) ==
  LET bad == {i \in d.insts : \E j \in sc.insts \cup d.insts : Overlapping(i, j)}
      known == {x \in DOMAIN d.enriched \cap DOMAIN sc.families : sc.families[x].class # 0}
      Enriched(x) == IF x \in known THEN sc.families[x].eqs \o d.enriched[x] ELSE sc.families[x].eqs
  IN  [sc EXCEPT !.insts = @ \cup (d.insts \ bad) \cup d.hidden,
                 !.families = [x \in DOMAIN @ |-> [class |-> @[x].class, eqs |-> Enriched(x)]],
                 !.errors = @ \cup {<<"overlap", i.pat>> : i \in bad} \cup {<<"family", x>> : x \in DOMAIN d.enriched \ known}]

Declare(sc, m, d) == declareInstances(declareFamilies(declareNames(sc, m, d), d), d)

filterOwnedMap(names, imported) == names \ (imported \cup Private)

(* A family is exported when no registered module has it, or none has one  *)
(* of its equations.                                                       *)
filterOwnedOrEnrichedFamilies(st, families) ==
  LET known(x) == {Exports(st, m).families[x].eqs : m \in {n \in DOMAIN st : x \in DOMAIN Exports(st, n).families}}
      New(x) == known(x) = {} \/ \E i \in DOMAIN families[x].eqs : \A eqs \in known(x) : ~Known(eqs, families[x].eqs[i])
  IN  [x \in {y \in DOMAIN families \ Private : New(y)} |-> families[x]]

(* The registered modules count as imported, whether the module imports    *)
(* them or not.                                                            *)
ExportModule(st, sc, d) ==
  LET types == DOMAIN d.types \ Private
      cons == {c \in DOMAIN sc.conInfo : sc.conInfo[c] \in types /\ c \notin Private}
      others == {Exports(st, m) : m \in DOMAIN st}
  IN  [types |-> types,
       cons |-> [c \in cons |-> sc.conInfo[c]],
       aliases |-> filterOwnedMap(DOMAIN sc.aliases, UNION {ex.aliases : ex \in others}),
       classes |-> [c \in filterOwnedMap(DOMAIN sc.classes, UNION {DOMAIN ex.classes : ex \in others}) |->
                      IF c \in DOMAIN d.classes THEN d.classes[c] ELSE Exports(st, sc.classes[c]).classes[c]],
       insts |-> sc.insts \ d.hidden,
       values |-> (d.values \cup MethodsOf(d, DOMAIN d.classes)) \ Private,
       pkinds |-> DOMAIN sc.pkinds \cap types,
       pcons |-> DOMAIN sc.pcons \cap cons,
       families |-> filterOwnedOrEnrichedFamilies(st, sc.families),
       ownedTypes |-> types,
       ownedNames |-> types \cup ((UNION {d.types[t] : t \in types}) \ Private)]

--------------------------------------------------------------------------------
(* RegisterModule: parse, check, export.  A text with errors leaves the    *)
(* store as it was.                                                        *)
AllImports(src) == injectCoreImport(src.imports)
Deps(src) == [i \in DOMAIN AllImports(src) |-> AllImports(src)[i].mod]
Compiled(sc, st, src) == [exports |-> ExportModule(st, sc, src.decls), deps |-> Deps(src), src |-> src]
Stored(st, m, mod) == Over(From({m}, mod), st)

CheckedScope(st, m, src) == Declare(Import(st, AllImports(src)), m, src.decls)

CoreScope == Declare(EmptyScope, Core, CoreDecls)
CoreModule == [exports |-> ExportModule(NoMap, CoreScope, CoreDecls), deps |-> <<>>, src |-> [imports |-> <<>>, decls |-> CoreDecls]]
CoreStore == Stored(NoMap, Core, CoreModule)

ScopeInit ==
  /\ store = CoreStore
  /\ last = [store |-> NoMap, name |-> Core, src |-> CoreModule.src, sc |-> CoreScope]

RegisterModule(m, src) ==
  /\ m \notin DOMAIN store
  /\ \A i \in DOMAIN src.imports : src.imports[i].mod # m
  /\ \E sc \in {CheckedScope(store, m, src)} :
       /\ last' = [store |-> store, name |-> m, src |-> src, sc |-> sc]
       /\ store' = IF sc.errors = {} THEN Stored(store, m, Compiled(sc, store, src)) ELSE store

(* In the order of their names: a module imports modules registered before *)
(* it, so another order is a renaming.  A host stops at the first error.   *)
ScopeNext ==
  \E m \in ModuleNames : \E src \in Sources[m] :
    /\ last.sc.errors = {} /\ \A n \in ModuleNames : n < m => n \in DOMAIN store
    /\ RegisterModule(m, src)

--------------------------------------------------------------------------------
ScopeSpec == ScopeInit /\ [][ScopeNext]_scopeVars

--------------------------------------------------------------------------------
(* What the imports of the last check bring, by their forms.  Of several   *)
(* imports of one module the first counts.                                 *)
Accepted(st, imports) == {i \in DOMAIN imports : ~CoreMisused(imports[i]) /\ imports[i].mod \in DOMAIN st \ Seen(imports, i)}
Imports_ == {AllImports(last.src)[i] : i \in Accepted(last.store, AllImports(last.src))}
Whole(d) == d.alias = 0 /\ d.names = <<>>
ItemsOf(d) == IF d.alias # 0 \/ d.names = <<>> THEN {} ELSE Range(d.names[1])
Ex(d) == Exports(last.store, d.mod)

ItemBrings(ex, item, x) ==
  \/ x = item.name /\ x \in ex.values
  \/ x \in DOMAIN ex.cons /\ ex.cons[x] = item.name /\ (item.subs = "all" \/ (item.subs = "some" /\ x \in item.list))
  \/ item.name \in DOMAIN ex.classes /\ x \in ex.classes[item.name] /\ (item.subs # "some" \/ x \in item.list)

BringsOf(ex, d, x) ==
  /\ x \in ex.values \cup DOMAIN ex.cons
  /\ Whole(d) \/ \E item \in ItemsOf(d) : ItemBrings(ex, item, x)

Bringing(x) == {d.mod : d \in {e \in Imports_ : BringsOf(Ex(e), e, x)}}
NamedValues == UNION {Ex(d).values \cup DOMAIN Ex(d).cons : d \in Imports_}

ValueErrors == {e[2] : e \in {f \in last.sc.errors : f[1] = "ns"}}
Declared(src) == src.decls.values \cup MethodsOf(src.decls, DOMAIN src.decls.classes) \cup DOMAIN DeclaredCons(src.decls)
Valid == last.sc.errors = {}

(* ScopeJustified: a value in scope is declared by the module itself or    *)
(* comes from a module whose import brings it: all of it, or by an item of *)
(* its list, with the constructors and methods the item names.  A module   *)
(* imported under an alias brings none, and no listed name is forgotten.   *)
ScopeJustified ==
  Valid =>
    /\ \A x \in DOMAIN last.sc.vals : x \in Declared(last.src) \/ last.sc.vals[x] \in Bringing(x)
    /\ \A x \in NamedValues : Bringing(x) # {} => x \in DOMAIN last.sc.vals

(* InstancesInScope: however a module is imported, its public instances    *)
(* are in scope, and those of every module it depends on; a private one    *)
(* never leaves its module; and a public instance of the module overlaps   *)
(* none of these (instance.go:107; two imported ones are not compared).    *)
ReachedModules == DependenciesOf(last.store, {d.mod : d \in Imports_})
ReachedInstances == UNION {last.store[m].src.decls.insts : m \in ReachedModules}

InstancesInScope ==
  Valid =>
    /\ last.sc.insts = ReachedInstances \cup last.src.decls.insts \cup last.src.decls.hidden
    /\ \A i \in last.src.decls.insts : \A j \in ReachedInstances \cup last.src.decls.insts : i.pat = j.pat => i = j

(* ClashesReported: a value reported as ambiguous is brought by two of the *)
(* imported modules; one that several of them bring is reported, unless it *)
(* is no constructor of one of these, and that one declares it (or the     *)
(* type it is of) over a module it imports itself: import.go:172-186 then  *)
(* takes it for a re-export, although docs/spec/language.md:1569 promises  *)
(* an error for every such clash.                                          *)
OwnConstructors(d) == UNION {d.types[t] : t \in DOMAIN d.types \ Private}
Redeclares(m, x) ==
  /\ x \notin OwnConstructors(last.store[m].src.decls)
  /\ \E d \in Range(last.store[m].deps) : x \in Exports(last.store, d).values \cup DOMAIN Exports(last.store, d).cons

ClashesReported ==
  /\ \A x \in ValueErrors : \E m1, m2 \in Bringing(x) : m1 # m2
  /\ Valid => \A x \in NamedValues \ Private : \A m1, m2 \in Bringing(x) : m1 # m2 => \E m \in Bringing(x) : Redeclares(m, x)

(* MethodsKeepTheirClass: a method that an import of a whole module brings *)
(* is in scope together with its class: no method is left without one,     *)
(* also where the class is ambiguous.                                      *)
MethodsKeepTheirClass ==
  \A d \in Imports_ : Whole(d) =>
    \A c \in DOMAIN Ex(d).classes : \A x \in Ex(d).classes[c] :
      x \in DOMAIN last.sc.vals /\ last.sc.vals[x] = d.mod => c \in DOMAIN last.sc.classes

(* FamiliesMerged: the equations of a family are those of all the modules  *)
(* imported as a whole or under an alias, and the module's own; when two   *)
(* such modules have equations with the same patterns and different        *)
(* results it is an error, and never a matter of which came first.         *)
Agree(eqs1, eqs2) == \A e1 \in Range(eqs1) : \A e2 \in Range(eqs2) : e1.pat = e2.pat => e1 = e2

FamiliesMerged ==
  Valid =>
    /\ \A d \in Imports_ : d.names = <<>> => \A x \in DOMAIN Ex(d).families :
         x \in DOMAIN last.sc.families /\ Range(Ex(d).families[x].eqs) \subseteq Range(last.sc.families[x].eqs)
    /\ \A x \in DOMAIN last.src.decls.enriched :
         x \in DOMAIN last.sc.families /\ Range(last.src.decls.enriched[x]) \subseteq Range(last.sc.families[x].eqs)
    /\ \A d1, d2 \in {d \in Imports_ : d.names = <<>>} : d1 # d2 =>
         \A x \in DOMAIN Ex(d1).families \cap DOMAIN Ex(d2).families : Agree(Ex(d1).families[x].eqs, Ex(d2).families[x].eqs)

(* ExportsOwn: of the names no other module exports, a module exports      *)
(* exactly the public ones it declares; of the inherited ones, none        *)
(* (export.go:10, against docs/spec/language.md:1577).                     *)
OthersExport(m) == UNION {Exports(store, n).aliases \cup DOMAIN Exports(store, n).classes \cup Exports(store, n).types : n \in DOMAIN store \ {m}}

ExportsOwn ==
  \A m \in DOMAIN store :
    LET d == store[m].src.decls
        ex == Exports(store, m)
        others == OthersExport(m)
    IN  /\ ex.aliases \subseteq d.aliases /\ DOMAIN ex.classes \subseteq DOMAIN d.classes
        /\ (d.aliases \cup DOMAIN d.classes) \ (others \cup Private) \subseteq ex.aliases \cup DOMAIN ex.classes
        /\ DOMAIN d.types \cap others = {} => DOMAIN ex.cons = (UNION {d.types[t] : t \in DOMAIN d.types \ Private}) \ Private

(* What a module sees and exports follows from its imports: names from a   *)
(* module that brings them, clashes reported, classes with their methods,  *)
(* families with all equations, every instance, and exports that are its   *)
(* own (import.go, registry.go, export.go).                                *)
ScopesExact ==
  /\ ScopeJustified /\ ClashesReported /\ MethodsKeepTheirClass
  /\ FamiliesMerged /\ InstancesInScope /\ ExportsOwn
=============================================================================
