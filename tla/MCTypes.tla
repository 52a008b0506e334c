------------------------------- MODULE MCTypes -------------------------------
(***************************************************************************)
(* The parts of the type checker around the solver, side by side: the      *)
(* operations on types, the unifier, families and aliases, exhaustiveness, *)
(* the scope of modules.  They share operators and no state, so a behaviour*)
(* exercises one of them: the state space is the sum of theirs.            *)
(***************************************************************************)
EXTENDS TypeLaws, UnifyLaws, FamilyLaws, ExhaustLaws, ModuleScope

VARIABLE part

K == Con(4)
A == Con(1)
B == Con(2)
L(t) == App(Con(3), t)
f(l, t) == node("field", l, <<t>>)
fv(l, t) == node("fieldvar", l, <<t>>)
cls(c, args) == node("class", c, args)
q(v, parts) == node("quant", v, <<K>> \o parts)
lvar(x) == node("lvar", x, <<>>)
R(fs, tl) == Row("row", fs, tl)

(* Operations on types. *)
MCReplacements == {Var(1), Var(2), App(Var(2), Var(3)), Label(2), Meta(1), Forall(1, K, Arrow(Var(1), Var(2)))}
MCPlain ==
  {Var(1), Arrow(Var(1), Var(2)), App(A, Var(2)), Forall(2, K, Arrow(Var(1), Var(2))), Forall(1, K, Arrow(Var(1), Var(2))),
   Forall(1, K, Forall(2, K, Arrow(App(Var(1), Var(2)), Var(3)))),
   Forall(1, K, Forall(1, Arrow(Var(1), K), App(Var(1), Var(2)))),
   Forall(2, K, Forall(3, App(Var(2), K), Arrow(Var(1), App(Var(2), Var(3))))),
   Forall(3, K, Forall(2, App(Var(3), K), Arrow(Var(1), App(Var(3), Var(2))))),
   Forall(1, Lit(0), ConLevel(3, lvar(1))), Arrow(ConLevel(3, lvar(1)), Forall(2, K, ConLevel(3, node("lmax", 0, <<lvar(2), lvar(3)>>)))),
   CBPV("comp", <<Var(1), Var(2), A>>), CBPV("comp", <<Var(1), Var(2), A, B>>), CBPV("thunk", <<Var(1), Var(2), A>>),
   FamilyApp(1, <<Var(1)>>, K), Skolem(1), Meta(1), Label(1), Forall(1, K, Var(2)), Forall(2, K, Var(2))}
MCRows ==
  {R(<<>>, <<>>), R(<<f(1, Var(1)), f(3, A)>>, <<>>), R(<<f(1, A)>>, <<Var(1)>>), R(<<f(1, A)>>, <<R(<<f(2, Var(1))>>, <<Meta(1)>>)>>),
   R(<<f(3, A), f(2, B)>>, <<>>), Forall(2, K, R(<<fv(2, Var(1))>>, <<Var(3)>>)), R(<<fv(1, Var(1)), f(2, A)>>, <<>>)}
MCConstraints ==
  {Row("crow", <<cls(1, <<Var(1)>>), cls(1, <<A>>), cls(2, <<Var(2)>>)>>, <<>>),
   Row("crow", <<cls(2, <<Var(2)>>), cls(1, <<A>>), cls(1, <<B>>)>>, <<>>),
   Row("crow", <<q(2, <<cls(1, <<Var(2)>>), cls(2, <<App(Var(1), Var(2))>>)>>)>>, <<Var(3)>>),
   Row("crow", <<node("eq", 0, <<Var(1), A>>), node("varc", 0, <<Var(2)>>)>>, <<>>),
   Evidence(Row("crow", <<cls(1, <<Var(1)>>)>>, <<>>), Var(1)),
   Forall(1, K, Evidence(Row("crow", <<cls(1, <<Var(1)>>), cls(1, <<Var(2)>>)>>, <<>>), Var(1))),
   Row("crow", <<cls(1, <<FamilyApp(1, <<A>>, B), B>>)>>, <<>>), Row("crow", <<cls(1, <<FamilyApp(1, <<A, B>>, B)>>)>>, <<>>)}
MCSeeds == MCPlain \cup MCRows \cup MCConstraints
MCNewEntries == {f(0, A), f(2, Var(1)), cls(1, <<Var(2)>>), cls(2, <<A>>), node("varc", 0, <<Var(1)>>), q(1, <<cls(1, <<Var(1)>>)>>)}

(* Unification. *)
m1 == Meta(1)
m2 == Meta(2)
mi == MetaAt(3, 1)
r1 == Meta(4)
r2 == Meta(5)
sk == Skolem(1)
MCEquations == {
  <<m1, L(m2)>>, <<m2, L(m1)>>, <<m1, m2>>, <<m2, sk>>, <<sk, A>>, <<mi, m1>>, <<App(Con(7), m1), L(A)>>,
  <<Arrow(m1, m2), Arrow(mi, B)>>,
  <<R(<<f(1, m1)>>, <<r1>>), R(<<f(2, A)>>, <<r2>>)>>,
  <<r1, R(<<f(2, B)>>, <<r2>>)>>, <<Arrow(R(<<f(1, m1)>>, <<r1>>), r1), Arrow(R(<<f(1, A)>>, <<r2>>), R(<<f(1, A)>>, <<>>))>>,
  <<r2, R(<<f(1, A)>>, <<>>)>>,
  <<R(<<f(2, m2), f(1, A)>>, <<>>), R(<<f(1, m2)>>, <<r2>>)>>,
  <<CBPV("comp", <<r1, r2, m1>>), CBPV("comp", <<r2, r1, A, m2>>)>>,
  <<App(App(App(Con(11), r1), R(<<>>, <<>>)), m2), CBPV("thunk", <<R(<<f(1, m1)>>, <<>>), r2, B>>)>>,
  <<App(App(App(m1, r1), r2), B), CBPV("thunk", <<R(<<>>, <<>>), r2, m2>>)>>,
  <<Forall(1, K, Arrow(Var(1), m1)), Forall(2, K, Arrow(Var(2), L(m2)))>>,
  <<Forall(1, K, Arrow(Var(1), m1)), Forall(2, K, Arrow(Var(2), Var(2)))>>,
  <<FamilyApp(5, <<m1>>, K), FamilyApp(5, <<m2>>, K)>>, <<FamilyApp(5, <<m1>>, K), B>>,
  <<Evidence(Row("crow", <<cls(1, <<m1>>), cls(2, <<A>>)>>, <<>>), m2), Evidence(Row("crow", <<cls(2, <<m2>>), cls(1, <<B>>)>>, <<>>), m2)>>,
  <<ConLevel(1, node("lmeta", 1, <<>>)), ConLevel(1, node("lsucc", 0, <<node("lmeta", 2, <<>>)>>))>>,
  <<ConLevel(1, node("lmeta", 2, <<>>)), ConLevel(1, node("lmax", 0, <<Lit(1), Lit(0)>>))>>,
  <<Row("crow", <<node("varc", 0, <<m1>>)>>, <<>>), Row("crow", <<cls(3, <<A>>)>>, <<>>)>>,
  <<ConLevel(1, node("lmeta", 1, <<>>)), ConLevel(1, Lit(2))>>}
MCBranches == {<<App(Con(6), A), App(Con(6), sk)>>}
MCBindings == {<<Arrow(m1, m2), <<>>, 1>>, <<Arrow(m2, R(<<f(1, m1)>>, <<r1>>)), <<cls(1, <<m1>>), cls(2, <<m2>>)>>, 0>>}
MCGrounds == {A, B, L(A), L(B), R(<<>>, <<>>), R(<<f(1, A)>>, <<>>), R(<<f(2, A)>>, <<>>), R(<<f(2, B)>>, <<>>), sk, Con(11)}

(* Families and aliases. *)
equation(ps, r) == [pats |-> ps, rhs |-> r]
fam(n, es) == [params |-> n, eqs |-> es, injective |-> FALSE]
P2(a, b) == App(App(Con(50), a), b)
Bool == Con(51)
MCFamilies == (1 :> fam(1, <<equation(<<A>>, B), equation(<<L(Var(1))>>, Var(1)), equation(<<Var(0)>>, A)>>))
  @@ (2 :> fam(2, <<equation(<<Var(1), A>>, L(Var(1))),
                    equation(<<App(Var(1), Var(2)), B>>, App(Var(1), FamilyApp(2, <<Var(2), B>>, K))), equation(<<A, Var(2)>>, Var(2))>>))
  @@ (3 :> fam(2, <<equation(<<Var(1), Var(1)>>, A), equation(<<Var(1), Var(2)>>, B)>>))
  @@ (5 :> [fam(1, <<equation(<<A>>, B), equation(<<B>>, A)>>) EXCEPT !.injective = TRUE])
  @@ (6 :> fam(1, <<equation(<<Bool>>, P2(Bool, Bool))>>))
MCApplications == {<<1, <<m1>>>>, <<1, <<L(m1)>>>>, <<2, <<m1, m2>>>>, <<2, <<L(m1), m2>>>>, <<3, <<m1, m2>>>>, <<21, <<m1, m2>>>>,
  <<21, <<R(<<f(1, Meta(3))>>, <<m1>>), R(<<f(2, B)>>, <<>>)>>>>, <<22, <<m1, m2>>>>, <<23, <<m1, m2>>>>, <<24, <<Con(3), m1>>>>}
MCLearnt == {A, B, L(A), L(Meta(3)), L(B), m2, Label(1), R(<<>>, <<>>), R(<<f(1, A), f(3, Meta(3))>>, <<>>), R(<<f(1, A)>>, <<Meta(3)>>), R(<<f(2, B)>>, <<>>)}
MCCandidates == {fam(1, <<equation(<<A>>, B), equation(<<B>>, A)>>), fam(1, <<equation(<<A>>, B), equation(<<L(Var(1))>>, Var(1))>>),
  fam(2, <<equation(<<A, Var(1)>>, L(Var(1))), equation(<<B, Var(1)>>, L(Var(1)))>>), fam(2, <<equation(<<A, B>>, A), equation(<<A, A>>, A)>>),
  fam(2, <<equation(<<A, Var(1)>>, Var(1)), equation(<<A, L(Var(1))>>, L(Var(1)))>>), fam(2, <<equation(<<Var(1), Var(2)>>, Var(1))>>)}
MCAliases == (7 :> [params |-> <<1>>, body |-> L(Var(1))])
MCAliasTables ==
  LET Body(s) == FoldLeft(App, Con(9), [i \in 1..Cardinality(s) |-> Con(SetToSortSeq(s, <)[i])])
  IN  {[n \in 1..3 |-> [params |-> <<>>, body |-> Body(g[n])]] : g \in [1..3 -> SUBSET (1..3)]}

(* Exhaustiveness. *)
Number == Con(-1)
May(t) == App(Con(52), t)
G(t) == App(Con(53), t)
rec(fs) == App(Con(12), R(fs, <<>>))
variant(row) == App(App(Con(31), row), Bool)
con(n, ty_, arity) == [name |-> n, type |-> ty_, arity |-> arity, gadt |-> FALSE, ret |-> K]
gcon(n, ty_, arity, ret) == [con(n, ty_, arity) EXCEPT !.gadt = TRUE, !.ret = ret]
MCDataTypes == (51 :> <<con(61, Bool, 0), con(62, Bool, 0)>>)
  @@ (52 :> <<con(63, Forall(1, K, Arrow(Var(1), May(Var(1)))), 1), con(64, Forall(1, K, May(Var(1))), 0)>>)
  @@ (50 :> <<con(65, Forall(1, K, Forall(2, K, Arrow(Var(1), Arrow(Var(2), P2(Var(1), Var(2)))))), 2)>>)
  @@ (53 :> <<gcon(66, G(Bool), 0, G(Bool)), gcon(67, G(Number), 0, G(Number)),
              gcon(68, Forall(1, K, Arrow(May(Var(1)), G(Var(1)))), 1, G(Var(1)))>>)
MCGround ==
  LET Same_ == {May(Bool), G(Bool), May(Number), rec(<<f(1, May(Bool)), f(2, Bool)>>),
                variant(R(<<f(1, A), f(2, A)>>, <<>>)), variant(R(<<f(1, A)>>, <<m2>>))}
  IN  [t \in Same_ |-> t] @@ (P2(May(Bool), m1) :> P2(May(Bool), Bool)) @@ (FamilyApp(6, <<Bool>>, K) :> P2(Bool, Bool))
MCScrutinees == DOMAIN MCGround
MCWritten == {A, B}
MCUnifier == [NewUnifier(10) EXCEPT !.soln = (1 :> Bool)]

(* Modules: 1 and 2 are values, 9 a private one, 11 and 12 types or        *)
(* classes, 21 and 22 constructors, 31 a family of the core module.        *)
NoDecls == [values |-> {}, types |-> <<>>, aliases |-> {}, classes |-> <<>>, families |-> <<>>, enriched |-> <<>>, insts |-> {}, hidden |-> {}]
instanceEq(p, r) == [pat |-> p, rhs |-> r]
instance(m, p) == [of |-> m, pat |-> p]
MCCoreDecls == [NoDecls EXCEPT !.families = (31 :> [class |-> 13, eqs |-> <<>>]), !.insts = {instance(99, 0)}]
MCDecls(m) == {
  [NoDecls EXCEPT !.values = {1, 9}, !.insts = {instance(m, 50 + m)}],
  [NoDecls EXCEPT !.types = (11 :> {21, 22})],
  [NoDecls EXCEPT !.types = (12 :> {21})],
  [NoDecls EXCEPT !.classes = (11 :> {1, 2}), !.hidden = {instance(m, 0)}],
  [NoDecls EXCEPT !.aliases = {11}, !.values = {2}],
  [NoDecls EXCEPT !.families = (32 :> [class |-> 0, eqs |-> <<instanceEq(1, m), instanceEq(m + 1, 1)>>])],
  [NoDecls EXCEPT !.families = (31 :> [class |-> 14, eqs |-> <<>>])],
  [NoDecls EXCEPT !.families = (32 :> [class |-> 15, eqs |-> <<instanceEq(1, m)>>])],
  [NoDecls EXCEPT !.enriched = (31 :> <<instanceEq(1, m)>>), !.hidden = {instance(m, 1)}],
  [NoDecls EXCEPT !.enriched = (31 :> <<instanceEq(1, m)>>), !.insts = {instance(m, 1)}],
  [NoDecls EXCEPT !.enriched = (31 :> <<instanceEq(m, m)>>), !.insts = {instance(m, m)}],
  [NoDecls EXCEPT !.enriched = (31 :> <<instanceEq(1, m), instanceEq(m + 1, m)>>), !.insts = {instance(m, 1), instance(m, m + 1)}]}
openImport(m) == [mod |-> m, alias |-> 0, names |-> <<>>]
qualImport(m, a) == [mod |-> m, alias |-> a, names |-> <<>>]
selImport(m, items) == [mod |-> m, alias |-> 0, names |-> <<items>>]
item(x, subs, list) == [name |-> x, subs |-> subs, list |-> list]
Forms(m) == {openImport(m), qualImport(m, 5), selImport(m, <<item(1, "bare", {})>>), selImport(m, <<item(11, "all", {})>>),
             selImport(m, <<item(2, "bare", {}), item(11, "some", {2, 21})>>)}
Lists(ms) == {<<>>} \cup UNION {{<<g>> : g \in Forms(m)} : m \in ms}
  \cup UNION {{<<g, h>> : g \in Forms(m[1]), h \in Forms(m[2])} : m \in {n \in ms \X ms : n[1] # n[2]}}
text(is, d) == [imports |-> is, decls |-> d]
MCSources == (1 :> {text(<<>>, d) : d \in MCDecls(1)})
   @@ (2 :> {text(is, d) : is \in Lists({1}), d \in MCDecls(2)})
   @@ (3 :> {text(is, NoDecls) : is \in Lists({1, 2})}
            \cup {text(<<qualImport(Core, 5)>>, NoDecls), text(<<openImport(1), openImport(1)>>, NoDecls), text(<<openImport(7)>>, NoDecls)})

--------------------------------------------------------------------------------

vars == <<part, ty, unifyVars, familyVars, exhaustVars, scopeVars>>

(* More knowledge never undoes an answer: solutions are only refined, a    *)
(* failed attempt or a rolled back trial leaves no trace, a row stays free *)
(* of repeated labels, and a reduced family application stays reduced to   *)
(* the same type (unify_trail.go, unify.go, reduce.go).                    *)
AnswersKept ==
  [][/\ part \in {"unifier", "trail"} => RollbackExact
     /\ part = "unifier" => SolutionsRefine /\ RowLabelsKept
     /\ part = "families" => ReductionStable]_vars

(* What the idle parts hold. *)
NoFamily == fam(0, <<>>)
NoAliases == [n \in 1..1 |-> [params |-> <<>>, body |-> A]]
NoApplication == <<1, <<A>>, 0>>

Init ==
  /\ part \in {"types", "unifier", "trail", "families", "injectivity", "aliases", "exhaustiveness", "modules"}
  /\ IF part = "types" THEN TypesInit ELSE ty = ErrorType
  /\ UnifyInit
  /\ IF part = "families" THEN app \in {Append(a, MaxLearnt) : a \in Applications} ELSE app = NoApplication
  /\ IF part = "injectivity" THEN declared \in Candidates ELSE declared = NoFamily
  /\ IF part = "aliases" THEN aliases \in AliasTables ELSE aliases = NoAliases
  /\ ExhaustInit /\ (part # "exhaustiveness" => scrut = G(Bool))
  /\ ScopeInit

Next ==
  \/ part = "types" /\ TypesNext /\ UNCHANGED <<part, unifyVars, familyVars, exhaustVars, scopeVars>>
  \/ part = "unifier" /\ UnifyNext /\ UNCHANGED <<part, ty, familyVars, exhaustVars, scopeVars>>
  \/ part = "trail" /\ AnyWrites /\ UNCHANGED <<part, ty, familyVars, exhaustVars, scopeVars>>
  \/ part = "families" /\ FamilyNext /\ UNCHANGED <<part, ty, unifyVars, exhaustVars, scopeVars>>
  \/ part = "exhaustiveness" /\ ExhaustNext /\ UNCHANGED <<part, ty, unifyVars, familyVars, scopeVars>>
  \/ part = "modules" /\ ScopeNext /\ UNCHANGED <<part, ty, unifyVars, familyVars, exhaustVars>>

Spec == Init /\ [][Next]_vars
=============================================================================
