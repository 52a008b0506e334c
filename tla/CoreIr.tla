------------------------------- MODULE CoreIr -------------------------------
(***************************************************************************)
(* Core, the intermediate language between the checker and the bytecode    *)
(* compiler (internal/lang/ir). A term is a record whose field k names the *)
(* node; spans, types and the depth limit of the traversals are left out.  *)
(* The module also holds the passes the bytecode compiler depends on: the  *)
(* free variables of a closure and its de Bruijn scope.                    *)
(***************************************************************************)
EXTENDS Primitives, Integers, Sequences, SequencesExt

\* An unqualified reference; a name that no binder of the term introduces is a
\* top-level binding. QVar refers to a binding of another module, whatever
\* binders of that name are around it.
Var(x)        == [k |-> "Var", x |-> x]
QVar(x)       == [k |-> "QVar", x |-> x]
Lit(v)        == [k |-> "Lit", v |-> v]
Lam(x, b)     == [k |-> "Lam", x |-> x, b |-> b]
App(f, a)     == [k |-> "App", f |-> f, a |-> a]
Con(c, args)  == [k |-> "Con", c |-> c, args |-> args]
Case(s, alts) == [k |-> "Case", s |-> s, alts |-> alts]
Alt(p, b)     == [p |-> p, b |-> b]
Fix(x, b)     == [k |-> "Fix", x |-> x, b |-> b]
Pure(e)       == [k |-> "Pure", e |-> e]
TyLam(e)      == [k |-> "TyLam", e |-> e]
TyApp(e)      == [k |-> "TyApp", e |-> e]
Bind(c, x, b) == [k |-> "Bind", c |-> c, x |-> x, b |-> b]
Thunk(e)      == [k |-> "Thunk", e |-> e]
Force(e)      == [k |-> "Force", e |-> e]
\* ls: the labels of the two sides, as a pair of sets.
Merge(l, r, ls)     == [k |-> "Merge", l |-> l, r |-> r, ls |-> ls]
PrimOp(p, args)     == [k |-> "PrimOp", p |-> p, args |-> args]
RecordLit(ls, args) == [k |-> "RecordLit", ls |-> ls, args |-> args]
RecordProj(e, l)    == [k |-> "RecordProj", e |-> e, l |-> l]
RecordUpdate(e, ls, args) == [k |-> "RecordUpdate", e |-> e, ls |-> ls, args |-> args]
VariantLit(l, e)    == [k |-> "VariantLit", l |-> l, e |-> e]
\* A type abstraction over a label, and type applications to a label and to a
\* label variable; label erasure removes them before anything else runs.
LabelLam(x, e)    == [k |-> "LabelLam", x |-> x, e |-> e]
LabelApp(e, l)    == [k |-> "LabelApp", e |-> e, l |-> l]
LabelVarApp(e, x) == [k |-> "LabelVarApp", e |-> e, x |-> x]

PVar(x)           == [k |-> "PVar", x |-> x]
PWild             == [k |-> "PWild"]
PLit(v)           == [k |-> "PLit", v |-> v]
PCon(c, args)     == [k |-> "PCon", c |-> c, args |-> args]
PRecord(ls, args) == [k |-> "PRecord", ls |-> ls, args |-> args]
PLabel(l, x)      == [k |-> "PLabel", l |-> l, x |-> x]    \* x = "": no payload

-----------------------------------------------------------------------------
(* Free variables (free.go).                                               *)

\* The direct subterms of a node that binds nothing.
Children(t) ==
  CASE t.k \in {"Var", "QVar", "Lit"} -> <<>>
    [] t.k = "App" -> <<t.f, t.a>>
    [] t.k = "Merge" -> <<t.l, t.r>>
    [] t.k \in {"Con", "PrimOp", "RecordLit"} -> t.args
    [] t.k = "RecordUpdate" -> <<t.e>> \o t.args
    [] OTHER -> <<t.e>>

\* The names a pattern binds, left to right.
RECURSIVE Bindings(_), BindingsOf(_)
Bindings(p) ==
  CASE p.k = "PVar" -> <<p.x>>
    [] p.k = "PLabel" /\ p.x # "" -> <<p.x>>
    [] p.k \in {"PCon", "PRecord"} -> BindingsOf(p.args)
    [] OTHER -> <<>>
BindingsOf(ps) == IF ps = <<>> THEN <<>> ELSE Bindings(Head(ps)) \o BindingsOf(Tail(ps))

\* The names deletePatternBindings removes; the payload of a label pattern is
\* not among them.
RECURSIVE PatternNames(_)
PatternNames(p) ==
  CASE p.k = "PVar" -> {p.x}
    [] p.k \in {"PCon", "PRecord"} -> UNION {PatternNames(q) : q \in ToSet(p.args)}
    [] OTHER -> {}

RECURSIVE traverseFV(_)
traverseFV(t) ==
  CASE t.k = "Var" -> {t.x}
    [] t.k \in {"Lam", "Fix"} -> traverseFV(t.b) \ {t.x}
    [] t.k = "Bind" -> traverseFV(t.c) \cup (traverseFV(t.b) \ {t.x})
    [] t.k = "Case" -> traverseFV(t.s) \cup
         UNION {traverseFV(a.b) \ PatternNames(a.p) : a \in ToSet(t.alts)}
    [] OTHER -> UNION {traverseFV(e) : e \in ToSet(Children(t))}

\* FVInfo.Vars: the code sorts the names; only the agreement of this list with
\* the index list depends on the order.
FVars(t) == SetToSeq(traverseFV(t))

-----------------------------------------------------------------------------
(* Indices (index.go). A scope is the sequence of the names in force,      *)
(* innermost first: the index of a name is its first position less one.    *)
(* Names are bare: a qualified reference is taken for a local of its name. *)

IsLocal(scope, x)  == Contains(scope, x)
DeBruijn(scope, x) ==
  (CHOOSE i \in DOMAIN scope : scope[i] = x /\ \A j \in 1..(i - 1) : scope[j] # x) - 1

\* What a closure captures; self is the name of a Fix, or "".
LocalFVs(vars, scope, self) == SelectSeq(vars, LAMBDA x : x # self /\ IsLocal(scope, x))

\* FVInfo.Indices has an entry per captured name: it is shorter than Vars when
\* a name is global or the Fix name.
IndicesOf(names, scope) == [i \in DOMAIN names |-> DeBruijn(scope, names[i])]
Indices(vars, scope, self) == IndicesOf(LocalFVs(vars, scope, self), scope)

\* The scope inside a closure: parameter, Fix name, captured names.
BodyScope(vars, scope, self, params) ==
  params \o (IF self = "" THEN <<>> ELSE <<self>>) \o Reverse(LocalFVs(vars, scope, self))

RECURSIVE PeelTyLam(_)
PeelTyLam(t) == IF t.k = "TyLam" THEN PeelTyLam(t.e) ELSE t
=============================================================================
