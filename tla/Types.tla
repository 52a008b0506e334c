------------------------------- MODULE Types --------------------------------
(***************************************************************************)
(* Types and the operations on them (internal/lang/types): free variables, *)
(* substitution of one and of many variables, alpha-equality, structural   *)
(* keys, evidence rows, universe levels.                                   *)
(*                                                                         *)
(* A type is a tree of nodes [k, n, args]: the constructor, the name or    *)
(* number it carries and its parts.                                        *)
(*   var n   con n <<level>>   app <<fun, arg>>   arrow <<from, to>>       *)
(*   forall n <<kind, body>>   comp, thunk <<pre, post, result[, grade]>>  *)
(*   row open <<fields.., [tail]>>, field n and fieldvar n <<type, grades>>*)
(*   crow open <<entries.., [tail]>>, with the entries class n <<args..>>, *)
(*     eq <<lhs, rhs>>, varc <<type>>, quant n <<kind, context.., head>>   *)
(*   evidence <<crow, body>>   family n <<args.., kind>>                   *)
(*   meta n   skolem n   error                                             *)
(* and a level is lit n, lvar n, lmeta n, lsucc <<e>> or lmax <<a, b>>.    *)
(* open is 1 for a row with a tail.  Names are numbers, so that a name     *)
(* nobody uses is one more than the largest: freshName's counter.  A       *)
(* quantified constraint has one binder.  Source spans, and the cached     *)
(* flags, which every constructor recomputes, are left out.                *)
(***************************************************************************)
EXTENDS Integers, Sequences, SequencesExt, FiniteSets, FiniteSetsExt, Functions, Folds, TLC

node(kind, n, args) == [k |-> kind, n |-> n, args |-> args]

Lit(i) == node("lit", i, <<>>)
Var(x) == node("var", x, <<>>)
ConLevel(c, level) == node("con", c, <<level>>)
Con(c) == ConLevel(c, Lit(0))
Label(l) == ConLevel(l, Lit(1))
App(f, a) == node("app", 0, <<f, a>>)
Arrow(a, b) == node("arrow", 0, <<a, b>>)
Forall(v, kind, body) == node("forall", v, <<kind, body>>)
CBPV(tag, parts) == node(tag, 0, parts)
Meta(i) == node("meta", i, <<>>)
Skolem(i) == node("skolem", i, <<>>)
ErrorType == node("error", 0, <<>>)
FamilyApp(f, args, kind) == node("family", f, Append(args, kind))
Row(kind, entries, tail) == node(kind, Len(tail), entries \o tail)
Evidence(constraints, body) == node("evidence", 0, <<constraints, body>>)

IsRow(t) == t.k \in {"row", "crow"}
IsField(e) == e.k \in {"field", "fieldvar"}
EntryKinds == {"field", "fieldvar", "class", "eq", "varc", "quant"}
IsOpen(row) == row.n = 1
Entries(row) == SubSeq(row.args, 1, Len(row.args) - row.n)
Tail_(row) == SubSeq(row.args, Len(row.args) - row.n + 1, Len(row.args))

(* The child types of an entry, and of a node: ForEachChild's order.       *)
RECURSIVE EntryTypes(_)
EntryTypes(e) ==
  IF e.k = "quant" THEN FlattenSeq([i \in 1..Len(e.args) - 1 |-> EntryTypes(e.args[i + 1])]) ELSE e.args

ForEachChild(t) ==
  CASE IsRow(t) -> FlattenSeq([i \in DOMAIN Entries(t) |-> EntryTypes(t.args[i])]) \o Tail_(t)
    [] t.k = "con" -> <<>>
    [] OTHER -> t.args

RECURSIVE AnyType(_, _)
AnyType(t, kinds) == t.k \in kinds \/ \E i \in DOMAIN ForEachChild(t) : AnyType(ForEachChild(t)[i], kinds)

RECURSIVE TypeSize(_)
TypeSize(t) == 1 + FoldSeq(LAMBDA c, n : n + TypeSize(c), 0, ForEachChild(t))

(* UnwindApp: the head of an application spine and its arguments.          *)
RECURSIVE UnwindApp(_, _)
UnwindApp(t, args) == IF t.k = "app" THEN UnwindApp(t.args[1], <<t.args[2]>> \o args) ELSE [head |-> t, args |-> args]

RECURSIVE Names(_)
Names(t) == {t.n} \cup UNION {Names(t.args[i]) : i \in DOMAIN t.args}

freshName(used, ts) == 1 + Max(used \cup UNION {Names(t) : t \in ts})

--------------------------------------------------------------------------------
(* Free variables.  A label variable counts; a quantified constraint's     *)
(* binder kind is not looked into.                                         *)
RECURSIVE FreeVars(_)
FreeIn(t, parts) == UNION {FreeVars(t.args[i]) : i \in parts}

freeVarsEntry(e) ==
  CASE e.k = "quant" -> FreeIn(e, 2..Len(e.args)) \ {e.n}
    [] e.k = "fieldvar" -> {e.n} \cup FreeIn(e, DOMAIN e.args)
    [] OTHER -> FreeIn(e, DOMAIN e.args)

FreeVars(t) ==
  CASE t.k = "var" -> {t.n}
    [] t.k = "forall" -> FreeIn(t, {1}) \cup (FreeIn(t, {2}) \ {t.n})
    [] t.k \in EntryKinds -> freeVarsEntry(t)
    [] OTHER -> FreeIn(t, DOMAIN t.args)

RECURSIVE occursIn(_, _)
occursInParts(x, t, parts) == \E i \in parts : occursIn(x, t.args[i])

occursInEntry(x, e) ==
  CASE e.k = "quant" -> e.n # x /\ occursInParts(x, e, 2..Len(e.args))
    [] OTHER -> (e.k = "fieldvar" /\ e.n = x) \/ occursInParts(x, e, DOMAIN e.args)

occursIn(x, t) ==
  CASE t.k = "var" -> t.n = x
    [] t.k = "forall" -> occursInParts(x, t, IF t.n = x THEN {1} ELSE {1, 2})
    [] t.k \in EntryKinds -> occursInEntry(x, t)
    [] OTHER -> occursInParts(x, t, DOMAIN t.args)

--------------------------------------------------------------------------------
(* Substitution of one variable.  Only a type constructor of level 1, a    *)
(* label literal, can take the place of a label variable.                  *)
IsLabelLiteral(t) == t.k = "con" /\ t.args = <<Lit(1)>>

RelabelField(f, hit, r) == IF hit /\ IsLabelLiteral(r) THEN [f EXCEPT !.k = "field", !.n = r.n] ELSE f

(* Mutant: a binder that the replacement mentions is kept. *)
CapturesNever(v, r) == FALSE

Captures(v, r) == occursIn(v, r)

RECURSIVE substDepth(_, _, _)
substFrom(t, from, x, r) ==
  [t EXCEPT !.args = [i \in DOMAIN t.args |-> IF i < from THEN t.args[i] ELSE substDepth(t.args[i], x, r)]]

Renamed(t, v) == [substFrom(t, 2, t.n, Var(v)) EXCEPT !.n = v]

AvoidingCapture(t, x, r) == IF Captures(t.n, r) THEN Renamed(t, freshName({x}, {t, r})) ELSE t

substQuantifiedConstraint(q, x, r) == substFrom(AvoidingCapture(q, x, r), 2, x, r)

substConstraintEntry(e, x, r) ==
  CASE e.k = "quant" -> IF e.n = x THEN e ELSE substQuantifiedConstraint(e, x, r)
    [] e.k = "fieldvar" -> substFrom(RelabelField(e, e.n = x, r), 1, x, r)
    [] OTHER -> substFrom(e, 1, x, r)

substDepth(t, x, r) ==
  CASE t.k = "var" -> IF t.n = x THEN r ELSE t
    [] t.k = "forall" -> IF t.n = x THEN t ELSE substFrom(AvoidingCapture(t, x, r), 1, x, r)
    [] t.k \in EntryKinds -> substConstraintEntry(t, x, r)
    [] OTHER -> substFrom(t, 1, x, r)

Subst(t, x, r) == IF occursIn(x, t) THEN substDepth(t, x, r) ELSE t

(* Levels have variables of their own kind, which no renaming reaches.     *)
RECURSIVE substLevel(_, _)
substLevel(t, levels) ==
  CASE t.k = "lvar" -> IF t.n \in DOMAIN levels THEN levels[t.n] ELSE t
    [] OTHER -> [t EXCEPT !.args = [i \in DOMAIN t.args |-> substLevel(t.args[i], levels)]]

RECURSIVE SubstLevel(_, _, _)
SubstLevel(t, x, level) ==
  CASE t.k = "con" -> substLevel(t, x :> level)
    [] t.k = "forall" /\ t.n = x -> t
    [] OTHER -> [t EXCEPT !.args = [i \in DOMAIN t.args |-> SubstLevel(t.args[i], x, level)]]

(* Substitution of many variables at once.  fv, the variables free in any  *)
(* replacement, is computed once from the whole map: a binder it has is    *)
(* renamed even where the entry that mentions it is shadowed.              *)
fvUnion(subs) == UNION {FreeVars(subs[x]) : x \in DOMAIN subs}

Without(subs, x) == Restrict(subs, DOMAIN subs \ {x})

RECURSIVE substMany(_, _, _, _)
manyFrom(t, from, subs, levels, fv) ==
  [t EXCEPT !.args = [i \in DOMAIN t.args |-> IF i < from THEN t.args[i] ELSE substMany(t.args[i], subs, levels, fv)]]

AvoidingAll(t, subs, fv) == IF t.n \in fv THEN Renamed(t, freshName(DOMAIN subs, {t} \cup Range(subs))) ELSE t

substManyQuantifiedConstraint(q, subs, levels, fv) ==
  IF DOMAIN Without(subs, q.n) = {} /\ DOMAIN Without(levels, q.n) = {} THEN q
  ELSE manyFrom(AvoidingAll(q, subs, fv), 2, Without(subs, q.n), Without(levels, q.n), fv)

RelabelMany(e, subs) == IF e.k = "fieldvar" /\ e.n \in DOMAIN subs THEN RelabelField(e, TRUE, subs[e.n]) ELSE e

substManyConstraintEntry(e, subs, levels, fv) ==
  IF e.k = "quant" THEN substManyQuantifiedConstraint(e, subs, levels, fv) ELSE manyFrom(RelabelMany(e, subs), 1, subs, levels, fv)

(* A forall whose kind has been replaced; levels are not shadowed. *)
substManyForall(t, subs, levels, fv) ==
  IF t.n \in DOMAIN subs /\ DOMAIN Without(subs, t.n) = {} /\ DOMAIN levels = {} THEN t
  ELSE manyFrom(AvoidingAll(t, subs, fv), 2, Without(subs, t.n), levels, fv)

substMany(t, subs, levels, fv) ==
  CASE t.k = "var" -> IF t.n \in DOMAIN subs THEN subs[t.n] ELSE t
    [] t.k = "con" -> substLevel(t, levels)
    [] t.k = "forall" -> substManyForall([t EXCEPT !.args[1] = substMany(@, subs, levels, fv)], subs, levels, fv)
    [] t.k \in EntryKinds -> substManyConstraintEntry(t, subs, levels, fv)
    [] OTHER -> manyFrom(t, 1, subs, levels, fv)

SubstMany(t, subs, levels) == substMany(t, subs, levels, fvUnion(subs))

(* PeelForalls replaces a chain of binders: a single one with Subst, more *)
(* in one pass over what is under them.  A name bound twice keeps the      *)
(* later replacement.  visit is the replacements in order, <<type>> or     *)
(* <<type, level>>; each is chosen at sight of its binder's kind, in which *)
(* the binders before it are already replaced.                             *)
RECURSIVE Binders(_)
Binders(t) == IF t.k = "forall" THEN <<t>> \o Binders(t.args[2]) ELSE <<>>

Chosen(binders, visit, upTo, half) ==
  FoldLeft(LAMBDA m, i : IF Len(visit[i]) < half THEN m ELSE (binders[i].n :> visit[i][half]) @@ m,
           <<>>, [i \in 1..upTo |-> i])

instantiateOne(u, v, repl) == Subst(IF Len(repl) = 2 THEN SubstLevel(u, v, repl[2]) ELSE u, v, repl[1])

adjustedKind(kind, v, repl) ==
  IF Len(repl) = 2 THEN SubstLevel(Subst(kind, v, repl[1]), v, repl[2]) ELSE Subst(kind, v, repl[1])

Instantiated(u, binders, visit, upTo) ==
  CASE upTo = 0 -> u
    [] upTo = 1 -> instantiateOne(u, binders[1].n, visit[1])
    [] OTHER -> SubstMany(u, Chosen(binders, visit, upTo, 1), Chosen(binders, visit, upTo, 2))

Peeled(t, binders, visit) ==
  [body |-> Instantiated(IF binders = <<>> THEN t ELSE Last(binders).args[2], binders, visit, Len(binders)),
   kinds |-> [i \in DOMAIN binders |->
                IF i = 2 THEN adjustedKind(binders[2].args[1], binders[1].n, visit[1])
                ELSE Instantiated(binders[i].args[1], binders, visit, i - 1)]]

PeelForalls(t, visit) == Peeled(t, Binders(t), visit)
=============================================================================
