-------------------------------- MODULE Exhaust --------------------------------
(***************************************************************************)
(* Exhaustiveness and redundancy of case alternatives                      *)
(* (internal/compiler/check/exhaust): usefulness of a pattern vector       *)
(* against a matrix of rows, with the types of the columns.                *)
(*                                                                         *)
(* A pattern is wild, plit n, pcon n <<args..>> or precord <<fields..>>, a *)
(* field n <<pattern>>.  A label pattern of a variant is a constructor     *)
(* without arguments.  A constructor is [name, type, arity, gadt, ret], its*)
(* type a scheme; a data type is the sequence of its constructors.         *)
(***************************************************************************)
EXTENDS Unify

CONSTANTS
  DataTypes,       \* the data types of the program, by the constructor of the type
  Variant_,        \* the type of tagged choices
  MaxExhaustDepth, \* maxExhaustDepth
  Unifier          \* the unifier when the case is checked

ASSUME ExhaustBounds == MaxExhaustDepth \in Nat

Wild == node("wild", 0, <<>>)
PCon(c, args) == node("pcon", c, args)
PRecord(fields) == node("precord", 0, fields)
Unknown_ == node("unknown", 0, <<>>)

Wilds(n) == [i \in 1..n |-> Wild]

--------------------------------------------------------------------------------
(* Matrices.                                                               *)
ByHead(mx, expand(_)) ==
  LET some == SelectSeq(mx, LAMBDA row : expand(row[1]) # <<>>)
  IN  [i \in DOMAIN some |-> expand(some[i][1])[1] \o Tail(some[i])]

(* Mutant: a row that begins with a wildcard is not a row of the constructor. *)
specializeStrict(mx, con, arity) ==
  ByHead(mx, LAMBDA p : IF p.k = "pcon" /\ p.n = con THEN <<p.args>> ELSE <<>>)

specialize(mx, con, arity) ==
  ByHead(mx, LAMBDA p : CASE p.k = "pcon" /\ p.n = con -> <<p.args>> [] p.k = "wild" -> <<Wilds(arity)>> [] OTHER -> <<>>)

defaultMatrix(mx) == ByHead(mx, LAMBDA p : IF p.k = "wild" THEN <<<<>>>> ELSE <<>>)

specializeLit(mx, v) == ByHead(mx, LAMBDA p : IF p.k = "wild" \/ (p.k = "plit" /\ p.n = v) THEN <<<<>>>> ELSE <<>>)

HeadsOf(mx, kind) == {mx[i][1].n : i \in {j \in DOMAIN mx : mx[j][1].k = kind}}

hasRecordPats(mx) == \E i \in DOMAIN mx : mx[i][1].k = "precord"

allRecordLabels(mx) ==
  SetToSortSeq(UNION {LabelsOf(mx[i][1].args) : i \in {j \in DOMAIN mx : mx[j][1].k = "precord"}}, <)

Columns(p, labels) ==
  [i \in DOMAIN labels |-> IF p.k = "precord" /\ labels[i] \in LabelsOf(p.args) THEN RowField(p.args, labels[i]).args[1] ELSE Wild]

specializeRecord(mx, labels) ==
  ByHead(mx, LAMBDA p : IF p.k \in {"precord", "wild"} THEN <<Columns(p, labels)>> ELSE <<>>)

--------------------------------------------------------------------------------
(* The types of columns.                                                   *)
headTyCon(t) == LET head == UnwindApp(t, <<>>).head IN IF head.k = "con" THEN head.n ELSE 0

AllCons == FlattenSeq(SetToSeq(Range(DataTypes)))
ConNamed(c) == AllCons[SelectInSeq(AllCons, LAMBDA d : d.name = c)]

isGADT(t) == headTyCon(t) \in DOMAIN DataTypes /\ \E c \in Range(DataTypes[headTyCon(t)]) : c.gadt

RECURSIVE PeelArrows(_, _)
PeelArrows(t, n) == IF n = 0 THEN <<t>> ELSE IF t.k = "arrow" THEN <<t.args[1]>> \o PeelArrows(t.args[2], n - 1) ELSE <<Unknown_>> \o PeelArrows(t, n - 1)

RECURSIVE instantiateForExhaust(_, _)
instantiateForExhaust(t, fresh) ==
  CASE t.k = "evidence" -> instantiateForExhaust(t.args[2], fresh)
    [] t.k = "forall" -> LET n == Len(Binders(t))
                         IN  instantiateForExhaust(PeelForalls(t, [i \in 1..n |-> <<Meta(fresh + i)>>]).body, fresh + n)
    [] OTHER -> t

(* The argument types, refined by what the result type must be; nothing is *)
(* kept in the unifier.  Each depth has metavariables of its own.          *)
Refined(parts, r) ==
  IF r.e # "" THEN Front(parts)
  ELSE [i \in 1..Len(parts) - 1 |-> IF parts[i] = Unknown_ THEN Unknown_ ELSE Zonk(r.u, parts[i]).t]

RefinedBy(parts, t, u) ==
  IF headTyCon(t) = 0 THEN Front(parts) ELSE Refined(parts, Unify([BeginProbe(u) EXCEPT !.fresh = @ + 50], Last(parts), t))

constructorArgTypes(con, t, depth) ==
  LET u == [Unifier EXCEPT !.fresh = @ + 100 * depth]
  IN  RefinedBy(PeelArrows(instantiateForExhaust(con.type, u.fresh), con.arity), t, u)

subPatternTypes(c, arity, t, depth) ==
  IF t # Unknown_ /\ ~isGADT(t) /\ c \in {d.name : d \in Range(AllCons)}
  THEN constructorArgTypes(ConNamed(c), t, depth) ELSE [i \in 1..arity |-> Unknown_]

IsVariant(t) == LET s == UnwindApp(t, <<>>) IN s.head.k = "con" /\ s.head.n = Variant_ /\ Len(s.args) = 2 /\ s.args[1].k = "row"

(* Signatures, in a sequence of one when they are known.  A tail that is   *)
(* not known yet is a choice no pattern has.                               *)
Sig(c, arity) == [name |-> c, arity |-> arity]

variantLabelSigs(row) ==
  [i \in DOMAIN Entries(row) |-> Sig(row.args[i].n, 0)] \o (IF IsOpen(row) /\ Last(row.args).k = "meta" THEN <<Sig(0, 0)>> ELSE <<>>)

accessible(c, t) == ~c.gadt \/ canUnifyWith(Unifier, c.ret, t).e = ""

constructorSigs(t) ==
  LET Sigs(some) == IF some = <<>> THEN <<>> ELSE <<[i \in DOMAIN some |-> Sig(some[i].name, some[i].arity)]>>
      Accessible(cons, ok) == Sigs(SelectSeq(cons, LAMBDA c : c \in ok))
  IN  CASE IsVariant(t) -> <<variantLabelSigs(UnwindApp(t, <<>>).args[1])>>
        [] headTyCon(t) \in DOMAIN DataTypes ->
             Accessible(DataTypes[headTyCon(t)], {c \in Range(DataTypes[headTyCon(t)]) : accessible(c, t)})
        [] OTHER -> <<>>

recordFieldTypes(t, labels) ==
  [i \in DOMAIN labels |->
     IF IsRecordOfRow(t) /\ t.args[2].k = "row" /\ labels[i] \in LabelsOf(Entries(t.args[2]))
     THEN RowField(Entries(t.args[2]), labels[i]).args[1] ELSE Unknown_]

--------------------------------------------------------------------------------
(* isUseful: is there a value that the query matches and no row does?  The *)
(* witness, a pattern of column 0 at best, goes into the message.          *)
Useful(w) == [useful |-> TRUE, witness |-> w]
Useless == [useful |-> FALSE, witness |-> Wild]

reconstructCon(c, arity, w) == PCon(c, IF arity > 0 /\ w.k = "pcon" /\ w.n = c THEN w.args ELSE Wilds(arity))

(* What is tried for a query, in order: each with the matrix, the query and*)
(* the types of the next step, and the constructor the witness gets.       *)
Step(mx, q, tys, con) == [mx |-> mx, q |-> q, tys |-> tys, con |-> con]

NoCon == Sig(-1, 0)

conStep(mx, q, t, restTys, depth, sig, args) ==
  Step(specialize(mx, sig.name, sig.arity), args \o Tail(q), subPatternTypes(sig.name, sig.arity, t, depth) \o restTys, sig)

defaultStep(mx, q, restTys) == Step(defaultMatrix(mx), Tail(q), restTys, NoCon)

recordStep(mx, q, t, restTys, labels) ==
  Step(specializeRecord(mx, labels), Columns(q[1], labels) \o Tail(q), recordFieldTypes(t, labels) \o restTys, NoCon)

SignatureComplete(cons, sigs) == Cardinality(cons) >= Len(sigs)

(* The constructors a query is taken apart by, with its arguments under    *)
(* each: its own, or for a wildcard all of a complete signature, else those*)
(* that no row has.  Without a signature the constructors of the rows are  *)
(* taken for all there are.                                                *)
wildcardCons(cons, t) ==
  LET Tried(sigs) == IF SignatureComplete(cons, sigs) THEN sigs ELSE SelectSeq(sigs, LAMBDA s : s.name \notin cons)
      Of(sigs) == IF sigs = <<>> THEN <<>> ELSE Tried(sigs[1])
  IN  Of(constructorSigs(t))

conCases(mx, p, t) ==
  LET AnyOf(sigs) == [i \in DOMAIN sigs |-> [sig |-> sigs[i], args |-> Wilds(sigs[i].arity)]]
  IN  IF p.k = "pcon" THEN <<[sig |-> Sig(p.n, Len(p.args)), args |-> p.args]>> ELSE AnyOf(wildcardCons(HeadsOf(mx, "pcon"), t))

conSteps(mx, q, t, restTys, depth, cases) ==
  [i \in DOMAIN cases |-> conStep(mx, q, t, restTys, depth, cases[i].sig, cases[i].args)]

usefulSteps(mx, q, t, restTys, depth) ==
  CASE q[1].k = "plit" -> <<Step(specializeLit(mx, q[1].n), Tail(q), restTys, NoCon)>>
    [] q[1].k = "precord" \/ (q[1].k = "wild" /\ hasRecordPats(mx)) ->
         <<recordStep(mx, q, t, restTys, allRecordLabels(Append(mx, q)))>>
    [] q[1].k = "wild" /\ HeadsOf(mx, "pcon") = {} -> <<defaultStep(mx, q, restTys)>>
    [] OTHER -> conSteps(mx, q, t, restTys, depth, conCases(mx, q[1], t))

RECURSIVE isUsefulAt(_, _, _, _)
RECURSIVE firstUseful(_, _)
firstUseful(steps, depth) ==
  LET Found(s, r) == IF s.con = NoCon THEN r ELSE Useful(reconstructCon(s.con.name, s.con.arity, r.witness))
      Tried(s, r) == IF r.useful THEN Found(s, r) ELSE firstUseful(Tail(steps), depth)
  IN  IF steps = <<>> THEN Useless
      ELSE Tried(steps[1], isUsefulAt(steps[1].mx, steps[1].q, steps[1].tys, depth + 1))

isUsefulTyped(mx, q, t, restTys, depth) == firstUseful(usefulSteps(mx, q, t, restTys, depth), depth)

isUsefulAt(mx, q, tys, depth) ==
  CASE depth > MaxExhaustDepth -> Useless
    [] q = <<>> -> IF mx = <<>> THEN Useful(Wild) ELSE Useless
    [] mx = <<>> -> Useful(Wild)
    [] OTHER -> isUsefulTyped(mx, q, IF tys = <<>> THEN Unknown_ ELSE Zonk(Unifier, tys[1]).t, SubSeq(tys, 2, Len(tys)), depth)

(* CheckExhaustive: the rows reported as redundant and the constructors    *)
(* reported missing, or the witness.                                       *)
Queries(mx, pats, sigs) ==
  {<<SubSeq(mx, 1, i - 1), pats[i]>> : i \in 2..Len(pats)} \cup {<<mx, Wild>>}
    \cup UNION {{<<mx, PCon(s.name, Wilds(s.arity))>> : s \in Range(some)} : some \in Range(sigs)}

Reported(mx, pats, sigs, useful) ==
  LET Missing(some) == {s.name : s \in {s \in Range(some) : useful[<<mx, PCon(s.name, Wilds(s.arity))>>].useful}}
      Missed(w) == IF ~w.useful THEN [cons |-> {}, witness |-> <<>>]
                   ELSE IF sigs = <<>> THEN [cons |-> {}, witness |-> <<w.witness>>]
                   ELSE [cons |-> Missing(sigs[1]), witness |-> <<>>]
  IN  [redundant |-> {i \in 2..Len(pats) : ~useful[<<SubSeq(mx, 1, i - 1), pats[i]>>].useful},
       missing |-> Missed(useful[<<mx, Wild>>])]

checkMatrix(t, mx, pats, sigs) ==
  Reported(mx, pats, sigs, [q \in Queries(mx, pats, sigs) |-> isUsefulAt(q[1], <<q[2]>>, <<t>>, 0)])

checkTyped(t, pats) == checkMatrix(t, [i \in DOMAIN pats |-> <<pats[i]>>], pats, constructorSigs(t))

CheckExhaustive(t0, pats) ==
  checkTyped(reduceN(ReduceState(MaxTFSteps, Unifier.fresh), Zonk(Unifier, t0).t).t, pats)
=============================================================================
