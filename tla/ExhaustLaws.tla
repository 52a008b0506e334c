------------------------------ MODULE ExhaustLaws ------------------------------
(***************************************************************************)
(* The check of a case expression, alternative after alternative, against  *)
(* the values of the scrutinee's type: what the usefulness algorithm must  *)
(* say of every well-typed list of patterns.                               *)
(***************************************************************************)
EXTENDS Exhaust

CONSTANTS
  Scrutinees,  \* the types of scrutinees, as the checker infers them
  GroundTypes, \* what each of them stands for
  Literals,    \* the literals a pattern can be; a value can be another one
  MaxAlts      \* bound on the alternatives of a case

VARIABLES
  scrut,  \* the type of the scrutinee
  alts,   \* the patterns of the alternatives
  report  \* what CheckExhaustive says of them

exhaustVars == <<scrut, alts, report>>

Int_ == -1  \* the constructor of the type of literals

(* The parameters of a constructor at a ground type, in a sequence of one  *)
(* when it builds values of the type.                                      *)
RECURSIVE Signature(_)
Signature(t) == CASE t.k = "forall" -> Signature(t.args[2]) [] t.k = "evidence" -> Signature(t.args[2])
                  [] t.k = "arrow" -> <<t.args[1]>> \o Signature(t.args[2]) [] OTHER -> <<t>>

ParametersAt(c, t) ==
  LET parts == Signature(c.type)
      m == MatchTyPattern(Last(parts), t, <<>>)
  IN  IF m.s = "success" THEN <<[i \in DOMAIN Front(parts) |-> SubstMany(parts[i], m.m, <<>>)]>> ELSE <<>>

Args(c, t) == ParametersAt(c, t)[1]
ConsOf(t) == {c \in Range(DataTypes[headTyCon(t)]) : ParametersAt(c, t) # <<>>}

RowOf(t) == t.args[2]
ChoicesOf(t) == UnwindApp(t, <<>>).args[1]

(* The values of a ground type, written like patterns.                     *)
Tuples(sets) == {g \in [DOMAIN sets -> UNION Range(sets)] : \A i \in DOMAIN sets : g[i] \in sets[i]}

RECURSIVE Values(_)
Values(t) ==
  CASE t.k = "var" -> {node("plit", -1, <<>>)}
    [] headTyCon(t) = Int_ -> {node("plit", i, <<>>) : i \in Literals \cup {-1}}
    [] IsRecordOfRow(t) ->
         LET fs == Entries(RowOf(t))
         IN  {PRecord([i \in DOMAIN fs |-> node("field", fs[i].n, <<g[i]>>)]) :
                g \in Tuples([i \in DOMAIN fs |-> Values(fs[i].args[1])])}
    [] IsVariant(t) -> {PCon(l, <<>>) : l \in LabelsOf(Entries(ChoicesOf(t))) \cup IF IsOpen(ChoicesOf(t)) THEN {-1} ELSE {}}
    [] OTHER -> UNION {{PCon(c.name, g) : g \in Tuples([i \in DOMAIN Args(c, t) |-> Values(Args(c, t)[i])])} : c \in ConsOf(t)}

(* The patterns a checked alternative can have at a ground type.           *)
RECURSIVE Patterns(_)
Patterns(t) ==
  {Wild} \cup
  CASE t.k = "var" -> {}
    [] headTyCon(t) = Int_ -> {node("plit", i, <<>>) : i \in Literals}
    [] IsRecordOfRow(t) ->
         LET fs == Entries(RowOf(t))
             Some(s) == SelectSeq(fs, LAMBDA f : f.n \in s)
         IN  UNION {{PRecord([i \in DOMAIN Some(s) |-> node("field", Some(s)[i].n, <<g[i]>>)]) :
                       g \in Tuples([i \in DOMAIN Some(s) |-> Patterns(Some(s)[i].args[1])])} : s \in SUBSET LabelsOf(fs) \ {{}}}
    [] IsVariant(t) -> {PCon(l, <<>>) : l \in LabelsOf(Entries(ChoicesOf(t)))}
    [] OTHER -> UNION {{PCon(c.name, g) : g \in Tuples([i \in DOMAIN Args(c, t) |-> Patterns(Args(c, t)[i])])} : c \in ConsOf(t)}

RECURSIVE Matches(_, _)
Matches(p, v) ==
  CASE p.k = "wild" -> TRUE
    [] p.k = "precord" -> \A i \in DOMAIN p.args : Matches(p.args[i].args[1], RowField(v.args, p.args[i].n).args[1])
    [] OTHER -> p.k = v.k /\ p.n = v.n /\ \A i \in DOMAIN p.args : Matches(p.args[i], v.args[i])

Ground(t) == GroundTypes[t]
PatternsAt == [t \in Scrutinees |-> Patterns(Ground(t))]
ValuesAt == [t \in Scrutinees |-> Values(Ground(t))]

(* The values no row of a set matches.                                     *)
MissedBy(rows) == {v \in ValuesAt[scrut] : \A i \in rows : ~Matches(alts[i], v)}

(* Constructors below a constructor with a type of its own are in a column *)
(* whose type the checker does not know, and it takes them for all there   *)
(* are.                                                                    *)
Nested(p) == \E i \in DOMAIN p.args : p.args[i].k = "pcon"
IsGadtPattern(p) == p.k = "pcon" /\ p.n \in {c.name : c \in {d \in Range(AllCons) : isGADT(Last(Signature(d.type)))}}

RECURSIVE Opaque(_)
Opaque(p) == (IsGadtPattern(p) /\ Nested(p)) \/ \E i \in DOMAIN p.args : Opaque(p.args[i])

Transparent == \A i \in DOMAIN alts : ~Opaque(alts[i])

--------------------------------------------------------------------------------
NoReport == [redundant |-> {}, missing |-> [cons |-> {}, witness |-> <<>>]]

ExhaustInit == scrut \in Scrutinees /\ alts = <<>> /\ report = NoReport

(* checkExhaustive of the alternatives so far and one more.                *)
CheckAlternative(p) ==
  /\ Len(alts) < MaxAlts
  /\ alts' = Append(alts, p)
  /\ report' = CheckExhaustive(scrut, alts')
  /\ UNCHANGED scrut

ExhaustNext == \E p \in PatternsAt[scrut] : CheckAlternative(p)

Reports == report.missing # NoReport.missing

(* MissedValuesReported: a case without a report matches every value of    *)
(* its scrutinee's type, nested, refined by the types of constructors, in  *)
(* records and choices: no value it does not match reaches the machine.    *)
MissedValuesReported == alts # <<>> /\ Transparent /\ ~Reports => MissedBy(DOMAIN alts) = {}

(* ReportsAreMissed: a report is about a value that no alternative matches,*)
(* and names the constructors of such values, all of them when every type  *)
(* is known: a case is not rejected for a constructor its type excludes.   *)
MissedCons == {v.n : v \in {w \in MissedBy(DOMAIN alts) : w.n > 0}}
NamedCons == {c \in report.missing.cons : c > 0}

ReportsAreMissed ==
  Reports =>
    /\ MissedBy(DOMAIN alts) # {}
    /\ NamedCons \subseteq MissedCons
    /\ Transparent /\ report.missing.cons # {} => NamedCons = MissedCons

(* RedundantAreUseless: an alternative is reported as redundant exactly    *)
(* when the ones before it match every value it matches.                   *)
RedundantAreUseless ==
  Transparent =>
    report.redundant = {i \in 2..Len(alts) : \A v \in MissedBy(1..(i - 1)) : ~Matches(alts[i], v)}

(* The verdict on a case expression is about its values: missing are those *)
(* no alternative matches, redundant the alternatives that match none left *)
(* by the ones before (CheckExhaustive).                                   *)
VerdictExact == MissedValuesReported /\ ReportsAreMissed /\ RedundantAreUseless
=============================================================================
