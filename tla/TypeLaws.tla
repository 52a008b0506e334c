------------------------------ MODULE TypeLaws ------------------------------
(***************************************************************************)
(* What the operations on types promise.  A type is taken through          *)
(* substitutions, instantiations and row extensions, as the checker does,  *)
(* and every operation is compared with the same operation on nameless     *)
(* terms, where a bound variable is its distance to its binder and nothing *)
(* can be captured.                                                        *)
(***************************************************************************)
EXTENDS TypeRows

CONSTANTS
  Seeds,        \* the types a behaviour starts from
  Replacements, \* what variables are replaced by
  SubstNames,   \* the variables that are replaced
  Peers,        \* types the current one is compared with
  NewEntries,   \* entries rows are extended by
  MaxTypeSize   \* types grow up to this size

VARIABLE ty  \* the type, the erroneous one after a failure

ASSUME TypeBound == MaxTypeSize \in Nat

TypesInit == ty \in Seeds

Substitute(x, r) == ty' = Subst(ty, x, r)

SubstituteBoth(x, r, y, s) == ty' = SubstMany(ty, (x :> r) @@ (y :> s), <<>>)

Instantiate(r, s) ==
  /\ ty.k = "forall"
  /\ ty' = PeelForalls(ty, [i \in DOMAIN Binders(ty) |-> IF i = 1 THEN <<r>> ELSE <<s>>]).body

AddEntry(e) ==
  \/ ty.k = "row" /\ IsField(e) /\ ty' = ExtendRow(ty, e)
  \/ ty.k = "crow" /\ ~IsField(e) /\ ty' = ExtendConstraint(ty, e)

TypesNext ==
  /\ \/ \E x \in SubstNames, r \in Replacements : Substitute(x, r)
     \/ \E x, y \in SubstNames, r, s \in Replacements : x < y /\ SubstituteBoth(x, r, y, s)
     \/ \E r, s \in Replacements : Instantiate(r, s)
     \/ \E e \in NewEntries : AddEntry(e)
  /\ TypeSize(ty') <= MaxTypeSize

--------------------------------------------------------------------------------
(* Nameless terms: a variable under its binder becomes its distance, so    *)
(* do the labels and the levels of that name.                              *)
RECURSIVE nameless(_, _)
nameless(t, bound) ==
  LET At == SelectLastInSeq(bound, LAMBDA v : v = t.n)
      Under(i) == IF t.k \in {"forall", "quant"} /\ i > 1 THEN Append(bound, t.n) ELSE bound
      Parts == [i \in DOMAIN t.args |-> nameless(t.args[i], Under(i))]
  IN  CASE t.k \in {"var", "lvar", "fieldvar"} /\ At > 0 -> node("bound" \o t.k, Len(bound) - At, Parts)
        [] t.k \in {"forall", "quant"} -> node(t.k, 0, Parts)
        [] OTHER -> node(t.k, t.n, Parts)

Nameless(t) == nameless(t, <<>>)

(* Free variables replaced, all at once.                                   *)
RECURSIVE Replaced(_, _, _)
Replaced(t, subs, levels) ==
  LET Parts == [t EXCEPT !.args = [i \in DOMAIN t.args |-> Replaced(t.args[i], subs, levels)]]
  IN  CASE t.k = "var" /\ t.n \in DOMAIN subs -> subs[t.n]
        [] t.k = "lvar" /\ t.n \in DOMAIN levels -> levels[t.n]
        [] t.k = "fieldvar" /\ t.n \in DOMAIN subs -> RelabelField(Parts, TRUE, subs[t.n])
        [] OTHER -> Parts

(* The body of a nameless binder, its variable replaced.                   *)
RECURSIVE Opened(_, _, _, _)
Opened(t, i, r, level) ==
  LET Parts == [t EXCEPT !.args = [j \in DOMAIN t.args |->
                                     Opened(t.args[j], i + (IF t.k \in {"forall", "quant"} /\ j > 1 THEN 1 ELSE 0), r, level)]]
  IN  CASE t.k = "boundvar" /\ t.n = i -> r
        [] t.k = "boundlvar" /\ t.n = i -> level
        [] t.k = "boundfieldvar" /\ t.n = i -> RelabelField(Parts, TRUE, r)
        [] OTHER -> Parts

(* The binders of a chain opened, as many as there are replacements before *)
(* the last entry of visit.                                                *)
RECURSIVE OpenedAll(_, _)
OpenedAll(t, visit) ==
  LET r == Nameless(Head(visit)[1])
      level == IF Len(Head(visit)) = 2 THEN Head(visit)[2] ELSE Lit(0)
  IN  IF Len(visit) = 1 THEN [body |-> t, kinds |-> <<>>]
      ELSE LET rest == OpenedAll(Opened(t.args[2], 0, r, level), Tail(visit))
           IN  [rest EXCEPT !.kinds = <<t.args[1]>> \o @]

--------------------------------------------------------------------------------
(* Where the code departs from its own reading of scope, and the laws make *)
(* no claim.  Renaming a binder renames neither the labels nor the levels  *)
(* it binds; the kind of a binder that shadows the variable is skipped by  *)
(* the single substitution, so by every renaming; a shadowing binder does  *)
(* not stop the levels of a substitution of many.                          *)
RECURSIVE BinderNodes(_)
BinderNodes(t) ==
  (IF t.k \in {"forall", "quant"} THEN {t} ELSE {}) \cup UNION {BinderNodes(t.args[i]) : i \in DOMAIN t.args}

RECURSIVE Mentions(_, _, _)
Mentions(t, x, kinds) == (t.k \in kinds /\ t.n = x) \/ \E i \in DOMAIN t.args : Mentions(t.args[i], x, kinds)

NamesItsBinder(b) == \E i \in 2..Len(b.args) : Mentions(b.args[i], b.n, {"lvar", "fieldvar"})

RenamingSafe(t, rs) ==
  \A b \in BinderNodes(t) : NamesItsBinder(b) \/ occursIn(b.n, b.args[1]) => \A r \in rs : ~occursIn(b.n, r)

KindsSafe(t, x) == \A b \in BinderNodes(t) : b.n = x => ~occursIn(x, b.args[1])

LevelsSafe(t, levels) == \A b \in BinderNodes(t) : ~NamesItsBinder(b) \/ b.n \notin DOMAIN levels

--------------------------------------------------------------------------------
(* Replacing one variable captures nothing and reaches every free          *)
(* occurrence, whatever binders are in the way: of the type, of quantified *)
(* constraints, and those renamed on the way (subst.go).                   *)
SubstCaptureFree ==
  ty # ErrorType => \A x \in SubstNames, r \in Replacements :
    RenamingSafe(ty, {r}) /\ KindsSafe(ty, x) =>
      Nameless(Subst(ty, x, r)) = Replaced(Nameless(ty), x :> Nameless(r), <<>>)

(* Replacing many is simultaneous: no replacement is replaced again, and   *)
(* what a binder shadows is left alone (subst_many.go).                    *)
SubstManyParallel ==
  ty # ErrorType => \A x, y \in SubstNames, r, s \in Replacements :
    LET subs == (x :> r) @@ (y :> s)
        levels == x :> node("lmeta", 9, <<>>)
    IN  x < y /\ RenamingSafe(ty, {r, s}) /\ LevelsSafe(ty, levels) =>
          Nameless(SubstMany(ty, subs, levels)) = Replaced(Nameless(ty), [v \in {x, y} |-> Nameless(subs[v])], levels)

(* Instantiating a chain of binders in one pass gives what replacing them  *)
(* one by one gives, also where a name is bound twice or a replacement has *)
(* the name of a later binder; and each choice sees the kind the earlier   *)
(* ones leave (PeelForalls).                                               *)
PeelIsSequential ==
  ty # ErrorType => \A r, s \in Replacements :
    LET visit == [i \in DOMAIN Binders(ty) |-> IF i % 2 = 1 THEN <<r, node("lmeta", 8, <<>>)>> ELSE <<s, node("lmeta", 9, <<>>)>>]
        levels == [b \in {Binders(ty)[i].n : i \in DOMAIN Binders(ty)} |-> Lit(0)]
        Body == IF Binders(ty) = <<>> THEN ty ELSE Last(Binders(ty)).args[2]
        Kinds == {Binders(ty)[i].args[1] : i \in DOMAIN Binders(ty)}
        Agree(peeled, opened) == /\ Nameless(peeled.body) = opened.body
                                 /\ [i \in DOMAIN peeled.kinds |-> Nameless(peeled.kinds[i])] = opened.kinds
    IN  (\A u \in {Body} \cup Kinds : /\ RenamingSafe(u, {r, s}) /\ LevelsSafe(u, levels)
                                      /\ \A x \in DOMAIN levels : KindsSafe(u, x)
                                                                     /\ Mentions(u, x, {"fieldvar"}) => IsLabelLiteral(r) /\ IsLabelLiteral(s)) =>
          Agree(PeelForalls(ty, visit), OpenedAll(Nameless(ty), visit \o <<<<ErrorType>>>>))

--------------------------------------------------------------------------------
(* Nameless terms up to the order of constraints.                          *)
RECURSIVE Unordered(_)
Unordered(t) ==
  LET Parts == [i \in DOMAIN t.args |-> Unordered(t.args[i])]
      Bag(es) == [e \in {es[i] : i \in DOMAIN es} |-> Cardinality({i \in DOMAIN es : es[i] = e})]
  IN  IF t.k = "crow" THEN [k |-> "crow", n |-> t.n, args |-> SubSeq(Parts, Len(Parts) - t.n + 1, Len(Parts)),
                            bag |-> Bag(SubSeq(Parts, 1, Len(Parts) - t.n))]
      ELSE node(t.k, t.n, Parts)

LabelsAndLevelsFree(t) == \A b \in BinderNodes(t) : ~NamesItsBinder(b)

(* Constraints under a binder are sorted by keys that have its name: two   *)
(* of them may be paired crosswise.                                        *)
SortedAlike(t) == \A b \in BinderNodes(t) : \A i \in DOMAIN b.args : ~Mentions(b.args[i], 1, {"crow"})
                    /\ ~Mentions(b.args[i], 0, {"crow"})

(* Types the comparison calls equal are equal up to the names of binders   *)
(* and the order of constraints; and where no constraints are under a      *)
(* binder, it calls all such types equal (equal.go).                       *)
EqualIsAlpha ==
  ty # ErrorType => \A other \in Peers :
    ~AnyType(ty, {"fieldvar"}) /\ ~AnyType(other, {"fieldvar"}) /\ LabelsAndLevelsFree(ty) /\ LabelsAndLevelsFree(other) =>
      LET same == Unordered(Nameless(ty)) = Unordered(Nameless(other))
      IN  /\ Equal(ty, other) => same
          /\ same /\ SortedAlike(ty) /\ SortedAlike(other) => Equal(ty, other)

(* Two types have one key only when they are one type: caches and instance *)
(* names may compare keys.  Quantified constraints are the exception, the  *)
(* key has their head only, and label variables (key.go).                  *)
KeysDistinguish ==
  ty # ErrorType => \A other \in Peers :
    LET Plain(t) == ~Mentions(t, t.n, {"quant", "fieldvar"}) /\ ~AnyType(t, {"quant", "fieldvar"})
                    /\ \A b \in BinderNodes(t) : b.k # "quant"
    IN  Plain(ty) /\ Plain(other) /\ TypeKey(ty) = TypeKey(other) => ty = other

--------------------------------------------------------------------------------
FieldsSorted(row) == \A i, j \in DOMAIN Entries(row) : i < j => Entries(row)[i].n < Entries(row)[j].n

ConstraintsSorted(row) ==
  \A i, j \in DOMAIN Entries(row) : i < j => ~LexLess(ConstraintKey(Entries(row)[j]), ConstraintKey(Entries(row)[i]))

(* A row built by the operations on rows is in order without repeated      *)
(* labels, which its comparison and its key rely on; a label added and     *)
(* removed again leaves the row, and one it has is refused.                *)
RowsStayOrdered ==
  IsRow(ty) => \A e \in NewEntries :
    LET row == IF ty.k = "row" THEN NormalizeRow(ty) ELSE ty
        more == ExtendRow(row, e)
        known == e.n \in LabelsOf(Entries(row))
        sorted == Row("crow", NormalizeConstraints(Entries(ty)), Tail_(ty))
    IN  /\ row.k = "row" /\ IsField(e) =>
             /\ FieldsSorted(row) /\ (known <=> more.k = "error")
             /\ ~known => FieldsSorted(more) /\ RemoveLabel(more, e.n) = row
        /\ ty.k = "crow" /\ ~IsField(e) =>
             /\ ConstraintsSorted(sorted) /\ ConstraintsSorted(ExtendConstraint(sorted, e))
             /\ Equal(ExtendConstraint(sorted, e), Row("crow", <<e>> \o Entries(ty), Tail_(ty)))

SameEntries(es, fs) == Len(es) = Len(fs) /\ NormalizeConstraints(es) = NormalizeConstraints(fs)

(* Matching two rows loses no entry and uses none twice: of capability     *)
(* rows the labels decide, of constraint rows every class that could be    *)
(* matched is (ClassifyRowFields, ClassifyConstraints).                    *)
RowsMatched ==
  IsRow(ty) => \A other \in Peers :
    LET Caps(a, b, m) ==
          /\ \A l \in LabelsOf(a) \cup LabelsOf(b) :
               LET In(fields) == {i \in DOMAIN fields : fields[i].n = l}
               IN  /\ In(m.onlyA) = {} \/ In(b) = {}
                   /\ In(m.onlyB) = {} \/ In(a) = {}
                   /\ Cardinality(In(m.shared)) + Cardinality(In(m.onlyA)) = Cardinality(In(a))
          /\ LabelsOf(m.shared \o m.onlyB) = LabelsOf(b)
        Constraints(a, b, m) ==
          /\ SameEntries([i \in DOMAIN m.shared |-> m.shared[i][1]] \o m.onlyA, a)
          /\ SameEntries([i \in DOMAIN m.shared |-> m.shared[i][2]] \o m.onlyB, b)
          /\ \A i \in DOMAIN m.onlyA, j \in DOMAIN m.onlyB :
               ~(/\ IsClassHeaded(m.onlyA[i]) /\ IsClassHeaded(m.onlyB[j])
                 /\ HeadClass(m.onlyA[i]).n = HeadClass(m.onlyB[j]).n)
    IN  CASE ty.k = "row" /\ other.k = "row" ->
               LET a == FlattenCapRow(ty)
                   b == FlattenCapRow(other)
               IN  Caps(Entries(a), Entries(b), ClassifyRowFields(Entries(a), Entries(b)))
          [] ty.k = "crow" /\ other.k = "crow" ->
               Constraints(Entries(ty), Entries(other), ClassifyConstraints(Entries(ty), Entries(other)))
          [] OTHER -> TRUE

(* The three ways to substitute in a type, one variable, many at once, and *)
(* a chain of binders, are the substitution of nameless terms.             *)
SubstitutionExact == SubstCaptureFree /\ SubstManyParallel /\ PeelIsSequential

(* Comparing types, naming them by keys and matching their rows entry by   *)
(* entry tell apart exactly what differs; the operations on rows keep the  *)
(* order this relies on (equal.go, key.go, evidence_row.go).               *)
ComparisonExact == EqualIsAlpha /\ KeysDistinguish /\ RowsStayOrdered /\ RowsMatched
=============================================================================
