------------------------------ MODULE TypeRows ------------------------------
(***************************************************************************)
(* Comparing types and keeping rows: alpha-equality, the structural keys   *)
(* that caches and instance names use, capability rows ordered by label,   *)
(* constraint rows ordered by key, and how two rows are matched            *)
(* (internal/lang/types: equal.go, key.go, evidence*.go, constraint*.go).  *)
(* A key is a sequence of numbers, negative ones for the delimiters: what  *)
(* matters of the strings is what they tell apart and that they are        *)
(* ordered.                                                                *)
(***************************************************************************)
EXTENDS Types

RECURSIVE LexLess(_, _)
LexLess(a, b) ==
  b # <<>> /\ (a = <<>> \/ a[1] < b[1] \/ (a[1] = b[1] /\ LexLess(Tail(a), Tail(b))))

(* Mutant: only the binders of the first type are looked through. *)
SameNameLeft(x, y, bindings) ==
  LET Hits == {i \in DOMAIN bindings : bindings[i][1] = x}
  IN  IF Hits = {} THEN x = y ELSE bindings[Max(Hits)] = <<x, y>>

(* Two names are equal under the binders passed so far when the innermost  *)
(* binding that has either of them has both.                               *)
SameName(x, y, bindings) ==
  LET Hits == {i \in DOMAIN bindings : bindings[i][1] = x \/ bindings[i][2] = y}
  IN  IF Hits = {} THEN x = y ELSE bindings[Max(Hits)] = <<x, y>>

--------------------------------------------------------------------------------
(* WriteTypeKey.  Binders keep their names, a level is written when it is  *)
(* not that of values, of a quantified constraint only the head is there,  *)
(* and a label variable reads like a label.                                *)
KeyTag == [con |-> <<>>, var |-> <<-1>>, meta |-> <<-2>>, skolem |-> <<-3>>, app |-> <<-4>>, arrow |-> <<-5>>,
           comp |-> <<-6>>, thunk |-> <<-7>>, forall |-> <<-8>>, family |-> <<-9>>, evidence |-> <<-10>>,
           row |-> <<-11>>, crow |-> <<-12>>, error |-> <<-13>>, field |-> <<-14>>, fieldvar |-> <<-14>>,
           class |-> <<-15>>, eq |-> <<-16>>, varc |-> <<-17>>, lit |-> <<-18>>, lvar |-> <<-19>>, lmeta |-> <<-20>>,
           lmax |-> <<-21>>, lsucc |-> <<-22>>]

Named == {"con", "var", "meta", "skolem", "forall", "family", "field", "fieldvar", "class", "lit", "lvar", "lmeta"}

RECURSIVE TypeKey(_)
KeysOf(ts) == FlattenSeq([i \in DOMAIN ts |-> TypeKey(ts[i])])

TaggedKey(t) ==
  KeyTag[t.k] \o (IF t.k \in Named THEN <<t.n>> ELSE <<>>) \o KeysOf(t.args) \o (IF t.args = <<>> THEN <<>> ELSE <<-30>>)

EvidenceRowKey(row) ==
  KeyTag[row.k] \o KeysOf(Entries(row)) \o (IF IsOpen(row) THEN <<-25>> ELSE <<>>) \o KeysOf(Tail_(row)) \o <<-30>>

ConstraintEntryKey(e) == IF e.k = "quant" THEN <<-24>> \o TypeKey(Last(e.args)) ELSE TaggedKey(e)

TypeKey(t) ==
  CASE t.k = "con" /\ t.args[1] = Lit(0) -> <<t.n>>
    [] IsRow(t) -> EvidenceRowKey(t)
    [] t.k \in EntryKinds -> ConstraintEntryKey(t)
    [] OTHER -> TaggedKey(t)

(* What rows are sorted by: a class's key starts with its name, the others'*)
(* with a mark of their variant.                                           *)
ConstraintKey(e) ==
  LET Mark == CASE e.k = "class" -> <<e.n>> [] e.k = "eq" -> <<-16>> [] e.k = "varc" -> <<-17>> [] OTHER -> <<-24, Last(e.args).n>>
      Types_ == IF e.k = "quant" THEN Last(e.args).args ELSE e.args
  IN  Mark \o FlattenSeq([i \in DOMAIN Types_ |-> <<-31>> \o TypeKey(Types_[i])])

KeyBefore(e, g) == LexLess(ConstraintKey(e), ConstraintKey(g))

--------------------------------------------------------------------------------
(* Capability rows.                                                        *)
LabelsOf(fields) == {fields[i].n : i \in DOMAIN fields}

NormalizeRow(row) ==
  IF Cardinality(LabelsOf(Entries(row))) < Len(Entries(row)) THEN ErrorType
  ELSE Row("row", SortSeq(Entries(row), LAMBDA f, g : f.n < g.n), Tail_(row))

InsertAt_(entries, i, e) == SubSeq(entries, 1, i - 1) \o <<e>> \o SubSeq(entries, i, Len(entries))

ExtendRow(row, f) ==
  LET fields == Entries(row)
      Later == {i \in DOMAIN fields : f.n < fields[i].n}
      At == IF Later = {} THEN Len(fields) + 1 ELSE Min(Later)
  IN  IF f.n \in LabelsOf(fields) THEN ErrorType ELSE Row("row", InsertAt_(fields, At, f), Tail_(row))

RemoveLabel(row, label) ==
  LET At == SelectInSeq(Entries(row), LAMBDA f : f.n = label)
  IN  IF At = 0 THEN row ELSE Row("row", RemoveAt(Entries(row), At), Tail_(row))

(* The fields of a row whose tail is a row again, outermost first.         *)
RECURSIVE FlattenCapRow(_)
FlattenCapRow(row) ==
  IF row.k = "row" /\ IsOpen(row) /\ Last(row.args).k = "row"
  THEN FlattenCapRow(Row("row", Entries(row) \o Entries(Last(row.args)), Tail_(Last(row.args))))
  ELSE row

(* CollectCapFields and ClassifyRowFields: the fields whose labels are in  *)
(* both rows, and in one of them only.                                     *)
FieldsIn(fields, labels) == SelectSeq(fields, LAMBDA f : f.n \in labels)

ClassifyRowFields(a, b) ==
  [shared |-> FieldsIn(a, LabelsOf(b)),
   onlyA |-> FieldsIn(a, LabelsOf(a) \ LabelsOf(b)), onlyB |-> FieldsIn(b, LabelsOf(b) \ LabelsOf(a))]

RowField(fields, label) == fields[SelectInSeq(fields, LAMBDA f : f.n = label)]

--------------------------------------------------------------------------------
(* Constraint rows.                                                        *)
NormalizeConstraints(entries) ==
  IF Len(entries) <= 1 THEN entries
  ELSE SortSeq(entries, KeyBefore)

ExtendConstraint(row, e) ==
  LET Insert(later) == InsertAt_(Entries(row), IF later = {} THEN Len(Entries(row)) + 1 ELSE Min(later), e)
  IN  Row("crow", Insert({i \in DOMAIN Entries(row) : KeyBefore(e, Entries(row)[i])}), Tail_(row))

HeadClass(e) == IF e.k = "quant" THEN Last(e.args) ELSE e

IsClassHeaded(e) == e.k \in {"class", "quant"}

--------------------------------------------------------------------------------
(* Equal: alpha-equality, the walk of typeEqualizer.  Fields are compared  *)
(* in order and by label, constraints after sorting by key.                *)
InOrder(t) == IF t.k = "crow" THEN NormalizeConstraints(Entries(t)) \o Tail_(t) ELSE t.args

RECURSIVE alpha(_, _, _)
SameParts(ps, from, bindings) == Len(ps[1]) = Len(ps[2]) /\ \A i \in from..Len(ps[1]) : alpha(ps[1][i], ps[2][i], bindings)

SameUnderBinder(a, b, bindings) ==
  b.k = a.k /\ alpha(a.args[1], b.args[1], bindings) /\ SameParts(<<a.args, b.args>>, 2, Append(bindings, <<a.n, b.n>>))

alphaEntry(a, b, bindings) ==
  IF a.k = "quant" THEN SameUnderBinder(a, b, bindings)
  ELSE (a.k = b.k \/ (IsField(a) /\ IsField(b))) /\ a.n = b.n /\ SameParts(<<a.args, b.args>>, 1, bindings)

SameRows(a, b, bindings) == a.n = b.n /\ SameParts([i \in {1, 2} |-> InOrder(<<a, b>>[i])], 1, bindings)

alpha(a, b, bindings) ==
  CASE a.k = "var" -> b.k = "var" /\ SameName(a.n, b.n, bindings)
    [] a.k = "forall" -> SameUnderBinder(a, b, bindings)
    [] a.k \in EntryKinds -> alphaEntry(a, b, bindings)
    [] IsRow(a) -> a.k = b.k /\ SameRows(a, b, bindings)
    [] OTHER -> a.k = b.k /\ a.n = b.n /\ SameParts(<<a.args, b.args>>, 1, bindings)

Equal(a, b) == alpha(a, b, <<>>)

Unused(b, used) == DOMAIN b \ used

(* ClassifyConstraints matches the entries of a, in order, with unused     *)
(* entries of b: of the same class, the first with equal arguments or else *)
(* the first; another variant only with one of the same key.               *)
Fitting(e, b, used) ==
  {i \in Unused(b, used) : IF IsClassHeaded(e) THEN IsClassHeaded(b[i]) /\ HeadClass(e).n = HeadClass(b[i]).n
                           ELSE ~IsClassHeaded(b[i]) /\ ConstraintKey(e) = ConstraintKey(b[i])}

Exact(e, b, found) == {i \in found : IsClassHeaded(e) /\ Equal(HeadClass(e), HeadClass(b[i]))}

ClassifyEntry(acc, e, b, found, exact) ==
  LET Matched(i) == [acc EXCEPT !.shared = Append(@, <<e, b[i]>>), !.used = @ \cup {i}]
  IN  IF found = {} THEN [acc EXCEPT !.onlyA = Append(@, e)] ELSE Matched(Min(IF exact = {} THEN found ELSE exact))

RECURSIVE classifyFrom(_, _, _)
classifyFrom(acc, a, b) ==
  LET Among(found) == ClassifyEntry(acc, a[1], b, found, Exact(a[1], b, found))
  IN  IF a = <<>> THEN acc ELSE classifyFrom(Among(Fitting(a[1], b, acc.used)), Tail(a), b)

ClassifyConstraints(a, b) ==
  LET Rest(acc) == [shared |-> acc.shared, onlyA |-> acc.onlyA,
                    onlyB |-> [j \in 1..(Len(b) - Cardinality(acc.used)) |-> b[SetToSortSeq(DOMAIN b \ acc.used, <)[j]]]]
  IN  Rest(classifyFrom([shared |-> <<>>, onlyA |-> <<>>, used |-> {}], a, b))

(* A constraint variable that became a class applied to arguments is that  *)
(* class's entry.                                                          *)
DecomposeConstraintType(e) ==
  LET Spine(u) == IF u.head.k = "con" THEN node("class", u.head.n, u.args) ELSE e
  IN  Spine(UnwindApp(e.args[1], <<>>))
=============================================================================
