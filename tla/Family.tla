------------------------------- MODULE Family -------------------------------
(***************************************************************************)
(* Type families: matching equations, the builtin families of rows, the    *)
(* reduction of a whole type with its cache against cycles, and aliases    *)
(* (internal/compiler/check/family, alias.go).                             *)
(*                                                                         *)
(* A family is [params, eqs, injective], an equation [pats, rhs]; the      *)
(* variable 0 of a pattern is the wildcard.  Arguments are zonked: the     *)
(* unifier zonks before it reduces.  r is the state of a reduction: the    *)
(* cache of this top-level call, the steps left, the next metavariable,    *)
(* the applications registered as stuck and how many errors were added.    *)
(***************************************************************************)
EXTENDS TypeRows

CONSTANTS
  Families,         \* the families of the program, by name
  Aliases,          \* the aliases, by name: [params, body]
  Merge_, Without_, Lookup_, MapRow_,  \* the names of the builtin families
  TypeKind,         \* the kind a family's result has
  MaxReductionSize, \* maxReductionTypeSize
  MaxAliasDepth     \* maxAliasExpansionDepth

ASSUME FamilyBounds == MaxReductionSize \in Nat /\ MaxAliasDepth \in Nat

RECURSIVE HasNode(_, _)
HasNode(t, kinds) == t.k \in kinds \/ \E i \in DOMAIN t.args : HasNode(t.args[i], kinds)

HasMeta(t) == HasNode(t, {"meta", "skolem", "lmeta"})

HasFamilyApp(t) == HasNode(t, {"meta", "skolem", "lmeta", "family"})

(* MapChildren and ZonkEntries copy the fields from the first one that     *)
(* changed, without the mark of a label variable.                          *)
RebuiltFields(old, new) ==
  LET changed == {i \in DOMAIN old : old[i] # new[i]}
  IN  [i \in DOMAIN new |-> IF new[i].k = "fieldvar" /\ \E j \in changed : j <= i THEN [new[i] EXCEPT !.k = "field"] ELSE new[i]]

(* A node with the parts from the given one on replaced.                   *)
MapChildren(t, from, parts) ==
  [t EXCEPT !.args = SubSeq(t.args, 1, from - 1) \o (IF t.k = "row" THEN RebuiltFields(t.args, parts) ELSE parts)]

--------------------------------------------------------------------------------
(* Matching: success with a substitution, failure, or stuck at a           *)
(* metavariable.                                                           *)
Matched(s, m) == [s |-> s, m |-> m]

RECURSIVE MatchTyPattern(_, _, _)
MatchTyPattern(pat, arg, m) ==
  LET Fun(r) == IF r.s = "success" THEN MatchTyPattern(pat.args[2], arg.args[2], r.m) ELSE r
  IN  CASE pat.k = "var" /\ pat.n = 0 -> Matched("success", m)
        [] pat.k = "var" /\ pat.n \in DOMAIN m -> Matched(IF Equal(m[pat.n], arg) THEN "success" ELSE "fail", m)
        [] pat.k = "var" -> Matched("success", (pat.n :> arg) @@ m)
        [] pat.k \in {"con", "app"} /\ arg.k = "meta" -> Matched("stuck", m)
        [] pat.k = "con" /\ arg.k = "con" -> Matched(IF pat.n = arg.n THEN "success" ELSE "fail", m)
        [] pat.k = "app" /\ arg.k = "app" -> Fun(MatchTyPattern(pat.args[1], arg.args[1], m))
        [] OTHER -> Matched("fail", m)

RECURSIVE MatchEach(_, _, _)
MatchEach(pats, args, r) ==
  IF pats = <<>> \/ r.s # "success" THEN r ELSE MatchEach(Tail(pats), Tail(args), MatchTyPattern(Head(pats), Head(args), r.m))

MatchTyPatterns(pats, args) ==
  IF Len(pats) # Len(args) THEN Matched("fail", <<>>) ELSE MatchEach(pats, args, Matched("success", <<>>))

--------------------------------------------------------------------------------
(* One step of one application: <<type>>, <<>> when it is stuck, and       *)
(* whether an error is added.                                              *)
Reduct(ts, err) == [ts |-> ts, err |-> err]

IsClosedCapRow(t) == t.k = "row" /\ ~IsOpen(t)

RECURSIVE MergeFields(_, _)
MergeFields(a, b) ==
  IF a = <<>> \/ b = <<>> THEN a \o b
  ELSE IF a[1].n < b[1].n THEN <<a[1]>> \o MergeFields(Tail(a), b) ELSE <<b[1]>> \o MergeFields(a, Tail(b))

reduceMerge(a, b) ==
  CASE a.k # "row" \/ b.k # "row" -> Reduct(<<>>, FALSE)
    [] LabelsOf(Entries(a)) \cap LabelsOf(Entries(b)) # {} -> Reduct(<<>>, TRUE)
    [] IsOpen(a) \/ IsOpen(b) -> Reduct(<<>>, FALSE)
    [] OTHER -> Reduct(<<Row("row", MergeFields(Entries(a), Entries(b)), <<>>)>>, FALSE)

reduceAtLabel(name, label, row) ==
  CASE ~IsLabelLiteral(label) \/ ~IsClosedCapRow(row) -> Reduct(<<>>, FALSE)
    [] label.n \notin LabelsOf(Entries(row)) -> Reduct(<<>>, TRUE)
    [] name = Without_ -> Reduct(<<RemoveLabel(row, label.n)>>, FALSE)
    [] OTHER -> Reduct(<<RowField(Entries(row), label.n).args[1]>>, FALSE)

(* The first equation that does not fail decides.                          *)
RECURSIVE ReduceEquations(_, _)
Sized(t) == IF TypeSize(t) > MaxReductionSize THEN Reduct(<<>>, TRUE) ELSE Reduct(<<t>>, FALSE)

ReduceMatched(eqs, args, m) ==
  CASE m.s = "fail" -> ReduceEquations(Tail(eqs), args)
    [] m.s = "stuck" -> Reduct(<<>>, FALSE)
    [] OTHER -> Sized(SubstMany(eqs[1].rhs, m.m, <<>>))

ReduceEquations(eqs, args) ==
  IF eqs = <<>> THEN Reduct(<<>>, FALSE) ELSE ReduceMatched(eqs, args, MatchTyPatterns(eqs[1].pats, args))

Arity(name) == IF name \in {Merge_, Without_, Lookup_, MapRow_} THEN 2
               ELSE IF name \in DOMAIN Families THEN Families[name].params ELSE 0

--------------------------------------------------------------------------------
(* reduceFamilyApps.  The result of an application is remembered under its *)
(* arguments, and before its right side is reduced the application itself: *)
(* met again inside, it stays as it is.                                    *)
ReduceState(steps, fresh) == [cache |-> <<>>, steps |-> steps, fresh |-> fresh, stuck |-> <<>>, errs |-> 0]

With(r, t) == [r |-> r, t |-> t]

RECURSIVE MetasOf(_)
MetasOf(t) == IF t.k = "meta" THEN {t.n} ELSE UNION {MetasOf(ForEachChild(t)[i]) : i \in DOMAIN ForEachChild(t)}

RECURSIVE reduceN(_, _)
RECURSIVE reduceEach(_, _)
reduceEach(acc, ts) ==
  LET One(n) == reduceEach(With(n.r, Append(acc.t, n.t)), Tail(ts))
  IN  IF ts = <<>> THEN acc ELSE One(reduceN(acc.r, Head(ts)))

ReduceAllOf(r, ts) == reduceEach(With(r, <<>>), ts)

RECURSIVE ReduceTyFamily(_, _, _)

(* MapRow applies the function to each field and reduces.                  *)
reduceMapRow(r, f, row) ==
  LET Fields(acc) == With(acc.r, <<Row("row", [i \in DOMAIN Entries(row) |->
                                      [Entries(row)[i] EXCEPT !.k = "field", !.args = [@ EXCEPT ![1] = acc.t[i]]]], <<>>)>>)
  IN  IF f.k = "meta" \/ ~IsClosedCapRow(row) THEN With(r, <<>>)
      ELSE Fields(ReduceAllOf(r, [i \in DOMAIN Entries(row) |-> App(f, Entries(row)[i].args[1])]))

(* ReduceTyFamily: With(r, <<type>>), or With(r, <<>>) when it is stuck.   *)
ReduceTyFamily(r0, name, args) ==
  LET r == [r0 EXCEPT !.steps = @ - 1]
      Outcome(o) == With(IF o.err THEN [r EXCEPT !.errs = @ + 1] ELSE r, o.ts)
  IN  CASE r.steps < 0 -> With([r0 EXCEPT !.errs = @ + 1], <<>>)
        [] name = MapRow_ -> reduceMapRow(r, args[1], args[2])
        [] name = Merge_ -> Outcome(reduceMerge(args[1], args[2]))
        [] name \in {Without_, Lookup_} -> Outcome(reduceAtLabel(name, args[1], args[2]))
        [] OTHER -> Outcome(IF name \in DOMAIN Families THEN ReduceEquations(Families[name].eqs, args) ELSE Reduct(<<>>, FALSE))

(* A stuck application that waits for metavariables is replaced by a fresh *)
(* one; the solver has the equation.                                       *)
registerStuck(r, name, args) ==
  LET blocking == UNION {MetasOf(args[i]) : i \in DOMAIN args}
      Placed(id) == With([r EXCEPT !.fresh = id, !.stuck = Append(@, [fam |-> name, args |-> args, meta |-> id])], Meta(id))
  IN  IF blocking = {} THEN With(r, FamilyApp(name, args, TypeKind)) ELSE Placed(r.fresh + 1)

Cached(one, key) == With([one.r EXCEPT !.cache = (key :> one.t) @@ @], one.t)

ReduceFurther(step, name, args) ==
  IF step.t = <<>> THEN registerStuck(step.r, name, args)
  ELSE Cached(reduceN([step.r EXCEPT !.cache = (<<name, args>> :> FamilyApp(name, args, TypeKind)) @@ @], step.t[1]), <<name, args>>)

Saturated(r, name, args) ==
  IF <<name, args>> \in DOMAIN r.cache THEN With(r, r.cache[<<name, args>>])
  ELSE ReduceFurther(ReduceTyFamily(r, name, args), name, args)

Apply(acc, name) == Saturated(acc.r, name, acc.t)

(* A type without metavariables and explicit applications is not walked,   *)
(* unless it is an application: a family applied like a constructor is     *)
(* only seen at the head of one.                                           *)
reduceN(r0, t) ==
  LET r == IF t.k \in EntryKinds THEN r0 ELSE [r0 EXCEPT !.steps = @ - 1]
      spine == UnwindApp(t, <<>>)
      From == IF t.k = "quant" THEN 2 ELSE 1
      Call == CASE t.k = "family" -> <<t.n, SubSeq(t.args, 1, Len(t.args) - 1)>>
                [] t.k = "app" /\ spine.head.k = "con" /\ Arity(spine.head.n) = Len(spine.args) -> <<spine.head.n, spine.args>>
                [] OTHER -> <<>>
      Rebuilt(acc) == With(acc.r, MapChildren(t, From, acc.t))
  IN  CASE r.steps < 0 -> With(r0, t)
        [] Call # <<>> -> Apply(ReduceAllOf(r, Call[2]), Call[1])
        [] t.k # "app" /\ (~HasFamilyApp(t) \/ t.k \in {"con", "meta", "skolem"}) -> With(r, t)
        [] OTHER -> Rebuilt(ReduceAllOf(r, SubSeq(t.args, From, Len(t.args))))

--------------------------------------------------------------------------------
(* Aliases: only an application with as many arguments as the alias has    *)
(* parameters; otherwise its parts, and then itself again.                 *)
RECURSIVE expandAliases(_, _)
AliasBody(alias, args) ==
  IF Len(alias.params) = 1 THEN Subst(alias.body, alias.params[1], args[1])
  ELSE SubstMany(alias.body, [p \in Range(alias.params) |-> args[SelectLastInSeq(alias.params, LAMBDA q : q = p)]], <<>>)

expandAliases(t, depth) ==
  LET spine == UnwindApp(t, <<>>)
      Again(u) == IF u = t THEN t ELSE expandAliases(u, depth + 1)
  IN  CASE depth > MaxAliasDepth \/ t.k # "app" \/ spine.head.k # "con" -> t
        [] spine.head.n \in DOMAIN Aliases /\ Len(Aliases[spine.head.n].params) = Len(spine.args) ->
             expandAliases(AliasBody(Aliases[spine.head.n], spine.args), depth + 1)
        [] OTHER -> Again(App(expandAliases(t.args[1], depth + 1), expandAliases(t.args[2], depth + 1)))

(* validateAliasGraph: depth first; path is the chain of aliases being     *)
(* expanded, done the ones found harmless.  A cycle ends its own search    *)
(* and leaves the aliases of its path as they are.                         *)
RECURSIVE AliasRefs(_, _)
AliasRefs(t, names) ==
  CASE t.k = "con" -> {t.n} \cap names
    [] t.k = "family" -> {}
    [] t.k = "forall" -> AliasRefs(t.args[2], names)
    [] OTHER -> UNION {AliasRefs(ForEachChild(t)[i], names) : i \in DOMAIN ForEachChild(t)}

RECURSIVE visitAlias(_, _, _, _)

visitAlias(aliases, name, path, acc) ==
  LET Refs(a) == FoldLeft(LAMBDA b, ref : IF b.cycle THEN b ELSE visitAlias(aliases, ref, Append(path, name), b),
                          a, SetToSortSeq(AliasRefs(aliases[name].body, DOMAIN aliases), <))
      Finish(a) == IF a.cycle THEN a ELSE [a EXCEPT !.done = @ \cup {name}]
  IN  CASE name \in acc.done -> acc
        [] name \in Range(path) -> [acc EXCEPT !.cycle = TRUE]
        [] OTHER -> Finish(Refs(acc))

HasAliasCycle(aliases) ==
  (FoldLeft(LAMBDA acc, name : IF acc.cycle THEN acc ELSE visitAlias(aliases, name, <<>>, acc),
            [done |-> {}, cycle |-> FALSE], SetToSortSeq(DOMAIN aliases, <))).cycle
=============================================================================
