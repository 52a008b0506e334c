-------------------------------- MODULE MCVm --------------------------------
(***************************************************************************)
(* Programs for the virtual machine, and its agreement with the meaning of *)
(* Core. The programs are Core terms, as the tests of internal/runtime/vm  *)
(* build them: some are ill-typed on purpose, to reach the error paths.    *)
(***************************************************************************)
EXTENDS VmMachine, VmCompiler, CoreSemantics, Optimizer

N(n) == Lit(IntLit(n))
S(l) == Lit(StrLit(l))
Apps(f, a, b) == App(App(f, a), b)
Lams(x, y, b) == Lam(x, Lam(y, b))
Do1(c, b) == Bind(c, "_", b)                 \* c; b
Pair(a, b) == RecordLit(<<"_1", "_2">>, <<a, b>>)
ListOf(h, t) == Con("Cons", <<h, t>>)
Empty == Con("Nil", <<>>)
PCons(x, y) == PCon("Cons", <<x, y>>)
PNil == PCon("Nil", <<>>)

Let(x, e) == CoreBinding(x, e)
NoLimit == [steps |-> 0, depth |-> 0, alloc |-> 0]
Program(bindings, entry, caps, lim) ==
  [mods |-> <<>>, bindings |-> bindings, entry |-> entry, caps |-> caps, lim |-> lim,
   loop |-> FALSE]
Importing(mods, p) == [p EXCEPT !.mods = mods]
Loop(p) == [p EXCEPT !.loop = TRUE]
Plain(bindings, entry) == Program(bindings, entry, <<>>, NoLimit)
With(caps, entry) == Program(<<Let("add", PrimOp("add", <<>>))>>, entry, caps, NoLimit)

Get(l) == PrimOp("getAt", <<S(l)>>)
Put(l, e) == PrimOp("putAt", <<S(l), e>>)
Modify(l, f) == PrimOp("modifyAt", <<S(l), f>>)
Try(l, e) == PrimOp("tryAt", <<S(l), Thunk(e)>>)
Fail(l, e) == PrimOp("failWithAt", <<S(l), e>>)
RunState(l, i, e) == PrimOp("runStateAt", <<S(l), i, Thunk(e)>>)
Foldl(f, z, l) == PrimOp("foldl", <<f, z, l>>)
Add(a, b) == Apps(Var("add"), a, b)

\* Sum of a list, by recursion and in a tail-recursive loop; a loop over the
\* state; a computation that calls itself before its end.
SumList ==
  Fix("sum", Lam("xs", Case(Var("xs"),
    <<Alt(PNil, N(0)), Alt(PCons(PVar("y"), PVar("ys")), Add(Var("y"), App(Var("sum"), Var("ys"))))>>)))
SumLoop ==
  Fix("go", Lams("acc", "xs", Case(Var("xs"),
    <<Alt(PNil, Var("acc")),
      Alt(PCons(PVar("y"), PVar("ys")), Apps(Var("go"), Add(Var("acc"), Var("y")), Var("ys")))>>)))
Drain ==
  Force(Fix("self", Thunk(Bind(Get("s"), "xs", Case(Var("xs"),
    <<Alt(PNil, Get("n")),
      Alt(PCons(PVar("y"), PVar("ys")), Do1(Put("s", Var("ys")), Var("self")))>>)))))
Count ==
  Force(Fix("self", Thunk(Bind(Get("s"), "xs", Case(Var("xs"),
    <<Alt(PNil, Pure(N(0))),
      Alt(PCons(PVar("y"), PVar("ys")),
          Do1(Put("s", Var("ys")), Bind(Var("self"), "n", Pure(Add(Var("n"), N(1))))))>>)))))
Numbers == ListOf(N(1), ListOf(N(2), ListOf(N(3), Empty)))
NumberCaps == ConVal("Cons", <<IntLit(1), ConVal("Cons", <<IntLit(2), ConVal("Nil", <<>>)>>)>>)

Describe ==
  Lam("v", Case(Var("v"),
    <<Alt(PCons(PLit(IntLit(1)), PCons(PVar("b"), PWild)), Var("b")),
      Alt(PRecord(<<"x", "y">>, <<PLit(IntLit(4)), PVar("z")>>), Var("z")),
      Alt(PLabel("none", ""), N(7)),
      Alt(PLabel("some", "w"), Var("w"))>>))

Pure_ == <<
  \* partial, exact and over-application of closures and primitives
  Plain(<<Let("add", PrimOp("add", <<>>)), Let("inc", App(Var("add"), N(1))),
          Let("k", Lams("a", "b", Var("a"))), Let("id", Lam("a", Var("a")))>>,
        Pair(App(Var("inc"), N(2)), Apps(App(Var("id"), Var("k")), N(3), Var("inc")))),
  Plain(<<Let("k3", Lam("a", Lams("b", "c", Lam("d", Var("d"))))),
          Let("p", App(Var("k3"), N(1))), Let("q", Apps(Var("p"), N(2), N(3)))>>,
        Pair(App(App(Var("p"), N(2)), N(3)), App(Var("q"), N(4)))),
  Plain(<<Let("ap", Lam("f", App(Apps(App(Var("f"), Lams("a", "b", Var("a"))), Lam("y", Var("y")), Empty), N(5)))),
          Let("empty", PrimOp("empty", <<>>))>>,
        Pair(App(Var("ap"), PrimOp("foldl", <<>>)), Var("empty"))),
  With("a" :> IntLit(6) @@ "b" :> IntLit(0),
       Bind(App(Lam("p", Apps(App(Var("p"), S("a")), N(1), N(2))), PrimOp("getAt", <<>>)), "x",
            Pure(App(TyLam(App(TyApp(Con("P", <<>>)), Var("x"))), N(8))))),
  Plain(<<>>, Pair(Apps(Con("C", <<N(1)>>), N(2), N(3)), RecordLit(<<>>, <<>>))),
  \* thunks, forced, in tail position, and applied
  Plain(<<Let("t", Thunk(Lams("a", "b", Pair(Var("b"), Var("a"))))),
          Let("u", Lam("x", Force(Thunk(Var("x")))))>>,
        Pair(Apps(Var("t"), N(1), N(2)), Pair(App(Var("t"), N(1)), App(Var("u"), N(3))))),
  \* recursion and patterns
  Plain(<<Let("add", PrimOp("add", <<>>)), Let("sum", SumList)>>, App(Var("sum"), Numbers)),
  Loop(Plain(<<Let("add", PrimOp("add", <<>>)), Let("loop", SumLoop)>>,
             Apps(Var("loop"), N(0), Numbers))),
  Plain(<<Let("d", Describe), Let("r", RecordLit(<<"x", "y">>, <<N(4), N(5)>>))>>,
        ListOf(App(Var("d"), ListOf(N(1), Numbers)),
          ListOf(App(Var("d"), RecordUpdate(QVar("r"), <<"y">>, <<N(9)>>)),
            ListOf(App(Var("d"), VariantLit("some", RecordProj(QVar("r"), "x"))),
                   App(Var("d"), VariantLit("none", N(0))))))),
  \* callbacks of a primitive
  Plain(<<Let("add", PrimOp("add", <<>>)), Let("k", Lam("a", Lams("b", "c", Var("c"))))>>,
        Pair(Foldl(Var("add"), N(0), Numbers),
          Pair(Foldl(Con("P", <<>>), N(0), ListOf(N(1), Empty)),
            Pair(Foldl(Var("k"), N(0), ListOf(N(1), Empty)),
                 Foldl(Lam("a", Case(Var("a"), <<Alt(PWild, Lam("b", Add(Var("b"), N(1))))>>)),
                       N(0), ListOf(N(2), Empty)))))),
  Plain(<<>>, Pair(Foldl(Thunk(PrimOp("putAt", <<>>)), S("a"), ListOf(N(1), Empty)),
                   Foldl(PrimOp("foldl", <<>>), Lams("a", "b", Var("b")), ListOf(N(1), Empty)))),
  \* lists packed and unpacked, also where nothing is to be done
  Plain(<<Let("xs", ListOf(N(1), ListOf(N(2), Empty))), Let("s", PrimOp("listToSlice", <<Var("xs")>>))>>,
        Pair(PrimOp("listFromSlice", <<Var("s")>>),
             Pair(PrimOp("listFromSlice", <<Var("xs")>>), PrimOp("listToSlice", <<Var("s")>>))))
>>

Effects == <<
  \* state, local state that shadows it, its copy-on-write
  With("s" :> IntLit(1),
       Do1(Modify("s", App(Var("add"), N(1))),
           Bind(Get("s"), "x", Do1(Put("s", Pair(Var("x"), Var("x"))), Pure(Var("x")))))),
  With("s" :> IntLit(1),
       Bind(RunState("s", N(5),
              Do1(Modify("s", Lam("v", Add(Var("v"), N(1)))),
                  Bind(RunState("s", N(9), Do1(Put("s", N(8)), Get("s"))), "y",
                       Bind(Get("s"), "z", Pure(Pair(Var("y"), Var("z"))))))), "w",
            Bind(RunState("t", N(3), Modify("t", Var("add"))), "v", Pure(Var("w"))))),
  \* failures: caught with the capabilities of the call, passed on by another
  \* label, raised under calls and callbacks
  With("s" :> IntLit(1),
       Do1(Put("s", N(2)),
           Bind(Try("e", Do1(Put("s", N(3)), Try("f", Do1(Put("s", N(4)), Fail("e", N(9)))))), "r",
                Bind(Get("s"), "x", Pure(Pair(Var("r"), Var("x"))))))),
  With("s" :> IntLit(1),
       Bind(Try("e", Foldl(Lams("a", "b", Force(Thunk(Do1(Fail("e", Var("b")), Pure(Var("a")))))),
                           N(0), Numbers)), "r",
            Bind(Try("e", Do1(Put("s", N(6)), Get("s"))), "q", Pure(Pair(Var("r"), Var("q")))))),
  With("s" :> IntLit(1), Do1(Put("s", N(2)), Try("f", Fail("e", N(1))))),
  \* the thunk exists before the map that tryAt puts aside is written
  With("s" :> IntLit(1),
       App(Lam("t", Do1(Put("s", N(2)),
                        Bind(PrimOp("tryAt", <<S("e"), Var("t")>>), "r",
                             Bind(Get("s"), "x", Pure(Pair(Var("r"), Var("x"))))))),
           Thunk(Do1(Put("s", N(3)), Fail("e", N(9)))))),
  \* a failure in an argument under evaluation
  With("s" :> IntLit(1),
       Bind(Try("e", Pure(Add(N(1), App(Lam("a", Do1(Fail("e", N(3)), Pure(Var("a")))), N(2))))), "r",
            Bind(Try("e", Pure(Foldl(Lams("a", "b", Do1(Fail("e", N(3)), Pure(Var("a")))), N(0), Numbers))),
                 "q", Pure(Pair(Var("q"), Var("r")))))),
  \* the two sides of a merge
  With("a" :> IntLit(1) @@ "b" :> IntLit(2),
       Bind(Merge(Do1(Put("a", N(5)), Get("a")), Do1(Modify("b", App(Var("add"), N(4))), Pure(N(0))),
                  <<{"a"}, {"b"}>>), "r", Pure(Var("r")))),
  With("a" :> IntLit(1),
       Bind(Try("e", Merge(Put("a", N(5)), Fail("e", N(2)), <<{"a"}, {}>>)), "r",
            Bind(Get("a"), "x", Pure(Pair(Var("r"), Var("x")))))),
  \* recursive computations
  Loop(With("s" :> NumberCaps @@ "n" :> IntLit(0), Drain)),
  With("s" :> NumberCaps, Count)
>>

Limits(n, d, a) == [steps |-> n, depth |-> d, alloc |-> a]
Forever == Fix("loop", Lam("x", App(Var("loop"), Var("x"))))
Deeper  == Fix("deep", Lam("x", ListOf(Var("x"), App(Var("deep"), Var("x")))))
Bounded == <<
  Program(<<Let("f", Forever)>>, Bind(Try("", App(Var("f"), N(1))), "r", Pure(Var("r"))), <<>>,
          Limits(12, 0, 0)),
  Program(<<Let("f", Deeper)>>, Bind(Try("", App(Var("f"), N(1))), "r", Pure(Var("r"))), <<>>,
          Limits(0, 5, 0)),
  Program(<<>>, App(Fix("f", Lam("x", App(Var("f"), RecordUpdate(Var("x"), <<"a">>, <<Var("x")>>)))),
                    RecordLit(<<"a">>, <<N(1)>>)), <<>>, Limits(0, 0, 7))
>>

Broken == <<
  Plain(<<Let("a", Var("b")), Let("b", N(1))>>, Var("a")),          \* forward reference
  Plain(<<>>, Case(N(1), <<Alt(PLit(IntLit(2)), N(3))>>)),           \* no alternative
  Plain(<<>>, App(N(1), N(2))),
  Plain(<<>>, Foldl(N(1), N(2), Numbers)),
  Plain(<<>>, RecordProj(N(1), "x")),
  Plain(<<>>, Force(N(1))),
  Plain(<<>>, Bind(Try("", Fix("x", N(1))), "r", Pure(Var("r")))),   \* an error, not a failure
  Plain(<<>>, Get("s"))
>>

-----------------------------------------------------------------------------
(* Programs as the checker emits them, for the whole pipeline: evidence    *)
(* and selectors, wrappers of an imported module, labels, bindings out of  *)
(* order, names that collide once terms have moved.                        *)

Fst(x, y) == PCon("DictNum", <<PVar(x), PVar(y)>>)
Imported == <<
  Let("$", TyLam(TyLam(Lams("f", "x", App(Var("f"), Var("x")))))),
  Let("&", Lams("x", "f", App(Var("f"), Var("x")))),
  Let("plus", TyLam(Lam("$d", Case(Var("$d"), <<Alt(Fst("$m1", "$m2"), Var("$m1"))>>)))),
  Let("zero", TyLam(Lam("$d", Case(Var("$d"), <<Alt(Fst("$m1", "$m2"), Var("$m2"))>>)))),
  Evidence("NumInt", Apps(TyApp(Con("DictNum", <<>>)), PrimOp("add", <<>>), N(0))),
  Let("sum2", TyLam(App(TyApp(QVar("plus")), QVar("NumInt")))),
  Let("map", PrimOp("listMap", <<>>))
>>
Method(m, dict) == App(TyApp(QVar(m)), dict)
Truth(c) == Con(IF c THEN "True" ELSE "False", <<>>)
IsOne == Lam("n", Case(Var("n"), <<Alt(PLit(IntLit(1)), Truth(TRUE)), Alt(PWild, Truth(FALSE))>>))
Foldr(f, z, l) == PrimOp("listFoldr", <<f, z, l>>)
Map(f, l) == PrimOp("listMap", <<f, l>>)
Keep(f, l) == PrimOp("listFilter", <<f, l>>)
Push == Lams("h", "t", ListOf(Var("h"), Var("t")))
AddP == Let("add", PrimOp("add", <<>>))

Sources == <<
  \* dictionaries, imported and local, in both shapes; wrappers and aliases
  Importing(Imported, Plain(<<
    Evidence("NumBool", Con("DictNum", <<Lams("a", "b", Var("a")), Truth(TRUE)>>)),
    Evidence("NumPair", Lam("$e", Apps(TyApp(Con("DictNum", <<>>)),
        Lams("p", "q", Apps(Method("plus", Var("$e")), Var("p"), Var("q"))), Method("zero", Var("$e"))))),
    Let("twice", Lam("n", Apps(Method("plus", QVar("NumInt")), Var("n"), Var("n"))))>>,
    Pair(Pair(Apps(QVar("$"), Var("twice"), N(3)), Apps(QVar("&"), N(4), Var("twice"))),
         Pair(Pair(Apps(Method("plus", Var("NumBool")), Truth(FALSE), Method("zero", Var("NumBool"))),
                   Apps(QVar("sum2"), N(1), N(2))),
              Pair(Apps(Method("plus", App(Var("NumPair"), QVar("NumInt"))), N(5), N(6)),
                   Method("zero", App(Var("NumPair"), QVar("NumInt")))))))),
  \* names that would be captured: by functions, patterns, binds, and both ways
  Plain(<<AddP, Let("both", Lams("a", "b", Pair(Var("a"), Var("b")))),
          Let("swap", Lams("a", "b", Apps(Var("both"), Var("b"), Var("a")))),
          Let("ext", Lam("p", Case(Var("p"),
            <<Alt(PRecord(<<"_1", "_2">>, <<PVar("a"), PVar("b")>>), Apps(Var("swap"), Var("b"), Var("a")))>>)))>>,
        ListOf(App(Lams("y", "x", App(Lams("x", "y", Pair(Var("x"), Var("y"))), Var("y"))), N(1)),
          ListOf(App(Var("ext"), Pair(N(2), N(3))),
            App(Lam("b", Case(Con("P", <<Var("b"), N(4)>>),
                  <<Alt(PCon("P", <<PVar("a"), PVar("b")>>), Apps(Var("swap"), Var("b"), Var("a")))>>)), N(5))))),
  \* simultaneous substitution, nested patterns, records
  Plain(<<Let("f", Lams("x", "y", Case(Con("P", <<Var("y"), Con("Q", <<Var("x"), N(9)>>)>>),
            <<Alt(PCon("P", <<PVar("x"), PCon("Q", <<PVar("y"), PVar("z")>>)>>),
                  ListOf(Var("x"), ListOf(Var("y"), Var("z"))))>>))),
          Let("g", Lam("r", Case(Con("P", <<Var("r"), RecordLit(<<"u">>, <<Var("r")>>)>>),
            <<Alt(PCon("P", <<PRecord(<<"v">>, <<PVar("a")>>), PRecord(<<"u">>, <<PVar("b")>>)>>),
                  Pair(Var("a"), RecordProj(Var("b"), "v")))>>)))>>,
        Pair(Apps(Var("f"), N(1), N(2)),
             Pair(App(Var("g"), RecordLit(<<"v">>, <<N(3)>>)),
                  RecordUpdate(RecordUpdate(RecordLit(<<"k", "l">>, <<N(1), N(2)>>), <<"k", "l">>, <<N(3), N(4)>>),
                               <<"k">>, <<RecordProj(RecordLit(<<"m", "n">>, <<N(5), N(6)>>), "n")>>)))),
  \* names that are bound again under a substitution
  With("s" :> IntLit(1),
    Bind(App(Lam("x", Bind(Get("s"), "x", Pure(Var("x")))), N(2)), "r",
      Pure(Apps(Lams("x", "m", ListOf(Var("r"),
          ListOf(App(Lam("f", Pair(App(Var("f"), N(3)), Var("x"))), Lam("x", Var("x"))),
            ListOf(Case(Var("m"), <<Alt(PRecord(<<"v">>, <<PVar("x")>>), Var("x"))>>),
              Case(Con("P", <<Var("m")>>),
                <<Alt(PCon("P", <<PRecord(<<"v", "w">>, <<PVar("a"), PVar("b")>>)>>), Var("b"))>>))))),
          N(4), RecordLit(<<"v", "w">>, <<N(5), N(6)>>))))),
  \* a case of a case and a bind of a case, with names that collide
  With("s" :> ConVal("Just", <<IntLit(3)>>),
    Bind(Get("s"), "m",
      Bind(Case(Var("m"), <<Alt(PCon("Just", <<PVar("n")>>), Do1(Put("s", Var("n")), Pure(Con("Just", <<Var("n")>>)))),
                            Alt(PCon("None", <<>>), Pure(Con("None", <<>>)))>>), "k",
        App(Lam("n", Pure(Case(
              Case(Var("k"), <<Alt(PCon("Just", <<PVar("n")>>), Con("Just", <<Add(Var("n"), N(1))>>)),
                               Alt(PCon("None", <<>>), Con("None", <<>>))>>),
              <<Alt(PCon("Just", <<PVar("q")>>), Pair(Var("n"), Var("q"))), Alt(PCon("None", <<>>), Var("n"))>>))),
            N(7))))),
  \* literals, thunks, computations that are only renamed
  With("s" :> IntLit(1),
    Bind(Pure(N(2)), "a",
      Bind(Force(Thunk(Bind(Get("s"), "c", Pure(Pair(Var("a"), Var("c")))))), "d",
        Bind(Case(N(2), <<Alt(PLit(IntLit(1)), Pure(N(0))), Alt(PVar("e"), Put("s", Var("e"))),
                          Alt(PLit(IntLit(2)), Get("s"))>>), "u",
          Bind(Case(N(5), <<Alt(PLit(IntLit(1)), Pure(N(0))), Alt(PWild, Get("s"))>>), "v",
            Pure(Pair(Var("d"), Var("v")))))))),
  \* list pipelines
  Importing(Imported, Plain(<<AddP, Let("inc", App(Var("add"), N(1))),
          Let("xs", ListOf(N(1), ListOf(N(2), ListOf(N(1), Empty))))>>,
        ListOf(Apps(QVar("map"), Var("inc"), Map(Lam("n", Add(Var("n"), Var("n"))), Var("xs"))),
          ListOf(Pair(Foldr(Push, Empty, Map(Var("inc"), Var("xs"))), Foldl(Var("add"), N(0), Map(Var("inc"), Var("xs")))),
            ListOf(Pair(Foldr(Push, Empty, Keep(IsOne, Var("xs"))),
                        Foldl(Lams("l", "h", ListOf(Var("h"), Var("l"))), Empty, Keep(IsOne, Var("xs")))),
              Pair(Map(Var("inc"), Keep(IsOne, Var("xs"))),
                   PrimOp("listFromSlice", <<PrimOp("listToSlice", <<Var("xs")>>)>>))))))),
  \* an imported name under a local binder of that name, which the function does
  \* not capture
  Importing(<<Let("z", N(9))>>, With("s" :> IntLit(1),
    Bind(Get("s"), "z",
      Pure(Pair(Var("z"), Foldl(Lams("a", "b", QVar("z")), N(0), ListOf(N(1), Empty))))))),
  \* labels that a function passes on; bindings out of order
  Program(<<Let("bump", LabelLam("l", Lam("n", Bind(LabelVarApp(PrimOp("getAt", <<>>), "l"), "v",
              App(LabelVarApp(PrimOp("putAt", <<>>), "l"), Apps(Var("add"), Var("v"), Var("n"))))))),
            Let("total", Add(Var("one"), Var("two"))), Let("two", Add(Var("one"), Var("one"))),
            Let("one", N(1)), AddP>>,
          Do1(App(LabelApp(Var("bump"), "a"), Var("two")),
              Do1(App(LabelApp(Var("bump"), "b"), Var("total")), LabelApp(PrimOp("getAt", <<>>), "b"))),
          "#a" :> IntLit(1) @@ "#b" :> IntLit(5), NoLimit)
>>

\* A program compiled: what Run is given.
Loaded(p, linked) ==
  [text |-> p, bindings |-> p.bindings, protos |-> linked.protos, roots |-> linked.roots]
Compiled(p) == Loaded(p, precompileVM(p.bindings, p.entry))

\* What is compiled as it is, and what goes through the pipeline, with and
\* without inlining, to the end or cancelled after a pass; each with the
\* program it came from. A binding of that one follows those it refers to.
Before(bs, i, j) == bs[i].x \in fvNames(bs[j].e) => i < j
DependencyOrder(bs) ==
  CHOOSE o \in SetToSeqs(ToSet(bs)) : \A i, j \in DOMAIN o : i # j => Before(o, i, j)
Whole(p) == [p EXCEPT !.bindings = p.mods \o DependencyOrder(@)]
AsIs(p) == p @@ [source |-> p]
Through(p, inline, passes) == assembleRuntime(p, inline, passes) @@ [source |-> Whole(p)]
WellTyped == SubSeq(Pure_, 1, 4) \o SubSeq(Pure_, 7, 8) \o SubSeq(Pure_, 10, 10) \o Effects

\* Every way the names of two functions, of two cases or of a case and a bind
\* can coincide, one under the other.
Beneath(e) == Plain(<<Let("m", Con("P", <<N(3), N(4)>>))>>, Apps(Lams("a", "b", e), N(1), N(2)))
ConOf(c, x, y) == Con(c, <<Var(x), Var(y)>>)
Matching(e, x, y, r) == Case(e, <<Alt(PCon("P", <<PVar(x), PVar(y)>>), r)>>)
Collisions ==
  {Beneath(Apps(Lams(x[1], x[2], Apps(Lams(x[3], x[4], ConOf("Q", x[5], x[6])), Var(x[7]), Var(x[8]))),
              N(5), N(6))) : x \in [1..8 -> {"a", "b"}]}
  \cup {Beneath(Matching(Matching(Var("m"), x[1], x[2], ConOf("P", x[3], x[4])), x[5], x[6], ConOf("Q", x[7], x[8])))
          : x \in {y \in [1..8 -> {"a", "b"}] : y[1] # y[2] /\ y[5] # y[6]}}
  \cup {Beneath(Bind(Matching(Var("m"), x[1], x[2], Pure(ConOf("P", x[3], x[4]))), x[5], Pure(ConOf("Q", x[6], x[7]))))
          : x \in {y \in [1..7 -> {"a", "b"}] : y[1] # y[2]}}

MCPrograms == {Compiled(q) : q \in
  {AsIs(p) : p \in ToSet(Pure_ \o Effects \o Bounded \o Broken)}
  \cup {Through(v[1], v[2], v[3]) : v \in
           (ToSet(Sources \o WellTyped) \cup Collisions) \X {TRUE} \X {maxPasses}
             \cup ToSet(Sources) \X {FALSE} \X {maxPasses}
             \cup (ToSet(Sources) \cup Collisions) \X {TRUE} \X {1}}}

\* do { x <- get t; y <- do { x <- get s; pure x };
\*      pure ((x, y), (f (\z. z), M.y)) }
\* where k := \n. 7 and f := \k. k 3, and y := 9 in the imported module M
ShadowPrograms == {
  Compiled(Through(Importing(<<Let("y", N(9))>>, Program(
    <<Let("k", Lam("n", N(7))), Let("f", Lam("k", App(Var("k"), N(3))))>>,
    Bind(Get("t"), "x",
      Bind(Bind(Get("s"), "x", Pure(Var("x"))), "y",
        Pure(Pair(Pair(Var("x"), Var("y")),
                  Pair(App(Var("f"), Lam("z", Var("z"))), QVar("y")))))),
    "s" :> IntLit(1) @@ "t" :> IntLit(2), NoLimit)), TRUE, maxPasses))
}

\* The capacity of the frames slice is reached in the callback of modifyAt.
Depth == 61
StalePrograms == {
  Compiled(AsIs(Program(<<Let("add", PrimOp("add", <<>>)),
            Let("go", Fix("go", Lam("n", Case(Var("n"),
              <<Alt(PLit(IntLit(0)), Do1(Modify("s", Lam("v", Add(Var("v"), N(1)))), Get("s"))),
                Alt(PVar("m"), Bind(App(Var("go"), Add(Var("m"), N(-1))), "r", Pure(Var("r"))))>>))))>>,
          App(Var("go"), N(Depth)), "s" :> IntLit(1), NoLimit)))
}

-----------------------------------------------------------------------------

Outcome ==
  IF vm.mode = "done" THEN Gives(vm.req.v, Caps(vm.heap, vm.req.ce))
  ELSE Error(vm.req.e, vm.req.l, vm.req.d)

Meaning(p) == SemProgram(<<>>, p.source.bindings, p.source.entry, p.source.caps)

\* A program that ends within its budget ends with the value, the capabilities
\* or the error that its meaning says.
Agrees ==
  vm.mode \in {"done", "failed"} /\ ~(vm.mode = "failed" /\ vm.req.e = "limit")
    => ShownOutcome(Outcome) = ShownOutcome(Meaning(prog.text))

\* Indices count binders from the innermost one (internal/lang/ir/doc.go): the
\* value of a program is the one in which a variable denotes its innermost
\* binder in scope.
InnermostBinder ==
  vm.mode = "done" => Shown(vm.req.v) = Shown(Meaning(prog.text).v)
=============================================================================
