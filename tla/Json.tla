-------------------------------- MODULE Json --------------------------------
(***************************************************************************)
(* JSON encoders and decoders (internal/host/stdlib/json.go).              *)
(*                                                                         *)
(* toJSON and fromJSON are composed from the instances of a type, so they  *)
(* take the type; jsonEncode looks at the run-time value only.  A document *)
(* is the tree encoding/json reads from the text; "empty" is the empty     *)
(* text, which a missing array element or field leaves behind.  Numbers    *)
(* count in halves, as in Numbers.  Map and Set are sequences in the order *)
(* of their keys (module Collections has the trees).                       *)
(*                                                                         *)
(* jt and jv are a type and a value of it, which a program builds up; doc  *)
(* is the document its last encoding gave, or one from outside.            *)
(***************************************************************************)
EXTENDS Numbers, SequencesExt, FiniteSets

CONSTANTS JsonInts,      \* Ints of the program
          Foreign,       \* documents that come from outside
          MaxNest,       \* bound on the nesting of types the program builds
          MaxJSONDepth   \* maxJSONDepth, 512 in the code
VARIABLES jt, jv, doc

ty(k) == [t |-> k, args |-> <<>>]
tyOf(k, as) == [t |-> k, args |-> as]

(* Values: c is the constructor or the kind of host value, n its number, args its fields. *)
val(c, n, as) == [c |-> c, n |-> n, args |-> as]
nan == val("NaN", 0, <<>>)

null == [j |-> "null", n |-> 0, items |-> <<>>]
emptyText == [j |-> "empty", n |-> 0, items |-> <<>>]
atom(k, n) == [j |-> k, n |-> n, items |-> <<>>]
arr(items) == [j |-> "arr", n |-> 0, items |-> items]
(* An object is a kind of its fields' names with the values. *)
obj(names, items) == [j |-> names, n |-> 0, items |-> items]

JsonNothing == <<>>
jsonJust(v) == <<v>>

-----------------------------------------------------------------------------
(* toJSON at a type. *)

RECURSIVE toJSON(_, _)

toJSONList(t, vs) == arr([i \in DOMAIN vs |-> toJSON(t, vs[i])])

(* toJSONMaybe, toJSONPair, toJSONResult: the parts at the argument types. *)
toJSONAt(T, v) ==
  CASE T.t = "Maybe" -> IF v.c = "Nothing" THEN null ELSE toJSON(T.args[1], v.args[1])
    [] T.t = "Pair" -> arr(<<toJSON(T.args[1], v.args[1]), toJSON(T.args[2], v.args[2])>>)
    [] OTHER -> obj(IF v.c = "Ok" THEN "taggedOk" ELSE "taggedErr",
                    <<toJSON(T.args[IF v.c = "Err" THEN 1 ELSE 2], v.args[1])>>)

(* An array of the entries as pairs. *)
toJSONMap(T, entries) == arr([i \in DOMAIN entries |-> toJSONAt(tyOf("Pair", T.args), entries[i])])

toJSON(T, v) ==
  CASE T.t = "Int" -> atom("num", 2 * v.n)
    [] T.t = "Double" -> IF v = nan THEN null ELSE atom("num", v.n)
    [] T.t = "Bool" -> atom("bool", v.n)
    [] T.t \in {"List", "Set"} -> toJSONList(T.args[1], v.args)
    [] T.t = "Map" -> toJSONMap(T, v.args)
    [] OTHER -> toJSONAt(T, v)

-----------------------------------------------------------------------------
(* jsonEncode: the value alone.  A Map or Set is a host value it does not  *)
(* know, hence null.                                                       *)

fail == atom("depth limit exceeded", 0)

RECURSIVE writeJSONValue(_, _)

writeAll(vs, depth) ==
  LET ds == [i \in DOMAIN vs |-> writeJSONValue(vs[i], depth + 1)]
  IN  IF \E i \in DOMAIN ds : ds[i] = fail THEN <<fail>> ELSE ds

writeJSONCon(v, depth) ==
  LET inner == writeAll(v.args, depth)
  IN  CASE inner # <<>> /\ inner[1] = fail -> fail
        [] v.c = "Nothing" -> null
        [] v.c = "Just" -> inner[1]
        [] v.c \in {"Ok", "Err"} -> obj(v.c, inner)
        [] OTHER -> arr(inner)

writeJSONValue(v, depth) ==
  CASE depth > MaxJSONDepth -> fail
    [] v.c \in {"List", "Pair", "Nothing", "Just", "Ok", "Err"} -> writeJSONCon(v, depth)
    [] v.c = "Int" -> atom("num", 2 * v.n)
    [] v.c = "Double" -> atom("num", v.n)
    [] v.c = "Bool" -> atom("bool", v.n)
    [] OTHER -> null

jsonEncode(v) == writeJSONValue(v, 0)

-----------------------------------------------------------------------------
(* fromJSON at a type: <<v>> or JsonNothing. *)

(* The number goes through a float64; int64(f) must convert back to it. *)
fromJSONInt(d) ==
  LET f == toDoubleHalf(d.n)
      n == convert(truncF(f))
  IN  IF d.j # "num" \/ toDouble(n).half # f THEN JsonNothing ELSE jsonJust(val("Int", n, <<>>))

(* Mutant: entries are kept in the order of the document. *)
EnteredLast(entries, e) == Append(entries, e)

Entered(entries, e) ==
  LET before == SelectSeq(entries, LAMBDA x : x.args[1].n < e.args[1].n)
      after == SelectSeq(entries, LAMBDA x : x.args[1].n > e.args[1].n)
  IN  before \o <<e>> \o after

RECURSIVE fromJSON(_, _)

(* All of the elements, or Nothing. *)
decodeAll(t, ds) ==
  LET rs == [i \in DOMAIN ds |-> fromJSON(t, ds[i])]
  IN  IF \E i \in DOMAIN rs : rs[i] = JsonNothing THEN JsonNothing ELSE jsonJust([i \in DOMAIN rs |-> rs[i][1]])

(* A [2]json.RawMessage: further elements are dropped, missing ones empty, null is both missing. *)
twoRaw(d) == LET pad == d.items \o <<emptyText, emptyText>> IN <<pad[1], pad[2]>>

fromJSONPair(A, B, d) ==
  LET ra == fromJSON(A, twoRaw(d)[1])
      rb == fromJSON(B, twoRaw(d)[2])
  IN  IF d.j \notin {"arr", "null"} \/ ra = JsonNothing \/ rb = JsonNothing THEN JsonNothing
      ELSE jsonJust(val("Pair", 0, <<ra[1], rb[1]>>))

(* A slice target accepts null as no elements. *)
fromJSONList(c, t, d) ==
  LET r == decodeAll(t, d.items)
  IN  IF d.j \notin {"arr", "null"} \/ r = JsonNothing THEN JsonNothing
      ELSE jsonJust(val(c, 0, r[1]))

(* Map and Set insert the decoded entries in turn, the last of equal keys wins. *)
sorted(c, r) ==
  IF r = JsonNothing THEN r
  ELSE jsonJust(val(c, 0,
         FoldLeft(LAMBDA acc, x : IF c = "Map" THEN Entered(acc, x)
                                  ELSE SetToSortSeq(ToSet(acc) \cup {x}, LAMBDA p, q : p.n < q.n),
                  <<>>, r[1].args)))

(* null is Nothing before the content is looked at. *)
fromJSONMaybe(A, d) ==
  LET r == fromJSON(A, d)
  IN  IF d = null THEN jsonJust(val("Nothing", 0, <<>>))
      ELSE IF r = JsonNothing THEN JsonNothing ELSE jsonJust(val("Just", 0, r))

fromJSONResult(T, d) ==
  LET ok == d.j = "taggedOk"
      r == fromJSON(T.args[IF ok THEN 2 ELSE 1], d.items[1])
  IN  IF d.j \notin {"taggedOk", "taggedErr"} \/ r = JsonNothing THEN JsonNothing
      ELSE jsonJust(val(IF ok THEN "Ok" ELSE "Err", 0, r))

fromJSON(T, d) ==
  CASE T.t = "Int" -> fromJSONInt(d)
    [] T.t = "Double" -> IF d.j = "num" THEN jsonJust(val("Double", toDoubleHalf(d.n), <<>>)) ELSE JsonNothing
    [] T.t = "Bool" -> IF d.j = "bool" THEN jsonJust(val("Bool", d.n, <<>>)) ELSE JsonNothing
    [] T.t = "List" -> fromJSONList("List", T.args[1], d)
    [] T.t = "Set" -> sorted("Set", fromJSONList("Set", T.args[1], d))
    [] T.t = "Maybe" -> fromJSONMaybe(T.args[1], d)
    [] T.t = "Pair" -> fromJSONPair(T.args[1], T.args[2], d)
    [] T.t = "Result" -> fromJSONResult(T, d)
    [] OTHER -> sorted("Map", fromJSONList("Map", tyOf("Pair", T.args), d))

-----------------------------------------------------------------------------
(* The program. *)

RECURSIVE nest(_)

nest(T) == IF T.args = <<>> THEN 0 ELSE 1 + (LET d == {nest(T.args[i]) : i \in DOMAIN T.args} IN CHOOSE m \in d : \A k \in d : k <= m)

Holds(T, v) == jt' = T /\ jv' = v /\ UNCHANGED doc

JsonInit ==
  /\ \/ \E n \in JsonInts : jt = ty("Int") /\ jv = val("Int", n, <<>>)
     \/ jt = ty("Double") /\ jv \in {nan, val("Double", toDoubleHalf(3), <<>>)}
     \/ jt = ty("Bool") /\ jv = val("Bool", 1, <<>>)
  /\ doc = emptyText

(* Building a larger value around the one at hand. *)
build ==
  /\ nest(jt) < MaxNest
  /\ \/ \E n \in 0..2 : Holds(tyOf("List", <<jt>>), val("List", 0, [i \in 1..n |-> jv]))
     \/ Holds(tyOf("Maybe", <<jt>>), val("Just", 0, <<jv>>))
     \/ Holds(tyOf("Maybe", <<jt>>), val("Nothing", 0, <<>>))
     \/ Holds(tyOf("Pair", <<jt, ty("Int")>>), val("Pair", 0, <<jv, val("Int", 1, <<>>)>>))
     \/ \E r \in {"Ok", "Err"} : Holds(tyOf("Result", <<jt, jt>>), val(r, 0, <<jv>>))
     \/ Holds(tyOf("Map", <<ty("Int"), jt>>), val("Map", 0, [i \in 1..2 |-> val("Pair", 0, <<val("Int", i, <<>>), jv>>)]))
     \/ jt = ty("Int") /\ Holds(tyOf("Set", <<jt>>), val("Set", 0, <<jv>>))

encode == doc' = toJSON(jt, jv) /\ UNCHANGED <<jt, jv>>

encodeAny == doc' = jsonEncode(jv) /\ UNCHANGED <<jt, jv>>

receive == doc' \in Foreign /\ UNCHANGED <<jt, jv>>

(* The program goes on with what it decoded. *)
decode ==
  LET r == fromJSON(jt, doc)
  IN  r # JsonNothing /\ jv' = r[1] /\ UNCHANGED <<jt, doc>>

JsonNext == build \/ encode \/ encodeAny \/ receive \/ decode

-----------------------------------------------------------------------------
RECURSIVE Exact(_, _)

(* What survives: no NaN, no Int beyond the mantissa, no Just around a value written as null. *)
Exact(T, v) ==
  /\ v # nan
  /\ v.c = "Int" => toDouble(v.n).half = 2 * v.n
  /\ v.c = "Just" => toJSON(T.args[1], v.args[1]) # null
  /\ \A i \in DOMAIN v.args :
       Exact(CASE T.t = "Pair" -> T.args[i] [] T.t = "Map" -> tyOf("Pair", T.args)
               [] T.t = "Result" -> T.args[IF v.c = "Err" THEN 1 ELSE 2] [] OTHER -> T.args[1], v.args[i])

(* A value decodes to itself at its type, unless it holds a NaN, an Int a  *)
(* float64 does not represent, or a Just whose content is written as null. *)
JsonRoundTrip == Exact(jt, jv) => fromJSON(jt, toJSON(jt, jv)) = jsonJust(jv)

(* The keys of a map ascend, so that the trees of Collections hold it. *)
Ascending(v) ==
  v.c = "Map" => \A i, k \in DOMAIN v.args : i < k => v.args[i].args[1].n < v.args[k].args[1].n

(* Whatever document is decoded, the value obtained is one the program     *)
(* could have built (a map has each key once, in order), and it encodes to *)
(* a document that decodes to it again: decoding never makes a value of    *)
(* the kind that JsonRoundTrip excludes.                                   *)
DecodedStable ==
  LET r == fromJSON(jt, doc)
  IN  r # JsonNothing => Exact(jt, r[1]) /\ Ascending(r[1]) /\ fromJSON(jt, toJSON(jt, r[1])) = r

RECURSIVE Mentions(_, _)

Mentions(T, ks) == T.t \in ks \/ \E i \in DOMAIN T.args : Mentions(T.args[i], ks)

(* Within the depth limit the generic encoder writes what the instances    *)
(* write, for the types without Result, Map and Set, for which it writes   *)
(* another document.                                                       *)
EncodersAgree ==
  ~ Mentions(jt, {"Result", "Map", "Set"}) /\ nest(jt) <= MaxJSONDepth => jsonEncode(jv) = toJSON(jt, jv)

(* Encoding and decoding are inverse where they can be, and the two        *)
(* encoders agree where they share a format (json.go).                     *)
JsonAgrees == JsonRoundTrip /\ DecodedStable /\ EncodersAgree
=============================================================================
