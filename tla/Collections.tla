----------------------------- MODULE Collections -----------------------------
(***************************************************************************)
(* The ordered collections of the standard library: Data.Map, Data.Set     *)
(* (map.go, set.go: persistent) and Effect.Map, Effect.Set (mmap.go,       *)
(* mset.go: destructive), all handles [root, size] on the trees of         *)
(* AvlTree.  One collection lives in the state, as a tree value; a         *)
(* primitive loads it on a heap and runs, and the handle it returns is     *)
(* read back.  The history variable call keeps what the primitive was      *)
(* given and the heap it left, so that what it did to older nodes stays    *)
(* visible.                                                                *)
(*                                                                         *)
(* Charging the allocation budget and the type checks on arguments end the *)
(* evaluation when they fail and are left out.  The Named variants of mmap *)
(* and mset call the same functions after dropping the label.              *)
(***************************************************************************)
EXTENDS AvlTree

CONSTANTS MapKeys, SetKeys,     \* bounds on the keys of maps and of sets
          MapVals,              \* the values a map may hold
          MapLists, SetLists,   \* arguments of fromList, and the operands built from them
          Change(_),            \* the callback of adjust and mapValues
          ChangeAt(_, _),       \* the callback of mapWithKey
          Keep(_, _)            \* the predicate of filterWithKey

VARIABLES coll,                 \* the handle: [kind, tree, size]
          call                  \* the last call, what it was given and the heap it left

unitVal == 0

Mutable(c) == c.kind \in {"mmap", "mset"}

Keys(c) == IF c.kind \in {"map", "mmap"} THEN MapKeys ELSE SetKeys

Vals(c) == IF c.kind \in {"map", "mmap"} THEN MapVals ELSE {unitVal}

Lists(c) == IF c.kind \in {"map", "mmap"} THEN MapLists ELSE SetLists

mapEmpty(kind) == [kind |-> kind, tree |-> <<>>, size |-> 0]

(* What a primitive left: the heap, the root and size of its result, and   *)
(* the roots old and arg it was given.                                     *)
Outcome(r, size, old, arg) == [h |-> r.h, n |-> r.n, size |-> size, old |-> old, arg |-> arg]

-----------------------------------------------------------------------------
(* A primitive works on the collection put on a heap of its own. *)
Loaded(c) == Load(<<>>, c.tree)

(* The size follows the flag that insertion and deletion return. *)
Counted(r, at, c, by) == Outcome(r, IF r.changed THEN c.size + by ELSE c.size, at.n, nil)

(* What the insertion primitive of each kind hands to the tree: the entry, *)
(* and whether nodes are written in place.                                 *)
Entry(key, value) == [key |-> key, value |-> value]
mapInsert(key, value) == [entry |-> Entry(key, value), mut |-> FALSE]
setInsert(key) == [entry |-> Entry(key, unitVal), mut |-> FALSE]
mmapInsert(key, value) == [entry |-> Entry(key, value), mut |-> TRUE]
msetInsert(key) == [entry |-> Entry(key, unitVal), mut |-> TRUE]

InsertCall(kind, key, value) ==
  CASE kind = "map" -> mapInsert(key, value)
    [] kind = "set" -> setInsert(key)
    [] kind = "mmap" -> mmapInsert(key, value)
    [] OTHER -> msetInsert(key)

Inserted(c, p) ==
  LET Apply(at) == Counted(avlInsert(at.h, at.n, p.entry.key, p.entry.value, p.mut), at, c, 1)
  IN  Apply(Loaded(c))

mapInsertWith(c, key, value) ==
  LET Apply(at) == Counted(avlInsertWith(at.h, at.n, key, value), at, c, 1) IN Apply(Loaded(c))

(* The deletion primitives: the key, and whether in place. *)
mapDelete(key) == [key |-> key, mut |-> FALSE]
setDelete(key) == [key |-> key, mut |-> FALSE]
mmapDelete(key) == [key |-> key, mut |-> TRUE]
msetDelete(key) == [key |-> key, mut |-> TRUE]

DeleteCall(kind, key) ==
  CASE kind = "map" -> mapDelete(key)
    [] kind = "set" -> setDelete(key)
    [] kind = "mmap" -> mmapDelete(key)
    [] OTHER -> msetDelete(key)

Deleted(c, p) ==
  LET Apply(at) == Counted(avlDelete(at.h, at.n, p.key, p.mut), at, c, -1) IN Apply(Loaded(c))

(* mmapAdjustImpl writes through avlInsertMut, and only a key it found. *)
mmapAdjust(c, key) ==
  LET Written(at, found) ==
        IF found = nil THEN at ELSE avlInsert(at.h, at.n, key, Change(at.h[found].value), TRUE)
      Apply(at) == Outcome(Written(at, avlLookup(at.h, at.n, key)), c.size, at.n, nil)
  IN  Apply(Loaded(c))

(* Insert one entry, counting a new key. *)
InsertOne(acc, key, value, mut) ==
  LET Count(r) == [h |-> r.h, n |-> r.n, size |-> IF r.changed THEN acc.size + 1 ELSE acc.size]
  IN  Count(avlInsert(acc.h, acc.n, key, value, mut))

(* Insert every entry of a list: the loop of the fromList primitives and   *)
(* of avlFilterWithKey.                                                    *)
InsertAll(h, entries, mut) ==
  FoldLeft(LAMBDA acc, e : InsertOne(acc, e.key, e.value, mut), [h |-> h, n |-> nil, size |-> 0], entries)

Handed(r, old, arg) == Outcome(r, r.size, old, arg)

(* The fromList primitives: the entries they insert, and whether in place. *)
Members(list) == [i \in DOMAIN list |-> Entry(list[i].key, unitVal)]
mapFromList(list) == [entries |-> list, mut |-> FALSE]
setFromList(list) == [entries |-> Members(list), mut |-> FALSE]
mmapFromList(list) == [entries |-> list, mut |-> TRUE]
msetFromList(list) == [entries |-> Members(list), mut |-> TRUE]

FromListCall(kind, list) ==
  CASE kind = "map" -> mapFromList(list)
    [] kind = "set" -> setFromList(list)
    [] kind = "mmap" -> mmapFromList(list)
    [] OTHER -> msetFromList(list)

Listed(p) == Handed(InsertAll(<<>>, p.entries, p.mut), nil, nil)

(* The two collections on one heap, as [h, a, b]. *)
Both(c, d) ==
  LET Second(a, b) == [h |-> b.h, a |-> a.n, b |-> b.n]
      First(a) == Second(a, Load(a.h, d.tree))
  IN  First(Loaded(c))

(* The entries of the second map go into the first one's tree; each key is *)
(* looked up in the result so far and combined on a hit, the value already *)
(* there first.                                                            *)
avlWalkMerge(start, entries) ==
  LET Put(acc, e, found) ==
        InsertOne(acc, e.key, IF found = nil THEN e.value ELSE Combine(acc.h[found].value, e.value), FALSE)
  IN  FoldLeft(LAMBDA acc, e : Put(acc, e, avlLookup(acc.h, acc.n, e.key)), start, entries)

mapUnionWith(c, d) ==
  LET Apply(w) == Handed(avlWalkMerge([h |-> w.h, n |-> w.a, size |-> c.size], avlToSlice(w.h, w.b)), w.a, w.b)
  IN  Apply(Both(c, d))

(* The first map is visited and each of its keys looked up in the second. *)
avlIntersectWalk(w, entries) ==
  LET Put(acc, e, found) ==
        IF found = nil THEN acc
        ELSE InsertOne(acc, e.key, Combine(e.value, w.h[found].value), FALSE)
  IN  FoldLeft(LAMBDA acc, e : Put(acc, e, avlLookup(w.h, w.b, e.key)),
               [h |-> w.h, n |-> nil, size |-> 0], entries)

mapIntersectionWith(c, d) ==
  LET Apply(w) == Handed(avlIntersectWalk(w, avlToSlice(w.h, w.a)), w.a, w.b)
  IN  Apply(Both(c, d))

(* mapFilterWithKeyImpl builds the result from nothing, through avlInsert. *)
mapFilterWithKey(c) ==
  LET Kept(at) == SelectSeq(avlToSlice(at.h, at.n), LAMBDA e : Keep(e.key, e.value))
      Apply(at) == Handed(InsertAll(at.h, Kept(at), FALSE), at.n, nil)
  IN  Apply(Loaded(c))

(* mapMapValuesImpl and mapMapWithKeyImpl keep the size they were given. *)
mapMapValues(c) ==
  LET Apply(at) == Outcome(avlMapWithKey(at.h, at.n, [k \in Keys(c), v \in Vals(c) |-> Change(v)]), c.size, at.n, nil)
  IN  Apply(Loaded(c))

mapMapWithKey(c) ==
  LET Apply(at) == Outcome(avlMapWithKey(at.h, at.n, [k \in Keys(c), v \in Vals(c) |-> ChangeAt(k, v)]), c.size, at.n, nil)
  IN  Apply(Loaded(c))

(* The merges of Set and MSet: what they keep of the sorted entries of the *)
(* two operands.  The result is a new tree.                                *)
setUnion(h, a, b) == avlMergeUnion(h, a, b)
setIntersection(h, a, b) == avlMergeIntersect(h, a, b)
setDifference(h, a, b) == avlMergeDifference(h, a, b)
msetUnion(h, a, b) == avlMergeUnion(h, a, b)
msetIntersection(h, a, b) == avlMergeIntersect(h, a, b)
msetDifference(h, a, b) == avlMergeDifference(h, a, b)

MergeOf(op, kind, h, a, b) ==
  CASE op = "union" -> IF kind = "set" THEN setUnion(h, a, b) ELSE msetUnion(h, a, b)
    [] op = "intersection" -> IF kind = "set" THEN setIntersection(h, a, b) ELSE msetIntersection(h, a, b)
    [] OTHER -> IF kind = "set" THEN setDifference(h, a, b) ELSE msetDifference(h, a, b)

Merged(op, c, d) ==
  LET Rebuilt(w, entries) == Outcome(sortedToAVL(w.h, entries), Len(entries), w.a, w.b)
      Apply(w) == Rebuilt(w, MergeOf(op, c.kind, w.h, w.a, w.b))
  IN  Apply(Both(c, d))

-----------------------------------------------------------------------------
(* The queries, on the collection as it is. *)

mapLookup(c, key) ==
  LET Value(at, found) == IF found = nil THEN <<>> ELSE <<at.h[found].value>>
      Apply(at) == Value(at, avlLookup(at.h, at.n, key))
  IN  Apply(Loaded(c))

(* mapToListImpl, mapKeysImpl, mapValuesImpl and the folds differ in what  *)
(* they project; they read the entries in this order.                      *)
mapToList(c) == LET Apply(at) == avlToSlice(at.h, at.n) IN Apply(Loaded(c))

mapFoldr(c) == LET Apply(at) == avlFoldrWithKey(at.h, at.n, <<>>) IN Apply(Loaded(c))

mapFindEnd(c, side) ==
  LET Apply(at) == IF at.n = nil THEN <<>> ELSE <<at.h[avlEndNode(at.h, at.n, side)].key>>
  IN  Apply(Loaded(c))

(* setIsSubsetOfImpl: a larger size settles it before any member is asked. *)
setIsSubsetOf(c, d) ==
  LET Within(w, es) == \A i \in DOMAIN es : avlLookup(w.h, w.b, es[i].key) # nil
      Apply(w) == Within(w, avlToSlice(w.h, w.a))
  IN  c.size <= d.size /\ Apply(Both(c, d))

-----------------------------------------------------------------------------
Handle(kind, o) == [kind |-> kind, tree |-> Read(o.h, o.n), size |-> o.size]

(* The second collection of a binary primitive, built by fromList. *)
Operand(list) == Handle(coll.kind, Listed(FromListCall(coll.kind, list)))

(* No call outstanding: the caller has let go of what it passed. *)
NoCall == [op |-> "none", key |-> 0, value |-> 0, list |-> <<>>, was |-> <<>>,
           left |-> [h |-> <<>>, n |-> nil, size |-> 0, old |-> nil, arg |-> nil]]

CollInit ==
  /\ coll \in {mapEmpty(kind) : kind \in {"map", "set", "mmap", "mset"}}
  /\ call = NoCall

Called(op, key, value, list, o) ==
  /\ call = NoCall
  /\ coll' = Handle(coll.kind, o)
  /\ call' = [op |-> op, key |-> key, value |-> value, list |-> list,
              was |-> coll.tree, left |-> o]

Insert ==
  \E k \in Keys(coll), v \in Vals(coll) :
    Called("insert", k, v, <<>>, Inserted(coll, InsertCall(coll.kind, k, v)))

Delete ==
  \E k \in Keys(coll) : Called("delete", k, 0, <<>>, Deleted(coll, DeleteCall(coll.kind, k)))

FromList ==
  \E l \in Lists(coll) : Called("fromList", 0, 0, l, Listed(FromListCall(coll.kind, l)))

InsertWith ==
  /\ coll.kind = "map"
  /\ \E k \in Keys(coll), v \in Vals(coll) :
       Called("insertWith", k, v, <<>>, mapInsertWith(coll, k, v))

UnionWith ==
  /\ coll.kind = "map"
  /\ \E l \in Lists(coll) : Called("unionWith", 0, 0, l, mapUnionWith(coll, Operand(l)))

IntersectionWith ==
  /\ coll.kind = "map"
  /\ \E l \in Lists(coll) :
       Called("intersectionWith", 0, 0, l, mapIntersectionWith(coll, Operand(l)))

FilterWithKey == coll.kind = "map" /\ Called("filter", 0, 0, <<>>, mapFilterWithKey(coll))

MapValues == coll.kind = "map" /\ Called("mapValues", 0, 0, <<>>, mapMapValues(coll))

MapWithKey == coll.kind = "map" /\ Called("mapWithKey", 0, 0, <<>>, mapMapWithKey(coll))

Adjust ==
  coll.kind = "mmap" /\ \E k \in Keys(coll) : Called("adjust", k, 0, <<>>, mmapAdjust(coll, k))

Merge ==
  /\ coll.kind \in {"set", "mset"}
  /\ \E l \in Lists(coll), op \in {"union", "intersection", "difference"} :
       Called(op, 0, 0, l, Merged(op, coll, Operand(l)))

(* The caller drops its references to the collections it passed. *)
Settle == call # NoCall /\ call' = NoCall /\ UNCHANGED coll

CollNext ==
  \/ Insert \/ Delete \/ FromList \/ InsertWith \/ UnionWith \/ IntersectionWith
  \/ FilterWithKey \/ MapValues \/ MapWithKey \/ Adjust \/ Merge \/ Settle

-----------------------------------------------------------------------------
(* What the collections promise. *)

RECURSIVE Contents(_)

(* A tree as the function from its keys to its values. *)
Contents(t) ==
  IF t = <<>> THEN <<>>
  ELSE LET l == Contents(t.left)
           r == Contents(t.right)
       IN  [k \in {t.key} \cup DOMAIN l \cup DOMAIN r |->
              IF k = t.key THEN t.value ELSE IF k \in DOMAIN l THEN l[k] ELSE r[k]]

(* A list as the function from its keys to the last value given for each. *)
ListContents(list) ==
  [k \in {list[i].key : i \in DOMAIN list} |->
     LET i == CHOOSE i \in DOMAIN list :
                list[i].key = k /\ \A j \in DOMAIN list : list[j].key = k => j <= i
     IN  list[i].value]

RECURSIVE TrueHeight(_)

TrueHeight(t) ==
  IF t = <<>> THEN 0
  ELSE LET l == TrueHeight(t.left)
           r == TrueHeight(t.right)
       IN  1 + (IF l > r THEN l ELSE r)

RECURSIVE WellBalanced(_)

WellBalanced(t) ==
  t = <<>> \/ /\ TrueHeight(t.left) - TrueHeight(t.right) \in {-1, 0, 1}
              /\ t.height = TrueHeight(t)
              /\ WellBalanced(t.left) /\ WellBalanced(t.right)

(* Whatever sequence of primitives produced it, a collection is an AVL     *)
(* tree: every recorded height is the real one and no two sibling subtrees *)
(* differ by more than one level (avlRebalance after every descent, and    *)
(* sortedToAVL's halves).                                                  *)
TreesBalanced == LET t == coll.tree IN t # <<>> => WellBalanced(t)

(* The keys of a collection read strictly ascending, so that a key occurs  *)
(* once, and the cached size is the number of entries: size is maintained  *)
(* from the "inserted" and "deleted" flags that travel up the recursion.   *)
OrderedAndCounted ==
  LET entries == mapToList(coll)
  IN  /\ \A i, j \in DOMAIN entries : i < j => entries[i].key < entries[j].key
      /\ coll.size = Len(entries)

(* Every query agrees with the contents: lookup finds exactly the keys     *)
(* that are there, the ends are the least and the greatest key, the fold   *)
(* from the right sees what the fold from the left sees, and the subset    *)
(* test with its early exit on the sizes is the subset relation.           *)
ReadsAgree ==
  LET m == Contents(coll.tree)
      End(k) == IF DOMAIN m = {} THEN <<>> ELSE <<k>>
  IN  /\ \A k \in Keys(coll) :
           mapLookup(coll, k) = IF k \in DOMAIN m THEN <<m[k]>> ELSE <<>>
      /\ mapFindEnd(coll, "left") = End(CHOOSE k \in DOMAIN m : \A j \in DOMAIN m : k <= j)
      /\ mapFindEnd(coll, "right") = End(CHOOSE k \in DOMAIN m : \A j \in DOMAIN m : k >= j)
      /\ mapFoldr(coll) = mapToList(coll)
      /\ \A pair \in {<<coll.tree, call.was>>, <<call.was, coll.tree>>} :
           LET Sized(t) == [coll EXCEPT !.tree = t, !.size = Cardinality(DOMAIN Contents(t))]
           IN  setIsSubsetOf(Sized(pair[1]), Sized(pair[2]))
                 = (DOMAIN Contents(pair[1]) \subseteq DOMAIN Contents(pair[2]))

(* A primitive of Map or Set leaves every version of a collection it was   *)
(* given as it was: none of the nodes the program can still reach through  *)
(* an older value is written (path copying in avlInsert, avlDelete and the *)
(* rotations, which share every subtree they do not change).  A primitive  *)
(* of two collections, of MSet too, leaves the second as it was.           *)
OldVersionsIntact ==
  /\ ~ Mutable(coll) /\ call.op # "fromList" => Read(call.left.h, call.left.old) = call.was
  /\ call.left.arg # nil => Read(call.left.h, call.left.arg) = Operand(call.list).tree

(* A primitive of Set or MSet that builds a collection out of two gives    *)
(* nodes of its own to the result: writing the result in place later never *)
(* shows through either operand (sortedToAVL copies the entries).          *)
ResultsUnshared ==
  LET o == call.left
  IN  call.op \in {"union", "intersection", "difference"} =>
        Reach(o.h, o.n) \cap (Reach(o.h, o.old) \cup Reach(o.h, o.arg)) = {}

(* Every primitive that writes has the effect of its definition on the     *)
(* contents: insertWith and unionWith hand the callback the value that is  *)
(* there first, intersectionWith the first map's, the left operand's entry *)
(* wins in a union, adjust touches no other key.                           *)
WritesAgree ==
  LET m == Contents(call.was)
      d == ListContents(call.list)
      Update(v) == [x \in DOMAIN m \cup {call.key} |-> IF x = call.key THEN v ELSE m[x]]
      Common == DOMAIN m \cap DOMAIN d
      m1 == Contents(coll.tree)
      hit == call.key \in DOMAIN m
  IN  m1 = CASE call.op = "none" -> m1
             [] call.op = "insert" -> Update(call.value)
             [] call.op = "insertWith" ->
                  Update(IF hit THEN Combine(m[call.key], call.value) ELSE call.value)
             [] call.op = "delete" -> [x \in DOMAIN m \ {call.key} |-> m[x]]
             [] call.op = "adjust" -> IF hit THEN Update(Change(m[call.key])) ELSE m
             [] call.op = "fromList" -> d
             [] call.op = "filter" -> [x \in {k \in DOMAIN m : Keep(k, m[k])} |-> m[x]]
             [] call.op = "mapValues" -> [x \in DOMAIN m |-> Change(m[x])]
             [] call.op = "mapWithKey" -> [x \in DOMAIN m |-> ChangeAt(x, m[x])]
             [] call.op = "difference" -> [x \in DOMAIN m \ DOMAIN d |-> m[x]]
             [] call.op = "intersection" -> [x \in Common |-> m[x]]
             [] call.op = "intersectionWith" -> [x \in Common |-> Combine(m[x], d[x])]
             [] call.op \in {"union", "unionWith"} ->
                  [x \in DOMAIN m \cup DOMAIN d |->
                     IF x \notin DOMAIN m THEN d[x]
                     ELSE IF x \notin DOMAIN d \/ call.op = "union" THEN m[x]
                     ELSE Combine(m[x], d[x])]

(* A collection is a balanced search tree whose queries and updates are    *)
(* those of the function it stands for, after any sequence of primitives   *)
(* of Map, Set, MMap and MSet.                                             *)
CollectionsAgree == TreesBalanced /\ OrderedAndCounted /\ ReadsAgree /\ WritesAgree

(* No primitive writes a node that another value can reach: older versions *)
(* of a persistent collection and the operands of a merge stay as they are.*)
VersionsIntact == OldVersionsIntact /\ ResultsUnshared
=============================================================================
