------------------------------- MODULE AvlTree -------------------------------
(***************************************************************************)
(* The AVL trees of the standard library (internal/host/stdlib/avl.go and  *)
(* avl_mut.go).  Map and Set use the persistent operations, which copy     *)
(* every node they change; MMap and MSet the destructive ones, which write *)
(* the nodes themselves.                                                   *)
(*                                                                         *)
(* A heap is a sequence of nodes, a pointer an index into it and nil the   *)
(* index 0.  Each operation is written once, with the flag mut telling the *)
(* two families apart: Own(h, n, mut) is the node the operation may write, *)
(* n itself or a fresh copy.  An operation returns the heap, the root and  *)
(* whether a key came or went.  Keys are compared by the integer order,    *)
(* which stands for the Ord dictionary kept in the handle.  A comparison   *)
(* that fails ends the whole evaluation, so no result is seen: the error   *)
(* returns are left out.                                                   *)
(***************************************************************************)
EXTENDS Integers, Sequences, SequencesExt, FiniteSets, Folds

CONSTANT Combine(_, _)      \* the callback of insertWith and unionWith

nil == 0

avlNewNode(key, value) ==
  [key |-> key, value |-> value, left |-> nil, right |-> nil, height |-> 1]

avlHeight(h, n) == IF n = nil THEN 0 ELSE h[n].height

avlBalance(h, n) ==
  IF n = nil THEN 0 ELSE avlHeight(h, h[n].left) - avlHeight(h, h[n].right)

avlUpdateHeight(h, n) ==
  LET lh == avlHeight(h, h[n].left)
      rh == avlHeight(h, h[n].right)
  IN  [h EXCEPT ![n].height = 1 + (IF lh > rh THEN lh ELSE rh)]

Alloc(h, node) == [h |-> Append(h, node), n |-> Len(h) + 1]

(* Mutant: the persistent operations forget to copy. *)
OwnInPlace(h, n, mut) == [h |-> h, n |-> n]

Own(h, n, mut) == IF mut THEN [h |-> h, n |-> n] ELSE Alloc(h, h[n])

Opposite(side) == IF side = "left" THEN "right" ELSE "left"

(* avlRotateRight lifts the left child, avlRotateLeft the right one: the   *)
(* child's inner subtree moves across, and the heights are redone from     *)
(* below.  The persistent rotation writes copies of both nodes.            *)
avlRotate(h, top, side, mut) ==
  LET Link(child, t, c) ==
        avlUpdateHeight(avlUpdateHeight([c.h EXCEPT ![t.n][side] = h[child][Opposite(side)],
                                                    ![c.n][Opposite(side)] = t.n], t.n), c.n)
      WithChild(child, t, c) == [h |-> Link(child, t, c), n |-> c.n]
      WithTop(child, t) == WithChild(child, t, Own(t.h, child, mut))
  IN  WithTop(h[top][side], Own(h, top, mut))

(* Mutant: a single rotation also where a double one is due. *)
LiftHeavySingle(h, n, side, innerHeavy, mut) == avlRotate(h, n, side, mut)

(* One side of avlRebalance: lift the child of the heavy side, after       *)
(* lifting that child's own inner child when it is the heavier one.        *)
LiftHeavy(h, n, side, innerHeavy, mut) ==
  LET Outer(o, inner) == avlRotate([inner.h EXCEPT ![o.n][side] = inner.n], o.n, side, mut)
      Inner(o) == Outer(o, avlRotate(o.h, h[n][side], Opposite(side), mut))
  IN  IF innerHeavy THEN Inner(Own(h, n, mut)) ELSE avlRotate(h, n, side, mut)

avlRebalance(heap, n, mut) ==
  LET Lift(h, side, innerHeavy) == LiftHeavy(h, n, side, innerHeavy, mut)
      At(h, bal) ==
        IF bal \in -1..1 THEN [h |-> h, n |-> n]
        ELSE Lift(h, IF bal > 1 THEN "left" ELSE "right",
                  IF bal > 1 THEN avlBalance(h, h[n].left) < 0 ELSE avlBalance(h, h[n].right) > 0)
      Measured(h) == At(h, avlBalance(h, n))
  IN  Measured(avlUpdateHeight(heap, n))

(* The descent both avlInsert and avlDelete end with: the subtree that     *)
(* changed is hung on the owned node, which is then rebalanced.            *)
Rehang(below, n, side, mut) ==
  LET Result(b) == [h |-> b.h, n |-> b.n, changed |-> below.changed]
  IN  Result(avlRebalance([below.h EXCEPT ![n][side] = below.n], n, mut))

Side(h, n, key) == IF key < h[n].key THEN "left" ELSE "right"

RECURSIVE avlInsertBy(_, _, _, _, _, _)

(* avlInsert and avlInsertMut overwrite the value of a present key;        *)
(* avlInsertWith (combining) hands the callback the existing value first.  *)
avlInsertBy(h, n, key, value, combining, mut) ==
  LET Created(a) == [h |-> a.h, n |-> a.n, changed |-> TRUE]
      Found(o) == [h |-> [o.h EXCEPT ![o.n].value = IF combining THEN Combine(h[n].value, value) ELSE value],
                   n |-> o.n, changed |-> FALSE]
      Below(o, side) ==
        Rehang(avlInsertBy(o.h, h[n][side], key, value, combining, mut), o.n, side, mut)
  IN  IF n = nil THEN Created(Alloc(h, avlNewNode(key, value)))
      ELSE IF key = h[n].key THEN Found(Own(h, n, mut))
      ELSE Below(Own(h, n, mut), Side(h, n, key))

avlInsert(h, n, key, value, mut) == avlInsertBy(h, n, key, value, FALSE, mut)

avlInsertWith(h, n, key, value) == avlInsertBy(h, n, key, value, TRUE, FALSE)

RECURSIVE avlLookup(_, _, _)

(* The node that holds key, nil when there is none. *)
avlLookup(h, n, key) ==
  IF n = nil \/ key = h[n].key THEN n ELSE avlLookup(h, h[n][Side(h, n, key)], key)

RECURSIVE avlEndNode(_, _, _)

(* avlMinNode and avlMaxNode. *)
avlEndNode(h, n, side) ==
  IF h[n][side] = nil THEN n ELSE avlEndNode(h, h[n][side], side)

RECURSIVE avlDelete(_, _, _, _)

(* A node with two children takes the key and the value of its successor,  *)
(* which is then deleted from the right subtree.  Nothing deleted: the     *)
(* original node is returned, not the copy.                                *)
avlDelete(h, n, key, mut) ==
  LET Descended(o, side, below) ==
        IF below.changed THEN Rehang(below, o.n, side, mut)
        ELSE [h |-> below.h, n |-> n, changed |-> FALSE]
      Descend(o, side) == Descended(o, side, avlDelete(o.h, h[n][side], key, mut))
      Heir(o, s) ==
        Rehang(avlDelete([o.h EXCEPT ![o.n].key = h[s].key, ![o.n].value = h[s].value],
                         h[n].right, h[s].key, mut), o.n, "right", mut)
      Found(o) ==
        IF h[n].left = nil THEN [h |-> o.h, n |-> h[n].right, changed |-> TRUE]
        ELSE IF h[n].right = nil THEN [h |-> o.h, n |-> h[n].left, changed |-> TRUE]
        ELSE Heir(o, avlEndNode(h, h[n].right, "left"))
  IN  IF n = nil THEN [h |-> h, n |-> nil, changed |-> FALSE]
      ELSE IF key = h[n].key THEN Found(Own(h, n, mut))
      ELSE Descend(Own(h, n, mut), Side(h, n, key))

-----------------------------------------------------------------------------
(* Walks.  The entries of a tree in the order avlCollect, avlFoldl,        *)
(* avlFoldlWithKey, avlFoldInOrder, avlMapValues and avlFilterWithKey      *)
(* visit them; avlFoldrWithKey and avlProjectConsRight take the same       *)
(* entries from the right and prepend, so that they too yield this order.  *)

RECURSIVE avlToSlice(_, _)

avlToSlice(h, n) ==
  IF n = nil THEN <<>>
  ELSE avlToSlice(h, h[n].left) \o <<[key |-> h[n].key, value |-> h[n].value]>>
         \o avlToSlice(h, h[n].right)

RECURSIVE avlFoldrWithKey(_, _, _)

(* The fold from the right that conses every entry it visits. *)
avlFoldrWithKey(h, n, acc) ==
  IF n = nil THEN acc
  ELSE avlFoldrWithKey(h, h[n].left, <<[key |-> h[n].key, value |-> h[n].value]>>
                                       \o avlFoldrWithKey(h, h[n].right, acc))

RECURSIVE avlMapWithKey(_, _, _)

(* avlMapValues and avlMapWithKey: the same shape with the values f gives, *)
(* the heights copied rather than recomputed.                              *)
avlMapWithKey(h, n, f) ==
  IF n = nil THEN [h |-> h, n |-> nil]
  ELSE LET l == avlMapWithKey(h, h[n].left, f)
           r == avlMapWithKey(l.h, h[n].right, f)
       IN  Alloc(r.h, [h[n] EXCEPT !.value = f[h[n].key, h[n].value],
                                   !.left = l.n, !.right = r.n])

RECURSIVE sortedToAVLRange(_, _, _, _)

(* The middle entry at the root, the halves below; hi is exclusive. *)
sortedToAVLRange(h, entries, lo, hi) ==
  IF lo >= hi THEN [h |-> h, n |-> nil]
  ELSE LET mid == lo + (hi - lo) \div 2
           l == sortedToAVLRange(h, entries, lo, mid)
           r == sortedToAVLRange(l.h, entries, mid + 1, hi)
           a == Alloc(r.h, [avlNewNode(entries[mid + 1].key, entries[mid + 1].value)
                              EXCEPT !.left = l.n, !.right = r.n])
       IN  [h |-> avlUpdateHeight(a.h, a.n), n |-> a.n]

sortedToAVL(h, entries) == sortedToAVLRange(h, entries, 0, Len(entries))

RECURSIVE avlMergeSorted(_, _, _)

(* The two-pointer merge.  keep says which of "left", "right" and "both"   *)
(* are kept; an entry of both sides is the left one.                       *)
avlMergeSorted(as, bs, keep) ==
  LET Take(case, entry) == IF case \in keep THEN <<entry>> ELSE <<>>
  IN  IF as = <<>> \/ bs = <<>>
        THEN (IF "left" \in keep THEN as ELSE <<>>) \o (IF "right" \in keep THEN bs ELSE <<>>)
        ELSE CASE Head(as).key < Head(bs).key ->
                    Take("left", Head(as)) \o avlMergeSorted(Tail(as), bs, keep)
               [] Head(as).key > Head(bs).key ->
                    Take("right", Head(bs)) \o avlMergeSorted(as, Tail(bs), keep)
               [] OTHER ->
                    Take("both", Head(as)) \o avlMergeSorted(Tail(as), Tail(bs), keep)

avlMergeUnion(h, a, b) ==
  avlMergeSorted(avlToSlice(h, a), avlToSlice(h, b), {"left", "right", "both"})

avlMergeIntersect(h, a, b) ==
  avlMergeSorted(avlToSlice(h, a), avlToSlice(h, b), {"both"})

avlMergeDifference(h, a, b) ==
  avlMergeSorted(avlToSlice(h, a), avlToSlice(h, b), {"left"})

-----------------------------------------------------------------------------
(* Trees as values, to keep a tree in a state without its heap. *)

RECURSIVE Load(_, _)

(* The tree t put on the heap h. *)
Load(h, t) ==
  IF t = <<>> THEN [h |-> h, n |-> nil]
  ELSE LET l == Load(h, t.left)
           r == Load(l.h, t.right)
       IN  Alloc(r.h, [t EXCEPT !.left = l.n, !.right = r.n])

RECURSIVE Read(_, _)

(* The tree below n, read from the heap. *)
Read(h, n) ==
  IF n = nil THEN <<>>
  ELSE [h[n] EXCEPT !.left = Read(h, h[n].left), !.right = Read(h, h[n].right)]

RECURSIVE Reach(_, _)

(* The nodes below n. *)
Reach(h, n) ==
  IF n = nil THEN {} ELSE {n} \cup Reach(h, h[n].left) \cup Reach(h, h[n].right)
=============================================================================
