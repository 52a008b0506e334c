----------------------------- MODULE FingerTree -----------------------------
(***************************************************************************)
(* Data.Sequence: a 2-3 finger tree with size annotations                  *)
(* (internal/host/stdlib/fingertree.go) and its primitives (sequence.go).  *)
(*                                                                         *)
(* A leaf and a node23 are records of one shape; a tree is empty, a single *)
(* element or deep: two digits of elements around a tree whose elements    *)
(* are nodes one level deeper.  No primitive looks at an element, so the   *)
(* elements of the sequence in the state are the numbers 1..n in order,    *)
(* and Rename restores that after every call.                              *)
(***************************************************************************)
EXTENDS Integers, Sequences, SequencesExt, FiniteSets, Folds

CONSTANTS MaxSeq,        \* bound on the length of the sequence
          SeqOperands,   \* lengths of the operands of append
          SeqLists,      \* lengths of the lists fromList gets, beyond MaxSeq too
          SeqKeep(_)     \* the predicate of filter

VARIABLES sq,            \* the finger tree
          sqCall         \* the last call and what it returned besides the tree

leaf(x) == [size |-> 1, elems |-> <<>>, val |-> x]

SumSizes(elems) == FoldLeft(LAMBDA acc, e : acc + e.size, 0, elems)

(* mkNode2 and mkNode3 *)
mkNode(elems) == [size |-> SumSizes(elems), elems |-> elems, val |-> 0]

isNode(e) == e.elems # <<>>

ftEmpty == [kind |-> "empty", size |-> 0]

ftSingle(e) == [kind |-> "single", size |-> e.size, elem |-> e]

mkDeep(left, mid, right) ==
  [kind |-> "deep", size |-> SumSizes(left) + mid.size + SumSizes(right),
   left |-> left, mid |-> mid, right |-> right]

RECURSIVE ftCons(_, _)

(* A full left digit keeps its first element with the new one and pushes   *)
(* the other three into the spine as one node.                             *)
ftCons(a, t) ==
  CASE t.kind = "empty" -> ftSingle(a)
    [] t.kind = "single" -> mkDeep(<<a>>, ftEmpty, <<t.elem>>)
    [] t.kind = "deep" /\ Len(t.left) < 4 -> mkDeep(<<a>> \o t.left, t.mid, t.right)
    [] OTHER -> mkDeep(<<a, t.left[1]>>,
                       ftCons(mkNode(SubSeq(t.left, 2, 4)), t.mid), t.right)

RECURSIVE ftSnoc(_, _)

ftSnoc(t, a) ==
  CASE t.kind = "empty" -> ftSingle(a)
    [] t.kind = "single" -> mkDeep(<<t.elem>>, ftEmpty, <<a>>)
    [] t.kind = "deep" /\ Len(t.right) < 4 -> mkDeep(t.left, t.mid, Append(t.right, a))
    [] OTHER -> mkDeep(t.left, ftSnoc(t.mid, mkNode(SubSeq(t.right, 1, 3))),
                       <<t.right[4], a>>)

digitToTree(d) ==
  CASE Len(d) = 0 -> ftEmpty
    [] Len(d) = 1 -> ftSingle(d[1])
    [] OTHER -> LET mid == Len(d) \div 2
                IN  mkDeep(SubSeq(d, 1, mid), ftEmpty, SubSeq(d, mid + 1, Len(d)))

RECURSIVE ftUncons(_)

(* <<>> for Nothing, else <<head, tail>>.  asNode panics on an element of  *)
(* the spine that is no node: here the empty digit a leaf would give makes *)
(* the tree violate DigitsAndSizes.                                        *)
ftUncons(t) ==
  CASE t.kind = "empty" -> <<>>
    [] t.kind = "single" -> <<t.elem, ftEmpty>>
    [] t.kind = "deep" /\ Len(t.left) > 1 ->
         <<t.left[1], mkDeep(Tail(t.left), t.mid, t.right)>>
    [] OTHER -> LET inner == ftUncons(t.mid)
                IN  <<t.left[1], IF inner = <<>> THEN digitToTree(t.right)
                                 ELSE mkDeep(inner[1].elems, inner[2], t.right)>>

RECURSIVE ftUnsnoc(_)

ftUnsnoc(t) ==
  CASE t.kind = "empty" -> <<>>
    [] t.kind = "single" -> <<t.elem, ftEmpty>>
    [] t.kind = "deep" /\ Len(t.right) > 1 ->
         <<Last(t.right), mkDeep(t.left, t.mid, Front(t.right))>>
    [] OTHER -> LET inner == ftUnsnoc(t.mid)
                IN  <<Last(t.right), IF inner = <<>> THEN digitToTree(t.left)
                                     ELSE mkDeep(t.left, inner[2], inner[1].elems)>>

RECURSIVE nodify(_)

nodify(xs) ==
  CASE Len(xs) \in {2, 3} -> <<mkNode(xs)>>
    [] Len(xs) = 4 -> <<mkNode(SubSeq(xs, 1, 2)), mkNode(SubSeq(xs, 3, 4))>>
    [] Len(xs) < 2 -> <<>>
    [] OTHER -> <<mkNode(SubSeq(xs, 1, 3))>> \o nodify(SubSeq(xs, 4, Len(xs)))

SnocAll(t, elems) == FoldLeft(ftSnoc, t, elems)

ConsAll(elems, t) == FoldRight(ftCons, elems, t)

RECURSIVE ftAppend3(_, _, _)

ftAppend3(left, mid, right) ==
  CASE left.kind = "empty" -> ConsAll(mid, right)
    [] left.kind = "single" -> ftCons(left.elem, ConsAll(mid, right))
    [] left.kind = "deep" /\ right.kind = "empty" -> SnocAll(left, mid)
    [] left.kind = "deep" /\ right.kind = "single" -> ftSnoc(SnocAll(left, mid), right.elem)
    [] OTHER -> mkDeep(left.left,
                       ftAppend3(left.mid, nodify(left.right \o mid \o right.left), right.mid),
                       right.right)

RECURSIVE leaves(_)

(* collectNode, nodeToListR and nodeFoldl: the leaves below an element. *)
leaves(e) == IF isNode(e) THEN FlattenSeq([i \in DOMAIN e.elems |-> leaves(e.elems[i])])
             ELSE <<e.val>>

DigitLeaves(d) == FlattenSeq([i \in DOMAIN d |-> leaves(d[i])])

RECURSIVE ftToSlice(_)

(* ftToList, ftToSlice and ftFoldl, which visit the digits and the spine   *)
(* in this order (ftToList from the right, prepending).                    *)
ftToSlice(t) ==
  CASE t.kind = "empty" -> <<>>
    [] t.kind = "single" -> leaves(t.elem)
    [] OTHER -> DigitLeaves(t.left) \o ftToSlice(t.mid) \o DigitLeaves(t.right)

RECURSIVE digitIndexLate(_, _)

(* Mutant: an index equal to the size stays in the element. *)
digitIndexLate(d, i) ==
  IF d = <<>> THEN <<>>
  ELSE IF i > Head(d).size THEN digitIndexLate(Tail(d), i - Head(d).size)
  ELSE IF isNode(Head(d)) THEN digitIndexLate(Head(d).elems, i) ELSE <<Head(d).val>>

RECURSIVE digitIndex(_, _)

(* digitIndex, and nodeIndex within the node the index falls into. *)
digitIndex(d, i) ==
  IF d = <<>> THEN <<>>
  ELSE IF i >= Head(d).size THEN digitIndex(Tail(d), i - Head(d).size)
  ELSE IF isNode(Head(d)) THEN digitIndex(Head(d).elems, i) ELSE <<Head(d).val>>

RECURSIVE ftIndex(_, _)

(* ftIndex, and ftIndexNode in the spine. *)
ftIndex(t, i) ==
  CASE t.kind = "empty" -> <<>>
    [] t.kind = "single" -> digitIndex(<<t.elem>>, i)
    [] OTHER -> LET ls == SumSizes(t.left)
                IN  CASE i < ls -> digitIndex(t.left, i)
                      [] i >= ls /\ i - ls < t.mid.size -> ftIndex(t.mid, i - ls)
                      [] OTHER -> digitIndex(t.right, i - ls - t.mid.size)

seqIndex(t, i) == IF i < 0 \/ i >= t.size THEN <<>> ELSE ftIndex(t, i)

ftFromList(xs) == SnocAll(ftEmpty, [i \in DOMAIN xs |-> leaf(xs[i])])

-----------------------------------------------------------------------------
RECURSIVE RenameElem(_, _)

RenameElem(e, f) ==
  IF isNode(e) THEN [e EXCEPT !.elems = [i \in DOMAIN e.elems |-> RenameElem(e.elems[i], f)]]
  ELSE [e EXCEPT !.val = f[e.val]]

RECURSIVE Rename(_, _)

Rename(t, f) ==
  LET Digit(d) == [i \in DOMAIN d |-> RenameElem(d[i], f)]
  IN  CASE t.kind = "empty" -> t
        [] t.kind = "single" -> [t EXCEPT !.elem = RenameElem(t.elem, f)]
        [] OTHER -> [t EXCEPT !.left = Digit(t.left), !.mid = Rename(t.mid, f),
                              !.right = Digit(t.right)]

Upto(n) == [i \in 1..n |-> i]

(* The operand of append: fromList of the next k numbers. *)
SeqOperand(k) == ftFromList([i \in 1..k |-> sq.size + i])

SeqIdle == [op |-> "none", n |-> 0, k |-> 0, view |-> <<>>]

SeqInit == sq = ftEmpty /\ sqCall = SeqIdle

SeqCalled(op, k, view, t) ==
  /\ sqCall.op = "none"
  /\ sq' = t
  /\ sqCall' = [op |-> op, n |-> sq.size, k |-> k, view |-> view]

seqCons == sq.size < MaxSeq /\ SeqCalled("cons", 1, <<>>, ftCons(leaf(0), sq))

seqSnoc == sq.size < MaxSeq /\ SeqCalled("snoc", 1, <<>>, ftSnoc(sq, leaf(sq.size + 1)))

seqUncons ==
  LET view == ftUncons(sq)
  IN  view # <<>> /\ SeqCalled("uncons", 1, leaves(view[1]), view[2])

seqUnsnoc ==
  LET view == ftUnsnoc(sq)
  IN  view # <<>> /\ SeqCalled("unsnoc", 1, leaves(view[1]), view[2])

seqAppend ==
  \E k \in SeqOperands :
    /\ sq.size + k <= MaxSeq
    /\ \/ SeqCalled("append", k, <<>>, ftAppend3(sq, <<>>, SeqOperand(k)))
       \/ SeqCalled("prepend", k, <<>>, ftAppend3(SeqOperand(k), <<>>, sq))

seqFromList == \E k \in SeqLists : SeqCalled("fromList", k, <<>>, ftFromList(Upto(k)))

(* seqMapImpl, seqFilterImpl and seqReverseImpl rebuild the tree by ftSnoc. *)
seqFilter == SeqCalled("filter", 0, <<>>, ftFromList(SelectSeq(ftToSlice(sq), SeqKeep)))

seqReverse == SeqCalled("reverse", 0, <<>>, ftFromList(Reverse(ftToSlice(sq))))

seqSettle ==
  /\ sqCall.op # "none"
  /\ LET xs == ftToSlice(sq)
     IN  sq' = Rename(sq, [x \in {xs[i] : i \in DOMAIN xs} |-> CHOOSE i \in DOMAIN xs : xs[i] = x])
  /\ sqCall' = SeqIdle

SeqNext ==
  \/ seqCons \/ seqSnoc \/ seqUncons \/ seqUnsnoc \/ seqAppend \/ seqFromList
  \/ seqFilter \/ seqReverse \/ seqSettle

-----------------------------------------------------------------------------
RECURSIVE ElemOK(_, _)

ElemOK(e, depth) ==
  IF depth = 0 THEN ~ isNode(e) /\ e.size = 1
  ELSE /\ Len(e.elems) \in 2..3
       /\ e.size = Len(leaves(e))
       /\ \A i \in DOMAIN e.elems : ElemOK(e.elems[i], depth - 1)

RECURSIVE TreeOK(_, _)

TreeOK(t, depth) ==
  CASE t.kind = "empty" -> t.size = 0
    [] t.kind = "single" -> ElemOK(t.elem, depth) /\ t.size = t.elem.size
    [] OTHER -> /\ {Len(t.left), Len(t.right)} \subseteq 1..4
                /\ \A d \in {t.left, t.right} : \A i \in DOMAIN d : ElemOK(d[i], depth)
                /\ TreeOK(t.mid, depth + 1)
                /\ t.size = Len(ftToSlice(t))

(* The shape the code relies on without checking it: digits hold one to    *)
(* four elements, a node two or three, an element at depth d of the spine  *)
(* is nested exactly d deep (asNode panics otherwise), and every size      *)
(* annotation is the number of leaves below it.                            *)
DigitsAndSizes == sq.kind # "empty" => TreeOK(sq, 0)

(* A sequence is the list its history of calls describes: cons and snoc at *)
(* their own ends, uncons and unsnoc return and drop the end they name,    *)
(* append concatenates in order, filter and reverse act on the list.       *)
SequenceAgrees ==
  LET xs == ftToSlice(sq)
      n == sqCall.n
      k == sqCall.k
      added == [i \in 1..k |-> n + i]
  IN  CASE sqCall.op = "none" -> xs = Upto(sq.size)
        [] sqCall.op = "cons" -> xs = <<0>> \o Upto(n)
        [] sqCall.op \in {"snoc", "append"} -> xs = Upto(n) \o added
        [] sqCall.op = "prepend" -> xs = added \o Upto(n)
        [] sqCall.op = "uncons" -> sqCall.view = <<1>> /\ xs = [i \in 1..(n - 1) |-> i + 1]
        [] sqCall.op = "unsnoc" -> sqCall.view = <<n>> /\ xs = Upto(n - 1)
        [] sqCall.op = "fromList" -> xs = Upto(k)
        [] sqCall.op = "filter" -> xs = SelectSeq(Upto(n), SeqKeep)
        [] sqCall.op = "reverse" -> xs = Reverse(Upto(n))

(* index finds the i-th element by descending through the size annotations *)
(* of three different levels, and nothing outside the bounds.              *)
IndexAgrees ==
  LET xs == ftToSlice(sq)
  IN  \A i \in -1..(sq.size + 1) :
        seqIndex(sq, i) = IF i \in 0..(Len(xs) - 1) THEN <<xs[i + 1]>> ELSE <<>>

(* A finger tree keeps its shape and its sizes, and is the list of its     *)
(* history read from either end and at any index (fingertree.go).          *)
SequencesAgree == DigitsAndSizes /\ SequenceAgrees /\ IndexAgrees
=============================================================================
