------------------------------- MODULE Buffers -------------------------------
(***************************************************************************)
(* Slices, mutable arrays and the list primitives that share algorithms    *)
(* with them (internal/host/stdlib/slice.go, array.go, list.go, stream.go).*)
(*                                                                         *)
(* A Slice value is a Go slice: a window [base, lo, n] on a backing array. *)
(* Slices are values of the language, so nobody may see one change, though *)
(* sliceSlice gives two of them the same backing array and a mutable array *)
(* is converted to and from a slice.  mem holds the backing arrays, vals   *)
(* the handles the program has; born remembers what each held when it was  *)
(* made.  Lists (Cons/Nil) are TLA+ sequences.                             *)
(*                                                                         *)
(* Elements are records [key, tag]: callbacks compare or test the key      *)
(* only, the tag tells equal elements apart.  The primitives that charge   *)
(* the budget may end the evaluation; that is left out.                    *)
(***************************************************************************)
EXTENDS Integers, Sequences, SequencesExt, FiniteSets, Folds

CONSTANTS BufKeys,     \* keys of the elements
          ListLen,     \* bound on the list sliceFromList gets
          BufLen,      \* bound on the length of what is made from it
          MaxHandles   \* bound on the handles alive at once

VARIABLES mem,         \* backing arrays
          vals,        \* handles: [kind, base, lo, n]
          born         \* ghost: the contents of each handle when it was made

Elem(k, t) == [key |-> k, tag |-> t]

BufPred(e) == e.key = 1

window(v) == SubSeq(mem[v.base], v.lo + 1, v.lo + v.n)

-----------------------------------------------------------------------------
(* Pure list and slice algorithms. *)

clamp(n, len) == IF n <= 0 THEN 0 ELSE IF n > len THEN len ELSE n

takeImpl(n, xs) == SubSeq(xs, 1, clamp(n, Len(xs)))

dropImpl(n, xs) == SubSeq(xs, clamp(n, Len(xs)) + 1, Len(xs))

(* indexImpl counts up to idx, sliceIndexImpl and arrayReadImpl test the bounds. *)
indexImpl(idx, xs) == IF idx \in 0..(Len(xs) - 1) THEN <<xs[idx + 1]>> ELSE <<>>

(* Lists are rebuilt by prepending, front to back. *)
reverseImpl(xs) == FoldLeft(LAMBDA acc, e : <<e>> \o acc, <<>>, xs)

concatImpl(xs, ys) == xs \o ys

listFilterImpl(xs) == SelectSeq(xs, BufPred)

replicateImpl(n, x) == IF n <= 0 THEN <<>> ELSE [i \in 1..n |-> x]

(* The searches stop at the first element that decides them. *)
sliceFindIndexImpl(xs) ==
  LET at == {i \in DOMAIN xs : BufPred(xs[i])}
  IN  IF at = {} THEN <<>> ELSE <<(CHOOSE i \in at : \A j \in at : i <= j) - 1>>

sliceFindImpl(xs) == LET hit == listFilterImpl(xs) IN IF hit = <<>> THEN <<>> ELSE <<hit[1]>>

sliceAnyImpl(xs) == \E i \in DOMAIN xs : BufPred(xs[i])

sliceAllImpl(xs) == \A i \in DOMAIN xs : BufPred(xs[i])

(* With the pairing callback. *)
sliceZipWithImpl(xs, ys) ==
  [i \in 1..(IF Len(ys) < Len(xs) THEN Len(ys) ELSE Len(xs)) |-> <<xs[i], ys[i]>>]

sliceConcatImpl(outer) == FlattenSeq(outer)

(* Streams: a list of which only the first forceable tails terminate.      *)
(* takeSImpl forces the tail behind the last element it takes as well.     *)
takeSImpl(n, xs, forceable) ==
  IF clamp(n, Len(xs)) > forceable THEN <<"diverges">> ELSE <<takeImpl(n, xs)>>

dropSImpl(n, xs, forceable) ==
  IF clamp(n, Len(xs)) > forceable THEN <<"diverges">> ELSE <<dropImpl(n, xs)>>

RECURSIVE spanImpl(_, _)

(* <<prefix, rest>>; dropWhileImpl is the rest. *)
spanImpl(prefix, xs) ==
  IF xs = <<>> \/ ~ BufPred(Head(xs)) THEN <<prefix, xs>>
  ELSE spanImpl(Append(prefix, Head(xs)), Tail(xs))

RECURSIVE zipImpl(_, _)

zipImpl(xs, ys) ==
  IF xs = <<>> \/ ys = <<>> THEN <<>>
  ELSE <<<<Head(xs), Head(ys)>>>> \o zipImpl(Tail(xs), Tail(ys))

unzipImpl(ps) == <<[i \in DOMAIN ps |-> ps[i][1]], [i \in DOMAIN ps |-> ps[i][2]]>>

(* Every element is compared with the first one of the current group. *)
groupByImpl(xs) ==
  LET Step(acc, e) ==
        IF acc.current = <<>> THEN [acc EXCEPT !.current = <<e>>]
        ELSE IF acc.current[1].key = e.key THEN [acc EXCEPT !.current = Append(@, e)]
        ELSE [groups |-> Append(acc.groups, acc.current), current |-> <<e>>]
      end == FoldLeft(Step, [groups |-> <<>>, current |-> <<>>], xs)
  IN  IF end.current = <<>> THEN end.groups ELSE Append(end.groups, end.current)

RECURSIVE mergeLists(_, _)

(* The right element goes first only when the left one is greater. *)
mergeLists(left, right) ==
  CASE left = <<>> -> right
    [] right = <<>> -> left
    [] OTHER -> IF Head(left).key > Head(right).key
                  THEN <<Head(right)>> \o mergeLists(left, Tail(right))
                  ELSE <<Head(left)>> \o mergeLists(Tail(left), right)

RECURSIVE mergeSort(_)

mergeSort(items) ==
  IF Len(items) <= 1 THEN items
  ELSE LET mid == Len(items) \div 2
       IN  mergeLists(mergeSort(SubSeq(items, 1, mid)),
                      mergeSort(SubSeq(items, mid + 1, Len(items))))

RECURSIVE shiftInto(_, _, _)

(* The inner loop of sliceSortByImpl: move key left past greater elements. *)
shiftInto(sorted, j, key) ==
  IF j = 0 \/ sorted[j].key <= key.key THEN [sorted EXCEPT ![j + 1] = key]
  ELSE shiftInto([sorted EXCEPT ![j + 1] = sorted[j]], j - 1, key)

insertionSort(s) ==
  FoldLeft(LAMBDA sorted, i : shiftInto(sorted, i - 1, sorted[i]), s,
           [i \in 1..(Len(s) - 1) |-> i + 1])

(* foldlImpl and scanlImpl with the callback that counts in base 4. *)
scanlImpl(xs) ==
  FoldLeft(LAMBDA acc, e : Append(acc, 4 * Last(acc) + e.key), <<0>>, xs)

foldlImpl(xs) == FoldLeft(LAMBDA acc, e : 4 * acc + e.key, 0, xs)

foldrImpl(xs) == FoldRight(LAMBDA e, acc : 4 * acc + e.key, xs, 0)

(* rangeImpl is inclusive, sliceRangeImpl excludes hi. *)
rangeImpl(from, to) == IF from > to THEN <<>> ELSE [i \in 1..(to - from + 1) |-> from + i - 1]

sliceRangeImpl(lo, hi) == IF lo > hi THEN <<>> ELSE [i \in 1..(hi - lo) |-> lo + i - 1]

iterateNImpl(n, x) == IF n <= 0 THEN <<>> ELSE [i \in 1..n |-> x + i - 1]

RECURSIVE unfoldrImpl(_, _)

(* unfoldrImpl with the callback that counts seed down to 0. *)
unfoldrImpl(items, seed) ==
  IF seed <= 0 THEN items ELSE unfoldrImpl(Append(items, seed), seed - 1)

-----------------------------------------------------------------------------
(* Handles. *)

(* A new handle on a backing array of its own. *)
Made(kind, data) ==
  /\ Len(vals) < MaxHandles
  /\ vals # <<>> => Len(data) <= BufLen
  /\ mem' = Append(mem, data)
  /\ vals' = Append(vals, [kind |-> kind, base |-> Len(mem) + 1, lo |-> 0, n |-> Len(data)])
  /\ born' = Append(born, data)

BufInit == mem = <<>> /\ vals = <<>> /\ born = <<>>

Slices == {v \in DOMAIN vals : vals[v].kind = "slice"}

Arrays == {v \in DOMAIN vals : vals[v].kind = "array"}

(* sliceFromListImpl, and the other primitives that start from no slice *)
sliceFromList ==
  /\ vals = <<>>
  /\ \E n \in 0..ListLen : \E f \in [1..n -> BufKeys] :
       Made("slice", [i \in 1..n |-> Elem(f[i], i)])

sliceSlice ==
  \E v \in Slices, start \in -1..1, end \in 1..(BufLen + 1) :
    LET s == IF start < 0 THEN 0 ELSE start
        e == IF end > vals[v].n THEN vals[v].n ELSE end
    IN  /\ Len(vals) < MaxHandles
        /\ s < e /\ e - s <= BufLen
        /\ vals' = Append(vals, [vals[v] EXCEPT !.lo = @ + s, !.n = e - s])
        /\ born' = Append(born, SubSeq(window(vals[v]), s + 1, e))
        /\ UNCHANGED mem

(* sliceSortByImpl returns a slice of at most one element itself. *)
sliceSortBy ==
  \E v \in Slices : vals[v].n > 1 /\ Made("slice", insertionSort(window(vals[v])))

sliceReverse == \E v \in Slices : Made("slice", Reverse(window(vals[v])))

sliceFilter == \E v \in Slices : Made("slice", SelectSeq(window(vals[v]), BufPred))

sliceAppend == \E v, w \in Slices : Made("slice", window(vals[v]) \o window(vals[w]))

arrayNew == \E n \in 0..1 : vals # <<>> /\ Made("array", [i \in 1..n |-> Elem(0, 0)])

arrayFromSlice == \E v \in Slices : Made("array", window(vals[v]))

(* Mutant: the slice takes over the array's memory. *)
arrayToSliceShared ==
  \E v \in Arrays :
    /\ Len(vals) < MaxHandles
    /\ vals' = Append(vals, [vals[v] EXCEPT !.kind = "slice"])
    /\ born' = Append(born, window(vals[v]))
    /\ UNCHANGED mem

arrayToSlice == \E v \in Arrays : Made("slice", window(vals[v]))

(* arrayResizeImpl returns a new array and leaves the old one alone. *)
arrayResize ==
  \E v \in Arrays, n \in 0..BufLen :
    LET old == window(vals[v])
    IN  Made("array", [i \in 1..n |-> IF i <= Len(old) THEN old[i] ELSE Elem(0, 0)])

(* arrayWriteImpl ignores an index out of bounds. *)
arrayWrite ==
  \E v \in Arrays : \E i \in 0..(vals[v].n - 1) :
    /\ mem' = [mem EXCEPT ![vals[v].base][vals[v].lo + i + 1] = Elem(0, 1)]
    /\ UNCHANGED <<vals, born>>

(* The program drops its handles and the memory is collected. *)
bufForget == Len(vals) = MaxHandles /\ mem' = <<>> /\ vals' = <<>> /\ born' = <<>>

BufNext ==
  \/ sliceFromList \/ sliceSlice \/ sliceSortBy \/ sliceReverse \/ sliceFilter \/ sliceAppend
  \/ arrayNew \/ arrayFromSlice \/ arrayToSlice \/ arrayResize \/ arrayWrite \/ bufForget

-----------------------------------------------------------------------------
(* A slice never changes: whatever is written through any array, every     *)
(* slice the program holds reads what it read when it was made, though     *)
(* slices of slices share backing arrays and arrays are converted to and   *)
(* from slices (the copies in arrayFromSliceImpl and arrayToSliceImpl).    *)
SlicesImmutable == \A v \in Slices : window(vals[v]) = born[v]

(* Two mutable arrays are never the same memory, so that a write through   *)
(* one is not seen through the other (arrayResizeImpl copies).             *)
ArraysDisjoint == \A v, w \in Arrays : v # w => vals[v].base # vals[w].base

Sorted(xs) ==
  \A i, j \in DOMAIN xs : i < j =>
    xs[i].key < xs[j].key \/ (xs[i].key = xs[j].key /\ xs[i].tag < xs[j].tag)

(* The two sorts, merge sort of lists and insertion sort of slices, give   *)
(* the same result: the stable sorted permutation.                         *)
SortsAgree ==
  \A v \in Slices : LET xs == window(vals[v]) IN
    (\A i, j \in DOMAIN xs : i < j => xs[i].tag < xs[j].tag) =>
      /\ insertionSort(xs) = mergeSort(xs)
      /\ Sorted(mergeSort(xs))
      /\ Len(mergeSort(xs)) = Len(xs) /\ ToSet(mergeSort(xs)) = ToSet(xs)

(* The list primitives that cut a list give back its pieces in order: take *)
(* and drop, span, groupBy (whose groups are maximal runs), unzip after    *)
(* zip; scanl ends in what foldl gives, foldr folds the reverse; the       *)
(* inclusive and the exclusive range differ by their last element; the      *)
(* searches agree with filtering, and a stream is forced no further than   *)
(* what is asked of it.                                                     *)
ListLaws ==
  \A v \in Slices :
    LET xs == window(vals[v])
        sp == spanImpl(<<>>, xs)
        gs == groupByImpl(xs)
    IN  /\ \A n \in -1..(Len(xs) + 1) :
             /\ takeImpl(n, xs) \o dropImpl(n, xs) = xs
             /\ indexImpl(n, xs) = takeImpl(1, IF n < 0 THEN <<>> ELSE dropImpl(n, xs))
             /\ unzipImpl(zipImpl(xs, dropImpl(n, xs)))
                  = <<takeImpl(Len(dropImpl(n, xs)), xs), dropImpl(n, xs)>>
             /\ rangeImpl(0, n) = sliceRangeImpl(0, n + 1)
             /\ iterateNImpl(n, 5) = [i \in 1..Len(takeImpl(n, rangeImpl(1, n))) |-> 4 + i]
             /\ Reverse(unfoldrImpl(<<>>, n)) = rangeImpl(1, n)
             /\ sliceZipWithImpl(xs, dropImpl(n, xs)) = zipImpl(xs, dropImpl(n, xs))
             /\ takeSImpl(n, xs, Len(xs)) = <<takeImpl(n, xs)>>
             /\ (takeSImpl(n, xs, 1) = <<"diverges">>) = (dropSImpl(n, xs, 1) = <<"diverges">>)
        /\ sp[1] \o sp[2] = xs
        /\ reverseImpl(xs) = Reverse(xs)
        /\ sliceAnyImpl(xs) = (sliceFindImpl(xs) # <<>>)
        /\ sliceAllImpl(xs) = (sp[2] = <<>>)
        /\ sliceAnyImpl(xs) => indexImpl(sliceFindIndexImpl(xs)[1], xs) = sliceFindImpl(xs)
        /\ concatImpl(listFilterImpl(sp[1]), listFilterImpl(sp[2])) = listFilterImpl(xs)
        /\ sliceConcatImpl(gs) = xs
        /\ sliceConcatImpl(replicateImpl(2, xs)) = concatImpl(xs, xs)
        /\ sp[2] # <<>> => ~ BufPred(sp[2][1])
        /\ FlattenSeq(gs) = xs
        /\ \A i \in DOMAIN gs : /\ gs[i] # <<>> /\ Cardinality({e.key : e \in ToSet(gs[i])}) = 1
                                /\ i > 1 => gs[i - 1][1].key # gs[i][1].key
        /\ Last(scanlImpl(xs)) = foldlImpl(xs)
        /\ foldrImpl(xs) = foldlImpl(Reverse(xs))

(* Slices never change and arrays are never shared, whatever is converted, *)
(* cut or written; and what is computed from a slice obeys the laws of     *)
(* lists and of stable sorting (array.go, slice.go, list.go).              *)
BuffersAgree == SlicesImmutable /\ ArraysDisjoint /\ SortsAgree /\ ListLaws
=============================================================================
