----------------------------- MODULE Primitives -----------------------------
(***************************************************************************)
(* What Core and the virtual machine share: the literals and the           *)
(* signatures of the primitives.                                           *)
(***************************************************************************)

IntLit(n) == [t |-> "int", n |-> n]      \* the values a literal may have
StrLit(l) == [t |-> "str", l |-> l]

\* Arity and effect of the primitives, as the checker derives them from the
\* type of the assumption that declares one.
PrimSig ==
  [add |-> [arity |-> 2, eff |-> FALSE], empty |-> [arity |-> 0, eff |-> FALSE],
   foldl |-> [arity |-> 3, eff |-> FALSE], listFoldr |-> [arity |-> 3, eff |-> FALSE],
   listMap |-> [arity |-> 2, eff |-> FALSE], listFilter |-> [arity |-> 2, eff |-> FALSE],
   listToSlice |-> [arity |-> 1, eff |-> FALSE], listFromSlice |-> [arity |-> 1, eff |-> FALSE],
   getAt |-> [arity |-> 1, eff |-> TRUE], putAt |-> [arity |-> 2, eff |-> TRUE],
   modifyAt |-> [arity |-> 2, eff |-> TRUE], runStateAt |-> [arity |-> 3, eff |-> TRUE],
   failWithAt |-> [arity |-> 2, eff |-> TRUE], tryAt |-> [arity |-> 2, eff |-> TRUE]]

=============================================================================
