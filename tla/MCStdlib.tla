------------------------------ MODULE MCStdlib ------------------------------
(***************************************************************************)
(* The data structures and primitives of the standard library, side by     *)
(* side.  They share no state, so a behaviour exercises one of them: the   *)
(* state space is the sum of theirs.                                       *)
(***************************************************************************)
EXTENDS Collections, FingerTree, Buffers, Text, Json

VARIABLE part

MCCombine(a, b) == IF a > b THEN 0 ELSE 1
MCChange(v) == 1 - v
MCChangeAt(k, v) == (k + v) % 2
MCKeep(k, v) == (k + v) % 3 # 0
MCMapLists == {<<>>} \cup {[i \in 1..3 |-> [key |-> p[i], value |-> p[i] % 2]] : p \in {<<1, 2, 3>>, <<4, 2, 4>>}}
MCSetLists == {<<>>} \cup {[i \in DOMAIN p |-> [key |-> p[i], value |-> 0]]
                           : p \in {<<1, 2, 3, 4, 5, 6, 7>>, <<7, 5, 3, 5, 1>>, <<2, 6, 4>>}}
MCSeqKeep(x) == x % 3 # 0

MCLiterals == {<<>>, <<97>>, <<195, 169>>, <<10>>, <<97, 97>>, <<32>>}
MCPacked == {<<195>>, <<169>>}

MCOperands == {-16, -3, -1, 0, 1, 2, 7, 15}
MCForeign ==
  {null, arr(<<>>), arr(<<atom("num", 2)>>), arr(<<atom("num", 2), null, null>>),
   atom("num", 3), atom("num", 200), obj("taggedOk", <<atom("num", 4)>>), obj("taggedErr", <<emptyText>>),
   arr(<<arr(<<atom("num", 4), atom("num", 2)>>), arr(<<atom("num", 2), atom("num", 2)>>), arr(<<atom("num", 4), null>>)>>),
   arr(<<arr(<<atom("num", 4), atom("num", 2)>>), arr(<<atom("num", 2), atom("num", 2)>>), arr(<<atom("num", 4), atom("num", 6)>>)>>)}

collVars == <<coll, call>>
seqVars == <<sq, sqCall>>
bufVars == <<mem, vals, born>>
numVars == <<numA, numB>>
jsonVars == <<jt, jv, doc>>
vars == <<part, collVars, seqVars, bufVars, str, numVars, jsonVars>>

Init ==
  /\ part \in {"collections", "sequences", "buffers", "text", "numbers", "json"}
  /\ CollInit /\ (part # "collections" => coll.kind = "map")
  /\ SeqInit
  /\ BufInit
  /\ TextInit /\ (part # "text" => str = <<>>)
  /\ NumInit /\ (part # "numbers" => numVars = <<0, 0>>)
  /\ JsonInit /\ (part # "json" => jv.c = "Bool")

Next ==
  \/ part = "collections" /\ CollNext /\ UNCHANGED <<part, seqVars, bufVars, str, numVars, jsonVars>>
  \/ part = "sequences" /\ SeqNext /\ UNCHANGED <<part, collVars, bufVars, str, numVars, jsonVars>>
  \/ part = "buffers" /\ BufNext /\ UNCHANGED <<part, collVars, seqVars, str, numVars, jsonVars>>
  \/ part = "text" /\ TextNext /\ UNCHANGED <<part, collVars, seqVars, bufVars, numVars, jsonVars>>
  \/ part = "numbers" /\ NumNext /\ UNCHANGED <<part, collVars, seqVars, bufVars, str, jsonVars>>
  \/ part = "json" /\ JsonNext /\ UNCHANGED <<part, collVars, seqVars, bufVars, str, numVars>>

Spec == Init /\ [][Next]_vars
=============================================================================
