------------------------- MODULE MCConstraintSolver -------------------------
(* Instances of ConstraintSolver for TLC.                                  *)
EXTENDS ConstraintSolver

CONSTANTS m1, m2, m3, mr, s, t, e, A, B, C  \* metavariables, a result, skolems, constructors
CONSTANTS c1, c2, c3, c4, c5, c6, c7, c8, c9, c10, c11, c12  \* constraints

Kinds == (c1 :> "class" @@ c2 :> "given" @@ c3 :> "eq" @@ c4 :> "fun"
          @@ c5 :> "class" @@ c6 :> "given" @@ c7 :> "eq" @@ c8 :> "given"
          @@ c9 :> "class" @@ c10 :> "eq" @@ c11 :> "class" @@ c12 :> "eq")
Sides == (c1 :> <<m1, s>> @@ c2 :> <<s, A>> @@ c3 :> <<m1, m3>> @@ c4 :> <<m1, m2>>
          @@ c5 :> <<m1, m3>> @@ c6 :> <<s, B>> @@ c7 :> <<s, m1>> @@ c8 :> <<t, B>>
          @@ c9 :> <<m1, C>> @@ c10 :> <<m1, m2>> @@ c11 :> <<m1, e>> @@ c12 :> <<m1, m1>>)

\* A branch refining a skolem with a class or an equality, and a family equation;
\* two branches in sequence that refine the same skolem; a class and an equality
\* that mentions it; two branches that refine one each, nested or in sequence,
\* and a class that mentions the existential of the second; a nested equality in
\* a branch; and, without a branch, two classes that no instance matches, but
\* only after their metavariable has been tried.
ClassBranch    == {c1, c2, c4}
EqBranch       == {c3, c2, c4}
TwoBranches    == {c5, c2, c6}
SkolemEq       == {c5, c2, c7}
NestedBranches == {c2, c8, c11}
NestedEquality == {c12, c2, c3}
Cycle          == {c1, c9, c10, c4}
Everything     == {ClassBranch, EqBranch, TwoBranches, SkolemEq, NestedBranches,
                   NestedEquality, Cycle}
OnlyClass      == {ClassBranch}
OnlyNested     == {NestedEquality}

Existentials == [c \in Cts |-> IF c = c8 THEN {e} ELSE {}]
Result == [c \in Cts |-> mr]
Births == [m \in Metas |-> IF m = m3 THEN 1 ELSE 0]   \* m3 belongs to a branch

\* The first instance is private; the context of the third is derivable, that
\* of the fourth is the argument of the private one.
Instance(head, private, context) == [head |-> head, private |-> private, context |-> context]
FourInstances == << Instance(<<C, B>>, TRUE, {}), Instance(<<A, B>>, FALSE, {}),
                    Instance(<<A, A>>, FALSE, {<<A, B>>}), Instance(<<B, B>>, FALSE, {<<C, B>>}) >>

FamilyTable == [p \in TyCons \X TyCons |-> IF p[1] = p[2] THEN p[1] ELSE None]
=============================================================================
