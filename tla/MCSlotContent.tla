----------------------------- MODULE MCSlotContent -----------------------------
(* Instances of SlotContent for TLC: a is a prefix of ab and ab of abc, d is  *)
(* another text.                                                              *)
EXTENDS SlotContent, TLC

CONSTANTS a, ab, abc, d

SomeTexts == {a, ab, abc, d}
SomeBelow == {<<a, ab>>, <<a, abc>>, <<ab, abc>>}
SomeLength == (a :> 1) @@ (ab :> 2) @@ (abc :> 3) @@ (d :> 1)

\* d may be what the tokens of a and the text after them are merged to.
SomeCuts == {ab, abc, d} \X {a}

\* A generated prefix that was saved together with the prompt a, whose row was pruned.
SharedFile ==
    [n \in Ids |-> IF n = Plain(ab) THEN [bin |-> Plain(a), has |-> ab, checked |-> TRUE]
                   ELSE None]

\* Requests are interchangeable.
RequestSymmetry == Permutations(Requests)
=============================================================================
