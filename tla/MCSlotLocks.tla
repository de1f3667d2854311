------------------------------ MODULE MCSlotLocks ------------------------------
(* Instances of SlotLocks for TLC. *)
EXTENDS SlotLocks, TLC

\* Requests are interchangeable; slots are not, since DefaultSlot is one of them.
RequestSymmetry == Permutations(Requests)
=============================================================================
