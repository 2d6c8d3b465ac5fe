----------------------------- MODULE MCEventReader -----------------------------
(* Instances of EventReader for TLC. *)
EXTENDS EventReader, TLC
CONSTANTS w1, w2, s1, s2
WriterSymmetry == Permutations({w1, w2})
=============================================================================
