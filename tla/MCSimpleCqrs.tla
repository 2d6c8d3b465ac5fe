----------------------------- MODULE MCSimpleCqrs -----------------------------
(* Instances of SimpleCqrs for TLC. *)
EXTENDS SimpleCqrs, TLC
CONSTANTS r1, r2, n1, n2
RequestSymmetry == Permutations(Requests) \cup Permutations(Names)
=============================================================================
