------------------------ MODULE MCSqlEventRepository ------------------------
(* Small instances of SqlEventRepository for TLC. *)
EXTENDS SqlEventRepository

\* Clients are interchangeable: the safety runs may identify their permutations.
Symmetry == Permutations(Clients)
=============================================================================
