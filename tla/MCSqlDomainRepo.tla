--------------------------- MODULE MCSqlDomainRepo ---------------------------
(* Small instances of SqlDomainRepo for TLC. *)
EXTENDS SqlDomainRepo

\* Handlers are interchangeable; sessions are not, some of them are guarded.
Symmetry == Permutations(Handlers)
=============================================================================
