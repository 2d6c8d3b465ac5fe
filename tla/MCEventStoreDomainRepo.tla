------------------------ MODULE MCEventStoreDomainRepo ------------------------
(* Instances of EventStoreDomainRepo for TLC. *)
EXTENDS EventStoreDomainRepo, TLC
CONSTANTS s1, s2
PassMixed == (s1 :> "number") @@ (s2 :> "original")
PassFree == (s1 :> "nil") @@ (s2 :> "number")
=============================================================================
