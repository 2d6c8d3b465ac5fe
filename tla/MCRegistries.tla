----------------------------- MODULE MCRegistries -----------------------------
(* Instances of Registries for TLC: two types that share a name, and two more that
   share one, of which one is not given by a pointer. *)
EXTENDS Registries, TLC
CONSTANTS salesOrder, stockOrder, item, plainItem, d1, d2
TypeNames == (salesOrder :> "Order") @@ (stockOrder :> "Order") @@ (item :> "Item")
             @@ (plainItem :> "Item")
DelegateSymmetry == Permutations(Delegates)
=============================================================================
