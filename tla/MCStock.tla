--------------------------------- MODULE MCStock ---------------------------------
(* One product at two locations, another made of it. *)
EXTENDS Stock, TLC

CONSTANTS a, b, f, t1, t2, out, order, count

Transfer(from, to) == [kind |-> "transfer", from |-> from, to |-> to, qty |-> 1]
Order == [kind |-> "order", parts |-> <<[cell |-> a, qty |-> 1], [cell |-> b, qty |-> 1]>>, out |-> f]
Count == [kind |-> "count", cells |-> <<a, a>>]

AllDocs == out :> Transfer(a, b) @@ order :> Order @@ count :> Count
OneCount == count :> Count

Levels == a :> 1 @@ b :> 1 @@ f :> 0
Costs == a :> 2 @@ b :> 2 @@ f :> 0

Symmetry == Permutations(Txns)
===============================================================================
