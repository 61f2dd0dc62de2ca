--------------------------- MODULE MCEc2Inventory ---------------------------
(* Ec2Inventory for TLC. *)
EXTENDS Ec2Inventory, TLC

CONSTANTS i1, i2, h1, h2, r1, r2

\* Two hosts, or one address that two instances have one after the other.
TwoAddresses == (i1 :> h1) @@ (i2 :> h2)
OneAddress   == (i1 :> h1) @@ (i2 :> h1)
Single       == i1 :> h1
SingleHome   == i1 :> r1
OneHome  == (i1 :> r1) @@ (i2 :> r1)
TwoHomes == (i1 :> r1) @@ (i2 :> r2)

Symmetry == Permutations(Run)
=============================================================================
