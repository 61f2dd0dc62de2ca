-------------------------- MODULE MCTestChaincode --------------------------
(* TestChaincode for TLC.  Peers, clients and values are interchangeable. *)
EXTENDS TestChaincode, TLC

Symmetry == Permutations(Peer) \union Permutations(Client)
            \union Permutations(Value) \union Permutations(Name \ BadName)
=============================================================================
