--------------------------- MODULE MCNetworkRoles ---------------------------
(* NetworkRoles for TLC. *)
EXTENDS NetworkRoles, TLC

CONSTANTS ca, o1, o2, p1

Roles == [n \in Node |-> CASE n = ca -> "cas" [] n = p1 -> "peers"
                           [] OTHER -> "orderers"]

\* As on AWS, a machine for every node.
OwnMachine == [n \in Node |-> n]

\* The machines have nothing else to run, or all of them do.
AllOrNone == {{}, Machine}
NoOther   == {{}}

\* The orderers are alike.
Symmetry == Permutations({o1, o2})
=============================================================================
