------------------------- MODULE MCClusterLifecycle -------------------------
(* ClusterLifecycle for TLC: two groups of machines, one of each kind of   *)
(* creation task: orderers, launched one a time in a loop, and business    *)
(* nodes, which no existing cluster keeps from being created.              *)
EXTENDS ClusterLifecycle, TLC

TwoGroups == <<"orderers", "business_nodes">>
OneEach   == [c \in Cluster |-> [g \in {"orderers", "business_nodes"} |-> 1]]
TwoOrderers == [c \in Cluster |-> [g \in {"orderers", "business_nodes"} |->
                                   IF g = "orderers" THEN 2 ELSE 1]]
AllCrush  == [c \in Cluster |-> "crush"]
AllSkip   == [c \in Cluster |-> "skip_starter"]
SafeIds   == [c \in Cluster |-> c]

\* An id with a dash, whose tag group has an underscore instead.
DashedId  == [c \in Cluster |-> "underscored"]

\* The clusters are alike (AllCrush or AllSkip, one Count, SafeIds).
Symmetry == Permutations(VM) \union Permutations(Run) \union Permutations(Cluster)
=============================================================================
