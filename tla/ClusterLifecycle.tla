-------------------------- MODULE ClusterLifecycle --------------------------
(***************************************************************************)
(* ops-cli and the playbooks that create, restart, test and kill clusters  *)
(* of EC2 machines.  All runs of one controller share the machines of the  *)
(* account, the inventory cache of ec2.py (see Ec2Inventory; here it is a  *)
(* list of machines that is reused until it expires) and the one file      *)
(* group_vars/all/config.yaml that ops-cli copies the cluster's            *)
(* configuration into.  A run learns which machines there are when ansible *)
(* starts and wherever a playbook says refresh_inventory, and acts on that.*)
(* A machine that is launched is pending before it runs, and ec2.py lists  *)
(* running ones only (ec2.py, line 284): a run waits for its own machines, *)
(* but a run that fails or is interrupted stops where it is, takes nothing *)
(* back, and leaves what it has launched to come up later.                 *)
(***************************************************************************)
EXTENDS Integers, Sequences, FiniteSets

CONSTANTS Run, Cluster, VM,
          Groups,      \* the project groups, in the order they are created
          WhenExists,  \* when_exists of each cluster's configuration
          Looped,      \* the groups launched one machine a time (with_items)
          Count,       \* Count[c][g]: machines of group g it asks for
          Safe,        \* Safe[c]: to_safe of a cluster id, as in tag groups
          CacheOn,     \* whether ec2.py may cache (cache_max_age > 0), or not
          OnePerCluster, \* whether no two runs of a cluster overlap
          NIL

GroupSet == {Groups[k] : k \in 1..Len(Groups)}

ASSUME LifecycleAssumption ==
    /\ IsFiniteSet(VM)
    /\ Groups \in Seq(GroupSet) /\ "business_nodes" \in GroupSet
    /\ Looped \subseteq GroupSet
    /\ \A j, k \in 1..Len(Groups) : Groups[j] = Groups[k] => j = k
    /\ WhenExists \in [Cluster -> {"crush", "skip_starter", "none"}]
    /\ Count \in [Cluster -> [GroupSet -> Nat]]
    /\ DOMAIN Safe = Cluster
    /\ CacheOn \subseteq BOOLEAN /\ OnePerCluster \in BOOLEAN
    /\ NIL \notin Cluster /\ NIL \notin VM

VARIABLES
    vm,      \* the machines of the account, with their tags
    net,     \* the cluster as whose node each machine was deployed last
    caching, \* whether ec2.py caches
    cached,  \* the machines ec2.py has in its cache, or NIL
    config,  \* the cluster whose configuration is in group_vars, or NIL
    run,     \* the runs of ops-cli, each one command
    missed   \* the machines that a run launched and did not wait for to the
             \* end, or that ran when a run of their cluster was given a list
             \* without them

vars == <<vm, net, caching, cached, config, run, missed>>

NoVM == [state |-> "none", cluster |-> NIL, group |-> NIL]
Idle == [pc |-> "idle", mode |-> NIL, cluster |-> NIL, conf |-> NIL,
         inv |-> {}, skip |-> FALSE, failed |-> FALSE, step |-> 0, done |-> 0,
         wait |-> {}]
Over == [Idle EXCEPT !.pc = "over"]
Running == {v \in VM : vm[v].state = "running"}
Pending == {v \in VM : vm[v].state = "pending"}

Init ==
    /\ vm = [v \in VM |-> NoVM]
    /\ net = [v \in VM |-> NIL]
    /\ caching \in CacheOn
    /\ cached = NIL
    /\ config = NIL
    /\ run = [r \in Run |-> Idle]
    /\ missed = {}

\* The machines in group tag_cluster_id_<c> of an inventory.  The group is
\* named by the safe form of the tag, and looked up by the id itself.
TagGroup(inv, c) == {v \in inv : vm[v].cluster # NIL /\ Safe[vm[v].cluster] = c}
ClusterExists(inv, c) == TagGroup(inv, c) # {}

\* ansible runs ec2.py --list, which fills the cache unless it can use it.
Inventory(r, inv) ==
    /\ inv = IF cached # NIL THEN cached ELSE Running
    /\ cached' = IF caching /\ cached = NIL THEN inv ELSE cached
    /\ missed' = missed \union {v \in Running \ inv : vm[v].cluster = run[r].cluster}

CacheExpires ==
    /\ cached # NIL /\ cached' = NIL
    /\ UNCHANGED <<caching, vm, net, config, run, missed>>

\* EC2: a machine that was launched comes up, whoever waits for it.
BootUp(v) ==
    /\ v \in Pending
    /\ vm' = [vm EXCEPT ![v].state = "running"]
    /\ UNCHANGED <<caching, net, cached, config, run, missed>>
-----------------------------------------------------------------------------
(* ops-cli *)

\* The old configuration is removed, then the cluster's copied.
RemoveConfig(r, mode, c) ==
    /\ run[r].pc = "idle"
    /\ OnePerCluster => \A q \in Run : run[q].cluster # c
    /\ config' = NIL
    /\ run' = [run EXCEPT ![r] = [Idle EXCEPT !.pc = "copy", !.mode = mode,
                                              !.cluster = c]]
    /\ UNCHANGED <<caching, vm, net, cached, missed>>

CopyConfig(r) ==
    /\ run[r].pc = "copy"
    /\ config' = run[r].cluster
    /\ run' = [run EXCEPT ![r].pc = "launch"]
    /\ UNCHANGED <<caching, vm, net, cached, missed>>

\* ansible-playbook starts, on the configuration it finds.  Test, restart and
\* kill flags come before start.
First(mode) == CASE mode = "restart" -> "load"
                 [] mode = "kill"    -> "kill"
                 [] OTHER            -> "check"

LaunchPlaybook(r) ==
    /\ run[r].pc = "launch"
    /\ \E inv \in SUBSET VM :
          /\ Inventory(r, inv)
          /\ run' = [run EXCEPT ![r].pc = First(run[r].mode),
                                ![r].conf = config, ![r].inv = inv]
    /\ UNCHANGED <<caching, vm, net, config>>

\* The ec2 module stops before its machines are up.  It tags them in a second
\* request, so it may leave them without tags.
Leave(r) ==
    LET late == run[r].wait \intersect Pending
    IN  /\ missed' = missed \union late
        /\ \E bare \in {{}, late} :
              vm' = [v \in VM |-> IF v \in bare THEN [NoVM EXCEPT !.state = "pending"]
                                 ELSE vm[v]]

\* A task fails, or the operator interrupts: the rest is not done.
Abort(r) ==
    /\ run[r].pc \notin {"idle", "over"}
    /\ Leave(r)
    /\ run' = [run EXCEPT ![r] = Over]
    /\ UNCHANGED <<caching, net, cached, config>>
-----------------------------------------------------------------------------
(* aws-fabric-cluster-starter *)

\* Mutant: the deploy is crushed only if machines of the last group exist.
CheckClusterLast(r) ==
    /\ run[r].pc = "check" /\ run[r].conf # NIL
    /\ LET exists == \E v \in TagGroup(run[r].inv, run[r].cluster) :
                        vm[v].group = "business_nodes"
           when == WhenExists[run[r].conf]
       IN  /\ ~(exists /\ when = "crush")
           /\ run' = [run EXCEPT ![r].pc = "create", ![r].step = 1,
                                 ![r].skip = exists /\ when = "skip_starter"]
    /\ UNCHANGED <<caching, vm, net, cached, config, missed>>

\* With crush, an existing cluster fails the play (Abort).
CheckCluster(r) ==
    /\ run[r].pc = "check" /\ run[r].conf # NIL
    /\ LET exists == ClusterExists(run[r].inv, run[r].cluster)
           when == WhenExists[run[r].conf]
       IN  /\ ~(exists /\ when = "crush")
           /\ run' = [run EXCEPT ![r].pc = "create", ![r].step = 1,
                                 ![r].skip = exists /\ when = "skip_starter"]
    /\ UNCHANGED <<caching, vm, net, cached, config, missed>>

\* The tasks that do not look at skip_starter.
Unguarded == {"business_nodes"}

Task(r) == Groups[run[r].step]

\* The machines the task of the run has still to ask for.
ToLaunch(r) ==
    IF run[r].skip /\ Task(r) \notin Unguarded THEN 0
    ELSE Count[run[r].conf][Task(r)] - run[r].done

\* Those of the next request: one of a loop, or all.
Batch(r) == IF Task(r) \in Looped THEN 1 ELSE ToLaunch(r)

\* The run is in a task of the starter and the machines it has launched are up.
Creating(r) ==
    /\ run[r].pc = "create" /\ run[r].step <= Len(Groups)
    /\ run[r].wait \subseteq Running

\* Mutant: the machines do not get the cluster's tag.
LaunchItemUntagged(r) ==
    /\ Creating(r) /\ ToLaunch(r) > 0
    /\ \E new \in SUBSET {v \in VM : vm[v].state = "none"} :
          /\ Cardinality(new) = Batch(r)
          /\ vm' = [v \in VM |-> IF v \in new
                                 THEN [state |-> "pending", group |-> Task(r), cluster |-> NIL]
                                 ELSE vm[v]]
          /\ run' = [run EXCEPT ![r].done = @ + Batch(r), ![r].wait = new]
    /\ UNCHANGED <<caching, net, cached, config, missed>>

\* One request of an ec2 task: its machines are launched and tagged, and the
\* task waits until they run.
LaunchItem(r) ==
    /\ Creating(r) /\ ToLaunch(r) > 0
    /\ \E new \in SUBSET {v \in VM : vm[v].state = "none"} :
          /\ Cardinality(new) = Batch(r)
          /\ vm' = [v \in VM |-> IF v \in new
                                 THEN [state |-> "pending", group |-> Task(r),
                                       cluster |-> run[r].cluster]
                                 ELSE vm[v]]
          /\ run' = [run EXCEPT ![r].done = @ + Batch(r), ![r].wait = new]
    /\ UNCHANGED <<caching, net, cached, config, missed>>

\* EC2 refuses the request; a loop goes on with its next item.
RefuseItem(r) ==
    /\ Creating(r) /\ ToLaunch(r) > 0
    /\ run' = [run EXCEPT ![r].done = @ + Batch(r), ![r].failed = TRUE]
    /\ UNCHANGED <<caching, vm, net, cached, config, missed>>

\* They do not come up in time, or cannot be tagged; a loop goes on then, too.
FailItem(r) ==
    /\ run[r].pc = "create" /\ ~(run[r].wait \subseteq Running)
    /\ Leave(r)
    /\ run' = [run EXCEPT ![r].wait = {}, ![r].failed = TRUE]
    /\ UNCHANGED <<caching, net, cached, config>>

\* The task is done; if one of its items failed, so did the play.
EndTask(r) ==
    /\ Creating(r) /\ ToLaunch(r) <= 0
    /\ run' = [run EXCEPT ![r] = IF run[r].failed THEN Over
                                ELSE [run[r] EXCEPT !.step = @ + 1, !.done = 0, !.wait = {}]]
    /\ UNCHANGED <<caching, vm, net, cached, config, missed>>

\* The machines answer on ssh; the inventory is read again.
RefreshInventory(r) ==
    /\ run[r].pc = "create" /\ run[r].step > Len(Groups)
    /\ \E inv \in SUBSET VM :
          /\ Inventory(r, inv)
          /\ run' = [run EXCEPT ![r].pc = "load", ![r].inv = inv]
    /\ UNCHANGED <<caching, vm, net, config>>
-----------------------------------------------------------------------------
(* aws-fabric-hosts-loader, and what is done to the hosts it loads *)

\* The host groups are filled from tag_project_group_*, whatever the cluster;
\* a group that is needed and not there fails the play.
LoadHosts(r) ==
    /\ run[r].pc = "load" /\ run[r].conf # NIL
    /\ \E inv \in SUBSET VM :
          /\ Inventory(r, inv)
          /\ \A g \in GroupSet : Count[run[r].conf][g] > 0
                                 => \E v \in inv : vm[v].group = g
          /\ run' = [run EXCEPT ![r].inv = inv, ![r].pc =
                       IF run[r].mode = "restart" THEN "cleanup" ELSE "deploy"]
    /\ UNCHANGED <<caching, vm, net, config>>

\* Hosts are named orderer<index>: of those with one index in two clusters,
\* the last one loaded is deployed.
Shadowed(inv) ==
    {v \in inv : /\ vm[v].group = "orderers"
                 /\ \E w \in inv : /\ vm[w].group = "orderers"
                                   /\ vm[w].cluster # vm[v].cluster}

\* The hosts a play reaches, made nodes of cluster c (none, when it cleans up).
SetUp(inv, c) ==
    \E hosts \in SUBSET (inv \intersect Running) :
       /\ (inv \intersect Running) \ Shadowed(inv) \subseteq hosts
       /\ net' = [v \in VM |-> IF v \in hosts THEN c ELSE net[v]]

\* fabric-network and business-layer; a test goes on to kill the cluster.
DeployNetwork(r) ==
    /\ run[r].pc = "deploy"
    /\ SetUp(run[r].inv, run[r].cluster)
    /\ run' = [run EXCEPT ![r] = IF run[r].mode = "test" THEN [@ EXCEPT !.pc = "kill"]
                                 ELSE Over]
    /\ UNCHANGED <<caching, vm, cached, config, missed>>

\* fabric-network-cleanup, before the network is deployed again.
CleanNetwork(r) ==
    /\ run[r].pc = "cleanup"
    /\ SetUp(run[r].inv, NIL)
    /\ run' = [run EXCEPT ![r].pc = "deploy"]
    /\ UNCHANGED <<caching, vm, cached, config, missed>>
-----------------------------------------------------------------------------
(* aws-cluster-killer *)

\* Mutant: the cluster is the one whose configuration the run found.
KillSetByConfig(r) == TagGroup(run[r].inv, run[r].conf)

\* The machines the run would terminate, as far as it knows of any.
KillSet(r) == TagGroup(run[r].inv, run[r].cluster)

KillCluster(r) ==
    /\ run[r].pc = "kill"
    /\ vm' = [v \in VM |-> IF v \in KillSet(r) THEN [vm[v] EXCEPT !.state = "gone"]
                           ELSE vm[v]]
    /\ run' = [run EXCEPT ![r] = Over]
    /\ missed' = missed \ KillSet(r)
    /\ UNCHANGED <<caching, net, cached, config>>

Next ==
    \/ CacheExpires
    \/ \E v \in VM : BootUp(v)
    \/ \E r \in Run :
          \/ \E mode \in {"start", "restart", "test", "kill"}, c \in Cluster :
                RemoveConfig(r, mode, c)
          \/ CopyConfig(r) \/ LaunchPlaybook(r) \/ Abort(r)
          \/ CheckCluster(r) \/ LaunchItem(r) \/ RefuseItem(r) \/ FailItem(r)
          \/ EndTask(r) \/ RefreshInventory(r) \/ LoadHosts(r)
          \/ DeployNetwork(r) \/ CleanNetwork(r) \/ KillCluster(r)

Spec == Init /\ [][Next]_vars
-----------------------------------------------------------------------------
(* Properties *)

Machine == [state : {"none", "pending", "running", "gone"},
            cluster : Cluster \union {NIL}, group : GroupSet \union {NIL}]
RunState == [pc : {"idle", "copy", "launch", "check", "create", "load", "deploy",
                   "cleanup", "kill", "over"},
             mode : {"start", "restart", "test", "kill", NIL},
             cluster : Cluster \union {NIL}, conf : Cluster \union {NIL},
             inv : SUBSET VM, skip : BOOLEAN, failed : BOOLEAN,
             step : 0..Len(Groups) + 1, done : Nat, wait : SUBSET VM]

\* The type invariant: an inventory, cached or held by a run, names only
\* machines that were created, and only those that a run left have no tags.
TypeOK ==
    /\ vm \in [VM -> Machine]
    /\ net \in [VM -> Cluster \union {NIL}]
    /\ caching \in BOOLEAN
    /\ cached \in (SUBSET VM) \union {NIL}
    /\ config \in Cluster \union {NIL}
    /\ run \in [Run -> RunState]
    /\ missed \subseteq VM
    /\ \A v \in VM : vm[v].cluster = NIL => vm[v].state = "none" \/ v \in missed
    /\ \A r \in Run : /\ \A v \in run[r].inv : vm[v].state # "none"
                      /\ run[r].pc = "create" => run[r].conf # NIL
    /\ cached # NIL => \A v \in cached : vm[v].state # "none"

Members(c, g) ==
    {v \in Pending \union Running : vm[v].cluster = c /\ vm[v].group = g}

\* The configuration of c keeps group g from being created for an existing cluster.
Guarded(c, g) == \/ WhenExists[c] = "crush"
                 \/ WhenExists[c] = "skip_starter" /\ g \notin Unguarded

\* crush and skip_starter keep a cluster from being created twice: however
\* starts, tests and kills of it fail and follow each other, and while runs of
\* other clusters change the shared files, it has no more machines of a guarded
\* group than one configuration asks for - its own, or that of the cluster whose
\* run has overwritten the file.  The exceptions are what the code gives no
\* protection from: machines that an earlier run launched and did not wait for,
\* and machines that were too young for the cached list a run was given.
\* (Without two runs of one cluster at a time.)
CreatedOnce ==
    \A c \in Cluster, g \in GroupSet :
       (\A d \in Cluster : Guarded(d, g))
       => \E d \in Cluster : Cardinality(Members(c, g) \ missed) <= Count[d][g]

\* A run that has come to its kill step, at once or at the end of a test,
\* terminates every machine of its cluster, with the same two exceptions, and
\* never one of another cluster.
KillsExactly ==
    \A r \in Run : run[r].pc = "kill" =>
       /\ \A v \in Pending \union Running :
             vm[v].cluster = run[r].cluster => v \in KillSet(r) \union missed
       /\ \A v \in KillSet(r) : vm[v].cluster = run[r].cluster

-----------------------------------------------------------------------------
(* What the repository says and the code does not keep to; the README names the
   constants under which TLC shows it. *)

\* aws-cluster-killer.yaml, line 2: "Kills EC2 cluster with tagged cluster_id".
\* A run at its kill step terminates every machine of the cluster that runs.
KillsAll ==
    \A r \in Run : run[r].pc = "kill" =>
       \A v \in Running : vm[v].cluster = run[r].cluster => v \in KillSet(r)

\* group_vars/all/config.yaml, line 13: with crush, an existing cluster is there
\* "to stop whole deployment".  A start that goes on to create machines has none.
CrushStops ==
    \A r \in Run :
       run[r].pc = "create" /\ run[r].step = 1 /\ run[r].done = 0 /\ WhenExists[run[r].conf] = "crush"
       => \A v \in Running : vm[v].cluster # run[r].cluster

\* ops/README.md: a cluster is started "with commands of the form ./ops-cli ...
\* -c Blockchain-controller1", and killed with the same id and -k.
KillFinds ==
    \A r \in Run :
       /\ run[r].pc = "kill"
       /\ \E v \in run[r].inv : vm[v].cluster = run[r].cluster
       => KillSet(r) # {}

\* ops/README.md: "cluster id, used to differ clusters between each other".  A
\* machine is never a node of another cluster than the one it was created for.
NodesAreOwn ==
    \A v \in VM : net[v] # NIL => net[v] = vm[v].cluster

\* ops/README.md: "Cluster specified by the configuration file name without the
\* extension".  A cluster is created from its own configuration.
CreatedAsConfigured ==
    \A r \in Run : run[r].pc = "create" => run[r].conf = run[r].cluster

\* config.yaml: "skip_starter ... skip aws starter".  A start that skips the
\* starter creates no machine.
SkipCreatesNothing ==
    [][\A r \in Run : run[r].pc = "create" /\ run[r].skip /\ run'[r].done > run[r].done
                      => vm' = vm]_vars
=============================================================================
