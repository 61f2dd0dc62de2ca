----------------------- MODULE ClusterLifecycle_proofs -----------------------
(***************************************************************************)
(* What ClusterLifecycle guarantees for every number of runs, clusters,    *)
(* machines and groups, and every configuration of the clusters.           *)
(***************************************************************************)
EXTENDS ClusterLifecycle, TLAPS, FiniteSetTheorems

-----------------------------------------------------------------------------
(* The invariants                                                          *)

\* The type invariant with what it takes: a run under way is one of a cluster.
TypeInv ==
    /\ TypeOK
    /\ \A r \in Run : /\ run[r].pc \notin {"idle", "over"} => run[r].cluster \in Cluster
                      /\ run[r].pc \in {"idle", "over"} => run[r].cluster = NIL
                      /\ run[r].pc = "create" => run[r].step >= 1

\* Two runs that are under way are of two clusters.
Apart ==
    \A q, r \in Run : run[q].cluster = run[r].cluster /\ run[r].cluster # NIL => q = r

\* The run is in a task that creates machines, and waits for machine v.
Awaits(r, v) ==
    /\ run[r].pc = "create" /\ run[r].step <= Len(Groups) /\ v \in run[r].wait
    /\ run[r].cluster = vm[v].cluster

\* A machine that is not up yet has its run waiting for it, or was left.
Awaited == \A v \in Pending \ missed : \E r \in Run : Awaits(r, v)

\* What a run that is to decide, clean up, deploy or kill knows: all the machines
\* its cluster has, but for those missed.
Deciding == {"check", "cleanup", "deploy", "kill"}
Alive == Pending \union Running
Knows ==
    \A r \in Run : run[r].pc \in Deciding =>
       \A v \in Alive : vm[v].cluster = run[r].cluster => v \in run[r].inv \/ v \in missed

\* The group that a run creates in step k, if it does not skip it.
AllGuarded(g) == \A d \in Cluster : Guarded(d, g)
ToCreate(r, k) ==
    /\ run[r].pc = "create" /\ k >= run[r].step
    /\ AllGuarded(Groups[k]) /\ ~(run[r].skip /\ Groups[k] \notin Unguarded)

\* The machines of a group that count.
Known(c, g) == Members(c, g) \ missed

\* A guarded group that a run still has to create has none yet, and the one it is
\* creating no more than it has asked for.
Fresh ==
    \A r \in Run : \A k \in 1..Len(Groups) : ToCreate(r, k) =>
       /\ k # run[r].step => Known(run[r].cluster, Groups[k]) = {}
       /\ k = run[r].step => Cardinality(Known(run[r].cluster, Groups[k])) <= run[r].done

KillInv == Apart /\ Awaited /\ Knows
OnceInv == KillInv /\ Fresh /\ CreatedOnce
-----------------------------------------------------------------------------
(* Type correctness                                                        *)

\* The steps of one run.
RunStep(r) ==
    \/ \E mode \in {"start", "restart", "test", "kill"}, c \in Cluster :
          RemoveConfig(r, mode, c)
    \/ CopyConfig(r) \/ LaunchPlaybook(r) \/ Abort(r)
    \/ CheckCluster(r) \/ LaunchItem(r) \/ RefuseItem(r) \/ FailItem(r)
    \/ EndTask(r) \/ RefreshInventory(r) \/ LoadHosts(r)
    \/ DeployNetwork(r) \/ CleanNetwork(r) \/ KillCluster(r)

LEMMA Steps ==
    Next <=> CacheExpires \/ (\E v \in VM : BootUp(v)) \/ (\E r \in Run : RunStep(r))
  BY DEF Next, RunStep

\* A record a run may have.
GoodRun(x) ==
    /\ x \in RunState
    /\ \A v \in x.inv : vm[v].state # "none"
    /\ x.pc \notin {"idle", "over"} => x.cluster \in Cluster
    /\ x.pc \in {"idle", "over"} => x.cluster = NIL
    /\ x.pc = "create" => x.conf # NIL /\ x.step >= 1

LEMMA Good ==
    ASSUME TypeInv
    PROVE  /\ run \in [Run -> RunState] /\ vm \in [VM -> Machine] /\ missed \subseteq VM
           /\ \A r \in Run : GoodRun(run[r])
           /\ \A v \in VM : vm[v].cluster = NIL => vm[v].state = "none" \/ v \in missed
  BY DEF TypeInv, TypeOK, GoodRun

LEMMA GroupsAre ==
    /\ Len(Groups) \in Nat /\ NIL \notin Cluster /\ IsFiniteSet(VM)
    /\ \A k \in 1..Len(Groups) : Groups[k] \in GroupSet
    /\ \A j, k \in 1..Len(Groups) : Groups[j] = Groups[k] => j = k
    /\ Count \in [Cluster -> [GroupSet -> Nat]]
  BY LifecycleAssumption

LEMMA IdleType ==
    /\ GoodRun(Idle) /\ Idle.pc = "idle" /\ Idle.cluster = NIL /\ Idle.inv = {}
    /\ GoodRun(Over) /\ Over.pc = "over" /\ Over.cluster = NIL /\ Over.inv = {}
  <1>1. Len(Groups) \in Nat
    BY GroupsAre
  <1>2. Idle \in RunState /\ Over \in RunState
    <2>1. 0 \in 0..Len(Groups) + 1
      BY <1>1
    <2>2. Idle \in RunState
      BY <2>1 DEF Idle, RunState
    <2>3. QED
      BY <2>2 DEF Over, RunState
  <1>3. QED
    BY <1>2 DEF GoodRun, Idle, Over

\* What ansible learns of the machines: some that were created; those of the run's
\* cluster that run and are not among them are missed.
LEMMA InventoryIs ==
    ASSUME TypeInv, NEW r \in Run, NEW inv \in SUBSET VM, Inventory(r, inv)
    PROVE  /\ \A v \in inv : vm[v].state # "none"
           /\ cached' \in (SUBSET VM) \union {NIL}
           /\ cached' # NIL => \A v \in cached' : vm[v].state # "none"
           /\ missed \subseteq missed' /\ missed' \subseteq VM
           /\ \A v \in Running : vm[v].cluster = run[r].cluster => v \in inv \/ v \in missed'
  <1>1. /\ cached \in (SUBSET VM) \union {NIL} /\ missed \subseteq VM
        /\ cached # NIL => \A v \in cached : vm[v].state # "none"
    BY DEF TypeInv, TypeOK
  <1>2. Running \subseteq VM /\ \A v \in Running : vm[v].state # "none"
    BY DEF Running
  <1>3. QED
    BY <1>1, <1>2 DEF Inventory

\* What the steps of a run leave alone.
LEMMA Writers ==
    ASSUME NEW r \in Run, RunStep(r)
    PROVE  /\ caching' = caching
           /\ LaunchItem(r) \/ Leave(r) \/ KillCluster(r) \/ vm' = vm
           /\ (\E inv \in SUBSET VM : Inventory(r, inv)) \/ cached' = cached
           /\ \/ \E inv \in SUBSET VM : Inventory(r, inv)
              \/ Leave(r) \/ KillCluster(r) \/ missed' = missed
           /\ DeployNetwork(r) \/ CleanNetwork(r) \/ net' = net
           /\ config' \in {NIL, config, run[r].cluster}
  BY DEF RunStep, RemoveConfig, CopyConfig, LaunchPlaybook, Abort, CheckCluster,
     LaunchItem, RefuseItem, FailItem, EndTask, RefreshInventory, LoadHosts,
     DeployNetwork, CleanNetwork, KillCluster

\* A request of the starter is for a part of what the task has still to launch.
LEMMA Request ==
    ASSUME TypeInv, NEW r \in Run, Creating(r), ToLaunch(r) > 0
    PROVE  /\ run[r].pc = "create" /\ run[r].cluster \in Cluster /\ run[r].conf \in Cluster
           /\ run[r].step \in 1..Len(Groups) /\ Task(r) \in GroupSet
           /\ run[r].done \in Nat /\ Batch(r) \in Nat /\ Batch(r) > 0 /\ ToLaunch(r) \in Int
           /\ run[r].done + Batch(r) <= Count[run[r].conf][Task(r)]
           /\ ~(run[r].skip /\ Task(r) \notin Unguarded)
  <1>1. /\ run[r].pc = "create" /\ run[r].step <= Len(Groups)
        /\ run[r].step \in 0..Len(Groups) + 1 /\ run[r].step >= 1
        /\ run[r].cluster \in Cluster /\ run[r].conf \in Cluster /\ run[r].done \in Nat
    BY Good DEF Creating, GoodRun, RunState
  <1>2. run[r].step \in 1..Len(Groups) /\ Groups[run[r].step] \in GroupSet
    BY <1>1, GroupsAre
  <1>3. Task(r) \in GroupSet /\ Count[run[r].conf][Task(r)] \in Nat
    BY <1>1, <1>2, GroupsAre DEF Task
  <1>4. /\ ~(run[r].skip /\ Task(r) \notin Unguarded)
        /\ ToLaunch(r) = Count[run[r].conf][Task(r)] - run[r].done
        /\ ToLaunch(r) \in Int
    BY <1>1, <1>3 DEF ToLaunch
  <1>5. /\ Batch(r) \in Nat /\ Batch(r) > 0
        /\ run[r].done + Batch(r) <= Count[run[r].conf][Task(r)]
    <2>1. CASE Task(r) \in Looped
      BY <1>1, <1>3, <1>4, <2>1 DEF Batch
    <2>2. CASE Task(r) \notin Looped
      BY <1>1, <1>3, <1>4, <2>2 DEF Batch
    <2>3. QED
      BY <2>1, <2>2
  <1>6. QED
    BY <1>1, <1>2, <1>3, <1>4, <1>5

\* Each step of a run gives it such a record.
LEMMA RunType ==
    ASSUME TypeInv, NEW r \in Run, RunStep(r)
    PROVE  \E x : GoodRun(x) /\ run' = [run EXCEPT ![r] = x]
  <1>0. /\ run \in [Run -> RunState] /\ GoodRun(run[r]) /\ run[r] \in RunState
        /\ Len(Groups) \in Nat /\ config \in Cluster \union {NIL}
        /\ run[r].step \in 0..Len(Groups) + 1 /\ run[r].conf \in Cluster \union {NIL}
        /\ run[r].done \in Nat
    BY Good, GroupsAre DEF TypeInv, TypeOK, RunState
  <1>1. CASE run' = [run EXCEPT ![r] = Over]
    BY <1>1, IdleType
  <1>2. ASSUME NEW mode \in {"start", "restart", "test", "kill"}, NEW c \in Cluster,
               RemoveConfig(r, mode, c)
        PROVE  \E x : GoodRun(x) /\ run' = [run EXCEPT ![r] = x]
    <2> DEFINE x == [Idle EXCEPT !.pc = "copy", !.mode = mode, !.cluster = c]
    <2>1. x \in RunState /\ x.pc = "copy" /\ x.cluster = c /\ x.inv = {}
      <3>1. Idle \in RunState /\ Idle.inv = {}
        BY IdleType DEF GoodRun
      <3>2. QED
        BY <3>1 DEF RunState
    <2>2. GoodRun(x)
      BY <2>1 DEF GoodRun
    <2>3. QED
      BY <1>2, <2>2 DEF RemoveConfig
  <1>3. ASSUME NEW l \in {"launch", "deploy", "kill"},
               run[r].pc \notin {"idle", "over"},
               run' = [run EXCEPT ![r] = [run[r] EXCEPT !.pc = l]]
        PROVE  \E x : GoodRun(x) /\ run' = [run EXCEPT ![r] = x]
    <2>1. GoodRun([run[r] EXCEPT !.pc = l])
      BY <1>0, <1>3 DEF GoodRun, RunState
    <2>2. QED
      BY <1>3, <2>1
  <1>4. ASSUME NEW inv \in SUBSET VM, Inventory(r, inv), run[r].pc \notin {"idle", "over"},
               NEW l \in {"load", "kill", "check", "cleanup", "deploy"},
               NEW conf \in Cluster \union {NIL},
               run' = [run EXCEPT ![r] = [run[r] EXCEPT !.pc = l, !.conf = conf, !.inv = inv]]
        PROVE  \E x : GoodRun(x) /\ run' = [run EXCEPT ![r] = x]
    <2>1. \A v \in inv : vm[v].state # "none"
      BY <1>4, InventoryIs
    <2>2. GoodRun([run[r] EXCEPT !.pc = l, !.conf = conf, !.inv = inv])
      BY <1>0, <1>4, <2>1 DEF GoodRun, RunState
    <2>3. QED
      BY <1>4, <2>2
  <1>a. ASSUME NEW s \in 1..Len(Groups) + 1, NEW d \in Nat, NEW f \in BOOLEAN,
               NEW w \in SUBSET VM, run[r].pc = "create",
               run' = [run EXCEPT ![r] = [run[r] EXCEPT !.step = s, !.done = d,
                                                        !.failed = f, !.wait = w]]
        PROVE  \E x : GoodRun(x) /\ run' = [run EXCEPT ![r] = x]
    <2> DEFINE x == [run[r] EXCEPT !.step = s, !.done = d, !.failed = f, !.wait = w]
    <2>1. s \in 0..Len(Groups) + 1 /\ s >= 1
      BY <1>0
    <2>2. x \in RunState /\ x.pc = "create" /\ x.step = s
          /\ x.conf = run[r].conf /\ x.inv = run[r].inv /\ x.cluster = run[r].cluster
      BY <1>0, <1>a, <2>1 DEF RunState
    <2>3. GoodRun(x)
      BY <1>0, <1>a, <2>1, <2>2 DEF GoodRun
    <2>4. QED
      BY <1>a, <2>3
  <1>5. CASE LaunchPlaybook(r)
    <2>1. PICK inv \in SUBSET VM :
             /\ Inventory(r, inv) /\ run[r].pc = "launch"
             /\ run' = [run EXCEPT ![r].pc = First(run[r].mode), ![r].conf = config,
                                   ![r].inv = inv]
      BY <1>5 DEF LaunchPlaybook
    <2>2. First(run[r].mode) \in {"load", "kill", "check"}
      BY DEF First
    <2>3. run' = [run EXCEPT ![r] = [run[r] EXCEPT !.pc = First(run[r].mode),
                                                   !.conf = config, !.inv = inv]]
      BY <1>0, <2>1
    <2>4. QED
      BY <1>0, <1>4, <2>1, <2>2, <2>3
  <1>6. CASE CheckCluster(r)
    <2>1. PICK skip \in BOOLEAN :
             run' = [run EXCEPT ![r] = [run[r] EXCEPT !.pc = "create", !.step = 1, !.skip = skip]]
      BY <1>0, <1>6 DEF CheckCluster, ClusterExists
    <2>2. run[r].pc = "check" /\ run[r].conf # NIL
      BY <1>6 DEF CheckCluster
    <2>3. GoodRun([run[r] EXCEPT !.pc = "create", !.step = 1, !.skip = skip])
      <3> DEFINE x == [run[r] EXCEPT !.pc = "create", !.step = 1, !.skip = skip]
      <3>1. 1 \in 0..Len(Groups) + 1
        BY <1>0
      <3>2. x \in RunState /\ x.pc = "create" /\ x.step = 1
            /\ x.conf = run[r].conf /\ x.inv = run[r].inv /\ x.cluster = run[r].cluster
        BY <1>0, <3>1 DEF RunState
      <3>3. QED
        BY <1>0, <2>2, <3>2 DEF GoodRun
    <2>4. QED
      BY <2>1, <2>3
  <1>7. CASE LaunchItem(r) \/ RefuseItem(r)
    <2>1. Creating(r) /\ ToLaunch(r) > 0
      BY <1>7 DEF LaunchItem, RefuseItem
    <2>2. /\ run[r].pc = "create" /\ run[r].step \in 1..Len(Groups) + 1
          /\ run[r].done + Batch(r) \in Nat
      BY <2>1, Request, GroupsAre
    <2>3. /\ run[r].failed \in BOOLEAN /\ run[r].wait \in SUBSET VM
      BY <1>0 DEF RunState
    <2>4. PICK f \in BOOLEAN, w \in SUBSET VM :
             run' = [run EXCEPT ![r] = [run[r] EXCEPT !.step = run[r].step,
                                !.done = run[r].done + Batch(r), !.failed = f, !.wait = w]]
      <3>1. CASE LaunchItem(r)
        <4>1. PICK new \in SUBSET VM :
                run' = [run EXCEPT ![r].done = @ + Batch(r), ![r].wait = new]
          BY <3>1 DEF LaunchItem
        <4>2. run' = [run EXCEPT ![r] = [run[r] EXCEPT !.step = run[r].step,
                         !.done = run[r].done + Batch(r), !.failed = run[r].failed, !.wait = new]]
          BY <1>0, <4>1 DEF RunState
        <4>3. QED
          BY <2>3, <4>2
      <3>2. CASE RefuseItem(r)
        <4>1. run' = [run EXCEPT ![r].done = @ + Batch(r), ![r].failed = TRUE]
          BY <3>2 DEF RefuseItem
        <4>2. run' = [run EXCEPT ![r] = [run[r] EXCEPT !.step = run[r].step,
                         !.done = run[r].done + Batch(r), !.failed = TRUE, !.wait = run[r].wait]]
          BY <1>0, <4>1 DEF RunState
        <4>3. QED
          BY <2>3, <4>2
      <3>3. QED
        BY <1>7, <3>1, <3>2
    <2>5. QED
      BY <1>a, <2>2, <2>4
  <1>8. CASE FailItem(r)
    <2>1. /\ run[r].pc = "create" /\ run[r].step \in 1..Len(Groups) + 1
      BY <1>0, <1>8 DEF FailItem, GoodRun
    <2>2. run' = [run EXCEPT ![r].wait = {}, ![r].failed = TRUE]
      BY <1>8 DEF FailItem
    <2>3. run' = [run EXCEPT ![r] = [run[r] EXCEPT !.step = run[r].step,
                     !.done = run[r].done, !.failed = TRUE, !.wait = {}]]
      BY <1>0, <2>2 DEF RunState
    <2>4. TRUE \in BOOLEAN /\ {} \in SUBSET VM /\ run[r].done \in Nat
      BY <1>0
    <2>5. QED
      BY <1>a, <2>1, <2>3, <2>4
  <1>9. CASE EndTask(r)
    <2>1. CASE run[r].failed
      BY <1>1, <1>9, <2>1 DEF EndTask
    <2>2. CASE ~run[r].failed
      <3>1. /\ run[r].pc = "create" /\ run[r].step <= Len(Groups)
            /\ run' = [run EXCEPT ![r] = [run[r] EXCEPT !.step = @ + 1, !.done = 0, !.wait = {}]]
        BY <1>9, <2>2 DEF EndTask, Creating
      <3>2. run[r].step + 1 \in 1..Len(Groups) + 1 /\ run[r].failed \in BOOLEAN
        BY <1>0, <3>1 DEF GoodRun, RunState
      <3>3. PICK s \in 1..Len(Groups) + 1, d \in Nat, f \in BOOLEAN, w \in SUBSET VM :
               run' = [run EXCEPT ![r] = [run[r] EXCEPT !.step = s, !.done = d,
                                                        !.failed = f, !.wait = w]]
        <4>1. run' = [run EXCEPT ![r] = [run[r] EXCEPT !.step = run[r].step + 1, !.done = 0,
                                              !.failed = run[r].failed, !.wait = {}]]
          BY <1>0, <3>1 DEF RunState
        <4>2. QED
          BY <3>2, <4>1
      <3>4. run[r].pc = "create"
        BY <3>1
      <3>5. QED
        BY <1>a, <3>3, <3>4
    <2>3. QED
      BY <2>1, <2>2
  <1>10. CASE RefreshInventory(r)
    <2>1. PICK inv \in SUBSET VM :
             /\ Inventory(r, inv) /\ run[r].pc = "create"
             /\ run' = [run EXCEPT ![r].pc = "load", ![r].inv = inv]
      BY <1>10 DEF RefreshInventory
    <2>2. run' = [run EXCEPT ![r] = [run[r] EXCEPT !.pc = "load", !.conf = run[r].conf,
                                                   !.inv = inv]]
      BY <1>0, <2>1 DEF RunState
    <2>3. run[r].pc \notin {"idle", "over"}
      BY <2>1
    <2>4. QED
      BY <1>0, <1>4, <2>1, <2>2, <2>3
  <1>11. CASE LoadHosts(r)
    <2>1. PICK inv \in SUBSET VM, l \in {"cleanup", "deploy"} :
             /\ Inventory(r, inv) /\ run[r].pc = "load"
             /\ run' = [run EXCEPT ![r].inv = inv, ![r].pc = l]
      BY <1>11 DEF LoadHosts
    <2>2. run' = [run EXCEPT ![r] = [run[r] EXCEPT !.pc = l, !.conf = run[r].conf,
                                                   !.inv = inv]]
      BY <1>0, <2>1 DEF RunState
    <2>3. run[r].pc \notin {"idle", "over"}
      BY <2>1
    <2>4. QED
      BY <1>0, <1>4, <2>1, <2>2, <2>3
  <1>12. CASE DeployNetwork(r)
    BY <1>0, <1>1, <1>3, <1>12 DEF DeployNetwork
  <1>13. CASE CopyConfig(r) \/ CleanNetwork(r)
    BY <1>0, <1>3, <1>13 DEF CopyConfig, CleanNetwork
  <1>14. QED
    BY <1>1, <1>2, <1>5, <1>6, <1>7, <1>8, <1>9, <1>10, <1>11, <1>12, <1>13
    DEF RunStep, Abort, KillCluster

\* The machines a run terminates were created.
LEMMA Killed ==
    ASSUME TypeInv, NEW r \in Run
    PROVE  KillSet(r) \subseteq run[r].inv /\ \A v \in KillSet(r) :
              v \in VM /\ vm[v].state # "none" /\ vm[v].cluster \in Cluster
  <1>1. run[r].inv \subseteq VM /\ \A v \in run[r].inv : vm[v].state # "none"
    BY Good DEF GoodRun, RunState
  <1>2. KillSet(r) \subseteq run[r].inv /\ \A v \in KillSet(r) : vm[v].cluster # NIL
    BY DEF KillSet, TagGroup
  <1>3. ASSUME NEW v \in KillSet(r)
        PROVE  v \in VM /\ vm[v].state # "none" /\ vm[v].cluster \in Cluster
    <2>1. v \in VM /\ vm[v].state # "none" /\ vm[v].cluster # NIL
      BY <1>1, <1>2
    <2>2. QED
      BY <2>1, Good DEF Machine
  <1>4. QED
    BY <1>2, <1>3

\* What a step of a run does to a machine: nothing; it launches it; it leaves it
\* behind; or it terminates it.
Kept(v) == vm'[v] = vm[v] /\ (v \in missed => v \in missed')
Launched(r, v) ==
    /\ LaunchItem(r) /\ vm[v].state = "none" /\ v \in run'[r].wait
    /\ run[r].cluster \in Cluster /\ Task(r) \in GroupSet
    /\ vm'[v] = [state |-> "pending", group |-> Task(r), cluster |-> run[r].cluster]
Bared(v) ==
    /\ vm[v].state = "pending" /\ v \in missed'
    /\ vm'[v] = [NoVM EXCEPT !.state = "pending"]
Terminated(v) ==
    /\ vm[v].state # "none" /\ vm[v].cluster \in Cluster
    /\ vm'[v] = [vm[v] EXCEPT !.state = "gone"]

LEMMA Machines ==
    ASSUME TypeInv, NEW r \in Run, RunStep(r)
    PROVE  /\ vm' = [v \in VM |-> vm'[v]] /\ missed' \subseteq VM
           /\ \A v \in VM : Kept(v) \/ Launched(r, v) \/ Bared(v) \/ Terminated(v)
  <1>0. vm \in [VM -> Machine] /\ run \in [Run -> RunState] /\ missed \subseteq VM
    BY Good
  <1>1. CASE LaunchItem(r)
    <2>1. run[r].cluster \in Cluster /\ Task(r) \in GroupSet
      BY <1>1, Request DEF LaunchItem
    <2>2. PICK new \in SUBSET {v \in VM : vm[v].state = "none"} :
             /\ vm' = [v \in VM |-> IF v \in new
                                    THEN [state |-> "pending", group |-> Task(r),
                                          cluster |-> run[r].cluster]
                                    ELSE vm[v]]
             /\ run' = [run EXCEPT ![r].done = @ + Batch(r), ![r].wait = new]
      BY <1>1 DEF LaunchItem
    <2>3. run'[r].wait = new /\ missed' = missed
      BY <1>0, <1>1, <2>2 DEF LaunchItem, RunState
    <2>4. QED
      BY <1>0, <1>1, <2>1, <2>2, <2>3 DEF Kept, Launched
  <1>2. CASE Leave(r)
    <2> DEFINE late == run[r].wait \intersect Pending
    <2>1. late \subseteq VM /\ missed' = missed \union late
      BY <1>2 DEF Leave, Pending
    <2>2. PICK bare \in {{}, late} :
             vm' = [v \in VM |-> IF v \in bare THEN [NoVM EXCEPT !.state = "pending"]
                                 ELSE vm[v]]
      BY <1>2 DEF Leave
    <2>3. ASSUME NEW v \in VM
          PROVE  Kept(v) \/ Bared(v)
      <3>1. CASE v \in bare
        BY <2>1, <2>2, <3>1 DEF Bared, Pending
      <3>2. CASE v \notin bare
        BY <2>1, <2>2, <3>2 DEF Kept
      <3>3. QED
        BY <3>1, <3>2
    <2>4. vm' = [v \in VM |-> vm'[v]] /\ missed' \subseteq VM
      BY <1>0, <2>1, <2>2
    <2>5. QED
      BY <2>3, <2>4
  <1>3. CASE KillCluster(r)
    <2>1. /\ vm' = [v \in VM |-> IF v \in KillSet(r) THEN [vm[v] EXCEPT !.state = "gone"]
                                 ELSE vm[v]]
          /\ missed' = missed \ KillSet(r)
      BY <1>3 DEF KillCluster
    <2>2. ASSUME NEW v \in VM
          PROVE  Kept(v) \/ Terminated(v)
      <3>1. CASE v \in KillSet(r)
        BY <2>1, <3>1, Killed DEF Terminated
      <3>2. CASE v \notin KillSet(r)
        BY <2>1, <3>2 DEF Kept
      <3>3. QED
        BY <3>1, <3>2
    <2>3. QED
      BY <1>0, <2>1, <2>2
  <1>4. CASE vm' = vm /\ (missed' = missed \/ \E inv \in SUBSET VM : Inventory(r, inv))
    <2>1. missed \subseteq missed' /\ missed' \subseteq VM
      BY <1>0, <1>4, InventoryIs
    <2>2. QED
      BY <1>0, <1>4, <2>1 DEF Kept
  <1>5. QED
    BY <1>1, <1>2, <1>3, <1>4, Writers

LEMMA TypeInit == ASSUME Init PROVE TypeInv
  <1>1. NoVM \in Machine /\ NoVM.state = "none" /\ NoVM.cluster = NIL
    BY DEF NoVM, Machine
  <1>2. vm \in [VM -> Machine] /\ \A v \in VM : vm[v] = NoVM
    BY <1>1 DEF Init
  <1>3. run \in [Run -> RunState] /\ \A r \in Run : run[r] = Idle
    BY IdleType DEF Init, GoodRun
  <1>4. net \in [VM -> Cluster \union {NIL}] /\ cached = NIL /\ config = NIL /\ missed = {}
    BY DEF Init
  <1>5. caching \in BOOLEAN
    BY LifecycleAssumption DEF Init
  <1>6. TypeOK
    <2>1. /\ cached \in (SUBSET VM) \union {NIL} /\ config \in Cluster \union {NIL}
          /\ missed \subseteq VM
      BY <1>4
    <2>2. \A v \in VM : vm[v].state = "none"
      BY <1>1, <1>2
    <2>3. \A r \in Run : run[r].inv = {} /\ run[r].pc # "create"
      BY <1>3, IdleType
    <2>4. QED
      BY <1>2, <1>3, <1>4, <1>5, <2>1, <2>2, <2>3 DEF TypeOK
  <1>7. QED
    BY <1>3, <1>6, IdleType DEF TypeInv

\* The machines keep their type.
LEMMA MachineType ==
    ASSUME TypeInv, NEW r \in Run, RunStep(r)
    PROVE  /\ vm' \in [VM -> Machine] /\ missed' \subseteq VM
           /\ \A v \in VM : vm[v].state # "none" => vm'[v].state # "none"
           /\ \A v \in VM : vm'[v].cluster = NIL => vm'[v].state = "none" \/ v \in missed'
  <1>1. ASSUME NEW v \in VM
        PROVE  /\ vm'[v] \in Machine
               /\ vm[v].state # "none" => vm'[v].state # "none"
               /\ vm'[v].cluster = NIL => vm'[v].state = "none" \/ v \in missed'
    <2>0. /\ vm[v] \in Machine /\ NIL \notin Cluster
          /\ vm[v].cluster = NIL => vm[v].state = "none" \/ v \in missed
      BY Good, GroupsAre
    <2>1. CASE Kept(v)
      BY <2>0, <2>1 DEF Kept
    <2>2. CASE Launched(r, v)
      BY <2>0, <2>2 DEF Launched, Machine
    <2>3. CASE Bared(v)
      BY <2>3 DEF Bared, NoVM, Machine
    <2>4. CASE Terminated(v)
      BY <2>0, <2>4 DEF Terminated, Machine
    <2>5. QED
      BY <2>1, <2>2, <2>3, <2>4, Machines
  <1>2. QED
    BY <1>1, Machines

LEMMA TypeStep == ASSUME TypeInv, [Next]_vars PROVE TypeInv'
  <1>0. TypeOK /\ \A r \in Run : GoodRun(run[r])
    BY Good DEF TypeInv
  <1>1. CASE CacheExpires \/ UNCHANGED vars
    <2>1. UNCHANGED <<caching, vm, net, config, run, missed>> /\ cached' \in {NIL, cached}
      BY <1>1 DEF CacheExpires, vars
    <2>2. /\ cached' \in (SUBSET VM) \union {NIL}
          /\ cached' # NIL => \A v \in cached' : vm[v].state # "none"
      BY <1>0, <2>1 DEF TypeOK
    <2>3. QED
      BY <2>1, <2>2 DEF TypeInv, TypeOK
  <1>2. ASSUME NEW w \in VM, BootUp(w)
        PROVE  TypeInv'
    <2>1. /\ UNCHANGED <<caching, net, cached, config, run, missed>>
          /\ vm' = [vm EXCEPT ![w].state = "running"] /\ vm[w].state = "pending"
      BY <1>2 DEF BootUp, Pending
    <2>2. vm \in [VM -> Machine]
      BY <1>0 DEF TypeOK
    <2>3. /\ vm' \in [VM -> Machine]
          /\ \A v \in VM : /\ vm'[v].cluster = vm[v].cluster
                           /\ vm'[v].state = "none" <=> vm[v].state = "none"
      BY <2>1, <2>2 DEF Machine
    <2>4. QED
      <3>1. \A v \in VM : vm'[v].cluster = NIL => vm'[v].state = "none" \/ v \in missed'
        BY <1>0, <2>1, <2>3 DEF TypeOK
      <3>2. \A r \in Run : /\ \A v \in run'[r].inv : vm'[v].state # "none"
                           /\ run'[r].pc = "create" => run'[r].conf # NIL
        BY <1>0, <2>1, <2>3 DEF GoodRun, RunState
      <3>3. cached' # NIL => \A v \in cached' : vm'[v].state # "none"
        BY <1>0, <2>1, <2>3 DEF TypeOK
      <3>4. QED
        BY <2>1, <2>3, <3>1, <3>2, <3>3 DEF TypeInv, TypeOK
  <1>3. ASSUME NEW r \in Run, RunStep(r)
        PROVE  TypeInv'
    <2>1. /\ vm' \in [VM -> Machine] /\ missed' \subseteq VM
          /\ \A v \in VM : vm'[v].cluster = NIL => vm'[v].state = "none" \/ v \in missed'
          /\ \A v \in VM : vm[v].state # "none" => vm'[v].state # "none"
      BY <1>3, MachineType
    <2>2. PICK x : GoodRun(x) /\ run' = [run EXCEPT ![r] = x]
      BY <1>3, RunType
    <2>3. run' \in [Run -> RunState]
      BY <1>0, <2>2 DEF GoodRun, TypeOK
    <2>4. ASSUME NEW q \in Run
          PROVE  /\ \A v \in run'[q].inv : vm'[v].state # "none"
                 /\ run'[q].pc = "create" => run'[q].conf # NIL /\ run'[q].step >= 1
                 /\ run'[q].pc \notin {"idle", "over"} => run'[q].cluster \in Cluster
                 /\ run'[q].pc \in {"idle", "over"} => run'[q].cluster = NIL
      <3>1. GoodRun(run'[q])
        BY <1>0, <2>2 DEF TypeOK
      <3>2. QED
        BY <2>1, <3>1 DEF GoodRun, RunState
    <2>5. /\ cached' \in (SUBSET VM) \union {NIL}
          /\ cached' # NIL => \A v \in cached' : vm'[v].state # "none"
          /\ caching' \in BOOLEAN
      <3>1. caching' = caching /\ caching \in BOOLEAN
        BY <1>0, <1>3, Writers DEF TypeOK
      <3>2. /\ cached' \in (SUBSET VM) \union {NIL}
            /\ cached' # NIL => \A v \in cached' : vm[v].state # "none"
        <4>1. CASE \E inv \in SUBSET VM : Inventory(r, inv)
          BY <4>1, InventoryIs
        <4>2. CASE cached' = cached
          BY <1>0, <4>2 DEF TypeOK
        <4>3. QED
          BY <1>3, <4>1, <4>2, Writers
      <3>3. cached' # NIL => cached' \subseteq VM
        BY <3>2
      <3>4. QED
        BY <2>1, <3>1, <3>2, <3>3
    <2>6. net' \in [VM -> Cluster \union {NIL}]
      <3>1. net \in [VM -> Cluster \union {NIL}]
        BY <1>0 DEF TypeOK
      <3>2. ASSUME NEW inv, NEW c \in Cluster \union {NIL}, SetUp(inv, c)
            PROVE  net' \in [VM -> Cluster \union {NIL}]
        BY <3>1, <3>2 DEF SetUp
      <3>3. run[r].cluster \in Cluster \union {NIL}
        BY <1>0 DEF GoodRun, RunState
      <3>4. QED
        BY <1>3, <3>1, <3>2, <3>3, Writers DEF DeployNetwork, CleanNetwork
    <2>7. config' \in Cluster \union {NIL}
      BY <1>0, <1>3, Writers DEF TypeOK, GoodRun, RunState
    <2>8. QED
      BY <2>1, <2>3, <2>4, <2>5, <2>6, <2>7 DEF TypeInv, TypeOK
  <1>4. QED
    BY <1>1, <1>2, <1>3, Steps

\* The type invariant: whatever runs do to the machines, an inventory names only
\* machines that were created, and only those that a run left behind have no tags.
THEOREM TypeCorrect == Spec => []TypeOK
  <1>1. Init => TypeInv
    BY TypeInit
  <1>2. TypeInv /\ [Next]_vars => TypeInv'
    BY TypeStep
  <1>3. TypeInv => TypeOK
    BY DEF TypeInv
  <1>4. QED
    BY <1>1, <1>2, <1>3, PTL DEF Spec
-----------------------------------------------------------------------------
(* What a kill reaches                                                     *)

\* Whose run a step makes it: the same cluster's, nobody's, or that of a cluster
\* no other run is about.
LEMMA ClusterOf ==
    ASSUME TypeInv, OnePerCluster, NEW r \in Run, RunStep(r)
    PROVE  \/ run'[r].cluster \in {run[r].cluster, NIL}
           \/ \A q \in Run : run[q].cluster # run'[r].cluster
  <1>1. run \in [Run -> RunState] /\ run[r] \in RunState
    BY Good DEF GoodRun
  <1>2. CASE run' = [run EXCEPT ![r] = Over]
    BY <1>1, <1>2, IdleType
  <1>3. ASSUME NEW mode, NEW c \in Cluster, RemoveConfig(r, mode, c)
        PROVE  run'[r].cluster = c /\ \A q \in Run : run[q].cluster # c
    BY <1>1, <1>3 DEF RemoveConfig, Idle
  <1>4. CASE CopyConfig(r) \/ LaunchPlaybook(r) \/ CheckCluster(r)
    BY <1>1, <1>4 DEF CopyConfig, LaunchPlaybook, CheckCluster, RunState
  <1>5. CASE LaunchItem(r) \/ RefuseItem(r) \/ FailItem(r) \/ EndTask(r)
    <2>1. CASE LaunchItem(r)
      BY <1>1, <2>1 DEF LaunchItem, RunState
    <2>2. CASE RefuseItem(r) \/ FailItem(r)
      BY <1>1, <2>2 DEF RefuseItem, FailItem, RunState
    <2>3. CASE EndTask(r)
      BY <1>1, <1>2, <2>3 DEF EndTask, RunState
    <2>4. QED
      BY <1>5, <2>1, <2>2, <2>3
  <1>6. CASE RefreshInventory(r)
    BY <1>1, <1>6 DEF RefreshInventory, RunState
  <1>7. CASE LoadHosts(r)
    BY <1>1, <1>7 DEF LoadHosts, RunState
  <1>8. CASE DeployNetwork(r) \/ CleanNetwork(r)
    BY <1>1, <1>2, <1>8 DEF DeployNetwork, CleanNetwork, RunState
  <1>9. QED
    BY <1>2, <1>3, <1>4, <1>5, <1>6, <1>7, <1>8 DEF RunStep, Abort, KillCluster

\* A run that comes to decide, clean up, deploy or kill has just read the
\* inventory, or goes by the one it had; and it has created nothing since.
LEMMA DecidesOn ==
    ASSUME TypeInv, NEW r \in Run, RunStep(r), run'[r].pc \in Deciding
    PROVE  /\ vm' = vm /\ run'[r].cluster = run[r].cluster
           /\ \/ \E inv \in SUBSET VM : Inventory(r, inv) /\ run'[r].inv = inv
              \/ run[r].pc \in Deciding /\ run'[r].inv = run[r].inv /\ missed' = missed
  <1>1. run \in [Run -> RunState] /\ run[r] \in RunState
    BY Good DEF GoodRun
  <1>2. CASE run' = [run EXCEPT ![r] = Over]
    BY <1>1, <1>2, IdleType DEF Deciding
  <1>3. ASSUME NEW mode, NEW c \in Cluster, RemoveConfig(r, mode, c)
        PROVE  FALSE
    BY <1>1, <1>3 DEF RemoveConfig, Idle, Deciding
  <1>4. CASE CopyConfig(r) \/ CheckCluster(r) \/ RefreshInventory(r)
    BY <1>1, <1>4 DEF CopyConfig, CheckCluster, RefreshInventory, Deciding, RunState
  <1>5. CASE LaunchItem(r) \/ RefuseItem(r) \/ FailItem(r) \/ EndTask(r)
    <2>1. CASE LaunchItem(r)
      BY <1>1, <2>1 DEF LaunchItem, Creating, Deciding, RunState
    <2>2. CASE RefuseItem(r) \/ FailItem(r)
      BY <1>1, <2>2 DEF RefuseItem, FailItem, Creating, Deciding, RunState
    <2>3. CASE EndTask(r)
      BY <1>1, <1>2, <2>3 DEF EndTask, Creating, Deciding, RunState
    <2>4. QED
      BY <1>5, <2>1, <2>2, <2>3
  <1>6. CASE LaunchPlaybook(r)
    BY <1>1, <1>6 DEF LaunchPlaybook, RunState
  <1>7. CASE LoadHosts(r)
    BY <1>1, <1>7 DEF LoadHosts, RunState
  <1>8. CASE DeployNetwork(r)
    BY <1>1, <1>2, <1>8 DEF DeployNetwork, RunState, Deciding
  <1>9. CASE CleanNetwork(r)
    BY <1>1, <1>9 DEF CleanNetwork, RunState, Deciding
  <1>10. QED
    BY <1>2, <1>3, <1>4, <1>5, <1>6, <1>7, <1>8, <1>9 DEF RunStep, Abort, KillCluster

\* A machine that is there after a step of a run was there before, or the step
\* launched it; or it lost its tags.
LEMMA AliveStep ==
    ASSUME TypeInv, NEW r \in Run, RunStep(r), NEW v \in Alive'
    PROVE  /\ v \in VM
           /\ \/ Kept(v) /\ v \in Alive /\ (v \in Pending' => v \in Pending)
              \/ Launched(r, v)
              \/ vm'[v].cluster = NIL /\ v \in missed'
  <1>1. v \in VM /\ vm'[v].state \in {"pending", "running"}
    BY DEF Alive, Pending, Running
  <1>2. CASE Kept(v)
    BY <1>1, <1>2 DEF Kept, Alive, Pending, Running
  <1>3. CASE Bared(v)
    BY <1>1, <1>3 DEF Bared, NoVM
  <1>4. CASE Terminated(v)
    <2>1. vm[v] \in Machine
      BY <1>1, Good
    <2>2. QED
      BY <1>1, <1>4, <2>1 DEF Terminated, Machine
  <1>5. QED
    BY <1>1, <1>2, <1>3, <1>4, Machines

\* What else happens does nothing to the machines but let one come up.
LEMMA BootStep ==
    ASSUME TypeInv, CacheExpires \/ UNCHANGED vars \/ \E w \in VM : BootUp(w)
    PROVE  /\ run' = run /\ missed' = missed
           /\ Alive' = Alive /\ Pending' \subseteq Pending
           /\ \A v \in VM : vm'[v].cluster = vm[v].cluster /\ vm'[v].group = vm[v].group
  <1>1. vm \in [VM -> Machine]
    BY Good
  <1>2. CASE CacheExpires \/ UNCHANGED vars
    BY <1>2 DEF CacheExpires, vars, Alive, Pending, Running
  <1>3. ASSUME NEW w \in VM, BootUp(w)
        PROVE  /\ run' = run /\ missed' = missed
               /\ Alive' = Alive /\ Pending' \subseteq Pending
               /\ \A v \in VM : vm'[v].cluster = vm[v].cluster /\ vm'[v].group = vm[v].group
    <2>1. /\ run' = run /\ missed' = missed /\ vm[w].state = "pending"
          /\ vm' = [vm EXCEPT ![w].state = "running"]
      BY <1>3 DEF BootUp, Pending
    <2>2. \A v \in VM : /\ vm'[v].cluster = vm[v].cluster /\ vm'[v].group = vm[v].group
                        /\ v # w => vm'[v].state = vm[v].state
                        /\ vm'[w].state = "running"
      BY <1>1, <2>1 DEF Machine
    <2>3. Alive' = Alive /\ Pending' \subseteq Pending
      BY <2>1, <2>2 DEF Alive, Pending, Running
    <2>4. QED
      BY <2>1, <2>2, <2>3
  <1>4. QED
    BY <1>2, <1>3

\* Runs stay apart.
LEMMA ApartStep ==
    ASSUME TypeInv, OnePerCluster, Apart, NEW r \in Run, RunStep(r)
    PROVE  Apart'
  <1>1. \A q \in Run : q # r => run'[q] = run[q]
    BY RunType, Good
  <1>2. QED
    BY <1>1, ClusterOf DEF Apart

\* A run that goes on while a machine it waits for is not up leaves the machine.
LEMMA Waits ==
    ASSUME TypeInv, NEW r \in Run, RunStep(r), NEW v \in Pending, Awaits(r, v)
    PROVE  v \in missed'
  <1>1. /\ run[r].pc = "create" /\ run[r].step <= Len(Groups) /\ v \in run[r].wait
        /\ run[r].step \in Int /\ Len(Groups) \in Int
    BY Good, GroupsAre DEF Awaits, GoodRun, RunState
  <1>2. v \notin Running
    BY DEF Pending, Running
  <1>3. CASE Abort(r) \/ FailItem(r)
    BY <1>1, <1>3 DEF Abort, FailItem, Leave
  <1>4. ~LaunchItem(r) /\ ~RefuseItem(r) /\ ~EndTask(r)
    BY <1>1, <1>2 DEF LaunchItem, RefuseItem, EndTask, Creating
  <1>5. ~RefreshInventory(r)
    BY <1>1 DEF RefreshInventory
  <1>6. QED
    BY <1>1, <1>3, <1>4, <1>5 DEF RunStep, RemoveConfig, CopyConfig, LaunchPlaybook,
       CheckCluster, LoadHosts, DeployNetwork, CleanNetwork, KillCluster

LEMMA AwaitedStep ==
    ASSUME TypeInv, Awaited, NEW r \in Run, RunStep(r)
    PROVE  Awaited'
  <1>1. /\ run \in [Run -> RunState] /\ run[r] \in RunState
        /\ \A q \in Run : q # r => run'[q] = run[q]
    BY RunType, Good DEF GoodRun
  <1>2. ASSUME NEW v \in Pending', v \notin missed'
        PROVE  \E q \in Run : Awaits(q, v)'
    <2>1. v \in Alive'
      BY DEF Alive
    <2>2. CASE Launched(r, v)
      <3>1. run[r].pc = "create" /\ run[r].step <= Len(Groups)
        BY <2>2 DEF Launched, LaunchItem, Creating
      <3>2. run'[r].pc = run[r].pc /\ run'[r].step = run[r].step
            /\ run'[r].cluster = run[r].cluster
        BY <1>1, <2>2 DEF Launched, LaunchItem, RunState
      <3>3. v \in run'[r].wait /\ vm'[v].cluster = run[r].cluster
        BY <2>2 DEF Launched
      <3>4. Awaits(r, v)'
        BY <3>1, <3>2, <3>3 DEF Awaits
      <3>5. QED
        BY <3>4
    <2>3. CASE Kept(v) /\ v \in Pending
      <3>1. v \notin missed /\ vm'[v] = vm[v]
        BY <1>2, <2>3 DEF Kept
      <3>2. PICK q \in Run : Awaits(q, v)
        BY <2>3, <3>1 DEF Awaited
      <3>3. q # r
        BY <1>2, <2>3, <3>2, Waits
      <3>4. Awaits(q, v)'
        BY <1>1, <3>1, <3>2, <3>3 DEF Awaits
      <3>5. QED
        BY <3>4
    <2>4. QED
      BY <1>2, <2>1, <2>2, <2>3, AliveStep
  <1>3. QED
    BY <1>2 DEF Awaited

LEMMA KnowsStep ==
    ASSUME TypeInv, Apart, Awaited, Knows, NEW r \in Run, RunStep(r)
    PROVE  Knows'
  <1>1. \A q \in Run : q # r => run'[q] = run[q]
    BY RunType, Good
  <1>2. ASSUME NEW q \in Run, run'[q].pc \in Deciding, NEW v \in Alive',
               vm'[v].cluster = run'[q].cluster
        PROVE  v \in run'[q].inv \/ v \in missed'
    <2>1. CASE q = r
      <3>1. vm' = vm /\ run'[r].cluster = run[r].cluster
        BY <1>2, <2>1, DecidesOn
      <3>2. v \in Alive /\ vm[v].cluster = run[r].cluster
        BY <1>2, <2>1, <3>1 DEF Alive, Pending, Running
      <3>3. CASE \E inv \in SUBSET VM : Inventory(r, inv) /\ run'[r].inv = inv
        <4>1. CASE v \in Running \/ v \in missed
          BY <2>1, <3>2, <3>3, <4>1, InventoryIs
        <4>2. CASE v \in Pending /\ v \notin missed
          <5>1. PICK p \in Run : Awaits(p, v)
            BY <4>2 DEF Awaited
          <5>2. run[p].cluster = run[r].cluster /\ run[p].cluster # NIL
            BY <3>2, <5>1, Good, GroupsAre DEF Awaits, GoodRun
          <5>3. p = r
            BY <5>2 DEF Apart
          <5>4. QED
            BY <4>2, <5>1, <5>3, Waits
        <4>3. QED
          BY <3>2, <4>1, <4>2 DEF Alive
      <3>4. CASE run[r].pc \in Deciding /\ run'[r].inv = run[r].inv /\ missed' = missed
        BY <2>1, <3>2, <3>4 DEF Knows
      <3>5. QED
        BY <1>2, <2>1, <3>3, <3>4, DecidesOn
    <2>2. CASE q # r
      <3>1. run'[q] = run[q] /\ run[q].pc \in Deciding
        BY <1>1, <1>2, <2>2
      <3>2. run[q].cluster \in Cluster /\ run[q].cluster # NIL
        BY <3>1, Good, GroupsAre DEF GoodRun, Deciding
      <3>3. ~Launched(r, v)
        BY <1>2, <2>2, <3>1, <3>2 DEF Launched, Apart
      <3>4. v \in missed' \/ (Kept(v) /\ v \in Alive)
        BY <1>2, <3>1, <3>2, <3>3, AliveStep
      <3>5. QED
        BY <1>2, <3>1, <3>4 DEF Knows, Kept
    <2>3. QED
      BY <2>1, <2>2
  <1>3. QED
    BY <1>2 DEF Knows

LEMMA KillInit == ASSUME Init PROVE KillInv
  <1>1. \A r \in Run : run[r] = Idle
    BY DEF Init
  <1>2. Pending = {}
    BY DEF Init, NoVM, Pending
  <1>3. QED
    BY <1>1, <1>2, IdleType DEF KillInv, Apart, Knows, Awaited, Deciding

LEMMA KillStep ==
    ASSUME TypeInv, OnePerCluster, KillInv, [Next]_vars
    PROVE  KillInv'
  <1>1. CASE CacheExpires \/ UNCHANGED vars \/ \E w \in VM : BootUp(w)
    <2>1. /\ run' = run /\ missed' = missed
          /\ Alive' = Alive /\ Pending' \subseteq Pending
          /\ \A v \in VM : vm'[v].cluster = vm[v].cluster
      BY <1>1, BootStep
    <2>2. Alive \subseteq VM /\ Pending \subseteq Alive
      BY DEF Alive, Pending, Running
    <2>3. Awaited'
      BY <2>1, <2>2 DEF KillInv, Awaited, Awaits
    <2>4. Knows'
      BY <2>1, <2>2 DEF KillInv, Knows
    <2>5. QED
      BY <2>1, <2>3, <2>4 DEF KillInv, Apart
  <1>2. ASSUME NEW r \in Run, RunStep(r)
        PROVE  KillInv'
    BY <1>2, ApartStep, AwaitedStep, KnowsStep DEF KillInv
  <1>3. QED
    BY <1>1, <1>2, Steps

\* A kill terminates all the machines its cluster has left, but for those that a
\* run left behind or a cached list lacked, and never those of another, for every
\* number of clusters and of runs that fail anywhere, cached or not: where no two
\* runs of one cluster overlap, and ids are such as group names keep.
THEOREM KillsExactlyHolds ==
    ASSUME OnePerCluster, \A c \in Cluster : Safe[c] = c
    PROVE  Spec => []KillsExactly
  <1>1. Init => TypeInv /\ KillInv
    BY TypeInit, KillInit
  <1>2. (TypeInv /\ KillInv) /\ [Next]_vars => (TypeInv /\ KillInv)'
    BY TypeStep, KillStep
  <1>3. TypeInv /\ KillInv => KillsExactly
    <2> SUFFICES ASSUME TypeInv, KillInv, NEW r \in Run, run[r].pc = "kill"
                 PROVE  /\ \A v \in Pending \union Running :
                              vm[v].cluster = run[r].cluster => v \in KillSet(r) \union missed
                        /\ \A v \in KillSet(r) : vm[v].cluster = run[r].cluster
      BY DEF KillsExactly
    <2>1. run[r].cluster \in Cluster /\ run[r].cluster # NIL
      BY Good, GroupsAre DEF GoodRun
    <2>2. \A v \in Pending \union Running :
             vm[v].cluster = run[r].cluster => v \in run[r].inv \/ v \in missed
      BY DEF KillInv, Knows, Deciding, Alive
    <2>3. \A v \in run[r].inv :
             v \in KillSet(r) <=> vm[v].cluster # NIL /\ Safe[vm[v].cluster] = run[r].cluster
      BY DEF KillSet, TagGroup
    <2>4. \A v \in run[r].inv : vm[v].cluster = run[r].cluster => v \in KillSet(r)
      BY <2>1, <2>3
    <2>5. \A v \in KillSet(r) : vm[v].cluster = run[r].cluster
      BY <2>3, Killed
    <2>6. QED
      BY <2>2, <2>4, <2>5
  <1>4. QED
    BY <1>1, <1>2, <1>3, PTL DEF Spec
-----------------------------------------------------------------------------
(* What a start creates                                                    *)

\* The machines of a group that count after a step did so before, but for those
\* that the step launches.
LEMMA KnownStep ==
    ASSUME TypeInv, NEW r \in Run, RunStep(r), NEW c \in Cluster, NEW g,
           ~(LaunchItem(r) /\ run[r].cluster = c /\ Task(r) = g)
    PROVE  Known(c, g)' \subseteq Known(c, g)
  <1>1. ASSUME NEW v \in VM, v \in Alive', v \notin missed',
               vm'[v].cluster = c, vm'[v].group = g
        PROVE  v \in Alive /\ v \notin missed /\ vm[v].cluster = c /\ vm[v].group = g
    <2>1. c # NIL
      BY GroupsAre
    <2>2. ~Launched(r, v)
      BY <1>1 DEF Launched
    <2>3. Kept(v) /\ v \in Alive
      BY <1>1, <2>1, <2>2, AliveStep
    <2>4. QED
      BY <1>1, <2>3 DEF Kept
  <1>2. \A v : v \in Known(c, g)' <=> /\ v \in Alive' /\ v \notin missed'
                                      /\ vm'[v].cluster = c /\ vm'[v].group = g
    BY DEF Known, Members, Alive
  <1>3. \A v : v \in Known(c, g) <=> /\ v \in Alive /\ v \notin missed
                                     /\ vm[v].cluster = c /\ vm[v].group = g
    BY DEF Known, Members, Alive
  <1>4. \A v \in Alive' : v \in VM
    BY DEF Alive, Pending, Running
  <1>5. QED
    BY <1>1, <1>2, <1>3, <1>4

\* A request adds as many as it asks for.
LEMMA Launching ==
    ASSUME TypeInv, NEW r \in Run, LaunchItem(r), NEW c, NEW g
    PROVE  \E new \in SUBSET VM : /\ Cardinality(new) = Batch(r)
                                  /\ Known(c, g)' \subseteq Known(c, g) \union new
  <1>1. PICK new \in SUBSET {v \in VM : vm[v].state = "none"} :
           /\ Cardinality(new) = Batch(r) /\ missed' = missed
           /\ \A v \in VM : v \notin new => vm'[v] = vm[v]
    BY DEF LaunchItem
  <1>2. Known(c, g)' \subseteq Known(c, g) \union new
    BY <1>1 DEF Known, Members, Pending, Running
  <1>3. QED
    BY <1>1, <1>2

\* A set of machines that shrinks has not more of them; one that grows by some
\* has not more than these more.
LEMMA Fewer ==
    ASSUME NEW S \in SUBSET VM, NEW new \in SUBSET VM, NEW T \in SUBSET (S \union new),
           NEW n \in Nat, NEW m \in Nat, Cardinality(S) <= n, Cardinality(new) = m
    PROVE  Cardinality(T) <= n + m
  <1>1. IsFiniteSet(S) /\ IsFiniteSet(new)
    BY GroupsAre, FS_Subset
  <1>2. /\ IsFiniteSet(S \union new) /\ IsFiniteSet(S \intersect new)
        /\ Cardinality(S \union new)
           = Cardinality(S) + Cardinality(new) - Cardinality(S \intersect new)
    BY <1>1, FS_Union, FS_Intersection
  <1>3. IsFiniteSet(T) /\ Cardinality(T) <= Cardinality(S \union new)
    BY <1>2, FS_Subset
  <1>4. /\ Cardinality(S) \in Nat /\ Cardinality(T) \in Nat
        /\ Cardinality(S \union new) \in Nat /\ Cardinality(S \intersect new) \in Nat
    BY <1>1, <1>2, <1>3, FS_CardinalityType
  <1>5. QED
    BY <1>2, <1>3, <1>4

LEMMA NoMore ==
    ASSUME NEW S \in SUBSET VM, NEW T \in SUBSET S, NEW n \in Nat, Cardinality(S) <= n
    PROVE  Cardinality(T) <= n
  <1>1. Cardinality({}) = 0 /\ {} \in SUBSET VM /\ T \in SUBSET (S \union {})
    BY FS_EmptySet
  <1>2. Cardinality(T) <= n + 0
    BY <1>1, Fewer
  <1>3. QED
    BY <1>2

LEMMA KnownIs ==
    ASSUME NEW c, NEW g
    PROVE  Known(c, g) \subseteq VM
  BY DEF Known, Members, Pending, Running

\* A run that has still to create a group has just found that its cluster does not
\* exist; or had it to create; or has come to it.
LEMMA StillToCreate ==
    ASSUME TypeInv, NEW r \in Run, RunStep(r), NEW k \in 1..Len(Groups), ToCreate(r, k)'
    PROVE  /\ run'[r].cluster = run[r].cluster
           /\ \/ /\ vm' = vm /\ missed' = missed /\ run[r].pc = "check"
                 /\ ~ClusterExists(run[r].inv, run[r].cluster)
              \/ /\ ToCreate(r, k) /\ run'[r].step = run[r].step
                 /\ run'[r].done = IF LaunchItem(r) \/ RefuseItem(r)
                                   THEN run[r].done + Batch(r) ELSE run[r].done
              \/ ~LaunchItem(r) /\ ToCreate(r, k) /\ k # run[r].step
  <1>1. run \in [Run -> RunState] /\ run[r] \in RunState /\ run[r].step \in Int
    BY Good DEF GoodRun, RunState
  <1>2. /\ run'[r].pc = "create" /\ k >= run'[r].step
        /\ AllGuarded(Groups[k]) /\ ~(run'[r].skip /\ Groups[k] \notin Unguarded)
    BY DEF ToCreate, AllGuarded, Guarded, Unguarded
  <1>3. CASE LaunchItem(r) \/ RefuseItem(r) \/ FailItem(r)
    <2>1. run[r].pc = "create"
      BY <1>3 DEF LaunchItem, RefuseItem, FailItem, Creating
    <2>2. /\ run'[r].cluster = run[r].cluster /\ run'[r].skip = run[r].skip
          /\ run'[r].step = run[r].step
          /\ run'[r].done = IF LaunchItem(r) \/ RefuseItem(r)
                            THEN run[r].done + Batch(r) ELSE run[r].done
      <3>1. CASE LaunchItem(r)
        <4>1. PICK new : run' = [run EXCEPT ![r].done = @ + Batch(r), ![r].wait = new]
          BY <3>1 DEF LaunchItem
        <4>2. QED
          BY <1>1, <3>1, <4>1 DEF RunState
      <3>2. CASE RefuseItem(r)
        <4>1. run' = [run EXCEPT ![r].done = @ + Batch(r), ![r].failed = TRUE]
          BY <3>2 DEF RefuseItem
        <4>2. QED
          BY <1>1, <3>2, <4>1 DEF RunState
      <3>3. CASE FailItem(r)
        <4>1. ~LaunchItem(r) /\ ~RefuseItem(r)
          BY <3>3 DEF FailItem, LaunchItem, RefuseItem, Creating
        <4>2. QED
          BY <1>1, <3>3, <4>1 DEF FailItem, RunState
      <3>4. QED
        BY <1>3, <3>1, <3>2, <3>3
    <2>3. QED
      BY <1>2, <2>1, <2>2 DEF ToCreate
  <1>4. CASE EndTask(r)
    <2>1. ~run[r].failed
      BY <1>1, <1>2, <1>4, IdleType DEF EndTask
    <2>2. /\ run[r].pc = "create"
          /\ run' = [run EXCEPT ![r] = [run[r] EXCEPT !.step = @ + 1, !.done = 0, !.wait = {}]]
      BY <1>4, <2>1 DEF EndTask, Creating
    <2>3. /\ run'[r].cluster = run[r].cluster /\ run'[r].skip = run[r].skip
          /\ run'[r].step = run[r].step + 1
      BY <1>1, <2>2 DEF RunState
    <2>4. ~LaunchItem(r)
      <3>1. ~(ToLaunch(r) \in Int /\ ToLaunch(r) > 0)
        BY <1>4 DEF EndTask
      <3>2. QED
        BY <3>1, Request DEF LaunchItem
    <2>5. QED
      BY <1>1, <1>2, <2>2, <2>3, <2>4 DEF ToCreate
  <1>5. CASE CheckCluster(r)
    <2> DEFINE exists == ClusterExists(run[r].inv, run[r].cluster)
               when == WhenExists[run[r].conf]
    <2>1. /\ run[r].pc = "check" /\ run[r].conf # NIL /\ vm' = vm /\ missed' = missed
          /\ ~(exists /\ when = "crush")
          /\ run' = [run EXCEPT ![r].pc = "create", ![r].step = 1,
                                ![r].skip = exists /\ when = "skip_starter"]
      BY <1>5 DEF CheckCluster
    <2>2. run'[r].cluster = run[r].cluster
          /\ run'[r].skip = (exists /\ when = "skip_starter")
      BY <1>1, <2>1 DEF RunState
    <2>3. Guarded(run[r].conf, Groups[k])
      BY <1>1, <1>2, <2>1 DEF AllGuarded, RunState
    <2>4. ~exists
      BY <1>2, <2>1, <2>2, <2>3 DEF Guarded
    <2>5. QED
      BY <2>1, <2>2, <2>4
  <1>6. CASE run' = [run EXCEPT ![r] = Over]
    BY <1>1, <1>2, <1>6, IdleType
  <1>7. ASSUME NEW mode, NEW c \in Cluster, RemoveConfig(r, mode, c)
        PROVE  FALSE
    BY <1>1, <1>2, <1>7 DEF RemoveConfig, Idle
  <1>8. CASE CopyConfig(r) \/ LaunchPlaybook(r) \/ CleanNetwork(r)
    BY <1>1, <1>2, <1>8 DEF CopyConfig, LaunchPlaybook, First, CleanNetwork, RunState
  <1>9. CASE RefreshInventory(r)
    BY <1>1, <1>2, <1>9 DEF RefreshInventory, RunState
  <1>10. CASE LoadHosts(r)
    BY <1>1, <1>2, <1>10 DEF LoadHosts, RunState
  <1>11. CASE DeployNetwork(r)
    BY <1>1, <1>2, <1>6, <1>11 DEF DeployNetwork, RunState
  <1>12. QED
    BY <1>3, <1>4, <1>5, <1>6, <1>7, <1>8, <1>9, <1>10, <1>11
    DEF RunStep, Abort, KillCluster

LEMMA FreshStep ==
    ASSUME TypeInv, Apart, Knows, Fresh, \A c \in Cluster : Safe[c] = c,
           NEW r \in Run, RunStep(r)
    PROVE  Fresh'
  <1>1. \A q \in Run : q # r => run'[q] = run[q]
    BY RunType, Good
  <1>2. ASSUME NEW q \in Run, NEW k \in 1..Len(Groups), ToCreate(q, k)',
               NEW c, c = run'[q].cluster, NEW g, g = Groups[k]
        PROVE  /\ k # run'[q].step => Known(c, g)' = {}
               /\ k = run'[q].step => Cardinality(Known(c, g)') <= run'[q].done
    <2>1. run'[q].pc = "create" /\ run'[q].done \in Nat /\ run[q].done \in Nat
      <3>1. run' \in [Run -> RunState]
        BY TypeStep, Steps DEF TypeInv, TypeOK
      <3>2. run \in [Run -> RunState]
        BY Good
      <3>3. QED
        BY <1>2, <3>1, <3>2 DEF ToCreate, RunState
    <2>2. CASE Known(c, g)' = {}
      <3>1. Cardinality(Known(c, g)') = 0
        BY <2>2, FS_EmptySet
      <3>2. QED
        BY <2>1, <2>2, <3>1
    <2>3. CASE q = r
      <3>1. run[r].cluster = c
        BY <1>2, <2>3, StillToCreate
      <3>2. c \in Cluster
        <4>1. run[r].pc \notin {"idle", "over"}
          BY <1>2, <2>3, StillToCreate DEF ToCreate
        <4>2. QED
          BY <3>1, <4>1, Good DEF GoodRun
      <3>3. CASE /\ vm' = vm /\ missed' = missed /\ run[r].pc = "check"
                 /\ ~ClusterExists(run[r].inv, run[r].cluster)
        <4>1. \A v \in Alive : vm[v].cluster = c => v \in run[r].inv \/ v \in missed
          BY <3>1, <3>3 DEF Knows, Deciding
        <4>2. \A v \in run[r].inv : vm[v].cluster # c
          BY <3>1, <3>2, <3>3, GroupsAre DEF ClusterExists, TagGroup
        <4>3. Known(c, g)' = {}
          BY <3>3, <4>1, <4>2 DEF Known, Members, Alive, Pending, Running
        <4>4. QED
          BY <2>2, <4>3
      <3>4. CASE ToCreate(r, k) /\ ~(LaunchItem(r) /\ Task(r) = g)
        <4>1. Known(c, g)' \subseteq Known(c, g)
          BY <3>2, <3>4, KnownStep
        <4>2. k # run[r].step => Known(c, g) = {}
          BY <1>2, <3>1, <3>4 DEF Fresh
        <4>3. CASE k # run[r].step
          BY <2>2, <4>1, <4>2, <4>3
        <4>4. CASE k = run[r].step
          <5>1. Cardinality(Known(c, g)) <= run[r].done
            BY <1>2, <3>1, <3>4, <4>4 DEF Fresh
          <5>2. Cardinality(Known(c, g)') <= run[r].done
            BY <2>1, <2>3, <4>1, <5>1, KnownIs, NoMore
          <5>3. run'[r].step = run[r].step /\ run'[r].done >= run[r].done
            <6>1. run'[r].step = run[r].step
                  /\ run'[r].done = IF LaunchItem(r) \/ RefuseItem(r)
                                    THEN run[r].done + Batch(r) ELSE run[r].done
              BY <1>2, <2>3, <3>4, <4>4, StillToCreate DEF ToCreate
            <6>2. LaunchItem(r) \/ RefuseItem(r) => Batch(r) \in Nat
              BY Request DEF LaunchItem, RefuseItem
            <6>3. QED
              BY <2>1, <2>3, <6>1, <6>2
          <5>4. Cardinality(Known(c, g)') \in Nat
            <6>1. IsFiniteSet(Known(c, g)')
              BY <4>1, KnownIs, GroupsAre, FS_Subset
            <6>2. QED
              BY <6>1, FS_CardinalityType
          <5>5. QED
            BY <2>1, <2>3, <4>4, <5>2, <5>3, <5>4
        <4>5. QED
          BY <4>3, <4>4
      <3>5. CASE ToCreate(r, k) /\ LaunchItem(r) /\ Task(r) = g
        <4>1. k = run[r].step /\ Batch(r) \in Nat
          <5>1. run[r].step \in 1..Len(Groups) /\ Batch(r) \in Nat
            BY <3>5, Request DEF LaunchItem
          <5>2. QED
            BY <1>2, <3>5, <5>1, GroupsAre DEF Task
        <4>2. Cardinality(Known(c, g)) <= run[r].done
          BY <1>2, <3>1, <3>5, <4>1 DEF Fresh
        <4>3. PICK new \in SUBSET VM : /\ Cardinality(new) = Batch(r)
                                       /\ Known(c, g)' \subseteq Known(c, g) \union new
          BY <3>5, Launching
        <4>4. Cardinality(Known(c, g)') <= run[r].done + Batch(r)
          BY <2>1, <2>3, <4>1, <4>2, <4>3, KnownIs, Fewer
        <4>5. run'[r].step = run[r].step /\ run'[r].done = run[r].done + Batch(r)
          BY <1>2, <2>3, <3>5, <4>1, StillToCreate DEF ToCreate
        <4>6. QED
          BY <2>3, <4>1, <4>4, <4>5
      <3>6. QED
        BY <1>2, <2>3, <3>3, <3>4, <3>5, StillToCreate
    <2>4. CASE q # r
      <3>1. run'[q] = run[q]
        BY <1>1, <2>4
      <3>2. ToCreate(q, k)
        BY <1>2, <3>1 DEF ToCreate, AllGuarded, Guarded, Unguarded
      <3>3. c = run[q].cluster /\ c \in Cluster
        BY <1>2, <2>1, <3>1, Good DEF GoodRun
      <3>4. /\ k # run[q].step => Known(c, g) = {}
            /\ k = run[q].step => Cardinality(Known(c, g)) <= run[q].done
        BY <1>2, <3>2, <3>3 DEF Fresh
      <3>5. run[r].cluster # c
        BY <2>4, <3>3, GroupsAre DEF Apart
      <3>6. Known(c, g)' \subseteq Known(c, g)
        BY <3>3, <3>5, KnownStep
      <3>7. QED
        BY <2>1, <3>1, <3>4, <3>6, KnownIs, NoMore
    <2>5. QED
      BY <2>3, <2>4
  <1>3. QED
    BY <1>2 DEF Fresh

LEMMA CreatedStep ==
    ASSUME TypeInv, Fresh, CreatedOnce, NEW r \in Run, RunStep(r),
           NEW c \in Cluster, NEW g \in GroupSet, AllGuarded(g)
    PROVE  \E d \in Cluster : Cardinality(Known(c, g)') <= Count[d][g]
  <1>0. Known(c, g) \subseteq VM /\ \A d \in Cluster : Count[d][g] \in Nat
    BY GroupsAre, KnownIs
  <1>1. PICK d \in Cluster : Cardinality(Known(c, g)) <= Count[d][g]
    BY DEF CreatedOnce, AllGuarded, Known
  <1>2. CASE Known(c, g)' \subseteq Known(c, g)
    BY <1>0, <1>1, <1>2, NoMore
  <1>3. CASE LaunchItem(r) /\ run[r].cluster = c /\ Task(r) = g
    <2>1. /\ run[r].pc = "create" /\ run[r].conf \in Cluster
          /\ run[r].step \in 1..Len(Groups)
          /\ run[r].done \in Nat /\ Batch(r) \in Nat
          /\ run[r].done + Batch(r) <= Count[run[r].conf][g]
          /\ ~(run[r].skip /\ g \notin Unguarded)
      BY <1>3, Request DEF LaunchItem
    <2>2. run[r].step >= run[r].step /\ Groups[run[r].step] = g
      BY <1>3, <2>1 DEF Task
    <2>3. ToCreate(r, run[r].step)
      BY <2>1, <2>2 DEF ToCreate
    <2>4. Cardinality(Known(c, g)) <= run[r].done
      BY <1>3, <2>1, <2>2, <2>3 DEF Fresh
    <2>5. PICK new \in SUBSET VM : /\ Cardinality(new) = Batch(r)
                                   /\ Known(c, g)' \subseteq Known(c, g) \union new
      BY <1>3, Launching
    <2>6. Cardinality(Known(c, g)') <= run[r].done + Batch(r)
      BY <1>0, <2>1, <2>4, <2>5, Fewer
    <2>7. Cardinality(Known(c, g)') \in Nat
      <3>1. IsFiniteSet(new) /\ IsFiniteSet(Known(c, g))
        BY <1>0, GroupsAre, FS_Subset
      <3>2. IsFiniteSet(Known(c, g) \union new)
        BY <3>1, FS_Union
      <3>3. IsFiniteSet(Known(c, g)')
        BY <2>5, <3>2, FS_Subset
      <3>4. QED
        BY <3>3, FS_CardinalityType
    <2>8. Cardinality(Known(c, g)') <= Count[run[r].conf][g]
      BY <1>0, <2>1, <2>6, <2>7
    <2>9. QED
      BY <2>1, <2>8
  <1>4. QED
    BY <1>2, <1>3, KnownStep

LEMMA OnceInit == ASSUME Init PROVE OnceInv
  <1>1. \A r \in Run : run[r].pc = "idle"
    BY IdleType DEF Init
  <1>2. Pending = {} /\ Running = {}
    BY DEF Init, NoVM, Pending, Running
  <1>3. ASSUME NEW c \in Cluster, NEW g \in GroupSet
        PROVE  \E d \in Cluster : Cardinality(Members(c, g) \ missed) <= Count[d][g]
    <2>1. Members(c, g) \ missed = {}
      BY <1>2 DEF Members
    <2>2. Cardinality(Members(c, g) \ missed) = 0
      BY <2>1, FS_EmptySet
    <2>3. Count[c][g] \in Nat
      BY GroupsAre
    <2>4. QED
      BY <2>2, <2>3
  <1>4. QED
    BY <1>1, <1>3, KillInit DEF OnceInv, Fresh, ToCreate, CreatedOnce

LEMMA OnceStep ==
    ASSUME TypeInv, OnePerCluster, \A c \in Cluster : Safe[c] = c, OnceInv, [Next]_vars
    PROVE  OnceInv'
  <1>1. KillInv'
    BY KillStep DEF OnceInv
  <1>2. CASE CacheExpires \/ UNCHANGED vars \/ \E w \in VM : BootUp(w)
    <2>1. /\ run' = run /\ missed' = missed /\ Alive' = Alive
          /\ \A v \in VM : vm'[v].cluster = vm[v].cluster /\ vm'[v].group = vm[v].group
      BY <1>2, BootStep
    <2>2. Alive \subseteq VM
      BY DEF Alive, Pending, Running
    <2>3. ASSUME NEW c, NEW g
          PROVE  Members(c, g)' = Members(c, g)
      <3>1. Members(c, g) = {v \in Alive : vm[v].cluster = c /\ vm[v].group = g}
        BY DEF Members, Alive
      <3>2. Members(c, g)' = {v \in Alive' : vm'[v].cluster = c /\ vm'[v].group = g}
        BY DEF Members, Alive
      <3>3. QED
        BY <2>1, <2>2, <3>1, <3>2
    <2>4. \A c, g : Known(c, g)' = Known(c, g)
      BY <2>1, <2>3 DEF Known
    <2>5. \A r \in Run, k \in 1..Len(Groups) : ToCreate(r, k)' = ToCreate(r, k)
      BY <2>1 DEF ToCreate, AllGuarded, Guarded, Unguarded
    <2>6. Fresh'
      BY <2>1, <2>4, <2>5 DEF OnceInv, Fresh
    <2>7. CreatedOnce'
      BY <2>1, <2>3 DEF OnceInv, CreatedOnce, Guarded, Unguarded
    <2>8. QED
      BY <1>1, <2>6, <2>7 DEF OnceInv
  <1>3. ASSUME NEW r \in Run, RunStep(r)
        PROVE  OnceInv'
    <2>1. Fresh'
      BY <1>3, FreshStep DEF OnceInv, KillInv
    <2>2. ASSUME NEW c \in Cluster, NEW g \in GroupSet, AllGuarded(g)
          PROVE  \E d \in Cluster : Cardinality(Known(c, g)') <= Count[d][g]
      BY <1>3, <2>2, CreatedStep DEF OnceInv
    <2>3. CreatedOnce'
      BY <2>2 DEF CreatedOnce, AllGuarded, Guarded, Unguarded, Known
    <2>4. QED
      BY <1>1, <2>1, <2>3 DEF OnceInv
  <1>4. QED
    BY <1>2, <1>3, Steps

\* crush and skip_starter keep a cluster from being created twice, but for what
\* the code gives no protection from, for every number of clusters and machines,
\* of groups and of runs that fail anywhere, cached or not: where no two runs of
\* one cluster overlap, and ids are such as group names keep.
THEOREM CreatedOnceHolds ==
    ASSUME OnePerCluster, \A c \in Cluster : Safe[c] = c
    PROVE  Spec => []CreatedOnce
  <1>1. Init => TypeInv /\ OnceInv
    BY TypeInit, OnceInit
  <1>2. (TypeInv /\ OnceInv) /\ [Next]_vars => (TypeInv /\ OnceInv)'
    BY TypeStep, OnceStep
  <1>3. TypeInv /\ OnceInv => CreatedOnce
    BY DEF OnceInv
  <1>4. QED
    BY <1>1, <1>2, <1>3, PTL DEF Spec
=============================================================================
