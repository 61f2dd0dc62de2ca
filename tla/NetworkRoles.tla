---------------------------- MODULE NetworkRoles ----------------------------
(***************************************************************************)
(* The playbooks fabric-network, fabric-network-cleanup and                *)
(* fabric-network-restart: the containers of certificate authorities,      *)
(* orderers and peers on their machines.  A playbook is a list of plays;   *)
(* in a play ansible takes the hosts of a group through the tasks of its   *)
(* role, drops those that fail, and gives up once a play has none left.    *)
(* Every role ends by waiting five seconds and then looking whether any    *)
(* container runs on the machine.                                          *)
(*                                                                         *)
(* Keys and genesis block are generated into one directory, network_dist,  *)
(* which every start removes and fills anew, as far as the generator gets. *)
(* The roles copy it to the hosts, and delete nothing there.  What counts  *)
(* is of which generations the files are that a container was made from.   *)
(***************************************************************************)
EXTENDS Integers, Sequences, FiniteSets

CONSTANTS Node,      \* cas, orderers and peers
          Role,      \* Role[n]: "cas", "orderers" or "peers"
          Machine,
          Place,     \* Place[n]: the machine of node n
          Busy,      \* the sets of machines on which another container may run
          MayDie,    \* whether a container may die
          MaxGen     \* bound: generations of artifacts

ASSUME RolesAssumption ==
    /\ Role \in [Node -> {"cas", "orderers", "peers"}]
    /\ \A role \in {"cas", "orderers", "peers"} : \E n \in Node : Role[n] = role
    /\ Place \in [Node -> Machine] /\ Busy \subseteq SUBSET Machine
    /\ MayDie \in BOOLEAN /\ MaxGen \in Nat

VARIABLES
    gen,     \* the generations of artifacts begun so far
    dist,    \* what network_dist has of the last one: the nodes with keys, and
             \* whether it has the directory channel-artifacts and genesis.block
    disk,    \* what was copied to each node: the generations of its keys, and
             \* that of its genesis block (0 for none)
    up,      \* each node's container: none, up or dead
    made,    \* what was on the node's disk when its container was made
    busy,    \* the machines on which another container runs
    topics,  \* what kafka keeps: messages older than this playbook, new ones
    kept,    \* what the deletion of topics in this playbook left of them
    fresh,   \* the nodes with a container made by this playbook, or the last one
    early,   \* those of which one died after its start, before its check
    mode,    \* the playbook that runs, or idle
    play,    \* the play it is at
    phase,   \* apply or check, the two parts of a role
    todo,    \* the hosts still to go through it
    failed,  \* the hosts it has dropped
    last     \* the playbook that ended last, and whether no host failed

run == <<mode, play, phase, todo, failed, last>>
kafka == <<topics, kept>>
hosts == <<disk, up, made, fresh, early>>
vars == <<gen, dist, busy, kafka, hosts, run>>

Hosts(role) == {n \in Node : Role[n] = role}
single_orderer == Cardinality(Hosts("orderers")) = 1

Do(role, state) == [role |-> role, state |-> state]
Generate   == Do("generate", "once")
KafkaPurge == Do("purge", "once")

fabric_network == <<Generate, Do("cas", "started"), Do("orderers", "started"),
                    Do("peers", "started")>>

\* Mutant: kafka is purged first.
fabric_network_cleanup_late == <<KafkaPurge, Do("cas", "absent"),
                                 Do("orderers", "absent"), Do("peers", "absent")>>

fabric_network_cleanup == <<Do("cas", "absent"), Do("orderers", "absent"),
                            Do("peers", "absent"), KafkaPurge>>

fabric_network_restart == <<Do("cas", "started"), Do("orderers", "started"),
                            Do("peers", "started")>>

\* aws-project-starter, aws-project-restarter
Plays(m) == IF m = "start" THEN fabric_network
            ELSE fabric_network_cleanup \o fabric_network_restart

NoFiles == [keys |-> {}, genesis |-> 0]

Init ==
    /\ gen = 0 /\ dist = [keys |-> {}, dir |-> FALSE, genesis |-> FALSE]
    /\ disk = [n \in Node |-> NoFiles]
    /\ up = [n \in Node |-> "none"]
    /\ made = [n \in Node |-> NoFiles]
    /\ busy \in Busy /\ topics = {} /\ kept = {} /\ fresh = {} /\ early = {}
    /\ mode = "idle" /\ play = 0 /\ phase = "apply" /\ todo = {} /\ failed = {}
    /\ last = [mode |-> "idle", ok |-> FALSE]

Current == Plays(mode)[play]
Playing == mode # "idle" /\ play <= Len(Plays(mode))
At(p) == Playing /\ Current = p
InRole == Playing /\ Current \notin {Generate, KafkaPurge}

\* The hosts of play k of playbook m that have not failed.
Left(m, k) == IF k > Len(Plays(m)) THEN {} ELSE Hosts(Plays(m)[k].role) \ failed

Begin(m) ==
    /\ mode = "idle" /\ (m = "start" => gen < MaxGen)
    /\ mode' = m /\ play' = 1 /\ phase' = "apply" /\ failed' = {}
    /\ todo' = Hosts(Plays(m)[1].role)
    /\ topics' = IF topics = {} THEN {} ELSE {"old"}
    /\ kept' = {} /\ fresh' = {} /\ early' = {}
    /\ UNCHANGED <<gen, dist, disk, up, made, busy, last>>

End(ok) ==
    /\ last' = [mode |-> mode, ok |-> ok]
    /\ mode' = "idle" /\ play' = 0 /\ phase' = "apply" /\ todo' = {} /\ failed' = {}

NextPlay ==
    /\ play' = play + 1 /\ phase' = "apply" /\ todo' = Left(mode, play + 1)
    /\ UNCHANGED <<mode, failed, last>>

\* All hosts of the play have gone through its part; if none is left, ansible
\* stops.
EndPhase ==
    /\ InRole /\ todo = {}
    /\ \/ Left(mode, play) = {} /\ End(FALSE)
       \/ Left(mode, play) # {} /\ phase = "check" /\ NextPlay
       \/ /\ Left(mode, play) # {} /\ phase = "apply"
          /\ phase' = "check" /\ todo' = Left(mode, play)
          /\ UNCHANGED <<mode, play, failed, last>>
    /\ UNCHANGED <<gen, dist, busy, kafka, hosts>>

Finish ==
    /\ mode # "idle" /\ play > Len(Plays(mode))
    /\ End(failed = {})
    /\ UNCHANGED <<gen, dist, busy, kafka, hosts>>
-----------------------------------------------------------------------------
(* fabric-artifacts-generator: the directory is removed, then filled. *)

AllKeys(genesis) == [keys |-> Node, dir |-> TRUE, genesis |-> genesis]

GenerateArtifacts ==
    /\ At(Generate)
    /\ gen' = gen + 1 /\ dist' = AllKeys(TRUE)
    /\ NextPlay
    /\ UNCHANGED <<busy, kafka, hosts>>

\* generate.sh stops where a command fails: among the keys, or after them, with
\* or without a genesis block.
GenerateFails ==
    /\ At(Generate)
    /\ gen' = gen + 1
    /\ \/ \E keys \in SUBSET Node : dist' = [keys |-> keys, dir |-> FALSE, genesis |-> FALSE]
       \/ \E genesis \in BOOLEAN : dist' = AllKeys(genesis)
    /\ End(FALSE)
    /\ UNCHANGED <<busy, kafka, hosts>>

\* kafka-purge, on the first kafka host, when there is more than one orderer.
\* Errors of the deletion are ignored.
PurgeKafka ==
    /\ At(KafkaPurge)
    /\ topics' \in IF single_orderer THEN {topics} ELSE SUBSET topics
    /\ kept' = topics'
    /\ NextPlay
    /\ UNCHANGED <<gen, dist, busy, hosts>>

\* The kafka host does not answer at all, and no host is left.
KafkaUnreachable ==
    /\ At(KafkaPurge) /\ ~single_orderer
    /\ End(FALSE)
    /\ UNCHANGED <<gen, dist, busy, kafka, hosts>>
-----------------------------------------------------------------------------
(* fabric-ca, fabric-orderer, fabric-peer *)

\* container_state, which a single orderer's task does not look at.
State(p) == IF p.role = "orderers" /\ single_orderer THEN "started" ELSE p.state

Applying(n) == InRole /\ phase = "apply" /\ n \in todo

\* What a host has after a copy from network_dist: an orderer gets the channel
\* artifacts first.  Keys have the same names in every generation, but those of
\* a CA, where the old ones stay.
WithGenesis(n) ==
    [disk[n] EXCEPT !.genesis = IF Role[n] = "orderers" /\ dist.genesis THEN gen ELSE @]
WithKeys(n) ==
    [WithGenesis(n) EXCEPT !.keys = (IF Role[n] = "cas" THEN @ ELSE {}) \union {gen}]

\* There is everything to copy for a host that the role asks for.
Available(n) == n \in dist.keys /\ (Role[n] = "orderers" => dist.dir)

\* Mutant: state started alone, without recreate, leaves a container that runs.
ApplyRoleOnce(n) ==
    /\ Applying(n) /\ Available(n)
    /\ disk' = [disk EXCEPT ![n] = WithKeys(n)]
    /\ IF State(Current) = "started"
       THEN IF up[n] = "up" THEN UNCHANGED <<up, made, fresh>>
            ELSE /\ up' = [up EXCEPT ![n] = "up"]
                 /\ made' = [made EXCEPT ![n] = WithKeys(n)]
                 /\ fresh' = fresh \union {n}
       ELSE /\ up' = [up EXCEPT ![n] = "none"]
            /\ made' = [made EXCEPT ![n] = NoFiles]
            /\ fresh' = fresh \ {n}
    /\ todo' = todo \ {n}
    /\ UNCHANGED <<gen, dist, busy, kafka, early, mode, play, phase, failed, last>>

\* Mutant: a container that is removed is still counted.
ApplyRoleKeep(n) ==
    /\ Applying(n) /\ Available(n)
    /\ disk' = [disk EXCEPT ![n] = WithKeys(n)]
    /\ up' = [up EXCEPT ![n] = IF State(Current) = "started" THEN "up" ELSE "none"]
    /\ made' = [made EXCEPT ![n] = WithKeys(n)]
    /\ fresh' = fresh \union {n}
    /\ todo' = todo \ {n}
    /\ UNCHANGED <<gen, dist, busy, kafka, early, mode, play, phase, failed, last>>

Remove(n) ==
    /\ up' = [up EXCEPT ![n] = "none"]
    /\ made' = [made EXCEPT ![n] = NoFiles]
    /\ fresh' = fresh \ {n}

\* The artifacts are copied, also for a container that is to be absent; then it
\* is made anew, or removed.
ApplyRole(n) ==
    /\ Applying(n) /\ Available(n)
    /\ disk' = [disk EXCEPT ![n] = WithKeys(n)]
    /\ IF State(Current) = "started"
       THEN /\ up' = [up EXCEPT ![n] = "up"]
            /\ made' = [made EXCEPT ![n] = WithKeys(n)]
            /\ fresh' = fresh \union {n}
       ELSE Remove(n)
    /\ todo' = todo \ {n}
    /\ UNCHANGED <<gen, dist, busy, kafka, early, mode, play, phase, failed, last>>

\* A host fails: before its files are copied, between them (as it does where
\* there are none to copy), or after the removal of the old container.
ApplyFails(n) ==
    /\ Applying(n)
    /\ \/ disk' = disk /\ UNCHANGED <<up, made, fresh>>
       \/ disk' = [disk EXCEPT ![n] = WithGenesis(n)] /\ UNCHANGED <<up, made, fresh>>
       \/ /\ Available(n) /\ disk' = [disk EXCEPT ![n] = WithKeys(n)]
          /\ UNCHANGED <<up, made, fresh>> \/ Remove(n)
    /\ todo' = todo \ {n} /\ failed' = failed \union {n}
    /\ UNCHANGED <<gen, dist, busy, kafka, early, mode, play, phase, last>>

\* The play has started the container of node n and not looked after it yet.
Unchecked(n) ==
    /\ InRole /\ n \in Left(mode, play)
    /\ IF phase = "apply" THEN n \notin todo ELSE n \in todo

\* A container ends: within the five seconds after its start, or later.
Die(n) ==
    /\ MayDie /\ up[n] = "up"
    /\ up' = [up EXCEPT ![n] = "dead"]
    /\ early' = IF Unchecked(n) THEN early \union {n} ELSE early
    /\ UNCHANGED <<gen, dist, disk, made, busy, kafka, fresh, run>>

\* An orderer that runs writes to kafka, unless it is the only one.
Write(n) ==
    /\ Role[n] = "orderers" /\ ~single_orderer /\ up[n] = "up" /\ made[n].genesis # 0
    /\ topics' = topics \union {IF n \in fresh THEN "new" ELSE "old"}
    /\ UNCHANGED <<gen, dist, busy, kept, hosts, run>>

\* docker ps -q on the machine of node n prints something.
DockerPs(n) == \/ Place[n] \in busy
               \/ \E m \in Node : Place[m] = Place[n] /\ up[m] = "up"

\* Mutant: the role ends without a look at the containers.
CheckNothing(n) ==
    /\ InRole /\ phase = "check" /\ n \in todo
    /\ todo' = todo \ {n}
    /\ UNCHANGED <<gen, dist, busy, kafka, hosts, mode, play, phase, failed, last>>

\* The host fails where no container runs; it may fail anyway.
CheckContainer(n) ==
    /\ InRole /\ phase = "check" /\ n \in todo
    /\ todo' = todo \ {n}
    /\ \/ failed' = failed \union {n}
       \/ DockerPs(n) /\ failed' = failed
    /\ UNCHANGED <<gen, dist, busy, kafka, hosts, mode, play, phase, last>>

Next ==
    \/ Begin("start") \/ Begin("restart") \/ EndPhase \/ Finish
    \/ GenerateArtifacts \/ GenerateFails \/ PurgeKafka \/ KafkaUnreachable
    \/ \E n \in Node : \/ ApplyRole(n) \/ ApplyFails(n) \/ CheckContainer(n)
                       \/ Die(n) \/ Write(n)

Spec == Init /\ [][Next]_vars
-----------------------------------------------------------------------------
(* Properties *)

Files == [keys : SUBSET (1..gen), genesis : 0..gen]

\* The type invariant: files and containers are of generations that were begun,
\* a node has a container if and only if it was made from some, and a genesis
\* block has a directory.
TypeOK ==
    /\ gen \in 0..MaxGen
    /\ dist \in [keys : SUBSET Node, dir : BOOLEAN, genesis : BOOLEAN]
    /\ dist.genesis => dist.dir
    /\ disk \in [Node -> Files] /\ made \in [Node -> Files]
    /\ up \in [Node -> {"none", "up", "dead"}] /\ busy \in Busy
    /\ \A n \in Node : up[n] = "none" <=> made[n].keys = {}
    /\ topics \subseteq {"old", "new"} /\ kept \subseteq {"old", "new"}
    /\ fresh \subseteq Node /\ early \subseteq Node
    /\ mode \in {"idle", "start", "restart"} /\ play \in 0..8
    /\ phase \in {"apply", "check"} /\ todo \subseteq Node /\ failed \subseteq Node
    /\ last \in [mode : {"idle", "start", "restart"}, ok : BOOLEAN]

\* A playbook has ended, and every host went through it.
EndedWell == mode = "idle" /\ last.ok

\* The container of a node was made from the last artifacts.
OfLast(n) ==
    /\ gen \in made[n].keys
    /\ Role[n] # "cas" => made[n].keys = {gen}
    /\ Role[n] = "orderers" => made[n].genesis = gen

\* After a playbook that ended with no failed host all containers were made from
\* the same artifacts, those in network_dist, whatever generations, copies and
\* playbooks failed half-way before and left older files on the hosts - if the
\* last generation, at least, was complete.
EndsAlike == EndedWell /\ dist = AllKeys(TRUE) => \A n \in Node : OfLast(n)

\* A container that dies between its start and its check, while other hosts
\* start theirs, is noticed: the playbook does not end well, unless something
\* else runs on the machine.
NoticesDeaths ==
    EndedWell => \A n \in early :
       \/ Place[n] \in busy
       \/ \E m \in Node \ {n} : Place[m] = Place[n]

\* After a restart that ended well, kafka keeps messages of the old network only
\* if the deletion of topics left them: no old orderer runs, and writes, once it
\* has begun.
NoLateMessages ==
    EndedWell /\ last.mode = "restart" /\ "old" \in topics => "old" \in kept

-----------------------------------------------------------------------------
(* What the repository says and the code does not keep to. *)

\* fabric-network-cleanup.yaml, line 1: "kill all fabric containers and clean
\* kafka cluster".  After a restart that ended well nothing old is in kafka.
TopicsAreCurrent == EndedWell /\ last.mode = "restart" => "old" \notin topics

\* fabric-ca/tasks/main.yml, line 13: "Find key ca_keyfile name".  A CA is given
\* the name of one key file.
OneKeyFile == \A n \in Hosts("cas") : Cardinality(made[n].keys) <= 1

\* "Docker container for peer node is not alive" and the like (fabric-peer/
\* tasks/main.yml line 105) is what a play says of a host whose container does
\* not run: it goes on with a host only if the node's container is alive.
CheckedIsAlive ==
    InRole /\ phase = "check" /\ Current.state = "started" =>
       \A n \in todo : DockerPs(n) => up[n] = "up"

\* aws-project-restarter.yaml, line 2: "reinstalls cluster on aws with whole
\* project".  A play drops a host only if a container that should run does not.
DropsOnlyTheDead ==
    InRole /\ phase = "check" =>
       \A n \in todo : ~DockerPs(n) => Current.state = "started" /\ up[n] # "up"

\* fabric-network-cleanup.yaml, line 1: "kill all fabric containers".  When the
\* roles were removed, none has a container but on hosts that failed.
CleanupRemovesAll == At(KafkaPurge) => \A n \in Node \ failed : up[n] = "none"
=============================================================================
