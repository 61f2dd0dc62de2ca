------------------------ MODULE NetworkRoles_proofs ------------------------
(***************************************************************************)
(* What NetworkRoles guarantees for every number of cas, orderers and      *)
(* peers, every placement of them on machines, and whatever else runs      *)
(* there.                                                                  *)
(***************************************************************************)
EXTENDS NetworkRoles, TLAPS

-----------------------------------------------------------------------------
(* The plays                                                               *)

Rank(role) == CASE role = "cas" -> 1 [] role = "orderers" -> 2 [] role = "peers" -> 3

\* The plays that come before those that start the roles, in order of rank.
Before(m) == IF m = "start" THEN 1 ELSE 4

\* The plays that take a role through its hosts.
RolePlays(m) == IF m = "start" THEN 2..4 ELSE 1..7 \ {4}

\* The play that starts the containers of node n.
StartOf(n) == Before(mode) + Rank(Role[n])

\* Where a playbook may be: between two plays, or within one of a role, which
\* goes through hosts of that role that have not failed.
RunOK ==
    /\ mode = "idle" => play = 0 /\ phase = "apply" /\ failed = {} /\ todo = {}
    /\ mode = "start" => play \in 1..5
    /\ mode = "restart" => play \in 1..8
    /\ mode = "start" /\ play = 1 => gen < MaxGen
    /\ phase = "check" => mode # "idle" /\ play \in RolePlays(mode)
    /\ mode # "idle" /\ play \in RolePlays(mode) => todo \subseteq Left(mode, play)

\* Before the first generation there are no artifacts.
DistOK == gen = 0 => dist.keys = {} /\ ~dist.genesis

\* The type invariant with what it takes.
TypeInv == TypeOK /\ RunOK /\ DistOK

\* aws-project-starter: the artifacts, then the three roles.
LEMMA StartPlays ==
    /\ Len(Plays("start")) = 4
    /\ Plays("start")[1] = Generate
    /\ Plays("start")[2] = Do("cas", "started")
    /\ Plays("start")[3] = Do("orderers", "started")
    /\ Plays("start")[4] = Do("peers", "started")
  BY DEF Plays, fabric_network

\* aws-project-restarter: the three roles removed, kafka emptied, the roles again.
LEMMA RestartPlays ==
    /\ Len(Plays("restart")) = 7
    /\ Plays("restart")[1] = Do("cas", "absent")
    /\ Plays("restart")[2] = Do("orderers", "absent")
    /\ Plays("restart")[3] = Do("peers", "absent")
    /\ Plays("restart")[4] = KafkaPurge
    /\ Plays("restart")[5] = Do("cas", "started")
    /\ Plays("restart")[6] = Do("orderers", "started")
    /\ Plays("restart")[7] = Do("peers", "started")
  <1> DEFINE c == <<Do("cas", "absent"), Do("orderers", "absent"),
                    Do("peers", "absent"), KafkaPurge>>
             s == <<Do("cas", "started"), Do("orderers", "started"), Do("peers", "started")>>
  <1>1. Plays("restart") = c \o s
    BY DEF Plays, fabric_network_cleanup, fabric_network_restart
  <1>2. QED
    BY <1>1

\* A play that generates or purges is no play of a role.
LEMMA OncePlays ==
    ASSUME NEW role \in {"cas", "orderers", "peers"}, NEW state
    PROVE  Do(role, state) \notin {Generate, KafkaPurge} /\ Generate # KafkaPurge
  BY DEF Do, Generate, KafkaPurge

\* Where the playbook is, told from the play it is at.
LEMMA Where ==
    ASSUME mode \in {"start", "restart"}, RunOK
    PROVE  /\ At(Generate) => mode = "start" /\ play = 1
           /\ At(KafkaPurge) => mode = "restart" /\ play = 4
           /\ Playing <=> play <= Before(mode) + 3
           /\ InRole <=> play \in RolePlays(mode)
           /\ play \in RolePlays(mode) =>
                 /\ Left(mode, play) = Hosts(Current.role) \ failed
                 /\ Current.role \in {"cas", "orderers", "peers"}
                 /\ play > Before(mode) => /\ Current.state = "started"
                                           /\ play = Before(mode) + Rank(Current.role)
                 /\ play < Before(mode) => /\ Current.state = "absent"
                                           /\ play = Rank(Current.role)
  <1>0. /\ mode # "idle"
        /\ ~(play > Len(Plays(mode))) => Left(mode, play) = Hosts(Current.role) \ failed
    BY DEF Left, Current
  <1>1. CASE mode = "start"
    <2>0. Len(Plays(mode)) = 4 /\ play \in 1..5 /\ Before(mode) = 1 /\ RolePlays(mode) = 2..4
      BY <1>1, StartPlays DEF RunOK, Before, RolePlays
    <2>1. Playing <=> play <= 4
      BY <1>0, <2>0 DEF Playing
    <2>2. CASE play = 1
      BY <1>1, <2>0, <2>1, <2>2, StartPlays, OncePlays DEF At, InRole, Current
    <2>3. CASE play \in 2..4
      <3>1. PICK role \in {"cas", "orderers", "peers"} :
               Current = Do(role, "started") /\ play = 1 + Rank(role)
        BY <1>1, <2>3, StartPlays DEF Current, Rank
      <3>2. Current.role = role /\ Current.state = "started"
        BY <3>1 DEF Do
      <3>3. Current \notin {Generate, KafkaPurge}
        BY <3>1, OncePlays
      <3>4. QED
        BY <1>0, <2>0, <2>1, <2>3, <3>1, <3>2, <3>3 DEF At, InRole
    <2>4. CASE play = 5
      BY <2>0, <2>1, <2>4 DEF At, InRole
    <2>5. QED
      BY <2>0, <2>2, <2>3, <2>4
  <1>2. CASE mode = "restart"
    <2>0. Len(Plays(mode)) = 7 /\ play \in 1..8 /\ Before(mode) = 4 /\ RolePlays(mode) = 1..7 \ {4}
      BY <1>2, RestartPlays DEF RunOK, Before, RolePlays
    <2>1. Playing <=> play <= 7
      BY <1>0, <2>0 DEF Playing
    <2>2. CASE play \in 1..3
      <3>1. PICK role \in {"cas", "orderers", "peers"} :
               Current = Do(role, "absent") /\ play = Rank(role)
        BY <1>2, <2>2, RestartPlays DEF Current, Rank
      <3>2. Current.role = role /\ Current.state = "absent"
        BY <3>1 DEF Do
      <3>3. Current \notin {Generate, KafkaPurge}
        BY <3>1, OncePlays
      <3>4. QED
        BY <1>0, <2>0, <2>1, <2>2, <3>1, <3>2, <3>3 DEF At, InRole
    <2>3. CASE play = 4
      BY <1>2, <2>0, <2>1, <2>3, RestartPlays, OncePlays DEF At, InRole, Current
    <2>4. CASE play \in 5..7
      <3>1. PICK role \in {"cas", "orderers", "peers"} :
               Current = Do(role, "started") /\ play = 4 + Rank(role)
        BY <1>2, <2>4, RestartPlays DEF Current, Rank
      <3>2. Current.role = role /\ Current.state = "started"
        BY <3>1 DEF Do
      <3>3. Current \notin {Generate, KafkaPurge}
        BY <3>1, OncePlays
      <3>4. QED
        BY <1>0, <2>0, <2>1, <2>4, <3>1, <3>2, <3>3 DEF At, InRole
    <2>5. CASE play = 8
      BY <2>0, <2>1, <2>5 DEF At, InRole
    <2>6. QED
      BY <2>0, <2>2, <2>3, <2>4, <2>5
  <1>3. QED
    BY <1>1, <1>2

\* The play that starts a node is the one of its role.
LEMMA StartOfNode ==
    ASSUME mode \in {"start", "restart"}, RunOK, NEW n \in Node
    PROVE  /\ StartOf(n) \in Before(mode) + 1 .. Before(mode) + 3
           /\ Before(mode) \in {1, 4}
           /\ play \in RolePlays(mode) /\ play > Before(mode)
              => (play = StartOf(n) <=> n \in Hosts(Current.role))
           /\ n \in Left(mode, StartOf(n)) <=> n \notin failed
  <1>1. Role[n] \in {"cas", "orderers", "peers"}
    BY RolesAssumption
  <1>2. Rank(Role[n]) \in 1..3
    BY <1>1 DEF Rank
  <1>3. Before(mode) \in {1, 4}
    BY DEF Before
  <1>4. ASSUME play \in RolePlays(mode), play > Before(mode)
        PROVE  play = StartOf(n) <=> n \in Hosts(Current.role)
    <2>1. /\ Current.role \in {"cas", "orderers", "peers"}
          /\ play = Before(mode) + Rank(Current.role)
      BY <1>4, Where
    <2>2. Rank(Current.role) = Rank(Role[n]) <=> Current.role = Role[n]
      BY <1>1, <2>1 DEF Rank
    <2>3. Rank(Current.role) \in 1..3
      BY <2>1 DEF Rank
    <2>4. n \in Hosts(Current.role) <=> Role[n] = Current.role
      BY DEF Hosts
    <2>5. QED
      BY <1>2, <1>3, <2>1, <2>2, <2>3, <2>4 DEF StartOf
  <1>5. n \in Left(mode, StartOf(n)) <=> n \notin failed
    <2>1. CASE mode = "start"
      <3>1. Len(Plays(mode)) = 4 /\ StartOf(n) = 1 + Rank(Role[n])
        BY <2>1, StartPlays DEF StartOf, Before
      <3>2. Plays(mode)[StartOf(n)].role = Role[n]
        BY <1>1, <2>1, <3>1, StartPlays DEF Rank, Do
      <3>3. QED
        BY <1>2, <3>1, <3>2 DEF Left, Hosts
    <2>2. CASE mode = "restart"
      <3>1. Len(Plays(mode)) = 7 /\ StartOf(n) = 4 + Rank(Role[n])
        BY <2>2, RestartPlays DEF StartOf, Before
      <3>2. Plays(mode)[StartOf(n)].role = Role[n]
        BY <1>1, <2>2, <3>1, RestartPlays DEF Rank, Do
      <3>3. QED
        BY <1>2, <3>1, <3>2 DEF Left, Hosts
    <2>3. QED
      BY <2>1, <2>2
  <1>6. QED
    BY <1>2, <1>3, <1>4, <1>5 DEF StartOf

\* What is left of a role's hosts are nodes.
LEMMA LeftIsNodes ==
    ASSUME NEW m, NEW k
    PROVE  Left(m, k) \subseteq Node
  BY DEF Left, Hosts
-----------------------------------------------------------------------------
(* Type correctness                                                        *)

RunTypeOK ==
    /\ mode \in {"idle", "start", "restart"} /\ play \in 0..8
    /\ phase \in {"apply", "check"} /\ todo \subseteq Node /\ failed \subseteq Node
    /\ last \in [mode : {"idle", "start", "restart"}, ok : BOOLEAN]

\* A playbook ends, or goes on to its next play with all hosts that are left.
LEMMA EndRun ==
    ASSUME RunTypeOK, NEW ok \in BOOLEAN, End(ok)
    PROVE  RunOK' /\ RunTypeOK'
  BY DEF End, RunOK, RunTypeOK

LEMMA NextPlayRun ==
    ASSUME RunOK, RunTypeOK, NextPlay, play >= 1,
           (mode = "start" /\ play <= 4) \/ (mode = "restart" /\ play <= 7)
    PROVE  RunOK' /\ RunTypeOK'
  <1>1. /\ mode' = mode /\ play' = play + 1 /\ phase' = "apply"
        /\ failed' = failed /\ last' = last /\ todo' = Left(mode, play + 1)
    BY DEF NextPlay
  <1>2. todo' \subseteq Node
    BY <1>1, LeftIsNodes
  <1>3. todo' \subseteq Left(mode, play)'
    BY <1>1 DEF Left, Hosts
  <1>4. play \in 1..7 /\ (mode = "start" => play \in 1..4)
    BY DEF RunTypeOK
  <1>5. QED
    BY <1>1, <1>2, <1>3, <1>4 DEF RunOK, RunTypeOK

\* A play of a role is one of these, with a playbook that runs.
LEMMA RoleAt ==
    ASSUME TypeInv, InRole
    PROVE  /\ mode \in {"start", "restart"} /\ play \in RolePlays(mode)
           /\ play \in 1..7 /\ (mode = "start" => play \in 2..4)
           /\ Current.role \in {"cas", "orderers", "peers"}
           /\ Left(mode, play) = Hosts(Current.role) \ failed
           /\ todo \subseteq Left(mode, play)
  <1>1. mode \in {"start", "restart"}
    BY DEF TypeInv, TypeOK, InRole, Playing
  <1>2. play \in RolePlays(mode)
    BY <1>1, Where DEF TypeInv
  <1>3. play \in 1..7 /\ (mode = "start" => play \in 2..4)
    BY <1>1, <1>2 DEF RolePlays
  <1>4. QED
    BY <1>1, <1>2, <1>3, Where DEF TypeInv, RunOK

\* A host is through its part of the role.
LEMMA HostRun ==
    ASSUME TypeInv, InRole, NEW n \in todo, todo' = todo \ {n},
           failed' = failed \/ failed' = failed \union {n},
           UNCHANGED <<gen, mode, play, phase, last>>
    PROVE  RunOK' /\ RunTypeOK'
  <1>1. /\ mode \in {"start", "restart"} /\ play \in RolePlays(mode)
        /\ play \in 1..7 /\ (mode = "start" => play \in 2..4)
        /\ todo \subseteq Left(mode, play)
    BY RoleAt
  <1>2. RunTypeOK'
    BY DEF TypeInv, TypeOK, RunTypeOK
  <1>3. todo' \subseteq Left(mode, play)'
    BY <1>1 DEF Left, Hosts
  <1>4. QED
    BY <1>1, <1>2, <1>3 DEF RunOK, RunTypeOK, TypeInv

LEMMA RunType ==
    ASSUME TypeInv, [Next]_vars
    PROVE  RunOK' /\ RunTypeOK'
  <1>0. RunOK /\ RunTypeOK
    BY DEF TypeInv, TypeOK, RunTypeOK
  <1>1. ASSUME NEW m \in {"start", "restart"}, Begin(m)
        PROVE  RunOK' /\ RunTypeOK'
    <2>1. /\ mode' = m /\ play' = 1 /\ phase' = "apply" /\ failed' = {} /\ gen' = gen
          /\ todo' = Hosts(Plays(m)[1].role) /\ last' = last
          /\ m = "start" => gen < MaxGen
      BY <1>1 DEF Begin
    <2>2. todo' \subseteq Node
      BY <2>1 DEF Hosts
    <2>3. todo' \subseteq Left(m, 1)'
      BY <2>1, StartPlays, RestartPlays DEF Left, Hosts
    <2>4. QED
      BY <1>0, <2>1, <2>2, <2>3 DEF RunOK, RunTypeOK, RolePlays
  <1>2. CASE EndPhase
    <2>1. /\ mode \in {"start", "restart"} /\ play \in RolePlays(mode)
          /\ play \in 1..7 /\ (mode = "start" => play \in 2..4)
      BY <1>2, RoleAt DEF EndPhase
    <2>2. CASE End(FALSE)
      BY <1>0, <2>2, EndRun
    <2>3. CASE NextPlay
      BY <1>0, <2>1, <2>3, NextPlayRun
    <2>4. CASE phase' = "check" /\ todo' = Left(mode, play) /\ UNCHANGED <<mode, play, failed, last>>
      <3>1. todo' \subseteq Node
        BY <2>4, LeftIsNodes
      <3>2. gen' = gen
        BY <1>2 DEF EndPhase
      <3>3. todo' \subseteq Left(mode, play)'
        BY <2>4 DEF Left, Hosts
      <3>4. QED
        BY <1>0, <2>1, <2>4, <3>1, <3>2, <3>3 DEF RunOK, RunTypeOK
    <2>5. QED
      BY <1>2, <2>2, <2>3, <2>4 DEF EndPhase
  <1>3. CASE Finish
    <2>1. (failed = {}) \in BOOLEAN
      OBVIOUS
    <2>2. QED
      BY <1>0, <1>3, <2>1, EndRun DEF Finish
  <1>4. CASE GenerateArtifacts
    <2>1. mode = "start" /\ play = 1
      BY <1>0, <1>4, Where DEF GenerateArtifacts, At, Playing, RunTypeOK
    <2>2. QED
      BY <1>0, <1>4, <2>1, NextPlayRun DEF GenerateArtifacts
  <1>5. CASE GenerateFails \/ KafkaUnreachable
    BY <1>0, <1>5, EndRun DEF GenerateFails, KafkaUnreachable
  <1>6. CASE PurgeKafka
    <2>1. mode = "restart" /\ play = 4
      BY <1>0, <1>6, Where DEF PurgeKafka, At, Playing, RunTypeOK
    <2>2. QED
      BY <1>0, <1>6, <2>1, NextPlayRun DEF PurgeKafka
  <1>7. ASSUME NEW n \in Node, ApplyRole(n) \/ ApplyFails(n) \/ CheckContainer(n)
        PROVE  RunOK' /\ RunTypeOK'
    <2>1. /\ InRole /\ n \in todo /\ todo' = todo \ {n}
          /\ failed' = failed \/ failed' = failed \union {n}
          /\ UNCHANGED <<gen, mode, play, phase, last>>
      BY <1>7 DEF ApplyRole, ApplyFails, CheckContainer, Applying
    <2>2. QED
      BY <2>1, HostRun
  <1>8. CASE (\E n \in Node : Die(n) \/ Write(n)) \/ UNCHANGED vars
    <2>1. UNCHANGED <<gen, mode, play, phase, todo, failed, last>>
      BY <1>8 DEF Die, Write, run, vars
    <2>2. QED
      BY <1>0, <2>1 DEF RunOK, RunTypeOK, RolePlays, Left, Hosts
  <1>9. QED
    BY <1>1, <1>2, <1>3, <1>4, <1>5, <1>6, <1>7, <1>8 DEF Next

DataTypeOK ==
    /\ gen \in 0..MaxGen
    /\ dist \in [keys : SUBSET Node, dir : BOOLEAN, genesis : BOOLEAN]
    /\ dist.genesis => dist.dir
    /\ disk \in [Node -> Files] /\ made \in [Node -> Files]
    /\ up \in [Node -> {"none", "up", "dead"}] /\ busy \in Busy
    /\ \A n \in Node : up[n] = "none" <=> made[n].keys = {}
    /\ topics \subseteq {"old", "new"} /\ kept \subseteq {"old", "new"}
    /\ fresh \subseteq Node /\ early \subseteq Node

\* What a host gets is of the last generation, or it had it before.
LEMMA CopiesAre ==
    ASSUME TypeInv, NEW n \in Node, Available(n)
    PROVE  /\ WithKeys(n) \in Files
           /\ gen \in WithKeys(n).keys
           /\ Role[n] # "cas" => WithKeys(n).keys = {gen}
           /\ Role[n] = "orderers" /\ dist.genesis => WithKeys(n).genesis = gen
  <1>1. disk[n] \in Files /\ gen \in 0..MaxGen /\ MaxGen \in Nat
    BY RolesAssumption DEF TypeInv, TypeOK
  <1>2. gen \in 1..gen /\ gen \in 0..gen
    BY <1>1 DEF TypeInv, DistOK, Available
  <1>3. /\ WithGenesis(n) \in Files /\ WithGenesis(n).keys = disk[n].keys
        /\ Role[n] = "orderers" /\ dist.genesis => WithGenesis(n).genesis = gen
    BY <1>1, <1>2 DEF WithGenesis, Files
  <1>4. QED
    BY <1>2, <1>3 DEF WithKeys, Files

LEMMA GenesisIs ==
    ASSUME TypeInv, NEW n \in Node
    PROVE  WithGenesis(n) \in Files
  <1>1. disk[n] \in Files /\ gen \in 0..MaxGen /\ MaxGen \in Nat
    BY RolesAssumption DEF TypeInv, TypeOK
  <1>2. gen \in 0..gen
    BY <1>1
  <1>3. QED
    BY <1>1, <1>2 DEF WithGenesis, Files

\* What a role's tasks may do with a host: leave its container, make it anew from
\* what was copied, or remove it.
Moved(n) ==
    /\ disk' \in [Node -> Files]
    /\ \/ UNCHANGED <<up, made, fresh>>
       \/ /\ Available(n)
          /\ up' = [up EXCEPT ![n] = "up"] /\ made' = [made EXCEPT ![n] = WithKeys(n)]
          /\ fresh' = fresh \union {n}
       \/ Remove(n)

LEMMA RoleMoves ==
    ASSUME TypeInv, NEW n \in Node, ApplyRole(n) \/ ApplyFails(n)
    PROVE  Moved(n) /\ UNCHANGED <<gen, dist, busy, topics, kept, early>>
  <1>1. disk \in [Node -> Files]
    BY DEF TypeInv, TypeOK
  <1>2. UNCHANGED <<gen, dist, busy, topics, kept, early>>
    BY DEF ApplyRole, ApplyFails, kafka
  <1>3. CASE ApplyRole(n)
    <2>1. disk' \in [Node -> Files]
      BY <1>1, <1>3, CopiesAre DEF ApplyRole
    <2>2. QED
      BY <1>2, <1>3, <2>1 DEF ApplyRole, Moved
  <1>4. CASE ApplyFails(n)
    <2>1. disk' \in [Node -> Files]
      BY <1>1, <1>4, CopiesAre, GenesisIs DEF ApplyFails
    <2>2. QED
      BY <1>2, <1>4, <2>1 DEF ApplyFails, Moved
  <1>5. QED
    BY <1>3, <1>4

LEMMA MovedType ==
    ASSUME TypeInv, NEW n \in Node, Moved(n),
           UNCHANGED <<gen, dist, busy, topics, kept, early>>
    PROVE  DataTypeOK'
  <1>0. DataTypeOK
    BY DEF TypeInv, TypeOK, DataTypeOK
  <1>1. Files' = Files /\ disk' \in [Node -> Files]
    BY DEF Files, Moved
  <1>2. NoFiles \in Files /\ NoFiles.keys = {}
    <2>1. 0 \in 0..gen
      BY <1>0, RolesAssumption DEF DataTypeOK
    <2>2. QED
      BY <2>1 DEF Files, NoFiles
  <1>3. CASE UNCHANGED <<up, made, fresh>>
    BY <1>0, <1>1, <1>3 DEF DataTypeOK
  <1>4. CASE /\ Available(n)
             /\ up' = [up EXCEPT ![n] = "up"] /\ made' = [made EXCEPT ![n] = WithKeys(n)]
             /\ fresh' = fresh \union {n}
    <2>1. WithKeys(n) \in Files /\ WithKeys(n).keys # {}
      BY <1>4, CopiesAre
    <2>2. made' \in [Node -> Files] /\ up' \in [Node -> {"none", "up", "dead"}]
      BY <1>0, <1>4, <2>1 DEF DataTypeOK
    <2>3. \A m \in Node : up'[m] = "none" <=> made'[m].keys = {}
      BY <1>0, <1>4, <2>1 DEF DataTypeOK
    <2>4. QED
      BY <1>0, <1>1, <1>4, <2>2, <2>3 DEF DataTypeOK
  <1>5. CASE Remove(n)
    <2>1. made' \in [Node -> Files] /\ up' \in [Node -> {"none", "up", "dead"}] /\ fresh' \subseteq Node
      BY <1>0, <1>2, <1>5 DEF DataTypeOK, Remove
    <2>2. \A m \in Node : up'[m] = "none" <=> made'[m].keys = {}
      BY <1>0, <1>2, <1>5 DEF DataTypeOK, Remove
    <2>3. QED
      BY <1>0, <1>1, <2>1, <2>2 DEF DataTypeOK
  <1>6. QED
    BY <1>3, <1>4, <1>5 DEF Moved

LEMMA DataType ==
    ASSUME TypeInv, [Next]_vars
    PROVE  DataTypeOK' /\ DistOK'
  <1>0. DataTypeOK /\ DistOK /\ MaxGen \in Nat /\ RunOK
    BY RolesAssumption DEF TypeInv, TypeOK, DataTypeOK
  <1>1. CASE UNCHANGED <<gen, dist, disk, up, made, topics, kept, fresh, early, busy>>
    BY <1>0, <1>1 DEF DataTypeOK, DistOK, Files
  <1>2. CASE Begin("start") \/ Begin("restart")
    BY <1>0, <1>2 DEF Begin, DataTypeOK, DistOK, Files
  <1>3. CASE GenerateArtifacts \/ GenerateFails
    <2>1. gen < MaxGen
      <3>1. mode \in {"start", "restart"} /\ At(Generate)
        BY <1>3 DEF GenerateArtifacts, GenerateFails, At, Playing, TypeInv, TypeOK
      <3>2. QED
        BY <1>0, <3>1, Where DEF RunOK
    <2>2. gen \in 0..MaxGen /\ gen' = gen + 1
      BY <1>0, <1>3 DEF GenerateArtifacts, GenerateFails, DataTypeOK
    <2>3. gen' \in 0..MaxGen /\ gen' # 0 /\ 1..gen \subseteq 1..gen' /\ 0..gen \subseteq 0..gen'
      BY <1>0, <2>1, <2>2
    <2>4. \A f \in Files : f \in Files'
      BY <2>3 DEF Files
    <2>5. /\ dist' \in [keys : SUBSET Node, dir : BOOLEAN, genesis : BOOLEAN]
          /\ dist'.genesis => dist'.dir
      <3>1. \A genesis \in BOOLEAN :
               dist' = AllKeys(genesis) =>
                  /\ dist' \in [keys : SUBSET Node, dir : BOOLEAN, genesis : BOOLEAN]
                  /\ dist'.genesis => dist'.dir
        BY DEF AllKeys
      <3>2. \A keys \in SUBSET Node :
               dist' = [keys |-> keys, dir |-> FALSE, genesis |-> FALSE] =>
                  /\ dist' \in [keys : SUBSET Node, dir : BOOLEAN, genesis : BOOLEAN]
                  /\ dist'.genesis => dist'.dir
        OBVIOUS
      <3>3. CASE GenerateArtifacts
        BY <3>1, <3>3 DEF GenerateArtifacts
      <3>4. CASE GenerateFails
        BY <3>1, <3>2, <3>4 DEF GenerateFails
      <3>5. QED
        BY <1>3, <3>3, <3>4
    <2>6. UNCHANGED <<disk, up, made, topics, kept, fresh, early, busy>>
      BY <1>3 DEF GenerateArtifacts, GenerateFails, kafka, hosts
    <2>7. disk' \in [Node -> Files'] /\ made' \in [Node -> Files']
      BY <1>0, <2>4, <2>6 DEF DataTypeOK
    <2>8. QED
      BY <1>0, <2>3, <2>5, <2>6, <2>7 DEF DataTypeOK, DistOK
  <1>4. CASE PurgeKafka
    <2>1. topics' \subseteq {"old", "new"} /\ kept' = topics'
      BY <1>0, <1>4 DEF PurgeKafka, DataTypeOK
    <2>2. UNCHANGED <<gen, dist, busy, disk, up, made, fresh, early>>
      BY <1>4 DEF PurgeKafka, hosts
    <2>3. QED
      BY <1>0, <2>1, <2>2 DEF DataTypeOK, DistOK, Files
  <1>5. ASSUME NEW n \in Node, ApplyRole(n) \/ ApplyFails(n)
        PROVE  DataTypeOK' /\ DistOK'
    BY <1>0, <1>5, RoleMoves, MovedType DEF DistOK
  <1>6. ASSUME NEW n \in Node, Die(n)
        PROVE  DataTypeOK' /\ DistOK'
    <2>1. up[n] = "up" /\ up' = [up EXCEPT ![n] = "dead"] /\ early' \in {early, early \union {n}}
          /\ UNCHANGED <<gen, dist, disk, made, busy, topics, kept, fresh>>
      BY <1>6 DEF Die, kafka
    <2>2. up' \in [Node -> {"none", "up", "dead"}] /\ early' \subseteq Node
      BY <1>0, <2>1 DEF DataTypeOK
    <2>3. \A m \in Node : up'[m] = "none" <=> made'[m].keys = {}
      BY <1>0, <2>1 DEF DataTypeOK
    <2>4. QED
      BY <1>0, <2>1, <2>2, <2>3 DEF DataTypeOK, DistOK, Files
  <1>7. ASSUME NEW n \in Node, Write(n)
        PROVE  DataTypeOK' /\ DistOK'
    <2>1. topics' \subseteq {"old", "new"}
      BY <1>0, <1>7 DEF Write, DataTypeOK
    <2>2. UNCHANGED <<gen, dist, disk, up, made, kept, fresh, early, busy>>
      BY <1>7 DEF Write, hosts
    <2>3. QED
      BY <1>0, <2>1, <2>2 DEF DataTypeOK, DistOK, Files
  <1>8. EndPhase \/ Finish \/ KafkaUnreachable \/ (\E n \in Node : CheckContainer(n)) \/ UNCHANGED vars
        => UNCHANGED <<gen, dist, disk, up, made, topics, kept, fresh, early, busy>>
    BY DEF EndPhase, Finish, KafkaUnreachable, CheckContainer, kafka, hosts, vars
  <1>9. QED
    BY <1>1, <1>2, <1>3, <1>4, <1>5, <1>6, <1>7, <1>8 DEF Next

LEMMA TypeInit == Init => TypeInv
  <1>1. ASSUME Init
        PROVE  TypeInv
    <2>1. 0 \in 0..MaxGen
      BY RolesAssumption
    <2>2. NoFiles \in Files /\ NoFiles.keys = {}
      BY <1>1 DEF Init, NoFiles, Files
    <2>3. RunOK /\ DistOK /\ RunTypeOK
      BY <1>1 DEF Init, RunOK, DistOK, RunTypeOK
    <2>4. DataTypeOK
      BY <1>1, <2>1, <2>2 DEF Init, DataTypeOK
    <2>5. QED
      BY <2>3, <2>4 DEF TypeInv, TypeOK, RunTypeOK, DataTypeOK
  <1>2. QED
    BY <1>1

LEMMA TypeStep == ASSUME TypeInv, [Next]_vars PROVE TypeInv'
  <1>1. RunOK' /\ RunTypeOK' /\ DataTypeOK' /\ DistOK'
    BY RunType, DataType
  <1>2. TypeOK'
    BY <1>1 DEF TypeOK, RunTypeOK, DataTypeOK
  <1>3. QED
    BY <1>1, <1>2 DEF TypeInv

\* The type invariant holds for every number of nodes and every placement.
THEOREM TypeCorrect == Spec => []TypeOK
  <1>1. Init => TypeInv
    BY TypeInit
  <1>2. TypeInv /\ [Next]_vars => TypeInv'
    BY TypeStep
  <1>3. TypeInv => TypeOK
    BY DEF TypeInv
  <1>4. QED
    BY <1>1, <1>2, <1>3, PTL DEF Spec
-----------------------------------------------------------------------------
(* The containers after a playbook                                         *)

\* The play that starts node n is over, or has been through its host.
Applied(n) ==
    \/ play > StartOf(n)
    \/ play = StartOf(n) /\ (phase = "check" \/ n \notin todo)

\* A playbook that has lost no host so far, with complete artifacts, has made
\* the containers it is through with from these; and so has one that ended well.
AlikeInv ==
    /\ mode # "idle" /\ failed = {} /\ dist = AllKeys(TRUE)
       => \A n \in Node : Applied(n) => OfLast(n)
    /\ EndsAlike

\* A playbook that fails promises nothing.
LEMMA FailureAlike == ASSUME End(FALSE) PROVE AlikeInv'
  BY DEF End, AlikeInv, EndsAlike, EndedWell

\* A play that begins has been through none of its hosts.
LEMMA NextPlayAlike ==
    ASSUME TypeInv, AlikeInv, NextPlay, mode \in {"start", "restart"},
           UNCHANGED <<gen, dist, made>> \/ play = 1,
           play <= Before(mode) \/ phase = "check"
    PROVE  AlikeInv'
  <1>0. RunOK /\ play \in 0..8
    BY DEF TypeInv, TypeOK
  <1>1. /\ mode' = mode /\ play' = play + 1 /\ phase' = "apply"
        /\ failed' = failed /\ last' = last /\ todo' = Left(mode, play + 1)
    BY DEF NextPlay
  <1>2. ASSUME NEW n \in Node, failed' = {}, Applied(n)'
        PROVE  play >= StartOf(n) /\ phase = "check" /\ Applied(n)
    <2>1. /\ StartOf(n) \in Before(mode) + 1 .. Before(mode) + 3 /\ Before(mode) \in {1, 4}
          /\ n \in Left(mode, StartOf(n)) <=> n \notin failed
      BY <1>0, StartOfNode
    <2>2. StartOf(n)' = StartOf(n)
      BY <1>1 DEF StartOf
    <2>3. play + 1 = StartOf(n) => n \in todo'
      BY <1>1, <1>2, <2>1
    <2>4. play + 1 > StartOf(n)
      BY <1>0, <1>1, <1>2, <2>1, <2>2, <2>3 DEF Applied
    <2>5. play >= StartOf(n)
      BY <1>0, <2>1, <2>4
    <2>6. phase = "check"
      BY <1>0, <2>1, <2>5
    <2>7. QED
      BY <1>0, <2>1, <2>5, <2>6 DEF Applied
  <1>3. ASSUME NEW n \in Node, failed' = {}, Applied(n)', dist' = AllKeys(TRUE)'
        PROVE  OfLast(n)'
    <2>1. play >= StartOf(n) /\ Applied(n) /\ StartOf(n) \in Int /\ StartOf(n) > 1
      BY <1>0, <1>2, <1>3, StartOfNode
    <2>2. UNCHANGED <<gen, dist, made>>
      BY <1>0, <2>1
    <2>3. dist = AllKeys(TRUE)
      BY <1>3, <2>2 DEF AllKeys
    <2>4. OfLast(n)
      BY <1>1, <1>3, <2>1, <2>3 DEF AlikeInv
    <2>5. QED
      BY <2>2, <2>4 DEF OfLast
  <1>4. mode' # "idle"
    BY <1>1
  <1>5. QED
    BY <1>3, <1>4 DEF AlikeInv, EndsAlike, EndedWell

\* The containers stay, and a playbook is through with no more hosts.
LEMMA SameAlike ==
    ASSUME AlikeInv, UNCHANGED <<gen, dist, made, mode, last>>,
           mode # "idle" /\ failed' = {} => failed = {},
           mode # "idle" => \A n \in Node : Applied(n)' => Applied(n)
    PROVE  AlikeInv'
  BY DEF AlikeInv, EndsAlike, EndedWell, OfLast, AllKeys

\* The host of a role is applied in the play that starts it, or in one before.
LEMMA ApplyAlike ==
    ASSUME TypeInv, AlikeInv, NEW k \in Node, ApplyRole(k)
    PROVE  AlikeInv'
  <1>0. RunOK /\ play \in 0..8 /\ made \in [Node -> Files]
    BY DEF TypeInv, TypeOK
  <1>1. /\ InRole /\ phase = "apply" /\ k \in todo /\ Available(k) /\ todo' = todo \ {k}
        /\ UNCHANGED <<gen, dist, mode, play, phase, failed, last>>
    BY DEF ApplyRole, Applying
  <1>2. /\ mode \in {"start", "restart"} /\ play \in RolePlays(mode)
        /\ k \in Hosts(Current.role)
        /\ play > Before(mode) => Current.state = "started"
    BY <1>0, <1>1, RoleAt, Where
  <1>3. \A n \in Node : n # k => made'[n] = made[n]
    BY <1>0 DEF ApplyRole, Remove
  <1>4. \A n \in Node : StartOf(n)' = StartOf(n) /\ StartOf(n) \in Int /\ StartOf(n) > Before(mode)
    <2>1. \A n \in Node : StartOf(n)' = StartOf(n)
      BY <1>1 DEF StartOf
    <2>2. QED
      BY <1>0, <1>2, <2>1, StartOfNode
  <1>5. ASSUME NEW n \in Node, failed = {}, dist = AllKeys(TRUE), Applied(n)'
        PROVE  OfLast(n)'
    <2>1. CASE n # k
      <3>1. Applied(n)
        BY <1>0, <1>1, <1>4, <1>5, <2>1 DEF Applied
      <3>2. OfLast(n)
        BY <1>2, <1>5, <3>1 DEF AlikeInv
      <3>3. QED
        BY <1>1, <1>3, <2>1, <3>2 DEF OfLast
    <2>2. CASE n = k
      <3>1. play >= StartOf(k)
        BY <1>0, <1>1, <1>4, <1>5, <2>2 DEF Applied
      <3>2. Current.state = "started"
        <4>1. play > Before(mode)
          BY <1>0, <1>4, <3>1, StartOfNode, <1>2
        <4>2. QED
          BY <1>2, <4>1
      <3>3. State(Current) = "started"
        BY <3>2 DEF State
      <3>4. made'[k] = WithKeys(k)
        BY <1>0, <3>3 DEF ApplyRole
      <3>5. dist.genesis
        BY <1>5 DEF AllKeys
      <3>6. QED
        BY <1>1, <2>2, <3>4, <3>5, CopiesAre DEF OfLast
    <2>3. QED
      BY <2>1, <2>2
  <1>6. dist' = AllKeys(TRUE)' => dist = AllKeys(TRUE)
    BY <1>1 DEF AllKeys
  <1>7. mode' # "idle"
    BY <1>1, <1>2
  <1>8. QED
    BY <1>1, <1>5, <1>6, <1>7 DEF AlikeInv, EndsAlike, EndedWell

LEMMA EndPhaseAlike ==
    ASSUME TypeInv, AlikeInv, EndPhase
    PROVE  AlikeInv'
  <1>0. RunOK /\ play \in 0..8 /\ UNCHANGED <<gen, dist, made>>
    BY DEF TypeInv, TypeOK, EndPhase, hosts
  <1>1. mode \in {"start", "restart"} /\ todo = {} /\ InRole
    BY RoleAt DEF EndPhase
  <1>2. CASE phase = "check" /\ NextPlay
    BY <1>0, <1>1, <1>2, NextPlayAlike
  <1>3. CASE /\ phase = "apply" /\ phase' = "check"
             /\ UNCHANGED <<mode, play, failed, last>>
    <2>1. \A n \in Node : StartOf(n)' = StartOf(n)
      BY <1>3 DEF StartOf
    <2>2. \A n \in Node : Applied(n)' => Applied(n)
      BY <1>1, <1>3, <2>1 DEF Applied
    <2>3. QED
      BY <1>0, <1>3, <2>2, SameAlike
  <1>4. QED
    BY <1>2, <1>3, FailureAlike DEF EndPhase

LEMMA FinishAlike ==
    ASSUME TypeInv, AlikeInv, Finish
    PROVE  AlikeInv'
  <1>1. mode \in {"start", "restart"} /\ play \in 0..8 /\ RunOK /\ ~Playing
    BY DEF Finish, TypeInv, TypeOK, Playing
  <1>2. play > Before(mode) + 3
    BY <1>1, Where DEF Before
  <1>3. ASSUME NEW n \in Node PROVE Applied(n)
    <2>1. StartOf(n) \in Before(mode) + 1 .. Before(mode) + 3 /\ Before(mode) \in {1, 4}
      BY <1>1, StartOfNode
    <2>2. QED
      BY <1>1, <1>2, <2>1 DEF Applied
  <1>4. /\ mode' = "idle" /\ last' = [mode |-> mode, ok |-> failed = {}]
        /\ UNCHANGED <<gen, dist, made>>
    BY DEF Finish, End, hosts
  <1>5. failed = {} /\ dist = AllKeys(TRUE) => \A n \in Node : OfLast(n)
    BY <1>1, <1>3 DEF AlikeInv
  <1>6. failed = {} /\ dist' = AllKeys(TRUE)' => \A n \in Node : OfLast(n)'
    BY <1>4, <1>5 DEF OfLast, AllKeys
  <1>7. QED
    BY <1>4, <1>6 DEF AlikeInv, EndsAlike, EndedWell

LEMMA AlikeStep ==
    ASSUME TypeInv, AlikeInv, [Next]_vars
    PROVE  AlikeInv'
  <1>0. RunOK /\ mode \in {"idle", "start", "restart"} /\ play \in 0..8
    BY DEF TypeInv, TypeOK
  <1>1. ASSUME NEW m \in {"start", "restart"}, Begin(m)
        PROVE  AlikeInv'
    <2>1. mode' = m /\ play' = 1 /\ failed' = {}
      BY <1>1 DEF Begin
    <2>2. ASSUME NEW n \in Node PROVE StartOf(n)' \in Int /\ StartOf(n)' > 1
      <3>1. Role[n] \in {"cas", "orderers", "peers"}
        BY RolesAssumption
      <3>2. Rank(Role[n]) \in 1..3 /\ Before(m) \in {1, 4}
        BY <3>1 DEF Rank, Before
      <3>3. QED
        BY <2>1, <3>2 DEF StartOf
    <2>3. \A n \in Node : ~Applied(n)'
      BY <2>1, <2>2 DEF Applied
    <2>4. QED
      BY <2>1, <2>3 DEF AlikeInv, EndsAlike, EndedWell
  <1>2. CASE GenerateArtifacts
    <2>1. mode = "start" /\ play = 1
      BY <1>0, <1>2, Where DEF GenerateArtifacts, At, Playing
    <2>2. QED
      BY <1>2, <2>1, NextPlayAlike DEF GenerateArtifacts, Before
  <1>3. CASE PurgeKafka
    <2>1. mode = "restart" /\ play = 4
      BY <1>0, <1>3, Where DEF PurgeKafka, At, Playing
    <2>2. QED
      BY <1>3, <2>1, NextPlayAlike DEF PurgeKafka, Before, hosts
  <1>4. CASE GenerateFails \/ KafkaUnreachable
    BY <1>4, FailureAlike DEF GenerateFails, KafkaUnreachable
  <1>5. ASSUME NEW k \in Node, ApplyFails(k)
        PROVE  AlikeInv'
    <2>1. mode' # "idle" /\ failed' # {}
      BY <1>0, <1>5 DEF ApplyFails, Applying, InRole, Playing
    <2>2. QED
      BY <2>1 DEF AlikeInv, EndsAlike, EndedWell
  <1>6. ASSUME NEW k \in Node, CheckContainer(k)
        PROVE  AlikeInv'
    <2>1. /\ UNCHANGED <<gen, dist, made, mode, play, phase, last>> /\ phase = "check"
          /\ failed' = {} => failed = {}
      BY <1>6 DEF CheckContainer, hosts
    <2>2. \A n \in Node : Applied(n)' => Applied(n)
      BY <2>1 DEF Applied, StartOf
    <2>3. QED
      BY <2>1, <2>2, SameAlike
  <1>7. CASE (\E n \in Node : Die(n) \/ Write(n)) \/ UNCHANGED vars
    <2>1. UNCHANGED <<gen, dist, made, mode, play, phase, todo, failed, last>>
      BY <1>7 DEF Die, Write, vars, run, hosts
    <2>2. \A n \in Node : Applied(n)' => Applied(n)
      BY <2>1 DEF Applied, StartOf
    <2>3. QED
      BY <2>1, <2>2, SameAlike
  <1>8. QED
    BY <1>1, <1>2, <1>3, <1>4, <1>5, <1>6, <1>7, ApplyAlike, EndPhaseAlike, FinishAlike DEF Next

\* After a playbook that ended well, with the last generation complete, all
\* containers are of that generation, for every number of nodes, whatever failed
\* before and whichever containers died.
THEOREM EndsAlikeHolds == Spec => []EndsAlike
  <1>1. Init => TypeInv /\ AlikeInv
    <2>1. Init => mode = "idle" /\ ~last.ok
      BY DEF Init
    <2>2. QED
      BY <2>1, TypeInit DEF AlikeInv, EndsAlike, EndedWell
  <1>2. (TypeInv /\ AlikeInv) /\ [Next]_vars => (TypeInv /\ AlikeInv)'
    BY TypeStep, AlikeStep
  <1>3. TypeInv /\ AlikeInv => EndsAlike
    BY DEF AlikeInv
  <1>4. QED
    BY <1>1, <1>2, <1>3, PTL DEF Spec
-----------------------------------------------------------------------------
(* Containers that die early                                               *)

\* Something else may run on the machine of node n.
Shares(n) == \/ Place[n] \in busy
             \/ \E m \in Node \ {n} : Place[m] = Place[n]

\* A container that died early is still to be looked at, or the look has failed
\* its host, or did not tell it from another one.
DeathsInv ==
    /\ mode # "idle" =>
          \A n \in early : n \in failed \/ (Unchecked(n) /\ up[n] = "dead") \/ Shares(n)
    /\ NoticesDeaths

\* What the look at a machine with a dead container finds is another one.
LEMMA LookShares ==
    ASSUME NEW n \in Node, up[n] = "dead", DockerPs(n)
    PROVE  Shares(n)
  BY DEF DockerPs, Shares

LEMMA FailureDeaths == ASSUME End(FALSE) PROVE DeathsInv'
  BY DEF End, DeathsInv, NoticesDeaths, EndedWell

\* A host goes through its part of a role: the others are where they were.
LEMMA HostDeaths ==
    ASSUME TypeInv, DeathsInv, NEW k \in Node, InRole, k \in todo,
           todo' = todo \ {k}, failed' = failed \/ failed' = failed \union {k},
           UNCHANGED <<mode, play, phase, last, early, busy>>,
           \A n \in Node \ {k} : up'[n] = up[n],
           \/ phase = "apply"
           \/ phase = "check" /\ (k \in failed' \/ DockerPs(k))
    PROVE  DeathsInv'
  <1>1. /\ mode \in {"start", "restart"} /\ todo \subseteq Left(mode, play)
        /\ early \subseteq Node /\ phase \in {"apply", "check"}
    BY RoleAt DEF TypeInv, TypeOK
  <1>2. \A n : Shares(n) => Shares(n)'
    BY DEF Shares
  <1>3. InRole'
    BY DEF InRole, Playing, Current
  <1>4. \A n : n \in Left(mode, play)' <=> n \in Left(mode, play) /\ (n = k => n \notin failed')
    BY <1>1 DEF Left, Hosts
  <1>5. ASSUME NEW n \in early
        PROVE  (n \in failed \/ (Unchecked(n) /\ up[n] = "dead") \/ Shares(n))'
    <2>1. n \in failed \/ (Unchecked(n) /\ up[n] = "dead") \/ Shares(n)
      BY <1>1, <1>5 DEF DeathsInv
    <2>2. CASE n \in failed
      BY <2>2
    <2>3. CASE Shares(n)
      BY <1>2, <2>3
    <2>4. CASE Unchecked(n) /\ up[n] = "dead"
      <3>1. CASE n = k
        BY <1>2, <2>4, <3>1, LookShares DEF Unchecked
      <3>2. CASE n # k
        <4>1. Unchecked(n)'
          BY <1>3, <1>4, <2>4, <3>2 DEF Unchecked
        <4>2. up'[n] = "dead"
          BY <1>1, <1>5, <2>4, <3>2
        <4>3. QED
          BY <4>1, <4>2
      <3>3. QED
        BY <3>1, <3>2
    <2>5. QED
      BY <2>1, <2>2, <2>3, <2>4
  <1>6. mode' # "idle" /\ early' = early
    BY <1>1
  <1>7. QED
    BY <1>5, <1>6 DEF DeathsInv, NoticesDeaths, EndedWell

LEMMA EndPhaseDeaths ==
    ASSUME TypeInv, DeathsInv, EndPhase
    PROVE  DeathsInv'
  <1>1. /\ mode \in {"start", "restart"} /\ todo = {} /\ InRole
        /\ UNCHANGED <<up, early, busy>>
    BY RoleAt DEF EndPhase, hosts
  <1>2. \A n : Shares(n)' = Shares(n)
    BY <1>1 DEF Shares
  <1>3. CASE phase = "check" /\ NextPlay
    <2>1. mode' = mode /\ failed' = failed
      BY <1>3 DEF NextPlay
    <2>2. \A n \in early : n \in failed \/ Shares(n)
      BY <1>1, <1>3 DEF DeathsInv, Unchecked
    <2>3. QED
      BY <1>1, <1>2, <2>1, <2>2 DEF DeathsInv, NoticesDeaths, EndedWell
  <1>4. CASE /\ phase = "apply" /\ phase' = "check" /\ todo' = Left(mode, play)
             /\ UNCHANGED <<mode, play, failed, last>>
    <2>1. InRole' /\ Left(mode, play)' = Left(mode, play)
      BY <1>1, <1>4 DEF InRole, Playing, Current, Left, Hosts
    <2>2. \A n : Unchecked(n) => Unchecked(n)'
      BY <1>4, <2>1 DEF Unchecked
    <2>3. \A n \in early : n \in failed \/ (Unchecked(n) /\ up[n] = "dead") \/ Shares(n)
      BY <1>1 DEF DeathsInv
    <2>4. QED
      BY <1>1, <1>2, <1>4, <2>2, <2>3 DEF DeathsInv, NoticesDeaths, EndedWell
  <1>5. QED
    BY <1>3, <1>4, FailureDeaths DEF EndPhase

LEMMA DieDeaths ==
    ASSUME TypeInv, DeathsInv, NEW d \in Node, Die(d)
    PROVE  DeathsInv'
  <1>1. /\ up' = [up EXCEPT ![d] = "dead"] /\ up \in [Node -> {"none", "up", "dead"}]
        /\ early' = IF Unchecked(d) THEN early \union {d} ELSE early
        /\ early \subseteq Node
        /\ UNCHANGED <<mode, play, phase, todo, failed, last, busy>>
    BY DEF Die, run, TypeInv, TypeOK
  <1>2. \A n : Unchecked(n)' = Unchecked(n) /\ Shares(n)' = Shares(n)
    BY <1>1 DEF Unchecked, InRole, Playing, Current, Left, Hosts, Shares
  <1>3. \A n \in Node : up[n] = "dead" \/ n = d => up'[n] = "dead"
    BY <1>1
  <1>4. Unchecked(d) => mode # "idle"
    BY DEF Unchecked, InRole, Playing
  <1>5. CASE mode # "idle"
    <2>1. \A n \in early : n \in failed \/ (Unchecked(n) /\ up[n] = "dead") \/ Shares(n)
      BY <1>5 DEF DeathsInv
    <2>2. \A n \in early' : n \in Node /\ (n \in early \/ (n = d /\ Unchecked(d)))
      BY <1>1
    <2>3. \A n \in early' :
             n \in failed' \/ (Unchecked(n)' /\ up'[n] = "dead") \/ Shares(n)'
      BY <1>1, <1>2, <1>3, <2>1, <2>2
    <2>4. QED
      BY <1>1, <1>5, <2>3 DEF DeathsInv, NoticesDeaths, EndedWell
  <1>6. CASE mode = "idle"
    BY <1>1, <1>4, <1>6 DEF DeathsInv, NoticesDeaths, EndedWell
  <1>7. QED
    BY <1>5, <1>6

LEMMA DeathsStep ==
    ASSUME TypeInv, DeathsInv, [Next]_vars
    PROVE  DeathsInv'
  <1>0. mode \in {"idle", "start", "restart"} /\ up \in [Node -> {"none", "up", "dead"}]
    BY DEF TypeInv, TypeOK
  <1>1. ASSUME NEW m \in {"start", "restart"}, Begin(m)
        PROVE  DeathsInv'
    BY <1>1 DEF Begin, DeathsInv, NoticesDeaths, EndedWell
  <1>2. CASE GenerateArtifacts \/ PurgeKafka
    <2>1. /\ mode' = mode /\ mode # "idle" /\ failed' = failed
          /\ UNCHANGED <<busy, up, early>> /\ ~InRole
      BY <1>2 DEF GenerateArtifacts, PurgeKafka, NextPlay, hosts, At, Playing, InRole
    <2>2. \A n \in early : n \in failed \/ Shares(n)
      BY <2>1 DEF DeathsInv, Unchecked
    <2>3. QED
      BY <2>1, <2>2 DEF DeathsInv, NoticesDeaths, EndedWell, Shares
  <1>3. CASE GenerateFails \/ KafkaUnreachable
    BY <1>3, FailureDeaths DEF GenerateFails, KafkaUnreachable
  <1>4. CASE Finish
    <2>0. Len(Plays(mode)) \in {4, 7} /\ play \in 0..8
      BY <1>0, <1>4, StartPlays, RestartPlays DEF Finish, TypeInv, TypeOK
    <2>1. /\ mode # "idle" /\ ~InRole /\ UNCHANGED <<busy, early>>
          /\ mode' = "idle" /\ last' = [mode |-> mode, ok |-> failed = {}]
      BY <1>4, <2>0 DEF Finish, End, hosts, InRole, Playing
    <2>2. \A n \in early : n \in failed \/ Shares(n)
      BY <2>1 DEF DeathsInv, Unchecked
    <2>3. QED
      BY <2>1, <2>2 DEF DeathsInv, NoticesDeaths, EndedWell, Shares
  <1>5. ASSUME NEW k \in Node, ApplyRole(k) \/ ApplyFails(k)
        PROVE  DeathsInv'
    <2>1. /\ InRole /\ k \in todo /\ phase = "apply" /\ todo' = todo \ {k}
          /\ failed' = failed \/ failed' = failed \union {k}
          /\ UNCHANGED <<mode, play, phase, last, early, busy>>
      BY <1>5 DEF ApplyRole, ApplyFails, Applying
    <2>2. \A n \in Node \ {k} : up'[n] = up[n]
      BY <1>0, <1>5 DEF ApplyRole, ApplyFails, Remove
    <2>3. QED
      BY <2>1, <2>2, HostDeaths
  <1>6. ASSUME NEW k \in Node, CheckContainer(k)
        PROVE  DeathsInv'
    <2>1. /\ InRole /\ k \in todo /\ phase = "check" /\ todo' = todo \ {k}
          /\ failed' = failed \/ failed' = failed \union {k}
          /\ k \in failed' \/ DockerPs(k)
          /\ UNCHANGED <<mode, play, phase, last, early, busy, up>>
      BY <1>6 DEF CheckContainer, hosts
    <2>2. QED
      BY <2>1, HostDeaths
  <1>7. CASE (\E n \in Node : Write(n)) \/ UNCHANGED vars
    <2>1. UNCHANGED <<up, early, busy, mode, play, phase, todo, failed, last>>
      BY <1>7 DEF Write, vars, run, hosts
    <2>2. \A n : Unchecked(n)' = Unchecked(n) /\ Shares(n)' = Shares(n)
      BY <2>1 DEF Unchecked, InRole, Playing, Current, Left, Hosts, Shares
    <2>3. QED
      BY <2>1, <2>2 DEF DeathsInv, NoticesDeaths, EndedWell
  <1>8. QED
    BY <1>1, <1>2, <1>3, <1>4, <1>5, <1>6, <1>7, EndPhaseDeaths, DieDeaths DEF Next

\* A container that dies between its start and its check keeps the playbook from
\* ending well, unless something else may run on its machine: whatever the
\* number of nodes, and whatever the other hosts do in the meantime.
THEOREM NoticesDeathsHolds == Spec => []NoticesDeaths
  <1>1. Init => TypeInv /\ DeathsInv
    <2>1. Init => mode = "idle" /\ ~last.ok
      BY DEF Init
    <2>2. QED
      BY <2>1, TypeInit DEF DeathsInv, NoticesDeaths, EndedWell
  <1>2. (TypeInv /\ DeathsInv) /\ [Next]_vars => (TypeInv /\ DeathsInv)'
    BY TypeStep, DeathsStep
  <1>3. TypeInv /\ DeathsInv => NoticesDeaths
    BY DEF DeathsInv
  <1>4. QED
    BY <1>1, <1>2, <1>3, PTL DEF Spec
-----------------------------------------------------------------------------
(* The messages in kafka                                                   *)

\* The play of a restart that removes the orderers has been through node n.
Removed(n) ==
    \/ play > 2
    \/ play = 2 /\ (phase = "check" \/ n \notin todo)

\* A restart that has lost no host so far, and one that ended well, has only
\* orderers that it started itself, and kafka has nothing old that the deletion
\* did not leave.
LateInv ==
    /\ single_orderer => topics = {}
    /\ (mode = "restart" /\ failed = {}) \/ (EndedWell /\ last.mode = "restart")
       => /\ \A n \in Hosts("orderers") :
                /\ ~single_orderer
                /\ mode = "restart" => Removed(n)
                => up[n] = "none" \/ n \in fresh
          /\ (mode = "restart" => play > 4) /\ "old" \in topics => "old" \in kept

LEMMA LateHolds == ASSUME LateInv PROVE NoLateMessages
  BY DEF LateInv, NoLateMessages, EndedWell

\* A playbook that fails, or is no restart, promises nothing but that a single
\* orderer does not write.
LEMMA OtherLate ==
    ASSUME LateInv, topics' = {} \/ topics' = topics,
           \/ mode' = "idle" /\ ~last'.ok
           \/ mode' # "idle" /\ (mode' # "restart" \/ failed' # {})
           \/ mode' = "idle" /\ last'.mode # "restart"
    PROVE  LateInv'
  BY DEF LateInv, EndedWell, single_orderer, Hosts

\* Orderers stay as they are, or are removed, or are the playbook's own.
LEMMA SameLate ==
    ASSUME LateInv, UNCHANGED <<mode, play, last, topics, kept>>,
           mode = "restart" /\ failed' = {} => failed = {},
           mode = "restart" => \A n \in Hosts("orderers") : Removed(n)' => Removed(n),
           \A n \in Hosts("orderers") :
              up[n] = "none" \/ n \in fresh => up'[n] = "none" \/ n \in fresh'
    PROVE  LateInv'
  BY DEF LateInv, EndedWell, single_orderer, Hosts

\* The next play of a restart.
LEMMA NextPlayLate ==
    ASSUME TypeInv, LateInv, NextPlay, mode = "restart", UNCHANGED <<up, fresh>>,
           play # 4 => phase = "check" /\ topics' = topics /\ kept' = kept,
           play = 4 => kept' = topics' /\ topics' \subseteq topics
    PROVE  LateInv'
  <1>0. RunOK /\ play \in 1..8
    BY DEF TypeInv, TypeOK, RunOK
  <1>1. /\ mode' = mode /\ play' = play + 1 /\ phase' = "apply"
        /\ failed' = failed /\ last' = last /\ todo' = Left(mode, play + 1)
    BY DEF NextPlay
  <1>2. ASSUME NEW n \in Hosts("orderers"), failed = {}, Removed(n)'
        PROVE  Removed(n)
    <2>1. CASE play = 1
      <3>1. Left("restart", 2) = Hosts("orderers")
        BY <1>2, RestartPlays DEF Left, Do
      <3>2. QED
        BY <1>1, <1>2, <2>1, <3>1 DEF Removed
    <2>2. CASE play = 2
      BY <2>2 DEF Removed
    <2>3. CASE play > 2
      BY <2>3 DEF Removed
    <2>4. QED
      BY <1>0, <2>1, <2>2, <2>3
  <1>3. play' > 4 /\ failed = {} /\ "old" \in topics' => "old" \in kept'
    BY <1>0, <1>1 DEF LateInv
  <1>4. single_orderer' = single_orderer /\ Hosts("orderers")' = Hosts("orderers")
    BY DEF single_orderer, Hosts
  <1>5. single_orderer => topics' = {}
    BY DEF LateInv
  <1>6. failed = {} => \A n \in Hosts("orderers") :
                          ~single_orderer /\ Removed(n)' => up'[n] = "none" \/ n \in fresh'
    BY <1>2 DEF LateInv
  <1>7. QED
    BY <1>1, <1>3, <1>4, <1>5, <1>6 DEF LateInv, EndedWell

LEMMA ApplyLate ==
    ASSUME TypeInv, LateInv, NEW k \in Node, ApplyRole(k)
    PROVE  LateInv'
  <1>0. RunOK /\ play \in 0..8 /\ up \in [Node -> {"none", "up", "dead"}]
    BY DEF TypeInv, TypeOK
  <1>1. /\ InRole /\ phase = "apply" /\ k \in todo /\ todo' = todo \ {k}
        /\ UNCHANGED <<mode, play, phase, failed, last, topics, kept>>
    BY DEF ApplyRole, Applying, kafka
  <1>2. /\ mode \in {"start", "restart"} /\ play \in RolePlays(mode)
        /\ k \in Hosts(Current.role)
    BY <1>1, RoleAt
  <1>3. CASE mode = "start"
    BY <1>1, <1>3, OtherLate
  <1>4. CASE mode = "restart"
    <2>1. \A n \in Node : n # k => up'[n] = up[n] /\ (n \in fresh <=> n \in fresh')
      BY <1>0 DEF ApplyRole, Remove
    <2>2. up'[k] = "none" \/ k \in fresh'
      BY <1>0 DEF ApplyRole, Remove
    <2>3. ASSUME NEW n \in Hosts("orderers"), failed = {}, ~single_orderer, Removed(n)'
          PROVE  up'[n] = "none" \/ n \in fresh'
      <3>1. CASE n = k
        BY <2>2, <3>1
      <3>2. CASE n # k
        <4>1. Removed(n)
          BY <1>1, <2>3, <3>2 DEF Removed
        <4>2. up[n] = "none" \/ n \in fresh
          BY <1>4, <2>3, <4>1 DEF LateInv
        <4>3. n \in Node
          BY DEF Hosts
        <4>4. QED
          BY <2>1, <3>2, <4>2, <4>3
      <3>3. QED
        BY <3>1, <3>2
    <2>4. failed = {} /\ play > 4 /\ "old" \in topics => "old" \in kept
      BY <1>4 DEF LateInv
    <2>5. single_orderer' = single_orderer /\ Hosts("orderers")' = Hosts("orderers")
      BY DEF single_orderer, Hosts
    <2>6. single_orderer => topics = {}
      BY DEF LateInv
    <2>7. QED
      BY <1>1, <1>4, <2>3, <2>4, <2>5, <2>6 DEF LateInv, EndedWell
  <1>5. QED
    BY <1>2, <1>3, <1>4

\* Once a restart has come to the deletion of topics, and with it has ended well,
\* an orderer that runs is its own.
LEMMA WriteLate ==
    ASSUME TypeInv, LateInv, NEW k \in Node, Write(k)
    PROVE  LateInv'
  <1>1. /\ k \in Hosts("orderers") /\ ~single_orderer /\ up[k] = "up"
        /\ topics' = topics \union {IF k \in fresh THEN "new" ELSE "old"}
        /\ UNCHANGED <<kept, up, fresh, mode, play, phase, todo, failed, last>>
    BY DEF Write, Hosts, hosts, run
  <1>2. \A n : Removed(n)' = Removed(n)
    BY <1>1 DEF Removed
  <1>3. /\ (mode = "restart" /\ failed = {}) \/ (EndedWell /\ last.mode = "restart")
        /\ mode = "restart" => play > 4
        => k \in fresh
    <2>1. mode = "restart" /\ play > 4 => Removed(k)
      BY DEF Removed, TypeInv, TypeOK
    <2>2. QED
      BY <1>1, <2>1 DEF LateInv, EndedWell
  <1>4. single_orderer' = single_orderer /\ Hosts("orderers")' = Hosts("orderers")
    BY DEF single_orderer, Hosts
  <1>5. "old" \in topics' => "old" \in topics \/ k \notin fresh
    BY <1>1
  <1>6. QED
    BY <1>1, <1>2, <1>3, <1>4, <1>5 DEF LateInv, EndedWell

LEMMA LateStep ==
    ASSUME TypeInv, LateInv, [Next]_vars
    PROVE  LateInv'
  <1>0. /\ RunOK /\ mode \in {"idle", "start", "restart"} /\ play \in 0..8
        /\ up \in [Node -> {"none", "up", "dead"}] /\ last.mode \in {"idle", "start", "restart"}
        /\ phase \in {"apply", "check"}
    BY DEF TypeInv, TypeOK
  <1>1. ASSUME NEW m \in {"start", "restart"}, Begin(m)
        PROVE  LateInv'
    <2>1. /\ mode' = m /\ play' = 1
          /\ topics' = IF topics = {} THEN {} ELSE {"old"}
      BY <1>1 DEF Begin
    <2>2. \A n : ~Removed(n)'
      BY <2>1 DEF Removed
    <2>3. single_orderer' = single_orderer /\ (single_orderer => topics' = {})
      BY <2>1 DEF LateInv, single_orderer, Hosts
    <2>4. QED
      BY <2>1, <2>2, <2>3 DEF LateInv, EndedWell
  <1>2. CASE EndPhase
    <2>1. /\ mode \in {"start", "restart"} /\ todo = {} /\ play \in RolePlays(mode)
          /\ UNCHANGED <<topics, kept, up, fresh>>
      BY <1>2, RoleAt DEF EndPhase, kafka, hosts
    <2>2. CASE End(FALSE)
      BY <2>1, <2>2, OtherLate DEF End
    <2>3. CASE phase = "check" /\ NextPlay
      <3>1. CASE mode = "restart"
        BY <2>1, <2>3, <3>1, NextPlayLate DEF RolePlays
      <3>2. CASE mode = "start"
        BY <2>1, <2>3, <3>2, OtherLate DEF NextPlay
      <3>3. QED
        BY <2>1, <3>1, <3>2
    <2>4. CASE /\ phase = "apply" /\ phase' = "check"
               /\ UNCHANGED <<mode, play, failed, last>>
      <3>1. \A n : Removed(n)' => Removed(n)
        BY <2>1, <2>4 DEF Removed
      <3>2. QED
        BY <2>1, <2>4, <3>1, SameLate
    <2>5. QED
      BY <1>2, <2>2, <2>3, <2>4 DEF EndPhase
  <1>3. CASE Finish
    <2>0. mode = "restart" => play > 7 /\ play \in 0..8
      BY <1>0, <1>3, RestartPlays DEF Finish
    <2>1. /\ mode' = "idle" /\ last' = [mode |-> mode, ok |-> failed = {}]
          /\ UNCHANGED <<topics, kept, up, fresh>>
      BY <1>3 DEF Finish, End, hosts, kafka
    <2>2. CASE mode = "restart" /\ failed = {}
      <3>1. \A n : Removed(n)
        BY <2>0, <2>2 DEF Removed
      <3>2. play > 4
        BY <2>0, <2>2
      <3>3. QED
        BY <2>1, <2>2, <3>1, <3>2 DEF LateInv, EndedWell, single_orderer, Hosts
    <2>3. CASE ~(mode = "restart" /\ failed = {})
      BY <2>1, <2>3, OtherLate
    <2>4. QED
      BY <2>2, <2>3
  <1>4. CASE GenerateArtifacts
    <2>1. mode = "start"
      BY <1>0, <1>4, Where DEF GenerateArtifacts, At, Playing
    <2>2. QED
      BY <1>4, <2>1, OtherLate DEF GenerateArtifacts, NextPlay, kafka
  <1>5. CASE GenerateFails \/ KafkaUnreachable
    BY <1>5, OtherLate DEF GenerateFails, KafkaUnreachable, End, kafka
  <1>6. CASE PurgeKafka
    <2>1. mode = "restart" /\ play = 4
      BY <1>0, <1>6, Where DEF PurgeKafka, At, Playing
    <2>2. topics' \subseteq topics /\ kept' = topics' /\ NextPlay /\ UNCHANGED <<up, fresh>>
      BY <1>6 DEF PurgeKafka, hosts
    <2>3. QED
      BY <2>1, <2>2, NextPlayLate
  <1>7. ASSUME NEW k \in Node, ApplyFails(k)
        PROVE  LateInv'
    <2>1. mode' # "idle" /\ failed' # {} /\ topics' = topics
      BY <1>0, <1>7 DEF ApplyFails, Applying, InRole, Playing, kafka
    <2>2. QED
      BY <2>1, OtherLate
  <1>8. ASSUME NEW k \in Node, CheckContainer(k)
        PROVE  LateInv'
    <2>1. /\ UNCHANGED <<mode, play, phase, last, topics, kept, up, fresh>> /\ phase = "check"
          /\ failed' = {} => failed = {}
      BY <1>8 DEF CheckContainer, hosts, kafka
    <2>2. \A n : Removed(n)' => Removed(n)
      BY <2>1 DEF Removed
    <2>3. QED
      BY <2>1, <2>2, SameLate
  <1>9. ASSUME NEW d \in Node, Die(d)
        PROVE  LateInv'
    <2>1. /\ UNCHANGED <<mode, play, phase, todo, failed, last, topics, kept, fresh>>
          /\ up[d] = "up" /\ up' = [up EXCEPT ![d] = "dead"]
      BY <1>9 DEF Die, run, kafka
    <2>2. \A n \in Node : up[n] = "none" => up'[n] = "none"
      BY <1>0, <2>1
    <2>3. \A n \in Hosts("orderers") : n \in Node
      BY DEF Hosts
    <2>4. \A n : Removed(n)' => Removed(n)
      BY <2>1 DEF Removed
    <2>5. QED
      BY <2>1, <2>2, <2>3, <2>4, SameLate
  <1>10. CASE UNCHANGED vars
    <2>1. UNCHANGED <<up, fresh, topics, kept, mode, play, phase, todo, failed, last>>
      BY <1>10 DEF vars, run, hosts, kafka
    <2>2. \A n : Removed(n)' => Removed(n)
      BY <2>1 DEF Removed
    <2>3. QED
      BY <2>1, <2>2, SameLate
  <1>11. QED
    BY <1>1, <1>2, <1>3, <1>4, <1>5, <1>6, <1>7, <1>8, <1>9, <1>10, ApplyLate, WriteLate DEF Next

\* After a restart that ended well, and ever after, kafka has nothing old that
\* the deletion of topics did not leave there, for every number of orderers and
\* whenever they write.
THEOREM NoLateMessagesHolds == Spec => []NoLateMessages
  <1>1. Init => TypeInv /\ LateInv
    <2>1. Init => mode = "idle" /\ ~last.ok /\ topics = {}
      BY DEF Init
    <2>2. QED
      BY <2>1, TypeInit DEF LateInv, EndedWell
  <1>2. (TypeInv /\ LateInv) /\ [Next]_vars => (TypeInv /\ LateInv)'
    BY TypeStep, LateStep
  <1>3. TypeInv /\ LateInv => NoLateMessages
    BY LateHolds
  <1>4. QED
    BY <1>1, <1>2, <1>3, PTL DEF Spec
=============================================================================
