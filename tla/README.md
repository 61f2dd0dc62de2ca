# fabric-skeleton in TLA+

fabric-skeleton is a starting point for Hyperledger Fabric projects: a Go
chaincode that keeps entities in a map, a Java connector that calls it, and the
tools that create a cluster of EC2 machines, put a Fabric network on them, and
take it down again. This directory holds TLA+ modules of the parts that keep
state, TLC runs that check them on small instances, and theorems, proved for
every instance and checked by TLAPS, of every part that is modelled.

Contents: [inventory](#inventory), [modules](#the-modules),
[runs](#runs-bounds-and-what-they-show), [proofs](#what-is-proved),
[what the code does not keep to](#what-the-code-does-not-keep-to),
[what is not modelled](#what-is-not-modelled), [plan](#plan).

To check a run: `tlc -config ChaincodeRefs.cfg MCTestChaincode.tla`. To check the
proofs of a module: `tlapm TestChaincode_proofs.tla`. `PROJECT.json` lists the runs, a mutant
of the code for every property, the source lines of every definition, and the
hazards the properties are for.

## Inventory

### Components, state and operations

| component | source | state it keeps | operations |
|---|---|---|---|
| entity chaincode | `chaincodes/TestChaincode/src/chaincode/TestChaincode.go`, `Tools.go` | the entities map with its prefix, in the memory of each peer's chaincode process | Init, Invoke, PutEntity, GetEntity |
| CouchChaincodeMap | `CouchChaincodeMap.go`, `CouchDB.go` | keys of the world state, an optional counter | put, get, delete, size, pages of entries, Init |
| Java connector | `SkeletonBlockchainConnector.java`, on the fabric-configurator library | futures of the calls in progress | putEntity, getEntity |
| dynamic inventory | `ops/ec2.py`, `ec2.ini` | a cache file and an index file; during a run the inventory (groups, host variables) and the index it puts together | --list, --host, --refresh-cache; the fetch: Route53, instances, tags, RDS, ElastiCache, per region and page |
| cluster operations | `ops/ops-cli`, `aws-project-*.yaml`, starter, hosts loader and killer under `ops/subplaybooks` | the machines and tags of an AWS account, one `group_vars` file | start, restart, test, kill |
| Fabric network roles | `fabric-network*.yaml`, `fabric-artifacts-generator.yaml` and the roles for CA, orderer, peer, kafka-purge | containers, artifacts in `network_dist`, kafka topics | start, cleanup, restart |
| bootstrap | `bootstrap/bootStrap.sh`, `instanceConfig.sh` | IAM role, instance profile, security group, key pairs, controller machines | get-or-create of each, launch, setup |
| local network | `network/local*/fabric.sh`, `fabric-devnet.gradle` | docker containers and images of one machine | up, down, clean |
| launcher, configuration | `Launcher.java`, the connector factory | none after start | wiring |
| artifact generators | `ops/generator`, `network/*.sh` | files | cryptogen, configtxgen |
| host preparation, monitoring | the roles common, docker-engine, elk, prometheus, grafana | installed packages | install |
| vendored and generated | `vendor/`, `TestChaincode.pb.go`, jars | - | - |

### How they interact

* A client of the connector calls `putEntity` or `getEntity`. The library sends a
  proposal to every peer; each peer has its chaincode process run the function
  against that peer's world state. A put whose successful answers agree goes to
  the orderer; each peer validates and commits it in ledger order; the future
  completes when all peers reported it. A get takes the first success.
* `ops-cli` copies a cluster's configuration over the shared `group_vars` file and
  starts ansible, which runs `ec2.py --list` when it starts and at every
  `refresh_inventory`. What a playbook does depends on that list: it decides
  whether the cluster exists, which machines are nodes, and which are killed.
* `ec2.py` answers from a cache that other runs write at the same time.
* The network roles act on the hosts the loader put into groups, with artifacts
  from one directory that every start makes anew.
* `bootStrap.sh` creates, with names fixed in the script, what the operations on
  clusters need: security group, role, and a machine to run `ops-cli` on.

### Hard behaviours, and what correctness means

* **Chaincode and connector.** Peers are at different heights; concurrent puts;
  answers get lost; a panic or a restart loses the process's memory but not the
  ledger. Right: no put is refused at commit, peers at different heights endorse
  alike, a reference resolves at every peer, an answer is never older than what was
  acknowledged before, every call returns.
* **Dynamic inventory.** Read, judge, truncate, write and read back are separate
  steps on shared files without a lock. Right: a list is recent, an unknown host
  is really gone. A fetch is dozens of requests to an account that goes on
  changing: tags come after the instances, in slices, other services come in
  pages, any request may be refused. Right: what was there throughout is in the
  result under its name and in the groups of its tags; accounts do not share a
  cache; the fetch ends.
* **Pages of a map.** Entries come and go between two pages, and a skip is a
  number. Right: nothing is missed without a delete or found twice without an
  insert; of concurrent Inits one takes effect.
* **Cluster operations.** Runs fail anywhere and take nothing back; a machine is
  pending before an inventory has it; runs act on inventories that are older than the
  account. Right: no cluster twice, a kill leaves nothing and touches nothing else,
  configurations do not mix. The first two hold but for machines that a run left
  pending or a cached list lacked.
* **Network roles.** ansible drops hosts that fail and goes on with the rest; what
  was copied to a host stays there; containers die and orderers write at any time.
  Right: a playbook that ends well leaves containers made from one generation of
  artifacts, has noticed the containers that died before their check, and
  leaves nothing in kafka that was written after the purge by an old orderer.
* **Bootstrap.** Check-then-create by concurrent, repeated and interrupted runs; a
  lookup that fails counts as "absent"; loops wait without a limit. Right: shared
  resources end up complete, each run has its own key and machine, a run alone gets
  through what earlier ones left, runs end.

## The modules

An action is one atomic step of the code: a call to AWS or docker, a file
operation, a chaincode function (a peer simulates it against one state), an
ansible task. A definition whose comment begins with "Mutant" is a variant of a
definition after it, with a plausible bug; no specification uses it. `PROJECT.json`
pairs each with the property that notices it.

### Shim, CouchChaincodeMap

`Shim` is external: a simulation is a pair of read versions and writes; a peer
validates the reads and applies the writes (`Unchanged`, `Apply`). A function
never sees its own writes. `CouchChaincodeMap` has the map's methods as operators
on simulations. Keys are pairs of prefix and name (a composite key is one to one
in them); values are model values. `GetSize` is 0 whatever is stored, because
`bytes.Buffer.Read` fills its argument (CouchChaincodeMap.go:283).

### MapPages

The rest of the map, on one peer: `InitMap` (instantiation or upgrade, each in a
new process), `Put`, `Delete` are simulated at one moment and committed later;
`walk` is a caller's way through the pages, with what happened meanwhile. `Page`
is the loop of the Go methods with its `int32` sum (`Wrap`); `CreateCompositeKey`,
`Trim` and `Split` treat a key as a sequence of words and separators. No chaincode
of the repository calls the methods for pages; the caller is taken to ask for the
next page with skip and limit added.

### TestChaincode

Each peer has a world state `db`, validation codes `verdict`, and the `prefix` in
the memory of its chaincode process. `ledger` is the orderer's order. A client's
`pc` is where its future is: `put` (peers asked), `ordered`, `get`, `idle`.
`EndorsePut` and `QueryPeer` run the Go function on one peer; `Panics` is the type
assertion on a nil interface (TestChaincode.go:143), after which the peer starts
`new(TestChaincode)`, whose prefix is empty. `SubmitPut`, `RejectPut`,
`CommitBlock`, `RetryPut` are the library and Fabric, as the connector uses them:
all peers are asked, successes must agree, an MVCC conflict is retried. The
shipped map has `calculateSize` off; `CalculateSize = TRUE` is the variant that
the library of the map offers, with a counter that is read and written.

`EntityStore` is the abstract specification: a log of puts in a total order, and
gets that answer with the latest value after some prefix of the log that holds
every put acknowledged, to any client, before the get began. `TestChaincode`
implements it (`StoreSpec`), mapping the ledger to the log and a client's state to
its pending operation.

### Ec2Inventory

Two files, what they contain (nothing, empty, torn, whole) and when the cache
changed; instances with the time they began and stopped to run; each run with
what it has fetched. `OpenCache` truncates, `WriteCache` fills, then the index;
`is_cache_valid` looks at ages when the run starts. A write over a file that
another run has filled meanwhile may leave the end of the longer one (`Written`).
The data of a host is left out; a host is its address.

### Ec2Settings, Ec2Groups, Ec2ElastiCache, Ec2Fetch

What `Ec2Inventory` takes as one step, opened up. `Ec2Settings` is `read_settings`
and the filters: a record of settings goes in, regions, states, credentials, the
cache path and the filters of each call come out. `Ec2Groups` and `Ec2ElastiCache`
are the `add_` methods. A resource is a record of attributes; names are sequences
of words, so that `to_safe` replaces words and two names are equal when they have
the same words. `Lists` has the loops over lists, as folds (`Only`, `Concat`), and
`Update`, which is `dict.update`. An add method gives entries (host, groups, variables), and
`Added` is what the code does with each: index, groups of the options that are
on, parents with `nested_groups`, variables.

`Ec2Fetch` is `do_api_calls_update_cache` for one run. `run.todo` are the calls left
(`region_calls`), `run.call` the local variables of the first of them: what was
found, tags so far, marker or index. Each request to AWS is an action
(`get_all_instances`, `get_all_tags`, `list_tags_for_resource` ...) and sees the
account of that moment; `Create`, `Delete` and `Retag` change it in between. `past`
is for the properties: all that a resource has been during the run. The exception
paths are `fail_with_error` (any request) and `Raises` (an endpoint or an ARN that
is not there). Where a function of python chooses by the order of a dictionary or
of a set, the model chooses any. ElastiCache gives `CachePage` clusters or replication
groups in an answer, and the code asks once: `FetchWhole` promises them only where
one answer has all (`OnePage`); elsewhere they are missing (`CachesListed`).

### ClusterLifecycle

The machines with their tags, the shared `group_vars` file, the list `ec2.py` has
cached (the two files of `Ec2Inventory` reduced to one list that is used until it
expires), and runs of `ops-cli`: `RemoveConfig`, `CopyConfig`, `LaunchPlaybook`,
then the tasks of the playbooks in order. A run is one command, and over when it ends.

The tasks of the starter call the ec2 module, which launches `count` machines, or
one for each item of a `with_items` loop (`Looped`), and waits for them: `LaunchItem`
is a request that works, `RefuseItem` one that EC2 refuses, `FailItem` one whose machines
do not come up in time, `EndTask` the end of the loop, which fails if an item did. A
machine is pending until `BootUp`, whoever waits for it, and `ec2.py` lists running
ones only (ec2.py:284). The module tags in a second request, so that one that stops may
leave machines without tags (`Leave`). `missed` is a history variable: the machines
that a run launched and did not wait for, or that ran when a run of their
cluster was given a list without them. `CreatedOnce` and `KillsExactly` say what
holds with these exceptions, with the cache on as it is shipped; that the exceptions
are real is what TLC's counterexamples to `CrushStops` and `KillsAll` show.

`CreatedOnce` is about groups that every cluster's configuration guards (`Guarded`)
and bounds them by some cluster's count: a run may create from the configuration
that a run of another cluster has put into `group_vars` meanwhile
(`CreatedAsConfigured`). The tasks for business nodes do not look at `skip_starter`
(`Unguarded`).

### NetworkRoles

A playbook is a sequence of plays (`fabric_network`, `fabric_network_cleanup`,
`fabric_network_restart`); in a play the hosts of a group (`todo`) go through the
role one by one, then through its check, the `docker ps -q` at its end. A host that
fails is dropped (`failed`); a play without hosts ends the playbook.

`network_dist` is kept in parts: the nodes that have keys, the directory of the channel
artifacts, the genesis block. `GenerateFails` stops where a command of `generate.sh`
may, and leaves what there is so far. `ApplyRole` copies what a node needs to its
`disk`, where nothing is deleted: keys have the same names in every generation,
except a CA's, which accumulate, and an orderer keeps its old genesis block when
there is no new one. Then it makes the container anew (`made` is what was on the disk
at that moment) or removes it. `ApplyFails` stops in between. A container dies at any
moment (`Die`), in any play, an orderer that runs writes to kafka at any moment
(`Write`), and `PurgeKafka` deletes any part of the topics, since its errors are
ignored; `kept` is what it left. `early` are the containers that died between their
start and their check. `busy` machines run another container as well (monitoring,
chaincode).

### Bootstrap

The account's role, profile, group, key pairs and machines, the key files, and
runs of the script, step by step from `GetName` to `SetUp`. `Call` is an AWS call
that works or costs a fault, and `Interrupt` costs one, too. Where the script throws
the error of a lookup away (`GetName`, `GetRole`, `ListPolicies`, `GetProfile`, `GetGroup`,
`FindImage`), one that fails is taken as "absent" and the run goes on, into a
creation that is then refused. The loops without a limit are
states: `awaitProfile`, `awaitImage`, `awaitDns`, `awaitSsh`, which ends with a ping
that the group lets through (`OpenRule`) and an ssh login with the run's own key. `alone` and `hit` are
history variables: whether another run was under way, and whether a call of the
run itself failed or it was interrupted.

## Runs, bounds and what they show

| run | shows | bounds, and why they are enough |
|---|---|---|
| `chaincode_refs` | type invariant; references resolve at every peer; peers endorse alike; the system implements EntityStore | 2 peers, 2 clients with 2 calls each, 2 names (one that no key can be made of), 2 values, 1 lost answer. Staleness needs a put, its acknowledgement and a get by another client, on peers at different heights |
| `chaincode_crash` | no put is refused at commit | the same with gets of any name and a restart of a chaincode process: prefixes diverge |
| `chaincode_size` | with the counter on, puts are serialised by its version, and every call returns | 2 clients with 2 calls, 1 retry, 1 lost answer, gets of what is not there (panics, so that prefixes diverge): a conflict needs two concurrent puts |
| `map_runs` | a walk misses nothing without a delete and has nothing twice without an insert; pages are slices; keys are decoded; one Init takes effect | 3 names (one word, the same with an empty one, two words), 4 transactions, 2 at a time, 2 starts of the process, pages of 1 and 2, integers of 4 bits: an Init, two entries and a change between two pages. With the counter on it takes twice as long and shows the same |
| `chaincode_get` | violation: see below | 3 calls: put, get of another name, get |
| `inventory_runs` | a list is at most a cache age and two runs old; `{}` only for a host that is gone | 2 runs at a time, any number one after the other, 5 units of time for a cache age of 2 and runs of 1: a list older than the property allows would fit |
| `inventory_fetch` | what was there throughout is written, nothing else is; names and groups resolve; groups of tags are right; accounts do not share a cache; a fetch ends | 11 resources in 2 regions, 8 settings (see `MCSettings`), 2 changes anywhere, 2 ids in a request for tags, 1 RDS resource per page: a change before and after any request. ElastiCache has one page |
| `cluster_runs` | no cluster twice; a kill is complete and exact, but for what `missed` names | 3 runs, each one command, one per cluster at a time, 2 clusters that ask for 2 orderers (a loop) and 1 business node, 3 machines, the cache on: a start that stops half-way, one after it, and a run of the other cluster |
| `cluster_own` | violation: see below | 2 runs, 2 clusters, 4 machines, no cache |
| `network_runs` | a playbook that ends well has made all containers from one complete generation and noticed early deaths; an old orderer writes nothing after the purge | 1 CA, 2 orderers (so that there is a kafka), 1 peer, 2 generations, deaths and writes at any time; machines with nothing else, or all with something else: a generation or playbook that stops half-way, and one after it |
| `network_absent` | violation: see below | the same with 1 generation, nothing else on the machines, no deaths |
| `bootstrap_runs` | shared resources complete; own keys; a run alone goes on; runs end | 3 runs, 1 fault, 1 policy, 2 rules: two that race and one before or after, one of the three interrupted anywhere |

Every bound is a constant of the module (`MaxCalls`, `MaxRestarts`, `MaxLost`,
`MaxTime`, `MaxRun`, `MaxGen`, `MaxFaults`, `MaxChanges`, `MaxTx`, `MaxStarts`), or the
size of a set. Deadlock is not checked for the chaincode, the map, the fetch, the
clusters and the bootstrap, where all calls may be made and all runs ended.

Restart of the network goes through only on machines that run another container;
that is what `network_absent` shows, and `network_runs` has both cases, so that
what a restart leaves behind is checked too.

**Symmetry** is used for peers, clients, values, slots, machines, clusters, orderers and
runs in the runs that have invariants or step-wise properties only; the runs with
liveness have none.

**Fairness.** `TestChaincode!FairSpec`: a peer commits what is in the ledger and
answers a proposal it has, a future goes on. Fabric delivers blocks to every peer
and its client library has timeouts for answers that do not come (`LoseAnswer`);
nothing is assumed of new calls, losses or restarts. `Bootstrap!FairSpec`: the
step of a run that was begun is taken: the commands of the script return. That the
waiting loops end is not assumed but checked. For the profile it follows from a
get that works in the end (failures are bounded), for the machine's name from EC2
giving it one, for the ssh login from the group's rules and the run's own key;
the two waits that may be in vain are named in `WaitsInVain`. `Ec2Fetch!Spec`: the run
is one thread and its next request is made, answered or refused; the changes of AWS
are under no fairness. No fairness is assumed of the start of runs or of interrupts.

## What is proved

The theorems hold for any sets (of peers, clients, runs, machines, names, resources,
settings, policies ...) and any bounds. Every module with theorems EXTENDS the module
they are about (`FoldLaws` is about none); the assumptions on constants are the named
ASSUMEs of those modules, which TLC evaluates in every run. Each strengthened invariant was checked by TLC, on the
instance of the run, before it was proved. The shape is the same everywhere: `Init`
implies the invariant, one lemma says that a step keeps it (one step of the proof
per action, or a lemma on what one client or run sees of a step), one that it
implies the property, and PTL puts the three together.

**TestChaincode** (`TestChaincode_proofs`). Assumed are
`MapAssumption` (NIL and NoWrite are no values, plain keys are no names, the empty
prefix is one) and `ChaincodeAssumption` (types; "entities" is a prefix).

| theorem | statement | argument |
|---|---|---|
| `TypeCorrect` | `Spec => []TypeOK` | inductive as it stands: `Shapes` gives the types, and the heights and places say that what is indexed exists |
| `PutsSucceed` | `Spec => []PutsNeverConflict` | `BlindInv`: without the counter every simulation of a put, in an answer or in the ledger, has read nothing, so validation cannot fail |
| `RefsStay` | `Undisturbed` gives `Spec => []RefsResolve` | `RefInv`: prefixes stay Init's, a put on its way carries its value, and what was acknowledged is stored at every peer |
| `SizeReadsChainHolds` | `Spec => []SizeReadsChain` | `VerdictInv`: a verdict is TRUE exactly if every read is the version the ledger gives at that place. `CountInv`: who writes a counter has read it; so a valid one read the version its place gives, and no later write lies between |
| `EndorsementsAgreeHolds` | `Undisturbed` gives `Spec => []EndorsementsAgree` | `DirectInv`: an endorsement is a function (`Effect`) of name and value alone, not of the world state it was made on |
| `ImplementsStore` | `Undisturbed` and no counter give `Spec => StoreSpec` | the refinement. `PlaceInv`: what was acknowledged is at every peer, and a get began no later. `GetInv`: an answer is the latest value at some place between the acknowledged one and the end of the ledger, which `StateIsLatest` takes from `StateIsLedger` (world states are the replay of the ledger), `BlindInv` and `DirectInv`. Then one lemma per step of the store: `StartPut`, `SubmitPut`, `AckPut`, `StartGet`, `CompleteGet` are steps of its own, `RejectPut` and `FailGet` are `Fail`, `RetryPut` and `FailPut` cannot happen, and what peers do is not seen |

`Undisturbed` is: clients get only what they were given, and no process is restarted
from outside. Without it the code does not keep the promise (`chaincode_get`), and
with the counter on a put may fail after it was ordered, which `EntityStore` does
not allow. TLC checks the same with the same constants (`chaincode_refs`).

**Loops** (`FoldLaws`) is the toolbox of the next two, and says nothing of the code.
A loop of the code is a fold in the models. `FoldUnrolled` says, for any operator
`op` and any sequence, that a fold is the last of values `f[0]` ... `f[n]` with `f[i] = op(f[i - 1], seq[i])`. The community modules define a
fold as a function on sets of indices from which a largest one is chosen, so the
proof first shows, by induction, that such a function exists and that what is left
to fold is always an interval. `op` is a constant of the module, and each loop is
proved about by an instance of it (`Selecting`, `Joining`, `Adding` ...). The
induction (`InductionUpTo`) is over a set of numbers, from the library's theorem on
minimal elements, so that no theorem has an operator for a parameter. The
`Selection` lemmas are about `Only`: what stays, in which order, and where.

**Map** (`MapPages_proofs`). Assumed is `PagesAssumption`: CouchDB's order has every
name once, no word has the separator in it, and the number of entries and a limit
have a sum that `int32` holds, so that the walks do not meet what `AnyPageIsSlice`
shows. Entries and words may be any number.

| theorem | statement | argument |
|---|---|---|
| `TypeCorrect` | `Spec => []TypeOK` | `TypeInv`: and a simulation under way writes no counter but 1 and -1, and a walk stops before its `skip` overflows |
| `PageIsSliceHolds` | `Spec => []PageIsSlice` | a fact about the loop, for any entries, skip and limit: after i rounds the page has what the slice has of the first i entries, and once the end is passed nothing is added |
| `WalkMissesNothingHolds` | `Spec => []WalkMissesNothing` | `MissInv`: while no delete was seen, an entry that was there in the beginning has been given or is behind `skip`. Inserts only move entries to later places (`SelectionGrows`) |
| `WalkRepeatsNothingHolds` | `Spec => []WalkRepeatsNothing` | `RepeatInv`: while no insert was seen, what was given was given once and is not behind `skip` |
| `KeysComeBackHolds` | `Spec => []KeysComeBack` | a fact about keys, for any words: split after each word a key gives the words so far (`KeyParts`), and only the separators at its ends are trimmed (`TrimEnds`) |
| `InitOnceHolds` | `Spec => InitOnce`, an action property | `RootInv`: the root key is absent or has a version, and a simulation that writes it has read it as absent; so what was simulated before the first Init was committed is refused after it |

**Inventory** (`Ec2Inventory_proofs`, `Ec2Fetch_proofs`).

| theorem | statement | argument |
|---|---|---|
| `TypeCorrect` | `Spec => []TypeOK` | `TypeInv`: and a run under way has a region |
| `NothingMeansGoneHolds` | `Spec => []NothingMeansGone` | `NothingInv`, per run: once it has looked in AWS itself, an address its index lacks is one that no instance had since it began |
| `ListsRecentHolds` | `Spec => []ListsRecent` | `RecentInv`: data in the cache, or in the hands of a run, tells of a span of one run that ended when it was fetched (`CacheTells`, `RunsTell`), and who prints without having fetched has judged the cache by its age (`AgeInv`) |
| `CachePathsApartHolds` | `Spec => []CachePathsApart` | a fact about `read_settings` for any two settings: the path has the profile, or else the key, whichever variable or file it comes from |
| `FetchWholeHolds` | `Spec => []FetchWhole` | `IInv`, below |
| `TagsRightHolds` | `Spec => []TagsRight` | `IInv` |
| `NamesResolveHolds` | `Spec => []NamesResolve` | `IInv` |
| `TypeCorrect` (`Ec2Fetch_proofs`) | `Spec => []TypeOK` | `IInv` |

The four of a fetch rest on one invariant, since what is written at the end was
put together one request after the other, and none of the properties says anything
of the time before. The parts of `IInv`:

* `TypeInv`, `TodoInv`, `FoundInv`: types; Route53 comes first and the clusters of
  the last region come last; what a call has found is of its service and existed.
* `SoughtInv`: for each request of a call, where a steady resource must be by now.
  While filters are being asked, an instance one of them wants has been found once
  that filter was answered; in RDS, one before the marker is in the inventory and one
  of the page is still to be added; likewise clusters. That is the proof that no
  marker, page or slice leaves a gap while the list it walks over changes.
* `TagsInv`: the tags of an instance are those of one moment, and those of a steady
  one that the slices have passed are its own.
* `DoneInv`, `ClustersInv`: what no call is left for is `Settled`, which means its
  host is in the index and an instance is in the groups of its tags.
* `Known`, `Resolves`, `Tagged`: the three promises about an inventory, in a form
  that one more entry keeps. An entry is `Sound` when it brings its host, its
  children and its tags along; every add method makes only sound ones (`InstanceSound`,
  `RdsSound`, `ClusterEntriesSound`, `ReplicationEntriesSound`), `Added` keeps the
  promises for a sound entry, and `AddedAll` by induction over the entries.

Assumed are `FetchAssumption` (types), `ServicesAssumption` (the five services)
and `IdsAssumption`. Accounts may have any number of pages of ElastiCache; `FetchWhole` leaves
out the clusters and replication groups of a region with more than one page
(`OnePage`), which the code does not read (ec2.py:654, 692).
`IdsAssumption`: every resource has an id, which is not `rds` and whose safe form is
not `tag_`. AWS has no `_` in ids; a database may be called `rds`, and then
its group takes the place of the list of all databases (ec2.py:974), which is not what
the theorems are about. `NamesResolve` and `TagsRight` leave out what really goes
wrong in the code: a host name that an instance shares with a node of ElastiCache,
whose variables are laid over the instance's, or with a database.

The attempt to prove `NamesResolve` found an error of the model: the account's id was
written into the variables of an instance only when its security groups were known,
while the code writes it always (ec2.py:1401).

**Clusters** (`ClusterLifecycle_proofs`), with a cache or without. `OnePerCluster` and
`Safe[c] = c` are hypotheses of the last two: two starts of one cluster at a time, and
ids that group names change (`KillFinds`), break them.

| theorem | statement | argument |
|---|---|---|
| `TypeCorrect` | `Spec => []TypeOK` | `TypeInv`: and a run under way has a cluster (others have none), and a create step is at least the first |
| `KillsExactlyHolds` | `Spec => []KillsExactly` | `KillInv`: two runs under way are of two clusters (`Apart`); a pending machine has the run that launched it waiting for it, or was left (`Awaited`); the inventory of a run that is about to decide, deploy or kill has every machine of its cluster but those missed (`Knows`). `Awaited` is what carries `Knows` over `BootUp`: no machine of the cluster comes up that nobody waits for |
| `CreatedOnceHolds` | `Spec => []CreatedOnce` | `OnceInv`: and a guarded group that a run is still to create has no machine but missed ones, and the one it is creating no more than it has asked for (`Fresh`) |

**Network** (`NetworkRoles_proofs`), for any number of nodes and any placement of them
on machines, shared ones too.

| theorem | statement | argument |
|---|---|---|
| `TypeCorrect` | `Spec => []TypeOK` | `TypeInv`: and the play is one of the playbook's (`RunOK`), and there are no files before the first generation (`DistOK`) |
| `EndsAlikeHolds` | `Spec => []EndsAlike` | `AlikeInv`: while no host has failed and the artifacts are complete, the nodes whose play has been through them (`Applied`) have containers of the last generation |
| `NoticesDeathsHolds` | `Spec => []NoticesDeaths` | `DeathsInv`: a container that died early is still to be looked at and still dead, or its host has failed, or something shares its machine (`Shares`) |
| `NoLateMessagesHolds` | `Spec => []NoLateMessages` | `LateInv`: while no host has failed, an orderer the removal has been through (`Removed`) has no container or one of this playbook; so from the purge on nothing old is written |

`EndsAlike` is about complete generations only. After a generator that stopped between
the keys and the genesis block, a restart may end well with new keys and the old
block: the model has that behaviour, and no property excludes it.

**Bootstrap** (`Bootstrap_proofs`).

| theorem | statement | argument |
|---|---|---|
| `TypeCorrect` | `FairSpec => []TypeOK` | `TypeInv`: and a key pair carries the name of the run that created it, names are taken in order without a gap, and a run holds one of them or the next |
| `OwnKeyHolds` | `FairSpec => []OwnKey` | `OwnInv`: a name once created is never created again, and its file is written by the run that created it |
| `ConfiguredHolds` | `FairSpec => []Configured` | `PartsInv`: a part is made before it is filled and is never taken back; `FaultlessInv`: while no call has failed, whoever made a part is still filling it, or it is whole |
| `LoneRunsGoOnHolds` | `FairSpec => LoneRunsGoOn`, an action property | `LoneInv`: what a run that is alone and has met no failure has found missing is missing still, its name is free, and no rule it has to add is there, whatever earlier runs left and wherever they stopped |

Only model-checked is liveness (`CallsReturn`, `RunsEnd`, `FetchEnds`), which needs
fairness and ENABLED. Every other property of the passing runs is a theorem.

## What the code does not keep to

Three runs expect a violation; `PROJECT.json` quotes the statement each refutes.

* `chaincode_get`: one get of an unknown name panics the chaincode; the process
  started next has no prefix, and a get of a stored entity finds nothing.
* `cluster_own`: the hosts loader fills the groups from the machines of every
  cluster of the account, so a restart of one cluster makes nodes of another's.
* `network_absent`: the roles check for a running container after removing it; on
  machines of their own, a restart removes the CAs and fails.

Others are stated in the modules, under a heading of their own, without a run; add
the name to a configuration to see the counterexample:

| property | module, with which constants | what happens |
|---|---|---|
| `SizeCountsEntries` | MCTestChaincode, `CalculateSize = TRUE`, 2 names | the counter is 1 after any number of puts |
| `ListIsJson` | MCEc2Inventory, `TwoAddresses`, `HostRuns = FALSE` | a run reads the cache between truncate and write |
| `RegionRespected` | the same with 2 regions and `TwoHomes` | the cache file is not per region |
| `RefreshIsFresh` | MCEc2Inventory, `TwoAddresses` | a refresh that found nothing prints what another run wrote |
| `HostStillThere` | MCEc2Inventory, `OneAddress`, `MayDie = FALSE`, `MaxAge = 1`, `MaxTime = 6` (some minutes) | entries of an old index are written back as new |
| `MapIsFound` | MCMapPages, as `MapRuns.cfg` | after an upgrade Init returns before it sets the prefix, and the map is empty |
| `AnyPageIsSlice` | the same | skip and limit whose sum wraps give one entry or none |
| `KeysTellApart` | the same | trimming removes empty words at the end of a key |
| `RdsTagsOwn` | MCEc2Fetch, as `InventoryFetch.cfg` with `MaxChanges = 0`, `Late = {11}` | from the second page on, RDS instances get the tags of others |
| `CachesListed` | MCEc2Fetch, `Settings <- MCCacheSettings`, `CachePage = 1` | ElastiCache is asked once; the clusters of the second page are in no group (ec2.py:654) |
| `CrushStops` | MCClusterLifecycle, as `ClusterOwn.cfg` | a start that is interrupted leaves its machines pending; the next one, told to stop where a cluster exists, does not see them and creates it again |
| `KillsAll` | the same | nor does a kill see them, and they come up after it |
| `KillFinds` | the same with `Safe <- DashedId` | the tag group of an id with a dash has another name |
| `CreatedAsConfigured` | MCClusterLifecycle, as `ClusterOwn.cfg` | the second run replaces the first's configuration |
| `SkipCreatesNothing` | the same with `AllSkip`, no symmetry | business nodes are created without `skip_starter` |
| `CheckedIsAlive` | MCNetworkRoles, as `NetworkRuns.cfg` | `docker ps` sees any container, so on a shared machine a dead node passes |
| `OneKeyFile` | the same | a second start copies a CA's key beside the old one, and the CA is given both names |
| `TopicsAreCurrent` | the same | errors of the deletion of topics are ignored, and the old ones stay |
| `CleanupRemovesAll` | the same with one orderer: `Node = {ca, o1, p1}`, `Machine` likewise, no symmetry | a single orderer's task says `state: started`, in the cleanup, too |
| `CopyEnds` | MCBootstrap, as `BootstrapRuns.cfg` with `Run = {r1}`, `LocalAMI = {FALSE}`, `MaxFaults = 0` | the redirection inside the quotes of `instance_ami="$(...) 2> ${ERR}"` makes the copied image's id one that does not exist; the wait is endless |
| `RoleVerified` | MCBootstrap, as `BootstrapRuns.cfg` | a role that an interrupted run left without its policies is used as it is |

Behind what the properties promise, and short of what a reader may hope for:

* The ElastiCache clusters of a region replace those of the region before
  (ec2.py:640); of two machines with one host name the second has the index and the
  variables (820); with `all_rds_instances` an instance without endpoint ends the run (953); the lists of ElastiCache clusters and replication
  groups have ids, not hosts (1154). The role to assume is not part of the cache's
  name (327), and requests to Route53 and IAM are not made as that role (448).
* Two starts share `network_dist`; the script of the bootstrap counts key pairs where it
  needs a free number (bootStrap.sh:128); a group left without its rules is used as it
  is, and the script then waits for a ping forever (`WaitsInVain`).
* With `calculateSize` the counter's value is wrong whatever its versions say:
  `GetSize` does not decode what it reads (CouchChaincodeMap.go:283).

## What is not modelled

* Chaincode: `OldSChool_Invoke`, `checkPermissions` (unused), and
  `getBalanceHistory` of the connector, whose function the chaincode lacks.
* Inventory: eucalyptus, the role that may be assumed (whether a role may assume
  itself is the account's policy), JSON and its formatting, the wording of errors.
  `Ec2Fetch` is one run without the cache, `Ec2Inventory` several with it; they are
  not composed, and what one assumes of the other is that a fetch gives what was
  there throughout (`FetchWhole`).
* Map: the methods for strings and bytes beyond what they share with those for
  protobuf; values that are empty.
* Cluster operations: the static inventory mode of `ops-cli`, waiting for ssh,
  package installation, EC2's own failures beyond "the task fails".
* Network: installation of kafka and zookeeper, `network_dir` made elsewhere, two
  playbooks at a time, what a node does with files of two generations.
* Bootstrap: the setup of the machine over ssh. The script looks at none of its
  results; `SetUp` stands for it. Other causes why a machine does not answer than the
  group and the key.
* Generators: what they put into the files. Where `ops/generator/generate.sh` may stop
  is part of `NetworkRoles`.
* Launcher, host preparation, monitoring, vendored and generated
  code: straight-line, or not this project's logic.

## Plan

In this order, the most important first:

1. `LocalNetwork`: up, down, clean and the removal of chaincode containers and
   images in `fabric.sh`, interrupted anywhere.
2. `Deployment`: `Ec2Inventory` and `ClusterLifecycle` composed, the cached list of
   the second replaced by the files of the first; two playbooks that share
   `network_dist`.
3. Abstract specifications: a register of machines for the lifecycle ("created,
   deployed, killed"), an atomic inventory that `Ec2Inventory` refines except for
   bounded staleness.
4. Proofs: what the modules of 1 to 3 promise. Of the modules there are, liveness
   is left (see [What is proved](#what-is-proved)).
