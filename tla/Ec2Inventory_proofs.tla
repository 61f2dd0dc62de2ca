------------------------ MODULE Ec2Inventory_proofs -------------------------
(***************************************************************************)
(* What Ec2Inventory guarantees for every number of runs, instances and    *)
(* addresses, every age the cache may get and every length of a run.       *)
(***************************************************************************)
EXTENDS Ec2Inventory, TLAPS

-----------------------------------------------------------------------------
(* Type correctness *)

\* The type invariant, and what it takes: a run that is under way has a region.
TypeInv ==
    /\ TypeOK
    /\ \A p \in Run : proc[p].pc # "idle" => proc[p].region \in Region

\* A run that has not begun, or that has ended.
LEMMA IdleType == Idle \in Process /\ EmptyIndex \in IndexData
  BY DEF Idle, EmptyIndex, IndexData, Process

\* The steps of one run.
RunStep(p) ==
    \/ \E want \in Host \union {NIL}, r \in Region, refresh \in BOOLEAN :
          Start(p, want, r, refresh)
    \/ get_instances_by_region(p) \/ fail_with_error(p)
    \/ OpenCache(p) \/ WriteCache(p) \/ OpenIndex(p) \/ WriteIndex(p)
    \/ PrintList(p) \/ get_host_info(p) \/ get_instance(p)
    \/ PrintNothing(p) \/ Die(p)

\* A record a run may have: of the right type, not from the future, not older
\* than a run gets, and with an instance to ask about if it asks about one.
GoodRun(x) ==
    /\ x \in Process
    /\ x.start <= now
    /\ x.pc # "idle" => now <= x.start + MaxRun /\ x.region \in Region
    /\ x.pc = "query" => x.idx[x.want] # NIL

\* What a run writes into a file is data of the file's kind.
LEMMA WrittenType ==
    ASSUME NEW D, NEW d \in D, NEW old \in File(D)
    PROVE  Written(old, d) \subseteq File(D)
  BY DEF Written, File

LEMMA TypeInit == Init => TypeInv
  <1> SUFFICES ASSUME Init PROVE TypeInv
    OBVIOUS
  <1>1. \A p \in Run : proc[p] = Idle
    BY DEF Init
  <1>2. TypeOK
    <2>1. /\ now \in Nat /\ state \in [Instance -> {"none", "running", "gone"}]
          /\ from \in [Instance -> Nat] /\ until \in [Instance -> Nat]
          /\ proc \in [Run -> Process]
      BY IdleType DEF Init
    <2>2. /\ cache \in [file : File(SUBSET Instance), mtime : 0..now]
          /\ index \in File(IndexData)
      BY DEF Init, File
    <2>3. \A p \in Run : proc[p].start = 0 /\ proc[p].pc = "idle" /\ now = 0
      BY <1>1 DEF Init, Idle
    <2>4. QED
      BY <2>1, <2>2, <2>3 DEF TypeOK
  <1>3. QED
    BY <1>1, <1>2 DEF TypeInv, Idle

\* What the steps of a run leave alone.
LEMMA RunWrites ==
    ASSUME NEW p \in Run, RunStep(p)
    PROVE  /\ UNCHANGED <<now, state, from, until>>
           /\ OpenCache(p) \/ WriteCache(p) \/ UNCHANGED cache
           /\ OpenIndex(p) \/ WriteIndex(p) \/ UNCHANGED index
  BY DEF RunStep, Start, get_instances_by_region, fail_with_error, OpenCache,
     WriteCache, OpenIndex, WriteIndex, PrintList, get_host_info, get_instance,
     PrintNothing, Die

\* Each step of a run of ec2.py gives it such a record.
LEMMA RunType ==
    ASSUME TypeInv, NEW p \in Run, RunStep(p)
    PROVE  \E x : GoodRun(x) /\ proc' = [proc EXCEPT ![p] = x]
  <1>0. /\ proc \in [Run -> Process] /\ proc[p] \in Process /\ now \in Nat /\ MaxRun \in Nat
        /\ proc[p].start <= now
        /\ proc[p].pc # "idle" => now <= proc[p].start + MaxRun /\ proc[p].region \in Region
        /\ index \in File(IndexData)
    BY InventoryAssumption DEF TypeInv, TypeOK
  <1>1. CASE proc' = [proc EXCEPT ![p] = Idle]
    <2>1. Idle.start = 0 /\ Idle.pc = "idle"
      BY DEF Idle
    <2>2. GoodRun(Idle)
      BY <1>0, <2>1, IdleType DEF GoodRun
    <2>3. QED
      BY <1>1, <2>2
  <1>2. ASSUME NEW want \in Host \union {NIL}, NEW r \in Region, NEW refresh \in BOOLEAN,
               Start(p, want, r, refresh)
        PROVE  \E x : GoodRun(x) /\ proc' = [proc EXCEPT ![p] = x]
    <2> DEFINE x == [Idle EXCEPT !.pc = IF refresh \/ ~is_cache_valid THEN "fetch" ELSE "answer",
                                 !.want = want, !.region = r, !.refresh = refresh,
                                 !.start = now]
    <2>1. x \in Process /\ x.start = now /\ x.region = r /\ x.pc # "query"
      BY <1>0, IdleType DEF Idle, Process
    <2>2. GoodRun(x)
      BY <1>0, <2>1 DEF GoodRun
    <2>3. QED
      BY <1>2, <2>2 DEF Start
  <1>3. CASE get_instances_by_region(p)
    <2> DEFINE found == add_instance(proc[p].region)
               at(h) == {i \in found : Address[i] = h}
               x == [proc[p] EXCEPT !.pc = "openCache", !.inv = @ \union found,
                        !.idx = [h \in Host |-> IF at(h) = {} THEN @[h]
                                                ELSE CHOOSE i \in at(h) : TRUE]]
    <2>1. found \subseteq Instance
      BY DEF add_instance, Running
    <2>2. \A h \in Host : at(h) # {} => (CHOOSE i \in at(h) : TRUE) \in Instance
      BY <2>1
    <2>3. x \in Process
      BY <1>0, <2>1, <2>2 DEF Process, IndexData
    <2>4. GoodRun(x)
      BY <1>0, <1>3, <2>3 DEF GoodRun, get_instances_by_region, Process
    <2>5. QED
      BY <1>0, <1>3, <2>4 DEF get_instances_by_region
  <1>4. CASE OpenCache(p) \/ WriteCache(p) \/ OpenIndex(p) \/ WriteIndex(p)
    <2>1. PICK l \in {"writeCache", "openIndex", "writeIndex", "answer"} :
             proc' = [proc EXCEPT ![p] = [proc[p] EXCEPT !.pc = l]]
      BY <1>0, <1>4 DEF OpenCache, WriteCache, OpenIndex, WriteIndex
    <2>2. GoodRun([proc[p] EXCEPT !.pc = l])
      BY <1>0, <1>4 DEF GoodRun, Process, OpenCache, WriteCache, OpenIndex, WriteIndex
    <2>3. QED
      BY <2>1, <2>2
  <1>5. CASE get_host_info(p)
    <2>1. Index(p).is = "whole" => Index(p).data \in IndexData
      BY <1>0 DEF Index, File, Whole, NoFile, Empty, Torn, Process
    <2>2. proc[p].pc = "answer" /\ proc[p].want # NIL
      BY <1>5 DEF get_host_info
    <2>3. CASE /\ Index(p).is = "whole" /\ Index(p).data[proc[p].want] # NIL
               /\ proc' = [proc EXCEPT ![p].pc = "query", ![p].idx = Index(p).data]
      <3> DEFINE x == [proc[p] EXCEPT !.pc = "query", !.idx = Index(p).data]
      <3>1. GoodRun(x)
        BY <1>0, <2>1, <2>2, <2>3 DEF GoodRun, Process
      <3>2. QED
        BY <1>0, <2>3, <3>1
    <2>4. CASE /\ Index(p).is = "whole" /\ Index(p).data[proc[p].want] = NIL
               /\ proc' = [proc EXCEPT ![p].pc = IF proc[p].again THEN "nothing" ELSE "fetch",
                                       ![p].idx = Index(p).data, ![p].again = TRUE]
      <3> DEFINE x == [proc[p] EXCEPT !.pc = IF proc[p].again THEN "nothing" ELSE "fetch",
                                      !.idx = Index(p).data, !.again = TRUE]
      <3>1. GoodRun(x)
        BY <1>0, <2>1, <2>2, <2>4 DEF GoodRun, Process
      <3>2. QED
        BY <1>0, <2>4, <3>1
    <2>5. QED
      BY <1>1, <1>5, <2>3, <2>4 DEF get_host_info
  <1>6. QED
    BY <1>1, <1>2, <1>3, <1>4, <1>5 DEF RunStep, fail_with_error, PrintList, get_instance,
       PrintNothing, Die

LEMMA TypeStep == TypeInv /\ [Next]_vars => TypeInv'
  <1> SUFFICES ASSUME TypeInv, [Next]_vars PROVE TypeInv'
    OBVIOUS
  <1>0. /\ proc \in [Run -> Process] /\ now \in Nat /\ MaxRun \in Nat
        /\ state \in [Instance -> {"none", "running", "gone"}]
        /\ from \in [Instance -> Nat] /\ until \in [Instance -> Nat]
        /\ cache \in [file : File(SUBSET Instance), mtime : 0..now]
        /\ index \in File(IndexData)
        /\ \A q \in Run : GoodRun(proc[q])
    BY InventoryAssumption DEF TypeInv, TypeOK, GoodRun, Named
  <1>1. CASE Tick
    <2>1. now' \in Nat /\ cache' \in [file : File(SUBSET Instance), mtime : 0..now']
      BY <1>0, <1>1 DEF Tick
    <2>2. \A q \in Run : GoodRun(proc[q])'
      BY <1>0, <1>1 DEF Tick, GoodRun, Process
    <2>3. QED
      BY <1>0, <1>1, <2>1, <2>2 DEF Tick, TypeInv, TypeOK, GoodRun, Named
  <1>2. ASSUME NEW i \in Instance, Launch(i) \/ Terminate(i) PROVE TypeInv'
    <2>1. /\ state' \in [Instance -> {"none", "running", "gone"}]
          /\ from' \in [Instance -> Nat] /\ until' \in [Instance -> Nat]
      BY <1>0, <1>2 DEF Launch, Terminate
    <2>2. QED
      BY <1>0, <1>2, <2>1 DEF Launch, Terminate, TypeInv, TypeOK, Named
  <1>3. ASSUME NEW p \in Run, RunStep(p)
        PROVE  TypeInv'
    <2>1. PICK x : GoodRun(x) /\ proc' = [proc EXCEPT ![p] = x]
      BY <1>3, RunType
    <2>2. UNCHANGED <<now, state, from, until>>
      BY <1>3, RunWrites
    <2>3. cache' \in [file : File(SUBSET Instance), mtime : 0..now]
      <3>1. CASE OpenCache(p)
        BY <1>0, <3>1 DEF OpenCache, File
      <3>2. CASE WriteCache(p)
        <4>1. Written(cache.file, proc[p].inv) \subseteq File(SUBSET Instance)
          BY <1>0, WrittenType DEF Process
        <4>2. QED
          <5>1. PICK f \in Written(cache.file, proc[p].inv) :
                   cache' = [file |-> f, mtime |-> now]
            BY <3>2 DEF WriteCache
          <5>2. f \in File(SUBSET Instance)
            BY <4>1
          <5>3. now \in 0..now
            BY <1>0
          <5>4. QED
            BY <5>1, <5>2, <5>3
      <3>3. QED
        BY <1>0, <1>3, <3>1, <3>2, RunWrites
    <2>4. index' \in File(IndexData)
      <3>1. CASE OpenIndex(p)
        BY <3>1 DEF OpenIndex, File
      <3>2. CASE WriteIndex(p)
        <4>1. Written(index, proc[p].idx) \subseteq File(IndexData)
          BY <1>0, WrittenType DEF Process
        <4>2. QED
          BY <3>2, <4>1 DEF WriteIndex
      <3>3. QED
        BY <1>0, <1>3, <3>1, <3>2, RunWrites
    <2>5. proc' \in [Run -> Process] /\ \A q \in Run : GoodRun(proc'[q])
      BY <1>0, <2>1 DEF GoodRun
    <2>6. QED
      BY <1>0, <2>2, <2>3, <2>4, <2>5 DEF TypeInv, TypeOK, GoodRun, Named
  <1>4. CASE UNCHANGED vars
    BY <1>4 DEF vars, TypeInv, TypeOK, Named
  <1>5. QED
    BY <1>1, <1>2, <1>3, <1>4 DEF Next, RunStep

\* No file and no run of ec2.py is from the future, and a run that asks AWS
\* about one instance (get_host_info) has an instance to ask about.
THEOREM TypeCorrect == Spec => []TypeOK
  <1>1. TypeInv => TypeOK
    BY DEF TypeInv
  <1>2. QED
    BY <1>1, TypeInit, TypeStep, PTL DEF Spec
-----------------------------------------------------------------------------
(* A host that is printed as nothing *)

\* A run that has asked AWS on behalf of the host it wants.
Looked(p) ==
    \/ proc[p].pc \in {"openCache", "writeCache", "openIndex", "writeIndex", "nothing"}
    \/ proc[p].pc = "answer" /\ proc[p].again

\* No instance has had the host's address since before the run began.
Absent(p) ==
    ~\E i \in Running : /\ Address[i] = proc[p].want
                        /\ Home[i] = proc[p].region
                        /\ from[i] < proc[p].start

\* What such a run has not found is not there, and nothing is not printed of a
\* host it has found.
NothingOK(p) ==
    /\ proc[p].want # NIL /\ Looked(p) /\ proc[p].idx[proc[p].want] = NIL => Absent(p)
    /\ proc[p].pc = "nothing" => /\ proc[p].want # NIL
                                 /\ proc[p].idx[proc[p].want] = NIL

NothingInv == \A p \in Run : NothingOK(p)

\* A host that is absent stays absent: what starts later starts later.
LEMMA AbsentStays ==
    ASSUME TypeInv, NEW i \in Instance, Launch(i) \/ Terminate(i),
           NEW p \in Run, Absent(p)
    PROVE  Absent(p)'
  <1>0. /\ proc[p].start <= now /\ proc[p].start \in Nat /\ now \in Nat
        /\ state \in [Instance -> {"none", "running", "gone"}]
        /\ from \in [Instance -> Nat]
    BY DEF TypeInv, TypeOK, Process
  <1>1. CASE Launch(i)
    BY <1>0, <1>1 DEF Launch, Absent, Running
  <1>2. CASE Terminate(i)
    BY <1>0, <1>2 DEF Terminate, Absent, Running
  <1>3. QED
    BY <1>1, <1>2

\* The answer of AWS has every instance that runs in the region.
LEMMA FetchFinds ==
    ASSUME TypeInv, NEW p \in Run, get_instances_by_region(p),
           NEW h \in Host, proc'[p].idx[h] = NIL
    PROVE  ~\E i \in Running : Address[i] = h /\ Home[i] = proc[p].region
  <1> DEFINE at == {i \in add_instance(proc[p].region) : Address[i] = h}
  <1>1. proc \in [Run -> Process]
    BY DEF TypeInv, TypeOK
  <1>2. proc'[p].idx[h] = IF at = {} THEN proc[p].idx[h] ELSE CHOOSE i \in at : TRUE
    BY <1>1 DEF get_instances_by_region, Process, IndexData
  <1>3. at # {} => (CHOOSE i \in at : TRUE) \in Instance
    BY DEF add_instance, Running
  <1>4. at = {}
    BY <1>2, <1>3, InventoryAssumption
  <1>5. QED
    BY <1>4 DEF add_instance

\* A run's own step keeps it.
LEMMA NothingRun ==
    ASSUME TypeInv, NEW p \in Run, NothingOK(p), RunStep(p)
    PROVE  NothingOK(p)'
  <1>0. /\ proc \in [Run -> Process] /\ proc[p] \in Process
        /\ index \in File(IndexData)
    BY DEF TypeInv, TypeOK
  <1>1. CASE proc' = [proc EXCEPT ![p] = Idle]
    BY <1>0, <1>1 DEF Idle, NothingOK, Looked
  <1>2. CASE \E want \in Host \union {NIL}, r \in Region, refresh \in BOOLEAN :
                Start(p, want, r, refresh)
    <2>1. proc'[p].pc \in {"fetch", "answer"} /\ ~proc'[p].again
      BY <1>0, <1>2 DEF Start, Idle
    <2>2. QED
      BY <2>1 DEF NothingOK, Looked
  <1>3. CASE get_instances_by_region(p)
    <2>1. /\ proc'[p].pc = "openCache" /\ proc'[p].want = proc[p].want
          /\ proc'[p].region = proc[p].region /\ proc'[p].start = proc[p].start
          /\ UNCHANGED <<state, from>>
      BY <1>0, <1>3 DEF get_instances_by_region, Process
    <2>2. ASSUME proc[p].want # NIL, proc'[p].idx[proc[p].want] = NIL
          PROVE  Absent(p)'
      <3>1. ~\E i \in Running : Address[i] = proc[p].want /\ Home[i] = proc[p].region
        BY <1>0, <1>3, <2>2, FetchFinds DEF Process
      <3>2. QED
        BY <2>1, <3>1 DEF Absent, Running
    <2>3. QED
      BY <2>1, <2>2 DEF NothingOK
  <1>4. CASE OpenCache(p) \/ WriteCache(p) \/ OpenIndex(p) \/ WriteIndex(p)
    <2>1. PICK l \in {"writeCache", "openIndex", "writeIndex", "answer"} :
             proc' = [proc EXCEPT ![p] = [proc[p] EXCEPT !.pc = l]]
      BY <1>0, <1>4 DEF OpenCache, WriteCache, OpenIndex, WriteIndex
    <2>2. proc'[p] = [proc[p] EXCEPT !.pc = l]
      BY <1>0, <2>1
    <2>3. Looked(p) /\ UNCHANGED <<state, from>>
      BY <1>4 DEF Looked, OpenCache, WriteCache, OpenIndex, WriteIndex
    <2>4. Absent(p) => Absent(p)'
      BY <1>0, <2>2, <2>3 DEF Absent, Running, Process
    <2>5. QED
      BY <1>0, <2>2, <2>3, <2>4 DEF NothingOK, Process
  <1>5. CASE get_host_info(p)
    <2>1. CASE /\ Index(p).is = "whole" /\ Index(p).data[proc[p].want] # NIL
               /\ proc' = [proc EXCEPT ![p].pc = "query", ![p].idx = Index(p).data]
      <3>1. proc'[p].pc = "query"
        BY <1>0, <2>1 DEF Process
      <3>2. QED
        BY <3>1 DEF NothingOK, Looked
    <2>2. CASE /\ Index(p).is = "whole" /\ Index(p).data[proc[p].want] = NIL
               /\ proc' = [proc EXCEPT ![p].pc = IF proc[p].again THEN "nothing" ELSE "fetch",
                                       ![p].idx = Index(p).data, ![p].again = TRUE]
      <3>1. /\ proc'[p].pc = IF proc[p].again THEN "nothing" ELSE "fetch"
            /\ proc'[p].idx = Index(p).data /\ proc'[p].want = proc[p].want
            /\ proc'[p].region = proc[p].region /\ proc'[p].start = proc[p].start
            /\ proc[p].again \in BOOLEAN
        BY <1>0, <2>2 DEF Process
      <3>2. CASE proc[p].again
        <4>1. Index(p).data = proc[p].idx /\ proc[p].idx[proc[p].want] = NIL
          BY <2>2, <3>2 DEF Index, Whole
        <4>2. Absent(p)
          BY <1>5, <3>2, <4>1 DEF get_host_info, NothingOK, Looked
        <4>3. Absent(p)'
          BY <1>5, <3>1, <4>2 DEF get_host_info, Absent, Running
        <4>4. QED
          BY <1>5, <3>1, <4>1, <4>3 DEF get_host_info, NothingOK
      <3>3. CASE ~proc[p].again
        <4>1. proc'[p].pc = "fetch"
          BY <3>1, <3>3
        <4>2. QED
          BY <4>1 DEF NothingOK, Looked
      <3>4. QED
        BY <3>1, <3>2, <3>3
    <2>3. QED
      BY <1>1, <1>5, <2>1, <2>2 DEF get_host_info
  <1>6. QED
    BY <1>1, <1>2, <1>3, <1>4, <1>5 DEF RunStep, fail_with_error, PrintList, get_instance,
       PrintNothing, Die

LEMMA NothingStep == TypeInv /\ NothingInv /\ [Next]_vars => NothingInv'
  <1> SUFFICES ASSUME TypeInv, NothingInv, [Next]_vars PROVE NothingInv'
    OBVIOUS
  <1>1. CASE Tick
    BY <1>1 DEF Tick, NothingInv, NothingOK, Looked, Absent, Running
  <1>2. ASSUME NEW i \in Instance, Launch(i) \/ Terminate(i) PROVE NothingInv'
    <2>1. UNCHANGED proc
      BY <1>2 DEF Launch, Terminate
    <2>2. QED
      BY <1>2, <2>1, AbsentStays DEF NothingInv, NothingOK, Looked
  <1>3. ASSUME NEW p \in Run, RunStep(p)
        PROVE  NothingInv'
    <2>1. NothingOK(p)'
      BY <1>3, NothingRun DEF NothingInv
    <2>2. PICK x : GoodRun(x) /\ proc' = [proc EXCEPT ![p] = x]
      BY <1>3, RunType
    <2>3. UNCHANGED <<now, state, from, until>>
      BY <1>3, RunWrites
    <2>4. ASSUME NEW q \in Run, q # p PROVE NothingOK(q)'
      <3>1. proc'[q] = proc[q]
        BY <2>2, <2>4 DEF TypeInv, TypeOK
      <3>2. QED
        BY <2>3, <3>1 DEF NothingInv, NothingOK, Looked, Absent, Running
    <2>5. QED
      BY <2>1, <2>4 DEF NothingInv
  <1>4. CASE UNCHANGED vars
    BY <1>4 DEF vars, NothingInv, NothingOK, Looked, Absent, Running
  <1>5. QED
    BY <1>1, <1>2, <1>3, <1>4 DEF Next, RunStep

\* A run of ec2.py --host prints {} only of a host that no instance of its
\* region has been since before the run began, whatever the index file said.
THEOREM NothingMeansGoneHolds == Spec => []NothingMeansGone
  <1>1. Init => NothingInv
    BY DEF Init, Idle, NothingInv, NothingOK, Looked
  <1>2. NothingInv => NothingMeansGone
    <2> SUFFICES ASSUME NothingInv, NEW p \in Run, proc[p].pc = "nothing"
                 PROVE  Absent(p)
      BY DEF NothingMeansGone, Absent
    <2>1. QED
      BY DEF NothingInv, NothingOK, Looked
  <1>3. QED
    BY <1>1, <1>2, TypeInit, TypeStep, NothingStep, PTL DEF Spec
-----------------------------------------------------------------------------
(* The age of what is listed *)

\* Instances have begun to run and stopped in the past.
PastInv ==
    \A i \in Instance : /\ state[i] # "none" => from[i] <= now
                        /\ state[i] = "gone" => until[i] <= now

\* A run that prints without having fetched found the cache young enough when
\* it began; one that fetched has written the cache since.
AgeInv ==
    \A p \in Run :
       /\ proc[p].pc \in {"writeCache", "openIndex", "writeIndex"}
          => proc[p].start <= cache.mtime
       /\ proc[p].pc = "answer" => proc[p].start - MaxAge <= cache.mtime

\* What the cache contains was true at some time in the run that wrote it.
CacheTells ==
    cache.file.is = "whole" =>
       \A r \in Region : Tells(cache.file.data, r, cache.mtime - MaxRun, cache.mtime)

\* What a run has fetched was true at some time since it began.
Fetched(p) ==
    /\ proc[p].pc # "idle"
    /\ \/ proc[p].inv # {}
       \/ proc[p].pc \in {"openCache", "writeCache", "openIndex", "writeIndex"}

RunsTell ==
    \A p \in Run : Fetched(p) => Tells(proc[p].inv, proc[p].region, proc[p].start, now)

RecentInv == PastInv /\ AgeInv /\ (OneRegion => CacheTells /\ RunsTell)

\* What was true of a span is true of a longer one.
LEMMA TellsLonger ==
    ASSUME TypeInv, NEW d \in SUBSET Instance, NEW r,
           NEW lo1 \in Int, NEW hi1 \in Int, NEW lo2 \in Int, NEW hi2 \in Int,
           lo2 <= lo1, hi1 <= hi2, Tells(d, r, lo1, hi1)
    PROVE  Tells(d, r, lo2, hi2)
  <1>0. from \in [Instance -> Nat] /\ until \in [Instance -> Nat]
    BY DEF TypeInv, TypeOK
  <1>1. ASSUME NEW i \in d PROVE RanDuring(i, lo2, hi2)
    <2>1. from[i] \in Nat /\ until[i] \in Nat /\ RanDuring(i, lo1, hi1)
      BY <1>0 DEF Tells
    <2>2. QED
      BY <2>1 DEF RanDuring
  <1>2. ASSUME NEW i \in Instance, Home[i] = r, RanThroughout(i, lo2, hi2)
        PROVE  i \in d
    <2>1. from[i] \in Nat /\ until[i] \in Nat
      BY <1>0
    <2>2. RanThroughout(i, lo1, hi1)
      BY <1>2, <2>1 DEF RanThroughout
    <2>3. QED
      BY <1>2, <2>2 DEF Tells
  <1>3. QED
    BY <1>1, <1>2 DEF Tells

\* What is true of a span that has begun stays true when instances come and go.
LEMMA TellsStays ==
    ASSUME TypeInv, NEW i \in Instance, Launch(i) \/ Terminate(i),
           NEW d \in SUBSET Instance, NEW r, NEW lo \in Int, NEW hi \in Int,
           lo <= now, Tells(d, r, lo, hi)
    PROVE  Tells(d, r, lo, hi)'
  <1>0. /\ from \in [Instance -> Nat] /\ until \in [Instance -> Nat] /\ now \in Nat
        /\ state \in [Instance -> {"none", "running", "gone"}]
    BY DEF TypeInv, TypeOK
  <1>1. ASSUME NEW j \in d PROVE RanDuring(j, lo, hi)'
    <2>1. RanDuring(j, lo, hi)
      BY DEF Tells
    <2>2. QED
      BY <1>0, <2>1 DEF RanDuring, Launch, Terminate
  <1>2. ASSUME NEW j \in Instance, Home[j] = r, RanThroughout(j, lo, hi)'
        PROVE  j \in d
    <2>1. RanThroughout(j, lo, hi)
      BY <1>0, <1>2 DEF RanThroughout, Launch, Terminate
    <2>2. QED
      BY <1>2, <2>1 DEF Tells
  <1>3. QED
    BY <1>1, <1>2 DEF Tells

\* The clock and the instances.
LEMMA RecentWorld ==
    ASSUME TypeInv, RecentInv, Tick \/ \E i \in Instance : Launch(i) \/ Terminate(i)
    PROVE  RecentInv'
  <1>0. /\ now \in Nat /\ MaxRun \in Nat /\ proc \in [Run -> Process]
        /\ cache \in [file : File(SUBSET Instance), mtime : 0..now]
        /\ state \in [Instance -> {"none", "running", "gone"}]
        /\ from \in [Instance -> Nat] /\ until \in [Instance -> Nat]
        /\ UNCHANGED <<proc, cache>>
    BY InventoryAssumption DEF TypeInv, TypeOK, Tick, Launch, Terminate
  <1>1. PastInv'
    BY <1>0 DEF RecentInv, PastInv, Tick, Launch, Terminate
  <1>2. AgeInv'
    BY <1>0 DEF RecentInv, AgeInv
  <1>3. ASSUME OneRegion, NEW r \in Region, cache.file.is = "whole"
        PROVE  Tells(cache.file.data, r, cache.mtime - MaxRun, cache.mtime)'
    <2>1. Tells(cache.file.data, r, cache.mtime - MaxRun, cache.mtime)
      BY <1>3 DEF RecentInv, CacheTells
    <2>2. /\ cache.file.data \in SUBSET Instance
          /\ cache.mtime \in Int /\ cache.mtime - MaxRun \in Int /\ cache.mtime - MaxRun <= now
      BY <1>0, <1>3 DEF File, NoFile, Empty, Torn, Whole
    <2>3. CASE Tick
      BY <1>0, <2>1, <2>3 DEF Tick, Tells, RanDuring, RanThroughout
    <2>4. CASE \E i \in Instance : Launch(i) \/ Terminate(i)
      <3>1. PICK i \in Instance : Launch(i) \/ Terminate(i)
        BY <2>4
      <3>2. QED
        BY <1>0, <2>1, <2>2, <3>1, TellsStays
    <2>5. QED
      BY <2>3, <2>4
  <1>4. ASSUME OneRegion, NEW p \in Run, Fetched(p)'
        PROVE  Tells(proc[p].inv, proc[p].region, proc[p].start, now)'
    <2>1. Tells(proc[p].inv, proc[p].region, proc[p].start, now)
      BY <1>0, <1>4 DEF RecentInv, RunsTell, Fetched
    <2>2. proc[p].inv \in SUBSET Instance /\ proc[p].start \in Int /\ proc[p].start <= now
      BY <1>0 DEF Process, TypeInv, TypeOK
    <2>3. CASE Tick
      <3>1. now' = now + 1 /\ UNCHANGED <<state, from, until>>
        BY <2>3 DEF Tick
      <3>2. Tells(proc[p].inv, proc[p].region, proc[p].start, now + 1)
        BY <1>0, <2>1, <2>2, TellsLonger
      <3>3. QED
        BY <1>0, <3>1, <3>2 DEF Tells, RanDuring, RanThroughout
    <2>4. CASE \E i \in Instance : Launch(i) \/ Terminate(i)
      <3>1. PICK i \in Instance : Launch(i) \/ Terminate(i)
        BY <2>4
      <3>2. UNCHANGED now
        BY <3>1 DEF Launch, Terminate
      <3>3. QED
        BY <1>0, <2>1, <2>2, <3>1, <3>2, TellsStays
    <2>5. QED
      BY <2>3, <2>4
  <1>5. QED
    BY <1>0, <1>1, <1>2, <1>3, <1>4 DEF RecentInv, CacheTells, RunsTell

\* The ages, in a step of a run: the time of the cache only grows.
LEMMA AgeRun ==
    ASSUME TypeInv, AgeInv, NEW p \in Run, RunStep(p)
    PROVE  AgeInv'
  <1>0. /\ now \in Nat /\ MaxAge \in Nat /\ proc \in [Run -> Process]
        /\ cache.mtime \in Nat /\ cache.mtime <= now
        /\ \A q \in Run : proc[q].start \in Nat /\ proc[q].start <= now
    BY InventoryAssumption DEF TypeInv, TypeOK, Process
  <1>1. cache'.mtime \in Nat /\ cache.mtime <= cache'.mtime
    <2>1. CASE OpenCache(p) \/ WriteCache(p)
      BY <1>0, <2>1 DEF OpenCache, WriteCache
    <2>2. QED
      BY <1>0, <2>1, RunWrites
  <1>2. ASSUME NEW q \in Run, q # p PROVE proc'[q] = proc[q]
    BY <1>0, <1>2, RunType
  <1>3. /\ proc'[p].pc \in {"writeCache", "openIndex", "writeIndex"}
           => proc'[p].start <= cache'.mtime
        /\ proc'[p].pc = "answer" => proc'[p].start - MaxAge <= cache'.mtime
    <2>1. CASE proc' = [proc EXCEPT ![p] = Idle]
      BY <1>0, <2>1 DEF Idle
    <2>2. CASE \E want \in Host \union {NIL}, r \in Region, refresh \in BOOLEAN :
                  Start(p, want, r, refresh)
      <3>1. /\ proc'[p].start = now /\ UNCHANGED cache
            /\ \/ proc'[p].pc = "fetch"
               \/ proc'[p].pc = "answer" /\ is_cache_valid
        BY <1>0, <2>2 DEF Start, Idle
      <3>2. is_cache_valid => now - MaxAge <= cache.mtime
        BY <1>0 DEF is_cache_valid
      <3>3. QED
        BY <3>1, <3>2
    <2>3. CASE get_instances_by_region(p) \/ get_host_info(p)
      <3>1. proc'[p].pc \in {"openCache", "query", "nothing", "fetch", "idle"}
        BY <1>0, <2>3 DEF get_instances_by_region, get_host_info, Process, Idle
      <3>2. QED
        BY <3>1
    <2>4. CASE OpenCache(p)
      <3>1. cache'.mtime = now /\ proc'[p].start = proc[p].start /\ proc'[p].pc = "writeCache"
        BY <1>0, <2>4 DEF OpenCache, Process
      <3>2. QED
        BY <1>0, <3>1
    <2>5. CASE WriteCache(p) \/ OpenIndex(p) \/ WriteIndex(p)
      <3>1. /\ proc[p].pc \in {"writeCache", "openIndex", "writeIndex"}
            /\ proc'[p].start = proc[p].start
        BY <1>0, <2>5 DEF WriteCache, OpenIndex, WriteIndex, Process
      <3>2. proc[p].start <= cache.mtime
        BY <3>1 DEF AgeInv
      <3>3. QED
        BY <1>0, <1>1, <3>1, <3>2
    <2>6. QED
      BY <2>1, <2>2, <2>3, <2>4, <2>5 DEF RunStep, fail_with_error, PrintList,
         get_instance, PrintNothing, Die
  <1>4. QED
    BY <1>0, <1>1, <1>2, <1>3 DEF AgeInv

\* One answer of AWS tells what runs now, and what a run knew it still knows.
LEMMA FetchTells ==
    ASSUME TypeInv, PastInv, NEW p \in Run, get_instances_by_region(p),
           Fetched(p) => Tells(proc[p].inv, proc[p].region, proc[p].start, now)
    PROVE  Tells(proc'[p].inv, proc[p].region, proc[p].start, now)
  <1>0. /\ from \in [Instance -> Nat] /\ until \in [Instance -> Nat] /\ now \in Nat
        /\ state \in [Instance -> {"none", "running", "gone"}]
        /\ proc[p] \in Process /\ proc \in [Run -> Process]
        /\ proc[p].start \in Nat /\ proc[p].start <= now
    BY DEF TypeInv, TypeOK, Process
  <1>1. proc'[p].inv = proc[p].inv \union add_instance(proc[p].region)
    BY <1>0 DEF get_instances_by_region, Process
  <1>2. ASSUME NEW i \in add_instance(proc[p].region)
        PROVE  RanDuring(i, proc[p].start, now)
    BY <1>0 DEF add_instance, Running, RanDuring, PastInv
  <1>3. ASSUME NEW i \in proc[p].inv PROVE RanDuring(i, proc[p].start, now)
    BY <1>3 DEF Fetched, Tells, get_instances_by_region
  <1>4. ASSUME NEW i \in Instance, Home[i] = proc[p].region,
               RanThroughout(i, proc[p].start, now)
        PROVE  i \in add_instance(proc[p].region)
    <2>1. state[i] = "running"
      BY <1>0, <1>4 DEF RanThroughout, PastInv
    <2>2. QED
      BY <1>4, <2>1 DEF add_instance, Running
  <1>5. QED
    BY <1>1, <1>2, <1>3, <1>4 DEF Tells

LEMMA TellRun ==
    ASSUME TypeInv, PastInv, OneRegion, CacheTells, RunsTell, NEW p \in Run, RunStep(p)
    PROVE  CacheTells' /\ RunsTell'
  <1>0. /\ now \in Nat /\ MaxRun \in Nat /\ proc \in [Run -> Process]
        /\ proc[p] \in Process
        /\ proc[p].start \in Nat /\ proc[p].start <= now
        /\ UNCHANGED <<now, state, from, until>>
    BY RunWrites, InventoryAssumption DEF TypeInv, TypeOK, Process
  <1>1. CacheTells'
    <2>1. CASE OpenCache(p)
      BY <2>1 DEF OpenCache, CacheTells, Empty
    <2>2. CASE WriteCache(p)
      <3>1. PICK f \in Written(cache.file, proc[p].inv) :
               cache' = [file |-> f, mtime |-> now]
        BY <2>2 DEF WriteCache
      <3>2. f.is = "whole" => f.data = proc[p].inv
        BY <3>1 DEF Written, Whole, Torn
      <3>3. Tells(proc[p].inv, proc[p].region, proc[p].start, now)
        BY <2>2 DEF WriteCache, RunsTell, Fetched
      <3>4. ASSUME NEW r \in Region
            PROVE  Tells(proc[p].inv, r, now - MaxRun, now)
        <4>1. r = proc[p].region /\ now - MaxRun <= proc[p].start
          BY <1>0, <2>2 DEF WriteCache, OneRegion, TypeInv, TypeOK
        <4>2. QED
          BY <1>0, <3>3, <4>1, TellsLonger DEF Process
      <3>5. QED
        BY <1>0, <3>1, <3>2, <3>4 DEF CacheTells, Tells, RanDuring, RanThroughout
    <2>3. CASE UNCHANGED cache
      BY <1>0, <2>3 DEF CacheTells, Tells, RanDuring, RanThroughout
    <2>4. QED
      BY <2>1, <2>2, <2>3, RunWrites
  <1>2. ASSUME NEW q \in Run, Fetched(q)'
        PROVE  Tells(proc'[q].inv, proc'[q].region, proc'[q].start, now)
    <2>1. CASE q # p
      <3>1. proc'[q] = proc[q]
        BY <1>0, <2>1, RunType
      <3>2. QED
        BY <1>2, <3>1 DEF RunsTell, Fetched
    <2>2. CASE q = p /\ get_instances_by_region(p)
      <3>1. Tells(proc'[p].inv, proc[p].region, proc[p].start, now)
        BY <2>2, FetchTells DEF RunsTell
      <3>2. proc'[p].region = proc[p].region /\ proc'[p].start = proc[p].start
        BY <1>0, <2>2 DEF get_instances_by_region, Process
      <3>3. QED
        BY <2>2, <3>1, <3>2
    <2>3. CASE q = p /\ ~get_instances_by_region(p)
      <3>1. /\ Fetched(p)
            /\ proc'[p].inv = proc[p].inv /\ proc'[p].region = proc[p].region
            /\ proc'[p].start = proc[p].start
        <4>1. CASE proc' = [proc EXCEPT ![p] = Idle]
          BY <1>0, <1>2, <2>3, <4>1 DEF Idle, Fetched
        <4>2. CASE \E want \in Host \union {NIL}, r \in Region, refresh \in BOOLEAN :
                      Start(p, want, r, refresh)
          BY <1>0, <1>2, <2>3, <4>2 DEF Start, Idle, Fetched
        <4>3. CASE OpenCache(p) \/ WriteCache(p) \/ OpenIndex(p) \/ WriteIndex(p)
          BY <1>0, <4>3 DEF OpenCache, WriteCache, OpenIndex, WriteIndex, Fetched, Process
        <4>4. CASE get_host_info(p) /\ proc' # [proc EXCEPT ![p] = Idle]
          <5>1. /\ proc'[p].inv = proc[p].inv /\ proc'[p].region = proc[p].region
                /\ proc'[p].start = proc[p].start
                /\ proc'[p].pc \in {"query", "nothing", "fetch"} /\ proc[p].pc = "answer"
            BY <1>0, <4>4 DEF get_host_info, Process
          <5>2. QED
            BY <1>2, <2>3, <5>1 DEF Fetched
        <4>5. QED
          BY <2>3, <4>1, <4>2, <4>3, <4>4 DEF RunStep, fail_with_error, PrintList,
             get_instance, PrintNothing, Die
      <3>2. QED
        BY <2>3, <3>1 DEF RunsTell
    <2>4. QED
      BY <2>1, <2>2, <2>3
  <1>3. QED
    BY <1>0, <1>1, <1>2 DEF RunsTell, Tells, RanDuring, RanThroughout

LEMMA RecentStep == TypeInv /\ RecentInv /\ [Next]_vars => RecentInv'
  <1> SUFFICES ASSUME TypeInv, RecentInv, [Next]_vars PROVE RecentInv'
    OBVIOUS
  <1>1. CASE Tick \/ \E i \in Instance : Launch(i) \/ Terminate(i)
    BY <1>1, RecentWorld
  <1>2. ASSUME NEW p \in Run, RunStep(p) PROVE RecentInv'
    <2>1. PastInv'
      BY <1>2, RunWrites DEF RecentInv, PastInv
    <2>2. QED
      BY <1>2, <2>1, AgeRun, TellRun DEF RecentInv
  <1>3. CASE UNCHANGED vars
    BY <1>3 DEF vars, RecentInv, PastInv, AgeInv, CacheTells, RunsTell, Fetched, Tells,
       RanDuring, RanThroughout
  <1>4. QED
    BY <1>1, <1>2, <1>3 DEF Next, RunStep

\* What ec2.py --list prints is at most as old as the cache may get plus two
\* runs, for any number of runs that judge, truncate, write and read the shared
\* cache file without a lock, or die half-way (one region; see RegionRespected).
THEOREM ListsRecentHolds == Spec => []ListsRecent
  <1>1. Init => RecentInv
    BY DEF Init, Idle, NoFile, RecentInv, PastInv, AgeInv, CacheTells, RunsTell, Fetched
  <1>2. TypeInv /\ RecentInv => ListsRecent
    <2> SUFFICES ASSUME TypeInv, RecentInv, OneRegion, NEW p \in Run,
                        proc[p].pc = "answer", Printed(p).is = "whole"
                 PROVE  Tells(Printed(p).data, proc[p].region,
                              now - (MaxAge + 2 * MaxRun), now)
      BY DEF ListsRecent
    <2>0. /\ now \in Nat /\ MaxRun \in Nat /\ MaxAge \in Nat
          /\ cache \in [file : File(SUBSET Instance), mtime : 0..now]
          /\ proc[p] \in Process /\ proc[p].region \in Region
          /\ proc[p].start \in Nat /\ proc[p].start <= now /\ now <= proc[p].start + MaxRun
      BY InventoryAssumption DEF TypeInv, TypeOK, Process
    <2>1. CASE proc[p].inv # {}
      <3>1. Printed(p).data = proc[p].inv /\ proc[p].inv \in SUBSET Instance
        BY <2>0, <2>1 DEF Printed, Whole, Process
      <3>2. Tells(proc[p].inv, proc[p].region, proc[p].start, now)
        BY <2>1 DEF RecentInv, RunsTell, Fetched
      <3>3. now - (MaxAge + 2 * MaxRun) <= proc[p].start
        BY <2>0
      <3>4. QED
        BY <2>0, <3>1, <3>2, <3>3, TellsLonger
    <2>2. CASE proc[p].inv = {}
      <3>1. Printed(p) = cache.file /\ cache.file.data \in SUBSET Instance
        BY <2>0, <2>2 DEF Printed, File, NoFile, Empty, Torn, Whole
      <3>2. Tells(cache.file.data, proc[p].region, cache.mtime - MaxRun, cache.mtime)
        BY <2>0, <3>1 DEF RecentInv, CacheTells
      <3>3. proc[p].start - MaxAge <= cache.mtime
        BY DEF RecentInv, AgeInv
      <3>4. /\ cache.mtime \in Nat /\ cache.mtime <= now
            /\ now - (MaxAge + 2 * MaxRun) <= cache.mtime - MaxRun
        BY <2>0, <3>3
      <3>5. QED
        BY <2>0, <3>1, <3>2, <3>4, TellsLonger
    <2>3. QED
      BY <2>1, <2>2
  <1>3. QED
    BY <1>1, <1>2, TypeInit, TypeStep, RecentStep, PTL DEF Spec
=============================================================================
