---------------------------- MODULE Ec2Inventory ----------------------------
(***************************************************************************)
(* ec2.py, the dynamic inventory of ansible.  Every playbook starts it to  *)
(* list the hosts it works on; it may also be asked about one host.  Runs  *)
(* share two files, the inventory cache and the index from addresses to    *)
(* instances, which they read, truncate and write without any lock, while  *)
(* instances come and go and other runs do the same or die half-way.       *)
(*                                                                         *)
(* What a run prints depends on steps it takes at different times: it      *)
(* judges the cache by its age, asks AWS, writes the two files one after   *)
(* the other, and reads back what it did not fetch itself.                 *)
(***************************************************************************)
EXTENDS Integers, FiniteSets

CONSTANTS Run,        \* processes of ec2.py
          Instance, Host, Region,
          Address,    \* Address[i]: the address EC2 gives instance i
          Home,       \* Home[i]: the region of instance i
          HostRuns,   \* whether runs with --host occur
          MayDie,     \* whether runs die half-way
          MaxAge,     \* cache_max_age of ec2.ini
          MaxRun,     \* bound: how long a run takes
          MaxTime,    \* bound: the time the model ends
          NIL

ASSUME InventoryAssumption ==
    /\ Address \in [Instance -> Host] /\ Home \in [Instance -> Region]
    /\ HostRuns \in BOOLEAN /\ MayDie \in BOOLEAN
    /\ MaxAge \in Nat /\ MaxRun \in Nat /\ MaxTime \in Nat
    /\ NIL \notin Instance /\ NIL \notin Host

VARIABLES
    now,      \* the clock
    state,    \* the state of each instance: none, running or gone
    from,     \* when it began to run
    until,    \* when it stopped running
    cache,    \* the inventory cache: what it contains and when it changed
    index,    \* what the index file contains
    proc      \* each run of ec2.py

vars == <<now, state, from, until, cache, index, proc>>

\* What a file contains.  An empty or a torn file is not JSON.
NoFile == [is |-> "none"]
Empty  == [is |-> "empty"]
Torn   == [is |-> "torn"]
Whole(d) == [is |-> "whole", data |-> d]
EmptyIndex == [h \in Host |-> NIL]

Idle == [pc |-> "idle", want |-> NIL, region |-> NIL, refresh |-> FALSE,
         inv |-> {}, idx |-> EmptyIndex, again |-> FALSE, start |-> 0]

Running == {i \in Instance : state[i] = "running"}
-----------------------------------------------------------------------------
Init ==
    /\ now = 0
    /\ state = [i \in Instance |-> "none"]
    /\ from = [i \in Instance |-> 0]
    /\ until = [i \in Instance |-> 0]
    /\ cache = [file |-> NoFile, mtime |-> 0]
    /\ index = NoFile
    /\ proc = [p \in Run |-> Idle]

(* Time and EC2 *)

\* No run takes longer than MaxRun.
Tick ==
    /\ now < MaxTime
    /\ \A p \in Run : proc[p].pc # "idle" => now < proc[p].start + MaxRun
    /\ now' = now + 1
    /\ UNCHANGED <<state, from, until, cache, index, proc>>

\* An address belongs to one running instance at a time, and is used again.
Launch(i) ==
    /\ state[i] = "none"
    /\ \A j \in Running : Address[j] # Address[i]
    /\ state' = [state EXCEPT ![i] = "running"]
    /\ from' = [from EXCEPT ![i] = now]
    /\ UNCHANGED <<now, until, cache, index, proc>>

Terminate(i) ==
    /\ state[i] = "running"
    /\ state' = [state EXCEPT ![i] = "gone"]
    /\ until' = [until EXCEPT ![i] = now]
    /\ UNCHANGED <<now, from, cache, index, proc>>
-----------------------------------------------------------------------------
(* One run of ec2.py *)

\* Mutant: a cache that exists is good, whatever its age.
CacheValidForever == cache.file # NoFile /\ index # NoFile

is_cache_valid ==
    /\ cache.file # NoFile
    /\ cache.mtime + MaxAge > now
    /\ index # NoFile

\* want is the argument of --host, or NIL for --list.
Start(p, want, r, refresh) ==
    /\ proc[p].pc = "idle"
    /\ want # NIL => HostRuns
    /\ proc' = [proc EXCEPT ![p] =
          [Idle EXCEPT !.pc = IF refresh \/ ~is_cache_valid THEN "fetch" ELSE "answer",
                       !.want = want, !.region = r, !.refresh = refresh,
                       !.start = now]]
    /\ UNCHANGED <<now, state, from, until, cache, index>>

\* The instances of the region that get past add_instance.
add_instance(r) == {i \in Running : Home[i] = r}

\* One answer of EC2, added to what the run knows already.
get_instances_by_region(p) ==
    /\ proc[p].pc = "fetch"
    /\ LET found == add_instance(proc[p].region)
           at(h) == {i \in found : Address[i] = h}
       IN  proc' = [proc EXCEPT
              ![p].pc = "openCache",
              ![p].inv = @ \union found,
              ![p].idx = [h \in Host |-> IF at(h) = {} THEN @[h]
                                         ELSE CHOOSE i \in at(h) : TRUE]]
    /\ UNCHANGED <<now, state, from, until, cache, index>>

\* AWS refuses or fails: the run prints the error and exits.
fail_with_error(p) ==
    /\ proc[p].pc \in {"fetch", "query"}
    /\ proc' = [proc EXCEPT ![p] = Idle]
    /\ UNCHANGED <<now, state, from, until, cache, index>>

\* Data written from the start of a file another run has filled meanwhile
\* leaves the end of the longer one behind it.
Written(old, d) ==
    IF old = Empty \/ old = Whole(d) THEN {Whole(d)} ELSE {Whole(d), Torn}

\* write_to_cache(self.inventory, self.cache_path_cache): open, then write.
OpenCache(p) ==
    /\ proc[p].pc = "openCache"
    /\ cache' = [file |-> Empty, mtime |-> now]
    /\ proc' = [proc EXCEPT ![p].pc = "writeCache"]
    /\ UNCHANGED <<now, state, from, until, index>>

\* Mutant: the file is stamped with the time it expires.
WriteCacheExpiry(p) ==
    /\ proc[p].pc = "writeCache"
    /\ \E f \in Written(cache.file, proc[p].inv) :
          cache' = [file |-> f, mtime |-> now + MaxAge]
    /\ proc' = [proc EXCEPT ![p].pc = "openIndex"]
    /\ UNCHANGED <<now, state, from, until, index>>

WriteCache(p) ==
    /\ proc[p].pc = "writeCache"
    /\ \E f \in Written(cache.file, proc[p].inv) :
          cache' = [file |-> f, mtime |-> now]
    /\ proc' = [proc EXCEPT ![p].pc = "openIndex"]
    /\ UNCHANGED <<now, state, from, until, index>>

\* write_to_cache(self.index, self.cache_path_index)
OpenIndex(p) ==
    /\ proc[p].pc = "openIndex"
    /\ index' = Empty
    /\ proc' = [proc EXCEPT ![p].pc = "writeIndex"]
    /\ UNCHANGED <<now, state, from, until, cache>>

WriteIndex(p) ==
    /\ proc[p].pc = "writeIndex"
    /\ index' \in Written(index, proc[p].idx)
    /\ proc' = [proc EXCEPT ![p].pc = "answer"]
    /\ UNCHANGED <<now, state, from, until, cache>>

\* A run that found nothing itself prints the cache file as it is.
Printed(p) == IF proc[p].inv = {} THEN cache.file ELSE Whole(proc[p].inv)

PrintList(p) ==
    /\ proc[p].pc = "answer" /\ proc[p].want = NIL
    /\ proc' = [proc EXCEPT ![p] = Idle]
    /\ UNCHANGED <<now, state, from, until, cache, index>>
-----------------------------------------------------------------------------
(* --host *)

\* The index a host run looks into: its own, or else the file, once.
Index(p) ==
    IF proc[p].idx = EmptyIndex /\ ~proc[p].again THEN index ELSE Whole(proc[p].idx)

\* Mutant: a host that is not in the index is given up at once.
get_host_info_once(p) ==
    /\ proc[p].pc = "answer" /\ proc[p].want # NIL
    /\ \/ /\ Index(p).is = "whole" /\ Index(p).data[proc[p].want] # NIL
          /\ proc' = [proc EXCEPT ![p].pc = "query", ![p].idx = Index(p).data]
       \/ /\ Index(p).is = "whole" /\ Index(p).data[proc[p].want] = NIL
          /\ proc' = [proc EXCEPT ![p].pc = "nothing", ![p].idx = Index(p).data]
       \/ /\ Index(p).is # "whole"
          /\ proc' = [proc EXCEPT ![p] = Idle]
    /\ UNCHANGED <<now, state, from, until, cache, index>>

\* Not in the index: ask AWS once more, then print {}.  An index file that is
\* not JSON raises.
get_host_info(p) ==
    /\ proc[p].pc = "answer" /\ proc[p].want # NIL
    /\ \/ /\ Index(p).is = "whole" /\ Index(p).data[proc[p].want] # NIL
          /\ proc' = [proc EXCEPT ![p].pc = "query", ![p].idx = Index(p).data]
       \/ /\ Index(p).is = "whole" /\ Index(p).data[proc[p].want] = NIL
          /\ proc' = [proc EXCEPT ![p].pc = IF proc[p].again THEN "nothing" ELSE "fetch",
                                  ![p].idx = Index(p).data, ![p].again = TRUE]
       \/ /\ Index(p).is # "whole"
          /\ proc' = [proc EXCEPT ![p] = Idle]
    /\ UNCHANGED <<now, state, from, until, cache, index>>

\* The instance the index names for the host.
Named(p) == proc[p].idx[proc[p].want]

\* get_instance, whose answer is printed; none found, and the run raises.
get_instance(p) ==
    /\ proc[p].pc = "query"
    /\ proc' = [proc EXCEPT ![p] = Idle]
    /\ UNCHANGED <<now, state, from, until, cache, index>>

PrintNothing(p) ==
    /\ proc[p].pc = "nothing"
    /\ proc' = [proc EXCEPT ![p] = Idle]
    /\ UNCHANGED <<now, state, from, until, cache, index>>

\* The run is killed, or its machine stops.
Die(p) ==
    /\ MayDie /\ proc[p].pc # "idle"
    /\ proc' = [proc EXCEPT ![p] = Idle]
    /\ UNCHANGED <<now, state, from, until, cache, index>>

Next ==
    \/ Tick
    \/ \E i \in Instance : Launch(i) \/ Terminate(i)
    \/ \E p \in Run : 
          \/ \E want \in Host \union {NIL}, r \in Region, refresh \in BOOLEAN :
                Start(p, want, r, refresh)
          \/ get_instances_by_region(p) \/ fail_with_error(p)
          \/ OpenCache(p) \/ WriteCache(p) \/ OpenIndex(p) \/ WriteIndex(p)
          \/ PrintList(p) \/ get_host_info(p) \/ get_instance(p)
          \/ PrintNothing(p) \/ Die(p)

Spec == Init /\ [][Next]_vars
-----------------------------------------------------------------------------
(* Properties *)

IndexData == [Host -> Instance \union {NIL}]
File(D) == {NoFile, Empty, Torn} \union {Whole(d) : d \in D}
Process == [pc : {"idle", "fetch", "openCache", "writeCache", "openIndex",
                  "writeIndex", "answer", "query", "nothing"},
            want : Host \union {NIL}, region : Region \union {NIL}, refresh : BOOLEAN,
            inv : SUBSET Instance, idx : IndexData, again : BOOLEAN, start : Nat]

\* The type invariant: no file and no run is from the future, and a run that
\* asks about an instance has one to ask about.
TypeOK ==
    /\ now \in Nat
    /\ state \in [Instance -> {"none", "running", "gone"}]
    /\ from \in [Instance -> Nat] /\ until \in [Instance -> Nat]
    /\ cache \in [file : File(SUBSET Instance), mtime : 0..now]
    /\ index \in File(IndexData)
    /\ proc \in [Run -> Process]
    /\ \A p \in Run : /\ proc[p].start <= now
                      /\ proc[p].pc # "idle" => now <= proc[p].start + MaxRun
                      /\ proc[p].pc = "query" => Named(p) # NIL

\* Instance i ran at some time from lo to hi; it ran all that time.
RanDuring(i, lo, hi) ==
    /\ state[i] # "none" /\ from[i] <= hi
    /\ state[i] = "running" \/ until[i] >= lo
RanThroughout(i, lo, hi) ==
    /\ state[i] # "none" /\ from[i] < lo
    /\ state[i] = "running" \/ until[i] > hi

\* The inventory d tells what ran in region r between lo and hi.
Tells(d, r, lo, hi) ==
    /\ \A i \in d : RanDuring(i, lo, hi)
    /\ \A i \in Instance : Home[i] = r /\ RanThroughout(i, lo, hi) => i \in d

OneRegion == \A r, s \in Region : r = s

\* What a run lists is not older than the cache may get plus two runs, however
\* the runs that fetched, wrote, judged and read it interleaved or died: every
\* host it names ran at some time in that span, and every host that ran all of
\* it is named.  (Given one region: see RegionRespected.)
ListsRecent ==
    OneRegion =>
       \A p \in Run :
          /\ proc[p].pc = "answer" /\ proc[p].want = NIL
          /\ Printed(p).is = "whole"
          => Tells(Printed(p).data, proc[p].region, now - (MaxAge + 2 * MaxRun), now)

\* A run prints {} for a host only if no instance of its region had that
\* address since before the run began: a host that is merely missing from a
\* stale or foreign index is found.
NothingMeansGone ==
    \A p \in Run : proc[p].pc = "nothing" =>
       ~\E i \in Running : /\ Address[i] = proc[p].want
                           /\ Home[i] = proc[p].region
                           /\ from[i] < proc[p].start

-----------------------------------------------------------------------------
(* What the repository says and the code does not keep to; the README names the
   constants under which TLC shows it. *)

\* get_inventory_from_cache (line 1529): "Reads the inventory from the cache
\* file and returns it as a JSON object".
ListIsJson ==
    \A p \in Run : proc[p].pc = "answer" /\ proc[p].want = NIL
                   => Printed(p).is = "whole"

\* ec2.ini, line 9: "AWS_REGION or AWS_DEFAULT_REGION environment variable will
\* be read to determine the region" a run makes its calls to.
RegionRespected ==
    \A p \in Run :
       /\ proc[p].pc = "answer" /\ proc[p].want = NIL
       /\ Printed(p).is = "whole"
       => \A i \in Printed(p).data : Home[i] = proc[p].region

\* --refresh-cache (line 397): "Force refresh of cache by making API requests
\* to EC2".  Such a run lists nothing that had ended before it began.
RefreshIsFresh ==
    \A p \in Run :
       /\ proc[p].pc = "answer" /\ proc[p].want = NIL /\ proc[p].refresh
       /\ Printed(p).is = "whole"
       => \A i \in Printed(p).data : RanDuring(i, proc[p].start, now)

\* get_host_info (line 1502): "host might not exist anymore", and the answer
\* is {}.  The instance a run asks about has not ended before the cache could
\* be expected to be that old.
HostStillThere ==
    \A p \in Run : proc[p].pc = "query" =>
       RanDuring(Named(p), now - (MaxAge + 2 * MaxRun), now)
=============================================================================
