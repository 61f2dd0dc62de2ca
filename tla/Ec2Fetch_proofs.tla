--------------------------- MODULE Ec2Fetch_proofs ---------------------------
(***************************************************************************)
(* What a fetch guarantees for any account, settings and sizes of pages,   *)
(* and however AWS changes meanwhile: that runs of different accounts have *)
(* caches of their own; that the inventory is whole, that names in it      *)
(* resolve and that tags have those who had them.                          *)
(***************************************************************************)
EXTENDS Ec2Fetch, SequenceTheorems, TLAPS

-----------------------------------------------------------------------------
(* The settings *)

\* The path of the cache gives the profile away, and without one the key.
LEMMA PathTellsAccount ==
    ASSUME NEW s, NEW t, cache_path(s) = cache_path(t)
    PROVE  Account(s) = Account(t)
  <1>1. boto_profile(s) = boto_profile(t)
    BY DEF cache_path
  <1>2. CASE boto_profile(s) # NIL
    BY <1>1, <1>2 DEF Account
  <1>3. CASE boto_profile(s) = NIL
    <2>1. Or(s.AWS_ACCESS_KEY_ID, credentials(s)) = Or(t.AWS_ACCESS_KEY_ID, credentials(t))
      BY <1>1, <1>3 DEF cache_path, Or
    <2>2. ASSUME NEW u, boto_profile(u) = NIL
          PROVE  Account(u) = <<"key", Or(u.AWS_ACCESS_KEY_ID, credentials(u))>>
      BY <2>2 DEF Account, Or
    <2>3. QED
      BY <1>1, <1>3, <2>1, <2>2
  <1>4. QED
    BY <1>2, <1>3

\* Whatever the settings of two runs are: if they share a cache file, they ask
\* AWS with the same profile or the same key.
THEOREM CachePathsApartHolds == Spec => []CachePathsApart
  <1>1. CachePathsApart
    BY PathTellsAccount DEF CachePathsApart
  <1>2. QED
    BY <1>1, PTL
-----------------------------------------------------------------------------
(* Loops over lists *)

\* What Only, Concat and AddedAll fold.
KeepStep(S, found, x) == IF x \in S THEN Append(found, x) ELSE found
JoinStep(k, all, seq) == all \o seq
Selecting == INSTANCE FoldLaws WITH op <- KeepStep
Joining == INSTANCE FoldLaws WITH op <- JoinStep
Adding == INSTANCE FoldLaws WITH op <- Added

\* Only is a selection.
LEMMA OnlySelects ==
    ASSUME NEW S, NEW seq \in Seq(S), NEW keep
    PROVE  \E f : Selecting!Selects(f, keep, seq) /\ Only(seq, keep) = f[Len(seq)]
  <1>1. Only(seq, keep) = Selecting!Fold(keep, <<>>, seq)
    BY Zenon DEF Only, Selecting!Fold, KeepStep, FoldLeft, Selecting!FoldLeft, MapThenFoldSet,
                 Selecting!MapThenFoldSet, Max, Selecting!Max
  <1>2. PICK f : /\ f[0] = <<>>
                 /\ \A i \in 1 .. Len(seq) : f[i] = KeepStep(keep, f[i - 1], seq[i])
                 /\ f[Len(seq)] = Selecting!Fold(keep, <<>>, seq)
    BY Selecting!FoldUnrolled
  <1>3. Selecting!Selects(f, keep, seq)
    BY <1>2 DEF Selecting!Selects, KeepStep
  <1>4. QED
    BY <1>1, <1>2, <1>3

\* What is selected from a sequence, and in which order.
LEMMA OnlyProperties ==
    ASSUME NEW S, NEW seq \in Seq(S), NEW keep
    PROVE  /\ Only(seq, keep) \in Seq(S) /\ Len(Only(seq, keep)) <= Len(seq)
           /\ Range(Only(seq, keep)) = Range(seq) \intersect keep
           /\ \A a, b \in DOMAIN Only(seq, keep) : a < b =>
                 \E i, j \in 1 .. Len(seq) :
                    i < j /\ Only(seq, keep)[a] = seq[i] /\ Only(seq, keep)[b] = seq[j]
  <1>1. PICK f : Selecting!Selects(f, keep, seq) /\ Only(seq, keep) = f[Len(seq)]
    BY OnlySelects
  <1> DEFINE n == Len(seq)
             only == Only(seq, keep)
  <1>2. /\ only \in Seq(S) /\ Len(only) <= n /\ Range(only) = Range(seq) \intersect keep
        /\ \A a, b \in DOMAIN only : a < b =>
              \E i, j \in 1 .. n : i < j /\ only[a] = seq[i] /\ only[b] = seq[j]
    <2>1. only = f[n]
      BY <1>1
    <2> HIDE DEF only
    <2>2. QED
      BY <1>1, <2>1, Selecting!SelectionRange DEF Selecting!Range, Range
  <1>3. QED
    BY <1>2

\* Of more elements, more are selected.
LEMMA OnlyGrows ==
    ASSUME NEW S, NEW seq \in Seq(S), NEW keep, NEW more, keep \subseteq more
    PROVE  Len(Only(seq, keep)) <= Len(Only(seq, more))
  <1>1. PICK f : Selecting!Selects(f, keep, seq) /\ Only(seq, keep) = f[Len(seq)]
    BY OnlySelects
  <1>2. PICK g : Selecting!Selects(g, more, seq) /\ Only(seq, more) = g[Len(seq)]
    BY OnlySelects
  <1>3. \A j \in 0 .. Len(seq) : Len(f[j]) <= Len(g[j])
    BY <1>1, <1>2, Selecting!SelectionGrows
  <1>4. Len(seq) \in 0 .. Len(seq)
    OBVIOUS
  <1>5. QED
    BY <1>1, <1>2, <1>3, <1>4

\* The last element of two sequences, one after the other.
LEMMA LastOfConcat ==
    ASSUME NEW T, NEW s \in Seq(T), NEW t \in Seq(T), t # <<>>
    PROVE  s \o t # <<>> /\ Last(s \o t) = Last(t)
  <1>1. Len(t) \in Nat /\ Len(s) \in Nat /\ Len(t) > 0
    OBVIOUS
  <1>2. Len(s \o t) = Len(s) + Len(t) /\ (s \o t)[Len(s) + Len(t)] = t[Len(t)]
    BY <1>1
  <1>3. QED
    BY <1>1, <1>2 DEF Last

\* What is in one of the sequences is in all of them together, and nothing else.
LEMMA ConcatCollects ==
    ASSUME NEW T, NEW seqs \in Seq(Seq(T))
    PROVE  /\ Concat(seqs) \in Seq(T)
           /\ Range(Concat(seqs)) = UNION {Range(seqs[m]) : m \in DOMAIN seqs}
           /\ seqs # <<>> /\ (\A m \in DOMAIN seqs : seqs[m] # <<>>) =>
                 Concat(seqs) # <<>> /\ Last(Concat(seqs)) = Last(Last(seqs))
  <1> DEFINE n == Len(seqs)
  <1>1. Concat(seqs) = Joining!Fold(0, <<>>, seqs)
    BY Zenon DEF Concat, Joining!Fold, JoinStep, FoldLeft, Joining!FoldLeft, MapThenFoldSet,
                 Joining!MapThenFoldSet, Max, Joining!Max
  <1>2. PICK f : /\ f[0] = <<>>
                 /\ \A i \in 1 .. n : f[i] = JoinStep(0, f[i - 1], seqs[i])
                 /\ f[n] = Concat(seqs)
    BY <1>1, Joining!FoldUnrolled
  <1>3. n \in Nat /\ DOMAIN seqs = 1 .. n
    OBVIOUS
  <1>4. \A i \in 1 .. n : f[i] = f[i - 1] \o seqs[i] /\ seqs[i] \in Seq(T)
    <2>1. \A i \in 1 .. n : f[i] = f[i - 1] \o seqs[i]
      BY <1>2, Zenon DEF JoinStep
    <2>2. QED
      BY <1>3, <2>1
  <1> HIDE DEF n
  <1> DEFINE W == {i \in 0 .. n :
                    /\ f[i] \in Seq(T)
                    /\ \A x \in T : x \in Range(f[i]) <=> \E m \in 1 .. i : x \in Range(seqs[m])
                    /\ i > 0 /\ (\A m \in 1 .. n : seqs[m] # <<>>) =>
                          f[i] # <<>> /\ Last(f[i]) = Last(seqs[i])}
  <1>5. 0 \in W
    <2>1. f[0] \in Seq(T) /\ Range(f[0]) = {}
      BY <1>2 DEF Range
    <2>2. QED
      BY <1>3, <2>1
  <1>6. ASSUME NEW i \in 1 .. n, i - 1 \in W PROVE i \in W
    <2>1. f[i - 1] \in Seq(T) /\ seqs[i] \in Seq(T) /\ f[i] = f[i - 1] \o seqs[i]
      BY <1>4, <1>6
    <2>2. f[i] \in Seq(T)
      BY <2>1
    <2>3. Range(f[i]) = Range(f[i - 1]) \union Range(seqs[i])
      BY <2>1, RangeConcatenation
    <2>4. ASSUME NEW x \in T
          PROVE  x \in Range(f[i]) <=> \E m \in 1 .. i : x \in Range(seqs[m])
      <3>1. x \in Range(f[i - 1]) <=> \E m \in 1 .. i - 1 : x \in Range(seqs[m])
        BY <1>6
      <3>2. 1 .. i = (1 .. i - 1) \union {i}
        BY <1>3
      <3>3. QED
        BY <2>3, <3>1, <3>2, Zenon
    <2>5. seqs[i] # <<>> => f[i] # <<>> /\ Last(f[i]) = Last(seqs[i])
      BY <2>1, LastOfConcat
    <2>6. QED
      BY <2>2, <2>4, <2>5
  <1> HIDE DEF W
  <1>7. n \in W
    <2>1. n \in 0 .. n
      BY <1>3
    <2>2. QED
      BY <1>3, <1>5, <1>6, <2>1, Joining!InductionUpTo
  <1> DEFINE all == Concat(seqs)
  <1>8. /\ all \in Seq(T)
        /\ \A x \in T : x \in Range(all) <=> \E m \in 1 .. n : x \in Range(seqs[m])
        /\ n > 0 /\ (\A m \in 1 .. n : seqs[m] # <<>>) => all # <<>> /\ Last(all) = Last(seqs[n])
    BY <1>2, <1>7 DEF W
  <1> HIDE DEF all
  <1>9. Range(all) = UNION {Range(seqs[m]) : m \in DOMAIN seqs}
    <2>1. Range(all) \subseteq T
      BY <1>8 DEF Range
    <2>2. \A m \in 1 .. n : Range(seqs[m]) \subseteq T
      BY <1>4, RangeOfSeq
    <2>3. QED
      BY <1>3, <1>8, <2>1, <2>2
  <1>10. seqs # <<>> => n > 0 /\ Last(seqs) = seqs[n]
    BY <1>3 DEF n, Last
  <1>11. QED
    BY <1>3, <1>8, <1>9, <1>10 DEF all
-----------------------------------------------------------------------------
(* What AWS answers *)

\* A list that goes from lower to higher.
Rising(seq) == \A a, b \in DOMAIN seq : a < b => seq[a] < seq[b]

\* Resources are numbered.
LEMMA Numbered ==
    /\ Resource \subseteq Nat \ {0}
    /\ [x \in Resource |-> x] \in Seq(Resource) /\ Range([x \in Resource |-> x]) = Resource
    /\ Rising([x \in Resource |-> x])
  <1>1. Data \in Seq(Range(Data))
    BY FetchAssumption
  <1>2. Len(Data) \in Nat /\ Resource = 1 .. Len(Data)
    BY <1>1 DEF Resource
  <1>3. QED
    BY <1>2 DEF Range, Rising

\* A selection from a list that rises does.
LEMMA OnlyRises ==
    ASSUME NEW seq \in Seq(Resource), Rising(seq), NEW keep
    PROVE  Rising(Only(seq, keep))
  <1> DEFINE only == Only(seq, keep)
  <1>1. \A a, b \in DOMAIN only : a < b =>
           \E i, j \in 1 .. Len(seq) : i < j /\ only[a] = seq[i] /\ only[b] = seq[j]
    BY OnlyProperties
  <1>2. DOMAIN seq = 1 .. Len(seq)
    OBVIOUS
  <1> HIDE DEF only
  <1>3. Rising(only)
    BY <1>1, <1>2 DEF Rising
  <1>4. QED
    BY <1>3 DEF only

\* What is listed is what there is.
LEMMA ListedIs ==
    ASSUME NEW service, NEW region
    PROVE  /\ Listed(service, region) \in Seq(Resource) /\ Rising(Listed(service, region))
           /\ Range(Listed(service, region)) = {x \in Of(service, region) : world[x] # NIL}
  <1> DEFINE all == [x \in Resource |-> x]
             there == {x \in Of(service, region) : world[x] # NIL}
  <1>1. all \in Seq(Resource) /\ Range(all) = Resource /\ Rising(all)
    BY Numbered
  <1>2. there \subseteq Resource
    BY DEF Of
  <1> HIDE DEF all, there
  <1>3. /\ Only(all, there) \in Seq(Resource) /\ Rising(Only(all, there))
        /\ Range(Only(all, there)) = Range(all) \intersect there
    BY <1>1, OnlyProperties, OnlyRises
  <1>4. Listed(service, region) = Only(all, there)
    BY DEF Listed, all, there
  <1>5. QED
    BY <1>1, <1>2, <1>3, <1>4 DEF there

\* A page goes on where its marker says, and leaves nothing out in between.
LEMMA PageIs ==
    ASSUME NEW seq \in Seq(Resource), Rising(seq), NEW marker \in Nat, NEW size \in Nat \ {0}
    PROVE  LET page == Page(seq, marker, size)
           IN  /\ page.items \in Seq(Resource) /\ Range(page.items) \subseteq Range(seq)
               /\ page.more \in BOOLEAN
               /\ \A x \in Range(seq) : x > marker /\ (page.items = <<>> \/ ~page.more) =>
                     x \in Range(page.items)
               /\ page.items # <<>> =>
                     /\ Last(page.items) \in Resource
                     /\ \A x \in Range(seq) : x > marker /\ x <= Last(page.items) =>
                           x \in Range(page.items)
  <1> DEFINE after == {x \in Resource : x > marker}
             rest == Only(seq, after)
             end == IF Len(rest) < size THEN Len(rest) ELSE size
             items == SubSeq(rest, 1, end)
  <1>1. Page(seq, marker, size) = [items |-> items, more |-> Len(rest) > size]
    BY DEF Page
  <1>2. /\ rest \in Seq(Resource) /\ Rising(rest)
        /\ Range(rest) = Range(seq) \intersect after
    BY OnlyProperties, OnlyRises
  <1>3. Range(seq) \subseteq Resource
    BY RangeOfSeq
  <1>4. \A x \in Range(seq) : x > marker <=> x \in Range(rest)
    BY <1>2, <1>3
  <1> HIDE DEF rest, after
  <1>5. Len(rest) \in Nat /\ end \in 0 .. Len(rest) /\ DOMAIN rest = 1 .. Len(rest)
    BY <1>2
  <1>6. /\ items \in Seq(Resource) /\ Len(items) = end /\ DOMAIN items = 1 .. end
        /\ \A i \in 1 .. end : items[i] = rest[i]
    BY <1>2, <1>5
  <1> DEFINE more == Len(rest) > size
  <1>7. /\ ~more => end = Len(rest)
        /\ end = 0 => Len(rest) = 0
    <2> DEFINE l == Len(rest)
    <2>1. l \in Nat /\ size \in Nat /\ size # 0
      BY <1>5
    <2> HIDE DEF l
    <2>2. ~(l > size) => (IF l < size THEN l ELSE size) = l
      BY <2>1
    <2>3. (IF l < size THEN l ELSE size) = 0 => l = 0
      BY <2>1
    <2>4. QED
      BY <2>2, <2>3 DEF l
  <1> HIDE DEF items, end, more
  <1>8. Range(items) \subseteq Range(rest)
    BY <1>5, <1>6 DEF Range
  <1>9. ASSUME end = Len(rest) PROVE Range(rest) \subseteq Range(items)
    BY <1>5, <1>6, <1>9 DEF Range
  <1>10. items = <<>> => end = 0
    BY <1>6
  <1>11. ASSUME items # <<>>
         PROVE  /\ Last(items) \in Resource
                /\ \A x \in Range(rest) : x <= Last(items) => x \in Range(items)
    <2>1. end > 0
      BY <1>5, <1>6, <1>11
    <2>2. Last(items) = rest[end] /\ end \in DOMAIN rest /\ rest[end] \in Resource
      BY <1>2, <1>5, <1>6, <2>1 DEF Last
    <2>3. ASSUME NEW p \in DOMAIN rest, rest[p] <= rest[end] PROVE rest[p] \in Range(items)
      <3>1. rest[p] \in Nat /\ rest[end] \in Nat
        BY <1>2, <1>5, <2>2, Numbered
      <3>2. ~(end < p)
        BY <1>2, <2>2, <2>3, <3>1 DEF Rising
      <3>3. p \in 1 .. end
        BY <1>5, <3>2
      <3>4. QED
        BY <1>6, <3>3 DEF Range
    <2>4. QED
      BY <2>2, <2>3 DEF Range
  <1>12. \A x \in Range(seq) : x > marker /\ (items = <<>> \/ ~more) => x \in Range(items)
    BY <1>4, <1>5, <1>7, <1>9, <1>10
  <1>13. QED
    <2> DEFINE page == Page(seq, marker, size)
    <2>1. page.items = items /\ page.more = more /\ more \in BOOLEAN
      BY <1>1 DEF more
    <2> HIDE DEF page
    <2>2. Range(items) \subseteq Range(seq)
      BY <1>2, <1>8
    <2>3. items # <<>> => \A x \in Range(seq) : x > marker /\ x <= Last(items) => x \in Range(items)
      BY <1>4, <1>11
    <2>4. /\ page.items \in Seq(Resource) /\ Range(page.items) \subseteq Range(seq)
          /\ page.more \in BOOLEAN
          /\ \A x \in Range(seq) : x > marker /\ (page.items = <<>> \/ ~page.more) =>
                x \in Range(page.items)
          /\ page.items # <<>> =>
                /\ Last(page.items) \in Resource
                /\ \A x \in Range(seq) : x > marker /\ x <= Last(page.items) =>
                      x \in Range(page.items)
      BY <1>6, <1>11, <1>12, <2>1, <2>2, <2>3
    <2>5. QED
      BY <2>4 DEF page

\* The one answer of ElastiCache has what there is, and all of it if that is no
\* more than a page.
LEMMA AnswerIsWhole ==
    ASSUME NEW service \in {"cache", "replication"}, NEW region
    PROVE  LET items == Page(Listed(service, region), 0, CachePage).items
           IN  /\ items \in Seq(Resource)
               /\ Range(items) \subseteq {x \in Of(service, region) : world[x] # NIL}
               /\ \A x \in Of(service, region) :
                     world[x] # NIL /\ OnePage(x) => x \in Range(items)
  <1> DEFINE listed == Listed(service, region)
             page == Page(listed, 0, CachePage)
             there == {x \in Of(service, region) : world[x] # NIL}
  <1>1. listed \in Seq(Resource) /\ Rising(listed) /\ Range(listed) = there
    BY ListedIs
  <1>2. CachePage \in Nat \ {0} /\ 0 \in Nat
    BY FetchAssumption
  <1> DEFINE rest == Only(listed, {x \in Resource : x > 0})
  <1>3. page.more = (Len(rest) > CachePage)
    BY DEF Page
  <1>4. ASSUME NEW x \in there, OnePage(x) PROVE Len(listed) <= CachePage
    <2>2. x \in Resource /\ Data[x].region = region /\ Data[x].service = service
      BY DEF Of
    <2> DEFINE all == [y \in Resource |-> y]
    <2>3. Len(Only(all, Of(service, region))) <= CachePage
      BY <1>4, <2>2 DEF OnePage
    <2>4. all \in Seq(Resource) /\ there \subseteq Of(service, region)
      BY Numbered
    <2>5. listed = Only(all, there)
      BY DEF Listed
    <2> HIDE DEF all, listed, there
    <2>6. Len(Only(all, there)) <= Len(Only(all, Of(service, region)))
      BY <2>4, OnlyGrows
    <2>7. Only(all, there) \in Seq(Resource) /\ Only(all, Of(service, region)) \in Seq(Resource)
      BY <2>4, OnlyProperties
    <2>8. QED
      BY <1>2, <2>3, <2>5, <2>6, <2>7
  <1> HIDE DEF listed, there
  <1>5. /\ page.items \in Seq(Resource) /\ Range(page.items) \subseteq Range(listed)
        /\ \A x \in Range(listed) : x > 0 /\ ~page.more => x \in Range(page.items)
    BY <1>1, <1>2, PageIs
  <1>6. ASSUME NEW x \in there, OnePage(x) PROVE ~page.more
    <2>1. rest \in Seq(Resource) /\ Len(rest) <= Len(listed)
      BY <1>1, OnlyProperties
    <2> HIDE DEF rest, page
    <2>2. Len(rest) \in Nat /\ Len(listed) \in Nat
      BY <1>1, <2>1
    <2>3. ~(Len(rest) > CachePage)
      BY <1>2, <1>4, <1>6, <2>1, <2>2
    <2>4. QED
      BY <1>3, <2>3
  <1>7. \A x \in Range(listed) : x > 0
    BY <1>1, Numbered, RangeOfSeq
  <1>8. /\ page.items \in Seq(Resource) /\ Range(page.items) \subseteq there
        /\ \A x \in there : OnePage(x) => x \in Range(page.items)
    BY <1>1, <1>5, <1>6, <1>7
  <1>9. QED
    BY <1>8 DEF listed, there
-----------------------------------------------------------------------------
(* The inductive invariant *)

\* The calls a run may have to make, and the steps of a call.
Calls == {"route53", "ec2", "rds", "cache", "replication", "clusters"} \X (Range(regions(conf)) \union {NIL})

\* The state is made of what it seems to be made of.
WorldInv ==
    /\ conf \in Settings /\ changes \in 0 .. MaxChanges
    /\ world = [x \in Resource |-> world[x]] /\ past = [x \in Resource |-> past[x]]
    /\ \A x \in Resource : world[x] \in past[x]

IsRun(r) ==
    /\ r = [todo |-> r.todo, call |-> r.call, records |-> r.records, account |-> r.account, end |-> r.end]
    /\ r.todo \in Seq(Calls) /\ r.end \in {NIL, "failed", "written"}

IsCall(c) ==
    /\ c = [pc |-> c.pc, found |-> c.found, first |-> c.first, tags |-> c.tags, at |-> c.at, more |-> c.more]
    /\ c.pc \in {"ask", "page", "tags"} /\ c.found \in Seq(Resource) /\ c.first \in Seq(Resource)
    /\ c.at \in Nat /\ c.more \in BOOLEAN

IsInventory(i) ==
    /\ i = [members |-> i.members, children |-> i.children, hostvars |-> i.hostvars,
            index |-> i.index, db_clusters |-> i.db_clusters]
    /\ DOMAIN i.hostvars = DOMAIN i.index /\ i.db_clusters \subseteq Resource

TypeInv == WorldInv /\ IsRun(run) /\ IsCall(run.call) /\ IsInventory(inv)

\* Route53 is asked before everything else, and the clusters of the last region
\* after everything else.
TodoInv ==
    /\ \A n \in DOMAIN run.todo : run.todo[n][1] = "route53" =>
          /\ run.todo = do_api_calls_update_cache(conf) /\ n = 1
          /\ run.call = NoCall /\ inv = EmptyInventory
    /\ conf.include_rds_clusters /\ regions(conf) # <<>> /\ run.todo # <<>> =>
          Last(run.todo) = <<"clusters", Last(regions(conf))>>
    /\ run.end # NIL => run.todo = <<>>

\* What a call has found is of its service and has been there.
FoundInv ==
    run.todo # <<>> =>
       /\ \A x \in Range(run.call.found) : Ever(x) /\ Data[x].service = run.todo[1][1]
       /\ run.todo[1][1] = "rds" /\ run.call.pc = "tags" => run.call.found # <<>>

\* The tags that a call was given were tags of the instance, and those of what
\* does not change are its tags.
TagsInv ==
    run.todo # <<>> /\ run.todo[1][1] = "ec2" =>
       /\ \A x \in DOMAIN run.call.tags : x \in Resource /\ run.call.tags[x] \in past[x] \ {NIL}
       /\ run.call.pc = "tags" =>
             \A j \in DOMAIN run.call.found :
                LET x == run.call.found[j]
                IN  j <= run.call.at /\ Steady(x) => x \in DOMAIN run.call.tags /\ run.call.tags[x] = world[x]

\* What a resource is to be found under once its call is done: its host is in
\* the index, and an instance is in the groups of its tags.
MadeHosts(x) == {e.host : e \in Range(Entries(x))}
Settled(x) ==
    \A h \in MadeHosts(x) :
       /\ h \in DOMAIN inv.index
       /\ Data[x].service = "ec2" /\ "tag_keys" \in conf.group_by =>
             \A g \in GroupsOfTags(world[x]) : <<g, h>> \in inv.members

WantedCluster(x) == Data[x].members # {} /\ cluster_matches(conf, world[x]) = {TRUE}

\* How far the call has come: what it has passed is found or settled.
SoughtAt(x) ==
    LET service == run.todo[1][1]
        c == run.call
        filters == instance_calls(conf)
    IN  /\ service = "ec2" /\ c.pc = "ask" =>
              \A m \in DOMAIN filters : m <= c.at /\ Matches(filters[m], x, world[x]) => x \in Range(c.found)
        /\ service = "ec2" /\ c.pc = "tags" =>
              \A m \in DOMAIN filters : Matches(filters[m], x, world[x]) => x \in Range(c.found)
        /\ service = "rds" /\ c.pc = "page" /\ x <= c.at => Settled(x)
        /\ service = "rds" /\ c.pc = "tags" /\ (x <= c.at \/ ~c.more) => Settled(x) \/ x \in Range(c.found)
        /\ service = "clusters" /\ c.pc = "ask" /\ x <= c.at => x \in Range(c.found)
        /\ service = "clusters" /\ c.pc = "tags" /\ WantedCluster(x) => x \in Range(c.found) \union Range(c.first)

SoughtInv ==
    run.todo # <<>> => \A x \in Of(run.todo[1][1], run.todo[1][2]) : Steady(x) => SoughtAt(x)

\* What no call is left for is settled.
DoneInv ==
    run.end # "failed" =>
       \A x \in Resource :
          Steady(x) /\ Asked(x) /\ <<Data[x].service, Data[x].region>> \notin Range(run.todo) => Settled(x)

ClustersInv ==
    run.end # "failed" /\ run.todo = <<>> /\ conf.include_rds_clusters /\ regions(conf) # <<>> =>
       \A x \in Of("clusters", Last(regions(conf))) : Steady(x) /\ WantedCluster(x) => x \in inv.db_clusters

\* An inventory's index names what has been there.
Known(i) == \A h \in DOMAIN i.index : \E x \in Resource : Ever(x) /\ i.index[h][2] \in IdsOf(x)

\* The names in an inventory resolve.
OfElastiCache(id) ==
    \E x \in Resource : Data[x].service \in {"cache", "replication"} /\ id \in IdsOf(x)
IdLists == {<<"elasticache_clusters">>, <<"elasticache_replication_groups">>}
OddParents == {"elasticache_engines", "elasticache_parameter_groups", "elasticache_replication_groups"}
IdVariable == <<"ec2_", "id">>
Resolves(i) ==
    /\ \A m \in i.members : m[1] \in IdLists \/ m[2] \in DOMAIN i.index
    /\ \A h \in DOMAIN i.index :
          OfElastiCache(i.index[h][2]) \/ i.index[h][2] = <<i.hostvars[h][IdVariable]>>
    /\ \A c \in i.children :
          \/ \E m \in i.members : m[1] = c[2]
          \/ \E b \in i.children : b[1] = c[2]
          \/ c[1][1] \in OddParents

\* Groups of tags have what had the tag, or a database.
IsTagGroup(group) == Len(group) = 3 /\ group[1] = "tag_"
HadTag(group, host) ==
    \E x \in {y \in Resource : Data[y].service = "ec2"} : \E tags \in past[x] \ {NIL} :
       /\ group \in GroupsOfTags(tags)
       /\ host = hostname(conf, Data[x], tags, run.records, destination(conf, Data[x], tags))
Tagged(i) ==
    \A m \in i.members :
       IsTagGroup(m[1]) => HadTag(m[1], m[2]) \/ <<<<"rds">>, m[2]>> \in i.members

IInv ==
    /\ TypeInv /\ TodoInv /\ FoundInv /\ TagsInv /\ SoughtInv /\ DoneInv /\ ClustersInv
    /\ Known(inv) /\ Resolves(inv) /\ Tagged(inv)
-----------------------------------------------------------------------------
(* One entry more *)

\* Instances are grouped by id.
ById(s) == "instance_id" \in s.group_by
OnGroups(s, e) == {g \in e.groups : g.option \in s.group_by}

\* The record an inventory is.
IsShape(i) ==
    i = [members |-> i.members, children |-> i.children, hostvars |-> i.hostvars,
         index |-> i.index, db_clusters |-> i.db_clusters]

\* What Assign and the two pushes leave of an inventory.
LEMMA AssignFields ==
    ASSUME NEW i, IsShape(i), NEW group, NEW host
    PROVE  Assign(i, group, host) =
              [members |-> {m \in i.members : m[1] # group} \union {<<group, host>>},
               children |-> {c \in i.children : c[1] # group}, hostvars |-> i.hostvars,
               index |-> i.index, db_clusters |-> i.db_clusters]
  <1> DEFINE members == {m \in i.members : m[1] # group} \union {<<group, host>>}
             children == {c \in i.children : c[1] # group}
  <1>1. Assign(i, group, host) = [i EXCEPT !.members = members, !.children = children]
    BY DEF Assign
  <1> HIDE DEF members, children
  <1> DEFINE half == [i EXCEPT !.members = members]
  <1>2. half = [members |-> members, children |-> i.children, hostvars |-> i.hostvars,
                index |-> i.index, db_clusters |-> i.db_clusters]
    BY DEF IsShape
  <1>3. [i EXCEPT !.members = members, !.children = children] = [half EXCEPT !.children = children]
    OBVIOUS
  <1> HIDE DEF half
  <1>4. [half EXCEPT !.children = children] =
           [members |-> members, children |-> children, hostvars |-> i.hostvars,
            index |-> i.index, db_clusters |-> i.db_clusters]
    BY <1>2
  <1>5. QED
    BY <1>1, <1>3, <1>4 DEF members, children

\* What push and push_group leave is an inventory with all its fields.
LEMMA PushFields ==
    ASSUME NEW i, IsShape(i), NEW pairs
    PROVE  /\ push(i, pairs) =
                 [members |-> i.members \union pairs, children |-> i.children,
                  hostvars |-> i.hostvars, index |-> i.index, db_clusters |-> i.db_clusters]
           /\ push_group(i, pairs) =
                 [members |-> i.members, children |-> i.children \union pairs,
                  hostvars |-> i.hostvars, index |-> i.index, db_clusters |-> i.db_clusters]
  BY DEF push, push_group, IsShape

\* What an entry makes of an inventory.
MembersWith(s, i, e) ==
    (IF ById(s) THEN {m \in i.members : m[1] # e.id} \union {<<e.id, e.host>>} ELSE i.members)
    \union ({<<g.name, e.host>> : g \in OnGroups(s, e)} \union e.list)
OwnChildren(s, i, e) == IF ById(s) THEN {c \in i.children : c[1] # e.id} ELSE i.children
ChildOfInstances(id) == <<<<"instances">>, id>>
GroupChildren(s, e) == UNION {g.children : g \in OnGroups(s, e)}
IdChild(s, e) == IF ById(s) THEN {ChildOfInstances(e.id)} ELSE {}
NewChildren(s, e) == GroupChildren(s, e) \union IdChild(s, e)
ChildrenWith(s, i, e) ==
    IF ~s.nested_groups THEN OwnChildren(s, i, e) ELSE OwnChildren(s, i, e) \union NewChildren(s, e)
VariablesWith(i, e) ==
    Update(i.hostvars, Single(e.host, IF e.completes /\ e.host \in DOMAIN i.hostvars
                                      THEN Update(i.hostvars[e.host], e.hostvars)
                                      ELSE e.hostvars))
IndexWith(i, e) == Update(i.index, Single(e.host, <<e.region, e.id>>))

\* The five fields of an inventory after one more entry (Added).
LEMMA AddedFields ==
    ASSUME NEW s, NEW i, IsShape(i), NEW e
    PROVE  Added(s, i, e) =
              [members |-> MembersWith(s, i, e), children |-> ChildrenWith(s, i, e),
               hostvars |-> VariablesWith(i, e), index |-> IndexWith(i, e),
               db_clusters |-> i.db_clusters]
  <1> DEFINE on == OnGroups(s, e)
             own == IF ById(s) THEN Assign(i, e.id, e.host) ELSE i
             members == {<<g.name, e.host>> : g \in on} \union e.list
             filed == push(own, members)
             ofGroups == UNION {g.children : g \in on}
             ofId == IF ById(s) THEN {<<<<"instances">>, e.id>>} ELSE {}
             children == ofGroups \union ofId
             nested == IF ~s.nested_groups THEN filed ELSE push_group(filed, children)
  <1>1. Added(s, i, e) =
           [nested EXCEPT
               !.index = Update(@, Single(e.host, <<e.region, e.id>>)),
               !.hostvars = Update(@, Single(e.host, IF e.completes /\ e.host \in DOMAIN @
                                                     THEN Update(@[e.host], e.hostvars)
                                                     ELSE e.hostvars))]
    BY DEF Added, OnGroups, ById
  <1>0. children = NewChildren(s, e)
    <2>1. GroupChildren(s, e) = ofGroups
      BY Zenon DEF GroupChildren
    <2>2. ofId = IdChild(s, e)
      BY Zenon DEF IdChild, ChildOfInstances
    <2> HIDE DEF ofGroups, ofId
    <2>3. QED
      BY <2>1, <2>2 DEF NewChildren
  <1>2. own = [members |-> IF ById(s) THEN {m \in i.members : m[1] # e.id} \union {<<e.id, e.host>>}
                           ELSE i.members,
               children |-> IF ById(s) THEN {c \in i.children : c[1] # e.id} ELSE i.children,
               hostvars |-> i.hostvars, index |-> i.index, db_clusters |-> i.db_clusters]
    <2>1. CASE ById(s)
      BY <2>1, AssignFields
    <2>2. CASE ~ById(s)
      BY <2>2 DEF IsShape
    <2>3. QED
      BY <2>1, <2>2
  <1> HIDE DEF own
  <1>3. IsShape(own)
    BY <1>2 DEF IsShape
  <1> HIDE DEF members
  <1>4. filed = [members |-> own.members \union members, children |-> own.children,
                 hostvars |-> own.hostvars, index |-> own.index, db_clusters |-> own.db_clusters]
    BY <1>3, PushFields
  <1> HIDE DEF filed
  <1>5. IsShape(filed)
    BY <1>4 DEF IsShape
  <1> HIDE DEF children
  <1>6. nested = [members |-> filed.members,
                  children |-> IF ~s.nested_groups THEN filed.children ELSE filed.children \union children,
                  hostvars |-> filed.hostvars, index |-> filed.index, db_clusters |-> filed.db_clusters]
    <2>1. CASE ~s.nested_groups
      BY <1>5, <2>1 DEF IsShape
    <2>2. CASE s.nested_groups
      BY <1>5, <2>2, PushFields
    <2>3. QED
      BY <2>1, <2>2
  <1> HIDE DEF nested
  <1>7. /\ nested.members = MembersWith(s, i, e) /\ nested.children = ChildrenWith(s, i, e)
        /\ nested.hostvars = i.hostvars /\ nested.index = i.index /\ nested.db_clusters = i.db_clusters
    <2>1. nested.members = MembersWith(s, i, e)
      BY <1>2, <1>4, <1>6 DEF MembersWith, members
    <2>2. nested.children = ChildrenWith(s, i, e)
      BY <1>0, <1>2, <1>4, <1>6 DEF ChildrenWith, OwnChildren
    <2>3. QED
      BY <1>2, <1>4, <1>6, <2>1, <2>2
  <1>8. nested = [members |-> MembersWith(s, i, e), children |-> ChildrenWith(s, i, e),
                  hostvars |-> i.hostvars, index |-> i.index, db_clusters |-> i.db_clusters]
    BY <1>6, <1>7
  <1>9. QED
    BY <1>1, <1>8 DEF VariablesWith, IndexWith

\* An entry that an inventory can take: its list and its groups are of its
\* host, its children resolve, its id is that of something that has been there
\* and its groups of tags have what had the tags.
Sound(e) ==
    /\ \A m \in e.list : (m[1] \in IdLists \/ m[2] = e.host) /\ ~IsTagGroup(m[1])
    /\ \A g \in e.groups : \A c \in g.children :
          c[2] = g.name \/ (\E b \in g.children : b[1] = c[2]) \/ c[1][1] \in OddParents
    /\ OfElastiCache(e.id) \/ (~e.completes /\ e.id = <<e.hostvars[IdVariable]>>)
    /\ \E x \in Resource : Ever(x) /\ e.id \in IdsOf(x)
    /\ \/ <<<<"rds">>, e.host>> \in e.list
       \/ \A g \in e.groups : IsTagGroup(g.name) => HadTag(g.name, e.host)
    /\ ~IsTagGroup(e.id) /\ e.id # <<"rds">>

\* An inventory with all the promises about its content.
Good(i) == IsInventory(i) /\ Known(i) /\ Resolves(i) /\ Tagged(i)

\* What no entry takes away, and what an entry has been filed under.
Keeps(i, j) ==
    /\ DOMAIN i.index \subseteq DOMAIN j.index
    /\ \A m \in i.members : IsTagGroup(m[1]) => m \in j.members
FiledIn(i, e) ==
    /\ e.host \in DOMAIN i.index
    /\ \A g \in OnGroups(conf, e) : IsTagGroup(g.name) => <<g.name, e.host>> \in i.members

\* What an entry adds to the index and to the variables.
LEMMA AddedIndex ==
    ASSUME NEW s, NEW i, IsInventory(i), NEW e
    PROVE  LET j == Added(s, i, e)
           IN  /\ IsInventory(j) /\ j.db_clusters = i.db_clusters
               /\ DOMAIN j.index = DOMAIN i.index \union {e.host}
               /\ j.index[e.host][2] = e.id
               /\ ~e.completes => j.hostvars[e.host] = e.hostvars
               /\ \A h \in DOMAIN i.index \ {e.host} :
                     j.index[h] = i.index[h] /\ j.hostvars[h] = i.hostvars[h]
  <1> DEFINE j == Added(s, i, e)
             v == IF e.completes /\ e.host \in DOMAIN i.hostvars
                  THEN Update(i.hostvars[e.host], e.hostvars) ELSE e.hostvars
  <1>1. IsShape(i)
    BY DEF IsShape, IsInventory
  <1>2. j = [members |-> MembersWith(s, i, e), children |-> ChildrenWith(s, i, e),
             hostvars |-> VariablesWith(i, e), index |-> IndexWith(i, e),
             db_clusters |-> i.db_clusters]
    BY <1>1, AddedFields
  <1> HIDE DEF j
  <1>3. /\ DOMAIN j.index = DOMAIN i.index \union {e.host} /\ j.index[e.host] = <<e.region, e.id>>
        /\ \A h \in DOMAIN i.index : h # e.host => j.index[h] = i.index[h]
    <2>1. j.index = Update(i.index, Single(e.host, <<e.region, e.id>>))
      BY <1>2 DEF IndexWith
    <2> DEFINE x == e.host
               y == <<e.region, e.id>>
               f == i.index
    <2> HIDE DEF x, y, f
    <2>2. /\ DOMAIN Update(f, Single(x, y)) = DOMAIN f \union {x}
          /\ Update(f, Single(x, y))[x] = y
          /\ \A h \in DOMAIN f : h # x => Update(f, Single(x, y))[h] = f[h]
      BY DEF Update, Single
    <2>3. QED
      BY <2>1, <2>2 DEF x, y, f
  <1>4. ~e.completes => v = e.hostvars
    OBVIOUS
  <1>5. VariablesWith(i, e) = Update(i.hostvars, Single(e.host, v))
    BY DEF VariablesWith
  <1> HIDE DEF v
  <1>6. /\ DOMAIN j.hostvars = DOMAIN i.hostvars \union {e.host} /\ j.hostvars[e.host] = v
        /\ \A h \in DOMAIN i.hostvars : h # e.host => j.hostvars[h] = i.hostvars[h]
    <2>1. j.hostvars = Update(i.hostvars, Single(e.host, v))
      BY <1>2, <1>5
    <2> DEFINE x == e.host
               f == i.hostvars
    <2> HIDE DEF x, f
    <2>2. /\ DOMAIN Update(f, Single(x, v)) = DOMAIN f \union {x}
          /\ Update(f, Single(x, v))[x] = v
          /\ \A h \in DOMAIN f : h # x => Update(f, Single(x, v))[h] = f[h]
      BY DEF Update, Single
    <2>3. QED
      BY <2>1, <2>2 DEF x, f
  <1>7. DOMAIN i.hostvars = DOMAIN i.index /\ i.db_clusters \subseteq Resource
    BY DEF IsInventory
  <1>8. j.db_clusters = i.db_clusters
    BY <1>2
  <1>9. IsInventory(j)
    <2>1. IsShape(j)
      BY <1>2 DEF IsShape
    <2>2. QED
      BY <1>3, <1>6, <1>7, <1>8, <2>1 DEF IsInventory, IsShape
  <1>10. QED
    BY <1>3, <1>4, <1>6, <1>7, <1>8, <1>9 DEF j

\* What an entry adds to the groups.
LEMMA AddedMembers ==
    ASSUME NEW s, NEW i, IsInventory(i), NEW e
    PROVE  /\ \A m : m \in Added(s, i, e).members <=>
                 \/ m \in i.members /\ (ById(s) => m[1] # e.id)
                 \/ ById(s) /\ m = <<e.id, e.host>>
                 \/ \E g \in OnGroups(s, e) : m = <<g.name, e.host>>
                 \/ m \in e.list
           /\ \A c : c \in Added(s, i, e).children <=>
                 \/ c \in i.children /\ (ById(s) => c[1] # e.id)
                 \/ s.nested_groups /\ \E g \in OnGroups(s, e) : c \in g.children
                 \/ s.nested_groups /\ ById(s) /\ c = ChildOfInstances(e.id)
  <1> DEFINE j == Added(s, i, e)
  <1>1. IsShape(i)
    BY DEF IsShape, IsInventory
  <1>2. j = [members |-> MembersWith(s, i, e), children |-> ChildrenWith(s, i, e),
             hostvars |-> VariablesWith(i, e), index |-> IndexWith(i, e),
             db_clusters |-> i.db_clusters]
    BY <1>1, AddedFields
  <1> HIDE DEF j
  <1>3. j.members = MembersWith(s, i, e) /\ j.children = ChildrenWith(s, i, e)
    BY <1>2
  <1>4. ASSUME NEW m
        PROVE  m \in MembersWith(s, i, e) <=>
                  \/ m \in i.members /\ (ById(s) => m[1] # e.id)
                  \/ ById(s) /\ m = <<e.id, e.host>>
                  \/ \E g \in OnGroups(s, e) : m = <<g.name, e.host>>
                  \/ m \in e.list
    BY DEF MembersWith
  <1>5. ASSUME NEW c
        PROVE  c \in ChildrenWith(s, i, e) <=>
                  \/ c \in i.children /\ (ById(s) => c[1] # e.id)
                  \/ s.nested_groups /\ \E g \in OnGroups(s, e) : c \in g.children
                  \/ s.nested_groups /\ ById(s) /\ c = ChildOfInstances(e.id)
    <2>1. c \in OwnChildren(s, i, e) <=> c \in i.children /\ (ById(s) => c[1] # e.id)
      BY DEF OwnChildren
    <2>2. c \in NewChildren(s, e) <=>
             \/ \E g \in OnGroups(s, e) : c \in g.children
             \/ ById(s) /\ c = ChildOfInstances(e.id)
      <3>0. c \in GroupChildren(s, e) <=> \E g \in OnGroups(s, e) : c \in g.children
        BY DEF GroupChildren
      <3>1. CASE ById(s)
        BY <3>0, <3>1 DEF NewChildren, IdChild
      <3>2. CASE ~ById(s)
        BY <3>0, <3>2 DEF NewChildren, IdChild
      <3>3. QED
        BY <3>1, <3>2
    <2>3. QED
      BY <2>1, <2>2 DEF ChildrenWith
  <1>6. QED
    BY <1>3, <1>4, <1>5 DEF j

\* With a sound entry more the names of an inventory still resolve.
LEMMA AddedResolves ==
    ASSUME NEW i, IsInventory(i), Resolves(i), NEW e, Sound(e)
    PROVE  Resolves(Added(conf, i, e))
  <1> DEFINE j == Added(conf, i, e)
  <1>1. /\ DOMAIN j.index = DOMAIN i.index \union {e.host}
        /\ j.index[e.host][2] = e.id
        /\ ~e.completes => j.hostvars[e.host] = e.hostvars
        /\ \A h \in DOMAIN i.index \ {e.host} :
              j.index[h] = i.index[h] /\ j.hostvars[h] = i.hostvars[h]
    BY AddedIndex
  <1>2. /\ \A m : m \in j.members <=>
                 \/ m \in i.members /\ (ById(conf) => m[1] # e.id)
                 \/ ById(conf) /\ m = <<e.id, e.host>>
                 \/ \E g \in OnGroups(conf, e) : m = <<g.name, e.host>>
                 \/ m \in e.list
        /\ \A c : c \in j.children <=>
                 \/ c \in i.children /\ (ById(conf) => c[1] # e.id)
                 \/ conf.nested_groups /\ \E g \in OnGroups(conf, e) : c \in g.children
                 \/ conf.nested_groups /\ ById(conf) /\ c = ChildOfInstances(e.id)
    BY AddedMembers
  <1> HIDE DEF j
  <1>3. ASSUME NEW m \in j.members PROVE m[1] \in IdLists \/ m[2] \in DOMAIN j.index
    <2>1. CASE m \in i.members
      BY <1>1, <2>1 DEF Resolves
    <2>2. CASE ById(conf) /\ m = <<e.id, e.host>>
      BY <1>1, <2>2
    <2>3. CASE \E g \in OnGroups(conf, e) : m = <<g.name, e.host>>
      BY <1>1, <2>3
    <2>4. CASE m \in e.list
      BY <1>1, <2>4 DEF Sound
    <2>5. QED
      BY <1>2, <2>1, <2>2, <2>3, <2>4
  <1>4. ASSUME NEW h \in DOMAIN j.index
        PROVE  OfElastiCache(j.index[h][2]) \/ j.index[h][2] = <<j.hostvars[h][IdVariable]>>
    <2>1. CASE h = e.host
      BY <1>1, <2>1 DEF Sound
    <2>2. CASE h # e.host
      BY <1>1, <2>2 DEF Resolves
    <2>3. QED
      BY <2>1, <2>2
  <1>5. ASSUME NEW c \in j.children
        PROVE  \/ \E m \in j.members : m[1] = c[2]
               \/ \E b \in j.children : b[1] = c[2]
               \/ c[1][1] \in OddParents
    <2>1. ASSUME ById(conf), c[2] = e.id
          PROVE  \E m \in j.members : m[1] = c[2]
      <3>1. <<e.id, e.host>> \in j.members
        BY <1>2, <2>1
      <3>2. QED
        BY <2>1, <3>1
    <2>2. CASE c \in i.children
      <3>1. CASE \E m \in i.members : m[1] = c[2]
        BY <1>2, <2>1, <3>1
      <3>2. CASE \E b \in i.children : b[1] = c[2]
        BY <1>2, <2>1, <3>2
      <3>3. QED
        BY <2>2, <3>1, <3>2 DEF Resolves
    <2>3. ASSUME NEW g \in OnGroups(conf, e), c \in g.children, conf.nested_groups
          PROVE  \/ \E m \in j.members : m[1] = c[2]
                 \/ \E b \in j.children : b[1] = c[2]
                 \/ c[1][1] \in OddParents
      <3>1. g \in e.groups
        BY DEF OnGroups
      <3>2. CASE c[2] = g.name
        <4>1. <<g.name, e.host>> \in j.members
          BY <1>2
        <4>2. QED
          BY <3>2, <4>1
      <3>3. CASE \E b \in g.children : b[1] = c[2]
        BY <1>2, <2>3, <3>3
      <3>4. QED
        BY <2>3, <3>1, <3>2, <3>3 DEF Sound
    <2>4. ASSUME ById(conf), c = ChildOfInstances(e.id)
          PROVE  \E m \in j.members : m[1] = c[2]
      BY <2>1, <2>4 DEF ChildOfInstances
    <2>5. QED
      BY <1>2, <2>2, <2>3, <2>4
  <1>6. QED
    BY <1>3, <1>4, <1>5 DEF j, Resolves

\* A sound entry is filed, and takes nothing away that matters.
LEMMA AddedGood ==
    ASSUME NEW i, Good(i), NEW e, Sound(e)
    PROVE  /\ Good(Added(conf, i, e)) /\ Keeps(i, Added(conf, i, e))
           /\ FiledIn(Added(conf, i, e), e)
  <1> DEFINE j == Added(conf, i, e)
  <1>0. IsInventory(i) /\ Known(i) /\ Resolves(i) /\ Tagged(i)
    BY DEF Good
  <1>1. /\ IsInventory(j) /\ j.db_clusters = i.db_clusters
        /\ DOMAIN j.index = DOMAIN i.index \union {e.host}
        /\ j.index[e.host][2] = e.id
        /\ \A h \in DOMAIN i.index \ {e.host} : j.index[h] = i.index[h]
    BY <1>0, AddedIndex
  <1>2. \A m : m \in j.members <=>
                 \/ m \in i.members /\ (ById(conf) => m[1] # e.id)
                 \/ ById(conf) /\ m = <<e.id, e.host>>
                 \/ \E g \in OnGroups(conf, e) : m = <<g.name, e.host>>
                 \/ m \in e.list
    BY <1>0, AddedMembers
  <1>3. Resolves(j)
    BY <1>0, AddedResolves
  <1> HIDE DEF j
  <1>4. Known(j)
    BY <1>0, <1>1 DEF Known, Sound
  <1>5. ASSUME NEW m \in i.members, IsTagGroup(m[1]) PROVE m \in j.members
    BY <1>2, <1>5 DEF Sound
  <1>6. ASSUME NEW m \in j.members, IsTagGroup(m[1])
        PROVE  HadTag(m[1], m[2]) \/ <<<<"rds">>, m[2]>> \in j.members
    <2>1. CASE m \in i.members
      <3>1. HadTag(m[1], m[2]) \/ <<<<"rds">>, m[2]>> \in i.members
        BY <1>0, <1>6, <2>1 DEF Tagged
      <3>2. <<"rds">> # e.id
        BY DEF Sound
      <3>3. QED
        BY <1>2, <3>1, <3>2
    <2>2. CASE m = <<e.id, e.host>>
      BY <1>6, <2>2 DEF Sound
    <2>3. CASE \E g \in OnGroups(conf, e) : m = <<g.name, e.host>>
      <3>1. PICK g \in e.groups : m = <<g.name, e.host>>
        BY <2>3 DEF OnGroups
      <3>2. m[1] = g.name /\ m[2] = e.host
        BY <3>1
      <3>3. HadTag(g.name, e.host) \/ <<<<"rds">>, e.host>> \in e.list
        BY <1>6, <3>2 DEF Sound
      <3>4. QED
        BY <1>2, <3>2, <3>3
    <2>4. CASE m \in e.list
      BY <1>6, <2>4 DEF Sound
    <2>5. QED
      BY <1>2, <2>1, <2>2, <2>3, <2>4
  <1>7. FiledIn(j, e)
    BY <1>1, <1>2 DEF FiledIn
  <1>8. Keeps(i, j)
    BY <1>1, <1>5 DEF Keeps
  <1>9. QED
    BY <1>1, <1>3, <1>4, <1>6, <1>7, <1>8 DEF j, Good, Tagged

\* All the entries of an answer, one after the other.
LEMMA AllAddedGood ==
    ASSUME NEW i, Good(i), NEW S, NEW es \in Seq(S), \A e \in Range(es) : Sound(e)
    PROVE  LET j == AddedAll(conf, i, es)
           IN  Good(j) /\ Keeps(i, j) /\ \A e \in Range(es) : FiledIn(j, e)
  <1> DEFINE n == Len(es)
             j == AddedAll(conf, i, es)
  <1>1. j = Adding!Fold(conf, i, es)
    BY DEF AddedAll, Adding!Fold, FoldLeft, Adding!FoldLeft, MapThenFoldSet,
           Adding!MapThenFoldSet, Max, Adding!Max
  <1>2. PICK f : /\ f[0] = i
                 /\ \A m \in 1 .. n : f[m] = Added(conf, f[m - 1], es[m])
                 /\ f[n] = j
    BY <1>1, Adding!FoldUnrolled
  <1>3. n \in Nat /\ DOMAIN es = 1 .. n
    OBVIOUS
  <1>4. \A m \in 1 .. n : Sound(es[m])
    BY <1>3 DEF Range
  <1> HIDE DEF n, j
  <1> DEFINE W == {m \in 0 .. n : /\ Good(f[m]) /\ Keeps(i, f[m])
                                  /\ \A l \in 1 .. m : FiledIn(f[m], es[l])}
  <1>5. 0 \in W
    BY <1>2, <1>3 DEF Keeps
  <1>6. ASSUME NEW m \in 1 .. n, m - 1 \in W PROVE m \in W
    <2> DEFINE g == f[m - 1]
               h == f[m]
    <2>1. Good(g) /\ Keeps(i, g) /\ \A l \in 1 .. m - 1 : FiledIn(g, es[l])
      BY <1>6
    <2>2. h = Added(conf, g, es[m]) /\ Sound(es[m])
      BY <1>2, <1>4
    <2> HIDE DEF g, h
    <2>3. Good(h) /\ Keeps(g, h) /\ FiledIn(h, es[m])
      BY <2>1, <2>2, AddedGood
    <2>4. Keeps(i, h)
      BY <2>1, <2>3 DEF Keeps
    <2>5. ASSUME NEW l \in 1 .. m - 1 PROVE FiledIn(h, es[l])
      <3>1. FiledIn(g, es[l])
        BY <2>1
      <3>2. ASSUME NEW x \in OnGroups(conf, es[l]), IsTagGroup(x.name)
            PROVE  <<x.name, es[l].host>> \in h.members
        <4>1. <<x.name, es[l].host>> \in g.members
          BY <3>1, <3>2 DEF FiledIn
        <4> DEFINE p == <<x.name, es[l].host>>
        <4>2. p[1] = x.name
          OBVIOUS
        <4> HIDE DEF p
        <4>3. p \in g.members => p \in h.members
          BY <2>3, <3>2, <4>2 DEF Keeps
        <4>4. QED
          BY <4>1, <4>3 DEF p
      <3>3. es[l].host \in DOMAIN h.index
        BY <2>3, <3>1 DEF FiledIn, Keeps
      <3>4. QED
        BY <3>2, <3>3 DEF FiledIn
    <2>6. \A l \in 1 .. m : FiledIn(h, es[l])
      <3>1. \A l \in 1 .. m : l = m \/ l \in 1 .. m - 1
        BY <1>3
      <3>2. QED
        BY <2>3, <2>5, <3>1
    <2>7. QED
      BY <2>3, <2>4, <2>6 DEF h
  <1> HIDE DEF W
  <1>7. n \in W
    <2>1. n \in 0 .. n
      BY <1>3
    <2>2. QED
      BY <1>3, <1>5, <1>6, <2>1, Adding!InductionUpTo
  <1>8. Good(j) /\ Keeps(i, j) /\ \A l \in 1 .. n : FiledIn(j, es[l])
    BY <1>2, <1>7 DEF W
  <1>9. QED
    BY <1>3, <1>8 DEF j, Range
-----------------------------------------------------------------------------
(* Names *)

\* A word as to_safe leaves it.
Replaced(f, w) == IF w \in DOMAIN f THEN f[w] ELSE w
SafeWord(s, w) ==
    IF s.replace_dash_in_groups THEN Replaced(Dashes, Replaced(Marks, w)) ELSE Replaced(Marks, w)

\* Words are replaced one by one.
LEMMA EachIs ==
    ASSUME NEW f, NEW T, NEW name \in Seq(T)
    PROVE  /\ Each(f, name) \in Seq(T \union {f[x] : x \in DOMAIN f})
           /\ Len(Each(f, name)) = Len(name)
           /\ \A n \in 1 .. Len(name) : Each(f, name)[n] = Replaced(f, name[n])
  <1> DEFINE l == Len(name)
             U == T \union {f[x] : x \in DOMAIN f}
  <1>1. l \in Nat /\ DOMAIN name = 1 .. l
    OBVIOUS
  <1>2. \A n \in 1 .. l : name[n] \in T
    OBVIOUS
  <1> HIDE DEF l
  <1>3. Each(f, name) = [n \in 1 .. l |-> Replaced(f, name[n])]
    BY <1>1 DEF Each, Replaced
  <1>4. \A n \in 1 .. l : Replaced(f, name[n]) \in U
    BY <1>2 DEF Replaced
  <1> HIDE DEF U
  <1>5. [n \in 1 .. l |-> Replaced(f, name[n])] \in Seq(U)
    BY <1>1, <1>4
  <1>6. QED
    BY <1>1, <1>3, <1>5 DEF l, U

\* A name stays as long as it is, and each of its words depends on that word.
LEMMA SafeIs ==
    ASSUME NEW s, NEW T, NEW name \in Seq(T)
    PROVE  /\ Len(to_safe(s, name)) = Len(name) /\ \E U : to_safe(s, name) \in Seq(U)
           /\ \A n \in 1 .. Len(name) : to_safe(s, name)[n] = SafeWord(s, name[n])
  <1> DEFINE U == T \union {Marks[x] : x \in DOMAIN Marks}
             V == U \union {Dashes[x] : x \in DOMAIN Dashes}
             marked == Each(Marks, name)
             dashed == Each(Dashes, marked)
  <1>1. /\ marked \in Seq(U) /\ Len(marked) = Len(name)
        /\ \A n \in 1 .. Len(name) : marked[n] = Replaced(Marks, name[n])
    BY EachIs
  <1> HIDE DEF marked
  <1>2. /\ dashed \in Seq(V) /\ Len(dashed) = Len(marked)
        /\ \A n \in 1 .. Len(marked) : dashed[n] = Replaced(Dashes, marked[n])
    BY <1>1, EachIs
  <1>3. to_safe(s, name) = IF s.replace_dash_in_groups THEN dashed ELSE marked
    BY DEF to_safe, marked
  <1> HIDE DEF dashed, U, V
  <1>4. CASE s.replace_dash_in_groups
    BY <1>1, <1>2, <1>3, <1>4 DEF SafeWord
  <1>5. CASE ~s.replace_dash_in_groups
    BY <1>1, <1>3, <1>5 DEF SafeWord
  <1>6. QED
    BY <1>4, <1>5

\* Names of one, two and three words.
LEMMA SafeOne ==
    ASSUME NEW s, NEW a
    PROVE  to_safe(s, <<a>>) = <<SafeWord(s, a)>> /\ Len(to_safe(s, <<a>>)) = 1
  <1> DEFINE name == <<a>>
             safe == to_safe(s, name)
  <1>1. name \in Seq({a}) /\ Len(name) = 1 /\ name[1] = a
    OBVIOUS
  <1> HIDE DEF name
  <1>2. /\ Len(safe) = 1 /\ \E U : safe \in Seq(U)
        /\ safe[1] = SafeWord(s, a)
    <2>1. 1 \in 1 .. Len(name)
      BY <1>1
    <2>2. QED
      BY <1>1, <2>1, SafeIs
  <1> HIDE DEF safe
  <1>3. safe = <<SafeWord(s, a)>>
    BY <1>2
  <1>4. QED
    BY <1>2, <1>3 DEF name, safe

\* A name of two parts keeps two, and its first is the safe form of the first.
LEMMA SafeTwo ==
    ASSUME NEW s, NEW a, NEW b
    PROVE  Len(to_safe(s, <<a, b>>)) = 2 /\ to_safe(s, <<a, b>>)[1] = SafeWord(s, a)
  <1> DEFINE name == <<a, b>>
  <1>1. name \in Seq({a, b}) /\ Len(name) = 2 /\ name[1] = a
    OBVIOUS
  <1> HIDE DEF name
  <1>2. 1 \in 1 .. Len(name)
    BY <1>1
  <1>3. Len(to_safe(s, name)) = 2 /\ to_safe(s, name)[1] = SafeWord(s, a)
    BY <1>1, <1>2, SafeIs
  <1>4. QED
    BY <1>3 DEF name

\* A name of three parts keeps three, as the groups of tags and the nodes have.
LEMMA SafeThree ==
    ASSUME NEW s, NEW a, NEW b, NEW c
    PROVE  Len(to_safe(s, <<a, b, c>>)) = 3 /\ to_safe(s, <<a, b, c>>)[1] = SafeWord(s, a)
  <1> DEFINE name == <<a, b, c>>
  <1>1. name \in Seq({a, b, c}) /\ Len(name) = 3 /\ name[1] = a
    OBVIOUS
  <1> HIDE DEF name
  <1>2. 1 \in 1 .. Len(name)
    BY <1>1
  <1>3. Len(to_safe(s, name)) = 3 /\ to_safe(s, name)[1] = SafeWord(s, a)
    BY <1>1, <1>2, SafeIs
  <1>4. QED
    BY <1>3 DEF name

\* The words the code puts in front of tags stay, and no id becomes one.
LEMMA PrefixesStay ==
    ASSUME NEW s
    PROVE  SafeWord(s, "tag_") = "tag_" /\ SafeWord(s, "ec2_tag_") = "ec2_tag_"
  <1>1. \A w \in {"tag_", "ec2_tag_"} : w \notin DOMAIN Marks /\ w \notin DOMAIN Dashes
    BY IdsAssumption, Zenon
  <1>2. QED
    BY <1>1 DEF SafeWord, Replaced

\* The id of a resource is no list of hosts, and its safe form starts no group of
\* a tag.
LEMMA NoTagFromId ==
    ASSUME NEW s \in Settings, NEW x \in Resource
    PROVE  SafeWord(s, Data[x].id) # "tag_" /\ Data[x].id # "rds" /\ Data[x].id # NIL
  <1> DEFINE id == Data[x].id
  <1>1. id \notin {NIL, "rds"} /\ to_safe(s, <<id>>) # <<"tag_">>
    BY IdsAssumption, Zenon
  <1> HIDE DEF id
  <1>2. to_safe(s, <<id>>) = <<SafeWord(s, id)>>
    BY SafeOne
  <1>3. SafeWord(s, id) # "tag_"
    BY <1>1, <1>2
  <1>4. QED
    BY <1>1, <1>3 DEF id
-----------------------------------------------------------------------------
(* Groups *)

\* The children of a group resolve.
Nested(g) ==
    \A c \in g.children :
       c[2] = g.name \/ (\E b \in g.children : b[1] = c[2]) \/ c[1][1] \in OddParents

\* Besides, the group is not one of a tag.
Plain(g) == Nested(g) /\ ~IsTagGroup(g.name)

\* A name of another length is not that of a tag.
LEMMA OtherLength ==
    ASSUME NEW name, Len(name) = 1 \/ Len(name) = 2
    PROVE  ~IsTagGroup(name)
  BY DEF IsTagGroup

\* A group that is filed under a parent brings that child along (push_group).
LEMMA GroupNested ==
    ASSUME NEW option, NEW parent, NEW name
    PROVE  Nested(Group(option, parent, name)) /\ Group(option, parent, name).name = name
  BY DEF Nested, Group

\* A name of one or two parts is no group of a tag.
LEMMA GroupPlain ==
    ASSUME NEW option, NEW parent, NEW name, Len(name) = 1 \/ Len(name) = 2
    PROVE  Plain(Group(option, parent, name))
  BY GroupNested, OtherLength DEF Plain

\* Groups that are filed under what has no promise.
LEMMA OddPlain ==
    ASSUME NEW g, Len(g.name) = 1 \/ Len(g.name) = 2,
           \A c \in g.children : c[1][1] \in OddParents
    PROVE  Plain(g)
  BY OtherLength DEF Plain, Nested

\* The groups of every kind of resource are no groups of tags.
LEMMA CommonPlain ==
    ASSUME NEW s, NEW a, NEW b
    PROVE  /\ Plain(region_group(a)) /\ Plain(zone_group(s, a, b)) /\ Plain(type_group(s, a))
           /\ Plain(vpc_group(s, a)) /\ Plain(security_group(s, a))
  <1>1. Len(<<a>>) = 1 /\ Len(<<b>>) = 1
    OBVIOUS
  <1>2. \A w : Len(to_safe(s, <<w, a>>)) = 2
    BY SafeTwo
  <1>3. Plain(region_group(a))
    BY <1>1, GroupPlain DEF region_group
  <1>4. Plain(zone_group(s, a, b))
    <2> DEFINE g == zone_group(s, a, b)
    <2>1. /\ g.name = <<b>>
          /\ g.children = {<<<<"zones">>, <<b>>>>}
                \union IF "region" \in s.group_by THEN {<<<<a>>, <<b>>>>} ELSE {}
      BY DEF zone_group
    <2>2. \A c \in g.children : c[2] = <<b>>
      BY <2>1
    <2> HIDE DEF g
    <2>3. Nested(g)
      BY <2>1, <2>2 DEF Nested
    <2>4. ~IsTagGroup(g.name)
      BY <1>1, <2>1, OtherLength
    <2>5. QED
      BY <2>3, <2>4 DEF g, Plain
  <1>5. Plain(type_group(s, a))
    BY <1>2, GroupPlain DEF type_group
  <1>6. Plain(vpc_group(s, a))
    BY <1>2, GroupPlain DEF vpc_group
  <1>7. Plain(security_group(s, a))
    BY <1>2, GroupPlain DEF security_group
  <1>8. QED
    BY <1>3, <1>4, <1>5, <1>6, <1>7

\* The group of one tag.
LEMMA TagGroupIs ==
    ASSUME NEW s, NEW k, NEW v
    PROVE  LET g == tag_group(s, k, v)
           IN  /\ Nested(g) /\ g.option = "tag_keys"
               /\ v = BLANK => ~IsTagGroup(g.name)
               /\ v # BLANK => g.name = to_safe(s, <<"tag_", k, v>>) /\ IsTagGroup(g.name)
  <1> DEFINE g == tag_group(s, k, v)
             key == to_safe(s, <<"tag_", k>>)
             both == to_safe(s, <<"tag_", k, v>>)
             name == IF v = BLANK THEN key ELSE both
  <1>1. /\ g.option = "tag_keys" /\ g.name = name
        /\ g.children = {<<<<"tags">>, key>>} \union IF v = BLANK THEN {} ELSE {<<key, name>>}
    BY DEF tag_group
  <1>2. Len(key) = 2 /\ Len(both) = 3 /\ both[1] = "tag_"
    BY SafeTwo, SafeThree, PrefixesStay
  <1> HIDE DEF g, key, both
  <1>3. IsTagGroup(both) /\ ~IsTagGroup(key)
    BY <1>2 DEF IsTagGroup
  <1>4. Nested(g)
    <2>1. CASE v = BLANK
      BY <1>1, <2>1 DEF Nested
    <2>2. CASE v # BLANK
      <3>1. <<key, name>> \in g.children /\ <<key, name>>[1] = key
        BY <1>1, <2>2
      <3>2. \A c \in g.children : c[2] = key \/ c[2] = g.name
        BY <1>1, <2>2
      <3>3. QED
        BY <3>1, <3>2 DEF Nested
    <2>3. QED
      BY <2>1, <2>2
  <1>5. QED
    BY <1>1, <1>3, <1>4 DEF g, both

\* The groups of the tags of a resource are those it belongs in, and no others.
LEMMA TagGroupsAre ==
    ASSUME NEW tags
    PROVE  /\ \A g \in tag_groups(conf, tags) :
                 Nested(g) /\ (IsTagGroup(g.name) => g.name \in GroupsOfTags(tags))
           /\ \A name \in GroupsOfTags(tags) :
                 /\ IsTagGroup(name)
                 /\ \E g \in tag_groups(conf, tags) : g.option = "tag_keys" /\ g.name = name
  <1> DEFINE none == Group("tag_none", "tags", <<"tag_none">>)
  <1>1. ASSUME NEW g
        PROVE  g \in tag_groups(conf, tags) <=>
                  \/ \E k \in DOMAIN tags : \E v \in tag_values(conf, tags[k]) : g = tag_group(conf, k, v)
                  \/ DOMAIN tags = {} /\ g = none
    BY DEF tag_groups
  <1>2. ASSUME NEW name
        PROVE  name \in GroupsOfTags(tags) <=>
                  \E k \in DOMAIN tags : \E v \in tag_values(conf, tags[k]) :
                     v # BLANK /\ name = to_safe(conf, <<"tag_", k, v>>)
    BY DEF GroupsOfTags
  <1>3. Plain(none)
    <2>1. Len(<<"tag_none">>) = 1
      OBVIOUS
    <2>2. QED
      BY <2>1, GroupPlain
  <1> HIDE DEF none
  <1>4. ASSUME NEW g \in tag_groups(conf, tags)
        PROVE  Nested(g) /\ (IsTagGroup(g.name) => g.name \in GroupsOfTags(tags))
    <2>1. CASE g = none
      BY <1>3, <2>1 DEF Plain
    <2>2. ASSUME NEW k \in DOMAIN tags, NEW v \in tag_values(conf, tags[k]), g = tag_group(conf, k, v)
          PROVE  Nested(g) /\ (IsTagGroup(g.name) => g.name \in GroupsOfTags(tags))
      <3>1. /\ Nested(g) /\ (v = BLANK => ~IsTagGroup(g.name))
            /\ v # BLANK => g.name = to_safe(conf, <<"tag_", k, v>>)
        BY <2>2, TagGroupIs
      <3>2. v # BLANK => g.name \in GroupsOfTags(tags)
        BY <1>2, <3>1, Zenon
      <3>3. QED
        BY <3>1, <3>2
    <2>3. QED
      BY <1>1, <2>1, <2>2
  <1>5. ASSUME NEW name \in GroupsOfTags(tags)
        PROVE  /\ IsTagGroup(name)
               /\ \E g \in tag_groups(conf, tags) : g.option = "tag_keys" /\ g.name = name
    <2>0. PICK k \in DOMAIN tags : \E v \in tag_values(conf, tags[k]) :
             v # BLANK /\ name = to_safe(conf, <<"tag_", k, v>>)
      BY <1>2
    <2>1. PICK v \in tag_values(conf, tags[k]) :
             v # BLANK /\ name = to_safe(conf, <<"tag_", k, v>>)
      BY <2>0
    <2>2. tag_group(conf, k, v) \in tag_groups(conf, tags)
      BY <1>1
    <2>3. QED
      BY <2>1, <2>2, TagGroupIs
  <1>6. QED
    BY <1>4, <1>5
-----------------------------------------------------------------------------
(* Variables *)

\* A key that is there once has its value.
LEMMA DictIs ==
    ASSUME NEW pairs, NEW p \in pairs, \A q \in pairs : q[1] = p[1] => q[2] = p[2]
    PROVE  p[1] \in DOMAIN Dict(pairs) /\ Dict(pairs)[p[1]] = p[2]
  <1> DEFINE key == p[1]
             keys == {q[1] : q \in pairs}
             found == CHOOSE q \in pairs : q[1] = key
  <1>1. key \in keys
    OBVIOUS
  <1>2. found \in pairs /\ found[1] = key
    OBVIOUS
  <1>3. key \in DOMAIN Dict(pairs) /\ Dict(pairs)[key] = found[2]
    BY <1>1 DEF Dict
  <1>4. QED
    BY <1>2, <1>3

\* The variable of the id has the id.
LEMMA VariableOfId ==
    ASSUME NEW s, NEW i, "id" \in DOMAIN i, i.id # NIL, NEW tags, NEW account
    PROVE  /\ IdVariable \in DOMAIN get_host_info_dict_from_instance(s, i, tags, account)
           /\ get_host_info_dict_from_instance(s, i, tags, account)[IdVariable] = i.id
  <1> DEFINE structured == {"service", "region", "groups", "endpoint", "parameter_group"}
             values == {<<<<"ec2_", a>>, IF i[a] = NIL THEN BLANK ELSE i[a]>> : a \in DOMAIN i \ structured}
             ofTags == {<<to_safe(s, <<"ec2_tag_", k>>), tag_values(s, tags[k])>> : k \in DOMAIN tags}
             ofAccount == {<<<<"ec2_", "account_id">>, account>>}
             ofGroups == IF "groups" \in DOMAIN i
                         THEN {<<<<"ec2_", "region">>, i.region>>,
                               <<<<"ec2_", "security_group_names">>, i.groups>>}
                         ELSE {}
             pairs == values \union ofTags \union ofAccount \union ofGroups
             mine == <<IdVariable, i.id>>
  <1>1. get_host_info_dict_from_instance(s, i, tags, account) = Dict(pairs)
    BY Zenon DEF get_host_info_dict_from_instance
  <1>2. mine \in values
    <2>1. "id" \in DOMAIN i \ structured
      BY Zenon
    <2>2. mine = <<<<"ec2_", "id">>, IF i["id"] = NIL THEN BLANK ELSE i["id"]>>
      BY DEF IdVariable
    <2>3. QED
      BY <2>1, <2>2
  <1>3. ASSUME NEW q \in values, q[1] = IdVariable PROVE q[2] = i.id
    BY <1>3 DEF IdVariable
  <1>4. ASSUME NEW q \in ofTags PROVE q[1] # IdVariable
    <2>1. PICK k \in DOMAIN tags : q = <<to_safe(s, <<"ec2_tag_", k>>), tag_values(s, tags[k])>>
      OBVIOUS
    <2>2. q[1][1] = "ec2_tag_"
      BY <2>1, SafeTwo, PrefixesStay
    <2>3. QED
      BY <2>2 DEF IdVariable
  <1>5. ASSUME NEW q \in ofAccount \union ofGroups PROVE q[1] # IdVariable
    BY DEF IdVariable
  <1> HIDE DEF values, ofTags, ofAccount, ofGroups
  <1>6. mine \in pairs /\ mine[1] = IdVariable /\ mine[2] = i.id
    BY <1>2
  <1>7. \A q \in pairs : q[1] = mine[1] => q[2] = mine[2]
    BY <1>3, <1>4, <1>5, <1>6
  <1> HIDE DEF pairs, mine
  <1>8. IdVariable \in DOMAIN Dict(pairs) /\ Dict(pairs)[IdVariable] = i.id
    BY <1>6, <1>7, DictIs
  <1>9. QED
    BY <1>1, <1>8

\* It keeps it when the address is added.
LEMMA IdStays ==
    ASSUME NEW f, NEW v, NEW id, f[IdVariable] = id, IdVariable \in DOMAIN f
    PROVE  Update(f, Single(<<"ansible_host">>, v))[IdVariable] = id
  <1>1. IdVariable # <<"ansible_host">>
    BY DEF IdVariable
  <1> HIDE DEF IdVariable
  <1>2. QED
    BY <1>1 DEF Update, Single
-----------------------------------------------------------------------------
(* Entries *)

\* A list of one element and one of none.
LEMMA RangeOfOne ==
    ASSUME NEW a
    PROVE  Range(<<a>>) = {a} /\ Range(<<>>) = {} /\ <<a>> \in Seq({a}) /\ <<>> \in Seq({a})
  <1>1. DOMAIN <<a>> = {1} /\ <<a>>[1] = a
    OBVIOUS
  <1>2. QED
    BY <1>1 DEF Range

\* The groups of an instance.
LEMMA InstanceGroups ==
    ASSUME NEW i, NEW tags, NEW records, NEW account,
           NEW g \in instance_groups(conf, i, tags, records, account)
    PROVE  Nested(g) /\ (IsTagGroup(g.name) => g.name \in GroupsOfTags(tags))
  <1>1. \A a, w : Len(to_safe(conf, <<a>>)) = 1 /\ Len(to_safe(conf, <<w, a>>)) = 2
    BY SafeOne, SafeTwo
  <1>2. \A a : Len(<<a>>) = 1
    OBVIOUS
  <1> DEFINE platform == IF Given(i.platform) = {} THEN "undefined" ELSE i.platform
             one == {region_group(i.region), zone_group(conf, i.region, i.placement),
                     Group("ami_id", "images", to_safe(conf, <<i.image_id>>)),
                     type_group(conf, i.instance_type),
                     Group("instance_state", "instance_states", to_safe(conf, <<"instance_state_", i.state>>)),
                     Group("platform", "platforms", to_safe(conf, <<"platform_", platform>>)),
                     Group("aws_account", "accounts", <<account>>)}
             keys == {Group("key_pair", "keys", to_safe(conf, <<"key_", k>>)) : k \in Given(i.key_name)}
             vpcs == {vpc_group(conf, v) : v \in Given(i.vpc_id)}
             security == {security_group(conf, v) : v \in i.groups}
             names == IF conf.route53 THEN get_instance_route53_names(i, records) ELSE {}
             route53 == {Group("route53_names", "route53", <<n>>) : n \in names}
  <1>3. instance_groups(conf, i, tags, records, account) =
           one \union keys \union vpcs \union security \union tag_groups(conf, tags) \union route53
    BY Zenon DEF instance_groups
  <1>4. ASSUME g \in one PROVE Plain(g)
    <2> HIDE DEF platform
    <2>1. CASE g \in {region_group(i.region), zone_group(conf, i.region, i.placement),
                      type_group(conf, i.instance_type)}
      BY <2>1, CommonPlain
    <2>2. CASE g = Group("ami_id", "images", to_safe(conf, <<i.image_id>>))
      BY <1>1, <2>2, GroupPlain
    <2>3. CASE g = Group("instance_state", "instance_states", to_safe(conf, <<"instance_state_", i.state>>))
      BY <1>1, <2>3, GroupPlain
    <2>4. CASE g = Group("platform", "platforms", to_safe(conf, <<"platform_", platform>>))
      BY <1>1, <2>4, GroupPlain
    <2>5. CASE g = Group("aws_account", "accounts", <<account>>)
      BY <1>2, <2>5, GroupPlain
    <2>6. QED
      BY <1>4, <2>1, <2>2, <2>3, <2>4, <2>5
  <1>5. ASSUME g \in keys PROVE Plain(g)
    BY <1>1, <1>5, GroupPlain
  <1>6. ASSUME g \in vpcs \union security PROVE Plain(g)
    BY <1>6, CommonPlain
  <1>7. ASSUME g \in route53 PROVE Plain(g)
    BY <1>2, <1>7, GroupPlain
  <1> HIDE DEF one, keys, vpcs, security, route53
  <1>8. g \in one \/ g \in keys \/ g \in vpcs \/ g \in security
        \/ g \in tag_groups(conf, tags) \/ g \in route53
    BY <1>3
  <1>9. CASE g \in tag_groups(conf, tags)
    BY <1>9, TagGroupsAre
  <1>10. CASE g \notin tag_groups(conf, tags)
    BY <1>4, <1>5, <1>6, <1>7, <1>8, <1>10 DEF Plain
  <1>11. QED
    BY <1>9, <1>10

\* What an instance is called, whether it is wanted, and its entry.
InstanceHost(s, d, tags, records) == hostname(s, d, tags, records, destination(s, d, tags))
InstanceWanted(s, d, tags, records) ==
    LET dest == destination(s, d, tags)
        host == InstanceHost(s, d, tags, records)
    IN  /\ d.state \in ec2_instance_states(s)
        /\ dest \notin {<<NIL>>, <<BLANK>>}
        /\ s.pattern_include # NIL => host \in s.pattern_include
        /\ s.pattern_exclude # NIL => host \notin s.pattern_exclude
InstanceVariables(s, d, tags, account) ==
    Update(get_host_info_dict_from_instance(s, d, tags, account),
           Single(<<"ansible_host">>, destination(s, d, tags)))
InstanceEntry(s, d, tags, records, account) ==
    LET host == InstanceHost(s, d, tags, records)
    IN  Entry(host, d.region, <<d.id>>, instance_groups(s, d, tags, records, account),
              {<<<<"ec2">>, host>>}, InstanceVariables(s, d, tags, account), FALSE)

\* add_instance makes one entry or none.
LEMMA InstanceIs ==
    ASSUME NEW s, NEW d, NEW tags, NEW records, NEW account
    PROVE  LET es == add_instance(s, d, tags, records, account)
               e == InstanceEntry(s, d, tags, records, account)
           IN  /\ es \in Seq({e})
               /\ Range(es) = IF InstanceWanted(s, d, tags, records) THEN {e} ELSE {}
  <1> DEFINE e == InstanceEntry(s, d, tags, records, account)
             wanted == InstanceWanted(s, d, tags, records)
  <1>1. add_instance(s, d, tags, records, account) = IF wanted THEN <<e>> ELSE <<>>
    BY Zenon DEF add_instance, InstanceWanted, InstanceEntry, InstanceHost, InstanceVariables
  <1> HIDE DEF e, wanted
  <1>2. CASE wanted
    BY <1>1, <1>2, RangeOfOne DEF e, wanted
  <1>3. CASE ~wanted
    BY <1>1, <1>3, RangeOfOne DEF e, wanted
  <1>4. QED
    BY <1>2, <1>3

\* The entry of an instance is sound, if its tags are those of some moment, or
\* none since it was gone when they were asked for.
LEMMA InstanceSound ==
    ASSUME conf \in Settings, NEW x \in Resource, Data[x].service = "ec2", Ever(x),
           NEW tags, tags = <<>> \/ tags \in past[x] \ {NIL}, NEW account
    PROVE  Sound(InstanceEntry(conf, Data[x], tags, run.records, account))
  <1> DEFINE e == InstanceEntry(conf, Data[x], tags, run.records, account)
             host == InstanceHost(conf, Data[x], tags, run.records)
  <1>1. /\ e.host = host /\ e.id = <<Data[x].id>> /\ e.completes = FALSE
        /\ e.groups = instance_groups(conf, Data[x], tags, run.records, account)
        /\ e.list = {<<<<"ec2">>, host>>} /\ e.hostvars = InstanceVariables(conf, Data[x], tags, account)
    BY DEF InstanceEntry, Entry
  <1>2. Data[x].id # NIL /\ Data[x].id # "rds" /\ "id" \in DOMAIN Data[x]
    BY IdsAssumption, NoTagFromId
  <1>3. e.hostvars[IdVariable] = Data[x].id
    BY <1>1, <1>2, VariableOfId, IdStays DEF InstanceVariables
  <1>4. \A g \in e.groups : Nested(g) /\ (IsTagGroup(g.name) => g.name \in GroupsOfTags(tags))
    BY <1>1, InstanceGroups
  <1> HIDE DEF e, host
  <1>5. \A m \in e.list : m[2] = e.host /\ ~IsTagGroup(m[1])
    <2>1. Len(<<"ec2">>) = 1
      OBVIOUS
    <2>2. QED
      BY <1>1, <2>1, OtherLength
  <1>6. ASSUME NEW g \in e.groups, IsTagGroup(g.name) PROVE HadTag(g.name, e.host)
    <2>1. g.name \in GroupsOfTags(tags)
      BY <1>4, <1>6
    <2>2. tags # <<>>
      <3>1. tags = <<>> => DOMAIN tags = {}
        OBVIOUS
      <3>2. DOMAIN tags # {}
        BY <2>1 DEF GroupsOfTags
      <3>3. QED
        BY <3>1, <3>2
    <2>3. e.host = InstanceHost(conf, Data[x], tags, run.records)
      BY <1>1 DEF host
    <2>4. QED
      BY <2>1, <2>2, <2>3 DEF HadTag, InstanceHost
  <1>7. ~IsTagGroup(e.id) /\ e.id # <<"rds">>
    <2>1. Len(e.id) = 1
      BY <1>1
    <2>2. QED
      BY <1>1, <1>2, <2>1, OtherLength
  <1>8. e.id \in IdsOf(x)
    BY <1>1 DEF IdsOf
  <1>9. Sound(e)
    BY <1>1, <1>3, <1>4, <1>5, <1>6, <1>7, <1>8 DEF Sound, Nested
  <1>10. QED
    BY <1>9 DEF e

\* What an RDS instance is called, and its entry.
RdsHost(s, d, tags) ==
    Each(Lower, to_safe(s, <<IF Given(named(s, d, tags)) = {} THEN d.endpoint ELSE named(s, d, tags)>>))
RdsWanted(s, d) == wants_rds(s, d) /\ d.endpoint # BLANK
RdsVariables(s, d, tags, account) ==
    Update(get_host_info_dict_from_instance(s, d, tags, account),
           Single(<<"ansible_host">>, <<d.endpoint>>))
RdsEntry(s, d, tags, account) ==
    Entry(RdsHost(s, d, tags), d.region, <<d.id>>, rds_groups(s, d, tags),
          {<<<<"rds">>, RdsHost(s, d, tags)>>}, RdsVariables(s, d, tags, account), FALSE)

\* add_rds_instance makes one entry or none.
LEMMA RdsIs ==
    ASSUME NEW s, NEW d, NEW tags, NEW account
    PROVE  LET es == add_rds_instance(s, d, tags, account)
               e == RdsEntry(s, d, tags, account)
           IN  es \in Seq({e}) /\ Range(es) = IF RdsWanted(s, d) THEN {e} ELSE {}
  <1> DEFINE e == RdsEntry(s, d, tags, account)
             wanted == RdsWanted(s, d)
  <1>1. add_rds_instance(s, d, tags, account) = IF wanted THEN <<e>> ELSE <<>>
    BY Zenon DEF add_rds_instance, RdsWanted, RdsEntry, RdsHost, RdsVariables
  <1> HIDE DEF e, wanted
  <1>2. CASE wanted
    BY <1>1, <1>2, RangeOfOne DEF e, wanted
  <1>3. CASE ~wanted
    BY <1>1, <1>3, RangeOfOne DEF e, wanted
  <1>4. QED
    BY <1>2, <1>3

\* The groups of an RDS instance.
LEMMA RdsGroups ==
    ASSUME NEW d, NEW tags, NEW g \in rds_groups(conf, d, tags)
    PROVE  Nested(g)
  <1> DEFINE one == {region_group(d.region), zone_group(conf, d.region, d.availability_zone),
                     type_group(conf, d.instance_class)}
             two == {Group("rds_engine", "rds_engines", to_safe(conf, <<"rds_", d.engine>>)),
                     Group("rds_parameter_group", "rds_parameter_groups",
                           to_safe(conf, <<"rds_parameter_group_", d.parameter_group>>))}
             vpcs == {vpc_group(conf, v) : v \in Given(d.vpc_id)}
             security == {security_group(conf, v) : v \in Given(d.security_group)}
  <1>1. g \in one \/ g \in two \/ g \in vpcs \/ g \in security \/ g \in tag_groups(conf, tags)
    BY DEF rds_groups
  <1>2. g \in one => Nested(g)
    BY CommonPlain DEF Plain
  <1>3. g \in two => Nested(g)
    BY GroupNested
  <1>4. g \in vpcs => Nested(g)
    BY CommonPlain DEF Plain
  <1>5. g \in security => Nested(g)
    BY CommonPlain DEF Plain
  <1>6. g \in tag_groups(conf, tags) => Nested(g)
    BY TagGroupsAre
  <1>7. QED
    BY <1>1, <1>2, <1>3, <1>4, <1>5, <1>6

\* The entry of an RDS instance is sound whichever tags it was given.
LEMMA RdsSound ==
    ASSUME conf \in Settings, NEW x \in Resource, Ever(x), NEW tags, NEW account
    PROVE  Sound(RdsEntry(conf, Data[x], tags, account))
  <1> DEFINE e == RdsEntry(conf, Data[x], tags, account)
             host == RdsHost(conf, Data[x], tags)
  <1>1. /\ e.host = host /\ e.id = <<Data[x].id>> /\ e.completes = FALSE
        /\ e.groups = rds_groups(conf, Data[x], tags)
        /\ e.list = {<<<<"rds">>, host>>} /\ e.hostvars = RdsVariables(conf, Data[x], tags, account)
    BY DEF RdsEntry, Entry
  <1>2. Data[x].id # NIL /\ Data[x].id # "rds" /\ "id" \in DOMAIN Data[x]
    BY IdsAssumption, NoTagFromId
  <1>3. e.hostvars[IdVariable] = Data[x].id
    BY <1>1, <1>2, VariableOfId, IdStays DEF RdsVariables
  <1>4. \A g \in e.groups : Nested(g)
    BY <1>1, RdsGroups
  <1> HIDE DEF e, host
  <1>5. \A m \in e.list : m[2] = e.host /\ ~IsTagGroup(m[1])
    <2>1. Len(<<"rds">>) = 1
      OBVIOUS
    <2>2. QED
      BY <1>1, <2>1, OtherLength
  <1>6. ~IsTagGroup(e.id) /\ e.id # <<"rds">>
    <2>1. Len(e.id) = 1
      BY <1>1
    <2>2. QED
      BY <1>1, <1>2, <2>1, OtherLength
  <1>7. e.id \in IdsOf(x)
    BY <1>1 DEF IdsOf
  <1>8. <<<<"rds">>, e.host>> \in e.list
    BY <1>1
  <1>9. Sound(e)
    BY <1>1, <1>3, <1>4, <1>5, <1>6, <1>7, <1>8 DEF Sound, Nested
  <1>10. QED
    BY <1>9 DEF e

\* A group of ElastiCache, whose child goes by another name.
Under(option, parent, name, child) ==
    [option |-> option, name |-> name, children |-> {<<<<parent>>, to_safe(conf, <<child>>)>>}]

\* Groups of ElastiCache that are filed under parents without a promise.
LEMMA UnderPlain ==
    ASSUME NEW option, NEW parent \in OddParents, NEW name, Len(name) = 2, NEW child
    PROVE  Plain(Under(option, parent, name, child))
  <1> DEFINE g == Under(option, parent, name, child)
  <1>1. g.name = name /\ \A c \in g.children : c[1][1] = parent
    BY DEF Under
  <1> HIDE DEF g
  <1>2. Plain(g)
    BY <1>1, OddPlain
  <1>3. QED
    BY <1>2 DEF g

\* The groups for security groups are no groups of tags.
LEMMA SecurityPlain ==
    ASSUME NEW c, NEW g \in security_groups_of(conf, c)
    PROVE  Plain(g)
  BY CommonPlain DEF security_groups_of

\* The groups of a cluster.
LEMMA ClusterGroups ==
    ASSUME NEW c, NEW g \in cluster_groups(conf, c)
    PROVE  Plain(g)
  <1> DEFINE parameters == c.cache_parameter_group
             one == Under("elasticache_parameter_group", "elasticache_parameter_groups",
                          to_safe(conf, <<"elasticache_parameter_group_", parameters>>), parameters)
             replications ==
                {Under("elasticache_replication_group", "elasticache_replication_groups",
                       to_safe(conf, <<"elasticache_replication_group_", r>>), r) :
                    r \in Given(Get(c, "replication_group_id"))}
             engine == Under("elasticache_engine", "elasticache_engines", engine_name(conf, c), c.engine)
             own == {region_group(c.region), zone_group(conf, c.region, c.preferred_availability_zone),
                     type_group(conf, c.cache_node_type), engine} \union security_groups_of(conf, c)
  <1>1. g = one \/ g \in replications \/ g \in own
    <2>1. cluster_groups(conf, c) = {one} \union replications \union IF is_redis(c) THEN {} ELSE own
      BY Zenon DEF cluster_groups, Under
    <2> HIDE DEF one, replications, own
    <2>2. CASE is_redis(c)
      BY <2>1, <2>2
    <2>3. CASE ~is_redis(c)
      BY <2>1, <2>3
    <2>4. QED
      BY <2>2, <2>3
  <1>2. /\ "elasticache_parameter_groups" \in OddParents /\ "elasticache_engines" \in OddParents
        /\ "elasticache_replication_groups" \in OddParents
    BY DEF OddParents
  <1>3. \A w, a : Len(to_safe(conf, <<w, a>>)) = 2
    BY SafeTwo
  <1>4. Plain(one)
    BY <1>2, <1>3, UnderPlain
  <1>5. g \in replications => Plain(g)
    BY <1>2, <1>3, UnderPlain
  <1>6. Plain(engine)
    BY <1>2, <1>3, UnderPlain DEF engine_name
  <1> HIDE DEF one, replications, engine
  <1>7. g \in own => Plain(g)
    BY <1>6, CommonPlain, SecurityPlain
  <1> HIDE DEF own
  <1>8. QED
    BY <1>1, <1>4, <1>5, <1>7

\* The groups of a node.
NodeGroups(c) ==
    {region_group(c.region), zone_group(conf, c.region, c.preferred_availability_zone),
     type_group(conf, c.cache_node_type),
     Group("elasticache_engine", "elasticache_engines", engine_name(conf, c)),
     [option |-> "elasticache_cluster", children |-> {},
      name |-> to_safe(conf, <<"elasticache_cluster_", c.id>>)]}
    \union security_groups_of(conf, c)

\* The groups of a node of a cluster are no groups of tags.
LEMMA NodeGroupsPlain ==
    ASSUME NEW c, NEW g \in NodeGroups(c)
    PROVE  Plain(g)
  <1> DEFINE cluster == [option |-> "elasticache_cluster", children |-> {},
                         name |-> to_safe(conf, <<"elasticache_cluster_", c.id>>)]
             engine == Group("elasticache_engine", "elasticache_engines", engine_name(conf, c))
             common == {region_group(c.region), zone_group(conf, c.region, c.preferred_availability_zone),
                        type_group(conf, c.cache_node_type)}
  <1>1. g \in common \/ g = engine \/ g = cluster \/ g \in security_groups_of(conf, c)
    BY DEF NodeGroups
  <1>2. \A w, a : Len(to_safe(conf, <<w, a>>)) = 2
    BY SafeTwo
  <1>3. Plain(engine)
    BY <1>2, GroupPlain DEF engine_name
  <1>4. Plain(cluster)
    BY <1>2, OddPlain
  <1>5. g \in common => Plain(g)
    BY CommonPlain
  <1> HIDE DEF cluster, engine, common
  <1>6. QED
    BY <1>1, <1>3, <1>4, <1>5, SecurityPlain

\* The entry of a node, of the cluster itself and of a replication group.
NodeEntry(c, node) ==
    Entry(<<node.endpoint>>, c.region, to_safe(conf, <<c.id, "_", node.cache_node_id>>), NodeGroups(c),
          {<<<<"elasticache_nodes">>, <<node.endpoint>>>>},
          get_host_info_dict_from_describe_dict(node), TRUE)
ClusterAddress(c) == IF is_redis(c) THEN c.nodes[1].endpoint ELSE c.configuration_endpoint
ClusterEntry(c) ==
    Entry(<<ClusterAddress(c)>>, c.region, <<c.id>>, cluster_groups(conf, c),
          {<<<<"elasticache_clusters">>, <<c.id>>>>}, get_host_info_dict_from_describe_dict(c), FALSE)
ReplicationGroups(g) ==
    {region_group(g.region),
     [option |-> "elasticache_engine", name |-> <<"elasticache_redis">>,
      children |-> {<<<<"elasticache_engines">>, <<"redis">>>>}]}
ReplicationEntry(g) ==
    Entry(<<g.node_groups[1].primary_endpoint>>, g.region, <<g.id>>, ReplicationGroups(g),
          {<<<<"elasticache_replication_groups">>, <<g.id>>>>},
          get_host_info_dict_from_describe_dict(g), FALSE)

\* An entry with an id of ElastiCache, in groups that are not of tags.
LEMMA CacheEntrySound ==
    ASSUME NEW e, NEW x \in Resource, Ever(x), Data[x].service \in {"cache", "replication"},
           e.id \in IdsOf(x), ~IsTagGroup(e.id), e.id # <<"rds">>,
           \A g \in e.groups : Plain(g),
           \A m \in e.list : (m[1] \in IdLists \/ m[2] = e.host) /\ ~IsTagGroup(m[1])
    PROVE  Sound(e)
  <1>1. OfElastiCache(e.id)
    BY DEF OfElastiCache
  <1>2. QED
    BY <1>1 DEF Sound, Plain, Nested

\* The entry of a node is sound.
LEMMA NodeSound ==
    ASSUME conf \in Settings, NEW x \in Resource, Ever(x), Data[x].service = "cache",
           NEW n \in DOMAIN Data[x].nodes
    PROVE  Sound(NodeEntry(Data[x], Data[x].nodes[n]))
  <1> DEFINE c == Data[x]
             e == NodeEntry(c, c.nodes[n])
             id == to_safe(conf, <<c.id, "_", c.nodes[n].cache_node_id>>)
  <1>1. /\ e.id = id /\ e.groups = NodeGroups(c)
        /\ e.list = {<<<<"elasticache_nodes">>, e.host>>}
    BY DEF NodeEntry, Entry
  <1>2. Len(id) = 3 /\ id[1] # "tag_"
    <2>1. Len(id) = 3 /\ id[1] = SafeWord(conf, c.id)
      <3> DEFINE word == c.id
                 dash == "_"
                 number == c.nodes[n].cache_node_id
      <3> HIDE DEF word, dash, number
      <3>1. /\ Len(to_safe(conf, <<word, dash, number>>)) = 3
            /\ to_safe(conf, <<word, dash, number>>)[1] = SafeWord(conf, word)
        BY SafeThree
      <3>2. QED
        BY <3>1 DEF word, dash, number
    <2>2. SafeWord(conf, c.id) # "tag_"
      BY NoTagFromId
    <2>3. QED
      BY <2>1, <2>2
  <1>3. id \in IdsOf(x)
    BY DEF IdsOf
  <1> HIDE DEF e, id, c
  <1>4. ~IsTagGroup(id)
    BY <1>2 DEF IsTagGroup
  <1>5. id # <<"rds">>
    <2>1. Len(<<"rds">>) = 1
      OBVIOUS
    <2>2. QED
      BY <1>2, <2>1
  <1>6. \A m \in e.list : m[2] = e.host /\ ~IsTagGroup(m[1])
    <2>1. Len(<<"elasticache_nodes">>) = 1
      OBVIOUS
    <2>2. QED
      BY <1>1, <2>1, OtherLength
  <1>7. \A g \in e.groups : Plain(g)
    BY <1>1, NodeGroupsPlain
  <1>8. Sound(e)
    BY <1>1, <1>3, <1>4, <1>5, <1>6, <1>7, CacheEntrySound
  <1>9. QED
    BY <1>8 DEF e, c

\* The entry of a cluster is sound.
LEMMA ClusterSound ==
    ASSUME conf \in Settings, NEW x \in Resource, Ever(x), Data[x].service = "cache"
    PROVE  Sound(ClusterEntry(Data[x]))
  <1> DEFINE c == Data[x]
             e == ClusterEntry(c)
  <1>1. /\ e.id = <<c.id>> /\ e.groups = cluster_groups(conf, c)
        /\ e.list = {<<<<"elasticache_clusters">>, <<c.id>>>>}
    BY DEF ClusterEntry, Entry
  <1>2. e.id \in IdsOf(x) /\ c.id # "rds"
    BY <1>1, NoTagFromId DEF IdsOf
  <1> HIDE DEF e, c
  <1>3. ~IsTagGroup(e.id) /\ e.id # <<"rds">>
    <2>1. Len(e.id) = 1
      BY <1>1
    <2>2. QED
      BY <1>1, <1>2, <2>1, OtherLength
  <1>4. \A m \in e.list : m[1] \in IdLists /\ ~IsTagGroup(m[1])
    <2>1. Len(<<"elasticache_clusters">>) = 1
      OBVIOUS
    <2>2. QED
      BY <1>1, <2>1, OtherLength DEF IdLists
  <1>5. \A g \in e.groups : Plain(g)
    BY <1>1, ClusterGroups
  <1>6. Sound(e)
    BY <1>2, <1>3, <1>4, <1>5, CacheEntrySound
  <1>7. QED
    BY <1>6 DEF e, c

\* The entry of a replication group is sound.
LEMMA ReplicationSound ==
    ASSUME conf \in Settings, NEW x \in Resource, Ever(x), Data[x].service = "replication"
    PROVE  Sound(ReplicationEntry(Data[x]))
  <1> DEFINE c == Data[x]
             e == ReplicationEntry(c)
  <1>1. /\ e.id = <<c.id>> /\ e.groups = ReplicationGroups(c)
        /\ e.list = {<<<<"elasticache_replication_groups">>, <<c.id>>>>}
    BY DEF ReplicationEntry, Entry
  <1>2. e.id \in IdsOf(x) /\ c.id # "rds"
    BY <1>1, NoTagFromId DEF IdsOf
  <1> HIDE DEF e, c
  <1>3. ~IsTagGroup(e.id) /\ e.id # <<"rds">>
    <2>1. Len(e.id) = 1
      BY <1>1
    <2>2. QED
      BY <1>1, <1>2, <2>1, OtherLength
  <1>4. \A m \in e.list : m[1] \in IdLists /\ ~IsTagGroup(m[1])
    <2>1. Len(<<"elasticache_replication_groups">>) = 1
      OBVIOUS
    <2>2. QED
      BY <1>1, <2>1, OtherLength DEF IdLists
  <1>5. \A g \in e.groups : Plain(g)
    <2> DEFINE engine == [option |-> "elasticache_engine", name |-> <<"elasticache_redis">>,
                          children |-> {<<<<"elasticache_engines">>, <<"redis">>>>}]
    <2>1. e.groups = {region_group(c.region), engine}
      BY <1>1 DEF ReplicationGroups
    <2>2. Plain(engine)
      BY OddPlain DEF OddParents
    <2> HIDE DEF engine
    <2>3. QED
      BY <2>1, <2>2, CommonPlain
  <1>6. Sound(e)
    BY <1>2, <1>3, <1>4, <1>5, CacheEntrySound
  <1>7. QED
    BY <1>6 DEF e, c

\* The entries of a cluster, and of a replication group.
LEMMA ClusterEntriesSound ==
    ASSUME conf \in Settings, NEW x \in Resource, Ever(x), Data[x].service = "cache"
    PROVE  LET es == add_elasticache_cluster(conf, Data[x])
           IN  (\E S : es \in Seq(S)) /\ \A e \in Range(es) : Sound(e)
  <1> DEFINE c == Data[x]
             T == {NodeEntry(c, c.nodes[n]) : n \in DOMAIN c.nodes}
             parts == [n \in DOMAIN c.nodes |-> add_elasticache_node(conf, c.nodes[n], c)]
             es == add_elasticache_cluster(conf, c)
  <1>1. c.nodes \in Seq(Range(c.nodes))
    BY FetchAssumption
  <1>2. ASSUME NEW n \in DOMAIN c.nodes
        PROVE  add_elasticache_node(conf, c.nodes[n], c) \in Seq(T)
    <2> DEFINE e == NodeEntry(c, c.nodes[n])
               one == add_elasticache_node(conf, c.nodes[n], c)
    <2>1. one = <<e>> \/ one = <<>>
      BY Zenon DEF add_elasticache_node, NodeEntry, NodeGroups
    <2>2. e \in T
      OBVIOUS
    <2> HIDE DEF e, one, T
    <2>3. <<e>> \in Seq(T) /\ <<>> \in Seq(T)
      BY <2>2
    <2>4. one \in Seq(T)
      BY <2>1, <2>3
    <2>5. QED
      BY <2>4 DEF one
  <1>3. Concat(parts) \in Seq(T)
    <2>1. parts \in Seq(Seq(T))
      <3>1. DOMAIN c.nodes = 1 .. Len(c.nodes) /\ Len(c.nodes) \in Nat
        BY <1>1
      <3> HIDE DEF T, c
      <3>2. QED
        BY <1>2, <3>1
    <2> HIDE DEF parts, T
    <2>2. QED
      BY <2>1, ConcatCollects
  <1>4. es = (IF wants_cluster(conf, c) /\ ClusterAddress(c) # BLANK
              THEN <<ClusterEntry(c)>> \o Concat(parts) ELSE <<>>)
    BY Zenon DEF add_elasticache_cluster, ClusterAddress, ClusterEntry
  <1>5. \A e \in T : Sound(e)
    BY NodeSound
  <1>6. Sound(ClusterEntry(c))
    BY ClusterSound
  <1> DEFINE head == ClusterEntry(c)
             tail == Concat(parts)
  <1> HIDE DEF es, T, parts, head, tail, c
  <1> DEFINE B == T \union {head}
  <1>7. <<head>> \o tail \in Seq(B) /\ <<>> \in Seq(B)
    <2> DEFINE one == <<head>>
    <2>1. head \in B /\ T \subseteq B
      OBVIOUS
    <2> HIDE DEF B
    <2>2. one \in Seq(B)
      BY <2>1
    <2>3. tail \in Seq(B)
      BY <1>3, <2>1 DEF tail
    <2> HIDE DEF one
    <2>4. one \o tail \in Seq(B) /\ <<>> \in Seq(B)
      BY <2>2, <2>3
    <2>5. QED
      BY <2>4 DEF one
  <1> HIDE DEF B
  <1>8. es \in Seq(B)
    BY <1>4, <1>7 DEF head, tail
  <1>9. \A e \in Range(es) : Sound(e)
    <2>1. Range(es) \subseteq B
      BY <1>8, RangeOfSeq
    <2>2. QED
      BY <1>5, <1>6, <2>1 DEF B, head
  <1>10. QED
    BY <1>8, <1>9 DEF es, c

\* add_elasticache_replication_group makes sound entries only.
LEMMA ReplicationEntriesSound ==
    ASSUME conf \in Settings, NEW x \in Resource, Ever(x), Data[x].service = "replication"
    PROVE  LET es == add_elasticache_replication_group(conf, Data[x])
           IN  (\E S : es \in Seq(S)) /\ \A e \in Range(es) : Sound(e)
  <1> DEFINE head == ReplicationEntry(Data[x])
             es == add_elasticache_replication_group(conf, Data[x])
  <1>1. es = <<head>> \/ es = <<>>
    BY Zenon DEF add_elasticache_replication_group, ReplicationEntry, ReplicationGroups
  <1>2. Sound(head)
    BY ReplicationSound
  <1> HIDE DEF head, es
  <1>3. es \in Seq({head}) /\ \A e \in Range(es) : e = head
    BY <1>1, RangeOfOne
  <1>4. QED
    BY <1>2, <1>3 DEF es
-----------------------------------------------------------------------------
(* The calls of a run *)

Services == {"ec2", "rds", "cache", "replication", "clusters"}

\* The calls to one region.
LEMMA RegionCalls ==
    ASSUME NEW s, NEW R, NEW r \in R
    PROVE  /\ region_calls(s, r) \in Seq(Services \X R) /\ region_calls(s, r) # <<>>
           /\ s.include_rds_clusters => Last(region_calls(s, r)) = <<"clusters", r>>
  <1> DEFINE of(services) == [n \in DOMAIN services |-> <<services[n], r>>]
             A == of(<<"ec2">>)
             B == IF s.rds THEN of(<<"rds">>) ELSE <<>>
             C == IF s.elasticache THEN of(<<"cache", "replication">>) ELSE <<>>
             D == IF s.include_rds_clusters THEN of(<<"clusters">>) ELSE <<>>
             T == Services \X R
  <1>1. region_calls(s, r) = A \o B \o C \o D
    BY Zenon DEF region_calls
  <1>2. ASSUME NEW w \in Services
        PROVE  of(<<w>>) = <<<<w, r>>>> /\ <<w, r>> \in T
    OBVIOUS
  <1>3. of(<<"cache", "replication">>) = <<<<"cache", r>>, <<"replication", r>>>>
    OBVIOUS
  <1>4. /\ "ec2" \in Services /\ "rds" \in Services /\ "clusters" \in Services
        /\ "cache" \in Services /\ "replication" \in Services
    BY DEF Services
  <1>5. <<"cache", r>> \in T /\ <<"replication", r>> \in T
    BY <1>4
  <1> DEFINE nothing == <<>>
  <1>6. A = <<<<"ec2", r>>>> /\ <<"ec2", r>> \in T
    BY <1>2, <1>4
  <1>7. (B = nothing \/ B = <<<<"rds", r>>>>) /\ <<"rds", r>> \in T
    BY <1>2, <1>4
  <1>8. C = nothing \/ C = <<<<"cache", r>>, <<"replication", r>>>>
    BY <1>3
  <1>9. /\ D = nothing \/ D = <<<<"clusters", r>>>>
        /\ s.include_rds_clusters => D = <<<<"clusters", r>>>>
        /\ <<"clusters", r>> \in T
    BY <1>2, <1>4
  <1> HIDE DEF A, B, C, D, T, of
  <1> DEFINE e == <<"ec2", r>>
             d == <<"rds", r>>
             c == <<"cache", r>>
             g == <<"replication", r>>
             k == <<"clusters", r>>
  <1>0. /\ e \in T /\ d \in T /\ c \in T /\ g \in T /\ k \in T
        /\ A = <<e>> /\ B \in {<<>>, <<d>>} /\ C \in {<<>>, <<c, g>>} /\ D \in {<<>>, <<k>>}
    BY <1>5, <1>6, <1>7, <1>8, <1>9
  <1> HIDE DEF e, d, c, g, k
  <1>10. A \in Seq(T) /\ A # <<>>
    BY <1>0
  <1>11. B \in Seq(T)
    <2>1. <<d>> \in Seq(T) /\ <<>> \in Seq(T)
      BY <1>0
    <2>2. QED
      BY <1>0, <2>1
  <1>12. C \in Seq(T)
    <2>1. <<c, g>> \in Seq(T) /\ <<>> \in Seq(T)
      BY <1>0
    <2>2. QED
      BY <1>0, <2>1
  <1>13. D \in Seq(T)
    <2>1. <<k>> \in Seq(T) /\ <<>> \in Seq(T)
      BY <1>0
    <2>2. QED
      BY <1>0, <2>1
  <1> DEFINE ab == A \o B
             abc == ab \o C
             all == abc \o D
  <1>14. ab \in Seq(T) /\ ab # <<>>
    <2>1. Len(A) \in Nat /\ Len(A) > 0 /\ Len(B) \in Nat
      BY <1>10, <1>11
    <2>2. ab \in Seq(T) /\ Len(ab) = Len(A) + Len(B)
      BY <1>10, <1>11
    <2> HIDE DEF ab
    <2>3. QED
      BY <2>1, <2>2
  <1> HIDE DEF ab
  <1>15. abc \in Seq(T) /\ abc # <<>>
    <2>1. Len(ab) \in Nat /\ Len(ab) > 0 /\ Len(C) \in Nat
      BY <1>14, <1>12
    <2>2. abc \in Seq(T) /\ Len(abc) = Len(ab) + Len(C)
      BY <1>14, <1>12
    <2> HIDE DEF abc
    <2>3. QED
      BY <2>1, <2>2
  <1> HIDE DEF abc
  <1>16. all \in Seq(T) /\ all # <<>>
    <2>1. Len(abc) \in Nat /\ Len(abc) > 0 /\ Len(D) \in Nat
      BY <1>15, <1>13
    <2>2. all \in Seq(T) /\ Len(all) = Len(abc) + Len(D)
      BY <1>15, <1>13
    <2> HIDE DEF all
    <2>3. QED
      BY <2>1, <2>2
  <1>17. ASSUME s.include_rds_clusters PROVE Last(all) = <<"clusters", r>>
    <2> DEFINE last == <<"clusters", r>>
    <2>1. D = <<last>>
      BY <1>9, <1>17
    <2> HIDE DEF last
    <2>2. D # <<>> /\ Last(D) = last
      BY <2>1 DEF Last
    <2>3. Last(all) = Last(D)
      BY <1>13, <1>15, <2>2, LastOfConcat
    <2>4. QED
      BY <2>2, <2>3 DEF last
  <1>18. region_calls(s, r) = all
    BY <1>1 DEF all, abc, ab
  <1> HIDE DEF all
  <1>19. QED
    BY <1>16, <1>17, <1>18 DEF T

\* All calls: Route53 first, and the clusters of the last region last.
LEMMA CallsAre ==
    ASSUME conf \in Settings
    PROVE  LET calls == do_api_calls_update_cache(conf)
           IN  /\ calls \in Seq(Calls)
               /\ \A n \in DOMAIN calls : calls[n][1] = "route53" => n = 1
               /\ conf.include_rds_clusters /\ regions(conf) # <<>> =>
                     calls # <<>> /\ Last(calls) = <<"clusters", Last(regions(conf))>>
  <1> DEFINE names == regions(conf)
             R == Range(names)
             T == Services \X R
             parts == [n \in DOMAIN names |-> region_calls(conf, names[n])]
             tail == Concat(parts)
             first == <<"route53", NIL>>
             head == IF conf.route53 THEN <<first>> ELSE <<>>
             calls == head \o tail
  <1>1. do_api_calls_update_cache(conf) = calls
    BY Zenon DEF do_api_calls_update_cache
  <1>2. names \in Seq(R)
    BY FetchAssumption
  <1> HIDE DEF names
  <1>3. /\ Len(names) \in Nat /\ DOMAIN names = 1 .. Len(names)
        /\ \A n \in DOMAIN names : names[n] \in R
    BY <1>2
  <1> HIDE DEF R, T
  <1>4. ASSUME NEW n \in DOMAIN names
        PROVE  /\ region_calls(conf, names[n]) \in Seq(T) /\ region_calls(conf, names[n]) # <<>>
               /\ conf.include_rds_clusters => Last(region_calls(conf, names[n])) = <<"clusters", names[n]>>
    BY <1>3, RegionCalls DEF T
  <1>5. parts \in Seq(Seq(T)) /\ DOMAIN parts = 1 .. Len(names) /\ Len(parts) = Len(names)
    BY <1>3, <1>4
  <1>6. \A n \in DOMAIN parts : parts[n] # <<>>
    BY <1>3, <1>4, <1>5
  <1>7. ASSUME conf.include_rds_clusters, names # <<>>
        PROVE  parts # <<>> /\ Last(Last(parts)) = <<"clusters", Last(names)>>
    <2>1. Len(names) > 0 /\ Len(names) \in DOMAIN names
      BY <1>2, <1>3, <1>7
    <2>2. Last(parts) = region_calls(conf, names[Len(names)]) /\ Last(names) = names[Len(names)]
      BY <1>5, <2>1 DEF Last
    <2>3. parts # <<>>
      BY <1>5, <2>1
    <2>4. Last(region_calls(conf, names[Len(names)])) = <<"clusters", names[Len(names)]>>
      BY <1>4, <1>7, <2>1
    <2>5. QED
      BY <2>2, <2>3, <2>4
  <1> HIDE DEF parts
  <1>8. /\ tail \in Seq(T)
        /\ parts # <<>> => tail # <<>> /\ Last(tail) = Last(Last(parts))
    BY <1>5, <1>6, ConcatCollects
  <1> HIDE DEF tail
  <1>9. T \subseteq Calls /\ first \in Calls
    BY DEF T, R, Services, Calls, names
  <1>10. \A c \in T : c[1] # "route53"
    BY DEF T, Services
  <1> HIDE DEF first
  <1>11. tail \in Seq(Calls)
    BY <1>8, <1>9
  <1>12. head \in Seq(Calls) /\ Len(head) \in {0, 1}
    BY <1>9
  <1> HIDE DEF head
  <1>13. calls \in Seq(Calls)
    BY <1>11, <1>12
  <1>14. ASSUME NEW n \in DOMAIN calls, n # 1 PROVE calls[n][1] # "route53"
    <2>1. /\ Len(head) \in Nat /\ Len(tail) \in Nat /\ DOMAIN calls = 1 .. Len(head) + Len(tail)
          /\ DOMAIN tail = 1 .. Len(tail)
      BY <1>11, <1>12
    <2>2. n - Len(head) \in 1 .. Len(tail) /\ n > Len(head)
      <3> DEFINE l == Len(head)
                 m == Len(tail)
      <3>1. l \in {0, 1} /\ m \in Nat /\ n \in 1 .. l + m /\ n # 1
        BY <1>12, <1>14, <2>1
      <3> HIDE DEF l, m
      <3>2. n - l \in 1 .. m /\ n > l
        BY <3>1
      <3>3. QED
        BY <3>2 DEF l, m
    <2>3. calls[n] = tail[n - Len(head)]
      BY <1>11, <1>12, <2>1, <2>2
    <2>4. tail[n - Len(head)] \in T
      BY <1>8, <2>2
    <2> HIDE DEF calls
    <2>5. QED
      BY <1>10, <2>3, <2>4
  <1>15. ASSUME conf.include_rds_clusters, names # <<>>
         PROVE  calls # <<>> /\ Last(calls) = <<"clusters", Last(names)>>
    BY <1>7, <1>8, <1>11, <1>12, <1>15, LastOfConcat
  <1> HIDE DEF calls
  <1>16. QED
    BY <1>1, <1>13, <1>14, <1>15 DEF names
-----------------------------------------------------------------------------
(* What stays when AWS or the run goes on *)

\* The entries of a resource, and their hosts.
EntriesOf(s, x, tags, records, account) ==
    LET d == Data[x]
        tagless == s.instance_filters = <<>> /\
                   (s.hostname_variable # NIL => ~IsTag(s.hostname_variable))
        wanted == \E n \in DOMAIN instance_calls(s) : Matches(instance_calls(s)[n], x, tags)
    IN  CASE d.service = "ec2" /\ wanted -> add_instance(s, d, tags, records, account)
          [] d.service = "rds" /\ tagless -> add_rds_instance(s, d, tags, account)
          [] d.service = "cache" /\ OnePage(x) -> add_elasticache_cluster(s, d)
          [] d.service = "replication" /\ OnePage(x) -> add_elasticache_replication_group(s, d)
          [] OTHER -> <<>>
HostsIn(es) == {e.host : e \in Range(es)}

\* They are called the same whoever owns them.
LEMMA HostsOfAnyAccount ==
    ASSUME NEW s, NEW x, NEW tags, NEW records, NEW a, NEW b
    PROVE  HostsIn(EntriesOf(s, x, tags, records, a)) = HostsIn(EntriesOf(s, x, tags, records, b))
  <1> DEFINE d == Data[x]
  <1>1. HostsIn(add_instance(s, d, tags, records, a)) = HostsIn(add_instance(s, d, tags, records, b))
    <2>1. ASSUME NEW c
          PROVE  HostsIn(add_instance(s, d, tags, records, c)) =
                    IF InstanceWanted(s, d, tags, records) THEN {InstanceHost(s, d, tags, records)} ELSE {}
      <3>1. Range(add_instance(s, d, tags, records, c)) =
               IF InstanceWanted(s, d, tags, records) THEN {InstanceEntry(s, d, tags, records, c)} ELSE {}
        BY InstanceIs
      <3>2. InstanceEntry(s, d, tags, records, c).host = InstanceHost(s, d, tags, records)
        BY DEF InstanceEntry, Entry
      <3> HIDE DEF d
      <3>3. CASE InstanceWanted(s, d, tags, records)
        BY <3>1, <3>2, <3>3 DEF HostsIn
      <3>4. CASE ~InstanceWanted(s, d, tags, records)
        BY <3>1, <3>4 DEF HostsIn
      <3>5. QED
        BY <3>3, <3>4
    <2>2. QED
      BY <2>1
  <1>2. HostsIn(add_rds_instance(s, d, tags, a)) = HostsIn(add_rds_instance(s, d, tags, b))
    <2>1. ASSUME NEW c
          PROVE  HostsIn(add_rds_instance(s, d, tags, c)) =
                    IF RdsWanted(s, d) THEN {RdsHost(s, d, tags)} ELSE {}
      <3>1. Range(add_rds_instance(s, d, tags, c)) =
               IF RdsWanted(s, d) THEN {RdsEntry(s, d, tags, c)} ELSE {}
        BY RdsIs
      <3>2. RdsEntry(s, d, tags, c).host = RdsHost(s, d, tags)
        BY DEF RdsEntry, Entry
      <3> HIDE DEF d
      <3>3. CASE RdsWanted(s, d)
        BY <3>1, <3>2, <3>3 DEF HostsIn
      <3>4. CASE ~RdsWanted(s, d)
        BY <3>1, <3>4 DEF HostsIn
      <3>5. QED
        BY <3>3, <3>4
    <2>2. QED
      BY <2>1
  <1>3. QED
    BY <1>1, <1>2, Zenon DEF EntriesOf

\* The hosts of what does not change stay.
LEMMA HostsStay ==
    ASSUME NEW x, conf' = conf, world'[x] = world[x], run'.records = run.records
    PROVE  MadeHosts(x)' = MadeHosts(x)
  <1>1. Entries(x) = EntriesOf(conf, x, world[x], run.records, run.account)
    BY Zenon DEF Entries, EntriesOf
  <1>2. Entries(x)' = EntriesOf(conf', x, world'[x], run'.records, run'.account)
    BY Zenon DEF Entries, EntriesOf
  <1>3. MadeHosts(x) = HostsIn(EntriesOf(conf, x, world[x], run.records, run.account))
    BY <1>1, Zenon DEF MadeHosts, HostsIn
  <1>4. MadeHosts(x)' = HostsIn(EntriesOf(conf', x, world'[x], run'.records, run'.account))
    BY <1>2, Zenon DEF MadeHosts, HostsIn
  <1>5. MadeHosts(x)' = HostsIn(EntriesOf(conf, x, world[x], run.records, run'.account))
    BY <1>4, Zenon
  <1>6. QED
    BY <1>3, <1>5, HostsOfAnyAccount

\* What is settled stays so.
LEMMA SettledStays ==
    ASSUME NEW x, Settled(x), conf' = conf, world'[x] = world[x], run'.records = run.records,
           Keeps(inv, inv')
    PROVE  Settled(x)'
  <1>1. MadeHosts(x)' = MadeHosts(x)
    BY HostsStay
  <1>2. GroupsOfTags(world[x])' = GroupsOfTags(world[x])
    BY DEF GroupsOfTags
  <1>3. ASSUME NEW h \in MadeHosts(x)
        PROVE  /\ h \in DOMAIN inv'.index
               /\ Data[x].service = "ec2" /\ "tag_keys" \in conf.group_by =>
                     \A g \in GroupsOfTags(world[x]) : <<g, h>> \in inv'.members
    <2>1. h \in DOMAIN inv'.index
      BY DEF Settled, Keeps
    <2>2. ASSUME Data[x].service = "ec2", "tag_keys" \in conf.group_by,
                 NEW g \in GroupsOfTags(world[x])
          PROVE  <<g, h>> \in inv'.members
      <3> DEFINE m == <<g, h>>
      <3>1. m \in inv.members /\ m[1] = g
        BY <2>2 DEF Settled
      <3>2. IsTagGroup(g)
        BY TagGroupsAre
      <3> HIDE DEF m
      <3>3. m \in inv'.members
        BY <3>1, <3>2 DEF Keeps
      <3>4. QED
        BY <3>3 DEF m
    <2>3. QED
      BY <2>1, <2>2
  <1>4. QED
    BY <1>1, <1>2, <1>3 DEF Settled

\* So do the promises about what is in an inventory.
LEMMA GoodStays ==
    ASSUME NEW j, Good(j), inv' = j, conf' = conf, run'.records = run.records,
           \A x \in Resource : world[x] \in past[x] /\ past[x] \subseteq past'[x]
    PROVE  IsInventory(inv)' /\ Known(inv)' /\ Resolves(inv)' /\ Tagged(inv)'
  <1>0. IsInventory(j) /\ Known(j) /\ Resolves(j) /\ Tagged(j)
    BY DEF Good
  <1>1. \A x \in Resource : Ever(x) => Ever(x)'
    BY DEF Ever
  <1>2. \A x : IdsOf(x)' = IdsOf(x)
    BY DEF IdsOf
  <1>3. IsInventory(inv)'
    BY <1>0 DEF IsInventory
  <1>4. Known(inv)'
    <2>1. \A h \in DOMAIN j.index : \E x \in Resource : Ever(x) /\ j.index[h][2] \in IdsOf(x)
      BY <1>0 DEF Known
    <2>2. \A h \in DOMAIN j.index : \E x \in Resource : Ever(x)' /\ j.index[h][2] \in IdsOf(x)'
      BY <1>1, <1>2, <2>1
    <2>3. QED
      BY <2>2 DEF Known
  <1>5. Resolves(inv)'
    <2>1. \A id : OfElastiCache(id)' = OfElastiCache(id)
      BY <1>2 DEF OfElastiCache
    <2>2. \A h \in DOMAIN j.index :
             OfElastiCache(j.index[h][2]) \/ j.index[h][2] = <<j.hostvars[h][IdVariable]>>
      BY <1>0 DEF Resolves
    <2>3. \A h \in DOMAIN j.index :
             OfElastiCache(j.index[h][2])' \/ j.index[h][2] = <<j.hostvars[h][IdVariable]>>
      BY <2>1, <2>2
    <2>4. QED
      BY <1>0, <2>3 DEF Resolves
  <1>6. Tagged(inv)'
    <2>1. ASSUME NEW g, NEW h, HadTag(g, h) PROVE HadTag(g, h)'
      <3>1. PICK x \in Resource : Data[x].service = "ec2" /\ \E tags \in past[x] \ {NIL} :
               /\ g \in GroupsOfTags(tags)
               /\ h = hostname(conf, Data[x], tags, run.records, destination(conf, Data[x], tags))
        BY <2>1 DEF HadTag
      <3>2. PICK tags \in past[x] \ {NIL} :
               /\ g \in GroupsOfTags(tags)
               /\ h = hostname(conf, Data[x], tags, run.records, destination(conf, Data[x], tags))
        BY <3>1
      <3>3. tags \in past'[x] \ {NIL}
        BY <3>2
      <3>4. g \in GroupsOfTags(tags)'
        BY <3>2 DEF GroupsOfTags
      <3>5. h = hostname(conf', Data[x], tags, run'.records, destination(conf', Data[x], tags))
        BY <3>2
      <3>6. QED
        BY <3>1, <3>3, <3>4, <3>5 DEF HadTag
    <2>2. \A m \in j.members : IsTagGroup(m[1]) =>
             HadTag(m[1], m[2]) \/ <<<<"rds">>, m[2]>> \in j.members
      BY <1>0 DEF Tagged
    <2>3. \A m \in j.members : IsTagGroup(m[1]) =>
             HadTag(m[1], m[2])' \/ <<<<"rds">>, m[2]>> \in j.members
      BY <2>1, <2>2
    <2>4. QED
      BY <2>3 DEF Tagged
  <1>7. QED
    BY <1>3, <1>4, <1>5, <1>6
-----------------------------------------------------------------------------
(* How a call goes on, and how it ends *)

\* There is at least one request for instances.
LEMMA FiltersAre ==
    ASSUME NEW s \in Settings
    PROVE  /\ Len(instance_calls(s)) \in Nat \ {0}
           /\ DOMAIN instance_calls(s) = 1 .. Len(instance_calls(s))
  <1> DEFINE f == s.instance_filters
             all == FoldLeft(Update, <<>>, f)
             calls == instance_calls(s)
             none == << <<>> >>
  <1>1. f \in Seq(Range(f))
    BY FetchAssumption
  <1>2. /\ f = <<>> => calls = none
        /\ f # <<>> /\ s.stack_filters => calls = <<all>>
        /\ f # <<>> /\ ~s.stack_filters => calls = f
    BY Zenon DEF instance_calls
  <1>3. Len(none) = 1 /\ DOMAIN none = 1 .. 1
    OBVIOUS
  <1> HIDE DEF f, all, calls, none
  <1>4. CASE f = <<>>
    <2>1. Len(calls) = 1 /\ DOMAIN calls = 1 .. 1
      BY <1>2, <1>3, <1>4
    <2>2. QED
      BY <2>1 DEF calls
  <1>5. CASE f # <<>> /\ s.stack_filters
    <2>1. calls = <<all>>
      BY <1>2, <1>5
    <2>2. Len(calls) = 1 /\ DOMAIN calls = 1 .. 1
      BY <2>1
    <2>3. QED
      BY <2>2 DEF calls
  <1>6. CASE f # <<>> /\ ~s.stack_filters
    <2>1. Len(f) \in Nat \ {0} /\ DOMAIN f = 1 .. Len(f)
      BY <1>1, <1>6
    <2>2. QED
      BY <1>2, <1>6, <2>1 DEF calls
  <1>7. QED
    BY <1>4, <1>5, <1>6

\* A call that has not begun has found nothing and passed nothing.
LEMMA FreshCallNow ==
    conf \in Settings /\ run.call = NoCall => IsCall(run.call) /\ FoundInv /\ TagsInv /\ SoughtInv
  <1>0. SUFFICES ASSUME conf \in Settings, run.call = NoCall
                 PROVE  IsCall(run.call) /\ FoundInv /\ TagsInv /\ SoughtInv
    OBVIOUS
  <1>1. /\ NoCall.pc = "ask" /\ NoCall.found = <<>> /\ NoCall.first = <<>> /\ NoCall.tags = <<>>
        /\ NoCall.at = 0 /\ NoCall.more = FALSE
    BY DEF NoCall
  <1>2. IsCall(NoCall)
    BY DEF IsCall, NoCall
  <1>3. IsCall(run.call)
    BY <1>0, <1>2 DEF IsCall
  <1> HIDE DEF NoCall
  <1>4. DOMAIN <<>> = {} /\ Range(<<>>) = {}
    BY DEF Range
  <1>5. FoundInv
    BY <1>0, <1>1, <1>4 DEF FoundInv
  <1>6. TagsInv
    BY <1>0, <1>1, <1>4 DEF TagsInv
  <1>7. ASSUME NEW x \in Resource PROVE SoughtAt(x)
    <2>1. \A m \in DOMAIN instance_calls(conf) : ~(m <= 0)
      BY <1>0, FiltersAre
    <2>2. ~(x <= 0)
      BY Numbered
    <2>3. QED
      BY <1>0, <1>1, <2>1, <2>2 DEF SoughtAt
  <1>8. SoughtInv
    <2>1. \A a, b : Of(a, b) \subseteq Resource
      BY DEF Of
    <2>2. QED
      BY <1>7, <2>1 DEF SoughtInv
  <1>9. QED
    BY <1>3, <1>5, <1>6, <1>8

\* So it is after a step.
LEMMA FreshCall ==
    ASSUME conf' \in Settings, run'.call = NoCall
    PROVE  IsCall(run.call)' /\ FoundInv' /\ TagsInv' /\ SoughtInv'
  <1>1. (conf \in Settings /\ run.call = NoCall => IsCall(run.call) /\ FoundInv /\ TagsInv /\ SoughtInv)'
    BY FreshCallNow, PTL
  <1>2. QED
    BY <1>1

\* The rest of the list of calls.
LEMMA TailIs ==
    ASSUME NEW T, NEW seq \in Seq(T), seq # <<>>
    PROVE  /\ Tail(seq) \in Seq(T) /\ DOMAIN Tail(seq) = 1 .. Len(seq) - 1
           /\ \A n \in DOMAIN Tail(seq) : n + 1 \in DOMAIN seq /\ Tail(seq)[n] = seq[n + 1] /\ n + 1 # 1
           /\ 1 \in DOMAIN seq /\ seq[1] \in T
           /\ Range(seq) = {seq[1]} \union Range(Tail(seq))
           /\ Tail(seq) # <<>> => Last(Tail(seq)) = Last(seq)
           /\ Tail(seq) = <<>> => Last(seq) = seq[1]
  <1> DEFINE l == Len(seq)
             rest == Tail(seq)
  <1>1. l \in Nat /\ l > 0 /\ DOMAIN seq = 1 .. l
    OBVIOUS
  <1>2. rest \in Seq(T) /\ Len(rest) = l - 1 /\ DOMAIN rest = 1 .. l - 1
    OBVIOUS
  <1>3. \A n \in 1 .. l - 1 : rest[n] = seq[n + 1]
    OBVIOUS
  <1>4. seq[1] \in T
    BY <1>1
  <1> HIDE DEF l, rest
  <1>5. Range(seq) = {seq[1]} \union Range(rest)
    <2>1. ASSUME NEW n \in 1 .. l PROVE n = 1 \/ n - 1 \in 1 .. l - 1
      BY <1>1
    <2>2. ASSUME NEW n \in 1 .. l - 1 PROVE n + 1 \in 1 .. l
      BY <1>1
    <2>3. \A v \in Range(seq) : v = seq[1] \/ v \in Range(rest)
      <3>1. ASSUME NEW n \in 1 .. l PROVE seq[n] = seq[1] \/ seq[n] \in Range(rest)
        <4>1. CASE n = 1
          BY <4>1
        <4>2. CASE n - 1 \in 1 .. l - 1
          <5>1. rest[n - 1] = seq[n]
            BY <1>1, <1>3, <4>2
          <5>2. QED
            BY <1>2, <4>2, <5>1 DEF Range
        <4>3. QED
          BY <2>1, <4>1, <4>2
      <3>2. QED
        BY <1>1, <3>1 DEF Range
    <2>4. seq[1] \in Range(seq)
      BY <1>1 DEF Range
    <2>5. \A v \in Range(rest) : v \in Range(seq)
      BY <1>1, <1>2, <1>3, <2>2 DEF Range
    <2>6. QED
      BY <2>3, <2>4, <2>5
  <1>6. rest # <<>> => Last(rest) = Last(seq)
    <2>1. rest # <<>> => Len(rest) > 0
      BY <1>1, <1>2
    <2>2. QED
      BY <1>1, <1>2, <1>3, <2>1 DEF Last, l
  <1>7. rest = <<>> => Last(seq) = seq[1]
    <2>1. rest = <<>> => Len(rest) = 0
      OBVIOUS
    <2>2. QED
      BY <1>1, <1>2, <2>1 DEF Last, l
  <1>8. QED
    BY <1>1, <1>2, <1>3, <1>4, <1>5, <1>6, <1>7 DEF l, rest

\* The parts of the invariant that a step of the run leaves alone.
LEMMA WorldStays ==
    ASSUME WorldInv, UNCHANGED <<conf, world, past, changes>>
    PROVE  WorldInv' /\ \A x \in Resource : world[x] \in past[x] /\ past[x] \subseteq past'[x]
  BY DEF WorldInv

\* A run that has not ended has not failed.
LEMMA NotFailed == NIL # "failed" /\ NIL # "written"
  BY FetchAssumption, Zenon

\* A call goes on: what is promised of the run without it stays.
LEMMA CallGoesOn ==
    ASSUME IInv, run.todo # <<>>, run.end = NIL, run.todo[1][1] # "route53",
           UNCHANGED <<conf, world, past, changes>>, NEW c, IsCall(c), run' = [run EXCEPT !.call = c],
           NEW j, inv' = j, Good(j), Keeps(inv, j), FoundInv', TagsInv', SoughtInv'
    PROVE  IInv'
  <1>1. /\ WorldInv /\ IsRun(run) /\ TodoInv /\ DoneInv
    BY DEF IInv, TypeInv
  <1>2. run' = [todo |-> run.todo, call |-> c, records |-> run.records, account |-> run.account,
                end |-> run.end]
    BY <1>1 DEF IsRun
  <1>3. WorldInv' /\ \A x \in Resource : world[x] \in past[x] /\ past[x] \subseteq past'[x]
    BY <1>1, WorldStays
  <1>4. IsInventory(inv)' /\ Known(inv)' /\ Resolves(inv)' /\ Tagged(inv)'
    BY <1>2, <1>3, GoodStays
  <1>5. IsRun(run)' /\ IsCall(run.call)'
    <2>1. Calls' = Calls
      BY DEF Calls
    <2>2. run.todo \in Seq(Calls) /\ run.end \in {NIL, "failed", "written"}
      BY <1>1 DEF IsRun
    <2>3. IsRun(run)'
      BY <1>2, <2>1, <2>2 DEF IsRun
    <2>4. IsCall(run.call)'
      BY <1>2 DEF IsCall
    <2>5. QED
      BY <2>3, <2>4
  <1>6. TodoInv'
    <2>1. 1 \in DOMAIN run.todo
      BY <1>1, TailIs DEF IsRun
    <2>2. \A n \in DOMAIN run.todo : run.todo[n][1] # "route53"
      BY <1>1, <2>1 DEF TodoInv
    <2>3. /\ conf.include_rds_clusters /\ regions(conf) # <<>> /\ run.todo # <<>> =>
                Last(run.todo) = <<"clusters", Last(regions(conf))>>
          /\ run.end # NIL => run.todo = <<>>
      BY <1>1 DEF TodoInv
    <2>4. QED
      BY <1>2, <2>2, <2>3 DEF TodoInv
  <1>7. DoneInv'
    <2>1. ASSUME NEW x \in Resource, Steady(x)', Asked(x)',
                 <<Data[x].service, Data[x].region>> \notin Range(run'.todo)
          PROVE  Settled(x)'
      <3>1. Steady(x) /\ Asked(x)
        BY <2>1 DEF Steady, Asked
      <3>2. Settled(x)
        BY <1>1, <1>2, <2>1, <3>1, NotFailed DEF DoneInv
      <3>3. QED
        BY <1>2, <3>2, SettledStays
    <2>2. QED
      BY <2>1 DEF DoneInv
  <1>8. ClustersInv'
    BY <1>2 DEF ClustersInv
  <1>9. QED
    BY <1>3, <1>4, <1>5, <1>6, <1>7, <1>8 DEF IInv, TypeInv

\* A step that leaves everything the call was made for settled.
Settles(j) ==
    \A x \in Of(run.todo[1][1], run.todo[1][2]) :
       Steady(x) => Settled(x)' /\ (Data[x].service = "clusters" /\ WantedCluster(x) => x \in j.db_clusters)

DoneWith(account) ==
    run' = [run EXCEPT !.todo = Tail(run.todo), !.call = NoCall, !.account = account]

\* Then the call is done.
LEMMA CallIsDone ==
    ASSUME IInv, run.todo # <<>>, run.end = NIL, run.todo[1][1] # "route53",
           UNCHANGED <<conf, world, past, changes>>, NEW a, DoneWith(a),
           NEW j, inv' = j, Good(j), Keeps(inv, j), Settles(j)
    PROVE  IInv'
  <1>1. /\ WorldInv /\ IsRun(run) /\ TodoInv /\ DoneInv
    BY DEF IInv, TypeInv
  <1>2. run' = [todo |-> Tail(run.todo), call |-> NoCall, records |-> run.records, account |-> a,
                end |-> NIL]
    BY <1>1 DEF IsRun, DoneWith
  <1>3. WorldInv' /\ \A x \in Resource : world[x] \in past[x] /\ past[x] \subseteq past'[x]
    BY <1>1, WorldStays
  <1>4. IsInventory(inv)' /\ Known(inv)' /\ Resolves(inv)' /\ Tagged(inv)'
    BY <1>2, <1>3, GoodStays
  <1>5. IsCall(run.call)' /\ FoundInv' /\ TagsInv' /\ SoughtInv'
    BY <1>1, <1>2, FreshCall DEF WorldInv
  <1>6. /\ run.todo \in Seq(Calls) /\ Tail(run.todo) \in Seq(Calls)
        /\ 1 \in DOMAIN run.todo
        /\ \A n \in DOMAIN Tail(run.todo) :
              n + 1 \in DOMAIN run.todo /\ Tail(run.todo)[n] = run.todo[n + 1] /\ n + 1 # 1
        /\ Range(run.todo) = {run.todo[1]} \union Range(Tail(run.todo))
        /\ Tail(run.todo) # <<>> => Last(Tail(run.todo)) = Last(run.todo)
        /\ Tail(run.todo) = <<>> => Last(run.todo) = run.todo[1]
    <2>1. run.todo \in Seq(Calls)
      BY <1>1 DEF IsRun
    <2>2. QED
      BY <2>1, TailIs
  <1>7. IsRun(run)'
    <2>1. Calls' = Calls
      BY DEF Calls
    <2>2. QED
      BY <1>2, <1>6, <2>1 DEF IsRun
  <1>8. \A n \in DOMAIN run.todo : run.todo[n][1] # "route53"
    BY <1>1, <1>6 DEF TodoInv
  <1>9. conf.include_rds_clusters /\ regions(conf) # <<>> =>
           Last(run.todo) = <<"clusters", Last(regions(conf))>>
    BY <1>1 DEF TodoInv
  <1>10. TodoInv'
    BY <1>2, <1>6, <1>8, <1>9 DEF TodoInv
  <1>11. DoneInv'
    <2>1. ASSUME NEW x \in Resource, Steady(x)', Asked(x)',
                 <<Data[x].service, Data[x].region>> \notin Range(run'.todo)
          PROVE  Settled(x)'
      <3>1. Steady(x) /\ Asked(x)
        BY <2>1 DEF Steady, Asked
      <3>2. CASE <<Data[x].service, Data[x].region>> \in Range(run.todo)
        <4>1. <<Data[x].service, Data[x].region>> = run.todo[1]
          BY <1>2, <1>6, <2>1, <3>2
        <4>2. x \in Of(run.todo[1][1], run.todo[1][2])
          BY <4>1 DEF Of
        <4>3. QED
          BY <3>1, <4>2 DEF Settles
      <3>3. CASE <<Data[x].service, Data[x].region>> \notin Range(run.todo)
        <4>1. Settled(x)
          BY <1>1, <3>1, <3>3, NotFailed DEF DoneInv
        <4>2. QED
          BY <1>2, <4>1, SettledStays
      <3>4. QED
        BY <3>2, <3>3
    <2>2. QED
      BY <2>1 DEF DoneInv
  <1>12. ClustersInv'
    <2>1. ASSUME run'.todo = <<>>, conf.include_rds_clusters, regions(conf) # <<>>,
                 NEW x \in Of("clusters", Last(regions(conf))), Steady(x), WantedCluster(x)
          PROVE  x \in inv'.db_clusters
      <3>1. run.todo[1] = <<"clusters", Last(regions(conf))>>
        BY <1>2, <1>6, <1>9, <2>1
      <3>2. x \in Of(run.todo[1][1], run.todo[1][2]) /\ Data[x].service = "clusters"
        BY <2>1, <3>1 DEF Of
      <3>3. QED
        BY <2>1, <3>2 DEF Settles
    <2>2. \A x : Steady(x)' = Steady(x) /\ WantedCluster(x)' = WantedCluster(x)
      BY DEF Steady, WantedCluster
    <2>3. QED
      BY <2>1, <2>2 DEF ClustersInv
  <1>13. QED
    BY <1>3, <1>4, <1>5, <1>7, <1>10, <1>11, <1>12 DEF IInv, TypeInv

\* A run that fails promises nothing more.
LEMMA RunFails ==
    ASSUME IInv, Raises, UNCHANGED <<conf, world, past, changes, inv>>
    PROVE  IInv'
  <1>1. /\ WorldInv /\ IsRun(run) /\ IsInventory(inv) /\ Known(inv) /\ Resolves(inv) /\ Tagged(inv)
    BY DEF IInv, TypeInv
  <1>2. run' = [todo |-> <<>>, call |-> NoCall, records |-> run.records, account |-> run.account,
                end |-> "failed"]
    BY <1>1 DEF IsRun, Raises
  <1>3. WorldInv' /\ \A x \in Resource : world[x] \in past[x] /\ past[x] \subseteq past'[x]
    BY <1>1, WorldStays
  <1>4. IsInventory(inv)' /\ Known(inv)' /\ Resolves(inv)' /\ Tagged(inv)'
    BY <1>1, <1>2, <1>3, GoodStays DEF Good
  <1>5. IsCall(run.call)' /\ FoundInv' /\ TagsInv' /\ SoughtInv'
    BY <1>1, <1>2, FreshCall DEF WorldInv
  <1>6. IsRun(run)'
    BY <1>2 DEF IsRun
  <1>7. TodoInv'
    BY <1>2 DEF TodoInv
  <1>8. DoneInv' /\ ClustersInv'
    BY <1>2 DEF DoneInv, ClustersInv
  <1>9. QED
    BY <1>3, <1>4, <1>5, <1>6, <1>7, <1>8 DEF IInv, TypeInv
-----------------------------------------------------------------------------
(* Every step keeps the invariant *)

\* What is there now has been there.
LEMMA ThereNow ==
    ASSUME WorldInv, NEW x \in Resource, world[x] # NIL
    PROVE  Ever(x)
  BY DEF WorldInv, Ever

\* Before the first call nothing is promised.
LEMMA EmptyIsGood == Good(EmptyInventory)
  <1>1. /\ EmptyInventory.members = {} /\ EmptyInventory.children = {} /\ EmptyInventory.db_clusters = {}
        /\ EmptyInventory.hostvars = <<>> /\ EmptyInventory.index = <<>>
    BY DEF EmptyInventory
  <1>2. DOMAIN <<>> = {}
    OBVIOUS
  <1>3. IsInventory(EmptyInventory)
    BY DEF IsInventory, EmptyInventory
  <1>4. QED
    BY <1>1, <1>2, <1>3 DEF Good, Known, Resolves, Tagged

\* A resource of an unknown service there is not.
LEMMA ServicesAre == \A x \in Resource : Data[x].service # "route53"
  <1>1. \A x \in Resource : Data[x].service \in {"ec2", "rds", "cache", "replication", "clusters"}
    BY ServicesAssumption, Zenon
  <1>2. QED
    BY <1>1

\* The request for the records of Route53 keeps the invariant.
LEMMA Route53Keeps ==
    ASSUME IInv, get_route53_records
    PROVE  IInv'
  <1>1. /\ WorldInv /\ IsRun(run) /\ TodoInv
    BY DEF IInv, TypeInv
  <1>2. /\ run.end = NIL /\ run.todo # <<>> /\ run.todo[1][1] = "route53"
        /\ UNCHANGED <<conf, world, past, changes, inv>>
    BY DEF get_route53_records, Asks
  <1> DEFINE kept == {r \in Records : r.zone \notin conf.route53_excluded_zones}
             records == [a \in {r.resource : r \in kept} |->
                            {r.name : r \in {q \in kept : q.resource = a}}]
  <1>3. run' = [run EXCEPT !.todo = Tail(@), !.records = records]
    BY Zenon DEF get_route53_records
  <1> HIDE DEF records
  <1>4. /\ run.todo \in Seq(Calls) /\ Tail(run.todo) \in Seq(Calls)
        /\ 1 \in DOMAIN run.todo
        /\ \A n \in DOMAIN Tail(run.todo) :
              n + 1 \in DOMAIN run.todo /\ Tail(run.todo)[n] = run.todo[n + 1] /\ n + 1 # 1
        /\ Range(run.todo) = {run.todo[1]} \union Range(Tail(run.todo))
        /\ Tail(run.todo) # <<>> => Last(Tail(run.todo)) = Last(run.todo)
        /\ Tail(run.todo) = <<>> => Last(run.todo) = run.todo[1]
    <2>1. run.todo \in Seq(Calls)
      BY <1>1 DEF IsRun
    <2>2. QED
      BY <1>2, <2>1, TailIs
  <1>5. run.todo = do_api_calls_update_cache(conf) /\ run.call = NoCall /\ inv = EmptyInventory
    BY <1>1, <1>2, <1>4 DEF TodoInv
  <1>6. run' = [todo |-> Tail(run.todo), call |-> NoCall, records |-> records, account |-> run.account,
                end |-> run.end]
    BY <1>1, <1>3, <1>5 DEF IsRun
  <1>7. WorldInv' /\ \A x \in Resource : world[x] \in past[x] /\ past[x] \subseteq past'[x]
    BY <1>1, <1>2, WorldStays
  <1>8. IsInventory(inv)' /\ Known(inv)' /\ Resolves(inv)' /\ Tagged(inv)'
    <2>1. /\ inv'.members = {} /\ inv'.children = {} /\ inv'.db_clusters = {}
          /\ inv'.hostvars = <<>> /\ inv'.index = <<>> /\ IsInventory(inv)'
      BY <1>2, <1>5 DEF EmptyInventory, IsInventory
    <2>2. DOMAIN <<>> = {}
      OBVIOUS
    <2>3. QED
      BY <2>1, <2>2 DEF Known, Resolves, Tagged
  <1>9. IsCall(run.call)' /\ FoundInv' /\ TagsInv' /\ SoughtInv'
    BY <1>1, <1>2, <1>6, FreshCall DEF WorldInv
  <1>10. IsRun(run)'
    <2>1. Calls' = Calls
      BY <1>2 DEF Calls
    <2>2. run.end \in {NIL, "failed", "written"}
      BY <1>1 DEF IsRun
    <2>3. QED
      BY <1>4, <1>6, <2>1, <2>2 DEF IsRun
  <1>11. TodoInv'
    <2>1. \A n \in DOMAIN Tail(run.todo) : Tail(run.todo)[n][1] # "route53"
      BY <1>1, <1>4 DEF TodoInv
    <2>2. conf.include_rds_clusters /\ regions(conf) # <<>> =>
             Last(run.todo) = <<"clusters", Last(regions(conf))>>
      BY <1>1, <1>2 DEF TodoInv
    <2>3. QED
      BY <1>2, <1>4, <1>6, <2>1, <2>2 DEF TodoInv
  <1>12. DoneInv'
    <2>1. ASSUME NEW x \in Resource, Asked(x)',
                 <<Data[x].service, Data[x].region>> \notin Range(run'.todo)
          PROVE  FALSE
      <3>1. <<Data[x].service, Data[x].region>> \in Range(run.todo)
        BY <1>2, <1>5, <2>1 DEF Asked
      <3>2. <<Data[x].service, Data[x].region>> = run.todo[1]
        BY <1>4, <1>6, <2>1, <3>1
      <3>3. QED
        BY <1>2, <3>2, ServicesAre
    <2>2. QED
      BY <2>1 DEF DoneInv
  <1>13. ClustersInv'
    <2>1. ASSUME run'.todo = <<>>, conf.include_rds_clusters, regions(conf) # <<>>
          PROVE  FALSE
      <3>1. run.todo[1] = <<"clusters", Last(regions(conf))>>
        BY <1>1, <1>2, <1>4, <1>6, <2>1 DEF TodoInv
      <3>2. QED
        BY <1>2, <3>1
    <2>2. QED
      BY <1>2, <2>1 DEF ClustersInv
  <1>14. QED
    BY <1>7, <1>8, <1>9, <1>10, <1>11, <1>12, <1>13 DEF IInv, TypeInv

\* The state of a call.
CallOf(pc, found, first, tags, at, more) ==
    [pc |-> pc, found |-> found, first |-> first, tags |-> tags, at |-> at, more |-> more]

\* A call is its six fields.
LEMMA CallShape ==
    /\ NoCall = CallOf(NoCall.pc, NoCall.found, NoCall.first, NoCall.tags, NoCall.at, NoCall.more)
    /\ NoCall.found = <<>> /\ NoCall.tags = <<>> /\ NoCall.at = 0 /\ NoCall.more = FALSE
    /\ \A c : IsCall(c) => c = CallOf(c.pc, c.found, c.first, c.tags, c.at, c.more)
  BY DEF CallOf, NoCall, IsCall

\* What every request but that for Route53 starts from.
LEMMA AsksIs ==
    ASSUME IInv, NEW service, service # "route53", NEW pc, Asks(service, pc)
    PROVE  /\ run.end = NIL /\ run.todo # <<>> /\ run.todo[1][1] = service /\ run.todo[1][1] # "route53"
           /\ run.call.pc = pc /\ Region = run.todo[1][2]
           /\ WorldInv /\ IsRun(run) /\ IsCall(run.call) /\ Good(inv) /\ Keeps(inv, inv)
           /\ FoundInv /\ TagsInv /\ SoughtInv /\ conf \in Settings
  BY DEF IInv, TypeInv, Asks, Region, Good, Keeps, WorldInv

\* A request for instances keeps the invariant: with the last filter answered, the
\* steady instances that some filter wants have all been found.
LEMMA GetAllInstancesKeeps ==
    ASSUME IInv, get_all_instances
    PROVE  IInv'
  <1>1. /\ run.end = NIL /\ run.todo # <<>> /\ run.todo[1][1] = "ec2" /\ run.todo[1][1] # "route53"
        /\ run.call.pc = "ask" /\ Region = run.todo[1][2]
        /\ WorldInv /\ IsRun(run) /\ IsCall(run.call) /\ Good(inv) /\ Keeps(inv, inv)
        /\ FoundInv /\ TagsInv /\ SoughtInv /\ conf \in Settings
    BY AsksIs DEF get_all_instances
  <1> DEFINE filters == instance_calls(conf)
             n == run.call.at + 1
             listed == Listed("ec2", Region)
             there == {x \in Of("ec2", Region) : world[x] # NIL}
             matching == {x \in Range(listed) : Matches(filters[n], x, world[x])}
             answer == Only(listed, matching)
             found == run.call.found \o answer
             on == [run.call EXCEPT !.found = found, !.at = n]
             over == [run.call EXCEPT !.found = found, !.at = 0, !.pc = "tags"]
             c == IF n < Len(filters) THEN on ELSE over
  <1>2. UNCHANGED <<conf, world, past, changes, inv>> /\ run' = [run EXCEPT !.call = c]
    BY DEF get_all_instances, Goes
  <1>3. listed \in Seq(Resource) /\ Range(listed) = there
    BY ListedIs
  <1> HIDE DEF listed
  <1>4. answer \in Seq(Resource) /\ Range(answer) = matching
    <2>1. answer \in Seq(Resource) /\ Range(answer) = Range(listed) \intersect matching
      BY <1>3, OnlyProperties
    <2>2. QED
      BY <2>1
  <1> HIDE DEF answer
  <1>5. run.call.found \in Seq(Resource) /\ run.call.at \in Nat /\ run.call.first \in Seq(Resource)
        /\ run.call.more \in BOOLEAN
    BY <1>1 DEF IsCall
  <1>6. found \in Seq(Resource) /\ Range(found) = Range(run.call.found) \union matching
    BY <1>4, <1>5, RangeConcatenation
  <1> HIDE DEF found
  <1>7. Len(filters) \in Nat \ {0} /\ DOMAIN filters = 1 .. Len(filters)
    BY <1>1, FiltersAre
  <1>8. /\ c = [pc |-> c.pc, found |-> found, first |-> run.call.first, tags |-> run.call.tags,
                at |-> c.at, more |-> run.call.more]
        /\ n < Len(filters) => c.pc = "ask" /\ c.at = n
        /\ ~(n < Len(filters)) => c.pc = "tags" /\ c.at = 0
    BY <1>1 DEF IsCall
  <1>9. n \in Nat /\ n > 0 /\ \A m \in Nat : m <= n => m = n \/ m <= run.call.at
    <2> DEFINE at == run.call.at
    <2>1. n = at + 1 /\ at \in Nat
      BY <1>5
    <2> HIDE DEF at, n
    <2>2. n \in Nat /\ n > 0 /\ \A m \in Nat : m <= n => m = n \/ m <= at
      BY <2>1
    <2>3. QED
      BY <2>2 DEF at
  <1> HIDE DEF filters, matching, n, c
  <1>10. c.found = found /\ c.first = run.call.first /\ c.tags = run.call.tags /\ c.more = run.call.more
         /\ c.at \in Nat /\ c.pc \in {"ask", "tags"}
    BY <1>8, <1>9
  <1>11. IsCall(c)
    BY <1>5, <1>6, <1>8, <1>10 DEF IsCall
  <1>12. run'.call = c /\ run'.todo = run.todo
    BY <1>1, <1>2 DEF IsRun
  <1>13. FoundInv'
    <2>1. \A x \in matching : Ever(x) /\ Data[x].service = "ec2"
      BY <1>1, <1>3, ThereNow DEF matching, Of
    <2>2. \A x \in Range(run.call.found) : Ever(x) /\ Data[x].service = "ec2"
      BY <1>1 DEF FoundInv
    <2>3. \A x \in Range(found) : Ever(x) /\ Data[x].service = "ec2"
      BY <1>6, <2>1, <2>2
    <2>4. QED
      BY <1>1, <1>2, <1>10, <1>12, <2>3 DEF FoundInv, Ever
  <1>14. TagsInv'
    <2>1. \A x \in DOMAIN run.call.tags : x \in Resource /\ run.call.tags[x] \in past[x] \ {NIL}
      BY <1>1 DEF TagsInv
    <2>2. c.pc = "tags" => \A k \in DOMAIN c.found : ~(k <= c.at)
      <3>1. DOMAIN found = 1 .. Len(found)
        BY <1>6
      <3>2. QED
        BY <1>8, <1>10, <3>1
    <2>3. QED
      BY <1>1, <1>2, <1>10, <1>12, <2>1, <2>2 DEF TagsInv
  <1>15. SoughtInv'
    <2>1. ASSUME NEW x \in Of("ec2", Region), Steady(x),
                 NEW m \in DOMAIN filters, m <= n, Matches(filters[m], x, world[x])
          PROVE  x \in Range(found)
      <3>1. CASE m = n
        <4>1. x \in Range(listed)
          BY <1>3, <2>1 DEF Steady
        <4>2. x \in matching
          BY <2>1, <3>1, <4>1 DEF matching
        <4>3. QED
          BY <1>6, <4>2
      <3>2. CASE m <= run.call.at
        <4>1. SoughtAt(x)
          BY <1>1, <2>1 DEF SoughtInv
        <4>2. x \in Range(run.call.found)
          BY <1>1, <2>1, <3>2, <4>1 DEF SoughtAt, filters
        <4>3. QED
          BY <1>6, <4>2
      <3>3. QED
        BY <1>7, <1>9, <2>1, <3>1, <3>2
    <2>2. ASSUME NEW x \in Of("ec2", Region), Steady(x) PROVE SoughtAt(x)'
      <3>1. c.pc = "ask" => c.at = n
        BY <1>8
      <3>2. c.pc = "tags" => \A m \in DOMAIN filters : m <= n
        BY <1>7, <1>8, <1>9
      <3>3. QED
        BY <1>1, <1>2, <1>10, <1>12, <2>1, <2>2, <3>1, <3>2 DEF SoughtAt, filters
    <2>3. QED
      BY <1>1, <1>2, <1>12, <2>2 DEF SoughtInv, Of, Steady
  <1>16. QED
    BY <1>1, <1>2, <1>11, <1>13, <1>14, <1>15, CallGoesOn

\* Functions that are put together.
LEMMA UpdateOf ==
    ASSUME NEW f, NEW g
    PROVE  /\ DOMAIN Update(f, g) = DOMAIN f \union DOMAIN g
           /\ \A x \in DOMAIN g : Update(f, g)[x] = g[x]
           /\ \A x \in DOMAIN f \ DOMAIN g : Update(f, g)[x] = f[x]
  BY DEF Update

\* The chunks of a list leave nothing out.
LEMMA ChunkIs ==
    ASSUME NEW S, NEW found \in Seq(S), NEW at \in Nat, at < Len(found)
    PROVE  /\ Range(Chunk(found, at)) \subseteq Range(found)
           /\ \A j \in DOMAIN found : ~(j <= at) /\ j <= at + ChunkSize =>
                 found[j] \in Range(Chunk(found, at))
  <1> DEFINE l == Len(found)
             end == IF at + ChunkSize < l THEN at + ChunkSize ELSE l
             chunk == SubSeq(found, at + 1, end)
  <1>1. Chunk(found, at) = chunk
    BY DEF Chunk
  <1>2. l \in Nat /\ DOMAIN found = 1 .. l /\ ChunkSize \in Nat /\ ChunkSize # 0
    BY FetchAssumption
  <1>3. end \in at + 1 .. l /\ \A j \in 1 .. l : j <= at + ChunkSize => j <= end
    <2> HIDE DEF l
    <2>1. at < l
      BY DEF l
    <2>2. QED
      BY <1>2, <2>1
  <1> HIDE DEF end
  <1>4. /\ DOMAIN chunk = 1 .. end - at
        /\ \A i \in 1 .. end - at : chunk[i] = found[at + i]
    <2>1. end \in Nat /\ end <= l /\ at + 1 <= end
      BY <1>2, <1>3
    <2>2. chunk \in Seq(S) /\ Len(chunk) = end - at
      BY <2>1
    <2>3. \A i \in 1 .. end - at : chunk[i] = found[i + at]
      BY <2>1
    <2>4. \A i \in 1 .. end - at : i + at = at + i
      BY <2>1
    <2> HIDE DEF chunk
    <2>5. QED
      BY <2>2, <2>3, <2>4
  <1> HIDE DEF chunk, l
  <1>5. \A i \in 1 .. end - at : at + i \in 1 .. l
    BY <1>2, <1>3
  <1>6. \A j \in 1 .. l : ~(j <= at) /\ j <= end => j - at \in 1 .. end - at /\ at + (j - at) = j
    BY <1>2, <1>3
  <1>7. Range(chunk) \subseteq Range(found)
    BY <1>2, <1>4, <1>5 DEF Range
  <1>8. ASSUME NEW j \in 1 .. l, ~(j <= at), j <= at + ChunkSize PROVE found[j] \in Range(chunk)
    <2>1. j - at \in 1 .. end - at /\ chunk[j - at] = found[j]
      BY <1>3, <1>4, <1>6, <1>8
    <2>2. QED
      BY <1>4, <2>1 DEF Range
  <1>9. QED
    BY <1>1, <1>2, <1>7, <1>8

\* A request for tags keeps the invariant: the chunks follow each other without a
\* gap, and each instance gets the tags of one moment.
LEMMA GetAllTagsKeeps ==
    ASSUME IInv, get_all_tags
    PROVE  IInv'
  <1>1. /\ run.end = NIL /\ run.todo # <<>> /\ run.todo[1][1] = "ec2" /\ run.todo[1][1] # "route53"
        /\ run.call.pc = "tags" /\ Region = run.todo[1][2]
        /\ WorldInv /\ IsRun(run) /\ IsCall(run.call) /\ Good(inv) /\ Keeps(inv, inv)
        /\ FoundInv /\ TagsInv /\ SoughtInv /\ conf \in Settings
    BY AsksIs DEF get_all_tags
  <1> DEFINE found == run.call.found
             at == run.call.at
             old == run.call.tags
             alive == {x \in Range(Chunk(found, at)) : world[x] # NIL}
             now == [x \in alive |-> world[x]]
             tags == Update(old, now)
             c == [run.call EXCEPT !.tags = tags, !.at = at + ChunkSize]
  <1>2. UNCHANGED <<conf, world, past, changes, inv>> /\ run' = [run EXCEPT !.call = c] /\ at < Len(found)
    BY DEF get_all_tags, Goes
  <1>3. found \in Seq(Resource) /\ at \in Nat /\ run.call.first \in Seq(Resource)
        /\ run.call.more \in BOOLEAN
    BY <1>1 DEF IsCall
  <1>4. c = [pc |-> "tags", found |-> found, first |-> run.call.first, tags |-> tags,
             at |-> at + ChunkSize, more |-> run.call.more]
    <2> DEFINE half == [run.call EXCEPT !.tags = tags]
    <2>1. half = [pc |-> "tags", found |-> found, first |-> run.call.first, tags |-> tags,
                  at |-> at, more |-> run.call.more]
      BY <1>1 DEF IsCall
    <2>2. c = [half EXCEPT !.at = at + ChunkSize]
      OBVIOUS
    <2> HIDE DEF half, tags
    <2>3. QED
      BY <2>1, <2>2
  <1> HIDE DEF c
  <1>5. ChunkSize \in Nat
    BY FetchAssumption
  <1>6. IsCall(c)
    BY <1>3, <1>4, <1>5 DEF IsCall
  <1>7. run'.call = c /\ run'.todo = run.todo
    BY <1>1, <1>2 DEF IsRun
  <1>8. /\ DOMAIN tags = DOMAIN old \union alive /\ \A x \in alive : tags[x] = world[x]
        /\ \A x \in DOMAIN old \ alive : tags[x] = old[x]
    <2>1. DOMAIN now = alive /\ \A x \in alive : now[x] = world[x]
      OBVIOUS
    <2> HIDE DEF now, old, alive
    <2>2. /\ DOMAIN tags = DOMAIN old \union DOMAIN now /\ \A x \in DOMAIN now : tags[x] = now[x]
          /\ \A x \in DOMAIN old \ DOMAIN now : tags[x] = old[x]
      BY UpdateOf
    <2> HIDE DEF tags
    <2>3. QED
      BY <2>1, <2>2
  <1> HIDE DEF tags
  <1>9. FoundInv'
    BY <1>1, <1>2, <1>4, <1>7 DEF FoundInv, Ever
  <1>10. Range(found) \subseteq Resource
    BY <1>3, RangeOfSeq
  <1>11. /\ \A x \in DOMAIN old : x \in Resource /\ old[x] \in past[x] \ {NIL}
         /\ \A k \in DOMAIN found : k <= at /\ Steady(found[k]) =>
               found[k] \in DOMAIN old /\ old[found[k]] = world[found[k]]
    BY <1>1 DEF TagsInv
  <1>12. /\ Range(Chunk(found, at)) \subseteq Range(found)
         /\ \A k \in DOMAIN found : ~(k <= at) /\ k <= at + ChunkSize =>
               found[k] \in Range(Chunk(found, at))
    BY <1>2, <1>3, ChunkIs
  <1>13. TagsInv'
    <2>1. ASSUME NEW x \in DOMAIN tags PROVE x \in Resource /\ tags[x] \in past[x] \ {NIL}
      <3>1. CASE x \in alive
        BY <1>1, <1>8, <1>10, <1>12, <3>1 DEF WorldInv
      <3>2. CASE x \notin alive
        BY <1>8, <1>11, <2>1, <3>2
      <3>3. QED
        BY <3>1, <3>2
    <2>2. ASSUME NEW k \in DOMAIN found, k <= at + ChunkSize, Steady(found[k])
          PROVE  found[k] \in DOMAIN tags /\ tags[found[k]] = world[found[k]]
      <3>1. CASE found[k] \in alive
        BY <1>8, <3>1
      <3>2. CASE found[k] \notin alive
        <4>1. k <= at
          BY <1>12, <2>2, <3>2 DEF Steady
        <4>2. QED
          BY <1>8, <1>11, <2>2, <3>2, <4>1
      <3>3. QED
        BY <3>1, <3>2
    <2> HIDE DEF found, at
    <2>3. c.pc = "tags" /\ c.found = found /\ c.tags = tags /\ c.at = at + ChunkSize
      BY <1>4
    <2>4. QED
      BY <1>1, <1>2, <1>7, <2>1, <2>2, <2>3 DEF TagsInv, Steady
  <1>14. SoughtInv'
    <2>1. c.pc = "tags" /\ c.found = found
      BY <1>4
    <2>2. ASSUME NEW x \in Of("ec2", Region), Steady(x) PROVE SoughtAt(x)'
      <3>1. SoughtAt(x)
        BY <1>1, <2>2 DEF SoughtInv
      <3>2. QED
        BY <1>1, <1>2, <1>7, <2>1, <3>1 DEF SoughtAt
    <2>3. QED
      BY <1>1, <1>2, <1>7, <2>2 DEF SoughtInv, Of, Steady
  <1>15. QED
    BY <1>1, <1>2, <1>6, <1>9, <1>13, <1>14, CallGoesOn

\* What makes a resource settled after a step of the run.
LEMMA SettledNow ==
    ASSUME NEW x, conf' = conf, world' = world, run'.records = run.records, NEW j, inv' = j,
           \A h \in MadeHosts(x) :
              /\ h \in DOMAIN j.index
              /\ Data[x].service = "ec2" /\ "tag_keys" \in conf.group_by =>
                    \A g \in GroupsOfTags(world[x]) : <<g, h>> \in j.members
    PROVE  Settled(x)'
  <1>1. MadeHosts(x)' = MadeHosts(x)
    BY HostsStay
  <1>2. GroupsOfTags(world[x])' = GroupsOfTags(world[x])
    BY DEF GroupsOfTags
  <1>3. QED
    BY <1>1, <1>2 DEF Settled

\* An instance that is filed is in the groups of its tags.
LEMMA FiledByTags ==
    ASSUME NEW x, NEW tags, NEW account, NEW j,
           FiledIn(j, InstanceEntry(conf, Data[x], tags, run.records, account))
    PROVE  LET h == InstanceHost(conf, Data[x], tags, run.records)
           IN  /\ h \in DOMAIN j.index
               /\ "tag_keys" \in conf.group_by => \A g \in GroupsOfTags(tags) : <<g, h>> \in j.members
  <1> DEFINE d == Data[x]
             e == InstanceEntry(conf, d, tags, run.records, account)
             h == InstanceHost(conf, d, tags, run.records)
             groups == instance_groups(conf, d, tags, run.records, account)
  <1>1. e.host = h /\ e.groups = groups
    BY DEF InstanceEntry, Entry
  <1>2. tag_groups(conf, tags) \subseteq groups
    BY Zenon DEF instance_groups
  <1> HIDE DEF h, groups, e
  <1>3. h \in DOMAIN j.index
    BY <1>1 DEF FiledIn, e
  <1>4. ASSUME "tag_keys" \in conf.group_by, NEW name \in GroupsOfTags(tags)
        PROVE  <<name, h>> \in j.members
    <2>1. IsTagGroup(name) /\ \E g \in tag_groups(conf, tags) : g.option = "tag_keys" /\ g.name = name
      BY TagGroupsAre
    <2>2. PICK g \in groups : g.option = "tag_keys" /\ g.name = name
      BY <1>2, <2>1
    <2>3. g \in OnGroups(conf, e)
      BY <1>1, <1>4, <2>2, Zenon DEF OnGroups
    <2>4. \A o \in OnGroups(conf, e) : IsTagGroup(o.name) => <<o.name, e.host>> \in j.members
      BY DEF FiledIn, e
    <2>5. <<g.name, e.host>> \in j.members
      BY <2>1, <2>2, <2>3, <2>4
    <2>6. QED
      BY <1>1, <2>2, <2>5
  <1>5. QED
    BY <1>3, <1>4 DEF h

\* Adding the instances keeps the invariant: those that were sought are in it now,
\* under their names and with their tags.
LEMMA AddInstancesKeeps ==
    ASSUME IInv, add_instances
    PROVE  IInv'
  <1>1. /\ run.end = NIL /\ run.todo # <<>> /\ run.todo[1][1] = "ec2" /\ run.todo[1][1] # "route53"
        /\ run.call.pc = "tags" /\ Region = run.todo[1][2]
        /\ WorldInv /\ IsRun(run) /\ IsCall(run.call) /\ Good(inv) /\ Keeps(inv, inv)
        /\ FoundInv /\ TagsInv /\ SoughtInv /\ conf \in Settings
    BY AsksIs DEF add_instances
  <1> DEFINE found == run.call.found
             account == IF found # <<>> THEN Or(run.account, Data[found[1]].owner) ELSE run.account
             tags(x) == IF x \in DOMAIN run.call.tags THEN run.call.tags[x] ELSE <<>>
             one(x) == add_instance(conf, Data[x], tags(x), run.records, account)
             e(x) == InstanceEntry(conf, Data[x], tags(x), run.records, account)
             parts == [n \in DOMAIN found |-> add_instance(conf, Data[found[n]], tags(found[n]),
                                                           run.records, account)]
             all == Concat(parts)
             j == AddedAll(conf, inv, all)
             T == {e(x) : x \in Range(found)}
  <1>2. /\ UNCHANGED <<conf, world, past, changes>> /\ inv' = j /\ run.call.at >= Len(found)
        /\ DoneWith(account)
    BY Zenon DEF add_instances, DoneWith
  <1>3. found \in Seq(Resource) /\ run.call.at \in Nat /\ DOMAIN found = 1 .. Len(found)
    BY <1>1 DEF IsCall
  <1>4. \A x \in Range(found) : x \in Resource /\ Data[x].service = "ec2" /\ Ever(x)
    <2>1. Range(found) \subseteq Resource
      BY <1>3, RangeOfSeq
    <2>2. QED
      BY <1>1, <2>1 DEF FoundInv
  <1>5. \A x \in Resource : tags(x) = <<>> \/ tags(x) \in past[x] \ {NIL}
    BY <1>1 DEF TagsInv
  <1>6. \A x \in Range(found) : Sound(e(x))
    <2> HIDE DEF tags, account, found
    <2>1. QED
      BY <1>1, <1>4, <1>5, InstanceSound
  <1>7. \A x : /\ one(x) \in Seq({e(x)})
               /\ Range(one(x)) = IF InstanceWanted(conf, Data[x], tags(x), run.records) THEN {e(x)} ELSE {}
    <2> HIDE DEF tags, account
    <2>1. QED
      BY InstanceIs
  <1>8. \A n \in DOMAIN found : found[n] \in Range(found) /\ parts[n] = one(found[n])
    BY DEF Range
  <1>9. \A x \in Range(found) : one(x) \in Seq(T)
    <2>1. ASSUME NEW x \in Range(found) PROVE one(x) \in Seq(T)
      <3>1. one(x) \in Seq({e(x)}) /\ e(x) \in T
        BY <1>7
      <3> HIDE DEF one, e, T
      <3>2. QED
        BY <3>1
    <2>2. QED
      BY <2>1
  <1>10. DOMAIN parts = DOMAIN found
    OBVIOUS
  <1> HIDE DEF one, e, parts, account, tags
  <1>11. parts \in Seq(Seq(T))
    <2>1. Len(found) \in Nat /\ DOMAIN parts = 1 .. Len(found)
      BY <1>3, <1>10
    <2>2. \A n \in 1 .. Len(found) : parts[n] \in Seq(T)
      BY <1>3, <1>8, <1>9
    <2>3. parts = [n \in 1 .. Len(found) |-> parts[n]]
      BY <2>1 DEF parts
    <2> HIDE DEF T, found
    <2>4. QED
      BY <2>1, <2>2, <2>3
  <1> HIDE DEF T
  <1>12. all \in Seq(T) /\ Range(all) = UNION {Range(parts[m]) : m \in DOMAIN parts}
    BY <1>11, ConcatCollects
  <1> HIDE DEF all
  <1>13. \A v \in Range(all) : Sound(v)
    <2>1. Range(all) \subseteq T
      BY <1>12, RangeOfSeq
    <2>2. QED
      BY <1>6, <2>1 DEF T
  <1>14. Good(j) /\ Keeps(inv, j) /\ \A v \in Range(all) : FiledIn(j, v)
    BY <1>1, <1>12, <1>13, AllAddedGood
  <1> HIDE DEF j
  <1>15. run'.records = run.records
    BY <1>1, <1>2 DEF IsRun, DoneWith
  <1>16. ASSUME NEW x \in Of("ec2", Region), Steady(x) PROVE Settled(x)'
    <2>1. x \in Resource /\ Data[x].service = "ec2"
      BY DEF Of
    <2> DEFINE wanted == \E n \in DOMAIN instance_calls(conf) :
                            Matches(instance_calls(conf)[n], x, world[x])
               d == Data[x]
               h == InstanceHost(conf, d, world[x], run.records)
    <2>2. MadeHosts(x) = HostsIn(EntriesOf(conf, x, world[x], run.records, run.account))
      BY Zenon DEF MadeHosts, HostsIn, Entries, EntriesOf
    <2>3. EntriesOf(conf, x, world[x], run.records, run.account) =
             IF wanted THEN add_instance(conf, d, world[x], run.records, run.account) ELSE <<>>
      <3>1. d.service # "rds" /\ d.service # "cache" /\ d.service # "replication"
        BY <2>1
      <3>2. CASE wanted
        BY <2>1, <3>1, <3>2, Zenon DEF EntriesOf
      <3>3. CASE ~wanted
        BY <2>1, <3>1, <3>3, Zenon DEF EntriesOf
      <3>4. QED
        BY <3>2, <3>3
    <2>4. ASSUME NEW g \in MadeHosts(x)
          PROVE  g = h /\ wanted /\ InstanceWanted(conf, d, world[x], run.records)
      <3> DEFINE one1 == add_instance(conf, d, world[x], run.records, run.account)
                 e1 == InstanceEntry(conf, d, world[x], run.records, run.account)
                 w1 == InstanceWanted(conf, d, world[x], run.records)
      <3>1. Range(one1) = IF w1 THEN {e1} ELSE {}
        BY InstanceIs
      <3>2. e1.host = h
        BY DEF InstanceEntry, Entry
      <3>3. Range(<<>>) = {}
        BY DEF Range
      <3> HIDE DEF one1, e1, w1, h, wanted, d
      <3>4. g \in HostsIn(IF wanted THEN one1 ELSE <<>>)
        BY <2>2, <2>3 DEF one1, d
      <3>5. wanted
        BY <3>3, <3>4 DEF HostsIn
      <3>6. PICK v \in Range(one1) : g = v.host
        BY <3>4, <3>5 DEF HostsIn
      <3>7. QED
        BY <3>1, <3>2, <3>5, <3>6 DEF w1
    <2>5. ASSUME wanted, InstanceWanted(conf, d, world[x], run.records)
          PROVE  /\ h \in DOMAIN j.index
                 /\ "tag_keys" \in conf.group_by =>
                       \A g \in GroupsOfTags(world[x]) : <<g, h>> \in j.members
      <3>1. SoughtAt(x)
        BY <1>1, <1>16 DEF SoughtInv
      <3>2. x \in Range(found)
        BY <1>1, <2>5, <3>1 DEF SoughtAt
      <3>3. PICK n \in DOMAIN found : found[n] = x
        BY <3>2 DEF Range
      <3>4. n <= run.call.at
        <4> DEFINE at == run.call.at
                   l == Len(found)
        <4>1. at \in Nat /\ n \in 1 .. l /\ at >= l /\ l \in Nat
          BY <1>2, <1>3
        <4> HIDE DEF at, l
        <4>2. n <= at
          BY <4>1
        <4>3. QED
          BY <4>2 DEF at
      <3>5. x \in DOMAIN run.call.tags /\ run.call.tags[x] = world[x]
        BY <1>1, <1>16, <3>3, <3>4 DEF TagsInv
      <3>6. tags(x) = world[x]
        BY <3>5 DEF tags
      <3>7. Range(one(x)) = {e(x)} /\ one(x) = parts[n] /\ n \in DOMAIN parts
        BY <1>7, <1>8, <1>10, <2>5, <3>3, <3>6
      <3>8. e(x) \in Range(all)
        BY <1>12, <3>7
      <3>9. FiledIn(j, InstanceEntry(conf, Data[x], world[x], run.records, account))
        BY <1>14, <3>6, <3>8 DEF e
      <3>10. QED
        BY <3>9, FiledByTags
    <2> HIDE DEF wanted, h
    <2>6. \A g \in MadeHosts(x) :
             /\ g \in DOMAIN j.index
             /\ Data[x].service = "ec2" /\ "tag_keys" \in conf.group_by =>
                   \A name \in GroupsOfTags(world[x]) : <<name, g>> \in j.members
      BY <2>4, <2>5
    <2>7. QED
      BY <1>2, <1>15, <2>6, SettledNow
  <1>17. Settles(j)
    <2>1. \A x \in Of("ec2", Region) : Data[x].service # "clusters"
      BY DEF Of
    <2>2. QED
      BY <1>1, <1>16, <2>1 DEF Settles
  <1>18. QED
    BY <1>1, <1>2, <1>14, <1>17, CallIsDone

\* boto3 is asked.
LEMMA DescribeDbInstancesKeeps ==
    ASSUME IInv, describe_db_instances
    PROVE  IInv'
  <1>1. /\ run.end = NIL /\ run.todo # <<>> /\ run.todo[1][1] = "rds" /\ run.todo[1][1] # "route53"
        /\ run.call.pc = "ask" /\ Region = run.todo[1][2]
        /\ WorldInv /\ IsRun(run) /\ IsCall(run.call) /\ Good(inv) /\ Keeps(inv, inv)
        /\ FoundInv /\ TagsInv /\ SoughtInv /\ conf \in Settings
    BY AsksIs DEF describe_db_instances
  <1> DEFINE first == Page(Listed("rds", Region), 0, PageSize).items
             c == [NoCall EXCEPT !.first = first, !.pc = "page"]
  <1>2. UNCHANGED <<conf, world, past, changes, inv>> /\ run' = [run EXCEPT !.call = c]
    BY DEF describe_db_instances, Goes
  <1>3. first \in Seq(Resource)
    <2>1. Listed("rds", Region) \in Seq(Resource) /\ Rising(Listed("rds", Region))
      BY ListedIs
    <2>2. PageSize \in Nat \ {0} /\ 0 \in Nat
      BY FetchAssumption
    <2>3. QED
      BY <2>1, <2>2, PageIs
  <1> HIDE DEF first
  <1>4. c = [pc |-> "page", found |-> <<>>, first |-> first, tags |-> <<>>, at |-> 0, more |-> FALSE]
    <2> DEFINE r == NoCall
               half == [r EXCEPT !.first = first]
               p == "page"
               over == [half EXCEPT !.pc = p]
    <2>1. c = over
      OBVIOUS
    <2> HIDE DEF c, p
    <2>2. /\ r = CallOf(r.pc, r.found, r.first, r.tags, r.at, r.more)
          /\ r.found = <<>> /\ r.tags = <<>> /\ r.at = 0 /\ r.more = FALSE
      BY CallShape
    <2> HIDE DEF r
    <2>3. half = CallOf(r.pc, r.found, first, r.tags, r.at, r.more)
      BY <2>2 DEF CallOf
    <2> HIDE DEF half
    <2>4. over = CallOf(p, r.found, first, r.tags, r.at, r.more)
      BY <2>3 DEF CallOf
    <2> HIDE DEF over
    <2>5. QED
      BY <2>1, <2>2, <2>4 DEF CallOf, p
  <1> HIDE DEF c
  <1>5. IsCall(c)
    BY <1>3, <1>4 DEF IsCall
  <1>6. run'.call = c /\ run'.todo = run.todo
    BY <1>1, <1>2 DEF IsRun
  <1>7. c.pc = "page" /\ c.found = <<>> /\ c.at = 0
    BY <1>4
  <1>8. FoundInv'
    <2>1. Range(<<>>) = {}
      BY DEF Range
    <2>2. QED
      BY <1>6, <1>7, <2>1 DEF FoundInv
  <1>9. TagsInv'
    BY <1>1, <1>6 DEF TagsInv
  <1>10. SoughtInv'
    <2>1. \A x \in Resource : ~(x <= 0)
      BY Numbered
    <2>2. ASSUME NEW x \in Resource PROVE SoughtAt(x)'
      BY <1>1, <1>6, <1>7, <2>1 DEF SoughtAt
    <2>3. \A a, b : Of(a, b) \subseteq Resource
      BY DEF Of
    <2>4. QED
      BY <2>2, <2>3 DEF SoughtInv
  <1>11. QED
    BY <1>1, <1>2, <1>5, <1>8, <1>9, <1>10, CallGoesOn

\* A call that is done leaves the account as it was.
LEMMA DoneIs ==
    ASSUME IsRun(run), Done
    PROVE  DoneWith(run.account)
  BY DEF IsRun, Done, DoneWith

\* The next page is asked for, or there is none.
LEMMA GetAllDbinstancesKeeps ==
    ASSUME IInv, get_all_dbinstances
    PROVE  IInv'
  <1>1. /\ run.end = NIL /\ run.todo # <<>> /\ run.todo[1][1] = "rds" /\ run.todo[1][1] # "route53"
        /\ run.call.pc = "page" /\ Region = run.todo[1][2]
        /\ WorldInv /\ IsRun(run) /\ IsCall(run.call) /\ Good(inv) /\ Keeps(inv, inv)
        /\ FoundInv /\ TagsInv /\ SoughtInv /\ conf \in Settings
    BY AsksIs DEF get_all_dbinstances
  <1> DEFINE listed == Listed("rds", Region)
             there == {x \in Of("rds", Region) : world[x] # NIL}
             r == run.call
             at == r.at
             page == Page(listed, at, PageSize)
             items == page.items
             more == page.more
             marker == Marker(items, at)
             c == [r EXCEPT !.found = items, !.more = more, !.at = marker, !.pc = "tags"]
  <1>2. /\ UNCHANGED <<conf, world, past, changes, inv>>
        /\ items = <<>> => Done
        /\ items # <<>> => run' = [run EXCEPT !.call = c]
    BY Zenon DEF get_all_dbinstances, Goes
  <1>3. at \in Nat /\ r.first \in Seq(Resource) /\ r = CallOf(r.pc, r.found, r.first, r.tags, at, r.more)
    BY <1>1, CallShape DEF IsCall
  <1>4. listed \in Seq(Resource) /\ Rising(listed) /\ Range(listed) = there
    BY ListedIs
  <1>5. PageSize \in Nat \ {0}
    BY FetchAssumption
  <1> HIDE DEF listed
  <1>6. /\ items \in Seq(Resource) /\ Range(items) \subseteq there /\ more \in BOOLEAN
        /\ \A x \in there : x > at /\ (items = <<>> \/ ~more) => x \in Range(items)
        /\ items # <<>> =>
              /\ Last(items) \in Resource
              /\ \A x \in there : x > at /\ x <= Last(items) => x \in Range(items)
    <2> HIDE DEF at, there
    <2>1. QED
      BY <1>3, <1>4, <1>5, PageIs
  <1> HIDE DEF page, items, more
  <1>7. items # <<>> => marker = Last(items) /\ marker \in Nat
    BY <1>6, Numbered DEF Marker
  <1>8. \A x \in Of("rds", Region) : Steady(x) => x \in there /\ SoughtAt(x)
    BY <1>1 DEF SoughtInv, Steady
  <1>9. \A x \in Of("rds", Region) : Steady(x) /\ x <= at => Settled(x)
    BY <1>1, <1>8 DEF SoughtAt
  <1>10. \A x \in Of("rds", Region) : Steady(x) /\ ~(x <= at) => x \in there /\ x > at
    <2>1. ASSUME NEW x \in Resource, ~(x <= at) PROVE x > at
      <3>1. x \in Nat
        BY Numbered
      <3> HIDE DEF at
      <3>2. QED
        BY <1>3, <2>1, <3>1
    <2>2. Of("rds", Region) \subseteq Resource
      BY DEF Of
    <2>3. QED
      BY <1>8, <2>1, <2>2
  <1>11. run'.records = run.records
    <2>1. CASE items = <<>>
      BY <1>1, <1>2, <2>1 DEF IsRun, Done
    <2>2. CASE items # <<>>
      BY <1>1, <1>2, <2>2 DEF IsRun
    <2>3. QED
      BY <2>1, <2>2
  <1>12. \A x : Settled(x) => Settled(x)'
    BY <1>1, <1>2, <1>11, SettledStays
  <1>13. CASE items = <<>>
    <2>1. DoneWith(run.account)
      BY <1>1, <1>2, <1>13, DoneIs
    <2>2. Range(items) = {}
      BY <1>13 DEF Range
    <2>3. \A x \in Of("rds", Region) : Steady(x) => x <= at
      BY <1>6, <1>10, <1>13, <2>2
    <2>4. Settles(inv)
      <3>1. \A x \in Of("rds", Region) : Data[x].service # "clusters"
        BY DEF Of
      <3>2. QED
        BY <1>1, <1>9, <1>12, <2>3, <3>1 DEF Settles
    <2>5. QED
      BY <1>1, <1>2, <2>1, <2>4, CallIsDone
  <1>14. CASE items # <<>>
    <2>1. c = CallOf("tags", items, r.first, r.tags, marker, more)
      <3> DEFINE p == "tags"
                 c1 == [r EXCEPT !.found = items]
                 c2 == [c1 EXCEPT !.more = more]
                 c3 == [c2 EXCEPT !.at = marker]
                 c4 == [c3 EXCEPT !.pc = p]
      <3>1. c = c4
        OBVIOUS
      <3> HIDE DEF c, p, at, marker, r
      <3>2. c1 = CallOf(r.pc, items, r.first, r.tags, at, r.more)
        BY <1>3 DEF CallOf
      <3> HIDE DEF c1
      <3>3. c2 = CallOf(r.pc, items, r.first, r.tags, at, more)
        BY <3>2 DEF CallOf
      <3> HIDE DEF c2
      <3>4. c3 = CallOf(r.pc, items, r.first, r.tags, marker, more)
        BY <3>3 DEF CallOf
      <3> HIDE DEF c3
      <3>5. c4 = CallOf(p, items, r.first, r.tags, marker, more)
        BY <3>4 DEF CallOf
      <3> HIDE DEF c4
      <3>6. QED
        BY <3>1, <3>5 DEF p
    <2> HIDE DEF c
    <2>2. /\ c.pc = "tags" /\ c.found = items /\ c.at = marker /\ c.more = more
          /\ IsCall(c)
      <3> HIDE DEF marker, at
      <3>1. QED
        BY <1>3, <1>6, <1>7, <1>14, <2>1 DEF CallOf, IsCall
    <2>3. run'.call = c /\ run'.todo = run.todo
      BY <1>1, <1>2, <1>14 DEF IsRun
    <2>4. FoundInv'
      <3>1. \A x \in there : Ever(x) /\ Data[x].service = "rds"
        BY <1>1, ThereNow DEF Of
      <3>2. QED
        BY <1>1, <1>2, <1>6, <1>14, <2>2, <2>3, <3>1 DEF FoundInv, Ever
    <2>5. TagsInv'
      BY <1>1, <2>3 DEF TagsInv
    <2>6. SoughtInv'
      <3>1. ASSUME NEW x \in Of("rds", Region), Steady(x), x <= marker \/ ~more
            PROVE  Settled(x)' \/ x \in Range(items)
        <4>1. CASE x <= at
          BY <1>9, <1>12, <3>1, <4>1
        <4>2. CASE ~(x <= at)
          BY <1>6, <1>7, <1>10, <1>14, <3>1, <4>2
        <4>3. QED
          BY <4>1, <4>2
      <3>2. ASSUME NEW x \in Of("rds", Region), Steady(x) PROVE SoughtAt(x)'
        BY <1>1, <1>2, <2>2, <2>3, <3>1, <3>2 DEF SoughtAt
      <3>3. QED
        BY <1>1, <1>2, <2>3, <3>2 DEF SoughtInv, Of, Steady
    <2>7. QED
      BY <1>1, <1>2, <1>14, <2>2, <2>4, <2>5, <2>6, CallGoesOn
  <1>15. QED
    BY <1>13, <1>14

\* The hosts of an RDS instance that is promised do not depend on its tags.
LEMMA RdsMade ==
    ASSUME NEW x, Data[x].service = "rds", NEW h \in MadeHosts(x)
    PROVE  /\ conf.instance_filters = <<>> /\ RdsWanted(conf, Data[x])
           /\ \A tags : RdsHost(conf, Data[x], tags) = h
  <1> DEFINE d == Data[x]
             tagless == conf.instance_filters = <<>> /\
                        (conf.hostname_variable # NIL => ~IsTag(conf.hostname_variable))
             es == add_rds_instance(conf, d, world[x], run.account)
             e == RdsEntry(conf, d, world[x], run.account)
             wanted == RdsWanted(conf, d)
             host == RdsHost(conf, d, world[x])
  <1>1. MadeHosts(x) = HostsIn(EntriesOf(conf, x, world[x], run.records, run.account))
    BY Zenon DEF MadeHosts, HostsIn, Entries, EntriesOf
  <1>2. EntriesOf(conf, x, world[x], run.records, run.account) = IF tagless THEN es ELSE <<>>
    <2>1. d.service # "ec2" /\ d.service # "cache" /\ d.service # "replication"
      OBVIOUS
    <2>2. CASE tagless
      BY <2>1, <2>2, Zenon DEF EntriesOf
    <2>3. CASE ~tagless
      BY <2>1, <2>3, Zenon DEF EntriesOf
    <2>4. QED
      BY <2>2, <2>3
  <1>3. Range(es) = IF wanted THEN {e} ELSE {}
    BY RdsIs
  <1>4. e.host = host
    BY DEF RdsEntry, Entry
  <1>5. tagless => \A tags : named(conf, d, tags) = named(conf, d, world[x])
    BY Zenon DEF named
  <1>6. tagless => \A tags : RdsHost(conf, d, tags) = host
    <2> HIDE DEF tagless, d
    <2>1. QED
      BY <1>5 DEF RdsHost
  <1>7. Range(<<>>) = {}
    BY DEF Range
  <1>8. tagless => conf.instance_filters = <<>>
    OBVIOUS
  <1> HIDE DEF tagless, es, e, wanted, host
  <1>9. h \in HostsIn(IF tagless THEN es ELSE <<>>)
    BY <1>1, <1>2
  <1>10. tagless
    BY <1>7, <1>9 DEF HostsIn
  <1>11. PICK v \in Range(es) : h = v.host
    BY <1>9, <1>10 DEF HostsIn
  <1>12. wanted /\ h = host
    BY <1>3, <1>4, <1>11
  <1>13. QED
    BY <1>6, <1>8, <1>10, <1>12 DEF wanted

\* The next instance of the page is added with what are taken for its tags.
LEMMA ListTagsForResourceKeeps ==
    ASSUME IInv, list_tags_for_resource
    PROVE  IInv'
  <1>1. /\ run.end = NIL /\ run.todo # <<>> /\ run.todo[1][1] = "rds" /\ run.todo[1][1] # "route53"
        /\ run.call.pc = "tags" /\ Region = run.todo[1][2]
        /\ WorldInv /\ IsRun(run) /\ IsCall(run.call) /\ Good(inv) /\ Keeps(inv, inv)
        /\ FoundInv /\ TagsInv /\ SoughtInv /\ conf \in Settings
    BY AsksIs DEF list_tags_for_resource
  <1> DEFINE r == run.call
             found == r.found
             x0 == Head(found)
             d == Data[x0]
             index == Len(r.tags) + 1
             arn == r.first[index]
             c == [r EXCEPT !.found = Tail(found), !.tags = Append(r.tags, index)]
             again == [c EXCEPT !.pc = "page", !.tags = <<>>]
             match == tags_match_filters(conf, world[arn])
             es == add_rds_instance(conf, d, world[arn], run.account)
             e == RdsEntry(conf, d, world[arn], run.account)
             j == IF match THEN AddedAll(conf, inv, es) ELSE inv
             raises == \/ index > Len(r.first) \/ world[arn] = NIL
                       \/ match /\ add_rds_instance_raises(conf, d)
  <1>2. /\ UNCHANGED <<conf, world, past, changes>>
        /\ raises => Raises /\ UNCHANGED inv
        /\ ~raises => /\ inv' = j
                      /\ c.found # <<>> => Goes(c)
                      /\ c.found = <<>> /\ c.more => Goes(again)
                      /\ c.found = <<>> /\ ~c.more => Done
    BY Zenon DEF list_tags_for_resource
  <1>3. CASE raises
    BY <1>1, <1>2, <1>3, RunFails
  <1>4. ASSUME ~raises PROVE IInv'
    <2>1. found \in Seq(Resource) /\ found # <<>>
      BY <1>1 DEF IsCall, FoundInv
    <2>2. /\ x0 \in Resource /\ Tail(found) \in Seq(Resource)
          /\ Range(found) = {x0} \union Range(Tail(found))
      <3>1. x0 = found[1]
        BY <2>1
      <3>2. QED
        BY <2>1, <3>1, TailIs
    <2>3. \A x \in Range(found) : Ever(x) /\ Data[x].service = "rds"
      BY <1>1 DEF FoundInv
    <2>4. Ever(x0) /\ d.service = "rds"
      BY <2>2, <2>3
    <2>5. r = CallOf("tags", found, r.first, r.tags, r.at, r.more) /\ r.at \in Nat
          /\ r.first \in Seq(Resource) /\ r.more \in BOOLEAN
      BY <1>1, CallShape DEF IsCall
    <2> DEFINE tagged == Append(r.tags, index)
    <2>6. /\ c = CallOf("tags", Tail(found), r.first, tagged, r.at, r.more)
          /\ again = CallOf("page", Tail(found), r.first, <<>>, r.at, r.more)
      <3> DEFINE t == "tags"
                 p == "page"
                 rest == Tail(found)
                 none == <<>>
                 c1 == [r EXCEPT !.found = rest]
                 c2 == [c1 EXCEPT !.tags = tagged]
                 c3 == [c2 EXCEPT !.pc = p]
                 c4 == [c3 EXCEPT !.tags = none]
      <3>1. c = c2 /\ again = c4
        OBVIOUS
      <3>2. r = CallOf(t, found, r.first, r.tags, r.at, r.more)
        BY <2>5
      <3> HIDE DEF c, again, t, p, rest, found, tagged, none, r
      <3>3. c1 = CallOf(t, rest, r.first, r.tags, r.at, r.more)
        BY <3>2 DEF CallOf
      <3> HIDE DEF c1
      <3>4. c2 = CallOf(t, rest, r.first, tagged, r.at, r.more)
        BY <3>3 DEF CallOf
      <3> HIDE DEF c2
      <3>5. c3 = CallOf(p, rest, r.first, tagged, r.at, r.more)
        BY <3>4 DEF CallOf
      <3> HIDE DEF c3
      <3>6. c4 = CallOf(p, rest, r.first, none, r.at, r.more)
        BY <3>5 DEF CallOf
      <3> HIDE DEF c4
      <3>7. QED
        BY <3>1, <3>4, <3>6 DEF t, p, rest, none
    <2> HIDE DEF c, again, tagged
    <2>7. /\ c.pc = "tags" /\ c.found = Tail(found) /\ c.at = r.at /\ c.more = r.more
          /\ again.pc = "page" /\ again.found = Tail(found) /\ again.at = r.at /\ again.more = r.more
          /\ IsCall(c) /\ IsCall(again)
      BY <2>2, <2>5, <2>6 DEF CallOf, IsCall
    <2>8. Good(j) /\ Keeps(inv, j) /\ (match /\ RdsWanted(conf, d) => FiledIn(j, e))
      <3>1. es \in Seq({e}) /\ Range(es) = IF RdsWanted(conf, d) THEN {e} ELSE {}
        BY RdsIs
      <3>2. Sound(e)
        BY <1>1, <2>2, <2>4, RdsSound
      <3> HIDE DEF es, e, match
      <3>3. CASE match
        <4>1. \A v \in Range(es) : Sound(v)
          BY <3>1, <3>2
        <4> DEFINE k == AddedAll(conf, inv, es)
        <4>2. Good(k) /\ Keeps(inv, k) /\ \A v \in Range(es) : FiledIn(k, v)
          BY <1>1, <3>1, <4>1, AllAddedGood
        <4> HIDE DEF k
        <4>3. j = k
          BY <3>3 DEF k
        <4> HIDE DEF j
        <4>4. QED
          BY <3>1, <4>2, <4>3
      <3>4. CASE ~match
        BY <1>1, <3>4
      <3>5. QED
        BY <3>3, <3>4
    <2>9. inv' = j
      BY <1>2, <1>4
    <2>10. e.host = RdsHost(conf, d, world[arn])
      BY DEF RdsEntry, Entry
    <2>11. conf.instance_filters = <<>> => match
      <3>1. DOMAIN <<>> = {}
        OBVIOUS
      <3>2. QED
        BY <3>1 DEF tags_match_filters
    <2> HIDE DEF j, e, match, es, raises, arn
    <2>12. run'.records = run.records
      <3>1. CASE c.found # <<>>
        BY <1>1, <1>2, <1>4, <3>1 DEF IsRun, Goes
      <3>2. CASE c.found = <<>> /\ c.more
        BY <1>1, <1>2, <1>4, <3>2 DEF IsRun, Goes
      <3>3. CASE c.found = <<>> /\ ~c.more
        BY <1>1, <1>2, <1>4, <3>3 DEF IsRun, Done
      <3>4. QED
        BY <3>1, <3>2, <3>3
    <2>13. \A x : Settled(x) => Settled(x)'
      BY <1>2, <2>8, <2>9, <2>12, SettledStays
    <2>14. \A x : x = x0 => Settled(x)'
      <3>1. ASSUME NEW x, x = x0 PROVE Settled(x)'
        <4>1. ASSUME NEW h \in MadeHosts(x) PROVE h \in DOMAIN j.index
          <5>1. conf.instance_filters = <<>> /\ RdsWanted(conf, d) /\ RdsHost(conf, d, world[arn]) = h
            BY <2>4, <3>1, RdsMade
          <5>2. QED
            BY <2>8, <2>10, <2>11, <5>1 DEF FiledIn
        <4>2. Data[x].service # "ec2"
          BY <2>4, <3>1
        <4>3. QED
          BY <1>2, <2>9, <2>12, <4>1, <4>2, SettledNow
      <3>2. QED
        BY <3>1
    <2>15. ASSUME NEW x \in Of("rds", Region), Steady(x), x <= r.at \/ ~r.more
           PROVE  Settled(x)' \/ x \in Range(Tail(found))
      <3>1. SoughtAt(x)
        BY <1>1, <2>15 DEF SoughtInv
      <3>2. Settled(x) \/ x \in Range(found)
        BY <1>1, <2>15, <3>1 DEF SoughtAt
      <3>3. QED
        BY <2>2, <2>13, <2>14, <3>2
    <2>16. CASE c.found # <<>>
      <3>1. run' = [run EXCEPT !.call = c]
        BY <1>2, <1>4, <2>16 DEF Goes
      <3>2. run'.call = c /\ run'.todo = run.todo
        BY <1>1, <3>1 DEF IsRun
      <3>3. FoundInv'
        BY <1>1, <1>2, <2>2, <2>3, <2>7, <2>16, <3>2 DEF FoundInv, Ever
      <3>4. TagsInv'
        BY <1>1, <3>2 DEF TagsInv
      <3>5. ASSUME NEW x \in Of("rds", Region), Steady(x) PROVE SoughtAt(x)'
        BY <1>1, <1>2, <2>7, <2>15, <3>2, <3>5 DEF SoughtAt
      <3>6. SoughtInv'
        BY <1>1, <1>2, <3>2, <3>5 DEF SoughtInv, Of, Steady
      <3>7. QED
        BY <1>1, <1>2, <2>7, <2>8, <2>9, <3>1, <3>3, <3>4, <3>6, CallGoesOn
    <2>17. CASE c.found = <<>> /\ c.more
      <3>1. run' = [run EXCEPT !.call = again]
        BY <1>2, <1>4, <2>17 DEF Goes
      <3>2. run'.call = again /\ run'.todo = run.todo
        BY <1>1, <3>1 DEF IsRun
      <3>3. FoundInv'
        BY <1>1, <1>2, <2>2, <2>3, <2>7, <3>2 DEF FoundInv, Ever
      <3>4. TagsInv'
        BY <1>1, <3>2 DEF TagsInv
      <3>5. Range(Tail(found)) = {}
        <4>1. Range(<<>>) = {}
          BY DEF Range
        <4>2. QED
          BY <2>7, <2>17, <4>1
      <3>6. ASSUME NEW x \in Of("rds", Region), Steady(x) PROVE SoughtAt(x)'
        BY <1>1, <1>2, <2>7, <2>15, <3>2, <3>5, <3>6 DEF SoughtAt
      <3>7. SoughtInv'
        BY <1>1, <1>2, <3>2, <3>6 DEF SoughtInv, Of, Steady
      <3>8. QED
        BY <1>1, <1>2, <2>7, <2>8, <2>9, <3>1, <3>3, <3>4, <3>7, CallGoesOn
    <2>18. CASE c.found = <<>> /\ ~c.more
      <3>1. DoneWith(run.account)
        BY <1>1, <1>2, <1>4, <2>18, DoneIs
      <3>2. Range(Tail(found)) = {}
        <4>1. Range(<<>>) = {}
          BY DEF Range
        <4>2. QED
          BY <2>7, <2>18, <4>1
      <3>3. \A x \in Of("rds", Region) : Data[x].service # "clusters"
        BY DEF Of
      <3>4. Settles(j)
        BY <1>1, <2>7, <2>15, <2>18, <3>2, <3>3 DEF Settles
      <3>5. QED
        BY <1>1, <1>2, <2>8, <2>9, <3>1, <3>4, CallIsDone
    <2>19. QED
      BY <2>16, <2>17, <2>18
  <1>5. QED
    BY <1>3, <1>4
-----------------------------------------------------------------------------
(* RDS clusters *)

\* A page of clusters more.
LEMMA DescribeDbClustersKeeps ==
    ASSUME IInv, describe_db_clusters
    PROVE  IInv'
  <1>1. /\ run.end = NIL /\ run.todo # <<>> /\ run.todo[1][1] = "clusters" /\ run.todo[1][1] # "route53"
        /\ run.call.pc = "ask" /\ Region = run.todo[1][2]
        /\ WorldInv /\ IsRun(run) /\ IsCall(run.call) /\ Good(inv) /\ Keeps(inv, inv)
        /\ FoundInv /\ TagsInv /\ SoughtInv /\ conf \in Settings
    BY AsksIs DEF describe_db_clusters
  <1> DEFINE listed == Listed("clusters", Region)
             there == {x \in Of("clusters", Region) : world[x] # NIL}
             r == run.call
             at == r.at
             page == Page(listed, at, PageSize)
             items == page.items
             more == page.more
             marker == Marker(items, at)
             found == r.found \o items
             next == IF more THEN "ask" ELSE "tags"
             c == [r EXCEPT !.found = found, !.at = marker, !.pc = next]
  <1>2. UNCHANGED <<conf, world, past, changes, inv>> /\ run' = [run EXCEPT !.call = c]
    BY DEF describe_db_clusters, Goes
  <1>3. /\ at \in Nat /\ r.first \in Seq(Resource) /\ r.found \in Seq(Resource) /\ r.more \in BOOLEAN
        /\ r = CallOf(r.pc, r.found, r.first, r.tags, at, r.more)
    BY <1>1, CallShape DEF IsCall
  <1>4. listed \in Seq(Resource) /\ Rising(listed) /\ Range(listed) = there
    BY ListedIs
  <1>5. PageSize \in Nat \ {0}
    BY FetchAssumption
  <1> HIDE DEF listed
  <1>6. /\ items \in Seq(Resource) /\ Range(items) \subseteq there /\ more \in BOOLEAN
        /\ \A x \in there : x > at /\ (items = <<>> \/ ~more) => x \in Range(items)
        /\ items # <<>> =>
              /\ Last(items) \in Resource
              /\ \A x \in there : x > at /\ x <= Last(items) => x \in Range(items)
    <2> HIDE DEF at, there
    <2>1. QED
      BY <1>3, <1>4, <1>5, PageIs
  <1> HIDE DEF page, items, more
  <1>7. (items # <<>> => marker = Last(items)) /\ (items = <<>> => marker = at) /\ marker \in Nat
    BY <1>3, <1>6, Numbered DEF Marker
  <1>8. found \in Seq(Resource) /\ Range(found) = Range(r.found) \union Range(items)
    BY <1>3, <1>6, RangeConcatenation
  <1>9. c = CallOf(next, found, r.first, r.tags, marker, r.more)
    <2> DEFINE c1 == [r EXCEPT !.found = found]
               c2 == [c1 EXCEPT !.at = marker]
               c3 == [c2 EXCEPT !.pc = next]
    <2>1. c = c3
      OBVIOUS
    <2> HIDE DEF c, next, at, marker, found, r
    <2>2. c1 = CallOf(r.pc, found, r.first, r.tags, at, r.more)
      BY <1>3 DEF CallOf
    <2> HIDE DEF c1
    <2>3. c2 = CallOf(r.pc, found, r.first, r.tags, marker, r.more)
      BY <2>2 DEF CallOf
    <2> HIDE DEF c2
    <2>4. c3 = CallOf(next, found, r.first, r.tags, marker, r.more)
      BY <2>3 DEF CallOf
    <2> HIDE DEF c3
    <2>5. QED
      BY <2>1, <2>4
  <1> HIDE DEF c, found
  <1>10. /\ c.found = found /\ c.at = marker /\ c.first = r.first
         /\ (more => c.pc = "ask") /\ (~more => c.pc = "tags") /\ IsCall(c)
    <2> HIDE DEF marker, at
    <2>1. more => next = "ask"
      OBVIOUS
    <2>2. ~more => next = "tags"
      OBVIOUS
    <2> HIDE DEF next
    <2>3. next \in {"ask", "page", "tags"}
      BY <1>6, <2>1, <2>2
    <2>4. QED
      BY <1>3, <1>6, <1>7, <1>8, <1>9, <2>1, <2>2, <2>3 DEF CallOf, IsCall
  <1>11. run'.call = c /\ run'.todo = run.todo
    BY <1>1, <1>2 DEF IsRun
  <1>12. FoundInv'
    <2>1. \A x \in there : Ever(x) /\ Data[x].service = "clusters"
      BY <1>1, ThereNow DEF Of
    <2>2. \A x \in Range(r.found) : Ever(x) /\ Data[x].service = "clusters"
      BY <1>1 DEF FoundInv
    <2>3. \A x \in Range(found) : Ever(x) /\ Data[x].service = "clusters"
      BY <1>6, <1>8, <2>1, <2>2
    <2>4. QED
      BY <1>1, <1>2, <1>10, <1>11, <2>3 DEF FoundInv, Ever
  <1>13. TagsInv'
    BY <1>1, <1>11 DEF TagsInv
  <1>14. ASSUME NEW x \in Of("clusters", Region), Steady(x), x <= marker \/ ~more
         PROVE  x \in Range(found)
    <2>1. SoughtAt(x) /\ x \in there
      BY <1>1, <1>14 DEF SoughtInv, Steady
    <2>2. x \in Nat
      BY Numbered DEF Of
    <2>3. CASE x <= at
      <3>1. x \in Range(r.found)
        BY <1>1, <2>1, <2>3 DEF SoughtAt
      <3>2. QED
        BY <1>8, <3>1
    <2>4. CASE ~(x <= at)
      <3>1. x > at
        <4> HIDE DEF at
        <4>1. QED
          BY <1>3, <2>2, <2>4
      <3>2. x \in Range(items)
        BY <1>6, <1>7, <1>14, <2>1, <2>4, <3>1
      <3>3. QED
        BY <1>8, <3>2
    <2>5. QED
      BY <2>3, <2>4
  <1>15. ASSUME NEW x \in Of("clusters", Region), Steady(x) PROVE SoughtAt(x)'
    <2>1. c.pc = "ask" => more
      BY <1>6, <1>10
    <2>2. c.pc = "tags" => ~more
      BY <1>6, <1>10
    <2>3. QED
      BY <1>1, <1>2, <1>10, <1>11, <1>14, <1>15, <2>1, <2>2 DEF SoughtAt
  <1>16. SoughtInv'
    BY <1>1, <1>2, <1>11, <1>15 DEF SoughtInv, Of, Steady
  <1>17. QED
    BY <1>1, <1>2, <1>10, <1>12, <1>13, <1>16, CallGoesOn

\* The next cluster is kept or not.
LEMMA ListTagsOfClusterKeeps ==
    ASSUME IInv, list_tags_of_cluster
    PROVE  IInv'
  <1>1. /\ run.end = NIL /\ run.todo # <<>> /\ run.todo[1][1] = "clusters" /\ run.todo[1][1] # "route53"
        /\ run.call.pc = "tags" /\ Region = run.todo[1][2]
        /\ WorldInv /\ IsRun(run) /\ IsCall(run.call) /\ Good(inv) /\ Keeps(inv, inv)
        /\ FoundInv /\ TagsInv /\ SoughtInv /\ conf \in Settings
    BY AsksIs DEF list_tags_of_cluster
  <1> DEFINE r == run.call
             found == r.found
             rest == Tail(found)
  <1>2. PICK x \in Range(found) : x = Head(found)
    <2>1. found \in Seq(Resource) /\ found # <<>>
      BY <1>1 DEF IsCall, list_tags_of_cluster
    <2>2. 1 \in DOMAIN found /\ Head(found) = found[1]
      BY <2>1
    <2>3. QED
      BY <2>2 DEF Range
  <1>3. PICK matches \in IF world[x] = NIL THEN {conf.instance_filters = <<>>}
                         ELSE cluster_matches(conf, world[x]) :
           run' = [run EXCEPT !.call = [r EXCEPT !.found = rest,
              !.first = IF matches /\ Data[x].members # {} THEN Append(r.first, x) ELSE r.first]]
    BY <1>2, Zenon DEF list_tags_of_cluster, Goes
  <1> DEFINE first == IF matches /\ Data[x].members # {} THEN Append(r.first, x) ELSE r.first
             c == [r EXCEPT !.found = rest, !.first = first]
  <1>4. UNCHANGED <<conf, world, past, changes, inv>> /\ run' = [run EXCEPT !.call = c]
    BY <1>3 DEF list_tags_of_cluster
  <1>5. found \in Seq(Resource) /\ found # <<>> /\ r.first \in Seq(Resource) /\ r.at \in Nat
        /\ r.more \in BOOLEAN /\ r = CallOf("tags", found, r.first, r.tags, r.at, r.more)
    BY <1>1, CallShape DEF IsCall, list_tags_of_cluster
  <1>6. rest \in Seq(Resource) /\ Range(found) = {x} \union Range(rest) /\ x \in Resource
    <2>1. x = found[1]
      BY <1>2, <1>5
    <2>2. QED
      BY <1>5, <2>1, TailIs
  <1>7. first \in Seq(Resource) /\ Range(r.first) \subseteq Range(first)
        /\ (matches /\ Data[x].members # {} => x \in Range(first))
    <2>1. CASE matches /\ Data[x].members # {}
      <3> DEFINE was == r.first
                 now == Append(was, x)
      <3>1. was \in Seq(Resource) /\ now \in Seq(Resource) /\ Len(now) = Len(was) + 1
            /\ (\A n \in 1 .. Len(was) : now[n] = was[n]) /\ now[Len(was) + 1] = x
        BY <1>5, <1>6
      <3>2. DOMAIN was = 1 .. Len(was) /\ DOMAIN now = 1 .. Len(was) + 1 /\ Len(was) \in Nat
        BY <3>1
      <3>3. first = now
        BY <2>1
      <3> HIDE DEF was, now
      <3>4. Range(was) \subseteq Range(now) /\ x \in Range(now)
        BY <3>1, <3>2 DEF Range
      <3>5. QED
        BY <3>1, <3>3, <3>4 DEF was
    <2>2. CASE ~(matches /\ Data[x].members # {})
      BY <1>5, <2>2
    <2>3. QED
      BY <2>1, <2>2
  <1> HIDE DEF first
  <1>8. c = CallOf("tags", rest, first, r.tags, r.at, r.more)
    <2> DEFINE t == "tags"
               c1 == [r EXCEPT !.found = rest]
               c2 == [c1 EXCEPT !.first = first]
    <2>1. c = c2
      OBVIOUS
    <2>2. r = CallOf(t, found, r.first, r.tags, r.at, r.more)
      BY <1>5
    <2> HIDE DEF c, t, rest, found, r
    <2>3. c1 = CallOf(t, rest, r.first, r.tags, r.at, r.more)
      BY <2>2 DEF CallOf
    <2> HIDE DEF c1
    <2>4. c2 = CallOf(t, rest, first, r.tags, r.at, r.more)
      BY <2>3 DEF CallOf
    <2> HIDE DEF c2
    <2>5. QED
      BY <2>1, <2>4 DEF t
  <1> HIDE DEF c
  <1>9. c.pc = "tags" /\ c.found = rest /\ c.first = first /\ IsCall(c)
    BY <1>5, <1>6, <1>7, <1>8 DEF CallOf, IsCall
  <1>10. run'.call = c /\ run'.todo = run.todo
    BY <1>1, <1>4 DEF IsRun
  <1>11. FoundInv'
    <2>1. \A y \in Range(found) : Ever(y) /\ Data[y].service = "clusters"
      BY <1>1 DEF FoundInv
    <2>2. QED
      BY <1>1, <1>4, <1>6, <1>9, <1>10, <2>1 DEF FoundInv, Ever
  <1>12. TagsInv'
    BY <1>1, <1>10 DEF TagsInv
  <1>13. ASSUME NEW y \in Of("clusters", Region), Steady(y), WantedCluster(y)
         PROVE  y \in Range(rest) \union Range(first)
    <2>1. SoughtAt(y)
      BY <1>1, <1>13 DEF SoughtInv
    <2>2. y \in Range(found) \union Range(r.first)
      BY <1>1, <1>13, <2>1 DEF SoughtAt
    <2>3. ASSUME y = x PROVE matches /\ Data[x].members # {}
      <3>1. world[x] # NIL /\ cluster_matches(conf, world[x]) = {TRUE} /\ Data[x].members # {}
        BY <1>13, <2>3, Zenon DEF WantedCluster, Steady
      <3>2. matches \in {TRUE}
        BY <3>1
      <3>3. QED
        BY <3>1, <3>2
    <2>4. QED
      BY <1>6, <1>7, <2>2, <2>3
  <1>14. ASSUME NEW y \in Of("clusters", Region), Steady(y) PROVE SoughtAt(y)'
    <2>1. WantedCluster(y)' = WantedCluster(y)
      BY <1>4 DEF WantedCluster
    <2>2. QED
      BY <1>1, <1>4, <1>9, <1>10, <1>13, <1>14, <2>1 DEF SoughtAt
  <1>15. SoughtInv'
    BY <1>1, <1>4, <1>10, <1>14 DEF SoughtInv, Of, Steady
  <1>16. QED
    BY <1>1, <1>4, <1>9, <1>11, <1>12, <1>15, CallGoesOn

\* The clusters of the region are all there.
LEMMA IncludeRdsClustersKeeps ==
    ASSUME IInv, include_rds_clusters_by_region
    PROVE  IInv'
  <1>1. /\ run.end = NIL /\ run.todo # <<>> /\ run.todo[1][1] = "clusters" /\ run.todo[1][1] # "route53"
        /\ run.call.pc = "tags" /\ Region = run.todo[1][2]
        /\ WorldInv /\ IsRun(run) /\ IsCall(run.call) /\ Good(inv) /\ Keeps(inv, inv)
        /\ FoundInv /\ TagsInv /\ SoughtInv /\ conf \in Settings
    BY AsksIs DEF include_rds_clusters_by_region
  <1> DEFINE kept == Range(run.call.first)
             j == [inv EXCEPT !.db_clusters = kept]
  <1>2. /\ UNCHANGED <<conf, world, past, changes>> /\ inv' = j /\ DoneWith(run.account)
        /\ run.call.found = <<>>
    BY <1>1, DoneIs DEF include_rds_clusters_by_region
  <1>3. kept \subseteq Resource
    BY <1>1, RangeOfSeq DEF IsCall
  <1> HIDE DEF kept
  <1>4. j = [members |-> inv.members, children |-> inv.children, hostvars |-> inv.hostvars,
             index |-> inv.index, db_clusters |-> kept]
    BY <1>1 DEF Good, IsInventory
  <1> HIDE DEF j
  <1>5. Good(j) /\ Keeps(inv, j)
    <2>1. j.members = inv.members /\ j.children = inv.children /\ j.hostvars = inv.hostvars
          /\ j.index = inv.index /\ j.db_clusters = kept
      BY <1>4
    <2>2. IsInventory(j)
      BY <1>1, <1>3, <1>4 DEF Good, IsInventory
    <2>3. Known(j) /\ Resolves(j) /\ Tagged(j)
      BY <1>1, <2>1 DEF Good, Known, Resolves, Tagged
    <2>4. QED
      BY <2>1, <2>2, <2>3 DEF Good, Keeps
  <1>6. run'.records = run.records
    BY <1>1, <1>2 DEF IsRun, DoneWith
  <1>7. ASSUME NEW x \in Of("clusters", Region) PROVE Settled(x)'
    <2>1. Data[x].service = "clusters"
      BY DEF Of
    <2>2. Entries(x) = <<>>
      <3> DEFINE s == Data[x].service
      <3>1. s # "ec2" /\ s # "rds" /\ s # "cache" /\ s # "replication"
        BY <2>1
      <3>2. QED
        BY <3>1, Zenon DEF Entries
    <2>3. MadeHosts(x) = {}
      <3>1. Range(<<>>) = {}
        BY DEF Range
      <3>2. QED
        BY <2>2, <3>1 DEF MadeHosts
    <2>4. QED
      BY <1>2, <1>6, <2>3, SettledNow
  <1>8. ASSUME NEW x \in Of("clusters", Region), Steady(x), WantedCluster(x) PROVE x \in j.db_clusters
    <2>1. SoughtAt(x)
      BY <1>1, <1>8 DEF SoughtInv
    <2>2. x \in Range(run.call.found) \union kept
      BY <1>1, <1>8, <2>1 DEF SoughtAt, kept
    <2>3. Range(<<>>) = {}
      BY DEF Range
    <2>4. QED
      BY <1>2, <1>4, <2>2, <2>3
  <1>9. Settles(j)
    BY <1>1, <1>7, <1>8 DEF Settles
  <1>10. QED
    BY <1>1, <1>2, <1>5, <1>9, CallIsDone
-----------------------------------------------------------------------------
(* ElastiCache *)

\* An answer whose entries are all sound is filed, each of them.
LEMMA AnswerFiled ==
    ASSUME Good(inv), NEW items \in Seq(Resource), NEW parts, DOMAIN parts = DOMAIN items,
           parts = [n \in DOMAIN items |-> parts[n]],
           \A n \in DOMAIN items :
              (\E S : parts[n] \in Seq(S)) /\ \A e \in Range(parts[n]) : Sound(e)
    PROVE  LET j == AddedAll(conf, inv, Concat(parts))
           IN  /\ Good(j) /\ Keeps(inv, j)
               /\ \A n \in DOMAIN items : \A e \in Range(parts[n]) : FiledIn(j, e)
  <1> DEFINE T == UNION {Range(parts[n]) : n \in DOMAIN items}
             all == Concat(parts)
             j == AddedAll(conf, inv, all)
  <1>1. \A n \in DOMAIN items : parts[n] \in Seq(T)
    <2>1. ASSUME NEW n \in DOMAIN items PROVE parts[n] \in Seq(T)
      <3> DEFINE p == parts[n]
      <3>1. PICK S : p \in Seq(S)
        OBVIOUS
      <3>2. p \in Seq(Range(p))
        BY <3>1, SeqOfRange
      <3>3. Range(p) \subseteq T
        OBVIOUS
      <3> HIDE DEF p, T
      <3>4. p \in Seq(T)
        BY <3>2, <3>3
      <3>5. QED
        BY <3>4 DEF p
    <2>2. QED
      BY <2>1
  <1>2. \A e \in T : Sound(e)
    OBVIOUS
  <1> HIDE DEF T
  <1>3. parts \in Seq(Seq(T))
    <2>1. DOMAIN items = 1 .. Len(items) /\ Len(items) \in Nat
      OBVIOUS
    <2>2. QED
      BY <1>1, <2>1
  <1>4. all \in Seq(T) /\ Range(all) = UNION {Range(parts[n]) : n \in DOMAIN parts}
    BY <1>3, ConcatCollects
  <1> HIDE DEF all
  <1>5. \A e \in Range(all) : Sound(e)
    BY <1>2, <1>4, RangeOfSeq
  <1>6. Good(j) /\ Keeps(inv, j) /\ \A e \in Range(all) : FiledIn(j, e)
    BY <1>4, <1>5, AllAddedGood
  <1> HIDE DEF j
  <1>7. \A n \in DOMAIN items : \A e \in Range(parts[n]) : FiledIn(j, e)
    BY <1>4, <1>6
  <1>8. QED
    BY <1>6, <1>7 DEF j, all

\* Then every resource of the region that is filed so is settled.
LEMMA AnswerSettles ==
    ASSUME IInv, run.todo # <<>>, NEW service \in {"cache", "replication"},
           run.todo[1][1] = service, Region = run.todo[1][2],
           UNCHANGED <<conf, world>>, run'.records = run.records, NEW j, inv' = j,
           \A x \in Of(service, Region) : world[x] # NIL => \A e \in Range(Entries(x)) : FiledIn(j, e)
    PROVE  Settles(j)
  <1>1. service # "clusters" /\ service # "ec2"
    OBVIOUS
  <1>2. ASSUME NEW x \in Of(service, Region), Steady(x) PROVE Settled(x)'
    <2>1. Data[x].service # "ec2"
      BY <1>1 DEF Of
    <2>2. ASSUME NEW h \in MadeHosts(x) PROVE h \in DOMAIN j.index
      <3>1. PICK e \in Range(Entries(x)) : h = e.host
        BY DEF MadeHosts
      <3>2. FiledIn(j, e)
        BY <1>2 DEF Steady
      <3>3. QED
        BY <3>1, <3>2 DEF FiledIn
    <2>3. QED
      BY <2>1, <2>2, SettledNow
  <1>3. \A x \in Of(service, Region) : Data[x].service # "clusters"
    BY <1>1 DEF Of
  <1>4. QED
    BY <1>2, <1>3 DEF Settles

\* The clusters of ElastiCache, in one answer.
LEMMA DescribeCacheClustersKeeps ==
    ASSUME IInv, describe_cache_clusters
    PROVE  IInv'
  <1> DEFINE service == "cache"
  <1>1. /\ run.end = NIL /\ run.todo # <<>> /\ run.todo[1][1] = service /\ run.todo[1][1] # "route53"
        /\ run.call.pc = "ask" /\ Region = run.todo[1][2]
        /\ WorldInv /\ IsRun(run) /\ IsCall(run.call) /\ Good(inv) /\ Keeps(inv, inv)
        /\ FoundInv /\ TagsInv /\ SoughtInv /\ conf \in Settings
    BY AsksIs DEF describe_cache_clusters
  <1> DEFINE items == Page(Listed("cache", Region), 0, CachePage).items
             part(x) == add_elasticache_cluster(conf, Data[x])
             parts == [n \in DOMAIN items |-> add_elasticache_cluster(conf, Data[items[n]])]
             j == AddedAll(conf, inv, Concat(parts))
             raises == \E x \in Range(items) : add_elasticache_cluster_raises(conf, Data[x])
  <1>2. /\ UNCHANGED <<conf, world, past, changes>>
        /\ raises => Raises /\ UNCHANGED inv
        /\ ~raises => inv' = j /\ Done
    BY Zenon DEF describe_cache_clusters
  <1>3. /\ items \in Seq(Resource)
        /\ Range(items) \subseteq {x \in Of(service, Region) : world[x] # NIL}
        /\ \A x \in Of(service, Region) : world[x] # NIL /\ OnePage(x) => x \in Range(items)
    BY AnswerIsWhole
  <1>4. CASE raises
    BY <1>1, <1>2, <1>4, RunFails
  <1>5. ASSUME ~raises PROVE IInv'
    <2> HIDE DEF raises, items
    <2>1. ASSUME NEW x \in Of(service, Region), world[x] # NIL
          PROVE  /\ Entries(x) = IF OnePage(x) THEN part(x) ELSE <<>>
                 /\ (\E S : part(x) \in Seq(S))
                 /\ \A e \in Range(part(x)) : Sound(e)
      <3>1. x \in Resource /\ Data[x].service = "cache"
        BY DEF Of
      <3>2. Ever(x)
        BY <1>1, <2>1, <3>1, ThereNow
      <3>3. (\E S : part(x) \in Seq(S)) /\ \A e \in Range(part(x)) : Sound(e)
        BY <1>1, <3>1, <3>2, ClusterEntriesSound
      <3>4. Data[x].service # "ec2" /\ Data[x].service # "rds"
        BY <3>1
      <3>5. Entries(x) = IF OnePage(x) THEN part(x) ELSE <<>>
        BY <3>1, <3>4, Zenon DEF Entries
      <3>6. QED
        BY <3>3, <3>5
    <2>2. ASSUME NEW n \in DOMAIN items
          PROVE  items[n] \in Of(service, Region) /\ world[items[n]] # NIL /\ parts[n] = part(items[n])
      BY <1>3 DEF Range
    <2>3. DOMAIN parts = DOMAIN items /\ parts = [n \in DOMAIN items |-> parts[n]]
      OBVIOUS
    <2> HIDE DEF part, parts, service
    <2>4. \A n \in DOMAIN items :
             (\E S : parts[n] \in Seq(S)) /\ \A e \in Range(parts[n]) : Sound(e)
      BY <2>1, <2>2
    <2>5. /\ Good(j) /\ Keeps(inv, j)
          /\ \A n \in DOMAIN items : \A e \in Range(parts[n]) : FiledIn(j, e)
      BY <1>1, <1>3, <2>3, <2>4, AnswerFiled
    <2> HIDE DEF j
    <2>6. ASSUME NEW x \in Of(service, Region), world[x] # NIL, NEW e \in Range(Entries(x))
          PROVE  FiledIn(j, e)
      <3>1. OnePage(x) /\ x \in Range(items)
        BY <1>3, <2>1, <2>6 DEF Range
      <3>2. PICK n \in DOMAIN items : x = items[n]
        BY <3>1 DEF Range
      <3>3. Entries(x) = parts[n]
        BY <2>1, <2>2, <2>6, <3>1, <3>2
      <3>4. QED
        BY <2>5, <2>6, <3>3
    <2>7. run'.records = run.records
      BY <1>1, <1>2, <1>5 DEF IsRun, Done
    <2>8. service \in {"cache", "replication"}
      BY DEF service
    <2>9. Settles(j)
      BY <1>1, <1>2, <1>5, <2>6, <2>7, <2>8, AnswerSettles
    <2>10. DoneWith(run.account)
      BY <1>1, <1>2, <1>5, DoneIs
    <2>11. QED
      BY <1>1, <1>2, <1>5, <2>5, <2>9, <2>10, CallIsDone
  <1>6. QED
    BY <1>4, <1>5

\* The replication groups, in one answer.
LEMMA DescribeReplicationGroupsKeeps ==
    ASSUME IInv, describe_replication_groups
    PROVE  IInv'
  <1> DEFINE service == "replication"
  <1>1. /\ run.end = NIL /\ run.todo # <<>> /\ run.todo[1][1] = service /\ run.todo[1][1] # "route53"
        /\ run.call.pc = "ask" /\ Region = run.todo[1][2]
        /\ WorldInv /\ IsRun(run) /\ IsCall(run.call) /\ Good(inv) /\ Keeps(inv, inv)
        /\ FoundInv /\ TagsInv /\ SoughtInv /\ conf \in Settings
    BY AsksIs DEF describe_replication_groups
  <1> DEFINE items == Page(Listed("replication", Region), 0, CachePage).items
             part(x) == add_elasticache_replication_group(conf, Data[x])
             parts == [n \in DOMAIN items |-> add_elasticache_replication_group(conf, Data[items[n]])]
             j == AddedAll(conf, inv, Concat(parts))
             raises == \E x \in Range(items) : add_elasticache_replication_group_raises(conf, Data[x])
  <1>2. /\ UNCHANGED <<conf, world, past, changes>>
        /\ raises => Raises /\ UNCHANGED inv
        /\ ~raises => inv' = j /\ Done
    BY Zenon DEF describe_replication_groups
  <1>3. /\ items \in Seq(Resource)
        /\ Range(items) \subseteq {x \in Of(service, Region) : world[x] # NIL}
        /\ \A x \in Of(service, Region) : world[x] # NIL /\ OnePage(x) => x \in Range(items)
    BY AnswerIsWhole
  <1>4. CASE raises
    BY <1>1, <1>2, <1>4, RunFails
  <1>5. ASSUME ~raises PROVE IInv'
    <2> HIDE DEF raises, items
    <2>1. ASSUME NEW x \in Of(service, Region), world[x] # NIL
          PROVE  /\ Entries(x) = IF OnePage(x) THEN part(x) ELSE <<>>
                 /\ (\E S : part(x) \in Seq(S))
                 /\ \A e \in Range(part(x)) : Sound(e)
      <3>1. x \in Resource /\ Data[x].service = "replication"
        BY DEF Of
      <3>2. Ever(x)
        BY <1>1, <2>1, <3>1, ThereNow
      <3>3. (\E S : part(x) \in Seq(S)) /\ \A e \in Range(part(x)) : Sound(e)
        BY <1>1, <3>1, <3>2, ReplicationEntriesSound
      <3>4. Data[x].service # "ec2" /\ Data[x].service # "rds" /\ Data[x].service # "cache"
        BY <3>1
      <3>5. Entries(x) = IF OnePage(x) THEN part(x) ELSE <<>>
        BY <3>1, <3>4, Zenon DEF Entries
      <3>6. QED
        BY <3>3, <3>5
    <2>2. ASSUME NEW n \in DOMAIN items
          PROVE  items[n] \in Of(service, Region) /\ world[items[n]] # NIL /\ parts[n] = part(items[n])
      BY <1>3 DEF Range
    <2>3. DOMAIN parts = DOMAIN items /\ parts = [n \in DOMAIN items |-> parts[n]]
      OBVIOUS
    <2> HIDE DEF part, parts, service
    <2>4. \A n \in DOMAIN items :
             (\E S : parts[n] \in Seq(S)) /\ \A e \in Range(parts[n]) : Sound(e)
      BY <2>1, <2>2
    <2>5. /\ Good(j) /\ Keeps(inv, j)
          /\ \A n \in DOMAIN items : \A e \in Range(parts[n]) : FiledIn(j, e)
      BY <1>1, <1>3, <2>3, <2>4, AnswerFiled
    <2> HIDE DEF j
    <2>6. ASSUME NEW x \in Of(service, Region), world[x] # NIL, NEW e \in Range(Entries(x))
          PROVE  FiledIn(j, e)
      <3>1. OnePage(x) /\ x \in Range(items)
        BY <1>3, <2>1, <2>6 DEF Range
      <3>2. PICK n \in DOMAIN items : x = items[n]
        BY <3>1 DEF Range
      <3>3. Entries(x) = parts[n]
        BY <2>1, <2>2, <2>6, <3>1, <3>2
      <3>4. QED
        BY <2>5, <2>6, <3>3
    <2>7. run'.records = run.records
      BY <1>1, <1>2, <1>5 DEF IsRun, Done
    <2>8. service \in {"cache", "replication"}
      BY DEF service
    <2>9. Settles(j)
      BY <1>1, <1>2, <1>5, <2>6, <2>7, <2>8, AnswerSettles
    <2>10. DoneWith(run.account)
      BY <1>1, <1>2, <1>5, DoneIs
    <2>11. QED
      BY <1>1, <1>2, <1>5, <2>5, <2>9, <2>10, CallIsDone
  <1>6. QED
    BY <1>4, <1>5
-----------------------------------------------------------------------------
(* The end, and what AWS does *)

\* A run that ends without an error has nothing left to ask for.
LEMMA WriteToCacheKeeps ==
    ASSUME IInv, write_to_cache
    PROVE  IInv'
  <1>1. /\ WorldInv /\ IsRun(run) /\ IsCall(run.call) /\ Good(inv) /\ DoneInv /\ ClustersInv
        /\ FoundInv /\ TagsInv /\ SoughtInv /\ Keeps(inv, inv)
    BY DEF IInv, TypeInv, Good, Keeps
  <1>2. /\ run.end = NIL /\ run.todo = <<>> /\ run' = [run EXCEPT !.end = "written"]
        /\ UNCHANGED <<conf, world, past, changes, inv>>
    BY DEF write_to_cache
  <1>3. run' = [todo |-> <<>>, call |-> run.call, records |-> run.records, account |-> run.account,
                end |-> "written"]
    BY <1>1, <1>2 DEF IsRun
  <1>4. WorldInv' /\ \A x \in Resource : world[x] \in past[x] /\ past[x] \subseteq past'[x]
    BY <1>1, <1>2, WorldStays
  <1>5. IsInventory(inv)' /\ Known(inv)' /\ Resolves(inv)' /\ Tagged(inv)'
    BY <1>1, <1>2, <1>3, <1>4, GoodStays
  <1>6. IsRun(run)' /\ IsCall(run.call)'
    BY <1>1, <1>3 DEF IsRun, IsCall
  <1>7. TodoInv' /\ FoundInv' /\ TagsInv' /\ SoughtInv'
    BY <1>3 DEF TodoInv, FoundInv, TagsInv, SoughtInv
  <1>8. DoneInv'
    <2>1. ASSUME NEW x \in Resource, Steady(x)', Asked(x)' PROVE Settled(x)'
      <3>1. Steady(x) /\ Asked(x)
        BY <1>2, <2>1 DEF Steady, Asked
      <3>2. <<Data[x].service, Data[x].region>> \notin Range(<<>>)
        BY DEF Range
      <3>3. Settled(x)
        BY <1>1, <1>2, <3>1, <3>2, NotFailed DEF DoneInv
      <3>4. QED
        BY <1>1, <1>2, <1>3, <3>3, SettledStays
    <2>2. QED
      BY <2>1 DEF DoneInv
  <1>9. ClustersInv'
    <2>1. \A x : Steady(x)' = Steady(x) /\ WantedCluster(x)' = WantedCluster(x)
      BY <1>2 DEF Steady, WantedCluster
    <2>2. run.end # "failed"
      BY <1>2, NotFailed
    <2>3. QED
      BY <1>1, <1>2, <2>1, <2>2 DEF ClustersInv
  <1>10. QED
    BY <1>4, <1>5, <1>6, <1>7, <1>8, <1>9 DEF IInv, TypeInv

\* What does not change has not changed.
LEMMA SteadyWas ==
    ASSUME WorldInv, NEW x \in Resource, NEW to, Change(x, to)
    PROVE  /\ WorldInv'
           /\ \A y \in Resource : /\ world[y] \in past[y] /\ past[y] \subseteq past'[y]
                                  /\ Ever(y) => Ever(y)'
                                  /\ Steady(y)' => Steady(y) /\ world'[y] = world[y]
  <1>1. /\ world[x] # to /\ changes < MaxChanges /\ changes' = changes + 1
        /\ world' = [world EXCEPT ![x] = to] /\ past' = [past EXCEPT ![x] = past[x] \union {to}]
        /\ UNCHANGED <<conf, run, inv>>
    BY DEF Change
  <1>2. /\ world = [y \in Resource |-> world[y]] /\ past = [y \in Resource |-> past[y]]
        /\ \A y \in Resource : world[y] \in past[y]
        /\ changes \in 0 .. MaxChanges /\ conf \in Settings
    BY DEF WorldInv
  <1>3. /\ world'[x] = to /\ past'[x] = past[x] \union {to}
        /\ \A y \in Resource \ {x} : world'[y] = world[y] /\ past'[y] = past[y]
    BY <1>1, <1>2
  <1>4. changes' \in 0 .. MaxChanges
    BY <1>1, <1>2, FetchAssumption
  <1>5. WorldInv'
    <2>1. world' = [y \in Resource |-> world'[y]] /\ past' = [y \in Resource |-> past'[y]]
      BY <1>1, <1>2
    <2>2. QED
      BY <1>1, <1>2, <1>3, <1>4, <2>1 DEF WorldInv
  <1>6. ASSUME NEW y \in Resource
        PROVE  /\ past[y] \subseteq past'[y] /\ (Ever(y) => Ever(y)')
               /\ Steady(y)' => Steady(y) /\ world'[y] = world[y]
    <2>1. CASE y = x
      <3>1. past[y] \subseteq past'[y]
        BY <1>3, <2>1
      <3>2. past'[y] # {world'[y]}
        BY <1>1, <1>2, <1>3, <2>1
      <3>3. QED
        BY <1>2, <3>1, <3>2 DEF Ever, Steady
    <2>2. CASE y # x
      BY <1>3, <2>2 DEF Ever, Steady
    <2>3. QED
      BY <2>1, <2>2
  <1>7. QED
    BY <1>2, <1>5, <1>6

\* Whatever changes, what is promised of what does not stays.
LEMMA ChangeKeeps ==
    ASSUME IInv, NEW x \in Resource, NEW to, Change(x, to)
    PROVE  IInv'
  <1>1. /\ WorldInv /\ IsRun(run) /\ IsCall(run.call) /\ Good(inv) /\ TodoInv /\ DoneInv /\ ClustersInv
        /\ FoundInv /\ TagsInv /\ SoughtInv /\ Keeps(inv, inv)
    BY DEF IInv, TypeInv, Good, Keeps
  <1>2. UNCHANGED <<conf, run, inv>>
    BY DEF Change
  <1>3. /\ WorldInv'
        /\ \A y \in Resource : /\ world[y] \in past[y] /\ past[y] \subseteq past'[y]
                               /\ Ever(y) => Ever(y)'
                               /\ Steady(y)' => Steady(y) /\ world'[y] = world[y]
    BY <1>1, SteadyWas
  <1>4. IsInventory(inv)' /\ Known(inv)' /\ Resolves(inv)' /\ Tagged(inv)'
    BY <1>1, <1>2, <1>3, GoodStays
  <1>5. IsRun(run)' /\ IsCall(run.call)'
    <2>1. Calls' = Calls
      BY <1>2 DEF Calls
    <2>2. IsRun(run)'
      BY <1>1, <1>2, <2>1 DEF IsRun
    <2>3. QED
      BY <1>1, <1>2, <2>2 DEF IsCall
  <1>6. TodoInv'
    BY <1>1, <1>2 DEF TodoInv
  <1>7. FoundInv'
    <2>1. Range(run.call.found) \subseteq Resource
      BY <1>1, RangeOfSeq DEF IsCall
    <2>2. QED
      BY <1>1, <1>2, <1>3, <2>1 DEF FoundInv
  <1>8. TagsInv'
    <2>1. ASSUME run.todo # <<>>, run.todo[1][1] = "ec2"
          PROVE  /\ \A y \in DOMAIN run.call.tags : y \in Resource /\ run.call.tags[y] \in past'[y] \ {NIL}
                 /\ run.call.pc = "tags" =>
                       \A k \in DOMAIN run.call.found :
                          k <= run.call.at /\ Steady(run.call.found[k])' =>
                             /\ run.call.found[k] \in DOMAIN run.call.tags
                             /\ run.call.tags[run.call.found[k]] = world'[run.call.found[k]]
      <3>1. \A y \in DOMAIN run.call.tags : y \in Resource /\ run.call.tags[y] \in past[y] \ {NIL}
        BY <1>1, <2>1 DEF TagsInv
      <3>2. ASSUME run.call.pc = "tags", NEW k \in DOMAIN run.call.found, k <= run.call.at,
                   NEW y, y = run.call.found[k], Steady(y)'
            PROVE  y \in DOMAIN run.call.tags /\ run.call.tags[y] = world'[y]
        <4>1. y \in Resource
          BY <1>1, <3>2 DEF IsCall
        <4>2. Steady(y) /\ world'[y] = world[y]
          BY <1>3, <3>2, <4>1
        <4>3. QED
          BY <1>1, <2>1, <3>2, <4>2 DEF TagsInv
      <3>3. \A k \in DOMAIN run.call.found : Steady(run.call.found[k])' =
               \E y : y = run.call.found[k] /\ Steady(y)'
        BY <1>2 DEF Steady
      <3>4. QED
        BY <1>3, <3>1, <3>2, <3>3
    <2>2. QED
      BY <1>2, <2>1 DEF TagsInv
  <1>9. ASSUME NEW y \in Resource, Steady(y)'
        PROVE  /\ Steady(y) /\ world'[y] = world[y] /\ (Settled(y) => Settled(y)')
               /\ WantedCluster(y)' = WantedCluster(y)
    <2>1. Steady(y) /\ world'[y] = world[y]
      BY <1>3, <1>9
    <2>2. Settled(y) => Settled(y)'
      BY <1>1, <1>2, <2>1, SettledStays
    <2>3. WantedCluster(y)' = WantedCluster(y)
      BY <1>2, <2>1 DEF WantedCluster
    <2>4. QED
      BY <2>1, <2>2, <2>3
  <1>10. ASSUME NEW y \in Resource, Steady(y)', SoughtAt(y) PROVE SoughtAt(y)'
    BY <1>2, <1>9, <1>10 DEF SoughtAt
  <1>11. SoughtInv'
    <2>1. \A a, b : Of(a, b) \subseteq Resource
      BY DEF Of
    <2>2. QED
      BY <1>1, <1>2, <1>9, <1>10, <2>1 DEF SoughtInv
  <1>12. DoneInv'
    <2>1. \A y : Asked(y)' = Asked(y)
      BY <1>2 DEF Asked
    <2>2. QED
      BY <1>1, <1>2, <1>9, <2>1 DEF DoneInv
  <1>13. ClustersInv'
    <2>1. \A a, b : Of(a, b) \subseteq Resource
      BY DEF Of
    <2>2. QED
      BY <1>1, <1>2, <1>9, <2>1 DEF ClustersInv
  <1>14. QED
    BY <1>3, <1>4, <1>5, <1>6, <1>7, <1>8, <1>11, <1>12, <1>13 DEF IInv, TypeInv
-----------------------------------------------------------------------------
(* What follows *)

\* A run starts with the invariant.
LEMMA InitHasIt == Init => IInv
  <1> SUFFICES ASSUME Init PROVE IInv
    OBVIOUS
  <1> DEFINE calls == do_api_calls_update_cache(conf)
  <1>1. /\ conf \in Settings /\ changes = 0 /\ inv = EmptyInventory
        /\ world = [x \in Resource |-> IF x \in Late THEN NIL ELSE FirstTags[x]]
        /\ past = [x \in Resource |-> {world[x]}]
        /\ run = [todo |-> calls, call |-> NoCall, records |-> <<>>, account |-> NIL, end |-> NIL]
    BY DEF Init
  <1>2. /\ calls \in Seq(Calls)
        /\ \A n \in DOMAIN calls : calls[n][1] = "route53" => n = 1
        /\ conf.include_rds_clusters /\ regions(conf) # <<>> =>
              calls # <<>> /\ Last(calls) = <<"clusters", Last(regions(conf))>>
    BY <1>1, CallsAre
  <1> HIDE DEF calls
  <1>3. run.todo = calls /\ run.call = NoCall /\ run.end = NIL
    BY <1>1
  <1>4. WorldInv
    <2>1. 0 \in 0 .. MaxChanges
      BY FetchAssumption
    <2>2. QED
      BY <1>1, <2>1 DEF WorldInv
  <1>5. IsRun(run)
    BY <1>1, <1>2 DEF IsRun
  <1>6. IsCall(run.call) /\ FoundInv /\ TagsInv /\ SoughtInv
    BY <1>1, <1>3, FreshCallNow
  <1>7. IsInventory(inv) /\ Known(inv) /\ Resolves(inv) /\ Tagged(inv)
    BY <1>1, EmptyIsGood DEF Good
  <1>8. TodoInv
    BY <1>1, <1>2, <1>3 DEF TodoInv, calls
  <1>9. DoneInv
    BY <1>3 DEF DoneInv, Asked, calls
  <1>10. ClustersInv
    BY <1>2, <1>3 DEF ClustersInv
  <1>11. QED
    BY <1>4, <1>5, <1>6, <1>7, <1>8, <1>9, <1>10 DEF IInv, TypeInv

\* Every step keeps it.
LEMMA NextKeepsIt == IInv /\ [Next]_vars => IInv'
  <1> SUFFICES ASSUME IInv, [Next]_vars PROVE IInv'
    OBVIOUS
  <1>1. CASE Requests
    <2>1. CASE fail_with_error
      BY <2>1, RunFails DEF fail_with_error
    <2>2. CASE write_to_cache
      BY <2>2, WriteToCacheKeeps
    <2>3. CASE get_route53_records
      BY <2>3, Route53Keeps
    <2>4. CASE get_all_instances
      BY <2>4, GetAllInstancesKeeps
    <2>5. CASE get_all_tags
      BY <2>5, GetAllTagsKeeps
    <2>6. CASE add_instances
      BY <2>6, AddInstancesKeeps
    <2>7. CASE describe_db_instances
      BY <2>7, DescribeDbInstancesKeeps
    <2>8. CASE get_all_dbinstances
      BY <2>8, GetAllDbinstancesKeeps
    <2>9. CASE list_tags_for_resource
      BY <2>9, ListTagsForResourceKeeps
    <2>10. CASE describe_db_clusters
      BY <2>10, DescribeDbClustersKeeps
    <2>11. CASE list_tags_of_cluster
      BY <2>11, ListTagsOfClusterKeeps
    <2>12. CASE include_rds_clusters_by_region
      BY <2>12, IncludeRdsClustersKeeps
    <2>13. CASE describe_cache_clusters
      BY <2>13, DescribeCacheClustersKeeps
    <2>14. CASE describe_replication_groups
      BY <2>14, DescribeReplicationGroupsKeeps
    <2>15. QED
      BY <1>1, <2>1, <2>2, <2>3, <2>4, <2>5, <2>6, <2>7, <2>8, <2>9, <2>10, <2>11, <2>12, <2>13,
         <2>14, Zenon DEF Requests
  <1>2. CASE Changing
    <2>1. PICK x \in Resource : \E to : Change(x, to)
      BY <1>2, Zenon DEF Changing, Create, Delete, Retag
    <2>2. QED
      BY <2>1, ChangeKeeps
  <1>3. CASE UNCHANGED vars
    <2>1. UNCHANGED <<conf, world, past, changes, run, inv>>
      BY <1>3 DEF vars
    <2>2. WorldInv' /\ IsRun(run)' /\ IsCall(run.call)' /\ IsInventory(inv)'
      BY <2>1 DEF IInv, TypeInv, WorldInv, IsRun, IsCall, IsInventory, Calls
    <2>3. TodoInv' /\ FoundInv' /\ TagsInv'
      BY <2>1 DEF IInv, TodoInv, FoundInv, TagsInv, Ever, Steady
    <2>4. IsInventory(inv)' /\ Known(inv)' /\ Resolves(inv)' /\ Tagged(inv)'
      <3>1. Good(inv) /\ \A x \in Resource : world[x] \in past[x] /\ past[x] \subseteq past'[x]
        BY <2>1 DEF IInv, TypeInv, WorldInv, Good
      <3>2. QED
        BY <2>1, <3>1, GoodStays
    <2>5. ASSUME NEW x \in Resource
          PROVE  /\ Steady(x)' = Steady(x) /\ Asked(x)' = Asked(x) /\ WantedCluster(x)' = WantedCluster(x)
                 /\ Settled(x) => Settled(x)'
      <3>1. Keeps(inv, inv)
        BY DEF Keeps
      <3>2. Settled(x) => Settled(x)'
        BY <2>1, <3>1, SettledStays
      <3>3. QED
        BY <2>1, <3>2 DEF Steady, Asked, WantedCluster
    <2>6. \A a, b : Of(a, b) \subseteq Resource
      BY DEF Of
    <2>7. SoughtInv'
      <3>1. ASSUME NEW x \in Resource, SoughtAt(x) PROVE SoughtAt(x)'
        BY <2>1, <2>5, <3>1 DEF SoughtAt
      <3>2. QED
        BY <2>1, <2>5, <2>6, <3>1 DEF IInv, SoughtInv
    <2>8. DoneInv' /\ ClustersInv'
      BY <2>1, <2>5, <2>6 DEF IInv, DoneInv, ClustersInv
    <2>9. QED
      BY <2>2, <2>3, <2>4, <2>7, <2>8 DEF IInv, TypeInv
  <1>4. QED
    BY <1>1, <1>2, <1>3 DEF Next

\* The invariant holds at every moment of a run.
LEMMA AlwaysIt == Spec => []IInv
  BY InitHasIt, NextKeepsIt, PTL DEF Spec

\* The state of a run and what it has put together have their types
\* (do_api_calls_update_cache).
THEOREM TypeCorrect == Spec => []TypeOK
  <1>1. IInv => TypeOK
    <2> SUFFICES ASSUME IInv PROVE TypeOK
      OBVIOUS
    <2>1. WorldInv /\ IsRun(run) /\ IsCall(run.call) /\ IsInventory(inv)
      BY DEF IInv, TypeInv
    <2>2. Range(run.call.found) \subseteq Resource
      BY <2>1, RangeOfSeq DEF IsCall
    <2>3. QED
      BY <2>1, <2>2 DEF TypeOK, WorldInv, IsRun, IsCall, IsInventory
  <1>2. QED
    BY <1>1, AlwaysIt, PTL

\* Every host of every group, but for the two lists of ElastiCache that have
\* ids, is in the index and has variables; those of an instance are of the id
\* the index gives; and children are groups, but for three parents of
\* ElastiCache (the add_ methods of ec2.py).
THEOREM NamesResolveHolds == Spec => []NamesResolve
  <1>1. IInv => NamesResolve
    <2> SUFFICES ASSUME IInv PROVE NamesResolve
      OBVIOUS
    <2>1. Resolves(inv)
      BY DEF IInv
    <2>2. Hosts \subseteq DOMAIN inv.index
      BY <2>1 DEF Resolves, Hosts, IdLists
    <2>3. \A h \in Hosts :
             \/ \E x \in Resource : Data[x].service \in {"cache", "replication"}
                                   /\ inv.index[h][2] \in IdsOf(x)
             \/ inv.index[h][2] = <<inv.hostvars[h][<<"ec2_", "id">>]>>
      BY <2>1, <2>2, Zenon DEF Resolves, OfElastiCache, IdVariable
    <2>4. \A c \in inv.children :
             \/ \E m \in inv.members : m[1] = c[2]
             \/ \E b \in inv.children : b[1] = c[2]
             \/ c[1][1] \in {"elasticache_engines", "elasticache_parameter_groups",
                             "elasticache_replication_groups"}
      BY <2>1, Zenon DEF Resolves, OddParents
    <2>5. QED
      BY <2>2, <2>3, <2>4, Zenon DEF NamesResolve
  <1>2. QED
    BY <1>1, AlwaysIt, PTL

\* An index that is written misses no resource that was there all the time,
\* whatever changed meanwhile and wherever pages ended, names none that never
\* was, and has the clusters of the last region (do_api_calls_update_cache).
THEOREM FetchWholeHolds == Spec => []FetchWhole
  <1>1. IInv => FetchWhole
    <2> SUFFICES ASSUME IInv, run.end = "written" PROVE
               /\ \A x \in Resource : Steady(x) /\ Asked(x) =>
                     \A e \in Range(Entries(x)) :
                        /\ e.host \in DOMAIN inv.index
                        /\ \/ inv.index[e.host][2] \in IdsOf(x)
                           \/ \E y \in Resource \ {x} : Ever(y) /\ inv.index[e.host][2] \in IdsOf(y)
               /\ \A h \in DOMAIN inv.index : \E x \in Resource : Ever(x) /\ inv.index[h][2] \in IdsOf(x)
               /\ conf.include_rds_clusters /\ regions(conf) # <<>> =>
                     {x \in Resource : /\ Steady(x) /\ Data[x].service = "clusters"
                                       /\ Data[x].region = Last(regions(conf)) /\ Data[x].members # {}
                                       /\ cluster_matches(conf, world[x]) = {TRUE}} \subseteq inv.db_clusters
      BY Zenon DEF FetchWhole
    <2>1. TodoInv /\ DoneInv /\ ClustersInv /\ Known(inv)
      BY DEF IInv
    <2>2. run.todo = <<>> /\ run.end # "failed"
      BY <2>1, NotFailed DEF TodoInv
    <2>3. ASSUME NEW x \in Resource, Steady(x), Asked(x), NEW e \in Range(Entries(x))
          PROVE  e.host \in DOMAIN inv.index
      <3>1. <<Data[x].service, Data[x].region>> \notin Range(<<>>)
        BY DEF Range
      <3>2. Settled(x)
        BY <2>1, <2>2, <2>3, <3>1 DEF DoneInv
      <3>3. e.host \in MadeHosts(x)
        BY Zenon DEF MadeHosts
      <3>4. QED
        BY <3>2, <3>3 DEF Settled
    <2>4. \A h \in DOMAIN inv.index : \E x \in Resource : Ever(x) /\ inv.index[h][2] \in IdsOf(x)
      BY <2>1 DEF Known
    <2>5. ASSUME conf.include_rds_clusters, regions(conf) # <<>>,
                 NEW x \in Resource, Steady(x), Data[x].service = "clusters",
                 Data[x].region = Last(regions(conf)), Data[x].members # {},
                 cluster_matches(conf, world[x]) = {TRUE}
          PROVE  x \in inv.db_clusters
      <3>1. x \in Of("clusters", Last(regions(conf))) /\ WantedCluster(x)
        BY <2>5 DEF Of, WantedCluster
      <3>2. QED
        BY <2>1, <2>2, <2>5, <3>1 DEF ClustersInv
    <2>6. QED
      BY <2>3, <2>4, <2>5
  <1>2. QED
    BY <1>1, AlwaysIt, PTL

\* A group of a tag in an inventory that is written has every instance that had
\* the tag all the time, and no other instance than one that had it at a moment
\* of the run, unless a database goes by the same name (get_instances_by_region).
THEOREM TagsRightHolds == Spec => []TagsRight
  <1>1. IInv => TagsRight
    <2> SUFFICES ASSUME IInv, run.end = "written", "tag_keys" \in conf.group_by PROVE
               /\ \A x \in Resource : Steady(x) /\ Asked(x) /\ Data[x].service = "ec2" =>
                     \A e \in Range(Entries(x)) : \A g \in GroupsOfTags(world[x]) : <<g, e.host>> \in inv.members
               /\ \A m \in inv.members : /\ m[1][1] = "tag_" /\ Len(m[1]) = 3
                                         /\ <<<<"ec2">>, m[2]>> \in inv.members
                                         /\ <<<<"rds">>, m[2]>> \notin inv.members
                  => \E x \in {y \in Resource : Data[y].service = "ec2"} : \E tags \in past[x] \ {NIL} :
                        /\ m[1] \in GroupsOfTags(tags)
                        /\ m[2] = hostname(conf, Data[x], tags, run.records, destination(conf, Data[x], tags))
      BY Zenon DEF TagsRight
    <2>1. TodoInv /\ DoneInv /\ Tagged(inv)
      BY DEF IInv
    <2>2. run.todo = <<>> /\ run.end # "failed"
      BY <2>1, NotFailed DEF TodoInv
    <2>3. ASSUME NEW x \in Resource, Steady(x), Asked(x), Data[x].service = "ec2",
                 NEW e \in Range(Entries(x)), NEW g \in GroupsOfTags(world[x])
          PROVE  <<g, e.host>> \in inv.members
      <3>1. <<Data[x].service, Data[x].region>> \notin Range(<<>>)
        BY DEF Range
      <3>2. Settled(x)
        BY <2>1, <2>2, <2>3, <3>1 DEF DoneInv
      <3>3. e.host \in MadeHosts(x)
        BY Zenon DEF MadeHosts
      <3>4. QED
        BY <2>3, <3>2, <3>3 DEF Settled
    <2>4. ASSUME NEW m \in inv.members, m[1][1] = "tag_", Len(m[1]) = 3,
                 <<<<"rds">>, m[2]>> \notin inv.members
          PROVE  HadTag(m[1], m[2])
      BY <2>1, <2>4 DEF Tagged, IsTagGroup
    <2>5. QED
      BY <2>3, <2>4 DEF HadTag
  <1>2. QED
    BY <1>1, AlwaysIt, PTL
=============================================================================
