------------------------------ MODULE Ec2Fetch ------------------------------
(***************************************************************************)
(* One fetch of ec2.py (do_api_calls_update_cache): a long sequence of     *)
(* requests to AWS, over regions, services, filters and pages, whose       *)
(* answers are put together to one inventory while AWS goes on changing.   *)
(* Two requests never see the same moment: an instance that is listed may  *)
(* be gone when its tags are asked for, and a page may start elsewhere     *)
(* than where the one before it ended.  Any request may fail, and then the *)
(* run ends and writes nothing.                                            *)
(***************************************************************************)
EXTENDS Ec2ElastiCache

CONSTANTS Data,        \* Data[x]: what AWS says of resource x, without its tags
          FirstTags,   \* FirstTags[x]: the tags x is created with
          Retags,      \* the tags a resource is given later
          Late,        \* resources that do not exist when the run starts
          Substrings,  \* Substrings[v]: the values that are parts of the value v
          Records,     \* the records of Route53: [zone, name, resource]
          Settings,    \* the settings runs are started with
          ChunkSize,   \* max_filter_value: ids in one request for tags
          PageSize,    \* resources in one answer of RDS
          CachePage,   \* resources in one answer of ElastiCache
          MaxChanges   \* bound: changes in AWS during the run

Resource == DOMAIN Data

ASSUME FetchAssumption ==
    /\ Data \in Seq(Range(Data)) /\ Late \subseteq Resource
    /\ DOMAIN FirstTags = Resource /\ NIL \notin Range(FirstTags) \union Retags
    /\ NIL \notin {"failed", "written"}
    /\ {ChunkSize, PageSize, CachePage} \subseteq Nat \ {0} /\ MaxChanges \in Nat
    /\ \A s \in Settings : /\ regions(s) \in Seq(Range(regions(s)))
                          /\ s.instance_filters \in Seq(Range(s.instance_filters))
    /\ \A x \in Resource : Data[x].service = "cache" => Data[x].nodes \in Seq(Range(Data[x].nodes))

ASSUME ServicesAssumption ==
    \A x \in Resource : Data[x].service \in {"ec2", "rds", "cache", "replication", "clusters"}

Of(service, region) == {x \in Resource : Data[x].service = service /\ Data[x].region = region}

\* No id is empty, the name of a list, or tag_; AWS allows no _ in it, nor a dash
\* at its end.  These words of the code stay as they are in names.
ASSUME IdsAssumption ==
    /\ \A x \in Resource : /\ "id" \in DOMAIN Data[x] /\ Data[x].id \notin {NIL, "rds"}
                          /\ \A s \in Settings : to_safe(s, <<Data[x].id>>) # <<"tag_">>
    /\ {"tag_", "ec2_tag_"} \intersect (DOMAIN Marks \union DOMAIN Dashes) = {}

VARIABLES
    conf,     \* the settings of the run
    world,    \* the tags of each resource that exists, NIL for one that does not
    past,     \* all that world[x] has been since the run started
    changes,  \* how often AWS has changed
    run,      \* where the run is
    inv       \* what it has put together: self.inventory and self.index

vars == <<conf, world, past, changes, run, inv>>

\* todo: the calls left; pc: the request of the first of them that is next.
\* found, first and tags are what the call has been answered so far, at counts
\* its requests or is the marker of its page, more tells whether pages follow.
NoCall == [pc |-> "ask", found |-> <<>>, first |-> <<>>, tags |-> <<>>, at |-> 0, more |-> FALSE]

region_calls(s, r) ==
    LET calls(asked, services) == IF asked THEN [n \in DOMAIN services |-> <<services[n], r>>] ELSE <<>>
    IN  calls(TRUE, <<"ec2">>) \o calls(s.rds, <<"rds">>)
        \o calls(s.elasticache, <<"cache", "replication">>)
        \o calls(s.include_rds_clusters, <<"clusters">>)

do_api_calls_update_cache(s) ==
    (IF s.route53 THEN <<<<"route53", NIL>>>> ELSE <<>>)
    \o Concat([n \in DOMAIN regions(s) |-> region_calls(s, regions(s)[n])])

Init ==
    /\ conf \in {s \in Settings : valid_filters(s)}
    /\ world = [x \in Resource |-> IF x \in Late THEN NIL ELSE FirstTags[x]]
    /\ past = [x \in Resource |-> {world[x]}]
    /\ changes = 0
    /\ run = [todo |-> do_api_calls_update_cache(conf), call |-> NoCall,
              records |-> <<>>, account |-> NIL, end |-> NIL]
    /\ inv = EmptyInventory
-----------------------------------------------------------------------------
(* AWS: resources are created, deleted and tagged *)

Change(x, to) ==
    /\ run.end = NIL /\ changes < MaxChanges
    /\ world[x] # to
    /\ world' = [world EXCEPT ![x] = to]
    /\ past' = [past EXCEPT ![x] = @ \union {to}]
    /\ changes' = changes + 1
    /\ UNCHANGED <<conf, run, inv>>

Create(x) == past[x] = {NIL} /\ Change(x, FirstTags[x])
Delete(x) == world[x] # NIL /\ Change(x, NIL)
Retag(x, tags) == world[x] # NIL /\ Change(x, tags)

\* The resources of a service in a region, in the order AWS lists them.
Listed(service, region) ==
    Only([x \in Resource |-> x],
         {x \in Of(service, region) : world[x] # NIL})

\* The page after a marker, and whether another one follows.
Page(seq, marker, size) ==
    LET rest == Only(seq, {x \in Resource : x > marker})
    IN  [items |-> SubSeq(rest, 1, IF Len(rest) < size THEN Len(rest) ELSE size),
         more |-> Len(rest) > size]

\* What EC2 makes of a filter.
Matches(filter, x, tags) ==
    \A key \in DOMAIN filter :
       filter[key] = IF IsTag(key) THEN Get(tags, TagOf(key)) ELSE Data[x][TagOf(key)]
-----------------------------------------------------------------------------
(* The run *)

Asks(service, pc) ==
    /\ run.end = NIL /\ run.todo # <<>>
    /\ run.todo[1][1] = service /\ run.call.pc = pc

Region == run.todo[1][2]

\* The call goes on like this, or is done.
Goes(call) == run' = [run EXCEPT !.call = call]
Done == run' = [run EXCEPT !.todo = Tail(@), !.call = NoCall]
Raises == run' = [run EXCEPT !.todo = <<>>, !.call = NoCall, !.end = "failed"]

get_route53_records ==
    /\ Asks("route53", "ask")
    /\ LET kept == {r \in Records : r.zone \notin conf.route53_excluded_zones}
       IN  run' = [run EXCEPT !.todo = Tail(@),
              !.records = [a \in {r.resource : r \in kept} |->
                              {r.name : r \in {q \in kept : q.resource = a}}]]
    /\ UNCHANGED <<conf, world, past, changes, inv>>

\* The library knows no connection to a region of another name.
connect == Region \in Range(AllRegions)

\* One request for each filter, or one for all.
get_all_instances ==
    /\ Asks("ec2", "ask") /\ connect
    /\ LET filters == instance_calls(conf)
           n == run.call.at + 1
           listed == Listed("ec2", Region)
           answer == Only(listed, {x \in Range(listed) : Matches(filters[n], x, world[x])})
           found == run.call.found \o answer
       IN  IF n < Len(filters)
           THEN Goes([run.call EXCEPT !.found = found, !.at = n])
           ELSE Goes([run.call EXCEPT !.found = found, !.at = 0, !.pc = "tags"])
    /\ UNCHANGED <<conf, world, past, changes, inv>>

\* Mutant: the slices of the list of ids leave one out in between.
ChunkSkipping(found, at) ==
    SubSeq(found, at + 1, IF at + ChunkSize - 1 < Len(found) THEN at + ChunkSize - 1 ELSE Len(found))

\* instance_ids[i:i + max_filter_value]
Chunk(found, at) ==
    SubSeq(found, at + 1, IF at + ChunkSize < Len(found) THEN at + ChunkSize ELSE Len(found))

\* The tags of a chunk of the instances; those that are gone have none.
get_all_tags ==
    /\ Asks("ec2", "tags") /\ run.call.at < Len(run.call.found)
    /\ LET alive == {x \in Range(Chunk(run.call.found, run.call.at)) : world[x] # NIL}
       IN  Goes([run.call EXCEPT !.tags = Update(@, [x \in alive |-> world[x]]),
                                 !.at = @ + ChunkSize])
    /\ UNCHANGED <<conf, world, past, changes, inv>>

\* With all tags the instances are added, as the first answers described them.
add_instances ==
    /\ Asks("ec2", "tags") /\ run.call.at >= Len(run.call.found)
    /\ LET found == run.call.found
           account == IF found # <<>> THEN Or(run.account, Data[found[1]].owner) ELSE run.account
           tags(x) == IF x \in DOMAIN run.call.tags THEN run.call.tags[x] ELSE <<>>
       IN  /\ inv' = AddedAll(conf, inv, Concat([n \in DOMAIN found |->
                        add_instance(conf, Data[found[n]], tags(found[n]), run.records, account)]))
           /\ run' = [run EXCEPT !.todo = Tail(@), !.call = NoCall, !.account = account]
    /\ UNCHANGED <<conf, world, past, changes>>

(* RDS instances *)

\* boto3 is asked for the instances once, for the sake of their ARNs.
describe_db_instances ==
    /\ Asks("rds", "ask")
    /\ Goes([NoCall EXCEPT !.first = Page(Listed("rds", Region), 0, PageSize).items,
                           !.pc = "page"])
    /\ UNCHANGED <<conf, world, past, changes, inv>>

\* Mutant: every page is asked for with the marker of the one before it.
MarkerBefore(items, before) == before

\* Mutant: the next page starts one too far.
MarkerPast(items, before) == IF items = <<>> THEN before ELSE Last(items) + 1

\* The marker of the answer, which is where the next page starts.
Marker(items, before) == IF items = <<>> THEN before ELSE Last(items)

\* boto is asked for the instances themselves, page after page.
get_all_dbinstances ==
    /\ Asks("rds", "page")
    /\ LET page == Page(Listed("rds", Region), run.call.at, PageSize)
           marker == Marker(page.items, run.call.at)
       IN  IF page.items = <<>>
           THEN Done
           ELSE Goes([run.call EXCEPT !.found = page.items, !.more = page.more,
                                      !.at = marker, !.pc = "tags"])
    /\ UNCHANGED <<conf, world, past, changes, inv>>

\* The tags of the next instance of the page, with the ARN that has its index
\* in the first answer of boto3, whichever page this is.
list_tags_for_resource ==
    /\ Asks("rds", "tags")
    /\ LET d == Data[Head(run.call.found)]
           index == Len(run.call.tags) + 1
           arn == run.call.first[index]
           call == [run.call EXCEPT !.found = Tail(@), !.tags = Append(@, index)]
       IN  IF \/ index > Len(run.call.first) \/ world[arn] = NIL
              \/ tags_match_filters(conf, world[arn]) /\ add_rds_instance_raises(conf, d)
           THEN Raises /\ UNCHANGED inv
           ELSE /\ inv' = IF tags_match_filters(conf, world[arn])
                          THEN AddedAll(conf, inv, add_rds_instance(conf, d, world[arn], run.account))
                          ELSE inv
                /\ CASE call.found # <<>>           -> Goes(call)
                     [] call.found = <<>> /\ call.more
                                                    -> Goes([call EXCEPT !.pc = "page", !.tags = <<>>])
                     [] OTHER                       -> Done
    /\ UNCHANGED <<conf, world, past, changes>>
-----------------------------------------------------------------------------
(* RDS clusters *)

\* Pages of clusters; after the last, the account is asked for at IAM.
describe_db_clusters ==
    /\ Asks("clusters", "ask")
    /\ LET page == Page(Listed("clusters", Region), run.call.at, PageSize)
       IN  Goes([run.call EXCEPT !.found = @ \o page.items,
                                 !.at = Marker(page.items, @),
                                 !.pc = IF page.more THEN "ask" ELSE "tags"])
    /\ UNCHANGED <<conf, world, past, changes, inv>>

\* Whether a cluster is kept for its tags: one value that is in the value of a
\* filter is enough.  A key that is no tag raises, which ends the search, and
\* the order of the keys of one filter is not known.
cluster_matches(s, tags) ==
    LET f == s.instance_filters
        fits(n) == \E key \in {k \in DOMAIN f[n] : IsTag(k)} :
                      Get(tags, TagOf(key)) \in {f[n][key]} \union Substrings[f[n][key]]
        raises(n) == \E key \in DOMAIN f[n] : ~IsTag(key)
        reached == {n \in DOMAIN f : \A m \in 1 .. n - 1 : ~raises(m)}
    IN  {matches \in BOOLEAN :
            IF matches THEN f = <<>> \/ \E n \in reached : fits(n)
            ELSE f # <<>> /\ ~ \E n \in reached : fits(n) /\ ~raises(n)}

\* The tags of the next cluster.  That they cannot be had is no error.
list_tags_of_cluster ==
    /\ Asks("clusters", "tags") /\ run.call.found # <<>>
    /\ LET x == Head(run.call.found)
       IN  \E matches \in IF world[x] = NIL THEN {conf.instance_filters = <<>>}
                          ELSE cluster_matches(conf, world[x]) :
              Goes([run.call EXCEPT !.found = Tail(@),
                 !.first = IF matches /\ Data[x].members # {} THEN Append(@, x) ELSE @])
    /\ UNCHANGED <<conf, world, past, changes, inv>>

\* The clusters of this region take the place of those before.
include_rds_clusters_by_region ==
    /\ Asks("clusters", "tags") /\ run.call.found = <<>>
    /\ inv' = [inv EXCEPT !.db_clusters = Range(run.call.first)]
    /\ Done
    /\ UNCHANGED <<conf, world, past, changes>>
-----------------------------------------------------------------------------
(* ElastiCache: one request each, and no second page *)

describe_cache_clusters ==
    /\ Asks("cache", "ask")
    /\ LET items == Page(Listed("cache", Region), 0, CachePage).items
       IN  IF \E x \in Range(items) : add_elasticache_cluster_raises(conf, Data[x])
           THEN Raises /\ UNCHANGED inv
           ELSE /\ inv' = AddedAll(conf, inv, Concat([n \in DOMAIN items |->
                                add_elasticache_cluster(conf, Data[items[n]])]))
                /\ Done
    /\ UNCHANGED <<conf, world, past, changes>>

describe_replication_groups ==
    /\ Asks("replication", "ask")
    /\ LET items == Page(Listed("replication", Region), 0, CachePage).items
       IN  IF \E x \in Range(items) : add_elasticache_replication_group_raises(conf, Data[x])
           THEN Raises /\ UNCHANGED inv
           ELSE /\ inv' = AddedAll(conf, inv, Concat([n \in DOMAIN items |->
                                add_elasticache_replication_group(conf, Data[items[n]])]))
                /\ Done
    /\ UNCHANGED <<conf, world, past, changes>>
-----------------------------------------------------------------------------
\* A request that is refused, or that nobody answers, or a region that is not.
fail_with_error ==
    /\ run.end = NIL /\ run.todo # <<>>
    /\ Raises
    /\ UNCHANGED <<conf, world, past, changes, inv>>

write_to_cache ==
    /\ run.end = NIL /\ run.todo = <<>>
    /\ run' = [run EXCEPT !.end = "written"]
    /\ UNCHANGED <<conf, world, past, changes, inv>>

Requests ==
    \/ fail_with_error \/ write_to_cache
    \/ get_route53_records
    \/ get_all_instances \/ get_all_tags \/ add_instances
    \/ describe_db_instances \/ get_all_dbinstances \/ list_tags_for_resource
    \/ describe_db_clusters \/ list_tags_of_cluster \/ include_rds_clusters_by_region
    \/ describe_cache_clusters \/ describe_replication_groups

Changing ==
    \E x \in Resource :
       Create(x) \/ Delete(x) \/ \E tags \in Retags : Retag(x, tags)

Next == Requests \/ Changing

\* The run is one thread that waits for nothing but AWS, which answers or
\* refuses every request.
Spec == Init /\ [][Next]_vars /\ WF_vars(Requests)
-----------------------------------------------------------------------------
(* What is promised *)

Hosts == {m[2] : m \in {q \in inv.members :
             q[1] \notin {<<"elasticache_clusters">>, <<"elasticache_replication_groups">>}}}

\* The state of the run and the inventory have their types.
TypeOK ==
    /\ conf \in Settings
    /\ \A x \in Resource : world[x] \in past[x]
    /\ changes \in 0 .. MaxChanges
    /\ run.end \in {NIL, "failed", "written"}
    /\ run.call.pc \in {"ask", "page", "tags"} /\ Range(run.call.found) \subseteq Resource
    /\ DOMAIN inv.hostvars = DOMAIN inv.index
    /\ inv.db_clusters \subseteq Resource

Steady(x) == past[x] = {world[x]} /\ world[x] # NIL
Ever(x) == past[x] # {NIL}

\* The calls the run was made of.
Asked(x) == <<Data[x].service, Data[x].region>> \in Range(do_api_calls_update_cache(conf))

\* The region has no more resources of its kind than one answer of ElastiCache.
OnePage(x) ==
    Len(Only([y \in Resource |-> y], Of(Data[x].service, Data[x].region))) <= CachePage

\* The entries a resource makes with the tags it has.  The tags of an RDS
\* instance may be those of another one, so nothing may depend on them; and
\* nothing is promised of ElastiCache where it has more than the one page that
\* is asked for.
Entries(x) ==
    LET d == Data[x]
        tagless == conf.instance_filters = <<>> /\
                   (conf.hostname_variable # NIL => ~IsTag(conf.hostname_variable))
        wanted == \E n \in DOMAIN instance_calls(conf) : Matches(instance_calls(conf)[n], x, world[x])
    IN  CASE d.service = "ec2" /\ wanted -> add_instance(conf, d, world[x], run.records, run.account)
          [] d.service = "rds" /\ tagless -> add_rds_instance(conf, d, world[x], run.account)
          [] d.service = "cache" /\ OnePage(x) -> add_elasticache_cluster(conf, d)
          [] d.service = "replication" /\ OnePage(x) -> add_elasticache_replication_group(conf, d)
          [] OTHER -> <<>>

\* The ids an index may give for what AWS had.
IdsOf(x) ==
    LET d == Data[x]
    IN  {<<d.id>>} \union IF d.service # "cache" THEN {}
        ELSE {to_safe(conf, <<d.id, "_", d.nodes[n].cache_node_id>>) : n \in DOMAIN d.nodes}

\* Whatever changes while the run asks: the index that is written has every
\* resource that was there from start to end, unless another one goes by the
\* same name, and nothing that was never there (but see OnePage for ElastiCache);
\* and so have the clusters of the
\* last region (do_api_calls_update_cache).
FetchWhole ==
    run.end = "written" =>
       /\ \A x \in Resource : Steady(x) /\ Asked(x) =>
             \A e \in Range(Entries(x)) :
                /\ e.host \in DOMAIN inv.index
                /\ \/ inv.index[e.host][2] \in IdsOf(x)
                   \/ \E y \in Resource \ {x} : Ever(y) /\ inv.index[e.host][2] \in IdsOf(y)
       /\ \A h \in DOMAIN inv.index : \E x \in Resource : Ever(x) /\ inv.index[h][2] \in IdsOf(x)
       /\ conf.include_rds_clusters /\ regions(conf) # <<>> =>
             {x \in Resource : /\ Steady(x) /\ Data[x].service = "clusters"
                               /\ Data[x].region = Last(regions(conf)) /\ Data[x].members # {}
                               /\ cluster_matches(conf, world[x]) = {TRUE}} \subseteq inv.db_clusters

\* "Makes an AWS API call to the list of ElastiCache clusters (with nodes' info)
\* in a particular region" (ec2.py, lines 643 and 644): every cluster that was
\* there from start to end is in the index.
CachesListed ==
    run.end = "written" =>
       \A x \in Resource : Steady(x) /\ Asked(x) /\ Data[x].service = "cache" =>
          \A e \in Range(add_elasticache_cluster(conf, Data[x])) : e.host \in DOMAIN inv.index

\* A playbook that takes a host from any group finds its variables and its
\* index entry, and for instances both are about the same machine, unless
\* something of ElastiCache goes by the same name; and every child of a group is
\* a group itself, but for those of ElastiCache.
NamesResolve ==
    /\ Hosts \subseteq DOMAIN inv.index
    /\ \A h \in Hosts : {<<<<"ec2">>, h>>, <<<<"rds">>, h>>} \intersect inv.members # {} =>
          \/ \E x \in Resource : Data[x].service \in {"cache", "replication"}
                                /\ inv.index[h][2] \in IdsOf(x)
          \/ inv.index[h][2] = <<inv.hostvars[h][<<"ec2_", "id">>]>>
    /\ \A c \in inv.children :
          \/ \E m \in inv.members : m[1] = c[2]
          \/ \E b \in inv.children : b[1] = c[2]
          \/ c[1][1] \in {"elasticache_engines", "elasticache_parameter_groups",
                          "elasticache_replication_groups"}

\* The names of the groups that a resource with these tags belongs in.
GroupsOfTags(tags) ==
    UNION {{to_safe(conf, <<"tag_", k, v>>) : v \in tag_values(conf, tags[k]) \ {BLANK}} :
              k \in DOMAIN tags}

\* What is configured and what is killed is chosen by the groups of tags.  They
\* have the instances that had the tag all the time, and no instance under a
\* name and with a tag that it did not have at one moment of the run, unless a
\* database goes by the same name (get_instances_by_region, whose tags come
\* later than its instances).
TagsRight ==
    run.end = "written" /\ "tag_keys" \in conf.group_by =>
       /\ \A x \in Resource : Steady(x) /\ Asked(x) /\ Data[x].service = "ec2" =>
             \A e \in Range(Entries(x)) : \A g \in GroupsOfTags(world[x]) : <<g, e.host>> \in inv.members
       /\ \A m \in inv.members : /\ m[1][1] = "tag_" /\ Len(m[1]) = 3
                                 /\ <<<<"ec2">>, m[2]>> \in inv.members
                                 /\ <<<<"rds">>, m[2]>> \notin inv.members
          => \E x \in {y \in Resource : Data[y].service = "ec2"} : \E tags \in past[x] \ {NIL} :
                /\ m[1] \in GroupsOfTags(tags)
                /\ m[2] = hostname(conf, Data[x], tags, run.records, destination(conf, Data[x], tags))

\* Two runs that share a cache file work on the same account, as far as the
\* settings of keys and profiles tell it (read_settings).
Account(s) ==
    CASE boto_profile(s) # NIL      -> <<"profile", boto_profile(s)>>
      [] boto_profile(s) = NIL /\ s.AWS_ACCESS_KEY_ID # NIL
                                    -> <<"key", s.AWS_ACCESS_KEY_ID>>
      [] OTHER                      -> <<"key", credentials(s)>>

CachePathsApart ==
    \A s \in Settings : cache_path(s) = cache_path(conf) => Account(s) = Account(conf)

\* However often AWS changes, the pages end and the run does
\* (get_rds_instances_by_region, include_rds_clusters_by_region).
FetchEnds == <>(run.end # NIL)

-----------------------------------------------------------------------------
(* What the code says and does not keep to; the README names the constants
   under which TLC shows it. *)

\* What the code says it does where the tags of an RDS instance are fetched:
\* "# Add tags to instances." (ec2.py:556).  With nothing changing, each has its
\* own tags.
RdsTagsOwn ==
    run.end = "written" /\ changes = 0 =>
       \A x \in Resource : Steady(x) /\ Data[x].service = "rds" =>
          \A h \in {g \in DOMAIN inv.index : inv.index[g][2] = <<Data[x].id>>} :
             \A k \in DOMAIN world[x] :
                Get(inv.hostvars[h], to_safe(conf, <<"ec2_tag_", k>>)) = tag_values(conf, world[x][k])
=============================================================================
