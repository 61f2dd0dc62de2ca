------------------------------ MODULE Ec2Groups ------------------------------
(***************************************************************************)
(* How ec2.py names a machine and which groups it puts it in: the add_     *)
(* methods, from what AWS says of a resource to the inventory and the      *)
(* index.  A resource is a record with a field for every attribute that is *)
(* looked at; the names of hosts and groups are sequences of words, which  *)
(* the code writes one after the other.                                    *)
(***************************************************************************)
EXTENDS Ec2Settings

CONSTANTS BLANK,   \* the empty string
          Parts,   \* Parts[v]: the parts of a tag value that has commas
          Marks,   \* Marks[w]: w with _ for characters no group name may have
          Dashes,  \* Dashes[w]: w with _ for its dashes
          Lower    \* Lower[w]: w without capitals

\* The words of a name that f replaces, replaced.
Each(f, name) == [n \in DOMAIN name |-> IF name[n] \in DOMAIN f THEN f[name[n]] ELSE name[n]]

to_safe(s, name) ==
    IF s.replace_dash_in_groups THEN Each(Dashes, Each(Marks, name))
    ELSE Each(Marks, name)

\* A value that is there and is not empty, as a set.
Given(v) == {v} \ {NIL, BLANK}
Get(f, x) == IF x \in DOMAIN f THEN f[x] ELSE NIL

\* A dictionary out of pairs; of two values for one key, the one that comes
\* last in the order of the dictionary they come from stays.
Dict(pairs) == [key \in {p[1] : p \in pairs} |-> (CHOOSE p \in pairs : p[1] = key)[2]]
-----------------------------------------------------------------------------
(* The inventory *)

\* Who is in which group, which group is a child of which, the variables of
\* each host, and the index.  A host is in a group or not: ansible does not
\* care how often it is listed.
EmptyInventory == [members |-> {}, children |-> {}, hostvars |-> <<>>,
                   index |-> <<>>, db_clusters |-> {}]

push(inv, pairs) == [inv EXCEPT !.members = @ \union pairs]
push_group(inv, pairs) == [inv EXCEPT !.children = @ \union pairs]

\* The group of an id is assigned, not pushed to: what it was before is lost.
Assign(inv, group, host) ==
    [inv EXCEPT !.members = {m \in @ : m[1] # group} \union {<<group, host>>},
                !.children = {c \in @ : c[1] # group}]

\* What one call of an add method does to the inventory: the groups it files
\* the host in where the options ask for them, the list all of its kind are
\* in, the variables, which replace or complete what is known of the host.
Entry(host, region, id, groups, list, hostvars, completes) ==
    [host |-> host, region |-> region, id |-> id, groups |-> groups,
     list |-> list, hostvars |-> hostvars, completes |-> completes]

\* Mutant: the index is forgotten.
AddedUnindexed(s, inv, e) ==
    [push(inv, e.list) EXCEPT !.hostvars = Update(@, Single(e.host, e.hostvars))]

Added(s, inv, e) ==
    LET on == {g \in e.groups : g.option \in s.group_by}
        own == IF "instance_id" \in s.group_by THEN Assign(inv, e.id, e.host) ELSE inv
        filed == push(own, {<<g.name, e.host>> : g \in on} \union e.list)
        nested == IF ~s.nested_groups THEN filed
                  ELSE push_group(filed, (UNION {g.children : g \in on})
                         \union IF "instance_id" \in s.group_by
                                THEN {<<<<"instances">>, e.id>>} ELSE {})
    IN  [nested EXCEPT
            !.index = Update(@, Single(e.host, <<e.region, e.id>>)),
            !.hostvars = Update(@, Single(e.host, IF e.completes /\ e.host \in DOMAIN @
                                                  THEN Update(@[e.host], e.hostvars)
                                                  ELSE e.hostvars))]

AddedAll(s, inv, entries) == FoldLeft(LAMBDA i, e : Added(s, i, e), inv, entries)
-----------------------------------------------------------------------------
(* Groups that resources of several kinds are filed in *)

\* The group of this name, filed under a parent with nested_groups.
Group(option, parent, name) ==
    [option |-> option, name |-> name, children |-> {<<<<parent>>, name>>}]

region_group(region) == Group("region", "regions", <<region>>)

zone_group(s, region, zone) ==
    [option |-> "availability_zone", name |-> <<zone>>,
     children |-> {<<<<"zones">>, <<zone>>>>}
        \union IF "region" \in s.group_by THEN {<<<<region>>, <<zone>>>>} ELSE {}]

type_group(s, type) == Group("instance_type", "types", to_safe(s, <<"type_", type>>))

vpc_group(s, vpc) == Group("vpc_id", "vpcs", to_safe(s, <<"vpc_id_", vpc>>))

security_group(s, group) ==
    Group("security_group", "security_groups", to_safe(s, <<"security_group_", group>>))

\* One value, or the parts of one with commas.
tag_values(s, v) == IF s.expand_csv_tags /\ v \in DOMAIN Parts THEN Parts[v] ELSE {v}

\* Mutant: the child is named as AWS has it.
tag_group_unsafe_child(s, k, v) ==
    [option |-> "tag_keys", name |-> to_safe(s, <<"tag_", k, v>>),
     children |-> {<<to_safe(s, <<"tag_", k>>), <<"tag_", k, v>>>>}]

tag_group(s, k, v) ==
    LET key == to_safe(s, <<"tag_", k>>)
        name == IF v = BLANK THEN key ELSE to_safe(s, <<"tag_", k, v>>)
    IN  [option |-> "tag_keys", name |-> name,
         children |-> {<<<<"tags">>, key>>} \union IF v = BLANK THEN {} ELSE {<<key, name>>}]

tag_groups(s, tags) ==
    (UNION {{tag_group(s, k, v) : v \in tag_values(s, tags[k])} : k \in DOMAIN tags})
    \union IF DOMAIN tags = {} THEN {Group("tag_none", "tags", <<"tag_none">>)} ELSE {}
-----------------------------------------------------------------------------
(* EC2 instances *)

\* The names of the records that point to one of its addresses.
get_instance_route53_names(i, records) ==
    UNION {records[r] : r \in DOMAIN records \intersect
              {i.public_dns_name, i.private_dns_name, i.ip_address, i.private_ip_address}}

\* Everything AWS says of it that is one value, with its tags on top.
get_host_info_dict_from_instance(s, i, tags, account) ==
    LET structured == {"service", "region", "groups", "endpoint", "parameter_group"}
    IN  Dict({<<<<"ec2_", a>>, IF i[a] = NIL THEN BLANK ELSE i[a]>> : a \in DOMAIN i \ structured}
             \union {<<to_safe(s, <<"ec2_tag_", k>>), tag_values(s, tags[k])>> : k \in DOMAIN tags}
             \union {<<<<"ec2_", "account_id">>, account>>}
             \union IF "groups" \in DOMAIN i
                    THEN {<<<<"ec2_", "region">>, i.region>>,
                          <<<<"ec2_", "security_group_names">>, i.groups>>}
                    ELSE {})

\* Where ansible connects to: what the format makes of tags and attributes, or
\* the attribute that is asked for, or else the tag of that name.
destination(s, i, tags) ==
    LET word(a) == IF a \in DOMAIN tags THEN tags[a] ELSE IF a \in DOMAIN i THEN i[a] ELSE "nil"
        variable == IF i.subnet_id # NIL THEN s.vpc_destination_variable ELSE s.destination_variable
    IN  IF s.destination_format # NIL
        THEN [n \in DOMAIN s.destination_format |-> word(s.destination_format[n])]
        ELSE <<Or(Get(i, variable), Get(tags, variable))>>

\* What the hostname_variable makes of a resource, NIL if it is not set.
named(s, x, tags) ==
    CASE s.hostname_variable = NIL     -> NIL
      [] s.hostname_variable # NIL /\ IsTag(s.hostname_variable)
                                       -> Get(tags, TagOf(s.hostname_variable))
      [] OTHER                         -> x[TagOf(s.hostname_variable)]

\* A name of Route53 goes before, and keeps its dots; without any name the
\* host is called by its address, which stays as it is.
hostname(s, i, tags, records, dest) ==
    LET in_domain == IF s.route53 THEN s.route53_hostnames ELSE {}
        dns == get_instance_route53_names(i, records) \intersect in_domain
        name == IF dns # {} THEN CHOOSE n \in dns : TRUE ELSE named(s, i, tags)
    IN  CASE name \in {NIL, BLANK} -> dest
          [] name \in in_domain    -> Each(Lower, <<name>>)
          [] OTHER                 -> Each(Lower, to_safe(s, <<name>>))

instance_groups(s, i, tags, records, account) ==
    {region_group(i.region), zone_group(s, i.region, i.placement),
     Group("ami_id", "images", to_safe(s, <<i.image_id>>)),
     type_group(s, i.instance_type),
     Group("instance_state", "instance_states", to_safe(s, <<"instance_state_", i.state>>)),
     Group("platform", "platforms", to_safe(s, <<"platform_",
           IF Given(i.platform) = {} THEN "undefined" ELSE i.platform>>)),
     Group("aws_account", "accounts", <<account>>)}
    \union {Group("key_pair", "keys", to_safe(s, <<"key_", k>>)) : k \in Given(i.key_name)}
    \union {vpc_group(s, v) : v \in Given(i.vpc_id)}
    \union {security_group(s, g) : g \in i.groups}
    \union tag_groups(s, tags)
    \union {Group("route53_names", "route53", <<n>>) :
               n \in IF s.route53 THEN get_instance_route53_names(i, records) ELSE {}}

\* The entries one instance makes: one, or none if its state is not wanted, it
\* has no address, or the patterns keep it out.
add_instance(s, i, tags, records, account) ==
    LET dest == destination(s, i, tags)
        host == hostname(s, i, tags, records, dest)
        hostvars == Update(get_host_info_dict_from_instance(s, i, tags, account),
                           Single(<<"ansible_host">>, dest))
    IN  IF /\ i.state \in ec2_instance_states(s)
           /\ dest \notin {<<NIL>>, <<BLANK>>}
           /\ s.pattern_include # NIL => host \in s.pattern_include
           /\ s.pattern_exclude # NIL => host \notin s.pattern_exclude
        THEN <<Entry(host, i.region, <<i.id>>, instance_groups(s, i, tags, records, account),
                     {<<<<"ec2">>, host>>}, hostvars, FALSE)>>
        ELSE <<>>
-----------------------------------------------------------------------------
(* RDS instances *)

rds_groups(s, d, tags) ==
    {region_group(d.region), zone_group(s, d.region, d.availability_zone),
     type_group(s, d.instance_class),
     Group("rds_engine", "rds_engines", to_safe(s, <<"rds_", d.engine>>)),
     Group("rds_parameter_group", "rds_parameter_groups",
           to_safe(s, <<"rds_parameter_group_", d.parameter_group>>))}
    \union {vpc_group(s, v) : v \in Given(d.vpc_id)}
    \union {security_group(s, g) : g \in Given(d.security_group)}
    \union tag_groups(s, tags)

wants_rds(s, d) == "rds_instances" \in s.all_of \/ d.status = "available"

\* An instance without endpoint, or without the attribute that names hosts,
\* makes the method raise.
add_rds_instance_raises(s, d) ==
    /\ wants_rds(s, d)
    /\ \/ d.endpoint = NIL
       \/ /\ d.endpoint # BLANK /\ s.hostname_variable # NIL
          /\ ~IsTag(s.hostname_variable) /\ TagOf(s.hostname_variable) \notin DOMAIN d

add_rds_instance(s, d, tags, account) ==
    LET name == named(s, d, tags)
        host == Each(Lower, to_safe(s, <<IF Given(name) = {} THEN d.endpoint ELSE name>>))
        hostvars == Update(get_host_info_dict_from_instance(s, d, tags, account),
                           Single(<<"ansible_host">>, <<d.endpoint>>))
    IN  IF wants_rds(s, d) /\ d.endpoint # BLANK
        THEN <<Entry(host, d.region, <<d.id>>, rds_groups(s, d, tags),
                     {<<<<"rds">>, host>>}, hostvars, FALSE)>>
        ELSE <<>>
=============================================================================
