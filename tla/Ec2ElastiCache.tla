--------------------------- MODULE Ec2ElastiCache ---------------------------
(***************************************************************************)
(* How ec2.py names and groups what is in ElastiCache: clusters, the nodes *)
(* of a cluster and replication groups.  boto has no classes for these, so *)
(* the code reads the answers of AWS itself.                               *)
(***************************************************************************)
EXTENDS Ec2Groups

\* All fields that are one value, and what is picked from those that are not.
get_host_info_dict_from_describe_dict(d) ==
    LET structured == {"service", "region", "tags", "nodes", "node_groups", "member_clusters",
                       "security_groups", "cache_parameter_group", "configuration_endpoint", "endpoint"}
        name(a) == CASE a # "id"                          -> a
                     [] a = "id" /\ d.service = "cache"   -> "cache_cluster_id"
                     [] OTHER                             -> "replication_group_id"
        has(field) == field \in DOMAIN d /\ d[field] # NIL
        members == d.node_groups[1].members
        of(role) == SelectSeq(members, LAMBDA m : m.role = role)
    IN  Dict({<<<<"ec2_", name(a)>>, IF d[a] = NIL THEN BLANK ELSE d[a]>> : a \in DOMAIN d \ structured}
             \union {<<<<"ec2_", a>>, BLANK>> : a \in {"configuration_endpoint", "endpoint",
                        "node_groups", "member_clusters"} \intersect {b \in DOMAIN d : d[b] = NIL}}
             \union {<<<<"ec2_", a, "_address">>, d[a]>> :
                        a \in {b \in {"configuration_endpoint", "endpoint"} : has(b)}}
             \union {<<<<"ec2_", a>>, d[a]>> :
                        a \in {b \in {"member_clusters", "cache_parameter_group", "security_groups"} : has(b)}}
             \union IF ~has("node_groups") THEN {}
                    ELSE {<<<<"ec2_", "endpoint", "_address">>, d.node_groups[1].primary_endpoint>>}
                         \union {<<<<"ec2_", "primary_cluster_id">>, m.id>> :
                                    m \in IF of("primary") = <<>> THEN {} ELSE {Last(of("primary"))}}
                         \union {<<<<"ec2_", "replica_cluster_id_", n - 1>>, of("replica")[n].id>> :
                                    n \in DOMAIN of("replica")})

security_groups_of(s, c) ==
    IF "security_groups" \in DOMAIN c /\ c.security_groups # NIL
    THEN {security_group(s, g) : g \in c.security_groups} ELSE {}

engine_name(s, c) == to_safe(s, <<"elasticache_", c.engine>>)

\* A node is a host under its address.
add_elasticache_node(s, node, c) ==
    LET host == <<node.endpoint>>
        id == to_safe(s, <<c.id, "_", node.cache_node_id>>)
        groups ==
            {region_group(c.region), zone_group(s, c.region, c.preferred_availability_zone),
             type_group(s, c.cache_node_type),
             Group("elasticache_engine", "elasticache_engines", engine_name(s, c)),
             [option |-> "elasticache_cluster", children |-> {},
              name |-> to_safe(s, <<"elasticache_cluster_", c.id>>)]}
            \union security_groups_of(s, c)
    IN  IF /\ "elasticache_nodes" \in s.all_of \/ node.cache_node_status = "available"
           /\ node.endpoint # BLANK
        THEN <<Entry(host, c.region, id, groups, {<<<<"elasticache_nodes">>, host>>},
                     get_host_info_dict_from_describe_dict(node), TRUE)>>
        ELSE <<>>

\* Without an endpoint of its own the cluster is taken for redis, which has
\* one node: it goes by the address of the node, and leaves to the node the
\* groups they would both be in.  The groups of engine, parameter and
\* replication group are children under a name that is not the group's.
is_redis(c) == c.configuration_endpoint = NIL

cluster_groups(s, c) ==
    LET under(option, parent, name, child) ==
            [option |-> option, name |-> name, children |-> {<<<<parent>>, to_safe(s, <<child>>)>>}]
        parameters == c.cache_parameter_group
    IN  {under("elasticache_parameter_group", "elasticache_parameter_groups",
               to_safe(s, <<"elasticache_parameter_group_", parameters>>), parameters)}
        \union {under("elasticache_replication_group", "elasticache_replication_groups",
                      to_safe(s, <<"elasticache_replication_group_", r>>), r) :
                   r \in Given(Get(c, "replication_group_id"))}
        \union IF is_redis(c) THEN {}
               ELSE {region_group(c.region), zone_group(s, c.region, c.preferred_availability_zone),
                     type_group(s, c.cache_node_type),
                     under("elasticache_engine", "elasticache_engines", engine_name(s, c), c.engine)}
                    \union security_groups_of(s, c)

wants_cluster(s, c) == "elasticache_clusters" \in s.all_of \/ c.cache_cluster_status = "available"

\* A cluster that has no node yet, or a node without endpoint, raises.
add_elasticache_cluster_raises(s, c) ==
    /\ wants_cluster(s, c)
    /\ \/ is_redis(c) /\ (c.nodes = <<>> \/ c.nodes[1].endpoint = NIL)
       \/ \E n \in DOMAIN c.nodes :
             /\ c.configuration_endpoint # BLANK
             /\ "elasticache_nodes" \in s.all_of \/ c.nodes[n].cache_node_status = "available"
             /\ c.nodes[n].endpoint = NIL

\* The cluster and its nodes.  The list of all clusters has their ids, not
\* their hosts.
add_elasticache_cluster(s, c) ==
    LET dest == IF is_redis(c) THEN c.nodes[1].endpoint ELSE c.configuration_endpoint
        cluster == Entry(<<dest>>, c.region, <<c.id>>, cluster_groups(s, c),
                         {<<<<"elasticache_clusters">>, <<c.id>>>>},
                         get_host_info_dict_from_describe_dict(c), FALSE)
        nodes == Concat([n \in DOMAIN c.nodes |-> add_elasticache_node(s, c.nodes[n], c)])
    IN  IF wants_cluster(s, c) /\ dest # BLANK THEN <<cluster>> \o nodes ELSE <<>>

\* A replication group goes by its primary endpoint, and is listed by its id.
add_elasticache_replication_group(s, g) ==
    LET dest == g.node_groups[1].primary_endpoint
        engine == [option |-> "elasticache_engine", name |-> <<"elasticache_redis">>,
                   children |-> {<<<<"elasticache_engines">>, <<"redis">>>>}]
    IN  IF /\ "elasticache_replication_groups" \in s.all_of \/ g.status = "available"
           /\ dest # NIL
        THEN <<Entry(<<dest>>, g.region, <<g.id>>, {region_group(g.region), engine},
                     {<<<<"elasticache_replication_groups">>, <<g.id>>>>},
                     get_host_info_dict_from_describe_dict(g), FALSE)>>
        ELSE <<>>

\* While it is created a replication group has no node groups.
add_elasticache_replication_group_raises(s, g) ==
    /\ "elasticache_replication_groups" \in s.all_of \/ g.status = "available"
    /\ g.node_groups = <<>>
=============================================================================
