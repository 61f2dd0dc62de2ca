----------------------------- MODULE MCEc2Fetch -----------------------------
\* Small accounts and settings for Ec2Fetch.  The values of attributes are
\* strings, each standing for itself.
EXTENDS Ec2Fetch

Ec2(id, region, subnet, type, public) ==
    [service |-> "ec2", id |-> id, region |-> region, state |-> "running",
     subnet_id |-> subnet, placement |-> "zone-" \o region, image_id |-> "ami-1",
     instance_type |-> type, platform |-> NIL, key_name |-> BLANK, vpc_id |-> subnet,
     groups |-> {"ssh"}, owner |-> "me", public_dns_name |-> "dns-" \o id,
     private_dns_name |-> "internal-" \o id, ip_address |-> public,
     private_ip_address |-> "10-" \o id]

Rds(id, status, endpoint) ==
    [service |-> "rds", id |-> id, region |-> "r1", status |-> status,
     endpoint |-> endpoint, availability_zone |-> "zone-r1", instance_class |-> "large",
     vpc_id |-> NIL, security_group |-> NIL, engine |-> "mysql",
     parameter_group |-> "default"]

Cache(id, configuration, nodes, replication) ==
    [service |-> "cache", id |-> id, region |-> "r1",
     cache_cluster_status |-> "available", configuration_endpoint |-> configuration,
     nodes |-> nodes, preferred_availability_zone |-> "zone-r1",
     cache_node_type |-> "large", security_groups |-> {"ssh"},
     engine |-> IF configuration = NIL THEN "redis" ELSE "memcached",
     cache_parameter_group |-> "default", replication_group_id |-> replication]

Node(id, endpoint) ==
    [cache_node_id |-> id, cache_node_status |-> "available", endpoint |-> endpoint]

Replication(id, endpoint) ==
    [service |-> "replication", id |-> id, region |-> "r1", status |-> "available",
     member_clusters |-> <<"redis-1">>,
     node_groups |-> <<[primary_endpoint |-> endpoint,
        members |-> <<[role |-> "primary", id |-> "redis-1"], [role |-> "replica", id |-> "redis-2"]>>]>>]

Clusters(id, members) ==
    [service |-> "clusters", id |-> id, region |-> "r1", members |-> members]

MCData == <<
    Ec2("i-1", "r1", NIL, "small", NIL),
    Ec2("i-2", "r1", "vpc-1", "large", "ip-2"),
    Ec2("i-3", "r2", "vpc-2", "small", NIL),
    Rds("db-1", "available", "db1.host"),
    Rds("db-2", "available", "db2.host"),
    Cache("redis-1", NIL, <<Node("1", "redis1.host")>>, "rep-1"),
    Cache("mem-1", "mem1.host", <<Node("1", "node1.host"), Node("2", "node2.host")>>, NIL),
    Replication("rep-1", "rep1.host"),
    Clusters("aurora-1", {"m"}),
    Clusters("aurora-2", {"m"}),
    Rds("db-3", "creating", NIL) >>

MCFirstTags == <<
    [Name |-> "Web-1", env |-> "prod"], [Name |-> "web-2", env |-> "prod,test"],
    [Name |-> "web-3", env |-> "test"],
    [env |-> "prod"], [env |-> "test"], <<>>, <<>>, <<>>, [env |-> "prod"], [env |-> "prod"], <<>> >>

MCAllRegions == <<"r1", "r2">>

MCRetags == {[Name |-> "web-9", env |-> "prod"], <<>>}

MCRecords == {
    [zone |-> "example.com", name |-> "www.example.com", resource |-> "dns-i-1"],
    [zone |-> "example.com", name |-> "api.example.com", resource |-> "ip-2"],
    [zone |-> "private", name |-> "www.private", resource |-> "dns-i-1"]}

MCParts == "prod,test" :> {"prod", "test"}
MCMarks == "prod,test" :> "prod_test" @@ "db1.host" :> "db1_host" @@ "db2.host" :> "db2_host"
MCDashes == "Web-1" :> "Web_1" @@ "web-2" :> "web_2" @@ "web-3" :> "web_3" @@ "web-9" :> "web_9"
            @@ "ami-1" :> "ami_1" @@ "vpc-1" :> "vpc_1" @@ "vpc-2" :> "vpc_2"
            @@ "mem-1" :> "mem_1" @@ "redis-1" :> "redis_1" @@ "rep-1" :> "rep_1"
MCLower == "Web_1" :> "web_1" @@ "Web-1" :> "web-1"
MCSubstrings == "prod" :> {} @@ "test" :> {} @@ "prod,test" :> {"prod", "test"} @@ "large" :> {}

\* The settings ec2.ini has in this repository, with a region.
Base ==
    [regions |-> <<"auto">>, regions_exclude |-> {}, AWS_REGION |-> NIL, AWS_DEFAULT_REGION |-> "r1",
     all_instances |-> FALSE, instance_states |-> NIL,
     arg_profile |-> NIL, AWS_PROFILE |-> NIL, boto_profile |-> NIL,
     AWS_ACCESS_KEY_ID |-> NIL, aws_access_key_id |-> NIL,
     stack_filters |-> FALSE, instance_filters |-> <<>>,
     replace_dash_in_groups |-> TRUE, nested_groups |-> FALSE, expand_csv_tags |-> FALSE,
     group_by |-> {"instance_id", "region", "availability_zone", "ami_id", "instance_type",
                   "platform", "key_pair", "vpc_id", "security_group", "tag_keys", "tag_none",
                   "route53_names", "rds_engine", "rds_parameter_group", "elasticache_engine",
                   "elasticache_cluster", "elasticache_parameter_group",
                   "elasticache_replication_group"},
     destination_format |-> NIL, destination_variable |-> "public_dns_name",
     vpc_destination_variable |-> "ip_address", hostname_variable |-> NIL,
     route53 |-> FALSE, route53_hostnames |-> {}, route53_excluded_zones |-> {},
     pattern_include |-> NIL, pattern_exclude |-> NIL, all_of |-> {},
     rds |-> FALSE, elasticache |-> FALSE, include_rds_clusters |-> FALSE]

tag(k) == <<"tag", k>>
attribute(a) == <<"attribute", a>>

\* As it is; every service, nested; filters that add up, names from tags, all
\* regions; filters that are stacked, for clusters too; names from Route53; hosts
\* called by a format; RDS instances in any state; a region that is none.
MCSettings == {
    Base,
    [Base EXCEPT !.regions = <<"r1">>, !.rds = TRUE, !.elasticache = TRUE, !.nested_groups = TRUE],
    [Base EXCEPT !.regions = <<"all">>, !.vpc_destination_variable = "private_ip_address",
        !.hostname_variable = tag("Name"), !.expand_csv_tags = TRUE, !.nested_groups = TRUE,
        !.instance_filters = <<tag("env") :> "prod", attribute("instance_type") :> "large">>],
    [Base EXCEPT !.stack_filters = TRUE, !.include_rds_clusters = TRUE, !.AWS_ACCESS_KEY_ID = "K1",
        !.instance_filters = <<tag("env") :> "prod,test", attribute("instance_type") :> "large">>],
    [Base EXCEPT !.route53 = TRUE, !.route53_hostnames = {"www.example.com", "api.example.com"},
        !.route53_excluded_zones = {"private"}, !.AWS_ACCESS_KEY_ID = "K2",
        !.pattern_exclude = {<<"api.example.com">>}],
    [Base EXCEPT !.boto_profile = "K1", !.destination_format = <<"Name", "env", "owner", "none">>,
        !.aws_access_key_id = "K3"],
    [Base EXCEPT !.rds = TRUE, !.all_of = {"rds_instances"}, !.instance_states = {"stopped", "asleep"}],
    [Base EXCEPT !.regions = <<"nowhere">>, !.aws_access_key_id = "K3"] }

\* ElastiCache and instances.
MCCacheSettings == {[Base EXCEPT !.elasticache = TRUE]}
=============================================================================
