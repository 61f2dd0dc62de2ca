----------------------------- MODULE Ec2Settings -----------------------------
(***************************************************************************)
(* What ec2.py makes of its settings: ec2.ini, the environment and the     *)
(* --profile argument (read_settings).  Settings are one record s with a   *)
(* field for every option; an option that is not set is NIL.  Words of the *)
(* file are split already, so a list is a sequence.                        *)
(***************************************************************************)
EXTENDS Integers, Lists

CONSTANTS AllRegions,  \* what AWS says its regions are, in order
          NIL

valid_instance_states ==
    {"pending", "running", "shutting-down", "terminated", "stopping", "stopped"}

\* a or b, as python has it.
Or(a, b) == IF a # NIL THEN a ELSE b

\* The regions the run makes calls to, one after the other.  auto anywhere in
\* the list stands for the one region of the environment.
regions(s) ==
    LET listed == IF s.regions = <<"all">>
                  THEN SelectSeq(AllRegions, LAMBDA r : r \notin s.regions_exclude)
                  ELSE s.regions
    IN  IF Contains(listed, "auto")
        THEN <<Or(s.AWS_REGION, s.AWS_DEFAULT_REGION)>>
        ELSE listed

ec2_instance_states(s) ==
    CASE s.all_instances         -> valid_instance_states
      [] ~s.all_instances /\ s.instance_states # NIL
                                 -> s.instance_states \intersect valid_instance_states
      [] OTHER                   -> {"running"}

boto_profile(s) == Or(s.arg_profile, Or(s.AWS_PROFILE, s.boto_profile))

\* The access key the run passes to AWS itself; with NIL it leaves the choice
\* to the library, which knows the environment and the role of the machine.
credentials(s) ==
    IF boto_profile(s) # NIL \/ s.AWS_ACCESS_KEY_ID # NIL \/ s.AWS_PROFILE # NIL
    THEN NIL
    ELSE s.aws_access_key_id

\* Mutant: the name of the cache tells profiles apart, and nothing else.
cache_path_by_profile(s) == <<boto_profile(s), boto_profile(s)>>

\* The directory of the cache files, by profile, and the id in their names.
cache_path(s) ==
    <<boto_profile(s),
      Or(boto_profile(s), Or(s.AWS_ACCESS_KEY_ID, credentials(s)))>>

\* A filter is a function from the keys it looks at, attributes and tags, to
\* values.  Filters that are stacked must not be conjunctions already.
valid_filters(s) ==
    s.stack_filters => \A n \in DOMAIN s.instance_filters :
                          \E key \in DOMAIN s.instance_filters[n] :
                             DOMAIN s.instance_filters[n] = {key}

\* The filters of the calls for instances: all of them in one call when they
\* are stacked, otherwise a call for each, and without any a call without.
instance_calls(s) ==
    CASE s.instance_filters = <<>> -> << <<>> >>
      [] s.instance_filters # <<>> /\ s.stack_filters
                                   -> <<FoldLeft(Update, <<>>, s.instance_filters)>>
      [] OTHER                     -> s.instance_filters

\* The tag a filter looks at under a key, if it is a tag.
IsTag(key) == key[1] = "tag"
TagOf(key) == key[2]

\* Whether what is not an instance has tags to be listed (RDS).  Stacked, every
\* tag of every filter counts; otherwise one is enough, of whichever filter.
tags_match_filters(s, tags) ==
    LET fits(f, key) == TagOf(key) \in DOMAIN tags /\ tags[TagOf(key)] = f[key]
        filters == {s.instance_filters[n] : n \in DOMAIN s.instance_filters}
    IN  \/ filters = {}
        \/ /\ s.stack_filters
           /\ \A f \in filters : \A key \in DOMAIN f : IsTag(key) => fits(f, key)
        \/ /\ ~s.stack_filters
           /\ \E f \in filters : \E key \in DOMAIN f : IsTag(key) /\ fits(f, key)
=============================================================================
