------------------------------ MODULE Bootstrap ------------------------------
(***************************************************************************)
(* bootStrap.sh, which sets an AWS account up for the controller machine   *)
(* and starts one.  It takes what the account has by name, creates what it *)
(* has not, and exits at the first failure it notices, leaving what it has *)
(* made.  It can be run again, and by several people at the same time: the *)
(* role, the instance profile and the security group are shared, each run  *)
(* has a key pair and a machine of its own.                                *)
(***************************************************************************)
EXTENDS Integers, FiniteSets

CONSTANTS Run,       \* runs of the script
          Policy,    \* iamPolicies, and the rules of the security group: by
          Rule,      \* the place they have in the script
          OpenRule,  \* the rule that admits all traffic, pings among it
          LocalAMI,  \* whether the machine image is in the region: the cases
          MaxFaults, \* bound: calls that fail and runs that are interrupted
          NIL

ASSUME BootstrapAssumption ==
    /\ IsFiniteSet(Run) /\ NIL \notin Run
    /\ Policy \subseteq Nat /\ Rule \subseteq Nat /\ OpenRule \in Rule
    /\ LocalAMI \subseteq BOOLEAN /\ MaxFaults \in Nat

VARIABLES
    role,      \* the IAM role: whether it is there, and its policies
    profile,   \* the instance profile: whether it is there, and has the role
    group,     \* the security group: whether it is there, and its rules
    keys,      \* the run that created each key pair, NIL for none
    pem,       \* the run that saved each private key, NIL for none
    vm,        \* the key pair of each run's machine, by its creator, or NIL
    haveLocalAMI, pc, instanceName, instance_ami,
    todo,      \* the policies or rules a run has still to add
    err,       \* whether a run's error file has a line
    alone,     \* whether no other run was under way during this one
    hit,       \* whether a call of a run failed, or it was interrupted
    faults     \* what the bound has been spent on

account == <<role, profile, group, keys, vm>>
local == <<instanceName, instance_ami, todo, err, alone>>
spent == <<hit, faults>>
vars == <<account, pem, haveLocalAMI, pc, local, spent>>

\* Blockchain-controller, Blockchain-controller.001, ... by number
Name == 0..Cardinality(Run)

Active(r) == pc[r] \notin {"start", "done", "aborted"}
Goto(r, l) == pc' = [pc EXCEPT ![r] = l]

First(S) == CHOOSE x \in S : \A y \in S : x <= y

\* A call of run r works, or it fails and costs a fault.
Call(r, ok) == /\ ok \/ faults < MaxFaults
               /\ faults' = IF ok THEN faults ELSE faults + 1
               /\ hit' = [hit EXCEPT ![r] = @ \/ ~ok]

Init ==
    /\ role = [there |-> FALSE, policies |-> {}]
    /\ profile = [there |-> FALSE, role |-> FALSE]
    /\ group = [there |-> FALSE, rules |-> {}]
    /\ keys = [n \in Name |-> NIL] /\ pem = [n \in Name |-> NIL]
    /\ vm = [r \in Run |-> NIL]
    /\ haveLocalAMI \in LocalAMI
    /\ pc = [r \in Run |-> "start"]
    /\ instanceName = [r \in Run |-> 0]
    /\ instance_ami = [r \in Run |-> "none"]
    /\ todo = [r \in Run |-> {}]
    /\ err = [r \in Run |-> FALSE]
    /\ alone = [r \in Run |-> FALSE]
    /\ hit = [r \in Run |-> FALSE] /\ faults = 0

\* Mutant: every run takes the plain name.
GetNamePlain(r) ==
    /\ pc[r] = "start"
    /\ \E ok \in BOOLEAN : Call(r, ok) /\ Goto(r, "account")
    /\ instanceName' = [instanceName EXCEPT ![r] = 0]
    /\ alone' = [q \in Run |-> IF q = r THEN \A p \in Run : ~Active(p)
                               ELSE alone[q] /\ ~Active(q)]
    /\ UNCHANGED <<account, pem, haveLocalAMI, instance_ami, todo, err>>

\* The key pairs are counted: the number is that of the new name.  Where they
\* cannot be listed grep counts none, and the run goes on with the plain name.
GetName(r) ==
    /\ pc[r] = "start"
    /\ \E ok \in BOOLEAN :
          /\ Call(r, ok)
          /\ instanceName' = [instanceName EXCEPT ![r] =
                IF ok THEN Cardinality({n \in Name : keys[n] # NIL}) ELSE 0]
    /\ alone' = [q \in Run |-> IF q = r THEN \A p \in Run : ~Active(p)
                               ELSE alone[q] /\ ~Active(q)]
    /\ Goto(r, "account")
    /\ UNCHANGED <<account, pem, haveLocalAMI, instance_ami, todo, err>>

VerifyAccount(r) ==
    /\ pc[r] = "account"
    /\ \E ok \in BOOLEAN : Call(r, ok) /\ Goto(r, IF ok THEN "getRole" ELSE "aborted")
    /\ UNCHANGED <<account, pem, haveLocalAMI, local>>
-----------------------------------------------------------------------------
(* The role and its policies, the instance profile *)

\* A role that exists is used as it is; one that cannot be read is taken as absent.
GetRole(r) ==
    /\ pc[r] = "getRole"
    /\ \E ok \in BOOLEAN :
          /\ Call(r, ok)
          /\ Goto(r, IF ok /\ role.there THEN "getProfile" ELSE "createRole")
    /\ UNCHANGED <<account, pem, haveLocalAMI, local>>

\* Create it and look again: that it was there already is no error.
CreateRole(r) ==
    /\ pc[r] = "createRole"
    /\ \E created, found \in BOOLEAN :
          /\ Call(r, created /\ found)
          /\ role' = [role EXCEPT !.there = @ \/ created]
          /\ Goto(r, IF found /\ role'.there THEN "listPolicies" ELSE "aborted")
    /\ UNCHANGED <<profile, group, keys, vm, pem, haveLocalAMI, local>>

\* A list that cannot be had is empty.
ListPolicies(r) ==
    /\ pc[r] = "listPolicies"
    /\ \E ok \in BOOLEAN :
          /\ Call(r, ok)
          /\ todo' = [todo EXCEPT ![r] = IF ok THEN Policy \ role.policies ELSE Policy]
    /\ Goto(r, "attach")
    /\ UNCHANGED <<account, pem, haveLocalAMI, instanceName, instance_ami, err, alone>>

AttachPolicy(r) ==
    /\ pc[r] = "attach"
    /\ \/ /\ todo[r] = {} /\ Goto(r, "getProfile")
          /\ UNCHANGED <<role, todo, spent>>
       \/ /\ todo[r] # {}
          /\ \E ok \in BOOLEAN : LET p == First(todo[r]) IN
             /\ Call(r, ok)
             /\ role' = [role EXCEPT !.policies = IF ok THEN @ \union {p} ELSE @]
             /\ todo' = [todo EXCEPT ![r] = @ \ {p}]
             /\ Goto(r, IF ok THEN "attach" ELSE "aborted")
    /\ UNCHANGED <<profile, group, keys, vm, pem, haveLocalAMI, instanceName, instance_ami,
                   err, alone>>

\* The profile is looked for and created as the role is.
GetProfile(r) ==
    /\ pc[r] = "getProfile"
    /\ \E ok \in BOOLEAN :
          /\ Call(r, ok)
          /\ Goto(r, IF ok /\ profile.there THEN "getGroup" ELSE "createProfile")
    /\ UNCHANGED <<account, pem, haveLocalAMI, local>>

CreateProfile(r) ==
    /\ pc[r] = "createProfile"
    /\ \E created, found \in BOOLEAN :
          /\ Call(r, created /\ found)
          /\ profile' = [profile EXCEPT !.there = @ \/ created]
          /\ Goto(r, IF found /\ profile'.there THEN "addRole" ELSE "aborted")
    /\ UNCHANGED <<role, group, keys, vm, pem, haveLocalAMI, local>>

\* Mutant: a run that cannot add the role cleans up after itself.
AddRoleCleanup(r) ==
    /\ pc[r] = "addRole"
    /\ \E ok \in BOOLEAN :
          /\ Call(r, ok)
          /\ profile' = IF ok /\ ~profile.role THEN [profile EXCEPT !.role = TRUE]
                        ELSE [there |-> FALSE, role |-> FALSE]
          /\ Goto(r, IF ok /\ ~profile.role THEN "awaitProfile" ELSE "aborted")
    /\ UNCHANGED <<role, group, keys, vm, pem, haveLocalAMI, local>>

\* A profile takes one role: the second run to add it gets an error.
AddRole(r) ==
    /\ pc[r] = "addRole"
    /\ \E ok \in BOOLEAN :
          /\ Call(r, ok)
          /\ profile' = [profile EXCEPT !.role = @ \/ ok]
          /\ Goto(r, IF ok /\ ~profile.role THEN "awaitProfile" ELSE "aborted")
    /\ UNCHANGED <<role, group, keys, vm, pem, haveLocalAMI, local>>

\* The profile is asked for until the answer is no error.
AwaitProfile(r) ==
    /\ pc[r] = "awaitProfile"
    /\ \E ok \in BOOLEAN :
          /\ Call(r, ok)
          /\ Goto(r, IF ok /\ profile.there THEN "getGroup" ELSE "awaitProfile")
    /\ UNCHANGED <<account, pem, haveLocalAMI, local>>
-----------------------------------------------------------------------------
(* The security group *)

\* A group that exists is used as it is, with the rules it has.
GetGroup(r) ==
    /\ pc[r] = "getGroup"
    /\ \E ok \in BOOLEAN :
          /\ Call(r, ok)
          /\ Goto(r, IF ok /\ group.there THEN "createKey" ELSE "createGroup")
    /\ UNCHANGED <<account, pem, haveLocalAMI, local>>

CreateGroup(r) ==
    /\ pc[r] = "createGroup"
    /\ \E created, found \in BOOLEAN :
          /\ Call(r, created /\ found)
          /\ group' = [group EXCEPT !.there = @ \/ created]
          /\ Goto(r, IF found /\ group'.there THEN "authorize" ELSE "aborted")
    /\ todo' = [todo EXCEPT ![r] = Rule]
    /\ UNCHANGED <<role, profile, keys, vm, pem, haveLocalAMI, instanceName, instance_ami,
                   err, alone>>

\* One rule after the other; that the group has it already is an error.  The
\* error file is looked at after the last one.
Authorize(r) ==
    /\ pc[r] = "authorize"
    /\ \/ /\ todo[r] = {} /\ Goto(r, IF err[r] THEN "aborted" ELSE "createKey")
          /\ UNCHANGED <<group, todo, err, spent>>
       \/ /\ todo[r] # {}
          /\ \E ok \in BOOLEAN : LET u == First(todo[r]) IN
             /\ Call(r, ok)
             /\ group' = [group EXCEPT !.rules = IF ok THEN @ \union {u} ELSE @]
             /\ err' = [err EXCEPT ![r] = @ \/ ~ok \/ u \in group.rules]
             /\ todo' = [todo EXCEPT ![r] = @ \ {u}]
             /\ UNCHANGED pc
    /\ UNCHANGED <<role, profile, keys, vm, pem, haveLocalAMI, instanceName,
                   instance_ami, alone>>
-----------------------------------------------------------------------------
(* The key pair and the machine *)

\* Mutant: a key pair that exists is used, as the role and the group are.
CreateKeyOrUse(r) ==
    /\ pc[r] = "createKey"
    /\ \E ok \in BOOLEAN :
          /\ Call(r, ok)
          /\ keys' = [keys EXCEPT ![instanceName[r]] = IF ok /\ @ = NIL THEN r ELSE @]
          /\ Goto(r, IF ok THEN "saveKey" ELSE "aborted")
    /\ UNCHANGED <<role, profile, group, vm, pem, haveLocalAMI, local>>

\* Mutant: the run waits for the name to become free.
CreateKeyWait(r) ==
    /\ pc[r] = "createKey"
    /\ keys[instanceName[r]] = NIL
    /\ keys' = [keys EXCEPT ![instanceName[r]] = r] /\ Goto(r, "saveKey")
    /\ UNCHANGED <<role, profile, group, vm, pem, haveLocalAMI, local, spent>>

\* A name that is taken is an error.
CreateKey(r) ==
    /\ pc[r] = "createKey"
    /\ \E ok \in BOOLEAN :
          /\ Call(r, ok)
          /\ IF ok /\ keys[instanceName[r]] = NIL
             THEN keys' = [keys EXCEPT ![instanceName[r]] = r] /\ Goto(r, "saveKey")
             ELSE UNCHANGED keys /\ Goto(r, "aborted")
    /\ UNCHANGED <<role, profile, group, vm, pem, haveLocalAMI, local>>

SaveKey(r) ==
    /\ pc[r] = "saveKey"
    /\ pem' = [pem EXCEPT ![instanceName[r]] = r]
    /\ Goto(r, "image")
    /\ UNCHANGED <<account, haveLocalAMI, local, spent>>

\* The image, if it is in the region and can be looked up, or a copy.  The
\* redirection of the copying command stands inside the quotes, and becomes a
\* part of the copy's id, or all of it.
FindImage(r) ==
    /\ pc[r] = "image"
    /\ \E found, copied \in BOOLEAN :
          LET local_ami == found /\ haveLocalAMI IN
          /\ Call(r, found /\ (local_ami \/ copied))
          /\ instance_ami' = [instance_ami EXCEPT ![r] =
                IF local_ami THEN "source" ELSE IF copied THEN "copy 2> ERR" ELSE " 2> ERR"]
          /\ Goto(r, IF local_ami THEN "launch" ELSE "awaitImage")
    /\ UNCHANGED <<account, pem, haveLocalAMI, instanceName, todo, err, alone>>

AwaitImage(r) ==
    /\ pc[r] = "awaitImage"
    /\ Goto(r, IF instance_ami[r] = "copy" THEN "launch" ELSE "awaitImage")
    /\ UNCHANGED <<account, pem, haveLocalAMI, local, spent>>

\* EC2 may refuse a profile that has no role.
RunInstance(r) ==
    /\ pc[r] = "launch"
    /\ \E ok, accepted \in BOOLEAN :
          /\ profile.role => accepted
          /\ Call(r, ok)
          /\ IF ok /\ accepted
             THEN vm' = [vm EXCEPT ![r] = keys[instanceName[r]]] /\ Goto(r, "awaitDns")
             ELSE UNCHANGED vm /\ Goto(r, "aborted")
    /\ UNCHANGED <<role, profile, group, keys, pem, haveLocalAMI, local>>

\* The machine's name is asked for until there is one.
AwaitDns(r) ==
    /\ pc[r] = "awaitDns"
    /\ \E ok \in BOOLEAN : Call(r, ok) /\ Goto(r, IF ok THEN "awaitSsh" ELSE "awaitDns")
    /\ UNCHANGED <<account, pem, haveLocalAMI, local>>

\* It answers a ping, and ssh with the key file.
Accessible(r) == OpenRule \in group.rules /\ pem[instanceName[r]] = vm[r]

AwaitSsh(r) ==
    /\ pc[r] = "awaitSsh"
    /\ Goto(r, IF Accessible(r) THEN "setup" ELSE "awaitSsh")
    /\ UNCHANGED <<account, pem, haveLocalAMI, local, spent>>

\* The machine is set up; whatever of that fails, the run goes on.
SetUp(r) ==
    /\ pc[r] = "setup"
    /\ Goto(r, "done")
    /\ UNCHANGED <<account, pem, haveLocalAMI, local, spent>>

\* The run is interrupted.
Interrupt(r) ==
    /\ Active(r) /\ Call(r, FALSE) /\ Goto(r, "aborted")
    /\ UNCHANGED <<account, pem, haveLocalAMI, local>>

Step(r) ==
    \/ VerifyAccount(r) \/ GetRole(r) \/ CreateRole(r) \/ ListPolicies(r)
    \/ AttachPolicy(r) \/ GetProfile(r) \/ CreateProfile(r) \/ AddRole(r)
    \/ AwaitProfile(r) \/ GetGroup(r) \/ CreateGroup(r) \/ Authorize(r)
    \/ CreateKey(r) \/ SaveKey(r) \/ FindImage(r) \/ AwaitImage(r)
    \/ RunInstance(r) \/ AwaitDns(r) \/ AwaitSsh(r) \/ SetUp(r)

Next == \E r \in Run : GetName(r) \/ Step(r) \/ Interrupt(r)

\* A run that was begun goes on: the script's commands return, and the machine
\* that EC2 started gets its name.
FairSpec == Init /\ [][Next]_vars /\ \A r \in Run : WF_vars(Step(r))
-----------------------------------------------------------------------------
(* Properties *)

\* Who is past the creation of a key pair.
Keyed(r) == pc[r] \in {"saveKey", "image", "awaitImage", "launch", "awaitDns",
                       "awaitSsh", "setup", "done"}

\* The type invariant: a run past the creation of its key pair has one of its own.
TypeOK ==
    /\ role \in [there : BOOLEAN, policies : SUBSET Policy]
    /\ profile \in [there : BOOLEAN, role : BOOLEAN]
    /\ group \in [there : BOOLEAN, rules : SUBSET Rule]
    /\ keys \in [Name -> Run \union {NIL}] /\ pem \in [Name -> Run \union {NIL}]
    /\ vm \in [Run -> Run \union {NIL}]
    /\ instanceName \in [Run -> Name]
    /\ instance_ami \in [Run -> {"none", "source", "copy", "copy 2> ERR", " 2> ERR"}]
    /\ todo \in [Run -> SUBSET (Policy \union Rule)]
    /\ err \in [Run -> BOOLEAN] /\ alone \in [Run -> BOOLEAN] /\ hit \in [Run -> BOOLEAN]
    /\ faults \in 0..MaxFaults /\ haveLocalAMI \in BOOLEAN
    /\ \A r \in Run : Keyed(r) => keys[instanceName[r]] = r

\* Once the last run has ended, the role has all its policies, the profile has
\* the role and the group all its rules, whatever runs raced to create them and
\* got errors from that, unless a call failed or a run was interrupted.
Configured ==
    /\ faults = 0 /\ \A r \in Run : ~Active(r)
    /\ \E r \in Run : pc[r] # "start"
    => role.policies = Policy /\ profile.role /\ group.rules = Rule

\* The machine of a run can be entered with the key file the run names: no
\* other run's key pair or file has taken its place.
OwnKey ==
    \A r \in Run : vm[r] # NIL => vm[r] = r /\ pem[instanceName[r]] = r

\* What a step does to a run that no other accompanies, whose own calls work and
\* which nobody interrupts: it aborts at most where EC2 refuses the profile.
GoesOn ==
    \A r \in Run : /\ Active(r) /\ pc'[r] = "aborted"
                   /\ alone[r] /\ ~hit'[r]
                   => pc[r] = "launch" /\ ~profile.role

\* Such a run does not abort, wherever the runs before it failed or were
\* interrupted: its name is free, and what they left can be used.  The one thing
\* that cannot is a profile left without its role, which EC2 may refuse.
LoneRunsGoOn == [][GoesOn]_vars

\* Where a run waits for what may never come: an image under the id it has for
\* it, and, once a call has failed, a ping through a group that was left without
\* the rule.  (With no failure the run that created the group adds the rule.)
WaitsInVain(r) ==
    \/ pc[r] = "awaitImage"
    \/ pc[r] = "awaitSsh" /\ faults > 0 /\ OpenRule \notin group.rules

\* A run that was begun ends, or comes to wait in one of those two loops: the
\* loops for the profile and the machine's name end, and so does the one for
\* the machine, which needs the run's own key and rules another run may add.
RunsEnd == \A r \in Run : Active(r) ~> ~Active(r) \/ WaitsInVain(r)

-----------------------------------------------------------------------------
(* What the repository says and the code does not keep to. *)

\* bootstrap/README.md, lines 70 to 71: "Copies a verified Amazon Machine Image
\* (AMI) to the current region if necessary".  A run that copies it goes on.
CopyEnds == \A r \in Run : pc[r] = "awaitImage" ~> pc[r] # "awaitImage"

\* bootstrap/README.md, line 60: "Creates or verifies the existing of an IAM Role
\* with the following permissions".  A run that ends well leaves them all.
RoleVerified == \A r \in Run : pc[r] = "done" => role.policies = Policy
=============================================================================
