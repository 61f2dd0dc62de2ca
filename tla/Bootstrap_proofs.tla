-------------------------- MODULE Bootstrap_proofs --------------------------
(***************************************************************************)
(* What Bootstrap guarantees for every number of runs of the script, every *)
(* list of policies and rules, and every number of faults.                 *)
(***************************************************************************)
EXTENDS Bootstrap, TLAPS, FiniteSetTheorems, WellFoundedInduction

-----------------------------------------------------------------------------
(* The strengthening of the type invariant. *)

Label == {"start", "account", "getRole", "createRole", "listPolicies", "attach",
          "getProfile", "createProfile", "addRole", "awaitProfile", "getGroup",
          "createGroup", "authorize", "createKey", "saveKey", "image", "awaitImage",
          "launch", "awaitDns", "awaitSsh", "setup", "done", "aborted"}

\* The names that have a key pair.
Taken == {n \in Name : keys[n] # NIL}

\* A run that adds policies has policies to add, one that adds rules has rules.
TodoOf ==
    \A r \in Run : /\ pc[r] = "attach" => todo[r] \subseteq Policy
                   /\ pc[r] = "authorize" => todo[r] \subseteq Rule

\* A key pair carries the name of the run that created it.
KeyOf ==
    \A n \in Name : keys[n] # NIL => instanceName[keys[n]] = n /\ pc[keys[n]] # "start"

\* The names are taken in their order, and a run holds one of them or the next.
NamesInOrder ==
    \E m \in Nat : /\ Taken = 0..m-1
                   /\ \A r \in Run : pc[r] # "start" => instanceName[r] \in 0..m

TypeInv == TypeOK /\ pc \in [Run -> Label] /\ TodoOf /\ KeyOf /\ NamesInOrder
-----------------------------------------------------------------------------
(* Helpers *)

\* A non-empty set of natural numbers has a first element, in particular the
\* set of the policies or rules a run has still to add.
LEMMA FirstIn ==
    ASSUME NEW S \in SUBSET Nat, S # {}
    PROVE  First(S) \in S
  <1> DEFINE LT == {ss \in Nat \X Nat : ss[1] < ss[2]}
  <1>1. IsWellFoundedOn(LT, Nat)
    <2>1. OpToRel(<, Nat) = LT
      BY Zenon DEF OpToRel
    <2>2. QED
      BY <2>1, NatLessThanWellFounded, Zenon
  <1>2. PICK x \in S : \A y \in S : ~(<<y, x>> \in LT)
    <2> HIDE DEF LT
    <2> QED
      BY <1>1, WFMin
  <1>3. ASSUME NEW y \in S
        PROVE  x <= y
    <2>1. <<y, x>> \in Nat \X Nat /\ x \in Nat /\ y \in Nat
      OBVIOUS
    <2>2. ~(y < x)
      BY <1>2, <2>1
    <2>3. QED
      BY <2>1, <2>2
  <1>4. QED
    BY <1>3 DEF First

\* The number of runs is a number, so names are numbers.
LEMMA NameNat == Cardinality(Run) \in Nat /\ Name \subseteq Nat /\ 0 \in Name
  BY BootstrapAssumption, FS_CardinalityType DEF Name

\* Which actions write which variable: the rest of Step leaves it alone.
LEMMA Writers ==
    ASSUME NEW r \in Run, Step(r) \/ Interrupt(r)
    PROVE  /\ CreateRole(r) \/ AttachPolicy(r) \/ UNCHANGED role
           /\ CreateProfile(r) \/ AddRole(r) \/ UNCHANGED profile
           /\ CreateGroup(r) \/ Authorize(r) \/ UNCHANGED group
           /\ CreateKey(r) \/ UNCHANGED keys
           /\ SaveKey(r) \/ UNCHANGED pem
           /\ RunInstance(r) \/ UNCHANGED vm
           /\ FindImage(r) \/ UNCHANGED instance_ami
           /\ ListPolicies(r) \/ AttachPolicy(r) \/ CreateGroup(r) \/ Authorize(r)
              \/ UNCHANGED todo
           /\ Authorize(r) \/ UNCHANGED err
           /\ UNCHANGED <<instanceName, alone, haveLocalAMI>>
  <1>1. CASE Interrupt(r)
    BY <1>1 DEF Interrupt, account, local
  <1>2. CASE VerifyAccount(r) \/ GetRole(r) \/ GetProfile(r) \/ GetGroup(r)
    BY <1>2 DEF VerifyAccount, GetRole, GetProfile, GetGroup, account, local
  <1>3. CASE CreateRole(r) \/ CreateProfile(r) \/ AddRole(r)
    BY <1>3 DEF CreateRole, CreateProfile, AddRole, local
  <1>4. CASE ListPolicies(r) \/ AttachPolicy(r)
    BY <1>4 DEF ListPolicies, AttachPolicy, account
  <1>5. CASE CreateGroup(r) \/ Authorize(r)
    BY <1>5 DEF CreateGroup, Authorize
  <1>6. CASE CreateKey(r) \/ SaveKey(r) \/ FindImage(r)
    BY <1>6 DEF CreateKey, SaveKey, FindImage, account, local
  <1>7. CASE AwaitProfile(r) \/ AwaitImage(r) \/ RunInstance(r)
    BY <1>7 DEF AwaitProfile, AwaitImage, RunInstance, account, local
  <1>8. CASE AwaitDns(r) \/ AwaitSsh(r) \/ SetUp(r)
    BY <1>8 DEF AwaitDns, AwaitSsh, SetUp, account, local
  <1>9. QED
    BY <1>1, <1>2, <1>3, <1>4, <1>5, <1>6, <1>7, <1>8 DEF Step

\* A step of a run moves that run's counter only, and never back to the start.
LEMMA OneRun ==
    ASSUME pc \in [Run -> Label], NEW r \in Run, Step(r) \/ Interrupt(r)
    PROVE  /\ \E l \in Label \ {"start"} : pc' = [pc EXCEPT ![r] = l]
           /\ pc[r] # "start"
  <1>1. CASE Interrupt(r)
    BY <1>1 DEF Interrupt, Goto, Label, Active
  <1>2. CASE VerifyAccount(r) \/ GetRole(r) \/ CreateRole(r) \/ ListPolicies(r)
    BY <1>2 DEF VerifyAccount, GetRole, CreateRole, ListPolicies, Goto, Label
  <1>3. CASE AttachPolicy(r) \/ GetProfile(r) \/ CreateProfile(r) \/ AddRole(r)
    BY <1>3 DEF AttachPolicy, GetProfile, CreateProfile, AddRole, Goto, Label
  <1>4. CASE GetGroup(r) \/ CreateGroup(r) \/ Authorize(r)
    <2>1. CASE Authorize(r) /\ UNCHANGED pc
      <3>1. pc' = [pc EXCEPT ![r] = "authorize"]
        BY <2>1 DEF Authorize
      <3>2. QED
        BY <2>1, <3>1 DEF Authorize, Label
    <2>2. QED
      BY <1>4, <2>1 DEF GetGroup, CreateGroup, Authorize, Goto, Label
  <1>5. CASE CreateKey(r) \/ SaveKey(r) \/ FindImage(r)
    BY <1>5 DEF CreateKey, SaveKey, FindImage, Goto, Label
  <1>6. CASE AwaitProfile(r) \/ AwaitImage(r) \/ RunInstance(r)
    BY <1>6 DEF AwaitProfile, AwaitImage, RunInstance, Goto, Label
  <1>7. CASE AwaitDns(r) \/ AwaitSsh(r) \/ SetUp(r)
    BY <1>7 DEF AwaitDns, AwaitSsh, SetUp, Goto, Label
  <1>8. QED
    BY <1>1, <1>2, <1>3, <1>4, <1>5, <1>6, <1>7 DEF Step

\* A step of a run makes one call that works, or fails, or none that can fail.
LEMMA CallOrNone ==
    ASSUME NEW r \in Run, Step(r) \/ Interrupt(r)
    PROVE  UNCHANGED spent \/ \E ok \in BOOLEAN : Call(r, ok)
  <1>1. CASE VerifyAccount(r) \/ GetRole(r) \/ ListPolicies(r) \/ GetProfile(r)
             \/ AddRole(r) \/ AwaitProfile(r) \/ GetGroup(r)
    BY <1>1 DEF VerifyAccount, GetRole, ListPolicies, GetProfile, AddRole, AwaitProfile,
       GetGroup
  <1>2. CASE CreateRole(r) \/ CreateProfile(r) \/ CreateGroup(r)
    <2>1. PICK created, found \in BOOLEAN : Call(r, created /\ found)
      BY <1>2 DEF CreateRole, CreateProfile, CreateGroup
    <2>2. (created /\ found) \in BOOLEAN
      OBVIOUS
    <2>3. QED
      BY <2>1, <2>2
  <1>3. CASE FindImage(r)
    <2>1. PICK found, copied \in BOOLEAN :
             Call(r, found /\ ((found /\ haveLocalAMI) \/ copied))
      BY <1>3 DEF FindImage
    <2>2. (found /\ ((found /\ haveLocalAMI) \/ copied)) \in BOOLEAN
      OBVIOUS
    <2>3. QED
      BY <2>1, <2>2
  <1>4. CASE AttachPolicy(r) \/ Authorize(r)
    BY <1>4 DEF AttachPolicy, Authorize
  <1>5. CASE CreateKey(r) \/ RunInstance(r) \/ AwaitDns(r) \/ Interrupt(r)
    BY <1>5 DEF CreateKey, RunInstance, AwaitDns, Interrupt
  <1>6. CASE SaveKey(r) \/ AwaitImage(r) \/ AwaitSsh(r) \/ SetUp(r)
    BY <1>6 DEF SaveKey, AwaitImage, AwaitSsh, SetUp
  <1>7. QED
    BY <1>1, <1>2, <1>3, <1>4, <1>5, <1>6 DEF Step

\* Faults are spent one by one, within the bound, and never given back; a run
\* that was hit stays so, and hits no other.
LEMMA FaultsStep ==
    ASSUME faults \in 0..MaxFaults, hit \in [Run -> BOOLEAN],
           NEW r \in Run, UNCHANGED spent \/ \E ok \in BOOLEAN : Call(r, ok)
    PROVE  /\ faults' \in 0..MaxFaults /\ hit' \in [Run -> BOOLEAN]
           /\ faults' = 0 => faults = 0
           /\ \A q \in Run : hit[q] => hit'[q]
           /\ \A q \in Run : q # r => hit'[q] = hit[q]
  <1>1. MaxFaults \in Nat
    BY BootstrapAssumption
  <1>2. CASE UNCHANGED spent
    BY <1>1, <1>2 DEF spent
  <1>3. CASE \E ok \in BOOLEAN : Call(r, ok)
    <2>1. PICK ok \in BOOLEAN : Call(r, ok)
      BY <1>3
    <2>2. faults' \in 0..MaxFaults /\ (faults' = 0 => faults = 0)
      BY <1>1, <2>1 DEF Call
    <2>3. (hit[r] \/ ~ok) \in BOOLEAN /\ hit' = [hit EXCEPT ![r] = hit[r] \/ ~ok]
      BY <2>1 DEF Call
    <2>4. QED
      BY <2>2, <2>3
  <1>4. QED
    BY <1>2, <1>3
-----------------------------------------------------------------------------
(* Type correctness *)

\* The role, the profile and the group keep their shape in every step of a run.
LEMMA AccountShape ==
    ASSUME TypeInv, NEW r \in Run, Step(r) \/ Interrupt(r)
    PROVE  /\ role' \in [there : BOOLEAN, policies : SUBSET Policy]
           /\ profile' \in [there : BOOLEAN, role : BOOLEAN]
           /\ group' \in [there : BOOLEAN, rules : SUBSET Rule]
  <1>0. /\ role \in [there : BOOLEAN, policies : SUBSET Policy]
        /\ profile \in [there : BOOLEAN, role : BOOLEAN]
        /\ group \in [there : BOOLEAN, rules : SUBSET Rule]
    BY DEF TypeInv, TypeOK
  <1>1. role' \in [there : BOOLEAN, policies : SUBSET Policy]
    <2>1. CASE CreateRole(r)
      BY <1>0, <2>1 DEF CreateRole
    <2>2. CASE AttachPolicy(r)
      <3>1. todo[r] # {} => First(todo[r]) \in Policy
        BY <2>2, FirstIn, BootstrapAssumption DEF AttachPolicy, TypeInv, TodoOf
      <3>2. QED
        BY <1>0, <2>2, <3>1 DEF AttachPolicy
    <2>3. QED
      BY <1>0, <2>1, <2>2, Writers
  <1>2. profile' \in [there : BOOLEAN, role : BOOLEAN]
    <2>1. CASE CreateProfile(r) \/ AddRole(r)
      BY <1>0, <2>1 DEF CreateProfile, AddRole
    <2>2. QED
      BY <1>0, <2>1, Writers
  <1>3. group' \in [there : BOOLEAN, rules : SUBSET Rule]
    <2>1. CASE CreateGroup(r)
      BY <1>0, <2>1 DEF CreateGroup
    <2>2. CASE Authorize(r)
      <3>1. todo[r] # {} => First(todo[r]) \in Rule
        BY <2>2, FirstIn, BootstrapAssumption DEF Authorize, TypeInv, TodoOf
      <3>2. QED
        BY <1>0, <2>2, <3>1 DEF Authorize
    <2>3. QED
      BY <1>0, <2>1, <2>2, Writers
  <1>4. QED
    BY <1>1, <1>2, <1>3

\* So do the key pairs, the files, the machines and the variables of the runs.
LEMMA RunShape ==
    ASSUME TypeInv, NEW r \in Run, Step(r) \/ Interrupt(r)
    PROVE  /\ keys' \in [Name -> Run \union {NIL}]
           /\ pem' \in [Name -> Run \union {NIL}]
           /\ vm' \in [Run -> Run \union {NIL}]
           /\ instance_ami' \in [Run -> {"none", "source", "copy", "copy 2> ERR", " 2> ERR"}]
           /\ todo' \in [Run -> SUBSET (Policy \union Rule)]
           /\ err' \in [Run -> BOOLEAN]
           /\ pc' \in [Run -> Label]
  <1>0. /\ keys \in [Name -> Run \union {NIL}] /\ pem \in [Name -> Run \union {NIL}]
        /\ vm \in [Run -> Run \union {NIL}] /\ instanceName \in [Run -> Name]
        /\ instance_ami \in [Run -> {"none", "source", "copy", "copy 2> ERR", " 2> ERR"}]
        /\ todo \in [Run -> SUBSET (Policy \union Rule)] /\ err \in [Run -> BOOLEAN]
        /\ pc \in [Run -> Label]
    BY DEF TypeInv, TypeOK
  <1>1. keys' \in [Name -> Run \union {NIL}]
    <2>1. CASE CreateKey(r)
      BY <1>0, <2>1 DEF CreateKey
    <2>2. QED
      BY <1>0, <2>1, Writers
  <1>2. pem' \in [Name -> Run \union {NIL}]
    <2>1. CASE SaveKey(r)
      BY <1>0, <2>1 DEF SaveKey
    <2>2. QED
      BY <1>0, <2>1, Writers
  <1>3. vm' \in [Run -> Run \union {NIL}]
    <2>1. CASE RunInstance(r)
      BY <1>0, <2>1 DEF RunInstance
    <2>2. QED
      BY <1>0, <2>1, Writers
  <1>4. instance_ami' \in [Run -> {"none", "source", "copy", "copy 2> ERR", " 2> ERR"}]
    <2>1. CASE FindImage(r)
      BY <1>0, <2>1 DEF FindImage
    <2>2. QED
      BY <1>0, <2>1, Writers
  <1>5. todo' \in [Run -> SUBSET (Policy \union Rule)]
    <2>1. CASE ListPolicies(r) \/ CreateGroup(r)
      BY <1>0, <2>1 DEF ListPolicies, CreateGroup
    <2>2. CASE AttachPolicy(r)
      <3>1. UNCHANGED todo \/ \E u : todo' = [todo EXCEPT ![r] = @ \ {u}]
        BY <2>2 DEF AttachPolicy
      <3>2. QED
        BY <1>0, <3>1
    <2>3. CASE Authorize(r)
      <3>1. UNCHANGED todo \/ \E u : todo' = [todo EXCEPT ![r] = @ \ {u}]
        BY <2>3 DEF Authorize
      <3>2. QED
        BY <1>0, <3>1
    <2>4. QED
      BY <1>0, <2>1, <2>2, <2>3, Writers
  <1>6. err' \in [Run -> BOOLEAN]
    <2>1. CASE Authorize(r)
      <3>1. \A ok \in BOOLEAN : \A g : (err[r] \/ ~ok \/ g) \in BOOLEAN
        BY <1>0
      <3>2. QED
        BY <1>0, <2>1, <3>1 DEF Authorize
    <2>2. QED
      BY <1>0, <2>1, Writers
  <1>7. pc' \in [Run -> Label]
    BY <1>0, OneRun
  <1>8. QED
    BY <1>1, <1>2, <1>3, <1>4, <1>5, <1>6, <1>7

\* A run that adds policies or rules has only those to add.
LEMMA TodoStep ==
    ASSUME TypeInv, NEW r \in Run, Step(r) \/ Interrupt(r)
    PROVE  TodoOf'
  <1>0. /\ todo \in [Run -> SUBSET (Policy \union Rule)]
        /\ pc \in [Run -> Label] /\ TodoOf
    BY DEF TypeInv, TypeOK
  <1>1. ASSUME NEW q \in Run, q # r
        PROVE  pc'[q] = pc[q] /\ todo'[q] = todo[q]
    <2>1. pc'[q] = pc[q]
      BY <1>0, <1>1, OneRun
    <2>2. CASE UNCHANGED todo
      BY <2>1, <2>2
    <2>3. CASE ListPolicies(r) \/ CreateGroup(r)
      BY <1>0, <1>1, <2>1, <2>3 DEF ListPolicies, CreateGroup
    <2>4. CASE AttachPolicy(r) \/ Authorize(r)
      BY <1>0, <1>1, <2>1, <2>4 DEF AttachPolicy, Authorize
    <2>5. QED
      BY <2>2, <2>3, <2>4, Writers
  <1>2. /\ pc'[r] = "attach" => todo'[r] \subseteq Policy
        /\ pc'[r] = "authorize" => todo'[r] \subseteq Rule
    <2>1. CASE ListPolicies(r)
      BY <1>0, <2>1 DEF ListPolicies, Goto
    <2>2. CASE AttachPolicy(r)
      BY <1>0, <2>2 DEF AttachPolicy, Goto, TodoOf
    <2>3. CASE CreateGroup(r)
      BY <1>0, <2>3 DEF CreateGroup, Goto
    <2>4. CASE Authorize(r)
      BY <1>0, <2>4 DEF Authorize, Goto, TodoOf
    <2>5. CASE VerifyAccount(r) \/ GetRole(r) \/ CreateRole(r) \/ GetProfile(r)
      BY <1>0, <2>5 DEF VerifyAccount, GetRole, CreateRole, GetProfile, Goto
    <2>6. CASE CreateProfile(r) \/ AddRole(r) \/ GetGroup(r) \/ CreateKey(r)
      BY <1>0, <2>6 DEF CreateProfile, AddRole, GetGroup, CreateKey, Goto
    <2>7. CASE SaveKey(r) \/ FindImage(r) \/ AwaitImage(r) \/ RunInstance(r)
      BY <1>0, <2>7 DEF SaveKey, FindImage, AwaitImage, RunInstance, Goto
    <2>8. CASE AwaitProfile(r) \/ AwaitDns(r) \/ AwaitSsh(r) \/ SetUp(r) \/ Interrupt(r)
      BY <1>0, <2>8 DEF AwaitProfile, AwaitDns, AwaitSsh, SetUp, Interrupt, Goto
    <2>9. QED
      BY <2>1, <2>2, <2>3, <2>4, <2>5, <2>6, <2>7, <2>8 DEF Step
  <1>3. QED
    BY <1>0, <1>1, <1>2 DEF TodoOf

\* Key pairs come from CreateKey alone, each under a name that was free, and
\* only a run with a key pair gets past it.
LEMMA OneKey ==
    ASSUME TypeInv, NEW r \in Run, Step(r) \/ Interrupt(r)
    PROVE  \/ UNCHANGED keys /\ (Keyed(r)' => Keyed(r))
           \/ /\ keys[instanceName[r]] = NIL
              /\ keys' = [keys EXCEPT ![instanceName[r]] = r]
  <1>0. pc \in [Run -> Label]
    BY DEF TypeInv
  <1>1. CASE Interrupt(r) \/ VerifyAccount(r) \/ GetRole(r) \/ CreateRole(r)
             \/ ListPolicies(r)
    BY <1>0, <1>1 DEF Interrupt, VerifyAccount, GetRole, CreateRole, ListPolicies,
       account, Goto, Keyed
  <1>2. CASE AttachPolicy(r) \/ GetProfile(r) \/ CreateProfile(r) \/ AddRole(r)
    BY <1>0, <1>2 DEF AttachPolicy, GetProfile, CreateProfile, AddRole, account,
       Goto, Keyed
  <1>3. CASE GetGroup(r) \/ CreateGroup(r) \/ Authorize(r)
    BY <1>0, <1>3 DEF GetGroup, CreateGroup, Authorize, account, Goto, Keyed
  <1>4. CASE CreateKey(r)
    BY <1>0, <1>4 DEF CreateKey, Goto, Keyed
  <1>5. CASE SaveKey(r) \/ FindImage(r) \/ AwaitImage(r)
    BY <1>0, <1>5 DEF SaveKey, FindImage, AwaitImage, account, Keyed
  <1>6. CASE RunInstance(r) \/ AwaitDns(r) \/ AwaitSsh(r) \/ SetUp(r)
    BY <1>0, <1>6 DEF RunInstance, AwaitDns, AwaitSsh, SetUp, account, Keyed
  <1>7. CASE AwaitProfile(r)
    BY <1>0, <1>7 DEF AwaitProfile, account, Goto, Keyed
  <1>8. QED
    BY <1>1, <1>2, <1>3, <1>4, <1>5, <1>6, <1>7 DEF Step

\* The owners of the key pairs stay, and their names go on in order.
LEMMA KeyStep ==
    ASSUME TypeInv, NEW r \in Run, Step(r) \/ Interrupt(r)
    PROVE  /\ \A q \in Run : Keyed(q)' => keys'[instanceName'[q]] = q
           /\ KeyOf' /\ NamesInOrder'
  <1>0. /\ keys \in [Name -> Run \union {NIL}] /\ instanceName \in [Run -> Name]
        /\ pc \in [Run -> Label]
        /\ KeyOf /\ NamesInOrder /\ instanceName' = instanceName
        /\ \A q \in Run : Keyed(q) => keys[instanceName[q]] = q
    BY Writers DEF TypeInv, TypeOK, Keyed
  <1>1. /\ pc[r] # "start" /\ pc'[r] # "start"
        /\ \A q \in Run : q # r => pc'[q] = pc[q]
    BY <1>0, OneRun
  <1>2. CASE UNCHANGED keys /\ (Keyed(r)' => Keyed(r))
    <2>1. \A q \in Run : Keyed(q)' => keys'[instanceName'[q]] = q
      BY <1>0, <1>1, <1>2 DEF Keyed
    <2>2. KeyOf'
      BY <1>0, <1>1, <1>2 DEF KeyOf
    <2>3. NamesInOrder'
      BY <1>0, <1>1, <1>2 DEF NamesInOrder, Taken
    <2>4. QED
      BY <2>1, <2>2, <2>3
  <1>3. CASE /\ keys[instanceName[r]] = NIL
             /\ keys' = [keys EXCEPT ![instanceName[r]] = r]
    <2>1. \A q \in Run : Keyed(q)' => keys'[instanceName'[q]] = q
      BY <1>0, <1>1, <1>3, BootstrapAssumption DEF Keyed
    <2>2. KeyOf'
      BY <1>0, <1>1, <1>3 DEF KeyOf
    <2>3. PICK m \in Nat : /\ Taken = 0..m-1
                           /\ \A q \in Run : pc[q] # "start" => instanceName[q] \in 0..m
      BY <1>0 DEF NamesInOrder
    <2>4. instanceName[r] = m
      <3>1. instanceName[r] \notin Taken /\ instanceName[r] \in 0..m
        BY <1>1, <1>3, <2>3 DEF Taken
      <3>2. QED
        BY <2>3, <3>1
    <2>5. Taken' = Taken \union {m}
      BY <1>0, <1>3, <2>4, BootstrapAssumption DEF Taken
    <2>6. Taken' = 0..(m+1)-1 /\ m+1 \in Nat
      BY <2>3, <2>5
    <2>7. \A q \in Run : pc'[q] # "start" => instanceName'[q] \in 0..m+1
      BY <1>0, <1>1, <2>3
    <2>8. QED
      BY <2>1, <2>2, <2>6, <2>7 DEF NamesInOrder
  <1>4. QED
    BY <1>2, <1>3, OneKey

\* There are never more names taken than runs, so the next one is a name: the
\* owner of a key pair has one.
LEMMA NextName ==
    ASSUME TypeInv
    PROVE  \E m \in Nat : /\ Taken = 0..m-1 /\ Cardinality(Taken) = m /\ m \in Name
                          /\ \A q \in Run : pc[q] # "start" => instanceName[q] \in 0..m
  <1>0. keys \in [Name -> Run \union {NIL}] /\ KeyOf /\ NamesInOrder
    BY DEF TypeInv, TypeOK
  <1>1. PICK m \in Nat : /\ Taken = 0..m-1
                         /\ \A q \in Run : pc[q] # "start" => instanceName[q] \in 0..m
    BY <1>0 DEF NamesInOrder
  <1>2. Cardinality(Taken) = m
    BY <1>1, FS_Interval
  <1>3. m <= Cardinality(Run)
    <2> DEFINE owner == [n \in Taken |-> keys[n]]
    <2>1. owner \in [Taken -> Run]
      BY <1>0 DEF Taken
    <2>2. \A a, b \in Taken : owner[a] = owner[b] => a = b
      BY <1>0 DEF Taken, KeyOf
    <2>3. owner \in Injection(Taken, Run)
      BY <2>1, <2>2 DEF Injection, IsInjective
    <2>4. QED
      BY <1>2, <2>3, FS_Injection, BootstrapAssumption
  <1>4. QED
    BY <1>1, <1>2, <1>3, NameNat DEF Name

\* Taking a name keeps the type invariant.
LEMMA GetNameType ==
    ASSUME TypeInv, NEW r \in Run, GetName(r)
    PROVE  TypeInv'
  <1> USE DEF GetName, Goto, account
  <1>1. PICK m \in Nat : /\ Taken = 0..m-1 /\ Cardinality(Taken) = m /\ m \in Name
                         /\ \A q \in Run : pc[q] # "start" => instanceName[q] \in 0..m
    BY NextName
  <1>2. /\ instanceName \in [Run -> Name] /\ alone \in [Run -> BOOLEAN]
        /\ pc \in [Run -> Label]
    BY DEF TypeInv, TypeOK
  <1>3. PICK n0 \in {0, m} : instanceName' = [instanceName EXCEPT ![r] = n0]
    BY <1>1 DEF Taken
  <1>4. pc' \in [Run -> Label] /\ pc' = [pc EXCEPT ![r] = "account"] /\ pc[r] = "start"
    BY <1>2 DEF Label
  <1>5. TypeOK'
    <2>1. /\ alone' \in [Run -> BOOLEAN]
          /\ faults' \in 0..MaxFaults /\ hit' \in [Run -> BOOLEAN]
      <3>1. \E ok \in BOOLEAN : Call(r, ok)
        OBVIOUS
      <3>2. faults' \in 0..MaxFaults /\ hit' \in [Run -> BOOLEAN]
        BY <3>1, FaultsStep DEF TypeInv, TypeOK
      <3>3. QED
        BY <3>2
    <2>2. instanceName' \in [Run -> Name]
      BY <1>1, <1>2, <1>3, NameNat
    <2>3. \A q \in Run : Keyed(q)' => keys'[instanceName'[q]] = q
      BY <1>2, <1>3, <1>4 DEF TypeInv, TypeOK, Keyed
    <2>4. QED
      BY <2>1, <2>2, <2>3 DEF TypeInv, TypeOK, Keyed
  <1>6. TodoOf'
    BY <1>2, <1>4 DEF TypeInv, TodoOf
  <1>7. KeyOf'
    <2>1. \A n \in Name : keys[n] # NIL => keys[n] # r
      BY <1>4 DEF TypeInv, KeyOf
    <2>2. ASSUME NEW n \in Name, keys[n] # NIL
          PROVE  /\ keys[n] \in Run /\ keys[n] # r
                 /\ instanceName[keys[n]] = n /\ pc[keys[n]] # "start"
      <3>1. keys \in [Name -> Run \union {NIL}] /\ KeyOf
        BY DEF TypeInv, TypeOK
      <3>2. QED
        BY <2>1, <2>2, <3>1 DEF KeyOf
    <2>3. UNCHANGED keys
      OBVIOUS
    <2>4. QED
      BY <1>2, <1>3, <1>4, <2>2, <2>3 DEF KeyOf
  <1>8. NamesInOrder'
    <2>1. Taken' = 0..m-1
      BY <1>1 DEF Taken
    <2>2. \A q \in Run : pc'[q] # "start" => instanceName'[q] \in 0..m
      BY <1>1, <1>2, <1>3, <1>4
    <2>3. QED
      BY <2>1, <2>2 DEF NamesInOrder
  <1>9. QED
    BY <1>4, <1>5, <1>6, <1>7, <1>8 DEF TypeInv

LEMMA TypeInit == Init => TypeInv
  <1> SUFFICES ASSUME Init PROVE TypeInv
    OBVIOUS
  <1> USE NameNat, BootstrapAssumption DEF Init
  <1>1. pc \in [Run -> Label]
    BY DEF Label
  <1>2. TypeOK
    BY DEF TypeOK, Keyed
  <1>3. TodoOf /\ KeyOf
    BY DEF TodoOf, KeyOf
  <1>4. NamesInOrder
    <2>1. Taken = 0..0-1
      BY DEF Taken
    <2>2. QED
      BY <2>1 DEF NamesInOrder
  <1>5. QED
    BY <1>1, <1>2, <1>3, <1>4 DEF TypeInv

LEMMA TypeStep == TypeInv /\ [Next]_vars => TypeInv'
  <1> SUFFICES ASSUME TypeInv, [Next]_vars PROVE TypeInv'
    OBVIOUS
  <1>1. ASSUME NEW r \in Run, GetName(r) PROVE TypeInv'
    BY <1>1, GetNameType
  <1>2. ASSUME NEW r \in Run, Step(r) \/ Interrupt(r) PROVE TypeInv'
    <2>1. /\ instanceName' \in [Run -> Name] /\ alone' \in [Run -> BOOLEAN]
          /\ haveLocalAMI' \in BOOLEAN
          /\ faults' \in 0..MaxFaults /\ hit' \in [Run -> BOOLEAN]
      BY <1>2, Writers, CallOrNone, FaultsStep DEF TypeInv, TypeOK
    <2>2. TypeOK'
      BY <1>2, <2>1, AccountShape, RunShape, KeyStep DEF TypeOK, Keyed
    <2>3. QED
      BY <1>2, <2>2, RunShape, TodoStep, KeyStep DEF TypeInv
  <1>3. CASE UNCHANGED vars
    BY <1>3 DEF vars, account, local, spent, TypeInv, TypeOK, TodoOf, KeyOf,
       NamesInOrder, Taken, Keyed
  <1>4. QED
    BY <1>1, <1>2, <1>3 DEF Next

\* The script's variables and the account keep their types, and a run that is
\* past the creation of its key pair (bootStrap.sh, the steps that save the key
\* and start the machine) has one of its own under the name it counted.
THEOREM TypeCorrect == FairSpec => []TypeOK
  <1>1. TypeInv => TypeOK
    BY DEF TypeInv
  <1>2. QED
    BY <1>1, TypeInit, TypeStep, PTL DEF FairSpec
-----------------------------------------------------------------------------
(* Key pairs, key files and machines *)

\* Whose private key is in a file under its name.
Saved(q) == pc[q] \in {"image", "awaitImage", "launch", "awaitDns", "awaitSsh",
                       "setup", "done"}

\* A run past saving its key has it; a machine was started with the key pair of
\* its run, under a name that will not change.
OwnInv ==
    /\ \A q \in Run : Saved(q) => pem[instanceName[q]] = q
    /\ \A q \in Run : vm[q] # NIL => /\ vm[q] = q /\ pc[q] # "start"
                                     /\ keys[instanceName[q]] = q
                                     /\ pem[instanceName[q]] = q

\* A file, once it is the owner's, is not written again by anybody else.
LEMMA PemStep ==
    ASSUME TypeInv, NEW r \in Run, Step(r) \/ Interrupt(r),
           NEW q \in Run, keys[instanceName[q]] = q, pem[instanceName[q]] = q
    PROVE  /\ pem'[instanceName'[q]] = q
           /\ keys'[instanceName'[q]] = q
  <1>0. /\ keys \in [Name -> Run \union {NIL}] /\ pem \in [Name -> Run \union {NIL}]
        /\ instanceName \in [Run -> Name] /\ instanceName' = instanceName
    BY Writers DEF TypeInv, TypeOK
  <1>1. keys'[instanceName[q]] = q
    BY <1>0, OneKey, BootstrapAssumption
  <1>2. pem'[instanceName[q]] = q
    <2>1. CASE SaveKey(r)
      <3>1. keys[instanceName[r]] = r
        BY <2>1 DEF SaveKey, TypeInv, TypeOK, Keyed
      <3>2. QED
        BY <1>0, <2>1, <3>1 DEF SaveKey
    <2>2. QED
      BY <2>1, Writers
  <1>3. QED
    BY <1>0, <1>1, <1>2

LEMMA OwnStep ==
    ASSUME TypeInv, OwnInv, NEW r \in Run, Step(r) \/ Interrupt(r)
    PROVE  OwnInv'
  <1>0. /\ pem \in [Name -> Run \union {NIL}] /\ vm \in [Run -> Run \union {NIL}]
        /\ instanceName \in [Run -> Name] /\ pc \in [Run -> Label]
        /\ instanceName' = instanceName
        /\ \A q \in Run : Keyed(q) => keys[instanceName[q]] = q
    BY Writers DEF TypeInv, TypeOK, Keyed
  <1>1. /\ pc'[r] # "start" /\ \A q \in Run : q # r => pc'[q] = pc[q]
    BY <1>0, OneRun
  <1>2. ASSUME NEW q \in Run, Saved(q)'
        PROVE  pem'[instanceName'[q]] = q
    <2>1. CASE SaveKey(r) /\ q = r
      BY <1>0, <2>1 DEF SaveKey
    <2>2. CASE ~(SaveKey(r) /\ q = r)
      <3>1. Saved(q)
        <4>1. CASE q # r
          BY <1>1, <1>2, <4>1 DEF Saved
        <4>2. CASE Interrupt(r) /\ q = r
          BY <1>0, <1>2, <4>2 DEF Interrupt, Goto, Saved
        <4>3. CASE /\ q = r
                   /\ FindImage(r) \/ AwaitImage(r) \/ RunInstance(r) \/ AwaitDns(r)
                      \/ AwaitSsh(r) \/ SetUp(r)
          BY <4>3 DEF FindImage, AwaitImage, RunInstance, AwaitDns, AwaitSsh, SetUp, Saved
        <4>4. CASE q = r /\ Authorize(r) /\ UNCHANGED pc
          BY <1>2, <4>4 DEF Saved
        <4>5. CASE /\ q = r
                   /\ VerifyAccount(r) \/ GetRole(r) \/ CreateRole(r) \/ ListPolicies(r)
                      \/ AttachPolicy(r) \/ GetProfile(r) \/ CreateProfile(r) \/ AddRole(r)
                      \/ AwaitProfile(r)
          BY <1>0, <1>2, <4>5 DEF VerifyAccount, GetRole, CreateRole, ListPolicies,
             AttachPolicy, GetProfile, CreateProfile, AddRole, AwaitProfile, Goto, Saved
        <4>6. CASE /\ q = r /\ ~UNCHANGED pc
                   /\ GetGroup(r) \/ CreateGroup(r) \/ Authorize(r) \/ CreateKey(r)
          BY <1>0, <1>2, <4>6 DEF GetGroup, CreateGroup, Authorize, CreateKey, Goto, Saved
        <4>7. CASE UNCHANGED pc
          BY <1>2, <4>7 DEF Saved
        <4>8. QED
          BY <2>2, <4>1, <4>2, <4>3, <4>4, <4>5, <4>6, <4>7 DEF Step
      <3>2. pem[instanceName[q]] = q /\ keys[instanceName[q]] = q
        BY <1>0, <3>1 DEF OwnInv, Saved, Keyed
      <3>3. QED
        BY <3>2, PemStep
    <2>3. QED
      BY <2>1, <2>2
  <1>3. ASSUME NEW q \in Run, vm'[q] # NIL
        PROVE  /\ vm'[q] = q /\ pc'[q] # "start"
               /\ keys'[instanceName'[q]] = q /\ pem'[instanceName'[q]] = q
    <2>1. CASE vm[q] # NIL
      <3>1. /\ vm[q] = q /\ pc[q] # "start"
            /\ keys[instanceName[q]] = q /\ pem[instanceName[q]] = q
        BY <2>1 DEF OwnInv
      <3>2. vm'[q] = q
        BY <1>0, <3>1, Writers DEF RunInstance
      <3>3. QED
        BY <1>1, <3>1, <3>2, PemStep
    <2>2. CASE vm[q] = NIL
      <3>1. q = r /\ RunInstance(r) /\ vm'[q] = keys[instanceName[q]]
        BY <1>0, <1>3, <2>2, Writers DEF RunInstance
      <3>2. keys[instanceName[q]] = q /\ pem[instanceName[q]] = q
        BY <1>0, <3>1 DEF RunInstance, OwnInv, Saved, Keyed
      <3>3. QED
        BY <1>1, <3>1, <3>2, PemStep
    <2>3. QED
      BY <2>1, <2>2
  <1>4. QED
    BY <1>2, <1>3 DEF OwnInv

\* The machine a run of bootStrap.sh started is entered with the key file the
\* run named, for good: neither a run that counted the same key pairs nor a
\* later one replaces the key pair (aws ec2 create-key-pair) or the file.
THEOREM OwnKeyHolds == FairSpec => []OwnKey
  <1>1. Init => OwnInv
    BY DEF Init, OwnInv, Saved
  <1>2. TypeInv /\ OwnInv /\ [Next]_vars => OwnInv'
    <2> SUFFICES ASSUME TypeInv, OwnInv, [Next]_vars PROVE OwnInv'
      OBVIOUS
    <2>1. ASSUME NEW r \in Run, GetName(r) PROVE OwnInv'
      <3>1. pc \in [Run -> Label] /\ instanceName \in [Run -> Name]
        BY DEF TypeInv, TypeOK
      <3>2. \A q \in Run : Saved(q)' => Saved(q) /\ q # r
        BY <2>1, <3>1 DEF GetName, Goto, Saved
      <3>3. \A q \in Run : q # r => instanceName'[q] = instanceName[q] /\ pc'[q] = pc[q]
        BY <2>1, <3>1 DEF GetName, Goto
      <3>4. vm[r] = NIL /\ UNCHANGED <<keys, pem, vm>>
        BY <2>1 DEF GetName, account, OwnInv
      <3>5. QED
        BY <3>2, <3>3, <3>4 DEF OwnInv
    <2>2. ASSUME NEW r \in Run, Step(r) \/ Interrupt(r) PROVE OwnInv'
      BY <2>2, OwnStep
    <2>3. CASE UNCHANGED vars
      BY <2>3 DEF vars, account, local, spent, OwnInv, Saved
    <2>4. QED
      BY <2>1, <2>2, <2>3 DEF Next
  <1>3. OwnInv => OwnKey
    BY DEF OwnInv, OwnKey
  <1>4. QED
    BY <1>1, <1>2, <1>3, TypeInit, TypeStep, PTL DEF FairSpec
-----------------------------------------------------------------------------
(* Runs that race for the role, the profile and the group *)

\* Where each action stands in the script.
LEMMA Where ==
    ASSUME NEW r \in Run
    PROVE  /\ VerifyAccount(r) => pc[r] = "account"
           /\ GetRole(r) => pc[r] = "getRole"
           /\ CreateRole(r) => pc[r] = "createRole"
           /\ ListPolicies(r) => pc[r] = "listPolicies"
           /\ AttachPolicy(r) => pc[r] = "attach"
           /\ GetProfile(r) => pc[r] = "getProfile"
           /\ CreateProfile(r) => pc[r] = "createProfile"
           /\ AddRole(r) => pc[r] = "addRole"
           /\ GetGroup(r) => pc[r] = "getGroup"
           /\ CreateGroup(r) => pc[r] = "createGroup"
           /\ Authorize(r) => pc[r] = "authorize"
           /\ CreateKey(r) => pc[r] = "createKey"
           /\ SaveKey(r) => pc[r] = "saveKey"
           /\ FindImage(r) => pc[r] = "image"
           /\ AwaitImage(r) => pc[r] = "awaitImage"
           /\ RunInstance(r) => pc[r] = "launch"
           /\ AwaitProfile(r) => pc[r] = "awaitProfile"
           /\ AwaitDns(r) => pc[r] = "awaitDns"
           /\ AwaitSsh(r) => pc[r] = "awaitSsh"
           /\ SetUp(r) => pc[r] = "setup"
  BY DEF VerifyAccount, GetRole, CreateRole, ListPolicies, AttachPolicy, GetProfile,
     CreateProfile, AddRole, GetGroup, CreateGroup, Authorize, CreateKey, SaveKey,
     FindImage, AwaitImage, RunInstance, AwaitProfile, AwaitDns, AwaitSsh, SetUp

\* Only a run that is under way does anything.
LEMMA StepsAreActive ==
    ASSUME NEW r \in Run, Step(r) \/ Interrupt(r)
    PROVE  Active(r)
  BY Where DEF Step, Interrupt, Active

\* What no step takes back or loses: a part is made before it is filled, and a
\* run with a line in its error file goes no further than looking at it.
PartsInv ==
    /\ profile.role => profile.there
    /\ group.rules # {} => group.there
    /\ \A q \in Run : err[q] => pc[q] \in {"authorize", "aborted"}
    /\ \A q \in Run : pc[q] \in {"listPolicies", "attach"} => role.there
    /\ \A q \in Run : pc[q] = "addRole" => profile.there
    /\ \A q \in Run : pc[q] = "authorize" => group.there
    /\ \A q \in Run : alone[q] /\ Active(q) => \A p \in Run : p # q => ~Active(p)

\* The account is never emptied.
LEMMA AccountGrows ==
    ASSUME TypeInv, NEW r \in Run, Step(r) \/ Interrupt(r)
    PROVE  /\ role.there => role'.there
           /\ role.policies \subseteq role'.policies
           /\ profile.there => profile'.there
           /\ profile.role => profile'.role
           /\ group.there => group'.there
           /\ group.rules \subseteq group'.rules
  <1>0. /\ role \in [there : BOOLEAN, policies : SUBSET Policy]
        /\ profile \in [there : BOOLEAN, role : BOOLEAN]
        /\ group \in [there : BOOLEAN, rules : SUBSET Rule]
    BY DEF TypeInv, TypeOK
  <1>1. (role.there => role'.there) /\ role.policies \subseteq role'.policies
    BY <1>0, Writers DEF CreateRole, AttachPolicy
  <1>2. (profile.there => profile'.there) /\ (profile.role => profile'.role)
    BY <1>0, Writers DEF CreateProfile, AddRole
  <1>3. (group.there => group'.there) /\ group.rules \subseteq group'.rules
    BY <1>0, Writers DEF CreateGroup, Authorize
  <1>4. QED
    BY <1>1, <1>2, <1>3

LEMMA PartsStep ==
    ASSUME TypeInv, PartsInv, NEW r \in Run, Step(r) \/ Interrupt(r)
    PROVE  PartsInv'
  <1>0. /\ role \in [there : BOOLEAN, policies : SUBSET Policy]
        /\ profile \in [there : BOOLEAN, role : BOOLEAN]
        /\ group \in [there : BOOLEAN, rules : SUBSET Rule]
        /\ err \in [Run -> BOOLEAN] /\ pc \in [Run -> Label]
    BY DEF TypeInv, TypeOK
  <1>1. /\ pc'[r] # "start" /\ \A q \in Run : q # r => pc'[q] = pc[q]
        /\ pc[r] # "start" /\ pc' = [pc EXCEPT ![r] = pc'[r]]
    BY <1>0, OneRun
  <1>2. profile'.role => profile'.there
    BY <1>0, AccountGrows, Writers, Where DEF PartsInv, AddRole, CreateProfile
  <1>3. group'.rules # {} => group'.there
    BY <1>0, AccountGrows, Writers, Where DEF PartsInv, CreateGroup, Authorize
  <1>4. ASSUME NEW q \in Run, err'[q]
        PROVE  pc'[q] \in {"authorize", "aborted"}
    <2>1. CASE err[q] /\ (q # r \/ ~Authorize(r))
      <3>1. pc[q] \in {"authorize", "aborted"}
        BY <2>1 DEF PartsInv
      <3>2. CASE q # r
        BY <1>1, <3>1, <3>2
      <3>3. CASE q = r
        <4>1. pc[r] = "authorize"
          BY <3>1, <3>3, StepsAreActive DEF Active
        <4>2. Interrupt(r)
          BY <2>1, <3>3, <4>1, Where DEF Step
        <4>3. QED
          BY <1>0, <3>3, <4>2 DEF Interrupt, Goto
      <3>4. QED
        BY <3>2, <3>3
    <2>2. CASE Authorize(r) /\ q = r
      BY <1>0, <1>4, <2>2 DEF Authorize, Goto
    <2>3. CASE ~err[q] /\ ~(Authorize(r) /\ q = r)
      BY <1>0, <1>4, <2>3, Writers DEF Authorize
    <2>4. QED
      BY <2>1, <2>2, <2>3
  <1>5. ASSUME NEW q \in Run, pc'[q] \in {"listPolicies", "attach"}
        PROVE  role'.there
    <2>1. CASE pc[q] \in {"listPolicies", "attach"}
      BY <2>1, AccountGrows DEF PartsInv
    <2>2. CASE CreateRole(r) /\ q = r
      BY <1>0, <1>5, <2>2 DEF CreateRole, Goto
    <2>3. CASE pc[q] \notin {"listPolicies", "attach"} /\ ~(CreateRole(r) /\ q = r)
      BY <1>0, <1>1, <1>5, <2>3 DEF Step, Interrupt, Goto, VerifyAccount, GetRole,
         ListPolicies, AttachPolicy, GetProfile, CreateProfile, AddRole, GetGroup,
         CreateGroup, Authorize, CreateKey, SaveKey, FindImage, AwaitImage,
         RunInstance, AwaitProfile, AwaitDns, AwaitSsh, SetUp
    <2>4. QED
      BY <2>1, <2>2, <2>3
  <1>6. ASSUME NEW q \in Run, pc'[q] = "addRole"
        PROVE  profile'.there
    <2>1. CASE pc[q] = "addRole"
      BY <2>1, AccountGrows DEF PartsInv
    <2>2. CASE CreateProfile(r) /\ q = r
      BY <1>0, <1>6, <2>2 DEF CreateProfile, Goto
    <2>3. CASE pc[q] # "addRole" /\ ~(CreateProfile(r) /\ q = r)
      BY <1>0, <1>1, <1>6, <2>3 DEF Step, Interrupt, Goto, VerifyAccount, GetRole,
         CreateRole, ListPolicies, AttachPolicy, GetProfile, AddRole, GetGroup,
         CreateGroup, Authorize, CreateKey, SaveKey, FindImage, AwaitImage,
         RunInstance, AwaitProfile, AwaitDns, AwaitSsh, SetUp
    <2>4. QED
      BY <2>1, <2>2, <2>3
  <1>7. ASSUME NEW q \in Run, pc'[q] = "authorize"
        PROVE  group'.there
    <2>1. CASE pc[q] = "authorize"
      BY <2>1, AccountGrows DEF PartsInv
    <2>2. CASE CreateGroup(r) /\ q = r
      BY <1>0, <1>7, <2>2 DEF CreateGroup, Goto
    <2>3. CASE pc[q] # "authorize" /\ ~(CreateGroup(r) /\ q = r)
      BY <1>0, <1>1, <1>7, <2>3 DEF Step, Interrupt, Goto, VerifyAccount, GetRole,
         CreateRole, ListPolicies, AttachPolicy, GetProfile, CreateProfile, AddRole,
         GetGroup, Authorize, CreateKey, SaveKey, FindImage, AwaitImage,
         RunInstance, AwaitProfile, AwaitDns, AwaitSsh, SetUp
    <2>4. QED
      BY <2>1, <2>2, <2>3
  <1>8. \A q \in Run : (alone[q] /\ Active(q) => \A p \in Run : p # q => ~Active(p))'
    BY <1>1, StepsAreActive, Writers DEF PartsInv, Active
  <1>9. QED
    BY <1>2, <1>3, <1>4, <1>5, <1>6, <1>7, <1>8 DEF PartsInv

\* What is missing has a run that sees to it, as long as no call failed.
BeforeRole == {"start", "account", "getRole", "createRole"}
BeforeProfile == BeforeRole \union {"listPolicies", "attach", "getProfile", "createProfile"}

RolePending ==
    /\ role.there \/ \A q \in Run : pc[q] \in BeforeRole
    /\ role.there => \A p \in Policy \ role.policies : \E q \in Run :
                        pc[q] = "listPolicies" \/ (pc[q] = "attach" /\ p \in todo[q])

ProfilePending ==
    /\ profile.there \/ \A q \in Run : pc[q] \in BeforeProfile
    /\ profile.there => profile.role \/ \E q \in Run : pc[q] = "addRole"

GroupPending ==
    /\ profile.role => group.there \/ \E q \in Run :
                          pc[q] \in {"awaitProfile", "getGroup", "createGroup"}
    /\ group.there => \A u \in Rule \ group.rules : \E q \in Run :
                         pc[q] = "authorize" /\ u \in todo[q]

FaultlessInv == faults = 0 => RolePending /\ ProfilePending /\ GroupPending

\* Without a fault every call of a step worked, and nobody was interrupted.
LEMMA CallsWork ==
    ASSUME faults \in 0..MaxFaults, faults' = 0, NEW r \in Run
    PROVE  /\ \A ok \in BOOLEAN : Call(r, ok) => ok
           /\ \A a, b \in BOOLEAN : Call(r, a /\ b) => a /\ b
           /\ ~Interrupt(r)
  <1>1. faults \in Nat
    BY BootstrapAssumption
  <1>2. \A ok \in BOOLEAN : Call(r, ok) => ok
    BY <1>1 DEF Call
  <1>3. \A a, b \in BOOLEAN : (a /\ b) \in BOOLEAN
    OBVIOUS
  <1>4. ~Interrupt(r)
    BY <1>2 DEF Interrupt
  <1>5. QED
    BY <1>2, <1>3, <1>4

\* What a step does to what the other runs see of one run.
LEMMA OthersStay ==
    ASSUME TypeInv, NEW r \in Run, Step(r) \/ Interrupt(r), NEW q \in Run, q # r
    PROVE  /\ pc'[q] = pc[q] /\ todo'[q] = todo[q] /\ err'[q] = err[q]
           /\ instanceName'[q] = instanceName[q] /\ alone'[q] = alone[q]
  <1>0. /\ todo \in [Run -> SUBSET (Policy \union Rule)] /\ err \in [Run -> BOOLEAN]
        /\ pc \in [Run -> Label]
    BY DEF TypeInv, TypeOK
  <1>1. pc'[q] = pc[q]
    BY <1>0, OneRun
  <1>2. err'[q] = err[q]
    BY <1>0, Writers DEF Authorize
  <1>3. todo'[q] = todo[q]
    <2>1. CASE ListPolicies(r) \/ CreateGroup(r)
      BY <1>0, <2>1 DEF ListPolicies, CreateGroup
    <2>2. CASE AttachPolicy(r)
      BY <1>0, <2>2 DEF AttachPolicy
    <2>3. CASE Authorize(r)
      BY <1>0, <2>3 DEF Authorize
    <2>4. QED
      BY <2>1, <2>2, <2>3, Writers
  <1>4. QED
    BY <1>1, <1>2, <1>3, Writers

\* Whoever creates the role lists its policies, and attaches each.
LEMMA RoleStep ==
    ASSUME TypeInv, PartsInv, RolePending, NEW r \in Run, Step(r), faults' = 0
    PROVE  RolePending'
  <1>0. /\ role \in [there : BOOLEAN, policies : SUBSET Policy]
        /\ todo \in [Run -> SUBSET (Policy \union Rule)]
        /\ pc \in [Run -> Label] /\ faults \in 0..MaxFaults
    BY DEF TypeInv, TypeOK
  <1>1. role'.there \/ \A q \in Run : pc'[q] \in BeforeRole
    <2>1. CASE role.there
      BY <2>1, AccountGrows
    <2>2. CASE ~role.there
      <3>1. pc[r] \in BeforeRole
        BY <2>2 DEF RolePending
      <3>2. VerifyAccount(r) \/ GetRole(r) \/ CreateRole(r)
        BY <3>1, Where DEF Step, BeforeRole
      <3>3. pc'[r] \in BeforeRole \/ role'.there
        BY <1>0, <2>2, <3>2, CallsWork DEF VerifyAccount, GetRole, CreateRole, Goto, BeforeRole
      <3>4. QED
        BY <2>2, <3>3, OthersStay DEF RolePending
    <2>3. QED
      BY <2>1, <2>2
  <1>2. ASSUME role'.there, NEW p \in Policy, p \notin role'.policies
        PROVE  \E q \in Run : pc'[q] = "listPolicies" \/ (pc'[q] = "attach" /\ p \in todo'[q])
    <2>1. CASE ~role.there
      <3>1. CreateRole(r)
        BY <1>0, <1>2, <2>1, Writers, Where DEF AttachPolicy, PartsInv
      <3>2. pc'[r] = "listPolicies"
        BY <1>0, <1>2, <3>1, CallsWork DEF CreateRole, Goto
      <3>3. QED
        BY <3>2
    <2>2. CASE role.there
      <3>1. p \notin role.policies
        BY <1>2, AccountGrows
      <3>2. PICK q \in Run : pc[q] = "listPolicies" \/ (pc[q] = "attach" /\ p \in todo[q])
        BY <2>2, <3>1 DEF RolePending
      <3>3. CASE q # r
        BY <3>2, <3>3, OthersStay
      <3>4. CASE q = r /\ pc[r] = "listPolicies"
        <4>1. ListPolicies(r)
          BY <3>4, Where DEF Step
        <4>2. pc'[r] = "attach" /\ p \in todo'[r]
          BY <1>0, <3>1, <4>1 DEF ListPolicies, Goto
        <4>3. QED
          BY <4>2
      <3>5. CASE q = r /\ pc[r] = "attach"
        <4>1. AttachPolicy(r) /\ p \in todo[r]
          BY <3>2, <3>5, Where DEF Step
        <4>2. PICK ok \in BOOLEAN :
                 /\ Call(r, ok)
                 /\ role' = [role EXCEPT !.policies = IF ok THEN @ \union {First(todo[r])} ELSE @]
                 /\ todo' = [todo EXCEPT ![r] = @ \ {First(todo[r])}]
                 /\ Goto(r, IF ok THEN "attach" ELSE "aborted")
          BY <4>1 DEF AttachPolicy
        <4>3. ok
          BY <1>0, <4>2, CallsWork
        <4>4. pc'[r] = "attach" /\ p # First(todo[r]) /\ p \in todo'[r]
          BY <1>0, <1>2, <4>1, <4>2, <4>3 DEF Goto
        <4>5. QED
          BY <4>4
      <3>6. QED
        BY <3>2, <3>3, <3>4, <3>5
    <2>3. QED
      BY <1>0, <2>1, <2>2
  <1>3. QED
    BY <1>1, <1>2 DEF RolePending

\* Whoever creates the profile adds the role, unless another run was faster.
LEMMA ProfileStep ==
    ASSUME TypeInv, PartsInv, ProfilePending, NEW r \in Run, Step(r), faults' = 0
    PROVE  ProfilePending'
  <1>0. /\ role \in [there : BOOLEAN, policies : SUBSET Policy]
        /\ profile \in [there : BOOLEAN, role : BOOLEAN]
        /\ pc \in [Run -> Label] /\ faults \in 0..MaxFaults
    BY DEF TypeInv, TypeOK
  <1>1. profile'.there \/ \A q \in Run : pc'[q] \in BeforeProfile
    <2>1. CASE profile.there
      BY <2>1, AccountGrows
    <2>2. CASE ~profile.there
      <3>1. pc[r] \in BeforeProfile
        BY <2>2 DEF ProfilePending
      <3>2. CASE VerifyAccount(r) \/ GetRole(r) \/ CreateRole(r)
        <4>1. pc'[r] \in BeforeProfile
          BY <1>0, <3>2, CallsWork
          DEF VerifyAccount, GetRole, CreateRole, Goto, BeforeProfile, BeforeRole
        <4>2. QED
          BY <2>2, <4>1, OthersStay DEF ProfilePending
      <3>3. CASE ListPolicies(r) \/ AttachPolicy(r) \/ GetProfile(r)
        <4>1. pc'[r] \in BeforeProfile
          BY <1>0, <2>2, <3>3, CallsWork
          DEF ListPolicies, AttachPolicy, GetProfile, Goto, BeforeProfile
        <4>2. QED
          BY <2>2, <4>1, OthersStay DEF ProfilePending
      <3>4. CASE CreateProfile(r)
        BY <1>0, <3>4, CallsWork DEF CreateProfile
      <3>5. QED
        BY <3>1, <3>2, <3>3, <3>4, Where DEF Step, BeforeProfile, BeforeRole
    <2>3. QED
      BY <2>1, <2>2
  <1>2. ASSUME profile'.there, ~profile'.role
        PROVE  \E q \in Run : pc'[q] = "addRole"
    <2>1. CASE ~profile.there
      <3>1. CreateProfile(r)
        BY <1>0, <1>2, <2>1, Writers, Where DEF AddRole, PartsInv
      <3>2. pc'[r] = "addRole"
        BY <1>0, <1>2, <3>1, CallsWork DEF CreateProfile, Goto
      <3>3. QED
        BY <3>2
    <2>2. CASE profile.there
      <3>1. PICK q \in Run : pc[q] = "addRole"
        BY <1>2, <2>2, AccountGrows DEF ProfilePending
      <3>2. q # r
        <4>1. SUFFICES ASSUME q = r PROVE FALSE
          OBVIOUS
        <4>2. AddRole(r)
          BY <3>1, <4>1, Where DEF Step
        <4>3. profile'.role
          BY <1>0, <4>2, CallsWork DEF AddRole
        <4>4. QED
          BY <1>2, <4>3
      <3>3. QED
        BY <3>1, <3>2, OthersStay
    <2>3. QED
      BY <1>0, <2>1, <2>2
  <1>3. QED
    BY <1>1, <1>2 DEF ProfilePending

\* The run that adds the role goes on to the group; whoever creates the group
\* authorizes each rule, whatever errors it collects.
LEMMA GroupStep ==
    ASSUME TypeInv, PartsInv, GroupPending, NEW r \in Run, Step(r), faults' = 0
    PROVE  GroupPending'
  <1>0. /\ profile \in [there : BOOLEAN, role : BOOLEAN]
        /\ group \in [there : BOOLEAN, rules : SUBSET Rule]
        /\ todo \in [Run -> SUBSET (Policy \union Rule)]
        /\ pc \in [Run -> Label] /\ faults \in 0..MaxFaults
    BY DEF TypeInv, TypeOK
  <1>1. ASSUME profile'.role, ~group'.there
        PROVE  \E q \in Run : pc'[q] \in {"awaitProfile", "getGroup", "createGroup"}
    <2>1. ~group.there
      BY <1>0, <1>1, AccountGrows
    <2>2. CASE ~profile.role
      <3>1. AddRole(r)
        BY <1>0, <1>1, <2>2, Writers DEF CreateProfile
      <3>2. pc'[r] = "awaitProfile"
        BY <1>0, <2>2, <3>1, CallsWork DEF AddRole, Goto
      <3>3. QED
        BY <3>2
    <2>3. CASE profile.role
      <3>1. PICK q \in Run : pc[q] \in {"awaitProfile", "getGroup", "createGroup"}
        BY <2>1, <2>3 DEF GroupPending
      <3>2. CASE q # r
        BY <3>1, <3>2, OthersStay
      <3>3. CASE q = r /\ pc[r] = "getGroup"
        <4>1. GetGroup(r)
          BY <3>3, Where DEF Step
        <4>2. pc'[r] = "createGroup"
          BY <1>0, <2>1, <4>1 DEF GetGroup, Goto
        <4>3. QED
          BY <4>2
      <3>4. CASE q = r /\ pc[r] = "createGroup"
        <4>1. CreateGroup(r)
          BY <3>4, Where DEF Step
        <4>2. group'.there
          BY <1>0, <4>1, CallsWork DEF CreateGroup
        <4>3. QED
          BY <1>1, <4>2
      <3>5. CASE q = r /\ pc[r] = "awaitProfile"
        <4>1. AwaitProfile(r)
          BY <3>5, Where DEF Step
        <4>2. pc'[r] \in {"awaitProfile", "getGroup"}
          BY <1>0, <4>1 DEF AwaitProfile, Goto
        <4>3. QED
          BY <4>2
      <3>6. QED
        BY <3>1, <3>2, <3>3, <3>4, <3>5
    <2>4. QED
      BY <1>0, <2>2, <2>3
  <1>2. ASSUME group'.there, NEW u \in Rule, u \notin group'.rules
        PROVE  \E q \in Run : pc'[q] = "authorize" /\ u \in todo'[q]
    <2>1. CASE ~group.there
      <3>1. CreateGroup(r)
        BY <1>0, <1>2, <2>1, Writers, Where DEF Authorize, PartsInv
      <3>2. pc'[r] = "authorize" /\ u \in todo'[r]
        BY <1>0, <1>2, <3>1, CallsWork DEF CreateGroup, Goto
      <3>3. QED
        BY <3>2
    <2>2. CASE group.there
      <3>1. u \notin group.rules
        BY <1>2, AccountGrows
      <3>2. PICK q \in Run : pc[q] = "authorize" /\ u \in todo[q]
        BY <2>2, <3>1 DEF GroupPending
      <3>3. CASE q # r
        BY <3>2, <3>3, OthersStay
      <3>4. CASE q = r
        <4>1. Authorize(r) /\ u \in todo[r]
          BY <3>2, <3>4, Where DEF Step
        <4>2. PICK ok \in BOOLEAN :
                 /\ Call(r, ok)
                 /\ group' = [group EXCEPT !.rules = IF ok THEN @ \union {First(todo[r])} ELSE @]
                 /\ todo' = [todo EXCEPT ![r] = @ \ {First(todo[r])}]
                 /\ UNCHANGED pc
          BY <4>1 DEF Authorize
        <4>3. ok
          BY <1>0, <4>2, CallsWork
        <4>4. pc'[r] = "authorize" /\ u # First(todo[r]) /\ u \in todo'[r]
          BY <1>0, <1>2, <3>2, <3>4, <4>1, <4>2, <4>3
        <4>5. QED
          BY <4>4
      <3>5. QED
        BY <3>3, <3>4
    <2>3. QED
      BY <1>0, <2>1, <2>2
  <1>3. QED
    BY <1>1, <1>2 DEF GroupPending

LEMMA FaultlessStep ==
    ASSUME TypeInv, PartsInv, FaultlessInv, NEW r \in Run, Step(r) \/ Interrupt(r)
    PROVE  FaultlessInv'
  <1> SUFFICES ASSUME faults' = 0
               PROVE  RolePending' /\ ProfilePending' /\ GroupPending'
    BY DEF FaultlessInv
  <1>1. faults = 0 /\ Step(r)
    BY CallOrNone, FaultsStep, CallsWork DEF TypeInv, TypeOK
  <1>2. RolePending /\ ProfilePending /\ GroupPending
    BY <1>1 DEF FaultlessInv
  <1>3. QED
    BY <1>1, <1>2, RoleStep, ProfileStep, GroupStep

\* A run that begins is one more that has the role before it.
LEMMA GetNameFaultless ==
    ASSUME TypeInv, PartsInv, FaultlessInv, NEW r \in Run, GetName(r)
    PROVE  PartsInv' /\ FaultlessInv'
  <1>0. /\ pc \in [Run -> Label] /\ pc[r] = "start" /\ pc' = [pc EXCEPT ![r] = "account"]
        /\ UNCHANGED <<role, profile, group, todo, err>>
        /\ alone \in [Run -> BOOLEAN] /\ \E ok \in BOOLEAN : Call(r, ok)
        /\ alone' = [q \in Run |-> IF q = r THEN \A p \in Run : ~Active(p)
                                   ELSE alone[q] /\ ~Active(q)]
    BY DEF GetName, Goto, account, TypeInv, TypeOK
  <1>a. faults' = 0 => faults = 0
    BY <1>0, FaultsStep DEF TypeInv, TypeOK
  <1>1. \A q \in Run : q # r => pc'[q] = pc[q] /\ (alone'[q] => alone[q] /\ ~Active(q))
    BY <1>0
  <1>2. pc'[r] = "account" /\ (alone'[r] => \A p \in Run : ~Active(p))
    BY <1>0
  <1>3. PartsInv'
    <2>1. \A q \in Run : (alone[q] /\ Active(q) => \A p \in Run : p # q => ~Active(p))'
      BY <1>1, <1>2 DEF Active
    <2>2. QED
      BY <1>0, <1>1, <1>2, <2>1 DEF PartsInv
  <1>4. ASSUME faults' = 0
        PROVE  RolePending' /\ ProfilePending' /\ GroupPending'
    <2>1. RolePending /\ ProfilePending /\ GroupPending
      BY <1>a, <1>4 DEF FaultlessInv
    <2>2. RolePending'
      BY <1>0, <1>1, <1>2, <2>1 DEF RolePending, BeforeRole
    <2>3. ProfilePending'
      BY <1>0, <1>1, <1>2, <2>1 DEF ProfilePending, BeforeProfile, BeforeRole
    <2>4. GroupPending'
      BY <1>0, <1>1, <1>2, <2>1 DEF GroupPending
    <2>5. QED
      BY <2>2, <2>3, <2>4
  <1>5. QED
    BY <1>3, <1>4 DEF FaultlessInv

LEMMA FaultlessAlways == FairSpec => [](TypeInv /\ PartsInv /\ FaultlessInv)
  <1>1. Init => PartsInv /\ FaultlessInv
    <2> SUFFICES ASSUME Init PROVE PartsInv /\ FaultlessInv
      OBVIOUS
    <2>1. PartsInv
      BY DEF Init, PartsInv
    <2>2. RolePending /\ ProfilePending /\ GroupPending
      BY DEF Init, RolePending, ProfilePending, GroupPending, BeforeProfile, BeforeRole
    <2>3. QED
      BY <2>1, <2>2 DEF Init, FaultlessInv
  <1>2. TypeInv /\ PartsInv /\ FaultlessInv /\ [Next]_vars => PartsInv' /\ FaultlessInv'
    <2> SUFFICES ASSUME TypeInv, PartsInv, FaultlessInv, [Next]_vars
                 PROVE  PartsInv' /\ FaultlessInv'
      OBVIOUS
    <2>1. ASSUME NEW r \in Run, GetName(r) PROVE PartsInv' /\ FaultlessInv'
      BY <2>1, GetNameFaultless
    <2>2. ASSUME NEW r \in Run, Step(r) \/ Interrupt(r) PROVE PartsInv' /\ FaultlessInv'
      BY <2>2, PartsStep, FaultlessStep
    <2>3. CASE UNCHANGED vars
      BY <2>3 DEF vars, account, local, spent, PartsInv, FaultlessInv, RolePending,
         ProfilePending, GroupPending, Active
    <2>4. QED
      BY <2>1, <2>2, <2>3 DEF Next
  <1>3. QED
    BY <1>1, <1>2, TypeInit, TypeStep, PTL DEF FairSpec

\* Whatever runs of bootStrap.sh raced to create the role, the profile and the
\* group, and got errors from that: once the last of them has ended the account
\* is complete, if no call failed and nobody was interrupted.
THEOREM ConfiguredHolds == FairSpec => []Configured
  <1>1. TypeInv /\ PartsInv /\ FaultlessInv => Configured
    <2> SUFFICES ASSUME TypeInv, FaultlessInv, faults = 0,
                        \A r \in Run : ~Active(r), \E r \in Run : pc[r] # "start"
                 PROVE  role.policies = Policy /\ profile.role /\ group.rules = Rule
      BY DEF Configured
    <2>1. RolePending /\ ProfilePending /\ GroupPending
      BY DEF FaultlessInv
    <2>2. \A r \in Run : pc[r] \in {"start", "done", "aborted"}
      BY DEF Active
    <2>3. role.there /\ profile.there
      BY <2>1, <2>2 DEF RolePending, ProfilePending, BeforeRole, BeforeProfile
    <2>4. profile.role
      BY <2>1, <2>2, <2>3 DEF ProfilePending
    <2>5. group.there
      BY <2>1, <2>2, <2>4 DEF GroupPending
    <2>6. Policy \subseteq role.policies /\ Rule \subseteq group.rules
      BY <2>1, <2>2, <2>3, <2>5 DEF RolePending, GroupPending
    <2>7. role.policies \subseteq Policy /\ group.rules \subseteq Rule
      BY DEF TypeInv, TypeOK
    <2>8. QED
      BY <2>4, <2>6, <2>7
  <1>2. QED
    BY <1>1, FaultlessAlways, PTL

-----------------------------------------------------------------------------
(* Runs that nobody accompanies *)

\* Who has still to create a key pair.
BeforeKey == BeforeProfile \union {"addRole", "awaitProfile", "getGroup", "createGroup",
                                  "authorize", "createKey"}

\* What a run that is alone has found missing is missing still, and its name is
\* free.
LoneOK(q) ==
    /\ pc[q] = "createProfile" => ~profile.there
    /\ pc[q] = "addRole" => ~profile.role
    /\ pc[q] = "createGroup" => ~group.there
    /\ pc[q] = "authorize" => todo[q] \cap group.rules = {} /\ ~err[q]
    /\ pc[q] \in BeforeKey => keys[instanceName[q]] = NIL

LoneInv == \A q \in Run : alone[q] /\ Active(q) /\ ~hit[q] => LoneOK(q)

\* A run that was not hit made only calls that work.
LEMMA LoneCalls ==
    ASSUME hit \in [Run -> BOOLEAN], NEW r \in Run, ~hit'[r]
    PROVE  /\ \A ok \in BOOLEAN : Call(r, ok) => ok
           /\ \A a, b \in BOOLEAN : Call(r, a /\ b) => a /\ b
           /\ ~Interrupt(r)
  <1>1. \A ok \in BOOLEAN : Call(r, ok) => ok
    BY DEF Call
  <1>2. \A a, b \in BOOLEAN : (a /\ b) \in BOOLEAN
    OBVIOUS
  <1>3. ~Interrupt(r)
    BY <1>1 DEF Interrupt
  <1>4. QED
    BY <1>1, <1>2, <1>3

\* A run that is alone finds what it needs or makes it, and nobody interferes;
\* what it cannot make is the role of a profile it has found.
LEMMA LoneStep ==
    ASSUME TypeInv, PartsInv, NEW r \in Run, Step(r), ~hit'[r], LoneOK(r)
    PROVE  /\ LoneOK(r)'
           /\ pc'[r] = "aborted" => pc[r] = "launch" /\ ~profile.role
  <1>0. /\ role \in [there : BOOLEAN, policies : SUBSET Policy]
        /\ profile \in [there : BOOLEAN, role : BOOLEAN]
        /\ group \in [there : BOOLEAN, rules : SUBSET Rule]
        /\ todo \in [Run -> SUBSET (Policy \union Rule)] /\ err \in [Run -> BOOLEAN]
        /\ keys \in [Name -> Run \union {NIL}] /\ instanceName \in [Run -> Name]
        /\ pc \in [Run -> Label] /\ hit \in [Run -> BOOLEAN]
        /\ instanceName' = instanceName
    BY Writers DEF TypeInv, TypeOK
  <1>1. CASE VerifyAccount(r) \/ GetRole(r) \/ CreateRole(r)
    <2>1. pc'[r] \in {"getRole", "getProfile", "createRole", "listPolicies"}
      BY <1>0, <1>1, LoneCalls DEF VerifyAccount, GetRole, CreateRole, Goto
    <2>2. UNCHANGED keys /\ keys[instanceName[r]] = NIL
      BY <1>1 DEF VerifyAccount, GetRole, CreateRole, LoneOK, BeforeKey, BeforeProfile,
         BeforeRole, account
    <2>3. QED
      BY <1>0, <2>1, <2>2 DEF LoneOK
  <1>2. CASE ListPolicies(r) \/ AttachPolicy(r)
    <2>1. pc'[r] \in {"attach", "getProfile"}
      BY <1>0, <1>2, LoneCalls DEF ListPolicies, AttachPolicy, Goto
    <2>2. UNCHANGED keys /\ keys[instanceName[r]] = NIL
      BY <1>2 DEF ListPolicies, AttachPolicy, LoneOK, BeforeKey, BeforeProfile, account
    <2>3. QED
      BY <1>0, <2>1, <2>2 DEF LoneOK
  <1>3. CASE GetProfile(r)
    BY <1>0, <1>3, LoneCalls DEF GetProfile, Goto, LoneOK, BeforeKey, BeforeProfile,
       account, local
  <1>4. CASE CreateProfile(r)
    <2>1. ~profile.role
      BY <1>4 DEF PartsInv, LoneOK, CreateProfile
    <2>2. QED
      BY <1>0, <1>4, <2>1, LoneCalls DEF CreateProfile, Goto, LoneOK, BeforeKey,
         BeforeProfile, local
  <1>5. CASE AddRole(r) \/ AwaitProfile(r)
    BY <1>0, <1>5, LoneCalls DEF AddRole, AwaitProfile, Goto, LoneOK, BeforeKey,
       account, local
  <1>6. CASE GetGroup(r)
    BY <1>0, <1>6, LoneCalls DEF GetGroup, Goto, LoneOK, BeforeKey, account, local
  <1>7. CASE CreateGroup(r)
    <2>1. group.rules = {} /\ ~err[r]
      BY <1>7 DEF CreateGroup, LoneOK, PartsInv
    <2>2. QED
      BY <1>0, <1>7, <2>1, LoneCalls DEF CreateGroup, Goto, LoneOK, BeforeKey
  <1>8. CASE Authorize(r)
    <2>0. /\ todo[r] \cap group.rules = {} /\ ~err[r] /\ pc[r] = "authorize"
          /\ keys[instanceName[r]] = NIL
      BY <1>8 DEF Authorize, LoneOK, BeforeKey
    <2>1. CASE todo[r] = {}
      BY <1>0, <1>8, <2>0, <2>1 DEF Authorize, Goto, LoneOK
    <2>2. CASE todo[r] # {}
      <3>1. First(todo[r]) \in todo[r]
        BY <2>2, <1>8, FirstIn, BootstrapAssumption DEF Authorize, TypeInv, TodoOf
      <3>2. PICK ok \in BOOLEAN :
               /\ Call(r, ok)
               /\ group' = [group EXCEPT !.rules = IF ok THEN @ \union {First(todo[r])} ELSE @]
               /\ err' = [err EXCEPT ![r] = @ \/ ~ok \/ First(todo[r]) \in group.rules]
               /\ todo' = [todo EXCEPT ![r] = @ \ {First(todo[r])}]
               /\ UNCHANGED pc
        BY <1>8, <2>2 DEF Authorize
      <3>3. ok
        BY <1>0, <3>2, LoneCalls
      <3>4. First(todo[r]) \notin group.rules
        BY <2>0, <3>1
      <3>5. ~err'[r]
        BY <1>0, <2>0, <3>2, <3>3, <3>4
      <3>6. todo'[r] \cap group'.rules = {}
        BY <1>0, <2>0, <3>2, <3>3
      <3>7. pc'[r] = "authorize" /\ UNCHANGED <<profile, keys>>
        BY <2>0, <1>8, <3>2 DEF Authorize
      <3>8. QED
        BY <1>0, <2>0, <3>5, <3>6, <3>7 DEF LoneOK
    <2>3. QED
      BY <2>1, <2>2
  <1>9. CASE CreateKey(r)
    BY <1>0, <1>9, LoneCalls DEF CreateKey, Goto, LoneOK, BeforeKey, BeforeProfile,
       BeforeRole, local
  <1>10. CASE SaveKey(r) \/ FindImage(r) \/ AwaitImage(r)
    <2>1. pc'[r] \in {"image", "launch", "awaitImage"}
      BY <1>0, <1>10 DEF SaveKey, FindImage, AwaitImage, Goto
    <2>2. QED
      BY <2>1 DEF LoneOK, BeforeKey, BeforeProfile, BeforeRole
  <1>11. CASE RunInstance(r)
    <2>1. pc[r] = "launch" /\ pc'[r] \in {"awaitDns", "aborted"}
      BY <1>0, <1>11 DEF RunInstance, Goto
    <2>2. pc'[r] = "aborted" => ~profile.role
      BY <1>0, <1>11, LoneCalls DEF RunInstance, Goto
    <2>3. QED
      BY <2>1, <2>2 DEF LoneOK, BeforeKey, BeforeProfile, BeforeRole
  <1>12. CASE AwaitDns(r) \/ AwaitSsh(r) \/ SetUp(r)
    <2>1. pc'[r] \in {"awaitDns", "awaitSsh", "setup", "done"}
      BY <1>0, <1>12 DEF AwaitDns, AwaitSsh, SetUp, Goto
    <2>2. QED
      BY <2>1 DEF LoneOK, BeforeKey, BeforeProfile, BeforeRole
  <1>13. QED
    BY <1>1, <1>2, <1>3, <1>4, <1>5, <1>6, <1>7, <1>8, <1>9, <1>10, <1>11, <1>12 DEF Step

\* While a run is alone no other takes a step, and one that begins ends that.
LEMMA LoneInvStep == TypeInv /\ PartsInv /\ LoneInv /\ [Next]_vars => LoneInv'
  <1> SUFFICES ASSUME TypeInv, PartsInv, LoneInv, [Next]_vars PROVE LoneInv'
    OBVIOUS
  <1>0. pc \in [Run -> Label] /\ hit \in [Run -> BOOLEAN] /\ faults \in 0..MaxFaults
    BY DEF TypeInv, TypeOK
  <1>1. ASSUME NEW r \in Run, GetName(r) PROVE LoneInv'
    <2>1. /\ pc[r] = "start" /\ pc' = [pc EXCEPT ![r] = "account"]
          /\ alone' = [q \in Run |-> IF q = r THEN \A p \in Run : ~Active(p)
                                     ELSE alone[q] /\ ~Active(q)]
          /\ UNCHANGED keys
      BY <1>1 DEF GetName, Goto, account
    <2>2. ASSUME NEW q \in Run, q # r PROVE ~(alone'[q] /\ Active(q)')
      BY <1>0, <2>1, <2>2 DEF Active
    <2>3. ASSUME ~hit'[r] PROVE LoneOK(r)'
      <3>1. instanceName \in [Run -> Name]
        BY DEF TypeInv, TypeOK
      <3>2. instanceName'[r] = Cardinality(Taken)
        BY <1>0, <1>1, <2>3, <3>1, LoneCalls DEF GetName, Taken
      <3>3. PICK m \in Nat : Taken = 0..m-1 /\ Cardinality(Taken) = m /\ m \in Name
        BY NextName
      <3>4. keys'[instanceName'[r]] = NIL
        BY <2>1, <3>2, <3>3 DEF Taken
      <3>5. QED
        BY <1>0, <2>1, <3>4 DEF LoneOK
    <2>4. QED
      BY <2>2, <2>3 DEF LoneInv
  <1>2. ASSUME NEW r \in Run, Step(r) \/ Interrupt(r) PROVE LoneInv'
    <2>1. Active(r) /\ UNCHANGED alone
      BY <1>2, StepsAreActive, Writers
    <2>2. ASSUME NEW q \in Run, q # r, alone'[q], Active(q)' PROVE FALSE
      <3>1. pc'[q] = pc[q]
        BY <1>2, <2>2, OthersStay
      <3>2. alone[q] /\ Active(q)
        BY <2>1, <2>2, <3>1 DEF Active
      <3>3. QED
        BY <2>1, <2>2, <3>2 DEF PartsInv
    <2>3. ASSUME alone'[r], ~hit'[r] PROVE LoneOK(r)'
      <3>1. ~hit[r]
        BY <1>0, <1>2, <2>3, CallOrNone, FaultsStep
      <3>2. LoneOK(r)
        BY <2>1, <2>3, <3>1 DEF LoneInv
      <3>3. Step(r)
        BY <1>0, <1>2, <2>3, LoneCalls
      <3>4. QED
        BY <2>3, <3>2, <3>3, LoneStep
    <2>4. QED
      BY <2>2, <2>3 DEF LoneInv
  <1>3. CASE UNCHANGED vars
    BY <1>3 DEF vars, account, local, spent, LoneInv, LoneOK, Active
  <1>4. QED
    BY <1>1, <1>2, <1>3 DEF Next

\* A run of bootStrap.sh that no other accompanies, whose calls work and which is
\* not interrupted, aborts nowhere but at run-instances, and there only where an
\* earlier run, of which anything may have failed, left the profile without its
\* role: its name is free, and every other thing left by half is created again
\* or taken as it is.
THEOREM LoneRunsGoOnHolds == FairSpec => LoneRunsGoOn
  <1>1. Init => LoneInv
    BY DEF Init, LoneInv, Active
  <1>2. TypeInv /\ PartsInv /\ LoneInv /\ [Next]_vars => [GoesOn]_vars
    <2> SUFFICES ASSUME TypeInv, PartsInv, LoneInv, Next, NEW r \in Run,
                        Active(r), pc'[r] = "aborted", alone[r], ~hit'[r]
                 PROVE  pc[r] = "launch" /\ ~profile.role
      BY DEF GoesOn
    <2>0. pc \in [Run -> Label] /\ hit \in [Run -> BOOLEAN] /\ faults \in 0..MaxFaults
      BY DEF TypeInv, TypeOK
    <2>1. PICK q \in Run : GetName(q) \/ Step(q) \/ Interrupt(q)
      BY DEF Next
    <2>2. CASE GetName(q)
      BY <2>0, <2>2 DEF GetName, Goto, Active
    <2>3. CASE Step(q) \/ Interrupt(q)
      <3>1. q = r
        BY <2>0, <2>3, OneRun DEF Active
      <3>2. ~hit[r]
        BY <2>0, <2>3, <3>1, CallOrNone, FaultsStep
      <3>3. Step(r) /\ LoneOK(r)
        BY <2>0, <2>3, <3>1, <3>2, LoneCalls DEF LoneInv
      <3>4. QED
        BY <3>3, LoneStep
    <2>4. QED
      BY <2>1, <2>2, <2>3
  <1>3. QED
    BY <1>1, <1>2, LoneInvStep, FaultlessAlways, PTL DEF FairSpec, LoneRunsGoOn
=============================================================================
