--------------------------- MODULE TestChaincode ---------------------------
(***************************************************************************)
(* The entity chaincode on a Fabric channel, and the Java connector that   *)
(* calls it.  Every peer of the channel runs its own chaincode process and *)
(* its own copy of the world state:                                        *)
(*                                                                         *)
(*   putEntity  each peer simulates PutEntity, the orderer gives the       *)
(*              transaction its place, each peer commits it when it gets   *)
(*              there, and the caller hears once all of them have;         *)
(*   getEntity  each peer simulates GetEntity on the state it has, and the *)
(*              caller gets the first answer that is a success.            *)
(*                                                                         *)
(* The map's prefix lives in the memory of the chaincode process: Init     *)
(* sets it when the chaincode is instantiated, and no later start of the   *)
(* process runs Init again.                                                *)
(***************************************************************************)
EXTENDS Integers, Sequences, FiniteSets, CouchChaincodeMap

CONSTANTS Peer, Client,
          CalculateSize,  \* the calculateSize field of the entities map
          RefsOnly,       \* clients get only what a put of theirs returned
          MaxCalls,       \* bound: calls a client makes
          MaxRestarts,    \* bound: chaincode processes stopped from outside
          MaxLost,        \* bound: peer answers and orderer calls that fail
          MaxRetries      \* connector: new attempts after a read conflict

ASSUME ChaincodeAssumption ==
    /\ "entities" \in Prefix
    /\ CalculateSize \in BOOLEAN /\ RefsOnly \in BOOLEAN
    /\ MaxCalls \in Nat /\ MaxRestarts \in Nat
    /\ MaxLost \in Nat /\ MaxRetries \in Nat

VARIABLES
    prefix,   \* t.entities.prefix in each peer's chaincode process
    db,       \* each peer's world state
    verdict,  \* each peer's validation codes: TRUE for a valid transaction
    ledger,   \* the transactions, as the orderer arranged them
    pc,       \* what each client is doing
    req,      \* the entity it puts, or whose name it gets
    resp,     \* the answer of each peer to the client's proposal
    at,       \* put: its place in the ledger.  get: acked when it began
    retries,  \* attempts of the current put that met a conflict
    calls,    \* calls each client has made
    refs,     \* the names each client was given by a successful put
    got,      \* the name and answer of the client's last successful get
    acked,    \* the highest place in the ledger a client was told of
    restarts, lost  \* what the bounds have been spent on

callVars == <<pc, req, resp, at, retries>>
vars == <<prefix, db, verdict, ledger, callVars, calls, refs, got, acked,
          restarts, lost>>

Height(p) == Len(verdict[p])
-----------------------------------------------------------------------------
(* The chaincode functions, as one peer simulates them for one proposal.   *)

NoAnswer == [status |-> "none", sim |-> NewSim, val |-> NIL]
Failure  == [status |-> "error", sim |-> NewSim, val |-> NIL]
Success(sim, val) == [status |-> "ok", sim |-> sim, val |-> val]

\* Init sets the map up; a process that is merely started has the zero value.
InitPrefix == "entities"
NewProcessPrefix == ""

\* The answer to a put is the name, as a reference for a later get.
PutEntity(p, n, v) ==
    IF n \in BadName THEN Failure
    ELSE Success(PutProtoState(db[p], NewSim, prefix[p], CalculateSize, n, v), n)

\* No entity under the name: the type assertion on the nil result panics.
Panics(p, n) ==
    /\ n \notin BadName
    /\ GetProtoState(db[p], prefix[p], n) = NIL

GetEntity(p, n) ==
    IF n \in BadName \/ Panics(p, n) THEN Failure
    ELSE Success(GetProtoSim(db[p], NewSim, prefix[p], n),
                 GetProtoState(db[p], prefix[p], n))
-----------------------------------------------------------------------------
NoRequest == [name |-> NIL, val |-> NIL]

Init ==
    /\ prefix = [p \in Peer |-> InitPrefix]
    /\ db = [p \in Peer |-> EmptyState]
    /\ verdict = [p \in Peer |-> <<>>]
    /\ ledger = <<>>
    /\ pc = [c \in Client |-> "idle"]
    /\ req = [c \in Client |-> NoRequest]
    /\ resp = [c \in Client |-> [p \in Peer |-> NoAnswer]]
    /\ at = [c \in Client |-> 0]
    /\ retries = [c \in Client |-> 0]
    /\ calls = [c \in Client |-> 0]
    /\ refs = [c \in Client |-> {}]
    /\ got = [c \in Client |-> <<>>]
    /\ acked = 0
    /\ restarts = 0
    /\ lost = 0

\* The call of client c is over; its result is the caller's to record.
Return(c) ==
    /\ pc' = [pc EXCEPT ![c] = "idle"]
    /\ req' = [req EXCEPT ![c] = NoRequest]
    /\ resp' = [resp EXCEPT ![c] = [p \in Peer |-> NoAnswer]]
    /\ at' = [at EXCEPT ![c] = 0]
    /\ retries' = [retries EXCEPT ![c] = 0]

Answer(c, p, r) == resp' = [resp EXCEPT ![c][p] = r]
Waiting(c, p)   == resp[c][p].status = "none"
AllAnswered(c)  == \A p \in Peer : ~Waiting(c, p)
Endorsers(c)    == {p \in Peer : resp[c][p].status = "ok"}

\* The successful answers to a proposal agree on what was read and written.
Consistent(c) == \A p, q \in Endorsers(c) : resp[c][p] = resp[c][q]
-----------------------------------------------------------------------------
(* putEntity *)

\* Mutant: the call goes out without the entity it was given.
StartPutEmpty(c, n, v) ==
    /\ pc[c] = "idle" /\ calls[c] < MaxCalls
    /\ calls' = [calls EXCEPT ![c] = @ + 1]
    /\ pc' = [pc EXCEPT ![c] = "put"]
    /\ UNCHANGED <<prefix, db, verdict, ledger, req, resp, at, retries, refs, got,
                   acked, restarts, lost>>

StartPut(c, n, v) ==
    /\ pc[c] = "idle" /\ calls[c] < MaxCalls
    /\ calls' = [calls EXCEPT ![c] = @ + 1]
    /\ pc' = [pc EXCEPT ![c] = "put"]
    /\ req' = [req EXCEPT ![c] = [name |-> n, val |-> v]]
    /\ UNCHANGED <<prefix, db, verdict, ledger, resp, at, retries, refs, got,
                   acked, restarts, lost>>

EndorsePut(c, p) ==
    /\ pc[c] = "put" /\ Waiting(c, p)
    /\ Answer(c, p, PutEntity(p, req[c].name, req[c].val))
    /\ UNCHANGED <<prefix, db, verdict, ledger, pc, req, at, retries, calls,
                   refs, got, acked, restarts, lost>>

SubmitPut(c) ==
    /\ pc[c] = "put" /\ AllAnswered(c)
    /\ Endorsers(c) # {} /\ Consistent(c)
    /\ \E p \in Endorsers(c) :
          ledger' = Append(ledger, [name |-> req[c].name, val |-> req[c].val,
                                    sim |-> resp[c][p].sim])
    /\ at' = [at EXCEPT ![c] = Len(ledger) + 1]
    /\ pc' = [pc EXCEPT ![c] = "ordered"]
    /\ UNCHANGED <<prefix, db, verdict, req, resp, retries, calls, refs, got,
                   acked, restarts, lost>>

\* No peer, or peers that disagree: the connector throws before ordering.
RejectPut(c) ==
    /\ pc[c] = "put" /\ AllAnswered(c)
    /\ Endorsers(c) = {} \/ ~Consistent(c)
    /\ Return(c)
    /\ UNCHANGED <<prefix, db, verdict, ledger, calls, refs, got, acked,
                   restarts, lost>>

\* The next transaction reaches peer p, which validates and commits it.
CommitBlock(p) ==
    /\ Height(p) < Len(ledger)
    /\ LET i == Height(p) + 1
           valid == Unchanged(db[p], ledger[i].sim)
       IN  /\ verdict' = [verdict EXCEPT ![p] = Append(@, valid)]
           /\ db' = [db EXCEPT ![p] = IF valid THEN Apply(@, ledger[i].sim, i)
                                      ELSE @]
    /\ UNCHANGED <<prefix, ledger, callVars, calls, refs, got, acked, restarts,
                   lost>>

Committed(p, i) == i <= Height(p)

\* Mutant: the first peer to report the transaction completes the call.
AckPutFirst(c) ==
    /\ pc[c] = "ordered"
    /\ \E p \in Peer : Committed(p, at[c]) /\ verdict[p][at[c]]
    /\ refs' = [refs EXCEPT ![c] = @ \union {req[c].name}]
    /\ acked' = IF at[c] > acked THEN at[c] ELSE acked
    /\ Return(c)
    /\ UNCHANGED <<prefix, db, verdict, ledger, calls, got, restarts, lost>>

\* Every peer reported the transaction, and as valid: the caller has its ref.
AckPut(c) ==
    /\ pc[c] = "ordered"
    /\ \A p \in Peer : Committed(p, at[c]) /\ verdict[p][at[c]]
    /\ refs' = [refs EXCEPT ![c] = @ \union {req[c].name}]
    /\ acked' = IF at[c] > acked THEN at[c] ELSE acked
    /\ Return(c)
    /\ UNCHANGED <<prefix, db, verdict, ledger, calls, got, restarts, lost>>

\* A peer reported the transaction invalid.
Invalidated(c) == \E p \in Peer : Committed(p, at[c]) /\ ~verdict[p][at[c]]

RetryPut(c) ==
    /\ pc[c] = "ordered" /\ Invalidated(c) /\ retries[c] < MaxRetries
    /\ retries' = [retries EXCEPT ![c] = @ + 1]
    /\ pc' = [pc EXCEPT ![c] = "put"]
    /\ resp' = [resp EXCEPT ![c] = [p \in Peer |-> NoAnswer]]
    /\ at' = [at EXCEPT ![c] = 0]
    /\ UNCHANGED <<prefix, db, verdict, ledger, req, calls, refs, got, acked,
                   restarts, lost>>

\* Mutant: the last attempt is counted once too often, and the call hangs.
FailPutLate(c) ==
    /\ pc[c] = "ordered" /\ Invalidated(c) /\ retries[c] > MaxRetries
    /\ Return(c)
    /\ UNCHANGED <<prefix, db, verdict, ledger, calls, refs, got, acked,
                   restarts, lost>>

FailPut(c) ==
    /\ pc[c] = "ordered" /\ Invalidated(c) /\ retries[c] = MaxRetries
    /\ Return(c)
    /\ UNCHANGED <<prefix, db, verdict, ledger, calls, refs, got, acked,
                   restarts, lost>>
-----------------------------------------------------------------------------
(* getEntity *)

StartGet(c, n) ==
    /\ pc[c] = "idle" /\ calls[c] < MaxCalls
    /\ RefsOnly => n \in refs[c]
    /\ calls' = [calls EXCEPT ![c] = @ + 1]
    /\ pc' = [pc EXCEPT ![c] = "get"]
    /\ req' = [req EXCEPT ![c] = [name |-> n, val |-> NIL]]
    /\ at' = [at EXCEPT ![c] = acked]
    /\ UNCHANGED <<prefix, db, verdict, ledger, resp, retries, refs, got,
                   acked, restarts, lost>>

\* A panic ends the process; the peer starts a new one for the next call.
QueryPeer(c, p) ==
    /\ pc[c] = "get" /\ Waiting(c, p)
    /\ Answer(c, p, GetEntity(p, req[c].name))
    /\ prefix' = [prefix EXCEPT ![p] =
                    IF Panics(p, req[c].name) THEN NewProcessPrefix ELSE @]
    /\ UNCHANGED <<db, verdict, ledger, pc, req, at, retries, calls, refs, got,
                   acked, restarts, lost>>

CompleteGet(c) ==
    /\ pc[c] = "get" /\ AllAnswered(c)
    /\ \E p \in Endorsers(c) :
          got' = [got EXCEPT ![c] = <<req[c].name, resp[c][p].val>>]
    /\ Return(c)
    /\ UNCHANGED <<prefix, db, verdict, ledger, calls, refs, acked, restarts,
                   lost>>

FailGet(c) ==
    /\ pc[c] = "get" /\ AllAnswered(c) /\ Endorsers(c) = {}
    /\ Return(c)
    /\ UNCHANGED <<prefix, db, verdict, ledger, calls, refs, got, acked,
                   restarts, lost>>
-----------------------------------------------------------------------------
(* Failures *)

\* The answer of a peer does not arrive; what it simulated changed nothing.
LoseAnswer(c, p) ==
    /\ pc[c] \in {"put", "get"} /\ Waiting(c, p) /\ lost < MaxLost
    /\ Answer(c, p, Failure)
    /\ lost' = lost + 1
    /\ UNCHANGED <<prefix, db, verdict, ledger, pc, req, at, retries, calls,
                   refs, got, acked, restarts>>

\* The chaincode container of a peer stops and is started again.
RestartChaincode(p) ==
    /\ restarts < MaxRestarts
    /\ prefix' = [prefix EXCEPT ![p] = NewProcessPrefix]
    /\ restarts' = restarts + 1
    /\ UNCHANGED <<db, verdict, ledger, callVars, calls, refs, got, acked, lost>>

ClientStep(c) ==
    \/ SubmitPut(c) \/ RejectPut(c) \/ AckPut(c) \/ RetryPut(c) \/ FailPut(c)
    \/ CompleteGet(c) \/ FailGet(c)

Next ==
    \/ \E c \in Client, n \in Name : \/ \E v \in Value : StartPut(c, n, v)
                                     \/ StartGet(c, n)
    \/ \E c \in Client : ClientStep(c)
    \/ \E c \in Client, p \in Peer : \/ EndorsePut(c, p)
                                     \/ QueryPeer(c, p)
                                     \/ LoseAnswer(c, p)
    \/ \E p \in Peer : CommitBlock(p) \/ RestartChaincode(p)

Spec == Init /\ [][Next]_vars
-----------------------------------------------------------------------------
(* Properties *)

Sim == [reads  : [Key -> Nat \union {Unread}],
        writes : [Key -> Value \union {-1, 0, 1, NoWrite}]]
Response == [status : {"none", "ok", "error"}, sim : Sim,
             val : Value \union Name \union {-1, 0, 1, NIL}]
Request == [name : Name \union {NIL}, val : Value \union {NIL}]
Transaction == [name : Name, val : Value, sim : Sim]
Entry == [val : Value \union {-1, 0, 1, NIL}, ver : Nat]

Shapes ==
    /\ prefix \in [Peer -> Prefix]
    /\ db \in [Peer -> [Key -> Entry]]
    /\ verdict \in [Peer -> Seq(BOOLEAN)]
    /\ ledger \in Seq(Transaction)
    /\ pc \in [Client -> {"idle", "put", "ordered", "get"}]
    /\ req \in [Client -> Request]
    /\ resp \in [Client -> [Peer -> Response]]
    /\ at \in [Client -> Nat] /\ retries \in [Client -> Nat]
    /\ calls \in [Client -> Nat]
    /\ refs \in [Client -> SUBSET Name]
    /\ got \in [Client -> {<<>>} \union (Name \X (Value \union Name \union {-1, 0, 1, NIL}))]
    /\ acked \in Nat /\ restarts \in Nat /\ lost \in Nat

\* The client's request is that of a call in progress, its place in the ledger exists.
CallOK(c) ==
    /\ at[c] <= Len(ledger)
    /\ pc[c] = "ordered" => at[c] > 0
    /\ pc[c] # "idle" => req[c].name \in Name
    /\ pc[c] \in {"put", "ordered"} => req[c].val \in Value

\* The type invariant: every variable keeps its shape, no peer is ahead of the
\* orderer, and a client's place in the ledger exists.
TypeOK ==
    /\ Shapes
    /\ acked <= Len(ledger)
    /\ \A p \in Peer : Height(p) <= Len(ledger)
    /\ \A c \in Client : CallOK(c)

\* A put reads nothing before it writes, so however puts of several clients
\* interleave, no transaction is ever refused at commit, on any peer, and no
\* put needs a second attempt.  Holds of the map as TestChaincode.Init makes
\* it, without calculateSize.
PutsNeverConflict ==
    ~CalculateSize =>
        /\ \A p \in Peer : \A i \in 1..Height(p) : verdict[p][i]
        /\ \A c \in Client : retries[c] = 0

\* At peer p, transaction i is valid and writes key k.
Sets(p, i, k) == verdict[p][i] /\ ledger[i].sim.writes[k] # NoWrite

\* The reference a client was given by putEntity can be followed at every
\* peer: the entity is found there, under the prefix the peer's process has.
RefsResolve ==
    \A c \in Client, p \in Peer : \A n \in refs[c] : ~Panics(p, n)

\* While every process keeps the prefix Init gave it, peers endorse a put alike
\* however far apart their world states are: a put is refused only when no peer
\* answered.  (With calculateSize they would have read different counters.)
EndorsementsAgree ==
    ~CalculateSize => \A c \in Client : pc[c] = "put" => Consistent(c)

\* With calculateSize the puts of one map are serialised by the counter each of
\* them reads before it writes it: a valid put was simulated on a state that had
\* the valid put before it.  (What the counter then says is another matter:
\* GetSize does not decode what it read and every put writes 1, see
\* SizeCountsEntries below.)
SizeReadsChain ==
    CalculateSize =>
       \A p \in Peer, m \in Prefix : \A i, j \in 1..Height(p) :
          /\ i < j /\ Sets(p, i, SizeKey(m)) /\ Sets(p, j, SizeKey(m))
          => ledger[j].sim.reads[SizeKey(m)] >= i

\* The size kept for the entities map ("Size methods", CouchChaincodeMap.go
\* line 257) is the number of its entries.
SizeCountsEntries ==
    \A p \in Peer, m \in Prefix :
       LET size == db[p][SizeKey(m)].val
       IN  size # NIL =>
           size = Cardinality({n \in Name : db[p][EntryKey(m, n)].val # NIL})

\* AbstractBlockchainTest.putEntity, lines 39 to 46: a client that gets the
\* entity it has put receives an answer.  (Every peer answered; none lost.)
PutThenGet ==
    \A c \in Client :
       /\ pc[c] = "get" /\ AllAnswered(c) /\ lost = 0
       /\ req[c].name \in refs[c]
       => Endorsers(c) # {}

\* The puts of the ledger, and the calls in progress, as EntityStore has them.
StoreLog == [i \in 1..Len(ledger) |->
                [name |-> ledger[i].name, val |-> ledger[i].val]]
StoreOp == [c \in Client |->
    CASE pc[c] = "idle" -> [kind |-> "idle", at |-> 0]
      [] pc[c] = "get"  -> [kind |-> "get", name |-> req[c].name, at |-> at[c]]
      [] OTHER -> [kind |-> "put", name |-> req[c].name, val |-> req[c].val,
                   at |-> at[c]]]
Store == INSTANCE EntityStore WITH log <- StoreLog, op <- StoreOp

\* The chaincode, its peers and its connector keep the promise of EntityStore:
\* an answer is never older than a put acknowledged before the get began.
StoreSpec == Store!Spec

\* The scheduling the code and Fabric give: peers answer and commit what they
\* are sent, and the futures of the connector run on.
Fairness ==
    /\ \A p \in Peer : WF_vars(CommitBlock(p))
    /\ \A c \in Client : /\ WF_vars(ClientStep(c))
                         /\ \A p \in Peer : WF_vars(EndorsePut(c, p) \/ QueryPeer(c, p))
FairSpec == Spec /\ Fairness

\* Every call comes back, with a result or an exception.
CallsReturn == \A c \in Client : pc[c] # "idle" ~> pc[c] = "idle"
=============================================================================
