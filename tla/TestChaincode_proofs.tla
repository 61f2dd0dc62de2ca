----------------------- MODULE TestChaincode_proofs -----------------------
(***************************************************************************)
(* What TestChaincode guarantees for every number of peers and clients,    *)
(* every set of names and values, and every bound: of the state first,     *)
(* then of the calls, what the updates of the counter start from, what     *)
(* peers answer to a put, and that undisturbed, and without calculateSize, *)
(* all of it implements EntityStore.                                       *)
(***************************************************************************)
EXTENDS TestChaincode, SequenceTheorems, TLAPS

-----------------------------------------------------------------------------
(* The operators of the map and of the stub, typed.                        *)

\* Keys the map builds are keys of the world state (EntryKey, SizeKey).
LEMMA KeysAreKeys ==
    ASSUME NEW m \in Prefix, NEW n \in Name
    PROVE  EntryKey(m, n) \in Key /\ SizeKey(m) \in Key /\ EntryKey(m, n) # SizeKey(m)
  BY MapAssumption DEF EntryKey, SizeKey, Key, PlainKey

\* A fresh simulation has read and written nothing.
LEMMA NewSimType == NewSim \in Sim /\ NoAnswer \in Response /\ Failure \in Response
  BY DEF NewSim, Sim, Unread, NoAnswer, Failure, Response

\* Reading a key of a well-formed world state keeps a simulation well formed.
LEMMA ReadType ==
    ASSUME NEW s \in Sim, NEW d \in [Key -> Entry], NEW k \in Key
    PROVE  ReadState(d, s, k) \in Sim
  <1>1. d[k].ver \in Nat
    BY DEF Entry
  <1>2. QED
    BY <1>1 DEF ReadState, Sim

\* So does writing a value or a counter.
LEMMA WriteType ==
    ASSUME NEW s \in Sim, NEW k \in Key, NEW v \in Value \union {-1, 0, 1}
    PROVE  WriteState(s, k, v) \in Sim
  BY DEF WriteState, Sim

\* PutProtoState leaves a well-formed simulation, with or without a counter.
LEMMA PutProtoType ==
    ASSUME NEW d \in [Key -> Entry], NEW m \in Prefix, NEW n \in Name,
           NEW v \in Value
    PROVE  PutProtoState(d, NewSim, m, CalculateSize, n, v) \in Sim
  <1> DEFINE put == WriteState(NewSim, EntryKey(m, n), v)
  <1>1. put \in Sim
    BY KeysAreKeys, NewSimType, WriteType
  <1>2. IncrementSize(d, put, m) \in Sim
    <2>1. ReadState(d, put, SizeKey(m)) \in Sim
      BY <1>1, KeysAreKeys, ReadType
    <2> HIDE DEF put
    <2>2. WriteState(ReadState(d, put, SizeKey(m)), SizeKey(m), 1) \in Sim
      BY <2>1, KeysAreKeys, WriteType
    <2>3. QED
      BY <2>2 DEF IncrementSize, modifySize, PutSize, GetSize
  <1>3. QED
    BY <1>1, <1>2 DEF PutProtoState

\* What a peer answers to a proposal is a response.
LEMMA AnswerType ==
    ASSUME TypeOK, NEW p \in Peer, NEW n \in Name
    PROVE  /\ \A v \in Value : PutEntity(p, n, v) \in Response
           /\ GetEntity(p, n) \in Response
  <1>1. db[p] \in [Key -> Entry] /\ prefix[p] \in Prefix
    BY DEF TypeOK, Shapes
  <1>2. ASSUME NEW v \in Value PROVE PutEntity(p, n, v) \in Response
    <2>1. PutProtoState(db[p], NewSim, prefix[p], CalculateSize, n, v) \in Sim
      BY <1>1, PutProtoType
    <2>2. QED
      BY <2>1, NewSimType DEF PutEntity, Success, Response
  <1>3. GetEntity(p, n) \in Response
    <2>1. GetProtoSim(db[p], NewSim, prefix[p], n) \in Sim
      BY <1>1, KeysAreKeys, NewSimType, ReadType DEF GetProtoSim
    <2>2. GetProtoState(db[p], prefix[p], n) \in Value \union {-1, 0, 1, NIL}
      BY <1>1, KeysAreKeys DEF GetProtoState, Entry
    <2>3. QED
      BY <2>1, <2>2, NewSimType DEF GetEntity, Success, Response
  <1>4. QED
    BY <1>2, <1>3

-----------------------------------------------------------------------------
(* Type correctness, one step of the proof per action.                     *)

LEMMA InitTypeOK == Init => TypeOK
  <1> SUFFICES ASSUME Init PROVE TypeOK
    OBVIOUS
  <1>1. InitPrefix \in Prefix
    BY ChaincodeAssumption DEF InitPrefix
  <1>2. EmptyState \in [Key -> Entry]
    BY DEF EmptyState, Absent, Entry
  <1>3. NoRequest \in Request
    BY DEF NoRequest, Request
  <1>4. Shapes
    BY <1>1, <1>2, <1>3, NewSimType DEF Init, Shapes
  <1>5. QED
    BY <1>4 DEF Init, TypeOK, Height, CallOK

\* A call that is over leaves its client with well-typed, empty records.
LEMMA ReturnType ==
    ASSUME TypeOK, NEW c \in Client, Return(c)
    PROVE  /\ pc' \in [Client -> {"idle", "put", "ordered", "get"}]
           /\ req' \in [Client -> Request]
           /\ resp' \in [Client -> [Peer -> Response]]
           /\ at' \in [Client -> Nat] /\ retries' \in [Client -> Nat]
           /\ ledger' = ledger => \A d \in Client : CallOK(d)'
  <1>1. NoRequest \in Request
    BY DEF NoRequest, Request
  <1>2. Shapes
    BY DEF TypeOK
  <1>3. Len(ledger) \in Nat
    BY <1>2 DEF Shapes
  <1>4. ASSUME ledger' = ledger, NEW d \in Client PROVE CallOK(d)'
    <2>1. CallOK(d)
      BY DEF TypeOK
    <2>2. QED
      BY <1>2, <1>3, <1>4, <2>1 DEF CallOK, Return, Shapes
  <1>5. QED
    BY <1>1, <1>2, <1>4, NewSimType DEF Shapes, Return

\* Recording the answer of a peer keeps the table of answers well typed.
LEMMA AnswerKeepsType ==
    ASSUME Shapes, NEW c \in Client, NEW p \in Peer, NEW r \in Response,
           Answer(c, p, r)
    PROVE  resp' \in [Client -> [Peer -> Response]]
  BY DEF Shapes, Answer

\* What a transaction writes is what an entry of the world state may hold.
LEMMA ApplyType ==
    ASSUME NEW d \in [Key -> Entry], NEW s \in Sim, NEW i \in Nat
    PROVE  Apply(d, s, i) \in [Key -> Entry]
  <1>1. ASSUME NEW k \in Key PROVE Written(d[k], s.writes[k], i) \in Entry
    BY DEF Written, Entry, Sim, Absent
  <1>2. QED
    BY <1>1 DEF Apply

LEMMA NextTypeOK == TypeOK /\ [Next]_vars => TypeOK'
  <1> SUFFICES ASSUME TypeOK, [Next]_vars PROVE TypeOK'
    OBVIOUS
  <1> USE DEF TypeOK
  <1>1. ASSUME NEW c \in Client, NEW n \in Name, NEW v \in Value, StartPut(c, n, v)
        PROVE  TypeOK'
    <2>1. [name |-> n, val |-> v] \in Request
      BY DEF Request
    <2>2. Shapes'
      BY <1>1, <2>1 DEF StartPut, Shapes
    <2>3. QED
      BY <1>1, <2>2 DEF StartPut, Shapes, Height, CallOK
  <1>2. ASSUME NEW c \in Client, NEW n \in Name, StartGet(c, n) PROVE TypeOK'
    <2>1. [name |-> n, val |-> NIL] \in Request
      BY DEF Request
    <2>2. Shapes'
      BY <1>2, <2>1 DEF StartGet, Shapes
    <2>3. QED
      BY <1>2, <2>2 DEF StartGet, Shapes, Height, CallOK
  <1>3. ASSUME NEW c \in Client, SubmitPut(c) PROVE TypeOK'
    <2>1. PICK p \in Endorsers(c) :
             ledger' = Append(ledger, [name |-> req[c].name, val |-> req[c].val,
                                       sim |-> resp[c][p].sim])
      BY <1>3 DEF SubmitPut
    <2>2. resp[c][p].sim \in Sim
      BY DEF Endorsers, Shapes, Response
    <2>3. [name |-> req[c].name,
           val |-> req[c].val, sim |-> resp[c][p].sim] \in Transaction
      BY <1>3, <2>2 DEF SubmitPut, CallOK, Shapes, Transaction
    <2>4. ledger' \in Seq(Transaction) /\ Len(ledger') = Len(ledger) + 1
      BY <2>1, <2>3 DEF Shapes
    <2>5. Shapes'
      BY <1>3, <2>4 DEF SubmitPut, Shapes
    <2>6. QED
      BY <1>3, <2>4, <2>5 DEF SubmitPut, Shapes, Height, CallOK
  <1>4. ASSUME NEW c \in Client, RejectPut(c) \/ FailPut(c) \/ FailGet(c)
        PROVE  TypeOK'
    <2>1. /\ Return(c)
          /\ UNCHANGED <<prefix, db, verdict, ledger, calls, refs, got, acked,
                         restarts, lost>>
      BY <1>4 DEF RejectPut, FailPut, FailGet
    <2>2. Shapes'
      BY <2>1, ReturnType DEF Shapes
    <2>3. QED
      BY <2>1, <2>2, ReturnType DEF Height
  <1>5. ASSUME NEW c \in Client, AckPut(c) PROVE TypeOK'
    <2>1. /\ Return(c)
          /\ UNCHANGED <<prefix, db, verdict, ledger, calls, got, restarts, lost>>
          /\ pc[c] = "ordered"
      BY <1>5 DEF AckPut
    <2>2. acked' \in Nat /\ acked' <= Len(ledger)
      BY <1>5 DEF AckPut, Shapes, CallOK
    <2>3. refs' \in [Client -> SUBSET Name]
      BY <1>5 DEF AckPut, Shapes, CallOK
    <2>4. Shapes'
      BY <2>1, <2>2, <2>3, ReturnType DEF Shapes
    <2>5. QED
      BY <2>1, <2>2, <2>4, ReturnType DEF Height
  <1>6. ASSUME NEW c \in Client, RetryPut(c) PROVE TypeOK'
    <2>1. resp' \in [Client -> [Peer -> Response]]
      BY <1>6, NewSimType DEF RetryPut, Shapes
    <2>2. Shapes'
      BY <1>6, <2>1 DEF RetryPut, Shapes
    <2>3. Len(ledger) \in Nat
      BY DEF Shapes
    <2>4. QED
      BY <1>6, <2>2, <2>3 DEF RetryPut, Shapes, Height, CallOK
  <1>7. ASSUME NEW c \in Client, CompleteGet(c) PROVE TypeOK'
    <2>1. PICK p \in Endorsers(c) :
             got' = [got EXCEPT ![c] = <<req[c].name, resp[c][p].val>>]
      BY <1>7 DEF CompleteGet
    <2>2. resp[c][p].val \in Value \union Name \union {-1, 0, 1, NIL}
      BY DEF Endorsers, Shapes, Response
    <2>3. req[c].name \in Name
      BY <1>7 DEF CompleteGet, CallOK
    <2>4. /\ Return(c)
          /\ UNCHANGED <<prefix, db, verdict, ledger, calls, refs, acked,
                         restarts, lost>>
      BY <1>7 DEF CompleteGet
    <2>5. Shapes'
      BY <2>1, <2>2, <2>3, <2>4, ReturnType DEF Shapes
    <2>6. QED
      BY <2>4, <2>5, ReturnType DEF Height
  <1>8. ASSUME NEW c \in Client, NEW p \in Peer, EndorsePut(c, p) PROVE TypeOK'
    <2>1. PutEntity(p, req[c].name, req[c].val) \in Response
      BY <1>8, AnswerType DEF EndorsePut, CallOK
    <2>2. resp' \in [Client -> [Peer -> Response]]
      BY <1>8, <2>1, AnswerKeepsType DEF EndorsePut
    <2>3. QED
      BY <1>8, <2>2 DEF EndorsePut, Shapes, Height, CallOK
  <1>9. ASSUME NEW c \in Client, NEW p \in Peer, QueryPeer(c, p) PROVE TypeOK'
    <2>1. GetEntity(p, req[c].name) \in Response
      BY <1>9, AnswerType DEF QueryPeer, CallOK
    <2>2. resp' \in [Client -> [Peer -> Response]]
      BY <1>9, <2>1, AnswerKeepsType DEF QueryPeer
    <2>3. prefix' \in [Peer -> Prefix]
      BY <1>9, MapAssumption DEF QueryPeer, Shapes, NewProcessPrefix
    <2>4. QED
      BY <1>9, <2>2, <2>3 DEF QueryPeer, Shapes, Height, CallOK
  <1>10. ASSUME NEW c \in Client, NEW p \in Peer, LoseAnswer(c, p) PROVE TypeOK'
    <2>1. resp' \in [Client -> [Peer -> Response]]
      BY <1>10, NewSimType, AnswerKeepsType DEF LoseAnswer
    <2>2. QED
      BY <1>10, <2>1 DEF LoseAnswer, Shapes, Height, CallOK
  <1>11. ASSUME NEW p \in Peer, CommitBlock(p) PROVE TypeOK'
    <2> DEFINE i == Height(p) + 1
               valid == Unchanged(db[p], ledger[i].sim)
    <2>1. /\ Height(p) < Len(ledger)
          /\ verdict' = [verdict EXCEPT ![p] = Append(@, valid)]
          /\ db' = [db EXCEPT ![p] = IF valid THEN Apply(@, ledger[i].sim, i)
                                     ELSE @]
          /\ UNCHANGED <<prefix, ledger, pc, req, resp, at, retries, calls,
                         refs, got, acked, restarts, lost>>
      BY <1>11 DEF CommitBlock, callVars
    <2>2. valid \in BOOLEAN
      BY DEF Unchanged
    <2>3. Height(p) \in Nat /\ Len(ledger) \in Nat
      BY DEF Shapes, Height
    <2>4. i \in 1..Len(ledger)
      BY <2>1, <2>3
    <2>5. ledger[i].sim \in Sim
      <3>1. ledger[i] \in Transaction
        BY <2>4 DEF Shapes
      <3>2. QED
        BY <3>1 DEF Transaction
    <2>6. Apply(db[p], ledger[i].sim, i) \in [Key -> Entry]
      <3>1. db[p] \in [Key -> Entry] /\ i \in Nat
        BY <2>3 DEF Shapes
      <3>2. QED
        BY <3>1, <2>5, ApplyType
    <2> HIDE DEF valid, i
    <2>7. db' \in [Peer -> [Key -> Entry]]
      BY <2>1, <2>6 DEF Shapes
    <2>8. /\ verdict' \in [Peer -> Seq(BOOLEAN)]
          /\ \A q \in Peer : Len(verdict'[q]) <= Len(ledger)
      BY <2>1, <2>2, <2>3 DEF Shapes, Height
    <2>9. QED
      BY <2>1, <2>7, <2>8 DEF Shapes, Height, CallOK
  <1>12. ASSUME NEW p \in Peer, RestartChaincode(p) PROVE TypeOK'
    <2>1. prefix' \in [Peer -> Prefix] /\ restarts' \in Nat
      <3>1. NewProcessPrefix \in Prefix
        BY MapAssumption DEF NewProcessPrefix
      <3>2. QED
        BY <1>12, <3>1 DEF RestartChaincode, Shapes
    <2>2. QED
      BY <1>12, <2>1 DEF RestartChaincode, Shapes, Height, CallOK, callVars
  <1>13. CASE UNCHANGED vars
    BY <1>13 DEF vars, callVars, Shapes, Height, CallOK
  <1>14. QED
    BY <1>1, <1>2, <1>3, <1>4, <1>5, <1>6, <1>7, <1>8, <1>9, <1>10, <1>11,
       <1>12, <1>13 DEF Next, ClientStep

\* Every variable keeps its shape, no peer is ahead of the orderer, and the
\* place a client waits for exists.
THEOREM TypeCorrect == Spec => []TypeOK
  BY InitTypeOK, NextTypeOK, PTL DEF Spec

-----------------------------------------------------------------------------
(* How a step changes the ledger, the verdicts and the world states.       *)

\* CommitBlock with its LET named: the place of the transaction, its verdict.
CommitAt(p, i, valid) ==
    /\ verdict' = [verdict EXCEPT ![p] = Append(@, valid)]
    /\ db' = [db EXCEPT ![p] = IF valid THEN Apply(@, ledger[i].sim, i) ELSE @]
    /\ ledger' = ledger

LEMMA CommitFacts ==
    ASSUME TypeOK, NEW p \in Peer, CommitBlock(p)
    PROVE  /\ Height(p) + 1 \in 1..Len(ledger) /\ Height(p) \in Nat
           /\ ledger[Height(p) + 1] \in Transaction
           /\ Unchanged(db[p], ledger[Height(p) + 1].sim) \in BOOLEAN
           /\ CommitAt(p, Height(p) + 1, Unchanged(db[p], ledger[Height(p) + 1].sim))
           /\ UNCHANGED <<pc, req, resp, at, retries, calls, refs, acked>>
  <1>1. Shapes
    BY DEF TypeOK
  <1>2. Height(p) \in Nat /\ Len(ledger) \in Nat
    BY <1>1 DEF Shapes, Height
  <1>3. Height(p) < Len(ledger)
    BY DEF CommitBlock
  <1>4. Height(p) + 1 \in 1..Len(ledger)
    BY <1>2, <1>3
  <1>5. ledger[Height(p) + 1] \in Transaction
    BY <1>1, <1>4 DEF Shapes
  <1>6. CommitAt(p, Height(p) + 1, Unchanged(db[p], ledger[Height(p) + 1].sim))
    BY DEF CommitBlock, CommitAt
  <1>7. QED
    BY <1>2, <1>4, <1>5, <1>6 DEF CommitBlock, Unchanged, callVars

\* After CommitBlock(p) the verdicts of p are one longer.
LEMMA CommitVerdicts ==
    ASSUME TypeOK, NEW p \in Peer, NEW i, NEW valid \in BOOLEAN, CommitAt(p, i, valid)
    PROVE  /\ Height(p)' = Height(p) + 1
           /\ verdict'[p][Height(p) + 1] = valid
           /\ \A j \in 1..Height(p) : verdict'[p][j] = verdict[p][j]
           /\ \A q \in Peer \ {p} : verdict'[q] = verdict[q] /\ db'[q] = db[q]
  <1>1. verdict \in [Peer -> Seq(BOOLEAN)] /\ db \in [Peer -> [Key -> Entry]]
    BY DEF TypeOK, Shapes
  <1>2. QED
    BY <1>1 DEF CommitAt, Height

\* SubmitPut(c) adds one transaction, which one endorser of the put simulated.
LEMMA SubmitFacts ==
    ASSUME TypeOK, NEW c \in Client, SubmitPut(c)
    PROVE  \E p \in Peer, t \in Transaction :
              /\ resp[c][p].status = "ok" /\ t.sim = resp[c][p].sim
              /\ t.name = req[c].name /\ t.val = req[c].val
              /\ ledger' = Append(ledger, t)
              /\ Len(ledger') = Len(ledger) + 1
              /\ ledger'[Len(ledger) + 1] = t
              /\ \A i \in 1..Len(ledger) : ledger'[i] = ledger[i]
  <1>1. PICK p \in Endorsers(c) :
           ledger' = Append(ledger, [name |-> req[c].name, val |-> req[c].val,
                                     sim |-> resp[c][p].sim])
    BY DEF SubmitPut
  <1> DEFINE t == [name |-> req[c].name,
                   val |-> req[c].val, sim |-> resp[c][p].sim]
  <1>2. Shapes /\ CallOK(c)
    BY DEF TypeOK
  <1>3. p \in Peer /\ resp[c][p].status = "ok"
    BY DEF Endorsers
  <1>4. resp[c][p].sim \in Sim
    BY <1>2, <1>3 DEF Shapes, Response
  <1>5. t \in Transaction
    BY <1>2, <1>4 DEF SubmitPut, CallOK, Shapes, Transaction
  <1>6. ledger \in Seq(Transaction)
    BY <1>2 DEF Shapes
  <1>7. t.sim = resp[c][p].sim /\ t.name = req[c].name /\ t.val = req[c].val
    OBVIOUS
  <1>8. ledger' = Append(ledger, t)
    BY <1>1
  <1> HIDE DEF t
  <1>9. QED
    BY <1>3, <1>5, <1>6, <1>7, <1>8

\* Every other step leaves all three alone.
LEMMA WorldSteps ==
    ASSUME [Next]_vars
    PROVE  \/ UNCHANGED <<db, verdict, ledger>>
           \/ \E c \in Client : SubmitPut(c) /\ UNCHANGED <<db, verdict>>
           \/ \E p \in Peer : CommitBlock(p)
  BY DEF Next, ClientStep, vars, StartPut, StartGet, SubmitPut, RejectPut, AckPut,
         RetryPut, FailPut, CompleteGet, FailGet, EndorsePut, QueryPeer, LoseAnswer,
         RestartChaincode

\* The ledger and the verdicts only grow.
LEMMA Growth ==
    ASSUME TypeOK, [Next]_vars
    PROVE  /\ Len(ledger') >= Len(ledger)
           /\ \A i \in 1..Len(ledger) : ledger'[i] = ledger[i]
           /\ \A p \in Peer : /\ Height(p)' >= Height(p)
                              /\ \A i \in 1..Height(p) : verdict'[p][i] = verdict[p][i]
  <1>1. Len(ledger) \in Nat /\ \A p \in Peer : Height(p) \in Nat
    BY DEF TypeOK, Shapes, Height
  <1>2. CASE UNCHANGED <<db, verdict, ledger>>
    BY <1>1, <1>2 DEF Height
  <1>3. ASSUME NEW c \in Client, SubmitPut(c), UNCHANGED verdict
        PROVE  /\ Len(ledger') >= Len(ledger)
               /\ \A i \in 1..Len(ledger) : ledger'[i] = ledger[i]
               /\ UNCHANGED verdict
    BY <1>1, <1>3, SubmitFacts
  <1>4. ASSUME NEW p \in Peer, CommitBlock(p)
        PROVE  /\ ledger' = ledger
               /\ \A q \in Peer : /\ Height(q)' >= Height(q)
                                  /\ \A i \in 1..Height(q) : verdict'[q][i] = verdict[q][i]
    <2>1. PICK valid \in BOOLEAN : CommitAt(p, Height(p) + 1, valid)
      BY <1>4, CommitFacts
    <2>2. QED
      BY <1>1, <2>1, CommitVerdicts DEF CommitAt, Height
  <1>5. QED
    BY <1>1, <1>2, <1>3, <1>4, WorldSteps DEF Height

-----------------------------------------------------------------------------
(* Puts that read nothing are never refused.                               *)

Blind(sim) == \A k \in Key : sim.reads[k] = Unread

\* An idle client has no answers left; a put in progress has only answers that
\* read nothing, and so have the transactions it and others had ordered.
BlindInv ==
    /\ \A c \in Client : pc[c] = "idle" => \A p \in Peer : resp[c][p].status = "none"
    /\ ~CalculateSize =>
         /\ \A i \in 1..Len(ledger) : Blind(ledger[i].sim)
         /\ \A c \in Client, p \in Peer :
               pc[c] = "put" /\ resp[c][p].status = "ok" => Blind(resp[c][p].sim)
    /\ PutsNeverConflict

\* A client that goes on without losing its answers.
MovesOn(c) ==
    \/ pc'[c] = pc[c]
    \/ pc[c] = "idle" /\ pc'[c] \in {"put", "get"}
    \/ pc[c] = "put" /\ pc'[c] = "ordered"

\* How a step changes the answers a client has: they are dropped at the end of a
\* call or an attempt, one arrives, or they stay and the client moves on.
LEMMA CallSteps ==
    ASSUME TypeOK, [Next]_vars
    PROVE  \/ \E c \in Client : Return(c) \/ RetryPut(c)
           \/ \E c \in Client, p \in Peer :
                 EndorsePut(c, p) \/ QueryPeer(c, p) \/ LoseAnswer(c, p)
           \/ UNCHANGED <<resp, retries>> /\ \A c \in Client : MovesOn(c)
  <1> DEFINE Stay == UNCHANGED <<resp, retries>> /\ \A c \in Client : MovesOn(c)
  <1>1. pc \in [Client -> {"idle", "put", "ordered", "get"}]
    BY DEF TypeOK, Shapes
  <1>2. ASSUME NEW c \in Client, NEW n \in Name,
               StartGet(c, n) \/ \E v \in Value : StartPut(c, n, v)
        PROVE  Stay
    BY <1>1, <1>2 DEF StartGet, StartPut, MovesOn
  <1>3. ASSUME NEW c \in Client, SubmitPut(c) PROVE Stay
    BY <1>1, <1>3 DEF SubmitPut, MovesOn
  <1>4. ASSUME NEW p \in Peer, CommitBlock(p) \/ RestartChaincode(p) PROVE Stay
    BY <1>4 DEF CommitBlock, RestartChaincode, callVars, MovesOn
  <1>5. ASSUME UNCHANGED vars PROVE Stay
    BY <1>5 DEF vars, callVars, MovesOn
  <1>6. ASSUME NEW c \in Client, ClientStep(c), ~SubmitPut(c)
        PROVE  Return(c) \/ RetryPut(c)
    BY <1>6 DEF ClientStep, RejectPut, AckPut, FailPut, CompleteGet, FailGet
  <1> HIDE DEF Stay
  <1>7. \/ Stay
        \/ \E c \in Client : Return(c) \/ RetryPut(c)
        \/ \E c \in Client, p \in Peer :
              EndorsePut(c, p) \/ QueryPeer(c, p) \/ LoseAnswer(c, p)
    BY <1>2, <1>3, <1>4, <1>5, <1>6 DEF Next
  <1>8. QED
    BY <1>7 DEF Stay

\* Without calculateSize PutEntity reads no key.
LEMMA PutIsBlind ==
    ASSUME ~CalculateSize, NEW p \in Peer, NEW n, NEW v
    PROVE  Blind(PutEntity(p, n, v).sim)
  BY DEF Blind, PutEntity, PutProtoState, WriteState, NewSim, Success, Failure

LEMMA InitBlind == Init => BlindInv
  BY DEF Init, BlindInv, PutsNeverConflict, Height, NoAnswer

LEMMA NextBlind == TypeOK /\ BlindInv /\ [Next]_vars => BlindInv'
  <1> SUFFICES ASSUME TypeOK, BlindInv, [Next]_vars PROVE BlindInv'
    OBVIOUS
  <1>1. Shapes /\ Shapes' /\ TypeOK'
    BY NextTypeOK DEF TypeOK
  \* Who answers, and when answers are dropped.
  <1>2. \A c \in Client : pc'[c] = "idle" => \A p \in Peer : resp'[c][p].status = "none"
    <2> SUFFICES ASSUME NEW c \in Client, pc'[c] = "idle", NEW p \in Peer
                 PROVE  resp'[c][p].status = "none"
      OBVIOUS
    <2>1. pc[c] = "idle" => resp[c][p].status = "none"
      BY DEF BlindInv
    <2>2. ASSUME NEW d \in Client, Return(d) PROVE resp'[c][p].status = "none"
      BY <1>1, <2>1, <2>2 DEF Return, Shapes, NoAnswer
    <2>3. ASSUME NEW d \in Client, NEW q \in Peer,
                 EndorsePut(d, q) \/ QueryPeer(d, q) \/ LoseAnswer(d, q)
          PROVE  resp'[c][p].status = "none"
      BY <1>1, <2>1, <2>3
      DEF EndorsePut, QueryPeer, LoseAnswer, Answer, Shapes
    <2>4. ASSUME NEW d \in Client, RetryPut(d) PROVE resp'[c][p].status = "none"
      BY <1>1, <2>1, <2>4 DEF RetryPut, Shapes, NoAnswer
    <2>5. CASE UNCHANGED resp /\ (pc'[c] = "idle" => pc[c] = "idle")
      BY <2>1, <2>5
    <2>6. QED
      BY <2>2, <2>3, <2>4, <2>5, CallSteps DEF MovesOn
  <1>3. ASSUME ~CalculateSize
        PROVE  /\ \A i \in 1..Len(ledger') : Blind(ledger'[i].sim)
               /\ \A p \in Peer : \A i \in 1..Height(p)' : verdict'[p][i]
    <2>1. /\ \A i \in 1..Len(ledger) : Blind(ledger[i].sim)
          /\ \A p \in Peer : \A i \in 1..Height(p) : verdict[p][i]
      BY <1>3 DEF BlindInv, PutsNeverConflict
    <2>2. CASE UNCHANGED <<db, verdict, ledger>>
      BY <2>1, <2>2 DEF Height
    <2>3. ASSUME NEW c \in Client, SubmitPut(c), UNCHANGED <<db, verdict>>
          PROVE  \A i \in 1..Len(ledger') : Blind(ledger'[i].sim)
      <3>1. PICK p \in Peer, t \in Transaction :
               /\ resp[c][p].status = "ok" /\ t.sim = resp[c][p].sim
               /\ Len(ledger') = Len(ledger) + 1
               /\ ledger'[Len(ledger) + 1] = t
               /\ \A i \in 1..Len(ledger) : ledger'[i] = ledger[i]
        BY <2>3, SubmitFacts
      <3>2. Blind(t.sim)
        BY <1>3, <2>3, <3>1 DEF BlindInv, SubmitPut
      <3>3. Len(ledger) \in Nat
        BY <1>1 DEF Shapes
      <3>4. QED
        BY <2>1, <3>1, <3>2, <3>3
    <2>4. ASSUME NEW p \in Peer, CommitBlock(p)
          PROVE  /\ ledger' = ledger
                 /\ \A q \in Peer : \A i \in 1..Height(q)' : verdict'[q][i]
      <3> DEFINE i == Height(p) + 1
      <3>1. Unchanged(db[p], ledger[i].sim)
        BY <2>1, <2>4, CommitFacts DEF Blind, Unchanged
      <3>2. CommitAt(p, i, TRUE) /\ Height(p) \in Nat
        BY <2>4, <3>1, CommitFacts
      <3>3. /\ Height(p)' = i /\ verdict'[p][i] = TRUE
            /\ \A j \in 1..Height(p) : verdict'[p][j] = verdict[p][j]
            /\ \A q \in Peer \ {p} : verdict'[q] = verdict[q]
        BY <3>2, CommitVerdicts
      <3>4. \A j \in 1..Height(p)' : verdict'[p][j]
        BY <2>1, <3>2, <3>3
      <3>5. QED
        BY <2>1, <3>2, <3>3, <3>4 DEF CommitAt, Height
    <2>5. QED
      BY <2>1, <2>2, <2>3, <2>4, WorldSteps DEF Height
  <1>4. ASSUME ~CalculateSize, NEW c \in Client
        PROVE  /\ retries'[c] = 0
               /\ \A p \in Peer : pc'[c] = "put" /\ resp'[c][p].status = "ok"
                                 => Blind(resp'[c][p].sim)
    <2> DEFINE Fresh ==
          /\ retries'[c] = 0
          /\ \A p \in Peer : pc'[c] = "put" /\ resp'[c][p].status = "ok"
                            => Blind(resp'[c][p].sim)
    <2> SUFFICES Fresh
      OBVIOUS
    <2>1. /\ retries[c] = 0
          /\ pc[c] = "idle" => \A p \in Peer : resp[c][p].status = "none"
          /\ \A p \in Peer : pc[c] = "put" /\ resp[c][p].status = "ok"
                            => Blind(resp[c][p].sim)
      BY <1>4 DEF BlindInv, PutsNeverConflict
    <2>2. ASSUME NEW d \in Client, Return(d) PROVE Fresh
      BY <1>1, <2>1, <2>2 DEF Return, Shapes, NoAnswer
    <2>3. ASSUME NEW d \in Client, RetryPut(d) PROVE FALSE
      <3>1. \A p \in Peer : \A i \in 1..Height(p) : verdict[p][i]
        BY <1>4 DEF BlindInv, PutsNeverConflict
      <3>2. at[d] \in Nat /\ at[d] > 0 /\ \A p \in Peer : Height(p) \in Nat
        BY <1>1, <2>3 DEF RetryPut, TypeOK, CallOK, Shapes, Height
      <3>3. QED
        BY <2>3, <3>1, <3>2 DEF RetryPut, Invalidated, Committed
    <2>4. ASSUME NEW d \in Client, NEW q \in Peer, EndorsePut(d, q) PROVE Fresh
      <3>1. Blind(PutEntity(q, req[d].name, req[d].val).sim)
        BY <1>4, PutIsBlind
      <3>2. QED
        BY <1>1, <2>1, <2>4, <3>1 DEF EndorsePut, Answer, Shapes
    <2>5. ASSUME NEW d \in Client, NEW q \in Peer, QueryPeer(d, q) PROVE Fresh
      BY <1>1, <2>1, <2>5 DEF QueryPeer, Answer, Shapes
    <2>6. ASSUME NEW d \in Client, NEW q \in Peer, LoseAnswer(d, q) PROVE Fresh
      BY <1>1, <2>1, <2>6 DEF LoseAnswer, Answer, Shapes, Failure
    <2>7. CASE /\ UNCHANGED <<retries, resp>>
               /\ pc'[c] = "put" => pc[c] \in {"idle", "put"}
      BY <2>1, <2>7
    <2>8. QED
      BY <2>2, <2>3, <2>4, <2>5, <2>6, <2>7, CallSteps DEF MovesOn
  <1>5. QED
    BY <1>2, <1>3, <1>4 DEF BlindInv, PutsNeverConflict

\* However puts interleave, none is refused at commit and none is tried twice
\* (PutProtoState stores without a look; TestChaincode.Init leaves
\* calculateSize off).
THEOREM PutsSucceed == Spec => []PutsNeverConflict
  <1>1. BlindInv => PutsNeverConflict
    BY DEF BlindInv
  <1>2. QED
    BY <1>1, InitTypeOK, NextTypeOK, InitBlind, NextBlind, PTL DEF Spec

-----------------------------------------------------------------------------
(* The world state of a peer is a function of the ledger.                  *)

\* At height h of peer p, the version of key k is the last transaction so far
\* that is valid and writes k, or 0.
IsVersion(p, k, h, ver) ==
    /\ ver \in 0..h
    /\ ver # 0 => Sets(p, ver, k)
    /\ \A i \in ver+1..h : ~Sets(p, i, k)

\* Every key of every peer holds what the last valid writer of it wrote.
StateIsLedger ==
    \A p \in Peer, k \in Key :
       LET e == db[p][k]
       IN  /\ IsVersion(p, k, Height(p), e.ver)
           /\ IF e.ver = 0 THEN e = Absent
              ELSE ledger[e.ver].sim.writes[k] = e.val

\* The past of a peer does not change: what was the version of a key after its
\* first h transactions still is.
LEMMA VersionStable ==
    ASSUME TypeOK, [Next]_vars, NEW p \in Peer, NEW k \in Key, NEW h \in 0..Height(p),
           NEW ver
    PROVE  IsVersion(p, k, h, ver)' <=> IsVersion(p, k, h, ver)
  <1>1. Height(p) \in Nat /\ Height(p) <= Len(ledger) /\ Len(ledger) \in Nat
    BY DEF TypeOK, Shapes, Height
  <1>2. \A i \in 1..Height(p) : ledger'[i] = ledger[i] /\ verdict'[p][i] = verdict[p][i]
    BY <1>1, Growth
  <1>3. \A i \in 1..Height(p) : Sets(p, i, k)' <=> Sets(p, i, k)
    BY <1>2 DEF Sets
  <1>4. QED
    BY <1>1, <1>3 DEF IsVersion

\* A key has one version at a time.
LEMMA VersionUnique ==
    ASSUME NEW p \in Peer, NEW k \in Key, NEW h \in Nat, NEW v, NEW w,
           IsVersion(p, k, h, v), IsVersion(p, k, h, w)
    PROVE  v = w
  BY DEF IsVersion

LEMMA InitState == Init => StateIsLedger
  BY DEF Init, StateIsLedger, IsVersion, Height, EmptyState, Absent

\* Applying transaction i makes i the version of what it writes.
LEMMA AppliedEntry ==
    ASSUME NEW d \in [Key -> Entry], NEW s \in Sim, NEW i \in Nat, NEW k \in Key
    PROVE  Apply(d, s, i)[k] = IF s.writes[k] = NoWrite THEN d[k]
                               ELSE [val |-> s.writes[k], ver |-> i]
  <1>1. s.writes[k] # NIL
    BY MapAssumption DEF Sim
  <1>2. QED
    BY <1>1 DEF Apply, Written

LEMMA NextState == TypeOK /\ StateIsLedger /\ [Next]_vars => StateIsLedger'
  <1> SUFFICES ASSUME TypeOK, StateIsLedger, [Next]_vars, NEW p \in Peer, NEW k \in Key
               PROVE  /\ IsVersion(p, k, Height(p), db[p][k].ver)'
                      /\ IF db'[p][k].ver = 0 THEN db'[p][k] = Absent
                         ELSE ledger'[db'[p][k].ver].sim.writes[k] = db'[p][k].val
    BY DEF StateIsLedger
  <1>a. PICK e : e = db[p][k]
    OBVIOUS
  <1>b. PICK h : h = Height(p)
    OBVIOUS
  <1>1. /\ h \in Nat /\ h <= Len(ledger) /\ Len(ledger) \in Nat
        /\ db[p] \in [Key -> Entry] /\ e \in Entry
    BY <1>a, <1>b DEF TypeOK, Shapes, Height
  <1>2. /\ IsVersion(p, k, h, e.ver)
        /\ IF e.ver = 0 THEN e = Absent ELSE ledger[e.ver].sim.writes[k] = e.val
    BY <1>a, <1>b DEF StateIsLedger
  <1>3. e.ver \in 0..h /\ IsVersion(p, k, h, e.ver)'
    <2>1. e.ver \in 0..h
      BY <1>2 DEF IsVersion
    <2>2. QED
      BY <1>1, <1>2, <1>b, <2>1, VersionStable
  <1>4. e.ver # 0 => ledger'[e.ver] = ledger[e.ver]
    BY <1>1, <1>3, Growth
  <1>5. CASE verdict'[p] = verdict[p] /\ db'[p] = db[p]
    <2>1. Height(p)' = h /\ db'[p][k] = e
      BY <1>5, <1>a, <1>b DEF Height
    <2>2. QED
      BY <1>2, <1>3, <1>4, <2>1 DEF IsVersion
  <1>6. CASE CommitBlock(p)
    <2> DEFINE t == ledger[h + 1].sim
    <2>1. PICK valid \in BOOLEAN : CommitAt(p, h + 1, valid)
      BY <1>6, <1>b, CommitFacts
    <2>2. t \in Sim /\ h + 1 \in 1..Len(ledger) /\ ledger' = ledger
      BY <1>6, <1>b, <2>1, CommitFacts DEF Transaction, CommitAt
    <2>3. /\ Height(p)' = h + 1 /\ verdict'[p][h + 1] = valid
          /\ \A j \in 1..h : verdict'[p][j] = verdict[p][j]
      BY <1>b, <2>1, CommitVerdicts
    <2>4. db'[p] = IF valid THEN Apply(db[p], t, h + 1) ELSE db[p]
      BY <2>1 DEF CommitAt, TypeOK, Shapes
    <2>5. db'[p][k] = IF valid /\ t.writes[k] # NoWrite
                      THEN [val |-> t.writes[k], ver |-> h + 1] ELSE e
      BY <1>1, <1>a, <2>2, <2>4, AppliedEntry
    <2>6. Sets(p, h + 1, k)' <=> valid /\ t.writes[k] # NoWrite
      BY <2>2, <2>3 DEF Sets
    <2>7. CASE valid /\ t.writes[k] # NoWrite
      <3>1. IsVersion(p, k, h + 1, h + 1)'
        BY <1>1, <2>6, <2>7 DEF IsVersion
      <3>2. QED
        BY <1>1, <2>2, <2>3, <2>5, <2>7, <3>1 DEF IsVersion
    <2>8. CASE ~(valid /\ t.writes[k] # NoWrite)
      <3>1. IsVersion(p, k, h + 1, e.ver)'
        BY <1>1, <1>3, <2>6, <2>8 DEF IsVersion
      <3>2. db'[p][k] = e
        BY <2>5, <2>8
      <3>3. QED
        BY <1>2, <1>4, <2>3, <3>1, <3>2 DEF IsVersion
    <2>9. QED
      BY <2>7, <2>8
  <1>7. ASSUME NEW q \in Peer, CommitBlock(q), q # p
        PROVE  verdict'[p] = verdict[p] /\ db'[p] = db[p]
    BY <1>7, CommitFacts, CommitVerdicts
  <1>8. QED
    BY <1>5, <1>6, <1>7, WorldSteps

-----------------------------------------------------------------------------
(* Peers give the same verdicts.                                           *)

\* Transaction i read, at peer p, what it still finds when it is committed.
ReadsCurrent(p, i) ==
    \A k \in Key : LET r == ledger[i].sim.reads[k]
                   IN  r = Unread \/ IsVersion(p, k, i - 1, r)

\* A verdict says whether the reads were current, and it is the same everywhere.
VerdictInv ==
    \A p \in Peer : \A i \in 1..Height(p) :
       /\ verdict[p][i] <=> ReadsCurrent(p, i)
       /\ \A q \in Peer : i <= Height(q) => verdict[q][i] = verdict[p][i]

LEMMA InitVerdict == Init => VerdictInv
  BY DEF Init, VerdictInv, Height

\* The check a peer makes against its world state is a check against the ledger.
LEMMA CheckIsCurrent ==
    ASSUME TypeOK, StateIsLedger, NEW p \in Peer, NEW i \in 1..Len(ledger),
           i = Height(p) + 1
    PROVE  Unchanged(db[p], ledger[i].sim) <=> ReadsCurrent(p, i)
  <1>1. Height(p) \in Nat /\ i - 1 = Height(p)
    BY DEF TypeOK, Shapes, Height
  <1>2. ASSUME NEW k \in Key
        PROVE  ledger[i].sim.reads[k] \in {Unread, db[p][k].ver}
               <=> (\/ ledger[i].sim.reads[k] = Unread
                    \/ IsVersion(p, k, i - 1, ledger[i].sim.reads[k]))
    <2>1. IsVersion(p, k, i - 1, db[p][k].ver)
      BY <1>1 DEF StateIsLedger
    <2>2. QED
      BY <1>1, <2>1, VersionUnique
  <1>3. QED
    BY <1>2 DEF Unchanged, ReadsCurrent

\* Peers with the same verdicts so far find the same reads current.
LEMMA AgreeOnCurrent ==
    ASSUME NEW p \in Peer, NEW q \in Peer, NEW i \in Nat \ {0},
           \A j \in 1..i - 1 : verdict[p][j] = verdict[q][j]
    PROVE  ReadsCurrent(p, i) <=> ReadsCurrent(q, i)
  <1>1. \A k \in Key : \A j \in 1..i - 1 : Sets(p, j, k) <=> Sets(q, j, k)
    BY DEF Sets
  <1>2. ASSUME NEW k \in Key, NEW v
        PROVE  IsVersion(p, k, i - 1, v) <=> IsVersion(q, k, i - 1, v)
    <2>1. \A j \in 1..i - 1 : Sets(p, j, k) <=> Sets(q, j, k)
      BY <1>1
    <2>2. v \in 0..i - 1 => v = 0 \/ v \in 1..i - 1
      OBVIOUS
    <2>3. v \in 0..i - 1 => \A j \in v + 1..i - 1 : j \in 1..i - 1
      OBVIOUS
    <2>4. QED
      BY <2>1, <2>2, <2>3 DEF IsVersion
  <1>3. QED
    BY <1>2 DEF ReadsCurrent

LEMMA NextVerdict ==
    TypeOK /\ StateIsLedger /\ VerdictInv /\ [Next]_vars => VerdictInv'
  <1> SUFFICES ASSUME TypeOK, StateIsLedger, VerdictInv, [Next]_vars
               PROVE  VerdictInv'
    OBVIOUS
  <1>1. /\ Len(ledger) \in Nat
        /\ \A p \in Peer : Height(p) \in Nat /\ Height(p) <= Len(ledger)
    BY DEF TypeOK, Shapes, Height
  \* What was current at its place still is: the past of a peer is fixed.
  <1>2. ASSUME NEW p \in Peer, NEW i \in 1..Height(p) + 1, i <= Len(ledger)
        PROVE  ReadsCurrent(p, i)' <=> ReadsCurrent(p, i)
    <2>1. i \in 1..Len(ledger) /\ i - 1 \in 0..Height(p)
      BY <1>1, <1>2
    <2>2. ledger'[i] = ledger[i]
      BY <2>1, Growth
    <2>3. \A k \in Key : \A v : IsVersion(p, k, i - 1, v)' <=> IsVersion(p, k, i - 1, v)
      BY <2>1, VersionStable
    <2>4. QED
      BY <2>2, <2>3 DEF ReadsCurrent
  <1>3. ASSUME NEW p \in Peer, NEW i \in 1..Height(p)
        PROVE  verdict'[p][i] <=> ReadsCurrent(p, i)'
    BY <1>1, <1>2, <1>3, Growth DEF VerdictInv
  <1>4. CASE UNCHANGED verdict
    BY <1>3, <1>4 DEF VerdictInv, Height
  <1>5. ASSUME NEW p \in Peer, CommitBlock(p) PROVE VerdictInv'
    <2>1. PICK h \in Nat : h = Height(p)
      BY <1>1
    <2>2. /\ h + 1 \in 1..Len(ledger)
          /\ CommitAt(p, h + 1, Unchanged(db[p], ledger[h + 1].sim))
          /\ Unchanged(db[p], ledger[h + 1].sim) \in BOOLEAN
      BY <1>5, <2>1, CommitFacts
    <2>3. /\ Height(p)' = h + 1
          /\ verdict'[p][h + 1] = Unchanged(db[p], ledger[h + 1].sim)
          /\ \A j \in 1..h : verdict'[p][j] = verdict[p][j]
          /\ \A q \in Peer \ {p} : verdict'[q] = verdict[q]
      BY <2>1, <2>2, CommitVerdicts
    <2>4. verdict'[p][h + 1] <=> ReadsCurrent(p, h + 1)
      BY <2>1, <2>2, <2>3, CheckIsCurrent
    <2>5. \A i \in 1..h + 1 : verdict'[p][i] <=> ReadsCurrent(p, i)'
      BY <1>2, <1>3, <2>1, <2>2, <2>4
    <2>6. ASSUME NEW q \in Peer, h + 1 <= Height(q), q # p
          PROVE  verdict[q][h + 1] = verdict'[p][h + 1]
      <3>1. \A j \in 1..h : verdict[p][j] = verdict[q][j]
        BY <1>1, <2>1, <2>6 DEF VerdictInv
      <3>2. ReadsCurrent(p, h + 1) <=> ReadsCurrent(q, h + 1)
        BY <3>1, AgreeOnCurrent
      <3>3. verdict[q][h + 1] <=> ReadsCurrent(q, h + 1)
        BY <1>1, <2>1, <2>6 DEF VerdictInv
      <3>4. verdict[q][h + 1] \in BOOLEAN /\ verdict'[p][h + 1] \in BOOLEAN
        BY <1>1, <2>1, <2>2, <2>3, <2>6 DEF TypeOK, Shapes, Height
      <3>5. QED
        BY <2>4, <3>2, <3>3, <3>4
    <2>7. ASSUME NEW q \in Peer, NEW i \in 1..Height(q)', NEW r \in Peer, i <= Height(r)'
          PROVE  verdict'[r][i] = verdict'[q][i]
      <3>1. /\ q # p => Height(q)' = Height(q) /\ verdict'[q][i] = verdict[q][i]
            /\ r # p => Height(r)' = Height(r) /\ verdict'[r][i] = verdict[r][i]
        BY <2>3 DEF Height
      <3>2. CASE i \in 1..h \/ (q # p /\ r # p)
        BY <1>1, <2>1, <2>3, <2>7, <3>1, <3>2 DEF VerdictInv
      <3>3. CASE i = h + 1
        BY <1>1, <2>1, <2>3, <2>6, <2>7, <3>1, <3>2, <3>3 
      <3>4. QED
        BY <1>1, <2>1, <2>3, <2>7, <3>1, <3>2, <3>3
    <2>8. ASSUME NEW q \in Peer, NEW i \in 1..Height(q)'
          PROVE  verdict'[q][i] <=> ReadsCurrent(q, i)'
      BY <1>3, <2>3, <2>5, <2>8 DEF Height
    <2>9. QED
      BY <2>7, <2>8 DEF VerdictInv
  <1>6. QED
    BY <1>4, <1>5, WorldSteps

-----------------------------------------------------------------------------
(* References resolve as long as no process loses its prefix.              *)

\* No process is restarted from outside, and clients ask only for what they
\* were given: then nothing panics either.
Undisturbed == RefsOnly /\ MaxRestarts = 0

\* A put of the client's request leaves its value under Init's prefix.
Stores(sim, c) == sim.writes[EntryKey(InitPrefix, req[c].name)] = req[c].val

RefInv ==
    /\ \A p \in Peer : prefix[p] = InitPrefix
    /\ \A c \in Client :
          /\ pc[c] = "get" => req[c].name \in refs[c]
          /\ pc[c] = "ordered" => Stores(ledger[at[c]].sim, c)
          /\ \A p \in Peer : pc[c] = "put" /\ resp[c][p].status = "ok"
                            => Stores(resp[c][p].sim, c)
    /\ \A c \in Client : \A n \in refs[c] : \A p \in Peer :
          db[p][EntryKey(InitPrefix, n)].val # NIL

LEMMA InitRef == Init => RefInv
  BY DEF Init, RefInv

LEMMA PutStores ==
    ASSUME TypeOK, NEW p \in Peer, NEW n \in Name, NEW v \in Value,
           prefix[p] = InitPrefix, PutEntity(p, n, v).status = "ok"
    PROVE  PutEntity(p, n, v).sim.writes[EntryKey(InitPrefix, n)] = v
  <1>1. InitPrefix \in Prefix
    BY ChaincodeAssumption DEF InitPrefix
  <1>2. /\ EntryKey(InitPrefix, n) \in Key /\ SizeKey(InitPrefix) \in Key
        /\ EntryKey(InitPrefix, n) # SizeKey(InitPrefix)
    BY <1>1, KeysAreKeys
  <1>3. n \notin BadName
    BY DEF PutEntity, Failure
  <1> DEFINE put == WriteState(NewSim, EntryKey(InitPrefix, n), v)
  <1>4. put.writes[EntryKey(InitPrefix, n)] = v /\ put \in Sim
    BY <1>2, NewSimType, WriteType DEF WriteState, NewSim
  <1> HIDE DEF put
  <1>5. IncrementSize(db[p], put, InitPrefix).writes[EntryKey(InitPrefix, n)] = v
    BY <1>2, <1>4
    DEF IncrementSize, modifySize, PutSize, WriteState, ReadState, Sim
  <1>6. PutEntity(p, n, v).sim = PutProtoState(db[p], NewSim, InitPrefix, CalculateSize, n, v)
    BY <1>3 DEF PutEntity, Success
  <1>7. QED
    BY <1>4, <1>5, <1>6 DEF PutProtoState, put

\* What a valid transaction stored is there as soon as it is committed: a later
\* write may replace the value, and no transaction removes one.
LEMMA StoredIsThere ==
    ASSUME TypeOK, StateIsLedger, NEW p \in Peer, NEW k \in Key,
           NEW i \in 1..Height(p), Sets(p, i, k)
    PROVE  db[p][k].val # NIL
  <1>1. /\ Height(p) \in Nat /\ Height(p) <= Len(ledger)
        /\ ledger \in Seq(Transaction)
    BY DEF TypeOK, Shapes, Height
  <1>2. PICK e : e = db[p][k]
    OBVIOUS
  <1>3. /\ IsVersion(p, k, Height(p), e.ver)
        /\ e.ver # 0 => ledger[e.ver].sim.writes[k] = e.val
    BY <1>2 DEF StateIsLedger
  <1>4. e.ver >= i /\ e.ver \in 1..Height(p)
    BY <1>1, <1>3 DEF IsVersion
  <1>5. ledger[e.ver] \in Transaction
    BY <1>1, <1>4
  <1>6. ledger[e.ver].sim.writes[k] # NIL
    BY <1>5, MapAssumption DEF Transaction, Sim
  <1>7. QED
    BY <1>2, <1>3, <1>4, <1>6

\* Only an acknowledged put hands out a reference.
LEMMA RefSteps ==
    ASSUME TypeOK, [Next]_vars, NEW c \in Client
    PROVE  \/ refs'[c] = refs[c]
           \/ AckPut(c) /\ refs'[c] = refs[c] \union {req[c].name}
  <1>1. UNCHANGED refs \/ \E d \in Client : AckPut(d)
    BY DEF Next, ClientStep, vars, StartPut, StartGet, SubmitPut, RejectPut, RetryPut,
       FailPut, CompleteGet, FailGet, EndorsePut, QueryPeer, LoseAnswer, CommitBlock,
       RestartChaincode
  <1>2. refs \in [Client -> SUBSET Name]
    BY DEF TypeOK, Shapes
  <1>3. ASSUME NEW d \in Client, AckPut(d)
        PROVE  refs' = [refs EXCEPT ![d] = @ \union {req[d].name}]
    BY <1>3 DEF AckPut
  <1>4. QED
    BY <1>1, <1>2, <1>3

LEMMA NextRef ==
    ASSUME Undisturbed
    PROVE  TypeOK /\ StateIsLedger /\ BlindInv /\ RefInv /\ [Next]_vars => RefInv'
  <1> SUFFICES ASSUME TypeOK, StateIsLedger, BlindInv, RefInv, [Next]_vars PROVE RefInv'
    OBVIOUS
  <1>1. Shapes /\ StateIsLedger' /\ TypeOK' /\ Shapes'
    BY NextTypeOK, NextState DEF TypeOK
  <1>2. InitPrefix \in Prefix
    BY ChaincodeAssumption DEF InitPrefix
  \* No name a client gets was never stored, so no query panics.
  <1>3. ASSUME NEW c \in Client, NEW p \in Peer, QueryPeer(c, p)
        PROVE  UNCHANGED prefix
    <2>1. req[c].name \in refs[c] /\ prefix[p] = InitPrefix
      BY <1>3 DEF QueryPeer, RefInv
    <2>2. ~Panics(p, req[c].name)
      BY <2>1 DEF Panics, GetProtoState, RefInv
    <2>3. QED
      BY <1>1, <1>3, <2>2 DEF QueryPeer, Shapes
  <1>4. ASSUME NEW p \in Peer, RestartChaincode(p) PROVE FALSE
    BY <1>1, <1>4 DEF RestartChaincode, Undisturbed, Shapes
  <1>5. UNCHANGED prefix
    BY <1>3, <1>4 DEF Next, ClientStep, vars, callVars, StartPut, StartGet, SubmitPut,
       RejectPut, AckPut, RetryPut, FailPut, CompleteGet, FailGet, EndorsePut,
       LoseAnswer, CommitBlock
  <1>6. \A p \in Peer : prefix'[p] = InitPrefix
    BY <1>5 DEF RefInv
  <1> DEFINE Call(c) ==
        /\ pc'[c] = "get" => req'[c].name \in refs'[c]
        /\ pc'[c] = "ordered" => Stores(ledger[at[c]].sim, c)'
        /\ \A p \in Peer : pc'[c] = "put" /\ resp'[c][p].status = "ok"
                          => Stores(resp[c][p].sim, c)'
  <1>7. ASSUME NEW c \in Client PROVE Call(c)
    <2>1. /\ pc[c] = "get" => req[c].name \in refs[c]
          /\ pc[c] = "ordered" => Stores(ledger[at[c]].sim, c)
          /\ \A p \in Peer : pc[c] = "put" /\ resp[c][p].status = "ok"
                            => Stores(resp[c][p].sim, c)
          /\ pc[c] = "idle" => \A p \in Peer : resp[c][p].status = "none"
      BY DEF RefInv, BlindInv
    <2>2. pc[c] = "ordered" => ledger'[at[c]] = ledger[at[c]]
      <3>1. pc[c] = "ordered" => at[c] \in 1..Len(ledger)
        BY <1>1 DEF TypeOK, CallOK, Shapes
      <3>2. QED
        BY <3>1, Growth
    \* Another client's step, or one that is not a client's.
    <2>3. CASE /\ pc'[c] = pc[c] /\ req'[c] = req[c] /\ at'[c] = at[c]
               /\ resp'[c] = resp[c] /\ refs[c] \subseteq refs'[c]
      BY <2>1, <2>2, <2>3 DEF Stores
    <2>4. CASE pc'[c] = "idle"
      BY <2>4
    <2>5. ASSUME NEW n \in Name, NEW v \in Value, StartPut(c, n, v) PROVE Call(c)
      BY <1>1, <2>1, <2>5 DEF StartPut, Shapes
    <2>6. ASSUME NEW n \in Name, StartGet(c, n) PROVE Call(c)
      BY <1>1, <2>6 DEF StartGet, Shapes, Undisturbed
    <2>7. CASE SubmitPut(c)
      <3>1. PICK p \in Peer, t \in Transaction :
               /\ resp[c][p].status = "ok" /\ t.sim = resp[c][p].sim
               /\ ledger'[Len(ledger) + 1] = t
        BY <2>7, SubmitFacts
      <3>2. /\ pc'[c] = "ordered" /\ at'[c] = Len(ledger) + 1 /\ UNCHANGED req
            /\ pc[c] = "put"
        BY <1>1, <2>7 DEF SubmitPut, Shapes
      <3>3. Stores(t.sim, c)
        BY <2>1, <3>1, <3>2
      <3>4. QED
        BY <3>1, <3>2, <3>3 DEF Stores
    <2>8. CASE RetryPut(c)
      BY <1>1, <2>8 DEF RetryPut, Shapes, NoAnswer
    <2>9. ASSUME NEW p \in Peer, EndorsePut(c, p) PROVE Call(c)
      <3>1. /\ req[c].name \in Name /\ req[c].val \in Value /\ prefix[p] = InitPrefix
            /\ pc[c] = "put"
        BY <2>9 DEF EndorsePut, TypeOK, CallOK, RefInv
      <3>2. /\ resp' = [resp EXCEPT ![c][p] = PutEntity(p, req[c].name, req[c].val)]
            /\ UNCHANGED <<pc, req>>
        BY <2>9 DEF EndorsePut, Answer
      <3>3. PutEntity(p, req[c].name, req[c].val).status = "ok"
            => Stores(PutEntity(p, req[c].name, req[c].val).sim, c)
        BY <3>1, PutStores DEF Stores
      <3> HIDE DEF Stores
      <3>4. ASSUME NEW q \in Peer, resp'[c][q].status = "ok"
            PROVE  Stores(resp'[c][q].sim, c)
        BY <1>1, <2>1, <3>1, <3>2, <3>3, <3>4 DEF Shapes
      <3>5. QED
        BY <3>1, <3>2, <3>4 DEF Stores
    <2>10. ASSUME NEW p \in Peer, QueryPeer(c, p) PROVE Call(c)
      BY <2>1, <2>10 DEF QueryPeer
    <2>11. ASSUME NEW p \in Peer, LoseAnswer(c, p) PROVE Call(c)
      BY <1>1, <2>1, <2>11 DEF LoseAnswer, Answer, Failure, Shapes, Stores
    <2> HIDE DEF Call
    <2>12. ASSUME NEW d \in Client, Return(d) \/ RetryPut(d),
                  d # c, refs[c] \subseteq refs'[c]
           PROVE  Call(c)
      BY <1>1, <2>3, <2>12 DEF Return, RetryPut, Shapes
    <2>13. ASSUME NEW d \in Client, ClientStep(d) PROVE Call(c)
      <3>1. refs[c] \subseteq refs'[c]
        BY RefSteps
      <3>2. CASE SubmitPut(d)
        BY <1>1, <2>3, <2>7, <3>1, <3>2 DEF SubmitPut, Shapes
      <3>3. CASE ~SubmitPut(d)
        <4>1. Return(d) \/ RetryPut(d)
          BY <2>13, <3>3 DEF ClientStep, RejectPut, AckPut, FailPut, CompleteGet, FailGet
        <4>2. Return(c) => pc'[c] = "idle"
          BY <1>1 DEF Return, Shapes
        <4>3. QED
          BY <2>4, <2>8, <2>12, <3>1, <4>1, <4>2
      <3>4. QED
        BY <3>2, <3>3
    <2>14. ASSUME NEW d \in Client, NEW n \in Name,
                  StartGet(d, n) \/ \E v \in Value : StartPut(d, n, v)
           PROVE  Call(c)
      <3>1. CASE d = c
        BY <2>5, <2>6, <2>14, <3>1
      <3>2. CASE d # c
        BY <1>1, <2>3, <2>14, <3>2 DEF StartGet, StartPut, Shapes
      <3>3. QED
        BY <3>1, <3>2
    <2>15. ASSUME NEW d \in Client, NEW p \in Peer,
                  EndorsePut(d, p) \/ QueryPeer(d, p) \/ LoseAnswer(d, p)
           PROVE  Call(c)
      <3>1. CASE d = c
        BY <2>9, <2>10, <2>11, <2>15, <3>1
      <3>2. CASE d # c
        BY <1>1, <2>3, <2>15, <3>2 DEF EndorsePut, QueryPeer, LoseAnswer, Answer, Shapes
      <3>3. QED
        BY <3>1, <3>2
    <2>16. ASSUME UNCHANGED vars \/ \E p \in Peer : CommitBlock(p) \/ RestartChaincode(p)
           PROVE  Call(c)
      BY <2>3, <2>16 DEF vars, callVars, CommitBlock, RestartChaincode
    <2>17. QED
      BY <2>13, <2>14, <2>15, <2>16 DEF Next
  <1>8. ASSUME NEW c \in Client, NEW n \in refs'[c], NEW p \in Peer
        PROVE  db'[p][EntryKey(InitPrefix, n)].val # NIL
    <2> DEFINE k == EntryKey(InitPrefix, n)
    <2>1. n \in Name /\ k \in Key
      BY <1>1, <1>2, KeysAreKeys DEF Shapes
    <2>2. CASE n \in refs[c]
      <3>1. db[p][k].val # NIL
        BY <2>2 DEF RefInv
      <3>2. CASE UNCHANGED db
        BY <3>1, <3>2
      <3>3. ASSUME NEW q \in Peer, CommitBlock(q) PROVE db'[p][k].val # NIL
        <4>1. PICK i \in Nat, valid \in BOOLEAN :
                 i \in 1..Len(ledger) /\ CommitAt(q, i, valid)
          BY <3>3, CommitFacts
        <4>2. ledger[i].sim \in Sim /\ db[p] \in [Key -> Entry]
          <5>1. ledger[i] \in Transaction
            BY <1>1, <4>1 DEF Shapes
          <5>2. QED
            BY <1>1, <5>1 DEF Shapes, Transaction
        <4>3. ledger[i].sim.writes[k] # NIL
          BY <2>1, <4>2, MapAssumption DEF Sim
        <4>4. db'[p] = IF p = q /\ valid THEN Apply(db[p], ledger[i].sim, i) ELSE db[p]
          BY <1>1, <4>1 DEF CommitAt, Shapes
        <4> HIDE DEF k
        <4>5. QED
          <5>1. Apply(db[p], ledger[i].sim, i)[k].val # NIL
            <6>1. Apply(db[p], ledger[i].sim, i)[k]
                  = IF ledger[i].sim.writes[k] = NoWrite THEN db[p][k]
                    ELSE [val |-> ledger[i].sim.writes[k], ver |-> i]
              BY <2>1, <4>1, <4>2, AppliedEntry
            <6>2. QED
              BY <3>1, <4>3, <6>1
          <5>2. QED
            BY <3>1, <4>4, <5>1
      <3>4. QED
        BY <3>2, <3>3, WorldSteps
    <2>3. CASE n \notin refs[c]
      <3>1. AckPut(c) /\ n = req[c].name
        BY <2>3, RefSteps
      <3>2. PICK i : i = at[c]
        OBVIOUS
      <3>3. /\ i \in 1..Height(p) /\ verdict[p][i]
            /\ Stores(ledger[i].sim, c) /\ req[c].val \in Value
        BY <1>1, <3>1, <3>2
        DEF AckPut, Committed, TypeOK, CallOK, Shapes, Height, RefInv
      <3>4. Sets(p, i, k)
        BY <3>1, <3>3, MapAssumption DEF Sets, Stores
      <3>5. db[p][k].val # NIL
        BY <2>1, <3>3, <3>4, StoredIsThere
      <3>6. QED
        BY <3>1, <3>5 DEF AckPut
    <2>4. QED
      BY <2>2, <2>3
  <1>9. QED
    BY <1>6, <1>7, <1>8 DEF RefInv

LEMMA RefFollows == ASSUME RefInv PROVE RefsResolve
  BY DEF RefInv, RefsResolve, Panics, GetProtoState

\* A reference putEntity returned can be followed at every peer from then on, for
\* any number of peers and clients, as long as no process is restarted and no
\* unknown name is asked for (Undisturbed); AbstractBlockchainTest relies on it.
THEOREM RefsStay ==
    ASSUME Undisturbed
    PROVE  Spec => []RefsResolve
  <1>1. TypeOK /\ StateIsLedger /\ BlindInv /\ RefInv /\ [Next]_vars => RefInv'
    BY NextRef
  <1>2. RefInv => RefsResolve
    BY RefFollows
  <1>3. QED
    BY <1>1, <1>2, InitTypeOK, NextTypeOK, InitState, NextState, InitBlind, NextBlind,
       InitRef, PTL DEF Spec

-----------------------------------------------------------------------------
(* A step, from the point of view of one client                            *)

\* The call of client c is where it was.
SameCall(c) ==
    /\ pc'[c] = pc[c] /\ req'[c] = req[c] /\ at'[c] = at[c]
    /\ resp'[c] = resp[c] /\ calls'[c] = calls[c]

LEMMA ClientSteps ==
    ASSUME TypeOK, [Next]_vars, NEW c \in Client
    PROVE  \/ SameCall(c)
           \/ Return(c) /\ calls' = calls
           \/ \E n \in Name, v \in Value : StartPut(c, n, v)
           \/ \E n \in Name : StartGet(c, n)
           \/ SubmitPut(c) \/ RetryPut(c)
           \/ \E p \in Peer : EndorsePut(c, p) \/ QueryPeer(c, p) \/ LoseAnswer(c, p)
  <1>1. Shapes
    BY DEF TypeOK
  <1>2. ASSUME NEW d \in Client, ClientStep(d)
        PROVE  SameCall(c) \/ (Return(c) /\ calls' = calls) \/ SubmitPut(c) \/ RetryPut(c)
    <2>1. SubmitPut(d) \/ RetryPut(d) \/ (Return(d) /\ calls' = calls)
      BY <1>2 DEF ClientStep, RejectPut, AckPut, FailPut, CompleteGet, FailGet
    <2>2. CASE d # c
      <3>1. CASE SubmitPut(d)
        BY <1>1, <2>2, <3>1 DEF SubmitPut, SameCall, Shapes
      <3>2. CASE RetryPut(d)
        BY <1>1, <2>2, <3>2 DEF RetryPut, SameCall, Shapes
      <3>3. CASE Return(d) /\ calls' = calls
        BY <1>1, <2>2, <3>3 DEF Return, SameCall, Shapes
      <3>4. QED
        BY <2>1, <3>1, <3>2, <3>3
    <2>3. QED
      BY <2>1, <2>2
  <1>3. ASSUME NEW d \in Client, d # c, NEW n, NEW v, StartPut(d, n, v) \/ StartGet(d, n)
        PROVE  SameCall(c)
    BY <1>1, <1>3 DEF StartPut, StartGet, SameCall, Shapes
  <1>4. ASSUME NEW d \in Client, d # c, NEW p \in Peer,
               EndorsePut(d, p) \/ QueryPeer(d, p) \/ LoseAnswer(d, p)
        PROVE  SameCall(c)
    BY <1>1, <1>4 DEF EndorsePut, QueryPeer, LoseAnswer, Answer, SameCall, Shapes
  <1>5. ASSUME UNCHANGED vars \/ \E p \in Peer : CommitBlock(p) \/ RestartChaincode(p)
        PROVE  SameCall(c)
    BY <1>5 DEF vars, callVars, CommitBlock, RestartChaincode, SameCall
  <1>6. QED
    BY <1>2, <1>3, <1>4, <1>5 DEF Next

\* calls counts up when a call begins, and the ledger grows when one is ordered.
LEMMA OrderSteps ==
    ASSUME TypeOK, [Next]_vars
    PROVE  ledger' = ledger \/ \E c \in Client : SubmitPut(c)
  BY WorldSteps, CommitFacts DEF CommitAt

-----------------------------------------------------------------------------
(* The puts of one map are serialised by its counter.                      *)

\* A simulation that writes a counter has read it.
CountsFromRead(sim) ==
    \A m \in Prefix : sim.writes[SizeKey(m)] # NoWrite => sim.reads[SizeKey(m)] # Unread

CountInv ==
    /\ \A c \in Client, p \in Peer : CountsFromRead(resp[c][p].sim)
    /\ \A i \in 1..Len(ledger) : CountsFromRead(ledger[i].sim)

LEMMA CountsNothing == CountsFromRead(NewSim)
  BY KeysAreKeys, MapAssumption DEF CountsFromRead, NewSim, SizeKey, Key, PlainKey

\* Two counters are two keys, and neither is an entry's.
LEMMA SizeKeys ==
    ASSUME NEW m \in Prefix, NEW k \in Prefix, NEW n \in Name
    PROVE  /\ SizeKey(m) \in Key /\ EntryKey(m, n) \in Key
           /\ SizeKey(m) = SizeKey(k) => m = k
           /\ EntryKey(m, n) # SizeKey(k)
  BY MapAssumption DEF SizeKey, EntryKey, Key, PlainKey

LEMMA AnswersCount ==
    ASSUME TypeOK, NEW p \in Peer, NEW n \in Name
    PROVE  /\ \A v \in Value : CountsFromRead(PutEntity(p, n, v).sim)
           /\ CountsFromRead(GetEntity(p, n).sim)
           /\ CountsFromRead(NoAnswer.sim) /\ CountsFromRead(Failure.sim)
  <1>1. prefix[p] \in Prefix /\ db[p] \in [Key -> Entry] /\ NewSim \in Sim
    BY NewSimType DEF TypeOK, Shapes
  <1>2. CountsFromRead(NoAnswer.sim) /\ CountsFromRead(Failure.sim)
    BY CountsNothing DEF NoAnswer, Failure
  <1>3. CountsFromRead(GetProtoSim(db[p], NewSim, prefix[p], n))
    <2> DEFINE k == EntryKey(prefix[p], n)
    <2>1. /\ GetProtoSim(db[p], NewSim, prefix[p], n).writes = NewSim.writes
          /\ \A j \in Key : j # k =>
                GetProtoSim(db[p], NewSim, prefix[p], n).reads[j] = NewSim.reads[j]
      BY <1>1 DEF GetProtoSim, ReadState, Sim
    <2>2. \A m \in Prefix : SizeKey(m) \in Key /\ SizeKey(m) # k
      BY <1>1, SizeKeys
    <2>3. QED
      BY <2>1, <2>2, CountsNothing DEF CountsFromRead
  <1>4. ASSUME NEW v \in Value
        PROVE  CountsFromRead(PutProtoState(db[p], NewSim, prefix[p], CalculateSize, n, v))
    <2> DEFINE put == WriteState(NewSim, EntryKey(prefix[p], n), v)
               s == SizeKey(prefix[p])
               counted == WriteState(ReadState(db[p], put, s), s, 1)
    <2>1. \A m \in Prefix : /\ SizeKey(m) \in Key /\ SizeKey(m) # EntryKey(prefix[p], n)
                            /\ SizeKey(m) = s => m = prefix[p]
      BY <1>1, SizeKeys
    <2>2. s \in Key /\ EntryKey(prefix[p], n) \in Key
      BY <1>1, SizeKeys
    <2>3. put \in Sim /\ \A m \in Prefix : put.writes[SizeKey(m)] = NoWrite
      BY <1>1, <2>1, <2>2, WriteType DEF WriteState, NewSim
    <2>4. CountsFromRead(put)
      BY <2>3 DEF CountsFromRead
    <2> HIDE DEF put
    <2>5. /\ \A m \in Prefix : SizeKey(m) # s => counted.writes[SizeKey(m)] = NoWrite
          /\ counted.reads[s] = db[p][s].ver
      BY <2>2, <2>3 DEF WriteState, ReadState, Sim
    <2>6. db[p][s].ver # Unread
      BY <1>1, <2>2 DEF Entry, Unread
    <2> HIDE DEF s
    <2>7. CountsFromRead(counted)
      BY <2>5, <2>6 DEF CountsFromRead
    <2>8. IncrementSize(db[p], put, prefix[p]) = counted
      BY DEF IncrementSize, modifySize, PutSize, GetSize, s
    <2>9. QED
      BY <2>4, <2>7, <2>8 DEF PutProtoState, put
  <1>5. QED
    BY <1>2, <1>3, <1>4 DEF PutEntity, GetEntity, Success

LEMMA InitCount == Init => CountInv
  <1>1. Init => Len(ledger) = 0 /\ \A c \in Client, p \in Peer : resp[c][p] = NoAnswer
    BY DEF Init
  <1>2. QED
    BY <1>1, CountsNothing DEF CountInv, NoAnswer

LEMMA NextCount == TypeOK /\ CountInv /\ [Next]_vars => CountInv'
  <1> SUFFICES ASSUME TypeOK, CountInv, [Next]_vars PROVE CountInv'
    OBVIOUS
  <1>1. Shapes
    BY DEF TypeOK
  <1>2. ASSUME NEW c \in Client, NEW p \in Peer
        PROVE  CountsFromRead(resp'[c][p].sim)
    <2>0. CountsFromRead(resp[c][p].sim) /\ CountsFromRead(NoAnswer.sim)
      BY CountsNothing DEF CountInv, NoAnswer
    <2>1. CASE resp'[c] = resp[c]
      BY <2>0, <2>1
    <2>2. CASE resp'[c] = [q \in Peer |-> NoAnswer]
      BY <2>0, <2>2
    <2>3. ASSUME NEW q \in Peer, EndorsePut(c, q) \/ QueryPeer(c, q) \/ LoseAnswer(c, q)
          PROVE  CountsFromRead(resp'[c][p].sim)
      <3>1. req[c].name \in Name /\ (pc[c] = "put" => req[c].val \in Value)
        BY <2>3 DEF EndorsePut, QueryPeer, LoseAnswer, TypeOK, CallOK
      <3>2. PICK r : Answer(c, q, r) /\ CountsFromRead(r.sim)
        BY <2>3, <3>1, AnswersCount DEF EndorsePut, QueryPeer, LoseAnswer
      <3>3. QED
        BY <1>1, <2>0, <3>2 DEF Answer, Shapes
    <2>4. CASE Return(c) \/ RetryPut(c)
      BY <1>1, <2>2, <2>4 DEF Return, RetryPut, Shapes
    <2>5. CASE \/ SameCall(c) \/ SubmitPut(c) \/ \E n \in Name : StartGet(c, n)
               \/ \E n \in Name, v \in Value : StartPut(c, n, v)
      BY <2>1, <2>5 DEF SameCall, SubmitPut, StartGet, StartPut
    <2>6. QED
      BY <2>3, <2>4, <2>5, ClientSteps
  <1>3. ASSUME NEW i \in 1..Len(ledger')
        PROVE  CountsFromRead(ledger'[i].sim)
    <2>1. CASE ledger' = ledger
      BY <2>1 DEF CountInv
    <2>2. ASSUME NEW c \in Client, SubmitPut(c)
          PROVE  CountsFromRead(ledger'[i].sim)
      <3>1. PICK p \in Peer, t \in Transaction :
               /\ t.sim = resp[c][p].sim
               /\ Len(ledger') = Len(ledger) + 1
               /\ ledger'[Len(ledger) + 1] = t
               /\ \A j \in 1..Len(ledger) : ledger'[j] = ledger[j]
        BY <2>2, SubmitFacts
      <3>2. Len(ledger) \in Nat
        BY <1>1 DEF Shapes
      <3>3. QED
        BY <3>1, <3>2 DEF CountInv
    <2>3. QED
      BY <2>1, <2>2, OrderSteps
  <1>4. QED
    BY <1>2, <1>3 DEF CountInv

LEMMA CountFollows == TypeOK /\ VerdictInv /\ CountInv => SizeReadsChain
  <1> SUFFICES ASSUME TypeOK, VerdictInv, CountInv, NEW p \in Peer, NEW m \in Prefix,
                      NEW i \in 1..Height(p), NEW j \in 1..Height(p), i < j,
                      Sets(p, i, SizeKey(m)), Sets(p, j, SizeKey(m))
               PROVE  ledger[j].sim.reads[SizeKey(m)] >= i
    BY DEF SizeReadsChain
  <1> DEFINE k == SizeKey(m)
             r == ledger[j].sim.reads[k]
  <1>1. Height(p) \in Nat /\ Height(p) <= Len(ledger) /\ Len(ledger) \in Nat
    BY DEF TypeOK, Shapes, Height
  <1>2. k \in Key /\ r # Unread
    BY <1>1, SizeKeys DEF CountInv, CountsFromRead, Sets, Key, SizeKey, PlainKey
  <1>3. ReadsCurrent(p, j)
    BY DEF VerdictInv, Sets
  <1>4. IsVersion(p, k, j - 1, r)
    BY <1>2, <1>3 DEF ReadsCurrent
  <1> HIDE DEF r, k
  <1>5. r \in 0..j - 1 /\ ~(i \in r + 1..j - 1)
    BY <1>4 DEF IsVersion, k
  <1>6. QED
    BY <1>1, <1>5 DEF r, k

\* With calculateSize a put that is applied was simulated on a state in which the
\* counter was as the put before it in the same map left it, for every number of
\* peers: the puts of a map are serialised by its counter, whose value is 1.
THEOREM SizeReadsChainHolds == Spec => []SizeReadsChain
  BY InitTypeOK, NextTypeOK, InitState, NextState, InitVerdict, NextVerdict,
     InitCount, NextCount, CountFollows, PTL DEF Spec

-----------------------------------------------------------------------------
(* What a put writes is fixed by its name and value alone.                 *)

Effect(n, v) == WriteState(NewSim, EntryKey(InitPrefix, n), v)

DirectInv ==
    /\ \A c \in Client, p \in Peer : pc[c] = "put" /\ resp[c][p].status = "ok" =>
          resp[c][p] = Success(Effect(req[c].name, req[c].val), req[c].name)
    /\ \A i \in 1..Len(ledger) : ledger[i].sim = Effect(ledger[i].name, ledger[i].val)

LEMMA InitDirect == Init => DirectInv
  <1>1. Init => Len(ledger) = 0 /\ \A c \in Client : pc[c] = "idle"
    BY DEF Init
  <1>2. QED
    BY <1>1 DEF DirectInv

LEMMA NextDirect ==
    ASSUME ~CalculateSize
    PROVE  TypeOK /\ BlindInv /\ RefInv /\ DirectInv /\ [Next]_vars => DirectInv'
  <1> SUFFICES ASSUME TypeOK, BlindInv, RefInv, DirectInv, [Next]_vars PROVE DirectInv'
    OBVIOUS
  <1>1. Shapes /\ Len(ledger) \in Nat
    BY DEF TypeOK, Shapes
  <1>2. ASSUME NEW c \in Client, NEW p \in Peer, pc'[c] = "put", resp'[c][p].status = "ok"
        PROVE  resp'[c][p] = Success(Effect(req'[c].name, req'[c].val), req'[c].name)
    <2>0. pc[c] = "put" /\ resp[c][p].status = "ok" =>
             resp[c][p] = Success(Effect(req[c].name, req[c].val), req[c].name)
      BY DEF DirectInv
    <2>1. CASE SameCall(c)
      BY <1>2, <2>0, <2>1 DEF SameCall
    <2>2. CASE Return(c) \/ SubmitPut(c) \/ RetryPut(c) \/ \E n \in Name : StartGet(c, n)
      BY <1>1, <1>2, <2>2 DEF Return, SubmitPut, RetryPut, StartGet, Shapes, NoAnswer
    <2>3. ASSUME NEW n \in Name, NEW v \in Value, StartPut(c, n, v) PROVE FALSE
      <3>1. resp[c][p].status = "none" /\ resp' = resp
        BY <2>3 DEF StartPut, BlindInv
      <3>2. QED
        BY <1>2, <3>1
    <2>4. ASSUME NEW q \in Peer, EndorsePut(c, q) \/ QueryPeer(c, q) \/ LoseAnswer(c, q)
          PROVE  resp'[c][p] = Success(Effect(req'[c].name, req'[c].val), req'[c].name)
      <3>1. pc' = pc /\ req' = req /\ pc[c] = "put"
        BY <1>2, <2>4 DEF EndorsePut, QueryPeer, LoseAnswer
      <3>2. PICK r : /\ Answer(c, q, r)
                     /\ r.status = "ok" => r = PutEntity(q, req[c].name, req[c].val)
        BY <2>4, <3>1 DEF EndorsePut, QueryPeer, LoseAnswer, Failure
      <3>3. resp'[c][p] = IF p = q THEN r ELSE resp[c][p]
        BY <1>1, <3>2 DEF Answer, Shapes
      <3>4. CASE p # q
        BY <1>2, <2>0, <3>1, <3>3, <3>4
      <3>5. CASE p = q
        <4>1. resp'[c][p] = PutEntity(p, req[c].name, req[c].val) /\ prefix[p] = InitPrefix
          BY <1>2, <3>2, <3>3, <3>5 DEF RefInv
        <4>2. req[c].name \notin BadName
          BY <1>2, <4>1 DEF PutEntity, Failure
        <4>3. QED
          BY <3>1, <4>1, <4>2 DEF PutEntity, PutProtoState, Effect
      <3>6. QED
        BY <3>4, <3>5
    <2>5. QED
      BY <2>1, <2>2, <2>3, <2>4, ClientSteps
  <1>3. ASSUME NEW i \in 1..Len(ledger')
        PROVE  ledger'[i].sim = Effect(ledger'[i].name, ledger'[i].val)
    <2>1. CASE ledger' = ledger
      BY <2>1 DEF DirectInv
    <2>2. ASSUME NEW c \in Client, SubmitPut(c)
          PROVE  ledger'[i].sim = Effect(ledger'[i].name, ledger'[i].val)
      <3>1. PICK p \in Peer, t \in Transaction :
               /\ resp[c][p].status = "ok" /\ t.sim = resp[c][p].sim
               /\ t.name = req[c].name /\ t.val = req[c].val
               /\ Len(ledger') = Len(ledger) + 1
               /\ ledger'[Len(ledger) + 1] = t
               /\ \A j \in 1..Len(ledger) : ledger'[j] = ledger[j]
        BY <2>2, SubmitFacts
      <3>2. resp[c][p] = Success(Effect(req[c].name, req[c].val), req[c].name)
        BY <2>2, <3>1 DEF SubmitPut, DirectInv
      <3>3. t.sim = Effect(t.name, t.val)
        BY <3>1, <3>2 DEF Success
      <3>4. QED
        BY <1>1, <3>1, <3>3 DEF DirectInv
    <2>3. QED
      BY <2>1, <2>2, OrderSteps
  <1>4. QED
    BY <1>2, <1>3 DEF DirectInv

\* As long as no process loses its prefix, any two peers that endorse a put do
\* it with one answer, however far apart their world states are.
THEOREM EndorsementsAgreeHolds ==
    ASSUME Undisturbed
    PROVE  Spec => []EndorsementsAgree
  <1>1. CASE CalculateSize
    <2>1. EndorsementsAgree
      BY <1>1 DEF EndorsementsAgree
    <2>2. QED
      BY <2>1, PTL
  <1>2. CASE ~CalculateSize
    <2>1. TypeOK /\ StateIsLedger /\ BlindInv /\ RefInv /\ [Next]_vars => RefInv'
      BY NextRef
    <2>2. TypeOK /\ BlindInv /\ RefInv /\ DirectInv /\ [Next]_vars => DirectInv'
      BY <1>2, NextDirect
    <2>3. DirectInv => EndorsementsAgree
      BY DEF DirectInv, EndorsementsAgree, Consistent, Endorsers
    <2>4. QED
      BY <2>1, <2>2, <2>3, InitTypeOK, NextTypeOK, InitState, NextState, InitBlind,
         NextBlind, InitRef, InitDirect, PTL DEF Spec
  <1>3. QED
    BY <1>1, <1>2

-----------------------------------------------------------------------------
(* What was acknowledged is at every peer.                                 *)

PlaceInv ==
    /\ \A c \in Client : pc[c] \in {"idle", "put"} => at[c] = 0
    /\ \A c \in Client : pc[c] = "get" => at[c] <= acked
    /\ \A p \in Peer : acked <= Height(p)

LEMMA InitPlace == Init => PlaceInv
  BY DEF Init, PlaceInv, Height

LEMMA NextPlace == TypeOK /\ PlaceInv /\ [Next]_vars => PlaceInv'
  <1> SUFFICES ASSUME TypeOK, PlaceInv, [Next]_vars PROVE PlaceInv'
    OBVIOUS
  <1>1. /\ Shapes /\ acked \in Nat
        /\ \A p \in Peer : Height(p) \in Nat /\ Height(p)' \in Nat
    BY NextTypeOK DEF TypeOK, Shapes, Height
  <1>2. \A p \in Peer : Height(p)' >= Height(p)
    BY Growth
  <1>3. acked' = acked \/ \E c \in Client : AckPut(c)
    BY DEF Next, ClientStep, vars, StartPut, StartGet, SubmitPut, RejectPut, RetryPut,
       FailPut, CompleteGet, FailGet, EndorsePut, QueryPeer, LoseAnswer, CommitBlock,
       RestartChaincode
  <1>4. ASSUME NEW c \in Client, AckPut(c)
        PROVE  /\ acked' \in Nat /\ acked' >= acked
               /\ \A p \in Peer : acked' <= Height(p)
    <2>1. at[c] \in Nat /\ acked' = (IF at[c] > acked THEN at[c] ELSE acked)
      BY <1>1, <1>4 DEF AckPut, Shapes
    <2>2. \A p \in Peer : at[c] <= Height(p) /\ acked <= Height(p)
      BY <1>4 DEF AckPut, Committed, PlaceInv
    <2>3. QED
      BY <1>1, <2>1, <2>2
  <1>5. /\ acked' \in Nat /\ acked' >= acked
        /\ \A p \in Peer : acked' <= Height(p)'
    BY <1>1, <1>2, <1>3, <1>4 DEF PlaceInv
  <1>6. ASSUME NEW c \in Client
        PROVE  /\ pc'[c] \in {"idle", "put"} => at'[c] = 0
               /\ pc'[c] = "get" => at'[c] <= acked'
    <2>1. /\ at[c] \in Nat
          /\ pc[c] \in {"idle", "put"} => at[c] = 0
          /\ pc[c] = "get" => at[c] <= acked
      BY <1>1 DEF PlaceInv, Shapes
    <2>2. CASE SameCall(c)
      BY <1>1, <1>5, <2>1, <2>2 DEF SameCall
    <2>3. CASE Return(c) \/ RetryPut(c) \/ SubmitPut(c)
      BY <1>1, <2>3 DEF Return, RetryPut, SubmitPut, Shapes
    <2>4. CASE \E n \in Name : StartGet(c, n) \/ \E v \in Value : StartPut(c, n, v)
      BY <1>1, <1>5, <2>1, <2>4 DEF StartGet, StartPut, Shapes
    <2>5. ASSUME NEW p \in Peer, EndorsePut(c, p) \/ QueryPeer(c, p) \/ LoseAnswer(c, p)
          PROVE  UNCHANGED <<pc, at, acked>>
      BY <2>5 DEF EndorsePut, QueryPeer, LoseAnswer
    <2>6. QED
      BY <2>1, <2>2, <2>3, <2>4, <2>5, ClientSteps
  <1>7. QED
    BY <1>5, <1>6 DEF PlaceInv

-----------------------------------------------------------------------------
(* What a peer answers to a get is the latest value somewhere past what was *)
(* acknowledged when the get began.                                         *)

\* Store!Latest, on the ledger itself.
LatestAt(i, n, v) ==
    \E j \in 1..i : /\ ledger[j].name = n /\ ledger[j].val = v
                    /\ \A k \in j + 1..i : ledger[k].name # n

GetInv ==
    \A c \in Client, p \in Peer : pc[c] = "get" /\ resp[c][p].status = "ok" =>
       \E i \in at[c]..Len(ledger) : LatestAt(i, req[c].name, resp[c][p].val)

LEMMA InitGet == Init => GetInv
  BY DEF Init, GetInv

\* The state of a peer holds the latest value of every name put so far.
LEMMA StateIsLatest ==
    ASSUME ~CalculateSize, TypeOK, StateIsLedger, BlindInv, DirectInv,
           NEW p \in Peer, NEW n \in Name, db[p][EntryKey(InitPrefix, n)].val # NIL
    PROVE  LatestAt(Height(p), n, db[p][EntryKey(InitPrefix, n)].val)
  <1> DEFINE k == EntryKey(InitPrefix, n)
  <1>1. PICK h : h = Height(p)
    OBVIOUS
  <1>2. PICK e : e = db[p][k]
    OBVIOUS
  <1>3. /\ h \in Nat /\ h <= Len(ledger) /\ Len(ledger) \in Nat
        /\ \A i \in 1..Len(ledger) : ledger[i] \in Transaction
    BY <1>1 DEF TypeOK, Shapes, Height
  <1>4. InitPrefix \in Prefix /\ k \in Key
    BY ChaincodeAssumption, KeysAreKeys DEF InitPrefix
  <1>5. /\ IsVersion(p, k, h, e.ver)
        /\ IF e.ver = 0 THEN e = Absent ELSE ledger[e.ver].sim.writes[k] = e.val
    BY <1>1, <1>2, <1>4 DEF StateIsLedger
  <1>6. e.ver \in 1..h
    BY <1>2, <1>3, <1>5 DEF IsVersion, Absent
  \* A transaction writes the key of its own name and no other.
  <1>7. ASSUME NEW i \in 1..h
        PROVE  /\ Sets(p, i, k) <=> ledger[i].name = n
               /\ ledger[i].name = n => ledger[i].sim.writes[k] = ledger[i].val
    <2>1. verdict[p][i]
      BY <1>1 DEF BlindInv, PutsNeverConflict
    <2>2. /\ ledger[i].name \in Name /\ ledger[i].val \in Value
          /\ ledger[i].sim = Effect(ledger[i].name, ledger[i].val)
      BY <1>3 DEF DirectInv, Transaction
    <2>3. ledger[i].sim.writes[k] = IF ledger[i].name = n THEN ledger[i].val ELSE NoWrite
      BY <1>4, <2>2 DEF Effect, WriteState, NewSim, EntryKey
    <2>4. ledger[i].val # NoWrite
      BY <2>2, MapAssumption
    <2>5. QED
      BY <2>1, <2>3, <2>4 DEF Sets
  <1> HIDE DEF k
  <1>8. /\ ledger[e.ver].name = n /\ ledger[e.ver].val = e.val
        /\ \A i \in e.ver + 1..h : ledger[i].name # n
    <2>1. Sets(p, e.ver, k) /\ \A i \in e.ver + 1..h : ~Sets(p, i, k)
      BY <1>5, <1>6 DEF IsVersion
    <2>2. ledger[e.ver].name = n /\ ledger[e.ver].val = e.val
      BY <1>5, <1>6, <1>7, <2>1
    <2>3. \A i \in e.ver + 1..h : i \in 1..h
      BY <1>3, <1>6
    <2>4. QED
      BY <1>7, <2>1, <2>2, <2>3
  <1>9. QED
    BY <1>1, <1>2, <1>6, <1>8 DEF LatestAt, k

LEMMA NextGet ==
    ASSUME ~CalculateSize
    PROVE  TypeOK /\ StateIsLedger /\ BlindInv /\ RefInv /\ DirectInv /\ PlaceInv
           /\ GetInv /\ [Next]_vars => GetInv'
  <1> SUFFICES ASSUME TypeOK, StateIsLedger, BlindInv, RefInv, DirectInv, PlaceInv,
                      GetInv, [Next]_vars, NEW c \in Client, NEW p \in Peer,
                      pc'[c] = "get", resp'[c][p].status = "ok"
               PROVE  \E i \in at'[c]..Len(ledger') :
                         LatestAt(i, req[c].name, resp[c][p].val)'
    BY DEF GetInv
  <1>1. /\ Shapes /\ Len(ledger) \in Nat /\ Len(ledger') \in Nat /\ at[c] \in Nat
        /\ \A q \in Peer : Height(q) \in Nat /\ Height(q) <= Len(ledger)
        /\ acked \in Nat
    <2>1. TypeOK'
      BY NextTypeOK
    <2>2. Len(ledger') \in Nat
      BY <2>1 DEF TypeOK, Shapes
    <2>3. QED
      BY <2>2 DEF TypeOK, Shapes, Height
  <1>2. /\ Len(ledger') >= Len(ledger)
        /\ \A i \in 1..Len(ledger) : ledger'[i] = ledger[i]
    BY Growth
  \* What was the latest at a place in the ledger stays the latest there.
  <1>3. ASSUME NEW i \in at[c]..Len(ledger), NEW n, NEW v, LatestAt(i, n, v),
               at'[c] = at[c], req'[c].name = n, resp'[c][p].val = v
        PROVE  \E j \in at'[c]..Len(ledger') : LatestAt(j, req[c].name, resp[c][p].val)'
    <2>1. PICK j \in 1..i : /\ ledger[j].name = n /\ ledger[j].val = v
                            /\ \A k \in j + 1..i : ledger[k].name # n
      BY <1>3 DEF LatestAt
    <2>2. i \in at'[c]..Len(ledger') /\ i \in Nat /\ i <= Len(ledger)
      BY <1>1, <1>2, <1>3
    <2>3. /\ ledger'[j] = ledger[j]
          /\ \A k \in j + 1..i : ledger'[k] = ledger[k]
      BY <1>1, <1>2, <2>1, <2>2
    <2>4. /\ ledger'[j].name = req'[c].name /\ ledger'[j].val = resp'[c][p].val
          /\ \A k \in j + 1..i : ledger'[k].name # req'[c].name
      BY <1>3, <2>1, <2>3
    <2>5. LatestAt(i, req[c].name, resp[c][p].val)'
      BY <2>1, <2>4 DEF LatestAt
    <2>6. QED
      BY <2>2, <2>5
  <1>4. pc[c] = "get" /\ resp[c][p].status = "ok" =>
           \E i \in at[c]..Len(ledger) : LatestAt(i, req[c].name, resp[c][p].val)
    BY DEF GetInv
  <1>5. CASE SameCall(c)
    BY <1>3, <1>4, <1>5 DEF SameCall
  <1>6. CASE \/ Return(c) \/ SubmitPut(c) \/ RetryPut(c)
             \/ \E n \in Name, v \in Value : StartPut(c, n, v)
    BY <1>1, <1>6 DEF Return, SubmitPut, RetryPut, StartPut, Shapes
  <1>7. ASSUME NEW n \in Name, StartGet(c, n) PROVE FALSE
    BY <1>7 DEF StartGet, BlindInv
  <1>8. ASSUME NEW q \in Peer, EndorsePut(c, q) \/ QueryPeer(c, q) \/ LoseAnswer(c, q)
        PROVE  \E i \in at'[c]..Len(ledger') : LatestAt(i, req[c].name, resp[c][p].val)'
    <2>1. pc' = pc /\ req' = req /\ at' = at /\ pc[c] = "get"
      BY <1>8 DEF EndorsePut, QueryPeer, LoseAnswer
    <2>2. PICK r : /\ Answer(c, q, r)
                   /\ r.status = "ok" => r = GetEntity(q, req[c].name)
      BY <1>8, <2>1 DEF EndorsePut, QueryPeer, LoseAnswer, Failure
    <2>3. resp'[c][p] = IF p = q THEN r ELSE resp[c][p]
      BY <1>1, <2>2 DEF Answer, Shapes
    <2>4. CASE p # q
      BY <1>3, <1>4, <2>1, <2>3, <2>4
    <2>5. CASE p = q
      <3>1. /\ resp'[c][p] = GetEntity(p, req[c].name) /\ prefix[p] = InitPrefix
            /\ req[c].name \in Name
        BY <2>1, <2>2, <2>3, <2>5 DEF RefInv, TypeOK, CallOK
      <3>2. /\ resp'[c][p].val = db[p][EntryKey(InitPrefix, req[c].name)].val
            /\ db[p][EntryKey(InitPrefix, req[c].name)].val # NIL
        BY <3>1 DEF GetEntity, Panics, GetProtoState, Failure, Success
      <3>3. LatestAt(Height(p), req[c].name, resp'[c][p].val)
        BY <3>1, <3>2, StateIsLatest
      <3>4. Height(p) \in at[c]..Len(ledger)
        BY <1>1, <2>1 DEF PlaceInv
      <3>5. PICK v : v = resp'[c][p].val
        OBVIOUS
      <3>6. QED
        BY <1>3, <2>1, <3>3, <3>4, <3>5
    <2>6. QED
      BY <2>4, <2>5
  <1>9. QED
    BY <1>5, <1>6, <1>7, <1>8, ClientSteps

-----------------------------------------------------------------------------
(* The refinement: what a call looks like to EntityStore, and its steps.    *)

\* The entry of StoreOp for a call that stands at s with request r and place a.
View(s, r, a) ==
    CASE s = "idle" -> [kind |-> "idle", at |-> 0]
      [] s = "get"  -> [kind |-> "get", name |-> r.name, at |-> a]
      [] OTHER -> [kind |-> "put", name |-> r.name, val |-> r.val, at |-> a]

LEMMA StoreOpViews ==
    /\ StoreOp = [c \in Client |-> View(pc[c], req[c], at[c])]
    /\ StoreOp' = [c \in Client |-> View(pc'[c], req'[c], at'[c])]
  BY DEF StoreOp, View

LEMMA Views ==
    ASSUME NEW r, NEW a
    PROVE  /\ View("idle", r, a) = [kind |-> "idle", at |-> 0]
           /\ View("get", r, a) = [kind |-> "get", name |-> r.name, at |-> a]
           /\ View("put", r, a) = [kind |-> "put", name |-> r.name, val |-> r.val, at |-> a]
           /\ View("ordered", r, a) = [kind |-> "put", name |-> r.name, val |-> r.val, at |-> a]
  BY DEF View

\* A step that leaves the other calls alone changes one entry of StoreOp.
LEMMA OneView ==
    ASSUME NEW c \in Client, NEW s, NEW r, NEW a,
           pc'[c] = s, req'[c] = r, at'[c] = a,
           \A d \in Client \ {c} : pc'[d] = pc[d] /\ req'[d] = req[d] /\ at'[d] = at[d]
    PROVE  StoreOp' = [StoreOp EXCEPT ![c] = View(s, r, a)]
  <1>1. \A d \in Client \ {c} :
           View(pc'[d], req'[d], at'[d]) = View(pc[d], req[d], at[d])
    OBVIOUS
  <1>2. QED
    BY <1>1, StoreOpViews

LEMMA ReturnView ==
    ASSUME TypeOK, NEW c \in Client, Return(c)
    PROVE  StoreOp' = [StoreOp EXCEPT ![c] = [kind |-> "idle", at |-> 0]]
  <1>1. /\ pc'[c] = "idle" /\ at'[c] = 0
        /\ \A d \in Client \ {c} : pc'[d] = pc[d] /\ req'[d] = req[d] /\ at'[d] = at[d]
    BY DEF TypeOK, Shapes, Return
  <1>2. StoreOp' = [StoreOp EXCEPT ![c] = View("idle", req'[c], 0)]
    BY <1>1, OneView
  <1>3. QED
    BY <1>2, Views

\* Store!Latest, in terms of the ledger.
LEMMA LatestIs ==
    ASSUME TypeOK, NEW i \in 0..Len(ledger), NEW n, NEW v, LatestAt(i, n, v)
    PROVE  v \in Store!Latest(i, n)
  <1>1. PICK j \in 1..i : /\ ledger[j].name = n /\ ledger[j].val = v
                          /\ \A k \in j + 1..i : ledger[k].name # n
    BY DEF LatestAt
  <1>2. Len(ledger) \in Nat
    BY DEF TypeOK, Shapes
  <1>3. \A k \in 1..i : StoreLog[k].name = ledger[k].name /\ StoreLog[k].val = ledger[k].val
    BY <1>2 DEF StoreLog
  <1>4. \A k \in j + 1..i : StoreLog[k].name # n
    BY <1>1, <1>2, <1>3
  <1>5. QED
    BY <1>1, <1>3, <1>4 DEF Store!Latest

LEMMA AsSequence ==
    ASSUME NEW S, NEW n \in Nat, NEW f \in [1..n -> S]
    PROVE  f \in Seq(S) /\ Len(f) = n
  <1>1. f \in Seq(S)
    BY SeqDef
  <1>2. DOMAIN f = 1..n /\ DOMAIN f = 1..Len(f) /\ Len(f) \in Nat
    BY <1>1, LenProperties
  <1>3. QED
    BY <1>2

LEMMA StoreLogGrows ==
    ASSUME TypeOK, NEW t \in Transaction, ledger' = Append(ledger, t)
    PROVE  /\ StoreLog' = Append(StoreLog, [name |-> t.name, val |-> t.val])
           /\ Len(StoreLog) = Len(ledger)
  <1>1. /\ ledger \in Seq(Transaction) /\ Len(ledger) \in Nat
        /\ Len(ledger') = Len(ledger) + 1
        /\ \A i \in 1..Len(ledger) : ledger'[i] = ledger[i]
        /\ ledger'[Len(ledger) + 1] = t
    BY DEF TypeOK, Shapes
  <1> DEFINE P == [name : Name, val : Value]
             n == Len(ledger)
             u == [name |-> t.name, val |-> t.val]
  <1>2. StoreLog \in Seq(P) /\ Len(StoreLog) = n
    <2>1. \A i \in 1..n : ledger[i] \in Transaction
      BY <1>1
    <2>2. \A i \in 1..n : [name |-> ledger[i].name, val |-> ledger[i].val] \in P
      BY <2>1 DEF Transaction
    <2>3. StoreLog \in [1..n -> P]
      BY <2>2 DEF StoreLog
    <2>4. n \in Nat
      BY <1>1
    <2> HIDE DEF P, n
    <2>5. QED
      BY <2>3, <2>4, AsSequence
  <1>3. /\ Len(Append(StoreLog, u)) = n + 1
        /\ Append(StoreLog, u) = [i \in 1..n + 1 |-> IF i = n + 1 THEN u ELSE StoreLog[i]]
    BY <1>1, <1>2
  <1>4. StoreLog' = [i \in 1..n + 1 |-> [name |-> ledger'[i].name, val |-> ledger'[i].val]]
    BY <1>1 DEF StoreLog
  <1>5. \A i \in 1..n + 1 : [name |-> ledger'[i].name, val |-> ledger'[i].val]
                            = IF i = n + 1 THEN u ELSE StoreLog[i]
    BY <1>1 DEF StoreLog
  <1>6. QED
    BY <1>2, <1>3, <1>4, <1>5

LEMMA InitStore == Init => Store!Init
  <1> SUFFICES ASSUME Init PROVE Store!Init
    OBVIOUS
  <1>1. StoreLog = <<>>
    BY DEF Init, StoreLog
  <1>2. StoreOp = [c \in Client |-> [kind |-> "idle", at |-> 0]]
    BY DEF Init, StoreOp
  <1>3. QED
    BY <1>1, <1>2 DEF Init, Store!Init, Store!NoAnswer

StoreInv == TypeOK /\ StateIsLedger /\ BlindInv /\ RefInv /\ DirectInv /\ PlaceInv /\ GetInv

\* What a step leaves alone of the store when it leaves the ledger alone.
LEMMA LogStays == UNCHANGED ledger => UNCHANGED StoreLog
  BY DEF StoreLog

\* The entry of client c, before a step.
LEMMA Entries ==
    ASSUME NEW c \in Client
    PROVE  StoreOp[c] = View(pc[c], req[c], at[c])
  BY StoreOpViews

\* A call begins.
LEMMA BeginSteps ==
    ASSUME TypeOK, PlaceInv, NEW c \in Client, NEW n \in Name
    PROVE  /\ \A v \in Value : StartPut(c, n, v) => Store!BeginPut(c, n, v)
           /\ StartGet(c, n) => Store!BeginGet(c, n)
  <1>1. Shapes
    BY DEF TypeOK
  <1>2. ASSUME pc[c] = "idle" PROVE StoreOp[c].kind = "idle"
    BY <1>2, Entries, Views
  <1>3. ASSUME NEW v \in Value, StartPut(c, n, v) PROVE Store!BeginPut(c, n, v)
    <2>1. /\ pc'[c] = "put" /\ req'[c] = [name |-> n, val |-> v] /\ at'[c] = 0
          /\ \A d \in Client \ {c} : pc'[d] = pc[d] /\ req'[d] = req[d] /\ at'[d] = at[d]
      BY <1>1, <1>3 DEF StartPut, Shapes, PlaceInv
    <2>2. StoreOp' = [StoreOp EXCEPT ![c] = View("put", [name |-> n, val |-> v], 0)]
      BY <2>1, OneView
    <2>3. View("put", [name |-> n, val |-> v], 0)
          = [kind |-> "put", name |-> n, val |-> v, at |-> 0]
      BY Views
    <2>4. pc[c] = "idle" /\ UNCHANGED <<ledger, acked, got>>
      BY <1>3 DEF StartPut
    <2>5. QED
      BY <1>2, <2>2, <2>3, <2>4, LogStays DEF Store!BeginPut
  <1>4. ASSUME StartGet(c, n) PROVE Store!BeginGet(c, n)
    <2>1. /\ pc'[c] = "get" /\ req'[c] = [name |-> n, val |-> NIL] /\ at'[c] = acked
          /\ \A d \in Client \ {c} : pc'[d] = pc[d] /\ req'[d] = req[d] /\ at'[d] = at[d]
      BY <1>1, <1>4 DEF StartGet, Shapes
    <2>2. StoreOp' = [StoreOp EXCEPT ![c] = View("get", [name |-> n, val |-> NIL], acked)]
      BY <2>1, OneView
    <2>3. View("get", [name |-> n, val |-> NIL], acked)
          = [kind |-> "get", name |-> n, at |-> acked]
      BY Views
    <2>4. pc[c] = "idle" /\ UNCHANGED <<ledger, acked, got>>
      BY <1>4 DEF StartGet
    <2>5. QED
      BY <1>2, <2>2, <2>3, <2>4, LogStays DEF Store!BeginGet
  <1>5. QED
    BY <1>3, <1>4

\* A put is ordered, and acknowledged.
LEMMA OrderStep ==
    ASSUME TypeOK, PlaceInv, NEW c \in Client, SubmitPut(c)
    PROVE  Store!OrderPut(c)
  <1>1. /\ Shapes /\ pc[c] = "put" /\ at[c] = 0 /\ UNCHANGED <<acked, got>>
        /\ StoreOp[c] = View(pc[c], req[c], at[c])
    BY Entries DEF TypeOK, SubmitPut, PlaceInv
  <1>2. PICK t \in Transaction :
           /\ t.name = req[c].name /\ t.val = req[c].val
           /\ ledger' = Append(ledger, t)
    BY SubmitFacts
  <1>3. /\ StoreLog' = Append(StoreLog, [name |-> req[c].name, val |-> req[c].val])
        /\ Len(StoreLog) = Len(ledger)
    BY <1>2, StoreLogGrows
  <1>4. StoreOp[c] = [kind |-> "put", name |-> req[c].name, val |-> req[c].val, at |-> 0]
    BY <1>1, Views
  <1>5. /\ pc'[c] = "ordered" /\ req'[c] = req[c] /\ at'[c] = Len(ledger) + 1
        /\ \A d \in Client \ {c} : pc'[d] = pc[d] /\ req'[d] = req[d] /\ at'[d] = at[d]
    BY <1>1 DEF SubmitPut, Shapes
  <1>6. StoreOp' = [StoreOp EXCEPT ![c] = View("ordered", req[c], Len(ledger) + 1)]
    BY <1>5, OneView
  <1>7. View("ordered", req[c], Len(ledger) + 1) = [StoreOp[c] EXCEPT !.at = Len(ledger) + 1]
    BY <1>4, Views
  <1>8. StoreOp' = [StoreOp EXCEPT ![c].at = Len(StoreLog) + 1]
    BY <1>3, <1>6, <1>7
  <1>9. /\ StoreOp[c].kind = "put" /\ StoreOp[c].at = 0
        /\ StoreOp[c].name = req[c].name /\ StoreOp[c].val = req[c].val
    BY <1>4
  <1>10. StoreLog' = Append(StoreLog, [name |-> StoreOp[c].name, val |-> StoreOp[c].val])
    BY <1>3, <1>9
  <1>11. UNCHANGED <<acked, got>>
    BY <1>1
  <1>12. QED
    BY <1>8, <1>9, <1>10, <1>11 DEF Store!OrderPut

LEMMA AckStep ==
    ASSUME TypeOK, NEW c \in Client, AckPut(c)
    PROVE  Store!AckPut(c)
  <1>1. /\ pc[c] = "ordered" /\ at[c] > 0 /\ UNCHANGED <<ledger, got>> /\ Return(c)
        /\ acked' = IF at[c] > acked THEN at[c] ELSE acked
        /\ StoreOp[c] = View(pc[c], req[c], at[c])
    BY Entries DEF TypeOK, CallOK, AckPut
  <1>2. StoreOp[c] = [kind |-> "put", name |-> req[c].name, val |-> req[c].val, at |-> at[c]]
    BY <1>1, Views
  <1>3. QED
    BY <1>1, <1>2, ReturnView, LogStays DEF Store!AckPut

\* A get is answered, or a call fails.
LEMMA EndGetStep ==
    ASSUME TypeOK, GetInv, NEW c \in Client, CompleteGet(c)
    PROVE  Store!EndGet(c)
  <1>1. /\ pc[c] = "get" /\ UNCHANGED <<ledger, acked>> /\ Return(c)
        /\ StoreOp[c] = View(pc[c], req[c], at[c])
        /\ Len(ledger) \in Nat /\ at[c] \in Nat
    BY Entries DEF TypeOK, Shapes, CompleteGet
  <1>2. PICK p \in Endorsers(c) : got' = [got EXCEPT ![c] = <<req[c].name, resp[c][p].val>>]
    BY DEF CompleteGet
  <1>3. PICK i \in at[c]..Len(ledger) : LatestAt(i, req[c].name, resp[c][p].val)
    BY <1>1 DEF GetInv, Endorsers
  <1>4. resp[c][p].val \in Store!Latest(i, req[c].name)
    BY <1>1, <1>3, LatestIs
  <1>5. StoreOp[c] = [kind |-> "get", name |-> req[c].name, at |-> at[c]]
    BY <1>1, Views
  <1>6. Len(StoreLog) = Len(ledger)
    <2>1. DOMAIN StoreLog = 1..Len(ledger)
      BY DEF StoreLog
    <2>2. QED
      BY <1>1, <2>1
  <1>7. StoreOp[c].kind = "get" /\ StoreOp[c].name = req[c].name /\ StoreOp[c].at = at[c]
    BY <1>5
  <1>8. i \in StoreOp[c].at..Len(StoreLog)
    BY <1>3, <1>6, <1>7
  <1>9. /\ resp[c][p].val \in Store!Latest(i, StoreOp[c].name)
        /\ got' = [got EXCEPT ![c] = <<StoreOp[c].name, resp[c][p].val>>]
    BY <1>2, <1>4, <1>7
  <1>10. \E j \in StoreOp[c].at..Len(StoreLog) : \E v \in Store!Latest(j, StoreOp[c].name) :
            got' = [got EXCEPT ![c] = <<StoreOp[c].name, v>>]
    BY <1>8, <1>9
  <1>11. /\ StoreOp' = [StoreOp EXCEPT ![c] = [kind |-> "idle", at |-> 0]]
         /\ UNCHANGED <<StoreLog, acked>>
    BY <1>1, ReturnView, LogStays
  <1>12. QED
    BY <1>7, <1>10, <1>11 DEF Store!EndGet

LEMMA FailStep ==
    ASSUME TypeOK, PlaceInv, NEW c \in Client, RejectPut(c) \/ FailGet(c)
    PROVE  Store!Fail(c)
  <1>1. /\ pc[c] = "get" \/ (pc[c] = "put" /\ at[c] = 0)
        /\ UNCHANGED <<ledger, acked, got>> /\ Return(c)
        /\ StoreOp[c] = View(pc[c], req[c], at[c])
    BY Entries DEF RejectPut, FailGet, PlaceInv
  <1>2. StoreOp[c].kind = "get" \/ (StoreOp[c].kind = "put" /\ StoreOp[c].at = 0)
    BY <1>1, Views
  <1>3. QED
    BY <1>1, <1>2, ReturnView, LogStays DEF Store!Fail

\* No put is refused at commit, so none is retried or given up.
LEMMA NoRefusal ==
    ASSUME ~CalculateSize, TypeOK, BlindInv, NEW c \in Client
    PROVE  ~RetryPut(c) /\ ~FailPut(c)
  <1>1. \A p \in Peer : \A i \in 1..Height(p) : verdict[p][i]
    BY DEF BlindInv, PutsNeverConflict
  <1>2. /\ at[c] \in Nat /\ \A p \in Peer : Height(p) \in Nat
        /\ pc[c] = "ordered" => at[c] > 0
    BY DEF TypeOK, CallOK, Shapes, Height
  <1>3. QED
    BY <1>1, <1>2 DEF RetryPut, FailPut, Invalidated, Committed

LEMMA NextStore ==
    ASSUME ~CalculateSize
    PROVE  StoreInv /\ [Next]_vars => [Store!Next]_(Store!vars)
  <1> SUFFICES ASSUME StoreInv, [Next]_vars PROVE [Store!Next]_(Store!vars)
    OBVIOUS
  <1>1. TypeOK /\ BlindInv /\ PlaceInv /\ GetInv
    BY DEF StoreInv
  <1>2. ASSUME NEW c \in Client, NEW n \in Name,
               StartGet(c, n) \/ \E v \in Value : StartPut(c, n, v)
        PROVE  Store!Next
    BY <1>1, <1>2, BeginSteps DEF Store!Next
  <1>3. ASSUME NEW c \in Client, ClientStep(c) PROVE Store!Next
    <2>1. Store!OrderPut(c) \/ Store!AckPut(c) \/ Store!EndGet(c) \/ Store!Fail(c)
      BY <1>1, <1>3, OrderStep, AckStep, EndGetStep, FailStep, NoRefusal DEF ClientStep
    <2>2. QED
      BY <2>1 DEF Store!Next
  \* What peers do on their own is not seen.
  <1>4. ASSUME UNCHANGED <<pc, req, at, ledger, acked, got>>
        PROVE  UNCHANGED Store!vars
    BY <1>4 DEF Store!vars, StoreLog, StoreOp
  <1>5. ASSUME NEW c \in Client, NEW p \in Peer,
               EndorsePut(c, p) \/ QueryPeer(c, p) \/ LoseAnswer(c, p)
        PROVE  UNCHANGED <<pc, req, at, ledger, acked, got>>
    BY <1>5 DEF EndorsePut, QueryPeer, LoseAnswer
  <1>6. ASSUME NEW p \in Peer, CommitBlock(p) \/ RestartChaincode(p)
        PROVE  UNCHANGED <<pc, req, at, ledger, acked, got>>
    BY <1>6 DEF CommitBlock, RestartChaincode, callVars
  <1>7. ASSUME UNCHANGED vars PROVE UNCHANGED <<pc, req, at, ledger, acked, got>>
    BY <1>7 DEF vars, callVars
  <1>8. QED
    BY <1>2, <1>3, <1>4, <1>5, <1>6, <1>7 DEF Next

\* The refinement.  With as many peers and clients as there may be, an undisturbed
\* system without calculateSize keeps the promise of EntityStore: puts take effect
\* in one order, and a get is never older than a put acknowledged before it began.
THEOREM ImplementsStore ==
    ASSUME Undisturbed, ~CalculateSize
    PROVE  Spec => StoreSpec
  <1>1. TypeOK /\ StateIsLedger /\ BlindInv /\ RefInv /\ [Next]_vars => RefInv'
    BY NextRef
  <1>2. TypeOK /\ BlindInv /\ RefInv /\ DirectInv /\ [Next]_vars => DirectInv'
    BY NextDirect
  <1>3. TypeOK /\ StateIsLedger /\ BlindInv /\ RefInv /\ DirectInv /\ PlaceInv
        /\ GetInv /\ [Next]_vars => GetInv'
    BY NextGet
  <1>4. Init => StoreInv
    BY InitTypeOK, InitState, InitBlind, InitRef, InitDirect, InitPlace, InitGet
    DEF StoreInv
  <1>5. StoreInv /\ [Next]_vars => StoreInv'
    BY <1>1, <1>2, <1>3, NextTypeOK, NextState, NextBlind, NextPlace DEF StoreInv
  <1>6. StoreInv /\ [Next]_vars => [Store!Next]_(Store!vars)
    BY NextStore
  <1>7. QED
    BY <1>4, <1>5, <1>6, InitStore, PTL DEF Spec, StoreSpec, Store!Spec
=============================================================================
