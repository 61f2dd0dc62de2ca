-------------------------------- MODULE Shim --------------------------------
(***************************************************************************)
(* External.  The part of Hyperledger Fabric that runs a chaincode         *)
(* function: the stub handed to the function reads the committed world     *)
(* state of one peer and records what was read and what is to be written;  *)
(* the peer later checks the recorded reads against its state at commit    *)
(* time (multi-version concurrency control) and only then applies the      *)
(* writes.  A function never sees its own writes: GetState answers from    *)
(* the committed state.                                                    *)
(***************************************************************************)
EXTENDS Integers

CONSTANTS Key,     \* the keys of the world state
          NIL,     \* no value: the key is absent
          NoWrite  \* the transaction leaves the key alone

Unread == -1

\* A world state maps a key to its value and to the position, in the ledger,
\* of the transaction that wrote it.  A deleted key is as if never written.
Absent == [val |-> NIL, ver |-> 0]
EmptyState == [k \in Key |-> Absent]

\* A simulation: the version each read saw, and the value each write leaves.
NewSim == [reads  |-> [k \in Key |-> Unread],
           writes |-> [k \in Key |-> NoWrite]]

ReadState(db, sim, k) == [sim EXCEPT !.reads[k] = db[k].ver]
WriteState(sim, k, v) == [sim EXCEPT !.writes[k] = v]

\* Validation at commit: every key read still has the version that was read.
Unchanged(db, sim) ==
    \A k \in Key : sim.reads[k] \in {Unread, db[k].ver}

Written(old, w, ver) ==
    IF w = NoWrite THEN old
    ELSE IF w = NIL THEN Absent
    ELSE [val |-> w, ver |-> ver]

Apply(db, sim, ver) == [k \in Key |-> Written(db[k], sim.writes[k], ver)]
=============================================================================
