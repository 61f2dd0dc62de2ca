------------------------- MODULE CouchChaincodeMap -------------------------
(***************************************************************************)
(* The map every chaincode of the skeleton keeps its entities in           *)
(* (CouchChaincodeMap.go, CouchDB.go): keys are the map's prefix and a     *)
(* name, and a map created with calculateSize keeps a counter beside its   *)
(* entries.  The methods are operators from the simulation of the running  *)
(* transaction to the simulation after the call.                           *)
(***************************************************************************)
EXTENDS Integers

CONSTANTS Prefix,   \* the values t.prefix takes; "" is the zero value
          Name,     \* the names entries are stored under
          BadName,  \* names no composite key can be built from
          Value,    \* what is stored under a name
          NIL, NoWrite

\* Entry keys are composite keys, which start with U+0000, so none of them is
\* one of the plain keys the map writes for itself.
PlainKey == {".size", ":size", "root"}

ASSUME MapAssumption ==
    /\ "" \in Prefix
    /\ BadName \subseteq Name
    /\ PlainKey \cap Name = {}
    /\ NIL # NoWrite
    /\ {NIL, NoWrite} \cap (Value \union {-1, 0, 1}) = {}

Key == Prefix \X (Name \union PlainKey)

INSTANCE Shim

EntryKey(prefix, name) == <<prefix, name>>
SizeKey(prefix) == <<prefix, ".size">>

-----------------------------------------------------------------------------
(* The size counter.                                                       *)

\* GetSize reads the counter but decodes an empty buffer: bytes.Buffer.Read
\* fills its argument, it does not take it in.  The answer is always 0.
GetSize(db, prefix) == 0

PutSize(sim, prefix, size) == WriteState(sim, SizeKey(prefix), size)

\* Mutant: the counter is kept in memory and written without being read.
modifySizeBlind(db, sim, prefix, valueToAdd) ==
    PutSize(sim, prefix, GetSize(db, prefix) + valueToAdd)

modifySize(db, sim, prefix, valueToAdd) ==
    PutSize(ReadState(db, sim, SizeKey(prefix)), prefix,
            GetSize(db, prefix) + valueToAdd)

IncrementSize(db, sim, prefix) == modifySize(db, sim, prefix, 1)
DecrementSize(db, sim, prefix) == modifySize(db, sim, prefix, -1)

-----------------------------------------------------------------------------
(* Init.  The map exists when its root key does; what Init writes as its   *)
(* size is another key than the counter's.                                 *)

\* Mutant: the root key is written whether it is there or not.
InitSimBlind(db, sim, prefix) ==
    WriteState(WriteState(sim, <<prefix, "root">>, "isMap"), <<prefix, ":size">>, 0)

InitSim(db, sim, prefix) ==
    LET looked == ReadState(db, sim, <<prefix, "root">>)
    IN  IF db[<<prefix, "root">>].val # NIL THEN looked
        ELSE WriteState(WriteState(looked, <<prefix, "root">>, "isMap"),
                        <<prefix, ":size">>, 0)

\* Mutant: what is stored under the root key is taken for the prefix.
InitKeepsRead(db, prefix, old) ==
    IF db[<<prefix, "root">>].val # NIL THEN db[<<prefix, "root">>].val ELSE prefix

\* t.prefix after Init: a map that exists already is not found again.
InitKeeps(db, prefix, old) == IF db[<<prefix, "root">>].val # NIL THEN old ELSE prefix

-----------------------------------------------------------------------------
(* Entries.  A put stores blindly: whether the name was there is not read. *)

\* Mutants: an entry that exists is kept; the put looks before it stores.
PutKeepsOld(db, sim, prefix, calculateSize, name, value) ==
    IF db[EntryKey(prefix, name)].val # NIL THEN sim
    ELSE WriteState(sim, EntryKey(prefix, name), value)
PutLooksFirst(db, sim, prefix, calculateSize, name, value) ==
    WriteState(ReadState(db, sim, EntryKey(prefix, name)),
               EntryKey(prefix, name), value)

PutProtoState(db, sim, prefix, calculateSize, name, value) ==
    LET put == WriteState(sim, EntryKey(prefix, name), value)
    IN  IF calculateSize THEN IncrementSize(db, put, prefix) ELSE put

\* What is deleted need not be there; the counter goes down all the same.
DeleteState(db, sim, prefix, calculateSize, name) ==
    LET deleted == WriteState(sim, EntryKey(prefix, name), NIL)
    IN  IF calculateSize THEN DecrementSize(db, deleted, prefix) ELSE deleted

\* GetProtoState: what the stub reads, and the value, NIL when there is none.
GetProtoSim(db, sim, prefix, name) == ReadState(db, sim, EntryKey(prefix, name))
GetProtoState(db, prefix, name) == db[EntryKey(prefix, name)].val
=============================================================================
