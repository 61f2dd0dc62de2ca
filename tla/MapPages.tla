------------------------------ MODULE MapPages ------------------------------
(***************************************************************************)
(* The rest of CouchChaincodeMap.go: a map that is set up, filled and      *)
(* emptied by concurrent transactions while somebody walks over its        *)
(* entries, a page at a time.  A page is a query against the world state   *)
(* of the moment; nothing ties one page to the next but the number of      *)
(* entries to skip.  One peer is enough for that.  No chaincode of the     *)
(* repository reads pages; the walk is what skip and limit are there for.  *)
(***************************************************************************)
EXTENDS CouchChaincodeMap, Lists

CONSTANTS Order,          \* the names, in the order of their keys
          Path,           \* Path[n]: the words a name is made of
          SEP,            \* U+0000
          Map,            \* the prefix of the map
          CalculateSize,  \* its calculateSize field
          Half,           \* 2^31, less in a run: an int32 is from -Half to Half - 1
          Words,          \* what callers want the keys to begin with
          Limit,          \* the page sizes callers ask for; 0 is all
          Slot,           \* transactions that may be under way at a time
          MaxTx,          \* bound: transactions that commit
          MaxStarts       \* bound: starts of the chaincode process

Int32 == -Half .. Half - 1
Wrap(n) == ((n + Half) % (2 * Half)) - Half

\* A map has fewer entries than an int32 can count.  No word of a key has the
\* separator in it, or else the key is refused.
ASSUME PagesAssumption ==
    /\ Map \in Prefix \ {""}
    /\ Order \in Seq(Name \ BadName)
    /\ Range(Order) = Name \ BadName /\ IsInjective(Order)
    /\ DOMAIN Path = Name \ BadName /\ SEP \notin Prefix /\ SEP # ""
    /\ \A n \in Name \ BadName : Path[n] \in Seq(Range(Path[n])) /\ SEP \notin Range(Path[n])
    /\ Half \in Nat \ {0}
    /\ Limit \subseteq Nat /\ \A l \in Limit : Len(Order) + l \in Int32
    /\ {MaxTx, MaxStarts} \subseteq Nat

VARIABLES
    prefix,   \* t.prefix of the chaincode process
    db,       \* the world state of the peer
    height,   \* transactions committed, valid or not
    tx,       \* the simulation of each transaction under way, or NIL
    walk,     \* how far the walk is, or NIL
    starts    \* what the bound has been spent on

vars == <<prefix, db, height, tx, walk, starts>>
-----------------------------------------------------------------------------
(* Keys *)

\* Every word of a composite key is followed by the separator; an empty word
\* leaves nothing between two of them.
CreateCompositeKey(p, words) ==
    FoldLeft(LAMBDA key, w : key \o (IF w = "" THEN <<>> ELSE <<w>>) \o <<SEP>>,
             <<SEP>>, <<p>> \o words)

Trim(key) ==
    LET words == {n \in DOMAIN key : key[n] # SEP}
    IN  IF words = {} THEN <<>>
        ELSE SubSeq(key, CHOOSE n \in words : \A m \in words : n <= m,
                         CHOOSE n \in words : \A m \in words : n >= m)

Split(key) ==
    FoldLeft(LAMBDA words, w : IF w = SEP THEN Append(words, "")
                               ELSE [words EXCEPT ![Len(words)] = w],
             <<"">>, key)

\* Mutant: the key is split as it is.
ProtoKeyUntrimmed(key) == Split(key)

\* The key of a MapEntry.
BytesKey(key) == Split(key)
ProtoKey(key) == Split(Trim(key))
-----------------------------------------------------------------------------
(* Pages *)

\* The names under a prefix that begin with these words, as the iterator has them.
GetStateByPartialCompositeKey(state, p, words) ==
    Only(Order, {n \in Name \ BadName :
                    state[EntryKey(p, n)].val # NIL /\ IsPrefix(words, Path[n])})

\* Mutants: the entry that is skipped to is skipped; a page is one too long.
PageAfter(entries, skip, limit) ==
    SubSeq(entries, skip + 2, IF limit > 0 /\ skip + limit < Len(entries) THEN skip + limit
                              ELSE Len(entries))
PageOneMore(entries, skip, limit) ==
    SubSeq(entries, skip + 1, IF limit > 0 /\ skip + limit < Len(entries) THEN skip + limit + 1
                              ELSE Len(entries))

\* The loop of both methods for pages: i counts what the iterator gave.
Page(entries, skip, limit) ==
    FoldLeft(LAMBDA loop, n :
                IF loop.break THEN loop
                ELSE [entries |-> IF loop.i >= skip THEN Append(loop.entries, n) ELSE loop.entries,
                      i |-> loop.i + 1,
                      break |-> limit > 0 /\ loop.i + 1 >= Wrap(skip + limit)],
             [entries |-> <<>>, i |-> 0, break |-> FALSE], entries).entries

\* The methods for all entries ask for a page without limit.
GetMapEntriesPage(state, p, words, skip, limit) ==
    Page(GetStateByPartialCompositeKey(state, p, words), skip, limit)
-----------------------------------------------------------------------------
Init ==
    /\ prefix = ""
    /\ db = EmptyState
    /\ height = 0
    /\ tx = [s \in Slot |-> NIL]
    /\ walk = NIL
    /\ starts = 0

Present(state, p) == {n \in Name : state[EntryKey(p, n)].val # NIL}

\* The chaincode is invoked once its instantiation is committed.
Instantiated == db[<<Map, "root">>].val # NIL

Simulated(s, sim) ==
    /\ tx[s] = NIL /\ height < MaxTx
    /\ tx' = [tx EXCEPT ![s] = sim]

\* The process that is started has the prefix p; a walk that is under way goes
\* on with it.
Started(p) ==
    /\ starts < MaxStarts
    /\ starts' = starts + 1
    /\ prefix' = p
    /\ walk' = IF walk = NIL THEN NIL ELSE [walk EXCEPT !.moved = @ \/ p # prefix]

\* Instantiation, and an upgrade, which also runs Init in a new process.
InitMap(s) ==
    /\ Simulated(s, InitSim(db, NewSim, Map))
    /\ Started(InitKeeps(db, Map, ""))
    /\ UNCHANGED <<db, height>>

Restart ==
    /\ Started("")
    /\ UNCHANGED <<db, height, tx>>

\* PutProtoState, PutStringState and PutBytesState differ in the value only.
Put(s, n, v) ==
    /\ Instantiated
    /\ Simulated(s, PutProtoState(db, NewSim, prefix, CalculateSize, n, v))
    /\ UNCHANGED <<prefix, db, height, walk, starts>>

Delete(s, n) ==
    /\ Instantiated
    /\ Simulated(s, DeleteState(db, NewSim, prefix, CalculateSize, n))
    /\ UNCHANGED <<prefix, db, height, walk, starts>>

Commit(s) ==
    /\ tx[s] # NIL /\ height < MaxTx
    /\ height' = height + 1
    /\ db' = IF Unchanged(db, tx[s]) THEN Apply(db, tx[s], height + 1) ELSE db
    /\ tx' = [tx EXCEPT ![s] = NIL]
    /\ walk' = IF walk = NIL THEN NIL
               ELSE [walk EXCEPT
                       !.deleted = @ \/ ~(Present(db, prefix) \subseteq Present(db', prefix)),
                       !.inserted = @ \/ ~(Present(db', prefix) \subseteq Present(db, prefix))]
    /\ UNCHANGED <<prefix, starts>>

\* A walk over the names that begin with some words.  What has been deleted and
\* inserted since it began, and whether the process has another prefix now, is
\* for the properties.
StartWalk(words, limit) ==
    /\ walk = NIL /\ Instantiated
    /\ walk' = [words |-> words, limit |-> limit, skip |-> 0, got |-> <<>>, end |-> FALSE,
                first |-> Range(GetStateByPartialCompositeKey(db, prefix, words)),
                deleted |-> FALSE, inserted |-> FALSE, moved |-> FALSE]
    /\ UNCHANGED <<prefix, db, height, tx, starts>>

ReadPage ==
    /\ walk # NIL /\ ~walk.end
    /\ LET page == GetMapEntriesPage(db, prefix, walk.words, walk.skip, walk.limit)
       IN  walk' = [walk EXCEPT !.got = @ \o page, !.skip = Wrap(@ + walk.limit),
                                !.end = walk.limit = 0 \/ Len(page) < walk.limit]
    /\ UNCHANGED <<prefix, db, height, tx, starts>>

Next ==
    \/ \E s \in Slot :
          \/ InitMap(s) \/ Commit(s)
          \/ \E n \in Name \ BadName : Delete(s, n) \/ \E v \in Value : Put(s, n, v)
    \/ Restart
    \/ \E words \in Words, limit \in Limit : StartWalk(words, limit)
    \/ ReadPage

Spec == Init /\ [][Next]_vars
-----------------------------------------------------------------------------
(* What a map promises *)

\* The state has its types.
TypeOK ==
    /\ prefix \in {"", Map}
    /\ height \in 0 .. MaxTx /\ starts \in 0 .. MaxStarts
    /\ \A k \in Key : db[k].ver \in 0 .. height
    /\ \A p \in Prefix : db[SizeKey(p)].val \in {NIL, -1, 1}
    /\ walk # NIL => walk.skip \in Int32 /\ Range(walk.got) \subseteq Name \ BadName

\* Inserts push entries to later pages, never to earlier ones: a walk that saw
\* no delete, and no other process, has every entry that was there when it
\* began (GetMapProtoEntriesPage, GetMapBytesEntriesPage).
WalkMissesNothing ==
    walk # NIL => (walk.end /\ ~walk.deleted /\ ~walk.moved => walk.first \subseteq Range(walk.got))

\* Deletes pull entries to earlier pages: a walk that saw no insert has no
\* entry twice.
WalkRepeatsNothing ==
    walk # NIL => (~walk.inserted /\ ~walk.moved => IsInjective(walk.got))

\* The loop gives the slice of the entries that skip and limit say, up to the
\* last pair whose sum an int32 can hold.
PageIsSlice ==
    LET all == GetStateByPartialCompositeKey(db, prefix, <<>>)
    IN  \A skip \in Int32 \intersect Nat : \A limit \in Int32 \intersect Nat :
           skip + limit \in Int32 =>
              \A n \in DOMAIN all :
                 all[n] \in Range(Page(all, skip, limit)) <=>
                    n > skip /\ (limit = 0 \/ n <= skip + limit)

\* The key that comes back with an entry begins with the map's prefix and is
\* followed by the words the entry was stored under, if the last is not empty;
\* the methods for bytes leave an empty word at both ends
\* (GetMapProtoEntriesPage and GetMapBytesEntriesPage, key of MapEntry).
KeysComeBack ==
    prefix # "" =>
       \A n \in Range(GetStateByPartialCompositeKey(db, prefix, <<>>)) :
          LET key == CreateCompositeKey(prefix, Path[n])
          IN  /\ Path[n] # <<>> /\ Last(Path[n]) # "" => ProtoKey(key) = <<prefix>> \o Path[n]
              /\ BytesKey(key) = <<"", prefix>> \o Path[n] \o <<"">>

\* However many Inits run at a time, and again after an upgrade, one takes
\* effect (CouchChaincodeMap.Init).
InitOnce == [][Instantiated => db'[<<Map, "root">>] = db[<<Map, "root">>]]_vars
-----------------------------------------------------------------------------
(* What a reader may expect and the code does not keep to *)

\* The process that has run Init finds the map: after an upgrade Init returns
\* before it has set the prefix.
MapIsFound == [][\A s \in Slot : InitMap(s) => prefix' = Map]_vars

\* A page is a slice whatever skip and limit are: the sum may wrap, and then the
\* page ends with the first entry.
AnyPageIsSlice ==
    LET all == GetStateByPartialCompositeKey(db, prefix, <<>>)
    IN  \A skip \in Int32 \intersect Nat : \A limit \in Int32 \intersect Nat :
           \A n \in DOMAIN all :
              n > skip /\ (limit = 0 \/ n <= skip + limit) => all[n] \in Range(Page(all, skip, limit))

\* Two entries have two keys: empty words at the end are trimmed.
KeysTellApart ==
    \A n, m \in Range(GetStateByPartialCompositeKey(db, prefix, <<>>)) :
       n # m => ProtoKey(CreateCompositeKey(prefix, Path[n])) # ProtoKey(CreateCompositeKey(prefix, Path[m]))
=============================================================================
