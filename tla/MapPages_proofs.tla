--------------------------- MODULE MapPages_proofs ---------------------------
(***************************************************************************)
(* Of a map of any size, for every number of transactions under way and of *)
(* restarts: it is set up once; a page is the slice that skip and limit    *)
(* say; a walk misses nothing while nothing is deleted and repeats nothing *)
(* while nothing is inserted; and the keys that come back are those that   *)
(* were stored.  The loops are folds: FoldLaws.tla has the induction.      *)
(***************************************************************************)
EXTENDS MapPages, SequenceTheorems, TLAPS

-----------------------------------------------------------------------------
(* The map is set up once *)

\* The key Init looks at to see whether the map exists.
Root == <<Map, "root">>

\* A simulation that sets the map up has found that it is not there.
LooksFirst(sim) == sim.writes[Root] # NoWrite => sim.reads[Root] = 0

\* The map is not there, or its root key has a version.
RootInv ==
    /\ height \in Nat
    /\ db[Root] = Absent \/ (db[Root].val # NIL /\ db[Root].ver \in Nat \ {0})
    /\ \A s \in Slot : tx[s] # NIL => LooksFirst(tx[s])

\* The root key is a key of the world state.
LEMMA RootIsKey == Root \in Key
  BY PagesAssumption DEF Root, Key, PlainKey

\* Init looks at the root key before it writes it.
LEMMA InitLooksFirst ==
    ASSUME RootInv
    PROVE  LooksFirst(InitSim(db, NewSim, Map))
  <1> DEFINE looked == ReadState(db, NewSim, Root)
             marked == WriteState(looked, Root, "isMap")
             size   == <<Map, ":size">>
  <1>1. looked.reads[Root] = db[Root].ver /\ looked.writes[Root] = NoWrite
    BY RootIsKey DEF ReadState, NewSim
  <1>2. CASE db[Root].val # NIL
    <2>1. InitSim(db, NewSim, Map) = looked
      BY <1>2 DEF InitSim, Root
    <2>2. QED
      BY <1>1, <2>1 DEF LooksFirst
  <1>3. CASE db[Root].val = NIL
    <2>1. InitSim(db, NewSim, Map) = WriteState(marked, size, 0)
      BY <1>3 DEF InitSim, Root
    <2>2. db[Root].ver = 0
      BY <1>3 DEF RootInv, Absent
    <2>3. WriteState(marked, size, 0).reads[Root] = looked.reads[Root]
      BY DEF WriteState, ReadState, NewSim
    <2>4. QED
      BY <1>1, <2>1, <2>2, <2>3 DEF LooksFirst
  <1>4. QED
    BY <1>2, <1>3

\* No other method writes the root key: entries and the counter have other keys.
LEMMA OthersLeaveRoot ==
    ASSUME NEW p, NEW n \in Name
    PROVE  /\ \A v : LooksFirst(PutProtoState(db, NewSim, p, CalculateSize, n, v))
           /\ LooksFirst(DeleteState(db, NewSim, p, CalculateSize, n))
  <1>1. EntryKey(p, n) # Root /\ SizeKey(p) # Root
    BY MapAssumption DEF EntryKey, SizeKey, Root, PlainKey
  <1>2. ASSUME NEW v
        PROVE  LET sim == WriteState(NewSim, EntryKey(p, n), v)
               IN  /\ LooksFirst(sim)
                   /\ \A w : LooksFirst(WriteState(ReadState(db, sim, SizeKey(p)), SizeKey(p), w))
    BY <1>1, RootIsKey DEF LooksFirst, WriteState, ReadState, NewSim
  <1>3. ASSUME NEW v
        PROVE  LooksFirst(PutProtoState(db, NewSim, p, CalculateSize, n, v))
    BY <1>2 DEF PutProtoState, IncrementSize, modifySize, PutSize
  <1>4. LooksFirst(DeleteState(db, NewSim, p, CalculateSize, n))
    BY <1>2 DEF DeleteState, DecrementSize, modifySize, PutSize
  <1>5. QED
    BY <1>3, <1>4

\* What a transaction that is committed leaves of the root key.
LEMMA CommittedRoot ==
    ASSUME RootInv, NEW s \in Slot, Commit(s)
    PROVE  \/ db'[Root] = db[Root]
           \/ /\ db[Root] = Absent
              /\ db'[Root] = Absent \/ (db'[Root].val # NIL /\ db'[Root].ver = height + 1)
  <1>1. PICK sim : sim = tx[s]
    OBVIOUS
  <1>2. /\ LooksFirst(sim)
        /\ db' = IF Unchanged(db, sim) THEN Apply(db, sim, height + 1) ELSE db
    BY <1>1 DEF Commit, RootInv
  <1>3. Apply(db, sim, height + 1)[Root] = Written(db[Root], sim.writes[Root], height + 1)
    BY RootIsKey DEF Apply
  <1>4. CASE Unchanged(db, sim) /\ sim.writes[Root] # NoWrite
    <2>1. sim.reads[Root] = 0 /\ sim.reads[Root] \in {Unread, db[Root].ver}
      BY <1>2, <1>4, RootIsKey DEF LooksFirst, Unchanged
    <2>2. db[Root] = Absent
      BY <2>1 DEF RootInv, Unread
    <2>3. db'[Root] = Written(db[Root], sim.writes[Root], height + 1)
      BY <1>2, <1>3, <1>4
    <2>4. QED
      BY <1>4, <2>2, <2>3 DEF Written
  <1>5. CASE ~Unchanged(db, sim) \/ sim.writes[Root] = NoWrite
    BY <1>2, <1>3, <1>5 DEF Written
  <1>6. QED
    BY <1>4, <1>5

-----------------------------------------------------------------------------
\* In the beginning there is no map.
LEMMA InitRoot == Init => RootInv
  <1> SUFFICES ASSUME Init PROVE RootInv
    OBVIOUS
  <1>1. db[Root] = Absent
    BY RootIsKey DEF Init, EmptyState
  <1>2. height \in Nat /\ \A s \in Slot : tx[s] = NIL
    BY DEF Init
  <1>3. QED
    BY <1>1, <1>2 DEF RootInv

\* Every step keeps that, and a root key that is there.
LEMMA NextRoot ==
    RootInv /\ [Next]_vars
    => RootInv' /\ (Instantiated => db'[Root] = db[Root])
  <1> SUFFICES ASSUME RootInv, [Next]_vars
               PROVE  RootInv' /\ (Instantiated => db'[Root] = db[Root])
    OBVIOUS
  <1> DEFINE Good == RootInv' /\ (Instantiated => db'[Root] = db[Root])
  \* A simulation begins.
  <1>1. ASSUME NEW s \in Slot, NEW sim, Simulated(s, sim), LooksFirst(sim),
               UNCHANGED <<db, height>>
        PROVE  Good
    BY <1>1 DEF Simulated, RootInv, LooksFirst, Root
  <1>2. ASSUME NEW s \in Slot, InitMap(s) PROVE Good
    BY <1>1, <1>2, InitLooksFirst DEF InitMap
  <1>3. ASSUME NEW s \in Slot, NEW n \in Name \ BadName, Delete(s, n) PROVE Good
    BY <1>1, <1>3, OthersLeaveRoot DEF Delete
  <1>4. ASSUME NEW s \in Slot, NEW n \in Name \ BadName, NEW v \in Value, Put(s, n, v)
        PROVE  Good
    BY <1>1, <1>4, OthersLeaveRoot DEF Put
  \* One is committed.
  <1>5. ASSUME NEW s \in Slot, Commit(s) PROVE Good
    <2>1. /\ height' = height + 1 /\ height \in Nat
          /\ tx' = [tx EXCEPT ![s] = NIL]
      BY <1>5 DEF Commit, RootInv
    <2>2. /\ db'[Root] = Absent \/ (db'[Root].val # NIL /\ db'[Root].ver \in Nat \ {0})
          /\ Instantiated => db'[Root] = db[Root]
      BY <1>5, <2>1, CommittedRoot DEF RootInv, Instantiated, Absent, Root
    <2>3. \A t \in Slot : tx'[t] # NIL => LooksFirst(tx[t])'
      BY <2>1 DEF RootInv, LooksFirst, Root
    <2>4. QED
      BY <2>1, <2>2, <2>3 DEF RootInv
  <1>6. ASSUME UNCHANGED <<db, height, tx>> PROVE Good
    BY <1>6 DEF RootInv, LooksFirst, Root
  <1>7. ASSUME Restart \/ ReadPage \/ UNCHANGED vars
               \/ \E words \in Words, limit \in Limit : StartWalk(words, limit)
        PROVE  UNCHANGED <<db, height, tx>>
    BY <1>7 DEF Restart, ReadPage, StartWalk, vars
  <1> HIDE DEF Good
  <1>8. Good
    BY <1>2, <1>3, <1>4, <1>5, <1>6, <1>7 DEF Next
  <1>9. QED
    BY <1>8 DEF Good

\* However many Inits are simulated before the first is committed, whatever a
\* restarted process does, and whatever is put and deleted meanwhile: once the
\* map exists its root key is never written again (CouchChaincodeMap.Init).
THEOREM InitOnceHolds == Spec => InitOnce
  <1>1. RootInv /\ [Next]_vars => [Instantiated => db'[Root] = db[Root]]_vars
    BY NextRoot
  <1>2. InitOnce <=> [][Instantiated => db'[Root] = db[Root]]_vars
    BY DEF InitOnce, Root
  <1>3. QED
    BY <1>1, <1>2, InitRoot, NextRoot, PTL DEF Spec

-----------------------------------------------------------------------------
(* Selections, pages and entries *)

\* What Only folds.
KeepStep(S, found, x) == IF x \in S THEN Append(found, x) ELSE found
Selecting == INSTANCE FoldLaws WITH op <- KeepStep

\* Only is a selection.
LEMMA OnlySelects ==
    ASSUME NEW S, NEW seq \in Seq(S), NEW keep
    PROVE  \E f : Selecting!Selects(f, keep, seq) /\ Only(seq, keep) = f[Len(seq)]
  <1>1. Only(seq, keep) = Selecting!Fold(keep, <<>>, seq)
    BY Zenon DEF Only, Selecting!Fold, KeepStep, FoldLeft, Selecting!FoldLeft, MapThenFoldSet,
                 Selecting!MapThenFoldSet, Max, Selecting!Max
  <1>2. PICK f : /\ f[0] = <<>>
                 /\ \A i \in 1 .. Len(seq) : f[i] = KeepStep(keep, f[i - 1], seq[i])
                 /\ f[Len(seq)] = Selecting!Fold(keep, <<>>, seq)
    BY Selecting!FoldUnrolled
  <1>3. Selecting!Selects(f, keep, seq)
    BY <1>2 DEF Selecting!Selects, KeepStep
  <1>4. QED
    BY <1>1, <1>2, <1>3

\* What is selected from a sequence that has nothing twice.
LEMMA OnlyProperties ==
    ASSUME NEW S, NEW seq \in Seq(S), IsInjective(seq), NEW keep
    PROVE  /\ Only(seq, keep) \in Seq(S) /\ Len(Only(seq, keep)) <= Len(seq)
           /\ Range(Only(seq, keep)) = Range(seq) \intersect keep
           /\ IsInjective(Only(seq, keep))
  <1> DEFINE n == Len(seq)
             only == Only(seq, keep)
  <1>1. PICK f : Selecting!Selects(f, keep, seq) /\ only = f[n]
    BY OnlySelects
  <1>2. /\ only \in Seq(S) /\ Len(only) <= n /\ Range(only) = Range(seq) \intersect keep
        /\ \A a, b \in DOMAIN only : a < b =>
              \E i, j \in 1 .. n : i < j /\ only[a] = seq[i] /\ only[b] = seq[j]
    <2> HIDE DEF only
    <2>1. QED
      BY <1>1, Selecting!SelectionRange DEF Selecting!Range, Range
  <1>3. n \in Nat /\ DOMAIN seq = 1 .. n /\ DOMAIN only = 1 .. Len(only) /\ Len(only) \in Nat
    BY <1>2
  <1> HIDE DEF n, only
  <1>4. ASSUME NEW a \in DOMAIN only, NEW b \in DOMAIN only, a < b
        PROVE  only[a] # only[b]
    <2>1. PICK i \in 1 .. n, j \in 1 .. n : i < j /\ only[a] = seq[i] /\ only[b] = seq[j]
      BY <1>2, <1>4
    <2>2. QED
      BY <1>3, <2>1 DEF IsInjective
  <1>5. IsInjective(only)
    BY <1>3, <1>4 DEF IsInjective
  <1>6. QED
    BY <1>2, <1>5 DEF n, only

\* With more elements selected, none is at an earlier place.
LEMMA OnlyShifts ==
    ASSUME NEW S, NEW seq \in Seq(S), NEW keep, NEW more, keep \subseteq more,
           NEW m \in DOMAIN Only(seq, keep)
    PROVE  \E l \in DOMAIN Only(seq, more) :
              m <= l /\ Only(seq, more)[l] = Only(seq, keep)[m]
  <1> DEFINE n == Len(seq)
  <1>1. PICK f : Selecting!Selects(f, keep, seq) /\ Only(seq, keep) = f[n]
    BY OnlySelects
  <1>2. PICK g : Selecting!Selects(g, more, seq) /\ Only(seq, more) = g[n]
    BY OnlySelects
  <1>3. n \in Nat
    OBVIOUS
  <1>4. /\ f[n] \in Seq(S)
        /\ \A l \in 1 .. Len(f[n]) : \E j \in 1 .. n :
              seq[j] \in keep /\ Len(f[j]) = l /\ f[n][l] = seq[j]
    BY <1>1, <1>3, Selecting!SelectionPlaces
  <1>5. /\ g[n] \in Seq(S)
        /\ \A j \in 1 .. n : seq[j] \in more =>
              Len(g[j]) \in 1 .. Len(g[n]) /\ g[n][Len(g[j])] = seq[j]
    BY <1>2, <1>3, Selecting!SelectionPlaces
  <1>6. \A j \in 0 .. n : Len(f[j]) <= Len(g[j])
    BY <1>1, <1>2, Selecting!SelectionGrows
  <1> HIDE DEF n
  <1>7. PICK j \in 1 .. n : seq[j] \in keep /\ Len(f[j]) = m /\ f[n][m] = seq[j]
    <2>1. m \in 1 .. Len(f[n])
      BY <1>1, <1>4
    <2>2. QED
      BY <1>4, <2>1
  <1>8. QED
    BY <1>1, <1>2, <1>5, <1>6, <1>7

\* What the loop over a page folds, for skip and limit.
LoopStep(k, loop, n) ==
    IF loop.break THEN loop
    ELSE [entries |-> IF loop.i >= k[1] THEN Append(loop.entries, n) ELSE loop.entries,
          i |-> loop.i + 1,
          break |-> k[2] > 0 /\ loop.i + 1 >= Wrap(k[1] + k[2])]
Looping == INSTANCE FoldLaws WITH op <- LoopStep

\* An int32 that is one does not wrap.
LEMMA NothingToWrap ==
    ASSUME NEW n \in Int32
    PROVE  Wrap(n) = n
  <1>1. Half \in Nat \ {0}
    BY PagesAssumption
  <1>2. QED
    BY <1>1 DEF Wrap, Int32

\* The slice that ends one element later.
LEMMA SubSeqGrows ==
    ASSUME NEW S, NEW seq \in Seq(S), NEW a \in Nat, NEW i \in 1 .. Len(seq)
    PROVE  SubSeq(seq, a + 1, i) = IF i - 1 >= a THEN Append(SubSeq(seq, a + 1, i - 1), seq[i])
                                   ELSE SubSeq(seq, a + 1, i - 1)
  <1>1. CASE i - 1 >= a
    <2>1. /\ a + 1 \in 1 .. Len(seq) /\ i \in a + 1 .. Len(seq)
          /\ SubSeq(seq, a + 1, i - 1) \in Seq(S) /\ seq[i] \in S
      BY <1>1
    <2>2. SubSeq(seq, a + 1, i) = SubSeq(seq, a + 1, i - 1) \o <<seq[i]>>
      BY <2>1, SubSeqRecursiveSecond
    <2>3. QED
      BY <1>1, <2>1, <2>2, AppendIsConcat
  <1>2. CASE i - 1 < a
    <2>1. SubSeq(seq, a + 1, i) = <<>> /\ SubSeq(seq, a + 1, i - 1) = <<>>
      BY <1>2
    <2>2. QED
      BY <1>2, <2>1
  <1>3. QED
    BY <1>1, <1>2

\* A page is the slice that skip and limit say, if their sum is an int32.
LEMMA PageIsSubSeq ==
    ASSUME NEW S, NEW seq \in Seq(S), NEW skip \in Nat, NEW limit \in Nat, skip + limit \in Int32
    PROVE  Page(seq, skip, limit) =
              SubSeq(seq, skip + 1, IF limit > 0 /\ skip + limit < Len(seq) THEN skip + limit
                                    ELSE Len(seq))
  <1> DEFINE n == Len(seq)
             start == [entries |-> <<>>, i |-> 0, break |-> FALSE]
             k == <<skip, limit>>
             Upto(i) == IF limit > 0 /\ skip + limit < i THEN skip + limit ELSE i
             Loops(loop, i) == /\ loop.entries = SubSeq(seq, skip + 1, Upto(i))
                               /\ loop.i = Upto(i)
                               /\ loop.break <=> limit > 0 /\ i >= skip + limit
  <1>1. Page(seq, skip, limit) = Looping!Fold(k, start, seq).entries
    BY SMT DEF Page, Looping!Fold, LoopStep, FoldLeft, Looping!FoldLeft, MapThenFoldSet,
               Looping!MapThenFoldSet, Max, Looping!Max
  <1>2. k[1] = skip /\ k[2] = limit /\ Wrap(skip + limit) = skip + limit
    BY NothingToWrap
  <1>3. n \in Nat
    OBVIOUS
  <1> HIDE DEF k, start
  <1>4. PICK f : /\ f[0] = start
                 /\ \A i \in 1 .. n : f[i] = LoopStep(k, f[i - 1], seq[i])
                 /\ f[n] = Looping!Fold(k, start, seq)
    BY Looping!FoldUnrolled
  <1> DEFINE T == {i \in 0 .. n : Loops(f[i], i)}
  <1>5. 0 \in T
    <2>1. SubSeq(seq, skip + 1, 0) = <<>>
      OBVIOUS
    <2>2. Upto(0) = 0 /\ ~(limit > 0 /\ 0 >= skip + limit)
      OBVIOUS
    <2>3. f[0].entries = <<>> /\ f[0].i = 0 /\ ~f[0].break
      BY <1>4 DEF start
    <2>4. Loops(f[0], 0)
      <3> HIDE DEF Upto
      <3>1. QED
        BY <2>1, <2>2, <2>3
    <2>5. 0 \in 0 .. n
      BY <1>3
    <2> HIDE DEF n, Loops
    <2>6. QED
      BY <2>4, <2>5
  <1>6. ASSUME NEW i \in 1 .. n, i - 1 \in T PROVE i \in T
    <2>1. Loops(f[i - 1], i - 1)
      BY <1>6
    <2> DEFINE loop == f[i - 1]
               next == f[i]
    <2>2. next = LoopStep(k, loop, seq[i])
      BY <1>4
    <2> HIDE DEF loop, next
    <2>3. CASE limit > 0 /\ i - 1 >= skip + limit
      <3>1. Upto(i - 1) = skip + limit /\ Upto(i) = skip + limit
        BY <2>3
      <3>2. loop.break
        BY <2>1, <2>3 DEF loop
      <3>3. next = loop
        BY <2>2, <3>2 DEF LoopStep
      <3>4. Loops(next, i)
        BY <2>1, <2>3, <3>1, <3>3 DEF loop
      <3>5. QED
        BY <3>4 DEF next
    <2>4. CASE ~(limit > 0 /\ i - 1 >= skip + limit)
      <3>1. Upto(i - 1) = i - 1 /\ Upto(i) = i
        BY <2>4
      <3>2. ~loop.break /\ loop.i = i - 1 /\ loop.entries = SubSeq(seq, skip + 1, i - 1)
        BY <2>1, <2>4, <3>1 DEF loop
      <3>3. next = [entries |-> IF i - 1 >= skip THEN Append(loop.entries, seq[i]) ELSE loop.entries,
                    i |-> i - 1 + 1, break |-> limit > 0 /\ i - 1 + 1 >= skip + limit]
        BY <1>2, <2>2, <3>2 DEF LoopStep
      <3>4. next.entries = SubSeq(seq, skip + 1, i)
        BY <3>2, <3>3, SubSeqGrows
      <3>5. next.i = i /\ (next.break <=> limit > 0 /\ i >= skip + limit)
        <4>1. i - 1 + 1 = i
          BY <1>3
        <4>2. next.i = i - 1 + 1 /\ next.break = (limit > 0 /\ i - 1 + 1 >= skip + limit)
          BY <3>3, Zenon
        <4>3. QED
          BY <4>1, <4>2, Zenon
      <3>6. Loops(next, i)
        BY <3>1, <3>4, <3>5
      <3>7. QED
        BY <3>6 DEF next
    <2>5. QED
      BY <2>3, <2>4
  <1> HIDE DEF T
  <1>7. n \in T
    <2>1. n \in 0 .. n
      BY <1>3
    <2> HIDE DEF n
    <2>2. QED
      BY <1>3, <1>5, <1>6, <2>1, Looping!InductionUpTo
  <1>8. Loops(f[n], n)
    BY <1>7 DEF T
  <1>9. QED
    BY <1>1, <1>4, <1>8

-----------------------------------------------------------------------------
(* Entries and pages of them *)

GoodName == Name \ BadName

\* The entries the iterator gives have an order that does not depend on the
\* state, and none comes twice.
LEMMA EntriesProperties ==
    ASSUME NEW state, NEW p, NEW words
    PROVE  LET all == GetStateByPartialCompositeKey(state, p, words)
           IN  /\ all \in Seq(GoodName) /\ Len(all) <= Len(Order) /\ DOMAIN all = 1 .. Len(all)
               /\ Range(all) = {n \in GoodName : state[EntryKey(p, n)].val # NIL
                                                   /\ IsPrefix(words, Path[n])}
               /\ IsInjective(all)
  <1> DEFINE keep == {n \in GoodName : state[EntryKey(p, n)].val # NIL /\ IsPrefix(words, Path[n])}
             all == Only(Order, keep)
  <1>1. Order \in Seq(GoodName) /\ Range(Order) = GoodName /\ IsInjective(Order)
    BY PagesAssumption DEF GoodName
  <1>2. keep \subseteq GoodName
    OBVIOUS
  <1>3. GetStateByPartialCompositeKey(state, p, words) = all
    BY DEF GetStateByPartialCompositeKey, GoodName
  <1> HIDE DEF keep
  <1>4. /\ all \in Seq(GoodName) /\ Len(all) <= Len(Order)
        /\ Range(all) = GoodName \intersect keep /\ IsInjective(all)
    BY <1>1, OnlyProperties
  <1>5. DOMAIN all = 1 .. Len(all) /\ Range(all) = keep
    BY <1>2, <1>4
  <1>6. QED
    BY <1>3, <1>4, <1>5 DEF keep

\* What is inserted moves no entry to an earlier place.
LEMMA EntriesShift ==
    ASSUME NEW old, NEW new, NEW p, NEW words, Present(old, p) \subseteq Present(new, p),
           NEW m \in DOMAIN GetStateByPartialCompositeKey(old, p, words)
    PROVE  \E l \in DOMAIN GetStateByPartialCompositeKey(new, p, words) :
              /\ m <= l
              /\ GetStateByPartialCompositeKey(new, p, words)[l]
                    = GetStateByPartialCompositeKey(old, p, words)[m]
  <1> DEFINE keep(s) == {n \in GoodName : s[EntryKey(p, n)].val # NIL /\ IsPrefix(words, Path[n])}
  <1>1. Order \in Seq(GoodName)
    BY PagesAssumption DEF GoodName
  <1>2. keep(old) \subseteq keep(new)
    BY DEF Present, GoodName
  <1>3. /\ GetStateByPartialCompositeKey(old, p, words) = Only(Order, keep(old))
        /\ GetStateByPartialCompositeKey(new, p, words) = Only(Order, keep(new))
    BY DEF GetStateByPartialCompositeKey, GoodName
  <1> HIDE DEF keep
  <1>4. QED
    BY <1>1, <1>2, <1>3, OnlyShifts

\* What a page has of a sequence without repetitions.
LEMMA PageProperties ==
    ASSUME NEW S, NEW all \in Seq(S), IsInjective(all),
           NEW skip \in Nat, NEW limit \in Nat, skip + limit \in Int32
    PROVE  LET page == Page(all, skip, limit)
           IN  /\ page \in Seq(S) /\ IsInjective(page) /\ Range(page) \subseteq Range(all)
               /\ \A n \in DOMAIN all :
                     all[n] \in Range(page) <=> n > skip /\ (limit = 0 \/ n <= skip + limit)
               /\ limit # 0 => (Len(page) < limit <=> Len(all) < skip + limit)
  <1> DEFINE up == IF limit > 0 /\ skip + limit < Len(all) THEN skip + limit ELSE Len(all)
             page == SubSeq(all, skip + 1, up)
  <1>1. Page(all, skip, limit) = page
    BY PageIsSubSeq
  <1>2. up \in Nat /\ up <= Len(all) /\ Len(all) \in Nat /\ DOMAIN all = 1 .. Len(all)
    OBVIOUS
  <1>3. \A n \in 1 .. Len(all) : n <= up <=> limit = 0 \/ n <= skip + limit
    OBVIOUS
  <1>4. limit # 0 => (up < skip + limit <=> Len(all) < skip + limit)
    OBVIOUS
  <1> HIDE DEF up
  <1>5. /\ page \in Seq(S)
        /\ Len(page) = IF skip + 1 <= up THEN up - skip ELSE 0
        /\ DOMAIN page = 1 .. Len(page)
        /\ \A i \in 1 .. Len(page) : page[i] = all[skip + i]
    <2>1. \A i \in skip + 1 .. up : all[i] \in S
      BY <1>2
    <2>2. /\ page \in Seq(S) /\ Len(page) = IF skip + 1 <= up THEN up - (skip + 1) + 1 ELSE 0
          /\ \A i \in 1 .. up - (skip + 1) + 1 : page[i] = all[(skip + 1) + i - 1]
      <3>1. skip + 1 \in Int /\ up \in Int
        BY <1>2
      <3> DEFINE a == skip + 1
      <3> HIDE DEF a, up
      <3>2. /\ SubSeq(all, a, up) \in Seq(S)
            /\ Len(SubSeq(all, a, up)) = IF a <= up THEN up - a + 1 ELSE 0
            /\ \A i \in 1 .. up - a + 1 : SubSeq(all, a, up)[i] = all[a + i - 1]
        BY <2>1, <3>1, SubSeqProperties DEF a
      <3>3. QED
        BY <3>2 DEF a
    <2> HIDE DEF page
    <2>3. \A i \in 1 .. up - skip : (skip + 1) + i - 1 = skip + i
      BY <1>2
    <2>4. up - (skip + 1) + 1 = up - skip
      BY <1>2
    <2>5. QED
      BY <1>2, <2>2, <2>3, <2>4
  <1> HIDE DEF page
  <1>6. \A i \in 1 .. Len(page) : skip + i \in 1 .. Len(all) /\ skip + i <= up
    BY <1>2, <1>5
  <1>7. IsInjective(page)
    <2>1. ASSUME NEW a \in 1 .. Len(page), NEW b \in 1 .. Len(page), page[a] = page[b]
          PROVE  a = b
      <3>1. all[skip + a] = all[skip + b]
        BY <1>5, <2>1
      <3>2. skip + a = skip + b
        BY <1>2, <1>6, <3>1 DEF IsInjective
      <3>3. QED
        BY <1>5, <3>2
    <2>2. QED
      BY <1>5, <2>1 DEF IsInjective
  <1>8. Range(page) \subseteq Range(all)
    BY <1>2, <1>5, <1>6 DEF Range
  <1>9. ASSUME NEW n \in DOMAIN all
        PROVE  all[n] \in Range(page) <=> n > skip /\ (limit = 0 \/ n <= skip + limit)
    <2>1. ASSUME all[n] \in Range(page) PROVE n > skip /\ n <= up
      <3>1. PICK i \in 1 .. Len(page) : all[n] = all[skip + i]
        BY <1>5, <2>1 DEF Range
      <3>2. n = skip + i
        BY <1>2, <1>6, <3>1 DEF IsInjective
      <3>3. QED
        BY <1>6, <3>2
    <2>2. ASSUME n > skip, n <= up PROVE all[n] \in Range(page)
      <3>1. n - skip \in 1 .. Len(page) /\ skip + (n - skip) = n
        BY <1>2, <1>5, <2>2
      <3>2. QED
        BY <1>5, <3>1 DEF Range
    <2>3. QED
      BY <1>2, <1>3, <2>1, <2>2
  <1>10. limit # 0 => (Len(page) < limit <=> Len(all) < skip + limit)
    BY <1>2, <1>4, <1>5
  <1>11. QED
    BY <1>1, <1>5, <1>7, <1>8, <1>9, <1>10

\* Whatever is stored and whatever has happened: a page is the slice of the
\* entries that skip and limit say (GetMapProtoEntriesPage, GetMapBytesEntriesPage).
THEOREM PageIsSliceHolds == Spec => []PageIsSlice
  <1>1. PageIsSlice
    <2> DEFINE all == GetStateByPartialCompositeKey(db, prefix, <<>>)
    <2>1. all \in Seq(GoodName) /\ IsInjective(all)
      BY EntriesProperties
    <2> HIDE DEF all
    <2>2. ASSUME NEW skip \in Int32 \intersect Nat, NEW limit \in Int32 \intersect Nat,
                 skip + limit \in Int32, NEW n \in DOMAIN all
          PROVE  all[n] \in Range(Page(all, skip, limit)) <=>
                    n > skip /\ (limit = 0 \/ n <= skip + limit)
      BY <2>1, <2>2, PageProperties
    <2>3. QED
      BY <2>2 DEF PageIsSlice, all
  <1>2. QED
    BY <1>1, PTL

-----------------------------------------------------------------------------
(* Types, and how far a walk can be *)

\* What a counter may be set to.
Counts == {NoWrite, -1, 1}

\* Where a walk can be: while it goes on it has not skipped more entries than
\* there are names, so that the sum with its limit is an int32.
Walks ==
    [words : Words, limit : Limit, skip : Nat, got : Seq(GoodName), end : BOOLEAN,
     first : SUBSET GoodName, deleted : BOOLEAN, inserted : BOOLEAN, moved : BOOLEAN]
InRange ==
    /\ walk \in Walks
    /\ walk.skip <= Len(Order) + walk.limit
    /\ walk.end \/ walk.skip <= Len(Order)

\* The counters, those that are stored and those that are to be written.
SizesInv ==
    /\ \A p \in Prefix : db[SizeKey(p)].val \in {NIL, -1, 1}
    /\ \A s \in Slot : tx[s] # NIL => \A p \in Prefix : tx[s].writes[SizeKey(p)] \in Counts

\* The prefix, the bounds and the versions.
BoundsInv ==
    /\ prefix \in {"", Map}
    /\ height \in 0 .. MaxTx /\ starts \in 0 .. MaxStarts
    /\ \A k \in Key : db[k].ver \in 0 .. height

TypeInv ==
    /\ BoundsInv
    /\ SizesInv
    /\ walk # NIL => InRange

\* The counters are keys of the world state.
LEMMA SizeKeyIsKey ==
    ASSUME NEW p \in Prefix
    PROVE  SizeKey(p) \in Key
  BY DEF SizeKey, Key, PlainKey

\* What every simulation leaves in the counters.
LEMMA SimulationsCount ==
    ASSUME NEW p \in Prefix
    PROVE  /\ InitSim(db, NewSim, Map).writes[SizeKey(p)] \in Counts
           /\ \A q \in Prefix, n \in GoodName :
                 /\ DeleteState(db, NewSim, q, CalculateSize, n).writes[SizeKey(p)] \in Counts
                 /\ \A v \in Value :
                       PutProtoState(db, NewSim, q, CalculateSize, n, v).writes[SizeKey(p)] \in Counts
  <1>1. SizeKey(p) \in Key /\ NewSim.writes[SizeKey(p)] = NoWrite
    BY SizeKeyIsKey DEF NewSim
  <1>2. \A q : SizeKey(p) # <<q, "root">> /\ SizeKey(p) # <<q, ":size">>
    BY DEF SizeKey
  <1>3. ASSUME NEW q, NEW n \in GoodName PROVE SizeKey(p) # EntryKey(q, n)
    BY MapAssumption DEF SizeKey, EntryKey, GoodName, PlainKey
  <1>4. ASSUME NEW sim, NEW k, NEW v
        PROVE  /\ ReadState(db, sim, k).writes = sim.writes
               /\ WriteState(sim, k, v).reads = sim.reads
    BY DEF ReadState, WriteState
  <1>5. InitSim(db, NewSim, Map).writes[SizeKey(p)] \in Counts
    <2> DEFINE looked == ReadState(db, NewSim, Root)
               marked == WriteState(looked, Root, "isMap")
    <2>1. looked.writes[SizeKey(p)] = NoWrite
      BY <1>1 DEF ReadState, NewSim
    <2>2. marked.writes[SizeKey(p)] = NoWrite
      BY <1>1, <1>2 DEF ReadState, WriteState, NewSim, Root
    <2>3. WriteState(marked, <<Map, ":size">>, 0).writes[SizeKey(p)] = NoWrite
      BY <1>1, <1>2 DEF ReadState, WriteState, NewSim, Root
    <2>4. InitSim(db, NewSim, Map) \in {looked, WriteState(marked, <<Map, ":size">>, 0)}
      BY DEF InitSim, Root
    <2>5. QED
      BY <2>1, <2>3, <2>4 DEF Counts
  <1>6. ASSUME NEW q \in Prefix, NEW n \in GoodName, NEW v, NEW add \in {-1, 1}
        PROVE  LET put == WriteState(NewSim, EntryKey(q, n), v)
               IN  /\ put.writes[SizeKey(p)] \in Counts
                   /\ modifySize(db, put, q, add).writes[SizeKey(p)] \in Counts
    <2>1. WriteState(NewSim, EntryKey(q, n), v).writes[SizeKey(p)] = NoWrite
      BY <1>1, <1>3 DEF WriteState, NewSim
    <2>2. modifySize(db, WriteState(NewSim, EntryKey(q, n), v), q, add).writes[SizeKey(p)]
             \in {NoWrite, 0 + add}
      BY <1>1, <1>3 DEF modifySize, PutSize, GetSize, WriteState, ReadState, NewSim
    <2>3. QED
      BY <2>1, <2>2 DEF Counts
  <1>7. ASSUME NEW q \in Prefix, NEW n \in GoodName
        PROVE  /\ DeleteState(db, NewSim, q, CalculateSize, n).writes[SizeKey(p)] \in Counts
               /\ \A v \in Value :
                     PutProtoState(db, NewSim, q, CalculateSize, n, v).writes[SizeKey(p)] \in Counts
    BY <1>6 DEF DeleteState, PutProtoState, IncrementSize, DecrementSize
  <1>8. QED
    BY <1>5, <1>7

\* What is committed keeps to what a counter may be, and to the versions.
LEMMA CommittedSizes ==
    ASSUME TypeInv, NEW s \in Slot, Commit(s)
    PROVE  /\ height' = height + 1 /\ height' \in 0 .. MaxTx
           /\ \A k \in Key : db'[k].ver \in 0 .. height'
           /\ \A p \in Prefix : db'[SizeKey(p)].val \in {NIL, -1, 1}
  <1>1. height' = height + 1 /\ height' \in 0 .. MaxTx /\ height \in Nat
    <2>1. MaxTx \in Nat
      BY PagesAssumption
    <2>2. height \in 0 .. MaxTx /\ height < MaxTx /\ height' = height + 1
      BY DEF Commit, TypeInv, BoundsInv
    <2>3. QED
      BY <2>1, <2>2
  <1>2. PICK sim : sim = tx[s] /\ \A p \in Prefix : sim.writes[SizeKey(p)] \in Counts
    BY DEF TypeInv, SizesInv, Commit
  <1>3. db' = IF Unchanged(db, sim) THEN Apply(db, sim, height + 1) ELSE db
    BY <1>2 DEF Commit
  <1>4. ASSUME NEW k \in Key
        PROVE  db'[k] \in {db[k], Absent, [val |-> sim.writes[k], ver |-> height + 1]}
    BY <1>3 DEF Apply, Written
  <1>5. \A k \in Key : db'[k].ver \in 0 .. height'
    <2>1. ASSUME NEW k \in Key PROVE db'[k].ver \in {db[k].ver, 0, height + 1}
      BY <1>4 DEF Absent
    <2>2. \A k \in Key : db[k].ver \in 0 .. height
      BY DEF TypeInv, BoundsInv
    <2>3. QED
      BY <1>1, <2>1, <2>2
  <1>6. ASSUME NEW p \in Prefix PROVE db'[SizeKey(p)].val \in {NIL, -1, 1}
    <2>1. SizeKey(p) \in Key /\ db[SizeKey(p)].val \in {NIL, -1, 1}
      BY SizeKeyIsKey DEF TypeInv, SizesInv
    <2>2. sim.writes[SizeKey(p)] \in Counts
      BY <1>2
    <2>3. db'[SizeKey(p)] \in {db[SizeKey(p)], Written(db[SizeKey(p)], sim.writes[SizeKey(p)], height + 1)}
      BY <1>3, <2>1 DEF Apply
    <2>4. QED
      BY <2>1, <2>2, <2>3 DEF Written, Absent, Counts
  <1>7. QED
    BY <1>1, <1>5, <1>6

\* What a page does to a walk: its skip is the sum of skip and limit, no more than
\* an int32 can hold, and a walk that goes on has room for another page.
LEMMA ReadInRange ==
    ASSUME walk # NIL => InRange, ReadPage
    PROVE  LET all  == GetStateByPartialCompositeKey(db, prefix, walk.words)
               page == Page(all, walk.skip, walk.limit)
           IN  /\ walk # NIL /\ ~walk.end /\ all \in Seq(GoodName) /\ page \in Seq(GoodName)
               /\ walk.skip + walk.limit \in Int32 /\ walk.skip \in Nat /\ walk.limit \in Nat
               /\ walk' \in Walks
               /\ walk'.words = walk.words /\ walk'.limit = walk.limit /\ walk'.first = walk.first
               /\ walk'.deleted = walk.deleted /\ walk'.inserted = walk.inserted
               /\ walk'.moved = walk.moved
               /\ walk'.skip = walk.skip + walk.limit
               /\ walk'.got = walk.got \o page
               /\ walk'.end <=> walk.limit = 0 \/ Len(page) < walk.limit
  <1> DEFINE all == GetStateByPartialCompositeKey(db, prefix, walk.words)
             page == Page(all, walk.skip, walk.limit)
  <1>1. walk # NIL /\ ~walk.end
    BY DEF ReadPage
  <1>2. /\ walk.limit \in Limit /\ walk.skip \in Nat /\ walk.skip <= Len(Order)
        /\ walk.limit \in Nat /\ Len(Order) + walk.limit \in Int32 /\ Len(Order) \in Nat
    <2>1. /\ walk.limit \in Limit /\ walk.skip \in Nat
      BY <1>1 DEF InRange, Walks
    <2>2. walk.skip <= Len(Order)
      BY <1>1 DEF InRange, Walks
    <2>3. /\ Limit \subseteq Nat /\ \A l \in Limit : Len(Order) + l \in Int32
          /\ Order \in Seq(Name \ BadName)
      BY PagesAssumption
    <2>4. Len(Order) \in Nat
      BY <2>3, LenProperties
    <2>5. walk.limit \in Nat /\ Len(Order) + walk.limit \in Int32
      BY <2>1, <2>3
    <2>6. QED
      BY <2>1, <2>2, <2>4, <2>5
  <1>3. walk.skip + walk.limit \in Int32
    <2>1. Half \in Nat
      BY PagesAssumption
    <2> DEFINE skip == walk.skip
               limit == walk.limit
    <2>2. /\ limit \in Nat /\ Len(Order) + limit \in -Half .. Half - 1 /\ Len(Order) \in Nat
          /\ skip \in Nat /\ skip <= Len(Order)
      BY <1>2 DEF Int32
    <2> HIDE DEF skip, limit
    <2>3. skip + limit \in -Half .. Half - 1
      BY <2>1, <2>2
    <2>4. QED
      BY <2>3 DEF Int32, skip, limit
  <1>4. all \in Seq(GoodName) /\ IsInjective(all)
    BY EntriesProperties
  <1> HIDE DEF all
  <1>5. page \in Seq(GoodName)
    BY <1>2, <1>3, <1>4, PageProperties
  <1>6. walk' = [walk EXCEPT !.got = @ \o page, !.skip = walk.skip + walk.limit,
                             !.end = walk.limit = 0 \/ Len(page) < walk.limit]
    <2>1. Wrap(walk.skip + walk.limit) = walk.skip + walk.limit
      BY <1>3, NothingToWrap
    <2>2. QED
      BY <2>1, Zenon DEF ReadPage, GetMapEntriesPage, all
  <1> HIDE DEF page
  <1>7. DOMAIN walk = {"words", "limit", "skip", "got", "end", "first", "deleted", "inserted", "moved"}
    BY <1>1 DEF InRange, Walks
  <1>8. /\ walk'.words = walk.words /\ walk'.limit = walk.limit /\ walk'.first = walk.first
        /\ walk'.skip = walk.skip + walk.limit /\ walk'.got = walk.got \o page
    BY <1>6, <1>7
  <1>9. /\ walk'.deleted = walk.deleted /\ walk'.inserted = walk.inserted
        /\ walk'.moved = walk.moved
    BY <1>6, <1>7, Zenon
  <1>10. walk'.end = (walk.limit = 0 \/ Len(page) < walk.limit)
    BY <1>6, <1>7, Zenon
  <1>11. walk' \in Walks
    <2>1. walk \in Walks
      BY <1>1 DEF InRange, Walks
    <2>2. walk.got \o page \in Seq(GoodName)
      BY <1>5, <2>1 DEF Walks
    <2>3. walk.skip + walk.limit \in Nat
      BY <1>2
    <2>4. (walk.limit = 0 \/ Len(page) < walk.limit) \in BOOLEAN
      BY Zenon
    <2>5. QED
      BY <1>6, <2>1, <2>2, <2>3, <2>4 DEF Walks
  <1>12. QED
    BY <1>1, <1>2, <1>3, <1>4, <1>5, <1>8, <1>9, <1>10, <1>11, Zenon DEF page, all

\* In the beginning the state has its types.
LEMMA InitTypes == Init => TypeInv
  <1> SUFFICES ASSUME Init PROVE TypeInv
    OBVIOUS
  <1>1. /\ prefix = "" /\ height = 0 /\ starts = 0 /\ walk = NIL
        /\ \A s \in Slot : tx[s] = NIL
        /\ \A k \in Key : db[k].ver = 0 /\ db[k].val = NIL
    BY DEF Init, EmptyState, Absent
  <1>2. MaxTx \in Nat /\ MaxStarts \in Nat
    BY PagesAssumption
  <1>3. BoundsInv
    <2>1. 0 \in 0 .. MaxTx /\ 0 \in 0 .. MaxStarts /\ 0 \in 0 .. 0
      BY <1>2
    <2>2. height \in 0 .. MaxTx /\ starts \in 0 .. MaxStarts /\ \A k \in Key : db[k].ver \in 0 .. height
      BY <1>1, <2>1, Zenon
    <2>3. QED
      BY <1>1, <2>1, <2>2 DEF BoundsInv
  <1>4. SizesInv
    BY <1>1, SizeKeyIsKey DEF SizesInv
  <1>5. QED
    BY <1>1, <1>3, <1>4 DEF TypeInv

\* A counter that is below its bound can be counted up.
LEMMA RoomForOne ==
    ASSUME NEW bound \in Nat, NEW n \in 0 .. bound, n < bound
    PROVE  n + 1 \in 0 .. bound
  OBVIOUS

\* A process that is started: the bounds and the walk.
LEMMA StartedTypes ==
    ASSUME TypeInv, NEW p \in {"", Map}, Started(p)
    PROVE  /\ prefix' \in {"", Map} /\ starts' \in 0 .. MaxStarts
           /\ walk' # NIL => InRange'
  <1>1. MaxStarts \in Nat
    BY PagesAssumption
  <1>2. prefix' \in {"", Map} /\ starts' \in 0 .. MaxStarts
    <2>1. prefix' = p
      BY DEF Started
    <2>2. starts \in 0 .. MaxStarts /\ starts < MaxStarts /\ starts' = starts + 1
      BY DEF Started, TypeInv, BoundsInv
    <2>3. starts' \in 0 .. MaxStarts
      BY <1>1, <2>2, RoomForOne, Zenon
    <2>4. QED
      BY <2>1, <2>3, Zenon
  <1>3. ASSUME walk' # NIL PROVE InRange'
    <2>1. walk # NIL /\ walk' = [walk EXCEPT !.moved = @ \/ p # prefix]
      BY <1>3 DEF Started
    <2>2. InRange
      BY <2>1 DEF TypeInv
    <2>3. (walk.moved \/ p # prefix) \in BOOLEAN
      BY <2>2, Zenon DEF InRange, Walks
    <2>4. walk' \in Walks
      BY <2>1, <2>2, <2>3 DEF InRange, Walks
    <2>5. /\ walk'.skip = walk.skip /\ walk'.limit = walk.limit
          /\ walk'.end = walk.end
      BY <2>1, <2>2 DEF InRange, Walks
    <2>6. QED
      BY <2>2, <2>4, <2>5 DEF InRange, Walks
  <1>4. QED
    BY <1>2, <1>3

\* Every step keeps the counters, the bounds and the range of the walk.
LEMMA NextTypes == TypeInv /\ [Next]_vars => TypeInv'
  <1> SUFFICES ASSUME TypeInv, [Next]_vars PROVE TypeInv'
    OBVIOUS
  \* A simulation that counts as it should begins.
  <1>1. ASSUME NEW s \in Slot, NEW sim, Simulated(s, sim),
               \A p \in Prefix : sim.writes[SizeKey(p)] \in Counts, db' = db
        PROVE  SizesInv'
    <2>1. ASSUME NEW t \in Slot, tx'[t] # NIL, NEW p \in Prefix
          PROVE  tx'[t].writes[SizeKey(p)] \in Counts
      <3>1. tx' = [tx EXCEPT ![s] = sim]
        BY <1>1 DEF Simulated
      <3>2. CASE t = s /\ s \in DOMAIN tx
        BY <1>1, <3>1, <3>2
      <3>3. CASE t # s \/ s \notin DOMAIN tx
        BY <2>1, <3>1, <3>3 DEF TypeInv, SizesInv
      <3>4. QED
        BY <3>2, <3>3
    <2>2. QED
      BY <1>1, <2>1 DEF TypeInv, SizesInv, SizeKey, Counts
  <1>2. ASSUME NEW s \in Slot, InitMap(s) PROVE TypeInv'
    <2>1. InitKeeps(db, Map, "") \in {"", Map}
      BY DEF InitKeeps
    <2>2. /\ prefix' \in {"", Map} /\ starts' \in 0 .. MaxStarts
          /\ walk' # NIL => InRange'
      BY <1>2, <2>1, StartedTypes DEF InitMap
    <2>3. SizesInv'
      BY <1>1, <1>2, SimulationsCount DEF InitMap
    <2>4. QED
      BY <1>2, <2>2, <2>3 DEF InitMap, TypeInv, BoundsInv
  <1>3. ASSUME UNCHANGED <<prefix, db, height, walk, starts>>, SizesInv' PROVE TypeInv'
    BY <1>3 DEF TypeInv, BoundsInv, InRange, Walks
  <1>4. prefix \in Prefix
    BY MapAssumption, PagesAssumption DEF TypeInv, BoundsInv
  <1>5. ASSUME NEW s \in Slot, NEW n \in Name \ BadName, Delete(s, n) PROVE TypeInv'
    <2>1. SizesInv'
      BY <1>1, <1>4, <1>5, SimulationsCount DEF Delete, GoodName
    <2>2. QED
      BY <1>3, <1>5, <2>1 DEF Delete
  <1>6. ASSUME NEW s \in Slot, NEW n \in Name \ BadName, NEW v \in Value, Put(s, n, v)
        PROVE  TypeInv'
    <2>1. SizesInv'
      BY <1>1, <1>4, <1>6, SimulationsCount DEF Put, GoodName
    <2>2. QED
      BY <1>3, <1>6, <2>1 DEF Put
  <1>7. ASSUME NEW s \in Slot, Commit(s) PROVE TypeInv'
    <2>1. /\ height' = height + 1 /\ height' \in 0 .. MaxTx
          /\ \A k \in Key : db'[k].ver \in 0 .. height'
          /\ \A p \in Prefix : db'[SizeKey(p)].val \in {NIL, -1, 1}
      BY <1>7, CommittedSizes
    <2>2. \A t \in Slot : tx'[t] # NIL => tx'[t] = tx[t] /\ tx[t] # NIL
      BY <1>7 DEF Commit
    <2>3. SizesInv'
      BY <2>1, <2>2 DEF TypeInv, SizesInv, SizeKey, Counts
    <2>4. walk' # NIL => InRange'
      <3> SUFFICES ASSUME walk' # NIL PROVE InRange'
        OBVIOUS
      <3>1. PICK d, i : /\ d \in BOOLEAN /\ i \in BOOLEAN
                        /\ walk' = [walk EXCEPT !.deleted = d, !.inserted = i]
        <4>1. walk # NIL /\ walk' = [walk EXCEPT
                !.deleted = walk.deleted \/ ~(Present(db, prefix) \subseteq Present(db', prefix)),
                !.inserted = walk.inserted \/ ~(Present(db', prefix) \subseteq Present(db, prefix))]
          BY <1>7, Zenon DEF Commit
        <4>2. /\ (walk.deleted \/ ~(Present(db, prefix) \subseteq Present(db', prefix))) \in BOOLEAN
              /\ (walk.inserted \/ ~(Present(db', prefix) \subseteq Present(db, prefix))) \in BOOLEAN
          BY Zenon
        <4>3. QED
          BY <4>1, <4>2, Zenon
      <3>2. InRange
        BY <1>7 DEF TypeInv, Commit
      <3>3. /\ walk'.skip = walk.skip /\ walk'.limit = walk.limit /\ walk'.end = walk.end
            /\ walk' \in Walks
        BY <3>1, <3>2 DEF InRange, Walks
      <3>4. QED
        BY <3>2, <3>3 DEF InRange, Walks
    <2>5. QED
      BY <1>7, <2>1, <2>3, <2>4 DEF TypeInv, BoundsInv, Commit
  <1>8. ASSUME UNCHANGED <<prefix, db, height, tx, starts>>, walk' # NIL => InRange' PROVE TypeInv'
    BY <1>8 DEF TypeInv, BoundsInv, SizesInv, Counts, SizeKey
  <1>9. ASSUME NEW words \in Words, NEW limit \in Limit, StartWalk(words, limit) PROVE TypeInv'
    <2> DEFINE all == GetStateByPartialCompositeKey(db, prefix, words)
    <2>1. Range(all) \in SUBSET GoodName
      BY EntriesProperties
    <2> HIDE DEF all
    <2>2. walk' = [words |-> words, limit |-> limit, skip |-> 0, got |-> <<>>, end |-> FALSE,
                   first |-> Range(all), deleted |-> FALSE, inserted |-> FALSE, moved |-> FALSE]
      BY <1>9 DEF StartWalk, all
    <2>3. limit \in Nat /\ Len(Order) \in Nat /\ <<>> \in Seq(GoodName)
      <3>1. Limit \subseteq Nat /\ Order \in Seq(Name \ BadName)
        BY PagesAssumption
      <3>2. QED
        BY <3>1, LenProperties
    <2>4. InRange'
      BY <2>1, <2>2, <2>3 DEF InRange, Walks
    <2>5. QED
      BY <1>8, <1>9, <2>4 DEF StartWalk
  <1>10. ASSUME ReadPage PROVE TypeInv'
    <2> DEFINE all == GetStateByPartialCompositeKey(db, prefix, walk.words)
               page == Page(all, walk.skip, walk.limit)
    <2>1. /\ walk # NIL /\ ~walk.end
          /\ walk.skip + walk.limit \in Int32 /\ walk.skip \in Nat /\ walk.limit \in Nat
          /\ walk'.limit = walk.limit /\ walk'.skip = walk.skip + walk.limit
          /\ walk'.end <=> walk.limit = 0 \/ Len(page) < walk.limit
      BY <1>10, ReadInRange DEF TypeInv
    <2>2. /\ Len(all) \in Nat /\ Len(all) <= Len(Order) /\ Len(Order) \in Nat
          /\ walk.limit # 0 => (Len(page) < walk.limit <=> Len(all) < walk.skip + walk.limit)
      <3>1. /\ all \in Seq(GoodName) /\ IsInjective(all) /\ Len(all) <= Len(Order)
        BY EntriesProperties
      <3>2. Order \in Seq(Name \ BadName)
        BY PagesAssumption
      <3> HIDE DEF all
      <3>3. Len(all) \in Nat /\ Len(Order) \in Nat
        BY <3>1, <3>2, LenProperties
      <3>4. walk.limit # 0 => (Len(page) < walk.limit <=> Len(all) < walk.skip + walk.limit)
        BY <2>1, <3>1, PageProperties
      <3>5. QED
        BY <3>1, <3>3, <3>4
    <2> HIDE DEF all, page
    <2>3. walk.skip <= Len(Order)
      BY <1>10, <2>1 DEF TypeInv, InRange, Walks
    <2>4. walk'.skip <= Len(Order) + walk'.limit
      BY <2>1, <2>2, <2>3
    <2>5. walk'.end \/ walk'.skip <= Len(Order)
      BY <2>1, <2>2
    <2>6. walk' \in Walks
      BY <1>10, ReadInRange DEF TypeInv
    <2>7. InRange'
      BY <2>4, <2>5, <2>6 DEF InRange, Walks
    <2>8. QED
      BY <1>8, <1>10, <2>7 DEF ReadPage
  <1>11. ASSUME Restart PROVE TypeInv'
    <2>1. /\ prefix' \in {"", Map} /\ starts' \in 0 .. MaxStarts
          /\ walk' # NIL => InRange'
      BY <1>11, StartedTypes DEF Restart
    <2>2. QED
      BY <1>11, <2>1 DEF Restart, TypeInv, BoundsInv, SizesInv, Counts, SizeKey
  <1>12. ASSUME UNCHANGED vars PROVE TypeInv'
    BY <1>8, <1>12 DEF vars, TypeInv, InRange
  <1>13. QED
    BY <1>2, <1>5, <1>6, <1>7, <1>9, <1>10, <1>11, <1>12 DEF Next

\* The run's type invariant is part of that.
LEMMA TypeInvIsTypeOK == TypeInv => TypeOK
  <1> SUFFICES ASSUME TypeInv PROVE TypeOK
    OBVIOUS
  <1>1. ASSUME walk # NIL PROVE walk.skip \in Int32 /\ Range(walk.got) \subseteq Name \ BadName
    <2> DEFINE skip == walk.skip
               limit == walk.limit
               got == walk.got
    <2>1. walk \in Walks /\ skip <= Len(Order) + limit
      BY <1>1 DEF TypeInv, InRange
    <2>2. skip \in Nat /\ limit \in Limit /\ got \in Seq(GoodName)
      BY <2>1 DEF Walks
    <2> HIDE DEF skip, limit, got
    <2>3. /\ Half \in Nat /\ Limit \subseteq Nat /\ Order \in Seq(Name \ BadName)
          /\ \A l \in Limit : Len(Order) + l \in Int32
      BY PagesAssumption
    <2>4. Len(Order) \in Nat /\ limit \in Nat /\ Len(Order) + limit \in -Half .. Half - 1
      BY <2>2, <2>3, LenProperties DEF Int32
    <2>5. skip \in -Half .. Half - 1
      BY <2>1, <2>2, <2>3, <2>4
    <2>6. Range(got) \subseteq GoodName
      BY <2>2 DEF Range
    <2>7. QED
      BY <2>5, <2>6 DEF Int32, GoodName, skip, got
  <1>2. QED
    BY <1>1 DEF TypeInv, BoundsInv, SizesInv, TypeOK

\* For every number of names, of transactions under way and of restarts, and for
\* every int32: the counter that is stored is never anything but 1 or -1, the
\* versions are those of committed transactions, and skip never wraps.
THEOREM TypeCorrect == Spec => []TypeOK
  <1>1. QED
    BY InitTypes, NextTypes, TypeInvIsTypeOK, PTL DEF Spec

-----------------------------------------------------------------------------
(* Walks *)

All == GetStateByPartialCompositeKey(db, prefix, walk.words)

\* While no delete has been seen, what was there in the beginning is still there:
\* it has been given, or it is after the place the walk has come to.
MissInv ==
    walk # NIL =>
       (~walk.deleted /\ ~walk.moved =>
           /\ walk.first \subseteq Range(All)
           /\ \A n \in DOMAIN All : All[n] \in walk.first =>
                 All[n] \in Range(walk.got) \/ (~walk.end /\ n > walk.skip))

\* While no insert has been seen, what has been given is given once, and is
\* before that place.
RepeatInv ==
    walk # NIL =>
       (~walk.inserted /\ ~walk.moved =>
           /\ IsInjective(walk.got)
           /\ \A n \in DOMAIN All : All[n] \in Range(walk.got) => walk.end \/ n <= walk.skip)

\* What is in two sequences, one after the other.
LEMMA RangeOfConcat ==
    ASSUME NEW S, NEW a \in Seq(S), NEW b \in Seq(S)
    PROVE  Range(a \o b) = Range(a) \union Range(b)
  <1>1. /\ a \o b \in Seq(S) /\ Len(a \o b) = Len(a) + Len(b)
        /\ \A i \in 1 .. Len(a) + Len(b) : (a \o b)[i] = IF i <= Len(a) THEN a[i] ELSE b[i - Len(a)]
    BY ConcatProperties
  <1>2. Len(a) \in Nat /\ Len(b) \in Nat /\ DOMAIN a = 1 .. Len(a) /\ DOMAIN b = 1 .. Len(b)
        /\ DOMAIN (a \o b) = 1 .. Len(a) + Len(b)
    BY <1>1
  <1> DEFINE c == a \o b
  <1> HIDE DEF c
  <1>3. ASSUME NEW x \in Range(c) PROVE x \in Range(a) \union Range(b)
    <2>1. PICK i \in 1 .. Len(a) + Len(b) : x = c[i]
      BY <1>2 DEF Range, c
    <2>2. CASE i <= Len(a)
      BY <1>1, <1>2, <2>1, <2>2 DEF Range, c
    <2>3. CASE i > Len(a)
      <3>1. i - Len(a) \in 1 .. Len(b)
        BY <1>2, <2>3
      <3>2. x = b[i - Len(a)]
        BY <1>1, <1>2, <2>1, <2>3 DEF c
      <3>3. QED
        BY <1>2, <3>1, <3>2 DEF Range
    <2>4. QED
      BY <1>2, <2>2, <2>3
  <1>4. ASSUME NEW x \in Range(a) PROVE x \in Range(c)
    <2>1. PICK i \in 1 .. Len(a) : x = a[i]
      BY <1>2 DEF Range
    <2>2. i \in 1 .. Len(a) + Len(b) /\ c[i] = x
      BY <1>1, <1>2, <2>1 DEF c
    <2>3. QED
      BY <1>2, <2>2 DEF Range, c
  <1>5. ASSUME NEW x \in Range(b) PROVE x \in Range(c)
    <2>1. PICK i \in 1 .. Len(b) : x = b[i]
      BY <1>2 DEF Range
    <2>2. i + Len(a) \in 1 .. Len(a) + Len(b) /\ ~(i + Len(a) <= Len(a)) /\ i + Len(a) - Len(a) = i
      BY <1>2
    <2>3. c[i + Len(a)] = x
      BY <1>1, <2>1, <2>2 DEF c
    <2>4. QED
      BY <1>2, <2>2, <2>3 DEF Range, c
  <1>6. QED
    BY <1>3, <1>4, <1>5 DEF c

\* Two sequences that have nothing in common and nothing twice.
LEMMA InjectiveConcat ==
    ASSUME NEW S, NEW a \in Seq(S), NEW b \in Seq(S), IsInjective(a), IsInjective(b),
           Range(a) \intersect Range(b) = {}
    PROVE  IsInjective(a \o b)
  <1>1. /\ a \o b \in Seq(S) /\ Len(a \o b) = Len(a) + Len(b)
        /\ \A i \in 1 .. Len(a) + Len(b) : (a \o b)[i] = IF i <= Len(a) THEN a[i] ELSE b[i - Len(a)]
    BY ConcatProperties
  <1>2. Len(a) \in Nat /\ Len(b) \in Nat /\ DOMAIN a = 1 .. Len(a) /\ DOMAIN b = 1 .. Len(b)
        /\ DOMAIN (a \o b) = 1 .. Len(a) + Len(b)
    BY <1>1
  <1> DEFINE c == a \o b
  <1>3. ASSUME NEW i \in 1 .. Len(a) + Len(b)
        PROVE  IF i <= Len(a) THEN i \in DOMAIN a /\ c[i] = a[i] /\ c[i] \in Range(a)
               ELSE i - Len(a) \in DOMAIN b /\ c[i] = b[i - Len(a)] /\ c[i] \in Range(b)
    <2>1. IF i <= Len(a) THEN i \in DOMAIN a /\ c[i] = a[i]
          ELSE i - Len(a) \in DOMAIN b /\ c[i] = b[i - Len(a)]
      BY <1>1, <1>2
    <2>2. QED
      BY <2>1 DEF Range
  <1> HIDE DEF c
  <1>4. ASSUME NEW i \in 1 .. Len(a) + Len(b), NEW j \in 1 .. Len(a) + Len(b), c[i] = c[j]
        PROVE  i = j
    <2>1. CASE i <= Len(a) /\ j <= Len(a)
      BY <1>3, <1>4, <2>1 DEF IsInjective
    <2>2. CASE ~(i <= Len(a)) /\ ~(j <= Len(a))
      <3>1. i - Len(a) = j - Len(a)
        BY <1>3, <1>4, <2>2 DEF IsInjective
      <3>2. QED
        BY <1>2, <3>1
    <2>3. CASE (i <= Len(a)) # (j <= Len(a))
      BY <1>3, <1>4, <2>3
    <2>4. QED
      BY <2>1, <2>2, <2>3
  <1>5. QED
    BY <1>2, <1>4 DEF IsInjective, c

WalkInv == TypeInv /\ MissInv /\ RepeatInv

\* A page, against what there is when it is read.
LEMMA ReadKeeps ==
    ASSUME WalkInv, ReadPage
    PROVE  MissInv' /\ RepeatInv'
  <1> DEFINE all == All
             page == Page(All, walk.skip, walk.limit)
  <1>1. /\ walk # NIL /\ ~walk.end
        /\ walk.skip + walk.limit \in Int32 /\ walk.skip \in Nat /\ walk.limit \in Nat
        /\ walk'.words = walk.words /\ walk'.first = walk.first
        /\ walk'.skip = walk.skip + walk.limit /\ walk'.got = walk.got \o page
        /\ walk'.end <=> walk.limit = 0 \/ Len(page) < walk.limit
    BY ReadInRange DEF WalkInv, TypeInv, All
  <1>2. /\ walk'.deleted <=> walk.deleted
        /\ walk'.inserted <=> walk.inserted
        /\ walk'.moved <=> walk.moved
    BY ReadInRange DEF WalkInv, TypeInv, All
  <1>3. All' = all
    BY <1>1 DEF All, ReadPage
  <1>4. /\ all \in Seq(GoodName) /\ DOMAIN all = 1 .. Len(all) /\ IsInjective(all)
        /\ Len(all) \in Nat
    BY EntriesProperties DEF All
  <1> HIDE DEF all
  <1>5. /\ page \in Seq(GoodName) /\ IsInjective(page) /\ Range(page) \subseteq Range(all)
        /\ \A n \in DOMAIN all :
              all[n] \in Range(page) <=> n > walk.skip
                                         /\ (walk.limit = 0 \/ n <= walk.skip + walk.limit)
        /\ walk.limit # 0 => (Len(page) < walk.limit <=> Len(all) < walk.skip + walk.limit)
    BY <1>1, <1>4, PageProperties DEF all
  <1> HIDE DEF page
  <1>6. walk.got \in Seq(GoodName)
    BY <1>1 DEF WalkInv, TypeInv, InRange, Walks
  <1>7. Range(walk'.got) = Range(walk.got) \union Range(page)
    BY <1>1, <1>5, <1>6, RangeOfConcat
  <1>8. ASSUME ~walk'.deleted, ~walk'.moved
        PROVE  /\ walk'.first \subseteq Range(all)
               /\ \A n \in DOMAIN all : all[n] \in walk'.first =>
                     all[n] \in Range(walk'.got) \/ (~walk'.end /\ n > walk'.skip)
    <2>1. /\ walk.first \subseteq Range(all)
          /\ \A n \in DOMAIN all : all[n] \in walk.first =>
                all[n] \in Range(walk.got) \/ n > walk.skip
      BY <1>1, <1>2, <1>8 DEF WalkInv, MissInv, all
    <2>2. ASSUME NEW n \in DOMAIN all, all[n] \in walk.first, all[n] \notin Range(walk'.got)
          PROVE  ~walk'.end /\ n > walk'.skip
      <3>1. n > walk.skip /\ all[n] \notin Range(page)
        BY <1>7, <2>1, <2>2
      <3>2. walk.limit # 0 /\ n > walk.skip + walk.limit
        BY <1>1, <1>4, <1>5, <3>1
      <3>3. ~(Len(page) < walk.limit)
        BY <1>1, <1>4, <1>5, <3>2
      <3>4. QED
        BY <1>1, <3>2, <3>3
    <2>3. QED
      BY <1>1, <2>1, <2>2
  <1>9. ASSUME ~walk'.inserted, ~walk'.moved
        PROVE  /\ IsInjective(walk'.got)
               /\ \A n \in DOMAIN all : all[n] \in Range(walk'.got) => walk'.end \/ n <= walk'.skip
    <2>1. /\ IsInjective(walk.got)
          /\ \A n \in DOMAIN all : all[n] \in Range(walk.got) => n <= walk.skip
      BY <1>1, <1>2, <1>9 DEF WalkInv, RepeatInv, all
    <2>2. Range(walk.got) \intersect Range(page) = {}
      <3> SUFFICES ASSUME NEW x \in Range(page), x \in Range(walk.got) PROVE FALSE
        OBVIOUS
      <3>1. PICK n \in DOMAIN all : x = all[n]
        BY <1>5 DEF Range
      <3>2. n > walk.skip /\ n <= walk.skip
        BY <1>5, <2>1, <3>1
      <3>3. QED
        BY <1>1, <1>4, <3>2
    <2>3. IsInjective(walk'.got)
      BY <1>1, <1>5, <1>6, <2>1, <2>2, InjectiveConcat
    <2>4. ASSUME NEW n \in DOMAIN all, all[n] \in Range(walk'.got), ~walk'.end
          PROVE  n <= walk'.skip
      <3>1. walk.limit # 0
        BY <1>1, <2>4
      <3>2. CASE all[n] \in Range(walk.got)
        BY <1>1, <1>4, <2>1, <3>2
      <3>3. CASE all[n] \in Range(page)
        BY <1>1, <1>5, <3>1, <3>3
      <3>4. QED
        BY <1>7, <2>4, <3>2, <3>3
    <2>5. QED
      BY <2>3, <2>4
  <1>10. QED
    BY <1>3, <1>8, <1>9 DEF MissInv, RepeatInv

\* What is committed while a walk is under way.
LEMMA CommitKeeps ==
    ASSUME WalkInv, NEW s \in Slot, Commit(s)
    PROVE  MissInv' /\ RepeatInv'
  <1>1. CASE walk = NIL
    BY <1>1 DEF Commit, MissInv, RepeatInv
  <1>2. CASE walk # NIL
    <2> DEFINE old == All
               new == All'
    <2>1. /\ walk' = [walk EXCEPT
                !.deleted = walk.deleted \/ ~(Present(db, prefix) \subseteq Present(db', prefix)),
                !.inserted = walk.inserted \/ ~(Present(db', prefix) \subseteq Present(db, prefix))]
          /\ prefix' = prefix
      BY <1>2, Zenon DEF Commit
    <2>2. DOMAIN walk = {"words", "limit", "skip", "got", "end", "first", "deleted", "inserted", "moved"}
      BY <1>2 DEF WalkInv, TypeInv, InRange, Walks
    <2>3. /\ walk'.words = walk.words /\ walk'.skip = walk.skip /\ walk'.got = walk.got
          /\ walk'.first = walk.first
      BY <2>1, <2>2
    <2>4. walk'.end = walk.end /\ walk'.moved = walk.moved
      BY <2>1, <2>2, Zenon
    <2>5. /\ ~walk'.deleted => ~walk.deleted /\ Present(db, prefix) \subseteq Present(db', prefix)
          /\ ~walk'.inserted => ~walk.inserted /\ Present(db', prefix) \subseteq Present(db, prefix)
      <3>1. /\ walk'.deleted = (walk.deleted \/ ~(Present(db, prefix) \subseteq Present(db', prefix)))
            /\ walk'.inserted = (walk.inserted \/ ~(Present(db', prefix) \subseteq Present(db, prefix)))
        BY <2>1, <2>2, Zenon
      <3>2. QED
        BY <3>1, Zenon
    <2>6. /\ old = GetStateByPartialCompositeKey(db, prefix, walk.words)
          /\ new = GetStateByPartialCompositeKey(db', prefix, walk.words)
      BY <2>1, <2>3 DEF All
    <2> HIDE DEF old, new
    <2>7. /\ DOMAIN old = 1 .. Len(old) /\ Len(old) \in Nat /\ IsInjective(old)
          /\ DOMAIN new = 1 .. Len(new) /\ Len(new) \in Nat /\ IsInjective(new)
          /\ Range(old) = {n \in GoodName : db[EntryKey(prefix, n)].val # NIL
                                              /\ IsPrefix(walk.words, Path[n])}
          /\ Range(new) = {n \in GoodName : db'[EntryKey(prefix, n)].val # NIL
                                              /\ IsPrefix(walk.words, Path[n])}
      <3>1. old \in Seq(GoodName) /\ new \in Seq(GoodName)
        BY <2>6, EntriesProperties
      <3>2. Len(old) \in Nat /\ Len(new) \in Nat
        BY <3>1, LenProperties
      <3>3. QED
        BY <2>6, <3>2, EntriesProperties
    <2>8. walk.skip \in Nat
      BY <1>2 DEF WalkInv, TypeInv, InRange, Walks
    <2>9. ASSUME ~walk'.deleted, ~walk'.moved
          PROVE  /\ walk.first \subseteq Range(new)
                 /\ \A n \in DOMAIN new : new[n] \in walk.first =>
                       new[n] \in Range(walk.got) \/ (~walk.end /\ n > walk.skip)
      <3>1. Present(db, prefix) \subseteq Present(db', prefix)
        BY <2>5, <2>9
      <3>2. /\ walk.first \subseteq Range(old)
            /\ \A n \in DOMAIN old : old[n] \in walk.first =>
                  old[n] \in Range(walk.got) \/ (~walk.end /\ n > walk.skip)
        BY <1>2, <2>4, <2>5, <2>9 DEF WalkInv, MissInv, old
      <3>3. Range(old) \subseteq Range(new)
        BY <2>7, <3>1 DEF Present, GoodName
      <3>4. ASSUME NEW n \in DOMAIN new, new[n] \in walk.first, new[n] \notin Range(walk.got)
            PROVE  ~walk.end /\ n > walk.skip
        <4>1. PICK m \in DOMAIN old : old[m] = new[n]
          BY <3>2, <3>4 DEF Range
        <4>2. ~walk.end /\ m > walk.skip
          BY <3>2, <3>4, <4>1
        <4>3. PICK l \in DOMAIN new : m <= l /\ new[l] = old[m]
          BY <2>6, <3>1, EntriesShift
        <4>4. l = n
          BY <2>7, <4>1, <4>3 DEF IsInjective
        <4>5. QED
          BY <2>7, <2>8, <4>2, <4>3, <4>4
      <3>5. QED
        BY <3>2, <3>3, <3>4
    <2>10. ASSUME ~walk'.inserted, ~walk'.moved
           PROVE  /\ IsInjective(walk.got)
                  /\ \A n \in DOMAIN new : new[n] \in Range(walk.got) => walk.end \/ n <= walk.skip
      <3>1. Present(db', prefix) \subseteq Present(db, prefix)
        BY <2>5, <2>10
      <3>2. /\ IsInjective(walk.got)
            /\ \A n \in DOMAIN old : old[n] \in Range(walk.got) => walk.end \/ n <= walk.skip
        BY <1>2, <2>4, <2>5, <2>10 DEF WalkInv, RepeatInv, old
      <3>3. ASSUME NEW n \in DOMAIN new, new[n] \in Range(walk.got), ~walk.end
            PROVE  n <= walk.skip
        <4>1. PICK l \in DOMAIN old : n <= l /\ old[l] = new[n]
          BY <2>6, <3>1, EntriesShift
        <4>2. l <= walk.skip
          BY <3>2, <3>3, <4>1
        <4>3. QED
          BY <2>7, <2>8, <4>1, <4>2
      <3>4. QED
        BY <3>2, <3>3
    <2>11. QED
      BY <2>3, <2>4, <2>9, <2>10 DEF MissInv, RepeatInv, new
  <1>3. QED
    BY <1>1, <1>2

\* A process that is started: the walk goes on under another prefix, and is not
\* spoken of, or nothing changes for it.
LEMMA StartKeeps ==
    ASSUME WalkInv, NEW p, Started(p), db' = db
    PROVE  MissInv' /\ RepeatInv'
  <1>1. CASE walk = NIL
    BY <1>1 DEF Started, MissInv, RepeatInv
  <1>2. CASE walk # NIL
    <2>1. walk' = [walk EXCEPT !.moved = walk.moved \/ p # prefix] /\ prefix' = p
      BY <1>2, Zenon DEF Started
    <2>2. DOMAIN walk = {"words", "limit", "skip", "got", "end", "first", "deleted", "inserted", "moved"}
      BY <1>2 DEF WalkInv, TypeInv, InRange, Walks
    <2>3. /\ walk'.words = walk.words /\ walk'.skip = walk.skip /\ walk'.got = walk.got
          /\ walk'.first = walk.first
      BY <2>1, <2>2
    <2>4. /\ walk'.end = walk.end /\ walk'.deleted = walk.deleted
          /\ walk'.inserted = walk.inserted
      BY <2>1, <2>2, Zenon
    <2>5. ~walk'.moved => ~walk.moved /\ p = prefix
      <3>1. walk'.moved = (walk.moved \/ p # prefix)
        BY <2>1, <2>2, Zenon
      <3>2. QED
        BY <3>1, Zenon
    <2>6. ~walk'.moved => All' = All
      BY <2>1, <2>3, <2>5 DEF All
    <2>7. MissInv'
      BY <1>2, <2>3, <2>4, <2>5, <2>6 DEF WalkInv, MissInv
    <2>8. RepeatInv'
      BY <1>2, <2>3, <2>4, <2>5, <2>6 DEF WalkInv, RepeatInv
    <2>9. QED
      BY <2>7, <2>8
  <1>3. QED
    BY <1>1, <1>2

\* Every step keeps what a walk may claim.
LEMMA NextWalks == WalkInv /\ [Next]_vars => WalkInv'
  <1> SUFFICES ASSUME WalkInv, [Next]_vars PROVE WalkInv'
    OBVIOUS
  <1>1. TypeInv'
    BY NextTypes DEF WalkInv
  <1>2. ASSUME UNCHANGED <<prefix, db, walk>> PROVE MissInv' /\ RepeatInv'
    BY <1>2 DEF WalkInv, MissInv, RepeatInv, All
  <1>3. ASSUME NEW words \in Words, NEW limit \in Limit, StartWalk(words, limit)
        PROVE  MissInv' /\ RepeatInv'
    <2> DEFINE all == GetStateByPartialCompositeKey(db, prefix, words)
    <2>1. walk' = [words |-> words, limit |-> limit, skip |-> 0, got |-> <<>>, end |-> FALSE,
                   first |-> Range(all), deleted |-> FALSE, inserted |-> FALSE, moved |-> FALSE]
      BY <1>3 DEF StartWalk
    <2>2. All' = all
      BY <1>3, <2>1 DEF All, StartWalk
    <2>3. DOMAIN all = 1 .. Len(all)
      BY EntriesProperties
    <2> HIDE DEF all
    <2>4. walk'.got = <<>> /\ walk'.first = Range(all) /\ walk'.skip = 0
      BY <2>1
    <2>5. ~walk'.end
      BY <2>1
    <2>6. Range(walk'.got) = {} /\ IsInjective(walk'.got)
      BY <2>4 DEF Range, IsInjective
    <2>7. MissInv'
      BY <2>2, <2>3, <2>4, <2>5 DEF MissInv
    <2>8. RepeatInv'
      BY <2>6 DEF RepeatInv
    <2>9. QED
      BY <2>7, <2>8
  <1>4. ASSUME NEW s \in Slot, InitMap(s) PROVE MissInv' /\ RepeatInv'
    BY <1>4, StartKeeps DEF InitMap
  <1>5. ASSUME Restart PROVE MissInv' /\ RepeatInv'
    BY <1>5, StartKeeps DEF Restart
  <1>6. MissInv' /\ RepeatInv'
    <2>1. ASSUME \/ UNCHANGED vars
                 \/ \E s \in Slot, n \in Name \ BadName :
                       Delete(s, n) \/ \E v \in Value : Put(s, n, v)
          PROVE  UNCHANGED <<prefix, db, walk>>
      BY <2>1 DEF vars, Delete, Put
    <2>2. QED
      BY <1>2, <1>3, <1>4, <1>5, <2>1, ReadKeeps, CommitKeeps DEF Next
  <1>7. QED
    BY <1>1, <1>6 DEF WalkInv

\* In the beginning there is no walk.
LEMMA InitWalks == Init => WalkInv
  BY InitTypes DEF Init, WalkInv, MissInv, RepeatInv

\* Whatever is put, deleted and committed between two pages, however many names
\* there are and whatever the page size: a walk that saw no delete and no other
\* process has given every entry that was there when it began
\* (GetMapProtoEntriesPage, GetMapBytesEntriesPage).
THEOREM WalkMissesNothingHolds == Spec => []WalkMissesNothing
  <1>1. WalkInv => WalkMissesNothing
    <2> SUFFICES ASSUME WalkInv, walk # NIL, walk.end, ~walk.deleted, ~walk.moved,
                        NEW n \in walk.first
                 PROVE  n \in Range(walk.got)
      BY DEF WalkMissesNothing
    <2>1. /\ walk.first \subseteq Range(All)
          /\ \A m \in DOMAIN All : All[m] \in walk.first => All[m] \in Range(walk.got)
      BY DEF WalkInv, MissInv
    <2>2. QED
      BY <2>1 DEF Range
  <1>2. QED
    BY <1>1, InitWalks, NextWalks, PTL DEF Spec

\* Likewise a walk that saw no insert and no other process gives no entry twice.
THEOREM WalkRepeatsNothingHolds == Spec => []WalkRepeatsNothing
  <1>1. WalkInv => WalkRepeatsNothing
    BY DEF WalkInv, RepeatInv, WalkRepeatsNothing
  <1>2. QED
    BY <1>1, InitWalks, NextWalks, PTL DEF Spec

-----------------------------------------------------------------------------
(* Keys *)

\* An empty word.
NoWord == ""

\* What CreateCompositeKey and Split fold.
KeyStep(k, key, w) == key \o (IF w = "" THEN <<>> ELSE <<w>>) \o <<SEP>>
SplitStep(k, words, w) == IF w = SEP THEN Append(words, "") ELSE [words EXCEPT ![Len(words)] = w]
Keying == INSTANCE FoldLaws WITH op <- KeyStep
Splitting == INSTANCE FoldLaws WITH op <- SplitStep

\* CreateCompositeKey is a fold over the prefix and the words.
LEMMA KeyIsFold ==
    ASSUME NEW p, NEW words
    PROVE  CreateCompositeKey(p, words) = Keying!Fold("", <<SEP>>, <<p>> \o words)
  BY Zenon DEF CreateCompositeKey, Keying!Fold, KeyStep, FoldLeft, Keying!FoldLeft, MapThenFoldSet,
               Keying!MapThenFoldSet, Max, Keying!Max

\* Split is a fold over the key.
LEMMA SplitIsFold ==
    ASSUME NEW key
    PROVE  Split(key) = Splitting!Fold("", <<"">>, key)
  BY Zenon DEF Split, Splitting!Fold, SplitStep, FoldLeft, Splitting!FoldLeft, MapThenFoldSet,
               Splitting!MapThenFoldSet, Max, Splitting!Max

\* One element more is split.
LEMMA SplitOfAppend ==
    ASSUME NEW S, NEW key \in Seq(S), NEW x \in S
    PROVE  Split(Append(key, x)) = SplitStep(NoWord, Split(key), x)
  <1> DEFINE start == <<"">>
             given == ""
  <1>1. Split(key) = Splitting!Fold(given, start, key)
        /\ Split(Append(key, x)) = Splitting!Fold(given, start, Append(key, x))
    BY SplitIsFold
  <1> HIDE DEF start, given
  <1>2. Splitting!Fold(given, start, Append(key, x))
           = SplitStep(given, Splitting!Fold(given, start, key), x)
    BY Splitting!FoldOfAppend
  <1>3. QED
    BY <1>1, <1>2 DEF SplitStep

\* Nothing is split into one empty word.
LEMMA SplitOfNone == Split(<<>>) = <<NoWord>>
  <1> DEFINE start == <<"">>
             given == ""
             none == <<>>
  <1>1. Split(none) = Splitting!Fold(given, start, none)
    BY SplitIsFold
  <1>2. none \in Seq(Name) /\ Len(none) = 0
    OBVIOUS
  <1> HIDE DEF start, given, none
  <1>3. Splitting!Fold(given, start, none) = start
    BY <1>2, Splitting!FoldOfNone
  <1>4. QED
    BY <1>1, <1>3 DEF start, none, NoWord

\* The parts of a key are some empty ones, the first i words, and an empty one.
Parts(parts, S, lead, words, i) ==
    /\ parts \in Seq(S) /\ Len(parts) = lead + i + 1
    /\ \A j \in 1 .. lead : parts[j] = NoWord
    /\ \A j \in 1 .. i : parts[lead + j] = words[j]
    /\ parts[lead + i + 1] = NoWord

\* A word that follows, and its separator.
LEMMA PartsGrow ==
    ASSUME NEW S, NoWord \in S, SEP \in S, SEP # NoWord, NEW key \in Seq(S), NEW lead \in Nat,
           NEW words, NEW i \in Nat \ {0}, words[i] \in S \ {SEP},
           Parts(Split(key), S, lead, words, i - 1)
    PROVE  LET next == KeyStep(NoWord, key, words[i])
           IN  next \in Seq(S) /\ Parts(Split(next), S, lead, words, i)
  <1> DEFINE w == words[i]
             old == Split(key)
             n == lead + i
             named == [old EXCEPT ![Len(old)] = w]
             next == KeyStep(NoWord, key, w)
  <1>1. /\ old \in Seq(S) /\ Len(old) = n /\ n \in Nat /\ n >= 1 /\ w \in S /\ w # SEP
        /\ \A j \in 1 .. lead : old[j] = NoWord
        /\ \A j \in 1 .. i - 1 : old[lead + j] = words[j]
        /\ old[n] = NoWord
    <2>1. lead + (i - 1) + 1 = n
      OBVIOUS
    <2>2. QED
      BY <2>1 DEF Parts
  <1> HIDE DEF w, old, n
  <1>2. next \in Seq(S) /\ Split(next) = Append(named, NoWord)
    <2>1. CASE w = NoWord
      <3>1. next = Append(key, SEP)
        <4>1. next = key \o <<>> \o <<SEP>>
          BY <2>1 DEF KeyStep, NoWord
        <4>2. key \o <<>> = key
          BY ConcatEmptySeq
        <4>3. QED
          BY <4>1, <4>2, AppendIsConcat
      <3>2. Split(next) = Append(old, NoWord)
        BY <3>1, SplitOfAppend DEF SplitStep, NoWord, old
      <3>3. named = old
        BY <1>1, <2>1
      <3>4. QED
        BY <3>1, <3>2, <3>3
    <2>2. CASE w # NoWord
      <3>1. next = Append(Append(key, w), SEP)
        <4>1. next = key \o <<w>> \o <<SEP>>
          BY <2>2 DEF KeyStep, NoWord
        <4>2. Append(key, w) = key \o <<w>> /\ Append(key, w) \in Seq(S)
          BY <1>1, AppendIsConcat
        <4>3. QED
          BY <4>1, <4>2, AppendIsConcat
      <3>2. Append(key, w) \in Seq(S)
        BY <1>1
      <3>3. Split(Append(key, w)) = named
        <4>1. key \in Seq(S) /\ w \in S /\ w # SEP
          BY <1>1
        <4>2. Split(Append(key, w)) = SplitStep(NoWord, old, w)
          BY <4>1, SplitOfAppend DEF old
        <4>3. QED
          BY <4>1, <4>2, Zenon DEF SplitStep
      <3>4. Split(next) = Append(named, NoWord)
        BY <3>1, <3>2, <3>3, SplitOfAppend DEF SplitStep, NoWord
      <3>5. QED
        BY <3>1, <3>2, <3>4
    <2>3. QED
      BY <2>1, <2>2
  <1> HIDE DEF next
  <1>3. /\ named \in Seq(S) /\ Len(named) = n /\ named[n] = w
        /\ \A j \in 1 .. n - 1 : named[j] = old[j]
    BY <1>1
  <1> HIDE DEF named
  <1>4. /\ Append(named, NoWord) \in Seq(S) /\ Len(Append(named, NoWord)) = n + 1
        /\ Append(named, NoWord)[n + 1] = NoWord
        /\ \A j \in 1 .. n : Append(named, NoWord)[j] = named[j]
    BY <1>3
  <1> DEFINE new == Append(named, NoWord)
  <1> HIDE DEF new
  <1>5. \A j \in 1 .. lead : new[j] = NoWord
    <2>1. \A j \in 1 .. lead : j \in 1 .. n - 1
      BY DEF n
    <2>2. \A j \in 1 .. lead : j \in 1 .. n
      BY <1>1, <2>1
    <2>3. QED
      BY <1>1, <1>3, <1>4, <2>1, <2>2 DEF new
  <1>6. \A j \in 1 .. i : new[lead + j] = words[j]
    <2>1. \A j \in 1 .. i : lead + j \in 1 .. n /\ (j = i => lead + j = n)
                             /\ (j # i => lead + j \in 1 .. n - 1 /\ j \in 1 .. i - 1)
      BY DEF n
    <2>2. QED
      BY <1>1, <1>3, <1>4, <2>1 DEF new, w
  <1>7. Parts(new, S, lead, words, i)
    <2>1. lead + i + 1 = n + 1
      BY DEF n
    <2>2. QED
      BY <1>4, <1>5, <1>6, <2>1 DEF Parts, new
  <1>8. QED
    BY <1>2, <1>7 DEF next, new, w

\* Of the key after i words, that begins with the separator, and the rest of it.
KeyParts(key, rest, S, words, i) ==
    /\ rest \in Seq(S) /\ key = <<SEP>> \o rest
    /\ Parts(Split(rest), S, 0, words, i)
    /\ Parts(Split(key), S, 1, words, i)
    /\ IF i = 0 THEN rest = <<>> ELSE Len(rest) >= 1 /\ rest[1] = words[1]

\* The key of no words.
LEMMA NoWordsSplit ==
    ASSUME NEW S, NoWord \in S, SEP \in S, NEW words
    PROVE  KeyParts(<<SEP>>, <<>>, S, words, 0)
  <1> DEFINE none == <<>>
             key == <<SEP>>
  <1>1. none \in Seq(S) /\ key = <<SEP>> \o none /\ key = Append(none, SEP)
    OBVIOUS
  <1>2. Split(none) = <<NoWord>>
    BY SplitOfNone
  <1> HIDE DEF none, key
  <1>3. Split(key) = SplitStep(NoWord, Split(none), SEP)
    BY <1>1, SplitOfAppend
  <1>4. Split(key) = Append(<<NoWord>>, NoWord)
    BY <1>2, <1>3 DEF SplitStep, NoWord
  <1>5. Parts(Split(none), S, 0, words, 0) /\ Parts(Split(key), S, 1, words, 0)
    BY <1>2, <1>4 DEF Parts
  <1>6. QED
    BY <1>1, <1>5 DEF KeyParts, none, key

\* The key of one word more.
LEMMA KeyPartsGrow ==
    ASSUME NEW S, NoWord \in S, SEP \in S, SEP # NoWord, NEW words \in Seq(S \ {SEP}),
           words[1] # NoWord, NEW i \in 1 .. Len(words), NEW key, NEW rest,
           KeyParts(key, rest, S, words, i - 1)
    PROVE  KeyParts(KeyStep(NoWord, key, words[i]), KeyStep(NoWord, rest, words[i]), S, words, i)
  <1> DEFINE w == words[i]
             more == IF w = NoWord THEN <<>> ELSE <<w>>
             end == <<SEP>>
  <1>1. i \in Nat \ {0} /\ w \in S \ {SEP}
    OBVIOUS
  <1>2. more \in Seq(S) /\ end \in Seq(S)
    BY <1>1
  <1>3. rest \in Seq(S) /\ key \in Seq(S) /\ key = end \o rest
    BY <1>2, ConcatProperties DEF KeyParts
  <1>4. KeyStep(NoWord, key, w) = (key \o more) \o end
        /\ KeyStep(NoWord, rest, w) = (rest \o more) \o end
    BY DEF KeyStep, NoWord
  <1>5. KeyStep(NoWord, key, w) = end \o KeyStep(NoWord, rest, w)
    <2> HIDE DEF more, end, w
    <2>1. rest \o more \in Seq(S)
      BY <1>2, <1>3, ConcatProperties
    <2>2. key \o more = end \o (rest \o more)
      <3>1. rest \in Seq(S) /\ more \in Seq(S) /\ end \in Seq(S)
        BY <1>2, <1>3
      <3>2. \A s, t, u \in Seq(S) : (s \o t) \o u = s \o (t \o u)
        BY ConcatAssociative
      <3>3. key = end \o rest
        BY <1>3
      <3>4. QED
        BY <3>1, <3>2, <3>3
    <2>3. (end \o (rest \o more)) \o end = end \o ((rest \o more) \o end)
      <3>1. \A s, t, u \in Seq(S) : (s \o t) \o u = s \o (t \o u)
        BY ConcatAssociative
      <3>2. QED
        BY <1>2, <2>1, <3>1
    <2>4. QED
      BY <1>4, <2>2, <2>3
  <1>6. /\ KeyStep(NoWord, key, w) \in Seq(S) /\ Parts(Split(KeyStep(NoWord, key, w)), S, 1, words, i)
        /\ KeyStep(NoWord, rest, w) \in Seq(S) /\ Parts(Split(KeyStep(NoWord, rest, w)), S, 0, words, i)
    <2>1. Parts(Split(key), S, 1, words, i - 1) /\ Parts(Split(rest), S, 0, words, i - 1)
      BY DEF KeyParts
    <2>2. QED
      BY <1>1, <1>3, <2>1, PartsGrow
  <1>7. Len(KeyStep(NoWord, rest, w)) >= 1 /\ KeyStep(NoWord, rest, w)[1] = words[1]
    <2> DEFINE both == rest \o more
    <2>1. /\ both \in Seq(S) /\ Len(both) = Len(rest) + Len(more)
          /\ \A j \in 1 .. Len(rest) + Len(more) :
                both[j] = IF j <= Len(rest) THEN rest[j] ELSE more[j - Len(rest)]
      BY <1>2, <1>3, ConcatProperties
    <2>2. Len(both) >= 1 /\ both[1] = words[1]
      <3>1. CASE i = 1
        <4>1. more = <<words[1]>> /\ Len(more) = 1 /\ more[1] = words[1]
          BY <3>1
        <4>2. Len(rest) \in Nat
          BY <1>3
        <4>3. Len(rest) = 0
          BY <3>1 DEF KeyParts
        <4>4. QED
          BY <2>1, <4>1, <4>2, <4>3
      <3>2. CASE i > 1
        <4>1. Len(rest) >= 1 /\ rest[1] = words[1] /\ Len(rest) \in Nat /\ Len(more) \in Nat
          BY <1>2, <1>3, <3>2 DEF KeyParts
        <4>2. QED
          BY <2>1, <4>1
      <3>3. QED
        BY <3>1, <3>2
    <2> HIDE DEF both, more, end
    <2>3. /\ Len(both \o end) = Len(both) + Len(end)
          /\ \A j \in 1 .. Len(both) + Len(end) :
                (both \o end)[j] = IF j <= Len(both) THEN both[j] ELSE end[j - Len(both)]
      <3>1. both \in Seq(S) /\ end \in Seq(S)
        BY <1>2, <2>1
      <3>2. QED
        BY <3>1, ConcatProperties
    <2>4. Len(both) \in Nat /\ Len(end) \in Nat
      BY <1>2, <2>1, LenProperties
    <2>5. QED
      BY <1>4, <2>2, <2>3, <2>4 DEF both
  <1>8. QED
    BY <1>1, <1>5, <1>6, <1>7 DEF KeyParts

\* The key of some words, the first of which is not empty: all but the last, and
\* the last one with its separator.
LEMMA KeyUnrolled ==
    ASSUME NEW S, NoWord \in S, SEP \in S, SEP # NoWord, NEW p, NEW tail,
           <<p>> \o tail \in Seq(S \ {SEP}), (<<p>> \o tail)[1] # NoWord,
           Len(<<p>> \o tail) >= 1
    PROVE  LET words == <<p>> \o tail
               n     == Len(words)
           IN  \E key, rest :
                  /\ KeyParts(key, rest, S, words, n - 1)
                  /\ CreateCompositeKey(p, tail) = KeyStep(NoWord, key, words[n])
                  /\ KeyParts(CreateCompositeKey(p, tail), KeyStep(NoWord, rest, words[n]), S, words, n)
  <1> DEFINE words == <<p>> \o tail
             n == Len(words)
             given == NoWord
             start == <<SEP>>
             none == <<>>
  <1>1. words \in Seq(S \ {SEP}) /\ n \in Nat /\ n >= 1 /\ words[1] # NoWord
    BY LenProperties
  <1>2. CreateCompositeKey(p, tail) = Keying!Fold(given, start, words)
    BY KeyIsFold DEF NoWord
  <1> HIDE DEF words, given, start, none
  <1>3. PICK f : /\ f[0] = start
                 /\ \A i \in 1 .. Len(words) : f[i] = KeyStep(given, f[i - 1], words[i])
                 /\ f[Len(words)] = Keying!Fold(given, start, words)
    BY <1>1, Keying!FoldUnrolled
  <1>4. PICK g : /\ g[0] = none
                 /\ \A i \in 1 .. Len(words) : g[i] = KeyStep(given, g[i - 1], words[i])
                 /\ g[Len(words)] = Keying!Fold(given, none, words)
    BY <1>1, Keying!FoldUnrolled
  <1> DEFINE T == {i \in 0 .. n : KeyParts(f[i], g[i], S, words, i)}
  <1>5. 0 \in T
    <2>1. KeyParts(f[0], g[0], S, words, 0)
      BY <1>3, <1>4, NoWordsSplit DEF start, none
    <2>2. QED
      BY <1>1, <2>1
  <1>6. ASSUME NEW i \in 1 .. n, i - 1 \in T PROVE i \in T
    <2>1. KeyParts(f[i - 1], g[i - 1], S, words, i - 1)
      BY <1>6
    <2>2. KeyParts(KeyStep(NoWord, f[i - 1], words[i]), KeyStep(NoWord, g[i - 1], words[i]), S, words, i)
      <3> DEFINE key == f[i - 1]
                 rest == g[i - 1]
      <3> HIDE DEF key, rest
      <3>1. KeyParts(key, rest, S, words, i - 1)
        BY <2>1 DEF key, rest
      <3>2. KeyParts(KeyStep(NoWord, key, words[i]), KeyStep(NoWord, rest, words[i]), S, words, i)
        BY <1>1, <3>1, KeyPartsGrow
      <3>3. QED
        BY <3>2 DEF key, rest
    <2>3. f[i] = KeyStep(NoWord, f[i - 1], words[i]) /\ g[i] = KeyStep(NoWord, g[i - 1], words[i])
      BY <1>3, <1>4 DEF given
    <2>4. QED
      BY <2>2, <2>3
  <1> HIDE DEF n
  <1>7. n \in 0 .. n /\ n - 1 \in 0 .. n /\ n \in 1 .. n
    BY <1>1
  <1>8. \A i \in 0 .. n : i \in T
    <2> HIDE DEF T
    <2>1. QED
      BY <1>1, <1>5, <1>6, Keying!InductionUpTo
  <1>9. KeyParts(f[n - 1], g[n - 1], S, words, n - 1) /\ KeyParts(f[n], g[n], S, words, n)
    BY <1>7, <1>8
  <1>10. /\ f[n] = KeyStep(NoWord, f[n - 1], words[n]) /\ g[n] = KeyStep(NoWord, g[n - 1], words[n])
         /\ CreateCompositeKey(p, tail) = f[n]
    BY <1>2, <1>3, <1>4, <1>7 DEF given, n
  <1>11. QED
    BY <1>9, <1>10 DEF words, n

\* The separators at the ends are trimmed.
LEMMA TrimEnds ==
    ASSUME NEW S, SEP \in S, NEW mid \in Seq(S), Len(mid) >= 1,
           mid[1] # SEP, mid[Len(mid)] # SEP,
           NEW key \in Seq(S), Len(key) = Len(mid) + 2, key[1] = SEP, key[Len(mid) + 2] = SEP,
           \A j \in 1 .. Len(mid) : key[j + 1] = mid[j]
    PROVE  Trim(key) = mid
  <1> DEFINE n == Len(mid)
             words == {i \in DOMAIN key : key[i] # SEP}
             first == CHOOSE i \in words : \A j \in words : i <= j
             last == CHOOSE i \in words : \A j \in words : i >= j
  <1>1. /\ n \in Nat /\ n >= 1 /\ DOMAIN key = 1 .. n + 2
        /\ \A j \in 1 .. n : j + 1 \in DOMAIN key /\ key[j + 1] = mid[j]
        /\ key[1] = SEP /\ key[n + 2] = SEP /\ mid[1] # SEP /\ mid[n] # SEP
        /\ \A j \in 1 .. n : mid[j] \in S
    OBVIOUS
  <1> HIDE DEF n
  <1>2. words \subseteq 2 .. n + 1 /\ 2 \in words /\ n + 1 \in words
    <2>1. ASSUME NEW i \in words PROVE i \in 2 .. n + 1
      BY <1>1
    <2>2. key[2] = mid[1] /\ key[n + 1] = mid[n] /\ 2 \in DOMAIN key /\ n + 1 \in DOMAIN key
      <3>1. 1 \in 1 .. n /\ n \in 1 .. n /\ 1 + 1 = 2
        BY <1>1
      <3>2. QED
        BY <1>1, <3>1
    <2>3. QED
      BY <1>1, <2>1, <2>2
  <1> HIDE DEF words
  <1>3. first = 2 /\ last = n + 1
    <2>1. first \in words /\ \A j \in words : first <= j
      <3>1. \A j \in words : 2 <= j
        BY <1>1, <1>2
      <3>2. \E i \in words : \A j \in words : i <= j
        BY <1>2, <3>1
      <3>3. QED
        BY <3>2, Zenon
    <2>2. last \in words /\ \A j \in words : last >= j
      <3>1. \A j \in words : n + 1 >= j
        BY <1>1, <1>2
      <3>2. \E i \in words : \A j \in words : i >= j
        BY <1>2, <3>1
      <3>3. QED
        BY <3>2, Zenon
    <2> HIDE DEF first, last
    <2>3. QED
      BY <1>1, <1>2, <2>1, <2>2
  <1>4. Trim(key) = SubSeq(key, 2, n + 1)
    <2>1. words # {}
      BY <1>2
    <2>2. Trim(key) = SubSeq(key, first, last)
      BY <2>1, Zenon DEF Trim, words
    <2>3. QED
      BY <1>3, <2>2
  <1>5. SubSeq(key, 2, n + 1) = mid
    <2> DEFINE sub == SubSeq(key, 2, n + 1)
    <2>1. \A i \in 2 .. n + 1 : key[i] \in S
      BY <1>1
    <2>2. /\ sub \in Seq(S) /\ Len(sub) = n + 1 - 2 + 1
          /\ \A i \in 1 .. n + 1 - 2 + 1 : sub[i] = key[2 + i - 1]
      <3> DEFINE a == 2
                 b == n + 1
      <3>1. a \in Int /\ b \in Int /\ a <= b
        BY <1>1
      <3> HIDE DEF a, b
      <3>2. /\ SubSeq(key, a, b) \in Seq(S) /\ Len(SubSeq(key, a, b)) = IF a <= b THEN b - a + 1 ELSE 0
            /\ \A i \in 1 .. b - a + 1 : SubSeq(key, a, b)[i] = key[a + i - 1]
        BY <2>1, <3>1, SubSeqProperties DEF a, b
      <3> HIDE DEF sub
      <3>3. a = 2 /\ b = n + 1 /\ SubSeq(key, a, b) = sub
        BY DEF a, b, sub
      <3>4. QED
        <4> DEFINE cut == SubSeq(key, a, b)
        <4>1. /\ cut \in Seq(S) /\ Len(cut) = IF a <= b THEN b - a + 1 ELSE 0
              /\ \A i \in 1 .. b - a + 1 : cut[i] = key[a + i - 1]
          BY <3>2
        <4> HIDE DEF cut
        <4>2. cut = sub
          BY <3>3 DEF cut
        <4>3. n \in Nat /\ a = 2 /\ b = n + 1
          BY <1>1, <3>3
        <4>4. QED
          BY <3>1, <4>1, <4>2, <4>3
    <2> HIDE DEF sub
    <2>3. Len(sub) = n /\ \A i \in 1 .. n : sub[i] = mid[i]
      <3>1. n + 1 - 2 + 1 = n /\ \A i \in 1 .. n : 2 + i - 1 = i + 1
        BY <1>1
      <3>2. QED
        BY <1>1, <2>2, <3>1
    <2>4. sub = mid
      BY <2>2, <2>3, SeqEqual DEF n
    <2>5. QED
      BY <2>4 DEF sub
  <1>6. QED
    BY <1>4, <1>5

\* The parts of a whole key, if it is not trimmed.
LEMMA AllParts ==
    ASSUME NEW S, NoWord \in S, NEW p \in S, NEW tail \in Seq(S), NEW parts,
           Parts(parts, S, 1, <<p>> \o tail, Len(tail) + 1)
    PROVE  parts = <<NoWord, p>> \o tail \o <<NoWord>>
  <1> DEFINE n == Len(tail)
             words == <<p>> \o tail
             front == <<NoWord, p>> \o tail
             whole == front \o <<NoWord>>
  <1>1. n \in Nat
    BY LenProperties
  <1>2. words[1] = p /\ \A j \in 1 .. n : words[j + 1] = tail[j]
    <2>1. <<p>> \in Seq(S) /\ Len(<<p>>) = 1
      OBVIOUS
    <2>2. \A j \in 1 .. 1 + n : words[j] = IF j <= 1 THEN <<p>>[j] ELSE tail[j - 1]
      BY <2>1, ConcatProperties
    <2> HIDE DEF n
    <2>3. \A j \in 1 .. n : j + 1 \in 1 .. 1 + n /\ ~(j + 1 <= 1) /\ j + 1 - 1 = j
      BY <1>1
    <2>4. 1 \in 1 .. 1 + n
      BY <1>1
    <2> HIDE DEF words
    <2>5. QED
      BY <2>2, <2>3, <2>4
  <1>3. /\ front \in Seq(S) /\ Len(front) = n + 2 /\ front[1] = NoWord /\ front[2] = p
        /\ \A j \in 1 .. n : front[j + 2] = tail[j]
    <2> DEFINE two == <<NoWord, p>>
    <2>1. two \in Seq(S) /\ Len(two) = 2 /\ two[1] = NoWord /\ two[2] = p
      OBVIOUS
    <2> HIDE DEF two
    <2>2. /\ two \o tail \in Seq(S) /\ Len(two \o tail) = 2 + n
          /\ \A j \in 1 .. 2 + n : (two \o tail)[j] = IF j <= 2 THEN two[j] ELSE tail[j - 2]
      <3>1. /\ two \o tail \in Seq(S) /\ Len(two \o tail) = Len(two) + Len(tail)
            /\ \A j \in 1 .. Len(two) + Len(tail) :
                  (two \o tail)[j] = IF j <= Len(two) THEN two[j] ELSE tail[j - Len(two)]
        BY <2>1, ConcatProperties
      <3>2. QED
        BY <2>1, <3>1
    <2> HIDE DEF n
    <2>3. /\ \A j \in 1 .. n : j + 2 \in 1 .. 2 + n /\ ~(j + 2 <= 2) /\ j + 2 - 2 = j
          /\ 1 \in 1 .. 2 + n /\ 2 \in 1 .. 2 + n /\ 2 + n = n + 2
      BY <1>1
    <2> DEFINE both == two \o tail
    <2> HIDE DEF both
    <2>4. /\ both \in Seq(S) /\ Len(both) = n + 2 /\ both[1] = NoWord /\ both[2] = p
          /\ \A j \in 1 .. n : both[j + 2] = tail[j]
      BY <2>1, <2>2, <2>3 DEF both
    <2>5. QED
      BY <2>4 DEF both, two
  <1> HIDE DEF front, words
  <1>4. /\ whole \in Seq(S) /\ Len(whole) = n + 3 /\ whole[n + 3] = NoWord
        /\ \A j \in 1 .. n + 2 : whole[j] = front[j]
    <2>1. whole = Append(front, NoWord)
      BY <1>3, AppendIsConcat
    <2> HIDE DEF whole
    <2>2. QED
      BY <1>1, <1>3, <2>1
  <1> HIDE DEF whole
  <1>5. /\ parts \in Seq(S) /\ Len(parts) = n + 3 /\ parts[1] = NoWord /\ parts[n + 3] = NoWord
        /\ \A j \in 1 .. n + 1 : parts[1 + j] = words[j]
    <2>1. 1 + (n + 1) + 1 = n + 3 /\ 1 \in 1 .. 1
      BY <1>1
    <2> HIDE DEF n
    <2>2. Parts(parts, S, 1, words, n + 1)
      BY DEF words, n
    <2>3. QED
      BY <2>1, <2>2 DEF Parts
  <1> HIDE DEF n
  <1>6. ASSUME NEW j \in 1 .. n + 3 PROVE parts[j] = whole[j]
    <2>1. CASE j = 1
      BY <1>1, <1>3, <1>4, <1>5, <2>1
    <2>2. CASE j = n + 3
      BY <1>4, <1>5, <2>2
    <2>3. CASE j = 2
      <3>1. 1 \in 1 .. n + 1 /\ 1 + 1 = 2
        BY <1>1
      <3>2. parts[2] = words[1]
        BY <1>5, <3>1
      <3>3. 2 \in 1 .. n + 2
        BY <1>1
      <3>4. QED
        BY <1>2, <1>3, <1>4, <2>3, <3>2, <3>3
    <2>4. CASE j \in 3 .. n + 2
      <3>1. /\ j - 2 \in 1 .. n /\ (j - 2) + 2 = j /\ (j - 2) + 1 \in 1 .. n + 1
            /\ 1 + ((j - 2) + 1) = j /\ j \in 1 .. n + 2
        BY <1>1, <2>4
      <3>2. parts[j] = words[(j - 2) + 1]
        BY <1>5, <3>1
      <3>3. QED
        BY <1>2, <1>3, <1>4, <3>1, <3>2
    <2>5. QED
      BY <1>1, <2>1, <2>2, <2>3, <2>4
  <1>7. parts = whole
    BY <1>4, <1>5, <1>6, SeqEqual
  <1>8. QED
    BY <1>7 DEF whole, front

\* A key that is trimmed is split into its words, if the last is not empty.
LEMMA TrimmedKey ==
    ASSUME NEW S, NoWord \in S, SEP \in S, SEP # NoWord, NEW words \in Seq(S \ {SEP}),
           Len(words) >= 1, words[1] # NoWord, words[Len(words)] # NoWord, NEW key, NEW rest,
           KeyParts(key, rest, S, words, Len(words) - 1)
    PROVE  Split(Trim(KeyStep(NoWord, key, words[Len(words)]))) = words
  <1> DEFINE n == Len(words)
             w == words[n]
             whole == KeyStep(NoWord, key, w)
             mid == Append(rest, w)
             old == Split(rest)
  <1>1. n \in Nat /\ n >= 1 /\ n \in 1 .. n
    BY LenProperties
  <1>2. /\ w \in S /\ w # SEP /\ w # NoWord
        /\ \A j \in 1 .. n : words[j] \in S /\ words[j] # SEP
    BY <1>1
  <1>3. /\ rest \in Seq(S) /\ key = <<SEP>> \o rest
        /\ Parts(old, S, 0, words, n - 1)
        /\ IF n - 1 = 0 THEN rest = <<>> ELSE Len(rest) >= 1 /\ rest[1] = words[1]
    BY DEF KeyParts
  <1>4. words[1] # SEP
    BY <1>1, <1>2
  <1> HIDE DEF n, w, old
  <1>5. /\ mid \in Seq(S) /\ Len(mid) \in Nat /\ Len(mid) >= 1 /\ mid[Len(mid)] = w
        /\ mid[1] = words[1]
    <2>1. /\ mid \in Seq(S) /\ Len(mid) = Len(rest) + 1 /\ mid[Len(rest) + 1] = w
          /\ \A j \in 1 .. Len(rest) : mid[j] = rest[j]
      BY <1>2, <1>3, AppendProperties
    <2> HIDE DEF mid
    <2>2. Len(rest) \in Nat
      BY <1>3, LenProperties
    <2>3. mid[1] = words[1]
      <3>1. CASE n = 1
        <4>1. Len(rest) = 0
          BY <1>3, <3>1
        <4>2. QED
          BY <2>1, <3>1, <4>1 DEF w
      <3>2. CASE n # 1
        <4>1. Len(rest) >= 1 /\ rest[1] = words[1]
          BY <1>1, <1>3, <3>2
        <4>2. 1 \in 1 .. Len(rest)
          BY <2>2, <4>1
        <4>3. QED
          BY <2>1, <4>1, <4>2
      <3>3. QED
        BY <3>1, <3>2
    <2>4. QED
      BY <2>1, <2>2, <2>3
  <1>6. whole = Append(<<SEP>> \o mid, SEP)
    <2> DEFINE start == <<SEP>>
               word == <<w>>
    <2>1. start \in Seq(S) /\ word \in Seq(S)
      BY <1>2
    <2>2. mid = rest \o word
      BY <1>2, <1>3, AppendIsConcat
    <2>3. whole = (key \o word) \o start
      BY <1>2 DEF KeyStep, NoWord
    <2> HIDE DEF mid, start, word, whole
    <2>4. key = start \o rest
      BY <1>3 DEF start
    <2>5. \A s, t, u \in Seq(S) : (s \o t) \o u = s \o (t \o u)
      BY ConcatAssociative
    <2>6. key \o word = start \o mid
      <3>1. (start \o rest) \o word = start \o (rest \o word)
        BY <1>3, <2>1, <2>5
      <3>2. QED
        BY <2>2, <2>4, <3>1
    <2>7. start \o mid \in Seq(S)
      BY <1>5, <2>1, ConcatProperties
    <2>8. Append(start \o mid, SEP) = (start \o mid) \o start
      BY <2>7, AppendIsConcat DEF start
    <2>9. QED
      BY <2>3, <2>6, <2>8 DEF start, mid
  <1> HIDE DEF mid, whole
  <1>7. /\ whole \in Seq(S) /\ Len(whole) = Len(mid) + 2 /\ whole[1] = SEP
        /\ whole[Len(mid) + 2] = SEP
        /\ \A j \in 1 .. Len(mid) : whole[j + 1] = mid[j]
    <2> DEFINE start == <<SEP>>
               front == start \o mid
               m == Len(mid)
    <2>1. start \in Seq(S) /\ Len(start) = 1 /\ start[1] = SEP /\ m \in Nat
      BY <1>5
    <2>2. /\ front \in Seq(S) /\ Len(front) = Len(start) + m
          /\ \A j \in 1 .. Len(start) + m : front[j] = IF j <= Len(start) THEN start[j] ELSE mid[j - Len(start)]
      BY <1>5, <2>1, ConcatProperties
    <2> HIDE DEF start, m
    <2> DEFINE first == front
    <2>3. /\ first \in Seq(S) /\ Len(first) = m + 1
          /\ \A j \in 1 .. m + 1 : first[j] = IF j <= 1 THEN start[j] ELSE mid[j - 1]
      BY <2>1, <2>2
    <2>4. whole = Append(first, SEP)
      BY <1>6 DEF start
    <2> HIDE DEF first
    <2>5. /\ whole \in Seq(S) /\ Len(whole) = m + 2 /\ whole[m + 2] = SEP
          /\ \A j \in 1 .. m + 1 : whole[j] = first[j]
      BY <2>1, <2>3, <2>4
    <2>6. whole[1] = SEP
      <3>1. 1 \in 1 .. m + 1 /\ 1 <= 1
        BY <2>1
      <3>2. QED
        BY <2>1, <2>3, <2>5, <3>1
    <2>7. \A j \in 1 .. m : whole[j + 1] = mid[j]
      <3>1. \A j \in 1 .. m : j + 1 \in 1 .. m + 1 /\ ~(j + 1 <= 1) /\ j + 1 - 1 = j
        BY <2>1
      <3>2. QED
        BY <2>3, <2>5, <3>1
    <2>8. QED
      BY <2>5, <2>6, <2>7 DEF m
  <1>8. Trim(whole) = mid
    BY <1>2, <1>4, <1>5, <1>7, TrimEnds
  <1>9. Split(mid) = [old EXCEPT ![Len(old)] = w]
    <2>1. Split(mid) = SplitStep(NoWord, old, w)
      BY <1>2, <1>3, SplitOfAppend DEF mid, old
    <2>2. QED
      BY <1>2, <2>1, Zenon DEF SplitStep
  <1>10. [old EXCEPT ![Len(old)] = w] = words
    <2> DEFINE named == [old EXCEPT ![Len(old)] = w]
    <2>1. /\ old \in Seq(S) /\ Len(old) = n /\ \A j \in 1 .. n - 1 : old[j] = words[j]
      <3>1. 0 + (n - 1) + 1 = n /\ \A j \in 1 .. n - 1 : 0 + j = j
        BY <1>1
      <3>2. QED
        BY <1>3, <3>1 DEF Parts
    <2>2. /\ named \in Seq(S) /\ Len(named) = n /\ named[n] = w
          /\ \A j \in 1 .. n - 1 : named[j] = old[j]
      BY <1>1, <1>2, <2>1
    <2> HIDE DEF named
    <2>3. \A j \in 1 .. n : named[j] = words[j]
      <3>1. \A j \in 1 .. n : j = n \/ j \in 1 .. n - 1
        BY <1>1
      <3>2. QED
        BY <2>1, <2>2, <3>1 DEF w
    <2>4. words \in Seq(S) /\ Len(words) = n
      BY DEF n
    <2>5. named = words
      BY <2>2, <2>3, <2>4, SeqEqual
    <2>6. QED
      BY <2>5 DEF named
  <1>11. QED
    BY <1>8, <1>9, <1>10 DEF whole, w, n

\* Whatever the words of a name are, and however many: the key that comes back
\* with an entry is made of them (key of MapEntry in GetMapProtoEntriesPage and
\* GetMapBytesEntriesPage).
THEOREM KeysComeBackHolds == Spec => []KeysComeBack
  <1>1. ASSUME TypeInv, prefix # "",
               NEW n \in Range(GetStateByPartialCompositeKey(db, prefix, <<>>))
        PROVE  LET key == CreateCompositeKey(prefix, Path[n])
               IN  /\ Path[n] # <<>> /\ Last(Path[n]) # "" => ProtoKey(key) = <<prefix>> \o Path[n]
                   /\ BytesKey(key) = <<"", prefix>> \o Path[n] \o <<"">>
    <2> DEFINE tail == Path[n]
               S == {NoWord, SEP, prefix} \union Range(tail)
               words == <<prefix>> \o tail
    <2>1. n \in Name \ BadName
      BY <1>1, EntriesProperties DEF GoodName
    <2>2. tail \in Seq(Range(tail)) /\ SEP \notin Range(tail)
      BY <2>1, PagesAssumption
    <2>3. prefix # SEP /\ SEP # NoWord /\ prefix # NoWord
      <3>1. prefix \in Prefix /\ SEP \notin Prefix /\ SEP # ""
        <4>1. prefix \in {"", Map}
          BY <1>1 DEF TypeInv, BoundsInv
        <4>2. "" \in Prefix /\ Map \in Prefix
          BY MapAssumption, PagesAssumption
        <4>3. SEP \notin Prefix /\ SEP # ""
          BY PagesAssumption
        <4>4. QED
          BY <4>1, <4>2, <4>3, Zenon
      <3>2. QED
        BY <1>1, <3>1 DEF NoWord
    <2> DEFINE R == Range(tail)
               p == prefix
    <2>4. p \in S \ {SEP} /\ R \subseteq S \ {SEP} /\ NoWord \in S /\ SEP \in S
      BY <2>2, <2>3
    <2>5. tail \in Seq(S \ {SEP}) /\ tail \in Seq(S)
      <3>1. tail \in Seq(R)
        BY <2>2
      <3> HIDE DEF S, R, tail
      <3>2. Len(tail) \in Nat /\ DOMAIN tail = 1 .. Len(tail) /\ \A j \in 1 .. Len(tail) : tail[j] \in R
        BY <3>1, LenProperties
      <3>3. QED
        BY <2>4, <3>1, <3>2
    <2> HIDE DEF S, R, tail, p
    <2>6. words \in Seq(S \ {SEP}) /\ Len(words) = Len(tail) + 1 /\ words[1] = p
          /\ Len(tail) \in Nat /\ (Len(tail) >= 1 => words[Len(words)] = tail[Len(tail)])
      <3> DEFINE first == <<p>>
      <3>1. first \in Seq(S \ {SEP}) /\ Len(first) = 1 /\ first[1] = p /\ Len(tail) \in Nat
        BY <2>4, <2>5, LenProperties
      <3>2. words = first \o tail
        BY DEF p
      <3> HIDE DEF words, first
      <3>3. /\ words \in Seq(S \ {SEP}) /\ Len(words) = Len(first) + Len(tail)
            /\ \A j \in 1 .. Len(first) + Len(tail) :
                  words[j] = IF j <= Len(first) THEN first[j] ELSE tail[j - Len(first)]
        BY <2>5, <3>1, <3>2, ConcatProperties
      <3>4. QED
        BY <3>1, <3>3
    <2>7. Len(words) \in Nat /\ Len(words) >= 1 /\ words[1] # NoWord
      BY <2>3, <2>6 DEF p
    <2>8. PICK key, rest :
             /\ KeyParts(key, rest, S, words, Len(words) - 1)
             /\ CreateCompositeKey(prefix, tail) = KeyStep(NoWord, key, words[Len(words)])
             /\ KeyParts(CreateCompositeKey(prefix, tail),
                         KeyStep(NoWord, rest, words[Len(words)]), S, words, Len(words))
      BY <2>3, <2>4, <2>6, <2>7, KeyUnrolled
    <2> DEFINE whole == CreateCompositeKey(prefix, tail)
    <2>9. BytesKey(whole) = <<"", prefix>> \o tail \o <<"">>
      <3>1. Parts(Split(whole), S, 1, words, Len(tail) + 1)
        BY <2>6, <2>8 DEF KeyParts
      <3> HIDE DEF whole
      <3>2. prefix \in S
        BY <2>4 DEF p
      <3>3. Split(whole) = <<NoWord, prefix>> \o tail \o <<NoWord>>
        BY <2>4, <2>5, <3>1, <3>2, AllParts
      <3>4. QED
        BY <3>3 DEF BytesKey, NoWord
    <2>10. ASSUME tail # <<>>, Last(tail) # "" PROVE ProtoKey(whole) = words
      <3>1. Len(tail) >= 1 /\ Last(tail) = tail[Len(tail)]
        <4>1. Last(tail) = tail[Len(tail)]
          BY DEF Last
        <4>2. Len(tail) # 0
          BY <2>5, <2>10, EmptySeq
        <4>3. Len(tail) >= 1
          BY <2>6, <4>2
        <4>4. QED
          BY <4>1, <4>3
      <3>2. words[Len(words)] # NoWord
        BY <2>6, <2>10, <3>1 DEF NoWord
      <3> HIDE DEF words
      <3>3. Split(Trim(KeyStep(NoWord, key, words[Len(words)]))) = words
        BY <2>3, <2>4, <2>6, <2>7, <2>8, <3>2, TrimmedKey
      <3>4. QED
        BY <2>8, <3>3 DEF ProtoKey
    <2>11. QED
      BY <2>9, <2>10 DEF tail
  <1>2. TypeInv => KeysComeBack
    BY <1>1 DEF KeysComeBack
  <1>3. QED
    BY <1>2, InitTypes, NextTypes, PTL DEF Spec
=============================================================================
