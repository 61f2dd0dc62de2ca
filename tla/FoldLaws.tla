------------------------------ MODULE FoldLaws ------------------------------
(***************************************************************************)
(* Induction, and what the folds of the models compute, for sequences of   *)
(* any length.  The provers cannot instantiate a theorem that has an       *)
(* operator for a parameter; they can use a theorem of an instance of this *)
(* module, whose constant is the operator that is folded.                  *)
(***************************************************************************)
EXTENDS Integers, Sequences, SequencesExt, WellFoundedInduction, TLAPS

CONSTANT op(_, _, _)  \* op(k, a, x): from a, with the element x, where k is given

\* The fold FoldLeft makes of op with a given k.
Fold(k, base, seq) == FoldLeft(LAMBDA a, x : op(k, a, x), base, seq)
-----------------------------------------------------------------------------
(* Induction *)

\* A set of naturals that is not empty has a least element.
LEMMA LeastNatural ==
    ASSUME NEW T, T \subseteq Nat, T # {}
    PROVE  \E n \in T : \A m \in T : n <= m
  <1>1. PICK n \in T : \A m \in T : ~(<<m, n>> \in OpToRel(<, Nat))
    BY NatLessThanWellFounded, WFMin
  <1>2. \A m \in T : ~(m < n)
    BY <1>1 DEF OpToRel
  <1>3. QED
    BY <1>2

\* Induction over the naturals up to n, for a property given as a set.
LEMMA InductionUpTo ==
    ASSUME NEW T, NEW n \in Nat, 0 \in T, \A i \in 1 .. n : i - 1 \in T => i \in T
    PROVE  \A i \in 0 .. n : i \in T
  <1> DEFINE Missing == {i \in 0 .. n : i \notin T}
  <1>1. SUFFICES ASSUME Missing # {} PROVE FALSE
    OBVIOUS
  <1>2. PICK i \in Missing : \A j \in Missing : i <= j
    <2>1. Missing \subseteq Nat
      OBVIOUS
    <2> HIDE DEF Missing
    <2>2. QED
      BY <1>1, <2>1, LeastNatural
  <1>3. i \in 1 .. n /\ i - 1 \in 0 .. n /\ i - 1 \notin Missing
    BY <1>2
  <1>4. QED
    BY <1>2, <1>3
-----------------------------------------------------------------------------
(* Folds *)

\* The set iteration MapThenFoldSet makes, for the indices up to n.
Iterates(it, k, base, seq, n) ==
    it = [s \in SUBSET (1 .. n) |->
            IF s = {} THEN base ELSE op(k, it[s \ {Max(s)}], seq[Max(s)])]

\* The largest of some indices is one of them.
LEMMA MaxOfIndices ==
    ASSUME NEW n \in Nat, NEW s \in SUBSET (1 .. n), s # {}
    PROVE  Max(s) \in s /\ \A x \in s : Max(s) >= x
  <1> DEFINE Above == {n - x : x \in s}
  <1>1. PICK d \in Above : \A e \in Above : d <= e
    <2>1. \A x \in s : n - x \in Nat
      OBVIOUS
    <2>2. Above \subseteq Nat /\ Above # {}
      BY <2>1
    <2> HIDE DEF Above
    <2>3. QED
      BY <2>2, LeastNatural
  <1>2. \E x \in s : \A y \in s : x >= y
    BY <1>1
  <1>3. QED
    BY <1>2 DEF Max

\* There is such an iteration, for any number of indices.
LEMMA IterationExists ==
    ASSUME NEW k, NEW base, NEW seq, NEW n \in Nat
    PROVE  \E it : Iterates(it, k, base, seq, n)
  <1> DEFINE T == {m \in 0 .. n : \E it : Iterates(it, k, base, seq, m)}
  <1>1. 0 \in T
    <2>1. Iterates([s \in SUBSET (1 .. 0) |-> base], k, base, seq, 0)
      BY DEF Iterates
    <2>2. QED
      BY <2>1
  <1>2. ASSUME NEW m \in 1 .. n, m - 1 \in T PROVE m \in T
    <2>1. PICK old : Iterates(old, k, base, seq, m - 1)
      BY <1>2
    <2> DEFINE it == [s \in SUBSET (1 .. m) |->
                        IF m \in s THEN op(k, old[s \ {m}], seq[m]) ELSE old[s]]
    <2>2. ASSUME NEW s \in SUBSET (1 .. m), m \in s
          PROVE  it[s] = IF s = {} THEN base ELSE op(k, it[s \ {Max(s)}], seq[Max(s)])
      <3>1. Max(s) = m
        <4>1. Max(s) \in s /\ \A x \in s : Max(s) >= x
          BY <2>2, MaxOfIndices
        <4> DEFINE top == Max(s)
        <4>2. top \in 1 .. m /\ top >= m
          BY <2>2, <4>1
        <4> HIDE DEF top
        <4>3. top = m
          BY <4>2
        <4>4. QED
          BY <4>3 DEF top
      <3>2. s \ {m} \in SUBSET (1 .. m) /\ m \notin s \ {m}
        OBVIOUS
      <3>3. it[s \ {m}] = old[s \ {m}]
        BY <3>2
      <3>4. QED
        BY <2>2, <3>1, <3>3
    <2>3. ASSUME NEW s \in SUBSET (1 .. m), m \notin s
          PROVE  it[s] = IF s = {} THEN base ELSE op(k, it[s \ {Max(s)}], seq[Max(s)])
      <3>1. s \in SUBSET (1 .. m - 1)
        BY <2>3
      <3>2. it[s] = old[s]
        BY <2>3
      <3>3. old[s] = IF s = {} THEN base ELSE op(k, old[s \ {Max(s)}], seq[Max(s)])
        BY <2>1, <3>1 DEF Iterates
      <3>4. s \ {Max(s)} \in SUBSET (1 .. m) /\ m \notin s \ {Max(s)}
        BY <2>3
      <3>5. it[s \ {Max(s)}] = old[s \ {Max(s)}]
        BY <3>4
      <3>6. QED
        BY <3>2, <3>3, <3>5
    <2> HIDE DEF it
    <2>4. it = [s \in SUBSET (1 .. m) |->
                  IF s = {} THEN base ELSE op(k, it[s \ {Max(s)}], seq[Max(s)])]
      <3>1. it = [s \in SUBSET (1 .. m) |-> it[s]]
        BY DEF it
      <3>2. QED
        BY <3>1, <2>2, <2>3
    <2>5. Iterates(it, k, base, seq, m)
      BY <2>4 DEF Iterates
    <2>6. QED
      BY <2>5
  <1> HIDE DEF T
  <1>3. n \in T
    BY <1>1, <1>2, InductionUpTo
  <1>4. QED
    BY <1>3 DEF T

\* A fold goes through the sequence from its first element: f[i] is what the
\* fold has after i elements.
THEOREM FoldUnrolled ==
    ASSUME NEW k, NEW base, NEW S, NEW seq \in Seq(S)
    PROVE  \E f : /\ f[0] = base
                  /\ \A i \in 1 .. Len(seq) : f[i] = op(k, f[i - 1], seq[i])
                  /\ f[Len(seq)] = Fold(k, base, seq)
  <1> DEFINE n == Len(seq)
             it == CHOOSE it : Iterates(it, k, base, seq, n)
             f == [i \in 0 .. n |-> it[1 .. i]]
  <1>1. Iterates(it, k, base, seq, n)
    BY IterationExists
  <1>2. Fold(k, base, seq) = it[1 .. n]
    <2>1. DOMAIN seq = 1 .. n
      OBVIOUS
    <2>2. QED
      BY <2>1, Zenon DEF Fold, FoldLeft, MapThenFoldSet, Iterates, Max
  <1>3. f[0] = base
    BY <1>1 DEF Iterates
  <1>4. ASSUME NEW i \in 1 .. n PROVE f[i] = op(k, f[i - 1], seq[i])
    <2>1. 1 .. i \in SUBSET (1 .. n) /\ 1 .. i # {}
      OBVIOUS
    <2>2. Max(1 .. i) = i
      <3> DEFINE top == Max(1 .. i)
      <3>1. n \in Nat
        OBVIOUS
      <3>2. top \in 1 .. i /\ \A x \in 1 .. i : top >= x
        <4> HIDE DEF it, n
        <4>1. QED
          BY <2>1, <3>1, MaxOfIndices
      <3> HIDE DEF top
      <3>3. top = i
        BY <3>1, <3>2
      <3>4. QED
        BY <3>3 DEF top
    <2>3. (1 .. i) \ {i} = 1 .. i - 1
      OBVIOUS
    <2>4. it[1 .. i] = op(k, it[(1 .. i) \ {i}], seq[i])
      BY <1>1, <2>1, <2>2 DEF Iterates
    <2>5. f[i] = it[1 .. i] /\ f[i - 1] = it[1 .. i - 1]
      <3> HIDE DEF it
      <3>1. i \in 0 .. n /\ i - 1 \in 0 .. n
        OBVIOUS
      <3>2. QED
        BY <3>1
    <2> HIDE DEF f, it
    <2>6. QED
      BY <2>3, <2>4, <2>5
  <1>5. f[n] = it[1 .. n]
    OBVIOUS
  <1> HIDE DEF f, it
  <1>6. QED
    BY <1>2, <1>3, <1>4, <1>5

\* What a fold makes of no elements, and of one element more.
THEOREM FoldOfNone ==
    ASSUME NEW k, NEW base, NEW S, NEW seq \in Seq(S)
    PROVE  Len(seq) = 0 => Fold(k, base, seq) = base
  <1>1. PICK f : /\ f[0] = base
                 /\ \A i \in 1 .. Len(seq) : f[i] = op(k, f[i - 1], seq[i])
                 /\ f[Len(seq)] = Fold(k, base, seq)
    BY FoldUnrolled
  <1>2. QED
    BY <1>1

\* One element more is one more step.
THEOREM FoldOfAppend ==
    ASSUME NEW k, NEW base, NEW S, NEW seq \in Seq(S), NEW x \in S
    PROVE  Fold(k, base, Append(seq, x)) = op(k, Fold(k, base, seq), x)
  <1> DEFINE n == Len(seq)
             more == Append(seq, x)
  <1>1. /\ n \in Nat /\ more \in Seq(S) /\ Len(more) = n + 1 /\ more[n + 1] = x
        /\ \A i \in 1 .. n : more[i] = seq[i]
    OBVIOUS
  <1> HIDE DEF more
  <1>2. PICK f : /\ f[0] = base
                 /\ \A i \in 1 .. n : f[i] = op(k, f[i - 1], seq[i])
                 /\ f[n] = Fold(k, base, seq)
    BY FoldUnrolled
  <1>3. PICK g : /\ g[0] = base
                 /\ \A i \in 1 .. Len(more) : g[i] = op(k, g[i - 1], more[i])
                 /\ g[Len(more)] = Fold(k, base, more)
    BY <1>1, FoldUnrolled
  <1> HIDE DEF n
  <1> DEFINE T == {i \in 0 .. n : g[i] = f[i]}
  <1>4. 0 \in T
    BY <1>1, <1>2, <1>3
  <1>5. ASSUME NEW i \in 1 .. n, i - 1 \in T PROVE i \in T
    <2>1. i \in 1 .. Len(more) /\ more[i] = seq[i]
      BY <1>1
    <2>2. g[i] = op(k, g[i - 1], seq[i]) /\ f[i] = op(k, f[i - 1], seq[i])
      BY <1>2, <1>3, <2>1
    <2>3. g[i - 1] = f[i - 1]
      BY <1>5
    <2>4. QED
      BY <2>2, <2>3
  <1>6. g[n] = f[n]
    <2>1. n \in 0 .. n
      BY <1>1
    <2> HIDE DEF T
    <2>2. n \in T
      BY <1>1, <1>4, <1>5, <2>1, InductionUpTo
    <2>3. QED
      BY <2>2 DEF T
  <1>7. n + 1 \in 1 .. Len(more) /\ n + 1 - 1 = n
    BY <1>1
  <1>8. g[n + 1] = op(k, g[n], x)
    BY <1>1, <1>3, <1>7
  <1>9. QED
    BY <1>1, <1>2, <1>3, <1>6, <1>8 DEF more

-----------------------------------------------------------------------------
(* Selections *)

\* f[i] is the selection, from the first i elements of a sequence, of those
\* that are in a set.
Selects(f, keep, seq) ==
    /\ f[0] = <<>>
    /\ \A i \in 1 .. Len(seq) :
          f[i] = IF seq[i] \in keep THEN Append(f[i - 1], seq[i]) ELSE f[i - 1]

\* A selection is a sequence of what was selected from.
LEMMA SelectionType ==
    ASSUME NEW S, NEW seq \in Seq(S), NEW keep, NEW f, Selects(f, keep, seq)
    PROVE  \A i \in 0 .. Len(seq) : f[i] \in Seq(S)
  <1> DEFINE T == {i \in 0 .. Len(seq) : f[i] \in Seq(S)}
  <1>1. 0 \in T
    <2>1. f[0] = <<>> /\ <<>> \in Seq(S) /\ 0 \in 0 .. Len(seq)
      BY DEF Selects
    <2>2. QED
      BY <2>1
  <1>2. ASSUME NEW i \in 1 .. Len(seq), i - 1 \in T PROVE i \in T
    <2>1. f[i] = IF seq[i] \in keep THEN Append(f[i - 1], seq[i]) ELSE f[i - 1]
      BY DEF Selects
    <2>2. f[i - 1] \in Seq(S) /\ seq[i] \in S
      BY <1>2
    <2>3. f[i] \in Seq(S)
      <3>1. CASE seq[i] \in keep
        BY <2>1, <2>2, <3>1
      <3>2. CASE seq[i] \notin keep
        BY <2>1, <2>2, <3>2
      <3>3. QED
        BY <3>1, <3>2
    <2>4. QED
      BY <2>3
  <1> HIDE DEF T
  <1>3. \A i \in 0 .. Len(seq) : i \in T
    <2>1. Len(seq) \in Nat
      OBVIOUS
    <2>2. QED
      BY <1>1, <1>2, <2>1, InductionUpTo
  <1>4. QED
    BY <1>3 DEF T

\* What one more element does to a selection.
LEMMA SelectionStep ==
    ASSUME NEW S, NEW seq \in Seq(S), NEW keep, NEW f, Selects(f, keep, seq),
           NEW i \in 1 .. Len(seq)
    PROVE  /\ f[i - 1] \in Seq(S) /\ f[i] \in Seq(S)
           /\ seq[i] \in keep =>
                 /\ Len(f[i]) = Len(f[i - 1]) + 1 /\ f[i][Len(f[i])] = seq[i]
                 /\ \A m \in 1 .. Len(f[i - 1]) : f[i][m] = f[i - 1][m]
           /\ seq[i] \notin keep => f[i] = f[i - 1]
  <1>1. f[i] = IF seq[i] \in keep THEN Append(f[i - 1], seq[i]) ELSE f[i - 1]
    BY DEF Selects
  <1>2. f[i - 1] \in Seq(S) /\ seq[i] \in S
    BY SelectionType
  <1>3. QED
    BY <1>1, <1>2

\* What is selected among the first elements stays where it is; every element of
\* the set that has been reached is selected, at the place that is the length of
\* the selection then, and nothing else is.
LEMMA SelectionPlaces ==
    ASSUME NEW S, NEW seq \in Seq(S), NEW keep, NEW f, Selects(f, keep, seq)
    PROVE  \A i \in 0 .. Len(seq) :
              /\ f[i] \in Seq(S) /\ Len(f[i]) <= i
              /\ \A j \in 1 .. i : seq[j] \in keep =>
                    Len(f[j]) \in 1 .. Len(f[i]) /\ f[i][Len(f[j])] = seq[j]
              /\ \A m \in 1 .. Len(f[i]) : \E j \in 1 .. i :
                    seq[j] \in keep /\ Len(f[j]) = m /\ f[i][m] = seq[j]
  <1> DEFINE Placed(i) ==
                /\ f[i] \in Seq(S) /\ Len(f[i]) <= i
                /\ \A j \in 1 .. i : seq[j] \in keep =>
                      Len(f[j]) \in 1 .. Len(f[i]) /\ f[i][Len(f[j])] = seq[j]
                /\ \A m \in 1 .. Len(f[i]) : \E j \in 1 .. i :
                      seq[j] \in keep /\ Len(f[j]) = m /\ f[i][m] = seq[j]
             T == {i \in 0 .. Len(seq) : Placed(i)}
  <1>1. 0 \in T
    <2>1. f[0] = <<>> /\ Len(<<>>) = 0 /\ <<>> \in Seq(S)
      BY DEF Selects
    <2>2. \A j \in 1 .. 0 : FALSE
      OBVIOUS
    <2>3. Placed(0)
      BY <2>1, <2>2
    <2>4. QED
      BY <2>3
  <1>2. ASSUME NEW i \in 1 .. Len(seq), i - 1 \in T PROVE i \in T
    <2>1. Placed(i - 1) /\ i - 1 \in 0 .. Len(seq)
      BY <1>2
    <2>2. CASE seq[i] \in keep
      <3>1. /\ f[i - 1] \in Seq(S) /\ f[i] \in Seq(S)
            /\ Len(f[i]) = Len(f[i - 1]) + 1 /\ f[i][Len(f[i])] = seq[i]
            /\ \A m \in 1 .. Len(f[i - 1]) : f[i][m] = f[i - 1][m]
        BY <2>2, SelectionStep
      <3>2. Len(f[i]) <= i
        BY <2>1, <3>1
      <3>3. ASSUME NEW j \in 1 .. i, seq[j] \in keep
            PROVE  Len(f[j]) \in 1 .. Len(f[i]) /\ f[i][Len(f[j])] = seq[j]
        <4>1. CASE j = i
          BY <3>1, <4>1
        <4>2. CASE j \in 1 .. i - 1
          <5>1. Len(f[j]) \in 1 .. Len(f[i - 1]) /\ f[i - 1][Len(f[j])] = seq[j]
            BY <2>1, <3>3, <4>2
          <5>2. QED
            BY <3>1, <5>1
        <4>3. QED
          BY <4>1, <4>2
      <3>4. ASSUME NEW m \in 1 .. Len(f[i])
            PROVE  \E j \in 1 .. i : seq[j] \in keep /\ Len(f[j]) = m /\ f[i][m] = seq[j]
        <4>1. CASE m = Len(f[i])
          BY <2>2, <3>1, <4>1
        <4>2. CASE m \in 1 .. Len(f[i - 1])
          BY <2>1, <3>1, <4>2
        <4>3. QED
          BY <3>1, <4>1, <4>2
      <3>5. QED
        BY <3>1, <3>2, <3>3, <3>4
    <2>3. CASE seq[i] \notin keep
      <3>1. f[i] = f[i - 1]
        BY <2>3, SelectionStep
      <3>2. \A j \in 1 .. i : seq[j] \in keep => j \in 1 .. i - 1
        BY <2>3
      <3>3. QED
        BY <2>1, <3>1, <3>2
    <2>4. QED
      BY <2>2, <2>3
  <1> HIDE DEF T
  <1>3. \A i \in 0 .. Len(seq) : i \in T
    <2>1. Len(seq) \in Nat
      OBVIOUS
    <2>2. QED
      BY <1>1, <1>2, <2>1, InductionUpTo
  <1>4. QED
    BY <1>3 DEF T

\* Of more elements the selection is longer, at every place of the sequence.
LEMMA SelectionGrows ==
    ASSUME NEW S, NEW seq \in Seq(S), NEW keep, NEW more, keep \subseteq more,
           NEW f, NEW g, Selects(f, keep, seq), Selects(g, more, seq)
    PROVE  \A i \in 0 .. Len(seq) : Len(f[i]) <= Len(g[i])
  <1> DEFINE T == {i \in 0 .. Len(seq) : Len(f[i]) <= Len(g[i])}
  <1>1. 0 \in T
    BY DEF Selects
  <1>2. ASSUME NEW i \in 1 .. Len(seq), i - 1 \in T PROVE i \in T
    <2>1. /\ f[i - 1] \in Seq(S) /\ f[i] \in Seq(S)
          /\ seq[i] \in keep => Len(f[i]) = Len(f[i - 1]) + 1
          /\ seq[i] \notin keep => f[i] = f[i - 1]
      BY SelectionStep
    <2>2. /\ g[i - 1] \in Seq(S) /\ g[i] \in Seq(S)
          /\ seq[i] \in more => Len(g[i]) = Len(g[i - 1]) + 1
          /\ seq[i] \notin more => g[i] = g[i - 1]
      BY SelectionStep
    <2>3. QED
      BY <1>2, <2>1, <2>2
  <1> HIDE DEF T
  <1>3. \A i \in 0 .. Len(seq) : i \in T
    <2>1. Len(seq) \in Nat
      OBVIOUS
    <2>2. QED
      BY <1>1, <1>2, <2>1, InductionUpTo
  <1>4. QED
    BY <1>3 DEF T

\* A selection has the elements that are in the set, in their order.
LEMMA SelectionRange ==
    ASSUME NEW S, NEW seq \in Seq(S), NEW keep, NEW f, Selects(f, keep, seq)
    PROVE  /\ f[Len(seq)] \in Seq(S) /\ Len(f[Len(seq)]) <= Len(seq)
           /\ Range(f[Len(seq)]) = Range(seq) \intersect keep
           /\ \A a, b \in DOMAIN f[Len(seq)] : a < b =>
                 \E i, j \in 1 .. Len(seq) :
                    i < j /\ f[Len(seq)][a] = seq[i] /\ f[Len(seq)][b] = seq[j]
  <1> DEFINE n == Len(seq)
             only == f[n]
  <1>1. n \in Nat /\ DOMAIN seq = 1 .. n
    OBVIOUS
  <1> HIDE DEF n
  <1>2. \A i \in 0 .. n :
           /\ f[i] \in Seq(S) /\ Len(f[i]) <= i
           /\ \A j \in 1 .. i : seq[j] \in keep =>
                 Len(f[j]) \in 1 .. Len(f[i]) /\ f[i][Len(f[j])] = seq[j]
           /\ \A m \in 1 .. Len(f[i]) : \E j \in 1 .. i :
                 seq[j] \in keep /\ Len(f[j]) = m /\ f[i][m] = seq[j]
    BY SelectionPlaces DEF n
  <1>3. /\ only \in Seq(S) /\ Len(only) <= n /\ DOMAIN only = 1 .. Len(only)
        /\ \A j \in 1 .. n : seq[j] \in keep =>
              Len(f[j]) \in 1 .. Len(only) /\ only[Len(f[j])] = seq[j]
        /\ \A m \in 1 .. Len(only) : \E j \in 1 .. n :
              seq[j] \in keep /\ Len(f[j]) = m /\ only[m] = seq[j]
    <2>1. n \in 0 .. n
      BY <1>1
    <2>2. only \in Seq(S)
      BY <1>2, <2>1
    <2>3. DOMAIN only = 1 .. Len(only)
      <3> HIDE DEF only
      <3>1. QED
        BY <2>2
    <2>4. /\ Len(only) <= n
          /\ \A j \in 1 .. n : seq[j] \in keep =>
                Len(f[j]) \in 1 .. Len(only) /\ only[Len(f[j])] = seq[j]
          /\ \A m \in 1 .. Len(only) : \E j \in 1 .. n :
                seq[j] \in keep /\ Len(f[j]) = m /\ only[m] = seq[j]
      BY <1>2, <2>1
    <2>5. QED
      BY <2>2, <2>3, <2>4
  <1> HIDE DEF only
  <1>4. Range(only) = Range(seq) \intersect keep
    <2>1. ASSUME NEW x \in Range(only) PROVE x \in Range(seq) \intersect keep
      BY <1>1, <1>3, <2>1 DEF Range
    <2>2. ASSUME NEW x \in Range(seq), x \in keep PROVE x \in Range(only)
      <3>1. PICK j \in 1 .. n : x = seq[j]
        BY <1>1 DEF Range
      <3>2. QED
        BY <1>3, <2>2, <3>1 DEF Range
    <2>3. QED
      BY <2>1, <2>2
  <1>5. ASSUME NEW a \in DOMAIN only, NEW b \in DOMAIN only, a < b
        PROVE  \E i, j \in 1 .. n : i < j /\ only[a] = seq[i] /\ only[b] = seq[j]
    <2>1. PICK i \in 1 .. n : Len(f[i]) = a /\ only[a] = seq[i]
      BY <1>3
    <2>2. PICK j \in 1 .. n : seq[j] \in keep /\ Len(f[j]) = b /\ only[b] = seq[j]
      BY <1>3
    <2>3. i < j
      <3>1. ~(j \in 1 .. i)
        <4>1. i \in 0 .. n /\ f[i] \in Seq(S)
          BY <1>2
        <4>2. j \in 1 .. i => Len(f[j]) \in 1 .. Len(f[i])
          BY <1>2, <2>2, <4>1
        <4>3. QED
          BY <1>5, <2>1, <2>2, <4>2
      <3>2. QED
        BY <1>1, <3>1
    <2>4. QED
      BY <2>1, <2>2, <2>3
  <1>6. \A a, b \in DOMAIN only : a < b =>
           \E i, j \in 1 .. n : i < j /\ only[a] = seq[i] /\ only[b] = seq[j]
    BY <1>5
  <1>7. only \in Seq(S) /\ Len(only) <= n
    BY <1>3
  <1>8. QED
    BY <1>4, <1>6, <1>7 DEF n, only
=============================================================================
