------------------------------- MODULE Lists -------------------------------
\* Loops over lists, as folds, and functions with more elements.  The provers
\* know nothing of SelectSeq, of FlattenSeq and of the operators of TLC.
EXTENDS Sequences, SequencesExt

\* The elements of a sequence that are in a set, in their order.
Only(seq, S) ==
    FoldLeft(LAMBDA found, x : IF x \in S THEN Append(found, x) ELSE found, <<>>, seq)

\* One sequence after the other.
Concat(seqs) == FoldLeft(LAMBDA all, seq : all \o seq, <<>>, seqs)

\* f with what g has in its place or besides, as f.update(g) has it.
Update(f, g) ==
    [x \in DOMAIN f \union DOMAIN g |-> IF x \in DOMAIN g THEN g[x] ELSE f[x]]

\* The function of one element.
Single(x, v) == [y \in {x} |-> v]
=============================================================================
