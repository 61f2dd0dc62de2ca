----------------------------- MODULE MCMapPages -----------------------------
\* Names by the order of their keys: one word, the same word with an empty one
\* after it, and two words.
EXTENDS MapPages

CONSTANTS n1, n2, n3

MCOrder == <<n1, n2, n3>>
MCPath == n1 :> <<"a">> @@ n2 :> <<"a", "">> @@ n3 :> <<"b", "c">>
MCWords == {<<>>, <<"a">>}
Symmetry == Permutations(Slot)
=============================================================================
