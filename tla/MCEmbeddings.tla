---------------------------- MODULE MCEmbeddings ----------------------------
(* Texts that fit a window together, and one that fills two windows. *)
EXTENDS Embeddings, TLC

MCTexts == {<<1>>, <<2, 2, 2, 2, 2, 2>>}
MCNames == {<<>>, <<7>>}
MCSummaries == {<<>>, <<"c">>, <<"d", "c">>}
Symmetry == Permutations(Models)

=============================================================================
