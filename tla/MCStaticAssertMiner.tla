------------------------ MODULE MCStaticAssertMiner ------------------------
(* StaticAssertMiner for TLC: two record names, two sizes, headers of any   *)
(* length.  A sizeof names A, or A::B.                                      *)
EXTENDS StaticAssertMiner, TLC

CONSTANTS A, B

MCNames == {A, B}
MCAssertedNames == {<<A>>, <<A, B>>}

Symmetry == Permutations(Sizes)
=============================================================================
