-------------------------- MODULE MCRuntimeHarness --------------------------
(* RuntimeHarness for TLC: two actors, two packages, two update threads.    *)
EXTENDS RuntimeHarness
=============================================================================
