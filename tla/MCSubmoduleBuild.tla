------------------------- MODULE MCSubmoduleBuild -------------------------
(* TLC instances of SubmoduleBuild. *)
EXTENDS SubmoduleBuild
=============================================================================
