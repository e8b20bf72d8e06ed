--------------------------- MODULE MCArchiveBuild ---------------------------
(* TLC instances of ArchiveBuild. *)
EXTENDS ArchiveBuild

TwoPaths == <<"/", "/nested">>

\* Every option; what generate_gdt.sh passes for SE and VR; the JSON alone.
SomeOptions == {{"hints", "annotate", "csv", "json"}, {"annotate", "csv"}, {"json"}}
\* No archive, and one of an earlier revision of the headers.
SomeLeftovers ==
    {<<>>, [k \in Keys |-> [kind |-> "struct", size |-> 4, to |-> None,
                          desc |-> <<"OK">>, moved |-> FALSE]]}
=============================================================================
