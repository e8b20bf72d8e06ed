-------------------------- MODULE VerifiedRatchet --------------------------
(***************************************************************************)
(* What the coverage gate promises (README.md: "versioned and CI-          *)
(* regression-gated, so an update can't silently get worse"): a class that *)
(* was once recorded byte-accurate stays recorded so, at the same size,    *)
(* unless it is among those that the update accepts as worse.              *)
(***************************************************************************)
CONSTANTS Keys, Sizes

VARIABLES
    verified,  \* the pairs <<class, size>> recorded as byte-accurate
    accepted   \* the classes listed as worse by the last update

OneSizeEach ==
    \A p, q \in verified : p[1] = q[1] => p[2] = q[2]

Init == verified \subseteq Keys \X Sizes /\ OneSizeEach /\ accepted = {}

Update ==
    /\ verified' \subseteq Keys \X Sizes
    /\ accepted' \subseteq Keys
    /\ \A p \in verified : p \in verified' \/ p[1] \in accepted'
    /\ OneSizeEach'

Spec == Init /\ [][Update]_<<verified, accepted>>
=============================================================================
