---------------------------- MODULE PackageTool ----------------------------
(***************************************************************************)
(* What the tool runtimeharness.ai_package promises its caller: every      *)
(* actor seen, "with its most recently observed package"                   *)
(* (DevBenchIntegration.cpp), all of it as of one moment of the call.      *)
(***************************************************************************)
CONSTANTS Actors, Packages, None

VARIABLES
  known,   \* the package last observed of each actor, None before the first
  call,    \* the call: "none", "asked" or "taken"
  answer   \* the table that a call has taken, None before

Tables == [Actors -> Packages \cup {None}]

Init == known = [a \in Actors |-> None] /\ call = "none" /\ answer = None

Observe(a, p) == known' = [known EXCEPT ![a] = p] /\ UNCHANGED <<call, answer>>

Ask  == call = "none" /\ call' = "asked" /\ UNCHANGED <<known, answer>>

Take == call = "asked" /\ call' = "taken" /\ answer' = known /\ UNCHANGED known

Give == call = "taken" /\ call' = "none" /\ answer' = None /\ UNCHANGED known

Next == (\E a \in Actors, p \in Packages : Observe(a, p)) \/ Ask \/ Take \/ Give

Spec == Init /\ [][Next]_<<known, call, answer>>
=============================================================================
