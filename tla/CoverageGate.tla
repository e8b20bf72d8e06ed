---------------------------- MODULE CoverageGate ----------------------------
(***************************************************************************)
(* The regression gate of the type importer: a full sweep per runtime, its *)
(* classification against the mined static_asserts (coverage_report.py),   *)
(* the comparison with the committed baseline (check_regression.py), and   *)
(* the commits to main that the workflow type-importer-coverage.yml tests. *)
(* Nothing makes a commit wait for that verdict, and a commit may bring a  *)
(* regenerated baseline whatever the comparison with the old one said.     *)
(*                                                                         *)
(* A key is one class under one runtime.  Anonymous types and anon_tmpl_   *)
(* synthetics, which the report leaves out of its snapshot, are not keys.  *)
(***************************************************************************)
EXTENDS Classification

CONSTANTS
    Runtimes,  \* the workflow's matrix
    Classes    \* class names

VARIABLES
    layout,    \* size that a sweep of HEAD resolves for each key, None if it does not
    asserts,   \* size that the miner finds asserted at HEAD, None if it finds none
    baseline,  \* the coverage_baseline*.json files at HEAD
    accepted   \* history: keys that HEAD records although the comparison of its
               \* sweep with the baseline it replaced lists them as regressions

vars == <<layout, asserts, baseline, accepted>>

Keys == Runtimes \X Classes

-----------------------------------------------------------------------------
(* coverage_report.py, with the classification of module Classification *)

\* A name in neither input has no entry; both scripts treat the missing entry
\* as UNRESOLVED with nothing expected, so it is recorded as that here.
Snapshot(asr, lay) == [k \in Keys |-> EntryOf(asr[k], lay[k])]

-----------------------------------------------------------------------------
(* check_regression.py *)

Rank(s) ==
    CASE s = "UNRESOLVED" -> 0
      [] s = "EMPTY" -> 1
      [] s = "MISMATCH" -> 2
      [] s = "NO_GROUND_TRUTH" -> 3
      [] s = "OK" -> 4

\* (Fault: only a class that was byte-accurate counts as having had an assert.)
LostAssertOkOnly(base, new) ==
    base.status = "OK" /\ new.status = "NO_GROUND_TRUTH"

\* The miner lost an assert that it had found before.
LostAssert(base, new) ==
    base.status \in {"MISMATCH", "OK"} /\ new.status = "NO_GROUND_TRUTH"

\* (Fault: the comparison of sizes, thought unreachable, is left out.)
RegressedByRank(base, new) ==
    LostAssert(base, new) \/ Rank(new.status) < Rank(base.status)

Regressed(base, new) ==
    \/ LostAssert(base, new)
    \/ Rank(new.status) < Rank(base.status)
    \/ base.status = "OK" /\ new.status = "OK" /\ new.actual # base.actual

Green(base, new) == \A k \in Keys : ~Regressed(base[k], new[k])

-----------------------------------------------------------------------------
TypeOK ==
    /\ layout \in [Keys -> MaybeSize]
    /\ asserts \in [Keys -> MaybeSize]
    /\ baseline \in [Keys -> Entries]
    /\ accepted \subseteq Keys

HeadSnapshot == Snapshot(asserts, layout)

\* The workflow's verdict on main as it is.
HeadGreen == Green(baseline, HeadSnapshot)

\* The first baseline is the snapshot of the first full sweep.
Init ==
    /\ layout \in [Keys -> MaybeSize]
    /\ asserts \in [Keys -> MaybeSize]
    /\ baseline = HeadSnapshot
    /\ accepted = {}

\* (Fault: the regeneration writes every runtime's file, asked for or not.)
RegenerateAll(Rs, asr, lay) ==
    IF Rs = {} THEN baseline ELSE Snapshot(asr, lay)

\* A commit that regenerates the baseline files of the runtimes in Rs.
Regenerate(Rs, asr, lay) ==
    [k \in Keys |-> IF k[1] \in Rs THEN EntryOf(asr[k], lay[k]) ELSE baseline[k]]

\* The commit changes parser patches, stubs, the miner or the CommonLibSSE-NG
\* revision, and so what sweep and miner say of any class.  A job checks out
\* the commit under test, so the baseline it compares with is the commit's own:
\* what regenerating records for the worse is seen only by a comparison with the
\* baseline being replaced, which the author runs, or does not.
Commit(lay, asr, Rs) ==
    /\ layout' = lay
    /\ asserts' = asr
    /\ baseline' = Regenerate(Rs, asr, lay)
    /\ accepted' = {k \in Keys : k[1] \in Rs /\ Regressed(baseline[k], EntryOf(asr[k], lay[k]))}

Next ==
    \E lay, asr \in [Keys -> MaybeSize] : \E Rs \in SUBSET Runtimes : Commit(lay, asr, Rs)

Spec == Init /\ [][Next]_vars

-----------------------------------------------------------------------------
(* Properties *)

Verified == {p \in Keys \X Sizes :
                baseline[p[1]].status = "OK" /\ baseline[p[1]].actual = p[2]}

Ratchet == INSTANCE VerifiedRatchet WITH verified <- Verified

\* However baselines are regenerated, by commits pushed green or red, a class
\* recorded byte-accurate loses that, or its size, only where check_regression.py
\* lists it when run against the baseline being replaced: no loss is silent.
ImplementsRatchet == Ratchet!Spec

\* A green verdict on HEAD means that every VERIFIED stamp an archive built
\* from HEAD would carry is true: the size resolved is the size asserted.
GreenMeansAccurate ==
    HeadGreen =>
        \A k \in Keys : baseline[k].status = "OK" =>
            layout[k] = baseline[k].actual /\ asserts[k] = layout[k]

\* A class once compared with a static_assert, rightly or wrongly sized, stays
\* compared, or the comparison with the replaced baseline lists it: losing the
\* assert never reads as progress (lines 53-63).
CheckedStaysChecked ==
    [][\A k \in Keys : baseline[k].status \in {"MISMATCH", "OK"} =>
            baseline'[k].status \in {"MISMATCH", "OK"} \/ k \in accepted']_vars
=============================================================================
