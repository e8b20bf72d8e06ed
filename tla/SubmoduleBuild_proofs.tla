----------------------- MODULE SubmoduleBuild_proofs -----------------------
(***************************************************************************)
(* Proofs about SubmoduleBuild for any runs, any number of patches and any *)
(* kinds of edits.                                                         *)
(***************************************************************************)
EXTENDS SubmoduleBuild, TLAPS

\* The facts about the constants and the sets that most steps need.
LEMMA PatchRange ==
    /\ NumPatches \in Nat /\ NumPatches > 0
    /\ FfmPort \in Nat
    /\ \A j \in JavaMajors : LastPatch(j) \in 1..FfmPort
    /\ \A j \in JavaMajors : FullPatchSet(j) \subseteq Patches
    /\ HalfApplied \in Patches
    /\ 1..FfmPort \subseteq Patches
BY NumPatchesAssumption
   DEF FfmPort, LastPatch, FullPatchSet, JavaMajors, Patches, HalfApplied

-----------------------------------------------------------------------------
\* TypeOK alone is not inductive: a run at its last patch must not count on.
TypeInv == TypeOK /\ \A r \in Runs : next[r] \in 1..LastPatch(jdk[r])

LEMMA TypeInvInit == Init => TypeInv
BY PatchRange DEF Init, TypeInv, TypeOK, LastPatch

LEMMA TypeInvStep == TypeInv /\ [Next]_vars => TypeInv'
<1> SUFFICES ASSUME TypeInv, [Next]_vars PROVE TypeInv'
  OBVIOUS
<1> USE DEF TypeInv, TypeOK, Live, Ended, Goto, Fail
<1>1. CASE Edit
  BY <1>1 DEF Edit, NoLongerAlone
<1>2. CASE OpenGit
  BY <1>2 DEF OpenGit, NoLongerAlone
<1>3. CASE CloseGit
  BY <1>3 DEF CloseGit, NoLongerAlone
<1>4. CASE RemoveLock
  BY <1>4 DEF RemoveLock, NoLongerAlone
<1>5. ASSUME NEW r \in Runs, Start(r) PROVE TypeInv'
  BY <1>5, Zenon DEF Start, NoLongerAlone
<1>6. ASSUME NEW r \in Runs, CheckTree(r) PROVE TypeInv'
  BY <1>6 DEF CheckTree
<1>7. ASSUME NEW r \in Runs, ApplyPatch(r) PROVE TypeInv'
  <2>1. applied' \subseteq Patches
    BY <1>7, PatchRange DEF ApplyPatch
  <2>2. next' \in [Runs -> 1..FfmPort] /\ \A s \in Runs : next'[s] \in 1..LastPatch(jdk[s])
    <3>1. CASE UNCHANGED next
      BY <3>1
    <3>2. CASE next[r] # LastPatch(jdk[r]) /\ next' = [next EXCEPT ![r] = @ + 1]
      <4>1. next[r] + 1 \in 1..LastPatch(jdk[r])
        BY <3>2, PatchRange
      <4>2. next[r] + 1 \in 1..FfmPort
        BY <4>1, PatchRange
      <4> QED
        BY <3>2, <4>1, <4>2
    <3> QED
      BY <1>7, <3>1, <3>2 DEF ApplyPatch
  <2>3. pc' \in [Runs -> {"idle"} \cup Live \cup Ended]
    BY <1>7 DEF ApplyPatch
  <2> QED
    BY <1>7, <2>1, <2>2, <2>3 DEF ApplyPatch
<1>8. ASSUME NEW r \in Runs, Gradle(r) PROVE TypeInv'
  BY <1>8 DEF Gradle, Classes
<1>9. ASSUME NEW r \in Runs, Javac(r) PROVE TypeInv'
  BY <1>9 DEF Javac
<1>10. ASSUME NEW r \in Runs, Java(r) PROVE TypeInv'
  BY <1>10 DEF Java
<1>11. ASSUME NEW r \in Runs, LockIndex(r) PROVE TypeInv'
  BY <1>11 DEF LockIndex
<1>12. ASSUME NEW r \in Runs, Checkout(r) PROVE TypeInv'
  BY <1>12 DEF Checkout, RestoredInPart
<1>13. ASSUME NEW r \in Runs, Clean(r) PROVE TypeInv'
  BY <1>13 DEF Clean
<1>14. ASSUME NEW r \in Runs, Kill(r) PROVE TypeInv'
  BY <1>14 DEF Kill, RestoredInPart
<1>15. CASE UNCHANGED vars
  BY <1>15 DEF vars
<1> QED
  BY <1>1, <1>2, <1>5, <1>6, <1>7, <1>8, <1>9, <1>10, <1>12, <1>13, <1>14, <1>15,
     <1>3, <1>4, <1>11
     DEF Next, Step

\* Every reachable state has the declared types.
THEOREM TypeCorrect == Spec => []TypeOK
<1>1. TypeInv => TypeOK
  BY DEF TypeInv
<1> QED
  BY <1>1, TypeInvInit, TypeInvStep, PTL DEF Spec

-----------------------------------------------------------------------------
\* A run that may have patches in the tree, up to its `git checkout`, ...
MayHavePatched(r) ==
    pc[r] \in {"patch", "gradle", "javac", "java", "checkout", "restore",
               "killed", "locked", "failed"}

\* ... and one that may have half a patch there, up to its `git clean`.
MayHaveLeftovers(r) == MayHavePatched(r) \/ pc[r] = "clean"

\* PristineUnlessGitFailed is not inductive: a run that removes its leftovers
\* could be the last one to excuse another run's patches.
PristineInv ==
    /\ ~(applied \subseteq {HalfApplied}) => \E r \in Runs : MayHavePatched(r)
    /\ applied # {} => \E r \in Runs : MayHaveLeftovers(r)

LEMMA PristineInvInit == Init => PristineInv
BY DEF Init, PristineInv

LEMMA PristineInvStep == TypeInv /\ PristineInv /\ [Next]_vars => PristineInv'
<1> SUFFICES ASSUME TypeInv, PristineInv, [Next]_vars PROVE PristineInv'
  OBVIOUS
<1> USE DEF TypeInv, TypeOK, PristineInv, MayHavePatched, MayHaveLeftovers, Goto, Fail
<1>1. CASE Edit
  BY <1>1 DEF Edit
<1>2. CASE OpenGit
  BY <1>2 DEF OpenGit
<1>3. CASE CloseGit
  BY <1>3 DEF CloseGit
<1>4. CASE RemoveLock
  BY <1>4 DEF RemoveLock
<1>5. ASSUME NEW r \in Runs, Start(r) PROVE PristineInv'
  BY <1>5 DEF Start
<1>6. ASSUME NEW r \in Runs, CheckTree(r) PROVE PristineInv'
  BY <1>6 DEF CheckTree
<1>7. ASSUME NEW r \in Runs, ApplyPatch(r) PROVE PristineInv'
  BY <1>7 DEF ApplyPatch
<1>8. ASSUME NEW r \in Runs, Gradle(r) PROVE PristineInv'
  BY <1>8 DEF Gradle
<1>9. ASSUME NEW r \in Runs, Javac(r) PROVE PristineInv'
  BY <1>9 DEF Javac
<1>10. ASSUME NEW r \in Runs, Java(r) PROVE PristineInv'
  BY <1>10 DEF Java
<1>11. ASSUME NEW r \in Runs, LockIndex(r) PROVE PristineInv'
  BY <1>11 DEF LockIndex
<1>12. ASSUME NEW r \in Runs, Checkout(r) PROVE PristineInv'
  <2>1. CASE applied' = applied \cap {HalfApplied} /\ pc' = [pc EXCEPT ![r] = "clean"]
    <3>1. applied' \subseteq {HalfApplied} /\ MayHaveLeftovers(r)'
      BY <2>1
    <3> QED
      BY <3>1
  <2>2. CASE pc' = [pc EXCEPT ![r] = "failed"]
    BY <2>2
  <2> QED
    BY <1>12, <2>1, <2>2 DEF Checkout
<1>13. ASSUME NEW r \in Runs, Clean(r) PROVE PristineInv'
  <2>1. CASE applied' = applied \ {HalfApplied} /\ pc' = [pc EXCEPT ![r] = "done"]
    <3>1. ~MayHavePatched(r)
      BY <1>13 DEF Clean
    <3>2. ASSUME NEW s \in Runs, MayHavePatched(s) PROVE MayHavePatched(s)'
      BY <2>1, <3>1, <3>2
    <3> QED
      BY <2>1, <3>2
  <2>2. CASE pc' = [pc EXCEPT ![r] = "failed"]
    BY <2>2
  <2> QED
    BY <1>13, <2>1, <2>2 DEF Clean
<1>14. ASSUME NEW r \in Runs, Kill(r) PROVE PristineInv'
  BY <1>14 DEF Kill, RestoredInPart
<1>15. CASE UNCHANGED vars
  BY <1>15 DEF vars
<1> QED
  BY <1>1, <1>2, <1>5, <1>6, <1>7, <1>8, <1>9, <1>10, <1>12, <1>13, <1>14, <1>15,
     <1>3, <1>4, <1>11
     DEF Next, Step

\* However runs overlap, patches stay in the tree only while a run is going,
\* or after one was killed or its trap's git was refused or failed (line 98).
THEOREM Pristine == Spec => []PristineUnlessGitFailed
<1>1. PristineInv => PristineUnlessGitFailed
  BY DEF PristineInv, PristineUnlessGitFailed, MayHavePatched, MayHaveLeftovers, Live
<1> QED
  BY <1>1, TypeInvInit, TypeInvStep, PristineInvInit, PristineInvStep, PTL DEF Spec

-----------------------------------------------------------------------------
\* A run that is alone with the submodule and still going.
Lone(r) == alone[r] /\ pc[r] \in Live

\* What each line of a lone run can count on, and that no other run is going
\* which could take it away.
LoneInv ==
    /\ \A r, s \in Runs : Lone(r) /\ pc[s] \in Live => r = s
    /\ \A r \in Runs : pc[r] \in {"idle", "armed"} => next[r] = 1
    /\ \A r \in Runs : Lone(r) /\ pc[r] = "patch" =>
            edits = {} /\ applied = 1..(next[r] - 1)
    /\ \A r \in Runs : Lone(r) /\ pc[r] = "gradle" =>
            edits = {} /\ applied = FullPatchSet(jdk[r])
    /\ \A r \in Runs : Lone(r) /\ pc[r] \in {"javac", "java"} => classes = Accepted(r)
    /\ \A r \in Runs : pc[r] = "idle" => archive[r] = NoClasses
    /\ \A r \in Runs : alone[r] => archive[r] \in {NoClasses, Accepted(r)}

LEMMA LoneInvInit == Init => LoneInv
BY DEF Init, LoneInv, Lone, Live

\* A step of a run that is not alone leaves a lone run no worse: there is none.
LEMMA LoneInvStep == TypeInv /\ LoneInv /\ [Next]_vars => LoneInv'
<1> SUFFICES ASSUME TypeInv, LoneInv, [Next]_vars PROVE LoneInv'
  OBVIOUS
<1> USE DEF TypeInv, TypeOK, LoneInv, Lone, Live, Ended, Goto, Fail, Accepted
<1>1. CASE Edit
  <2>1. \A r \in Runs : ~(alone'[r] /\ pc[r] \in Live) /\ (alone'[r] => alone[r])
    BY <1>1, Zenon DEF Edit, NoLongerAlone, LiveRuns
  <2> QED
    BY <1>1, <2>1 DEF Edit
<1>2. CASE OpenGit
  <2>1. \A r \in Runs : ~(alone'[r] /\ pc[r] \in Live) /\ (alone'[r] => alone[r])
    BY <1>2, Zenon DEF OpenGit, NoLongerAlone, LiveRuns
  <2> QED
    BY <1>2, <2>1 DEF OpenGit
<1>3. CASE CloseGit
  <2>1. \A r \in Runs : ~(alone'[r] /\ pc[r] \in Live) /\ (alone'[r] => alone[r])
    BY <1>3, Zenon DEF CloseGit, NoLongerAlone, LiveRuns
  <2> QED
    BY <1>3, <2>1 DEF CloseGit
<1>4. CASE RemoveLock
  <2>1. \A r \in Runs : ~(alone'[r] /\ pc[r] \in Live) /\ (alone'[r] => alone[r])
    BY <1>4, Zenon DEF RemoveLock, NoLongerAlone, LiveRuns
  <2> QED
    BY <1>4, <2>1 DEF RemoveLock
<1>5. ASSUME NEW r \in Runs, Start(r) PROVE LoneInv'
  <2>1. \A s \in Runs : s # r => ~(alone'[s] /\ pc[s] \in Live) /\ (alone'[s] => alone[s])
    BY <1>5, Zenon DEF Start, NoLongerAlone, LiveRuns
  <2>2. alone'[r] => \A s \in Runs : pc[s] \notin Live
    BY <1>5, Zenon DEF Start, NoLongerAlone, LiveRuns
  <2>3. pc[r] = "idle" /\ pc' = [pc EXCEPT ![r] = "armed"]
        /\ UNCHANGED <<edits, applied, classes, jdk, next, archive>>
    BY <1>5 DEF Start
  <2>4. archive'[r] = NoClasses
    BY <2>3
  <2> QED
    BY <2>1, <2>2, <2>3, <2>4
<1>6. ASSUME NEW r \in Runs, CheckTree(r) PROVE LoneInv'
  <2>1. next[r] = 1 /\ 1..(next[r] - 1) = {}
    BY <1>6 DEF CheckTree
  <2>2. CASE pc' = [pc EXCEPT ![r] = "checkout"]
    BY <1>6, <2>2 DEF CheckTree
  <2>3. CASE ~Dirty /\ pc' = [pc EXCEPT ![r] = "patch"]
    <3>1. edits' = {} /\ applied' = 1..(next'[r] - 1)
      BY <1>6, <2>1, <2>3 DEF CheckTree, Dirty
    <3>2. pc[r] = "armed" /\ UNCHANGED <<edits, applied, classes, jdk, next, archive, alone>>
      BY <1>6 DEF CheckTree
    <3>3. \A s \in Runs : s # r => (Lone(s)' <=> Lone(s)) /\ pc'[s] = pc[s]
      BY <2>3, <3>2
    <3> QED
      BY <2>3, <3>1, <3>2, <3>3
  <2> QED
    BY <1>6, <2>2, <2>3 DEF CheckTree
<1>7. ASSUME NEW r \in Runs, ApplyPatch(r) PROVE LoneInv'
  <2>1. /\ pc[r] = "patch"
        /\ alone[r] => edits = {} /\ applied = 1..(next[r] - 1)
        /\ next[r] \in 1..LastPatch(jdk[r]) /\ LastPatch(jdk[r]) \in Nat
        /\ \A s \in Runs : s # r => ~Lone(s)
    BY <1>7, PatchRange DEF ApplyPatch
  <2>2. alone[r] => applied \cup {next[r]} = 1..next[r]
    BY <2>1
  <2>3. CASE /\ applied' = applied \cup {next[r]}
             /\ next[r] = LastPatch(jdk[r])
             /\ pc' = [pc EXCEPT ![r] = "gradle"]
             /\ next' = next
    <3>1. alone[r] => applied' = FullPatchSet(jdk[r])
      BY <2>2, <2>3 DEF FullPatchSet
    <3> QED
      BY <1>7, <2>1, <2>3, <3>1 DEF ApplyPatch
  <2>4. CASE /\ applied' = applied \cup {next[r]}
             /\ next' = [next EXCEPT ![r] = @ + 1]
             /\ pc' = pc
    <3>1. alone[r] => applied' = 1..(next'[r] - 1)
      BY <2>1, <2>2, <2>4
    <3> QED
      BY <1>7, <2>1, <2>4, <3>1 DEF ApplyPatch
  <2>5. CASE pc' = [pc EXCEPT ![r] = "checkout"] /\ next' = next
    BY <1>7, <2>1, <2>5 DEF ApplyPatch
  <2> QED
    BY <1>7, <2>3, <2>4, <2>5 DEF ApplyPatch
<1>8. ASSUME NEW r \in Runs, Gradle(r) PROVE LoneInv'
  <2>1. \A s \in Runs : s # r => ~Lone(s)
    BY <1>8 DEF Gradle
  <2>2. CASE pc' = [pc EXCEPT ![r] = "checkout"] /\ classes' = classes
    BY <1>8, <2>2 DEF Gradle
  <2>3. CASE /\ classes' = [patches |-> applied, edits |-> edits, jdk |-> jdk[r]]
             /\ pc' = [pc EXCEPT ![r] = "javac"]
    <3>1. pc[r] = "gradle" /\ UNCHANGED <<edits, applied, jdk, next, archive, alone>>
      BY <1>8 DEF Gradle
    <3>2. alone[r] => classes' = Accepted(r)'
      BY <2>3, <3>1, Zenon
    <3>3. \A s \in Runs : s # r => (Lone(s)' <=> Lone(s)) /\ pc'[s] = pc[s]
      BY <2>3, <3>1
    <3>4. \A s \in Runs : Lone(s)' /\ pc'[s] \in {"javac", "java"} => classes' = Accepted(s)'
      BY <2>1, <3>1, <3>2, <3>3
    <3>5. \A s \in Runs : alone'[s] => archive'[s] \in {NoClasses, Accepted(s)'}
      BY <3>1
    <3>6. pc'[r] = "javac" /\ pc[r] = "gradle"
      BY <2>3, <3>1
    <3>7. \A q, s \in Runs : Lone(q)' /\ pc'[s] \in Live => q = s
      BY <3>1, <3>3, <3>6
    <3>8. \A s \in Runs : pc'[s] \in {"idle", "armed"} => next'[s] = 1
      BY <3>1, <3>3, <3>6
    <3>9. \A s \in Runs : pc'[s] = "idle" => archive'[s] = NoClasses
      BY <3>1, <3>3, <3>6
    <3>10. \A s \in Runs : ~(Lone(s)' /\ pc'[s] \in {"patch", "gradle"})
      BY <2>1, <3>3, <3>6
    <3> QED
      BY <3>4, <3>5, <3>7, <3>8, <3>9, <3>10
  <2> QED
    BY <1>8, <2>2, <2>3 DEF Gradle
<1>9. ASSUME NEW r \in Runs, Javac(r) PROVE LoneInv'
  BY <1>9 DEF Javac
<1>10. ASSUME NEW r \in Runs, Java(r) PROVE LoneInv'
  BY <1>10 DEF Java
<1>11. ASSUME NEW r \in Runs, LockIndex(r) PROVE LoneInv'
  <2>1. \A q \in Runs : q # r => ~Lone(q)
    BY <1>11 DEF LockIndex
  <2>2. PICK to \in {"restore", "locked", "clean", "failed", "done"} :
           pc' = [pc EXCEPT ![r] = to]
    BY <1>11 DEF LockIndex
  <2>3. UNCHANGED <<classes, jdk, next, archive, alone>>
    BY <1>11 DEF LockIndex
  <2>4. pc[r] \in {"checkout", "restore", "clean"}
    BY <1>11 DEF LockIndex
  <2> QED
    BY <2>1, <2>2, <2>3, <2>4
<1>12. ASSUME NEW r \in Runs, Checkout(r) PROVE LoneInv'
  <2>1. \A q \in Runs : q # r => ~Lone(q)
    BY <1>12 DEF Checkout
  <2>2. PICK to \in {"restore", "locked", "clean", "failed", "done"} :
           pc' = [pc EXCEPT ![r] = to]
    BY <1>12 DEF Checkout
  <2>3. UNCHANGED <<classes, jdk, next, archive, alone>>
    BY <1>12 DEF Checkout
  <2>4. pc[r] \in {"checkout", "restore", "clean"}
    BY <1>12 DEF Checkout
  <2> QED
    BY <2>1, <2>2, <2>3, <2>4
<1>13. ASSUME NEW r \in Runs, Clean(r) PROVE LoneInv'
  <2>1. \A q \in Runs : q # r => ~Lone(q)
    BY <1>13 DEF Clean
  <2>2. PICK to \in {"restore", "locked", "clean", "failed", "done"} :
           pc' = [pc EXCEPT ![r] = to]
    BY <1>13 DEF Clean
  <2>3. UNCHANGED <<classes, jdk, next, archive, alone>>
    BY <1>13 DEF Clean
  <2>4. pc[r] \in {"checkout", "restore", "clean"}
    BY <1>13 DEF Clean
  <2> QED
    BY <2>1, <2>2, <2>3, <2>4
<1>14. ASSUME NEW r \in Runs, Kill(r) PROVE LoneInv'
  BY <1>14 DEF Kill, RestoredInPart
<1>15. CASE UNCHANGED vars
  BY <1>15 DEF vars
<1> QED
  BY <1>1, <1>2, <1>5, <1>6, <1>7, <1>8, <1>9, <1>10, <1>12, <1>13, <1>14, <1>15,
     <1>3, <1>4, <1>11
     DEF Next, Step

\* Every archive of a run that had the submodule to itself comes from the
\* fully patched and unedited parser, whatever happened before it started.
THEOREM FullyPatched == Spec => []LoneRunFullyPatched
<1>1. LoneInv => LoneRunFullyPatched
  BY DEF LoneInv, LoneRunFullyPatched
<1> QED
  BY <1>1, TypeInvInit, TypeInvStep, LoneInvInit, LoneInvStep, PTL DEF Spec
=============================================================================
