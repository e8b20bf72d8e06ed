--------------------------- MODULE SubmoduleBuild ---------------------------
(***************************************************************************)
(* Runs of type-importer/scripts/generate_gdt.sh.  Every run patches the   *)
(* one working tree of the vendored parser submodule, compiles it into the *)
(* one build/classes directory there, generates an archive with those      *)
(* classes, and reverts the tree in an EXIT trap.  The script takes no     *)
(* lock of its own, so the tree and the classes are shared by all runs and *)
(* by the developer who may be editing the submodule or using git there;   *)
(* the only lock is git's, which the trap's `git checkout` needs.          *)
(***************************************************************************)
EXTENDS Integers, FiniteSets

CONSTANTS
    Runs,        \* invocations of the script
    NumPatches,  \* the patches of the loop, applied in order as 1..NumPatches
    EditKinds    \* kinds of uncommitted work the developer leaves in the tree

ASSUME NumPatchesAssumption == NumPatches \in Nat \ {0}
ASSUME EditKindsAssumption == EditKinds \subseteq {"staged", "modified", "untracked"}

VARIABLES
    edits,    \* kinds of uncommitted changes of the developer in the submodule
    applied,  \* patches whose hunks are in the working tree
    lock,     \* who holds the submodule's index.lock; "stale": a git that died
    classes,  \* what build/classes/java/main was compiled from
    pc,       \* the line each run is at
    jdk,      \* JAVA_MAJOR of each run
    next,     \* the patch each run applies next
    tool,     \* TRUE once GenerateGdt.class is in the run's BUILD_DIR
    archive,  \* the classes the run's archive was generated with
    alone     \* history: nobody else was at the submodule while the run went

vars == <<edits, applied, lock, classes, pc, jdk, next, tool, archive, alone>>

-----------------------------------------------------------------------------
\* A patch that stopped in the middle: some hunks applied, .rej/.orig files left.
HalfApplied == 0

\* patches/0010, the port to the final FFM API, applied last and on JDK 22+ only.
FfmPort == NumPatches + 1

Patches == HalfApplied..FfmPort

JavaMajors == {21, 25}

\* (Fault: the loop runs one patch too far.)
LastPatchOffByOne(j) == IF j >= 22 THEN FfmPort + 1 ELSE FfmPort
LastPatch(j) == IF j >= 22 THEN FfmPort ELSE NumPatches

FullPatchSet(j) == 1..LastPatch(j)

NoClasses == [patches |-> {}, edits |-> {}, jdk |-> 0]
Classes == [patches : SUBSET Patches, edits : SUBSET EditKinds, jdk : JavaMajors]

Live == {"armed", "patch", "gradle", "javac", "java", "checkout", "restore", "clean"}

\* The trap of a run ends silently when its git command is refused the index
\* lock ("locked") or fails for another reason ("failed").
Ended == {"done", "killed", "locked", "failed"}
LiveRuns == {r \in Runs : pc[r] \in Live}

TypeOK ==
    /\ edits \subseteq EditKinds
    /\ applied \subseteq Patches
    /\ lock \in {"free", "run", "developer", "stale"}
    /\ classes \in Classes \cup {NoClasses}
    /\ pc \in [Runs -> {"idle"} \cup Live \cup Ended]
    /\ jdk \in [Runs -> JavaMajors]
    /\ next \in [Runs -> 1..FfmPort]
    /\ tool \in [Runs -> BOOLEAN]
    /\ archive \in [Runs -> Classes \cup {NoClasses}]
    /\ alone \in [Runs -> BOOLEAN]

Init ==
    /\ edits = {}
    /\ applied = {}
    /\ lock = "free"
    /\ classes = NoClasses
    /\ pc = [r \in Runs |-> "idle"]
    /\ jdk \in [Runs -> JavaMajors]
    /\ next = [r \in Runs |-> 1]
    /\ tool = [r \in Runs |-> FALSE]
    /\ archive = [r \in Runs |-> NoClasses]
    /\ alone = [r \in Runs |-> TRUE]

-----------------------------------------------------------------------------
Goto(r, to) == pc' = [pc EXCEPT ![r] = to]

\* `set -e`: a failing command ends the script, and so runs the EXIT trap.
Fail(r) == Goto(r, "checkout")

\* The runs that are going are no longer alone with the submodule.
NoLongerAlone == [s \in Runs |-> alone[s] /\ s \notin LiveRuns]

\* The developer leaves uncommitted work in the submodule.
Edit ==
    /\ \E k \in EditKinds \ edits : edits' = edits \cup {k}
    /\ alone' = NoLongerAlone
    /\ UNCHANGED <<applied, lock, classes, pc, jdk, next, tool, archive>>

\* The developer starts a git command that writes the index, or opens one
\* that keeps it locked while an editor is open, ...
OpenGit ==
    /\ lock = "free"
    /\ lock' = "developer"
    /\ alone' = NoLongerAlone
    /\ UNCHANGED <<edits, applied, classes, pc, jdk, next, tool, archive>>

\* ... and is done with it: whatever was in the tree is committed or thrown
\* away, or stays.  The command can also die, and leave the lock behind.
CloseGit ==
    /\ lock = "developer"
    /\ \/ lock' = "free" /\ edits' = {} /\ applied' = {}
       \/ lock' \in {"free", "stale"} /\ UNCHANGED <<edits, applied>>
    /\ alone' = NoLongerAlone
    /\ UNCHANGED <<classes, pc, jdk, next, tool, archive>>

\* The developer deletes an index.lock that no git command holds.
RemoveLock ==
    /\ lock = "stale"
    /\ lock' = "free"
    /\ alone' = NoLongerAlone
    /\ UNCHANGED <<edits, applied, classes, pc, jdk, next, tool, archive>>

\* The invocation gets past its argument checks and installs the EXIT trap.
Start(r) ==
    /\ pc[r] = "idle"
    /\ Goto(r, "armed")
    /\ alone' = [NoLongerAlone EXCEPT ![r] = LiveRuns = {} /\ lock # "developer"]
    /\ UNCHANGED <<edits, applied, lock, classes, jdk, next, tool, archive>>

\* (Fault: the check of a run that does not look at untracked files.)
DirtyTrackedOnly == edits \ {"untracked"} # {} \/ applied # {}

\* `git status --short | grep -q .`: index, working tree and untracked files.
Dirty == edits # {} \/ applied # {}

\* (Fault: a refusal that comes before the EXIT trap is installed.)
CheckTreeBeforeTrap(r) ==
    /\ pc[r] = "armed"
    /\ Goto(r, IF Dirty THEN "done" ELSE "patch")
    /\ UNCHANGED <<edits, applied, lock, classes, jdk, next, tool, archive, alone>>

\* Refuse to patch over uncommitted changes, or go on to the patches.
CheckTree(r) ==
    /\ pc[r] = "armed"
    /\ IF Dirty THEN Fail(r) ELSE Goto(r, "patch")
    /\ UNCHANGED <<edits, applied, lock, classes, jdk, next, tool, archive, alone>>

\* patch(1) does not apply what is already there; it may fail on any tree.
ApplyPatch(r) ==
    /\ pc[r] = "patch"
    /\ \/ /\ next[r] \notin applied
          /\ applied' = applied \cup {next[r]}
          /\ IF next[r] = LastPatch(jdk[r])
               THEN Goto(r, "gradle") /\ UNCHANGED next
               ELSE next' = [next EXCEPT ![r] = @ + 1] /\ UNCHANGED pc
       \/ /\ applied' = applied \cup {HalfApplied}
          /\ Fail(r)
          /\ UNCHANGED next
    /\ UNCHANGED <<edits, lock, classes, jdk, tool, archive, alone>>

\* The FFM method names in the sources are those of this JDK.
Compiles(j) == (FfmPort \in applied) <=> (j >= 22)

\* gradlew compileJava reads the tree as it is now and replaces the shared
\* classes; it can also fail, on a tree whose patches are incomplete or not.
Gradle(r) ==
    /\ pc[r] = "gradle"
    /\ \/ /\ Compiles(jdk[r])
          /\ classes' = [patches |-> applied, edits |-> edits, jdk |-> jdk[r]]
          /\ Goto(r, "javac")
       \/ /\ Fail(r)
          /\ UNCHANGED classes
    /\ UNCHANGED <<edits, applied, lock, jdk, next, tool, archive, alone>>

\* Classes of another JDK, or preview classes on a later one, are not loaded.
Loadable(r) == classes.jdk = jdk[r]

\* javac ... | grep || true: a compile error does not stop the script.
Javac(r) ==
    /\ pc[r] = "javac"
    /\ \E ok \in BOOLEAN :
          /\ ok => Loadable(r)
          /\ tool' = [tool EXCEPT ![r] = ok]
    /\ Goto(r, "java")
    /\ UNCHANGED <<edits, applied, lock, classes, jdk, next, archive, alone>>

\* The last command: GenerateGdt loads the shared classes and writes the
\* archive, or does not start.  The EXIT trap runs either way.
Java(r) ==
    /\ pc[r] = "java"
    /\ \/ /\ tool[r] /\ Loadable(r)
          /\ archive' = [archive EXCEPT ![r] = classes]
       \/ UNCHANGED archive
    /\ Goto(r, "checkout")
    /\ UNCHANGED <<edits, applied, lock, classes, jdk, next, tool, alone>>

\* cleanup(): `git checkout -- .` takes the index lock, ...  When it cannot,
\* `&&` skips the clean and `|| true` hides it: the tree stays as it is.
LockIndex(r) ==
    /\ pc[r] = "checkout"
    /\ IF lock = "free"
         THEN lock' = "run" /\ Goto(r, "restore")
         ELSE Goto(r, "locked") /\ UNCHANGED lock
    /\ UNCHANGED <<edits, applied, classes, jdk, next, tool, archive, alone>>

\* A checkout that stops in the middle: some files are restored, some not.
\* A patch with any hunk left counts as applied; new files all stay.
RestoredInPart ==
    /\ applied' \in SUBSET applied /\ applied \cap {HalfApplied} \subseteq applied'
    /\ edits' \in {edits, edits \ {"modified"}}

\* (Fault: a trap that removes new files but leaves the patched ones.)
CheckoutNothing(r) ==
    /\ pc[r] = "restore"
    /\ lock' = "free"
    /\ Goto(r, "clean")
    /\ UNCHANGED <<edits, applied, classes, jdk, next, tool, archive, alone>>

\* ... restores the tracked files from the index and frees the lock, or fails
\* on a file it cannot write, which again ends the trap, ...
Checkout(r) ==
    /\ pc[r] = "restore"
    /\ lock' = "free"
    /\ \/ /\ applied' = applied \cap {HalfApplied}
          /\ edits' = edits \ {"modified"}
          /\ Goto(r, "clean")
       \/ /\ RestoredInPart
          /\ Goto(r, "failed")
    /\ UNCHANGED <<classes, jdk, next, tool, archive, alone>>

\* ... and `git clean -fd`, which needs no lock, deletes what is untracked
\* (build/ is ignored), or fails to, with its error discarded.
Clean(r) ==
    /\ pc[r] = "clean"
    /\ \/ /\ applied' = applied \ {HalfApplied}
          /\ edits' = edits \ {"untracked"}
          /\ Goto(r, "done")
       \/ /\ Goto(r, "failed")
          /\ UNCHANGED <<edits, applied>>
    /\ UNCHANGED <<lock, classes, jdk, next, tool, archive, alone>>

\* SIGKILL or power loss takes the run and the command it is at: no trap runs,
\* and a `git checkout` under way leaves its lock and half of its work behind.
Kill(r) ==
    /\ pc[r] \in Live
    /\ Goto(r, "killed")
    /\ IF pc[r] = "restore"
         THEN lock' = "stale" /\ RestoredInPart
         ELSE UNCHANGED <<edits, applied, lock>>
    /\ UNCHANGED <<classes, jdk, next, tool, archive, alone>>

Step(r) ==
    \/ CheckTree(r) \/ ApplyPatch(r) \/ Gradle(r) \/ Javac(r) \/ Java(r)
    \/ LockIndex(r) \/ Checkout(r) \/ Clean(r)

Next ==
    \/ Edit \/ OpenGit \/ CloseGit \/ RemoveLock
    \/ \E r \in Runs : Start(r) \/ Step(r) \/ Kill(r)

Spec == Init /\ [][Next]_vars

\* The shell goes on to its next command; nobody has to start or kill a run.
FairSpec == Spec /\ \A r \in Runs : WF_vars(Step(r))

-----------------------------------------------------------------------------
(* Properties *)

\* What the archive of a run has to come from: the parser with exactly the
\* accepted patches of the run's JDK and no uncommitted work.
Accepted(r) == [patches |-> FullPatchSet(jdk[r]), edits |-> {}, jdk |-> jdk[r]]

\* An archive that a run wrote comes from the parser the script names: it
\* "patches the vendored submodule, builds it, compiles tools/GenerateGdt.java
\* against it, runs it" (header of generate_gdt.sh).  Violated when runs overlap.
ArchiveFullyPatched == \A r \in Runs : archive[r] \in {NoClasses, Accepted(r)}

\* It holds for every run that had the submodule to itself, whatever was killed,
\* refused, edited or overlapping before it started: the dirty check is enough
\* to keep the leftovers of others out of the archive.
LoneRunFullyPatched ==
    \A r \in Runs : alone[r] => archive[r] \in {NoClasses, Accepted(r)}

\* The tree is left patched only by a run that is still going, was killed, or
\* whose git command was refused or failed: success, refusal and failure at any
\* other command all revert it, also when runs overlap and one reverts what the
\* other has patched (cleanup, lines 96-101).
PristineUnlessGitFailed ==
    applied # {} => \E r \in Runs : pc[r] \in Live \cup {"killed", "locked", "failed"}

\* A tree left patched does not block the submodule for good: a run that comes
\* to it while no index.lock is there refuses it and reverts it, in the trap
\* installed before the check, unless it is killed or its git fails.  It is
\* refused the lock only when others use the submodule at the same time; after
\* a lock left by a dead git, runs heal nothing until somebody deletes it.
NextRunHeals ==
    \A r \in Runs :
        (pc[r] = "armed" /\ applied # {} /\ lock = "free")
            ~> \/ applied = {}
               \/ pc[r] \in {"killed", "failed"}
               \/ pc[r] = "locked" /\ ~alone[r]

\* A run does not destroy the uncommitted work it found: with changes in the
\* tree it stops, "refusing to patch over them" (generate_gdt.sh:106).
RunKeepsEdits ==
    [][\A r \in Runs : alone[r] /\ pc'[r] # pc[r] => edits \subseteq edits']_vars
=============================================================================
