# Verification of skyrim-re-toolkit

TLA+ models of skyrim-re-toolkit, the TLC runs that check them on small
instances, and TLAPS proofs of the central properties for every value of the
constants. Paths below are relative to the repository's root.

The toolkit turns the CommonLibSSE-NG headers into a Ghidra type archive
(`type-importer/`), ships archives and symbol lists (`symbol-archive/`,
`demo/ghidra_scripts/`), and observes the running game with an SKSE plugin
(`runtime-harness/`). Most of it is batch programs around shared files, so what
is hard here is seldom a lock. It is what a stage may assume of the files the
stage before it left: after a kill, an overlapping run, a rebuild, a lost
assert, two types of one name, or a header the scanner half understands. Only
the plugin has threads, and it shares vtables with the game and other plugins.

## 1. Inventory

| Component | State it keeps | Operations | Talks to | Hard behaviour |
|---|---|---|---|---|
| `generate_gdt.sh` | the working tree and `build/classes` of the one vendored parser submodule; its own BUILD_DIR | dirty check, patch loop, gradle, javac, java, EXIT trap | a developer's edits and git commands, other runs, `GenerateGdt` | overlap without a lock, kill, failing command at any line, a cleanup refused git's index lock, stale classes |
| `GenerateGdt.java` | a FileDataTypeManager, the archive, the CSV and the JSON report | commit, padding hints, annotation, three saves, reports | hint file, coverage baseline, an earlier archive at the same path | abort between saves, bare names shared by several types, order of passes |
| `mine_static_asserts.py` | a stack of `#if` frames, a stack of records, three dictionaries | one step per header line | the coverage report (ground truth) | conditions it cannot evaluate, branches with unequal braces, templates |
| Coverage gate: `coverage_report.py`, `check_regression.py`, `type-importer-coverage.yml` | committed baselines, one per runtime | classify, compare, regenerate, commit | the archive's CSV, the miner's map; the baseline annotates later archives | the baseline lies in the commit under test and may be regenerated whatever the comparison says, ranks that are not monotone in knowledge |
| `main.cpp` with the hooks of `AIProcessInspector`, `HavokStepLogger`, `SavegameTracer` | one variable per hook for its original, the vtable slots, map context -> state (no mutex) | load, `write_vfunc`, hooks, step log, dump of the list of saves | the game's virtual calls, other plugins' hooks in the same tables, SKSE | order of hooking, a refused load, one original per hook, addresses used again; the step logger is known not to work |
| `AIProcessInspector`, `DevBenchIntegration` | map actor -> package, one mutex, the log | update hook, tool handler, tool registration | the game's update threads, devbench's listener thread | copy against insertion, log line outside the lock |
| `LayoutValidator`, `main.cpp`'s messages, `parse_layout_log.py` | the log; the parsed report; a baseline | compile-time report, checks at kDataLoaded, kNewGame and kPostLoadGame, parse, compare | SKSE's messages, the game's memory, the Address Library, `coverage_baseline.json` | truncation and crashes, messages in any order, several builds, layouts that are not the game's |
| `layout_pch.h`, `generated_symbols.h` | none | stand-ins for the library's types in the importer's view of the headers | the importer's compilation, the baseline | a stand-in of another size |
| `scale_probe.c`, `nested_probe.c` | arrays of cursors, what they print | collect, ask, sweep, ask again; unwrap and print | libclang | answers that depend on earlier questions, full arrays |
| TIL JSON: `validate_til_json.py`, `check_til_json_roundtrip.py` | none | check references and bounds, compare with the CSV | `GenerateGdt`'s JSON | names with several entries |
| `mine_function_ids.py` | brace and parenthesis frames, symbols found | one step per token | the symbol CSVs | first hit wins, order of files |
| Ghidra scripts | the program's symbol table and types | label, name, sign, retype | symbol CSVs, archives | names a user has set, two symbols at one address |
| `check_address_library_ids.py` | the decoder's previous id and offset | delta decoding | Address Library files | widths and wrap-around |
| `symbol-archive-build.yml` | artifacts, a release | build jobs, publish | `generate_gdt.sh` | one job of several failing |
| Template miners, stubs, explorer, `list_re_headers.sh`, `dump_layout.sh` | none | text to text | files | none |
| Parser patches | a submodule that is not in the repository | - | `generate_gdt.sh` | - |

How the modelled parts interact:

    headers --> mine_static_asserts --> coverage_report --> baseline --+
        |                                     ^      check_regression   |
        |                                     | CSV                     v
        +--> generate_gdt.sh --> GenerateGdt -+----------> archive, stamped
              (patches, submodule)                          VERIFIED / WARNING

    game's virtual calls --> slot --> hooks of ours and others --> the game's function
                                       | AIProcessInspector: g_lastPackage (mutex)
                                       |                         <-- devbench listener
                                       | HavokStepLogger: g_lastState
                                       | SavegameTracer: saveGameList

    SKSE messages --> LayoutValidator --> RuntimeHarness.log --> parse_layout_log.py
    headers (plugin's view)  --^                                        ^
    headers (importer's view, stand-ins) --> libclang --> baseline -----+
                                                ^
                                                +-- scale_probe, nested_probe

What makes each correct, in one line:

- an archive comes from the fully patched parser and nothing else, and the
  submodule is left as it was found;
- the reports describe the archive on disk, padding is exact, a wrong layout
  cannot be missed, and no type is lost;
- the ground truth is what a compiler sees: no guard is guessed, no assert is
  filed under another class;
- a byte-accurate class is not lost from the baseline without the comparison
  listing it, and a green HEAD carries only true VERIFIED stamps;
- the log and the tool's answer tell the same story as the map;
- every call through a hooked slot runs the game's function and each hook once,
  whoever else hooks it, and a refused plugin leaves nothing behind;
- the layout log is about one build, the exit status says what its sizes are
  against the asserts, verdicts on ids are true, a plugin with the right layout is
  quiet, and a misplaced field shows;
- the probes' differences come from libclang and nothing else.

## 2. Modules

| Module | Models | Rests on |
|---|---|---|
| `SubmoduleBuild` | `generate_gdt.sh`, any number of runs and a developer on one submodule | |
| `Classification` | `coverage_report.py`'s status of one name | |
| `CoverageGate` | `check_regression.py`, baselines and commits | `Classification`, refines `VerifiedRatchet` |
| `VerifiedRatchet` | abstract: a byte-accurate class is lost only where the update lists it | |
| `ArchiveBuild` | `GenerateGdt.java` from the resolved types to the reports | `Classification` |
| `StaticAssertMiner` | `mine_static_asserts.py`, beside a compiler reading the same lines | |
| `PluginHooks` | `SKSEPluginLoad`, the installation of every hook, calls through the hooked tables, step log, dump of saves | |
| `RuntimeHarness` | what the update hook does with a package, tool handler and its registration | refines `PackageTool` |
| `PackageTool` | abstract: a call's answer is the map at one moment | |
| `HeaderLayout` | layout of a class in a view of the macros, as a C++ compiler does it (external) | `Selections` |
| `LayoutReport` | `LayoutValidator.cpp`, the messages of `main.cpp`, `parse_layout_log.py` | `HeaderLayout` |
| `ClangProbes` | `scale_probe.c` and `nested_probe.c` before a libclang whose answers may depend on earlier questions | `Selections` |
| `MC*` | instances and symmetry sets for TLC | |
| `Selections` | a loop that appends the elements passing a test, as a recursive function: the flat JSON, the dump of saves, the members of a view, the lines a pattern finds, the fields of a record | |
| `*_proofs` | theorems of the module they extend; `CoverageSweep_proofs` has those of the gate and of the probes, `Selections_proofs` the facts several of them share | TLAPS |

Operators whose comment begins with "Fault:" are plausible bugs of the code;
each is put in the place of the definition it precedes to see that a property
notices. They are used by no specification.

### SubmoduleBuild

One action per command of the script: `CheckTree` (the dirty check), `ApplyPatch`
(one turn of the loop; `patch` fails or applies), `Gradle`, `Javac` (whose
pipeline ends in `|| true`), `Java`, and `cleanup`: `git checkout` is `LockIndex`,
which is refused while anybody holds the submodule's index.lock, and `Checkout`,
which restores all or only part of the files; `Clean` comes only after a checkout
that succeeded (`&&`), and may fail too. Either failure ends the trap without a
word (`|| true`): the run is at "locked" or "failed". `Fail` is `set -e`: the next
thing that happens is the EXIT trap. `Kill` runs no trap, and leaves a stale lock
if it hits the checkout. `Edit`, `OpenGit`, `CloseGit` and `RemoveLock` are the
developer. The tree is the set of applied patches and the kinds of uncommitted
work (staged, modified, untracked) because the three commands that look at it
treat those differently. `classes` is what the shared `build/classes` was compiled
from; it is git-ignored and survives every revert. `alone` is history: it says of
each run whether anybody else was at the submodule while it went, so that one
specification shows both what a lone run can count on, whatever happened before
it, and what an overlap breaks. Not kept: the contents of patches, the downloads,
the environment variables.

### Classification, CoverageGate

A state is HEAD of main: what a sweep of it resolves, what the miner finds
asserted, and the committed baseline. `Commit` is any change of these, with the
baselines of some runtimes regenerated, whatever the verdict: the written rule to
compare first (type-importer/COVERAGE_SWEEP_PLAN.md:579-581) is enforced by
nothing, and baselines were regenerated over OK entries that became MISMATCH
(ibid., 657-664 and 698-704). The workflow's comparison reads the baseline of the
commit under test, so `Green` takes the regenerated baseline. `accepted` is
history: the keys that check_regression.py lists when it compares a commit's sweep
with the baseline that the commit replaces. What the gate can promise is that
nothing is lost outside that list.

### ArchiveBuild

A type is its category path and bare name; a set of types, a hint file, a baseline
and the options are the input of one build, all chosen freely. The passes are
actions in the code's order: `Delete`, `Commit`, `PadHint` (one line), `BadHint`
(a line that does not parse ends the build before the save), `PadEnd`, `Annotate`,
`WriteCsv`, `WriteJson`, and `Abort` between any two. `Targets` are what typedefs
may stand for: the JSON writes of a typedef its name, its kind and its target, and
no size (`JsonEntry`), so two typedefs that differ in size alone are one entry.
Everything after the parser looks types up by bare name, and `Order` is the order
in which they are visited; the model is about what that does to types that share a
name. Sizes are exact where the code computes with them (an empty struct has
Ghidra length 1 and occupies 0). Ghidra's own behaviour, as the code relies on it,
is marked external in the map.

### StaticAssertMiner

The header is not stored: every step reads one more line, any line that may
come next, so headers of any length are covered. Beside the script's variables
run a compiler's (`groups`, `scope`, `opening`, `template`): which text is live
whatever the unrecognised macros are, which records enclose it, what a `sizeof`
names. Live text is well formed, dead text may be anything. The script is a
line scanner and cannot handle every header; `met` records which of seven such
constructs were met, and the properties say for each which results stay right.
The constant `Constructs` bounds which of them a run explores: the main run
none; the proofs cover all of them. `scope` keeps, for each block the compiler
is inside, the records around its text, so that what a closing brace ends can be
compared with what the script pops: `Kept` is where its popping loop stops.

### PluginHooks

A class's vtable slot holds a function; `PatchSlot` is `write_vfunc`, which puts
the hook there and returns what it found, and `KeepOriginal` the assignment of
that to the hook's variable. `OtherHooks` is another plugin doing the same in one
step, before this plugin is loaded, after it, or while the game runs. `SetupLog`
and `Register` are the two early ends of `SKSEPluginLoad`. A virtual call is a
stack: `Call` takes what the slot holds, `Descend` is a hook calling its original,
`Run` the game's own function, `Ascend` a function returning, in which our hooks
observe (`LogIfChanged`, `DumpSaveGameList`), `Return` the end. `order`,
`stepped`, and the fields `games` and `seen` of a call are history.
`ChangeElsewhere` is the game setting a physics state by other means than a call
through one of the six slots, or using a freed address for another character.
HavokStepLogger is compiled in or not, as in the build; it is off by default, and
documented as not working
(runtime-harness/docs/HAVOK_STEP_LOGGER_INVESTIGATION.md: no line in 70 minutes of
play, the game plausibly does not call through these slots). Nothing in the model
makes the game call through them, and what the properties say of the step log is
about the updates that do come through.

Assumed of the game: it calls virtual functions only once the plugins are loaded
(`GameStarts`; SKSE loads them before the game's own start), so that no call comes
between the two steps of `write_vfunc` and assignment; it works on one object on
one thread at a time; its list of saves does not change while it is dumped; and
at most one call on any context of any character is under way at a time (`Call`).
The last is stronger than "one thread per character": g_lastState is one map
without a mutex (HavokStepLogger.cpp:26 and 53), and two hooks in it at once would
be a data race, which no property of the model covers.

### HeaderLayout, LayoutReport

A class is a sequence of members, each with the settings of the ENABLE_SKYRIM
macros it is declared in; `SizeOf` and `OffsetOf` lay it out by the C++ rules, as
the plugin's compiler does with the library's own types.

The baseline has two sizes of a class. `Expected` is what the headers assert in
the view of the archives: `Assertion` gives the size asserted for each revision,
class and view, and `Dlls` are the plugins that compile, those whose own view's
asserts hold. An asserted class may have members of one runtime only (NiAVObject
is such a class). `Actual` is what the importer recorded, and `Imported` is a free
input: libclang, the patched parser, the stand-ins, `GenerateGdt` and the hints
all had their part in it, and it is not derived from the headers (nor does it
always equal what they say). parse_layout_log.py prints it and never compares it.

`LayoutReport` is a sequence of sessions. `StartGame` truncates the log
(`OpenLog`) and starts the report, one line per step (`LogCompileTimeLayout`), so
that a crash (`Stop`) may come between any two. `Message` begins a block of
checks and the check actions write its lines in the code's order, with the
early returns when there is no base form or no player. `Rebuild` installs a
plugin of another revision or with other macros. A field is read where the
plugin has it (`Read`): what stands there in the game's memory is that member,
another, or none, and an access to what is no pointer may end the game
(`Fault`). `lucky` of a game lets bytes at a wrong place look like what is
expected. `ParseLog`, `Mismatch` and `ExitStatus` are the parser, evaluated on the
log in every state, since anybody may read it at any time. Addresses, names and
the offsets that are only printed are left out.

### ClangProbes

The translation unit is a sequence of cursors. Both programs are lists of
questions: `Collect` fills the two arrays, `QueryTargets` and `DeepDive` are what
PHASE1 and PHASE3 ask, `Traffic` what PHASE2 asks of every record and field,
`NestedReport` the other program. `Ask` puts the next question to libclang, which
answers wrongly about a type once it was asked about the one that upsets it;
which one that is, is chosen at the start. The specification's names begin with
`Probes`, since `CoverageSweep_proofs` extends this module and the gate.

### RuntimeHarness

`Observe` is an update of an actor by the game, `Lock`, `Record` and `Log` the
steps of `LogPackageIfChanged`, with the log after the release of the mutex.
`Call`, `LockForCopy`, `CopyEntry`, `Unlock` and `Write` are the handler on the
listener thread; the copy is made entry by entry, so that what the mutex is for
shows. `Load` and `PostLoad` are the plugin's start, with the one attempt to
find devbench. It is assumed of the game that two threads do not update one
actor at once.

## 3. Runs

| Run | Shows | Bounds |
|---|---|---|
| `submodule` | a run that had the submodule to itself writes only archives of exactly the accepted patches, whatever was killed, edited or overlapping before it; the tree ends pristine unless a run was killed or its git was refused or failed; the next run heals what was left, unless that happens to it | 2 runs, 2 patches and the FFM port, untracked edits, the developer's git |
| `submodule_keeps_edits` (violation) | refusing to patch over uncommitted work deletes it | 1 run |
| `submodule_race` (violation) | overlapping: an archive from a partly patched parser, exit 0 | 2 runs |
| `gate_ratchet` | the gate refines the ratchet, also over baselines regenerated for the worse; green means true stamps; a compared class stays compared or is listed | 2 runtimes, 1 class, sizes 1 and 8 |
| `archive_passes` | reports describe the file, exact padding, nothing of the earlier archive, wrong layouts flagged, JSON complete | 1 name under 2 paths, 4 kinds, 2 targets of typedefs, 2 hint lines, 1 build over 2 leftovers |
| `archive_verified` (violation) | a false VERIFIED stamp on the second type of a name, with a baseline fresh from the same types | 1 name under 2 paths |
| `miner_ground_truth` | nothing guessed, lost, invented or published wrongly | 2 names, 2 sizes, 2 nested groups, 2 blocks, 2 asserts, any length |
| `harness` | log and map agree, only transitions logged, atomic answers, every call answered | 2 actors, 2 packages, 2 threads and the listener |
| `plugin` | each call runs the game's function and our hook of its class once; no call through a missing original; a refused plugin leaves nothing; log and map have what hooked updates set, and no state twice; the dump is the list the event left | 2 threads, 1 context, 1 other plugin that hooks 1 of the classes, 2 lists of saves, with and without HavokStepLogger |
| `layout` | sizes of one build, true exit status, true verdicts on ids, quiet when the layout is right, a warning when a field is misplaced | 2 revisions, 2 settings of the macros, 12 classes, 3 blocks of checks in a session |
| `layout_blind` (violation) | the verdict on a misplaced formID is OK | a revision with two fields exchanged, 1 block |
| `probes` | differences come from libclang, the sweep's upsets show, kinds are unwrapped | 2 units of 7 cursors, 9 types, every pair of a type and what upsets it, arrays of 2 and 1, 1 template argument, 2 layers |

Why the bounds are enough:

- Submodule: a wrong archive needs one run whose compile another, or a leftover,
  disturbs; each of the two may come before the other, overlap it or be killed.
  Two patches give "none, some, all", and the JDK-dependent last one is separate.
  Staged and modified work are in the violation run only: an untracked file makes
  the dirty check refuse as they do, and outlives a skipped clean. The theorems
  hold for any number of runs and patches.
- Gate: `Regressed` looks at one key at a time, so one class suffices; two
  runtimes are needed since a commit regenerates some files and not others. 1 and
  8 are the two sides of the EMPTY threshold.
- Archive: all lookups are by bare name, so types of different names do not meet
  except as lines of the hint file, which are applied one after the other and
  looked up afresh; two paths make a name ambiguous. Two hint lines give both
  orders of two sizes and a repetition. Content 0 and 8, hints 8 and 16: the empty
  struct, a hint that is met already, one that widens. A second build only ever
  sees the first one's file, and `Leftovers` is such a file.
- Miner: one group in another, one block in another and a `sizeof` of a nested
  name are the shapes in which the stacks of script and compiler could part; the
  last assert ends the run. All four properties are proved without bounds.
- Harness: a transition needs two packages, a race two threads and the listener,
  confusion of entries two actors.
- Plugin: chains of hooks are independent of each other, so one contested class
  shows them; another plugin before us, after us and both sides of the start of
  the game are all reached, and "Flying" is a class we hook in one build and not
  in the other. All seven properties are proved for any number of threads,
  contexts, plugins, contested classes and lists of saves.
- Layout: the classes of the report differ in two ways, whether a macro changes
  them and whether an assert is there; each of the four has one, and one class of
  the older revision has an assert in the archives' view alone, so that the false
  blame of such an assert is reached. One class has no importer's size and one a
  wrong one. Three blocks let kDataLoaded come twice, or the game be started
  before and after it. The older revision has another size and other offsets of
  every field that is read. All six properties are proved for any headers and any
  number of blocks.
- Probes: a limit of 2, 1, 1 or 2 is met and exceeded in the two units the way 64,
  8, 8 and 8 would be; one unit has a forward declaration, the other a class
  defined twice. All four properties are proved for any units, types and limits.

Deadlock is not checked in `submodule_race`, where the two runs end and nobody
edits; for archives, whose builds end; for the miner, which stops after its last
assert; for the harness and the plugin, where one that was refused or terminated
does nothing; and for the probes, which end. `layout` has no state without a
step and does not need the check either. It is checked in the other runs.
Symmetry: runtimes, sizes and the game's threads are interchangeable in what the
properties of those runs say; no run with a liveness property uses it.

Fairness: in `submodule` each run's own commands go on (a shell executes its
next command); nobody has to start, kill or edit. In `harness` a thread inside
the critical section leaves it (it neither blocks nor loops there), the
handler's own steps go on, and a mutex that is free again and again is
eventually given to the listener; no actor has to be updated and nobody has to
call. The other specifications have no fairness and no liveness property: the
plugin, the layout report and the probes do what they do when they are called.

## 4. What is proved

TLAPS checks every theorem from nothing, for all values of the constants under
the named assumptions of the modules. Most say what type a constant has, or that
None and the names of the model's own are no other value. The others:

- `OrderAssumption` (`ArchiveBuild`): the archive's paths are visited in some
  order, none of them twice.
- `ListsAssumption` (`PluginHooks`): a list of saves is a sequence, of anything.
- `InputsAssumption` (`ClangProbes`): translation units are sequences of cursors, a
  type's arguments are a sequence of types, and the limits are numbers. Nothing is
  said of what libclang gets wrong, of how deep sugar goes or of the limits' values.
- `MembersAssumption` (`LayoutReport`): a class is a sequence of members of the
  kinds the model lays out.
- `GameAssumption` (`LayoutReport`): the running game's classes have the four
  members the plugin reads, each once and stored in the object. Without it there
  would be no right offset to speak of.
- `ConstantsAssumption` (`LayoutReport`): asserted and imported sizes are numbers
  or None. Nothing relates the importer's sizes to the headers, nor says which
  classes have asserts or that no macro changes them.

What the proofs rest on, module by module:

- `SubmoduleBuild_proofs`. `TypeCorrect`: TypeOK is inductive once it says that no
  run counts past its last patch. `Pristine`: PristineUnlessGitFailed is not
  inductive, since a run that only removes its leftovers could be the last to
  excuse another run's patches; the invariant tells whole patches (excused by a
  run up to its `git checkout`) from leftovers (up to its `git clean`), and counts
  a run that was killed, refused the lock or failed in git as an excuse for both.
  `FullyPatched`: of a run that is alone the invariant says what it can count on
  at each line: an unedited tree with patches 1..next-1 in the loop, the full set
  at gradle, the right classes from javac on; and that at most one live run is
  alone, so that every step of another one ends its being so.
- `CoverageSweep_proofs`, the gate. `GateTypeCorrect`, `GreenAccurate` directly
  from the types and the comparison. `CheckedForever` and `RatchetImplemented`
  hold of every commit, with no rule about when a baseline is regenerated: an OK
  entry that the comparison does not list is replaced by an OK entry of the same
  size, so each commit is a step of `VerifiedRatchet`, which allows losses where
  they are listed.
- `CoverageSweep_proofs`, the probes. The invariant says for each phase that the
  lines printed so far answer the first questions of that phase's report and that
  `todo` has the others (`Answered`, in `Reports`); that a wrong answer has its
  cause among the types asked about (`Wrongs`); and that in PHASE2 each question
  of the sweep is asked or still to come, so that all are asked before PHASE3,
  whose every line they upset is wrong (`Sweep`). It holds because nothing a
  report is built from changes after PHASE1 begins (`QuestionsKept`).
  `DiffIsDisorder`: two reports of the same questions differ at some line in the
  answer, and one of the two answers is wrong. `UpsetsShown` needs that the sweep
  asks about every type of `Swept` (`TrafficSweeps`). `KindsTrue` is about the
  shape of the other report: lines of kind and fields of the two records
  correspond one to one (`KindsJoined`, from one record's fields to all), and what
  the loop leaves has no layer below unless more are there than it takes off
  (`UnwrappedPeels`, `LayersDescend`, `NoLayerLeft`). Reports are lists of lists:
  `Flattened` says which part of which list each element of `FlattenSeq` is. The
  library's operator folds with a recursive function, so this too goes by the
  least counterexample.
- `ArchiveBuild_proofs`. `TypeCorrect`; `ReportsDescribeFile`, from "disk = dtm
  from the annotation on, and each report is of it once written"; `OwnTypesOnly`,
  from "types in memory and on disk come from this build's input" after the
  deletion; `PaddedExactly`, the deepest: after each line the size of a type is
  the greatest of its content and the hints so far, which needs that the type
  visited first is well defined (`LeastNat`, `VisitedIsOne`), that it is the same
  one at every line, and that `moved` and descriptions do not matter to it;
  `WrongFlagged`: before the annotation nothing is in the warning folder and what
  was padded says so; the annotation stamps in front of that, and the first
  visited type of each MISMATCH name can always be moved. It needs that None is no
  status (`NoStatusAssumption`). `JsonComplete`: each entry that is written is one
  of a type in the archive, and conversely, as `Order` visits every type of a name
  (`AllInOrder`) and dropping the entries that equal the first drops no content
  (`FlattenKeeps`). Content is what is written: the size of a struct, union or
  enum, the target of a typedef.
- `StaticAssertMiner_proofs`. `NoGuess`: for headers of any length and nesting.
  The invariant compares the two stacks frame by frame: a frame is unknown to the
  script exactly when its group has a condition that is not known, and otherwise
  both agree on `taken` and on being live. It is lost at an `#elif` after an
  unknown condition, and only there. `StacksCorrect` is the well-formedness of the
  stacks. `TypeCorrect` needs that `record_stack` is strictly nested below the
  current depth (`Nested`), also over dead text with unbalanced braces.
  `Faithful`, that nothing is lost or invented within the handled constructs,
  compares `record_stack` with the records around every block the compiler is
  inside, not only the innermost (`ScopesAgree`), since the frame that becomes the
  top when a block closes was covered until then; and the record the next brace
  opens (`Awaited`). `Published` follows from it, when the scan ends, for the
  dictionaries of any number of headers: one size of each name in the map, and one
  that the compiler sees. It does not make that the only size the compiler sees:
  an assert behind an unknown macro may have another, and is filed as
  UNEVALUATED_GUARD. `NoGuess` leaves out headers with an `#elif` after an unknown
  condition and asserts in comments, `Faithful` and `Published` all seven
  constructs of `met`.
- `RuntimeHarness_proofs`. `TypeCorrect` with mutual exclusion, `LogIsMap`,
  `Transitions` and `ToolImplemented`. The invariant says for each step of a hook
  what line, map and last update have to do with each other for its actor, that no
  two hooks have one actor, and that what the handler has copied is the map as
  long as it holds the mutex.
- `PluginHooks_proofs`. The invariant describes the chain of each class: the
  game's function, then the hooks in the order they were put there; the slot holds
  its end, and each hook's original (or what `write_vfunc` has just returned) is
  the link before it (`ChainInv`). A call has come down from the n-th hook, and
  what it has still to call is the chain below (`Within`); other plugins only
  lengthen chains, which calls in flight do not notice. `NoCrash` and `Complete`
  follow at once, `NothingLeft` from the order of the load. `LogFollowsHooked`
  needs that a context last set by a hooked update has either the right entry or a
  hook on its way back that has yet to look (`Unseen`), at most one by the
  assumption on the game; `StepsOnly` that the last line is the map's entry.
  `DumpTrue` is about the list of saves, which an event changes while our hook is
  still below or above the game's handler: either an event of the manager is on
  its way up and our hook has yet to look (`Unseen`), or the dump is the list's
  (`DumpInv`). An event cannot end unseen, since `Within` says of a call that came
  all the way up which of our hooks were in its chain.
- `LayoutReport_proofs`. The invariant says that the plugin that runs is the one
  that opened the log, that each line is what that plugin writes (`Proper`: a size
  is its own, a verdict on an id the right one, and if the plugin has the fields
  it reads where the game has them, the line is a quiet one), and that what is
  still to be done is the rest of one of three known lists (`Todo`). From this:
  `OneBuild`; `ExitTrue`, which needs that what the parser keeps of a class is the
  last of the lines about it (`Greatest`) and that the plugin compiled (`Dlls`);
  `MisplacedShown`, which needs in addition that checks that got as far as the
  extra list have left their warnings behind (`ShownInv`) and that what is read at
  another place than the game's is not that member; `IdsFound`, which needs that a
  block of checks that got as far as the extra list still has the vtable ahead of
  it or has written its verdict; and `QuietIfRight`, the deepest: what is read at
  an offset is the one member that stands there, because the offsets of members
  ascend and overlap nowhere.
- `Selections_proofs`: what `Selected` returns for every sequence and set of
  positions, `SelectedOrder` (an ascending list of the chosen positions, all of
  them) and `SelectedElements`. The operator is a recursive function, and the
  library's induction theorems cannot be used; `Iteration` has the existence of
  such a function from the least counterexample, which needs `LeastNat` alone.

tlapm 1.4.5 lets its SMT backend conclude the domain of any value from its Len,
which is right of sequences only. No proof rests on it: every obligation that was
given this axiom was also proved with only its other direction (a value whose
domain is 1..n has length n).

Only model-checked: the liveness properties `NextRunHeals` and `CallsAnswered`,
since fairness is beyond the prover. Every other property of a passing run is a
theorem.

## 5. Findings

Places where the code does something else than a line of the repository says;
each has a violation run.

- `generate_gdt.sh:98`: the EXIT trap is installed before the dirty check, so the
  script that refuses "to patch over" uncommitted changes deletes them. Only
  staged work survives. (`submodule_keeps_edits`)
- `generate_gdt.sh:104`: nothing serialises runs on the one submodule. The
  refusal of a second run reverts the first one's patches before they are
  compiled; the first exits 0. (`submodule_race`)
- `GenerateGdt.java:725`: the VERIFIED stamp goes by the bare name, the baseline
  by the first row of the name: a second type gets a stamp that is not true of
  it. (`archive_verified`)
- `LayoutValidator.cpp:158`: the raw bytes and the accessor are both read at the
  plugin's compiled offset, so that the one verdict on live fields cannot be
  MISMATCH; `LayoutValidator.h:55` and `docs/LAYOUT_VALIDATOR.md` say that it would
  show a wrong offset. Only the warnings about expected values can, and
  `parse_layout_log.py` reads no warning, although its first line promises the
  LIVE lines. (`layout_blind`; `MisplacedFieldsShow` is what does hold)

Observations for which no run is kept: `tail_padded` of the JSON is false for a
padded type once it is annotated, as padding is recognised by how the description
starts (GenerateGdt.java:317-320 and 409); a commit that regenerates the baseline
is compared with its own, so that CI is green whatever it records (and has been,
type-importer/COVERAGE_SWEEP_PLAN.md:657-664 and 698-704), although README.md says
an update "can't silently get worse"; generate_gdt.sh's header says it "reverts
the submodule back to pristine afterward", which is not so when its git is refused
the index lock or fails (line 98 hides it), and after a stale lock no run reverts
anything until somebody deletes it; two typedefs of one name and target whose
sizes differ are one entry of the flat JSON (GenerateGdt.java:371, 459-478); the
map of the miner has a size for a name whose other asserts are filed as
UNEVALUATED_GUARD; HavokStepLogger is documented as never having logged a line; a
lost assert is caught for MISMATCH and OK entries only, an EMPTY or UNRESOLVED one
loses its expected size unnoticed (check_regression.py:53, against the comment at
57-59); after an `#elif` the miner forgets that an earlier condition was not known
and files the assert as applicable (mine_static_asserts.py:195, against its
docstring at 19-21); the template flag waits for the next record declaration, so a
function template makes a plain record keep bare names
(mine_static_asserts.py:253, against 125-132); asserts in comments are mined, the
raw line being searched; the harness's map is never cleared when another save is
loaded; devbench is asked for once, within the plugin's own kPostLoad; an assert
that is active in the AE view alone blames a plugin of all runtimes whose compiler
never checked it (parse_layout_log.py:208); an incomplete or empty log is exit
status 0; the stand-in `RelocateMemberIfNewer` always takes the AE offset
(layout_pch.h:299-313), CommonLibSSE-NG's own compares the game's version; no
difference between the probe's phases does not show that libclang answers in
order, since PHASE1 itself may have upset it (scale_probe.c:8-9); `nested_probe.c`
uses `argv[1]` without a look at `argc`.

## 6. Not modelled, and why

The parser itself is a submodule that is not in the repository; what it
resolves is a free input, and so are the sizes the importer records of the
headers: layout_pch.h and generated_symbols.h, whose stand-ins have a part in
them, are not modelled. The game, SKSE, devbench and Ghidra appear only as the
code uses them. The template miners, the stub generator, the
explorer and the shell helpers keep no state and have no failure handling: they
turn text into text. The vendored devbench header is an interface. The rest of
PROJECT.json's `not_modelled` components are planned.

## 7. Plan

Written in this order because a wrong archive (parser half patched, ground
truth guessed, baseline losing classes) is what the users of the toolkit would
never notice: `SubmoduleBuild`, `CoverageGate`, `ArchiveBuild`,
`StaticAssertMiner`, then the plugin: its map (`RuntimeHarness`), its hooks
(`PluginHooks`), its report (`LayoutReport`), and the probes of the library they all
rest on. Next:

1. `TilJson`: members and type references of the JSON, duplicate field names,
   against what the validator and the round-trip check accept; extends
   `ArchiveBuild`'s types. Question: does the validator accept every JSON the
   exporter writes, and does the round trip notice a lost or resized type?
2. `FunctionIdMiner`: the token scanner of `mine_function_ids.py`, checked the way
   the assert miner is.
3. `ApplySymbols`: symbols over a program with labels and user names; applying
   twice is applying once.
4. `ReleaseBuild`: jobs, artifacts and the publish job of the release workflow.
5. `AddressLibrary`: delta decoding as a recursive function with widths, against a
   reference encoding.
6. Proofs: idempotence of `ApplySymbols`; the abstract specification of one build
   shown to be implemented by the passes.
