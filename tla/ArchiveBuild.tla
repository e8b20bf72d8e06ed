---------------------------- MODULE ArchiveBuild ----------------------------
(***************************************************************************)
(* tools/GenerateGdt.java: successive builds of one archive file.  A build *)
(* commits the resolved types, pads the classes of the hint file,          *)
(* annotates every type with its coverage status, saves after each pass,   *)
(* and writes the CSV and JSON reports from the same type manager.         *)
(*                                                                         *)
(* A type is known by its category path and its bare name; everything      *)
(* after the parser looks types up by the bare name alone.  Order is the   *)
(* order in which getAllDataTypes visits the types of one name.            *)
(***************************************************************************)
EXTENDS Classification, Sequences, Functions, Selections

CONSTANTS
    Names,         \* bare names
    Order,         \* category paths, in the order they are visited
    Kinds,         \* kinds of types the parser resolves
    Targets,       \* names that the JSON gives as what a typedef stands for
    ContentSizes,  \* bytes of a type's real components, 0 if it has none
    MinSizes,      \* sizes that hint lines give
    OptionSets,    \* the optional arguments that builds are given
    MaxHints,      \* bound: lines of the hint file
    MaxBuilds,     \* bound: builds of the one output path
    Leftovers,     \* archives that may be at the output path before the first
    FreshBaseline  \* TRUE: types are annotated from a baseline regenerated by a
                   \* sweep of the same types and hints, and no commit fails

AllKinds == {"struct", "union", "enum", "typedef", "function"}

ASSUME OrderAssumption ==
    /\ Order \in Seq(Range(Order))
    /\ \A i, j \in DOMAIN Order : Order[i] = Order[j] => i = j
ASSUME KindsAssumption == Kinds \subseteq AllKinds
ASSUME ContentAssumption == ContentSizes \subseteq Nat /\ MinSizes \subseteq Nat
ASSUME OptionsAssumption == OptionSets \subseteq SUBSET {"hints", "annotate", "csv", "json"}
ASSUME BoundsAssumption == MaxHints \in Nat /\ MaxBuilds \in Nat
ASSUME FreshAssumption == FreshBaseline \in BOOLEAN

VARIABLES
    pc,      \* the pass the build is at
    builds,  \* builds started
    input,   \* what this build reads, and the options it was given
    dtm,     \* the FileDataTypeManager
    line,    \* the hint line that is applied next
    disk,    \* the archive at the output path
    csv,     \* the report at the --report-csv path
    json     \* the report at the --report-json path

vars == <<pc, builds, input, dtm, line, disk, csv, json>>

-----------------------------------------------------------------------------
(* Types and inputs *)

Paths == Range(Order)
Keys == Paths \X Names
NameOf(k) == k[2]
Rank(p) == CHOOSE i \in DOMAIN Order : Order[i] = p

\* A typedef's size is that of the type it stands for; types of one target name
\* may differ in size, as types of any name may.
ParsedType ==
    [kind : Kinds \ {"typedef"}, size : ContentSizes, to : {None}]
        \cup [kind : Kinds \cap {"typedef"}, size : ContentSizes, to : Targets]
ParsedTypes == UNION {[D -> ParsedType] : D \in SUBSET Keys}

\* min is None where the line's number does not parse.
HintFiles == UNION {[1..n -> [name : Names, min : MinSizes \cup {None}]] : n \in 0..MaxHints}
MaybeStatus == Statuses \cup {None}

\* Ghidra gives a composite without components the length 1.
LengthOf(size) == IF size = 0 THEN 1 ELSE size
Length(d) == LengthOf(d.size)

\* The keys of a name that a set of types holds, and the first one visited.
KeysOf(types, n) == {k \in DOMAIN types : NameOf(k) = n}
Visited(keys) == CHOOSE k \in keys : \A other \in keys : Rank(k[1]) <= Rank(other[1])

TypeRecords ==
    [kind : Kinds, size : Nat, to : Targets \cup {None},
     desc : Seq(Statuses \cup {"Widened"}), moved : BOOLEAN]

IsTypes(types) ==
    DOMAIN types \subseteq Keys /\ types \in [DOMAIN types -> TypeRecords]

ASSUME LeftoversAssumption == \A types \in Leftovers : IsTypes(types)

\* What both reports and the annotation leave out.
Reported(d) == d.kind # "function"
ReportedKeys(types, n) == {k \in KeysOf(types, n) : Reported(types[k])}

-----------------------------------------------------------------------------
(* The reports *)

\* The reported types of a name, in the order visited (the sort is by name
\* only, and stable).
InOrder(types, n) ==
    LET there == Selected(Order, {i \in DOMAIN Order : <<Order[i], n>> \in ReportedKeys(types, n)})
    IN  [i \in 1..Len(there) |-> types[<<there[i], n>>]]

\* writeCoverageReport: the sizes of the rows of each name.
CsvRows(types) ==
    [n \in Names |-> [i \in 1..Len(InOrder(types, n)) |-> Length(InOrder(types, n)[i])]]

\* compositeToJson, enumToJson and typeDefToJson without members: the entry of a
\* typedef has no size, and only composites have a provenance.
TailPadded(d) == d.desc # <<>> /\ Head(d.desc) = "Widened"
JsonEntry(d) ==
    CASE d.kind \in {"struct", "union"} ->
            [kind |-> d.kind, size |-> Length(d), tail_padded |-> TailPadded(d)]
      [] d.kind = "enum" -> [kind |-> d.kind, size |-> Length(d)]
      [] d.kind = "typedef" -> [kind |-> d.kind, to |-> d.to]

\* (Fault: a second type of a name is dropped even when it differs.)
FlattenFirst(entries) == SubSeq(entries, 1, IF entries = <<>> THEN 0 ELSE 1)

\* writeJsonReport: equal to the first entry of the name, dropped; different,
\* kept as name__dupN.
Flatten(entries) ==
    Selected(entries, {i \in DOMAIN entries : i = 1 \/ entries[i] # entries[1]})

JsonTypes(types) ==
    [n \in Names |->
        Flatten([i \in 1..Len(InOrder(types, n)) |-> JsonEntry(InOrder(types, n)[i])])]

-----------------------------------------------------------------------------
Live == {"parse", "delete", "commit", "pad", "annotate", "csv", "json"}
Ended == {"done", "aborted"}

NoInput == [types |-> <<>>, hints |-> <<>>, status |-> [n \in Names |-> None],
            asserted |-> [n \in Names |-> None], options |-> {}]

Init ==
    /\ pc = "idle"
    /\ builds = 0
    /\ input = NoInput
    /\ dtm = <<>>
    /\ line = 1
    /\ disk \in Leftovers
    /\ csv = CsvRows(disk)
    /\ json = [gdt_sha256 |-> disk, types |-> JsonTypes(disk)]

\* The size a type gets from the hints: of the types of a name only the first
\* visited is padded, and only if it is a struct.
Mins(hints, n) == {hints[i].min : i \in {j \in DOMAIN hints : hints[j].name = n}}
PaddedSize(types, hints, k) ==
    LET mins == {m \in Mins(hints, NameOf(k)) : m # None /\ m > types[k].size}
    IN  IF types[k].kind = "struct" /\ k = Visited(KeysOf(types, NameOf(k))) /\ mins # {}
        THEN CHOOSE m \in mins : \A other \in mins : other <= m
        ELSE types[k].size

\* The status that a sweep of these types and hints gives a name
\* (coverage_report.py looks at the name's first row).
SweptStatus(types, hints, asserted, n) ==
    LET there == ReportedKeys(types, n)
        first == Visited(there)
    IN  Status(asserted[n],
               IF there = {} THEN None
               ELSE LengthOf(PaddedSize(types, hints, first)))

\* What the headers assert, and the statuses of the baseline annotated from.
Baselines(types, hints) ==
    IF FreshBaseline
    THEN {[asserted |-> a, status |-> [n \in Names |-> SweptStatus(types, hints, a, n)]] :
             a \in [Names -> MaybeSize]}
    ELSE {[asserted |-> [n \in Names |-> None], status |-> s] : s \in [Names -> MaybeStatus]}

\* A build of the same output path, with the headers, hints, baseline and
\* options of its day.
Start ==
    /\ pc \in {"idle"} \cup Ended
    /\ builds < MaxBuilds
    /\ pc' = "parse"
    /\ builds' = builds + 1
    /\ \E types \in ParsedTypes, hints \in HintFiles, options \in OptionSets :
          \E baseline \in Baselines(types, hints) :
             input' = [types |-> types, hints |-> hints, status |-> baseline.status,
                       asserted |-> baseline.asserted, options |-> options]
    /\ dtm' = <<>>
    /\ line' = 1
    /\ UNCHANGED <<disk, csv, json>>

\* The process ends early; what it had in memory is gone.
Exit ==
    /\ pc' = "aborted"
    /\ input' = NoInput
    /\ dtm' = <<>>
    /\ line' = 1
    /\ UNCHANGED <<builds, disk, csv, json>>

\* An uncaught exception (exit 1), or a kill.
Abort == pc \in Live /\ Exit

\* Arguments, parseFiles and resolve.
Parse ==
    /\ pc = "parse"
    /\ pc' = "delete"
    /\ UNCHANGED <<builds, input, dtm, line, disk, csv, json>>

\* (Fault: an archive at the output path is opened and added to.)
DeleteKeeps ==
    /\ pc = "delete"
    /\ pc' = "commit"
    /\ dtm' = disk
    /\ UNCHANGED <<builds, input, line, disk, csv, json>>

Delete ==
    /\ pc = "delete"
    /\ pc' = "commit"
    /\ disk' = <<>>
    /\ UNCHANGED <<builds, input, dtm, line, csv, json>>

\* addDataType with REPLACE_HANDLER for every type; a type it throws on is
\* counted and skipped.  The first save.
Commit ==
    /\ pc = "commit"
    /\ pc' = "pad"
    /\ \E added \in SUBSET DOMAIN input.types :
          /\ FreshBaseline => added = DOMAIN input.types
          /\ dtm' = [k \in added \cup DOMAIN dtm |->
                        IF k \in added
                        THEN [kind |-> input.types[k].kind, size |-> input.types[k].size,
                              to |-> input.types[k].to,
                              desc |-> <<>>, moved |-> FALSE]
                        ELSE dtm[k]]
    /\ disk' = dtm'
    /\ UNCHANGED <<builds, input, line, csv, json>>

\* (Fault: the phantom byte of an empty struct counts as real.)
OccupiedPhantom(d) == Length(d)
Occupied(d) == d.size

\* One line of applyTailPaddingHints: a trailing byte array up to the minimum,
\* and a description that replaces the type's own.
PadHint ==
    /\ pc = "pad" /\ "hints" \in input.options
    /\ line \in DOMAIN input.hints
    /\ LET hint == input.hints[line]
           there == KeysOf(dtm, hint.name)
           first == Visited(there)
           gap == hint.min - Occupied(dtm[first])
       IN  /\ hint.min # None
           /\ dtm' = IF there # {} /\ dtm[first].kind = "struct" /\ gap > 0
                     THEN [dtm EXCEPT ![first].size = @ + gap, ![first].desc = <<"Widened">>]
                     ELSE dtm
    /\ line' = line + 1
    /\ UNCHANGED <<pc, builds, input, disk, csv, json>>

\* A number that does not parse ends the build before the pass is saved.
BadHint ==
    /\ pc = "pad" /\ "hints" \in input.options
    /\ line \in DOMAIN input.hints /\ input.hints[line].min = None
    /\ Exit

\* The end of the pass, and its save; or no pass at all.
PadEnd ==
    /\ pc = "pad"
    /\ IF "hints" \in input.options
         THEN line \notin DOMAIN input.hints /\ disk' = dtm
         ELSE UNCHANGED disk
    /\ pc' = "annotate"
    /\ UNCHANGED <<builds, input, dtm, line, csv, json>>

\* (Fault: the status replaces the description instead of preceding it.)
StampReplace(d, status) == <<status>>
Stamp(d, status) == <<status>> \o d.desc

\* setCategoryPath refuses a second type of the same name in the folder.
Moves(types, k, status) ==
    status = "MISMATCH" /\ k = Visited(ReportedKeys(types, NameOf(k)))

\* (Fault: a type whose name the baseline lacks is stamped all the same.)
KnownAll(types) == {k \in DOMAIN types : Reported(types[k])}

\* The types whose bare name the baseline knows.
Known(types) ==
    {k \in DOMAIN types : Reported(types[k]) /\ input.status[NameOf(k)] # None}

Annotated(types, lost) ==
    [k \in DOMAIN types |->
        LET status == input.status[NameOf(k)] IN
        IF k \notin Known(types) THEN types[k]
        ELSE [types[k] EXCEPT
                !.desc = IF k \in lost THEN @ ELSE Stamp(types[k], status),
                !.moved = Moves(types, k, status)]]

\* annotateCoverageStatus, and the save that follows.  The description of a
\* typedef does not always surface (lost).
Annotate ==
    /\ pc = "annotate"
    /\ IF "annotate" \in input.options
         THEN /\ \E lost \in SUBSET {k \in Known(dtm) : dtm[k].kind = "typedef"} :
                    dtm' = Annotated(dtm, lost)
              /\ disk' = dtm'
         ELSE UNCHANGED <<dtm, disk>>
    /\ pc' = "csv"
    /\ UNCHANGED <<builds, input, line, csv, json>>

\* (Fault: the sizes are those of the types before they were committed.)
WriteCsvParsed ==
    /\ pc = "csv"
    /\ csv' = IF "csv" \in input.options THEN CsvRows(input.types) ELSE csv
    /\ pc' = "json"
    /\ UNCHANGED <<builds, input, dtm, line, disk, json>>

WriteCsv ==
    /\ pc = "csv"
    /\ csv' = IF "csv" \in input.options THEN CsvRows(dtm) ELSE csv
    /\ pc' = "json"
    /\ UNCHANGED <<builds, input, dtm, line, disk, json>>

\* The JSON names the archive it goes with by the hash of the file.
WriteJson ==
    /\ pc = "json"
    /\ json' = IF "json" \in input.options
                 THEN [gdt_sha256 |-> disk, types |-> JsonTypes(dtm)] ELSE json
    /\ pc' = "done"
    /\ UNCHANGED <<builds, input, dtm, line, disk, csv>>

Build ==
    \/ Parse \/ Delete \/ Commit \/ PadHint \/ BadHint \/ PadEnd \/ Annotate
    \/ WriteCsv \/ WriteJson

Next ==
    \/ Start
    \/ Build
    \/ Abort

Spec == Init /\ [][Next]_vars

-----------------------------------------------------------------------------
(* Properties *)

TypeOK ==
    /\ pc \in {"idle"} \cup Live \cup Ended
    /\ builds \in 0..MaxBuilds
    /\ DOMAIN input.types \subseteq Keys
    /\ \A k \in DOMAIN input.types : input.types[k] \in ParsedType
    /\ \E n \in 0..MaxHints : DOMAIN input.hints = 1..n
    /\ \A i \in DOMAIN input.hints :
          input.hints[i] \in [name : Names, min : MinSizes \cup {None}]
    /\ input.status \in [Names -> MaybeStatus]
    /\ line \in 1..MaxHints + 1
    /\ IsTypes(dtm)
    /\ IsTypes(disk)

\* When a build exits 0, the file holds the last pass's types and every report
\* that was asked for describes that file: sizes are "read back from the
\* FileDataTypeManager itself", after the padding (lines 196-227).
OutputsAgree ==
    pc = "done" =>
        /\ disk = dtm
        /\ "csv" \in input.options => csv = CsvRows(disk)
        /\ "json" \in input.options =>
              json.gdt_sha256 = disk /\ json.types = JsonTypes(disk)

\* Whatever the hint lines and their order, a padded class gets exactly the
\* greatest size hinted, an empty one included, and no other type changes size.
PaddedToHints ==
    pc \in {"annotate", "csv", "json", "done"} =>
        \A k \in DOMAIN dtm :
            dtm[k].size =
                PaddedSize([j \in DOMAIN dtm |-> input.types[j]],
                           IF "hints" \in input.options THEN input.hints ELSE <<>>, k)

\* What was built earlier at the output path does not leak into the archive:
\* from the deletion on it holds only this build's types.
ArchiveOfThisBuild ==
    pc \in {"commit", "pad", "annotate", "csv", "json", "done"} =>
        \A k \in DOMAIN disk :
            k \in DOMAIN input.types /\ disk[k].kind = input.types[k].kind

\* A layout known to be wrong cannot be missed: every type of a MISMATCH name
\* carries the warning, one of each such name is in the warning folder, nothing
\* else is, and a padding note survives under the stamp (lines 690-695, 751-763).
WrongLayoutsFlagged ==
    pc = "done" /\ "annotate" \in input.options =>
        \A k \in DOMAIN disk :
            LET d == disk[k]
                status == input.status[NameOf(k)]
            IN  /\ d.moved => status = "MISMATCH"
                /\ status = "MISMATCH" /\ Reported(d) =>
                      /\ \E j \in KeysOf(disk, NameOf(k)) : disk[j].moved
                      /\ d.kind # "typedef" => d.desc # <<>> /\ Head(d.desc) = "MISMATCH"
                /\ d.size # input.types[k].size => "Widened" \in Range(d.desc)

\* The flat JSON loses no type of the archive, as far as its entries tell types
\* apart: a struct, union or enum of another kind or size, or a typedef of another
\* target, is kept under a name of its own, "rather than either overwriting data
\* or emitting two types under one name" (lines 343-345).  The size of a typedef
\* is in no entry, so one that differs from the first in size alone is dropped.
JsonLosesNothing ==
    pc = "done" /\ "json" \in input.options =>
        \A k \in DOMAIN disk : Reported(disk[k]) =>
            \E e \in Range(json.types[NameOf(k)]) :
                /\ e.kind = disk[k].kind
                /\ IF e.kind = "typedef" THEN e.to = disk[k].to
                                         ELSE e.size = Length(disk[k])

\* A VERIFIED stamp is true of the type that carries it: "sizeof matches the
\* header's static_assert -- byte-accurate" (line 730).
VerifiedStampTrue ==
    pc = "done" =>
        \A k \in DOMAIN disk :
            "OK" \in Range(disk[k].desc) => Length(disk[k]) = input.asserted[NameOf(k)]

=============================================================================
