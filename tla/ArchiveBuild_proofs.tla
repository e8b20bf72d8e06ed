------------------------ MODULE ArchiveBuild_proofs ------------------------
(***************************************************************************)
(* Proofs about the archive builds, for any types, hint files, baselines,  *)
(* options and number of builds.                                           *)
(***************************************************************************)
EXTENDS ArchiveBuild, Selections_proofs, TLAPS

\* A pass ends the process or goes on from the pass before it.
LEMMA ExitType == TypeOK /\ Exit => TypeOK'
  BY BoundsAssumption DEF TypeOK, Exit, NoInput, MaybeStatus, Ended, IsTypes

\* What a build reads has the declared types.
LEMMA StartType == TypeOK /\ Start => TypeOK'
<1> SUFFICES ASSUME TypeOK, Start PROVE TypeOK'
  OBVIOUS
<1>0. PICK types \in ParsedTypes, hints \in HintFiles, options \in OptionSets :
         \E baseline \in Baselines(types, hints) :
            input' = [types |-> types, hints |-> hints, status |-> baseline.status,
                      asserted |-> baseline.asserted, options |-> options]
  BY DEF Start
<1>1. PICK baseline \in Baselines(types, hints) :
         input' = [types |-> types, hints |-> hints, status |-> baseline.status,
                   asserted |-> baseline.asserted, options |-> options]
  BY <1>0
<1>2. baseline.status \in [Names -> MaybeStatus]
  <2>1. \A n \in Names : SweptStatus(types, hints, baseline.asserted, n) \in MaybeStatus
    BY DEF SweptStatus, Status, Statuses, MaybeStatus
  <2>2. CASE FreshBaseline
    <3>1. PICK a \in [Names -> MaybeSize] :
             baseline = [asserted |-> a,
                         status |-> [n \in Names |-> SweptStatus(types, hints, a, n)]]
      BY <1>1, <2>2 DEF Baselines
    <3>2. QED
      BY <2>1, <3>1
  <2>3. CASE ~FreshBaseline
    BY <1>1, <2>3 DEF Baselines
  <2>4. QED
    BY <2>2, <2>3
<1>3. /\ DOMAIN types \subseteq Keys
      /\ \A k \in DOMAIN types : types[k] \in ParsedType
  BY DEF ParsedTypes
<1>4. /\ \E n \in 0..MaxHints : DOMAIN hints = 1..n
      /\ \A i \in DOMAIN hints : hints[i] \in [name : Names, min : MinSizes \cup {None}]
  <2>1. PICK n \in 0..MaxHints : hints \in [1..n -> [name : Names, min : MinSizes \cup {None}]]
    BY <1>1 DEF HintFiles
  <2>2. QED
    BY <2>1, BoundsAssumption
<1>5. pc' \in Live /\ builds' \in 0..MaxBuilds /\ line' \in 1..MaxHints + 1 /\ IsTypes(dtm')
      /\ IsTypes(disk')
  BY BoundsAssumption DEF TypeOK, Start, Live, IsTypes
<1>6. QED
  BY <1>1, <1>2, <1>3, <1>4, <1>5 DEF TypeOK

\* Committing, padding and annotating keep the type manager a set of types.
LEMMA CommitType == TypeOK /\ Commit => TypeOK'
<1> SUFFICES ASSUME TypeOK, Commit PROVE TypeOK'
  OBVIOUS
<1>1. PICK added \in SUBSET DOMAIN input.types :
        dtm' = [k \in added \cup DOMAIN dtm |->
                  IF k \in added
                  THEN [kind |-> input.types[k].kind, size |-> input.types[k].size,
                        to |-> input.types[k].to,
                        desc |-> <<>>, moved |-> FALSE]
                  ELSE dtm[k]]
  BY DEF Commit
<1>2. \A k \in added : input.types[k] \in [kind : Kinds, size : Nat, to : Targets \cup {None}]
  BY ContentAssumption DEF TypeOK, ParsedType
<1>3. <<>> \in Seq(Statuses \cup {"Widened"})
  OBVIOUS
<1>4. \A k \in added :
        [kind |-> input.types[k].kind, size |-> input.types[k].size,
         to |-> input.types[k].to, desc |-> <<>>, moved |-> FALSE] \in TypeRecords
  BY <1>2, <1>3 DEF TypeRecords
<1>5. IsTypes(dtm')
  BY <1>1, <1>4 DEF IsTypes, TypeOK
<1>6. QED
  BY <1>5 DEF TypeOK, Commit, Live

LEMMA PadHintType == TypeOK /\ PadHint => TypeOK'
<1> SUFFICES ASSUME TypeOK, PadHint PROVE TypeOK'
  OBVIOUS
<1> DEFINE hint == input.hints[line]
           there == KeysOf(dtm, hint.name)
           first == Visited(there)
           gap == hint.min - Occupied(dtm[first])
           wider == [dtm EXCEPT ![first].size = @ + gap, ![first].desc = <<"Widened">>]
<1>1. dtm' = IF there # {} /\ dtm[first].kind = "struct" /\ gap > 0 THEN wider ELSE dtm
  BY DEF PadHint
<1>2. hint.min \in Nat
  BY ContentAssumption DEF PadHint, TypeOK
<1>3. CASE first \in DOMAIN dtm /\ gap > 0
  <2>1. dtm[first] \in TypeRecords
    BY <1>3 DEF TypeOK, IsTypes
  <2>2. dtm[first].size \in Nat /\ gap \in Int
    BY <1>2, <2>1 DEF TypeRecords, Occupied
  <2>3. dtm[first].size + gap \in Nat
    BY <2>2, <1>3
  <2>4. <<"Widened">> \in Seq(Statuses \cup {"Widened"})
    OBVIOUS
  <2>5. [dtm[first] EXCEPT !.size = @ + gap, !.desc = <<"Widened">>] \in TypeRecords
    BY <2>1, <2>3, <2>4 DEF TypeRecords
  <2>6. wider = [dtm EXCEPT ![first] = [dtm[first] EXCEPT !.size = @ + gap, !.desc = <<"Widened">>]]
    BY <1>3 DEF TypeOK, IsTypes
  <2>7. wider \in [DOMAIN dtm -> TypeRecords]
    BY <2>5, <2>6 DEF TypeOK, IsTypes
  <2>8. IsTypes(dtm')
    BY <1>1, <2>7 DEF TypeOK, IsTypes
  <2>9. line + 1 \in 1..MaxHints + 1
    BY BoundsAssumption DEF TypeOK, PadHint
  <2>10. QED
    BY <2>8, <2>9 DEF TypeOK, PadHint
<1>4. CASE ~(first \in DOMAIN dtm /\ gap > 0)
  <2>1. dtm' = dtm
    BY <1>1, <1>4 DEF TypeOK, IsTypes
  <2>2. line + 1 \in 1..MaxHints + 1
    BY BoundsAssumption DEF TypeOK, PadHint
  <2>3. QED
    BY <2>1, <2>2 DEF TypeOK, PadHint
<1>5. QED
  BY <1>3, <1>4

LEMMA AnnotateType == TypeOK /\ Annotate => TypeOK'
<1> SUFFICES ASSUME TypeOK, Annotate PROVE TypeOK'
  OBVIOUS
<1>1. CASE "annotate" \in input.options
  <2>1. PICK lost \in SUBSET {k \in Known(dtm) : dtm[k].kind = "typedef"} :
           dtm' = Annotated(dtm, lost)
    BY <1>1 DEF Annotate
  <2>2. ASSUME NEW k \in DOMAIN dtm PROVE Annotated(dtm, lost)[k] \in TypeRecords
    <3>1. dtm[k] \in TypeRecords
      BY DEF TypeOK, IsTypes
    <3>2. CASE k \in Known(dtm)
      <4>1. input.status[NameOf(k)] \in Statuses
        BY <3>2 DEF Known, TypeOK, MaybeStatus, Keys, NameOf, IsTypes
      <4>2. Stamp(dtm[k], input.status[NameOf(k)]) \in Seq(Statuses \cup {"Widened"})
        BY <3>1, <4>1 DEF Stamp, TypeRecords
      <4>3. Moves(dtm, k, input.status[NameOf(k)]) \in BOOLEAN
        BY DEF Moves
      <4>4. QED
        BY <3>1, <3>2, <4>2, <4>3 DEF Annotated, TypeRecords
    <3>3. CASE k \notin Known(dtm)
      BY <3>1, <3>3 DEF Annotated
    <3>4. QED
      BY <3>2, <3>3
  <2>3. IsTypes(dtm')
    BY <2>1, <2>2 DEF IsTypes, Annotated, TypeOK
  <2>4. QED
    BY <1>1, <2>3 DEF TypeOK, Annotate, Live
<1>2. CASE "annotate" \notin input.options
  BY <1>2 DEF TypeOK, Annotate, Live
<1>3. QED
  BY <1>1, <1>2

\* Every reachable state has the declared types: a hint never makes a size
\* negative, and only statuses the baseline holds end up in a description.
THEOREM TypeCorrect == Spec => []TypeOK
<1>1. Init => TypeOK
  BY BoundsAssumption, LeftoversAssumption DEF Init, NoInput, TypeOK, MaybeStatus, IsTypes
<1>2. TypeOK /\ [Next]_vars => TypeOK'
  <2> SUFFICES ASSUME TypeOK, [Next]_vars PROVE TypeOK'
    OBVIOUS
  <2>1. CASE Start
    BY <2>1, StartType
  <2>2. CASE Parse
    BY <2>2 DEF TypeOK, Parse, Live
  <2>3. CASE Delete
    BY <2>3 DEF TypeOK, Delete, Live, IsTypes
  <2>4. CASE Commit
    BY <2>4, CommitType
  <2>5. CASE PadHint
    BY <2>5, PadHintType
  <2>6. CASE BadHint
    BY <2>6, ExitType DEF BadHint
  <2>7. CASE PadEnd
    BY <2>7 DEF TypeOK, PadEnd, Live
  <2>8. CASE Annotate
    BY <2>8, AnnotateType
  <2>9. CASE WriteCsv
    BY <2>9 DEF TypeOK, WriteCsv, Live
  <2>10. CASE WriteJson
    BY <2>10 DEF TypeOK, WriteJson, Ended
  <2>11. CASE Abort
    BY <2>11, ExitType DEF Abort
  <2>12. CASE UNCHANGED vars
    BY <2>12 DEF TypeOK, vars
  <2>13. QED
    BY <2>1, <2>2, <2>3, <2>4, <2>5, <2>6, <2>7, <2>8, <2>9, <2>10, <2>11, <2>12
       DEF Next, Build
<1>3. QED
  BY <1>1, <1>2, PTL DEF Spec

-----------------------------------------------------------------------------
\* The file and the type manager agree wherever the last pass was saved, and
\* each report describes the file from the moment it is written.
Saved ==
    /\ pc = "pad" /\ "hints" \notin input.options => disk = dtm
    /\ pc \in {"annotate", "csv", "json", "done"} => disk = dtm
    /\ pc \in {"json", "done"} /\ "csv" \in input.options => csv = CsvRows(disk)
    /\ pc = "done" /\ "json" \in input.options =>
          json.gdt_sha256 = disk /\ json.types = JsonTypes(disk)

\* A build that exits 0 leaves the last pass's types in the file, and every
\* report that was asked for describes that file.
THEOREM ReportsDescribeFile == Spec => []OutputsAgree
<1>1. Init => Saved
  BY DEF Init, Saved
<1>2. Saved /\ [Next]_vars => Saved'
  <2> SUFFICES ASSUME Saved, [Next]_vars PROVE Saved'
    OBVIOUS
  <2>1. CASE Start
    BY <2>1 DEF Saved, Start
  <2>2. CASE Parse \/ Delete
    BY <2>2 DEF Saved, Parse, Delete
  <2>3. CASE Commit
    BY <2>3 DEF Saved, Commit
  <2>4. CASE PadHint
    BY <2>4 DEF Saved, PadHint
  <2>5. CASE BadHint \/ Abort
    BY <2>5 DEF Saved, BadHint, Abort, Exit
  <2>6. CASE PadEnd
    BY <2>6 DEF Saved, PadEnd
  <2>7. CASE Annotate
    BY <2>7 DEF Saved, Annotate
  <2>8. CASE WriteCsv
    BY <2>8 DEF Saved, WriteCsv
  <2>9. CASE WriteJson
    BY <2>9 DEF Saved, WriteJson
  <2>10. CASE UNCHANGED vars
    BY <2>10 DEF Saved, vars
  <2>11. QED
    BY <2>1, <2>2, <2>3, <2>4, <2>5, <2>6, <2>7, <2>8, <2>9, <2>10 DEF Next, Build
<1>3. Saved => OutputsAgree
  BY DEF Saved, OutputsAgree
<1>4. QED
  BY <1>1, <1>2, <1>3, PTL DEF Spec

-----------------------------------------------------------------------------
\* A set of types that this build resolved.
OfThisBuild(types) ==
    \A k \in DOMAIN types :
        k \in DOMAIN input.types /\ types[k].kind = input.types[k].kind

\* Nothing is in the type manager before the commit; after the deletion the
\* file, and after the commit the type manager, hold only this build's types.
Fresh ==
    /\ pc \in {"parse", "delete", "commit"} => dtm = <<>>
    /\ pc \in {"commit", "pad", "annotate", "csv", "json", "done"} =>
          OfThisBuild(disk) /\ OfThisBuild(dtm)

\* Nothing that was built earlier at the output path leaks into an archive.
THEOREM FreshAlways == Spec => []Fresh
<1>1. Init => Fresh
  BY DEF Init, Fresh
<1>2. TypeOK /\ Fresh /\ [Next]_vars => Fresh'
  <2> SUFFICES ASSUME TypeOK, Fresh, [Next]_vars PROVE Fresh'
    OBVIOUS
  <2>1. CASE Start
    BY <2>1 DEF Fresh, Start
  <2>2. CASE Parse
    BY <2>2 DEF Fresh, Parse
  <2>3. CASE Delete
    BY <2>3 DEF Fresh, Delete, OfThisBuild
  <2>4. CASE Commit
    <3>1. DOMAIN dtm = {}
      BY <2>4 DEF Fresh, Commit
    <3>2. OfThisBuild(dtm') /\ input' = input /\ disk' = dtm' /\ pc' = "pad"
      BY <2>4, <3>1 DEF Commit, OfThisBuild
    <3>3. QED
      BY <3>2 DEF Fresh, OfThisBuild
  <2>5. CASE PadHint
    <3>1. DOMAIN dtm' = DOMAIN dtm /\ \A k \in DOMAIN dtm : dtm'[k].kind = dtm[k].kind
      BY <2>5 DEF PadHint, TypeOK, IsTypes, TypeRecords
    <3>2. QED
      BY <2>5, <3>1 DEF Fresh, OfThisBuild, PadHint
  <2>6. CASE BadHint \/ Abort
    BY <2>6 DEF Fresh, BadHint, Abort, Exit
  <2>7. CASE PadEnd
    BY <2>7 DEF Fresh, OfThisBuild, PadEnd
  <2>8. CASE Annotate
    <3>0. ASSUME NEW lost
          PROVE  /\ DOMAIN Annotated(dtm, lost) = DOMAIN dtm
                 /\ \A k \in DOMAIN dtm : Annotated(dtm, lost)[k].kind = dtm[k].kind
      <4>1. ASSUME NEW k \in DOMAIN dtm PROVE Annotated(dtm, lost)[k].kind = dtm[k].kind
        <5>1. dtm[k] \in TypeRecords
          BY DEF TypeOK, IsTypes
        <5>2. \A d, m : [dtm[k] EXCEPT !.desc = d, !.moved = m].kind = dtm[k].kind
          BY <5>1 DEF TypeRecords
        <5>3. QED
          BY <5>2 DEF Annotated
      <4>2. QED
        BY <4>1 DEF Annotated
    <3>1. DOMAIN dtm' = DOMAIN dtm /\ \A k \in DOMAIN dtm : dtm'[k].kind = dtm[k].kind
      BY <2>8, <3>0 DEF Annotate
    <3>2. disk' = disk \/ disk' = dtm'
      BY <2>8 DEF Annotate
    <3>3. QED
      BY <2>8, <3>1, <3>2 DEF Fresh, OfThisBuild, Annotate
  <2>9. CASE WriteCsv \/ WriteJson
    BY <2>9 DEF Fresh, OfThisBuild, WriteCsv, WriteJson
  <2>10. CASE UNCHANGED vars
    BY <2>10 DEF Fresh, OfThisBuild, vars
  <2>11. QED
    BY <2>1, <2>2, <2>3, <2>4, <2>5, <2>6, <2>7, <2>8, <2>9, <2>10 DEF Next, Build
<1>3. QED
  BY <1>1, <1>2, TypeCorrect, PTL DEF Spec

\* Nothing that was built earlier at the output path leaks into an archive.
THEOREM OwnTypesOnly == Spec => []ArchiveOfThisBuild
<1>1. Fresh => ArchiveOfThisBuild
  BY DEF Fresh, OfThisBuild, ArchiveOfThisBuild
<1>2. QED
  BY <1>1, FreshAlways, PTL

-----------------------------------------------------------------------------
LEMMA RankType ==
    ASSUME NEW p \in Paths
    PROVE  Rank(p) \in Nat
<1>1. \E i \in DOMAIN Order : Order[i] = p
  BY DEF Paths, Range
<1>2. DOMAIN Order \subseteq Nat
  BY OrderAssumption
<1>3. QED
  BY <1>1, <1>2 DEF Rank

\* Of the types of one name, one is visited first.
LEMMA VisitedIsOne ==
    ASSUME NEW keys \in SUBSET Keys, keys # {}
    PROVE  Visited(keys) \in keys
<1> DEFINE ranks == {Rank(k[1]) : k \in keys}
<1>1. \A k \in keys : Rank(k[1]) \in Nat
  BY RankType DEF Keys
<1>2. PICK m \in ranks : \A n \in ranks : m <= n
  <2>1. ranks \in SUBSET Nat /\ ranks # {}
    BY <1>1
  <2>2. QED
    BY <2>1, LeastNat
<1>3. \E k \in keys : \A other \in keys : Rank(k[1]) <= Rank(other[1])
  BY <1>2
<1>4. QED
  BY <1>3 DEF Visited

\* The hint lines that this build applies, and those it has applied.
HintLines == IF "hints" \in input.options THEN input.hints ELSE <<>>
Applied == {i \in DOMAIN HintLines : pc = "pad" => i < line}

Eligible(k) == dtm[k].kind = "struct" /\ k = Visited(KeysOf(dtm, NameOf(k)))

\* The loop invariant of the padding, without a maximum: the size is at least
\* the type's own and every one hinted, and is one of them.
SizeSoFar(k) ==
    /\ ~Eligible(k) => dtm[k].size = input.types[k].size
    /\ Eligible(k) =>
          /\ input.types[k].size <= dtm[k].size
          /\ \A i \in Applied :
                input.hints[i].name = NameOf(k) => input.hints[i].min <= dtm[k].size
          /\ \/ dtm[k].size = input.types[k].size
             \/ \E i \in Applied :
                   input.hints[i].name = NameOf(k) /\ input.hints[i].min = dtm[k].size

Padding ==
    /\ pc \in {"parse", "delete", "commit"} => line = 1
    /\ pc \in {"pad", "annotate", "csv", "json", "done"} =>
          /\ \A i \in Applied : input.hints[i].min # None
          /\ \A k \in DOMAIN dtm : SizeSoFar(k)

\* What the committing starts from.
LEMMA PaddingCommit == TypeOK /\ Fresh /\ Padding /\ Commit => Padding'
<1> SUFFICES ASSUME TypeOK, Fresh, Padding, Commit PROVE Padding'
  OBVIOUS
<1>1. line = 1 /\ dtm = <<>> /\ pc = "commit" /\ pc' = "pad" /\ UNCHANGED <<input, line>>
  BY DEF Commit, Padding, Fresh
<1>2. Applied' = {}
  <2>1. DOMAIN HintLines \subseteq Nat \ {0}
    BY BoundsAssumption DEF TypeOK, HintLines
  <2>2. QED
    BY <1>1, <2>1 DEF Applied, HintLines
<1>3. \A k \in DOMAIN dtm' : dtm'[k].size = input.types[k].size /\ k \in DOMAIN input.types
  BY <1>1 DEF Commit
<1>4. \A k \in DOMAIN input.types : input.types[k].size \in Nat
  BY ContentAssumption DEF TypeOK, ParsedType
<1>5. QED
  BY <1>1, <1>2, <1>3, <1>4 DEF Padding, SizeSoFar

\* One hint line: only the first visited type of its name can change.
LEMMA PaddingHint == TypeOK /\ Fresh /\ Padding /\ PadHint => Padding'
<1> SUFFICES ASSUME TypeOK, Fresh, Padding, PadHint PROVE Padding'
  OBVIOUS
<1> DEFINE hint == input.hints[line]
           there == KeysOf(dtm, hint.name)
           first == Visited(there)
           gap == hint.min - Occupied(dtm[first])
           wider == [dtm EXCEPT ![first].size = @ + gap, ![first].desc = <<"Widened">>]
           hit == there # {} /\ dtm[first].kind = "struct" /\ gap > 0
<1>1. /\ dtm' = IF hit THEN wider ELSE dtm
      /\ UNCHANGED <<pc, input>> /\ line' = line + 1 /\ pc = "pad"
      /\ line \in DOMAIN input.hints /\ "hints" \in input.options
  BY DEF PadHint
<1>2. hint.min \in Nat /\ hint.min # None /\ line \in Nat
  BY ContentAssumption, NoneAssumption DEF PadHint, TypeOK
<1>3. Applied' = Applied \cup {line}
  <2>1. DOMAIN HintLines \subseteq Nat
    BY BoundsAssumption DEF TypeOK, HintLines
  <2>2. QED
    BY <1>1, <1>2, <2>1 DEF Applied, HintLines
<1>4. \A k \in DOMAIN dtm : dtm[k] \in TypeRecords /\ dtm[k].size \in Nat
  BY DEF TypeOK, IsTypes, TypeRecords
<1>5. there # {} => first \in there
  <2>1. there \in SUBSET Keys
    BY DEF KeysOf, TypeOK, IsTypes
  <2>2. QED
    BY <2>1, VisitedIsOne
<1>6. /\ DOMAIN dtm' = DOMAIN dtm
      /\ \A k \in DOMAIN dtm : dtm'[k].kind = dtm[k].kind
      /\ \A k \in DOMAIN dtm : k # first => dtm'[k] = dtm[k]
      /\ hit => dtm'[first].size = hint.min
  <2>1. CASE ~hit
    BY <1>1, <2>1
  <2>2. CASE hit
    <3>1. first \in DOMAIN dtm
      BY <1>5, <2>2 DEF KeysOf
    <3>2. gap \in Int /\ dtm[first].size + gap = hint.min
      BY <1>2, <1>4, <3>1 DEF Occupied
    <3>3. DEFINE d == [dtm[first] EXCEPT !.size = @ + gap, !.desc = <<"Widened">>]
    <3>4. wider = [dtm EXCEPT ![first] = d]
      BY <3>1 DEF TypeOK, IsTypes
    <3>5. d.kind = dtm[first].kind /\ d.size = hint.min
      BY <1>4, <3>1, <3>2 DEF TypeRecords
    <3>6. wider[first] = d /\ DOMAIN wider = DOMAIN dtm
          /\ \A k \in DOMAIN dtm : k # first => wider[k] = dtm[k]
      BY <3>1, <3>4 DEF TypeOK, IsTypes
    <3>7. dtm' = wider
      BY <1>1, <2>2
    <3>8. QED
      BY <3>1, <3>5, <3>6, <3>7
  <2>3. QED
    BY <2>1, <2>2
<1>7. \A k \in DOMAIN dtm : KeysOf(dtm', NameOf(k)) = KeysOf(dtm, NameOf(k))
  BY <1>6 DEF KeysOf
<1>8. \A k \in DOMAIN dtm : Eligible(k)' <=> Eligible(k)
  BY <1>6, <1>7 DEF Eligible
<1>9. \A i \in Applied : input.hints[i].min \in Nat
  BY <1>1, ContentAssumption DEF Padding, TypeOK, Applied, HintLines
<1>10. \A k \in DOMAIN dtm : k \in DOMAIN input.types /\ input.types[k].size \in Nat
  BY <1>1, ContentAssumption DEF Fresh, OfThisBuild, TypeOK, ParsedType
<1>11. ASSUME NEW k \in DOMAIN dtm PROVE SizeSoFar(k)'
  <2>1. SizeSoFar(k)
    BY <1>1 DEF Padding
  <2>2. CASE k = first /\ hit
    <3>1. NameOf(k) = hint.name /\ Eligible(k)
      BY <1>5, <2>2 DEF KeysOf, Eligible
    <3>2. dtm'[k].size = hint.min /\ dtm[k].size < hint.min
      BY <1>2, <1>4, <1>6, <2>2 DEF Occupied
    <3>3. input.types[k].size <= dtm'[k].size
      BY <1>4, <1>10, <2>1, <3>1, <3>2, <1>2 DEF SizeSoFar
    <3>4. \A i \in Applied \cup {line} :
            input.hints[i].name = NameOf(k) => input.hints[i].min <= dtm'[k].size
      BY <1>2, <1>4, <1>9, <2>1, <3>1, <3>2 DEF SizeSoFar
    <3>5. QED
      BY <1>1, <1>3, <1>8, <3>1, <3>2, <3>3, <3>4 DEF SizeSoFar
  <2>3. CASE ~(k = first /\ hit)
    <3>1. dtm'[k].size = dtm[k].size
      BY <1>1, <1>6, <2>3
    <3>2. CASE Eligible(k)
      <4>1. hint.name = NameOf(k) => hint.min <= dtm[k].size
        <5>1. SUFFICES ASSUME hint.name = NameOf(k) PROVE hint.min <= dtm[k].size
          OBVIOUS
        <5>2. k = first /\ there # {} /\ dtm[k].kind = "struct"
          BY <3>2, <5>1 DEF Eligible, KeysOf
        <5>3. ~(gap > 0)
          BY <2>3, <5>2
        <5>4. QED
          BY <1>2, <1>4, <5>2, <5>3 DEF Occupied
      <4>2. \A i \in Applied \cup {line} :
              input.hints[i].name = NameOf(k) => input.hints[i].min <= dtm'[k].size
        BY <2>1, <3>1, <3>2, <4>1 DEF SizeSoFar
      <4>3. QED
        BY <1>1, <1>3, <1>8, <2>1, <3>1, <3>2, <4>2 DEF SizeSoFar
    <3>3. CASE ~Eligible(k)
      BY <1>1, <1>8, <2>1, <3>1, <3>3 DEF SizeSoFar
    <3>4. QED
      BY <3>2, <3>3
  <2>4. QED
    BY <2>2, <2>3
<1>12. QED
  BY <1>1, <1>2, <1>3, <1>6, <1>11 DEF Padding

\* A step that keeps names, kinds and sizes, and goes on from a later pass.
LEMMA PaddingKept ==
    ASSUME Padding, UNCHANGED input,
           pc \in {"pad", "annotate", "csv", "json", "done"},
           pc' \in {"annotate", "csv", "json", "done"},
           Applied' = Applied, DOMAIN dtm' = DOMAIN dtm,
           \A k \in DOMAIN dtm : dtm'[k].kind = dtm[k].kind /\ dtm'[k].size = dtm[k].size
    PROVE  Padding'
<1>1. \A k \in DOMAIN dtm : Eligible(k)' <=> Eligible(k)
  BY DEF Eligible, KeysOf
<1>2. \A k \in DOMAIN dtm : SizeSoFar(k)'
  BY <1>1 DEF Padding, SizeSoFar
<1>3. QED
  BY <1>2 DEF Padding

THEOREM PaddingAlways == Spec => []Padding
<1>1. Init => Padding
  BY DEF Init, Padding
<1>2. TypeOK /\ Fresh /\ Padding /\ [Next]_vars => Padding'
  <2> SUFFICES ASSUME TypeOK, Fresh, Padding, [Next]_vars PROVE Padding'
    OBVIOUS
  <2>1. CASE Start
    BY <2>1 DEF Padding, Start
  <2>2. CASE Parse \/ Delete
    BY <2>2 DEF Padding, Parse, Delete
  <2>3. CASE Commit
    BY <2>3, PaddingCommit
  <2>4. CASE PadHint
    BY <2>4, PaddingHint
  <2>5. CASE BadHint \/ Abort
    BY <2>5 DEF Padding, BadHint, Abort, Exit
  <2>6. CASE PadEnd
    <3>1. Applied' = Applied
      <4>1. DOMAIN HintLines = {} \/ \A i \in DOMAIN HintLines : i < line
        <5>1. PICK n \in 0..MaxHints : DOMAIN input.hints = 1..n
          BY DEF TypeOK
        <5>2. line \in Nat \ {0}
          BY BoundsAssumption DEF TypeOK
        <5>3. "hints" \in input.options => line \notin 1..n
          BY <2>6, <5>1 DEF PadEnd
        <5>4. QED
          BY <5>1, <5>2, <5>3, BoundsAssumption DEF HintLines
      <4>2. QED
        BY <2>6, <4>1 DEF Applied, HintLines, PadEnd
    <3>2. QED
      BY <2>6, <3>1, PaddingKept DEF PadEnd
  <2>7. CASE Annotate
    <3>1. ASSUME NEW lost
          PROVE  /\ DOMAIN Annotated(dtm, lost) = DOMAIN dtm
                 /\ \A k \in DOMAIN dtm : /\ Annotated(dtm, lost)[k].kind = dtm[k].kind
                                         /\ Annotated(dtm, lost)[k].size = dtm[k].size
      <4>1. ASSUME NEW k \in DOMAIN dtm
            PROVE  /\ Annotated(dtm, lost)[k].kind = dtm[k].kind
                   /\ Annotated(dtm, lost)[k].size = dtm[k].size
        <5>1. dtm[k] \in TypeRecords
          BY DEF TypeOK, IsTypes
        <5>2. \A d, m : /\ [dtm[k] EXCEPT !.desc = d, !.moved = m].kind = dtm[k].kind
                        /\ [dtm[k] EXCEPT !.desc = d, !.moved = m].size = dtm[k].size
          BY <5>1 DEF TypeRecords
        <5>3. QED
          BY <5>2 DEF Annotated
      <4>2. QED
        BY <4>1 DEF Annotated
    <3>2. /\ DOMAIN dtm' = DOMAIN dtm
          /\ \A k \in DOMAIN dtm : dtm'[k].kind = dtm[k].kind /\ dtm'[k].size = dtm[k].size
      BY <2>7, <3>1 DEF Annotate
    <3>3. Applied' = Applied
      BY <2>7 DEF Annotate, Applied, HintLines
    <3>4. QED
      BY <2>7, <3>2, <3>3, PaddingKept DEF Annotate
  <2>8. CASE WriteCsv \/ WriteJson
    <3>1. Applied' = Applied
      BY <2>8 DEF WriteCsv, WriteJson, Applied, HintLines
    <3>2. QED
      BY <2>8, <3>1, PaddingKept DEF WriteCsv, WriteJson
  <2>9. CASE UNCHANGED vars
    BY <2>9 DEF vars, Padding, SizeSoFar, Eligible, Applied, HintLines
  <2>10. QED
    BY <2>1, <2>2, <2>3, <2>4, <2>5, <2>6, <2>7, <2>8, <2>9 DEF Next, Build
<1>3. QED
  BY <1>1, <1>2, TypeCorrect, FreshAlways, PTL DEF Spec

\* Whatever the hint lines and their order, a padded class gets exactly the
\* greatest size hinted, and no other type changes size.
THEOREM PaddedExactly == Spec => []PaddedToHints
<1>1. TypeOK /\ Fresh /\ Padding => PaddedToHints
  <2> SUFFICES ASSUME TypeOK, Fresh, Padding,
                      pc \in {"annotate", "csv", "json", "done"}, NEW k \in DOMAIN dtm
               PROVE  dtm[k].size =
                        PaddedSize([j \in DOMAIN dtm |-> input.types[j]], HintLines, k)
    BY DEF PaddedToHints, HintLines
  <2> DEFINE types == [j \in DOMAIN dtm |-> input.types[j]]
             mins == {m \in Mins(HintLines, NameOf(k)) : m # None /\ m > types[k].size}
  <2>1. SizeSoFar(k) /\ \A i \in Applied : input.hints[i].min # None
    BY DEF Padding
  <2>2. Applied = DOMAIN HintLines
    BY DEF Applied
  <2>3. \A i \in DOMAIN HintLines :
          HintLines[i] = input.hints[i] /\ HintLines[i].min \in Nat
    <3>1. CASE "hints" \in input.options
      <4>1. HintLines = input.hints
        BY <3>1 DEF HintLines
      <4>2. \A i \in DOMAIN input.hints : input.hints[i].min \in MinSizes \cup {None}
        BY DEF TypeOK
      <4>3. QED
        BY <2>1, <2>2, <4>1, <4>2, ContentAssumption
    <3>2. CASE "hints" \notin input.options
      BY <3>2 DEF HintLines
    <3>3. QED
      BY <3>1, <3>2
  <2>4. /\ types[k] = input.types[k] /\ types[k].kind = dtm[k].kind
        /\ types[k].size \in Nat /\ dtm[k].size \in Nat
    BY ContentAssumption DEF Fresh, OfThisBuild, TypeOK, ParsedType, IsTypes, TypeRecords
  <2>5. KeysOf(types, NameOf(k)) = KeysOf(dtm, NameOf(k))
    BY DEF KeysOf
  <2>6. Eligible(k) <=> types[k].kind = "struct" /\ k = Visited(KeysOf(types, NameOf(k)))
    BY <2>4, <2>5 DEF Eligible
  <2>7. mins \subseteq Nat
    BY <2>3 DEF Mins
  <2>8. CASE ~Eligible(k)
    BY <2>1, <2>4, <2>6, <2>8 DEF PaddedSize, SizeSoFar
  <2>9. CASE Eligible(k) /\ mins = {}
    <3>1. dtm[k].size = types[k].size
      <4>1. SUFFICES ASSUME dtm[k].size # types[k].size PROVE FALSE
        OBVIOUS
      <4>2. PICK i \in DOMAIN HintLines :
              HintLines[i].name = NameOf(k) /\ HintLines[i].min = dtm[k].size
        BY <2>1, <2>2, <2>3, <2>4, <2>9, <4>1 DEF SizeSoFar
      <4>3. dtm[k].size > types[k].size
        BY <2>1, <2>4, <2>9, <4>1 DEF SizeSoFar
      <4>4. dtm[k].size \in mins
        BY <2>1, <2>2, <2>3, <4>2, <4>3 DEF Mins
      <4>5. QED
        BY <4>4, <2>9
    <3>2. QED
      BY <2>9, <3>1 DEF PaddedSize
  <2>10. CASE Eligible(k) /\ mins # {}
    <3>1. \A m \in mins : m <= dtm[k].size
      BY <2>1, <2>2, <2>3, <2>10 DEF Mins, SizeSoFar
    <3>2. dtm[k].size \in mins
      <4>1. dtm[k].size > types[k].size
        BY <2>4, <2>7, <2>10, <3>1
      <4>2. PICK i \in DOMAIN HintLines :
              HintLines[i].name = NameOf(k) /\ HintLines[i].min = dtm[k].size
        BY <2>1, <2>2, <2>3, <2>4, <2>10, <4>1 DEF SizeSoFar
      <4>3. QED
        BY <2>1, <2>2, <2>3, <4>1, <4>2 DEF Mins
    <3>3. dtm[k].size = CHOOSE m \in mins : \A other \in mins : other <= m
      BY <2>7, <3>1, <3>2
    <3>4. QED
      BY <2>6, <2>10, <3>3 DEF PaddedSize
  <2>11. QED
    BY <2>8, <2>9, <2>10
<1>2. QED
  BY <1>1, TypeCorrect, FreshAlways, PaddingAlways, PTL

-----------------------------------------------------------------------------
\* Before the annotation nothing is in the warning folder and whatever was padded
\* says so; after it the type manager has what the file must have.
Unflagged(types) ==
    \A k \in DOMAIN types :
        /\ types[k].moved = FALSE
        /\ types[k].size # input.types[k].size => "Widened" \in Range(types[k].desc)

Flagged(types) ==
    \A k \in DOMAIN types :
        /\ types[k].moved => input.status[NameOf(k)] = "MISMATCH"
        /\ input.status[NameOf(k)] = "MISMATCH" /\ Reported(types[k]) =>
              /\ \E j \in KeysOf(types, NameOf(k)) : types[j].moved
              /\ types[k].kind # "typedef" =>
                    types[k].desc # <<>> /\ Head(types[k].desc) = "MISMATCH"
        /\ types[k].size # input.types[k].size => "Widened" \in Range(types[k].desc)

Flagging ==
    /\ pc \in {"pad", "annotate"} => Unflagged(dtm)
    /\ pc \in {"csv", "json", "done"} /\ "annotate" \in input.options => Flagged(dtm)

\* A stamp precedes the description, and loses nothing of it.
LEMMA StampKeeps ==
    ASSUME NEW status \in Statuses, NEW d \in TypeRecords
    PROVE  /\ Stamp(d, status) # <<>> /\ Head(Stamp(d, status)) = status
           /\ Range(d.desc) \subseteq Range(Stamp(d, status))
<1> DEFINE S == Statuses \cup {"Widened"}
           stamped == <<status>> \o d.desc
<1>1. d.desc \in Seq(S) /\ <<status>> \in Seq(S) /\ Len(<<status>>) = 1
  BY DEF TypeRecords
<1>2. /\ stamped \in Seq(S) /\ Len(stamped) = 1 + Len(d.desc)
      /\ stamped[1] = status
      /\ \A i \in 1..Len(d.desc) : i + 1 \in 1..Len(stamped) /\ stamped[i + 1] = d.desc[i]
  BY <1>1
<1>3. stamped # <<>> /\ Head(stamped) = status
  BY <1>1, <1>2
<1>4. DOMAIN stamped = 1..Len(stamped) /\ DOMAIN d.desc = 1..Len(d.desc)
  BY <1>1, <1>2
<1>5. QED
  BY <1>2, <1>3, <1>4 DEF Stamp, Range

\* One hint line: a type whose size changes says so.
LEMMA FlaggingHint == TypeOK /\ Flagging /\ PadHint => Flagging'
<1> SUFFICES ASSUME TypeOK, Flagging, PadHint PROVE Flagging'
  OBVIOUS
<1> DEFINE first == Visited(KeysOf(dtm, input.hints[line].name))
           gap == input.hints[line].min - Occupied(dtm[first])
           wide == [dtm EXCEPT ![first].size = @ + gap, ![first].desc = <<"Widened">>]
<1>1. pc = "pad" /\ UNCHANGED <<pc, input>> /\ (dtm' = dtm \/ dtm' = wide)
  BY DEF PadHint
<1>2. \A k \in DOMAIN dtm : dtm[k] \in TypeRecords
  BY DEF TypeOK, IsTypes
<1>3. CASE dtm' = wide
  <2>1. DOMAIN dtm' = DOMAIN dtm /\ \A k \in DOMAIN dtm : k # first => dtm'[k] = dtm[k]
    BY <1>3 DEF TypeOK, IsTypes
  <2>2. first \in DOMAIN dtm => dtm'[first].moved = FALSE /\ dtm'[first].desc = <<"Widened">>
    <3>1. SUFFICES ASSUME first \in DOMAIN dtm
                   PROVE  dtm'[first].moved = FALSE /\ dtm'[first].desc = <<"Widened">>
      OBVIOUS
    <3>2. wide[first] = [dtm[first] EXCEPT !.size = @ + gap, !.desc = <<"Widened">>]
      BY <3>1 DEF TypeOK, IsTypes
    <3>3. dtm[first] \in TypeRecords /\ dtm[first].moved = FALSE
      BY <1>1, <1>2, <3>1 DEF Flagging, Unflagged
    <3>4. QED
      BY <1>3, <3>2, <3>3 DEF TypeRecords
  <2>3. "Widened" \in Range(<<"Widened">>)
    BY DEF Range
  <2>4. QED
    BY <1>1, <2>1, <2>2, <2>3 DEF Flagging, Unflagged
<1>4. CASE dtm' = dtm
  BY <1>1, <1>4 DEF Flagging, Unflagged
<1>5. QED
  BY <1>1, <1>3, <1>4

\* The annotation: the type visited first of each MISMATCH name is moved, every
\* one of them that keeps a description is stamped.
LEMMA FlaggingAnnotate == TypeOK /\ Flagging /\ Annotate => Flagging'
<1> SUFFICES ASSUME TypeOK, Flagging, Annotate, "annotate" \in input.options
             PROVE  Flagged(dtm)'
  BY DEF Flagging, Annotate
<1>1. PICK lost \in SUBSET {k \in Known(dtm) : dtm[k].kind = "typedef"} :
         dtm' = Annotated(dtm, lost)
  BY DEF Annotate
<1>2. DOMAIN dtm' = DOMAIN dtm /\ input' = input /\ Unflagged(dtm)
  BY <1>1 DEF Annotate, Annotated, Flagging
<1>3. \A k \in DOMAIN dtm : dtm[k] \in TypeRecords /\ k \in Keys
  BY DEF TypeOK, IsTypes
<1>4. ASSUME NEW k \in Known(dtm)
      PROVE  /\ input.status[NameOf(k)] \in Statuses
             /\ dtm'[k].kind = dtm[k].kind /\ dtm'[k].size = dtm[k].size
             /\ dtm'[k].moved = Moves(dtm, k, input.status[NameOf(k)])
             /\ dtm'[k].desc = IF k \in lost THEN dtm[k].desc
                               ELSE Stamp(dtm[k], input.status[NameOf(k)])
  <2> DEFINE status == input.status[NameOf(k)]
             desc == IF k \in lost THEN dtm[k].desc ELSE Stamp(dtm[k], status)
  <2>1. k \in DOMAIN dtm /\ dtm[k] \in TypeRecords
    BY <1>3 DEF Known
  <2>2. status \in Statuses
    BY <1>3, <2>1 DEF Known, TypeOK, MaybeStatus, Keys, NameOf
  <2>3. dtm'[k] = [dtm[k] EXCEPT !.desc = desc, !.moved = Moves(dtm, k, status)]
    BY <1>1, <2>1 DEF Annotated, TypeRecords
  <2>4. \A x, y : /\ [dtm[k] EXCEPT !.desc = x, !.moved = y].kind = dtm[k].kind
                  /\ [dtm[k] EXCEPT !.desc = x, !.moved = y].size = dtm[k].size
                  /\ [dtm[k] EXCEPT !.desc = x, !.moved = y].moved = y
                  /\ [dtm[k] EXCEPT !.desc = x, !.moved = y].desc = x
    BY <2>1 DEF TypeRecords
  <2>5. QED
    BY <2>2, <2>3, <2>4
<1>5. \A k \in DOMAIN dtm : k \notin Known(dtm) => dtm'[k] = dtm[k]
  BY <1>1 DEF Annotated
<1>6. \A k \in DOMAIN dtm : dtm'[k].kind = dtm[k].kind /\ dtm'[k].size = dtm[k].size
  BY <1>4, <1>5
<1>7. ASSUME NEW k \in DOMAIN dtm, input.status[NameOf(k)] = "MISMATCH", Reported(dtm'[k])
      PROVE  /\ \E j \in KeysOf(dtm', NameOf(k)) : dtm'[j].moved
             /\ dtm'[k].kind # "typedef" => dtm'[k].desc # <<>> /\ Head(dtm'[k].desc) = "MISMATCH"
  <2> DEFINE there == ReportedKeys(dtm, NameOf(k))
             j == Visited(there)
  <2>1. "MISMATCH" # None /\ "MISMATCH" \in Statuses
    BY NoStatusAssumption DEF Statuses
  <2>2. k \in there /\ k \in Known(dtm)
    BY <1>6, <1>7, <2>1 DEF ReportedKeys, KeysOf, Known, Reported
  <2>3. j \in there
    <3>1. there \in SUBSET Keys
      BY <1>3 DEF ReportedKeys, KeysOf
    <3>2. QED
      BY <2>2, <3>1, VisitedIsOne
  <2>4. j \in DOMAIN dtm /\ NameOf(j) = NameOf(k) /\ j \in Known(dtm)
    BY <1>7, <2>1, <2>3 DEF ReportedKeys, KeysOf, Known
  <2>5. Moves(dtm, j, input.status[NameOf(j)])
    BY <1>7, <2>4 DEF Moves
  <2>6. j \in KeysOf(dtm', NameOf(k)) /\ dtm'[j].moved
    BY <1>2, <1>4, <2>4, <2>5 DEF KeysOf
  <2>7. ASSUME dtm'[k].kind # "typedef"
        PROVE  dtm'[k].desc # <<>> /\ Head(dtm'[k].desc) = "MISMATCH"
    <3>1. k \notin lost
      BY <1>1, <1>6, <2>7
    <3>2. dtm'[k].desc = Stamp(dtm[k], "MISMATCH")
      BY <1>4, <1>7, <2>2, <3>1
    <3>3. QED
      BY <1>3, <2>1, <3>2, StampKeeps
  <2>8. QED
    BY <2>6, <2>7
<1>8. ASSUME NEW k \in DOMAIN dtm, dtm'[k].size # input.types[k].size
      PROVE  "Widened" \in Range(dtm'[k].desc)
  <2>1. "Widened" \in Range(dtm[k].desc)
    BY <1>2, <1>6, <1>8 DEF Unflagged
  <2>2. CASE k \in Known(dtm) /\ k \notin lost
    <3>1. /\ dtm'[k].desc = Stamp(dtm[k], input.status[NameOf(k)])
          /\ input.status[NameOf(k)] \in Statuses
      BY <1>4, <2>2
    <3>2. Range(dtm[k].desc) \subseteq Range(dtm'[k].desc)
      BY <1>3, <3>1, StampKeeps
    <3>3. QED
      BY <2>1, <3>2
  <2>3. CASE ~(k \in Known(dtm) /\ k \notin lost)
    BY <1>4, <1>5, <2>1, <2>3
  <2>4. QED
    BY <2>2, <2>3
<1>9. ASSUME NEW k \in DOMAIN dtm, dtm'[k].moved PROVE input.status[NameOf(k)] = "MISMATCH"
  <2>1. CASE k \in Known(dtm)
    BY <1>4, <1>9, <2>1 DEF Moves
  <2>2. CASE k \notin Known(dtm)
    BY <1>2, <1>5, <1>9, <2>2 DEF Unflagged
  <2>3. QED
    BY <2>1, <2>2
<1>10. QED
  BY <1>2, <1>7, <1>8, <1>9 DEF Flagged

\* A layout known to be wrong cannot be missed: its types carry the warning, one
\* of them is in the warning folder, and what was padded still says so.
THEOREM WrongFlagged == Spec => []WrongLayoutsFlagged
<1>1. Init => Flagging
  BY DEF Init, Flagging
<1>2. TypeOK /\ Fresh /\ Flagging /\ [Next]_vars => Flagging'
  <2> SUFFICES ASSUME TypeOK, Fresh, Flagging, [Next]_vars PROVE Flagging'
    OBVIOUS
  <2>1. CASE Start
    BY <2>1 DEF Flagging, Start
  <2>2. CASE Parse \/ Delete
    BY <2>2 DEF Flagging, Parse, Delete
  <2>3. CASE Commit
    <3>1. dtm = <<>> /\ pc' = "pad" /\ input' = input
      BY <2>3 DEF Commit, Fresh
    <3>2. \A k \in DOMAIN dtm' : dtm'[k].moved = FALSE /\ dtm'[k].size = input.types[k].size
      BY <2>3, <3>1 DEF Commit
    <3>3. QED
      BY <3>1, <3>2 DEF Flagging, Unflagged
  <2>4. CASE PadHint
    BY <2>4, FlaggingHint
  <2>5. CASE BadHint \/ Abort
    BY <2>5 DEF Flagging, BadHint, Abort, Exit
  <2>6. CASE PadEnd
    BY <2>6 DEF Flagging, Unflagged, PadEnd
  <2>7. CASE Annotate
    BY <2>7, FlaggingAnnotate
  <2>8. CASE WriteCsv \/ WriteJson
    BY <2>8 DEF Flagging, Flagged, WriteCsv, WriteJson
  <2>9. CASE UNCHANGED vars
    BY <2>9 DEF Flagging, Unflagged, Flagged, KeysOf, vars
  <2>10. QED
    BY <2>1, <2>2, <2>3, <2>4, <2>5, <2>6, <2>7, <2>8, <2>9 DEF Next, Build
<1>3. Flagging /\ OutputsAgree => WrongLayoutsFlagged
  <2> SUFFICES ASSUME Flagging, OutputsAgree, pc = "done", "annotate" \in input.options
               PROVE  WrongLayoutsFlagged
    BY DEF WrongLayoutsFlagged
  <2>1. disk = dtm /\ Flagged(dtm)
    BY DEF Flagging, OutputsAgree
  <2>2. QED
    BY <2>1 DEF Flagged, WrongLayoutsFlagged
<1>4. QED
  BY <1>1, <1>2, <1>3, TypeCorrect, FreshAlways, ReportsDescribeFile, PTL DEF Spec

-----------------------------------------------------------------------------
(* The flat JSON *)

\* The types of a name that are reported are all visited.
LEMMA AllInOrder ==
    ASSUME NEW types, IsTypes(types), NEW k \in DOMAIN types, Reported(types[k])
    PROVE  \E n \in Nat : /\ DOMAIN InOrder(types, NameOf(k)) = 1..n
                          /\ \E i \in 1..n : InOrder(types, NameOf(k))[i] = types[k]
<1> DEFINE name == NameOf(k)
           here == {i \in DOMAIN Order : <<Order[i], name>> \in ReportedKeys(types, name)}
           there == Selected(Order, here)
<1>1. k \in Keys /\ k = <<k[1], name>> /\ k[1] \in Paths
  BY DEF IsTypes, Keys, NameOf
<1>2. PICK j \in DOMAIN Order : Order[j] = k[1]
  BY <1>1 DEF Paths, Range
<1>3. j \in here
  BY <1>1, <1>2 DEF ReportedKeys, KeysOf
<1> HIDE DEF here
<1>4. DOMAIN Order = 1..Len(Order)
  BY OrderAssumption
<1>5. /\ there \in Seq(Range(Order))
      /\ \A i \in 1..Len(Order) : i \in here => \E l \in 1..Len(there) : there[l] = Order[i]
  BY OrderAssumption, SelectedElements
<1>6. PICK l \in 1..Len(there) : there[l] = k[1]
  BY <1>2, <1>3, <1>4, <1>5
<1>7. InOrder(types, name) = [i \in 1..Len(there) |-> types[<<there[i], name>>]]
  BY DEF InOrder, here
<1> HIDE DEF there
<1>8. InOrder(types, name)[l] = types[<<k[1], name>>]
  BY <1>6, <1>7
<1>9. Len(there) \in Nat /\ DOMAIN InOrder(types, name) = 1..Len(there)
  <2>1. PICK n \in Nat : n = Len(there)
    BY <1>5
  <2>2. InOrder(types, name) = [i \in 1..n |-> types[<<there[i], name>>]]
    BY ONLY <1>7, <2>1
  <2>3. DOMAIN InOrder(types, name) = 1..n
    BY ONLY <2>2
  <2>4. QED
    BY ONLY n \in Nat, <2>1, <2>3
<1>10. QED
  BY <1>1, <1>6, <1>8, <1>9, Zenon

\* Flattening keeps every entry, or one equal to it.
LEMMA FlattenKeeps ==
    ASSUME NEW S, NEW entries \in Seq(S), NEW i \in 1..Len(entries)
    PROVE  entries[i] \in Range(Flatten(entries))
<1> DEFINE kept == {j \in DOMAIN entries : j = 1 \/ entries[j] # entries[1]}
<1>1. Len(entries) \in Nat /\ DOMAIN entries = 1..Len(entries) /\ 1 \in 1..Len(entries)
  OBVIOUS
<1>k. Flatten(entries) = Selected(entries, kept)
  BY DEF Flatten
<1>3. \E j \in 1..Len(entries) : j \in kept /\ entries[j] = entries[i]
  BY <1>1
<1> HIDE DEF kept
<1>2. /\ Flatten(entries) \in Seq(S)
      /\ \A j \in 1..Len(entries) : j \in kept =>
           \E k \in 1..Len(Flatten(entries)) : Flatten(entries)[k] = entries[j]
  BY <1>k, SelectedElements
<1>4. DOMAIN Flatten(entries) = 1..Len(Flatten(entries))
  BY <1>2
<1>5. QED
  BY <1>2, <1>3, <1>4 DEF Range

\* The JSON has an entry for every type of the archive it was written from.
LEMMA JsonHasAll ==
    ASSUME NEW types, IsTypes(types), NEW k \in DOMAIN types, Reported(types[k])
    PROVE  JsonEntry(types[k]) \in Range(JsonTypes(types)[NameOf(k)])
<1> DEFINE name == NameOf(k)
           entries == [i \in 1..Len(InOrder(types, name)) |-> JsonEntry(InOrder(types, name)[i])]
           S == {JsonEntry(InOrder(types, name)[i]) : i \in 1..Len(InOrder(types, name))}
<1>1. PICK n \in Nat : /\ DOMAIN InOrder(types, name) = 1..n
                       /\ \E i \in 1..n : InOrder(types, name)[i] = types[k]
  BY AllInOrder
<1>2. Len(InOrder(types, name)) = n
  BY <1>1
<1>3. entries \in Seq(S) /\ Len(entries) = n
  BY <1>2
<1>4. PICK i \in 1..n : InOrder(types, name)[i] = types[k]
  BY <1>1
<1>5. entries[i] = JsonEntry(types[k])
  BY <1>2, <1>4
<1>6. name \in Names
  BY DEF IsTypes, Keys, NameOf
<1>7. JsonTypes(types)[name] = Flatten(entries)
  BY <1>6 DEF JsonTypes
<1> HIDE DEF entries
<1>8. entries[i] \in Range(Flatten(entries))
  BY <1>3, <1>4, FlattenKeeps
<1>9. QED
  BY <1>5, <1>7, <1>8

\* Whatever types of one name there are, in whatever order they are visited, the
\* flat JSON has an entry with the kind and size of each composite and enum, and
\* with the target of each typedef.
THEOREM JsonComplete == Spec => []JsonLosesNothing
<1>1. TypeOK /\ OutputsAgree => JsonLosesNothing
  <2> SUFFICES ASSUME TypeOK, OutputsAgree, pc = "done", "json" \in input.options,
                      NEW k \in DOMAIN disk, Reported(disk[k])
               PROVE  \E e \in Range(json.types[NameOf(k)]) :
                          /\ e.kind = disk[k].kind
                          /\ IF e.kind = "typedef" THEN e.to = disk[k].to
                                                   ELSE e.size = Length(disk[k])
    BY DEF JsonLosesNothing
  <2>1. json.types = JsonTypes(disk) /\ IsTypes(disk)
    BY DEF OutputsAgree, TypeOK
  <2>2. JsonEntry(disk[k]) \in Range(json.types[NameOf(k)])
    BY <2>1, JsonHasAll
  <2>3. disk[k].kind \in {"struct", "union", "enum", "typedef"}
    BY <2>1, KindsAssumption DEF IsTypes, TypeRecords, AllKinds, Reported
  <2>4. CASE disk[k].kind = "typedef"
    <3>1. JsonEntry(disk[k]) = [kind |-> disk[k].kind, to |-> disk[k].to]
      BY <2>4 DEF JsonEntry
    <3>2. QED
      BY <2>2, <2>4, <3>1
  <2>5. CASE disk[k].kind # "typedef"
    <3>1. /\ JsonEntry(disk[k]).kind = disk[k].kind
          /\ JsonEntry(disk[k]).size = Length(disk[k])
      BY <2>3, <2>5 DEF JsonEntry
    <3>2. QED
      BY <2>2, <2>5, <3>1
  <2>6. QED
    BY <2>4, <2>5
<1>2. QED
  BY <1>1, TypeCorrect, ReportsDescribeFile, PTL
=============================================================================
