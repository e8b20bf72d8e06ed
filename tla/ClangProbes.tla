----------------------------- MODULE ClangProbes -----------------------------
(***************************************************************************)
(* The two C programs that ask libclang what the type importer asks it:     *)
(* scripts/scale_probe.c, which asks the same questions before and after    *)
(* questions about every record of the translation unit, and               *)
(* scripts/nested_probe.c, which prints what is known about the fields of   *)
(* two records, for comparison between machines.  libclang is an oracle     *)
(* whose answer about a type may depend on what it was asked before.        *)
(***************************************************************************)
EXTENDS Naturals, SequencesExt, Selections

CONSTANTS
  Units,       \* translation units: sequences of cursors in the visitors' order
  Info,        \* what there is to know about each type
  Targets,     \* the classes scale_probe.c looks for
  Nested,      \* the two records nested_probe.c looks for
  DivedInto,   \* "ArmorRatingVisitor"
  MaxMatches,  \* MAX_MATCHES
  MaxRefs,     \* MAX_HKREF
  MaxArgs,     \* template arguments asked about
  MaxLayers,   \* layers of sugar taken off
  Upsets,      \* what may upset libclang: functions from types
  NoType       \* no type

Types == DOMAIN Info

\* A cursor: a definition or declaration of a record, or a field of the record
\* at `parent'.
Cursors == [kind : {"record", "field"}, name : STRING, type : Types,
            definition : BOOLEAN, parent : Nat]

\* Of a type: its canonical type, its template arguments, and the type one layer
\* of sugar below it (and whether it is an hkRefPtr).
ASSUME InputsAssumption ==
  /\ NoType \notin Types
  /\ \A t \in Types : /\ Info[t].canonical \in Types
                      /\ Info[t].args \in Seq(Types)
                      /\ Info[t].below \in Types \cup {NoType}
  /\ Units \subseteq Seq(Cursors)
  /\ Upsets \subseteq [Types -> Types \cup {NoType}]
  /\ {MaxMatches, MaxRefs, MaxArgs, MaxLayers} \subseteq Nat

VARIABLES
  probe,    \* the program: "scale" or "nested"
  unit,     \* the translation unit
  phase,    \* where the program is
  at,       \* the cursor the visitor is at
  matches,  \* g_matches, and ...
  refs,     \* ... g_hkref_fields: positions of cursors
  todo,     \* the questions of this phase still to be asked
  asked,    \* the types libclang was asked about
  out,      \* what PHASE1 and PHASE3, or nested_probe.c, print
  upset     \* for each type, the one after which libclang answers wrongly

probesVars == <<probe, unit, phase, at, matches, refs, todo, asked, out, upset>>

-----------------------------------------------------------------------------
(* Questions *)

Size(t) == <<"sizeof", t>>
Kind(t) == <<"kind", t>>

\* The number of template arguments, and the size of each of the first ones.
ArgumentsOf(t) ==
  <<<<"arguments", t>>>>
    \o [i \in 1..Min({Len(Info[t].args), MaxArgs}) |-> Size(Info[t].args[i])]

\* query_targets: the size of every match; size and canonical arguments of every
\* hkRefPtr field.
QueryTargets ==
  FlattenSeq([i \in 1..Len(matches) |-> <<Size(unit[matches[i]].type)>>])
    \o FlattenSeq([i \in 1..Len(refs) |->
         LET t == unit[refs[i]].type IN <<Size(t)>> \o ArgumentsOf(Info[t].canonical)])

\* The visitor that does not recurse: a record's own fields, in order.
FieldsOf(record) ==
  Selected([i \in 1..Len(unit) |-> i],
           {i \in 1..Len(unit) : unit[i].kind = "field" /\ unit[i].parent = record})

\* arv_deep_dive: the fields of the first match of that name.
DeepDive ==
  LET named == {i \in 1..Len(matches) : unit[matches[i]].name = DivedInto}
  IN IF named = {} THEN << >>
     ELSE LET fields == FieldsOf(matches[Min(named)])
          IN FlattenSeq([i \in 1..Len(fields) |->
               LET t == unit[fields[i]].type
               IN <<Size(t)>> \o ArgumentsOf(t) \o ArgumentsOf(Info[t].canonical)])

Report == QueryTargets \o DeepDive

\* (Fault: the traffic is about records only.)
TrafficOfRecords(c) ==
  IF c.kind = "record" /\ c.definition THEN <<Size(c.type)>> \o ArgumentsOf(Info[c.type].canonical)
                                       ELSE << >>

\* traffic_visitor at one cursor; what it is told is thrown away.
TrafficOf(c) ==
  IF c.kind = "field" \/ c.definition THEN <<Size(c.type)>> \o ArgumentsOf(Info[c.type].canonical)
                                      ELSE << >>

Traffic == FlattenSeq([i \in 1..Len(unit) |-> TrafficOf(unit[i])])

\* (Fault: one layer is taken off.)
UnwrappedOnce(t) == IF Info[t].below = NoType THEN t ELSE Info[t].below

\* At most MaxLayers layers of elaborated and attributed types are taken off.
Unwrapped(t) ==
  LET off[n \in 0..MaxLayers] ==
        IF n = 0 THEN t
        ELSE IF Info[off[n - 1]].below = NoType THEN off[n - 1] ELSE Info[off[n - 1]].below
  IN off[MaxLayers]

\* nested_probe.c at one cursor: for each field of a record of those names the
\* unwrapped type's kind and size, the canonical type's size, and its fields.
NestedOf(i) ==
  IF unit[i].kind = "record" /\ unit[i].definition /\ unit[i].name \in Nested
  THEN LET fields == FieldsOf(i)
       IN FlattenSeq([j \in 1..Len(fields) |->
            LET u == Unwrapped(unit[fields[j]].type)
            IN <<Kind(u), Size(u), Size(Info[u].canonical), <<"fields", u>>>>])
  ELSE << >>

NestedReport == FlattenSeq([i \in 1..Len(unit) |-> NestedOf(i)])

-----------------------------------------------------------------------------
(* The programs *)

\* The order of scale_probe.c's phases, and of nested_probe.c's.
After == [parse |-> "collect", collect |-> "PHASE1", PHASE1 |-> "PHASE2",
          PHASE2 |-> "PHASE3", PHASE3 |-> "done", PHASE0 |-> "done"]

\* Errors in the headers are counted and passed over; no unit is the end.
Parse(ok) ==
  /\ phase = "parse"
  /\ phase' = IF ~ok THEN "failed" ELSE IF probe = "scale" THEN "collect" ELSE "PHASE0"
  /\ todo' = IF ok /\ probe = "nested" THEN NestedReport ELSE << >>
  /\ UNCHANGED <<probe, unit, at, matches, refs, asked, out, upset>>

IsMatch(c) == c.kind = "record" /\ c.definition /\ c.name \in Targets

\* collect_visitor at the next cursor; full arrays take no more.
Collect ==
  /\ phase = "collect" /\ at <= Len(unit)
  /\ LET c == unit[at]
     IN /\ matches' = IF IsMatch(c) /\ Len(matches) < MaxMatches
                      THEN Append(matches, at) ELSE matches
        /\ refs' = IF c.kind = "field" /\ Len(refs) < MaxRefs /\ Info[c.type].hkRefPtr
                   THEN Append(refs, at) ELSE refs
  /\ at' = at + 1
  /\ UNCHANGED <<probe, unit, phase, todo, asked, out, upset>>

Collected ==
  /\ phase = "collect" /\ at > Len(unit)
  /\ phase' = "PHASE1"
  /\ todo' = Report
  /\ UNCHANGED <<probe, unit, at, matches, refs, asked, out, upset>>

\* libclang's answer, wrong once it was asked about what upsets it.
Answer(t) == IF upset[t] \in asked THEN "wrong" ELSE "right"

Ask ==
  /\ todo # << >>
  /\ LET t == Head(todo)[2]
     IN /\ asked' = asked \cup {t}
        /\ out' = IF phase = "PHASE2" THEN out
                  ELSE [out EXCEPT ![phase] = Append(@, <<Head(todo), Answer(t)>>)]
  /\ todo' = Tail(todo)
  /\ UNCHANGED <<probe, unit, phase, at, matches, refs, upset>>

\* (Fault: the traffic is emulated by the visitor that also collects.)
NextPhaseCollecting ==
  /\ phase \in {"PHASE1", "PHASE2", "PHASE3", "PHASE0"} /\ todo = << >>
  /\ phase' = After[phase]
  /\ todo' = CASE phase = "PHASE1" -> Traffic [] phase = "PHASE2" -> Report [] OTHER -> << >>
  /\ matches' = IF phase = "PHASE1"
                THEN matches \o SelectSeq([i \in 1..Len(unit) |-> i], LAMBDA i : IsMatch(unit[i]))
                ELSE matches
  /\ UNCHANGED <<probe, unit, at, refs, asked, out, upset>>

NextPhase ==
  /\ phase \in {"PHASE1", "PHASE2", "PHASE3", "PHASE0"} /\ todo = << >>
  /\ phase' = After[phase]
  /\ todo' = CASE phase = "PHASE1" -> Traffic [] phase = "PHASE2" -> Report [] OTHER -> << >>
  /\ UNCHANGED <<probe, unit, at, matches, refs, asked, out, upset>>

ProbesInit ==
  /\ probe \in {"scale", "nested"} /\ unit \in Units
  /\ phase = "parse" /\ at = 1 /\ matches = << >> /\ refs = << >>
  /\ todo = << >> /\ asked = {}
  /\ out = [p \in {"PHASE0", "PHASE1", "PHASE3"} |-> << >>]
  /\ upset \in Upsets

ProbesNext ==
  \/ \E ok \in BOOLEAN : Parse(ok)
  \/ Collect \/ Collected \/ Ask \/ NextPhase

ProbesSpec == ProbesInit /\ [][ProbesNext]_probesVars

-----------------------------------------------------------------------------
Questions == {"sizeof", "arguments", "kind", "fields"} \X Types

ProbesTypeOK ==
  /\ probe \in {"scale", "nested"} /\ unit \in Units /\ upset \in Upsets
  /\ phase \in {"parse", "collect", "PHASE0", "PHASE1", "PHASE2", "PHASE3", "done", "failed"}
  /\ at \in 1..(Len(unit) + 1)
  /\ matches \in Seq(1..Len(unit)) /\ Len(matches) <= MaxMatches
  /\ refs \in Seq(1..Len(unit)) /\ Len(refs) <= MaxRefs
  /\ todo \in Seq(Questions)
  /\ asked \subseteq Types
  /\ out \in [{"PHASE0", "PHASE1", "PHASE3"} -> Seq(Questions \X {"right", "wrong"})]

\* "any diff vs phase 1 = libclang itself is order-dependent at scale (H2)"
\* (scale_probe.c): a difference in the output comes from an answer about a type
\* reported that changed, never from the probe asking something else.
DiffMeansDisorder ==
  phase = "done" /\ out["PHASE1"] # out["PHASE3"] =>
    \E i \in 1..Len(out["PHASE1"]) :
      LET t == out["PHASE1"][i][1][2] IN upset[t] \in asked

\* Types the sweep asks about: those of all records and fields, and the template
\* arguments of their canonical types.
Swept ==
  LET subjects == {unit[i].type : i \in {j \in 1..Len(unit) : unit[j].kind = "field" \/ unit[j].definition}}
  IN subjects \cup UNION {{Info[t].canonical} \cup
                            {Info[Info[t].canonical].args[k] :
                               k \in 1..Min({MaxArgs, Len(Info[Info[t].canonical].args)})} : t \in subjects}

\* "No diff" means something: whatever of the sweep upsets libclang about a type,
\* PHASE3 shows it in each line about that type.
UpsetShows ==
  phase = "done" /\ probe = "scale" =>
    \A i \in 1..Len(out["PHASE3"]) :
      upset[out["PHASE3"][i][1][2]] \in Swept => out["PHASE3"][i][2] = "wrong"

Definitions(names) ==
  {i \in 1..Len(unit) : unit[i].kind = "record" /\ unit[i].definition /\ unit[i].name \in names}

Layers(t) ==
  LET depth[n \in 0..(MaxLayers + 1)] ==
        IF n = 0 THEN {t} ELSE {Info[s].below : s \in depth[n - 1] \ {NoType}} \ {NoType}
  IN depth[MaxLayers + 1]

\* The kinds two machines compare are those of the types themselves, unless one
\* has more layers than are taken off, and there is one for each field of the two
\* records ("unwrap elaborated/attributed like the Java layer's Type.unwrap()").
KindsUnwrapped ==
  phase = "done" /\ probe = "nested" =>
    LET fields == {i \in 1..Len(unit) :
                     unit[i].kind = "field" /\ unit[i].parent \in Definitions(Nested)}
        kinds  == {k \in 1..Len(out["PHASE0"]) : out["PHASE0"][k][1][1] = "kind"}
    IN /\ Cardinality(kinds) = Cardinality(fields)
       /\ (\A f \in fields : Layers(unit[f].type) = {}) =>
            \A k \in kinds : Info[out["PHASE0"][k][1][2]].below = NoType
=============================================================================
