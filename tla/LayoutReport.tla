---------------------------- MODULE LayoutReport ----------------------------
(***************************************************************************)
(* LayoutValidator.cpp, the messages main.cpp passes on to it, and          *)
(* parse_layout_log.py, which reads the log it leaves behind and compares   *)
(* it with coverage_baseline.json.  The plugin is built from some revision  *)
(* of the headers with some setting of their macros; the game may crash     *)
(* anywhere; the parser may read the log at any time.                       *)
(***************************************************************************)
EXTENDS HeaderLayout

CONSTANTS
  Revisions,  \* revisions of the headers
  Header,     \* for each revision, each class's members
  Game,       \* the same of the running game
  Assertion,  \* for each revision, class and view, the size a static_assert that is
              \* active in the view demands, or None
  Imported,   \* for each revision and class, the size the type importer found, or None
  MaxBlocks   \* how often messages start a block of checks in one session

None == -1

\* "ae" is what the archives are made for, "all" what the plugin's CMakeLists.txt
\* sets; "game" is what the running game has.
Views == {"ae", "all"}

\* The order of the lines of LogCompileTimeLayout.
ReportOrder ==
  <<"TESForm", "NiAVObject", "BGSLocation", "TESQuest", "TESObjectREFR", "Actor",
    "Actor::ACTOR_RUNTIME_DATA", "Character", "BaseExtraList", "ExtraDataList",
    "TESObjectCELL", "bhkCharacterState">>

Classes == {ReportOrder[i] : i \in 1..12}

\* sizeof and offsetof as the plugin compiles them.
Compiled(d, c) == SizeOf(Header[d.revision][c], d.view)
CompiledOffset(d, c, field) == OffsetOf(Header[d.revision][c], d.view, field)
GameOffset(c, field) == OffsetOf(Game[c], "game", field)

Members == [name : STRING, kind : Kinds, views : SUBSET (Views \cup {"game"})]

\* The members the plugin reads in the game's objects.
FieldsRead ==
  {<<"TESForm", "formID">>, <<"TESForm", "formType">>, <<"TESObjectREFR", "extraList">>,
   <<"Actor::ACTOR_RUNTIME_DATA", "race">>}

ASSUME MembersAssumption ==
  /\ \A r \in Revisions, c \in Classes : Header[r][c] \in Seq(Members)
  /\ \A c \in Classes : Game[c] \in Seq(Members)

\* The game has the members that are read, each once, and has them in its objects.
ASSUME GameAssumption ==
  \A read \in FieldsRead :
    LET members == Declared(Game[read[1]], "game")
    IN \E i \in DOMAIN members :
         /\ members[i].kind # "static"
         /\ {j \in DOMAIN members : members[j].name = read[2]} = {i}

ASSUME ConstantsAssumption ==
  /\ \A r \in Revisions, c \in Classes :
       /\ \A v \in Views : Assertion[r][c][v] \in Nat \cup {None}
       /\ Imported[r][c] \in Nat \cup {None}
  /\ MaxBlocks \in Nat

\* What can be built: the plugin compiles only if the asserts its macros leave hold.
Dlls ==
  {d \in [revision : Revisions, view : Views] :
     \A c \in Classes : Assertion[d.revision][c][d.view] \in {None, Compiled(d, c)}}

VARIABLES
  dll,       \* the plugin that is installed: [revision, view]
  baseline,  \* the revision coverage_baseline.json was recorded from
  game,      \* the game that runs, or Off: [on, wrong, lucky]
  faulted,   \* it died of an access made by the plugin
  todo,      \* what the plugin has still to do in the call it is in
  blocks,    \* blocks of checks this game has started
  done,      \* the messages this game's plugin has dealt with (history)
  log,       \* RuntimeHarness.log: its LayoutValidator lines
  writer     \* the plugin that opened that log (history)

vars == <<dll, baseline, game, faulted, todo, blocks, done, log, writer>>

\* `wrong' are the ids the Address Library resolves to a neighbour; `lucky' says
\* that bytes read at a wrong offset look like what is expected there.
Ids   == {"RTTI_TESForm", "VTABLE_PlayerCharacter"}
Games == [on : {TRUE}, wrong : SUBSET Ids, lucky : BOOLEAN]
Off   == [on |-> FALSE, wrong |-> {}, lucky |-> FALSE]

-----------------------------------------------------------------------------
(* Steps of the plugin and the lines they write *)

\* What a line is about and what it says; only LAYOUT lines have a size.
Line(kind, what, said) == [kind |-> kind, what |-> what, size |-> 0, said |-> said]

Verdict(ok) == IF ok THEN "OK" ELSE "MISMATCH"

At(step) == game.on /\ todo # << >> /\ Head(todo) = step

\* The step at hand writes its lines, and may skip others after it.
Write(lines, rest) ==
  /\ log' = log \o lines
  /\ todo' = rest
  /\ UNCHANGED <<dll, baseline, game, faulted, blocks, done, writer>>

Do(lines) == Write(lines, Tail(todo))

\* An access of the plugin that the game does not survive.
Fault ==
  /\ faulted' = TRUE
  /\ game' = Off /\ todo' = << >>
  /\ UNCHANGED <<dll, baseline, blocks, done, log, writer>>

-----------------------------------------------------------------------------
(* Loading: the log is opened, then the compile-time report written *)

\* (Fault: the log is opened for appending.)
OpenLogAppend == log' = log /\ writer' = dll

\* basic_file_sink_mt(path, truncate = true).
OpenLog == log' = << >> /\ writer' = dll

StartGame(g) ==
  /\ ~game.on
  /\ OpenLog
  /\ game' = g /\ faulted' = FALSE
  /\ todo' = ReportOrder
  /\ blocks' = 0 /\ done' = {}
  /\ UNCHANGED <<dll, baseline>>

LogCompileTimeLayout(c) ==
  /\ At(c)
  /\ Do(<<[kind |-> "LAYOUT", what |-> c, size |-> Compiled(dll, c), said |-> << >>]>>)

-----------------------------------------------------------------------------
(* Messages *)

Checks(message) ==
  IF message = "kDataLoaded"
  THEN <<"addresses", "rtti", "base", "base_type">>
  ELSE <<"player", "form_id", "form_type", "race", "extra_list", "vtable">>

\* OnMessage calls the validator on these three; SKSE may send kDataLoaded
\* twice, and a game is started or loaded any number of times after it.
Message(message) ==
  /\ game.on /\ todo = << >> /\ blocks < MaxBlocks
  /\ message = "kDataLoaded" \/ "kDataLoaded" \in done
  /\ todo' = Append(Checks(message), message)
  /\ blocks' = blocks + 1
  /\ UNCHANGED <<dll, baseline, game, faulted, done, log, writer>>

Handled(message) ==
  /\ At(message)
  /\ done' = done \cup {message}
  /\ todo' = << >>
  /\ UNCHANGED <<dll, baseline, game, faulted, blocks, log, writer>>

-----------------------------------------------------------------------------
(* kDataLoaded: the Address Library, and the player's base form *)

\* Addresses are logged without a verdict.
LogResolvedAddresses == At("addresses") /\ Do(<<Line("ADDR", "vtables", << >>)>>)

\* (Fault: that the id resolves is taken for a proof.)
RttiNameOkAlways == TRUE

\* The name in the descriptor the id resolves to is TESForm's.
RttiNameOk == "RTTI_TESForm" \notin game.wrong

CheckRtti == At("rtti") /\ Do(<<Line("RTTI", "TESForm", <<Verdict(RttiNameOk)>>)>>)

\* What the game's memory holds where the plugin has a member of a class: that
\* member, another, or none.
Read(c, field) ==
  LET members == Declared(Game[c], "game")
      at == Offsets(members)
      here == {i \in 1..Len(members) :
                 at[i] = CompiledOffset(dll, c, field) /\ Storage(members[i]) > 0}
  IN IF here = {} THEN "bytes" ELSE members[Max(here)].name

AsExpected(c, field) == Read(c, field) = field \/ game.lucky

\* CheckLiveForm: the bytes at offsetof against the accessor, which returns the
\* member; then the object's vtable pointer, without a verdict.
CheckLiveForm(what) ==
  LET raw(field)      == Read("TESForm", field)
      accessor(field) == Read("TESForm", field)
  IN <<Line("FORM", what, <<Verdict(raw("formID") = accessor("formID")),
                            Verdict(raw("formType") = accessor("formType"))>>),
       Line("VTBL", what, << >>)>>

Skipped(what) == Line("SKIPPED", what, << >>)

CheckBase(found) ==
  /\ At("base")
  /\ IF found THEN Do(CheckLiveForm("TESForm(0x07)"))
              ELSE Write(<<Skipped("TESForm(0x07)")>>, <<todo[Len(todo)]>>)

\* (Fault: a warning if the bytes differ from what the accessor returns.)
WarnUnlessAgree(what, field) ==
  Do(IF Read("TESForm", field) = Read("TESForm", field) THEN << >>
                                                        ELSE <<Line("WARN", what, << >>)>>)

\* A field that has not the value every such object has: a warning.
WarnUnlessExpected(what, field) ==
  Do(IF AsExpected("TESForm", field) THEN << >> ELSE <<Line("WARN", what, << >>)>>)

CheckBaseType == At("base_type") /\ WarnUnlessExpected("TESForm(0x07)", "formType")

-----------------------------------------------------------------------------
(* kNewGame and kPostLoadGame: the player *)

\* (Fault: no return when there is no player.)
CheckPlayerAlways(found) ==
  /\ At("player")
  /\ IF found THEN Do(CheckLiveForm("PlayerCharacter")) ELSE Fault

CheckPlayer(found) ==
  /\ At("player")
  /\ IF found THEN Do(CheckLiveForm("PlayerCharacter"))
              ELSE Write(<<Skipped("PlayerCharacter")>>, <<todo[Len(todo)]>>)

CheckPlayerID   == At("form_id") /\ WarnUnlessExpected("PlayerCharacter", "formID")
CheckPlayerType == At("form_type") /\ WarnUnlessExpected("PlayerCharacter", "formType")

\* (Fault: the form type is read without looking whether there is a race.)
CheckRaceUnchecked(race) ==
  /\ At("race")
  /\ IF race = "NULL" THEN Fault ELSE Do(<<Line("RUNTIME", "PlayerCharacter", <<"plausible">>)>>)

\* What is pointed to has a race's form type, as far as the plugin sees.
RaceOk(race) == (race = "race" \/ game.lucky) /\ AsExpected("TESForm", "formType")

\* GetActorRuntimeData finds the block by the game's version.  What stands where
\* the plugin has the race is null or followed, whatever it is.
CheckRace(race) ==
  /\ At("race")
  /\ \/ Do(<<Line("RUNTIME", "PlayerCharacter",
              <<CASE race = "NULL" -> "NULL"
                  [] RaceOk(race)  -> "plausible"
                  [] OTHER         -> "IMPLAUSIBLE">>)>>)
     \/ race = "bytes" /\ Fault

\* What may stand there: the player's race, and none before it is set.
RacesRead == {"NULL", IF Read("Actor::ACTOR_RUNTIME_DATA", "race") = "race" THEN "race" ELSE "bytes"}

\* extraList is used as a member: the walk starts at its compiled offset.
WalkExtraList ==
  /\ At("extra_list")
  /\ \/ Do(<<Line("EXTRA", "PlayerCharacter", << >>)>>)
     \/ Read("TESObjectREFR", "extraList") # "extraList" /\ Fault

\* The vtable the id resolves to is the player's own.
CheckVtable ==
  /\ At("vtable")
  /\ Do(<<Line("ADDR", "PlayerCharacter[0]", << >>),
          Line("VTBL", "PlayerCharacter", <<Verdict("VTABLE_PlayerCharacter" \notin game.wrong)>>)>>)

-----------------------------------------------------------------------------
(* The rest of the world *)

\* The game is quit, or crashes for reasons of its own.
Stop ==
  /\ game.on
  /\ game' = Off /\ todo' = << >>
  /\ UNCHANGED <<dll, baseline, faulted, blocks, done, log, writer>>

\* Another build is installed.
Rebuild(d) ==
  /\ ~game.on
  /\ dll' = d
  /\ UNCHANGED <<baseline, game, faulted, todo, blocks, done, log, writer>>

Init ==
  /\ dll \in Dlls /\ baseline \in Revisions
  /\ game = Off /\ faulted = FALSE /\ todo = << >> /\ blocks = 0 /\ done = {}
  /\ log = << >> /\ writer = dll

Messages == {"kDataLoaded", "kNewGame", "kPostLoadGame"}

DataLoaded ==
  LogResolvedAddresses \/ CheckRtti \/ (\E found \in BOOLEAN : CheckBase(found)) \/ CheckBaseType

GameSessionReady ==
  \/ \E found \in BOOLEAN : CheckPlayer(found)
  \/ CheckPlayerID \/ CheckPlayerType
  \/ \E race \in RacesRead : CheckRace(race)
  \/ WalkExtraList \/ CheckVtable

Next ==
  \/ \E g \in Games : StartGame(g)
  \/ \E c \in Classes : LogCompileTimeLayout(c)
  \/ \E m \in Messages : Message(m) \/ Handled(m)
  \/ DataLoaded
  \/ GameSessionReady
  \/ Stop
  \/ \E d \in Dlls : Rebuild(d)

Spec == Init /\ [][Next]_vars

-----------------------------------------------------------------------------
(* parse_layout_log.py, at any time, on the log as it is *)

Of(kinds, text) == Selected(text, {i \in DOMAIN text : text[i].kind \in kinds})

\* The lines that match an expression: the last of a class's LAYOUT lines, every
\* other one in turn.  Warnings match none.
ParseLog(text) ==
  LET sized == {i \in 1..Len(text) : text[i].kind = "LAYOUT"}
  IN [layout |-> [c \in {text[i].what : i \in sized} |->
                    text[Max({i \in sized : text[i].what = c})].size],
      live              |-> Of({"SKIPPED", "FORM"}, text),
      live_rtti         |-> Of({"RTTI"}, text),
      live_vtbl         |-> Of({"VTBL"}, text),
      live_runtime_data |-> Of({"RUNTIME"}, text),
      live_extralist    |-> Of({"EXTRA"}, text)]

Report == ParseLog(log)

\* The baseline's two sizes: what the headers assert in the view of the archives,
\* and what the importer found, whatever that is.
Expected(c) == Assertion[baseline][c]["ae"]
Actual(c)   == Imported[baseline][c]

\* (Fault: compared with what the importer found.)
MismatchActual(c, compiled) == Actual(c) # compiled

Mismatch(c, compiled) == Expected(c) # None /\ Expected(c) # compiled

ExitStatus ==
  LET layout == Report.layout
  IN IF \E c \in DOMAIN layout : Mismatch(c, layout[c]) THEN 1 ELSE 0

-----------------------------------------------------------------------------
Lines == [kind : {"LAYOUT", "ADDR", "RTTI", "FORM", "VTBL", "SKIPPED", "WARN", "RUNTIME", "EXTRA"},
          what : Classes \cup {"vtables", "TESForm(0x07)", "PlayerCharacter", "PlayerCharacter[0]"},
          size : Nat,
          said : Seq({"OK", "MISMATCH", "NULL", "plausible", "IMPLAUSIBLE"})]

Steps == Classes \cup Messages
           \cup {"addresses", "rtti", "base", "base_type", "player", "form_id", "form_type",
                 "race", "extra_list", "vtable"}

TypeOK ==
  /\ dll \in Dlls /\ writer \in Dlls /\ baseline \in Revisions
  /\ game \in Games \cup {Off}
  /\ faulted \in BOOLEAN
  /\ todo \in Seq(Steps)
  /\ blocks \in 0..MaxBlocks
  /\ done \subseteq Messages
  /\ log \in Seq(Lines)
  /\ ~game.on => todo = << >>
  /\ blocks = 0 => \A i \in 1..Len(log) : log[i].kind = "LAYOUT"

\* Whenever the log is read, also after a crash while it is written and after
\* other builds: all the sizes reported are those of the one build that opened
\* it ("a build-config fingerprint", LayoutValidator.h).
LayoutOfOneBuild ==
  LET layout == Report.layout
  IN \A c \in DOMAIN layout : layout[c] = Compiled(writer, c)

\* parse_layout_log.py exits 1 just when a class in the log, as the plugin that wrote
\* it compiled it, has another size than the baseline records as asserted; the size
\* the importer found does not count.  A plugin of the baseline's own headers is
\* blamed only for an assert that its macros have taken from its compiler's eyes.
ExitStatusTrue ==
  LET differ == {c \in DOMAIN Report.layout : Expected(c) \notin {None, Compiled(writer, c)}}
  IN /\ ExitStatus = IF differ # {} THEN 1 ELSE 0
     /\ writer.revision = baseline =>
          \A c \in differ : Assertion[baseline][c][writer.view] # Expected(c)

\* When a message has been dealt with, the parsed report has the verdict on the
\* id it checks, the right one; for the vtable if there was a player ("if the
\* Address Library ID resolved to a neighbouring descriptor ... this catches it").
IdsVerified ==
  LET report == Report IN
  game.on =>
    /\ "kDataLoaded" \in done => report.live_rtti # << >>
    /\ \A i \in 1..Len(report.live_rtti) :
         report.live_rtti[i].said = <<Verdict("RTTI_TESForm" \notin game.wrong)>>
    /\ report.live_extralist # << >> /\ todo = << >> =>
         \E i \in 1..Len(report.live_vtbl) :
           report.live_vtbl[i].said = <<Verdict("VTABLE_PlayerCharacter" \notin game.wrong)>>

Placed(d, c, field) == CompiledOffset(d, c, field) = GameOffset(c, field)

\* A plugin that has all the members it reads where the game has them neither
\* warns nor reports nor crashes the game, in whatever order messages come and
\* whether there is a player, a base form and a race or not.
QuietWhenRight ==
  /\ Placed(writer, "TESForm", "formID") /\ Placed(writer, "TESForm", "formType")
  /\ Placed(writer, "Actor::ACTOR_RUNTIME_DATA", "race")
  /\ Placed(writer, "TESObjectREFR", "extraList")
  => /\ ~faulted
     /\ \A i \in 1..Len(log) :
          /\ log[i].kind # "WARN"
          /\ log[i].kind = "FORM" => log[i].said = <<"OK", "OK">>
          /\ log[i].kind = "RUNTIME" => log[i].said \in {<<"plausible">>, <<"NULL">>}

\* A misplaced member does show, though not in the verdict: in a game that survives
\* the walk of the player's extra list, and whose bytes do not happen to look right,
\* a wrong place of formID or formType has left a warning about the player, and one
\* of race a pointer not called plausible.
MisplacedFieldsShow ==
  game.on /\ ~game.lucky /\ Report.live_extralist # << >> =>
    /\ ~Placed(writer, "TESForm", "formID") \/ ~Placed(writer, "TESForm", "formType") =>
         \E i \in 1..Len(log) : log[i].kind = "WARN" /\ log[i].what = "PlayerCharacter"
    /\ ~Placed(writer, "Actor::ACTOR_RUNTIME_DATA", "race") =>
         \E i \in 1..Len(Report.live_runtime_data) :
           Report.live_runtime_data[i].said # <<"plausible">>

\* "A mismatch there means the compiled layout disagrees with the real binary"
\* (LayoutValidator.h); "A wrong `formID` offset in `TESForm` ... would show up
\* here even if every static assert passed" (docs/LAYOUT_VALIDATOR.md).
MisplacedFieldReported ==
  \A i \in 1..Len(Report.live) :
    Report.live[i].kind = "FORM" /\ ~Placed(writer, "TESForm", "formID") =>
      "MISMATCH" \in {Report.live[i].said[1], Report.live[i].said[2]}
=============================================================================
