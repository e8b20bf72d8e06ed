----------------------------- MODULE PluginHooks -----------------------------
(***************************************************************************)
(* The hooks of runtime-harness: SKSEPluginLoad (main.cpp) installs them    *)
(* into the vtables of the game's classes, other plugins hook the same     *)
(* tables before and after it, and the game calls through whatever is      *)
(* there.  A hook calls what it found in the slot and then observes:       *)
(* AIProcessInspector reads the package (RuntimeHarness models what it      *)
(* does with it), SavegameTracer dumps the list of saves, HavokStepLogger   *)
(* logs a character's physics state if it changed.                         *)
(*                                                                         *)
(* HavokStepLogger is known not to work: the game has not been seen to call *)
(* through its six slots (docs/HAVOK_STEP_LOGGER_INVESTIGATION.md).  Here   *)
(* the game may change a physics state through them or by other means, and *)
(* nothing says that it ever calls through them.                           *)
(***************************************************************************)
EXTENDS Naturals, Sequences, Selections

CONSTANTS
  Threads,    \* the game's threads
  Contexts,   \* addresses of hkpCharacterContext objects
  Others,     \* other plugins that hook vtables
  Contested,  \* the classes they hook
  SaveLists,  \* what saveGameList can be: sequences of entries and Null
  Null,       \* a null entry of that list
  None        \* nothing: no call, no line, a pointer never set

-----------------------------------------------------------------------------
(* Classes, and the functions that vtable slots hold *)

StepClasses == {"OnGround", "Jumping", "InAir", "Climbing", "Flying", "Swimming"}

\* Classes with one object each here; the object goes by its class's name.
\* PlayerCharacter has a vtable of its own that nothing of ours hooks.
PlainClasses == {"Actor", "Character", "PlayerCharacter", "BGSSaveLoadManager"}

Classes == PlainClasses \cup StepClasses

Objects == PlainClasses \cup Contexts

\* (Fault: one of the six state classes is left out.)
InstallOrderButSwimming(steps) ==
  IF steps
  THEN <<"Actor", "Character", "OnGround", "Jumping", "InAir", "Climbing", "Flying",
         "BGSSaveLoadManager">>
  ELSE <<"Actor", "Character", "BGSSaveLoadManager">>

\* The order of the Install() calls; HavokStepLogger only if it is compiled in.
InstallOrder(steps) ==
  IF steps
  THEN <<"Actor", "Character", "OnGround", "Jumping", "InAir", "Climbing", "Flying",
         "Swimming", "BGSSaveLoadManager">>
  ELSE <<"Actor", "Character", "BGSSaveLoadManager">>

\* Whose body a class's own slot runs: Character does not override Update, nor
\* does any of the six state classes.
Body(c) == CASE c = "Character"   -> "Actor"
             [] c \in StepClasses -> "bhkCharacterState"
             [] OTHER             -> c

Hookers == Others \cup {"us"}

Function(who, c) == [by |-> who, of |-> c]
GameFunction(c)  == Function("game", Body(c))
Functions == [by : Hookers \cup {"game"}, of : Classes \cup {"bhkCharacterState"}]

ASSUME ConstantsAssumption ==
  /\ {"game", "us"} \cap Others = {}
  /\ Contexts \cap (PlainClasses \cup StepClasses) = {}
  /\ Contested \subseteq PlainClasses \cup StepClasses
  /\ SaveLists # {}
  /\ None \notin SaveLists \cup StepClasses \cup Functions \cup {Null}

\* saveGameList is a sequence of whatever is in it.
ASSUME ListsAssumption ==
  \A list \in SaveLists : list \in Seq({list[i] : i \in DOMAIN list})

VARIABLES
  phase,      \* "unloaded", "registering", "installing", "loaded", "refused",
              \* "terminated" or "crashed"
  withSteps,  \* the plugin is compiled with RTK_ENABLE_HAVOK_STEP_LOGGER
  next,       \* the position in InstallOrder of the hook installed next
  replaced,   \* what write_vfunc returned and no variable holds yet, or None
  running,    \* the game's threads are running
  slot,       \* the function in the hooked slot of each class's vtable
  saved,      \* what each hook calls as its original: _ActorUpdate and so on
  order,      \* by whom each slot was hooked, in order (history)
  call,       \* the virtual call each thread is in, or None
  state,      \* hkpCharacterContext::currentState, the game's
  lastState,  \* g_lastState, None where there is no entry
  line,       \* the last two states logged about each context
  stepped,    \* the contexts whose state was last set by an update called
              \* through one of the slots (history)
  saveList,   \* BGSSaveLoadManager::saveGameList, the game's
  dump        \* the entries last dumped, or None

plugin == <<phase, withSteps, next, replaced>>
steps  == <<lastState, line>>
game   == <<state, stepped, saveList>>
table  == <<running, slot, saved, order>>
vars   == <<plugin, table, call, steps, game, dump>>

-----------------------------------------------------------------------------
(* Loading: SKSEPluginLoad and the Install functions *)

\* SetupLog: without a log directory report_and_fail ends the process.
SetupLog(directory) ==
  /\ phase = "unloaded"
  /\ phase' = IF directory THEN "registering" ELSE "terminated"
  /\ UNCHANGED <<withSteps, next, replaced, table, call, steps, game, dump>>

\* (Fault: the first hook is in place when the listener is registered.)
RegisterAfterHook(accepted) ==
  /\ phase = "registering"
  /\ phase' = IF accepted THEN "installing" ELSE "refused"
  /\ next' = 2
  /\ saved' = [saved EXCEPT !["us"]["Actor"] = slot["Actor"]]
  /\ slot' = [slot EXCEPT !["Actor"] = Function("us", "Actor")]
  /\ order' = [order EXCEPT !["Actor"] = Append(@, "us")]
  /\ UNCHANGED <<withSteps, replaced, running, call, steps, game, dump>>

\* RegisterListener; if SKSE refuses it the load fails, and SKSE frees the DLL.
Register(accepted) ==
  /\ phase = "registering"
  /\ phase' = IF accepted THEN "installing" ELSE "refused"
  /\ UNCHANGED <<withSteps, next, replaced, table, call, steps, game, dump>>

Current == InstallOrder(withSteps)[next]

\* write_vfunc puts the hook into the slot and returns what was there ...
PatchSlot ==
  /\ phase = "installing" /\ replaced = None
  /\ next <= Len(InstallOrder(withSteps))
  /\ replaced' = slot[Current]
  /\ slot' = [slot EXCEPT ![Current] = Function("us", Current)]
  /\ order' = [order EXCEPT ![Current] = Append(@, "us")]
  /\ UNCHANGED <<phase, withSteps, next, running, saved, call, steps, game, dump>>

\* (Fault: both hooks of AIProcessInspector store into _ActorUpdate.)
KeepOriginalInOne ==
  /\ replaced # None
  /\ saved' = [saved EXCEPT !["us"][IF Current = "Character" THEN "Actor" ELSE Current] = replaced]
  /\ replaced' = None
  /\ next' = next + 1
  /\ UNCHANGED <<phase, withSteps, running, slot, order, call, steps, game, dump>>

\* ... which is then assigned to the hook's own variable.
KeepOriginal ==
  /\ replaced # None
  /\ saved' = [saved EXCEPT !["us"][Current] = replaced]
  /\ replaced' = None
  /\ next' = next + 1
  /\ UNCHANGED <<phase, withSteps, running, slot, order, call, steps, game, dump>>

Loaded ==
  /\ phase = "installing" /\ replaced = None
  /\ next > Len(InstallOrder(withSteps))
  /\ phase' = "loaded"
  /\ UNCHANGED <<withSteps, next, replaced, table, call, steps, game, dump>>

\* SKSE loads plugins one after another, and all before the game's threads run;
\* a plugin may also hook later, in a handler of its own.
OtherHooks(h, c) ==
  /\ phase \in {"unloaded", "loaded", "refused"}
  /\ saved[h][c] = None
  /\ saved' = [saved EXCEPT ![h][c] = slot[c]]
  /\ slot' = [slot EXCEPT ![c] = Function(h, c)]
  /\ order' = [order EXCEPT ![c] = Append(@, h)]
  /\ UNCHANGED <<plugin, running, call, steps, game, dump>>

GameStarts ==
  /\ phase \in {"loaded", "refused"} /\ ~running
  /\ running' = TRUE
  /\ UNCHANGED <<plugin, slot, saved, order, call, steps, game, dump>>

-----------------------------------------------------------------------------
(* Virtual calls: down the hooks to the game's function, and back up *)

Playing == running /\ phase # "crashed"

\* The state object whose Update runs is the one of the context's state.
ClassOf(o) == IF o \in Contexts THEN state[o] ELSE o

Top(t) == call[t].stack[Len(call[t].stack)]
Rest(t) == SubSeq(call[t].stack, 1, Len(call[t].stack) - 1)

\* The game works on an object on one thread at a time, and at most one call is
\* on any context: an assumption that src/ does not bear out, without which
\* two hooks could be in g_lastState at once, a map that no lock protects.
Call(t, o) ==
  /\ Playing
  /\ call[t] = None
  /\ \A u \in Threads : call[u] # None =>
       call[u].object # o /\ ~(o \in Contexts /\ call[u].object \in Contexts)
  /\ call' = [call EXCEPT ![t] =
       [object |-> o, class |-> ClassOf(o), stack |-> <<slot[ClassOf(o)]>>,
        up |-> FALSE, games |-> << >>, seen |-> << >>]]
  /\ UNCHANGED <<plugin, table, steps, game, dump>>

\* A hook, ours or another's, calls the original it keeps.
Descend(t) ==
  /\ Playing
  /\ call[t] # None /\ ~call[t].up /\ Top(t).by # "game"
  /\ LET original == saved[Top(t).by][Top(t).of]
     IN IF original = None
        THEN phase' = "crashed" /\ UNCHANGED call
        ELSE /\ call' = [call EXCEPT ![t].stack = Append(@, original)]
             /\ UNCHANGED phase
  /\ UNCHANGED <<withSteps, next, replaced, table, steps, game, dump>>

\* The game's function: an update called through a slot may change the context's
\* state, an event the list of saves.
Run(t) ==
  /\ Playing
  /\ call[t] # None /\ ~call[t].up /\ Top(t).by = "game"
  /\ call' = [call EXCEPT ![t].stack = Rest(t), ![t].up = TRUE,
                          ![t].games = Append(@, Top(t).of)]
  /\ IF call[t].object \in Contexts
     THEN /\ \E s \in StepClasses : state' = [state EXCEPT ![call[t].object] = s]
          /\ stepped' = stepped \cup {call[t].object}
     ELSE UNCHANGED <<state, stepped>>
  /\ IF call[t].object = "BGSSaveLoadManager"
     THEN saveList' \in SaveLists
     ELSE UNCHANGED saveList
  /\ UNCHANGED <<plugin, table, steps, dump>>

\* (Fault: no early return.)
LogAlways(c) ==
  /\ lastState' = [lastState EXCEPT ![c] = state[c]]
  /\ line' = [line EXCEPT ![c] = <<@[2], state[c]>>]

\* (Fault: an entry that is there is not overwritten.)
LogIfNew(c) ==
  IF lastState[c] = state[c]
  THEN UNCHANGED steps
  ELSE /\ lastState' = [lastState EXCEPT ![c] = IF @ = None THEN state[c] ELSE @]
       /\ line' = [line EXCEPT ![c] = <<@[2], state[c]>>]

\* HavokStepLogger: try_emplace, and the return when the entry has this state.
LogIfChanged(c) ==
  IF lastState[c] = state[c]
  THEN UNCHANGED steps
  ELSE /\ lastState' = [lastState EXCEPT ![c] = state[c]]
       /\ line' = [line EXCEPT ![c] = <<@[2], state[c]>>]

\* (Fault: the loop ends at a null entry, for it to go on.)
DumpUpToNull(found) ==
  dump' = IF found
          THEN IF \E i \in 1..Len(saveList) : saveList[i] = Null THEN << >> ELSE saveList
          ELSE None

\* SavegameTracer's DumpSaveGameList: every entry that is not null.
DumpSaveGameList(found) ==
  dump' = IF found THEN Selected(saveList, {i \in DOMAIN saveList : saveList[i] # Null})
                   ELSE None

\* A function on the way back returns; if it is ours, it observes first.
Ascend(t) ==
  /\ Playing
  /\ call[t] # None /\ call[t].up /\ call[t].stack # << >>
  /\ IF Top(t).by = "us"
     THEN /\ call' = [call EXCEPT ![t].stack = Rest(t), ![t].seen = Append(@, Top(t).of)]
          /\ IF Top(t).of \in StepClasses
             THEN LogIfChanged(call[t].object) ELSE UNCHANGED steps
          /\ IF Top(t).of = "BGSSaveLoadManager"
             THEN \E found \in BOOLEAN : DumpSaveGameList(found) ELSE UNCHANGED dump
     ELSE /\ call' = [call EXCEPT ![t].stack = Rest(t)]
          /\ UNCHANGED <<steps, dump>>
  /\ UNCHANGED <<plugin, table, game>>

Return(t) ==
  /\ Playing
  /\ call[t] # None /\ call[t].up /\ call[t].stack = << >>
  /\ call' = [call EXCEPT ![t] = None]
  /\ UNCHANGED <<plugin, table, steps, game, dump>>

\* The game changes a context's state without a call through one of the six
\* slots, also while one is under way; or the character is gone, and another
\* one's context is created at the address.
ChangeElsewhere(c, s) ==
  /\ Playing
  /\ state' = [state EXCEPT ![c] = s]
  /\ stepped' = stepped \ {c}
  /\ UNCHANGED <<plugin, table, call, steps, saveList, dump>>

-----------------------------------------------------------------------------
Init ==
  /\ phase = "unloaded" /\ withSteps \in BOOLEAN /\ next = 1 /\ replaced = None
  /\ running = FALSE
  /\ slot = [c \in Classes |-> GameFunction(c)]
  /\ saved = [h \in Hookers |-> [c \in Classes |-> None]]
  /\ order = [c \in Classes |-> << >>]
  /\ call = [t \in Threads |-> None]
  /\ state \in [Contexts -> StepClasses] /\ stepped = {}
  /\ lastState = [c \in Contexts |-> None]
  /\ line = [c \in Contexts |-> <<None, None>>]
  /\ saveList \in SaveLists
  /\ dump = None

Load ==
  \/ \E ok \in BOOLEAN : SetupLog(ok) \/ Register(ok)
  \/ PatchSlot \/ KeepOriginal \/ Loaded

InCall(t) == Descend(t) \/ Run(t) \/ Ascend(t) \/ Return(t)

Next ==
  \/ Load
  \/ \E h \in Others, c \in Contested : OtherHooks(h, c)
  \/ GameStarts
  \/ \E t \in Threads, o \in Objects : Call(t, o)
  \/ \E t \in Threads : InCall(t)
  \/ \E c \in Contexts, s \in StepClasses : ChangeElsewhere(c, s)

Spec == Init /\ [][Next]_vars

-----------------------------------------------------------------------------
Calls == [object : Objects, class : Classes, stack : Seq(Functions), up : BOOLEAN,
          games : Seq(Classes \cup {"bhkCharacterState"}), seen : Seq(Classes)]

ASSUME NoneAssumption == None \notin Calls

TypeOK ==
  /\ phase \in {"unloaded", "registering", "installing", "loaded", "refused",
                "terminated", "crashed"}
  /\ withSteps \in BOOLEAN
  /\ next \in 1..(Len(InstallOrder(withSteps)) + 1)
  /\ replaced \in Functions \cup {None}
  /\ running \in BOOLEAN
  /\ slot \in [Classes -> Functions]
  /\ saved \in [Hookers -> [Classes -> Functions \cup {None}]]
  /\ \A i \in 1..Len(InstallOrder(withSteps)) :
       saved["us"][InstallOrder(withSteps)[i]] # None <=> i < next
  /\ order \in [Classes -> Seq(Hookers)]
  /\ call \in [Threads -> Calls \cup {None}]
  /\ state \in [Contexts -> StepClasses]
  /\ stepped \subseteq Contexts
  /\ lastState \in [Contexts -> StepClasses \cup {None}]
  /\ line \in [Contexts -> (StepClasses \cup {None}) \X (StepClasses \cup {None})]
  /\ saveList \in SaveLists

\* The classes whose slots hold a hook of ours once the plugin is loaded.
Hooked ==
  IF phase # "loaded" THEN {}
  ELSE {"Actor", "Character", "BGSSaveLoadManager"}
         \cup (IF withSteps THEN StepClasses ELSE {})

\* Whoever else hooked the slot, before us, after us or while the game runs, a
\* call runs the game's own function for its class once, and our hook for that
\* class once and no other of ours ("patching only VTABLE_Actor would silently
\* never fire for any real NPC", AIProcessInspector.h; "all six are hooked at
\* the same index", HavokStepLogger.h).
CallsComplete ==
  \A t \in Threads : call[t] # None /\ call[t].up /\ call[t].stack = << >> =>
    /\ call[t].games = <<Body(call[t].class)>>
    /\ call[t].seen = IF call[t].class \in Hooked THEN <<call[t].class>> ELSE << >>

\* No hook of ours is entered while the variable of its original is empty: each
\* of the nine hooks has stored what it found into a variable of its own before
\* SKSE, all plugins loaded, lets the game's threads run.
NeverCrashes == phase # "crashed"

\* When SKSE refuses the listener and frees the DLL, no vtable and no other
\* plugin holds a pointer into it (main.cpp registers before it installs).
NothingLeftBehind ==
  phase = "refused" =>
    \A c \in Classes :
      slot[c].by # "us" /\ \A h \in Others : saved[h][c] # None => saved[h][c].by # "us"

Stepping(c) == \E t \in Threads : call[t] # None /\ call[t].object = c

\* Where a context's state was last set by an update called through one of the
\* six slots, and that call has returned, log and map have this state: whichever
\* of the six it came through, and whatever was logged before of this context or
\* of another at its address.  Of what the game does by other means, which may
\* be all it does, nothing is said: no hook sees it.
LogFollowsHookedUpdates ==
  phase = "loaded" /\ withSteps =>
    \A c \in stepped : ~Stepping(c) => line[c][2] = state[c] /\ lastState[c] = state[c]

\* "so the log only records transitions, not one line per physics step"
\* (HavokStepLogger.cpp): two lines about one address differ.
OnlyStepsLogged ==
  \A c \in Contexts : line[c][2] # None => line[c][1] # line[c][2]

\* The list dumped is the list the event left, without its null entries: the
\* dump comes after the game's own handler.
DumpIsCurrent ==
  phase = "loaded" /\ ~Stepping("BGSSaveLoadManager") /\ dump # None =>
    /\ \A i \in 1..Len(dump) : dump[i] # Null
    /\ \A i \in 1..Len(saveList) :
         saveList[i] # Null => \E j \in 1..Len(dump) : dump[j] = saveList[i]
=============================================================================
