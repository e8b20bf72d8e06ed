--------------------------- MODULE RuntimeHarness ---------------------------
(***************************************************************************)
(* runtime-harness: the SKSE plugin that observes the packages of actors   *)
(* in the running game (AIProcessInspector.cpp), logs their changes, and   *)
(* serves the last one of each as a devbench tool (DevBenchIntegration.cpp).*)
(*                                                                         *)
(* The hook runs on the threads that update actors, the tool's handler on  *)
(* devbench's listener thread; one mutex lies between them.  The log line   *)
(* is written after the mutex is released.  What an update makes of an     *)
(* actor's package is the game's choice; an update of an actor that is not *)
(* in high process returns at once and is no step here.                    *)
(***************************************************************************)
EXTENDS Naturals, FiniteSets

CONSTANTS
  Actors,     \* the actors, by form id
  Packages,   \* their packages, 0 for none among them
  Threads,    \* the threads that update actors
  Listener,   \* devbench's listener thread
  None        \* nothing: no entry, no line, nobody

ASSUME DistinctAssumption ==
  /\ None \notin Packages /\ None \notin Threads /\ Listener \notin Threads
  /\ None # Listener

VARIABLES
  plugin,        \* "unloaded", "refused", "loaded", "serving" or "alone"
  pc,            \* the step of the hook each thread is at
  actor,         \* the actor each thread updates, in the hook
  package,       \* the package it read
  mutex,         \* g_lastPackageMutex: who holds it, or None
  lastPackage,   \* g_lastPackage, None where there is no entry
  handler,       \* the step of the tool's handler
  todo,          \* the entries the handler has still to copy
  snapshot,      \* its copy
  line,          \* the last line logged of each actor
  observed       \* the package each actor had in its last update (history)

hook == <<pc, actor, package, line, observed>>
tool == <<handler, todo, snapshot>>
vars == <<plugin, hook, mutex, lastPackage, tool>>

-----------------------------------------------------------------------------
(* main.cpp: SKSEPluginLoad, and the one message that changes anything *)

\* The messaging listener is registered first; without it nothing is hooked.
Load(registered) ==
  /\ plugin = "unloaded"
  /\ plugin' = IF registered THEN "loaded" ELSE "refused"
  /\ UNCHANGED <<hook, mutex, lastPackage, tool>>

\* kPostLoad: the tool is registered if devbench answers now, and never later.
PostLoad(devbench) ==
  /\ plugin = "loaded"
  /\ plugin' = IF devbench THEN "serving" ELSE "alone"
  /\ UNCHANGED <<hook, mutex, lastPackage, tool>>

Hooked == plugin \in {"loaded", "serving", "alone"}

-----------------------------------------------------------------------------
(* ActorUpdate_Hook, CharacterUpdate_Hook and LogPackageIfChanged *)

\* The original update has run; the hook reads the package.  The game updates
\* an actor on one thread at a time.
Observe(t, a, p) ==
  /\ Hooked
  /\ pc[t] = "idle"
  /\ \A u \in Threads : pc[u] # "idle" => actor[u] # a
  /\ pc'       = [pc EXCEPT ![t] = "observed"]
  /\ actor'    = [actor EXCEPT ![t] = a]
  /\ package'  = [package EXCEPT ![t] = p]
  /\ observed' = [observed EXCEPT ![a] = p]
  /\ UNCHANGED <<plugin, line, mutex, lastPackage, tool>>

\* (Fault: a thread does not wait for the mutex.)
LockAnyway(t) ==
  /\ pc[t] = "observed"
  /\ mutex' = t
  /\ pc' = [pc EXCEPT ![t] = "locked"]
  /\ UNCHANGED <<plugin, actor, package, line, observed, lastPackage, tool>>

Lock(t) ==
  /\ pc[t] = "observed"
  /\ mutex = None
  /\ mutex' = t
  /\ pc' = [pc EXCEPT ![t] = "locked"]
  /\ UNCHANGED <<plugin, actor, package, line, observed, lastPackage, tool>>

\* (Fault: an entry that is there is not overwritten.)
RecordOnce(t) ==
  /\ pc[t] = "locked"
  /\ mutex' = None
  /\ IF lastPackage[actor[t]] = package[t]
     THEN pc' = [pc EXCEPT ![t] = "idle"] /\ UNCHANGED lastPackage
     ELSE /\ pc' = [pc EXCEPT ![t] = "logging"]
          /\ lastPackage' = [lastPackage EXCEPT ![actor[t]] = IF @ = None THEN package[t] ELSE @]
  /\ UNCHANGED <<plugin, actor, package, line, observed, tool>>

\* (Fault: the early return is missing.)
RecordAlways(t) ==
  /\ pc[t] = "locked"
  /\ mutex' = None
  /\ pc' = [pc EXCEPT ![t] = "logging"]
  /\ lastPackage' = [lastPackage EXCEPT ![actor[t]] = package[t]]
  /\ UNCHANGED <<plugin, actor, package, line, observed, tool>>

\* (Fault: the early return keeps the mutex, as without the guard.)
RecordKeepsMutex(t) ==
  /\ pc[t] = "locked"
  /\ IF lastPackage[actor[t]] = package[t]
     THEN pc' = [pc EXCEPT ![t] = "idle"] /\ UNCHANGED <<lastPackage, mutex>>
     ELSE /\ pc' = [pc EXCEPT ![t] = "logging"]
          /\ lastPackage' = [lastPackage EXCEPT ![actor[t]] = package[t]]
          /\ mutex' = None
  /\ UNCHANGED <<plugin, actor, package, line, observed, tool>>

\* try_emplace, and the return when the entry was there with this package;
\* either way the guard releases the mutex.
Record(t) ==
  /\ pc[t] = "locked"
  /\ mutex' = None
  /\ IF lastPackage[actor[t]] = package[t]
     THEN pc' = [pc EXCEPT ![t] = "idle"] /\ UNCHANGED lastPackage
     ELSE /\ pc' = [pc EXCEPT ![t] = "logging"]
          /\ lastPackage' = [lastPackage EXCEPT ![actor[t]] = package[t]]
  /\ UNCHANGED <<plugin, actor, package, line, observed, tool>>

Log(t) ==
  /\ pc[t] = "logging"
  /\ pc'   = [pc EXCEPT ![t] = "idle"]
  /\ line' = [line EXCEPT ![actor[t]] = package[t]]
  /\ UNCHANGED <<plugin, actor, package, observed, mutex, lastPackage, tool>>

-----------------------------------------------------------------------------
(* AiPackageTool_Handler and GetLastPackageSnapshot *)

Call ==
  /\ plugin = "serving"
  /\ handler = "idle"
  /\ handler' = "called"
  /\ UNCHANGED <<plugin, hook, mutex, lastPackage, todo, snapshot>>

\* (Fault: the copy is made without the mutex.)
LockForCopyNot ==
  /\ handler = "called"
  /\ handler' = "copying"
  /\ todo' = Actors
  /\ UNCHANGED <<plugin, hook, mutex, lastPackage, snapshot>>

LockForCopy ==
  /\ handler = "called"
  /\ mutex = None
  /\ mutex' = Listener
  /\ handler' = "copying"
  /\ todo' = Actors
  /\ UNCHANGED <<plugin, hook, lastPackage, snapshot>>

\* The map is copied entry by entry, in an order of its own.
CopyEntry(a) ==
  /\ handler = "copying"
  /\ a \in todo
  /\ todo' = todo \ {a}
  /\ snapshot' = [snapshot EXCEPT ![a] = lastPackage[a]]
  /\ UNCHANGED <<plugin, hook, mutex, lastPackage, handler>>

Unlock ==
  /\ handler = "copying"
  /\ todo = {}
  /\ mutex' = None
  /\ handler' = "copied"
  /\ UNCHANGED <<plugin, hook, lastPackage, todo, snapshot>>

\* The copy is serialised and written to the caller's sink, once.
Write ==
  /\ handler = "copied"
  /\ handler' = "idle"
  /\ UNCHANGED <<plugin, hook, mutex, lastPackage, todo, snapshot>>

-----------------------------------------------------------------------------
Nothing == [a \in Actors |-> None]

Init ==
  /\ plugin = "unloaded"
  /\ pc = [t \in Threads |-> "idle"]
  /\ actor \in [Threads -> Actors] /\ package \in [Threads -> Packages]
  /\ mutex = None
  /\ lastPackage = Nothing
  /\ handler = "idle" /\ todo = {} /\ snapshot = Nothing
  /\ line = Nothing /\ observed = Nothing

HookStep(t) == Lock(t) \/ Record(t) \/ Log(t)

HandlerStep == (\E a \in Actors : CopyEntry(a)) \/ Unlock \/ Write

Next ==
  \/ \E ok \in BOOLEAN : Load(ok) \/ PostLoad(ok)
  \/ \E t \in Threads, a \in Actors, p \in Packages : Observe(t, a, p)
  \/ \E t \in Threads : HookStep(t)
  \/ Call
  \/ LockForCopy
  \/ HandlerStep

\* Threads that run keep running, and a mutex that is free again and again is
\* eventually given to the listener; nobody has to call, and no actor to move.
Fairness ==
  /\ \A t \in Threads : WF_vars(Record(t))
  /\ SF_vars(LockForCopy)
  /\ WF_vars(HandlerStep)

Spec == Init /\ [][Next]_vars

FairSpec == Spec /\ Fairness

-----------------------------------------------------------------------------
Updating(a) == \E t \in Threads : pc[t] # "idle" /\ actor[t] = a

\* Types, and who is inside a critical section: the holder of the mutex.
TypeOK ==
  /\ plugin \in {"unloaded", "refused", "loaded", "serving", "alone"}
  /\ pc \in [Threads -> {"idle", "observed", "locked", "logging"}]
  /\ actor \in [Threads -> Actors]
  /\ package \in [Threads -> Packages]
  /\ mutex \in Threads \cup {Listener, None}
  /\ lastPackage \in [Actors -> Packages \cup {None}]
  /\ handler \in {"idle", "called", "copying", "copied"}
  /\ todo \subseteq Actors
  /\ snapshot \in [Actors -> Packages \cup {None}]
  /\ line \in [Actors -> Packages \cup {None}]
  /\ observed \in [Actors -> Packages \cup {None}]
  /\ \A t \in Threads : pc[t] = "locked" <=> mutex = t
  /\ handler = "copying" <=> mutex = Listener

\* The log and the map say the same of every actor that no hook is at work on,
\* and it is what the last update saw, although the line is written outside the
\* lock and lines of several threads may change places.
LogFollowsMap ==
  \A a \in Actors : ~Updating(a) =>
    line[a] = lastPackage[a] /\ lastPackage[a] = observed[a]

\* "the log only records package transitions" (AIProcessInspector.cpp:22-23): a
\* line always differs from the line before it about the same actor.
OnlyTransitionsLogged ==
  [][\A t \in Threads : pc[t] = "logging" /\ pc'[t] = "idle"
                          => line'[actor[t]] # line[actor[t]]]_vars

\* The reply is the map as it was at one moment of the call ("a reader never
\* observes a torn unordered_map write", AIProcessInspector.h:42-43).
Tool == INSTANCE PackageTool
          WITH known  <- lastPackage,
               call   <- CASE handler = "idle"   -> "none"
                           [] handler = "copied" -> "taken"
                           [] OTHER              -> "asked",
               answer <- IF handler = "copied" THEN snapshot ELSE None

AnswersAtomically == Tool!Spec

\* devbench's listener thread is never held up for good: every call is answered.
CallsAnswered == handler = "called" ~> handler = "idle"
=============================================================================
