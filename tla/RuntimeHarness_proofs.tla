----------------------- MODULE RuntimeHarness_proofs -----------------------
(***************************************************************************)
(* For any number of actors, packages and update threads: the log follows  *)
(* the map, only transitions are logged, and the tool's answer is the map  *)
(* at one moment of the call.                                              *)
(***************************************************************************)
EXTENDS RuntimeHarness, TLAPS

\* No actor is updated twice at once.
OneThreadEach ==
  \A t, u \in Threads :
    pc[t] # "idle" /\ pc[u] # "idle" /\ actor[t] = actor[u] => t = u

\* What a thread in the hook knows about the actor it updates.
InHook ==
  \A t \in Threads : pc[t] # "idle" =>
    /\ observed[actor[t]] = package[t]
    /\ pc[t] = "logging" => /\ lastPackage[actor[t]] = package[t]
                            /\ line[actor[t]] # package[t]
    /\ pc[t] # "logging" => line[actor[t]] = lastPackage[actor[t]]

\* The entries copied so far are those of the map, which the mutex keeps still.
CopySoFar ==
  /\ handler = "copying" => \A a \in Actors \ todo : snapshot[a] = lastPackage[a]

IInv == TypeOK /\ OneThreadEach /\ InHook /\ LogFollowsMap /\ CopySoFar

-----------------------------------------------------------------------------

LEMMA InitHolds == Init => IInv
BY DistinctAssumption
   DEF Init, IInv, TypeOK, OneThreadEach, InHook, LogFollowsMap, CopySoFar, Nothing, Updating

\* Steps of the plugin and of the handler before and after the copy.
LEMMA Outside ==
  ASSUME IInv, UNCHANGED <<hook, lastPackage>>, TypeOK', CopySoFar'
  PROVE  IInv'
BY DEF IInv, TypeOK, OneThreadEach, InHook, LogFollowsMap, Updating, hook

LEMMA ObserveStep ==
  ASSUME IInv, NEW t \in Threads, NEW a \in Actors, NEW p \in Packages, Observe(t, a, p)
  PROVE  IInv'
<1>1. TypeOK'
  BY DEF IInv, TypeOK, Observe, tool
<1>2. OneThreadEach'
  BY DEF IInv, TypeOK, OneThreadEach, Observe
<1>3. InHook'
  <2> SUFFICES ASSUME NEW u \in Threads, pc'[u] # "idle"
               PROVE  /\ observed'[actor'[u]] = package'[u]
                      /\ pc'[u] = "logging" => /\ lastPackage'[actor'[u]] = package'[u]
                                               /\ line'[actor'[u]] # package'[u]
                      /\ pc'[u] # "logging" => line'[actor'[u]] = lastPackage'[actor'[u]]
    BY DEF InHook
  <2>1. CASE u = t
    BY <2>1 DEF IInv, TypeOK, LogFollowsMap, Updating, Observe
  <2>2. CASE u # t
    <3>1. pc'[u] = pc[u] /\ actor'[u] = actor[u] /\ package'[u] = package[u] /\ actor[u] # a
      BY <2>2 DEF IInv, TypeOK, Observe
    <3> QED BY <3>1 DEF IInv, TypeOK, InHook, Observe
  <2> QED BY <2>1, <2>2
<1>4. LogFollowsMap'
  <2> SUFFICES ASSUME NEW b \in Actors, ~Updating(b)'
               PROVE  line'[b] = lastPackage'[b] /\ lastPackage'[b] = observed'[b]
    BY DEF LogFollowsMap
  <2>1. b # a /\ ~Updating(b)
    BY DEF IInv, TypeOK, Updating, Observe
  <2> QED BY <2>1 DEF IInv, TypeOK, LogFollowsMap, Observe
<1>5. CopySoFar'
  BY DEF IInv, CopySoFar, Observe, tool
<1> QED BY <1>1, <1>2, <1>3, <1>4, <1>5 DEF IInv

LEMMA LockStep ==
  ASSUME IInv, NEW t \in Threads, Lock(t)
  PROVE  IInv'
<1>1. TypeOK'
  BY DistinctAssumption DEF IInv, TypeOK, Lock, tool
<1>2. OneThreadEach' /\ InHook'
  BY DEF IInv, TypeOK, OneThreadEach, InHook, Lock
<1>3. LogFollowsMap'
  BY DEF IInv, TypeOK, LogFollowsMap, Updating, Lock
<1>4. CopySoFar'
  BY DEF IInv, CopySoFar, Lock, tool
<1> QED BY <1>1, <1>2, <1>3, <1>4 DEF IInv

LEMMA RecordStep ==
  ASSUME IInv, NEW t \in Threads, Record(t)
  PROVE  IInv'
<1>0. /\ mutex = t /\ handler # "copying" /\ handler' = handler
      /\ actor[t] \in Actors /\ package[t] \in Packages
      /\ UNCHANGED <<actor, package, line, observed>>
  BY DistinctAssumption DEF IInv, TypeOK, Record, tool
<1>1. TypeOK'
  BY DistinctAssumption DEF IInv, TypeOK, Record, tool
<1>2. OneThreadEach'
  BY DEF IInv, TypeOK, OneThreadEach, Record
<1>3. InHook'
  <2> SUFFICES ASSUME NEW u \in Threads, pc'[u] # "idle"
               PROVE  /\ observed'[actor'[u]] = package'[u]
                      /\ pc'[u] = "logging" => /\ lastPackage'[actor'[u]] = package'[u]
                                               /\ line'[actor'[u]] # package'[u]
                      /\ pc'[u] # "logging" => line'[actor'[u]] = lastPackage'[actor'[u]]
    BY DEF InHook
  <2>1. CASE u = t
    <3>1. /\ pc[t] = "locked" /\ line[actor[t]] = lastPackage[actor[t]]
          /\ observed[actor[t]] = package[t]
      BY DEF IInv, InHook, Record
    <3>2. /\ lastPackage[actor[t]] # package[t] /\ pc'[t] = "logging"
          /\ lastPackage'[actor[t]] = package[t]
      BY <2>1, <1>0 DEF IInv, TypeOK, Record
    <3> QED BY <1>0, <2>1, <3>1, <3>2
  <2>2. CASE u # t
    <3>1. pc'[u] = pc[u] /\ actor[u] # actor[t] /\ actor[u] \in Actors
      BY <2>2 DEF IInv, TypeOK, OneThreadEach, Record
    <3>2. lastPackage'[actor[u]] = lastPackage[actor[u]]
      BY <1>0, <3>1 DEF IInv, TypeOK, Record
    <3> QED BY <1>0, <3>1, <3>2 DEF IInv, InHook
  <2> QED BY <2>1, <2>2
<1>4. LogFollowsMap'
  <2> SUFFICES ASSUME NEW b \in Actors, ~Updating(b)'
               PROVE  line'[b] = lastPackage'[b] /\ lastPackage'[b] = observed'[b]
    BY DEF LogFollowsMap
  <2>1. CASE b = actor[t]
    <3>1. pc'[t] = "idle"
      BY <1>0, <2>1 DEF Updating
    <3>2. lastPackage[b] = package[t] /\ lastPackage' = lastPackage
      BY <2>1, <3>1 DEF IInv, TypeOK, Record
    <3>3. line[b] = lastPackage[b] /\ observed[b] = package[t]
      BY <2>1 DEF IInv, InHook, Record
    <3> QED BY <1>0, <3>2, <3>3
  <2>2. CASE b # actor[t]
    <3>1. lastPackage'[b] = lastPackage[b]
      BY <1>0, <2>2 DEF IInv, TypeOK, Record
    <3>2. ~Updating(b)
      BY <1>0, <2>2 DEF IInv, TypeOK, Updating, Record
    <3> QED BY <1>0, <3>1, <3>2 DEF IInv, LogFollowsMap
  <2> QED BY <2>1, <2>2
<1>5. CopySoFar'
  BY <1>0 DEF CopySoFar
<1> QED BY <1>1, <1>2, <1>3, <1>4, <1>5 DEF IInv

LEMMA LogStep ==
  ASSUME IInv, NEW t \in Threads, Log(t)
  PROVE  IInv'
<1>0. /\ UNCHANGED <<actor, package, observed, lastPackage>>
      /\ actor[t] \in Actors /\ pc[t] = "logging"
  BY DEF IInv, TypeOK, Log
<1>1. TypeOK'
  BY DEF IInv, TypeOK, Log, tool
<1>2. OneThreadEach'
  BY DEF IInv, TypeOK, OneThreadEach, Log
<1>3. InHook'
  <2> SUFFICES ASSUME NEW u \in Threads, pc'[u] # "idle"
               PROVE  /\ observed'[actor'[u]] = package'[u]
                      /\ pc'[u] = "logging" => /\ lastPackage'[actor'[u]] = package'[u]
                                               /\ line'[actor'[u]] # package'[u]
                      /\ pc'[u] # "logging" => line'[actor'[u]] = lastPackage'[actor'[u]]
    BY DEF InHook
  <2>1. u # t /\ pc'[u] = pc[u]
    BY DEF IInv, TypeOK, Log
  <2>2. actor[u] # actor[t] /\ actor[u] \in Actors
    BY <1>0, <2>1 DEF IInv, TypeOK, OneThreadEach
  <2>3. line'[actor[u]] = line[actor[u]]
    BY <2>2 DEF IInv, TypeOK, Log
  <2> QED BY <1>0, <2>1, <2>3 DEF IInv, InHook
<1>4. LogFollowsMap'
  <2> SUFFICES ASSUME NEW b \in Actors, ~Updating(b)'
               PROVE  line'[b] = lastPackage'[b] /\ lastPackage'[b] = observed'[b]
    BY DEF LogFollowsMap
  <2>1. CASE b = actor[t]
    BY <1>0, <2>1 DEF IInv, TypeOK, InHook, Log
  <2>2. CASE b # actor[t]
    <3>1. line'[b] = line[b] /\ ~Updating(b)
      BY <1>0, <2>2 DEF IInv, TypeOK, Updating, Log
    <3> QED BY <1>0, <3>1 DEF IInv, LogFollowsMap
  <2> QED BY <2>1, <2>2
<1>5. CopySoFar'
  BY DEF IInv, CopySoFar, Log, tool
<1> QED BY <1>1, <1>2, <1>3, <1>4, <1>5 DEF IInv

LEMMA CopyStep ==
  ASSUME IInv, NEW a \in Actors, CopyEntry(a)
  PROVE  IInv'
<1>1. TypeOK' /\ CopySoFar'
  BY DEF IInv, TypeOK, CopySoFar, CopyEntry, hook
<1> QED BY <1>1, Outside DEF CopyEntry

LEMMA HandlerSteps ==
  ASSUME IInv, Call \/ LockForCopy \/ Unlock \/ Write
  PROVE  IInv'
<1>1. TypeOK'
  BY DistinctAssumption DEF IInv, TypeOK, Call, LockForCopy, Unlock, Write, hook
<1>2. CopySoFar'
  BY DEF IInv, TypeOK, CopySoFar, Call, LockForCopy, Unlock, Write
<1> QED BY <1>1, <1>2, Outside DEF Call, LockForCopy, Unlock, Write

LEMMA PluginSteps ==
  ASSUME IInv, NEW ok \in BOOLEAN, Load(ok) \/ PostLoad(ok)
  PROVE  IInv'
<1>1. TypeOK' /\ CopySoFar'
  BY DEF IInv, TypeOK, CopySoFar, Load, PostLoad, hook, tool
<1> QED BY <1>1, Outside DEF Load, PostLoad

LEMMA StepHolds == IInv /\ [Next]_vars => IInv'
<1> SUFFICES ASSUME IInv, [Next]_vars PROVE IInv'
  OBVIOUS
<1>1. CASE UNCHANGED vars
  BY <1>1 DEF IInv, TypeOK, OneThreadEach, InHook, LogFollowsMap, Updating, CopySoFar,
              vars, hook, tool
<1>2. CASE Next
  BY <1>2, PluginSteps, ObserveStep, LockStep, RecordStep, LogStep, CopyStep, HandlerSteps
     DEF Next, HookStep, HandlerStep
<1> QED BY <1>1, <1>2

LEMMA Inductive == Spec => []IInv
BY InitHolds, StepHolds, PTL DEF Spec

-----------------------------------------------------------------------------

\* Types, and that whoever is in a critical section holds the mutex.
THEOREM TypeCorrect == Spec => []TypeOK
<1>1. IInv => TypeOK
  BY DEF IInv
<1> QED BY <1>1, Inductive, PTL

\* Log, map and last update agree on every actor no hook is at work on, for
\* any number of threads writing lines in any order.
THEOREM LogIsMap == Spec => []LogFollowsMap
<1>1. IInv => LogFollowsMap
  BY DEF IInv
<1> QED BY <1>1, Inductive, PTL

\* A line always differs from the line before it about the same actor.
THEOREM Transitions == Spec => OnlyTransitionsLogged
<1> DEFINE Differs == \A t \in Threads : pc[t] = "logging" /\ pc'[t] = "idle"
                        => line'[actor[t]] # line[actor[t]]
<1>1. IInv /\ [Next]_vars => [Differs]_vars
  <2> SUFFICES ASSUME IInv, Next, NEW t \in Threads, pc[t] = "logging", pc'[t] = "idle"
               PROVE  line'[actor[t]] # line[actor[t]]
    OBVIOUS
  <2>1. Log(t)
    BY DEF Next, HookStep, HandlerStep, Load, PostLoad, Observe, Lock, Record, Log, Call,
           LockForCopy, CopyEntry, Unlock, Write, hook, IInv, TypeOK
  <2>2. line'[actor[t]] = package[t] /\ line[actor[t]] # package[t]
    BY <2>1 DEF IInv, TypeOK, InHook, Log
  <2> QED BY <2>2
<1>2. Spec => [][Differs]_vars
  BY <1>1, Inductive, PTL DEF Spec
<1> QED BY <1>2 DEF OnlyTransitionsLogged

-----------------------------------------------------------------------------
(* The tool refines PackageTool *)

CallOf == CASE handler = "idle"   -> "none"
            [] handler = "copied" -> "taken"
            [] OTHER              -> "asked"

AnswerOf == IF handler = "copied" THEN snapshot ELSE None

LEMMA InitRefines == Init => Tool!Init
BY DEF Init, Tool!Init, Nothing

LEMMA StepRefines ==
  IInv /\ [Next]_vars => [Tool!Next]_<<lastPackage, CallOf, AnswerOf>>
<1> SUFFICES ASSUME IInv, [Next]_vars
             PROVE  Tool!Next \/ UNCHANGED <<lastPackage, CallOf, AnswerOf>>
  OBVIOUS
<1>1. CASE \/ UNCHANGED vars
           \/ \E ok \in BOOLEAN : Load(ok) \/ PostLoad(ok)
           \/ \E t \in Threads, a \in Actors, p \in Packages : Observe(t, a, p)
           \/ \E t \in Threads : Lock(t) \/ Log(t)
  BY <1>1 DEF vars, tool, Load, PostLoad, Observe, Lock, Log, CallOf, AnswerOf
<1>2. ASSUME NEW t \in Threads, Record(t)
      PROVE  Tool!Next \/ UNCHANGED <<lastPackage, CallOf, AnswerOf>>
  <2>1. UNCHANGED <<handler, snapshot>>
    BY <1>2 DEF Record, tool
  <2>2. CASE lastPackage' = lastPackage
    BY <2>1, <2>2 DEF CallOf, AnswerOf
  <2>3. CASE lastPackage' # lastPackage
    <3>1. /\ actor[t] \in Actors /\ package[t] \in Packages
          /\ lastPackage' = [lastPackage EXCEPT ![actor[t]] = package[t]]
      BY <1>2, <2>3 DEF IInv, TypeOK, Record
    <3>2. Tool!Observe(actor[t], package[t])
      BY <2>1, <3>1 DEF Tool!Observe
    <3> QED BY <3>1, <3>2 DEF Tool!Next
  <2> QED BY <2>2, <2>3
<1>3. CASE Call
  BY <1>3 DEF Call, Tool!Next, Tool!Ask
<1>4. CASE LockForCopy
  BY <1>4 DEF LockForCopy, CallOf, AnswerOf
<1>5. CASE \E a \in Actors : CopyEntry(a)
  BY <1>5 DEF CopyEntry, CallOf, AnswerOf
<1>6. CASE Unlock
  <2>1. \A a \in Actors : snapshot[a] = lastPackage[a]
    BY <1>6 DEF Unlock, IInv, CopySoFar
  <2>2. snapshot = lastPackage
    BY <2>1 DEF IInv, TypeOK
  <2> QED BY <1>6, <2>2 DEF Unlock, Tool!Next, Tool!Take
<1>7. CASE Write
  BY <1>7 DEF Write, Tool!Next, Tool!Give
<1> QED BY <1>1, <1>2, <1>3, <1>4, <1>5, <1>6, <1>7 DEF Next, HookStep, HandlerStep

\* The tool's answer is the map at one moment of the call: the copy made entry
\* by entry under the mutex implements one that is made at once.
THEOREM ToolImplemented == Spec => AnswersAtomically
<1>1. IInv /\ [Next]_vars => [Tool!Next]_<<lastPackage, CallOf, AnswerOf>>
  BY StepRefines
<1> QED BY <1>1, InitRefines, Inductive, PTL
        DEF Spec, AnswersAtomically, Tool!Spec, CallOf, AnswerOf
=============================================================================
