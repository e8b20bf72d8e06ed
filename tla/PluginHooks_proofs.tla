------------------------- MODULE PluginHooks_proofs -------------------------
(***************************************************************************)
(* Proofs about PluginHooks, for any number of threads, physics contexts   *)
(* and other plugins, which may hook any of the classes.                   *)
(***************************************************************************)
EXTENDS PluginHooks, Selections_proofs, TLAPS

-----------------------------------------------------------------------------
(* The inductive invariant *)

Order == InstallOrder(withSteps)

\* The chain of a class, as each class's hooks are in order: the game's function,
\* then a function of each hook.
Link(hooks, c, k) == IF k = 0 THEN GameFunction(c) ELSE Function(hooks[c][k], c)

\* What each hook will call as its original, once it is assigned.
Originals == [h \in Hookers |-> [c \in Classes |->
  IF replaced # None /\ h = "us" /\ c = Current THEN replaced ELSE saved[h][c]]]

PhaseInv ==
  /\ phase # "crashed"
  /\ phase \in {"unloaded", "registering", "refused", "terminated"} => next = 1
  /\ phase = "loaded" => next = Len(Order) + 1
  /\ replaced # None => phase = "installing" /\ next <= Len(Order)
  /\ running => phase \in {"loaded", "refused"}
  /\ stepped # {} => running
  /\ \A t \in Threads : call[t] # None => running

\* A slot holds the end of the chain, each hook keeps the link before its own.
ChainInv ==
  \A c \in Classes :
    /\ slot[c] = Link(order, c, Len(order[c]))
    /\ \A i \in 1..Len(order[c]) : Originals[order[c][i]][c] = Link(order, c, i - 1)
    /\ \A i, j \in 1..Len(order[c]) : order[c][i] = order[c][j] => i = j
    /\ \A h \in Hookers :
         Originals[h][c] # None => \E i \in 1..Len(order[c]) : order[c][i] = h
    /\ saved["us"][c] # None => \E i \in 1..Len(Order) : Order[i] = c

\* Our hook is among the first n of a class.
Among(c, n) == \E i \in 1..n : order[c][i] = "us"

\* A call that found n hooks in its slot has come so far down, or up again.
Within(k, n) ==
  /\ n \in 0..Len(order[k.class])
  /\ \A j \in 1..Len(k.stack) : k.stack[j] = Link(order, k.class, n + 1 - j)
  /\ k.class \in Hooked <=> Among(k.class, n)
  /\ ~k.up => /\ Len(k.stack) \in 1..(n + 1)
              /\ k.games = << >> /\ k.seen = << >>
  /\ k.up  => /\ Len(k.stack) <= n
              /\ k.games = <<Body(k.class)>>
              /\ k.seen = IF Among(k.class, n - Len(k.stack)) THEN <<k.class>> ELSE << >>

CallInv == \A t \in Threads : call[t] # None => \E n \in Nat : Within(call[t], n)

\* An update has changed the context's state, and our hook has yet to look.
Unseen(c) ==
  \E t \in Threads : call[t] # None /\ call[t].object = c /\ call[t].up /\ call[t].seen = << >>

LogInv ==
  /\ \A t, u \in Threads :
       call[t] # None /\ call[u] # None /\ call[t].object = call[u].object => t = u
  /\ \A t \in Threads : call[t] # None =>
       IF call[t].object \in Contexts THEN call[t].class \in StepClasses
       ELSE call[t].class = call[t].object
  /\ \A c \in Contexts : line[c][2] = lastState[c]
  /\ OnlyStepsLogged
  /\ phase = "loaded" /\ withSteps => \A c \in stepped : Unseen(c) \/ lastState[c] = state[c]

IInv == TypeOK /\ PhaseInv /\ ChainInv /\ CallInv /\ LogInv

\* The dump is the list's, unless our hook has yet to look at what an event left.
Dumped ==
  /\ \A i \in 1..Len(dump) : dump[i] # Null
  /\ \A i \in 1..Len(saveList) :
       saveList[i] # Null => \E j \in 1..Len(dump) : dump[j] = saveList[i]

DumpInv ==
  /\ ~running => dump = None
  /\ phase = "loaded" /\ dump # None => Unseen("BGSSaveLoadManager") \/ Dumped

-----------------------------------------------------------------------------
(* Sequences, and the constants of the model *)

LEMMA Popped ==
  ASSUME NEW S, NEW s \in Seq(S), s # << >>, NEW rest, rest = SubSeq(s, 1, Len(s) - 1)
  PROVE  /\ Len(s) \in Nat \ {0}
         /\ rest \in Seq(S)
         /\ Len(rest) = Len(s) - 1
         /\ \A i \in 1..(Len(s) - 1) : rest[i] = s[i]
<1>1. Len(s) \in Nat \ {0}
  OBVIOUS
<1> DEFINE n == Len(s) - 1
<1>2. n \in Nat /\ \A i \in 1..n : s[i] \in S
  BY <1>1
<1> HIDE DEF n
<1>3. /\ SubSeq(s, 1, n) \in Seq(S)
      /\ Len(SubSeq(s, 1, n)) = IF 1 <= n THEN n - 1 + 1 ELSE 0
      /\ \A i \in 1..(n - 1 + 1) : SubSeq(s, 1, n)[i] = s[1 + i - 1]
  <2>1. n \in Int /\ 1 \in Int
    BY <1>2
  <2> QED BY <1>2, <2>1, SubSeqProperties
<1>4. rest = SubSeq(s, 1, n)
  BY DEF n
<1>5. Len(rest) = n
  BY <1>2, <1>3, <1>4
<1>6. ASSUME NEW i \in 1..n PROVE rest[i] = s[i]
  <2>1. i \in 1..(n - 1 + 1) /\ 1 + i - 1 = i
    BY <1>2, <1>6
  <2>2. SubSeq(s, 1, n)[i] = s[1 + i - 1]
    BY <1>3, <2>1
  <2> QED BY <1>4, <2>1, <2>2
<1> QED BY <1>1, <1>3, <1>4, <1>5, <1>6 DEF n

\* The classes we hook, one position each.
LEMMA OrderFacts ==
  ASSUME NEW steps_in \in BOOLEAN
  PROVE  LET o == InstallOrder(steps_in) IN
         /\ o \in Seq(Classes) /\ Len(o) \in Nat /\ Len(o) \in {3, 9}
         /\ \A i, j \in 1..Len(o) : o[i] = o[j] => i = j
         /\ \A c \in Classes : (\E i \in 1..Len(o) : o[i] = c) <=>
              c \in {"Actor", "Character", "BGSSaveLoadManager"}
                      \cup (IF steps_in THEN StepClasses ELSE {})
<1>1. CASE steps_in
  <2> DEFINE o == InstallOrder(steps_in)
  <2>1. /\ Len(o) = 9 /\ o \in Seq(Classes)
        /\ o[1] = "Actor" /\ o[2] = "Character" /\ o[3] = "OnGround" /\ o[4] = "Jumping"
        /\ o[5] = "InAir" /\ o[6] = "Climbing" /\ o[7] = "Flying" /\ o[8] = "Swimming"
        /\ o[9] = "BGSSaveLoadManager"
    BY <1>1 DEF InstallOrder, Classes, PlainClasses, StepClasses
  <2> HIDE DEF o
  <2>2. \A i, j \in 1..9 : o[i] = o[j] => i = j
    BY <2>1
  <2>3. \A c \in Classes : (\E i \in 1..9 : o[i] = c) <=>
          c \in {"Actor", "Character", "BGSSaveLoadManager"} \cup StepClasses
    BY <2>1 DEF StepClasses, Classes, PlainClasses
  <2>4. (IF steps_in THEN StepClasses ELSE {}) = StepClasses
    BY <1>1
  <2>5. Len(o) \in Nat /\ Len(o) \in {3, 9}
    BY <2>1
  <2>6. 1..Len(o) = 1..9
    BY <2>1
  <2> QED BY ONLY <2>1, <2>2, <2>3, <2>4, <2>5, <2>6 DEF o
<1>2. CASE ~steps_in
  <2> DEFINE o == InstallOrder(steps_in)
  <2>1. /\ Len(o) = 3 /\ o \in Seq(Classes)
        /\ o[1] = "Actor" /\ o[2] = "Character" /\ o[3] = "BGSSaveLoadManager"
    BY <1>2 DEF InstallOrder, Classes, PlainClasses, StepClasses
  <2> HIDE DEF o
  <2>2. \A i, j \in 1..3 : o[i] = o[j] => i = j
    BY <2>1
  <2>3. \A c \in Classes : (\E i \in 1..3 : o[i] = c) <=>
          c \in {"Actor", "Character", "BGSSaveLoadManager"}
    BY <2>1 DEF StepClasses, Classes, PlainClasses
  <2> QED BY <1>2, <2>1, <2>2, <2>3 DEF o
<1> QED BY <1>1, <1>2

LEMMA FunctionFacts ==
  /\ None \notin Functions /\ "us" # "game" /\ "us" \in Hookers /\ "game" \notin Hookers
  /\ \A h \in Hookers, c \in Classes :
       /\ Function(h, c) \in Functions /\ GameFunction(c) \in Functions
       /\ Function(h, c).by = h /\ Function(h, c).of = c
       /\ GameFunction(c).by = "game" /\ GameFunction(c).of = Body(c)
       /\ Body(c) \in Classes \cup {"bhkCharacterState"}
  /\ StepClasses \subseteq Classes /\ PlainClasses \subseteq Classes
BY ConstantsAssumption
   DEF Functions, Function, GameFunction, Body, Hookers, Classes, PlainClasses, StepClasses

\* Every link of a chain is a function; the game's is the first and only it.
LEMMA LinkFacts ==
  ASSUME NEW c \in Classes, order[c] \in Seq(Hookers), NEW k \in 0..Len(order[c])
  PROVE  /\ Link(order, c, k) \in Functions
         /\ k = 0 => Link(order, c, k).by = "game" /\ Link(order, c, k).of = Body(c)
         /\ k # 0 => Link(order, c, k).by = order[c][k] /\ Link(order, c, k).of = c
                     /\ order[c][k] \in Hookers /\ Link(order, c, k).by # "game"
<1>1. k # 0 => order[c][k] \in Hookers
  OBVIOUS
<1>2. Link(order, c, k) = IF k = 0 THEN GameFunction(c) ELSE Function(order[c][k], c)
  BY DEF Link
<1> QED BY <1>1, <1>2, FunctionFacts

-----------------------------------------------------------------------------
(* The chains of hooks *)

\* Our hook has its original once it is installed, and in no other class.
LEMMA OursSaved ==
  ASSUME TypeOK, ChainInv, NEW c \in Classes
  PROVE  saved["us"][c] # None <=> \E i \in 1..Len(Order) : Order[i] = c /\ i < next
<1>1. saved["us"][c] # None => \E i \in 1..Len(Order) : Order[i] = c
  BY DEF ChainInv
<1>2. \A i \in 1..Len(Order) : saved["us"][Order[i]] # None <=> i < next
  BY DEF TypeOK, Order
<1> QED BY <1>1, <1>2

LEMMA ChainStable ==
  ASSUME ChainInv, UNCHANGED <<slot, saved, order, replaced, next, withSteps>>
  PROVE  ChainInv'
<1>1. slot' = slot /\ saved' = saved /\ order' = order /\ Order' = Order
  BY DEF Order
<1>2. Originals' = Originals
  BY DEF Originals, Current
<1>3. \A c \in Classes : slot[c]' = Link(order', c, Len(order'[c]))
  BY <1>1 DEF ChainInv
<1>4. \A c \in Classes : \A i \in 1..Len(order'[c]) :
        Originals'[order'[c][i]][c] = Link(order', c, i - 1)
  BY <1>1, <1>2 DEF ChainInv
<1>5. \A c \in Classes : \A i, j \in 1..Len(order'[c]) : order'[c][i] = order'[c][j] => i = j
  BY <1>1 DEF ChainInv
<1>6. \A c \in Classes, h \in Hookers :
        Originals'[h][c] # None => \E i \in 1..Len(order'[c]) : order'[c][i] = h
  BY <1>1, <1>2 DEF ChainInv
<1>7. \A c \in Classes : saved'["us"][c] # None => \E i \in 1..Len(Order') : Order'[i] = c
  BY <1>1 DEF ChainInv
<1> QED BY ONLY <1>3, <1>4, <1>5, <1>6, <1>7, Zenon DEF ChainInv, Link

\* A hooker that has no original yet puts itself at the end of a chain.
LEMMA ChainExtends ==
  ASSUME TypeOK, ChainInv, NEW c \in Classes, NEW h \in Hookers,
         Originals[h][c] = None,
         Originals'[h][c] = slot[c],
         \A g \in Hookers, d \in Classes : g # h \/ d # c => Originals'[g][d] = Originals[g][d],
         slot' = [slot EXCEPT ![c] = Function(h, c)],
         order' = [order EXCEPT ![c] = Append(@, h)],
         \A d \in Classes : saved'["us"][d] = saved["us"][d],
         UNCHANGED withSteps
  PROVE  ChainInv' /\ order' \in [Classes -> Seq(Hookers)] /\ slot' \in [Classes -> Functions]
<1>1. /\ order \in [Classes -> Seq(Hookers)] /\ slot \in [Classes -> Functions]
      /\ order[c] \in Seq(Hookers) /\ Len(order[c]) \in Nat
  BY DEF TypeOK
<1> DEFINE n == Len(order[c])
<1>2. /\ order'[c] = Append(order[c], h) /\ order'[c] \in Seq(Hookers)
      /\ Len(order'[c]) = n + 1 /\ order'[c][n + 1] = h
      /\ \A i \in 1..n : order'[c][i] = order[c][i]
      /\ \A d \in Classes : d # c => order'[d] = order[d] /\ slot'[d] = slot[d]
      /\ slot'[c] = Function(h, c)
  BY <1>1, Appended
<1>3. order' \in [Classes -> Seq(Hookers)] /\ slot' \in [Classes -> Functions]
  BY <1>1, <1>2, FunctionFacts
<1>4. \A i \in 1..n : order[c][i] # h /\ order[c][i] \in Hookers
  <2> SUFFICES ASSUME NEW i \in 1..n PROVE order[c][i] # h /\ order[c][i] \in Hookers
    OBVIOUS
  <2>1. order[c][i] \in Hookers
    BY <1>1
  <2>2. Originals[order[c][i]][c] = Link(order, c, i - 1) /\ i - 1 \in 0..n
    BY <1>1 DEF ChainInv
  <2>3. Link(order, c, i - 1) # None
    BY <1>1, <2>2, LinkFacts, FunctionFacts
  <2> QED BY <2>1, <2>2, <2>3
<1>5. /\ \A k \in 0..n : Link(order', c, k) = Link(order, c, k)
      /\ Link(order', c, n + 1) = Function(h, c)
      /\ \A d \in Classes : d # c => \A k : Link(order', d, k) = Link(order, d, k)
  BY <1>1, <1>2 DEF Link
<1>o. /\ Originals'[h][c] = slot[c]
      /\ \A g \in Hookers, d \in Classes :
           g # h \/ d # c => Originals'[g][d] = Originals[g][d]
  OBVIOUS
<1>6. ASSUME NEW d \in Classes, d # c
      PROVE  /\ slot'[d] = Link(order', d, Len(order'[d]))
             /\ \A i \in 1..Len(order'[d]) : Originals'[order'[d][i]][d] = Link(order', d, i - 1)
             /\ \A i, j \in 1..Len(order'[d]) : order'[d][i] = order'[d][j] => i = j
             /\ \A g \in Hookers :
                  Originals'[g][d] # None => \E i \in 1..Len(order'[d]) : order'[d][i] = g
  <2>1. order'[d] = order[d] /\ slot'[d] = slot[d] /\ order[d] \in Seq(Hookers)
        /\ Len(order[d]) \in Nat
    BY <1>1, <1>2, <1>6
  <2>2. \A i \in 1..Len(order[d]) : order[d][i] \in Hookers /\ i - 1 \in Nat
    BY <2>1
  <2>3. \A g \in Hookers : Originals'[g][d] = Originals[g][d]
    BY <1>6, <1>o
  <2>4. \A i \in 1..Len(order[d]) : Originals'[order[d][i]][d] = Link(order', d, i - 1)
    <3>1. \A i \in 1..Len(order[d]) : Originals[order[d][i]][d] = Link(order, d, i - 1)
      BY DEF ChainInv
    <3>2. \A k : Link(order', d, k) = Link(order, d, k)
      BY ONLY <1>5, <1>6, Zenon
    <3> QED BY ONLY <2>2, <2>3, <3>1, <3>2, Zenon
  <2>5. slot'[d] = Link(order', d, Len(order'[d]))
    <3>1. slot[d] = Link(order, d, Len(order[d]))
      BY DEF ChainInv
    <3>2. Link(order', d, Len(order[d])) = Link(order, d, Len(order[d]))
      BY ONLY <1>5, <1>6, Zenon
    <3> QED BY ONLY <2>1, <3>1, <3>2, Zenon
  <2>6. \A i \in 1..Len(order'[d]) : Originals'[order'[d][i]][d] = Link(order', d, i - 1)
    BY <2>1, <2>4
  <2>7. \A i, j \in 1..Len(order'[d]) : order'[d][i] = order'[d][j] => i = j
    <3>1. \A i, j \in 1..Len(order[d]) : order[d][i] = order[d][j] => i = j
      BY DEF ChainInv
    <3> QED BY <2>1, <3>1
  <2>8. \A g \in Hookers :
          Originals'[g][d] # None => \E i \in 1..Len(order'[d]) : order'[d][i] = g
    <3>1. \A g \in Hookers :
            Originals[g][d] # None => \E i \in 1..Len(order[d]) : order[d][i] = g
      BY DEF ChainInv
    <3> QED BY <2>1, <2>3, <3>1
  <2> QED BY <2>5, <2>6, <2>7, <2>8
<1>7. slot'[c] = Link(order', c, Len(order'[c]))
  BY <1>2, <1>5
<1>8. ASSUME NEW i \in 1..Len(order'[c])
      PROVE  Originals'[order'[c][i]][c] = Link(order', c, i - 1)
  <2>1. CASE i = n + 1
    <3>1. Originals'[order'[c][i]][c] = Originals'[h][c]
      BY <1>2, <2>1
    <3>o. n \in 0..n
      BY <1>1
    <3>2. slot[c] = Link(order, c, n)
      BY DEF ChainInv
    <3>3. Link(order', c, n) = Link(order, c, n)
      BY ONLY <3>o, <1>5
    <3>4. i - 1 = n
      BY <1>1, <2>1
    <3> QED BY <1>o, <3>1, <3>2, <3>3, <3>4
  <2>2. CASE i \in 1..n
    <3>1. order'[c][i] = order[c][i] /\ order[c][i] # h /\ order[c][i] \in Hookers
      BY <1>2, <1>4, <2>2
    <3>2. Originals'[order[c][i]][c] = Originals[order[c][i]][c]
      BY <1>o, <3>1
    <3>3. Originals[order[c][i]][c] = Link(order, c, i - 1)
      BY <2>2 DEF ChainInv
    <3>4. Link(order', c, i - 1) = Link(order, c, i - 1)
      <4>1. i - 1 \in 0..n
        BY <1>1, <2>2
      <4> QED BY <1>5, <4>1
    <3> QED BY <3>1, <3>2, <3>3, <3>4
  <2> QED BY <1>1, <1>2, <2>1, <2>2
<1>9. \A i, j \in 1..Len(order'[c]) : order'[c][i] = order'[c][j] => i = j
  <2>1. \A i, j \in 1..n : order[c][i] = order[c][j] => i = j
    BY DEF ChainInv
  <2>2. \A i \in 1..Len(order'[c]) : i \in 1..n \/ i = n + 1
    BY <1>1, <1>2
  <2> QED BY <1>2, <1>4, <2>1, <2>2
<1>10. ASSUME NEW g \in Hookers, Originals'[g][c] # None
       PROVE  \E i \in 1..Len(order'[c]) : order'[c][i] = g
  <2>1. CASE g = h
    <3>1. n + 1 \in 1..Len(order'[c])
      BY <1>1, <1>2
    <3> QED BY <1>2, <2>1, <3>1
  <2>2. CASE g # h
    <3>1. PICK i \in 1..n : order[c][i] = g
      BY <1>10, <1>o, <2>2 DEF ChainInv
    <3>2. i \in 1..Len(order'[c])
      BY <1>1, <1>2
    <3> QED BY <1>2, <3>1, <3>2
  <2> QED BY <2>1, <2>2
<1>11. \A d \in Classes : saved'["us"][d] # None => \E i \in 1..Len(Order') : Order'[i] = d
  BY DEF ChainInv, Order
<1> QED BY <1>3, <1>6, <1>7, <1>8, <1>9, <1>10, <1>11 DEF ChainInv, Link

-----------------------------------------------------------------------------
(* Loading *)

\* The actions of the plugin's start, another plugin's hook, and the game's start.
Loading ==
  \/ Load \/ GameStarts
  \/ \E h \in Others, c \in Contested : OtherHooks(h, c)

LEMMA PatchStep ==
  ASSUME TypeOK, PhaseInv, ChainInv, PatchSlot
  PROVE  TypeOK' /\ PhaseInv' /\ ChainInv'
<1>1. /\ next \in 1..Len(Order) /\ Current \in Classes /\ Current' = Current
      /\ Order' = Order /\ next' = next /\ withSteps \in BOOLEAN
      /\ \A i, j \in 1..Len(Order) : Order[i] = Order[j] => i = j
  BY OrderFacts DEF TypeOK, PatchSlot, Order, Current
<1>2. saved["us"][Current] = None /\ replaced = None /\ replaced' = slot[Current]
  <2>1. Order[next] = Current
    BY DEF Order, Current
  <2> QED BY <1>1, <2>1 DEF TypeOK, PatchSlot, Order
<1>3. slot[Current] \in Functions /\ slot[Current] # None
  BY <1>1, FunctionFacts DEF TypeOK
<1>4. Originals["us"][Current] = None
  BY <1>1, <1>2, FunctionFacts DEF Originals
<1>5. /\ Originals'["us"][Current] = slot[Current]
      /\ \A g \in Hookers, d \in Classes :
           g # "us" \/ d # Current => Originals'[g][d] = Originals[g][d]
  <2>1. saved' = saved
    BY DEF PatchSlot
  <2>2. Originals = [h \in Hookers |-> [c \in Classes |-> saved[h][c]]]
    BY <1>2 DEF Originals
  <2>3. Originals' = [h \in Hookers |-> [c \in Classes |->
                        IF h = "us" /\ c = Current THEN slot[Current] ELSE saved[h][c]]]
    BY <1>1, <1>2, <1>3, <2>1 DEF Originals
  <2> QED BY <1>1, <2>2, <2>3, FunctionFacts
<1>6. ChainInv' /\ order' \in [Classes -> Seq(Hookers)] /\ slot' \in [Classes -> Functions]
  <2>1. \E c \in Classes : c = Current
    BY <1>1
  <2>2. PICK c \in Classes : c = Current
    BY <2>1
  <2>3. /\ slot' = [slot EXCEPT ![c] = Function("us", c)]
        /\ order' = [order EXCEPT ![c] = Append(@, "us")]
        /\ \A d \in Classes : saved'["us"][d] = saved["us"][d]
        /\ UNCHANGED withSteps
    BY <2>2 DEF PatchSlot
  <2>4. /\ "us" \in Hookers /\ Originals["us"][c] = None /\ Originals'["us"][c] = slot[c]
        /\ \A g \in Hookers, d \in Classes :
             g # "us" \/ d # c => Originals'[g][d] = Originals[g][d]
    BY <1>4, <1>5, <2>2, FunctionFacts
  <2> QED BY ONLY TypeOK, ChainInv, <2>3, <2>4, ChainExtends
<1>7. TypeOK'
  BY <1>1, <1>2, <1>3, <1>6 DEF TypeOK, PatchSlot, steps, game
<1>8. PhaseInv'
  BY <1>1 DEF PhaseInv, PatchSlot, steps, game, Order
<1> QED BY <1>6, <1>7, <1>8

LEMMA KeepStep ==
  ASSUME TypeOK, PhaseInv, ChainInv, KeepOriginal
  PROVE  TypeOK' /\ PhaseInv' /\ ChainInv'
<1>1. /\ next \in 1..Len(Order) /\ Len(Order) \in Nat /\ Order[next] = Current
      /\ Order' = Order /\ next' = next + 1 /\ withSteps \in BOOLEAN
      /\ \A i, j \in 1..Len(Order) : Order[i] = Order[j] => i = j
      /\ \A i \in 1..Len(Order) : Order[i] \in Classes
  BY OrderFacts DEF TypeOK, PhaseInv, KeepOriginal, Order, Current
<1>2. /\ replaced \in Functions /\ replaced # None /\ replaced' = None
      /\ saved' = [saved EXCEPT !["us"][Current] = replaced]
      /\ saved \in [Hookers -> [Classes -> Functions \cup {None}]]
      /\ Current \in Classes /\ "us" \in Hookers
  BY <1>1, FunctionFacts DEF TypeOK, KeepOriginal
<1>3. /\ saved' \in [Hookers -> [Classes -> Functions \cup {None}]]
      /\ saved'["us"][Current] = replaced
      /\ \A g \in Hookers, d \in Classes : g # "us" \/ d # Current => saved'[g][d] = saved[g][d]
  BY <1>2
<1>4. \A g \in Hookers, d \in Classes : Originals'[g][d] = Originals[g][d]
  BY <1>2, <1>3 DEF Originals
<1>5. order' = order
  BY DEF Link, KeepOriginal
<1>6. ChainInv'
  <2>1. slot' = slot /\ order' = order /\ order \in [Classes -> Seq(Hookers)]
    BY DEF KeepOriginal, TypeOK
  <2>2. \A c \in Classes : \A i \in 1..Len(order[c]) : order[c][i] \in Hookers
    BY <2>1
  <2>3. \A d \in Classes : saved'["us"][d] # None => \E i \in 1..Len(Order) : Order[i] = d
    BY <1>1, <1>2, <1>3 DEF ChainInv
  <2>4. \A c \in Classes : slot'[c] = Link(order', c, Len(order'[c]))
    BY <1>5, <2>1 DEF ChainInv
  <2>5. \A c \in Classes : \A i \in 1..Len(order[c]) : Originals[order[c][i]][c] = Link(order, c, i - 1)
    BY DEF ChainInv
  <2>6. \A c \in Classes : \A i \in 1..Len(order[c]) : Originals'[order[c][i]][c] = Link(order, c, i - 1)
    BY <1>4, <2>2, <2>5
  <2>7. /\ \A c \in Classes : \A i, j \in 1..Len(order[c]) : order[c][i] = order[c][j] => i = j
        /\ \A c \in Classes, h \in Hookers :
             Originals[h][c] # None => \E i \in 1..Len(order[c]) : order[c][i] = h
    BY DEF ChainInv
  <2>8. \A c \in Classes, h \in Hookers :
          Originals'[h][c] # None => \E i \in 1..Len(order[c]) : order[c][i] = h
    BY <1>4, <2>7
  <2> QED BY <1>1, <1>5, <2>1, <2>3, <2>4, <2>6, <2>7, <2>8 DEF ChainInv
<1>7. \A i \in 1..Len(Order) : saved'["us"][Order[i]] # None <=> i < next'
  <2> SUFFICES ASSUME NEW i \in 1..Len(Order)
               PROVE  saved'["us"][Order[i]] # None <=> i < next + 1
    BY <1>1
  <2>1. saved["us"][Order[i]] # None <=> i < next
    BY DEF TypeOK, Order
  <2>2. CASE i = next
    BY <1>1, <1>2, <1>3, <2>2
  <2>3. CASE i # next
    <3>1. Order[i] # Current /\ Order[i] \in Classes
      BY <1>1, <2>3
    <3> QED BY <1>1, <1>2, <1>3, <2>1, <2>3, <3>1
  <2> QED BY <2>2, <2>3
<1>8. TypeOK'
  BY <1>1, <1>2, <1>3, <1>7 DEF TypeOK, KeepOriginal, steps, game, Order
<1>9. PhaseInv'
  BY <1>1, <1>2 DEF PhaseInv, KeepOriginal, steps, game, Order
<1> QED BY <1>6, <1>8, <1>9

LEMMA OthersStep ==
  ASSUME TypeOK, PhaseInv, ChainInv, NEW h \in Others, NEW c \in Contested, OtherHooks(h, c)
  PROVE  TypeOK' /\ PhaseInv' /\ ChainInv'
<1>1. /\ h \in Hookers /\ h # "us" /\ c \in Classes /\ replaced = None
      /\ saved[h][c] = None /\ slot[c] \in Functions
      /\ saved' = [saved EXCEPT ![h][c] = slot[c]]
      /\ saved \in [Hookers -> [Classes -> Functions \cup {None}]]
      /\ UNCHANGED <<plugin, running, call, steps, game, dump>>
  BY ConstantsAssumption DEF OtherHooks, Hookers, Classes, PhaseInv, TypeOK
<1>2. /\ saved' \in [Hookers -> [Classes -> Functions \cup {None}]]
      /\ saved'[h][c] = slot[c]
      /\ \A g \in Hookers, d \in Classes : g # h \/ d # c => saved'[g][d] = saved[g][d]
      /\ saved'["us"] = saved["us"]
  BY <1>1, FunctionFacts
<1>3. /\ \A g \in Hookers, d \in Classes : Originals[g][d] = saved[g][d]
      /\ \A g \in Hookers, d \in Classes : Originals'[g][d] = saved'[g][d]
  BY <1>1 DEF Originals, plugin
<1>4. /\ slot' = [slot EXCEPT ![c] = Function(h, c)]
      /\ order' = [order EXCEPT ![c] = Append(@, h)]
      /\ \A d \in Classes : saved'["us"][d] = saved["us"][d]
      /\ UNCHANGED withSteps
  BY <1>1, <1>2 DEF OtherHooks, plugin
<1>5. /\ Originals[h][c] = None /\ Originals'[h][c] = slot[c]
      /\ \A g \in Hookers, d \in Classes : g # h \/ d # c => Originals'[g][d] = Originals[g][d]
  BY <1>1, <1>2, <1>3
<1>6. ChainInv' /\ order' \in [Classes -> Seq(Hookers)] /\ slot' \in [Classes -> Functions]
  BY ONLY TypeOK, ChainInv, <1>1, <1>4, <1>5, ChainExtends
<1>7. TypeOK'
  BY <1>1, <1>2, <1>6 DEF TypeOK, plugin, steps, game
<1>8. PhaseInv'
  BY <1>1 DEF PhaseInv, plugin, steps, game, Order
<1> QED BY <1>6, <1>7, <1>8

LEMMA LoadingStep ==
  ASSUME TypeOK, PhaseInv, ChainInv, Loading
  PROVE  TypeOK' /\ PhaseInv' /\ ChainInv'
<1> USE DEF table, steps, game
<1>1. ASSUME NEW ok \in BOOLEAN, SetupLog(ok) \/ Register(ok)
      PROVE  TypeOK' /\ PhaseInv' /\ ChainInv'
  <2>1. ChainInv'
    BY <1>1, ChainStable DEF SetupLog, Register
  <2>2. TypeOK'
    BY <1>1 DEF TypeOK, SetupLog, Register
  <2>3. PhaseInv'
    BY <1>1 DEF PhaseInv, SetupLog, Register, Order
  <2> QED BY <2>1, <2>2, <2>3
<1>2. CASE Loaded
  <2>1. ChainInv'
    BY <1>2, ChainStable DEF Loaded
  <2>2. TypeOK'
    BY <1>2 DEF TypeOK, Loaded
  <2>3. next = Len(Order) + 1
    BY <1>2, OrderFacts DEF TypeOK, Loaded, Order
  <2>4. PhaseInv'
    BY <1>2, <2>3 DEF PhaseInv, Loaded, Order
  <2> QED BY <2>1, <2>2, <2>4
<1>3. CASE GameStarts
  <2>1. ChainInv'
    BY <1>3, ChainStable DEF GameStarts, plugin
  <2>2. TypeOK'
    BY <1>3 DEF TypeOK, GameStarts, plugin
  <2>3. PhaseInv'
    BY <1>3 DEF PhaseInv, GameStarts, plugin, Order
  <2> QED BY <2>1, <2>2, <2>3
<1> QED BY <1>1, <1>2, <1>3, PatchStep, KeepStep, OthersStep DEF Loading, Load

-----------------------------------------------------------------------------
(* Calls *)

\* While the game runs our hooks are in exactly the chains of the hooked classes.
LEMMA UsHooks ==
  ASSUME TypeOK, PhaseInv, ChainInv, running, NEW c \in Classes
  PROVE  c \in Hooked <=> Among(c, Len(order[c]))
<1>1. /\ phase \in {"loaded", "refused"} /\ replaced = None /\ withSteps \in BOOLEAN
      /\ phase = "refused" => next = 1
      /\ phase = "loaded" => next = Len(Order) + 1
  BY DEF PhaseInv, TypeOK
<1>2. Originals["us"][c] = saved["us"][c]
  BY <1>1, FunctionFacts DEF Originals
<1>3. Among(c, Len(order[c])) <=> saved["us"][c] # None
  <2>1. CASE saved["us"][c] # None
    BY <1>2, <2>1, FunctionFacts DEF ChainInv, Among
  <2>2. ASSUME NEW i \in 1..Len(order[c]), order[c][i] = "us" PROVE saved["us"][c] # None
    <3>1. Originals["us"][c] = Link(order, c, i - 1)
      BY <2>2 DEF ChainInv
    <3>2. order[c] \in Seq(Hookers) /\ i - 1 \in 0..Len(order[c])
      BY DEF TypeOK
    <3> QED BY <1>2, <3>1, <3>2, LinkFacts, FunctionFacts
  <2> QED BY <2>1, <2>2 DEF Among
<1>4. saved["us"][c] # None <=> \E i \in 1..Len(Order) : Order[i] = c /\ i < next
  BY OursSaved
<1>5. c \in Hooked <=> phase = "loaded" /\ \E i \in 1..Len(Order) : Order[i] = c
  BY <1>1, OrderFacts DEF Hooked, Order
<1>6. Len(Order) \in Nat
  BY <1>1, OrderFacts DEF Order
<1> QED BY <1>1, <1>3, <1>4, <1>5, <1>6

\* Where a call stands: the function on top of its stack.
LEMMA TopFacts ==
  ASSUME TypeOK, NEW t \in Threads, call[t] # None, call[t].stack # << >>,
         NEW n \in Nat, Within(call[t], n), Len(call[t].stack) <= n + 1
  PROVE  LET c == call[t].class
             i == n + 1 - Len(call[t].stack) IN
         /\ c \in Classes /\ order[c] \in Seq(Hookers) /\ n \in 0..Len(order[c])
         /\ Len(order[c]) \in Nat /\ Len(call[t].stack) \in 1..(n + 1)
         /\ i \in 0..n /\ Top(t) = Link(order, c, i) /\ Top(t) \in Functions
         /\ i = 0 => Top(t).by = "game" /\ Top(t).of = Body(c)
         /\ i # 0 => Top(t).by = order[c][i] /\ Top(t).of = c /\ Top(t).by \in Hookers
                     /\ Top(t).by # "game"
<1> DEFINE c == call[t].class
           s == call[t].stack
           i == n + 1 - Len(s)
<1>1. c \in Classes /\ s \in Seq(Functions) /\ Len(s) \in Nat \ {0}
  BY DEF TypeOK, Calls
<1>2. order[c] \in Seq(Hookers) /\ Len(order[c]) \in Nat
  BY <1>1 DEF TypeOK
<1>3. /\ n \in 0..Len(order[c])
      /\ \A j \in 1..Len(s) : s[j] = Link(order, c, n + 1 - j)
  BY DEF Within
<1>a. Len(s) <= n + 1 /\ Top(t) = s[Len(s)]
  BY DEF Top
<1> HIDE DEF s
<1>4. i \in 0..n /\ i \in 0..Len(order[c]) /\ Len(s) \in 1..(n + 1)
  BY ONLY n \in Nat, <1>1, <1>2, <1>3, <1>a
<1>5. Top(t) = Link(order, c, i)
  <2>1. Len(s) \in 1..Len(s)
    BY ONLY <1>1
  <2> QED BY <2>1, <1>3, <1>a
<1>6. /\ Link(order, c, i) \in Functions
      /\ i = 0 => Link(order, c, i).by = "game" /\ Link(order, c, i).of = Body(c)
      /\ i # 0 => Link(order, c, i).by = order[c][i] /\ Link(order, c, i).of = c
                  /\ order[c][i] \in Hookers /\ Link(order, c, i).by # "game"
  <2> HIDE DEF c, i
  <2> QED BY <1>1, <1>2, <1>4, LinkFacts
<1> QED BY <1>1, <1>2, <1>3, <1>4, <1>5, <1>6 DEF s

\* The steps of a call leave the chains and the other calls alone.
LEMMA CallUpdate ==
  ASSUME CallInv, call \in [Threads -> Calls \cup {None}], NEW t \in Threads, NEW k,
         call' = [call EXCEPT ![t] = k],
         UNCHANGED <<phase, withSteps, order>>,
         k # None => \E n \in Nat : Within(k, n)
  PROVE  CallInv'
<1>1. ASSUME NEW u \in Threads, call'[u] # None PROVE \E n \in Nat : Within(call'[u], n)
  <2>1. CASE u = t
    BY <1>1, <2>1
  <2>2. CASE u # t
    BY <1>1, <2>2 DEF CallInv
  <2> QED BY <2>1, <2>2
<1>2. ASSUME NEW j, NEW n \in Nat PROVE Within(j, n)' <=> Within(j, n)
  BY DEF Within, Among, Hooked, Link
<1>3. ASSUME NEW u \in Threads, call'[u] # None PROVE (\E n \in Nat : Within(call[u], n))'
  <2>1. PICK j : j = call'[u]
    OBVIOUS
  <2>2. PICK n \in Nat : Within(j, n)
    BY <1>1, <1>3, <2>1
  <2>3. Within(j, n)'
    BY <1>2, <2>2
  <2>4. Within(call[u], n)'
    BY <2>1, <2>3
  <2> QED BY <2>4
<1> QED BY <1>3 DEF CallInv

\* Another plugin's hook goes on top of what a call has already gone through.
LEMMA CallsUnderHook ==
  ASSUME TypeOK, CallInv, NEW h \in Others, NEW c \in Contested, OtherHooks(h, c)
  PROVE  CallInv'
<1>1. /\ c \in Classes /\ h \in Hookers
      /\ order \in [Classes -> Seq(Hookers)]
      /\ order' = [order EXCEPT ![c] = Append(@, h)]
      /\ call' = call /\ phase' = phase /\ withSteps' = withSteps
  BY ConstantsAssumption DEF TypeOK, OtherHooks, plugin, Hookers, Classes
<1>2. ASSUME NEW d \in Classes
      PROVE  /\ Len(order[d]) \in Nat /\ Len(order'[d]) \in Nat
             /\ Len(order'[d]) >= Len(order[d])
             /\ \A i \in 1..Len(order[d]) : order'[d][i] = order[d][i]
  <2>1. order[d] \in Seq(Hookers) /\ order[c] \in Seq(Hookers)
    BY <1>1
  <2>2. CASE d = c
    <3>1. order'[d] = Append(order[d], h)
      BY <1>1, <2>2
    <3> QED BY <1>1, <2>1, <3>1, Appended
  <2>3. CASE d # c
    BY <1>1, <2>1, <2>3
  <2> QED BY <2>2, <2>3
<1>3. ASSUME NEW k \in Calls, NEW n \in Nat, Within(k, n) PROVE Within(k, n)'
  <2> DEFINE d == k.class
  <2>1. d \in Classes /\ k.stack \in Seq(Functions) /\ Len(k.stack) \in Nat
    BY DEF Calls
  <2>2. n \in 0..Len(order[d]) /\ n \in 0..Len(order'[d])
    <3>1. n \in 0..Len(order[d])
      BY ONLY Within(k, n) DEF Within
    <3> QED BY ONLY <1>2, <2>1, <3>1
  <2>3. \A i \in 0..n : Link(order', d, i) = Link(order, d, i)
    BY <1>2, <2>1, <2>2 DEF Link
  <2>4. ASSUME NEW m \in Int, m <= n PROVE Among(d, m)' <=> Among(d, m)
    <3>1. \A i \in 1..m : i \in 1..Len(order[d])
      BY ONLY n \in Nat, <1>2, <2>1, <2>2, <2>4
    <3>2. \A i \in 1..m : order'[d][i] = order[d][i]
      BY <1>2, <2>1, <3>1
    <3> QED BY <3>2 DEF Among
  <2>5. Hooked' = Hooked
    BY <1>1 DEF Hooked
  <2>6. ASSUME NEW j \in 1..Len(k.stack) PROVE k.stack[j] = Link(order', d, n + 1 - j)
    <3>1. k.stack[j] = Link(order, d, n + 1 - j)
      BY ONLY Within(k, n), <2>6 DEF Within
    <3>2. Len(k.stack) <= n + 1
      BY ONLY Within(k, n), k \in Calls, <2>1 DEF Within, Calls
    <3>3. n + 1 - j \in 0..n
      BY ONLY n \in Nat, <2>1, <2>6, <3>2
    <3> QED BY <2>3, <3>1, <3>3
  <2>7. n - Len(k.stack) \in Int /\ n - Len(k.stack) <= n
    BY <2>1
  <2>8. Among(d, n)' <=> Among(d, n)
    BY <2>4
  <2>9. Among(d, n - Len(k.stack))' <=> Among(d, n - Len(k.stack))
    BY <2>4, <2>7
  <2>10. \A j \in 1..Len(k.stack) : k.stack[j] = Link(order', k.class, n + 1 - j)
    BY ONLY <2>6
  <2> QED BY ONLY Within(k, n), <2>2, <2>5, <2>8, <2>9, <2>10 DEF Within
<1>4. ASSUME NEW u \in Threads, call'[u] # None PROVE (\E n \in Nat : Within(call[u], n))'
  <2>1. call[u] \in Calls /\ call[u] # None
    BY <1>1, <1>4 DEF TypeOK
  <2>2. PICK k \in Calls : k = call[u]
    BY <2>1
  <2>3. PICK n \in Nat : Within(k, n)
    BY <2>1, <2>2 DEF CallInv
  <2>4. Within(k, n)'
    BY <1>3, <2>3
  <2>5. Within(call[u], n)'
    BY <1>1, <2>2, <2>4
  <2> QED BY <2>5
<1> QED BY <1>4 DEF CallInv

LEMMA LoadingCalls ==
  ASSUME TypeOK, PhaseInv, CallInv, LogInv, Loading
  PROVE  CallInv' /\ LogInv'
<1> USE DEF table, steps, game, plugin
<1>1. UNCHANGED <<call, steps, game>> /\ call \in [Threads -> Calls \cup {None}]
  BY DEF Loading, Load, SetupLog, Register, PatchSlot, KeepOriginal, Loaded, GameStarts, OtherHooks, TypeOK
<1>2. CallInv'
  <2>1. CASE \E h \in Others, c \in Contested : OtherHooks(h, c)
    BY <2>1, CallsUnderHook
  <2>2. CASE Load \/ GameStarts
    <3>1. ~running
      BY <2>2 DEF PhaseInv, Load, SetupLog, Register, PatchSlot, KeepOriginal, Loaded, GameStarts
    <3>2. \A u \in Threads : call'[u] = None
      BY <1>1, <3>1 DEF PhaseInv
    <3> QED BY <3>2 DEF CallInv
  <2> QED BY <2>1, <2>2 DEF Loading
<1>3. phase' = "loaded" => (phase = "loaded" \/ stepped = {}) /\ withSteps' = withSteps
  BY DEF PhaseInv, Loading, Load, SetupLog, Register, PatchSlot, KeepOriginal, Loaded, GameStarts, OtherHooks
<1>4. LogInv'
  <2>1. \A c \in Contexts : Unseen(c)' <=> Unseen(c)
    BY <1>1 DEF Unseen
  <2>2. stepped \subseteq Contexts
    BY DEF TypeOK
  <2> QED BY <1>1, <1>3, <2>1, <2>2 DEF LogInv, OnlyStepsLogged
<1> QED BY <1>2, <1>4

LEMMA CallStep ==
  ASSUME IInv, NEW t \in Threads, NEW o \in Objects, Call(t, o)
  PROVE  IInv'
<1> USE DEF table, steps, game, plugin
<1> DEFINE c == ClassOf(o)
           k == [object |-> o, class |-> c, stack |-> <<slot[c]>>,
                 up |-> FALSE, games |-> << >>, seen |-> << >>]
<1>1. TypeOK /\ PhaseInv /\ ChainInv /\ CallInv /\ LogInv
  BY DEF IInv
<1>2. /\ running /\ call[t] = None /\ call' = [call EXCEPT ![t] = k]
      /\ \A u \in Threads : call[u] # None => call[u].object # o
      /\ UNCHANGED <<plugin, table, steps, game, dump>>
      /\ call \in [Threads -> Calls \cup {None}]
  BY <1>1 DEF Call, Playing, TypeOK
<1>3. c \in Classes /\ (IF o \in Contexts THEN c \in StepClasses ELSE c = o)
  BY <1>1, FunctionFacts DEF ClassOf, TypeOK, Objects
<1>4. slot[c] \in Functions /\ <<slot[c]>> \in Seq(Functions) /\ order[c] \in Seq(Hookers)
  BY <1>1, <1>3 DEF TypeOK
<1>5. k \in Calls
  BY <1>3, <1>4 DEF Calls
<1>6. Within(k, Len(order[c]))
  <2>1. /\ k.class = c /\ k.stack = <<slot[c]>> /\ k.up = FALSE
        /\ k.games = << >> /\ k.seen = << >>
    OBVIOUS
  <2>2. slot[c] = Link(order, c, Len(order[c]))
    BY <1>1, <1>3 DEF ChainInv
  <2>3. c \in Hooked <=> Among(c, Len(order[c]))
    BY <1>1, <1>2, <1>3, UsHooks
  <2>4. Len(order[c]) \in Nat
    BY <1>4
  <2> HIDE DEF k, c
  <2>5. \A j \in 1..Len(k.stack) : k.stack[j] = Link(order, c, Len(order[c]) + 1 - j)
    BY <2>1, <2>2, <2>4
  <2> QED BY <2>1, <2>3, <2>4, <2>5 DEF Within
<1> HIDE DEF k, c
<1>7. CallInv'
  <2>1. Len(order[c]) \in Nat
    BY <1>4
  <2> QED BY <1>1, <1>2, <1>6, <2>1, CallUpdate
<1>8. TypeOK' /\ PhaseInv' /\ ChainInv'
  <2>1. TypeOK'
    BY <1>1, <1>2, <1>5 DEF TypeOK
  <2>2. PhaseInv'
    BY <1>1, <1>2 DEF PhaseInv, Order
  <2>3. ChainInv'
    BY <1>1, <1>2, ChainStable
  <2> QED BY <2>1, <2>2, <2>3
<1>9. LogInv'
  <2>1. /\ \A u \in Threads : u # t => call'[u] = call[u]
        /\ call'[t] = k /\ k.object = o /\ k.class = c /\ k.up = FALSE
    BY <1>2 DEF k
  <2>2. \A x \in Contexts : Unseen(x) => Unseen(x)'
    BY <1>2, <2>1 DEF Unseen
  <2>3. /\ \A u, v \in Threads : call'[u] # None /\ call'[v] # None
             /\ call'[u].object = call'[v].object => u = v
        /\ \A u \in Threads : call'[u] # None =>
             IF call'[u].object \in Contexts THEN call'[u].class \in StepClasses
             ELSE call'[u].class = call'[u].object
    BY <1>1, <1>2, <1>3, <2>1 DEF LogInv
  <2>4. stepped \subseteq Contexts
    BY <1>1 DEF TypeOK
  <2> QED BY <1>1, <1>2, <2>2, <2>3, <2>4 DEF LogInv, OnlyStepsLogged
<1> QED BY <1>7, <1>8, <1>9 DEF IInv

\* The hook called on the way down keeps the link below its own.
LEMMA DescendStep ==
  ASSUME IInv, NEW t \in Threads, Descend(t)
  PROVE  IInv'
<1> USE DEF table, steps, game, plugin
<1>1. TypeOK /\ PhaseInv /\ ChainInv /\ CallInv /\ LogInv
  BY DEF IInv
<1> DEFINE c == call[t].class
           s == call[t].stack
           original == saved[Top(t).by][Top(t).of]
           k == [call[t] EXCEPT !.stack = Append(s, original)]
<1>2. /\ running /\ call[t] # None /\ ~call[t].up /\ Top(t).by # "game"
      /\ call[t] \in Calls /\ call \in [Threads -> Calls \cup {None}]
      /\ s \in Seq(Functions) /\ c \in Classes
  BY <1>1 DEF Descend, Playing, TypeOK, Calls
<1>3. PICK n \in Nat : Within(call[t], n)
  BY <1>1, <1>2 DEF CallInv
<1>4. /\ Len(s) \in 1..(n + 1) /\ s # << >> /\ Len(s) <= n + 1
      /\ call[t].games = << >> /\ call[t].seen = << >>
      /\ n \in 0..Len(order[c]) /\ (c \in Hooked <=> Among(c, n))
      /\ \A j \in 1..Len(s) : s[j] = Link(order, c, n + 1 - j)
  BY <1>2, <1>3 DEF Within
<1>5. /\ n + 1 - Len(s) \in 1..n /\ Top(t).by = order[c][n + 1 - Len(s)] /\ Top(t).of = c
      /\ Top(t).by \in Hookers /\ order[c] \in Seq(Hookers) /\ Len(order[c]) \in Nat
  <2>1. PICK i : i = n + 1 - Len(s)
    OBVIOUS
  <2>2. /\ order[c] \in Seq(Hookers) /\ Len(order[c]) \in Nat /\ i \in 0..n
        /\ i = 0 => Top(t).by = "game"
        /\ i # 0 => Top(t).by = order[c][i] /\ Top(t).of = c /\ Top(t).by \in Hookers
    BY ONLY <1>1, <1>2, <1>3, <1>4, <2>1, TopFacts
  <2>3. i # 0 /\ i \in 1..n
    BY ONLY n \in Nat, <1>2, <2>2
  <2>4. Top(t).by = order[c][i] /\ Top(t).of = c /\ Top(t).by \in Hookers
    BY ONLY <2>2, <2>3
  <2> QED BY <2>1, <2>2, <2>3, <2>4, Zenon
<1>6. original = Link(order, c, n - Len(s)) /\ original \in Functions
  <2> HIDE DEF s, c, original
  <2>0. PICK l \in 1..(n + 1) : l = Len(s)
    BY <1>4, Zenon
  <2>1. n + 1 - Len(s) \in 1..Len(order[c]) /\ n + 1 - Len(s) - 1 = n - Len(s)
        /\ n - Len(s) \in 0..Len(order[c])
    BY ONLY n \in Nat, <1>4, <1>5, <2>0
  <2>2. Originals[order[c][n + 1 - Len(s)]][c] = Link(order, c, n - Len(s))
    <3>1. \A i \in 1..Len(order[c]) : Originals[order[c][i]][c] = Link(order, c, i - 1)
      BY <1>1, <1>2 DEF ChainInv
    <3>2. Originals[order[c][n + 1 - Len(s)]][c] = Link(order, c, n + 1 - Len(s) - 1)
      BY ONLY <2>1, <3>1
    <3> QED BY ONLY <2>1, <3>2
  <2>3. Originals[Top(t).by][c] = saved[Top(t).by][c]
    BY <1>1, <1>2, <1>5, FunctionFacts DEF Originals, PhaseInv
  <2>4. Link(order, c, n - Len(s)) \in Functions
    BY <1>2, <1>5, <2>1, LinkFacts
  <2> QED BY <1>5, <2>2, <2>3, <2>4 DEF original
<1>7. /\ original # None /\ phase' = phase
      /\ call' = [call EXCEPT ![t].stack = Append(@, original)]
      /\ UNCHANGED <<withSteps, next, replaced, table, steps, game, dump>>
  BY <1>6, FunctionFacts DEF Descend
<1>8. /\ k \in Calls /\ call' = [call EXCEPT ![t] = k]
      /\ k.object = call[t].object /\ k.class = c /\ k.up = FALSE
      /\ k.games = << >> /\ k.seen = << >> /\ k.stack = Append(s, original)
  <2>1. Append(s, original) \in Seq(Functions)
    BY <1>2, <1>6
  <2> QED BY <1>2, <1>4, <1>7, <2>1 DEF Calls
<1> HIDE DEF k
<1>9. Within(k, n)
  <2>1. /\ Len(k.stack) = Len(s) + 1 /\ k.stack[Len(s) + 1] = original
        /\ \A j \in 1..Len(s) : k.stack[j] = s[j]
    BY <1>2, <1>6, <1>8, Appended
  <2>2. Len(k.stack) \in 1..(n + 1)
    BY <1>4, <1>5, <2>1
  <2>3. ASSUME NEW j \in 1..Len(k.stack) PROVE k.stack[j] = Link(order, c, n + 1 - j)
    <3>1. CASE j = Len(s) + 1
      <4>1. n + 1 - j = n - Len(s)
        BY <1>4, <3>1
      <4> QED BY <1>6, <2>1, <3>1, <4>1
    <3>2. CASE j \in 1..Len(s)
      BY <1>4, <2>1, <3>2, Zenon
    <3>3. PICK l \in 1..(n + 1) : l = Len(s)
      BY <1>4, Zenon
    <3>4. Len(k.stack) = l + 1
      BY <2>1, <3>3, Zenon
    <3>5. j \in 1..(l + 1)
      BY <3>4, Zenon
    <3>6. j = l + 1 \/ j \in 1..l
      BY ONLY n \in Nat, l \in 1..(n + 1), <3>5
    <3> QED BY <3>1, <3>2, <3>3, <3>6, Zenon
  <2> HIDE DEF c, s, original
  <2> QED BY <1>4, <1>8, <2>2, <2>3 DEF Within
<1>10. CallInv'
  BY <1>1, <1>2, <1>7, <1>8, <1>9, CallUpdate
<1>11. TypeOK' /\ PhaseInv' /\ ChainInv'
  <2>1. TypeOK'
    BY <1>1, <1>2, <1>7, <1>8 DEF TypeOK
  <2>2. PhaseInv'
    BY <1>1, <1>2, <1>7, <1>8 DEF PhaseInv, Order
  <2>3. ChainInv'
    BY <1>1, <1>7, ChainStable
  <2> QED BY <2>1, <2>2, <2>3
<1>12. LogInv'
  <2>1. /\ \A u \in Threads : u # t => call'[u] = call[u]
        /\ call'[t] = k
    BY <1>2, <1>8
  <2>2. \A x \in Contexts : Unseen(x) => Unseen(x)'
    BY <1>2, <2>1 DEF Unseen
  <2>3. /\ \A u, v \in Threads : call'[u] # None /\ call'[v] # None
             /\ call'[u].object = call'[v].object => u = v
        /\ \A u \in Threads : call'[u] # None =>
             IF call'[u].object \in Contexts THEN call'[u].class \in StepClasses
             ELSE call'[u].class = call'[u].object
    BY <1>1, <1>2, <1>8, <2>1 DEF LogInv
  <2>4. stepped \subseteq Contexts
    BY <1>1 DEF TypeOK
  <2> QED BY <1>1, <1>7, <2>2, <2>3, <2>4 DEF LogInv, OnlyStepsLogged
<1> QED BY <1>10, <1>11, <1>12 DEF IInv

\* The game's own function is the bottom of the chain: all hooks remain above.
LEMMA RunStep ==
  ASSUME IInv, NEW t \in Threads, Run(t)
  PROVE  IInv'
<1> USE DEF table, steps, plugin
<1>1. TypeOK /\ PhaseInv /\ ChainInv /\ CallInv /\ LogInv
  BY DEF IInv
<1> DEFINE c == call[t].class
           s == call[t].stack
           o == call[t].object
           k == [call[t] EXCEPT !.stack = Rest(t), !.up = TRUE,
                                !.games = Append(@, Top(t).of)]
<1>2. /\ running /\ call[t] # None /\ ~call[t].up /\ Top(t).by = "game"
      /\ call[t] \in Calls /\ call \in [Threads -> Calls \cup {None}]
      /\ s \in Seq(Functions) /\ c \in Classes /\ o \in Objects
      /\ UNCHANGED <<plugin, table, steps, dump>>
  BY <1>1 DEF Run, Playing, TypeOK, Calls
<1>3. PICK n \in Nat : Within(call[t], n)
  BY <1>1, <1>2 DEF CallInv
<1>4. /\ Len(s) \in 1..(n + 1) /\ s # << >> /\ Len(s) <= n + 1
      /\ call[t].games = << >> /\ call[t].seen = << >>
      /\ n \in 0..Len(order[c]) /\ (c \in Hooked <=> Among(c, n))
      /\ \A j \in 1..Len(s) : s[j] = Link(order, c, n + 1 - j)
  BY <1>2, <1>3 DEF Within
<1>5. Len(s) = n + 1 /\ Top(t).of = Body(c)
  <2>1. PICK i : i = n + 1 - Len(s)
    OBVIOUS
  <2>2. /\ i \in 0..n
        /\ i = 0 => Top(t).of = Body(c)
        /\ i # 0 => Top(t).by # "game"
    BY ONLY <1>1, <1>2, <1>3, <1>4, <2>1, TopFacts
  <2>3. i = 0
    BY ONLY <1>2, <2>2
  <2>4. PICK l \in 1..(n + 1) : l = Len(s)
    BY <1>4, Zenon
  <2> QED BY ONLY n \in Nat, <2>1, <2>2, <2>3, <2>4
<1>6. /\ Rest(t) \in Seq(Functions) /\ Len(Rest(t)) = n
      /\ \A j \in 1..n : Rest(t)[j] = s[j]
  <2>1. /\ Rest(t) \in Seq(Functions) /\ Len(Rest(t)) = Len(s) - 1
        /\ \A j \in 1..(Len(s) - 1) : Rest(t)[j] = s[j]
    BY <1>2, <1>4, Popped DEF Rest
  <2>2. Len(s) - 1 = n
    BY ONLY n \in Nat, <1>5
  <2> QED BY <2>1, <2>2
<1>7. /\ k \in Calls /\ call' = [call EXCEPT ![t] = k]
      /\ k.object = o /\ k.class = c /\ k.up = TRUE
      /\ k.games = <<Body(c)>> /\ k.seen = << >> /\ k.stack = Rest(t)
  <2>1. call[t].games = << >> /\ Append(call[t].games, Top(t).of) = <<Body(c)>>
    BY <1>4, <1>5
  <2>2. Body(c) \in Classes \cup {"bhkCharacterState"}
        /\ <<Body(c)>> \in Seq(Classes \cup {"bhkCharacterState"})
    BY <1>2, FunctionFacts
  <2>3. call' = [call EXCEPT ![t].stack = Rest(t), ![t].up = TRUE,
                             ![t].games = Append(@, Top(t).of)]
    BY DEF Run
  <2> QED BY <1>2, <1>4, <1>6, <2>1, <2>2, <2>3 DEF Calls
<1> HIDE DEF k
<1>8. Within(k, n)
  <2>1. Len(k.stack) = n /\ n - Len(k.stack) = 0 /\ Len(k.stack) <= n
    BY <1>6, <1>7
  <2>2. ASSUME NEW j \in 1..Len(k.stack) PROVE k.stack[j] = Link(order, c, n + 1 - j)
    <3>1. j \in 1..n /\ j \in 1..Len(s)
      BY ONLY n \in Nat, <1>5, <2>1, <2>2
    <3> QED BY ONLY <1>4, <1>6, <1>7, <3>1
  <2>3. ~Among(c, 0)
    BY DEF Among
  <2> HIDE DEF c, s
  <2> QED BY <1>4, <1>7, <2>1, <2>2, <2>3 DEF Within
<1>9. CallInv'
  BY <1>1, <1>2, <1>7, <1>8, CallUpdate
<1>10. /\ state' \in [Contexts -> StepClasses] /\ stepped' \subseteq Contexts
       /\ saveList' \in SaveLists
       /\ stepped' = IF o \in Contexts THEN stepped \cup {o} ELSE stepped
       /\ \A x \in Contexts : x # o => state'[x] = state[x]
  BY <1>1 DEF Run, TypeOK
<1>11. TypeOK' /\ PhaseInv' /\ ChainInv'
  <2>1. TypeOK'
    BY <1>1, <1>2, <1>7, <1>10 DEF TypeOK
  <2>2. PhaseInv'
    BY <1>1, <1>2, <1>7 DEF PhaseInv, Order
  <2>3. ChainInv'
    BY <1>1, <1>2, ChainStable
  <2> QED BY <2>1, <2>2, <2>3
<1>12. LogInv'
  <2>1. /\ \A u \in Threads : u # t => call'[u] = call[u]
        /\ call'[t] = k /\ k # None
    BY <1>2, <1>7, NoneAssumption
  <2>2. \A x \in Contexts : Unseen(x) => Unseen(x)'
    BY <1>2, <2>1 DEF Unseen
  <2>3. \A x : x = o => Unseen(x)'
    BY <1>7, <2>1 DEF Unseen
  <2>4. /\ \A u, v \in Threads : call'[u] # None /\ call'[v] # None
             /\ call'[u].object = call'[v].object => u = v
        /\ \A u \in Threads : call'[u] # None =>
             IF call'[u].object \in Contexts THEN call'[u].class \in StepClasses
             ELSE call'[u].class = call'[u].object
    BY <1>1, <1>2, <1>7, <2>1 DEF LogInv
  <2>5. stepped \subseteq Contexts
    BY <1>1 DEF TypeOK
  <2>6. phase' = "loaded" /\ withSteps' =>
          \A x \in stepped' : Unseen(x)' \/ lastState'[x] = state'[x]
    <3>1. ASSUME phase = "loaded", withSteps, NEW x \in stepped'
          PROVE  Unseen(x)' \/ lastState'[x] = state'[x]
      <4>1. CASE x = o
        BY <2>3, <4>1
      <4>2. CASE x # o
        BY <1>1, <1>2, <1>10, <2>2, <2>5, <3>1, <4>2 DEF LogInv
      <4> QED BY <4>1, <4>2
    <3> QED BY <1>2, <3>1
  <2> QED BY <1>1, <1>2, <2>4, <2>6 DEF LogInv, OnlyStepsLogged
<1> QED BY <1>9, <1>11, <1>12 DEF IInv

LEMMA ReturnStep ==
  ASSUME IInv, NEW t \in Threads, Return(t)
  PROVE  IInv'
<1> USE DEF table, steps, game, plugin
<1>1. TypeOK /\ PhaseInv /\ ChainInv /\ CallInv /\ LogInv
  BY DEF IInv
<1>2. /\ running /\ call[t] # None /\ call[t].up /\ call[t].stack = << >>
      /\ call' = [call EXCEPT ![t] = None]
      /\ call[t] \in Calls /\ call \in [Threads -> Calls \cup {None}]
      /\ UNCHANGED <<plugin, table, steps, game, dump>>
  BY <1>1 DEF Return, Playing, TypeOK
<1>3. CallInv'
  BY <1>1, <1>2, CallUpdate
<1>4. TypeOK' /\ PhaseInv' /\ ChainInv'
  <2>1. TypeOK'
    BY <1>1, <1>2 DEF TypeOK
  <2>2. PhaseInv'
    BY <1>1, <1>2 DEF PhaseInv, Order
  <2>3. ChainInv'
    BY <1>1, <1>2, ChainStable
  <2> QED BY <2>1, <2>2, <2>3
<1>5. phase = "loaded" /\ withSteps /\ call[t].object \in Contexts => call[t].seen # << >>
  <2> SUFFICES ASSUME phase = "loaded", withSteps, call[t].object \in Contexts
               PROVE  call[t].seen # << >>
    OBVIOUS
  <2> DEFINE c == call[t].class
  <2>1. PICK n \in Nat : Within(call[t], n)
    BY <1>1, <1>2 DEF CallInv
  <2>2. c \in StepClasses /\ c \in Hooked
    BY <1>1, <1>2 DEF LogInv, Hooked
  <2>3. Len(call[t].stack) = 0 /\ n - 0 = n
    BY <1>2
  <2>4. call[t].seen = <<c>>
    BY <1>2, <2>1, <2>2, <2>3 DEF Within
  <2> QED BY <2>4
<1>6. LogInv'
  <2>1. /\ \A u \in Threads : u # t => call'[u] = call[u]
        /\ call'[t] = None
    BY <1>2
  <2>2. phase = "loaded" /\ withSteps => \A x \in Contexts : Unseen(x) => Unseen(x)'
    BY <1>2, <1>5, <2>1 DEF Unseen
  <2>3. /\ \A u, v \in Threads : call'[u] # None /\ call'[v] # None
             /\ call'[u].object = call'[v].object => u = v
        /\ \A u \in Threads : call'[u] # None =>
             IF call'[u].object \in Contexts THEN call'[u].class \in StepClasses
             ELSE call'[u].class = call'[u].object
    BY <1>1, <1>2, <2>1 DEF LogInv
  <2>4. stepped \subseteq Contexts
    BY <1>1 DEF TypeOK
  <2> QED BY <1>1, <1>2, <2>2, <2>3, <2>4 DEF LogInv, OnlyStepsLogged
<1> QED BY <1>3, <1>4, <1>6 DEF IInv

LEMMA ChangeElsewhereStep ==
  ASSUME IInv, NEW c \in Contexts, NEW s \in StepClasses, ChangeElsewhere(c, s)
  PROVE  IInv'
<1> USE DEF table, steps, plugin
<1>1. TypeOK /\ PhaseInv /\ ChainInv /\ CallInv /\ LogInv
  BY DEF IInv
<1>2. /\ state' = [state EXCEPT ![c] = s] /\ stepped' = stepped \ {c}
      /\ UNCHANGED <<plugin, table, call, steps, saveList, dump>>
  BY DEF ChangeElsewhere
<1>3. TypeOK'
  BY <1>1, <1>2 DEF TypeOK
<1>4. PhaseInv'
  BY <1>1, <1>2 DEF PhaseInv, Order
<1>5. ChainInv'
  BY <1>1, <1>2, ChainStable
<1>6. CallInv'
  <2>1. ASSUME NEW j, NEW n \in Nat PROVE Within(j, n)' <=> Within(j, n)
    BY <1>2 DEF Within, Among, Hooked, Link
  <2>2. ASSUME NEW u \in Threads, call'[u] # None PROVE (\E n \in Nat : Within(call[u], n))'
    <3>1. PICK j : j = call[u]
      OBVIOUS
    <3>2. PICK n \in Nat : Within(j, n)
      BY <1>1, <1>2, <2>2, <3>1 DEF CallInv
    <3>3. Within(j, n)'
      BY <2>1, <3>2
    <3>4. Within(call[u], n)'
      BY <1>2, <3>1, <3>3
    <3> QED BY <3>4
  <2> QED BY <2>2 DEF CallInv
<1>7. LogInv'
  <2>1. \A x \in Contexts : Unseen(x)' <=> Unseen(x)
    BY <1>2 DEF Unseen
  <2>2. stepped \subseteq Contexts /\ state \in [Contexts -> StepClasses]
    BY <1>1 DEF TypeOK
  <2> QED BY <1>1, <1>2, <2>1, <2>2 DEF LogInv, OnlyStepsLogged
<1> QED BY <1>3, <1>4, <1>5, <1>6, <1>7 DEF IInv

\* A hook returns; ours observes, and is the only one of ours in the chain.
LEMMA AscendStep ==
  ASSUME IInv, NEW t \in Threads, Ascend(t)
  PROVE  IInv'
<1> USE DEF table, game, plugin
<1>1. TypeOK /\ PhaseInv /\ ChainInv /\ CallInv /\ LogInv
  BY DEF IInv
<1> DEFINE c == call[t].class
           s == call[t].stack
           ours == Top(t).by = "us"
           k == [call[t] EXCEPT !.stack = Rest(t),
                                !.seen = IF ours THEN Append(@, Top(t).of) ELSE @]
<1>2. /\ running /\ call[t] # None /\ call[t].up /\ s # << >>
      /\ call[t] \in Calls /\ call \in [Threads -> Calls \cup {None}]
      /\ s \in Seq(Functions) /\ c \in Classes
      /\ UNCHANGED <<plugin, table, game>>
  BY <1>1 DEF Ascend, Playing, TypeOK, Calls
<1>3. PICK n \in Nat : Within(call[t], n)
  BY <1>1, <1>2 DEF CallInv
<1>4. /\ Len(s) <= n /\ call[t].games = <<Body(c)>>
      /\ call[t].seen = (IF Among(c, n - Len(s)) THEN <<c>> ELSE << >>)
      /\ n \in 0..Len(order[c]) /\ (c \in Hooked <=> Among(c, n))
      /\ \A j \in 1..Len(s) : s[j] = Link(order, c, n + 1 - j)
  BY <1>2, <1>3 DEF Within
<1>5. Len(s) \in 1..n /\ Len(s) \in Nat \ {0}
  <2>1. Len(s) \in Nat \ {0}
    BY <1>2
  <2> QED BY ONLY n \in Nat, <1>4, <2>1
<1>6. PICK i : i = n + 1 - Len(s)
  OBVIOUS
<1>7. i \in 1..n /\ i - 1 = n - Len(s)
  BY ONLY n \in Nat, <1>5, <1>6
<1>8. /\ order[c] \in Seq(Hookers) /\ Len(order[c]) \in Nat
      /\ Top(t).by = order[c][i] /\ Top(t).of = c
  <2>1. Len(s) <= n + 1 /\ i # 0
    BY ONLY n \in Nat, <1>5, <1>7
  <2> QED BY ONLY <1>1, <1>2, <1>3, <1>6, <2>1, TopFacts
<1>9. Among(c, i) <=> ours \/ Among(c, i - 1)
  <2>1. \A m \in 1..i : m \in 1..(i - 1) \/ m = i
    BY ONLY n \in Nat, <1>7
  <2>2. i \in 1..i /\ \A m \in 1..(i - 1) : m \in 1..i
    BY ONLY n \in Nat, <1>7
  <2> QED BY <1>8, <2>1, <2>2 DEF Among
<1>10. ours => ~Among(c, i - 1) /\ call[t].seen = << >>
  <2>1. ASSUME NEW m \in 1..(i - 1), order[c][m] = "us", ours PROVE FALSE
    <3>1. m \in 1..Len(order[c]) /\ i \in 1..Len(order[c]) /\ m # i
      BY ONLY n \in Nat, <1>4, <1>7, <1>8, <2>1
    <3>2. \A a, b \in 1..Len(order[c]) : order[c][a] = order[c][b] => a = b
      BY <1>1, <1>2 DEF ChainInv
    <3> QED BY <1>8, <2>1, <3>1, <3>2
  <2>2. ours => ~Among(c, i - 1)
    BY <2>1 DEF Among
  <2> QED BY <1>4, <1>7, <2>2
<1>11. /\ Rest(t) \in Seq(Functions) /\ Len(Rest(t)) = Len(s) - 1
       /\ \A j \in 1..(Len(s) - 1) : Rest(t)[j] = s[j]
  BY <1>2, Popped DEF Rest
<1>12. /\ k \in Calls /\ call' = [call EXCEPT ![t] = k]
       /\ k.object = call[t].object /\ k.class = c /\ k.up = TRUE
       /\ k.games = <<Body(c)>> /\ k.stack = Rest(t)
       /\ k.seen = IF ours THEN <<c>> ELSE call[t].seen
  <2>1. ours => Append(call[t].seen, Top(t).of) = <<c>> /\ <<c>> \in Seq(Classes)
    <3>1. \A x \in Classes : Append(<< >>, x) = <<x>> /\ <<x>> \in Seq(Classes)
      OBVIOUS
    <3>2. ours => call[t].seen = << >> /\ Top(t).of = c
      BY <1>8, <1>10
    <3>3. c \in Classes
      BY <1>2
    <3> HIDE DEF c, ours
    <3> QED BY <3>1, <3>2, <3>3
  <2>2. /\ ours => call' = [call EXCEPT ![t].stack = Rest(t), ![t].seen = Append(@, Top(t).of)]
        /\ ~ours => call' = [call EXCEPT ![t].stack = Rest(t)]
    BY DEF Ascend
  <2>3. CASE ours
    BY <1>2, <1>4, <1>11, <2>1, <2>2, <2>3 DEF Calls
  <2>4. CASE ~ours
    BY <1>2, <1>4, <1>11, <2>2, <2>4 DEF Calls
  <2> QED BY <2>3, <2>4
<1> HIDE DEF k
<1>13. Within(k, n)
  <2>1. Len(k.stack) = Len(s) - 1 /\ Len(k.stack) <= n /\ n - Len(k.stack) = i
    <3>1. PICK a : a = Len(s)
      OBVIOUS
    <3>2. a \in 1..n /\ i = n + 1 - a
      BY ONLY <1>5, <1>6, <3>1
    <3>3. Len(k.stack) = a - 1
      BY ONLY <1>11, <1>12, <3>1
    <3>4. a - 1 <= n /\ n - (a - 1) = i
      BY ONLY n \in Nat, <3>2
    <3> HIDE DEF s
    <3> QED BY ONLY <3>1, <3>3, <3>4
  <2>2. ASSUME NEW j \in 1..Len(k.stack) PROVE k.stack[j] = Link(order, c, n + 1 - j)
    <3>1. j \in 1..(Len(s) - 1) /\ j \in 1..Len(s)
      BY ONLY n \in Nat, <1>5, <2>1, <2>2
    <3> QED BY ONLY <1>4, <1>11, <1>12, <3>1
  <2>3. k.seen = IF Among(c, i) THEN <<c>> ELSE << >>
    BY <1>4, <1>7, <1>9, <1>10, <1>12
  <2> HIDE DEF c, s, ours
  <2> QED BY ONLY <1>4, <1>12, <2>1, <2>2, <2>3 DEF Within
<1>14. CallInv'
  BY <1>1, <1>2, <1>12, <1>13, CallUpdate
\* What our hook writes down.
<1> DEFINE o == call[t].object
<1>15. \/ UNCHANGED steps /\ ~(ours /\ o \in Contexts)
       \/ /\ ours /\ o \in Contexts
          /\ lastState[o] # state[o]
          /\ lastState' = [lastState EXCEPT ![o] = state[o]]
          /\ line' = [line EXCEPT ![o] = <<@[2], state[o]>>]
       \/ UNCHANGED steps /\ ours /\ o \in Contexts /\ lastState[o] = state[o]
  <2>1. c \in StepClasses <=> o \in Contexts
    <3>1. o \in Objects
      BY <1>2 DEF Calls
    <3>2. o \notin Contexts => c = o /\ o \in PlainClasses
      BY <1>1, <1>2, <3>1 DEF LogInv, Objects
    <3>3. o \in Contexts => c \in StepClasses
      BY <1>1, <1>2 DEF LogInv
    <3> QED BY <3>2, <3>3 DEF PlainClasses, StepClasses
  <2>2. IF ours /\ c \in StepClasses THEN LogIfChanged(o) ELSE UNCHANGED steps
    BY <1>8 DEF Ascend
  <2> QED BY <2>1, <2>2 DEF LogIfChanged
<1>16. /\ state \in [Contexts -> StepClasses] /\ stepped \subseteq Contexts
       /\ lastState \in [Contexts -> StepClasses \cup {None}]
       /\ line \in [Contexts -> (StepClasses \cup {None}) \X (StepClasses \cup {None})]
  BY <1>1 DEF TypeOK
<1> HIDE DEF o, ours
<1>17. /\ lastState' \in [Contexts -> StepClasses \cup {None}]
       /\ line' \in [Contexts -> (StepClasses \cup {None}) \X (StepClasses \cup {None})]
       /\ \A x \in Contexts : x # o => lastState'[x] = lastState[x] /\ line'[x] = line[x]
       /\ ours /\ o \in Contexts => lastState'[o] = state[o]
       /\ \A x \in Contexts : line'[x][2] = lastState'[x]
       /\ \A x \in Contexts : line'[x][2] # None => line'[x][1] # line'[x][2]
  <2>1. /\ \A x \in Contexts : line[x][2] = lastState[x]
        /\ \A x \in Contexts : line[x][2] # None => line[x][1] # line[x][2]
    BY <1>1 DEF LogInv, OnlyStepsLogged
  <2>2. CASE UNCHANGED steps
    BY <1>15, <1>16, <2>1, <2>2 DEF steps
  <2>3. CASE /\ o \in Contexts /\ lastState[o] # state[o]
             /\ lastState' = [lastState EXCEPT ![o] = state[o]]
             /\ line' = [line EXCEPT ![o] = <<@[2], state[o]>>]
    <3>1. line'[o] = <<lastState[o], state[o]>> /\ lastState'[o] = state[o]
      BY <1>16, <2>1, <2>3
    <3>2. <<lastState[o], state[o]>> \in (StepClasses \cup {None}) \X (StepClasses \cup {None})
      BY <1>16, <2>3
    <3>3. /\ lastState' \in [Contexts -> StepClasses \cup {None}]
          /\ line' \in [Contexts -> (StepClasses \cup {None}) \X (StepClasses \cup {None})]
      BY <1>16, <2>3, <3>1, <3>2
    <3>4. \A x \in Contexts : x # o => lastState'[x] = lastState[x] /\ line'[x] = line[x]
      BY <1>16, <2>3
    <3> QED BY <2>1, <2>3, <3>1, <3>3, <3>4
  <2> QED BY <1>15, <2>2, <2>3
<1>18. TypeOK' /\ PhaseInv' /\ ChainInv'
  <2>1. TypeOK'
    BY <1>1, <1>2, <1>12, <1>17 DEF TypeOK
  <2>2. PhaseInv'
    BY <1>1, <1>2, <1>12 DEF PhaseInv, Order
  <2>3. ChainInv'
    BY <1>1, <1>2, ChainStable
  <2> QED BY <2>1, <2>2, <2>3
<1>19. LogInv'
  <2>1. /\ \A u \in Threads : u # t => call'[u] = call[u]
        /\ call'[t] = k /\ k # None
    BY <1>2, <1>12, NoneAssumption
  <2>2. \A x \in Contexts : Unseen(x) => Unseen(x)' \/ (ours /\ x = o)
    BY <1>2, <1>12, <2>1 DEF Unseen, o
  <2>3. /\ \A u, v \in Threads : call'[u] # None /\ call'[v] # None
             /\ call'[u].object = call'[v].object => u = v
        /\ \A u \in Threads : call'[u] # None =>
             IF call'[u].object \in Contexts THEN call'[u].class \in StepClasses
             ELSE call'[u].class = call'[u].object
    BY <1>1, <1>2, <1>12, <2>1 DEF LogInv
  <2>4. phase' = "loaded" /\ withSteps' =>
          \A x \in stepped' : Unseen(x)' \/ lastState'[x] = state'[x]
    <3>1. ASSUME phase = "loaded", withSteps, NEW x \in stepped
          PROVE  Unseen(x)' \/ lastState'[x] = state[x]
      <4>1. x \in Contexts /\ (Unseen(x) \/ lastState[x] = state[x])
        BY <1>1, <1>16, <3>1 DEF LogInv
      <4>2. CASE ours /\ x = o
        BY <1>17, <4>1, <4>2
      <4>3. CASE Unseen(x) /\ ~(ours /\ x = o)
        BY <2>2, <4>1, <4>3
      <4>4. CASE lastState[x] = state[x]
        BY <1>15, <1>17, <4>1, <4>4 DEF steps
      <4> QED BY <4>1, <4>2, <4>3, <4>4
    <3> QED BY <1>2, <3>1
  <2> QED BY <1>17, <2>3, <2>4 DEF LogInv, OnlyStepsLogged
<1> QED BY <1>14, <1>18, <1>19 DEF IInv

-----------------------------------------------------------------------------
(* The theorems *)

LEMMA InitHolds == Init => IInv
<1> SUFFICES ASSUME Init PROVE IInv
  OBVIOUS
<1>1. /\ withSteps \in BOOLEAN /\ Len(Order) \in Nat /\ 1 <= Len(Order)
      /\ \A i \in 1..Len(Order) : Order[i] \in Classes
  <2>1. withSteps \in BOOLEAN
    BY DEF Init
  <2>2. Order \in Seq(Classes) /\ Len(Order) \in {3, 9}
    BY <2>1, OrderFacts DEF Order
  <2>3. Len(Order) \in Nat /\ 1 <= Len(Order)
    <3>1. PICK l : l = Len(Order)
      OBVIOUS
    <3>2. l \in Nat /\ 1 <= l
      BY ONLY <2>2, <3>1
    <3> QED BY ONLY <3>1, <3>2
  <2>4. \A i \in 1..Len(Order) : Order[i] \in Classes
    <3> HIDE DEF Order
    <3> QED BY <2>2
  <2> QED BY <2>1, <2>3, <2>4
<1>2. TypeOK
  <2>1. /\ phase = "unloaded" /\ next \in 1..(Len(Order) + 1) /\ replaced = None
        /\ running = FALSE
    BY <1>1 DEF Init
  <2>2. slot \in [Classes -> Functions]
    BY FunctionFacts DEF Init
  <2>3. /\ saved \in [Hookers -> [Classes -> Functions \cup {None}]]
        /\ \A i \in 1..Len(Order) : saved["us"][Order[i]] = None /\ ~(i < next)
    <3>1. saved \in [Hookers -> [Classes -> Functions \cup {None}]]
      BY DEF Init
    <3>2. \A c \in Classes : saved["us"][c] = None
      BY FunctionFacts DEF Init
    <3>3. \A i \in 1..Len(Order) : ~(i < next)
      BY <1>1 DEF Init
    <3> QED BY <1>1, <3>1, <3>2, <3>3
  <2>4. order \in [Classes -> Seq(Hookers)] /\ call \in [Threads -> Calls \cup {None}]
    BY DEF Init
  <2>5. /\ state \in [Contexts -> StepClasses] /\ stepped \subseteq Contexts
        /\ lastState \in [Contexts -> StepClasses \cup {None}]
        /\ line \in [Contexts -> (StepClasses \cup {None}) \X (StepClasses \cup {None})]
        /\ saveList \in SaveLists
    BY DEF Init
  <2> QED BY <1>1, <2>1, <2>2, <2>3, <2>4, <2>5 DEF TypeOK, Order
<1>3. PhaseInv
  BY <1>1 DEF Init, PhaseInv
<1>4. ChainInv
  <2>1. \A c \in Classes : order[c] = << >> /\ Len(order[c]) = 0
    BY DEF Init
  <2>2. \A c \in Classes : Link(order, c, 0) = GameFunction(c) /\ slot[c] = GameFunction(c)
    BY <2>1 DEF Init, Link
  <2>3. \A h \in Hookers, c \in Classes : Originals[h][c] = None /\ saved[h][c] = None
    BY DEF Init, Originals
  <2> QED BY <2>1, <2>2, <2>3, FunctionFacts DEF ChainInv
<1>5. CallInv /\ LogInv
  BY DEF Init, CallInv, LogInv, OnlyStepsLogged
<1> QED BY <1>2, <1>3, <1>4, <1>5 DEF IInv

LEMMA StepHolds == IInv /\ [Next]_vars => IInv'
<1> SUFFICES ASSUME IInv, [Next]_vars PROVE IInv'
  OBVIOUS
<1>1. CASE Loading
  BY <1>1, LoadingStep, LoadingCalls DEF IInv
<1>2. CASE \E t \in Threads, o \in Objects : Call(t, o)
  BY <1>2, CallStep
<1>3. CASE \E t \in Threads : InCall(t)
  BY <1>3, DescendStep, RunStep, AscendStep, ReturnStep DEF InCall
<1>4. CASE \E c \in Contexts, s \in StepClasses : ChangeElsewhere(c, s)
  BY <1>4, ChangeElsewhereStep
<1>5. CASE UNCHANGED vars
  <2>1. UNCHANGED <<plugin, table, call, steps, game, dump>>
    BY <1>5 DEF vars
  <2>2. TypeOK'
    BY <2>1 DEF IInv, TypeOK, plugin, table, steps, game
  <2>3. PhaseInv' /\ ChainInv'
    BY <2>1, ChainStable DEF IInv, PhaseInv, Order, plugin, table, steps, game
  <2>4. CallInv'
    <3>1. Hooked' = Hooked /\ order' = order /\ call' = call
      BY <2>1 DEF Link, Hooked, plugin, table
    <3>2. \A k, n : Within(k, n)' <=> Within(k, n)
      BY <3>1 DEF Within, Among
    <3> QED BY <3>1, <3>2 DEF IInv, CallInv
  <2>5. LogInv'
    BY <2>1 DEF IInv, LogInv, OnlyStepsLogged, Unseen, plugin, steps, game
  <2> QED BY <2>2, <2>3, <2>4, <2>5 DEF IInv
<1> QED BY <1>1, <1>2, <1>3, <1>4, <1>5 DEF Next, Loading

\* Reachable states have the declared types, however many plugins hook what.
THEOREM TypeCorrect == Spec => []TypeOK
<1>1. IInv => TypeOK
  BY DEF IInv
<1> QED BY <1>1, InitHolds, StepHolds, PTL DEF Spec

\* No hook of ours, or of any plugin that stores its original, calls through a
\* pointer that is not there.
THEOREM NoCrash == Spec => []NeverCrashes
<1>1. IInv => NeverCrashes
  BY DEF IInv, PhaseInv, NeverCrashes
<1> QED BY <1>1, InitHolds, StepHolds, PTL DEF Spec

\* A refused plugin is in no vtable and in nobody's chain.
THEOREM NothingLeft == Spec => []NothingLeftBehind
<1>1. IInv => NothingLeftBehind
  <2> SUFFICES ASSUME IInv, phase = "refused", NEW c \in Classes
               PROVE  /\ slot[c].by # "us"
                      /\ \A h \in Others : saved[h][c] # None => saved[h][c].by # "us"
    BY DEF NothingLeftBehind
  <2>1. TypeOK /\ PhaseInv /\ ChainInv /\ next = 1 /\ replaced = None
    BY DEF IInv, PhaseInv
  <2>2. saved["us"][c] = None
    <3>1. \A i \in 1..Len(Order) : ~(i < 1)
      BY OrderFacts DEF Order, TypeOK
    <3> QED BY <2>1, <3>1, OursSaved
  <2>3. \A h \in Hookers : Originals[h][c] = saved[h][c]
    BY <2>1 DEF Originals
  <2>4. order[c] \in Seq(Hookers) /\ Len(order[c]) \in Nat
    BY <2>1 DEF TypeOK
  <2>5. ASSUME NEW i \in 1..Len(order[c]) PROVE order[c][i] # "us"
    <3>1. Originals[order[c][i]][c] = Link(order, c, i - 1) /\ i - 1 \in 0..Len(order[c])
      BY <2>1, <2>4 DEF ChainInv
    <3>2. Link(order, c, i - 1) # None
      BY <2>4, <3>1, LinkFacts, FunctionFacts
    <3> QED BY <2>2, <2>3, <3>1, <3>2, FunctionFacts
  <2>6. ASSUME NEW i \in 0..Len(order[c]) PROVE Link(order, c, i).by # "us"
    <3>1. i # 0 => i \in 1..Len(order[c])
      BY <2>4
    <3> QED BY <2>4, <2>5, <3>1, LinkFacts, FunctionFacts
  <2>7. slot[c].by # "us"
    BY <2>1, <2>4, <2>6 DEF ChainInv
  <2>8. ASSUME NEW h \in Others, saved[h][c] # None PROVE saved[h][c].by # "us"
    <3>1. h \in Hookers
      BY DEF Hookers
    <3>2. PICK i \in 1..Len(order[c]) : order[c][i] = h
      BY <2>1, <2>3, <2>8, <3>1 DEF ChainInv
    <3>3. saved[h][c] = Link(order, c, i - 1) /\ i - 1 \in 0..Len(order[c])
      BY <2>1, <2>3, <2>4, <3>1, <3>2 DEF ChainInv
    <3> QED BY <2>6, <3>3
  <2> QED BY <2>7, <2>8
<1> QED BY <1>1, InitHolds, StepHolds, PTL DEF Spec

\* For any plugins that hook any classes at any time, a call runs the game's
\* function once, and our hook for its class exactly once, or not at all.
THEOREM Complete == Spec => []CallsComplete
<1>1. IInv => CallsComplete
  <2> SUFFICES ASSUME IInv, NEW t \in Threads, call[t] # None, call[t].up, call[t].stack = << >>
               PROVE  /\ call[t].games = <<Body(call[t].class)>>
                      /\ call[t].seen = IF call[t].class \in Hooked
                                        THEN <<call[t].class>> ELSE << >>
    BY DEF CallsComplete
  <2>1. PICK n \in Nat : Within(call[t], n)
    BY DEF IInv, CallInv
  <2>2. Len(call[t].stack) = 0 /\ n - 0 = n
    OBVIOUS
  <2> QED BY <2>1, <2>2 DEF Within
<1> QED BY <1>1, InitHolds, StepHolds, PTL DEF Spec

\* For any number of contexts and threads, and addresses used again, log and map
\* hold the state of every context whose state was last set by an update called
\* through a slot, once the call has returned, physics calls being one at a time.
THEOREM LogFollowsHooked == Spec => []LogFollowsHookedUpdates
<1>1. IInv => LogFollowsHookedUpdates
  <2> SUFFICES ASSUME IInv, phase = "loaded", withSteps, NEW c \in stepped, ~Stepping(c)
               PROVE  line[c][2] = state[c] /\ lastState[c] = state[c]
    BY DEF LogFollowsHookedUpdates
  <2>1. ~Unseen(c) /\ c \in Contexts
    BY DEF Unseen, Stepping, IInv, TypeOK
  <2> QED BY <2>1 DEF IInv, LogInv
<1> QED BY <1>1, InitHolds, StepHolds, PTL DEF Spec

\* Two successive lines about one address differ: only transitions are logged.
THEOREM StepsOnly == Spec => []OnlyStepsLogged
<1>1. IInv => OnlyStepsLogged
  BY DEF IInv, LogInv
<1> QED BY <1>1, InitHolds, StepHolds, PTL DEF Spec

-----------------------------------------------------------------------------
(* The dump of the list of saves *)

\* A step that leaves list and dump alone, and no event looked at.
LEMMA DumpStays ==
  ASSUME DumpInv, UNCHANGED <<saveList, dump>>, running => running',
         phase' = "loaded" => phase = "loaded" \/ ~running,
         Unseen("BGSSaveLoadManager") => Unseen("BGSSaveLoadManager")'
  PROVE  DumpInv'
<1>1. Dumped' <=> Dumped
  BY DEF Dumped
<1> QED BY <1>1 DEF DumpInv

\* What our hook dumps.
LEMMA DumpRight ==
  ASSUME TypeOK, NEW found \in BOOLEAN, DumpSaveGameList(found), saveList' = saveList
  PROVE  dump' # None => Dumped'
<1>1. PICK s : s = saveList
  OBVIOUS
<1>2. PICK S : s \in Seq(S)
  BY <1>1, ListsAssumption DEF TypeOK
<1>3. PICK positions : positions = {i \in DOMAIN s : s[i] # Null}
  OBVIOUS
<1>4. \A i \in 1..Len(s) : i \in positions <=> s[i] # Null
  BY <1>2, <1>3
<1>5. PICK r \in Seq(S) :
        /\ r = Selected(s, positions)
        /\ \A k \in 1..Len(r) : \E i \in 1..Len(s) : i \in positions /\ r[k] = s[i]
        /\ \A i \in 1..Len(s) : i \in positions => \E k \in 1..Len(r) : r[k] = s[i]
  <2>1. Selected(s, positions) \in Seq(S)
    BY <1>2, SelectedElements
  <2>2. \A k \in 1..Len(Selected(s, positions)) :
          \E i \in 1..Len(s) : i \in positions /\ Selected(s, positions)[k] = s[i]
    BY <1>2, SelectedElements
  <2>3. \A i \in 1..Len(s) : i \in positions =>
          \E k \in 1..Len(Selected(s, positions)) : Selected(s, positions)[k] = s[i]
    BY <1>2, SelectedElements
  <2> QED BY ONLY <2>1, <2>2, <2>3, Zenon
<1>6. CASE found
  <2>1. dump' = r
    BY <1>1, <1>3, <1>5, <1>6, Zenon DEF DumpSaveGameList
  <2>2. ASSUME NEW k \in 1..Len(r) PROVE r[k] # Null
    <3>1. PICK i \in 1..Len(s) : i \in positions /\ r[k] = s[i]
      BY <1>5
    <3> QED BY ONLY <1>4, <3>1, Zenon
  <2>3. \A i \in 1..Len(s) : s[i] # Null => \E k \in 1..Len(r) : r[k] = s[i]
    BY ONLY <1>4, <1>5, Zenon
  <2> QED BY <1>1, <2>1, <2>2, <2>3, Zenon DEF Dumped
<1>7. CASE ~found
  BY <1>7 DEF DumpSaveGameList
<1> QED BY <1>6, <1>7

\* An event on its way back: a hook of ours dumps the list before it is done.
LEMMA DumpAscends ==
  ASSUME IInv, DumpInv, NEW t \in Threads, Ascend(t)
  PROVE  DumpInv'
<1> DEFINE manager == "BGSSaveLoadManager"
           ours == Top(t).by = "us"
<1>1. TypeOK /\ PhaseInv /\ ChainInv /\ CallInv /\ LogInv
  BY DEF IInv
<1>2. /\ running /\ call[t] # None /\ call[t].up /\ call[t].stack # << >>
      /\ call[t] \in Calls /\ call \in [Threads -> Calls \cup {None}]
      /\ UNCHANGED <<phase, running, saveList>>
  BY <1>1 DEF Ascend, Playing, TypeOK, plugin, table, game
<1>3. \A u \in Threads : u # t => call'[u] = call[u]
  BY <1>2 DEF Ascend
<1>4. ours => Top(t).of = call[t].class
  <2>1. PICK n \in Nat : Within(call[t], n)
    BY <1>1, <1>2 DEF CallInv
  <2>2. call[t].stack \in Seq(Functions) /\ Len(call[t].stack) \in Nat
    BY <1>2 DEF Calls
  <2>3. Len(call[t].stack) <= n
    BY <1>2, <2>1 DEF Within
  <2>4. Len(call[t].stack) <= n + 1 /\ n + 1 - Len(call[t].stack) # 0
    BY ONLY n \in Nat, <2>2, <2>3
  <2>5. LET i == n + 1 - Len(call[t].stack) IN
        i # 0 => Top(t).by = order[call[t].class][i] /\ Top(t).of = call[t].class
    BY ONLY <1>1, <1>2, <2>1, <2>4, TopFacts
  <2> QED BY <2>4, <2>5
<1>5. call[t].class = manager <=> call[t].object = manager
  BY <1>1, <1>2, ConstantsAssumption DEF LogInv, StepClasses, PlainClasses
<1>6. CASE ours /\ call[t].class = manager
  <2>1. PICK found \in BOOLEAN : DumpSaveGameList(found)
    BY <1>4, <1>6 DEF Ascend
  <2>2. dump' # None => Dumped'
    BY <1>1, <1>2, <2>1, DumpRight
  <2> QED BY <1>2, <2>2 DEF DumpInv
<1>7. CASE ~(ours /\ call[t].class = manager)
  <2>1. dump' = dump
    BY <1>4, <1>7 DEF Ascend
  <2>2. ASSUME Unseen(manager) PROVE Unseen(manager)'
    <3>1. PICK u \in Threads :
            call[u] # None /\ call[u].object = manager /\ call[u].up /\ call[u].seen = << >>
      BY <2>2 DEF Unseen
    <3>2. CASE u # t
      BY <1>3, <3>1, <3>2 DEF Unseen
    <3>3. CASE u = t
      <4>1. ~ours
        BY <1>5, <1>7, <3>1, <3>3
      <4>2. call' = [call EXCEPT ![t].stack = Rest(t)]
        BY <4>1 DEF Ascend
      <4>3. call'[t] = [call[t] EXCEPT !.stack = Rest(t)]
        BY <1>2, <4>2
      <4>4. Rest(t) \in Seq(Functions)
        BY <1>2, Popped DEF Rest, Calls
      <4>5. /\ call'[t].object = manager /\ call'[t].up /\ call'[t].seen = << >>
            /\ call'[t] \in Calls
        BY <1>2, <3>1, <3>3, <4>3, <4>4 DEF Calls
      <4> QED BY <4>5, NoneAssumption DEF Unseen
    <3> QED BY <3>2, <3>3
  <2> QED BY <1>2, <2>1, <2>2, DumpStays
<1> QED BY <1>6, <1>7

\* The game's function may leave a new list, which our hook has not seen.
LEMMA DumpRuns ==
  ASSUME IInv, DumpInv, NEW t \in Threads, Run(t)
  PROVE  DumpInv'
<1> DEFINE manager == "BGSSaveLoadManager"
<1>1. TypeOK /\ PhaseInv /\ CallInv
  BY DEF IInv
<1>2. /\ running /\ call[t] # None /\ ~call[t].up
      /\ call[t] \in Calls /\ call \in [Threads -> Calls \cup {None}]
      /\ UNCHANGED <<phase, running, dump>>
  BY <1>1 DEF Run, Playing, TypeOK, plugin, table
<1>3. \A u \in Threads : u # t => call'[u] = call[u]
  BY <1>2 DEF Run
<1>4. CASE call[t].object = manager
  <2> DEFINE k == [call[t] EXCEPT !.stack = Rest(t), !.up = TRUE,
                                  !.games = Append(@, Top(t).of)]
  <2>1. PICK n \in Nat : Within(call[t], n)
    BY <1>1, <1>2 DEF CallInv
  <2>2. call[t].seen = << >> /\ Len(call[t].stack) \in 1..(n + 1)
    BY <1>2, <2>1 DEF Within
  <2>3. call[t].stack \in Seq(Functions) /\ call[t].stack # << >>
    BY <1>2, <2>2 DEF Calls
  <2>4. Rest(t) \in Seq(Functions) /\ Top(t) \in Functions
    BY <2>3, Popped DEF Rest, Top
  <2>5. Append(call[t].games, Top(t).of) \in Seq(Classes \cup {"bhkCharacterState"})
    <3>1. call[t].games \in Seq(Classes \cup {"bhkCharacterState"})
      BY <1>2 DEF Calls
    <3>2. Top(t).of \in Classes \cup {"bhkCharacterState"}
      BY <2>4 DEF Functions
    <3> QED BY <3>1, <3>2, Appended
  <2>6. k \in Calls /\ k.object = manager /\ k.up /\ k.seen = << >>
    BY <1>2, <1>4, <2>2, <2>4, <2>5 DEF Calls
  <2>7. call' = [call EXCEPT ![t] = k]
    BY <1>2 DEF Run
  <2> HIDE DEF k
  <2>8. call'[t] = k /\ k # None
    BY <1>2, <2>6, <2>7, NoneAssumption
  <2>9. Unseen(manager)'
    BY <2>6, <2>8 DEF Unseen
  <2> QED BY <1>2, <2>9 DEF DumpInv
<1>5. CASE call[t].object # manager
  <2>1. saveList' = saveList
    BY <1>5 DEF Run
  <2>2. Unseen(manager) => Unseen(manager)'
    BY <1>2, <1>3 DEF Unseen
  <2> QED BY <1>2, <2>1, <2>2, DumpStays
<1> QED BY <1>4, <1>5

LEMMA DumpStep ==
  ASSUME IInv, DumpInv, [Next]_vars
  PROVE  DumpInv'
<1> DEFINE manager == "BGSSaveLoadManager"
<1>1. TypeOK /\ PhaseInv /\ CallInv /\ LogInv
  BY DEF IInv
<1>2. ASSUME UNCHANGED <<call, saveList, dump>>, running => running',
             phase' = "loaded" => phase = "loaded" \/ ~running
      PROVE  DumpInv'
  <2>1. Unseen(manager) => Unseen(manager)'
    BY <1>2 DEF Unseen
  <2> QED BY <1>2, <2>1, DumpStays
<1>3. CASE Load
  <2>1. UNCHANGED <<call, saveList, dump, running>>
    BY <1>3 DEF Load, SetupLog, Register, PatchSlot, KeepOriginal, Loaded, table, game
  <2>2. phase' = "loaded" => phase = "loaded" \/ ~running
    BY <1>1, <1>3 DEF Load, SetupLog, Register, PatchSlot, KeepOriginal, Loaded, PhaseInv
  <2> QED BY <1>2, <2>1, <2>2
<1>4. CASE (\E h \in Others, c \in Contested : OtherHooks(h, c)) \/ GameStarts
  <2>1. UNCHANGED <<call, saveList, dump, phase>> /\ (running => running')
    BY <1>4 DEF OtherHooks, GameStarts, plugin, game
  <2> QED BY <1>2, <2>1
<1>5. ASSUME NEW t \in Threads, NEW k, call' = [call EXCEPT ![t] = k],
             UNCHANGED <<saveList, dump, running>>, phase' = phase \/ phase' = "crashed",
             call[t] # None => ~call[t].up \/ call[t].object # manager \/ call[t].seen # << >>
      PROVE  DumpInv'
  <2>1. \A u \in Threads : u # t => call'[u] = call[u]
    BY <1>1, <1>5 DEF TypeOK
  <2>2. Unseen(manager) => Unseen(manager)'
    BY <1>5, <2>1 DEF Unseen
  <2> QED BY <1>5, <2>2, DumpStays
<1>6. ASSUME NEW t \in Threads, NEW o \in Objects, Call(t, o) PROVE DumpInv'
  <2>1. /\ call[t] = None /\ \E k : call' = [call EXCEPT ![t] = k]
        /\ UNCHANGED <<saveList, dump, running, phase>>
    BY <1>6 DEF Call, plugin, table, game
  <2> QED BY <1>5, <2>1
<1>7. ASSUME NEW t \in Threads, Descend(t) PROVE DumpInv'
  <2>1. /\ call[t] # None /\ ~call[t].up /\ UNCHANGED <<saveList, dump, running>>
    BY <1>7 DEF Descend, table, game
  <2>2. CASE call' = call /\ phase' = "crashed"
    BY <1>2, <2>1, <2>2
  <2>3. CASE phase' = phase /\ \E k : call' = [call EXCEPT ![t] = k]
    BY <1>5, <2>1, <2>3
  <2>4. \/ call' = call /\ phase' = "crashed"
        \/ phase' = phase /\ \E k : call' = [call EXCEPT ![t] = k]
    BY <1>7 DEF Descend
  <2> QED BY <2>2, <2>3, <2>4
<1>8. ASSUME NEW t \in Threads, Return(t) PROVE DumpInv'
  <2>1. /\ call[t] # None /\ call[t].up /\ call[t].stack = << >>
        /\ call' = [call EXCEPT ![t] = None] /\ UNCHANGED <<saveList, dump, running, phase>>
    BY <1>8 DEF Return, plugin, table, game
  <2>2. CASE phase # "loaded"
    BY <1>1, <2>1, <2>2 DEF DumpInv
  <2>3. CASE phase = "loaded"
    <3>1. call[t].object = manager => call[t].class = manager
      BY <1>1, <2>1, ConstantsAssumption DEF LogInv, PlainClasses
    <3>2. manager \in Hooked
      BY <2>3 DEF Hooked
    <3>3. call[t].object = manager => call[t].seen = <<manager>>
      <4>1. PICK n \in Nat : Within(call[t], n)
        BY <1>1, <2>1 DEF CallInv
      <4>2. Len(call[t].stack) = 0 /\ n - 0 = n
        BY <2>1
      <4> QED BY <2>1, <3>1, <3>2, <4>1, <4>2 DEF Within
    <3>4. call[t] # None => ~call[t].up \/ call[t].object # manager \/ call[t].seen # << >>
      <4>1. Len(<<manager>>) = 1 /\ Len(<< >>) = 0
        OBVIOUS
      <4>2. <<manager>> # << >>
        BY ONLY <4>1, Zenon
      <4> QED BY ONLY <3>3, <4>2, Zenon
    <3>5. PICK k : k = None
      OBVIOUS
    <3>6. call' = [call EXCEPT ![t] = k]
      BY <2>1, <3>5
    <3> QED BY <1>5, <2>1, <3>4, <3>6
  <2> QED BY <2>2, <2>3
<1>9. CASE \E c \in Contexts, s \in StepClasses : ChangeElsewhere(c, s)
  <2>1. UNCHANGED <<call, saveList, dump, running, phase>>
    BY <1>9 DEF ChangeElsewhere, plugin, table
  <2> QED BY <1>2, <2>1
<1>10. CASE UNCHANGED vars
  <2>1. UNCHANGED <<call, saveList, dump, running, phase>>
    BY <1>10 DEF vars, plugin, table, game
  <2> QED BY <1>2, <2>1
<1> QED BY <1>3, <1>4, <1>6, <1>7, <1>8, <1>9, <1>10, DumpAscends, DumpRuns DEF Next, InCall

\* Whoever else hooks the save manager, and whatever an event does to the list, the
\* list last dumped is the one the game has, but for the null entries.
THEOREM DumpTrue == Spec => []DumpIsCurrent
<1>1. Init => DumpInv
  BY DEF Init, DumpInv
<1>2. IInv /\ DumpInv /\ [Next]_vars => IInv' /\ DumpInv'
  BY StepHolds, DumpStep
<1>3. DumpInv => DumpIsCurrent
  <2>1. ~Stepping("BGSSaveLoadManager") => ~Unseen("BGSSaveLoadManager")
    BY DEF Stepping, Unseen
  <2> QED BY <2>1 DEF DumpInv, DumpIsCurrent, Dumped
<1> QED BY <1>1, <1>2, <1>3, InitHolds, PTL DEF Spec
=============================================================================
