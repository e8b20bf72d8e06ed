------------------------ MODULE LayoutReport_proofs ------------------------
(***************************************************************************)
(* What the layout report says is true: for any headers, any game and any  *)
(* number of messages, whenever the log is read and whatever was installed *)
(* or crashed before.  The log is opened anew by the plugin that writes it; *)
(* every line says what that plugin was compiled with, or found in a game  *)
(* that still runs; and what a class's size or a member's offset is, is    *)
(* followed down to the members' kinds.                                     *)
(***************************************************************************)
EXTENDS LayoutReport, Selections_proofs, TLAPS

-----------------------------------------------------------------------------
(* The inductive invariant *)

\* The lines of the log; the order counts for the sizes alone.
Written == {log[i] : i \in 1..Len(log)}

\* The plugin that wrote the log has the members it reads where the game has them.
Right ==
  /\ Placed(writer, "TESForm", "formID") /\ Placed(writer, "TESForm", "formType")
  /\ Placed(writer, "Actor::ACTOR_RUNTIME_DATA", "race")
  /\ Placed(writer, "TESObjectREFR", "extraList")

Quiet(l) ==
  /\ l.kind # "WARN"
  /\ l.kind = "FORM" => l.said = <<"OK", "OK">>
  /\ l.kind = "RUNTIME" => l.said \in {<<"plausible">>, <<"NULL">>}

\* What each line says is true of the plugin that wrote it, and of its game.
Proper(l) ==
  /\ l.kind = "LAYOUT" => l.what \in Classes /\ l.size = Compiled(writer, l.what)
  /\ game.on /\ l.kind = "RTTI" => l.said = <<Verdict("RTTI_TESForm" \notin game.wrong)>>
  /\ Right => Quiet(l)

\* What is left to do of the checks of a message.
DataLoadedTodo ==
  {<<"addresses", "rtti", "base", "base_type", "kDataLoaded">>,
   <<"rtti", "base", "base_type", "kDataLoaded">>,
   <<"base", "base_type", "kDataLoaded">>, <<"base_type", "kDataLoaded">>, <<"kDataLoaded">>}

SessionTodo(m) ==
  {<<"player", "form_id", "form_type", "race", "extra_list", "vtable", m>>,
   <<"form_id", "form_type", "race", "extra_list", "vtable", m>>,
   <<"form_type", "race", "extra_list", "vtable", m>>,
   <<"race", "extra_list", "vtable", m>>, <<"extra_list", "vtable", m>>, <<"vtable", m>>, <<m>>}

SessionMessages == {"kNewGame", "kPostLoadGame"}

Todo(t) ==
  \/ t \in Seq(Classes)
  \/ t \in DataLoadedTodo
  \/ \E m \in SessionMessages : t \in SessionTodo(m)

\* The checks of kDataLoaded, past that of the RTTI; those of a session, at the
\* vtable, which comes after the walk of the extra list.
PastRtti(t) ==
  t \in {<<"base", "base_type", "kDataLoaded">>, <<"base_type", "kDataLoaded">>, <<"kDataLoaded">>}
AtVtable(t) == \E m \in SessionMessages : t = <<"vtable", m>>

VtableVerdict(l) ==
  l.kind = "VTBL" /\ l.said = <<Verdict("VTABLE_PlayerCharacter" \notin game.wrong)>>

StateInv ==
  /\ dll \in Dlls /\ writer \in Dlls /\ baseline \in Revisions
  /\ game \in Games \cup {Off}
  /\ faulted \in BOOLEAN
  /\ blocks \in 0..MaxBlocks
  /\ done \subseteq Messages
  /\ log \in Seq(Lines)
  /\ game.on => dll = writer
  /\ ~game.on => todo = << >>
  /\ Todo(todo)
  /\ blocks = 0 => todo \in Seq(Classes)

LinesInv ==
  /\ \A l \in Written : Proper(l)
  /\ blocks = 0 => \A l \in Written : l.kind = "LAYOUT"
  /\ Right => ~faulted
  /\ game.on =>
       /\ "kDataLoaded" \in done \/ PastRtti(todo) => \E l \in Written : l.kind = "RTTI"
       /\ (\E l \in Written : l.kind = "EXTRA") =>
            AtVtable(todo) \/ \E l \in Written : VtableVerdict(l)

\* The checks that notice a misplaced member, and what is ahead after each of them
\* in a session's checks; none of them is done when there is no player.
Ahead(t) == IF t = << >> THEN "end" ELSE Head(t)

After == [form_id   |-> {"form_type", "race", "extra_list"},
          form_type |-> {"race", "extra_list"},
          race      |-> {"extra_list"}]

Probes == {"form_id", "form_type", "race"}

\* The member is elsewhere, and the bytes there do not look right by chance.
Misplaced(probe) ==
  /\ ~game.lucky
  /\ CASE probe = "form_id"   -> ~Placed(writer, "TESForm", "formID")
       [] probe = "form_type" -> ~Placed(writer, "TESForm", "formType")
       [] probe = "race"      -> ~Placed(writer, "Actor::ACTOR_RUNTIME_DATA", "race")

Betrays(probe, l) ==
  IF probe = "race" THEN l.kind = "RUNTIME" /\ l.said # <<"plausible">>
                    ELSE l.kind = "WARN" /\ l.what = "PlayerCharacter"

ShownInv ==
  game.on =>
    \A probe \in Probes :
      Misplaced(probe) /\ ((\E l \in Written : l.kind = "EXTRA") \/ Ahead(todo) \in After[probe])
        => \E l \in Written : Betrays(probe, l)

IInv == StateInv /\ LinesInv /\ ShownInv

-----------------------------------------------------------------------------
(* Numbers *)

\* A non-empty bounded set of naturals has a greatest element.
LEMMA Greatest ==
  ASSUME NEW n \in Nat, NEW S \in SUBSET (0..n), S # {}
  PROVE  Max(S) \in S /\ \A x \in S : x <= Max(S)
<1> DEFINE bounds == {m \in Nat : \A i \in S : i <= m}
<1>1. n \in bounds
  OBVIOUS
<1>2. PICK m \in bounds : \A k \in bounds : m <= k
  <2>1. bounds \in SUBSET Nat /\ bounds # {}
    BY <1>1
  <2> QED BY <2>1, LeastNat, Zenon
<1>3. m \in S
  <2>1. SUFFICES ASSUME m \notin S PROVE FALSE
    OBVIOUS
  <2>2. PICK e \in S : e \in 0..n /\ e <= m
    BY Zenon
  <2>3. m - 1 \in Nat
    BY <2>1, <2>2
  <2>4. ASSUME NEW i \in S PROVE i <= m - 1
    <3>1. i \in 0..n /\ i <= m /\ i # m
      BY <2>1
    <3> QED BY <3>1
  <2>5. m - 1 \in bounds
    BY <2>3, <2>4
  <2> QED BY <1>2, <2>5
<1>4. \E i \in S : \A j \in S : i >= j
  BY <1>3
<1>5. Max(S) \in S /\ \A j \in S : Max(S) >= j
  BY <1>4, Zenon DEF Max
<1> QED BY <1>5

-----------------------------------------------------------------------------
(* Layout of a class *)

LEMMA StorageBounds ==
  ASSUME NEW m \in Members
  PROVE  /\ Storage(m) \in 0..8
         /\ m.kind # "static" => Storage(m) > 0
         /\ Alignment(m) \in 1..8
<1>1. m.kind \in {"static", "byte", "half", "word", "quad"}
  BY DEF Members, Kinds
<1>2. /\ Storage(m) \in 0..8
      /\ m.kind # "static" => Storage(m) > 0
  BY <1>1 DEF Storage, Width
<1>3. Alignment(m) \in 1..8
  <2> DEFINE S == {1, Storage(m)}
  <2>1. S \in SUBSET (0..8) /\ S # {} /\ 1 \in S
    BY <1>2
  <2> HIDE DEF S
  <2>2. PICK x \in S : x = Max(S) /\ 1 <= x
    BY <2>1, Greatest, Zenon
  <2>3. Max(S) \in 1..8
    BY <2>1, <2>2
  <2> QED BY <2>3 DEF Alignment, S
<1> QED BY <1>2, <1>3

LEMMA Rounded ==
  ASSUME NEW n \in Nat, NEW to \in 1..8
  PROVE  RoundUp(n, to) \in Nat /\ n <= RoundUp(n, to)
<1>1. CASE to = 1
  BY <1>1 DEF RoundUp
<1>2. CASE to = 2
  BY <1>2 DEF RoundUp
<1>3. CASE to = 3
  BY <1>3 DEF RoundUp
<1>4. CASE to = 4
  BY <1>4 DEF RoundUp
<1>5. CASE to = 5
  BY <1>5 DEF RoundUp
<1>6. CASE to = 6
  BY <1>6 DEF RoundUp
<1>7. CASE to = 7
  BY <1>7 DEF RoundUp
<1>8. CASE to = 8
  BY <1>8 DEF RoundUp
<1> QED BY <1>1, <1>2, <1>3, <1>4, <1>5, <1>6, <1>7, <1>8

\* Where the members are: each one behind the ones before it.
LEMMA OffsetsGrow ==
  ASSUME NEW members \in Seq(Members), NEW n \in Nat, n = Len(members)
  PROVE  LET at == Offsets(members) IN
         /\ \A i \in 1..(n + 1) : at[i] \in Nat
         /\ \A i \in 1..n : at[i] + Storage(members[i]) <= at[i + 1]
<1> DEFINE Size(i) == Storage(members[i])
           From(i, free) == IF i > n THEN free
                            ELSE RoundUp(free, Alignment(members[i]))
           Place(f, i) == From(i, IF i = 1 THEN 0 ELSE f[i - 1] + Size(i - 1))
           step == [i \in 1..n |-> [x \in Nat |-> From(i + 1, x + Size(i))]]
           at == CHOOSE f : f = [i \in 1..(n + 1) |-> Place(f, i)]
<1>1. \A i \in 1..n : Size(i) \in Nat /\ Alignment(members[i]) \in 1..8
  <2>1. \A i \in 1..n : members[i] \in Members
    OBVIOUS
  <2> QED BY <2>1, StorageBounds
<1>2. \A i \in 1..(n + 1), x \in Nat : From(i, x) \in Nat /\ x <= From(i, x)
  <2> SUFFICES ASSUME NEW i \in 1..(n + 1), NEW x \in Nat
               PROVE  From(i, x) \in Nat /\ x <= From(i, x)
    BY Zenon
  <2>1. CASE i > n
    BY <2>1
  <2>2. CASE i \in 1..n
    <3>1. PICK to \in 1..8 : to = Alignment(members[i])
      BY <1>1, <2>2
    <3>2. From(i, x) = RoundUp(x, to)
      BY <2>2, <3>1
    <3>3. RoundUp(x, to) \in Nat /\ x <= RoundUp(x, to)
      BY Rounded, Zenon
    <3> QED BY ONLY <3>2, <3>3
  <2> QED BY <2>1, <2>2
<1> HIDE DEF Size, From
<1>3. step \in [1..n -> [Nat -> Nat]] /\ From(1, 0) \in Nat
  <2>1. \A i \in 1..n, x \in Nat : i + 1 \in 1..(n + 1) /\ x + Size(i) \in Nat
    BY <1>1
  <2>2. \A i \in 1..n, x \in Nat : From(i + 1, x + Size(i)) \in Nat
    BY <1>2, <2>1, Zenon
  <2>3. 1 \in 1..(n + 1)
    OBVIOUS
  <2> QED BY <1>2, <2>2, <2>3, Zenon
<1>4. \A i \in 1..n, x \in Nat : step[i][x] = From(i + 1, x + Size(i))
  OBVIOUS
<1> HIDE DEF step
<1>5. Iterated(Nat, n, From(1, 0), step)
  BY <1>3, Iteration, Zenon
<1>6. PICK f \in [1..(n + 1) -> Nat] :
        f[1] = From(1, 0) /\ \A i \in 1..n : f[i + 1] = step[i][f[i]]
  BY <1>5 DEF Iterated
<1>7. \A i \in 1..(n + 1) : f[i] = Place(f, i)
  <2> SUFFICES ASSUME NEW i \in 1..(n + 1) PROVE f[i] = Place(f, i)
    OBVIOUS
  <2>1. CASE i = 1
    BY <1>6, <2>1
  <2>2. CASE i # 1
    <3>1. PICK k \in 1..n : i = k + 1 /\ i - 1 = k
      BY <2>2
    <3>2. f[k] \in Nat
      BY <1>6
    <3> QED BY <1>4, <1>6, <2>2, <3>1, <3>2
  <2> QED BY <2>1, <2>2
<1>8. f = [i \in 1..(n + 1) |-> Place(f, i)]
  BY ONLY <1>6, <1>7
<1>9. at = [i \in 1..(n + 1) |-> Place(at, i)]
  BY ONLY <1>8, Zenon
<1>10. Offsets(members) = at
  BY Zenon DEF Offsets, From, Size
<1> HIDE DEF at
<1>11. \A i \in 1..(n + 1) : at[i] = Place(at, i)
  BY ONLY <1>9
<1>12. at[1] = From(1, 0) /\ \A i \in 1..n : at[i + 1] = From(i + 1, at[i] + Size(i))
  <2>1. at[1] = Place(at, 1)
    BY ONLY n \in Nat, <1>11
  <2> SUFFICES ASSUME NEW i \in 1..n PROVE at[i + 1] = From(i + 1, at[i] + Size(i))
    BY <2>1
  <2>2. i + 1 \in 1..(n + 1) /\ i + 1 - 1 = i /\ i + 1 # 1
    OBVIOUS
  <2>3. at[i + 1] = Place(at, i + 1)
    BY ONLY <1>11, <2>2
  <2> QED BY ONLY <2>2, <2>3
<1>13. \A i \in 1..(n + 1) : at[i] \in Nat
  <2> DEFINE bad == {i \in 1..(n + 1) : at[i] \notin Nat}
  <2> SUFFICES ASSUME bad # {} PROVE FALSE
    OBVIOUS
  <2>1. bad \in SUBSET Nat
    OBVIOUS
  <2> HIDE DEF bad
  <2>2. PICK i \in bad : \A k \in bad : i <= k
    BY <2>1, LeastNat
  <2>3. i \in 1..(n + 1) /\ at[i] \notin Nat
    BY ONLY <2>2 DEF bad
  <2>4. i # 1
    BY <1>3, <1>12, <2>3
  <2>5. PICK k \in 1..n : i = k + 1 /\ k \in 1..(n + 1) /\ ~(i <= k)
    BY <2>3, <2>4
  <2>6. at[k] \in Nat
    BY <2>2, <2>5 DEF bad
  <2>7. at[k] + Size(k) \in Nat
    BY <1>1, <2>6
  <2> QED BY <1>2, <1>12, <2>3, <2>5, <2>7, Zenon
<1>14. ASSUME NEW i \in 1..n PROVE at[i] + Size(i) <= at[i + 1]
  <2>1. i \in 1..(n + 1) /\ i + 1 \in 1..(n + 1)
    OBVIOUS
  <2>2. at[i] + Size(i) \in Nat
    BY <1>1, <1>13, <2>1
  <2> QED BY <1>2, <1>12, <2>1, <2>2, Zenon
<1> QED BY <1>10, <1>13, <1>14 DEF Size

\* So that no member begins before the end of an earlier one.
LEMMA OffsetsOrdered ==
  ASSUME NEW members \in Seq(Members), NEW n \in Nat, n = Len(members),
         NEW i \in 1..n, NEW j \in 1..n, i < j
  PROVE  Offsets(members)[i] + Storage(members[i])
           <= Offsets(members)[j]
<1>1. PICK at : at = Offsets(members)
  OBVIOUS
<1> DEFINE Size(k) == Storage(members[k])
<1>2. \A k \in 1..n : Size(k) \in Nat
  <2>1. \A k \in 1..n : members[k] \in Members
    OBVIOUS
  <2> QED BY <2>1, StorageBounds
<1> HIDE DEF Size
<1>3. /\ \A k \in 1..(n + 1) : at[k] \in Nat
      /\ \A k \in 1..n : at[k] + Size(k) <= at[k + 1]
  BY <1>1, OffsetsGrow, Zenon DEF Size
<1> DEFINE bad == {k \in 1..n : i < k /\ ~(at[i] + Size(i) <= at[k])}
<1>4. bad = {}
  <2> SUFFICES ASSUME bad # {} PROVE FALSE
    OBVIOUS
  <2>1. bad \in SUBSET Nat
    OBVIOUS
  <2> HIDE DEF bad
  <2>2. PICK k \in bad : \A l \in bad : k <= l
    BY <2>1, LeastNat
  <2>3. k \in 1..n /\ i < k /\ ~(at[i] + Size(i) <= at[k])
    BY ONLY <2>2 DEF bad
  <2>4. PICK l \in 1..n : k = l + 1 /\ ~(k <= l) /\ i <= l /\ l \in 1..(n + 1) /\ k \in 1..(n + 1)
    BY ONLY n \in Nat, i \in 1..n, <2>3
  <2>5. CASE l = i
    BY ONLY <1>3, <2>3, <2>4, <2>5
  <2>6. CASE i < l
    <3>1. at[i] + Size(i) <= at[l]
      BY ONLY <2>2, <2>4, <2>6 DEF bad
    <3>2. at[l] \in Nat /\ at[k] \in Nat /\ at[l] + Size(l) <= at[k] /\ Size(l) \in Nat
          /\ at[i] \in Nat /\ Size(i) \in Nat
      <4>1. i \in 1..(n + 1)
        BY ONLY n \in Nat, i \in 1..n
      <4> QED BY ONLY <1>2, <1>3, <2>4, <4>1, i \in 1..n
    <3> QED BY ONLY <2>3, <3>1, <3>2
  <2> QED BY ONLY i \in 1..n, l \in 1..n, <2>4, <2>5, <2>6
<1>5. at[i] + Size(i) <= at[j]
  BY <1>4
<1> QED BY <1>1, <1>5 DEF Size

\* A class has a size.
LEMMA SizeIsNat ==
  ASSUME NEW class \in Seq(Members), NEW view
  PROVE  SizeOf(class, view) \in Nat
<1>1. PICK members \in Seq(Members) : members = Declared(class, view)
  BY SelectedElements, Zenon DEF Declared
<1>2. PICK n \in Nat : n = Len(members)
  OBVIOUS
<1>3. PICK end \in Nat : end = Offsets(members)[n + 1]
  <2>1. n + 1 \in 1..(n + 1)
    OBVIOUS
  <2>2. Offsets(members)[n + 1] \in Nat
    BY <1>2, <2>1, OffsetsGrow
  <2> QED BY <2>2
<1> DEFINE S == {1} \cup {Alignment(members[i]) : i \in DOMAIN members}
<1>4. PICK widest \in 1..8 : widest = Max(S)
  <2>1. \A i \in DOMAIN members : Alignment(members[i]) \in 1..8
    <3>1. \A i \in DOMAIN members : members[i] \in Members
      OBVIOUS
    <3> QED BY <3>1, StorageBounds
  <2>2. S \in SUBSET (1..8) /\ S # {}
    BY <2>1
  <2> HIDE DEF S
  <2>3. S \in SUBSET (0..8)
    BY <2>2
  <2>4. Max(S) \in S
    BY <2>2, <2>3, Greatest
  <2> QED BY <2>2, <2>4, Zenon
<1>5. PICK r \in Nat : r = RoundUp(end, widest)
  BY Rounded, Zenon
<1>6. Max({1, r}) \in Nat
  <2> DEFINE T == {1, r}
  <2>1. PICK k \in Nat : k = r + 1
    OBVIOUS
  <2>2. T \in SUBSET (0..k) /\ T # {}
    BY <2>1
  <2> HIDE DEF T
  <2>3. Max(T) \in T
    BY <2>2, Greatest, Zenon
  <2>4. T \in SUBSET Nat
    BY DEF T
  <2>5. Max(T) \in Nat
    BY <2>3, <2>4, Zenon
  <2> QED BY <2>5 DEF T
<1>7. SizeOf(class, view) = Max({1, r})
  BY <1>1, <1>2, <1>3, <1>4, <1>5, Zenon DEF SizeOf
<1> QED BY <1>6, <1>7

\* The plugin reads a member just when it has it where the game has it.
LEMMA ReadRight ==
  ASSUME NEW c \in Classes, NEW field, <<c, field>> \in FieldsRead
  PROVE  Read(c, field) = field <=> CompiledOffset(dll, c, field) = GameOffset(c, field)
<1>1. PICK class \in Seq(Members) : class = Game[c]
  BY MembersAssumption
<1>2. PICK members \in Seq(Members) : members = Declared(class, "game")
  BY SelectedElements, Zenon DEF Declared
<1>3. PICK m \in DOMAIN members :
        /\ members[m].kind # "static"
        /\ {j \in DOMAIN members : members[j].name = field} = {m}
  <2>1. <<c, field>>[1] = c /\ <<c, field>>[2] = field
    OBVIOUS
  <2>2. LET read == <<c, field>>
            found == Declared(Game[read[1]], "game")
        IN \E i \in DOMAIN found :
             /\ found[i].kind # "static"
             /\ {j \in DOMAIN found : found[j].name = read[2]} = {i}
    BY GameAssumption, Zenon
  <2> QED BY <1>1, <1>2, <2>1, <2>2
<1>4. PICK n \in Nat : n = Len(members)
  OBVIOUS
<1>5. m \in 1..n /\ DOMAIN members = 1..n /\ \A k \in 1..n : members[k] \in Members
  BY <1>4
<1>6. /\ members[m].name = field
      /\ \A k \in 1..n : members[k].name = field => k = m
  BY <1>3, <1>5
<1>7. m = CHOOSE i \in DOMAIN members : members[i].name = field
  BY <1>5, <1>6
<1>8. ASSUME NEW k \in 1..n PROVE Storage(members[k]) \in Nat
  <2>1. members[k] \in Members
    BY <1>5
  <2>2. Storage(members[k]) \in 0..8
    BY <2>1, StorageBounds
  <2> QED BY <2>2
<1>9. Storage(members[m]) > 0
  BY <1>3, <1>5, StorageBounds
<1>10. PICK at : at = Offsets(members)
  OBVIOUS
<1>11. GameOffset(c, field) = at[m]
  BY <1>1, <1>2, <1>7, <1>10 DEF GameOffset, OffsetOf
<1>12. PICK place : place = CompiledOffset(dll, c, field)
  OBVIOUS
<1> DEFINE found == {i \in 1..n : at[i] = place /\ Storage(members[i]) > 0}
<1>13. Read(c, field) = IF found = {} THEN "bytes" ELSE members[Max(found)].name
  BY <1>1, <1>2, <1>4, <1>10, <1>12, Zenon DEF Read
<1>14. found # {} => Max(found) \in found
  <2>1. found \in SUBSET (0..n)
    OBVIOUS
  <2> HIDE DEF found
  <2> QED BY <2>1, Greatest
<1>15. CASE place = at[m]
  <2>1. found = {m}
    <3> SUFFICES ASSUME NEW i \in found PROVE i = m
      BY <1>5, <1>9, <1>15
    <3>1. i \in 1..n /\ at[i] = at[m] /\ Storage(members[i]) > 0
      BY <1>15
    <3> HIDE DEF found
    <3>2. at[m] \in Nat
      <4>1. m \in 1..(n + 1)
        BY <1>5
      <4> QED BY <1>4, <1>10, <4>1, OffsetsGrow
    <3>3. CASE i < m
      <4>1. at[i] + Storage(members[i]) <= at[m]
        BY <1>4, <1>5, <1>10, <3>1, <3>3, OffsetsOrdered
      <4> QED BY ONLY <1>8, <3>1, <3>2, <4>1
    <3>4. CASE m < i
      <4>1. at[m] + Storage(members[m]) <= at[i]
        BY <1>4, <1>5, <1>10, <3>1, <3>4, OffsetsOrdered
      <4> QED BY ONLY <1>5, <1>8, <1>9, <3>1, <3>2, <4>1
    <3> QED BY ONLY n \in Nat, <1>5, <3>1, <3>3, <3>4
  <2> QED BY <1>6, <1>11, <1>12, <1>13, <1>14, <1>15, <2>1
<1>16. CASE place # at[m]
  <2>1. field # "bytes"
    BY DEF FieldsRead
  <2>2. ASSUME found # {} PROVE members[Max(found)].name # field
    BY <1>6, <1>14, <1>16, <2>2
  <2> HIDE DEF found
  <2> QED BY <1>11, <1>12, <1>13, <1>16, <2>1, <2>2
<1> QED BY <1>15, <1>16

-----------------------------------------------------------------------------
(* What there is to do *)

OtherKinds == {"ADDR", "RTTI", "FORM", "VTBL", "SKIPPED", "WARN", "RUNTIME", "EXTRA"}
Subjects   == {"vtables", "TESForm", "TESForm(0x07)", "PlayerCharacter", "PlayerCharacter[0]"}
Words == {"OK", "MISMATCH", "NULL", "plausible", "IMPLAUSIBLE"}

LEMMA ClassNames ==
  /\ Classes = {"TESForm", "NiAVObject", "BGSLocation", "TESQuest", "TESObjectREFR", "Actor",
                "Actor::ACTOR_RUNTIME_DATA", "Character", "BaseExtraList", "ExtraDataList",
                "TESObjectCELL", "bhkCharacterState"}
  /\ ReportOrder \in Seq(Classes)
<1>1. 1..12 = {1, 2, 3, 4, 5, 6, 7, 8, 9, 10, 11, 12}
  OBVIOUS
<1>2. Classes = {ReportOrder[i] : i \in {1, 2, 3, 4, 5, 6, 7, 8, 9, 10, 11, 12}}
  BY <1>1 DEF Classes
<1>3. Classes = {"TESForm", "NiAVObject", "BGSLocation", "TESQuest", "TESObjectREFR", "Actor",
                 "Actor::ACTOR_RUNTIME_DATA", "Character", "BaseExtraList", "ExtraDataList",
                 "TESObjectCELL", "bhkCharacterState"}
  BY <1>2 DEF ReportOrder
<1>4. ReportOrder \in Seq(Classes)
  BY <1>3 DEF ReportOrder
<1> QED BY <1>3, <1>4

\* What is ahead once the first of the checks that notice is done.
Later == {"form_type", "race", "extra_list"}

\* While the report of the sizes is written no check has been reached.
LEMMA ReportFirst ==
  ASSUME NEW t \in Seq(Classes)
  PROVE  /\ ~PastRtti(t) /\ ~AtVtable(t)
         /\ t # << >> => Head(t) \in Classes /\ Tail(t) \in Seq(Classes)
         /\ Ahead(t) \notin Later
<1>1. t # << >> => Head(t) \in Classes /\ Tail(t) \in Seq(Classes)
  OBVIOUS
<1>2. t # << >> => Head(t) = t[1]
  OBVIOUS
<1>3. "base" \notin Classes /\ "base_type" \notin Classes /\ "kDataLoaded" \notin Classes
      /\ "vtable" \notin Classes
  BY ClassNames
<1>4. ~PastRtti(t)
  BY <1>1, <1>3 DEF PastRtti
<1>5. ~AtVtable(t)
  BY <1>1, <1>3 DEF AtVtable
<1>6. Ahead(t) \notin Later
  BY <1>1, ClassNames DEF Ahead, Later
<1> QED BY <1>1, <1>4, <1>5, <1>6

\* The step at hand tells what comes after it.
LEMMA TodoAt ==
  ASSUME NEW t, Todo(t), t # << >>
  PROVE  /\ Head(t) = "addresses" => t = <<"addresses", "rtti", "base", "base_type", "kDataLoaded">>
         /\ Head(t) = "rtti" => t = <<"rtti", "base", "base_type", "kDataLoaded">>
         /\ Head(t) = "base" => t = <<"base", "base_type", "kDataLoaded">>
         /\ Head(t) = "base_type" => t = <<"base_type", "kDataLoaded">>
         /\ Head(t) = "kDataLoaded" => t = <<"kDataLoaded">>
         /\ Head(t) \in Classes => t \in Seq(Classes)
         /\ Head(t) \in {"player", "form_id", "form_type", "race", "extra_list", "vtable"}
                           \cup SessionMessages =>
              \E m \in SessionMessages : t \in SessionTodo(m)
<1>1. CASE t \in Seq(Classes)
  <2>1. Head(t) \in Classes
    BY <1>1
  <2> QED BY <1>1, <2>1, ClassNames DEF SessionMessages
<1>2. CASE t \in DataLoadedTodo
  BY <1>2, ClassNames DEF DataLoadedTodo, SessionMessages
<1>3. CASE \E m \in SessionMessages : t \in SessionTodo(m)
  <2>1. Head(t) \in {"player", "form_id", "form_type", "race", "extra_list", "vtable"}
                       \cup SessionMessages
    BY <1>3 DEF SessionTodo
  <2>2. Head(t) \notin Classes
    BY <2>1, ClassNames DEF SessionMessages
  <2> QED BY <1>3, <2>1, <2>2 DEF SessionMessages
<1> QED BY <1>1, <1>2, <1>3 DEF Todo

LEMMA SessionAt ==
  ASSUME NEW m \in SessionMessages, NEW t \in SessionTodo(m)
  PROVE  /\ ~PastRtti(t) /\ ~PastRtti(Tail(t)) /\ t[Len(t)] = m
         /\ Head(t) = "player" =>
              Tail(t) = <<"form_id", "form_type", "race", "extra_list", "vtable", m>>
         /\ Head(t) = "form_id" => Tail(t) = <<"form_type", "race", "extra_list", "vtable", m>>
         /\ Head(t) = "form_type" => Tail(t) = <<"race", "extra_list", "vtable", m>>
         /\ Head(t) = "race" => Tail(t) = <<"extra_list", "vtable", m>>
         /\ Head(t) = "extra_list" => Tail(t) = <<"vtable", m>>
         /\ Head(t) = "vtable" => Tail(t) = <<m>>
         /\ Head(t) # "vtable" => ~AtVtable(t)
         /\ Ahead(Tail(t)) = CASE Head(t) = "player"     -> "form_id"
                               [] Head(t) = "form_id"    -> "form_type"
                               [] Head(t) = "form_type"  -> "race"
                               [] Head(t) = "race"       -> "extra_list"
                               [] Head(t) = "extra_list" -> "vtable"
                               [] Head(t) = "vtable"     -> m
                               [] OTHER                  -> "end"
<1>1. m \in {"kNewGame", "kPostLoadGame"}
  BY DEF SessionMessages
<1>2. CASE t = <<"player", "form_id", "form_type", "race", "extra_list", "vtable", m>>
  <2>1. /\ Head(t) = "player" /\ t[Len(t)] = m
        /\ Tail(t) = <<"form_id", "form_type", "race", "extra_list", "vtable", m>>
    BY <1>2
  <2> QED BY <1>1, <1>2, <2>1 DEF PastRtti, AtVtable, Ahead
<1>3. CASE t = <<"form_id", "form_type", "race", "extra_list", "vtable", m>>
  <2>1. /\ Head(t) = "form_id" /\ t[Len(t)] = m
        /\ Tail(t) = <<"form_type", "race", "extra_list", "vtable", m>>
    BY <1>3
  <2> QED BY <1>1, <1>3, <2>1 DEF PastRtti, AtVtable, Ahead
<1>4. CASE t = <<"form_type", "race", "extra_list", "vtable", m>>
  <2>1. /\ Head(t) = "form_type" /\ t[Len(t)] = m
        /\ Tail(t) = <<"race", "extra_list", "vtable", m>>
    BY <1>4
  <2> QED BY <1>1, <1>4, <2>1 DEF PastRtti, AtVtable, Ahead
<1>5. CASE t = <<"race", "extra_list", "vtable", m>>
  <2>1. /\ Head(t) = "race" /\ t[Len(t)] = m
        /\ Tail(t) = <<"extra_list", "vtable", m>>
    BY <1>5
  <2> QED BY <1>1, <1>5, <2>1 DEF PastRtti, AtVtable, Ahead
<1>6. CASE t = <<"extra_list", "vtable", m>>
  <2>1. /\ Head(t) = "extra_list" /\ t[Len(t)] = m
        /\ Tail(t) = <<"vtable", m>>
    BY <1>6
  <2> QED BY <1>1, <1>6, <2>1 DEF PastRtti, AtVtable, Ahead
<1>7. CASE t = <<"vtable", m>>
  <2>1. /\ Head(t) = "vtable" /\ t[Len(t)] = m
        /\ Tail(t) = <<m>>
    BY <1>7
  <2> QED BY <1>1, <1>7, <2>1 DEF PastRtti, AtVtable, Ahead
<1>8. CASE t = <<m>>
  <2>1. Head(t) = m /\ t[Len(t)] = m /\ Tail(t) = << >>
    BY <1>8
  <2> QED BY <1>1, <1>8, <2>1 DEF PastRtti, AtVtable, Ahead
<1> QED BY <1>2, <1>3, <1>4, <1>5, <1>6, <1>7, <1>8 DEF SessionTodo

-----------------------------------------------------------------------------
(* What is written *)

ElementsOf(lines) == {lines[i] : i \in 1..Len(lines)}

LEMMA Joined ==
  ASSUME NEW S, NEW s \in Seq(S), NEW t \in Seq(S)
  PROVE  s \o t \in Seq(S) /\ ElementsOf(s \o t) = ElementsOf(s) \cup ElementsOf(t)
<1>1. PICK m \in Nat : m = Len(s)
  OBVIOUS
<1>2. PICK n \in Nat : n = Len(t)
  OBVIOUS
<1>3. PICK u \in Seq(S) : u = s \o t
  BY ConcatProperties, Zenon
<1>4. /\ Len(u) = m + n
      /\ \A i \in 1..(m + n) : u[i] = IF i <= m THEN s[i] ELSE t[i - m]
  BY <1>1, <1>2, <1>3
<1>5. \A i \in 1..m : i \in 1..(m + n) /\ u[i] = s[i]
  <2>1. \A i \in 1..m : i \in 1..(m + n) /\ i <= m
    OBVIOUS
  <2> QED BY <1>4, <2>1
<1>6. \A i \in 1..n : m + i \in 1..(m + n) /\ u[m + i] = t[i]
  <2>1. \A i \in 1..n : m + i \in 1..(m + n) /\ ~(m + i <= m) /\ m + i - m = i
    OBVIOUS
  <2> QED BY <1>4, <2>1
<1>7. \A i \in 1..(m + n) : i \in 1..m \/ \E k \in 1..n : i = m + k
  <2> SUFFICES ASSUME NEW i \in 1..(m + n), i \notin 1..m PROVE \E k \in 1..n : i = m + k
    OBVIOUS
  <2>1. i - m \in 1..n /\ i = m + (i - m)
    OBVIOUS
  <2> QED BY <2>1
<1>8. {u[i] : i \in 1..(m + n)} = {s[i] : i \in 1..m} \cup {t[i] : i \in 1..n}
  <2> DEFINE U == {u[i] : i \in 1..(m + n)}
             V == {s[i] : i \in 1..m}
             W == {t[i] : i \in 1..n}
  <2>1. ASSUME NEW x \in U PROVE x \in V \cup W
    <3>1. PICK i \in 1..(m + n) : x = u[i]
      OBVIOUS
    <3>2. CASE i \in 1..m
      BY ONLY <1>5, <3>1, <3>2
    <3>3. CASE \E k \in 1..n : i = m + k
      BY ONLY <1>6, <3>1, <3>3, Zenon
    <3> QED BY ONLY <1>7, <3>2, <3>3, i \in 1..(m + n)
  <2>2. ASSUME NEW x \in V PROVE x \in U
    BY ONLY <1>5, <2>2
  <2>3. ASSUME NEW x \in W PROVE x \in U
    <3>1. PICK k \in 1..n : x = t[k]
      OBVIOUS
    <3>2. PICK i \in 1..(m + n) : u[i] = t[k]
      BY ONLY <1>6, k \in 1..n
    <3> QED BY ONLY <3>1, <3>2
  <2> QED BY ONLY <2>1, <2>2, <2>3, Zenon
<1> QED BY <1>1, <1>2, <1>3, <1>4, <1>8, Zenon DEF ElementsOf

\* One line, and two of them.
LEMMA FewLines ==
  ASSUME NEW S, NEW l \in S, NEW k \in S
  PROVE  /\ << >> \in Seq(S) /\ ElementsOf(<< >>) = {}
         /\ <<l>> \in Seq(S) /\ ElementsOf(<<l>>) = {l}
         /\ <<l, k>> \in Seq(S) /\ ElementsOf(<<l, k>>) = {l, k}
BY DEF ElementsOf

LEMMA LineTyped ==
  ASSUME NEW kind \in OtherKinds, NEW what \in Subjects, NEW said \in Seq(Words)
  PROVE  /\ Line(kind, what, said) \in Lines
         /\ Line(kind, what, said).kind = kind /\ Line(kind, what, said).said = said
BY ClassNames DEF Line, Lines, Words, OtherKinds, Subjects

LEMMA Named ==
  /\ "ADDR" \in OtherKinds /\ "RTTI" \in OtherKinds /\ "FORM" \in OtherKinds
  /\ "VTBL" \in OtherKinds /\ "SKIPPED" \in OtherKinds /\ "WARN" \in OtherKinds
  /\ "RUNTIME" \in OtherKinds /\ "EXTRA" \in OtherKinds
  /\ "vtables" \in Subjects /\ "TESForm" \in Subjects /\ "TESForm(0x07)" \in Subjects
  /\ "PlayerCharacter" \in Subjects /\ "PlayerCharacter[0]" \in Subjects
BY DEF OtherKinds, Subjects

LEMMA WordsTyped ==
  /\ << >> \in Seq(Words)
  /\ \A w \in Words : <<w>> \in Seq(Words)
  /\ \A v, w \in Words : <<v, w>> \in Seq(Words)
  /\ \A b \in BOOLEAN : Verdict(b) \in Words
BY DEF Words, Verdict

\* A line stays true as long as the log is not opened anew.
LEMMA ProperStays ==
  ASSUME UNCHANGED writer, game' = game \/ game' = Off
  PROVE  /\ Right' <=> Right
         /\ \A l : Proper(l) => Proper(l)'
<1>1. Right' <=> Right
  BY DEF Right, Placed, CompiledOffset, GameOffset
<1>2. \A c : Compiled(writer, c)' = Compiled(writer, c)
  BY DEF Compiled
<1>3. ASSUME NEW l PROVE Quiet(l)' <=> Quiet(l)
  BY DEF Quiet
<1>4. ~Off.on
  BY DEF Off
<1> QED BY <1>1, <1>2, <1>3, <1>4 DEF Proper

LEMMA MisplacedStays ==
  ASSUME UNCHANGED <<game, writer>>
  PROVE  \A probe : Misplaced(probe)' <=> Misplaced(probe)
BY DEF Misplaced, Placed, CompiledOffset, GameOffset

\* Lines written on the way to `rest' tell of what the check at hand has noticed, and
\* those of the extra list come after such checks.
Told(lines, rest) ==
  /\ (\E l \in ElementsOf(lines) : l.kind = "EXTRA") => Ahead(todo) = "extra_list"
  /\ \A probe \in Probes :
       Ahead(rest) \in After[probe] =>
         Ahead(todo) \in After[probe]
           \/ (Misplaced(probe) => \E l \in ElementsOf(lines) : Betrays(probe, l))

LEMMA NothingToTell ==
  ASSUME NEW lines, NEW rest, Ahead(rest) \notin Later,
         \A l \in ElementsOf(lines) : l.kind # "EXTRA"
  PROVE  Told(lines, rest)
<1>1. \A probe \in Probes : After[probe] \subseteq Later
  BY DEF Probes, After, Later
<1> QED BY <1>1 DEF Told

\* A step that writes true lines in their turn preserves the invariant.
LEMMA Recorded ==
  ASSUME IInv, game.on, NEW lines \in Seq(Lines), NEW rest, Write(lines, rest),
         \A l \in ElementsOf(lines) : Proper(l),
         Todo(rest),
         blocks = 0 => rest \in Seq(Classes) /\ \A l \in ElementsOf(lines) : l.kind = "LAYOUT",
         PastRtti(rest) => PastRtti(todo) \/ \E l \in ElementsOf(lines) : l.kind = "RTTI",
         (\E l \in ElementsOf(lines) : l.kind = "EXTRA") => AtVtable(rest),
         AtVtable(todo) => AtVtable(rest) \/ \E l \in ElementsOf(lines) : VtableVerdict(l),
         Told(lines, rest)
  PROVE  IInv'
<1>1. /\ log' = log \o lines /\ todo' = rest
      /\ UNCHANGED <<dll, baseline, game, faulted, blocks, done, writer>>
  BY DEF Write
<1>2. log' \in Seq(Lines) /\ Written' = Written \cup ElementsOf(lines)
  <2>1. log \in Seq(Lines)
    BY DEF IInv, StateInv
  <2>2. log \o lines \in Seq(Lines)
        /\ ElementsOf(log \o lines) = ElementsOf(log) \cup ElementsOf(lines)
    BY <2>1, Joined
  <2>3. Written = ElementsOf(log) /\ Written' = ElementsOf(log')
    BY DEF Written, ElementsOf
  <2> QED BY <1>1, <2>2, <2>3
<1>3. /\ Right' <=> Right
      /\ \A l : Proper(l) => Proper(l)'
  BY <1>1, ProperStays
<1>4. \A l : VtableVerdict(l)' <=> VtableVerdict(l)
  BY <1>1 DEF VtableVerdict
<1>5. StateInv'
  <2>1. Todo(rest)' <=> Todo(rest)
    BY DEF Todo
  <2> QED BY <1>1, <1>2, <2>1 DEF IInv, StateInv
<1>6. \A l \in Written' : Proper(l)'
  BY <1>2, <1>3 DEF IInv, LinesInv
<1>7. blocks' = 0 => \A l \in Written' : l.kind = "LAYOUT"
  BY <1>1, <1>2 DEF IInv, LinesInv
<1>8. Right' => ~faulted'
  BY <1>1, <1>3 DEF IInv, LinesInv
<1>9. "kDataLoaded" \in done' \/ PastRtti(todo') => \E l \in Written' : l.kind = "RTTI"
  BY <1>1, <1>2 DEF IInv, LinesInv
<1>10. (\E l \in Written' : l.kind = "EXTRA") =>
         AtVtable(todo') \/ \E l \in Written' : VtableVerdict(l)'
  BY <1>1, <1>2, <1>4 DEF IInv, LinesInv
<1>11. LinesInv'
  BY <1>6, <1>7, <1>8, <1>9, <1>10 DEF LinesInv, AtVtable, PastRtti
<1>12. ASSUME NEW probe \in Probes, Misplaced(probe)',
              (\E l \in Written' : l.kind = "EXTRA") \/ Ahead(todo)' \in After[probe]
       PROVE  \E l \in Written' : Betrays(probe, l)
  <2>1. Misplaced(probe)
    BY <1>1, <1>12, MisplacedStays
  <2>2. /\ \/ \E l \in Written : l.kind = "EXTRA"
           \/ Ahead(todo) \in After[probe]
        => \E l \in Written : Betrays(probe, l)
    BY <2>1 DEF IInv, ShownInv
  <2>3. "extra_list" \in After[probe]
    BY DEF Probes, After
  <2>4. (\E l \in ElementsOf(lines) : l.kind = "EXTRA") => Ahead(todo) \in After[probe]
    BY <2>3 DEF Told
  <2>5. Ahead(todo)' = Ahead(rest)
    BY <1>1 DEF Ahead
  <2>6. Ahead(rest) \in After[probe] =>
          Ahead(todo) \in After[probe] \/ \E l \in ElementsOf(lines) : Betrays(probe, l)
    BY <2>1 DEF Told
  <2> QED BY ONLY <1>2, <1>12, <2>2, <2>4, <2>5, <2>6
<1>13. ShownInv'
  BY <1>12 DEF ShownInv, Betrays
<1> QED BY <1>5, <1>11, <1>13 DEF IInv

-----------------------------------------------------------------------------
(* The steps *)

\* A plugin that is right about the members reads them.
LEMMA RightReads ==
  ASSUME IInv, game.on, Right
  PROVE  /\ \A field \in {"formID", "formType"} :
              Read("TESForm", field) = field /\ AsExpected("TESForm", field)
         /\ Read("Actor::ACTOR_RUNTIME_DATA", "race") = "race"
         /\ Read("TESObjectREFR", "extraList") = "extraList"
<1>1. dll = writer
  BY DEF IInv, StateInv
<1>2. /\ CompiledOffset(dll, "TESForm", "formID") = GameOffset("TESForm", "formID")
      /\ CompiledOffset(dll, "TESForm", "formType") = GameOffset("TESForm", "formType")
      /\ CompiledOffset(dll, "Actor::ACTOR_RUNTIME_DATA", "race")
           = GameOffset("Actor::ACTOR_RUNTIME_DATA", "race")
      /\ CompiledOffset(dll, "TESObjectREFR", "extraList") = GameOffset("TESObjectREFR", "extraList")
  BY <1>1 DEF Right, Placed
<1>3. /\ "TESForm" \in Classes /\ "Actor::ACTOR_RUNTIME_DATA" \in Classes
      /\ "TESObjectREFR" \in Classes
  BY ClassNames
<1>4. /\ <<"TESForm", "formID">> \in FieldsRead /\ <<"TESForm", "formType">> \in FieldsRead
      /\ <<"Actor::ACTOR_RUNTIME_DATA", "race">> \in FieldsRead
      /\ <<"TESObjectREFR", "extraList">> \in FieldsRead
  BY DEF FieldsRead
<1>5. Read("TESForm", "formID") = "formID" /\ Read("TESForm", "formType") = "formType"
  BY <1>2, <1>3, <1>4, ReadRight
<1>6. /\ Read("Actor::ACTOR_RUNTIME_DATA", "race") = "race"
      /\ Read("TESObjectREFR", "extraList") = "extraList"
  BY <1>2, <1>3, <1>4, ReadRight
<1> QED BY <1>5, <1>6 DEF AsExpected

\* One that is wrong about them reads something else, or nothing.
LEMMA MisplacedReads ==
  ASSUME IInv, game.on
  PROVE  /\ Misplaced("form_id") => ~AsExpected("TESForm", "formID")
         /\ Misplaced("form_type") => ~AsExpected("TESForm", "formType")
         /\ Misplaced("race") =>
              ~game.lucky /\ Read("Actor::ACTOR_RUNTIME_DATA", "race") # "race"
<1>1. dll = writer
  BY DEF IInv, StateInv
<1>2. "TESForm" \in Classes /\ "Actor::ACTOR_RUNTIME_DATA" \in Classes
  BY ClassNames
<1>3. /\ <<"TESForm", "formID">> \in FieldsRead /\ <<"TESForm", "formType">> \in FieldsRead
      /\ <<"Actor::ACTOR_RUNTIME_DATA", "race">> \in FieldsRead
  BY DEF FieldsRead
<1>4. /\ Read("TESForm", "formID") = "formID" => Placed(writer, "TESForm", "formID")
      /\ Read("TESForm", "formType") = "formType" => Placed(writer, "TESForm", "formType")
  BY <1>1, <1>2, <1>3, ReadRight DEF Placed
<1>5. Read("Actor::ACTOR_RUNTIME_DATA", "race") = "race"
        => Placed(writer, "Actor::ACTOR_RUNTIME_DATA", "race")
  BY <1>1, <1>2, <1>3, ReadRight DEF Placed
<1> QED BY <1>4, <1>5 DEF Misplaced, AsExpected

\* Only a plugin that is wrong about them dies of what it reads.
LEMMA FaultStep ==
  ASSUME IInv, game.on, ~Right, Fault
  PROVE  IInv'
<1>1. /\ faulted' = TRUE /\ game' = Off /\ todo' = << >>
      /\ UNCHANGED <<dll, baseline, blocks, done, log, writer>>
  BY DEF Fault
<1>2. /\ Right' <=> Right
      /\ \A l : Proper(l) => Proper(l)'
  BY <1>1, ProperStays
<1>3. ~Off.on /\ << >> \in Seq(Classes)
  BY DEF Off
<1>4. Written' = Written
  BY <1>1 DEF Written
<1>5. StateInv'
  BY <1>1, <1>3 DEF IInv, StateInv, Todo
<1>6. LinesInv'
  BY <1>1, <1>2, <1>3, <1>4 DEF IInv, LinesInv
<1>7. ShownInv'
  BY <1>1, <1>3 DEF ShownInv
<1> QED BY <1>5, <1>6, <1>7 DEF IInv

\* The report of one class: a line with the size this plugin was compiled with.
LEMMA LayoutStep ==
  ASSUME IInv, NEW c \in Classes, LogCompileTimeLayout(c)
  PROVE  IInv'
<1> DEFINE l == [kind |-> "LAYOUT", what |-> c, size |-> Compiled(dll, c), said |-> << >>]
<1>1. game.on /\ todo # << >> /\ Head(todo) = c /\ Write(<<l>>, Tail(todo))
  BY DEF LogCompileTimeLayout, Do, At
<1>2. Compiled(dll, c) \in Nat
  <2>1. Header[dll.revision][c] \in Seq(Members)
    BY MembersAssumption DEF IInv, StateInv, Dlls
  <2> QED BY <2>1, SizeIsNat DEF Compiled
<1>3. l \in Lines /\ l.kind = "LAYOUT"
  BY <1>2 DEF Lines
<1>4. Proper(l)
  BY <1>1 DEF Proper, Quiet, IInv, StateInv
<1> HIDE DEF l
<1>5. <<l>> \in Seq(Lines) /\ ElementsOf(<<l>>) = {l}
  BY <1>3, FewLines, Zenon
<1>6. todo \in Seq(Classes)
  BY <1>1, TodoAt DEF IInv, StateInv
<1>7. ~AtVtable(todo) /\ Tail(todo) \in Seq(Classes) /\ ~PastRtti(Tail(todo))
  BY <1>1, <1>6, ReportFirst, Zenon
<1>8. Todo(Tail(todo))
  BY <1>7 DEF Todo
<1>9. Told(<<l>>, Tail(todo))
  BY <1>3, <1>5, <1>7, ReportFirst, NothingToTell, Zenon
<1> QED BY <1>1, <1>3, <1>4, <1>5, <1>7, <1>8, <1>9, Recorded, Zenon

\* The two lines of CheckLiveForm: whatever is there, the bytes are what the
\* accessor returns.
LEMMA LiveForm ==
  ASSUME NEW what \in Subjects
  PROVE  /\ CheckLiveForm(what) \in Seq(Lines)
         /\ \A l \in ElementsOf(CheckLiveForm(what)) : Proper(l) /\ l.kind \in {"FORM", "VTBL"}
<1>1. "OK" \in Words /\ Verdict(TRUE) = "OK"
  BY DEF Words, Verdict
<1>2. <<"OK", "OK">> \in Seq(Words) /\ << >> \in Seq(Words)
  BY <1>1, WordsTyped
<1>3. "FORM" \in OtherKinds /\ "VTBL" \in OtherKinds
  BY Named
<1> DEFINE l == Line("FORM", what, <<"OK", "OK">>)
           k == Line("VTBL", what, << >>)
<1>4. l \in Lines
  BY <1>2, <1>3, LineTyped, Zenon
<1>5. k \in Lines
  BY <1>2, <1>3, LineTyped, Zenon
<1>6. l.kind = "FORM" /\ l.said = <<"OK", "OK">>
  BY DEF Line
<1>7. k.kind = "VTBL"
  BY DEF Line
<1>8. CheckLiveForm(what) = <<l, k>>
  BY <1>1, Zenon DEF CheckLiveForm
<1> HIDE DEF l, k
<1>9. Proper(l) /\ Proper(k)
  BY <1>6, <1>7 DEF Proper, Quiet
<1>10. <<l, k>> \in Seq(Lines) /\ ElementsOf(<<l, k>>) = {l, k}
  BY <1>4, <1>5 DEF ElementsOf
<1> QED BY <1>6, <1>7, <1>8, <1>9, <1>10

\* The checks of kDataLoaded.
LEMMA DataLoadedStep ==
  ASSUME IInv, DataLoaded
  PROVE  IInv'
<1>1. ASSUME game.on, todo \in DataLoadedTodo PROVE blocks # 0 /\ ~AtVtable(todo)
  <2>1. todo \notin Seq(Classes)
    <3>1. todo # << >> /\ Head(todo) \in {"addresses", "rtti", "base", "base_type", "kDataLoaded"}
      BY <1>1 DEF DataLoadedTodo
    <3> QED BY <3>1, ReportFirst, ClassNames
  <2>2. ~AtVtable(todo)
    BY <1>1 DEF DataLoadedTodo, AtVtable
  <2> QED BY <2>1, <2>2 DEF IInv, StateInv
<1>2. CASE LogResolvedAddresses
  <2> DEFINE l == Line("ADDR", "vtables", << >>)
  <2>1. game.on /\ Write(<<l>>, Tail(todo)) /\ todo # << >> /\ Head(todo) = "addresses"
    BY <1>2 DEF LogResolvedAddresses, At, Do
  <2>2. todo = <<"addresses", "rtti", "base", "base_type", "kDataLoaded">>
    BY <2>1, TodoAt DEF IInv, StateInv
  <2>3. /\ Todo(Tail(todo)) /\ ~PastRtti(Tail(todo)) /\ todo \in DataLoadedTodo
        /\ Ahead(Tail(todo)) \notin Later
    BY <2>2 DEF Todo, DataLoadedTodo, PastRtti, Ahead, Later
  <2>4. l \in Lines /\ l.kind = "ADDR"
    <3>1. "ADDR" \in OtherKinds /\ "vtables" \in Subjects /\ << >> \in Seq(Words)
      BY Named, WordsTyped
    <3> QED BY <3>1, LineTyped, Zenon
  <2> HIDE DEF l
  <2>5. Proper(l)
    BY <2>4 DEF Proper, Quiet
  <2>6. <<l>> \in Seq(Lines) /\ ElementsOf(<<l>>) = {l}
    BY <2>4, FewLines, Zenon
  <2>7. Told(<<l>>, Tail(todo))
    BY <2>3, <2>4, <2>6, NothingToTell
  <2> QED BY <1>1, <2>1, <2>3, <2>4, <2>5, <2>6, <2>7, Recorded, Zenon
<1>3. CASE CheckRtti
  <2> DEFINE l == Line("RTTI", "TESForm", <<Verdict(RttiNameOk)>>)
  <2>1. game.on /\ Write(<<l>>, Tail(todo)) /\ todo # << >> /\ Head(todo) = "rtti"
    BY <1>3 DEF CheckRtti, At, Do
  <2>2. todo = <<"rtti", "base", "base_type", "kDataLoaded">>
    BY <2>1, TodoAt DEF IInv, StateInv
  <2>3. /\ Todo(Tail(todo)) /\ todo \in DataLoadedTodo /\ Ahead(Tail(todo)) \notin Later
    BY <2>2 DEF Todo, DataLoadedTodo, Ahead, Later
  <2>4. l \in Lines /\ l.kind = "RTTI" /\ l.said = <<Verdict(RttiNameOk)>>
    <3>1. RttiNameOk \in BOOLEAN
      BY DEF RttiNameOk
    <3>2. "RTTI" \in OtherKinds /\ "TESForm" \in Subjects
          /\ <<Verdict(RttiNameOk)>> \in Seq(Words)
      BY <3>1, Named, WordsTyped
    <3> QED BY <3>2, LineTyped, Zenon
  <2> HIDE DEF l
  <2>5. Proper(l)
    BY <2>4 DEF Proper, Quiet, RttiNameOk
  <2>6. <<l>> \in Seq(Lines) /\ ElementsOf(<<l>>) = {l}
    BY <2>4, FewLines, Zenon
  <2>7. Told(<<l>>, Tail(todo))
    BY <2>3, <2>4, <2>6, NothingToTell
  <2> QED BY <1>1, <2>1, <2>3, <2>4, <2>5, <2>6, <2>7, Recorded, Zenon
<1>4. ASSUME NEW found \in BOOLEAN, CheckBase(found) PROVE IInv'
  <2>1. game.on /\ todo # << >> /\ Head(todo) = "base"
    BY <1>4 DEF CheckBase, At
  <2>2. todo = <<"base", "base_type", "kDataLoaded">>
    BY <2>1, TodoAt DEF IInv, StateInv
  <2>3. /\ todo \in DataLoadedTodo /\ PastRtti(todo)
        /\ Todo(Tail(todo)) /\ Todo(<<todo[Len(todo)]>>)
        /\ Ahead(Tail(todo)) \notin Later /\ Ahead(<<todo[Len(todo)]>>) \notin Later
    <3>1. Tail(todo) = <<"base_type", "kDataLoaded">> /\ <<todo[Len(todo)]>> = <<"kDataLoaded">>
      BY <2>2
    <3> QED BY <2>2, <3>1 DEF Todo, DataLoadedTodo, PastRtti, Ahead, Later
  <2>4. PICK lines \in Seq(Lines), rest \in {Tail(todo), <<todo[Len(todo)]>>} :
          /\ Write(lines, rest)
          /\ \A l \in ElementsOf(lines) : Proper(l) /\ l.kind # "EXTRA"
    <3>1. CASE found
      <4>1. PICK lines \in Seq(Lines) :
              /\ lines = CheckLiveForm("TESForm(0x07)")
              /\ \A l \in ElementsOf(lines) : Proper(l) /\ l.kind \in {"FORM", "VTBL"}
        BY LiveForm, Named
      <4>2. Write(lines, Tail(todo))
        BY <1>4, <3>1, <4>1 DEF CheckBase, Do
      <4> QED BY <4>1, <4>2
    <3>2. CASE ~found
      <4> DEFINE l == Skipped("TESForm(0x07)")
      <4>1. l \in Lines /\ l.kind = "SKIPPED"
        <5>1. "SKIPPED" \in OtherKinds /\ "TESForm(0x07)" \in Subjects /\ << >> \in Seq(Words)
          BY Named, WordsTyped
        <5> QED BY <5>1, LineTyped, Zenon DEF Skipped
      <4>2. Write(<<l>>, <<todo[Len(todo)]>>)
        BY <1>4, <3>2 DEF CheckBase
      <4> HIDE DEF l
      <4>3. Proper(l)
        BY <4>1 DEF Proper, Quiet
      <4>4. <<l>> \in Seq(Lines) /\ ElementsOf(<<l>>) = {l}
        BY <4>1, FewLines, Zenon
      <4> QED BY <4>1, <4>2, <4>3, <4>4, Zenon
    <3> QED BY <3>1, <3>2
  <2>5. Todo(rest) /\ Told(lines, rest)
    BY <2>3, <2>4, NothingToTell, Zenon
  <2> QED BY ONLY IInv, <1>1, <2>1, <2>3, <2>4, <2>5, Recorded
<1>5. CASE CheckBaseType
  <2> DEFINE l == Line("WARN", "TESForm(0x07)", << >>)
             lines == IF AsExpected("TESForm", "formType") THEN << >> ELSE <<l>>
  <2>1. game.on /\ todo # << >> /\ Head(todo) = "base_type" /\ Write(lines, Tail(todo))
    BY <1>5 DEF CheckBaseType, At, WarnUnlessExpected, Do
  <2>2. todo = <<"base_type", "kDataLoaded">>
    BY <2>1, TodoAt DEF IInv, StateInv
  <2>3. /\ Todo(Tail(todo)) /\ PastRtti(todo) /\ todo \in DataLoadedTodo
        /\ Ahead(Tail(todo)) \notin Later
    BY <2>2 DEF Todo, DataLoadedTodo, PastRtti, Ahead, Later
  <2>4. l \in Lines /\ l.kind = "WARN"
    <3>1. "WARN" \in OtherKinds /\ "TESForm(0x07)" \in Subjects /\ << >> \in Seq(Words)
      BY Named, WordsTyped
    <3> QED BY <3>1, LineTyped, Zenon
  <2> HIDE DEF l
  <2>5. ~AsExpected("TESForm", "formType") => Proper(l)
    BY <2>1, <2>4, RightReads DEF Proper
  <2>6. /\ lines \in Seq(Lines)
        /\ \A k \in ElementsOf(lines) : k = l /\ ~AsExpected("TESForm", "formType")
    <3>1. ElementsOf(<< >>) = {} /\ << >> \in Seq(Lines)
      BY <2>4, FewLines, Zenon
    <3>2. ElementsOf(<<l>>) = {l} /\ <<l>> \in Seq(Lines)
      BY <2>4, FewLines, Zenon
    <3>3. CASE AsExpected("TESForm", "formType")
      BY <3>1, <3>3
    <3>4. CASE ~AsExpected("TESForm", "formType")
      BY <3>2, <3>4
    <3> QED BY ONLY <3>3, <3>4
  <2>7. Told(lines, Tail(todo))
    BY <2>3, <2>4, <2>6, NothingToTell
  <2> QED BY <1>1, <2>1, <2>3, <2>4, <2>5, <2>6, <2>7, Recorded, Zenon
<1> QED BY <1>2, <1>3, <1>4, <1>5 DEF DataLoaded

\* The checks of the player, which a game may not survive whose plugin is wrong.
LEMMA GameSessionStep ==
  ASSUME IInv, GameSessionReady
  PROVE  IInv'
<1>1. ASSUME NEW step \in {"player", "form_id", "form_type", "race", "extra_list", "vtable"},
             At(step)
      PROVE  /\ game.on /\ Head(todo) = step /\ blocks # 0 /\ ~PastRtti(Tail(todo))
             /\ Todo(Tail(todo)) /\ Todo(<<todo[Len(todo)]>>) /\ ~PastRtti(<<todo[Len(todo)]>>)
             /\ step # "vtable" => ~AtVtable(todo)
             /\ step = "extra_list" => AtVtable(Tail(todo))
             /\ Ahead(todo) = step /\ Ahead(<<todo[Len(todo)]>>) \notin Later
             /\ step = "player" => Ahead(Tail(todo)) \notin Later
             /\ step = "form_id" => Ahead(Tail(todo)) = "form_type"
             /\ step = "form_type" => Ahead(Tail(todo)) = "race"
             /\ step = "race" => Ahead(Tail(todo)) = "extra_list"
             /\ step = "extra_list" => Ahead(Tail(todo)) \notin Later
             /\ step = "vtable" => Ahead(Tail(todo)) \notin Later
  <2>1. game.on /\ todo # << >> /\ Head(todo) = step
    BY <1>1 DEF At
  <2>2. PICK m \in SessionMessages : todo \in SessionTodo(m)
    BY <2>1, TodoAt DEF IInv, StateInv
  <2>3. todo \notin Seq(Classes)
    BY <2>1, ReportFirst, ClassNames
  <2>4. Tail(todo) \in SessionTodo(m) /\ <<todo[Len(todo)]>> \in SessionTodo(m)
    <3>1. todo[Len(todo)] = m /\ <<m>> \in SessionTodo(m)
      BY <2>2, SessionAt, Zenon DEF SessionTodo
    <3>2. Tail(todo) \in SessionTodo(m)
      BY <2>1, <2>2, SessionAt, Zenon DEF SessionTodo
    <3> QED BY <3>1, <3>2
  <2>5. blocks # 0
    BY <2>3 DEF IInv, StateInv
  <2>6. ~PastRtti(Tail(todo)) /\ ~PastRtti(<<todo[Len(todo)]>>)
    BY <2>4, SessionAt
  <2>7. Todo(Tail(todo)) /\ Todo(<<todo[Len(todo)]>>)
    BY <2>4 DEF Todo
  <2>8. step # "vtable" => ~AtVtable(todo)
    BY <2>1, <2>2, SessionAt
  <2>9. step = "extra_list" => AtVtable(Tail(todo))
    BY <2>1, <2>2, SessionAt DEF AtVtable
  <2>10. Ahead(todo) = step /\ Ahead(<<todo[Len(todo)]>>) \notin Later
    <3>1. todo[Len(todo)] = m
      BY <2>2, SessionAt
    <3> QED BY <2>1, <3>1 DEF Ahead, Later, SessionMessages
  <2>11. /\ step = "player" => Ahead(Tail(todo)) \notin Later
         /\ step = "form_id" => Ahead(Tail(todo)) = "form_type"
         /\ step = "form_type" => Ahead(Tail(todo)) = "race"
         /\ step = "race" => Ahead(Tail(todo)) = "extra_list"
         /\ step = "extra_list" => Ahead(Tail(todo)) \notin Later
         /\ step = "vtable" => Ahead(Tail(todo)) \notin Later
    BY <2>1, <2>2, SessionAt DEF Later, SessionMessages
  <2> QED BY <2>1, <2>5, <2>6, <2>7, <2>8, <2>9, <2>10, <2>11
\* A line that is no extra list's, and what comes next.
<1>2. ASSUME NEW step \in {"player", "form_id", "form_type", "race"}, At(step),
             NEW lines \in Seq(Lines), NEW rest \in {Tail(todo), <<todo[Len(todo)]>>},
             Write(lines, rest),
             \A l \in ElementsOf(lines) : Proper(l) /\ l.kind # "EXTRA",
             Told(lines, rest)
      PROVE  IInv'
  <2>1. /\ game.on /\ blocks # 0 /\ ~PastRtti(rest) /\ Todo(rest) /\ ~AtVtable(todo)
    BY <1>1, <1>2, Zenon
  <2> QED BY ONLY IInv, <1>2, <2>1, Recorded
<1>3. ASSUME NEW found \in BOOLEAN, CheckPlayer(found) PROVE IInv'
  <2>1. At("player")
    BY <1>3 DEF CheckPlayer
  <2>2. CASE found
    <3>1. PICK lines \in Seq(Lines) :
            /\ lines = CheckLiveForm("PlayerCharacter")
            /\ \A l \in ElementsOf(lines) : Proper(l) /\ l.kind \in {"FORM", "VTBL"}
      BY LiveForm, Named
    <3>2. Write(lines, Tail(todo))
      BY <1>3, <2>2, <3>1 DEF CheckPlayer, Do
    <3>3. Told(lines, Tail(todo))
      BY <1>1, <2>1, <3>1, NothingToTell
    <3> QED BY <1>2, <2>1, <3>1, <3>2, <3>3
  <2>3. CASE ~found
    <3> DEFINE l == Skipped("PlayerCharacter")
    <3>1. l \in Lines
      <4>1. "SKIPPED" \in OtherKinds /\ "PlayerCharacter" \in Subjects /\ << >> \in Seq(Words)
        BY Named, WordsTyped
      <4> QED BY <4>1, LineTyped, Zenon DEF Skipped
    <3>2. l.kind = "SKIPPED"
      BY DEF Skipped, Line
    <3>3. Write(<<l>>, <<todo[Len(todo)]>>)
      BY <1>3, <2>3 DEF CheckPlayer
    <3> HIDE DEF l
    <3>4. Proper(l)
      BY <3>2 DEF Proper, Quiet
    <3>5. <<l>> \in Seq(Lines) /\ ElementsOf(<<l>>) = {l}
      BY <3>1, FewLines, Zenon
    <3>6. Told(<<l>>, <<todo[Len(todo)]>>)
      BY <1>1, <2>1, <3>2, <3>5, NothingToTell
    <3> QED BY <1>2, <2>1, <3>2, <3>3, <3>4, <3>5, <3>6, Zenon
  <2> QED BY <2>2, <2>3
<1>4. CASE CheckPlayerID \/ CheckPlayerType
  <2> DEFINE l == Line("WARN", "PlayerCharacter", << >>)
  <2>1. PICK field \in {"formID", "formType"}, step \in {"form_id", "form_type"} :
          /\ At(step) /\ Write(IF AsExpected("TESForm", field) THEN << >> ELSE <<l>>, Tail(todo))
          /\ step = "form_id" => field = "formID"
          /\ step = "form_type" => field = "formType"
    BY <1>4 DEF CheckPlayerID, CheckPlayerType, WarnUnlessExpected, Do
  <2>2. l \in Lines
    <3>1. "WARN" \in OtherKinds /\ "PlayerCharacter" \in Subjects /\ << >> \in Seq(Words)
      BY Named, WordsTyped
    <3> QED BY <3>1, LineTyped, Zenon
  <2>3. l.kind = "WARN" /\ l.what = "PlayerCharacter"
    BY DEF Line
  <2> HIDE DEF l
  \* The check at hand is done; those before it have told.
  <2>4. /\ Ahead(todo) = step
        /\ \A probe \in Probes : Ahead(Tail(todo)) \in After[probe] =>
             Ahead(todo) \in After[probe] \/ probe = step
    <3>1. CASE step = "form_id"
      <4>1. Ahead(todo) = "form_id" /\ Ahead(Tail(todo)) = "form_type"
        BY <1>1, <2>1, <3>1
      <4> QED BY <3>1, <4>1 DEF Probes, After
    <3>2. CASE step = "form_type"
      <4>1. Ahead(todo) = "form_type" /\ Ahead(Tail(todo)) = "race"
        BY <1>1, <2>1, <3>2
      <4> QED BY <3>2, <4>1 DEF Probes, After
    <3> QED BY <3>1, <3>2
  <2>5. CASE AsExpected("TESForm", field)
    <3>1. ElementsOf(<< >>) = {} /\ << >> \in Seq(Lines) /\ Write(<< >>, Tail(todo))
      BY <2>1, <2>2, <2>5, FewLines, Zenon
    <3>2. ~Misplaced(step)
      BY <2>1, <2>5, MisplacedReads DEF At
    <3>3. Told(<< >>, Tail(todo))
      BY <2>4, <3>1, <3>2 DEF Told
    <3> QED BY <1>2, <2>1, <3>1, <3>3, Zenon
  <2>6. CASE ~AsExpected("TESForm", field)
    <3>1. ElementsOf(<<l>>) = {l} /\ <<l>> \in Seq(Lines)
      BY <2>2, FewLines, Zenon
    <3>2. ~Right
      BY <2>1, <2>6, RightReads DEF At
    <3>3. Proper(l) /\ l.kind # "EXTRA"
      BY <2>3, <3>2 DEF Proper
    <3>4. Write(<<l>>, Tail(todo))
      BY <2>1, <2>6
    <3>5. Betrays(step, l)
      BY <2>1, <2>3 DEF Betrays
    <3>6. Told(<<l>>, Tail(todo))
      BY <2>4, <3>1, <3>3, <3>5 DEF Told
    <3> QED BY <1>2, <2>1, <3>1, <3>3, <3>4, <3>6, Zenon
  <2> QED BY <2>5, <2>6
<1>5. ASSUME NEW race \in RacesRead, CheckRace(race) PROVE IInv'
  <2> DEFINE said == CASE race = "NULL" -> "NULL"
                       [] RaceOk(race)  -> "plausible"
                       [] OTHER         -> "IMPLAUSIBLE"
             l == Line("RUNTIME", "PlayerCharacter", <<said>>)
  <2>1. At("race") /\ game.on
    BY <1>5 DEF CheckRace, At
  <2>2. CASE Write(<<l>>, Tail(todo))
    <3>1. said \in Words
      BY DEF Words
    <3>2. Right => said \in {"NULL", "plausible"}
      BY <1>5, <2>1, RightReads DEF RaceOk, RacesRead
    <3>3. Misplaced("race") => said # "plausible"
      BY <1>5, <2>1, MisplacedReads DEF RaceOk, RacesRead
    <3> HIDE DEF said
    <3>4. l \in Lines
      <4>1. "RUNTIME" \in OtherKinds /\ "PlayerCharacter" \in Subjects /\ <<said>> \in Seq(Words)
        BY <3>1, Named, WordsTyped
      <4> QED BY <4>1, LineTyped, Zenon
    <3>5. l.kind = "RUNTIME" /\ l.said = <<said>>
      BY DEF Line
    <3> HIDE DEF l
    <3>6. Proper(l)
      BY <3>2, <3>5 DEF Proper, Quiet
    <3>7. <<l>> \in Seq(Lines) /\ ElementsOf(<<l>>) = {l}
      BY <3>4, FewLines, Zenon
    <3>8. Misplaced("race") => Betrays("race", l)
      BY <3>3, <3>5 DEF Betrays
    <3>9. Ahead(todo) = "race" /\ Ahead(Tail(todo)) = "extra_list"
      BY <1>1, <2>1
    <3>10. \A probe \in Probes : probe = "race" \/ "race" \in After[probe]
      BY DEF Probes, After
    <3>11. Told(<<l>>, Tail(todo))
      BY <3>5, <3>7, <3>8, <3>9, <3>10 DEF Told
    <3> QED BY <1>2, <2>1, <2>2, <3>5, <3>6, <3>7, <3>11, Zenon
  <2>3. CASE race = "bytes" /\ Fault
    <3>1. ~Right
      BY <2>1, <2>3, RightReads DEF RacesRead
    <3> QED BY <2>1, <2>3, <3>1, FaultStep
  <2> QED BY <1>5, <2>2, <2>3 DEF CheckRace, Do
<1>6. CASE WalkExtraList
  <2> DEFINE l == Line("EXTRA", "PlayerCharacter", << >>)
  <2>1. At("extra_list") /\ game.on
    BY <1>6 DEF WalkExtraList, At
  <2>2. CASE Write(<<l>>, Tail(todo))
    <3>1. l \in Lines
      <4>1. "EXTRA" \in OtherKinds /\ "PlayerCharacter" \in Subjects /\ << >> \in Seq(Words)
        BY Named, WordsTyped
      <4> QED BY <4>1, LineTyped, Zenon
    <3>2. l.kind = "EXTRA"
      BY DEF Line
    <3> HIDE DEF l
    <3>3. Proper(l)
      BY <3>2 DEF Proper, Quiet
    <3>4. <<l>> \in Seq(Lines) /\ ElementsOf(<<l>>) = {l}
      BY <3>1, FewLines, Zenon
    <3>5. /\ blocks # 0 /\ ~PastRtti(Tail(todo)) /\ Todo(Tail(todo)) /\ ~AtVtable(todo)
          /\ AtVtable(Tail(todo)) /\ Ahead(todo) = "extra_list" /\ Ahead(Tail(todo)) \notin Later
      BY <1>1, <2>1
    <3>6. \A probe \in Probes : After[probe] \subseteq Later
      BY DEF Probes, After, Later
    <3>7. Told(<<l>>, Tail(todo))
      BY <3>5, <3>6 DEF Told
    <3> QED BY <2>1, <2>2, <3>2, <3>3, <3>4, <3>5, <3>7, Recorded, Zenon
  <2>3. CASE Read("TESObjectREFR", "extraList") # "extraList" /\ Fault
    <3>1. ~Right
      BY <2>1, <2>3, RightReads
    <3> QED BY <2>1, <2>3, <3>1, FaultStep
  <2> QED BY <1>6, <2>2, <2>3 DEF WalkExtraList, Do
<1>7. CASE CheckVtable
  <2> DEFINE ok == Verdict("VTABLE_PlayerCharacter" \notin game.wrong)
             l == Line("ADDR", "PlayerCharacter[0]", << >>)
             k == Line("VTBL", "PlayerCharacter", <<ok>>)
  <2>1. At("vtable") /\ game.on /\ Write(<<l, k>>, Tail(todo))
    BY <1>7 DEF CheckVtable, Do, At
  <2>2. ok \in Words /\ <<ok>> \in Seq(Words)
    BY WordsTyped, Zenon
  <2>3. l \in Lines /\ k \in Lines
    <3>1. /\ "ADDR" \in OtherKinds /\ "PlayerCharacter[0]" \in Subjects /\ << >> \in Seq(Words)
          /\ "VTBL" \in OtherKinds /\ "PlayerCharacter" \in Subjects
      BY Named, WordsTyped
    <3>2. l \in Lines
      BY <3>1, LineTyped, Zenon
    <3> HIDE DEF ok
    <3>3. k \in Lines
      BY <2>2, <3>1, LineTyped, Zenon
    <3> QED BY <3>2, <3>3
  <2>4. l.kind = "ADDR"
    BY DEF Line
  <2>5. k.kind = "VTBL" /\ k.said = <<ok>>
    BY DEF Line
  <2> HIDE DEF l, k
  <2>6. VtableVerdict(k)
    BY <2>5 DEF VtableVerdict
  <2>7. Proper(l) /\ Proper(k)
    BY <2>4, <2>5 DEF Proper, Quiet
  <2>8. <<l, k>> \in Seq(Lines) /\ ElementsOf(<<l, k>>) = {l, k}
    BY <2>3 DEF ElementsOf
  <2>9. blocks # 0 /\ ~PastRtti(Tail(todo)) /\ Todo(Tail(todo)) /\ Ahead(Tail(todo)) \notin Later
    BY <1>1, <2>1
  <2>10. Told(<<l, k>>, Tail(todo))
    BY <2>4, <2>5, <2>8, <2>9, NothingToTell
  <2> QED BY ONLY IInv, <2>1, <2>4, <2>5, <2>6, <2>7, <2>8, <2>9, <2>10, Recorded, Zenon
<1> QED BY <1>3, <1>4, <1>5, <1>6, <1>7 DEF GameSessionReady

\* A sequence given as one with an element at its end.
LEMMA AppendedIs ==
  ASSUME NEW S, NEW s \in Seq(S), NEW t \in Seq(S), NEW m \in S, NEW n \in Nat,
         Len(s) = n, Len(t) = n + 1, \A i \in 1..n : t[i] = s[i], t[n + 1] = m
  PROVE  Append(s, m) = t
<1>1. PICK u : u = Append(s, m)
  OBVIOUS
<1>2. /\ u \in Seq(S) /\ Len(u) = Len(s) + 1
      /\ (\A i \in 1..Len(s) : u[i] = s[i]) /\ u[Len(s) + 1] = m
  <2>1. /\ Append(s, m) \in Seq(S) /\ Len(Append(s, m)) = Len(s) + 1
        /\ \A i \in 1..Len(s) : Append(s, m)[i] = s[i]
        /\ Append(s, m)[Len(s) + 1] = m
    BY Appended
  <2> QED BY ONLY <1>1, <2>1, Zenon
<1>3. u \in Seq(S) /\ Len(u) = n + 1 /\ (\A i \in 1..n : u[i] = s[i]) /\ u[n + 1] = m
  BY <1>2, Zenon
<1>4. \A i \in 1..(n + 1) : i \in 1..n \/ i = n + 1
  OBVIOUS
<1>5. \A i \in 1..(n + 1) : u[i] = t[i]
  BY ONLY <1>3, <1>4, \A i \in 1..n : t[i] = s[i], t[n + 1] = m
<1>6. u = t
  BY <1>3, <1>5, SeqEqual
<1> QED BY <1>1, <1>6

LEMMA Listed ==
  ASSUME NEW m
  PROVE  /\ Append(<<"addresses", "rtti", "base", "base_type">>, m)
              = <<"addresses", "rtti", "base", "base_type", m>>
         /\ Append(<<"player", "form_id", "form_type", "race", "extra_list", "vtable">>, m)
              = <<"player", "form_id", "form_type", "race", "extra_list", "vtable", m>>
<1>1. Append(<<"addresses", "rtti", "base", "base_type">>, m)
        = <<"addresses", "rtti", "base", "base_type", m>>
  <2> DEFINE S == {"addresses", "rtti", "base", "base_type", m}
             s == <<"addresses", "rtti", "base", "base_type">>
             t == <<"addresses", "rtti", "base", "base_type", m>>
  <2>1. s \in Seq(S) /\ t \in Seq(S) /\ m \in S
    OBVIOUS
  <2>2. Len(s) = 4 /\ Len(t) = 4 + 1
    OBVIOUS
  <2>3. 1..4 = {1, 2, 3, 4}
    OBVIOUS
  <2>4. (\A i \in 1..4 : t[i] = s[i]) /\ t[4 + 1] = m
    BY <2>3
  <2> HIDE DEF S, s, t
  <2>5. PICK n \in Nat : /\ Len(s) = n /\ Len(t) = n + 1
                         /\ (\A i \in 1..n : t[i] = s[i]) /\ t[n + 1] = m
    BY ONLY <2>2, <2>4
  <2>6. Append(s, m) = t
    BY ONLY <2>1, <2>5, n \in Nat, AppendedIs
  <2> QED BY <2>6 DEF s, t
<1>2. Append(<<"player", "form_id", "form_type", "race", "extra_list", "vtable">>, m)
        = <<"player", "form_id", "form_type", "race", "extra_list", "vtable", m>>
  <2> DEFINE S == {"player", "form_id", "form_type", "race", "extra_list", "vtable", m}
             s == <<"player", "form_id", "form_type", "race", "extra_list", "vtable">>
             t == <<"player", "form_id", "form_type", "race", "extra_list", "vtable", m>>
  <2>1. s \in Seq(S) /\ t \in Seq(S) /\ m \in S
    OBVIOUS
  <2>2. Len(s) = 6 /\ Len(t) = 6 + 1
    OBVIOUS
  <2>3. 1..6 = {1, 2, 3, 4, 5, 6}
    OBVIOUS
  <2>4. (\A i \in 1..6 : t[i] = s[i]) /\ t[6 + 1] = m
    BY <2>3
  <2> HIDE DEF S, s, t
  <2>5. PICK n \in Nat : /\ Len(s) = n /\ Len(t) = n + 1
                         /\ (\A i \in 1..n : t[i] = s[i]) /\ t[n + 1] = m
    BY ONLY <2>2, <2>4
  <2>6. Append(s, m) = t
    BY ONLY <2>1, <2>5, n \in Nat, AppendedIs
  <2> QED BY <2>6 DEF s, t
<1> QED BY <1>1, <1>2

\* Loading, messages and what happens around the plugin write nothing.
LEMMA OtherSteps ==
  ASSUME IInv,
         \/ \E g \in Games : StartGame(g)
         \/ \E m \in Messages : Message(m) \/ Handled(m)
         \/ Stop
         \/ \E d \in Dlls : Rebuild(d)
         \/ UNCHANGED vars
  PROVE  IInv'
<1>1. << >> \in Seq(Classes) /\ << >> \in Seq(Lines)
  OBVIOUS
<1>2. \A probe \in Probes : After[probe] \subseteq Later
  BY DEF Probes, After, Later
\* What the log has told stays told; what is ahead anew tells nothing yet.
<1>3. ASSUME UNCHANGED <<game, writer, log>>, Ahead(todo)' \notin Later \/ UNCHANGED todo
      PROVE  ShownInv'
  <2>1. Written' = Written
    BY <1>3 DEF Written
  <2>2. \A probe : Misplaced(probe)' <=> Misplaced(probe)
    BY <1>3, MisplacedStays
  <2>3. \A probe \in Probes : Ahead(todo)' \in After[probe] => Ahead(todo) \in After[probe]
    BY <1>2, <1>3 DEF Ahead
  <2>4. ASSUME game'.on, NEW probe \in Probes, Misplaced(probe)',
               (\E l \in Written' : l.kind = "EXTRA") \/ Ahead(todo)' \in After[probe]
        PROVE  \E l \in Written' : Betrays(probe, l)
    BY <1>3, <2>1, <2>2, <2>3, <2>4 DEF IInv, ShownInv
  <2> QED BY <2>4 DEF ShownInv, Betrays
<1>4. ASSUME NEW g \in Games, StartGame(g) PROVE IInv'
  <2>1. /\ log' = << >> /\ writer' = dll /\ game' = g /\ faulted' = FALSE /\ todo' = ReportOrder
        /\ blocks' = 0 /\ done' = {} /\ UNCHANGED <<dll, baseline>>
    BY <1>4 DEF StartGame, OpenLog
  <2>2. ReportOrder \in Seq(Classes) /\ ~PastRtti(ReportOrder) /\ Ahead(ReportOrder) \notin Later
    BY ClassNames, ReportFirst
  <2>3. Written' = {}
    BY <2>1 DEF Written
  <2>4. StateInv'
    <3>1. 0 \in 0..MaxBlocks
      BY ConstantsAssumption
    <3>2. g.on
      BY Zenon DEF Games
    <3> QED BY <1>1, <2>1, <2>2, <3>1, <3>2, Zenon DEF IInv, StateInv, Todo
  <2>5. LinesInv'
    BY <2>1, <2>2, <2>3 DEF LinesInv, PastRtti
  <2>6. ShownInv'
    <3>1. Ahead(todo)' \notin Later
      BY <2>1, <2>2 DEF Ahead
    <3> QED BY <1>2, <2>3, <3>1 DEF ShownInv
  <2> QED BY <2>4, <2>5, <2>6 DEF IInv
<1>5. ASSUME NEW m \in Messages, Message(m) PROVE IInv'
  <2>1. /\ game.on /\ todo = << >> /\ blocks < MaxBlocks /\ todo' = Append(Checks(m), m)
        /\ blocks' = blocks + 1 /\ UNCHANGED <<dll, baseline, game, faulted, done, log, writer>>
    BY <1>5 DEF Message
  <2>2. Todo(todo') /\ ~PastRtti(todo') /\ Ahead(todo)' \notin Later
    <3>1. CASE m = "kDataLoaded"
      <4>1. todo' = <<"addresses", "rtti", "base", "base_type", "kDataLoaded">>
        <5>1. Checks(m) = <<"addresses", "rtti", "base", "base_type">>
          BY <3>1 DEF Checks
        <5>2. todo' = Append(<<"addresses", "rtti", "base", "base_type">>, m)
          BY <2>1, <5>1, Zenon
        <5>3. todo' = <<"addresses", "rtti", "base", "base_type", m>>
          BY <5>2, Listed, Zenon
        <5> QED BY ONLY <3>1, <5>3
      <4> QED BY <4>1 DEF Todo, DataLoadedTodo, PastRtti, Ahead, Later
    <3>2. CASE m # "kDataLoaded"
      <4>1. m \in SessionMessages
        BY <3>2 DEF Messages, SessionMessages
      <4>2. todo' = <<"player", "form_id", "form_type", "race", "extra_list", "vtable", m>>
        <5>1. Checks(m) = <<"player", "form_id", "form_type", "race", "extra_list", "vtable">>
          BY <3>2 DEF Checks
        <5>2. todo' = Append(<<"player", "form_id", "form_type", "race", "extra_list", "vtable">>, m)
          BY <2>1, <5>1, Zenon
        <5> QED BY <5>2, Listed, Zenon
      <4>3. Todo(todo') /\ ~PastRtti(todo')
        BY <4>1, <4>2, SessionAt, Zenon DEF Todo, SessionTodo
      <4>4. Ahead(todo)' \notin Later
        BY <4>2 DEF Ahead, Later
      <4> QED BY <4>3, <4>4
    <3> QED BY <3>1, <3>2
  <2>3. blocks' \in 0..MaxBlocks /\ blocks' # 0
    BY <2>1, ConstantsAssumption DEF IInv, StateInv
  <2>4. ~AtVtable(todo) /\ Written' = Written
    BY <1>1, <2>1, ReportFirst, Zenon DEF Written
  <2>5. StateInv'
    BY <2>1, <2>2, <2>3 DEF IInv, StateInv, Todo
  <2>6. /\ Right' <=> Right
        /\ \A l : Proper(l) => Proper(l)'
        /\ \A l : VtableVerdict(l)' <=> VtableVerdict(l)
    BY <2>1, ProperStays DEF VtableVerdict
  <2>7. LinesInv'
    BY <2>1, <2>2, <2>3, <2>4, <2>6 DEF IInv, LinesInv, PastRtti
  <2>8. ShownInv'
    BY <1>3, <2>1, <2>2
  <2> QED BY <2>5, <2>7, <2>8 DEF IInv
<1>6. ASSUME NEW m \in Messages, Handled(m) PROVE IInv'
  <2>1. /\ game.on /\ todo # << >> /\ Head(todo) = m /\ todo' = << >> /\ done' = done \cup {m}
        /\ UNCHANGED <<dll, baseline, game, faulted, blocks, log, writer>>
    BY <1>6 DEF Handled, At
  <2>2. ~PastRtti(todo') /\ Written' = Written
    BY <1>1, <2>1, ReportFirst, Zenon DEF Written
  <2>3. m = "kDataLoaded" => PastRtti(todo)
    BY <2>1, TodoAt DEF IInv, StateInv, PastRtti
  <2>4. ~AtVtable(todo)
    BY <2>1 DEF Messages, AtVtable
  <2>5. StateInv'
    BY <1>1, <2>1 DEF IInv, StateInv, Todo
  <2>6. /\ Right' <=> Right
        /\ \A l : Proper(l) => Proper(l)'
        /\ \A l : VtableVerdict(l)' <=> VtableVerdict(l)
    BY <2>1, ProperStays DEF VtableVerdict
  <2>7. LinesInv'
    BY <2>1, <2>2, <2>3, <2>4, <2>6 DEF IInv, LinesInv, PastRtti
  <2>8. ShownInv'
    <3>1. Ahead(todo)' \notin Later
      BY <2>1 DEF Ahead, Later
    <3> QED BY <1>3, <2>1, <3>1
  <2> QED BY <2>5, <2>7, <2>8 DEF IInv
<1>7. CASE Stop
  <2>1. /\ game' = Off /\ todo' = << >>
        /\ UNCHANGED <<dll, baseline, faulted, blocks, done, log, writer>>
    BY <1>7 DEF Stop
  <2>2. ~Off.on /\ Written' = Written
    BY <2>1 DEF Off, Written
  <2>3. /\ Right' <=> Right
        /\ \A l : Proper(l) => Proper(l)'
    BY <2>1, ProperStays
  <2>4. StateInv'
    BY <1>1, <2>1, <2>2 DEF IInv, StateInv, Todo
  <2>5. LinesInv'
    BY <2>1, <2>2, <2>3 DEF IInv, LinesInv
  <2>6. ShownInv'
    BY <2>1, <2>2 DEF ShownInv
  <2> QED BY <2>4, <2>5, <2>6 DEF IInv
<1>8. ASSUME NEW d \in Dlls, Rebuild(d) \/ UNCHANGED vars PROVE IInv'
  <2>1. /\ (dll' \in Dlls /\ ~game.on) \/ dll' = dll
        /\ UNCHANGED <<baseline, game, faulted, todo, blocks, done, log, writer>>
    BY <1>8 DEF Rebuild, vars, IInv, StateInv
  <2>2. /\ Right' <=> Right
        /\ \A l : Proper(l) => Proper(l)'
        /\ \A l : VtableVerdict(l)' <=> VtableVerdict(l)
    BY <2>1, ProperStays DEF VtableVerdict
  <2>3. Written' = Written
    BY <2>1 DEF Written
  <2>4. StateInv'
    BY <2>1 DEF IInv, StateInv, Todo
  <2>5. LinesInv'
    BY <2>1, <2>2, <2>3 DEF IInv, LinesInv, PastRtti, AtVtable
  <2>6. ShownInv'
    BY <1>3, <2>1
  <2> QED BY <2>4, <2>5, <2>6 DEF IInv
<1>9. dll \in Dlls
  BY DEF IInv, StateInv
<1> QED BY <1>4, <1>5, <1>6, <1>7, <1>8, <1>9

-----------------------------------------------------------------------------
(* Theorems *)

\* At every moment the running plugin is the log's, and the log says what it found.
THEOREM IInvAlways == Spec => []IInv
<1>1. Init => IInv
  <2> SUFFICES ASSUME Init PROVE IInv
    OBVIOUS
  <2>1. /\ << >> \in Seq(Classes) /\ << >> \in Seq(Lines) /\ ~Off.on /\ 0 \in 0..MaxBlocks
    BY ConstantsAssumption DEF Off
  <2>2. StateInv
    BY <2>1, Zenon DEF Init, StateInv, Todo
  <2>3. Written = {}
    BY DEF Init, Written
  <2>4. LinesInv
    BY <2>1, <2>3 DEF Init, LinesInv
  <2>5. ShownInv
    BY <2>1 DEF Init, ShownInv
  <2> QED BY <2>2, <2>4, <2>5 DEF IInv
<1>2. IInv /\ [Next]_vars => IInv'
  <2> SUFFICES ASSUME IInv, [Next]_vars PROVE IInv'
    OBVIOUS
  <2>1. ASSUME NEW c \in Classes, LogCompileTimeLayout(c) PROVE IInv'
    BY <2>1, LayoutStep
  <2>2. CASE DataLoaded
    BY <2>2, DataLoadedStep
  <2>3. CASE GameSessionReady
    BY <2>3, GameSessionStep
  <2>4. CASE \/ \E g \in Games : StartGame(g)
             \/ \E m \in Messages : Message(m) \/ Handled(m)
             \/ Stop
             \/ \E d \in Dlls : Rebuild(d)
             \/ UNCHANGED vars
    BY <2>4, OtherSteps
  <2> QED BY <2>1, <2>2, <2>3, <2>4 DEF Next
<1> QED BY <1>1, <1>2, PTL DEF Spec

\* What is left to do is a sequence of steps.
LEMMA TodoSteps ==
  ASSUME NEW t, Todo(t)
  PROVE  t \in Seq(Steps)
<1>1. CASE t \in Seq(Classes)
  <2>1. Classes \subseteq Steps
    BY DEF Steps
  <2> QED BY <1>1, <2>1, SeqMonotonic
<1>2. CASE t \in DataLoadedTodo
  <2>1. /\ "addresses" \in Steps /\ "rtti" \in Steps /\ "base" \in Steps /\ "base_type" \in Steps
        /\ "kDataLoaded" \in Steps
    BY DEF Steps, Messages
  <2>2. CASE t = <<"addresses", "rtti", "base", "base_type", "kDataLoaded">>
    BY <2>1, <2>2
  <2>3. CASE t = <<"rtti", "base", "base_type", "kDataLoaded">>
    BY <2>1, <2>3
  <2>4. CASE t = <<"base", "base_type", "kDataLoaded">>
    BY <2>1, <2>4
  <2>5. CASE t = <<"base_type", "kDataLoaded">>
    BY <2>1, <2>5
  <2>6. CASE t = <<"kDataLoaded">>
    BY <2>1, <2>6
  <2> QED BY <1>2, <2>2, <2>3, <2>4, <2>5, <2>6 DEF DataLoadedTodo
<1>3. ASSUME NEW m \in SessionMessages, t \in SessionTodo(m) PROVE t \in Seq(Steps)
  <2>1. /\ "player" \in Steps /\ "form_id" \in Steps /\ "form_type" \in Steps /\ "race" \in Steps
        /\ "extra_list" \in Steps /\ "vtable" \in Steps /\ m \in Steps
    BY DEF Steps, Messages, SessionMessages
  <2>2. CASE t = <<"player", "form_id", "form_type", "race", "extra_list", "vtable", m>>
    BY <2>1, <2>2
  <2>3. CASE t = <<"form_id", "form_type", "race", "extra_list", "vtable", m>>
    BY <2>1, <2>3
  <2>4. CASE t = <<"form_type", "race", "extra_list", "vtable", m>>
    BY <2>1, <2>4
  <2>5. CASE t = <<"race", "extra_list", "vtable", m>>
    BY <2>1, <2>5
  <2>6. CASE t = <<"extra_list", "vtable", m>>
    BY <2>1, <2>6
  <2>7. CASE t = <<"vtable", m>>
    BY <2>1, <2>7
  <2>8. CASE t = <<m>>
    BY <2>1, <2>8
  <2> QED BY <1>3, <2>2, <2>3, <2>4, <2>5, <2>6, <2>7, <2>8 DEF SessionTodo
<1> QED BY <1>1, <1>2, <1>3 DEF Todo

\* Every variable has its type, and before the first check there are sizes only.
THEOREM TypeCorrect == Spec => []TypeOK
<1>1. IInv => TypeOK
  <2> SUFFICES ASSUME IInv PROVE TypeOK
    OBVIOUS
  <2>1. todo \in Seq(Steps)
    BY TodoSteps DEF IInv, StateInv
  <2>2. blocks = 0 => \A i \in 1..Len(log) : log[i].kind = "LAYOUT"
    BY DEF IInv, LinesInv, Written
  <2> QED BY <2>1, <2>2 DEF IInv, StateInv, TypeOK
<1> QED BY <1>1, IInvAlways, PTL

\* The last line about a class is one of this plugin.
LEMMA SizesReported ==
  ASSUME IInv, NEW c \in DOMAIN Report.layout
  PROVE  c \in Classes /\ Report.layout[c] = Compiled(writer, c)
<1> DEFINE sized == {i \in 1..Len(log) : log[i].kind = "LAYOUT"}
           about == {i \in sized : log[i].what = c}
           layout == [x \in {log[i].what : i \in sized} |->
                        log[Max({i \in sized : log[i].what = x})].size]
<1>1. Report.layout = layout
  BY DEF Report, ParseLog
<1>2. c \in {log[i].what : i \in sized}
  BY <1>1
<1>3. about # {} /\ about \in SUBSET (0..Len(log)) /\ Len(log) \in Nat
  BY <1>2 DEF IInv, StateInv
<1>4. layout[c] = log[Max(about)].size
  BY <1>2
<1> HIDE DEF layout
<1>5. PICK i \in 1..Len(log) : log[i].kind = "LAYOUT" /\ log[i].what = c /\ i = Max(about)
  <2> HIDE DEF about
  <2>1. Max(about) \in about
    BY <1>3, Greatest, Zenon
  <2> QED BY <2>1, Zenon DEF about
<1>6. Proper(log[i])
  BY <1>5 DEF IInv, LinesInv, Written
<1> QED BY <1>1, <1>4, <1>5, <1>6 DEF Proper

\* Whenever the log is read, the sizes it reports are those of the one plugin that
\* opened it, whichever are installed or crashed before or after.
THEOREM OneBuild == Spec => []LayoutOfOneBuild
<1>1. IInv => LayoutOfOneBuild
  BY SizesReported DEF LayoutOfOneBuild
<1> QED BY <1>1, IInvAlways, PTL

\* The exit status of parse_layout_log.py tells of the log's own plugin; it blames no
\* plugin of the baseline's headers for an assert that its compiler has checked.
THEOREM ExitTrue == Spec => []ExitStatusTrue
<1>1. IInv => ExitStatusTrue
  <2> SUFFICES ASSUME IInv PROVE ExitStatusTrue
    OBVIOUS
  <2> DEFINE layout == Report.layout
             differ == {c \in DOMAIN layout : Expected(c) \notin {None, Compiled(writer, c)}}
  <2>1. \A c \in DOMAIN layout : c \in Classes /\ layout[c] = Compiled(writer, c)
    BY SizesReported
  <2>2. ExitStatus = IF \E c \in DOMAIN layout : Mismatch(c, layout[c]) THEN 1 ELSE 0
    BY DEF ExitStatus
  <2> HIDE DEF layout
  <2>3. \A c \in DOMAIN layout : Mismatch(c, layout[c]) <=> c \in differ
    BY <2>1 DEF Mismatch
  <2>4. ExitStatus = IF differ # {} THEN 1 ELSE 0
    <3>1. (\E c \in DOMAIN layout : Mismatch(c, layout[c])) <=> differ # {}
      BY <2>3
    <3> HIDE DEF differ
    <3> QED BY <2>2, <3>1
  <2>5. ASSUME writer.revision = baseline, NEW c \in differ
        PROVE  Assertion[baseline][c][writer.view] # Expected(c)
    <3>1. c \in Classes /\ Expected(c) # None /\ Expected(c) # Compiled(writer, c)
      BY <2>1
    <3>2. Assertion[baseline][c][writer.view] \in {None, Compiled(writer, c)}
      BY <2>5, <3>1 DEF IInv, StateInv, Dlls
    <3> QED BY <3>1, <3>2
  <2> QED BY <2>4, <2>5 DEF ExitStatusTrue, layout
<1> QED BY <1>1, IInvAlways, PTL

\* The parts of a report are the lines of their kinds.
LEMMA Reported ==
  ASSUME IInv, NEW kinds
  PROVE  LET text == Of(kinds, log) IN
         /\ \A k \in 1..Len(text) : text[k] \in Written /\ text[k].kind \in kinds
         /\ \A l \in Written : l.kind \in kinds => \E k \in 1..Len(text) : text[k] = l
         /\ text # << >> => \E k \in 1..Len(text) : TRUE
<1>1. log \in Seq(Lines)
  BY DEF IInv, StateInv
<1>2. PICK positions : positions = {i \in DOMAIN log : log[i].kind \in kinds}
  BY Zenon
<1>3. PICK text \in Seq(Lines) :
        /\ text = Selected(log, positions)
        /\ \A k \in 1..Len(text) : \E i \in 1..Len(log) : i \in positions /\ text[k] = log[i]
        /\ \A i \in 1..Len(log) : i \in positions => \E k \in 1..Len(text) : text[k] = log[i]
  <2>1. /\ Selected(log, positions) \in Seq(Lines)
        /\ \A k \in 1..Len(Selected(log, positions)) :
             \E i \in 1..Len(log) : i \in positions /\ Selected(log, positions)[k] = log[i]
        /\ \A i \in 1..Len(log) : i \in positions =>
             \E k \in 1..Len(Selected(log, positions)) : Selected(log, positions)[k] = log[i]
    BY ONLY <1>1, SelectedElements, SMTT(30)
  <2> QED BY ONLY <2>1, Zenon
<1>4. \A i \in 1..Len(log) : i \in positions <=> log[i].kind \in kinds
  BY <1>1, <1>2
<1>5. text # << >> => \E k \in 1..Len(text) : TRUE
  OBVIOUS
<1>6. Of(kinds, log) = text
  BY <1>2, <1>3, Zenon DEF Of
<1>7. \A k \in 1..Len(text) : text[k] \in Written /\ text[k].kind \in kinds
  BY ONLY <1>3, <1>4 DEF Written
<1>8. ASSUME NEW l \in Written, l.kind \in kinds PROVE \E k \in 1..Len(text) : text[k] = l
  <2>1. PICK i \in 1..Len(log) : l = log[i]
    BY ONLY l \in Written DEF Written
  <2>2. i \in positions
    BY ONLY <1>4, <1>8, <2>1, Zenon
  <2> QED BY ONLY <1>3, <2>1, <2>2, Zenon
<1> QED BY ONLY <1>5, <1>6, <1>7, <1>8, Zenon

\* When a message has been dealt with, the report has the right verdict on the id
\* that is checked.
THEOREM IdsFound == Spec => []IdsVerified
<1>1. IInv => IdsVerified
  <2> SUFFICES ASSUME IInv, game.on PROVE IdsVerified
    BY DEF IdsVerified
  <2> DEFINE rtti == Of({"RTTI"}, log)
             vtbl == Of({"VTBL"}, log)
             extra == Of({"EXTRA"}, log)
  <2>1. Report.live_rtti = rtti /\ Report.live_vtbl = vtbl /\ Report.live_extralist = extra
    BY DEF Report, ParseLog
  <2>2. ASSUME "kDataLoaded" \in done PROVE rtti # << >>
    <3>1. PICK l \in Written : l.kind = "RTTI"
      BY <2>2 DEF IInv, LinesInv
    <3>2. \E k \in 1..Len(rtti) : TRUE
      BY <3>1, Reported
    <3> QED BY <3>2
  <2>3. ASSUME NEW i \in 1..Len(rtti)
        PROVE  rtti[i].said = <<Verdict("RTTI_TESForm" \notin game.wrong)>>
    <3>1. rtti[i] \in Written /\ rtti[i].kind = "RTTI"
      BY Reported
    <3>2. Proper(rtti[i])
      BY <3>1 DEF IInv, LinesInv
    <3> QED BY <3>1, <3>2 DEF Proper
  <2>4. ASSUME extra # << >>, todo = << >>
        PROVE  \E i \in 1..Len(vtbl) :
                 vtbl[i].said = <<Verdict("VTABLE_PlayerCharacter" \notin game.wrong)>>
    <3>1. \E l \in Written : l.kind = "EXTRA"
      BY <2>4, Reported
    <3>2. ~AtVtable(todo)
      BY <2>4 DEF AtVtable
    <3>3. PICK l \in Written : VtableVerdict(l)
      BY <3>1, <3>2 DEF IInv, LinesInv
    <3>4. \E k \in 1..Len(vtbl) : vtbl[k] = l
      BY <3>3, Reported DEF VtableVerdict
    <3> QED BY <3>3, <3>4 DEF VtableVerdict
  <2> HIDE DEF rtti, vtbl, extra
  <2> QED BY <2>1, <2>2, <2>3, <2>4 DEF IdsVerified
<1> QED BY <1>1, IInvAlways, PTL

\* A plugin with the members it reads where the game has them finds nothing wrong and
\* leaves the game alive.
THEOREM QuietIfRight == Spec => []QuietWhenRight
<1>1. IInv => QuietWhenRight
  <2> SUFFICES ASSUME IInv, Right
               PROVE  ~faulted /\ \A i \in 1..Len(log) : Quiet(log[i])
    BY DEF QuietWhenRight, Right, Quiet
  <2>1. ~faulted
    BY DEF IInv, LinesInv
  <2>2. ASSUME NEW i \in 1..Len(log) PROVE Quiet(log[i])
    BY DEF IInv, LinesInv, Written, Proper
  <2> QED BY <2>1, <2>2
<1> QED BY <1>1, IInvAlways, PTL

\* A plugin that has a member elsewhere than a game whose bytes do not happen to look
\* right has said so in the log by the time it has walked the player's extra list.
THEOREM MisplacedShown == Spec => []MisplacedFieldsShow
<1>1. IInv => MisplacedFieldsShow
  <2> SUFFICES ASSUME IInv, game.on, ~game.lucky, Report.live_extralist # << >>
               PROVE  MisplacedFieldsShow
    BY DEF MisplacedFieldsShow
  <2> DEFINE runtime == Of({"RUNTIME"}, log)
             extra == Of({"EXTRA"}, log)
  <2>1. Report.live_runtime_data = runtime /\ Report.live_extralist = extra
    BY DEF Report, ParseLog
  <2>2. \E l \in Written : l.kind = "EXTRA"
    BY <2>1, Reported
  <2>3. \A probe \in Probes : Misplaced(probe) => \E l \in Written : Betrays(probe, l)
    BY <2>2 DEF IInv, ShownInv
  <2>4. ASSUME ~Placed(writer, "TESForm", "formID") \/ ~Placed(writer, "TESForm", "formType")
        PROVE  \E i \in 1..Len(log) : log[i].kind = "WARN" /\ log[i].what = "PlayerCharacter"
    <3>1. Misplaced("form_id") \/ Misplaced("form_type")
      BY <2>4 DEF Misplaced
    <3>2. \E l \in Written : l.kind = "WARN" /\ l.what = "PlayerCharacter"
      BY <2>3, <3>1 DEF Probes, Betrays
    <3> QED BY <3>2 DEF Written
  <2>5. ASSUME ~Placed(writer, "Actor::ACTOR_RUNTIME_DATA", "race")
        PROVE  \E i \in 1..Len(runtime) : runtime[i].said # <<"plausible">>
    <3>1. Misplaced("race")
      BY <2>5 DEF Misplaced
    <3>2. PICK l \in Written : l.kind = "RUNTIME" /\ l.said # <<"plausible">>
      BY <2>3, <3>1 DEF Probes, Betrays
    <3>3. \E k \in 1..Len(runtime) : runtime[k] = l
      BY <3>2, Reported
    <3> QED BY <3>2, <3>3
  <2> HIDE DEF runtime, extra
  <2> QED BY <2>1, <2>4, <2>5 DEF MisplacedFieldsShow
<1> QED BY <1>1, IInvAlways, PTL
=============================================================================
