--------------------------- MODULE MCLayoutReport ---------------------------
(* LayoutReport for TLC: headers as the game has them, headers with formID and *)
(* formFlags exchanged, and headers of another game version.                  *)
EXTENDS LayoutReport, TLC

Member(name, kind) == [name |-> name, kind |-> kind, views |-> {"ae", "all", "game"}]
Separate(name, kind) == [name |-> name, kind |-> kind, views |-> {"ae", "game"}]
Instead(name, kind) == [name |-> name, kind |-> kind, views |-> {"all"}]

\* static_assert(sizeof(TESForm) == 0x20), formID at 0x14, formType at 0x1A.
Form(first, second) ==
  <<Member("vtable", "quad"), Member("RTTI", "static"), Member("sourceFiles", "quad"),
    Member(first, "word"), Member(second, "word"), Member("inGameFormFlags", "half"),
    Member("formType", "byte"), Member("pad1B", "byte"), Member("pad1C", "word")>>

\* Classes no macro changes, classes with members of one runtime only.
Plain == <<Member("vtable", "quad"), Member("RTTI", "static"), Member("call", "quad")>>
\* NiAVObject: asserted in all views, with userData a member in some of them.
Object == Plain \o <<Separate("userData", "quad"), Instead("unk0F8", "quad")>>
Split == <<Member("parentCell", "quad"), Member("extraList", "quad"), Separate("tail", "quad")>>
SplitOlder == Tail(Split)

Classes12(form, runtimeData, split) ==
  [c \in Classes |->
     CASE c = "TESForm"                   -> form
       [] c = "Actor::ACTOR_RUNTIME_DATA" -> runtimeData
       [] c = "NiAVObject"                -> Object
       [] c \in {"BGSLocation", "TESQuest", "bhkCharacterState"} -> Plain
       [] OTHER                           -> split]

RuntimeData == <<Member("currentProcess", "quad"), Member("target", "word"), Member("race", "quad")>>

GameHeader == Classes12(Form("formFlags", "formID"), RuntimeData, Split)

Headers ==
  [right   |-> GameHeader,
   swapped |-> Classes12(Form("formID", "formFlags"), RuntimeData, Split),
   older   |-> Classes12(SubSeq(Form("formFlags", "formID"), 1, 3) \o <<Member("list", "quad")>>
                           \o SubSeq(Form("formFlags", "formID"), 4, 9),
                         Tail(RuntimeData), SplitOlder)]

\* Classes asserted in every view, and one asserted in that of the archives alone.
AssertedClasses == {"TESForm", "NiAVObject", "BGSLocation", "TESQuest", "bhkCharacterState"}

ActiveIn(r, c) ==
  CASE c \in AssertedClasses            -> Views
    [] r = "older" /\ c = "Character"   -> {"ae"}
    [] OTHER                            -> {}

Assertions ==
  [r \in DOMAIN Headers |-> [c \in Classes |-> [v \in Views |->
     IF v \in ActiveIn(r, c) THEN SizeOf(Headers[r][c], v) ELSE None]]]

\* As recorded: the size of the archives' view, a wrong one, or none.
ImportedSizes ==
  [r \in DOMAIN Headers |-> [c \in Classes |->
     CASE c = "BaseExtraList" -> None
       [] c = "TESQuest"      -> SizeOf(Headers[r][c], "ae") + 16
       [] OTHER               -> SizeOf(Headers[r][c], "ae")]]
=============================================================================
