---------------------------- MODULE HeaderLayout ----------------------------
(***************************************************************************)
(* How a compiler lays out a class of CommonLibSSE-NG's headers.  A class   *)
(* is a sequence of members, each with the views (settings of the           *)
(* ENABLE_SKYRIM macros) it is declared in.                                 *)
(***************************************************************************)
EXTENDS Integers, Sequences, FiniteSetsExt, Selections

\* What members are stored in; a static one is not stored in the object.
Width == [static |-> 0, byte |-> 1, half |-> 2, word |-> 4, quad |-> 8]

Kinds == {"static", "byte", "half", "word", "quad"}

Declared(class, view) == Selected(class, {i \in DOMAIN class : view \in class[i].views})

Storage(m) == Width[m.kind]

Alignment(m) == Max({1, Storage(m)})

RoundUp(n, to) == ((n + to - 1) \div to) * to

\* Offsets of the members in turn, the last one being the end of all of them.
Offsets(members) ==
  LET at[i \in 1..(Len(members) + 1)] ==
        LET free == IF i = 1 THEN 0 ELSE at[i - 1] + Storage(members[i - 1])
        IN IF i > Len(members) THEN free ELSE RoundUp(free, Alignment(members[i]))
  IN at

SizeOf(class, view) ==
  LET members == Declared(class, view)
      end     == Offsets(members)[Len(members) + 1]
      widest  == Max({1} \cup {Alignment(members[i]) : i \in DOMAIN members})
  IN Max({1, RoundUp(end, widest)})

OffsetOf(class, view, name) ==
  LET members == Declared(class, view)
  IN Offsets(members)[CHOOSE i \in DOMAIN members : members[i].name = name]
=============================================================================
