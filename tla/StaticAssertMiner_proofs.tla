---------------------- MODULE StaticAssertMiner_proofs ----------------------
(***************************************************************************)
(* What StaticAssertMiner files, for headers of any length and nesting and *)
(* whatever the values of the macros it does not know.                     *)
(*                                                                         *)
(* First, where it does not guess: an assert is filed as applicable only   *)
(* if the compiler sees it and as guarded out only if it does not.  The    *)
(* script's frames and the compiler's groups are compared one by one; the  *)
(* comparison is lost at an #elif after a condition that is not known, and *)
(* only there.                                                             *)
(*                                                                         *)
(* Then, that it loses and invents nothing: record_stack is compared with  *)
(* every block the compiler is inside, so that a closing brace, which pops *)
(* by depth, is seen to pop exactly the record that ends.                  *)
(***************************************************************************)
EXTENDS StaticAssertMiner, Selections_proofs

StacksOK ==
  /\ stack \in Seq(Frames)
  /\ groups \in Seq(Groups)
  /\ Len(stack) = Len(groups)

\* A frame of the script and the compiler's group: the same, or not known.
Agrees(f, g) ==
  /\ g.unknown <=> f.active = "unknown"
  /\ ~g.unknown => /\ f.taken = g.taken
                   /\ g.live <=> f.active = "live"

FramesAgree ==
  "elif_after_unknown" \notin met => \A i \in 1..Len(stack) : Agrees(stack[i], groups[i])

IInv == StacksOK /\ FramesAgree /\ NeverGuessed

-----------------------------------------------------------------------------

LEMMA Replaced ==
  ASSUME NEW S, NEW s \in Seq(S), NEW e \in S, s # <<>>
  PROVE  /\ SetTop(s, e) \in Seq(S)
         /\ Len(SetTop(s, e)) = Len(s)
         /\ SetTop(s, e)[Len(s)] = e
         /\ \A i \in 1..Len(s) : i # Len(s) => SetTop(s, e)[i] = s[i]
BY DEF SetTop

LEMMA Popped ==
  ASSUME NEW S, NEW s \in Seq(S), s # <<>>
  PROVE  /\ Pop(s) \in Seq(S)
         /\ Len(Pop(s)) = Len(s) - 1
         /\ Len(s) \in Nat \ {0}
         /\ \A i \in 1..(Len(s) - 1) : Pop(s)[i] = s[i]
<1>1. Len(s) \in Nat \ {0}
  OBVIOUS
<1>2. Len(s) - 1 \in 0..Len(s)
  BY <1>1
<1> QED BY <1>1, <1>2, Prefix DEF Pop

LEMMA InitHolds == Init => IInv
BY DEF Init, IInv, StacksOK, FramesAgree, NeverGuessed, NoAssert

\* A line that is neither a directive nor an assert leaves the stacks alone.
LEMMA OtherLine ==
  ASSUME IInv, UNCHANGED <<stack, groups>>, met \subseteq met', Read
  PROVE  IInv'
BY DEF IInv, StacksOK, FramesAgree, NeverGuessed, Read, NoAssert

LEMMA IfStep ==
  ASSUME IInv, NEW c \in Conditions, If(c)
  PROVE  IInv'
<1> DEFINE f == [taken |-> c = "true", active |-> Evaluated(c)]
<1>1. PICK v \in ValuesOf(c) :
        groups' = Append(groups, [taken |-> v, live |-> v, closed |-> FALSE,
                                  unknown |-> c = "unknown"])
  BY DEF If
<1> DEFINE g == [taken |-> v, live |-> v, closed |-> FALSE, unknown |-> c = "unknown"]
<1>2. stack' = Append(stack, f) /\ groups' = Append(groups, g) /\ met' = met
  BY <1>1 DEF If
<1>3. v \in BOOLEAN /\ (c = "true" => v) /\ (c = "false" => ~v)
  BY DEF ValuesOf, Conditions
<1>4. f \in Frames /\ g \in Groups /\ Agrees(f, g)
  BY <1>3 DEF Frames, Groups, Agrees, Evaluated, Activities, Conditions
<1> HIDE DEF f, g
<1>s. /\ stack' \in Seq(Frames) /\ Len(stack') = Len(stack) + 1
      /\ \A i \in 1..Len(stack) : stack'[i] = stack[i]
      /\ stack'[Len(stack) + 1] = f
  BY <1>2, <1>4, Appended DEF IInv, StacksOK
<1>g. /\ groups' \in Seq(Groups) /\ Len(groups') = Len(stack) + 1
      /\ \A i \in 1..Len(stack) : groups'[i] = groups[i]
      /\ groups'[Len(stack) + 1] = g
  BY <1>2, <1>4, Appended DEF IInv, StacksOK
<1>5. StacksOK'
  BY <1>s, <1>g DEF StacksOK
<1>6. FramesAgree'
  <2> SUFFICES ASSUME "elif_after_unknown" \notin met', NEW i \in 1..Len(stack')
               PROVE  Agrees(stack'[i], groups'[i])
    BY DEF FramesAgree
  <2>0. Len(stack) \in Nat
    BY DEF IInv, StacksOK
  <2>1. CASE i \in 1..Len(stack)
    BY <1>2, <1>s, <1>g, <2>1 DEF IInv, FramesAgree
  <2>2. CASE i = Len(stack) + 1
    BY <1>4, <1>s, <1>g, <2>2
  <2> QED BY <1>s, <2>0, <2>1, <2>2
<1>7. NeverGuessed'
  BY DEF If, Read, NeverGuessed, NoAssert
<1> QED BY <1>5, <1>6, <1>7 DEF IInv

\* Replacing the top of both stacks by frames that agree.
LEMMA NewTops ==
  ASSUME IInv, stack # <<>>, NEW f \in Frames, NEW g \in Groups,
         stack' = SetTop(stack, f), groups' = SetTop(groups, g), Read,
         met \subseteq met', "elif_after_unknown" \notin met' => Agrees(f, g)
  PROVE  IInv'
<1>s. /\ stack' \in Seq(Frames) /\ Len(stack') = Len(stack)
      /\ stack'[Len(stack)] = f
      /\ \A i \in 1..Len(stack) : i # Len(stack) => stack'[i] = stack[i]
  <2>1. stack \in Seq(Frames)
    BY DEF IInv, StacksOK
  <2>2. /\ SetTop(stack, f) \in Seq(Frames) /\ Len(SetTop(stack, f)) = Len(stack)
        /\ SetTop(stack, f)[Len(stack)] = f
        /\ \A i \in 1..Len(stack) : i # Len(stack) => SetTop(stack, f)[i] = stack[i]
    BY <2>1, Replaced
  <2> QED BY <2>2
<1>g. /\ groups' \in Seq(Groups) /\ Len(groups') = Len(stack)
      /\ groups'[Len(stack)] = g
      /\ \A i \in 1..Len(stack) : i # Len(stack) => groups'[i] = groups[i]
  <2>0. Len(groups) = Len(stack)
    BY DEF IInv, StacksOK
  <2>1. groups \in Seq(Groups) /\ groups # <<>>
    BY DEF IInv, StacksOK
  <2>2. /\ SetTop(groups, g) \in Seq(Groups) /\ Len(SetTop(groups, g)) = Len(groups)
        /\ SetTop(groups, g)[Len(groups)] = g
        /\ \A i \in 1..Len(groups) : i # Len(groups) => SetTop(groups, g)[i] = groups[i]
    BY <2>1, Replaced
  <2> QED BY <2>0, <2>2
<1>1. StacksOK'
  BY <1>s, <1>g DEF StacksOK
<1>2. FramesAgree'
  BY <1>s, <1>g DEF IInv, FramesAgree
<1>3. NeverGuessed'
  BY DEF Read, NeverGuessed, NoAssert
<1> QED BY <1>1, <1>2, <1>3 DEF IInv

\* The top frames are frames, and agree as long as nothing is guessed.
LEMMA Tops ==
  ASSUME IInv, stack # <<>>
  PROVE  /\ Top(stack) \in Frames /\ Top(groups) \in Groups
         /\ "elif_after_unknown" \notin met => Agrees(Top(stack), Top(groups))
<1>1. Len(stack) \in 1..Len(stack) /\ Len(groups) = Len(stack)
  BY DEF IInv, StacksOK
<1> QED BY <1>1 DEF IInv, StacksOK, FramesAgree, Top

LEMMA ElifStep ==
  ASSUME IInv, NEW c \in Conditions, Elif(c)
  PROVE  IInv'
<1> DEFINE f == Top(stack)
           g == Top(groups)
           nf == ElifFrame(f, c)
<1>1. PICK v \in ValuesOf(c) :
        groups' = SetTop(groups, [taken |-> g.taken \/ v, live |-> ~g.taken /\ v,
                                  closed |-> FALSE,
                                  unknown |-> g.unknown \/ (c = "unknown" /\ ~f.taken)])
  BY DEF Elif
<1> DEFINE ng == [taken |-> g.taken \/ v, live |-> ~g.taken /\ v, closed |-> FALSE,
                  unknown |-> g.unknown \/ (c = "unknown" /\ ~f.taken)]
<1>2. /\ stack # <<>> /\ Read
      /\ stack' = SetTop(stack, nf) /\ groups' = SetTop(groups, ng)
      /\ met' = met \cup (IF g.unknown THEN {"elif_after_unknown"} ELSE {})
  BY <1>1 DEF Elif, Meets
<1>3. /\ f \in Frames /\ g \in Groups
      /\ "elif_after_unknown" \notin met => Agrees(f, g)
  BY <1>2, Tops
<1>4. v \in BOOLEAN /\ (c = "true" => v) /\ (c = "false" => ~v)
  BY DEF ValuesOf, Conditions
<1>5. nf \in Frames /\ ng \in Groups
  BY <1>3, <1>4 DEF ElifFrame, Frames, Groups, Evaluated, Activities, Conditions
<1>6. ASSUME "elif_after_unknown" \notin met'
      PROVE  Agrees(nf, ng)
  <2>1. ~g.unknown /\ Agrees(f, g)
    BY <1>2, <1>3, <1>6
  <2>2. f.taken = g.taken /\ g.taken \in BOOLEAN
    BY <1>3, <2>1 DEF Agrees, Groups
  <2>3. CASE f.taken
    BY <1>3, <1>4, <2>1, <2>2, <2>3 DEF Agrees, ElifFrame, Frames, Groups, Activities
  <2>4. CASE ~f.taken
    BY <1>3, <1>4, <2>1, <2>2, <2>4 DEF Agrees, ElifFrame, Evaluated, Conditions, Groups
  <2> QED BY <2>3, <2>4
<1> QED BY <1>2, <1>5, <1>6, NewTops

LEMMA ElseStep ==
  ASSUME IInv, Else
  PROVE  IInv'
<1> DEFINE f == Top(stack)
           g == Top(groups)
           nf == ElseFrame(f)
           ng == [g EXCEPT !.taken = TRUE, !.live = ~g.taken, !.closed = TRUE]
<1>1. /\ stack # <<>> /\ Read /\ met' = met
      /\ stack' = SetTop(stack, nf) /\ groups' = SetTop(groups, ng)
  BY DEF Else
<1>2. /\ f \in Frames /\ g \in Groups
      /\ "elif_after_unknown" \notin met => Agrees(f, g)
  BY <1>1, Tops
<1>3. nf \in Frames /\ ng \in Groups
  BY <1>2 DEF ElseFrame, Frames, Groups, Activities
<1>4. Agrees(f, g) => Agrees(nf, ng)
  BY <1>2 DEF ElseFrame, Frames, Groups, Agrees, Activities
<1> QED BY <1>1, <1>2, <1>3, <1>4, NewTops

LEMMA EndifStep ==
  ASSUME IInv, Endif
  PROVE  IInv'
<1>1. /\ stack # <<>> /\ met' = met
      /\ stack' = Pop(stack) /\ groups' = Pop(groups)
  BY DEF Endif
<1>s. /\ stack' \in Seq(Frames) /\ Len(stack') = Len(stack) - 1 /\ Len(stack) \in Nat
      /\ \A i \in 1..(Len(stack) - 1) : stack'[i] = stack[i]
  BY <1>1, Popped DEF IInv, StacksOK
<1>g. /\ groups' \in Seq(Groups) /\ Len(groups') = Len(stack) - 1
      /\ \A i \in 1..(Len(stack) - 1) : groups'[i] = groups[i]
  <2>1. groups # <<>>
    BY <1>1 DEF IInv, StacksOK
  <2> QED BY <1>1, <2>1, Popped DEF IInv, StacksOK
<1>2. StacksOK'
  BY <1>s, <1>g DEF StacksOK
<1>3. FramesAgree'
  BY <1>1, <1>s, <1>g DEF IInv, FramesAgree
<1>4. NeverGuessed'
  BY DEF Endif, Read, NeverGuessed, NoAssert
<1> QED BY <1>2, <1>3, <1>4 DEF IInv

\* Where every condition is known, the script follows the text that is live.
LEMMA LiveWhereSure ==
  ASSUME IInv, "elif_after_unknown" \notin met, ~AnyUnevaluated
  PROVE  CurrentlyActive <=> Live
BY DEF IInv, StacksOK, FramesAgree, Agrees, AnyUnevaluated, CurrentlyActive, Live

LEMMA AssertStep ==
  ASSUME IInv, NEW name \in AssertedNames, NEW size \in Sizes, NEW commented \in BOOLEAN,
         StaticAssert(name, size, commented)
  PROVE  IInv'
<1>1. /\ UNCHANGED <<stack, groups>> /\ met \subseteq met'
      /\ last'.bucket = Bucket /\ last'.live = (Live /\ ~commented)
      /\ commented => "comment" \in met'
  BY DEF StaticAssert, Meets
<1>2. StacksOK' /\ FramesAgree'
  BY <1>1 DEF IInv, StacksOK, FramesAgree
<1>3. NeverGuessed'
  BY <1>1, LiveWhereSure DEF NeverGuessed, Bucket
<1> QED BY <1>2, <1>3 DEF IInv

-----------------------------------------------------------------------------

LEMMA StepHolds == IInv /\ [Next]_vars => IInv'
<1> SUFFICES ASSUME IInv, [Next]_vars PROVE IInv'
  OBVIOUS
<1>1. CASE Directive
  BY <1>1, IfStep, ElifStep, ElseStep, EndifStep DEF Directive
<1>2. CASE Code
  BY <1>2, OtherLine
     DEF Code, TemplateLine, Declare, Forward, Function, Open, Close, Text, Meets
<1>3. CASE AssertLine
  BY <1>3, AssertStep DEF AssertLine
<1>4. CASE NextFile
  <2>1. stack = <<>>
    BY <1>4 DEF NextFile, IInv, StacksOK
  <2> QED BY <1>4, <2>1, OtherLine DEF NextFile, compiler
<1>5. CASE UNCHANGED vars
  BY <1>5 DEF IInv, StacksOK, FramesAgree, NeverGuessed, vars, script, compiler
<1> QED BY <1>1, <1>2, <1>3, <1>4, <1>5 DEF Next

\* In headers of any length in which no #elif follows a condition that is not
\* known, an assert filed as guarded out is not compiled; and when no assert was
\* in a comment either, one filed as applicable is.  With such an #elif the script
\* does guess, and it files what is commented out: neither is claimed here.
THEOREM NoGuess == Spec => []NeverGuessed
<1>1. Init => IInv
  BY InitHolds
<1>2. IInv /\ [Next]_vars => IInv'
  BY StepHolds
<1>3. IInv => NeverGuessed
  BY DEF IInv
<1> QED BY <1>1, <1>2, <1>3, PTL DEF Spec

\* The two stacks have one well-formed frame for every group that is open.
THEOREM StacksCorrect == Spec => []StacksOK
<1>1. IInv => StacksOK
  BY DEF IInv
<1> QED BY <1>1, InitHolds, StepHolds, PTL DEF Spec

-----------------------------------------------------------------------------
(* The scanner and the scopes.  Without the constructs it does not handle,  *)
(* the scanner's depth is the number of blocks the compiler is inside, and  *)
(* for every one of these blocks its records are the first of record_stack:  *)
(* exactly those entered at a lower depth.                                  *)

RecordNames  == Names \cup {Parameter}
RecordFrames == [name : RecordNames, depth : Int, template : BOOLEAN]
Blocks       == [name : Names, template : BOOLEAN]
Scans        == [records : Seq(RecordFrames), depth : Int, pending : RecordNames \cup {None},
                 pendingTemplate : BOOLEAN, sawTemplate : BOOLEAN]
Lines        == [template : BOOLEAN, decl : RecordNames \cup {None}, forward : BOOLEAN,
                 brace : {"no", "open", "close"}]

\* The frames of a scan are entered one inside the other.
Nested(s) ==
  /\ \A i, j \in 1..Len(s.records) : i < j => s.records[i].depth < s.records[j].depth
  /\ \A i \in 1..Len(s.records) : s.records[i].depth < s.depth

ScanOK == scan \in Scans /\ Nested(scan)

CompilerOK ==
  /\ scope \in Seq(Seq(Blocks))
  /\ opening \in Blocks \cup {NoRecord}
  /\ template \in {"no", "typename", "class"}

PathAt(i) == IF i = 0 THEN <<>> ELSE scope[i]

\* The first records are path's, entered below depth i; the others are above it.
Mirrors(records, path, i) ==
  /\ Len(path) <= Len(records)
  /\ \A j \in 1..Len(path) : /\ records[j].name = path[j].name
                             /\ records[j].template = path[j].template
                             /\ records[j].depth < i
  /\ \A j \in 1..Len(records) : j > Len(path) => records[j].depth >= i

ScopesAgree ==
  /\ scan.depth = Len(scope)
  /\ \A i \in 0..Len(scope) : Mirrors(scan.records, PathAt(i), i)

\* What the scanner has seen of a declaration whose block has not come yet.
Awaited ==
  /\ template = "class"    => scan.pending = Parameter /\ ~scan.sawTemplate /\ opening = NoRecord
  /\ template = "typename" => scan.pending = None /\ scan.sawTemplate /\ opening = NoRecord
  /\ template = "no" => /\ scan.pending = opening.name /\ ~scan.sawTemplate
                        /\ opening # NoRecord => scan.pendingTemplate = opening.template

Follows == met = {} => ScopesAgree /\ Awaited

Pairs == \A e \in results \cup truth : e = <<e[1], e[2]>>

FInv == IInv /\ ScanOK /\ CompilerOK /\ Follows /\ Pairs /\ NothingLostOrInvented

-----------------------------------------------------------------------------
(* The steps of the scanner *)

LEMMA KeptStops ==
  ASSUME NEW records \in Seq(RecordFrames), NEW d \in Int
  PROVE  /\ Kept(records, d) \in 0..Len(records)
         /\ Kept(records, d) > 0 => records[Kept(records, d)].depth < d
         /\ \A i \in (Kept(records, d) + 1)..Len(records) : records[i].depth >= d
<1> DEFINE stops == {n \in 0..Len(records) :
                       \A i \in (n + 1)..Len(records) : records[i].depth >= d}
<1>1. Len(records) \in Nat /\ \A i \in 1..Len(records) : records[i].depth \in Int
  <2>1. Len(records) \in Nat /\ \A i \in 1..Len(records) : records[i] \in RecordFrames
    OBVIOUS
  <2>2. \A f \in RecordFrames : f.depth \in Int
    BY DEF RecordFrames
  <2> QED BY <2>1, <2>2
<1>2. stops \in SUBSET Nat /\ stops # {}
  <2>1. Len(records) \in stops
    BY <1>1
  <2> QED BY <1>1, <2>1
<1>3. PICK m \in stops : \A n \in stops : m <= n
  BY <1>2, LeastNat
<1>4. m > 0 => records[m].depth < d
  <2> SUFFICES ASSUME m > 0, ~(records[m].depth < d) PROVE FALSE
    OBVIOUS
  <2>1. m \in 1..Len(records) /\ m - 1 \in 0..Len(records) /\ records[m].depth >= d
    BY <1>1
  <2>2. ASSUME NEW i \in ((m - 1) + 1)..Len(records) PROVE records[i].depth >= d
    <3>1. i = m \/ i \in (m + 1)..Len(records)
      BY <1>1
    <3> QED BY <2>1, <3>1
  <2>3. m - 1 \in stops
    BY <2>1, <2>2
  <2>4. m <= m - 1
    BY <1>3, <2>3
  <2> QED BY <2>1, <2>4, <1>1
<1>5. \E n \in 0..Len(records) :
        /\ n > 0 => records[n].depth < d
        /\ \A i \in (n + 1)..Len(records) : records[i].depth >= d
  BY <1>3, <1>4
<1> QED BY <1>5 DEF Kept

LEMMA ScanTypes ==
  ASSUME NEW s \in Scans
  PROVE  /\ s.records \in Seq(RecordFrames)
         /\ s.depth \in Int
         /\ Len(s.records) \in Nat
         /\ \A i \in 1..Len(s.records) : s.records[i] \in RecordFrames /\ s.records[i].depth \in Int
<1>1. s.records \in Seq(RecordFrames) /\ s.depth \in Int
  BY DEF Scans
<1>2. Len(s.records) \in Nat /\ \A i \in 1..Len(s.records) : s.records[i] \in RecordFrames
  BY <1>1
<1>3. \A r \in RecordFrames : r.depth \in Int
  BY DEF RecordFrames
<1> QED BY <1>1, <1>2, <1>3

\* The depth and the frames after an opening brace.
LEMMA OpenBraceIs ==
  ASSUME NEW s \in Scans
  PROVE  /\ OpenBrace(s) \in Scans
         /\ OpenBrace(s).depth = s.depth + 1
         /\ OpenBrace(s).pending = None
         /\ OpenBrace(s).sawTemplate = s.sawTemplate
         /\ s.pending = None => OpenBrace(s).records = s.records
         /\ s.pending # None =>
              /\ Len(OpenBrace(s).records) = Len(s.records) + 1
              /\ \A i \in 1..Len(s.records) : OpenBrace(s).records[i] = s.records[i]
              /\ OpenBrace(s).records[Len(s.records) + 1] =
                   [name |-> s.pending, depth |-> s.depth, template |-> s.pendingTemplate]
<1> DEFINE f == [name |-> s.pending, depth |-> s.depth, template |-> s.pendingTemplate]
           g == IF s.pending = None THEN s.records ELSE Append(s.records, f)
<1>1. s.records \in Seq(RecordFrames) /\ s.depth + 1 \in Int
  BY ScanTypes
<1>2. s.pending # None => f \in RecordFrames
  BY DEF Scans, RecordFrames
<1> HIDE DEF f
<1>3. s.pending # None =>
        /\ Append(s.records, f) \in Seq(RecordFrames)
        /\ Len(Append(s.records, f)) = Len(s.records) + 1
        /\ \A i \in 1..Len(s.records) : Append(s.records, f)[i] = s.records[i]
        /\ Append(s.records, f)[Len(s.records) + 1] = f
  BY <1>1, <1>2, Appended
<1>4. g \in Seq(RecordFrames)
  BY <1>1, <1>3
<1>5. OpenBrace(s) = [s EXCEPT !.depth = s.depth + 1, !.pending = None, !.records = g]
  BY DEF OpenBrace, f
<1> HIDE DEF g
<1>6. /\ OpenBrace(s) \in Scans /\ OpenBrace(s).records = g
      /\ OpenBrace(s).depth = s.depth + 1 /\ OpenBrace(s).pending = None
      /\ OpenBrace(s).sawTemplate = s.sawTemplate
  BY <1>1, <1>4, <1>5 DEF Scans
<1> QED BY <1>3, <1>6 DEF f, g

LEMMA OpenBraceOK ==
  ASSUME NEW s \in Scans, Nested(s)
  PROVE  OpenBrace(s) \in Scans /\ Nested(OpenBrace(s))
<1> DEFINE t == OpenBrace(s)
           f == [name |-> s.pending, depth |-> s.depth, template |-> s.pendingTemplate]
           n == Len(s.records)
<1>1. /\ t \in Scans /\ t.depth = s.depth + 1
      /\ s.pending = None => t.records = s.records
      /\ s.pending # None => /\ Len(t.records) = n + 1 /\ t.records[n + 1] = f
                            /\ \A i \in 1..n : t.records[i] = s.records[i]
  BY OpenBraceIs
<1>2. s.depth \in Int /\ n \in Nat /\ \A i \in 1..n : s.records[i].depth \in Int
  BY ScanTypes
<1>3. f.depth = s.depth
  OBVIOUS
<1>4. /\ \A i, j \in 1..n : i < j => s.records[i].depth < s.records[j].depth
      /\ \A i \in 1..n : s.records[i].depth < s.depth
  BY DEF Nested
<1> HIDE DEF t, f, n
<1>5. CASE s.pending = None
  <2>1. Len(t.records) = n
    BY <1>1, <1>5 DEF n
  <2> QED BY <1>1, <1>2, <1>4, <1>5, <2>1 DEF Nested, t
<1>6. CASE s.pending # None
  <2>1. ASSUME NEW i \in 1..Len(t.records) PROVE t.records[i].depth < t.depth
    <3>1. i \in 1..n \/ i = n + 1
      BY <1>1, <1>2, <1>6
    <3> QED BY <1>1, <1>2, <1>3, <1>4, <1>6, <3>1
  <2>2. ASSUME NEW i \in 1..Len(t.records), NEW j \in 1..Len(t.records), i < j
        PROVE  t.records[i].depth < t.records[j].depth
    <3>1. i \in 1..n /\ (j \in 1..n \/ j = n + 1)
      BY <1>1, <1>2, <1>6, <2>2
    <3> QED BY <1>1, <1>2, <1>3, <1>4, <1>6, <2>2, <3>1
  <2> QED BY <1>1, <2>1, <2>2 DEF Nested, t
<1> QED BY <1>5, <1>6

\* The depth and the frames after a closing brace.
LEMMA CloseBraceIs ==
  ASSUME NEW s \in Scans
  PROVE  /\ CloseBrace(s) \in Scans
         /\ CloseBrace(s).depth = s.depth - 1
         /\ CloseBrace(s).pending = s.pending
         /\ CloseBrace(s).pendingTemplate = s.pendingTemplate
         /\ CloseBrace(s).sawTemplate = s.sawTemplate
         /\ Len(CloseBrace(s).records) = Kept(s.records, s.depth - 1)
         /\ \A i \in 1..Kept(s.records, s.depth - 1) : CloseBrace(s).records[i] = s.records[i]
<1> DEFINE n == Kept(s.records, s.depth - 1)
           p == SubSeq(s.records, 1, n)
<1>1. s.records \in Seq(RecordFrames) /\ s.depth - 1 \in Int
  BY DEF Scans
<1>2. n \in 0..Len(s.records)
  BY <1>1, KeptStops
<1> HIDE DEF n
<1>3. p \in Seq(RecordFrames) /\ Len(p) = n /\ \A i \in 1..n : p[i] = s.records[i]
  BY <1>1, <1>2, Prefix
<1> HIDE DEF p
<1>4. CloseBrace(s) = [s EXCEPT !.depth = s.depth - 1, !.records = p]
  BY DEF CloseBrace, n, p
<1>5. /\ CloseBrace(s) \in Scans /\ CloseBrace(s).records = p
      /\ CloseBrace(s).depth = s.depth - 1 /\ CloseBrace(s).pending = s.pending
      /\ CloseBrace(s).pendingTemplate = s.pendingTemplate
      /\ CloseBrace(s).sawTemplate = s.sawTemplate
  BY <1>1, <1>3, <1>4 DEF Scans
<1> QED BY <1>3, <1>5 DEF n

LEMMA CloseBraceOK ==
  ASSUME NEW s \in Scans, Nested(s)
  PROVE  CloseBrace(s) \in Scans /\ Nested(CloseBrace(s))
<1> DEFINE n == Kept(s.records, s.depth - 1)
           t == CloseBrace(s)
<1>1. /\ s.records \in Seq(RecordFrames) /\ s.depth \in Int /\ s.depth - 1 \in Int
      /\ Len(s.records) \in Nat /\ \A i \in 1..Len(s.records) : s.records[i].depth \in Int
  BY ScanTypes
<1>2. /\ n \in 0..Len(s.records)
      /\ n > 0 => s.records[n].depth < s.depth - 1
  BY <1>1, KeptStops
<1>3. /\ t \in Scans /\ t.depth = s.depth - 1 /\ Len(t.records) = n
      /\ \A i \in 1..n : t.records[i] = s.records[i]
  BY CloseBraceIs
<1> HIDE DEF n, t
<1>4. \A i \in 1..n : s.records[i].depth < s.depth - 1
  <2> SUFFICES ASSUME NEW i \in 1..n PROVE s.records[i].depth < s.depth - 1
    OBVIOUS
  <2>1. n \in 1..Len(s.records) /\ i \in 1..Len(s.records) /\ (i = n \/ i < n)
    BY <1>1, <1>2
  <2>2. s.records[i].depth <= s.records[n].depth
    BY <1>1, <2>1 DEF Nested
  <2> QED BY <1>1, <1>2, <2>1, <2>2
<1>5. \A i \in 1..n : i \in 1..Len(s.records)
  BY <1>1, <1>2
<1>6. \A i, j \in 1..n : i < j => t.records[i].depth < t.records[j].depth
  BY <1>3, <1>5 DEF Nested
<1>7. \A i \in 1..n : t.records[i].depth < t.depth
  BY <1>3, <1>4
<1> QED BY <1>3, <1>6, <1>7 DEF Nested, t

LEMMA LineOK ==
  ASSUME NEW s \in Scans, Nested(s), NEW l \in Lines
  PROVE  /\ SeeDeclaration(SeeTemplate(s, l), l) \in Scans
         /\ Nested(SeeDeclaration(SeeTemplate(s, l), l))
         /\ SeeBrace(SeeDeclaration(SeeTemplate(s, l), l), l) \in Scans
         /\ Nested(SeeBrace(SeeDeclaration(SeeTemplate(s, l), l), l))
<1> DEFINE u == SeeTemplate(s, l)
           v == SeeDeclaration(u, l)
<1>1. u \in Scans /\ Nested(u)
  BY DEF SeeTemplate, Scans, Nested
<1> HIDE DEF u
<1>2. v \in Scans /\ Nested(v)
  BY <1>1 DEF SeeDeclaration, Scans, Lines, Nested
<1> HIDE DEF v
<1>3. SeeBrace(v, l) \in Scans /\ Nested(SeeBrace(v, l))
  BY <1>2, OpenBraceOK, CloseBraceOK DEF SeeBrace
<1> QED BY <1>2, <1>3 DEF u, v

-----------------------------------------------------------------------------
(* One brace keeps the records and the scopes together *)

LEMMA PathsAreSequences ==
  ASSUME CompilerOK
  PROVE  /\ Len(scope) \in Nat
         /\ \A i \in 0..Len(scope) : PathAt(i) \in Seq(Blocks) /\ Len(PathAt(i)) \in Nat
         /\ RecordsIn(scope) = PathAt(Len(scope))
<1>1. scope \in Seq(Seq(Blocks)) /\ Len(scope) \in Nat
  BY DEF CompilerOK
<1>2. ASSUME NEW i \in 0..Len(scope) PROVE PathAt(i) \in Seq(Blocks)
  <2>1. i = 0 \/ i \in 1..Len(scope)
    BY <1>1
  <2> QED BY <1>1, <2>1 DEF PathAt
<1>3. RecordsIn(scope) = PathAt(Len(scope))
  BY <1>1 DEF RecordsIn, PathAt, Top
<1> QED BY <1>1, <1>2, <1>3

\* All records of the scanner are those of the innermost block.
LEMMA Innermost ==
  ASSUME ScanOK, CompilerOK, ScopesAgree
  PROVE  /\ Len(RecordsIn(scope)) = Len(scan.records)
         /\ \A j \in 1..Len(scan.records) :
              /\ scan.records[j].name = RecordsIn(scope)[j].name
              /\ scan.records[j].template = RecordsIn(scope)[j].template
<1> DEFINE n == Len(scope)
           p == PathAt(n)
<1>1. n \in Nat /\ p \in Seq(Blocks) /\ Len(p) \in Nat /\ RecordsIn(scope) = p
  BY PathsAreSequences
<1>2. Mirrors(scan.records, p, n) /\ scan.depth = n
  BY <1>1 DEF ScopesAgree
<1>3. /\ Len(scan.records) \in Nat
      /\ \A j \in 1..Len(scan.records) : scan.records[j].depth \in Int
      /\ \A j \in 1..Len(scan.records) : scan.records[j].depth < n
  BY <1>2, ScanTypes DEF ScanOK, Nested
<1> HIDE DEF n, p
<1>4. Len(p) = Len(scan.records)
  <2> SUFFICES ASSUME Len(p) # Len(scan.records) PROVE FALSE
    OBVIOUS
  <2>0. Len(p) <= Len(scan.records)
    BY <1>2 DEF Mirrors
  <2>a. PICK l \in Nat, r \in Nat : l = Len(p) /\ r = Len(scan.records)
    BY <1>1, <1>3, Zenon
  <2>b. l <= r /\ l # r
    BY <2>0, <2>a, Zenon
  <2>c. r \in 1..r /\ r > l
    BY ONLY l \in Nat, r \in Nat, <2>b
  <2>1. Len(scan.records) \in 1..Len(scan.records) /\ Len(scan.records) > Len(p)
    BY <2>a, <2>c, Zenon
  <2>2. scan.records[Len(scan.records)].depth >= n
    BY <1>2, <2>1 DEF Mirrors
  <2> QED BY <1>1, <1>3, <2>1, <2>2
<1> QED BY <1>1, <1>2, <1>4 DEF Mirrors

LEMMA EnterKeeps ==
  ASSUME ScanOK, CompilerOK, ScopesAgree,
         NEW b \in Blocks \cup {NoRecord}, Enter(b),
         NEW s \in Scans, s.records = scan.records, s.depth = scan.depth,
         s.pending = b.name, b # NoRecord => s.pendingTemplate = b.template,
         scan' = OpenBrace(s)
  PROVE  ScopesAgree'
<1> DEFINE n == Len(scope)
           m == Len(scan.records)
           p == PathAt(n)
           q == IF b = NoRecord THEN p ELSE Append(p, b)
           R == scan.records
           Q == scan'.records
<1>1. /\ n \in Nat /\ p \in Seq(Blocks) /\ Len(p) = m /\ m \in Nat
      /\ \A j \in 1..m : R[j].name = p[j].name /\ R[j].template = p[j].template
      /\ RecordsIn(scope) = p /\ scan.depth = n
      /\ \A i \in 0..n : Len(PathAt(i)) \in Nat
  BY PathsAreSequences, Innermost, ScanTypes DEF ScanOK, ScopesAgree
<1>2. /\ \A j \in 1..m : R[j].depth \in Int /\ R[j].depth < n
  BY <1>1, ScanTypes DEF ScanOK, Nested
<1>3. b # NoRecord => /\ b \in Blocks /\ b.name # None
                      /\ b = [name |-> b.name, template |-> b.template]
  BY NamesAssumption DEF Blocks
<1>4. NoRecord.name = None
  BY DEF NoRecord
<1>5. scope' = Append(scope, q)
  BY <1>1 DEF Enter
<1>6. b # NoRecord => /\ Append(p, b) \in Seq(Blocks) /\ Len(Append(p, b)) = m + 1
                      /\ \A j \in 1..m : Append(p, b)[j] = p[j]
                      /\ Append(p, b)[m + 1] = b
  BY <1>1, <1>3, Appended
<1>7. q \in Seq(Blocks)
  BY <1>1, <1>6
<1>8. /\ scope \in Seq(Seq(Blocks)) /\ scope' \in Seq(Seq(Blocks)) /\ Len(scope') = n + 1
      /\ \A i \in 1..n : scope'[i] = scope[i]
      /\ scope'[n + 1] = q
  <2> HIDE DEF q
  <2>1. scope \in Seq(Seq(Blocks))
    BY DEF CompilerOK
  <2> QED BY <2>1, <1>5, <1>7, Appended
<1>9. \A i \in 0..n : PathAt(i)' = PathAt(i)
  <2> SUFFICES ASSUME NEW i \in 0..n PROVE PathAt(i)' = PathAt(i)
    OBVIOUS
  <2>1. i = 0 \/ i \in 1..n
    BY <1>1
  <2> QED BY <1>8, <2>1 DEF PathAt
<1>10. ASSUME NEW i \in Nat, i = n + 1 PROVE PathAt(i)' = q
  <2> HIDE DEF q
  <2>1. i # 0 /\ scope'[i] = q
    BY <1>1, <1>8, <1>10
  <2> QED BY <2>1 DEF PathAt
<1>11. /\ scan'.depth = n + 1
       /\ b = NoRecord => Q = R
       /\ b # NoRecord => /\ Len(Q) = m + 1
                          /\ \A j \in 1..m : Q[j] = R[j]
                          /\ Q[m + 1].name = b.name /\ Q[m + 1].depth = n
                          /\ Q[m + 1].template = b.template
  <2> DEFINE t == OpenBrace(s)
  <2>1. s.pending = None <=> b = NoRecord
    BY <1>3, <1>4
  <2>2. /\ t.depth = s.depth + 1
        /\ s.pending = None => t.records = s.records
        /\ s.pending # None =>
             /\ Len(t.records) = m + 1
             /\ \A j \in 1..m : t.records[j] = R[j]
             /\ t.records[m + 1] =
                  [name |-> s.pending, depth |-> s.depth, template |-> s.pendingTemplate]
    BY OpenBraceIs
  <2> HIDE DEF t
  <2>3. scan' = t /\ s.depth = n
    BY <1>1 DEF t
  <2> QED BY <2>1, <2>2, <2>3
<1>12. \A i \in 0..n : Mirrors(R, PathAt(i), i)
  BY DEF ScopesAgree
<1> HIDE DEF n, m, p, R, Q
<1>13. \A i \in 0..n : Mirrors(Q, PathAt(i), i)
  <2> SUFFICES ASSUME NEW i \in 0..n PROVE Mirrors(Q, PathAt(i), i)
    OBVIOUS
  <2>1. CASE b = NoRecord
    BY <1>11, <1>12, <2>1
  <2>2. CASE b # NoRecord
    <3>1. Mirrors(R, PathAt(i), i) /\ Len(PathAt(i)) \in Nat /\ Len(R) = m
      BY <1>1, <1>12 DEF m, R
    <3>2. Len(PathAt(i)) <= m /\ Len(PathAt(i)) <= Len(Q)
      BY <1>1, <1>11, <2>2, <3>1 DEF Mirrors
    <3>3. ASSUME NEW j \in 1..Len(PathAt(i))
          PROVE  /\ Q[j].name = PathAt(i)[j].name
                 /\ Q[j].template = PathAt(i)[j].template
                 /\ Q[j].depth < i
      <4>1. j \in 1..m
        BY <1>1, <3>1, <3>2
      <4> QED BY <1>11, <2>2, <3>1, <4>1 DEF Mirrors
    <3>4. ASSUME NEW j \in 1..Len(Q), j > Len(PathAt(i)) PROVE Q[j].depth >= i
      <4>1. j \in 1..m \/ j = m + 1
        BY <1>1, <1>11, <2>2
      <4> QED BY <1>1, <1>11, <2>2, <3>1, <3>4, <4>1 DEF Mirrors
    <3> QED BY <3>2, <3>3, <3>4 DEF Mirrors
  <2> QED BY <2>1, <2>2
<1>14. Mirrors(Q, q, n + 1)
  <2>1. CASE b = NoRecord
    <3>1. Q = R /\ q = p /\ Len(R) = m
      BY <1>11, <2>1 DEF m, R
    <3>2. \A j \in 1..m : R[j].depth < n + 1
      BY <1>1, <1>2
    <3> QED BY <1>1, <3>1, <3>2 DEF Mirrors
  <2>2. CASE b # NoRecord
    <3>1. q = Append(p, b) /\ Len(q) = m + 1 /\ Len(Q) = m + 1
      BY <1>6, <1>11, <2>2
    <3>2. ASSUME NEW j \in 1..(m + 1)
          PROVE  Q[j].name = q[j].name /\ Q[j].template = q[j].template /\ Q[j].depth < n + 1
      <4>1. j \in 1..m \/ j = m + 1
        BY <1>1
      <4>2. CASE j \in 1..m
        <5> HIDE DEF q
        <5>1. Q[j] = R[j] /\ q[j] = p[j]
          BY <1>6, <1>11, <2>2, <3>1, <4>2
        <5>2. R[j].name = p[j].name /\ R[j].template = p[j].template /\ R[j].depth < n + 1
          BY <1>1, <1>2, <4>2
        <5> QED BY <5>1, <5>2
      <4>3. CASE j = m + 1
        BY <1>1, <1>6, <1>11, <2>2, <3>1, <4>3
      <4> QED BY <4>1, <4>2, <4>3
    <3> QED BY <1>1, <3>1, <3>2 DEF Mirrors
  <2> QED BY <2>1, <2>2
<1> HIDE DEF q
<1>15. \A i \in 0..(n + 1) : Mirrors(Q, PathAt(i)', i)
  <2> SUFFICES ASSUME NEW i \in 0..(n + 1) PROVE Mirrors(Q, PathAt(i)', i)
    OBVIOUS
  <2>1. i \in 0..n \/ i = n + 1
    BY <1>1
  <2> QED BY <1>9, <1>10, <1>13, <1>14, <2>1
<1> QED BY <1>8, <1>11, <1>15 DEF ScopesAgree, Q

LEMMA LeaveKeeps ==
  ASSUME ScanOK, CompilerOK, ScopesAgree, scope # <<>>,
         scope' = Pop(scope), scan' = CloseBrace(scan)
  PROVE  ScopesAgree'
<1> DEFINE n == Len(scope)
           R == scan.records
           Q == scan'.records
           k == Kept(R, n - 1)
<1>1. /\ n \in Nat \ {0} /\ scan.depth = n /\ n - 1 \in Int
      /\ \A i \in 0..n : Len(PathAt(i)) \in Nat
  <2>1. scope \in Seq(Seq(Blocks))
    BY DEF CompilerOK
  <2> QED BY <2>1, PathsAreSequences DEF ScopesAgree
<1>2. /\ R \in Seq(RecordFrames) /\ Len(R) \in Nat
      /\ \A j \in 1..Len(R) : R[j].depth \in Int
  BY ScanTypes DEF ScanOK
<1>3. /\ k \in 0..Len(R)
      /\ k > 0 => R[k].depth < n - 1
      /\ \A i \in (k + 1)..Len(R) : R[i].depth >= n - 1
  BY <1>1, <1>2, KeptStops
<1>4. scan'.depth = n - 1 /\ Len(Q) = k /\ \A j \in 1..k : Q[j] = R[j]
  BY <1>1, CloseBraceIs DEF ScanOK
<1>5. Len(scope') = n - 1 /\ \A i \in 1..(n - 1) : scope'[i] = scope[i]
  <2>1. scope \in Seq(Seq(Blocks))
    BY DEF CompilerOK
  <2> QED BY <2>1, Popped
<1>6. \A i \in 0..n : Mirrors(R, PathAt(i), i)
  BY DEF ScopesAgree
<1>7. \A i \in 0..(n - 1) : PathAt(i)' = PathAt(i)
  <2> SUFFICES ASSUME NEW i \in 0..(n - 1) PROVE PathAt(i)' = PathAt(i)
    OBVIOUS
  <2>1. i = 0 \/ i \in 1..(n - 1)
    BY <1>1
  <2> QED BY <1>5, <2>1 DEF PathAt
<1> HIDE DEF n, R, Q, k
<1>8. \A i \in 0..(n - 1) : Mirrors(Q, PathAt(i), i)
  <2> SUFFICES ASSUME NEW i \in 0..(n - 1) PROVE Mirrors(Q, PathAt(i), i)
    OBVIOUS
  <2> DEFINE c == Len(PathAt(i))
  <2>1. i \in 0..n /\ i <= n - 1
    BY <1>1
  <2>2. Mirrors(R, PathAt(i), i) /\ c \in Nat
    BY <1>1, <1>6, <2>1
  <2>3. c <= k
    <3> SUFFICES ASSUME c > k PROVE FALSE
      BY <1>2, <1>3, <2>2
    <3>1. c \in 1..c /\ c \in 1..Len(R) /\ c \in (k + 1)..Len(R)
      BY <1>2, <1>3, <2>2 DEF Mirrors
    <3>2. R[c].depth < i /\ R[c].depth >= n - 1 /\ R[c].depth \in Int
      BY <1>2, <1>3, <2>2, <3>1 DEF Mirrors
    <3> QED BY <1>1, <2>1, <3>2
  <2>4. \A j \in 1..c : j \in 1..k
    BY <1>2, <1>3, <2>2, <2>3
  <2>5. \A j \in 1..k : j \in 1..Len(R)
    BY <1>2, <1>3
  <2> QED BY <1>4, <2>2, <2>3, <2>4, <2>5 DEF Mirrors
<1>9. \A i \in 0..Len(scope') : Mirrors(Q, PathAt(i)', i)
  BY <1>5, <1>7, <1>8
<1> QED BY <1>4, <1>5, <1>9 DEF ScopesAgree, Q

-----------------------------------------------------------------------------
(* The lines of text *)

\* What the scanner has seen of a line before it comes to the brace.
Seen(l) == SeeDeclaration(SeeTemplate(scan, l), l)

LEMMA SeenIs ==
  ASSUME ScanOK, NEW l \in Lines
  PROVE  /\ Seen(l) \in Scans
         /\ Seen(l).records = scan.records /\ Seen(l).depth = scan.depth
         /\ l.decl = None =>
              /\ Seen(l).pending = scan.pending
              /\ Seen(l).pendingTemplate = scan.pendingTemplate
              /\ Seen(l).sawTemplate <=> scan.sawTemplate \/ l.template
         /\ l.decl # None => ~Seen(l).sawTemplate
         /\ l.decl # None /\ l.forward => Seen(l).pending = None
         /\ l.decl # None /\ ~l.forward =>
              /\ Seen(l).pending = l.decl
              /\ Seen(l).pendingTemplate <=> scan.sawTemplate \/ l.template
<1> DEFINE u == SeeTemplate(scan, l)
<1>1. /\ u \in Scans /\ u.records = scan.records /\ u.depth = scan.depth
      /\ u.pending = scan.pending /\ u.pendingTemplate = scan.pendingTemplate
      /\ u.sawTemplate <=> scan.sawTemplate \/ l.template
  BY DEF SeeTemplate, ScanOK, Scans, Lines
<1> HIDE DEF u
<1>2. CASE l.decl = None
  BY <1>1, <1>2 DEF Seen, SeeDeclaration, u
<1>3. CASE l.decl # None /\ l.forward
  <2>1. Seen(l) = [u EXCEPT !.pending = None, !.sawTemplate = FALSE]
    BY <1>3 DEF Seen, SeeDeclaration, u
  <2> QED BY <1>1, <1>3, <2>1 DEF Scans
<1>4. CASE l.decl # None /\ ~l.forward
  <2>1. Seen(l) = [u EXCEPT !.pending = l.decl, !.pendingTemplate = u.sawTemplate,
                            !.sawTemplate = FALSE]
    BY <1>4 DEF Seen, SeeDeclaration, u
  <2> QED BY <1>1, <1>4, <2>1 DEF Scans, Lines
<1> QED BY <1>2, <1>3, <1>4

LEMMA NoLineIs ==
  NoLine \in Lines /\ ~NoLine.template /\ NoLine.decl = None /\ NoLine.brace = "no"
BY DEF NoLine, Lines

\* Whatever the line, the scan stays one.
LEMMA BookkeepOK ==
  ASSUME ScanOK, NEW l \in Lines, Bookkeep(l)
  PROVE  /\ ScanOK'
         /\ ~Skipped => scan' = SeeBrace(Seen(l), l)
         /\ Skipped => scan' = scan
<1>1. /\ ~Skipped => scan' = SeeBrace(Seen(l), l)
      /\ Skipped => scan' = scan
  BY DEF Bookkeep, Seen
<1>2. SeeBrace(Seen(l), l) \in Scans /\ Nested(SeeBrace(Seen(l), l))
  BY LineOK DEF ScanOK, Seen
<1>3. CASE Skipped
  <2>1. scan' = scan
    BY <1>1, <1>3
  <2> QED BY <1>1, <2>1 DEF ScanOK
<1>4. CASE ~Skipped
  BY <1>1, <1>2, <1>4 DEF ScanOK
<1> QED BY <1>1, <1>3, <1>4

\* As long as the text met is handled, the scanner skips exactly the dead text.
LEMMA Sure ==
  ASSUME FInv, NEW c, Meets(Unsure \cup c), met' = {}
  PROVE  /\ met = {} /\ c = {}
         /\ Skipped <=> ~Live
         /\ ScopesAgree /\ Awaited
<1>1. met = {} /\ c = {} /\ ~AnyUnevaluated
  BY DEF Meets, Unsure
<1>2. CurrentlyActive <=> Live
  BY <1>1, LiveWhereSure DEF FInv
<1> QED BY <1>1, <1>2 DEF Skipped, FInv, Follows

LEMMA EnterTyped ==
  ASSUME CompilerOK, NEW b \in Blocks \cup {NoRecord}, Enter(b)
  PROVE  scope' \in Seq(Seq(Blocks))
<1>1. RecordsIn(scope) \in Seq(Blocks) /\ scope \in Seq(Seq(Blocks))
  BY PathsAreSequences DEF CompilerOK
<1>2. b # NoRecord => Append(RecordsIn(scope), b) \in Seq(Blocks)
  BY <1>1, Appended
<1> DEFINE q == IF b = NoRecord THEN RecordsIn(scope) ELSE Append(RecordsIn(scope), b)
<1>3. q \in Seq(Blocks) /\ scope' = Append(scope, q)
  BY <1>1, <1>2 DEF Enter
<1> HIDE DEF q
<1> QED BY <1>1, <1>3, Appended

LEMMA SameRecords ==
  ASSUME ScopesAgree, scan'.records = scan.records, scan'.depth = scan.depth, scope' = scope
  PROVE  ScopesAgree'
<1>1. \A i \in 0..Len(scope) : PathAt(i)' = PathAt(i)
  BY DEF PathAt
<1> QED BY <1>1 DEF ScopesAgree

\* What a line of text leaves alone, and what is left to show of it.
LEMMA TextKeeps ==
  ASSUME FInv, NEW l \in Lines, Text(l), met \subseteq met', CompilerOK', Follows'
  PROVE  FInv'
<1>1. IInv'
  BY OtherLine DEF Text, FInv
<1>2. ScanOK'
  BY BookkeepOK DEF Text, FInv
<1>3. Pairs' /\ NothingLostOrInvented'
  BY DEF Text, FInv, Pairs, NothingLostOrInvented
<1> QED BY <1>1, <1>2, <1>3 DEF FInv

LEMMA TemplateLineStep ==
  ASSUME FInv, NEW k \in {"typename", "class"}, TemplateLine(k)
  PROVE  FInv'
<1> DEFINE l == [NoLine EXCEPT !.template = TRUE,
                               !.decl = IF k = "class" THEN Parameter ELSE None]
<1>1. /\ l \in Lines /\ l.template /\ ~l.forward /\ l.brace = "no"
      /\ l.decl = IF k = "class" THEN Parameter ELSE None
  BY DEF NoLine, Lines, RecordNames
<1>2. /\ Live => template = "no" /\ opening = NoRecord
      /\ Text(l)
      /\ template' = IF Live THEN k ELSE template
      /\ Meets(Unsure \cup {})
      /\ UNCHANGED <<scope, opening>>
  BY DEF TemplateLine
<1> HIDE DEF l
<1>3. Bookkeep(l) /\ ScanOK /\ CompilerOK
  BY <1>2 DEF Text, FInv
<1>4. CompilerOK'
  BY <1>2, <1>3 DEF CompilerOK
<1>5. ASSUME met' = {} PROVE ScopesAgree' /\ Awaited'
  <2>1. (Skipped <=> ~Live) /\ ScopesAgree /\ Awaited
    BY <1>2, <1>5, Sure
  <2>2. CASE ~Live
    <3>1. scan' = scan /\ template' = template
      BY <1>1, <1>2, <1>3, <2>1, <2>2, BookkeepOK
    <3> QED BY <1>2, <2>1, <3>1, SameRecords DEF Awaited
  <2>3. CASE Live
    <3>1. scan' = Seen(l)
      BY <1>1, <1>3, <2>1, <2>3, BookkeepOK DEF SeeBrace
    <3>2. scan.pending = None /\ ~scan.sawTemplate /\ opening = NoRecord /\ template' = k
      BY <1>2, <2>1, <2>3 DEF Awaited, NoRecord
    <3>3. Parameter # None
      BY NamesAssumption
    <3>4. ScopesAgree'
      BY <1>1, <1>2, <1>3, <2>1, <3>1, SeenIs, SameRecords
    <3>5. Awaited'
      <4>1. CASE k = "class"
        BY <1>1, <1>2, <1>3, <3>1, <3>2, <3>3, <4>1, SeenIs DEF Awaited
      <4>2. CASE k = "typename"
        BY <1>1, <1>2, <1>3, <3>1, <3>2, <4>2, SeenIs DEF Awaited
      <4> QED BY <4>1, <4>2
    <3> QED BY <3>4, <3>5
  <2> QED BY <2>2, <2>3
<1> QED BY <1>1, <1>2, <1>4, <1>5, TextKeeps DEF Follows, Meets

LEMMA DeclareStep ==
  ASSUME FInv, NEW n \in Names, NEW brace \in {"no", "open"}, Declare(n, brace)
  PROVE  FInv'
<1> DEFINE l == [NoLine EXCEPT !.decl = n, !.brace = brace]
           block == [name |-> n, template |-> template # "no"]
           c == IF Live /\ template = "class" THEN {"class_parameter"} ELSE {}
<1>1. l \in Lines /\ ~l.template /\ ~l.forward /\ l.decl = n /\ l.brace = brace
  BY DEF NoLine, Lines, RecordNames
<1>2. /\ Live => opening = NoRecord
      /\ Text(l)
      /\ ~Live => UNCHANGED <<scope, opening>>
      /\ Live /\ brace = "open" => Enter(block) /\ UNCHANGED opening
      /\ Live /\ brace = "no" => opening' = block /\ UNCHANGED scope
      /\ template' = IF Live THEN "no" ELSE template
      /\ Meets(Unsure \cup c)
  BY DEF Declare
<1>3. /\ block \in Blocks /\ block # NoRecord /\ n # None
      /\ block.name = n /\ (block.template <=> template # "no")
  BY NamesAssumption DEF Blocks, NoRecord
<1> HIDE DEF l, block
<1>4. Bookkeep(l) /\ ScanOK /\ CompilerOK
  BY <1>2 DEF Text, FInv
<1>5. CompilerOK'
  <2>1. scope' \in Seq(Seq(Blocks))
    BY <1>2, <1>3, <1>4, EnterTyped DEF CompilerOK
  <2> QED BY <1>2, <1>3, <1>4, <2>1 DEF CompilerOK
<1>6. ASSUME met' = {} PROVE ScopesAgree' /\ Awaited'
  <2>1. (Skipped <=> ~Live) /\ ScopesAgree /\ Awaited /\ c = {}
    BY <1>2, <1>6, Sure
  <2>2. CASE ~Live
    <3>1. scan' = scan /\ template' = template
      BY <1>1, <1>2, <1>4, <2>1, <2>2, BookkeepOK
    <3> QED BY <1>2, <2>1, <2>2, <3>1, SameRecords DEF Awaited
  <2>3. CASE Live
    <3>1. scan' = SeeBrace(Seen(l), l)
      BY <1>1, <1>4, <2>1, <2>3, BookkeepOK
    <3>2. scan.sawTemplate <=> template # "no"
      <4>1. template \in {"no", "typename"}
        BY <1>4, <2>1, <2>3 DEF CompilerOK
      <4> QED BY <2>1, <4>1 DEF Awaited
    <3>3. /\ Seen(l) \in Scans /\ Seen(l).records = scan.records /\ Seen(l).depth = scan.depth
          /\ Seen(l).pending = n /\ ~Seen(l).sawTemplate
          /\ Seen(l).pendingTemplate <=> template # "no"
      BY <1>1, <1>3, <1>4, <3>2, SeenIs
    <3>4. Seen(l).pendingTemplate = block.template
      BY <1>3, <3>3 DEF Scans, Blocks
    <3>5. template' = "no" /\ opening = NoRecord
      BY <1>2, <2>3
    <3>6. CASE brace = "no"
      <4>1. scan' = Seen(l) /\ opening' = block /\ scope' = scope
        BY <1>1, <1>2, <2>3, <3>1, <3>6 DEF SeeBrace
      <4> QED BY <1>3, <2>1, <3>3, <3>4, <3>5, <4>1, SameRecords DEF Awaited
    <3>7. CASE brace = "open"
      <4>1. scan' = OpenBrace(Seen(l)) /\ Enter(block) /\ opening' = NoRecord
        BY <1>1, <1>2, <2>3, <3>1, <3>5, <3>7 DEF SeeBrace
      <4>2. ScopesAgree'
        BY <1>3, <1>4, <2>1, <3>3, <3>4, <4>1, EnterKeeps
      <4>3. scan'.pending = None /\ ~scan'.sawTemplate
        BY <3>3, <4>1, OpenBraceIs
      <4> QED BY <3>5, <4>1, <4>2, <4>3 DEF Awaited, NoRecord
    <3> QED BY <3>6, <3>7
  <2> QED BY <2>2, <2>3
<1> QED BY <1>1, <1>2, <1>5, <1>6, TextKeeps DEF Follows, Meets

LEMMA ForwardStep ==
  ASSUME FInv, NEW n \in Names, Forward(n)
  PROVE  FInv'
<1> DEFINE l == [NoLine EXCEPT !.decl = n, !.forward = TRUE]
<1>1. l \in Lines /\ ~l.template /\ l.forward /\ l.decl = n /\ n # None /\ l.brace = "no"
  BY NamesAssumption DEF NoLine, Lines, RecordNames
<1>2. /\ Live => opening = NoRecord
      /\ Text(l)
      /\ template' = IF Live THEN "no" ELSE template
      /\ Meets(Unsure \cup {})
      /\ UNCHANGED <<scope, opening>>
  BY DEF Forward
<1> HIDE DEF l
<1>3. Bookkeep(l) /\ ScanOK /\ CompilerOK
  BY <1>2 DEF Text, FInv
<1>4. CompilerOK'
  BY <1>2, <1>3 DEF CompilerOK
<1>5. ASSUME met' = {} PROVE ScopesAgree' /\ Awaited'
  <2>1. (Skipped <=> ~Live) /\ ScopesAgree /\ Awaited
    BY <1>2, <1>5, Sure
  <2>2. CASE ~Live
    <3>1. scan' = scan /\ template' = template
      BY <1>1, <1>2, <1>3, <2>1, <2>2, BookkeepOK
    <3> QED BY <1>2, <2>1, <3>1, SameRecords DEF Awaited
  <2>3. CASE Live
    <3>1. scan' = Seen(l) /\ template' = "no" /\ opening' = NoRecord
      BY <1>1, <1>2, <1>3, <2>1, <2>3, BookkeepOK DEF SeeBrace
    <3> QED BY <1>1, <1>2, <1>3, <2>1, <3>1, SeenIs, SameRecords DEF Awaited, NoRecord
  <2> QED BY <2>2, <2>3
<1> QED BY <1>1, <1>2, <1>4, <1>5, TextKeeps DEF Follows, Meets

LEMMA FunctionStep ==
  ASSUME FInv, Function
  PROVE  FInv'
<1> DEFINE c == IF Live /\ template # "no" THEN {"function_template"} ELSE {}
<1>1. /\ Live => opening = NoRecord
      /\ Text(NoLine)
      /\ template' = IF Live THEN "no" ELSE template
      /\ Meets(Unsure \cup c)
      /\ UNCHANGED <<scope, opening>>
  BY DEF Function
<1>2. Bookkeep(NoLine) /\ ScanOK /\ CompilerOK
  BY <1>1 DEF Text, FInv
<1>3. CompilerOK'
  BY <1>1, <1>2 DEF CompilerOK
<1>4. ASSUME met' = {} PROVE ScopesAgree' /\ Awaited'
  <2>1. ScopesAgree /\ Awaited /\ c = {}
    BY <1>1, <1>4, Sure
  <2>2. template' = template
    BY <1>1, <2>1
  <2>3. scan' = scan
    BY <1>2, NoLineIs DEF Bookkeep, SeeBrace, SeeDeclaration, SeeTemplate
  <2> QED BY <1>1, <2>1, <2>2, <2>3, SameRecords DEF Awaited
<1> QED BY <1>1, <1>3, <1>4, NoLineIs, TextKeeps DEF Follows, Meets

LEMMA OpenStep ==
  ASSUME FInv, Open
  PROVE  FInv'
<1> DEFINE l == [NoLine EXCEPT !.brace = "open"]
           c == IF Live /\ template # "no" THEN {"function_body"} ELSE {}
<1>1. l \in Lines /\ ~l.template /\ l.decl = None /\ l.brace = "open"
  BY DEF NoLine, Lines
<1>2. /\ Text(l)
      /\ Live => Enter(opening) /\ opening' = NoRecord /\ template' = "no"
      /\ ~Live => UNCHANGED <<scope, opening, template>>
      /\ Meets(Unsure \cup c)
  BY DEF Open
<1> HIDE DEF l
<1>3. Bookkeep(l) /\ ScanOK /\ CompilerOK /\ opening \in Blocks \cup {NoRecord}
  BY <1>2 DEF Text, FInv, CompilerOK
<1>4. CompilerOK'
  <2>1. scope' \in Seq(Seq(Blocks))
    BY <1>2, <1>3, EnterTyped DEF CompilerOK
  <2> QED BY <1>2, <1>3, <2>1 DEF CompilerOK
<1>5. ASSUME met' = {} PROVE ScopesAgree' /\ Awaited'
  <2>1. (Skipped <=> ~Live) /\ ScopesAgree /\ Awaited /\ c = {}
    BY <1>2, <1>5, Sure
  <2>2. CASE ~Live
    <3>1. scan' = scan
      BY <1>1, <1>3, <2>1, <2>2, BookkeepOK
    <3> QED BY <1>2, <2>1, <2>2, <3>1, SameRecords DEF Awaited
  <2>3. CASE Live
    <3>1. scan' = OpenBrace(Seen(l))
      BY <1>1, <1>3, <2>1, <2>3, BookkeepOK DEF SeeBrace
    <3>2. /\ scan.pending = opening.name /\ ~scan.sawTemplate
          /\ opening # NoRecord => scan.pendingTemplate = opening.template
      BY <2>1, <2>3 DEF Awaited
    <3>3. /\ Seen(l) \in Scans /\ Seen(l).records = scan.records /\ Seen(l).depth = scan.depth
          /\ Seen(l).pending = scan.pending /\ Seen(l).pendingTemplate = scan.pendingTemplate
          /\ ~Seen(l).sawTemplate
      BY <1>1, <1>3, <3>2, SeenIs
    <3>4. ScopesAgree'
      BY <1>2, <1>3, <2>1, <2>3, <3>1, <3>2, <3>3, EnterKeeps
    <3>5. scan'.pending = None /\ ~scan'.sawTemplate
      BY <3>1, <3>3, OpenBraceIs
    <3> QED BY <1>2, <2>3, <3>4, <3>5 DEF Awaited, NoRecord
  <2> QED BY <2>2, <2>3
<1> QED BY <1>1, <1>2, <1>4, <1>5, TextKeeps DEF Follows, Meets

LEMMA CloseStep ==
  ASSUME FInv, Close
  PROVE  FInv'
<1> DEFINE l == [NoLine EXCEPT !.brace = "close"]
<1>1. l \in Lines /\ ~l.template /\ l.decl = None /\ l.brace = "close"
  BY DEF NoLine, Lines
<1>2. /\ Live => scope # <<>> /\ opening = NoRecord /\ template = "no"
      /\ Text(l)
      /\ scope' = IF Live THEN Pop(scope) ELSE scope
      /\ Meets(Unsure \cup {})
      /\ UNCHANGED <<opening, template>>
  BY DEF Close
<1>3. Bookkeep(l) /\ ScanOK /\ CompilerOK
  BY <1>2 DEF Text, FInv
<1>4. CompilerOK'
  BY <1>2, <1>3, Popped DEF CompilerOK
<1>5. ASSUME met' = {} PROVE ScopesAgree' /\ Awaited'
  <2>1. (Skipped <=> ~Live) /\ ScopesAgree /\ Awaited
    BY <1>2, <1>5, Sure
  <2>2. CASE ~Live
    <3>1. scan' = scan
      BY <1>1, <1>3, <2>1, <2>2, BookkeepOK
    <3> QED BY <1>2, <2>1, <2>2, <3>1, SameRecords DEF Awaited
  <2>3. CASE Live
    <3>1. Seen(l) = scan
      BY <1>1 DEF Seen, SeeDeclaration, SeeTemplate
    <3>2. scan' = CloseBrace(scan)
      BY <1>1, <1>3, <2>1, <2>3, <3>1, BookkeepOK DEF SeeBrace
    <3>3. ScopesAgree'
      BY <1>2, <1>3, <2>1, <2>3, <3>2, LeaveKeeps
    <3>4. /\ scan'.pending = scan.pending /\ scan'.sawTemplate = scan.sawTemplate
          /\ scan'.pendingTemplate = scan.pendingTemplate
      BY <1>3, <3>2, CloseBraceIs DEF ScanOK
    <3> QED BY <1>2, <2>1, <3>3, <3>4 DEF Awaited
  <2> QED BY <2>2, <2>3
<1> QED BY <1>1, <1>2, <1>4, <1>5, TextKeeps DEF Follows, Meets

-----------------------------------------------------------------------------
(* The other lines *)

LEMMA DirectiveStep ==
  ASSUME FInv, Directive
  PROVE  FInv'
<1>1. IInv'
  BY IfStep, ElifStep, ElseStep, EndifStep DEF Directive, FInv
<1>2. /\ UNCHANGED <<scan, scope, opening, template, results, unevaluated, truth>>
      /\ met \subseteq met'
  BY DEF Directive, If, Elif, Else, Endif, Meets
<1>3. ScanOK' /\ CompilerOK' /\ Pairs'
  BY <1>2 DEF FInv, ScanOK, CompilerOK, Pairs
<1>4. ScopesAgree => ScopesAgree'
  BY <1>2, SameRecords
<1>5. Follows' /\ NothingLostOrInvented'
  BY <1>2, <1>4 DEF FInv, Follows, Awaited, NothingLostOrInvented
<1> QED BY <1>1, <1>3, <1>5 DEF FInv

LEMMA NextFileStep ==
  ASSUME FInv, NextFile
  PROVE  FInv'
<1>1. IInv'
  <2>1. stack = <<>>
    BY DEF NextFile, FInv, IInv, StacksOK
  <2> QED BY <2>1, OtherLine DEF NextFile, compiler, FInv
<1>2. /\ scan' = NoScan /\ scope' = <<>> /\ opening' = NoRecord /\ template' = "no"
      /\ UNCHANGED <<results, unevaluated, truth, met>>
  BY DEF NextFile, compiler
<1>3. ScanOK' /\ CompilerOK' /\ Pairs' /\ NothingLostOrInvented'
  <2>1. NoScan \in Scans /\ Nested(NoScan)
    BY DEF NoScan, Scans, Nested
  <2> QED BY <1>2, <2>1 DEF FInv, ScanOK, CompilerOK, Pairs, NothingLostOrInvented
<1>4. ScopesAgree'
  <2>1. /\ scan'.records = <<>> /\ scan'.depth = 0 /\ Len(scope') = 0
    BY <1>2 DEF NoScan
  <2>2. PathAt(0)' = <<>>
    BY DEF PathAt
  <2>3. Mirrors(<<>>, <<>>, 0)
    BY DEF Mirrors
  <2>4. \A i \in 0..0 : i = 0
    OBVIOUS
  <2>5. \A i \in 0..0 : PathAt(i)' = <<>>
    BY DEF PathAt
  <2> QED BY <2>1, <2>3, <2>4, <2>5 DEF ScopesAgree
<1>5. Awaited'
  BY <1>2 DEF Awaited, NoScan, NoRecord
<1> QED BY <1>1, <1>3, <1>4, <1>5 DEF FInv, Follows

\* The name filed depends on the names and the template marks of the records
\* alone, and these are the compiler's.
LEMMA SameName ==
  ASSUME ScanOK, CompilerOK, ScopesAgree, NEW name
  PROVE  Qualify(name, scan.records) = Qualify(name, RecordsIn(scope))
<1> DEFINE R == scan.records
           p == RecordsIn(scope)
<1>1. /\ R \in Seq(RecordFrames) /\ p \in Seq(Blocks) /\ Len(p) = Len(R) /\ Len(R) \in Nat
      /\ \A j \in 1..Len(R) : R[j].name = p[j].name /\ R[j].template = p[j].template
  BY ScanTypes, Innermost, PathsAreSequences DEF ScanOK
<1> HIDE DEF R, p
<1>2. DOMAIN R = 1..Len(R) /\ DOMAIN p = 1..Len(R)
  BY <1>1
<1>3. NamesOf(R) = NamesOf(p)
  BY <1>1, <1>2 DEF NamesOf
<1>4. R = <<>> <=> p = <<>>
  BY <1>1
<1>5. (\E i \in DOMAIN R : R[i].template) <=> (\E i \in DOMAIN p : p[i].template)
  BY <1>1, <1>2
<1>6. R # <<>> => Top(R).name = Top(p).name
  <2> SUFFICES ASSUME R # <<>> PROVE Top(R).name = Top(p).name
    OBVIOUS
  <2>1. Len(R) \in 1..Len(R)
    BY <1>1
  <2> QED BY <1>1, <2>1 DEF Top
<1> QED BY <1>3, <1>4, <1>5, <1>6 DEF Qualify, R, p

LEMMA FileStep ==
  ASSUME FInv, NEW name \in AssertedNames, NEW size \in Sizes, NEW commented \in BOOLEAN,
         StaticAssert(name, size, commented)
  PROVE  FInv'
<1>1. IInv'
  BY AssertStep DEF FInv
<1> DEFINE filed == Qualify(name, scan.records)
           e == <<filed, size>>
<1>2. PICK target \in Targets(name) :
        /\ truth' = IF Live /\ ~commented THEN truth \cup {<<target, size>>} ELSE truth
        /\ Meets(     IF commented THEN {"comment"}
                 ELSE IF Live /\ target # Qualify(name, RecordsIn(scope)) THEN {"outer_name"}
                 ELSE {})
  BY DEF StaticAssert
<1>3. /\ File(Bucket, e)
      /\ UNCHANGED <<scan, scope, opening, template>>
      /\ met \subseteq met'
  BY <1>2 DEF StaticAssert, Meets
<1>4. ScanOK' /\ CompilerOK'
  BY <1>3 DEF FInv, ScanOK, CompilerOK
<1>5. Follows'
  <2>1. ScopesAgree => ScopesAgree'
    BY <1>3, SameRecords
  <2> QED BY <1>3, <2>1 DEF FInv, Follows, Awaited
<1>6. Pairs'
  BY <1>2, <1>3 DEF File, FInv, Pairs
<1>7. NothingLostOrInvented'
  <2> SUFFICES ASSUME met' = {}
               PROVE  results' \subseteq truth' /\ truth' \subseteq results' \cup unevaluated'
    BY DEF NothingLostOrInvented
  <2>1. met = {} /\ ~commented /\ (Live => target = Qualify(name, RecordsIn(scope)))
    BY <1>2 DEF Meets
  <2>2. results \subseteq truth /\ truth \subseteq results \cup unevaluated
    BY <2>1 DEF FInv, NothingLostOrInvented
  <2>3. Live => target = filed
    BY <2>1, SameName DEF FInv, Follows
  <2>4. ~AnyUnevaluated => (CurrentlyActive <=> Live)
    BY <2>1, LiveWhereSure DEF FInv
  <2>5. truth' = IF Live THEN truth \cup {e} ELSE truth
    BY <1>2, <2>1, <2>3
  <2> HIDE DEF e
  <2>6. CASE AnyUnevaluated
    <3>1. Bucket = "unevaluated"
      BY <2>6 DEF Bucket
    <3> QED BY <1>3, <2>2, <2>5, <3>1 DEF File
  <2>7. CASE ~AnyUnevaluated /\ Live
    <3>1. Bucket = "results"
      BY <2>4, <2>7 DEF Bucket
    <3> QED BY <1>3, <2>2, <2>5, <2>7, <3>1 DEF File
  <2>8. CASE ~AnyUnevaluated /\ ~Live
    <3>1. Bucket = "other"
      BY <2>4, <2>8 DEF Bucket
    <3> QED BY <1>3, <2>2, <2>5, <2>8, <3>1 DEF File
  <2> QED BY <2>6, <2>7, <2>8
<1> QED BY <1>1, <1>4, <1>5, <1>6, <1>7 DEF FInv

LEMMA FInvInit == Init => FInv
<1> SUFFICES ASSUME Init PROVE FInv
  OBVIOUS
<1>1. /\ scan = NoScan /\ scope = <<>> /\ opening = NoRecord /\ template = "no"
      /\ results = {} /\ truth = {}
  BY DEF Init
<1>2. ScanOK /\ CompilerOK /\ Pairs /\ NothingLostOrInvented
  BY <1>1 DEF ScanOK, Scans, Nested, NoScan, CompilerOK, Pairs, NothingLostOrInvented
<1>3. ScopesAgree
  <2>1. scan.records = <<>> /\ scan.depth = 0 /\ Len(scope) = 0
    BY <1>1 DEF NoScan
  <2>2. \A i \in 0..0 : i = 0 /\ PathAt(i) = <<>>
    BY DEF PathAt
  <2>3. Mirrors(<<>>, <<>>, 0)
    BY DEF Mirrors
  <2> QED BY <2>1, <2>2, <2>3 DEF ScopesAgree
<1>4. Awaited
  BY <1>1 DEF Awaited, NoScan, NoRecord
<1> QED BY <1>2, <1>3, <1>4, InitHolds DEF FInv, Follows

LEMMA FInvStep == FInv /\ [Next]_vars => FInv'
<1> SUFFICES ASSUME FInv, [Next]_vars PROVE FInv'
  OBVIOUS
<1>1. CASE Directive
  BY <1>1, DirectiveStep
<1>2. CASE Code
  BY <1>2, TemplateLineStep, DeclareStep, ForwardStep, FunctionStep, OpenStep, CloseStep DEF Code
<1>3. CASE AssertLine
  BY <1>3, FileStep DEF AssertLine
<1>4. CASE NextFile
  BY <1>4, NextFileStep
<1>5. CASE UNCHANGED vars
  <2>1. IInv'
    BY <1>5, StepHolds DEF FInv
  <2>2. ScopesAgree => ScopesAgree'
    BY <1>5, SameRecords DEF vars, script, compiler
  <2> QED BY <1>5, <2>1, <2>2
       DEF FInv, ScanOK, CompilerOK, Follows, Awaited, Pairs, NothingLostOrInvented,
           vars, script, compiler
<1> QED BY <1>1, <1>2, <1>3, <1>4, <1>5 DEF Next

-----------------------------------------------------------------------------

\* The script's frames and the compiler's groups correspond, record_stack is
\* strictly nested and never reaches the current brace depth: no frame of it
\* is left standing by the popping loop, in any header, dead text included.
THEOREM TypeCorrect == Spec => []TypeOK
<1>1. FInv => TypeOK
  <2> SUFFICES ASSUME FInv PROVE TypeOK
    OBVIOUS
  <2>1. DOMAIN scan.records = 1..Len(scan.records)
    BY ScanTypes DEF FInv, ScanOK
  <2>2. opening # NoRecord => opening.name \in Names
    BY DEF FInv, CompilerOK, Blocks
  <2> QED BY <2>1, <2>2 DEF FInv, IInv, StacksOK, ScanOK, Nested, CompilerOK, TypeOK
<1> QED BY <1>1, FInvInit, FInvStep, PTL DEF Spec

\* Over headers of any length and nesting that keep to the constructs the
\* script handles, what it files as applicable is what the compiler sees, under
\* exactly those names, and what the compiler sees and it did not file so it
\* filed as unevaluated.
THEOREM Faithful == Spec => []NothingLostOrInvented
<1>1. FInv => NothingLostOrInvented
  BY DEF FInv
<1> QED BY <1>1, FInvInit, FInvStep, PTL DEF Spec

\* Over headers that keep to the handled constructs, the published map has one
\* size for a name and the compiler sees it; what else the compiler sees of a
\* name is reported as contradicting or as unevaluated; and a class reported as
\* asserted for other runtimes only is asserted nowhere for this one.
THEOREM Published == Spec => []PublishedTrue
<1>1. FInv => PublishedTrue
  <2> SUFFICES ASSUME FInv, met = {}
               PROVE  /\ AeMap \subseteq truth
                      /\ \A d, e \in AeMap : d[1] = e[1] => d = e
                      /\ \A t \in truth : \/ t \in AeMap \cup unevaluated
                                          \/ t[1] \in ConflictingNames
                      /\ \A t \in truth : t[1] \notin OnlyOther
    BY DEF PublishedTrue
  <2>1. results \subseteq truth /\ truth \subseteq results \cup unevaluated
    BY DEF FInv, NothingLostOrInvented
  <2>2. AeMap \subseteq truth
    BY <2>1 DEF AeMap
  <2>3. ASSUME NEW d \in AeMap, NEW e \in AeMap, d[1] = e[1]
        PROVE  d = e
    <3>1. d \in results /\ e \in results /\ d[1] \notin ConflictingNames
      BY DEF AeMap
    <3>2. d[2] = e[2]
      BY <2>3, <3>1 DEF ConflictingNames
    <3>3. d = <<d[1], d[2]>> /\ e = <<e[1], e[2]>>
      BY <3>1 DEF FInv, Pairs
    <3> QED BY <2>3, <3>2, <3>3
  <2>4. \A t \in truth : t \in AeMap \cup unevaluated \/ t[1] \in ConflictingNames
    BY <2>1 DEF AeMap
  <2>5. \A t \in truth : t[1] \notin OnlyOther
    BY <2>1 DEF OnlyOther
  <2> QED BY <2>2, <2>3, <2>4, <2>5
<1> QED BY <1>1, FInvInit, FInvStep, PTL DEF Spec
=============================================================================
