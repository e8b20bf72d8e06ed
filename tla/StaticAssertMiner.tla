------------------------- MODULE StaticAssertMiner -------------------------
(***************************************************************************)
(* type-importer/scripts/mine_static_asserts.py: the ground truth of the   *)
(* coverage sweep.  The script reads the headers line by line; it is not a *)
(* preprocessor and not a C++ parser.  It keeps a stack of #if frames whose *)
(* conditions it can evaluate, or not, a stack of the records it believes  *)
(* it is inside, and files every static_assert under a qualified name.     *)
(*                                                                         *)
(* Beside the script's state runs what a compiler makes of the same lines: *)
(* which text is live, which records enclose it and what a sizeof names.   *)
(* Live text is well formed; dead text may be anything.  The header is not *)
(* stored: each step reads one more line, any line that may come next.     *)
(* The inside of comments is no text; a line has at most one brace, alone  *)
(* or after `class X'; namespaces and bodies are plain blocks.             *)
(***************************************************************************)
EXTENDS Integers, Sequences, FiniteSets

CONSTANTS
  Names,        \* the records' simple names
  Parameter,    \* the name in `template <class T>'
  Sizes,        \* the asserted sizes
  None,         \* Python's None, and "no record"
  MaxNesting,   \* bound: #if groups, and blocks, open at a time
  AssertedNames,\* what a sizeof may name: sequences of simple names
  MaxAsserts,   \* bound: asserts; the last ends the run
  Constructs    \* bound: which constructs the script does not handle may be met

ASSUME NamesAssumption == None \notin Names \cup {Parameter}

VARIABLES
  \* the script
  stack,        \* the #if frames of the file
  scan,         \* record_stack, depth, pending, pending_template, saw_template
  results,      \* the asserts filed as applicable, as <<name, size>>
  other,        \* the asserts filed as guarded out
  unevaluated,  \* the asserts filed as behind an unrecognised macro
  \* the compiler
  groups,       \* its #if groups
  scope,        \* for each block it is inside, the records around its text
  opening,      \* the record declared whose block comes next, or NoRecord
  template,     \* the keyword of a template line that waits for its declaration
  truth,        \* what the live asserts say, as <<name, size>>
  \* of the text, for the properties and the bounds
  last,         \* the assert read just now, or NoAssert
  met,          \* the constructs met that the script does not handle
  asserts

script   == <<stack, scan, results, other, unevaluated>>
compiler == <<groups, scope, opening, template, truth>>
vars     == <<script, compiler, last, met, asserts>>

-----------------------------------------------------------------------------
(* The script's frames and records *)

Conditions == {"true", "false", "unknown"}
Activities == {"live", "dead", "unknown"}

\* eval_condition's outcome, or that it raised UnevaluableGuard.
Evaluated(c) == CASE c = "true" -> "live" [] c = "false" -> "dead" [] OTHER -> "unknown"

NoScan == [records |-> <<>>, depth |-> 0, pending |-> None,
           pendingTemplate |-> FALSE, sawTemplate |-> FALSE]

NoRecord == [name |-> None, template |-> FALSE]

Top(s)         == s[Len(s)]
Pop(s)         == SubSeq(s, 1, Len(s) - 1)
SetTop(s, f)   == [s EXCEPT ![Len(s)] = f]

CurrentlyActive == \A i \in DOMAIN stack : stack[i].active = "live"
AnyUnevaluated  == \E i \in DOMAIN stack : stack[i].active = "unknown"

NamesOf(records) == [i \in DOMAIN records |-> records[i].name]

\* The name an assert on `name', a sequence of simple names, is filed under.
Qualify(name, records) ==
  IF Len(name) > 1 \/ records = <<>> THEN name
  ELSE IF \E i \in DOMAIN records : records[i].template THEN name
  ELSE IF name[1] = Top(records).name THEN NamesOf(records)
  ELSE NamesOf(records) \o name

Bucket == CASE AnyUnevaluated -> "unevaluated"
            [] CurrentlyActive /\ ~AnyUnevaluated -> "results"
            [] OTHER -> "other"

-----------------------------------------------------------------------------
(* The record bookkeeping of one line.  A line shows the script: the word   *)
(* `template', the first record declared and whether a `;' comes before any *)
(* brace, and a brace.                                                      *)

NoLine == [template |-> FALSE, decl |-> None, forward |-> FALSE, brace |-> "no"]

SeeTemplate(s, l) == IF l.template THEN [s EXCEPT !.sawTemplate = TRUE] ELSE s

SeeDeclaration(s, l) ==
  IF l.decl = None THEN s
  ELSE IF l.forward THEN [s EXCEPT !.pending = None, !.sawTemplate = FALSE]
  ELSE [s EXCEPT !.pending = l.decl, !.pendingTemplate = s.sawTemplate,
                 !.sawTemplate = FALSE]

OpenBrace(s) ==
  [s EXCEPT !.depth   = @ + 1,
            !.pending = None,
            !.records = IF s.pending = None THEN @
                        ELSE Append(@, [name |-> s.pending, depth |-> s.depth,
                                        template |-> s.pendingTemplate])]

\* Where popping the frames that are not below depth d stops.
Kept(records, d) ==
  CHOOSE n \in 0..Len(records) :
    /\ n > 0 => records[n].depth < d
    /\ \A i \in (n + 1)..Len(records) : records[i].depth >= d

\* (Fault: a record is left one brace too late.)
CloseBraceLate(s) ==
  [s EXCEPT !.depth   = @ - 1,
            !.records = SubSeq(@, 1, Kept(@, s.depth))]

CloseBrace(s) ==
  [s EXCEPT !.depth   = @ - 1,
            !.records = SubSeq(@, 1, Kept(@, s.depth - 1))]

SeeBrace(s, l) == CASE l.brace = "open"  -> OpenBrace(s)
                    [] l.brace = "close" -> CloseBrace(s)
                    [] OTHER             -> s

\* (Fault: the braces of every branch count, as they once did.)
SkippedNever == FALSE

\* Text that is certainly dead is skipped; text that may be dead is not.
Skipped == ~CurrentlyActive /\ ~AnyUnevaluated

Bookkeep(l) ==
  scan' = IF Skipped THEN scan
          ELSE SeeBrace(SeeDeclaration(SeeTemplate(scan, l), l), l)

-----------------------------------------------------------------------------
(* The compiler *)

Live == \A i \in DOMAIN groups : groups[i].live

RecordsIn(blocks) == IF blocks = <<>> THEN <<>> ELSE Top(blocks)

\* Into the block of the record b, or into one that is no record's.
Enter(b) ==
  scope' = Append(scope, IF b = NoRecord THEN RecordsIn(scope) ELSE Append(RecordsIn(scope), b))

\* A condition on unrecognised macros may have either value.
ValuesOf(c) == CASE c = "true" -> {TRUE} [] c = "false" -> {FALSE} [] OTHER -> BOOLEAN

\* A sizeof names a record of the innermost scope or of one further out, or
\* the innermost record itself; inside a template the bare name is kept.
Targets(name) ==
  LET inside == RecordsIn(scope) IN
  IF \E i \in DOMAIN inside : inside[i].template THEN {name}
  ELSE IF inside # <<>> /\ Len(name) = 1 /\ name[1] = Top(inside).name
       THEN {NamesOf(inside)}
  ELSE {NamesOf(SubSeq(inside, 1, n)) \o name : n \in 0..Len(inside)}

-----------------------------------------------------------------------------
(* The directives: lines that are read for nothing else *)

NoAssert == [bucket |-> "none", live |-> FALSE]

\* Any line but an assert.
Read == asserts < MaxAsserts /\ last' = NoAssert /\ UNCHANGED asserts

\* The line is one of the constructs c.
Meets(c) == c \subseteq Constructs /\ met' = met \cup c

If(c) ==
  /\ Read
  /\ Len(stack) < MaxNesting
  /\ stack' = Append(stack, [taken |-> c = "true", active |-> Evaluated(c)])
  /\ \E v \in ValuesOf(c) :
       groups' = Append(groups, [taken |-> v, live |-> v, closed |-> FALSE,
                                 unknown |-> c = "unknown"])
  /\ UNCHANGED <<scan, results, other, unevaluated, scope, opening, template, truth, met>>

ElifFrame(f, c) ==
  IF f.taken THEN [f EXCEPT !.active = "dead"]
  ELSE [taken |-> c = "true", active |-> Evaluated(c)]

Elif(c) ==
  /\ Read
  /\ stack # <<>> /\ ~Top(groups).closed
  /\ stack' = SetTop(stack, ElifFrame(Top(stack), c))
  /\ LET g == Top(groups) IN
     /\ \E v \in ValuesOf(c) :
          groups' = SetTop(groups, [taken |-> g.taken \/ v, live |-> ~g.taken /\ v,
                                    closed |-> FALSE,
                                    unknown |-> g.unknown \/ (c = "unknown" /\ ~Top(stack).taken)])
     /\ Meets(IF g.unknown THEN {"elif_after_unknown"} ELSE {})
  /\ UNCHANGED <<scan, results, other, unevaluated, scope, opening, template, truth>>

\* (Fault: the #else of a condition that is not known is taken to be live.)
ElseFrameGuess(f) ==
  [taken |-> TRUE, active |-> IF f.taken THEN "dead" ELSE "live"]

ElseFrame(f) ==
  [taken |-> TRUE,
   active |-> IF f.active = "unknown" THEN "unknown" ELSE IF f.taken THEN "dead" ELSE "live"]

Else ==
  /\ Read
  /\ stack # <<>> /\ ~Top(groups).closed
  /\ stack' = SetTop(stack, ElseFrame(Top(stack)))
  /\ groups' = SetTop(groups, [Top(groups) EXCEPT !.taken = TRUE, !.live = ~Top(groups).taken,
                                                  !.closed = TRUE])
  /\ UNCHANGED <<scan, results, other, unevaluated, scope, opening, template, truth, met>>

Endif ==
  /\ Read
  /\ stack # <<>>
  /\ stack'  = Pop(stack)
  /\ groups' = Pop(groups)
  /\ UNCHANGED <<scan, results, other, unevaluated, scope, opening, template, truth, met>>

-----------------------------------------------------------------------------
(* The lines of text other than asserts *)

\* A line that changes the nesting where the condition is not known.
Unsure == IF AnyUnevaluated THEN {"shape_under_unknown"} ELSE {}

\* What every such line does to the script.
Text(l) ==
  /\ Read
  /\ Bookkeep(l)
  /\ UNCHANGED <<stack, results, other, unevaluated, groups, truth>>

\* `template <typename T>' and `template <class T>' on a line of their own.
TemplateLine(keyword) ==
  /\ Live => template = "no" /\ opening = NoRecord
  /\ Text([NoLine EXCEPT !.template = TRUE,
                         !.decl = IF keyword = "class" THEN Parameter ELSE None])
  /\ template' = IF Live THEN keyword ELSE template
  /\ Meets(Unsure)
  /\ UNCHANGED <<scope, opening>>

\* `class n' with its brace on a later line, or on this one.
Declare(n, brace) ==
  /\ Live => opening = NoRecord /\ (brace = "open" => Len(scope) < MaxNesting)
  /\ Text([NoLine EXCEPT !.decl = n, !.brace = brace])
  /\ LET block == [name |-> n, template |-> template # "no"] IN
     IF ~Live THEN UNCHANGED <<scope, opening>>
     ELSE IF brace = "open" THEN Enter(block) /\ UNCHANGED opening
     ELSE opening' = block /\ UNCHANGED scope
  /\ template' = IF Live THEN "no" ELSE template
  /\ Meets(Unsure \cup (IF Live /\ template = "class" THEN {"class_parameter"} ELSE {}))

\* `class n;'
Forward(n) ==
  /\ Live => opening = NoRecord
  /\ Text([NoLine EXCEPT !.decl = n, !.forward = TRUE])
  /\ template' = IF Live THEN "no" ELSE template
  /\ Meets(Unsure)
  /\ UNCHANGED <<scope, opening>>

\* A declaration without a body of what is no record: `T* As();'.
Function ==
  /\ Live => opening = NoRecord
  /\ Text(NoLine)
  /\ template' = IF Live THEN "no" ELSE template
  /\ Meets(Unsure \cup (IF Live /\ template # "no" THEN {"function_template"} ELSE {}))
  /\ UNCHANGED <<scope, opening>>

\* `{': the block of the record just declared, of a function or of a namespace.
Open ==
  /\ IF Live THEN Len(scope) < MaxNesting ELSE scan.depth < MaxNesting
  /\ Text([NoLine EXCEPT !.brace = "open"])
  /\ IF Live
     THEN Enter(opening) /\ opening' = NoRecord /\ template' = "no"
     ELSE UNCHANGED <<scope, opening, template>>
  /\ Meets(Unsure \cup (IF Live /\ template # "no" THEN {"function_body"} ELSE {}))

\* `}'
Close ==
  /\ Live => scope # <<>> /\ opening = NoRecord /\ template = "no"
  /\ scan.depth > -MaxNesting
  /\ Text([NoLine EXCEPT !.brace = "close"])
  /\ scope' = IF Live THEN Pop(scope) ELSE scope
  /\ Meets(Unsure)
  /\ UNCHANGED <<opening, template>>

-----------------------------------------------------------------------------
(* The asserts *)

File(bucket, e) ==
  /\ results'     = IF bucket = "results" THEN results \cup {e} ELSE results
  /\ other'       = IF bucket = "other" THEN other \cup {e} ELSE other
  /\ unevaluated' = IF bucket = "unevaluated" THEN unevaluated \cup {e} ELSE unevaluated

\* The script searches the raw line, comments and all.
StaticAssert(name, size, commented) ==
  /\ asserts < MaxAsserts /\ asserts' = asserts + 1
  /\ Live /\ ~commented => opening = NoRecord /\ template = "no"
  /\ File(Bucket, <<Qualify(name, scan.records), size>>)
  /\ last' = [bucket |-> Bucket, live |-> Live /\ ~commented]
  /\ \E target \in Targets(name) :
        /\ truth' = IF Live /\ ~commented THEN truth \cup {<<target, size>>} ELSE truth
        /\ Meets(     IF commented THEN {"comment"}
                 ELSE IF Live /\ target # Qualify(name, RecordsIn(scope)) THEN {"outer_name"}
                 ELSE {})
  /\ UNCHANGED <<stack, scan, groups, scope, opening, template>>

\* The next header: the scanner starts afresh, the dictionaries go on.
NextFile ==
  /\ Read
  /\ groups = <<>> /\ scope = <<>> /\ opening = NoRecord /\ template = "no"
  /\ scan # NoScan
  /\ stack' = <<>> /\ scan' = NoScan
  /\ UNCHANGED <<results, other, unevaluated, compiler, met>>

-----------------------------------------------------------------------------
(* What main publishes *)

ConflictingNames == {e[1] : e \in {d \in results : \E f \in results : f[1] = d[1] /\ f[2] # d[2]}}
\* (Fault: contradicting sizes are published like any other.)
AeMapFirst == {e \in results : TRUE}

AeMap     == {e \in results : e[1] \notin ConflictingNames}
OnlyOther == {e[1] : e \in other} \ ({e[1] : e \in results} \cup {e[1] : e \in unevaluated})

-----------------------------------------------------------------------------
Init ==
  /\ stack = <<>> /\ scan = NoScan
  /\ results = {} /\ other = {} /\ unevaluated = {}
  /\ groups = <<>> /\ scope = <<>> /\ opening = NoRecord /\ template = "no" /\ truth = {}
  /\ last = NoAssert /\ met = {} /\ asserts = 0

Directive == \/ \E c \in Conditions : If(c) \/ Elif(c)
             \/ Else
             \/ Endif

Code == \/ \E k \in {"typename", "class"} : TemplateLine(k)
        \/ \E n \in Names, b \in {"no", "open"} : Declare(n, b)
        \/ \E n \in Names : Forward(n)
        \/ Function
        \/ Open
        \/ Close

AssertLine == \E name \in AssertedNames, size \in Sizes, commented \in BOOLEAN :
                StaticAssert(name, size, commented)

Next == Directive \/ Code \/ AssertLine \/ NextFile

Spec == Init /\ [][Next]_vars

-----------------------------------------------------------------------------
(* Types.  The two stacks have one frame for every group that is open.      *)

Frames == [taken : BOOLEAN, active : Activities]
Groups == [taken : BOOLEAN, live : BOOLEAN, closed : BOOLEAN, unknown : BOOLEAN]

TypeOK ==
  /\ stack \in Seq(Frames)
  /\ groups \in Seq(Groups)
  /\ Len(stack) = Len(groups)
  /\ \A i \in DOMAIN scan.records : scan.records[i].depth < scan.depth
  /\ opening # NoRecord => opening.name \in Names
  /\ template \in {"no", "typename", "class"}

\* An assert is filed as applicable only if the compiler sees it, and as
\* guarded out only if it does not, whatever the unrecognised macros are: no
\* guard is "silently guessed" (mine_static_asserts.py:19-21).  Left aside are
\* the two constructs by which it is not so: an #elif after a condition that
\* is not known, and an assert in a comment.
NeverGuessed ==
  /\ last.bucket = "results" /\ met \cap {"elif_after_unknown", "comment"} = {} => last.live
  /\ last.bucket = "other" /\ "elif_after_unknown" \notin met => ~last.live

\* Over headers without the constructs in met, the asserts filed as applicable
\* are asserts the compiler sees under exactly those names, and none that it
\* sees is missing unless it is filed as unevaluated.  This is the brace
\* counting, the skipped branches, the template flag and the qualification.
NothingLostOrInvented ==
  met = {} => results \subseteq truth /\ truth \subseteq results \cup unevaluated

\* What is published over all the headers: the map has one size for a name, one
\* that the compiler sees asserted.  What the compiler sees and the map has not
\* is of a name reported for contradicting sizes, or behind a macro the script
\* does not know and reported as that (UNEVALUATED_GUARD), where it may differ
\* from the size in the map.  A class reported as asserted for other runtimes
\* only has no assert for this one.
PublishedTrue ==
  met = {} => /\ AeMap \subseteq truth
              /\ \A d, e \in AeMap : d[1] = e[1] => d = e
              /\ \A t \in truth : \/ t \in AeMap \cup unevaluated
                                  \/ t[1] \in ConflictingNames
              /\ \A t \in truth : t[1] \notin OnlyOther
=============================================================================
