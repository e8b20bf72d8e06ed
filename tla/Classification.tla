--------------------------- MODULE Classification ---------------------------
(***************************************************************************)
(* coverage_report.py's classification of one name: what the headers       *)
(* assert of its size against what the sweep resolved.                     *)
(***************************************************************************)
EXTENDS Integers

CONSTANTS
    Sizes,  \* sizes in bytes that a sweep or a static_assert can give
    None    \* Python's None: no such size

ASSUME SizesAssumption == Sizes \subseteq Nat
ASSUME NoneAssumption == None \notin Nat

MaybeSize == Sizes \cup {None}

EmptyThreshold == 1

Statuses == {"UNRESOLVED", "EMPTY", "MISMATCH", "NO_GROUND_TRUTH", "OK"}

ASSUME NoStatusAssumption == None \notin Statuses

Entries == [status : Statuses, expected : MaybeSize, actual : MaybeSize]

IsEmpty(exp, act) ==
    act <= EmptyThreshold /\ (exp = None \/ exp > EmptyThreshold)

\* (Fault: the report's two EMPTY sections become two statuses, one unknown to RANK.)
StatusSplitEmpty(exp, act) ==
    CASE act = None -> "UNRESOLVED"
      [] act # None /\ IsEmpty(exp, act) ->
            IF exp = None THEN "EMPTY" ELSE "EMPTY_CONFIRMED"
      [] act # None /\ ~IsEmpty(exp, act) /\ exp = None -> "NO_GROUND_TRUTH"
      [] OTHER -> IF exp = act THEN "OK" ELSE "MISMATCH"

\* The class's bucket: the branches of main's loop over all_names.
Status(exp, act) ==
    CASE act = None        -> "UNRESOLVED"
      [] act # None /\ IsEmpty(exp, act) -> "EMPTY"
      [] act # None /\ ~IsEmpty(exp, act) /\ exp = None -> "NO_GROUND_TRUTH"
      [] act # None /\ ~IsEmpty(exp, act) /\ exp = act  -> "OK"
      [] OTHER             -> "MISMATCH"

\* The entry of a name in the snapshot of one sweep.
EntryOf(exp, act) == [status |-> Status(exp, act), expected |-> exp, actual |-> act]
=============================================================================
