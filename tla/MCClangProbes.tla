---------------------------- MODULE MCClangProbes ----------------------------
(* ClangProbes for TLC: two units with a forward declaration, a class defined  *)
(* twice, sugared fields and templates of one and two arguments.              *)
EXTENDS ClangProbes

Type(canonical, args, below, ref) ==
  [canonical |-> canonical, args |-> args, below |-> below, hkRefPtr |-> ref]

TypeInfo ==
  [visitor |-> Type("visitor", << >>, NoType, FALSE),
   stream  |-> Type("stream", << >>, NoType, FALSE),
   entry   |-> Type("entry", << >>, NoType, FALSE),
   alloc   |-> Type("alloc", << >>, NoType, FALSE),
   ref     |-> Type("refC", << >>, "refC", TRUE),
   refC    |-> Type("refC", <<"entry">>, NoType, TRUE),
   array   |-> Type("arrayC", << >>, "arrayA", FALSE),
   arrayA  |-> Type("arrayC", << >>, "arrayC", FALSE),
   arrayC  |-> Type("arrayC", <<"entry", "alloc">>, NoType, FALSE)]

Record(name, type, definition) ==
  [kind |-> "record", name |-> name, type |-> type, definition |-> definition, parent |-> 0]
Field(type, parent) ==
  [kind |-> "field", name |-> "field", type |-> type, definition |-> TRUE, parent |-> parent]

TwoUnits ==
  {<<Record("ArmorRatingVisitor", "visitor", FALSE), Record("ArmorRatingVisitor", "visitor", TRUE),
     Field("array", 2), Record("NiStream", "stream", TRUE), Field("ref", 4),
     Record("Directional", "stream", TRUE), Field("array", 6)>>,
   <<Record("NiStream", "stream", TRUE), Field("ref", 1), Field("ref", 1),
     Record("ArmorRatingVisitor", "visitor", TRUE), Field("refC", 4),
     Record("ArmorRatingVisitor", "entry", TRUE), Field("array", 6)>>}

\* At most one type that libclang is wrong about after another.
OneUpset ==
  {[t \in DOMAIN TypeInfo |-> IF t = a THEN b ELSE NoType] :
     a \in DOMAIN TypeInfo, b \in DOMAIN TypeInfo \cup {NoType}}
=============================================================================
