----------------------------- MODULE Selections -----------------------------
(***************************************************************************)
(* Parts of a sequence, in the sequence's order: what a loop that appends   *)
(* the elements that pass a test leaves.                                   *)
(***************************************************************************)
LOCAL INSTANCE Naturals
LOCAL INSTANCE Sequences

\* The elements of s at the positions in `positions'.
Selected(s, positions) ==
  LET upto[i \in 0..Len(s)] ==
        IF i = 0 THEN <<>>
        ELSE IF i \in positions THEN Append(upto[i - 1], s[i]) ELSE upto[i - 1]
  IN upto[Len(s)]
=============================================================================
