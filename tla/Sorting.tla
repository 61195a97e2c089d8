------------------------------ MODULE Sorting ------------------------------
(***************************************************************************)
(* Python's sort: elements of which neither precedes the other stay in the *)
(* order they had.                                                         *)
(***************************************************************************)
EXTENDS SequencesExt

StableSort(s, Before(_, _)) ==
  LET lt(i, j) == Before(s[i], s[j]) \/ (~ Before(s[j], s[i]) /\ i < j)
      order    == SetToSortSeq(DOMAIN s, lt)
  IN  [k \in DOMAIN s |-> s[order[k]]]
=============================================================================
