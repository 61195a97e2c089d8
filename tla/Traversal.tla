----------------------------- MODULE Traversal ------------------------------
(***************************************************************************)
(* The accumulator of a Python `for` loop.  It is FoldLeft of              *)
(* SequencesExt, written as a function of the number of rounds so that the *)
(* lemmas of OpsProofs can reason about each round.                        *)
(***************************************************************************)
EXTENDS Integers, Sequences

\* The value after Op has been applied to every element of s in order.
Along(Op(_, _), base, s) ==
  LET after[i \in 0 .. Len(s)] == IF i = 0 THEN base ELSE Op(after[i - 1], s[i])
  IN  after[Len(s)]
=============================================================================
