--------------------------- MODULE GovernanceOps ----------------------------
(***************************************************************************)
(* The history of system parameters of currency/params.py: a list of       *)
(* records in the order of their activation heights.  Of SystemParameters  *)
(* only what the lifecycle of N reads is kept.                             *)
(***************************************************************************)
EXTENDS Integers, Sequences, SequencesExt

CONSTANT Params  \* parameter sets: [required : Nat, minMint : Nat]

ASSUME ParamsAssumption == Params \subseteq [required : Nat \ {0}, minMint : Nat]

ParameterRecord == [height : Nat, params : Params]

\* latest
Latest(history) == Last(history).params

\* Slip: a record is not yet in force at its own height.
ParamsAt_FromNext(history, h) ==
  LET n == Len(history)
      best[x \in (1 .. n + 1) \X (0 .. n) \X (1 .. n)] ==
        LET mid == (x[1] + x[2]) \div 2
        IN  IF x[1] > x[2] THEN x[3]
            ELSE IF history[mid].height < h THEN best[<<mid + 1, x[2], mid>>]
            ELSE best[<<x[1], mid - 1, x[3]>>]
  IN  history[best[<<1, n, 1>>]].params

(***************************************************************************)
(* get_params_at_height: binary search for the last record at or below h,  *)
(* falling back to the first record.  A search is its lo, its hi and its   *)
(* best so far.                                                            *)
(***************************************************************************)
ParamsAt(history, h) ==
  LET n == Len(history)
      best[x \in (1 .. n + 1) \X (0 .. n) \X (1 .. n)] ==
        LET mid == (x[1] + x[2]) \div 2
        IN  IF x[1] > x[2] THEN x[3]
            ELSE IF history[mid].height <= h THEN best[<<mid + 1, x[2], mid>>]
            ELSE best[<<x[1], mid - 1, x[3]>>]
  IN  history[best[<<1, n, 1>>]].params

\* Slip: a second record for the latest height is accepted.
CanUpdate_SameHeight(history, at) == at >= Last(history).height

\* update's condition: records are appended at growing heights.
CanUpdate(history, at) == at > Last(history).height
=============================================================================
