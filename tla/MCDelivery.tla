----------------------------- MODULE MCDelivery -----------------------------
(***************************************************************************)
(* Instances of Delivery: a validator and an observer, one transaction per *)
(* block.  "pay" and "rival" spend the funded outpoint, "change" the       *)
(* output of "pay", so that it is invalid when it is posted before.        *)
(***************************************************************************)
EXTENDS Delivery

Transfers == {"pay", "rival", "change"}
TransferInputs == [t \in Transfers |-> IF t = "change" THEN <<<<"pay", 1>>>> ELSE <<<<"alloc", 1>>>>]
TransferOutputs == [t \in Transfers \cup {"alloc"} |-> <<2>>]

NoPriority == [t \in Tx |-> 0]
UnitSize == [t \in Tx |-> 1]
=============================================================================
