------------------------------ MODULE MCChain -------------------------------
(***************************************************************************)
(* Instances of Chain: a validator and an observer, every transaction      *)
(* added with fee=0 as node.py and the API servers add them.               *)
(***************************************************************************)
EXTENDS Chain

NoPriority == [t \in Tx |-> 0]
UnitSize == [t \in Tx |-> 1]

(***************************************************************************)
(* Two funded outpoints.  "pay" and "rival" spend the first, "change" the  *)
(* first output of "pay"; "greedy" spends the second and creates more than *)
(* it is worth.                                                            *)
(***************************************************************************)
Transfers == {"pay", "rival", "change", "greedy"}
TransferInputs ==
  [t \in Transfers |->
     CASE t \in {"pay", "rival"} -> <<<<"alloc", 1>>>>
       [] t = "change" -> <<<<"pay", 1>>>>
       [] OTHER        -> <<<<"alloc", 2>>>>]
TransferOutputs ==
  [t \in Transfers \cup {"alloc"} |->
     CASE t = "alloc"  -> <<3, 2>>
       [] t = "pay"    -> <<2, 1>>
       [] t = "change" -> <<2, 0>>
       [] OTHER        -> <<3>>]
=============================================================================
