------------------------------- MODULE MCP2P -------------------------------
(***************************************************************************)
(* Nodes "a" and "b" dial each other, so that two connections join them,   *)
(* and "c" dials "b": what "a" and "c" publish reaches the other by way of  *)
(* "b", and comes back to its sender over the second connection.           *)
(***************************************************************************)
EXTENDS P2P

Nodes == {"a", "b", "c"}
CrossingBootstrap ==
  [n \in Nodes |-> CASE n = "a" -> {"b"} [] n = "b" -> {"a"} [] OTHER -> {"b"}]
=============================================================================
