SPECIFICATION FairSpec
CONSTANTS
  Node <- Nodes
  Bootstrap <- CrossingBootstrap
  Message = {"tx"}
  MaxPeers = 3
  Fanout = 3
  SeenSize = 1
  MaxEvents = 1
INVARIANTS
  OpenIsListed
  HandledOnce
PROPERTIES
  GossipReaches
  ClosedIsForgotten
CHECK_DEADLOCK FALSE
