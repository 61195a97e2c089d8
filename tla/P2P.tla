-------------------------------- MODULE P2P ---------------------------------
(***************************************************************************)
(* Connections, peer tables and gossip: network/p2p.py on every node.      *)
(*                                                                         *)
(* A websocket joins a dialer, which has the listener in its table under   *)
(* the listener's address, and a listener, which has the dialer under the  *)
(* ephemeral address of that connection.  Only the dialer sends a          *)
(* handshake, and it changes the listener's peer_id but not its key.       *)
(*                                                                         *)
(* A handler runs alone between two awaits: registering, handling one      *)
(* message with its gossip, and leaving are one step each.  last_seen is   *)
(* time alone: a peer is dead when its connection is closed and nothing    *)
(* came for the timeout.  Every message received, handshakes, pings and    *)
(* pongs included, takes a place in the deque of seen ones.                *)
(***************************************************************************)
EXTENDS Integers, Sequences, FiniteSetsExt, Functions

CONSTANTS
  Node,
  Bootstrap,    \* bootstrap_peers: the addresses each node dials when it starts
  Message,      \* gossip messages, by their msg_id
  MaxPeers,     \* max_peers
  Fanout,       \* gossip_fanout
  SeenSize,     \* seen_cache_size
  MaxEvents     \* bound: broken connections, failed dials, restarts and pings together

ASSUME P2PAssumption ==
  /\ Bootstrap \in [Node -> SUBSET Node]
  /\ \A n \in Node : n \notin Bootstrap[n]
  /\ Message \cap {"handshake", "ping", "pong", "control"} = {}
  /\ MaxPeers \in Nat \ {0} /\ Fanout \in Nat /\ SeenSize \in Nat \ {0}
  /\ MaxEvents \in Nat

VARIABLES
  todial,    \* addresses a node has yet to dial
  table,     \* PeerManager._peers: key -> connection
  open,      \* connections that are open
  due,       \* <<listener, connection>> that _handle_inbound has yet to register
  reading,   \* <<node, connection>> whose handler reads its websocket
  greeted,   \* those whose peer_id is the node_id of a handshake
  wire,      \* <<connection, receiver, message>> under way
  seen,      \* _seen_messages: a deque
  handled,   \* how often each node handed each message to the application
  total,     \* how many messages of any kind each node has taken up
  author,    \* who broadcast a message first, of those published
  events, starts

vars == <<todial, table, open, due, reading, greeted, wire, seen, handled, total,
          author, events, starts>>

\* A connection: dialer, listener, and which start of the dialer made it.
Conn == UNION {{<<a, b, g>> : b \in Bootstrap[a], g \in 0 .. MaxEvents} : a \in Node}

Ends(c) == {c[1], c[2]}
Other(n, c) == IF n = c[1] THEN c[2] ELSE c[1]
AddressOf(n) == <<"addr", n>>
NodeId(n) == <<"id", n>>
Handshake == "handshake"

\* The id of a handshake, a ping or a pong, in the deque.
Control == "control"

\* Slip: the port of an inbound connection is left out of its address.
Key_HostOnly(n, c) == IF n = c[1] THEN AddressOf(c[2]) ELSE <<"host", c[1]>>

\* The peer_id that a connection's Peer is made and registered with.
Key(n, c) == IF n = c[1] THEN AddressOf(c[2]) ELSE c

\* The peer_id that it has now.
PeerId(n, c) == IF <<n, c>> \in greeted THEN NodeId(Other(n, c)) ELSE Key(n, c)

Keys == {AddressOf(n) : n \in Node} \cup Conn

NoPeers == [k \in {} |-> <<>>]

Init ==
  /\ todial = Bootstrap
  /\ table = [n \in Node |-> NoPeers]
  /\ open = {} /\ due = {} /\ reading = {} /\ greeted = {} /\ wire = {}
  /\ seen = [n \in Node |-> <<>>]
  /\ handled = [n \in Node |-> [m \in Message |-> 0]]
  /\ total = [n \in Node |-> 0]
  /\ author = [m \in {} |-> {}]
  /\ events = 0
  /\ starts = [n \in Node |-> 0]

-----------------------------------------------------------------------------
\* add_peer: False at capacity, unless the key is there.
HasRoom(t, k) == k \in DOMAIN t \/ Cardinality(DOMAIN t) < MaxPeers
AddPeer(t, k, c) == [j \in DOMAIN t \cup {k} |-> IF j = k THEN c ELSE t[j]]
RemovePeer(t, k) == Restrict(t, DOMAIN t \ {k})

\* append to a deque of maxlen SeenSize.
Remember(s, m) == Append(IF Len(s) = SeenSize THEN Tail(s) ELSE s, m)

\* get_random_peers: the table entries a message may be forwarded to.
RandomPeers(n, excluded) ==
  LET others == DOMAIN table[n] \ {excluded} IN
  kSubset(IF Cardinality(others) < Fanout THEN Cardinality(others) ELSE Fanout, others)

\* Slip: a peer that has not sent a handshake gets no gossip.
Forwarded_GreetedOnly(n, targets, m) ==
  {<<table[n][k], Other(n, table[n][k]), m>> :
     k \in {k \in targets : table[n][k] \in open /\ <<n, table[n][k]>> \in greeted}}

\* _gossip: Peer.send does nothing on a websocket that is not open.
Forwarded(n, targets, m) ==
  {<<table[n][k], Other(n, table[n][k]), m>> : k \in {k \in targets : table[n][k] \in open}}

-----------------------------------------------------------------------------
(***************************************************************************)
(* _connect_to_peer: register, and send the handshake.  At capacity the    *)
(* websocket is closed again; the listener's handler runs in either case.  *)
(***************************************************************************)
Dial(a, b) ==
  LET c == <<a, b, starts[a]>> IN
  /\ b \in todial[a]
  /\ todial' = [todial EXCEPT ![a] = @ \ {b}]
  /\ due' = due \cup {<<b, c>>}
  /\ IF HasRoom(table[a], Key(a, c))
       THEN /\ table' = [table EXCEPT ![a] = AddPeer(@, Key(a, c), c)]
            /\ open' = open \cup {c}
            /\ reading' = reading \cup {<<a, c>>}
            /\ wire' = wire \cup {<<c, b, Handshake>>}
       ELSE /\ table' = [table EXCEPT ![a] = RemovePeer(@, Key(a, c))]
            /\ UNCHANGED <<open, reading, wire>>
  /\ UNCHANGED <<greeted, seen, handled, total, author, events, starts>>

\* The listener does not answer: nothing dials it again.
DialFails(a, b) ==
  /\ b \in todial[a]
  /\ todial' = [todial EXCEPT ![a] = @ \ {b}]
  /\ table' = [table EXCEPT ![a] = RemovePeer(@, AddressOf(b))]
  /\ events < MaxEvents
  /\ events' = events + 1
  /\ UNCHANGED <<open, due, reading, greeted, wire, seen, handled, total, author, starts>>

\* _handle_inbound up to its loop: a connection beyond the capacity is closed.
Accept(b, c) ==
  /\ <<b, c>> \in due
  /\ due' = due \ {<<b, c>>}
  /\ IF HasRoom(table[b], Key(b, c))
       THEN /\ table' = [table EXCEPT ![b] = AddPeer(@, Key(b, c), c)]
            /\ reading' = reading \cup {<<b, c>>}
            /\ UNCHANGED open
       ELSE /\ open' = open \ {c}
            /\ UNCHANGED <<table, reading>>
  /\ UNCHANGED <<todial, greeted, wire, seen, handled, total, author, events, starts>>

Takes(n, c, m) ==
  /\ <<n, c>> \in reading
  /\ <<c, n, m>> \in wire

Delivered(n, c, m) == wire \ {<<c, n, m>>}

\* The id of a message that is taken up goes into the deque.
Remembered(n, m) ==
  /\ seen' = [seen EXCEPT ![n] = Remember(@, m)]
  /\ total' = [total EXCEPT ![n] = @ + 1]

\* _process_handshake: it is the first message of its connection.
Greet(n, c) ==
  /\ Takes(n, c, Handshake)
  /\ greeted' = greeted \cup {<<n, c>>}
  /\ wire' = Delivered(n, c, Handshake)
  /\ Remembered(n, Control)
  /\ UNCHANGED <<todial, table, open, due, reading, handled, author, events, starts>>

\* The pong that answers a ping.
Answer(n, c, m) == IF m = "ping" /\ c \in open THEN {<<c, Other(n, c), "pong">>} ELSE {}

\* Pings or pongs made in the same millisecond have the same id: the second is dropped.
Hear(n, c, m) ==
  /\ Takes(n, c, m)
  /\ \/ /\ Remembered(n, Control)
        /\ wire' = Delivered(n, c, m) \cup Answer(n, c, m)
     \/ /\ Control \in Range(seen[n])
        /\ wire' = Delivered(n, c, m)
        /\ UNCHANGED <<seen, total>>
  /\ UNCHANGED <<todial, table, open, due, reading, greeted, handled, author, events, starts>>

\* Slip: a message is not remembered before it is handed on.
Handle_NotRemembered(n, c, m) ==
  /\ total' = [total EXCEPT ![n] = @ + 1]
  /\ handled' = [handled EXCEPT ![n][m] = @ + 1]
  /\ \E targets \in RandomPeers(n, PeerId(n, c)) :
       wire' = Delivered(n, c, m) \cup Forwarded(n, targets, m)
  /\ UNCHANGED seen

(***************************************************************************)
(* The rest of _process_raw for a message it has not seen: remember it,    *)
(* hand it to the application, forward it.  The sender is left out by its  *)
(* peer_id, which after a handshake is no key of the table.                *)
(***************************************************************************)
Handle(n, c, m) ==
  /\ Remembered(n, m)
  /\ handled' = [handled EXCEPT ![n][m] = @ + 1]
  /\ \E targets \in RandomPeers(n, PeerId(n, c)) :
       wire' = Delivered(n, c, m) \cup Forwarded(n, targets, m)

\* _process_raw of a gossip message.
Receive(n, c, m) ==
  /\ Takes(n, c, m)
  /\ <<c, n, Handshake>> \notin wire
  /\ IF m \in Range(seen[n])
       THEN /\ wire' = Delivered(n, c, m)
            /\ UNCHANGED <<seen, total, handled>>
       ELSE Handle(n, c, m)
  /\ UNCHANGED <<todial, table, open, due, reading, greeted, author, events, starts>>

\* The connection is lost; what was sent may still be read.
Break(c) ==
  /\ c \in open
  /\ events < MaxEvents
  /\ events' = events + 1
  /\ open' = open \ {c}
  /\ UNCHANGED <<todial, table, due, reading, greeted, wire, seen, handled, total, author, starts>>

\* The key that the end of a handler removes: an outbound one its address, an
\* inbound one its peer_id, which after a handshake is no key of the table.
LeaveKey(n, c) == IF n = c[1] THEN AddressOf(c[2]) ELSE PeerId(n, c)

\* The end of a handler whose websocket was closed.
Leave(n, c) ==
  /\ <<n, c>> \in reading
  /\ c \notin open
  /\ table' = [table EXCEPT ![n] = RemovePeer(@, LeaveKey(n, c))]
  /\ reading' = reading \ {<<n, c>>}
  /\ greeted' = greeted \ {<<n, c>>}
  /\ wire' = {w \in wire : w[1] # c \/ w[2] # n}
  /\ UNCHANGED <<todial, open, due, seen, handled, total, author, events, starts>>

\* Peers from which nothing came for timeout_sec: of closed connections only,
\* as each end of an open one hears of the other at every ping interval.
Silent(n) == {k \in DOMAIN table[n] : table[n][k] \notin open}

\* Slip: only outbound peers are pruned.
Dead_OutboundOnly(n) == {k \in Silent(n) : n = table[n][k][1]}

Dead(n) == Silent(n)

\* A turn of _maintenance_loop: prune_dead.
Prune(n) ==
  /\ \E dead \in SUBSET Dead(n) \ {{}} :
       table' = [table EXCEPT ![n] = Restrict(@, DOMAIN @ \ dead)]
  /\ UNCHANGED <<todial, open, due, reading, greeted, wire, seen, handled, total, author, events, starts>>

\* The other half of a turn: ping the peers in the table that shook hands.
Ping(n) ==
  LET greeters == {c \in Range(table[n]) \cap open : <<n, c>> \in greeted}
  IN  /\ greeters # {}
      /\ events < MaxEvents
      /\ events' = events + 1
      /\ wire' = wire \cup {<<c, Other(n, c), "ping">> : c \in greeters}
      /\ UNCHANGED <<todial, table, open, due, reading, greeted, seen, handled, total, author, starts>>

\* broadcast_tx, broadcast_block: the sender does not remember its own message.
Broadcast(n, m) ==
  /\ m \notin DOMAIN author
  /\ author' = [x \in DOMAIN author \cup {m} |-> IF x = m THEN n ELSE author[x]]
  /\ \E targets \in RandomPeers(n, <<>>) : wire' = wire \cup Forwarded(n, targets, m)
  /\ UNCHANGED <<todial, table, open, due, reading, greeted, seen, handled, total, events, starts>>

\* stop(), and start() of a new process: nothing of the P2P state is kept.
Restart(n) ==
  /\ events < MaxEvents
  /\ events' = events + 1
  /\ starts' = [starts EXCEPT ![n] = @ + 1]
  /\ todial' = [todial EXCEPT ![n] = Bootstrap[n]]
  /\ table' = [table EXCEPT ![n] = NoPeers]
  /\ seen' = [seen EXCEPT ![n] = <<>>]
  /\ handled' = [handled EXCEPT ![n] = [m \in Message |-> 0]]
  /\ total' = [total EXCEPT ![n] = 0]
  /\ open' = {c \in open : n \notin Ends(c)}
  /\ due' = {d \in due : d[1] # n}
  /\ reading' = {r \in reading : r[1] # n}
  /\ greeted' = {g \in greeted : g[1] # n}
  /\ wire' = {w \in wire : w[2] # n}
  /\ UNCHANGED author

Step(n) ==
  \/ \E b \in Node : Dial(n, b)
  \/ \E c \in Conn : Accept(n, c)
  \/ \E c \in Conn : Greet(n, c)
  \/ \E c \in Conn, m \in {"ping", "pong"} : Hear(n, c, m)
  \/ \E c \in Conn, m \in Message : Receive(n, c, m)
  \/ \E c \in Conn : Leave(n, c)
  \/ Prune(n)

Next ==
  \/ \E n \in Node : Step(n)
  \/ \E a, b \in Node : DialFails(a, b)
  \/ \E c \in Conn : Break(c)
  \/ \E n \in Node, m \in Message : Broadcast(n, m)
  \/ \E n \in Node : Ping(n) \/ Restart(n)

Spec == Init /\ [][Next]_vars

(***************************************************************************)
(* The event loop of a node runs a handler that is ready, TCP delivers what *)
(* was sent on an open connection, and the maintenance loop takes its turn. *)
(* Every such step uses up what enabled it, so none of them starves another.*)
(***************************************************************************)
FairSpec == Spec /\ \A n \in Node : WF_vars(Step(n))

-----------------------------------------------------------------------------
TypeOK ==
  /\ todial \in [Node -> SUBSET Node]
  /\ \A n \in Node :
       /\ DOMAIN table[n] \subseteq Keys
       /\ Range(table[n]) \subseteq {c \in Conn : n \in Ends(c)}
  /\ DOMAIN table = Node
  /\ open \subseteq Conn
  /\ due \cup reading \cup greeted \subseteq Node \X Conn
  /\ wire \subseteq Conn \X Node \X (Message \cup {Handshake, "ping", "pong"})
  /\ \A n \in Node : seen[n] \in Seq(Message \cup {Control}) /\ Len(seen[n]) <= SeenSize
  /\ DOMAIN seen = Node
  /\ handled \in [Node -> [Message -> Nat]]
  /\ total \in [Node -> Nat]
  /\ DOMAIN author \subseteq Message /\ Range(author) \subseteq Node
  /\ events \in 0 .. MaxEvents
  /\ starts \in [Node -> 0 .. MaxEvents]

(* An open connection whose handler runs is in its node's table, under its  *)
(* own key: no other connection's arrival, departure or pruning takes it    *)
(* out, although peers are removed by a peer_id that may have changed.      *)
OpenIsListed ==
  \A n \in Node, c \in Conn :
    <<n, c>> \in reading /\ c \in open =>
      Key(n, c) \in DOMAIN table[n] /\ table[n][Key(n, c)] = c

(* A message goes to the application of a running node again only after the  *)
(* node took up as many others as its deque of seen ones holds, handshakes,  *)
(* pings and pongs counted, although it comes over several connections and   *)
(* echoes back to its sender: for the second time it takes SeenSize others,  *)
(* for the third twice as many.                                              *)
HandledOnce ==
  \A n \in Node, m \in Message :
    handled[n][m] > 0 => total[n] > (handled[n][m] - 1) * (SeenSize + 1)

(* All that is configured is connected, and no table exceeds the fanout.    *)
Whole ==
  /\ \A n \in Node : Cardinality(DOMAIN table[n]) <= Fanout
  /\ \A a \in Node : \A b \in Bootstrap[a] :
       LET c == <<a, b, starts[a]>> IN c \in open /\ {<<a, c>>, <<b, c>>} \subseteq reading

(* While the configured connections stay up, a message published over them  *)
(* reaches the application of every node but its author, who may or may not  *)
(* hear an echo.                                                            *)
Reached(m) ==
  /\ m \in DOMAIN author
  /\ \A n \in Node \ {author[m]} : handled[n][m] > 0

GossipReaches ==
  \A m \in Message :
    [](Whole /\ m \notin DOMAIN author /\ []Whole /\ <>(m \in DOMAIN author) => <>Reached(m))

(* Again and again no table has the entry of a closed connection: what the  *)
(* end of its handler misses, because the handshake changed the peer_id, is *)
(* pruned.                                                                  *)
ClosedIsForgotten == []<>(\A n \in Node : Range(table[n]) \subseteq open)
=============================================================================
