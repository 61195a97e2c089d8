----------------------------- MODULE P2PProofs ------------------------------
(***************************************************************************)
(* Connections and gossip of P2P: who is in a node's table, and how often  *)
(* a message is handed on, for every set of nodes, every topology that     *)
(* bootstrap peers can describe and every limit.                           *)
(***************************************************************************)
EXTENDS P2P, FiniteSetTheorems, FunctionTheorems, SequenceTheorems, TLAPS

\* The parts of a connection.
LEMMA ConnIs ==
  ASSUME NEW c \in Conn
  PROVE  /\ c = <<c[1], c[2], c[3]>>
         /\ c[1] \in Node /\ c[2] \in Bootstrap[c[1]] /\ c[3] \in 0 .. MaxEvents
         /\ c[2] \in Node /\ c[1] # c[2]
<1>1. PICK a \in Node : c \in {<<a, b, g>> : b \in Bootstrap[a], g \in 0 .. MaxEvents}
  BY DEF Conn
<1>2. PICK b \in Bootstrap[a], g \in 0 .. MaxEvents : c = <<a, b, g>>
  BY <1>1
<1>3. Bootstrap[a] \subseteq Node /\ a \notin Bootstrap[a]
  BY P2PAssumption DEF P2PAssumption
<1> QED BY <1>2, <1>3

LEMMA ConnMade ==
  ASSUME NEW a \in Node, NEW b \in Bootstrap[a], NEW g \in 0 .. MaxEvents
  PROVE  <<a, b, g>> \in Conn
BY DEF Conn

\* Keys tell connections apart, and a peer_id from a handshake is no key.
LEMMA KeysDiffer ==
  ASSUME NEW n \in Node, NEW c \in Conn, NEW d \in Conn
  PROVE  /\ Key(n, c) = Key(n, d) =>
              IF n = c[1] THEN d[1] = n /\ d[2] = c[2] ELSE c = d
         /\ \A m \in Node : Key(n, c) = AddressOf(m) => n = c[1] /\ m = c[2]
         /\ \A m \in Node : Key(n, c) # NodeId(m)
         /\ Key(n, c) \in Keys
<1>1. \A m : AddressOf(m) # c /\ AddressOf(m) # d /\ NodeId(m) # c /\ NodeId(m) # d
  <2>1. c = <<c[1], c[2], c[3]>> /\ d = <<d[1], d[2], d[3]>>
    BY ConnIs
  <2>2. ASSUME NEW s, NEW m, NEW e, e = <<e[1], e[2], e[3]>> PROVE <<s, m>> # e
    <3>1. Len(<<s, m>>) = 2 /\ Len(<<e[1], e[2], e[3]>>) = 3
      OBVIOUS
    <3> QED BY <2>2, <3>1
  <2> QED BY <2>1, <2>2 DEF AddressOf, NodeId
<1>2. \A m, k : /\ AddressOf(m) = AddressOf(k) => m = k
                /\ AddressOf(m) # NodeId(k)
  BY DEF AddressOf, NodeId
<1>3. c[2] \in Node
  BY ConnIs
<1> QED BY <1>1, <1>2, <1>3 DEF Key, Keys

-----------------------------------------------------------------------------
\* What the operations on a table make of it.
LEMMA RemovePeerIs ==
  ASSUME NEW t, NEW k
  PROVE  /\ DOMAIN RemovePeer(t, k) = DOMAIN t \ {k}
         /\ \A j \in DOMAIN t \ {k} : RemovePeer(t, k)[j] = t[j]
BY DEF RemovePeer, Restrict

LEMMA RestrictIs ==
  ASSUME NEW t, NEW S
  PROVE  DOMAIN Restrict(t, S) = S /\ \A j \in S : Restrict(t, S)[j] = t[j]
BY DEF Restrict

\* A table of connections of n under keys.
TableOK(n, t) ==
  /\ DOMAIN t \subseteq Keys
  /\ \A k \in DOMAIN t : t[k] \in Conn /\ n \in Ends(t[k])

LEMMA TableOKIs ==
  ASSUME NEW n, NEW t
  PROVE  TableOK(n, t) <=>
           DOMAIN t \subseteq Keys /\ Range(t) \subseteq {c \in Conn : n \in Ends(c)}
BY DEF TableOK, Range

LEMMA TableOpsOK ==
  ASSUME NEW n, NEW t, TableOK(n, t), NEW k
  PROVE  /\ \A c \in Conn : n \in Ends(c) /\ k \in Keys => TableOK(n, AddPeer(t, k, c))
         /\ TableOK(n, RemovePeer(t, k))
         /\ \A S \in SUBSET DOMAIN t : TableOK(n, Restrict(t, S))
         /\ TableOK(n, NoPeers)
<1>1. ASSUME NEW c \in Conn, n \in Ends(c), k \in Keys PROVE TableOK(n, AddPeer(t, k, c))
  <2>1. PICK s : s = AddPeer(t, k, c)
    OBVIOUS
  <2>2. DOMAIN s = DOMAIN t \cup {k} /\ s[k] = c /\ \A j \in DOMAIN t \ {k} : s[j] = t[j]
    BY <2>1 DEF AddPeer
  <2>3. TableOK(n, s)
    BY <1>1, <2>2 DEF TableOK
  <2> QED BY <2>1, <2>3
<1>2. TableOK(n, RemovePeer(t, k))
  <2>1. PICK s : s = RemovePeer(t, k)
    OBVIOUS
  <2>2. DOMAIN s = DOMAIN t \ {k} /\ \A j \in DOMAIN t \ {k} : s[j] = t[j]
    BY <2>1, RemovePeerIs
  <2>3. TableOK(n, s)
    BY <2>2 DEF TableOK
  <2> QED BY <2>1, <2>3
<1>3. \A S \in SUBSET DOMAIN t : TableOK(n, Restrict(t, S))
  BY RestrictIs DEF TableOK
<1>4. TableOK(n, NoPeers)
  BY DEF TableOK, NoPeers
<1> QED BY <1>1, <1>2, <1>3, <1>4

-----------------------------------------------------------------------------
(***************************************************************************)
(* Types, with what they rest on: what is left to dial is configured, a    *)
(* start costs an event, and a listener waits for connections made to it.   *)
(***************************************************************************)
Item == Message \cup {Control}

Wired == Conn \X Node \X (Message \cup {Handshake, "ping", "pong"})

Tables == DOMAIN table = Node /\ \A n \in Node : TableOK(n, table[n])

Conns ==
  /\ open \subseteq Conn
  /\ due \subseteq Node \X Conn /\ reading \subseteq Node \X Conn /\ greeted \subseteq Node \X Conn
  /\ \A d \in due : d[1] = d[2][2]

Counts ==
  /\ todial \in [Node -> SUBSET Node] /\ \A n \in Node : todial[n] \subseteq Bootstrap[n]
  /\ events \in 0 .. MaxEvents
  /\ starts \in [Node -> 0 .. MaxEvents] /\ \A n \in Node : starts[n] <= events

Gossip ==
  /\ wire \subseteq Wired
  /\ \A n \in Node : seen[n] \in Seq(Item) /\ Len(seen[n]) <= SeenSize
  /\ DOMAIN seen = Node
  /\ handled \in [Node -> [Message -> Nat]]
  /\ total \in [Node -> Nat]
  /\ DOMAIN author \subseteq Message /\ Range(author) \subseteq Node

Typed == Tables /\ Conns /\ Counts /\ Gossip

LEMMA TypedIsTypeOK == Typed => TypeOK
BY TableOKIs DEF Typed, Tables, Conns, Counts, Gossip, Item, Wired, TypeOK

\* The connection that a node makes next.
LEMMA Dialed ==
  ASSUME Counts, NEW a \in Node, NEW b \in todial[a]
  PROVE  /\ <<a, b, starts[a]>> \in Conn
         /\ b \in Node /\ a # b
<1>1. b \in Bootstrap[a] /\ starts[a] \in 0 .. MaxEvents
  BY DEF Counts
<1>2. b \in Node /\ a # b
  BY <1>1, P2PAssumption DEF P2PAssumption
<1> QED BY <1>1, <1>2, ConnMade

\* Gossip goes over connections of the node, to the other end.
LEMMA ForwardedIs ==
  ASSUME Tables, NEW n \in Node, NEW m \in Message, NEW x, NEW targets \in RandomPeers(n, x)
  PROVE  /\ Forwarded(n, targets, m) \subseteq Wired
         /\ \A w \in Forwarded(n, targets, m) : w[3] = m
<1>1. targets \subseteq DOMAIN table[n]
  BY DEF RandomPeers, kSubset
<1>2. ASSUME NEW k \in targets
      PROVE  <<table[n][k], Other(n, table[n][k]), m>> \in Wired
  <2>1. table[n][k] \in Conn
    BY <1>1 DEF Tables, TableOK
  <2>2. Other(n, table[n][k]) \in Node
    BY <2>1, ConnIs DEF Other
  <2> QED BY <2>1, <2>2 DEF Wired
<1> QED BY <1>2 DEF Forwarded

\* A deque keeps its last entries, moved up by one place when it is full.
Pushed(s, x, r) ==
  /\ r \in Seq(Item) /\ Len(r) <= SeenSize /\ Len(r) \in Nat \ {0} /\ r[Len(r)] = x
  /\ \/ Len(s) = SeenSize /\ Len(r) = Len(s) /\ \A i \in 1 .. Len(r) - 1 : r[i] = s[i + 1]
     \/ Len(s) < SeenSize /\ Len(r) = Len(s) + 1 /\ \A i \in 1 .. Len(r) - 1 : r[i] = s[i]

LEMMA RememberIs ==
  ASSUME NEW s \in Seq(Item), Len(s) <= SeenSize, NEW x \in Item, NEW r, r = Remember(s, x)
  PROVE  Pushed(s, x, r)
<1>1. SeenSize \in Nat \ {0} /\ Len(s) \in Nat
  BY P2PAssumption DEF P2PAssumption
<1>2. CASE Len(s) = SeenSize
  <2>1. s # <<>>  BY <1>1, <1>2
  <2>2. PICK t : t = Tail(s)
    OBVIOUS
  <2>3. /\ t \in Seq(Item) /\ Len(t) = Len(s) - 1
        /\ \A i \in 1 .. Len(t) : t[i] = s[i + 1]
    BY <2>1, <2>2
  <2>4. r = Append(t, x)
    BY <1>2, <2>2 DEF Remember
  <2>5. /\ r \in Seq(Item) /\ Len(r) = Len(t) + 1 /\ r[Len(t) + 1] = x
        /\ \A i \in 1 .. Len(t) : r[i] = t[i]
    BY <2>3, <2>4
  <2> QED BY <1>1, <1>2, <2>3, <2>5 DEF Pushed
<1>3. CASE Len(s) # SeenSize
  <2>1. r = Append(s, x)
    BY <1>3 DEF Remember
  <2>2. /\ r \in Seq(Item) /\ Len(r) = Len(s) + 1 /\ r[Len(s) + 1] = x
        /\ \A i \in 1 .. Len(s) : r[i] = s[i]
    BY <2>1
  <2> QED BY <1>1, <1>3, <2>2 DEF Pushed
<1> QED BY <1>2, <1>3

\* A node takes up a message.
LEMMA TakenUp ==
  ASSUME Gossip, NEW n \in Node, NEW x \in Item, Remembered(n, x)
  PROVE  /\ seen'[n] = Remember(seen[n], x) /\ \A k \in Node \ {n} : seen'[k] = seen[k]
         /\ total'[n] = total[n] + 1 /\ \A k \in Node \ {n} : total'[k] = total[k]
         /\ \A k \in Node : seen'[k] \in Seq(Item) /\ Len(seen'[k]) <= SeenSize
         /\ DOMAIN seen' = Node /\ total' \in [Node -> Nat]
<1>1. seen[n] \in Seq(Item) /\ Len(seen[n]) <= SeenSize
  BY DEF Gossip
<1>2. PICK r : r = Remember(seen[n], x)
  OBVIOUS
<1>3. r \in Seq(Item) /\ Len(r) <= SeenSize
  BY <1>1, <1>2, RememberIs DEF Pushed
<1>4. seen' = [seen EXCEPT ![n] = r] /\ total' = [total EXCEPT ![n] = total[n] + 1]
  BY <1>2 DEF Remembered
<1> QED BY <1>2, <1>3, <1>4 DEF Gossip

LEMMA InitTyped == Init => Typed
<1> SUFFICES ASSUME Init PROVE Typed
  OBVIOUS
<1>1. \A n \in Node : TableOK(n, NoPeers)
  BY DEF TableOK, NoPeers
<1>2. Tables
  BY <1>1 DEF Init, Tables
<1>3. Conns
  BY DEF Init, Conns
<1>4. Counts
  BY P2PAssumption DEF Init, Counts, P2PAssumption
<1>5. Gossip
  <2>1. <<>> \in Seq(Item) /\ Len(<<>>) = 0 /\ SeenSize \in Nat
    BY P2PAssumption DEF P2PAssumption
  <2>2. author = [m \in {} |-> {}]
    BY DEF Init
  <2>3. DOMAIN author = {} /\ Range(author) = {}
    BY <2>2 DEF Range
  <2> QED BY <2>1, <2>3 DEF Init, Gossip
<1> QED BY <1>2, <1>3, <1>4, <1>5 DEF Typed

LEMMA StepCounts ==
  ASSUME Typed, Next
  PROVE  Counts'
<1>0. Counts /\ MaxEvents \in Nat
  BY P2PAssumption DEF Typed, P2PAssumption
<1>1. ASSUME NEW n \in Node, NEW b \in Node, Dial(n, b) \/ DialFails(n, b) PROVE Counts'
  BY <1>0, <1>1 DEF Dial, DialFails, Counts
<1>2. ASSUME NEW n \in Node, Restart(n) PROVE Counts'
  <2>1. Bootstrap[n] \subseteq Node  BY P2PAssumption DEF P2PAssumption
  <2>2. events' \in 0 .. MaxEvents /\ starts[n] + 1 \in 0 .. MaxEvents /\ starts[n] + 1 <= events'
    BY <1>0, <1>2 DEF Restart, Counts
  <2>3. \A m \in Node : starts[m] <= events'
    BY <1>0, <1>2 DEF Restart, Counts
  <2> QED BY <1>0, <1>2, <2>1, <2>2, <2>3 DEF Restart, Counts
<1>3. ASSUME NEW c \in Conn, Break(c) PROVE Counts'
  BY <1>0, <1>3 DEF Break, Counts
<1>4. ASSUME UNCHANGED <<todial, events, starts>> PROVE Counts'
  BY <1>0, <1>4 DEF Counts
<1>5. CASE \E n \in Node : Step(n)
  BY <1>1, <1>4, <1>5 DEF Step, Accept, Greet, Hear, Receive, Leave, Prune
<1>6. ASSUME NEW n \in Node, Ping(n) PROVE Counts'
  BY <1>0, <1>6 DEF Ping, Counts
<1> QED BY <1>1, <1>2, <1>3, <1>4, <1>5, <1>6 DEF Next, Broadcast

LEMMA StepConns ==
  ASSUME Typed, Next
  PROVE  Conns'
<1>0. Conns /\ Counts
  BY DEF Typed
<1>1. ASSUME NEW a \in Node, NEW b \in Node, Dial(a, b) PROVE Conns'
  <2>1. PICK c : c = <<a, b, starts[a]>>
    OBVIOUS
  <2>2. c \in Conn /\ c[2] = b
    BY <1>0, <1>1, <2>1, Dialed DEF Dial
  <2>3. /\ due' = due \cup {<<b, c>>} /\ greeted' = greeted
        /\ open' \subseteq open \cup {c} /\ reading' \subseteq reading \cup {<<a, c>>}
    BY <1>1, <2>1 DEF Dial
  <2> QED BY <1>0, <2>2, <2>3 DEF Conns
<1>2. ASSUME NEW b \in Node, NEW c \in Conn, Accept(b, c) PROVE Conns'
  <2>1. /\ due' \subseteq due /\ greeted' = greeted
        /\ open' \subseteq open /\ reading' \subseteq reading \cup {<<b, c>>}
    BY <1>2 DEF Accept
  <2> QED BY <1>0, <2>1 DEF Conns
<1>3. ASSUME NEW n \in Node, NEW c \in Conn, Greet(n, c) PROVE Conns'
  BY <1>0, <1>3 DEF Greet, Conns
<1>4. ASSUME open' \subseteq open, due' \subseteq due, reading' \subseteq reading, greeted' \subseteq greeted
      PROVE  Conns'
  BY <1>0, <1>4 DEF Conns
<1>5. ASSUME NEW n \in Node, NEW c \in Conn, Leave(n, c) PROVE Conns'
  BY <1>4, <1>5 DEF Leave
<1>6. ASSUME NEW n \in Node, Restart(n) PROVE Conns'
  BY <1>4, <1>6 DEF Restart
<1>7. ASSUME NEW c \in Conn, Break(c) PROVE Conns'
  BY <1>4, <1>7 DEF Break
<1>8. ASSUME UNCHANGED <<open, due, reading, greeted>> PROVE Conns'
  BY <1>4, <1>8
<1>9. CASE \E n \in Node : Step(n)
  BY <1>1, <1>2, <1>3, <1>5, <1>8, <1>9 DEF Step, Hear, Receive, Prune
<1> QED BY <1>6, <1>7, <1>8, <1>9 DEF Next, DialFails, Broadcast, Ping

LEMMA StepTables ==
  ASSUME Typed, Next
  PROVE  Tables'
<1>0. Tables /\ Conns /\ Counts
  BY DEF Typed
<1>1. ASSUME NEW n \in Node, NEW t, TableOK(n, t), table' = [table EXCEPT ![n] = t] PROVE Tables'
  BY <1>0, <1>1 DEF Tables
<1>2. ASSUME NEW n \in Node
      PROVE  /\ TableOK(n, table[n])
             /\ \A k : TableOK(n, RemovePeer(table[n], k))
             /\ \A S \in SUBSET DOMAIN table[n] : TableOK(n, Restrict(table[n], S))
             /\ TableOK(n, NoPeers)
             /\ \A k, c : c \in Conn /\ n \in Ends(c) /\ k \in Keys => TableOK(n, AddPeer(table[n], k, c))
  BY <1>0, TableOpsOK DEF Tables
<1>3. ASSUME NEW a \in Node, NEW b \in Node, Dial(a, b) PROVE Tables'
  <2>1. PICK c : c = <<a, b, starts[a]>>
    OBVIOUS
  <2>2. c \in Conn /\ a \in Ends(c)
    BY <1>0, <1>3, <2>1, Dialed DEF Dial, Ends
  <2>3. Key(a, c) \in Keys
    BY <2>2, KeysDiffer
  <2>4. \/ table' = [table EXCEPT ![a] = AddPeer(table[a], Key(a, c), c)]
        \/ table' = [table EXCEPT ![a] = RemovePeer(table[a], Key(a, c))]
    BY <1>3, <2>1 DEF Dial
  <2> QED BY <1>1, <1>2, <2>2, <2>3, <2>4
<1>4. ASSUME NEW a \in Node, NEW b \in Node, DialFails(a, b) PROVE Tables'
  <2>1. table' = [table EXCEPT ![a] = RemovePeer(table[a], AddressOf(b))]
    BY <1>4 DEF DialFails
  <2> QED BY <1>1, <1>2, <2>1
<1>5. ASSUME NEW b \in Node, NEW c \in Conn, Accept(b, c) PROVE Tables'
  <2>1. b \in Ends(c) /\ Key(b, c) \in Keys
    BY <1>0, <1>5, KeysDiffer DEF Accept, Conns, Ends
  <2>2. \/ table' = [table EXCEPT ![b] = AddPeer(table[b], Key(b, c), c)]
        \/ table' = table
    BY <1>5 DEF Accept
  <2>3. TableOK(b, AddPeer(table[b], Key(b, c), c))
    BY <1>2, <2>1
  <2>4. CASE table' = table
    BY <1>0, <2>4 DEF Tables
  <2> QED BY <1>1, <2>2, <2>3, <2>4
<1>6. ASSUME NEW n \in Node, NEW c \in Conn, Leave(n, c) PROVE Tables'
  <2>1. table' = [table EXCEPT ![n] = RemovePeer(table[n], LeaveKey(n, c))]
    BY <1>6 DEF Leave
  <2> QED BY <1>1, <1>2, <2>1
<1>7. ASSUME NEW n \in Node, Prune(n) PROVE Tables'
  <2>1. PICK dead \in SUBSET Dead(n) :
          table' = [table EXCEPT ![n] = Restrict(table[n], DOMAIN table[n] \ dead)]
    BY <1>7 DEF Prune
  <2>2. DOMAIN table[n] \ dead \in SUBSET DOMAIN table[n]
    OBVIOUS
  <2> QED BY <1>1, <1>2, <2>1, <2>2
<1>8. ASSUME NEW n \in Node, Restart(n) PROVE Tables'
  <2>1. table' = [table EXCEPT ![n] = NoPeers]
    BY <1>8 DEF Restart
  <2> QED BY <1>1, <1>2, <2>1
<1>9. ASSUME UNCHANGED table PROVE Tables'
  BY <1>0, <1>9 DEF Tables
<1>10. CASE \E n \in Node : Step(n)
  BY <1>3, <1>5, <1>6, <1>7, <1>9, <1>10 DEF Step, Greet, Hear, Receive
<1> QED BY <1>4, <1>8, <1>9, <1>10 DEF Next, Break, Broadcast, Ping

LEMMA StepGossip ==
  ASSUME Typed, Next
  PROVE  Gossip'
<1>0. Tables /\ Conns /\ Counts /\ Gossip
  BY DEF Typed
<1>1. ASSUME wire' \subseteq Wired, UNCHANGED <<seen, handled, total, author>>
      PROVE  Gossip'
  BY <1>0, <1>1 DEF Gossip
<1>2. ASSUME wire' \subseteq wire, UNCHANGED <<seen, handled, total, author>> PROVE Gossip'
  BY <1>0, <1>1, <1>2 DEF Gossip
<1>3. ASSUME NEW a \in Node, NEW b \in Node, Dial(a, b) PROVE Gossip'
  <2>1. PICK c : c = <<a, b, starts[a]>>
    OBVIOUS
  <2>2. c \in Conn
    BY <1>0, <1>3, <2>1, Dialed DEF Dial
  <2>3. wire' \subseteq wire \cup {<<c, b, Handshake>>} /\ UNCHANGED <<seen, handled, total, author>>
    BY <1>3, <2>1 DEF Dial
  <2>4. <<c, b, Handshake>> \in Wired
    BY <2>2 DEF Wired
  <2> QED BY <1>0, <1>1, <2>3, <2>4 DEF Gossip
<1>4. ASSUME NEW n \in Node, NEW x \in Item, Remembered(n, x), wire' \subseteq Wired,
             handled' \in [Node -> [Message -> Nat]], author' = author
      PROVE  Gossip'
  <2>1. /\ \A k \in Node : seen'[k] \in Seq(Item) /\ Len(seen'[k]) <= SeenSize
        /\ DOMAIN seen' = Node /\ total' \in [Node -> Nat]
    BY <1>0, <1>4, TakenUp
  <2> QED BY <1>0, <1>4, <2>1 DEF Gossip
<1>5. ASSUME NEW n \in Node, NEW c \in Conn, Greet(n, c) PROVE Gossip'
  <2>1. wire' \subseteq Wired /\ Remembered(n, Control) /\ UNCHANGED <<handled, author>>
    BY <1>0, <1>5 DEF Greet, Delivered, Gossip
  <2> QED BY <1>0, <1>4, <2>1 DEF Item, Gossip
<1>6. ASSUME NEW n \in Node, NEW c \in Conn, NEW m \in {"ping", "pong"}, Hear(n, c, m) PROVE Gossip'
  <2>1. CASE wire' = Delivered(n, c, m) /\ UNCHANGED <<seen, total>>
    BY <1>2, <1>6, <2>1 DEF Hear, Delivered
  <2>2. CASE Remembered(n, Control) /\ wire' = Delivered(n, c, m) \cup Answer(n, c, m)
    <3>1. Other(n, c) \in Node
      BY ConnIs DEF Other
    <3>2. Answer(n, c, m) \subseteq Wired
      BY <3>1 DEF Answer, Wired
    <3>3. wire' \subseteq Wired
      BY <1>0, <2>2, <3>2 DEF Delivered, Gossip
    <3>4. UNCHANGED <<handled, author>>
      BY <1>6 DEF Hear
    <3> QED BY <1>0, <1>4, <2>2, <3>3, <3>4 DEF Item, Gossip
  <2> QED BY <1>6, <2>1, <2>2 DEF Hear
<1>7. ASSUME NEW n \in Node, NEW c \in Conn, NEW m \in Message, Receive(n, c, m) PROVE Gossip'
  <2>1. CASE m \in Range(seen[n])
    BY <1>2, <1>7, <2>1 DEF Receive, Delivered
  <2>2. CASE m \notin Range(seen[n])
    <3>1. Handle(n, c, m) /\ author' = author
      BY <1>7, <2>2 DEF Receive
    <3>2. PICK targets \in RandomPeers(n, PeerId(n, c)) :
            wire' = Delivered(n, c, m) \cup Forwarded(n, targets, m)
      BY <3>1 DEF Handle
    <3>3. wire' \subseteq Wired
      BY <1>0, <3>2, ForwardedIs DEF Delivered, Gossip
    <3>4. Remembered(n, m) /\ handled' = [handled EXCEPT ![n][m] = handled[n][m] + 1]
      BY <3>1 DEF Handle
    <3>5. handled' \in [Node -> [Message -> Nat]]
      BY <1>0, <3>4 DEF Gossip
    <3> QED BY <1>4, <3>1, <3>3, <3>4, <3>5 DEF Item
  <2> QED BY <2>1, <2>2
<1>8. ASSUME NEW n \in Node, NEW m \in Message, Broadcast(n, m) PROVE Gossip'
  <2>1. PICK targets \in RandomPeers(n, <<>>) : wire' = wire \cup Forwarded(n, targets, m)
    BY <1>8 DEF Broadcast
  <2>2. wire' \subseteq Wired
    BY <1>0, <2>1, ForwardedIs DEF Gossip
  <2>3. UNCHANGED <<seen, handled, total>>
    BY <1>8 DEF Broadcast
  <2>4. author' = [x \in DOMAIN author \cup {m} |-> IF x = m THEN n ELSE author[x]]
    BY <1>8 DEF Broadcast
  <2>5. DOMAIN author' \subseteq Message /\ \A x \in DOMAIN author' : author'[x] \in Node
    BY <1>0, <2>4 DEF Gossip, Range
  <2>6. Range(author') \subseteq Node
    BY <2>5 DEF Range
  <2> QED BY <1>0, <2>2, <2>3, <2>5, <2>6 DEF Gossip
<1>9. ASSUME NEW n \in Node, Ping(n) PROVE Gossip'
  <2>1. PICK greeters : /\ greeters \subseteq Range(table[n])
                        /\ wire' = wire \cup {<<c, Other(n, c), "ping">> : c \in greeters}
    BY <1>9 DEF Ping
  <2>2. \A c \in greeters : c \in Conn /\ Other(n, c) \in Node
    BY <1>0, <2>1, ConnIs DEF Tables, TableOK, Range, Other
  <2>3. \A c \in greeters : <<c, Other(n, c), "ping">> \in Wired
    BY <2>2 DEF Wired
  <2>4. wire' \subseteq Wired /\ UNCHANGED <<seen, handled, total, author>>
    BY <1>0, <1>9, <2>1, <2>3 DEF Ping, Gossip
  <2> QED BY <1>1, <2>4
<1>10. ASSUME NEW n \in Node, Restart(n) PROVE Gossip'
  <2>1. <<>> \in Seq(Item) /\ Len(<<>>) = 0 /\ 0 <= SeenSize
    BY P2PAssumption DEF P2PAssumption
  <2>2. wire' \subseteq wire /\ author' = author
    BY <1>10 DEF Restart
  <2>3. \A m \in Node : seen'[m] \in Seq(Item) /\ Len(seen'[m]) <= SeenSize
    BY <1>0, <1>10, <2>1 DEF Restart, Gossip
  <2>4. DOMAIN seen' = Node /\ handled' \in [Node -> [Message -> Nat]] /\ total' \in [Node -> Nat]
    BY <1>0, <1>10 DEF Restart, Gossip
  <2> QED BY <1>0, <2>2, <2>3, <2>4 DEF Gossip
<1>11. ASSUME NEW n \in Node, NEW c \in Conn, Leave(n, c) PROVE Gossip'
  BY <1>2, <1>11 DEF Leave
<1>12. ASSUME UNCHANGED <<wire, seen, handled, total, author>> PROVE Gossip'
  BY <1>2, <1>12
<1>13. CASE \E n \in Node : Step(n)
  BY <1>3, <1>5, <1>6, <1>7, <1>11, <1>12, <1>13 DEF Step, Accept, Prune
<1> QED BY <1>8, <1>9, <1>10, <1>12, <1>13 DEF Next, DialFails, Break

LEMMA StepTyped == Typed /\ [Next]_vars => Typed'
<1> SUFFICES ASSUME Typed, [Next]_vars PROVE Typed'
  OBVIOUS
<1>1. CASE Next
  BY <1>1, StepCounts, StepConns, StepTables, StepGossip DEF Typed
<1>2. CASE UNCHANGED vars
  BY <1>2 DEF vars, Typed, Tables, Conns, Counts, Gossip, Wired
<1> QED BY <1>1, <1>2

(* Tables hold connections of their node under keys of connections, and no  *)
(* deque of seen messages outgrows its limit.                               *)
THEOREM P2PTyped == Spec => []TypeOK
<1>1. Spec => []Typed
  BY InitTyped, StepTyped, PTL DEF Spec
<1> QED BY <1>1, TypedIsTypeOK, PTL

-----------------------------------------------------------------------------
(***************************************************************************)
(* Why an open connection stays listed: an address is dialled once in a    *)
(* run of its node, and a node reads the connections that it made in this  *)
(* run, so no two connections that it reads have one key.                  *)
(***************************************************************************)
Used(c) == c \in open \/ \E n \in Node : <<n, c>> \in reading \cup due

Fresh ==
  \A c \in Conn : Used(c) =>
    c[3] <= starts[c[1]] /\ (c[3] = starts[c[1]] => c[2] \notin todial[c[1]])

Own == \A n \in Node, c \in Conn : <<n, c>> \in reading /\ n = c[1] => c[3] = starts[n]

ConnInv == Typed /\ Fresh /\ Own

\* A connection is its dialer, its listener and the start that made it.
LEMMA SameConn ==
  ASSUME NEW c \in Conn, NEW d \in Conn, c[1] = d[1], c[2] = d[2], c[3] = d[3]
  PROVE  c = d
<1>1. c = <<c[1], c[2], c[3]>> /\ d = <<d[1], d[2], d[3]>>
  BY ConnIs
<1> QED BY <1>1

\* What a node reads under different connections it lists under different keys.
LEMMA OwnKeys ==
  ASSUME ConnInv, NEW n \in Node, NEW c \in Conn, NEW d \in Conn,
         <<n, d>> \in reading, n = c[1] => c[3] = starts[n], Key(n, c) = Key(n, d)
  PROVE  c = d
<1>1. CASE n # c[1]
  BY <1>1, KeysDiffer
<1>2. CASE n = c[1]
  <2>1. d[1] = n /\ d[2] = c[2]
    BY <1>2, KeysDiffer
  <2>2. d[3] = starts[n]
    BY <2>1 DEF ConnInv, Own
  <2> QED BY <1>2, <2>1, <2>2, SameConn
<1> QED BY <1>1, <1>2

\* The connection that a node makes next is used by nobody, and its key is free.
LEMMA DialedIsFresh ==
  ASSUME ConnInv, NEW a \in Node, NEW b \in todial[a], NEW c, c = <<a, b, starts[a]>>
  PROVE  /\ c \in Conn /\ ~Used(c) /\ Key(a, c) = AddressOf(b)
         /\ \A d \in Conn : <<a, d>> \in reading => Key(a, d) # AddressOf(b)
<1>1. c \in Conn
  BY Dialed DEF ConnInv, Typed
<1>2. c[1] = a /\ c[2] = b /\ c[3] = starts[a]
  OBVIOUS
<1>3. ~Used(c)
  BY <1>1, <1>2 DEF ConnInv, Fresh
<1>4. Key(a, c) = AddressOf(b)
  BY <1>2 DEF Key
<1>5. ASSUME NEW d \in Conn, <<a, d>> \in reading, Key(a, d) = AddressOf(b) PROVE FALSE
  <2>1. c = d
    BY <1>1, <1>2, <1>4, <1>5, OwnKeys
  <2> QED BY <1>3, <1>5, <2>1 DEF Used
<1> QED BY <1>1, <1>3, <1>4, <1>5

LEMMA StepFresh ==
  ASSUME ConnInv, Next
  PROVE  Fresh'
<1>0. Fresh /\ Counts /\ Conns
  BY DEF ConnInv, Typed
<1>1. ASSUME \A c \in Conn : Used(c)' => Used(c),
             \A n \in Node : todial'[n] \subseteq todial[n], UNCHANGED starts
      PROVE  Fresh'
  <2> SUFFICES ASSUME NEW c \in Conn, Used(c)'
               PROVE  c[3] <= starts'[c[1]] /\ (c[3] = starts'[c[1]] => c[2] \notin todial'[c[1]])
    BY DEF Fresh
  <2>1. Used(c) /\ c[1] \in Node
    BY <1>1, ConnIs
  <2> QED BY <1>0, <1>1, <2>1 DEF Fresh
<1>2. ASSUME NEW a \in Node, NEW b \in Node, Dial(a, b) PROVE Fresh'
  <2>1. PICK c : c = <<a, b, starts[a]>>
    OBVIOUS
  <2>2. /\ b \in todial[a] /\ todial' = [todial EXCEPT ![a] = todial[a] \ {b}]
        /\ due' = due \cup {<<b, c>>} /\ starts' = starts
        /\ open' \subseteq open \cup {c} /\ reading' \subseteq reading \cup {<<a, c>>}
    BY <1>2, <2>1 DEF Dial
  <2>3. b \notin todial'[a] /\ \A n \in Node : todial'[n] \subseteq todial[n]
    BY <1>0, <2>2 DEF Counts
  <2>4. ASSUME NEW d \in Conn, Used(d)' PROVE Used(d) \/ d = c
    <3>1. CASE d \in open'
      BY <2>2, <3>1 DEF Used
    <3>2. ASSUME NEW n \in Node, <<n, d>> \in reading' PROVE Used(d) \/ d = c
      BY <2>2, <3>2 DEF Used
    <3>3. ASSUME NEW n \in Node, <<n, d>> \in due' PROVE Used(d) \/ d = c
      BY <2>2, <3>3 DEF Used
    <3> QED BY <2>4, <3>1, <3>2, <3>3 DEF Used
  <2> SUFFICES ASSUME NEW d \in Conn, Used(d)'
               PROVE  d[3] <= starts'[d[1]] /\ (d[3] = starts'[d[1]] => d[2] \notin todial'[d[1]])
    BY DEF Fresh
  <2>5. CASE d = c
    <3>1. d[1] = a /\ d[2] = b /\ d[3] = starts[a]
      BY <2>1, <2>5
    <3> QED BY <1>0, <2>2, <2>3, <3>1 DEF Counts
  <2>6. CASE Used(d)
    <3>1. d[1] \in Node
      BY ConnIs
    <3> QED BY <1>0, <2>2, <2>3, <2>6, <3>1 DEF Fresh
  <2> QED BY <2>4, <2>5, <2>6
<1>3. ASSUME open' \subseteq open, reading' \subseteq reading, due' \subseteq due
      PROVE  \A c \in Conn : Used(c)' => Used(c)
  BY <1>3 DEF Used
<1>4. ASSUME NEW b \in Node, NEW c \in Conn, Accept(b, c) PROVE Fresh'
  <2>1. /\ open' \subseteq open /\ due' \subseteq due
        /\ reading' \subseteq reading \cup {<<b, c>>} /\ <<b, c>> \in due
        /\ UNCHANGED <<todial, starts>>
    BY <1>4 DEF Accept
  <2>2. \A d \in Conn : Used(d)' => Used(d)
    BY <2>1 DEF Used
  <2> QED BY <1>1, <2>1, <2>2
<1>5. ASSUME NEW n \in Node, Restart(n) PROVE Fresh'
  <2>1. /\ open' \subseteq open /\ reading' \subseteq reading /\ due' \subseteq due
        /\ starts' = [starts EXCEPT ![n] = starts[n] + 1]
        /\ todial' = [todial EXCEPT ![n] = Bootstrap[n]]
    BY <1>5 DEF Restart
  <2> SUFFICES ASSUME NEW d \in Conn, Used(d)'
               PROVE  d[3] <= starts'[d[1]] /\ (d[3] = starts'[d[1]] => d[2] \notin todial'[d[1]])
    BY DEF Fresh
  <2>2. Used(d) /\ d[1] \in Node /\ d[3] \in Nat
    BY <1>3, <2>1, ConnIs
  <2>3. d[3] <= starts[d[1]] /\ (d[3] = starts[d[1]] => d[2] \notin todial[d[1]])
    BY <1>0, <2>2 DEF Fresh
  <2>4. CASE d[1] = n
    <3>1. starts'[n] = starts[n] + 1 /\ starts[n] \in Nat
      BY <1>0, <2>1 DEF Counts
    <3> QED BY <2>2, <2>3, <2>4, <3>1
  <2>5. CASE d[1] # n
    <3>1. starts'[d[1]] = starts[d[1]] /\ todial'[d[1]] = todial[d[1]]
      BY <1>0, <2>1, <2>2, <2>5 DEF Counts
    <3> QED BY <2>3, <3>1
  <2> QED BY <2>4, <2>5
<1>6. ASSUME NEW a \in Node, NEW b \in Node, DialFails(a, b) PROVE Fresh'
  <2>1. /\ todial' = [todial EXCEPT ![a] = todial[a] \ {b}]
        /\ UNCHANGED <<open, reading, due, starts>>
    BY <1>6 DEF DialFails
  <2>2. \A n \in Node : todial'[n] \subseteq todial[n]
    BY <1>0, <2>1 DEF Counts
  <2> QED BY <1>1, <1>3, <2>1, <2>2
<1>7. ASSUME open' \subseteq open, reading' \subseteq reading, due' \subseteq due, UNCHANGED <<todial, starts>>
      PROVE  Fresh'
  BY <1>1, <1>3, <1>7
<1>8. ASSUME NEW n \in Node, NEW c \in Conn, Leave(n, c) PROVE Fresh'
  BY <1>7, <1>8 DEF Leave
<1>9. ASSUME NEW c \in Conn, Break(c) PROVE Fresh'
  BY <1>7, <1>9 DEF Break
<1>10. ASSUME UNCHANGED <<open, reading, due, todial, starts>> PROVE Fresh'
  BY <1>7, <1>10
<1>11. CASE \E n \in Node : Step(n)
  BY <1>2, <1>4, <1>8, <1>10, <1>11 DEF Step, Greet, Hear, Receive, Prune
<1> QED BY <1>5, <1>6, <1>9, <1>10, <1>11 DEF Next, Broadcast, Ping

LEMMA StepOwn ==
  ASSUME ConnInv, Next
  PROVE  Own'
<1>0. Own /\ Counts /\ Conns
  BY DEF ConnInv, Typed
<1>1. ASSUME reading' \subseteq reading, UNCHANGED starts PROVE Own'
  BY <1>0, <1>1 DEF Own
<1>2. ASSUME NEW a \in Node, NEW b \in Node, Dial(a, b) PROVE Own'
  <2>1. PICK c : c = <<a, b, starts[a]>>
    OBVIOUS
  <2>2. reading' \subseteq reading \cup {<<a, c>>} /\ starts' = starts
    BY <1>2, <2>1 DEF Dial
  <2>3. c[3] = starts[a]
    BY <2>1
  <2> QED BY <1>0, <2>2, <2>3 DEF Own
<1>3. ASSUME NEW b \in Node, NEW c \in Conn, Accept(b, c) PROVE Own'
  <2>1. reading' \subseteq reading \cup {<<b, c>>} /\ starts' = starts
    BY <1>3 DEF Accept
  <2>2. b # c[1]
    BY <1>0, <1>3, ConnIs DEF Accept, Conns
  <2> QED BY <1>0, <2>1, <2>2 DEF Own
<1>4. ASSUME NEW n \in Node, Restart(n) PROVE Own'
  <2>1. /\ starts' = [starts EXCEPT ![n] = starts[n] + 1]
        /\ reading' = {r \in reading : r[1] # n}
    BY <1>4 DEF Restart
  <2>2. \A m \in Node : m # n => starts'[m] = starts[m]
    BY <1>0, <2>1 DEF Counts
  <2> QED BY <1>0, <2>1, <2>2 DEF Own
<1>5. ASSUME NEW n \in Node, NEW c \in Conn, Leave(n, c) PROVE Own'
  BY <1>1, <1>5 DEF Leave
<1>6. ASSUME UNCHANGED <<reading, starts>> PROVE Own'
  BY <1>1, <1>6
<1>7. CASE \E n \in Node : Step(n)
  BY <1>2, <1>3, <1>5, <1>6, <1>7 DEF Step, Greet, Hear, Receive, Prune
<1> QED BY <1>4, <1>6, <1>7 DEF Next, Broadcast, DialFails, Break, Ping

\* A table from which only keys of no open connection were taken still lists them.
LEMMA StillListed ==
  ASSUME ConnInv, OpenIsListed, NEW n \in Node, NEW t, table' = [table EXCEPT ![n] = t],
         \A d \in Conn : <<n, d>> \in reading' /\ d \in open' =>
           Key(n, d) \in DOMAIN t /\ t[Key(n, d)] = d,
         open' \subseteq open, \A m \in Node, d \in Conn : m # n /\ <<m, d>> \in reading' => <<m, d>> \in reading
  PROVE  OpenIsListed'
<1>1. DOMAIN table = Node
  BY DEF ConnInv, Typed, Tables
<1> SUFFICES ASSUME NEW m \in Node, NEW d \in Conn, <<m, d>> \in reading', d \in open'
             PROVE  Key(m, d) \in DOMAIN table'[m] /\ table'[m][Key(m, d)] = d
  BY DEF OpenIsListed, Key
<1>2. CASE m = n
  BY <1>1, <1>2
<1>3. CASE m # n
  <2>1. table'[m] = table[m] /\ <<m, d>> \in reading /\ d \in open
    BY <1>1, <1>3
  <2> QED BY <2>1 DEF OpenIsListed
<1> QED BY <1>2, <1>3

LEMMA StepListed ==
  ASSUME ConnInv, OpenIsListed, Next
  PROVE  OpenIsListed'
<1>0. /\ DOMAIN table = Node /\ Own /\ Conns /\ Counts
      /\ \A n \in Node, d \in Conn : <<n, d>> \in reading /\ d \in open =>
           Key(n, d) \in DOMAIN table[n] /\ table[n][Key(n, d)] = d
  BY DEF ConnInv, Typed, Tables, OpenIsListed
<1>1. ASSUME open' \subseteq open, reading' \subseteq reading, UNCHANGED table PROVE OpenIsListed'
  BY <1>0, <1>1 DEF OpenIsListed, Key
\* A key that no connection which n reads is listed under can be removed.
<1>2. ASSUME NEW n \in Node, NEW k, table' = [table EXCEPT ![n] = RemovePeer(table[n], k)],
             \A d \in Conn : <<n, d>> \in reading' /\ d \in open' => Key(n, d) # k,
             open' \subseteq open, reading' \subseteq reading
      PROVE  OpenIsListed'
  <2>1. PICK t : t = RemovePeer(table[n], k)
    OBVIOUS
  <2>2. DOMAIN t = DOMAIN table[n] \ {k} /\ \A j \in DOMAIN table[n] \ {k} : t[j] = table[n][j]
    BY <2>1, RemovePeerIs
  <2>3. ASSUME NEW d \in Conn, <<n, d>> \in reading', d \in open'
        PROVE  Key(n, d) \in DOMAIN t /\ t[Key(n, d)] = d
    <3>1. Key(n, d) \in DOMAIN table[n] \ {k} /\ table[n][Key(n, d)] = d
      BY <1>0, <1>2, <2>3
    <3> QED BY <2>2, <3>1
  <2>4. table' = [table EXCEPT ![n] = t]
    BY <1>2, <2>1
  <2> QED BY <1>2, <2>3, <2>4, StillListed
\* A connection that n reads under a key which is free of others can be added.
<1>3. ASSUME NEW n \in Node, NEW c \in Conn,
             table' = [table EXCEPT ![n] = AddPeer(table[n], Key(n, c), c)],
             \A d \in Conn : <<n, d>> \in reading /\ Key(n, c) = Key(n, d) => c = d,
             reading' = reading \cup {<<n, c>>}, open' \subseteq open \cup {c},
             \A m \in Node : m # n => <<m, c>> \notin reading \/ open' \subseteq open
      PROVE  OpenIsListed'
  <2>1. PICK t : t = AddPeer(table[n], Key(n, c), c)
    OBVIOUS
  <2>2. /\ DOMAIN t = DOMAIN table[n] \cup {Key(n, c)} /\ t[Key(n, c)] = c
        /\ \A j \in DOMAIN table[n] \ {Key(n, c)} : t[j] = table[n][j]
    BY <2>1 DEF AddPeer
  <2>3. table' = [table EXCEPT ![n] = t]
    BY <1>3, <2>1
  <2> SUFFICES ASSUME NEW m \in Node, NEW d \in Conn, <<m, d>> \in reading', d \in open'
               PROVE  Key(m, d) \in DOMAIN table'[m] /\ table'[m][Key(m, d)] = d
    BY DEF OpenIsListed, Key
  <2>4. CASE m # n
    <3>1. <<m, d>> \in reading /\ table'[m] = table[m]
      BY <1>0, <1>3, <2>3, <2>4
    <3>2. d \in open
      BY <1>3, <2>4, <3>1
    <3> QED BY <1>0, <3>1, <3>2
  <2>5. CASE m = n /\ d = c
    BY <1>0, <2>2, <2>3, <2>5
  <2>6. CASE m = n /\ d # c
    <3>1. <<n, d>> \in reading /\ d \in open
      BY <1>3, <2>6
    <3>2. Key(n, c) # Key(n, d)
      BY <1>3, <2>6, <3>1
    <3>3. Key(n, d) \in DOMAIN table[n] \ {Key(n, c)} /\ table[n][Key(n, d)] = d
      BY <1>0, <3>1, <3>2
    <3>4. Key(n, d) \in DOMAIN t /\ t[Key(n, d)] = d
      BY <2>2, <3>3
    <3>5. table'[n] = t
      BY <1>0, <2>3
    <3> QED BY <2>6, <3>4, <3>5
  <2> QED BY <2>4, <2>5, <2>6
<1>4. ASSUME NEW a \in Node, NEW b \in Node, Dial(a, b) PROVE OpenIsListed'
  <2>1. PICK c : c = <<a, b, starts[a]>>
    OBVIOUS
  <2>2. /\ c \in Conn /\ ~Used(c) /\ Key(a, c) = AddressOf(b)
        /\ \A d \in Conn : <<a, d>> \in reading => Key(a, d) # AddressOf(b)
    BY <1>4, <2>1, DialedIsFresh DEF Dial
  <2>3. CASE HasRoom(table[a], Key(a, c))
    <3>1. /\ table' = [table EXCEPT ![a] = AddPeer(table[a], Key(a, c), c)]
          /\ reading' = reading \cup {<<a, c>>} /\ open' = open \cup {c}
      BY <1>4, <2>1, <2>3 DEF Dial
    <3>2. \A m \in Node : <<m, c>> \notin reading
      BY <2>2 DEF Used
    <3> QED BY <1>3, <2>2, <3>1, <3>2
  <2>4. CASE ~HasRoom(table[a], Key(a, c))
    <3>1. /\ table' = [table EXCEPT ![a] = RemovePeer(table[a], Key(a, c))]
          /\ UNCHANGED <<open, reading>>
      BY <1>4, <2>1, <2>4 DEF Dial
    <3> QED BY <1>2, <2>2, <3>1
  <2> QED BY <2>3, <2>4
<1>5. ASSUME NEW a \in Node, NEW b \in Node, DialFails(a, b) PROVE OpenIsListed'
  <2>1. PICK c : c = <<a, b, starts[a]>>
    OBVIOUS
  <2>2. \A d \in Conn : <<a, d>> \in reading => Key(a, d) # AddressOf(b)
    BY <1>5, <2>1, DialedIsFresh DEF DialFails
  <2>3. /\ table' = [table EXCEPT ![a] = RemovePeer(table[a], AddressOf(b))]
        /\ UNCHANGED <<open, reading>>
    BY <1>5 DEF DialFails
  <2> QED BY <1>2, <2>2, <2>3
<1>6. ASSUME NEW b \in Node, NEW c \in Conn, Accept(b, c) PROVE OpenIsListed'
  <2>1. b # c[1]
    BY <1>0, <1>6, ConnIs DEF Accept, Conns
  <2>2. CASE HasRoom(table[b], Key(b, c))
    <3>1. /\ table' = [table EXCEPT ![b] = AddPeer(table[b], Key(b, c), c)]
          /\ reading' = reading \cup {<<b, c>>} /\ open' = open
      BY <1>6, <2>2 DEF Accept
    <3>2. \A d \in Conn : Key(b, c) = Key(b, d) => c = d
      BY <2>1, KeysDiffer
    <3> QED BY <1>3, <3>1, <3>2
  <2>3. CASE ~HasRoom(table[b], Key(b, c))
    BY <1>1, <1>6, <2>3 DEF Accept
  <2> QED BY <2>2, <2>3
<1>7. ASSUME NEW n \in Node, NEW c \in Conn, Leave(n, c) PROVE OpenIsListed'
  <2>1. /\ table' = [table EXCEPT ![n] = RemovePeer(table[n], LeaveKey(n, c))]
        /\ reading' \subseteq reading /\ open' = open
        /\ <<n, c>> \in reading /\ c \notin open
    BY <1>7 DEF Leave
  <2>2. ASSUME NEW d \in Conn, <<n, d>> \in reading, d \in open, Key(n, d) = LeaveKey(n, c) PROVE FALSE
    <3>1. Other(n, c) \in Node
      BY ConnIs DEF Other
    <3>2. LeaveKey(n, c) = NodeId(Other(n, c)) \/ LeaveKey(n, c) = Key(n, c)
      BY DEF LeaveKey, PeerId, Key
    <3>3. LeaveKey(n, c) = Key(n, c)
      BY <2>2, <3>1, <3>2, KeysDiffer
    <3>4. n = c[1] => c[3] = starts[n]
      BY <1>0, <2>1 DEF Own
    <3>5. c = d
      BY <2>2, <3>3, <3>4, OwnKeys
    <3> QED BY <2>1, <2>2, <3>5
  <2> QED BY <1>2, <2>1, <2>2
<1>8. ASSUME NEW n \in Node, Prune(n) PROVE OpenIsListed'
  <2>1. PICK dead \in SUBSET Dead(n) :
          table' = [table EXCEPT ![n] = Restrict(table[n], DOMAIN table[n] \ dead)]
    BY <1>8 DEF Prune
  <2>2. UNCHANGED <<open, reading>>
    BY <1>8 DEF Prune
  <2>3. PICK t : t = Restrict(table[n], DOMAIN table[n] \ dead)
    OBVIOUS
  <2>4. DOMAIN t = DOMAIN table[n] \ dead /\ \A k \in DOMAIN t : t[k] = table[n][k]
    BY <2>3, RestrictIs
  <2>5. ASSUME NEW d \in Conn, <<n, d>> \in reading', d \in open'
        PROVE  Key(n, d) \in DOMAIN t /\ t[Key(n, d)] = d
    <3>1. d \in open /\ Key(n, d) \in DOMAIN table[n] /\ table[n][Key(n, d)] = d
      BY <1>0, <2>2, <2>5
    <3>2. Key(n, d) \notin dead
      BY <2>1, <3>1 DEF Dead, Silent
    <3> QED BY <2>4, <3>1, <3>2
  <2>6. table' = [table EXCEPT ![n] = t]
    BY <2>1, <2>3
  <2> QED BY <2>2, <2>5, <2>6, StillListed
<1>9. ASSUME NEW n \in Node, Restart(n) PROVE OpenIsListed'
  <2>1. /\ table' = [table EXCEPT ![n] = NoPeers]
        /\ open' \subseteq open /\ reading' = {r \in reading : r[1] # n}
    BY <1>9 DEF Restart
  <2>2. \A d : <<n, d>> \notin reading'
    BY <2>1
  <2> QED BY <2>1, <2>2, StillListed
<1>10. ASSUME NEW c \in Conn, Break(c) PROVE OpenIsListed'
  BY <1>1, <1>10 DEF Break
<1>11. ASSUME UNCHANGED <<open, reading, table>> PROVE OpenIsListed'
  BY <1>1, <1>11
<1>12. CASE \E n \in Node : Step(n)
  BY <1>4, <1>6, <1>7, <1>8, <1>11, <1>12 DEF Step, Greet, Hear, Receive
<1> QED BY <1>5, <1>9, <1>10, <1>11, <1>12 DEF Next, Broadcast, Ping

LEMMA ConnsInvariant == Spec => [](ConnInv /\ OpenIsListed)
<1>1. Init => ConnInv /\ OpenIsListed
  BY InitTyped DEF Init, ConnInv, Fresh, Own, Used, OpenIsListed
<1>2. ConnInv /\ OpenIsListed /\ [Next]_vars => (ConnInv /\ OpenIsListed)'
  <2> SUFFICES ASSUME ConnInv, OpenIsListed, [Next]_vars PROVE ConnInv' /\ OpenIsListed'
    OBVIOUS
  <2>1. CASE Next
    BY <2>1, StepTyped, StepFresh, StepOwn, StepListed DEF ConnInv
  <2>2. CASE UNCHANGED vars
    <3>1. Typed'
      BY <2>2, StepTyped DEF ConnInv
    <3> QED BY <2>2, <3>1 DEF vars, ConnInv, Fresh, Own, Used, OpenIsListed, Key
  <2> QED BY <2>1, <2>2
<1> QED BY <1>1, <1>2, PTL DEF Spec

(* The table of a node holds every open connection whose handler it runs,    *)
(* whatever order peers arrive, shake hands, fall silent and leave in.       *)
THEOREM OpenStaysListed == Spec => []OpenIsListed
BY ConnsInvariant, PTL

-----------------------------------------------------------------------------
(***************************************************************************)
(* Why a message comes twice only after SeenSize others: its entry in the  *)
(* deque has one message for every later entry after it, and when it has   *)
(* fallen out, SeenSize messages have come since it went in.               *)
(***************************************************************************)

\* How many messages a node has taken up before it handles one for the h-th time.
Before(h) == (h - 1) * (SeenSize + 1)

\* Of one message, handled h times, at a node with deque s that took up t.
Spaced(s, h, t, m) ==
  /\ h > 0 => t > Before(h)
  /\ \A i \in 1 .. Len(s) : s[i] = m => h > 0 /\ t - (Len(s) - i) > Before(h)
  /\ (\A i \in 1 .. Len(s) : s[i] # m) /\ h > 0 => t - SeenSize > Before(h)

SeenInv == \A n \in Node, m \in Message : Spaced(seen[n], handled[n][m], total[n], m)

LEMMA BeforeIs ==
  ASSUME NEW h \in Nat
  PROVE  /\ Before(h) \in Int /\ Before(h + 1) = Before(h) + SeenSize + 1
         /\ Before(1) = 0
BY P2PAssumption DEF Before, P2PAssumption

\* Another message is taken up.
LEMMA SpacedByAnother ==
  ASSUME NEW s \in Seq(Item), Len(s) <= SeenSize, NEW h \in Nat, NEW t \in Nat,
         NEW m \in Message, Spaced(s, h, t, m), NEW x \in Item, x # m,
         NEW r, r = Remember(s, x)
  PROVE  Spaced(r, h, t + 1, m)
<1>1. Before(h) \in Int
  BY BeforeIs
<1>2. SeenSize \in Nat \ {0} /\ Len(s) \in Nat
  BY P2PAssumption DEF P2PAssumption
<1>3. /\ Len(r) \in Nat \ {0} /\ r[Len(r)] = x
      /\ \/ Len(s) = SeenSize /\ Len(r) = Len(s) /\ \A i \in 1 .. Len(r) - 1 : r[i] = s[i + 1]
         \/ Len(s) < SeenSize /\ Len(r) = Len(s) + 1 /\ \A i \in 1 .. Len(r) - 1 : r[i] = s[i]
  <2>1. Pushed(s, x, r)
    BY RememberIs
  <2> QED BY <2>1 DEF Pushed
<1>4. /\ h > 0 => t > Before(h)
      /\ \A i \in 1 .. Len(s) : s[i] = m => h > 0 /\ t - (Len(s) - i) > Before(h)
      /\ (\A i \in 1 .. Len(s) : s[i] # m) /\ h > 0 => t - SeenSize > Before(h)
  BY DEF Spaced
<1>5. h > 0 => t + 1 > Before(h)
  BY <1>1, <1>4
<1>6. ASSUME NEW i \in 1 .. Len(r), r[i] = m PROVE h > 0 /\ (t + 1) - (Len(r) - i) > Before(h)
  <2>1. i \in 1 .. Len(r) - 1
    BY <1>3, <1>6
  <2>2. CASE Len(s) = SeenSize /\ Len(r) = Len(s) /\ r[i] = s[i + 1]
    <3>1. i + 1 \in 1 .. Len(s) /\ s[i + 1] = m
      BY <1>2, <1>6, <2>1, <2>2
    <3> QED BY <1>1, <1>2, <1>4, <2>2, <3>1
  <2>3. CASE Len(r) = Len(s) + 1 /\ r[i] = s[i]
    <3>1. i \in 1 .. Len(s) /\ s[i] = m
      BY <1>2, <1>6, <2>1, <2>3
    <3> QED BY <1>1, <1>2, <1>4, <2>3, <3>1
  <2> QED BY <1>3, <2>1, <2>2, <2>3
<1>7. ASSUME \A i \in 1 .. Len(r) : r[i] # m, h > 0 PROVE (t + 1) - SeenSize > Before(h)
  <2>1. CASE \A i \in 1 .. Len(s) : s[i] # m
    BY <1>1, <1>2, <1>4, <1>7, <2>1
  <2>2. CASE \E i \in 1 .. Len(s) : s[i] = m
    <3>1. PICK i \in 1 .. Len(s) : s[i] = m
      BY <2>2
    <3>2. t - (Len(s) - i) > Before(h)
      BY <1>4, <3>1
    <3>3. Len(s) = SeenSize /\ Len(r) = Len(s) /\ \A k \in 1 .. Len(r) - 1 : r[k] = s[k + 1]
      <4>1. CASE Len(r) = Len(s) + 1 /\ \A k \in 1 .. Len(r) - 1 : r[k] = s[k]
        <5>1. i \in 1 .. Len(r) - 1 /\ i \in 1 .. Len(r)
          BY <1>2, <3>1, <4>1
        <5> QED BY <1>7, <3>1, <4>1, <5>1
      <4> QED BY <1>3, <4>1
    <3>4. i = 1
      <4>1. CASE i # 1
        <5>1. i - 1 \in 1 .. Len(r) - 1 /\ i - 1 \in 1 .. Len(r) /\ (i - 1) + 1 = i
          BY <1>2, <3>1, <3>3, <4>1
        <5>2. r[i - 1] = s[(i - 1) + 1]
          BY <3>3, <5>1
        <5> QED BY <1>7, <3>1, <5>1, <5>2
      <4> QED BY <4>1
    <3> QED BY <1>1, <1>2, <3>2, <3>3, <3>4
  <2> QED BY <2>1, <2>2
<1>8. /\ h > 0 => t + 1 > Before(h)
      /\ \A i \in 1 .. Len(r) : r[i] = m => h > 0 /\ (t + 1) - (Len(r) - i) > Before(h)
      /\ (\A i \in 1 .. Len(r) : r[i] # m) /\ h > 0 => (t + 1) - SeenSize > Before(h)
  BY <1>5, <1>6, <1>7
<1> QED BY <1>8 DEF Spaced

\* The message itself is taken up, for it is not in the deque.
LEMMA SpacedByItself ==
  ASSUME NEW s \in Seq(Item), Len(s) <= SeenSize, NEW h \in Nat, NEW t \in Nat,
         NEW m \in Message, Spaced(s, h, t, m), \A i \in 1 .. Len(s) : s[i] # m,
         NEW r, r = Remember(s, m)
  PROVE  Spaced(r, h + 1, t + 1, m)
<1>1. PICK b \in Int : b = Before(h + 1)
  <2>1. h + 1 \in Nat
    OBVIOUS
  <2>2. Before(h + 1) \in Int
    BY ONLY <2>1, BeforeIs
  <2> QED BY <2>2
<1>2. SeenSize \in Nat \ {0} /\ Len(s) \in Nat
  BY P2PAssumption DEF P2PAssumption
<1>3. /\ Len(r) \in Nat \ {0} /\ r[Len(r)] = m
      /\ \/ Len(s) = SeenSize /\ Len(r) = Len(s) /\ \A i \in 1 .. Len(r) - 1 : r[i] = s[i + 1]
         \/ Len(s) < SeenSize /\ Len(r) = Len(s) + 1 /\ \A i \in 1 .. Len(r) - 1 : r[i] = s[i]
  <2>1. m \in Item
    BY DEF Item
  <2>2. Pushed(s, m, r)
    BY <2>1, RememberIs
  <2> QED BY <2>2 DEF Pushed
<1>4. t + 1 > b
  <2>1. CASE h = 0
    BY <1>1, <2>1, BeforeIs
  <2>2. CASE h > 0
    <3>1. PICK d \in Int : d = Before(h)
      BY BeforeIs
    <3>2. t - SeenSize > d
      BY <2>2, <3>1 DEF Spaced
    <3>3. b = d + SeenSize + 1
      BY <1>1, <3>1, BeforeIs
    <3> QED BY <1>2, <3>2, <3>3
  <2> QED BY <2>1, <2>2
<1>5. ASSUME NEW i \in 1 .. Len(r), r[i] = m PROVE i = Len(r)
  <2>1. ASSUME i # Len(r) PROVE FALSE
    <3>1. i \in 1 .. Len(r) - 1
      BY <1>3, <2>1
    <3>2. \/ r[i] = s[i + 1] /\ i + 1 \in 1 .. Len(s)
          \/ r[i] = s[i] /\ i \in 1 .. Len(s)
      BY <1>2, <1>3, <3>1
    <3> QED BY <1>5, <3>2
  <2> QED BY <2>1
<1>6. \A i \in 1 .. Len(r) : r[i] = m => (t + 1) - (Len(r) - i) > b
  BY <1>3, <1>4, <1>5
<1>7. Len(r) \in 1 .. Len(r) /\ r[Len(r)] = m
  BY <1>3
<1> QED BY <1>1, <1>4, <1>6, <1>7 DEF Spaced

LEMMA InRange ==
  ASSUME NEW s \in Seq(Item), NEW m
  PROVE  m \in Range(s) <=> \E i \in 1 .. Len(s) : s[i] = m
<1>1. DOMAIN s = 1 .. Len(s)
  OBVIOUS
<1> QED BY <1>1 DEF Range

LEMMA StepSeen ==
  ASSUME Typed, SeenInv, Next
  PROVE  SeenInv'
<1>0. Gossip
  BY DEF Typed
<1>1. ASSUME UNCHANGED <<seen, handled, total>> PROVE SeenInv'
  BY <1>1 DEF SeenInv, Spaced, Before
<1>2. ASSUME NEW n \in Node, NEW x \in Item, Remembered(n, x),
             NEW m \in Message, x # m, NEW k \in Node, handled'[k][m] = handled[k][m]
      PROVE  Spaced(seen[k], handled[k][m], total[k], m)'
  <2>1. /\ seen[k] \in Seq(Item) /\ Len(seen[k]) <= SeenSize /\ total[k] \in Nat
        /\ handled[k][m] \in Nat /\ Spaced(seen[k], handled[k][m], total[k], m)
    BY <1>0 DEF Gossip, SeenInv
  <2>2. CASE k # n
    BY <1>0, <1>2, <2>1, <2>2, TakenUp DEF Spaced, Before
  <2>3. CASE k = n
    <3>1. seen'[n] = Remember(seen[n], x) /\ total'[n] = total[n] + 1
      BY <1>0, <1>2, TakenUp
    <3>2. Spaced(seen'[n], handled[n][m], total[n] + 1, m)
      BY <1>2, <2>1, <2>3, <3>1, SpacedByAnother
    <3> QED BY <1>2, <2>3, <3>1, <3>2 DEF Spaced, Before
  <2> QED BY <2>2, <2>3
<1>3. \A m \in Message : m # Control
  BY P2PAssumption DEF P2PAssumption, Control
<1>4. ASSUME NEW n \in Node, Remembered(n, Control), handled' = handled PROVE SeenInv'
  BY <1>2, <1>3, <1>4 DEF SeenInv, Item
<1>5. ASSUME NEW n \in Node, NEW c \in Conn, NEW m \in Message, Receive(n, c, m), m \notin Range(seen[n])
      PROVE  SeenInv'
  <2>1. Remembered(n, m) /\ handled' = [handled EXCEPT ![n][m] = handled[n][m] + 1]
    BY <1>5 DEF Receive, Handle
  <2>2. /\ handled'[n][m] = handled[n][m] + 1
        /\ \A k \in Node, x \in Message : k # n \/ x # m => handled'[k][x] = handled[k][x]
    BY <1>0, <2>1 DEF Gossip
  <2>3. m \in Item
    BY DEF Item
  <2>4. /\ seen[n] \in Seq(Item) /\ Len(seen[n]) <= SeenSize /\ total[n] \in Nat
        /\ handled[n][m] \in Nat /\ Spaced(seen[n], handled[n][m], total[n], m)
    BY <1>0 DEF Gossip, SeenInv
  <2>5. seen'[n] = Remember(seen[n], m) /\ total'[n] = total[n] + 1
    BY <1>0, <2>1, <2>3, TakenUp
  <2>6. \A i \in 1 .. Len(seen[n]) : seen[n][i] # m
    BY <1>5, <2>4, InRange
  <2>7. Spaced(seen'[n], handled[n][m] + 1, total[n] + 1, m)
    BY <2>4, <2>5, <2>6, SpacedByItself
  <2>8. Spaced(seen[n], handled[n][m], total[n], m)'
    BY <2>2, <2>5, <2>7 DEF Spaced, Before
  <2>9. ASSUME NEW k \in Node, k # n PROVE Spaced(seen[k], handled[k][m], total[k], m)'
    <3>1. Spaced(seen[k], handled[k][m], total[k], m)
      BY DEF SeenInv
    <3>2. seen'[k] = seen[k] /\ total'[k] = total[k] /\ handled'[k][m] = handled[k][m]
      BY <1>0, <2>1, <2>2, <2>3, <2>9, TakenUp
    <3> QED BY <3>1, <3>2 DEF Spaced, Before
  <2>10. ASSUME NEW k \in Node, NEW x \in Message, x # m PROVE Spaced(seen[k], handled[k][x], total[k], x)'
    BY <1>2, <2>1, <2>2, <2>3, <2>10
  <2> QED BY <2>8, <2>9, <2>10 DEF SeenInv
<1>6. ASSUME NEW n \in Node, NEW c \in Conn, NEW m \in Message, Receive(n, c, m) PROVE SeenInv'
  BY <1>1, <1>5, <1>6 DEF Receive
<1>7. ASSUME NEW n \in Node, NEW c \in Conn, Greet(n, c) PROVE SeenInv'
  BY <1>4, <1>7 DEF Greet
<1>8. ASSUME NEW n \in Node, NEW c \in Conn, NEW m \in {"ping", "pong"}, Hear(n, c, m) PROVE SeenInv'
  BY <1>1, <1>4, <1>8 DEF Hear
<1>9. ASSUME NEW n \in Node, Restart(n) PROVE SeenInv'
  <2>1. /\ seen' = [seen EXCEPT ![n] = <<>>] /\ total' = [total EXCEPT ![n] = 0]
        /\ handled' = [handled EXCEPT ![n] = [m \in Message |-> 0]]
    BY <1>9 DEF Restart
  <2>2. ASSUME NEW k \in Node, NEW m \in Message, k # n PROVE Spaced(seen[k], handled[k][m], total[k], m)'
    <3>1. seen'[k] = seen[k] /\ total'[k] = total[k] /\ handled'[k] = handled[k]
      BY <1>0, <2>1, <2>2 DEF Gossip
    <3> QED BY <3>1 DEF SeenInv, Spaced, Before
  <2>3. ASSUME NEW m \in Message PROVE Spaced(seen[n], handled[n][m], total[n], m)'
    <3>1. seen'[n] = <<>> /\ total'[n] = 0 /\ handled'[n][m] = 0
      BY <1>0, <2>1 DEF Gossip
    <3>2. Len(<<>>) = 0
      OBVIOUS
    <3> QED BY <3>1, <3>2 DEF Spaced
  <2> QED BY <2>2, <2>3 DEF SeenInv
<1>10. CASE \E n \in Node : Step(n)
  BY <1>1, <1>6, <1>7, <1>8, <1>10 DEF Step, Dial, Accept, Leave, Prune
<1> QED BY <1>1, <1>9, <1>10 DEF Next, DialFails, Break, Broadcast, Ping

(* However a message multiplies over several paths and back to its sender,   *)
(* a node hands it to the application again only after it took up as many    *)
(* others as its deque holds, since it handed it on the last time.           *)
THEOREM HandedOnOnce == Spec => []HandledOnce
<1>1. Init => SeenInv
  <2> SUFFICES ASSUME Init PROVE SeenInv
    OBVIOUS
  <2>1. \A n \in Node, m \in Message : seen[n] = <<>> /\ total[n] = 0 /\ handled[n][m] = 0
    BY DEF Init
  <2>2. Len(<<>>) = 0
    OBVIOUS
  <2> QED BY <2>1, <2>2 DEF SeenInv, Spaced
<1>2. Typed /\ SeenInv /\ [Next]_vars => SeenInv'
  <2> SUFFICES ASSUME Typed, SeenInv, [Next]_vars PROVE SeenInv'
    OBVIOUS
  <2>1. CASE Next
    BY <2>1, StepSeen
  <2>2. CASE UNCHANGED vars
    BY <2>2 DEF vars, SeenInv, Spaced, Before
  <2> QED BY <2>1, <2>2
<1>3. SeenInv => HandledOnce
  BY DEF SeenInv, Spaced, Before, HandledOnce
<1>4. Typed /\ [Next]_vars => Typed'
  BY StepTyped
<1> QED BY <1>1, <1>2, <1>3, <1>4, InitTyped, PTL DEF Spec
=============================================================================
