---------------------------- MODULE OfflineProofs ---------------------------
(***************************************************************************)
(* What the view of an offline device keeps, for any transactions, any     *)
(* thresholds and any number of payments, faults and restarts.             *)
(***************************************************************************)
EXTENDS Offline, OpsProofs

\* The views with chain layer S.
ViewsOn(S) ==
  [chain : {S}, spent : SUBSET UNION {Ins(t) : t \in Tx},
   created : SUBSET UNION {OutpointsOf(t) : t \in Tx}, applied : Seq(Tx)]

\* A sequence with an element at its end, position by position.
LEMMA AppendIs ==
  ASSUME NEW S, NEW s \in Seq(S), NEW e \in S
  PROVE  LET r == Append(s, e) IN
         /\ r \in Seq(S)
         /\ Len(r) = Len(s) + 1
         /\ r[Len(s) + 1] = e
         /\ \A i \in 1 .. Len(s) : r[i] = s[i]
         /\ ToSet(r) = ToSet(s) \cup {e}
<1> DEFINE r == Append(s, e)
<1>1. r \in Seq(S) /\ Len(r) = Len(s) + 1 /\ r[Len(s) + 1] = e /\ Len(s) \in Nat
  OBVIOUS
<1>2. \A i \in 1 .. Len(s) : r[i] = s[i]
  OBVIOUS
<1>3. 1 .. Len(s) + 1 = (1 .. Len(s)) \cup {Len(s) + 1}
  BY <1>1
<1>4. ToSet(r) = {r[i] : i \in 1 .. Len(s) + 1} /\ ToSet(s) = {s[i] : i \in 1 .. Len(s)}
  <2> HIDE DEF r
  <2> QED BY <1>1, ToSetIs
<1>5. ToSet(r) = ToSet(s) \cup {e}
  <2> HIDE DEF r
  <2> QED BY <1>1, <1>2, <1>3, <1>4
<1> QED BY <1>1, <1>2, <1>5

\* A view without local transactions keeps what there is to keep.
LEMMA NewViewIs ==
  ASSUME NEW S
  PROVE  NewView(S) \in ViewsOn(S) /\ Layered(NewView(S)) /\ Grounded(NewView(S))
<1>1. NewView(S) \in ViewsOn(S)
  BY DEF NewView, ViewsOn
<1>2. Len(<<>>) = 0 /\ ToSet(<<>>) = {} /\ 1 .. 0 = {}
  BY DEF ToSet
<1> QED BY <1>1, <1>2 DEF NewView, Layered, Grounded

\* A transaction that is already applied and can be applied again changes nothing.
LEMMA AppliedTwiceIs ==
  ASSUME NEW S, NEW v \in ViewsOn(S), Layered(v), NEW t \in ToSet(v.applied), CanApply(v, t)
  PROVE  Applied(v, t) = v
<1>1. Ins(t) \subseteq v.spent /\ OutpointsOf(t) \subseteq v.created
  BY DEF Layered
<1>2. v.spent \cup Ins(t) = v.spent /\ v.created \cup OutpointsOf(t) = v.created
  BY <1>1
<1> QED BY <1>2 DEF Applied, ViewsOn

\* apply_local_tx keeps the local layers in step with the local transactions.
LEMMA AppliedLayered ==
  ASSUME NEW S, NEW v \in ViewsOn(S), Layered(v), NEW t \in Tx, CanApply(v, t)
  PROVE  Applied(v, t) \in ViewsOn(S) /\ Layered(Applied(v, t))
<1>1. CASE t \in ToSet(v.applied)
  BY <1>1, AppliedTwiceIs
<1>2. CASE t \notin ToSet(v.applied)
  <2> DEFINE a == v.applied
             b == Append(a, t)
             w == Applied(v, t)
             n == Len(a)
  <2>1. a \in Seq(Tx) /\ n \in Nat /\ ToSet(a) = {a[i] : i \in 1 .. n}
    BY ToSetIs DEF ViewsOn
  <2>2. /\ b \in Seq(Tx) /\ Len(b) = n + 1 /\ b[n + 1] = t
        /\ \A i \in 1 .. n : b[i] = a[i]
        /\ ToSet(b) = ToSet(a) \cup {t}
    <3> HIDE DEF a
    <3> QED BY <2>1, AppendIs
  <2>3. /\ w.spent = v.spent \cup Ins(t) /\ w.created = v.created \cup OutpointsOf(t)
        /\ w.applied = b
    BY <1>2 DEF Applied, ViewsOn
  <2>4. w \in ViewsOn(S)
    <3>1. Ins(t) \subseteq UNION {Ins(u) : u \in Tx}  OBVIOUS
    <3>2. OutpointsOf(t) \subseteq UNION {OutpointsOf(u) : u \in Tx}  OBVIOUS
    <3>3. w = [chain |-> S, spent |-> v.spent \cup Ins(t),
               created |-> v.created \cup OutpointsOf(t), applied |-> b]
      <4>1. w = [v EXCEPT !.spent = v.spent \cup Ins(t),
                          !.created = v.created \cup OutpointsOf(t), !.applied = b]
        BY <1>2 DEF Applied
      <4> DEFINE x == v.spent \cup Ins(t)
                 y == v.created \cup OutpointsOf(t)
      <4>2. w = [v EXCEPT !.spent = x, !.created = y, !.applied = b]
        BY <4>1
      <4> HIDE DEF a, b, w, x, y
      <4>3. w = [chain |-> S, spent |-> x, created |-> y, applied |-> b]
        BY <4>2 DEF ViewsOn
      <4> QED BY <4>3 DEF x, y
    <3>4. v.spent \subseteq UNION {Ins(u) : u \in Tx} /\ v.created \subseteq UNION {OutpointsOf(u) : u \in Tx}
      BY DEF ViewsOn
    <3> HIDE DEF b, w
    <3> QED BY <2>2, <3>1, <3>2, <3>3, <3>4 DEF ViewsOn
  <2>5. /\ v.spent = UNION {Ins(u) : u \in ToSet(a)}
        /\ v.created = UNION {OutpointsOf(u) : u \in ToSet(a)}
        /\ \A i, j \in 1 .. n : i # j => a[i] # a[j] /\ Ins(a[i]) \cap Ins(a[j]) = {}
    BY DEF Layered
  <2> HIDE DEF a, b, w
  <2>6. w.spent = UNION {Ins(u) : u \in ToSet(b)}
    BY <2>2, <2>3, <2>5
  <2>7. w.created = UNION {OutpointsOf(u) : u \in ToSet(b)}
    BY <2>2, <2>3, <2>5
  <2>8. \A i \in 1 .. n : a[i] # t /\ Ins(a[i]) \cap Ins(t) = {}
    <3> SUFFICES ASSUME NEW i \in 1 .. n PROVE a[i] # t /\ Ins(a[i]) \cap Ins(t) = {}
      OBVIOUS
    <3>1. a[i] \in ToSet(a)  BY <2>1
    <3>2. Ins(a[i]) \subseteq v.spent  BY <2>5, <3>1
    <3> QED BY <1>2, <3>1, <3>2 DEF CanApply, a
  <2>9. \A i, j \in 1 .. n + 1 : i # j => b[i] # b[j] /\ Ins(b[i]) \cap Ins(b[j]) = {}
    <3> SUFFICES ASSUME NEW i \in 1 .. n + 1, NEW j \in 1 .. n + 1, i # j
                 PROVE  b[i] # b[j] /\ Ins(b[i]) \cap Ins(b[j]) = {}
      OBVIOUS
    <3>1. CASE i = n + 1
      <4>1. j \in 1 .. n  BY <2>1, <3>1
      <4> QED BY <2>2, <2>8, <3>1, <4>1
    <3>2. CASE j = n + 1
      <4>1. i \in 1 .. n  BY <2>1, <3>2
      <4> QED BY <2>2, <2>8, <3>2, <4>1
    <3>3. CASE i # n + 1 /\ j # n + 1
      <4>1. i \in 1 .. n /\ j \in 1 .. n  BY <2>1, <3>3
      <4>2. a[i] # a[j] /\ Ins(a[i]) \cap Ins(a[j]) = {}  BY <2>5, <4>1
      <4> QED BY <2>2, <4>1, <4>2
    <3> QED BY <3>1, <3>2, <3>3
  <2>10. Layered(w)
    BY <2>2, <2>3, <2>6, <2>7, <2>9 DEF Layered
  <2> QED BY <2>4, <2>10 DEF w
<1> QED BY <1>1, <1>2

\* The checks of apply_local_tx ground what it applies.
LEMMA AppliedGrounded ==
  ASSUME NEW S, NEW v \in ViewsOn(S), Layered(v), Grounded(v), NEW t \in Tx, CanApply(v, t)
  PROVE  Grounded(Applied(v, t))
<1>1. CASE t \in ToSet(v.applied)
  BY <1>1, AppliedTwiceIs
<1>2. CASE t \notin ToSet(v.applied)
  <2> DEFINE a == v.applied
             b == Append(a, t)
             w == Applied(v, t)
             n == Len(a)
  <2>1. a \in Seq(Tx) /\ n \in Nat /\ ToSet(a) = {a[i] : i \in 1 .. n}
    BY ToSetIs DEF ViewsOn
  <2>2. /\ b \in Seq(Tx) /\ Len(b) = n + 1 /\ b[n + 1] = t
        /\ \A i \in 1 .. n : b[i] = a[i]
    <3> HIDE DEF a
    <3> QED BY <2>1, AppendIs
  <2>3. w.chain = v.chain /\ w.applied = b
    BY <1>2 DEF Applied, ViewsOn
  <2>4. v.created = UNION {OutpointsOf(a[j]) : j \in 1 .. n}
    <3>1. v.created = UNION {OutpointsOf(u) : u \in ToSet(a)}  BY DEF Layered
    <3> HIDE DEF a, n
    <3> QED BY <2>1, <3>1
  <2>5. Ins(t) \subseteq v.chain \cup UNION {OutpointsOf(a[j]) : j \in 1 .. n}
    BY <2>4 DEF CanApply
  <2>6. \A i \in 1 .. n : Ins(a[i]) \subseteq v.chain \cup UNION {OutpointsOf(a[j]) : j \in 1 .. i - 1}
    BY DEF Grounded
  <2> HIDE DEF a, b, w
  <2>7. ASSUME NEW i \in 1 .. n + 1
        PROVE  Ins(b[i]) \subseteq v.chain \cup UNION {OutpointsOf(b[j]) : j \in 1 .. i - 1}
    <3>1. \A j \in 1 .. i - 1 : j \in 1 .. n /\ b[j] = a[j]
      BY <2>1, <2>2
    <3>2. UNION {OutpointsOf(b[j]) : j \in 1 .. i - 1} = UNION {OutpointsOf(a[j]) : j \in 1 .. i - 1}
      BY <3>1
    <3>3. CASE i = n + 1
      <4>1. b[i] = t /\ i - 1 = n  BY <2>1, <2>2, <3>3
      <4> QED BY <2>5, <3>2, <4>1
    <3>4. CASE i # n + 1
      <4>1. i \in 1 .. n  BY <2>1, <3>4
      <4>2. b[i] = a[i]  BY <2>2, <4>1
      <4> QED BY <2>6, <3>2, <4>1, <4>2
    <3> QED BY <3>3, <3>4
  <2>8. Grounded(w)
    BY <2>2, <2>3, <2>7 DEF Grounded
  <2> QED BY <2>8 DEF w
<1> QED BY <1>1, <1>2

\* A round of sync_with_chain keeps what there is to keep.
LEMMA ReappliedIs ==
  ASSUME NEW S, NEW v \in ViewsOn(S), Layered(v), Grounded(v), NEW t \in Tx
  PROVE  LET w == Reapplied(v, t) IN w \in ViewsOn(S) /\ Layered(w) /\ Grounded(w)
<1>1. CASE CanApply(v, t)
  BY <1>1, AppliedLayered, AppliedGrounded DEF Reapplied
<1>2. CASE ~ CanApply(v, t)
  BY <1>2 DEF Reapplied
<1> QED BY <1>1, <1>2

\* What every round of sync_with_chain keeps, sync_with_chain keeps.
LEMMA SyncedIn ==
  ASSUME NEW G, \A w \in G, t \in Tx : Reapplied(w, t) \in G,
         NEW S, NewView(S) \in G, NEW v, v.applied \in Seq(Tx)
  PROVE  Synced(v, S) \in G
<1> DEFINE s == v.applied
           p == NewView(S)
           n == Len(s)
           f == [x \in G \X Tx |-> Reapplied(x[1], x[2])]
           Rounds(r) == r = [i \in 0 .. n |-> IF i = 0 THEN p ELSE Reapplied(r[i - 1], s[i])]
           after == CHOOSE r : Rounds(r)
<1>1. n \in Nat /\ p \in G /\ \A i \in 1 .. n : s[i] \in Tx
  OBVIOUS
<1>2. IsBody(f, G, Tx)
  BY DEF IsBody
<1>3. \E r : Rounds(r)
  <2>1. HasRun(f, G, p, s)
    <3> HIDE DEF f
    <3> QED BY <1>1, <1>2, RunExists
  <2>2. PICK r \in [0 .. n -> G] : r[0] = p /\ \A i \in 1 .. n : r[i] = f[<<r[i - 1], s[i]>>]
    <3> HIDE DEF f
    <3> QED BY <2>1 DEF HasRun
  <2>3. ASSUME NEW i \in 1 .. n PROVE r[i] = Reapplied(r[i - 1], s[i])
    <3>1. i - 1 \in 0 .. n /\ s[i] \in Tx  BY <1>1
    <3>2. <<r[i - 1], s[i]>> \in G \X Tx  BY <2>2, <3>1
    <3> QED BY <2>2, <3>2
  <2>4. Rounds(r)
    BY <1>1, <2>2, <2>3
  <2> QED BY <2>4
<1>4. Rounds(after)
  <2> HIDE DEF Rounds
  <2> QED BY <1>3
<1>5. Synced(v, S) = after[n]
  BY DEF Synced, Along
<1>6. after[0] = p /\ \A i \in 1 .. n : after[i] = Reapplied(after[i - 1], s[i])
  <2>1. 0 \in 0 .. n /\ \A i \in 1 .. n : i \in 0 .. n /\ i # 0  BY <1>1
  <2>2. after = [i \in 0 .. n |-> IF i = 0 THEN p ELSE Reapplied(after[i - 1], s[i])]
    BY <1>4
  <2> HIDE DEF after, n
  <2> QED BY <2>1, <2>2
<1> HIDE DEF after
<1>7. \A i \in 1 .. n : after[i - 1] \in G => after[i] \in G
  BY <1>1, <1>6
<1>8. after[n] \in G
  <2> HIDE DEF n
  <2> QED BY <1>1, <1>6, <1>7, LoopIn
<1> QED BY <1>5, <1>8

\* sync_with_chain leaves a view of the new chain layer, layered and grounded.
LEMMA SyncedIs ==
  ASSUME NEW S, NEW v, v.applied \in Seq(Tx)
  PROVE  LET w == Synced(v, S) IN w \in ViewsOn(S) /\ Layered(w) /\ Grounded(w)
<1> DEFINE G == {w \in ViewsOn(S) : Layered(w) /\ Grounded(w)}
<1>1. NewView(S) \in G
  BY NewViewIs
<1>2. \A w \in G, t \in Tx : Reapplied(w, t) \in G
  BY ReappliedIs
<1>3. Synced(v, S) \in G
  <2> HIDE DEF G
  <2> QED BY <1>1, <1>2, SyncedIn
<1> QED BY <1>3

\* RemoveFirst on a sequence that has the element once.
LEMMA RemoveFirstIs ==
  ASSUME NEW S, NEW s \in Seq(S), NEW e \in ToSet(s)
  PROVE  \E k \in 1 .. Len(s) : s[k] = e /\ RemoveFirst(s, e) = RemoveAt(s, k)
<1> DEFINE I == {i \in 1 .. Len(s) : s[i] = e}
<1>1. ToSet(s) = {s[i] : i \in 1 .. Len(s)}
  BY ToSetIs
<1>2. I \in SUBSET Nat /\ I # {}
  BY <1>1
<1>3. Min(I) \in I
  <2> HIDE DEF I
  <2> QED BY <1>2, MinIs
<1>4. RemoveFirst(s, e) = RemoveAt(s, Min(I))
  BY <1>2 DEF RemoveFirst, SelectInSeq
<1> HIDE DEF I
<1>5. Min(I) \in 1 .. Len(s) /\ s[Min(I)] = e
  BY <1>3 DEF I
<1> QED BY <1>4, <1>5

\* revert_on_conflict keeps the local layers in step with the local transactions.
LEMMA RevertedLayered ==
  ASSUME NEW S, NEW v \in ViewsOn(S), Layered(v), NEW t \in ToSet(v.applied)
  PROVE  Reverted(v, t) \in ViewsOn(S) /\ Layered(Reverted(v, t))
<1> DEFINE a == v.applied
           b == RemoveFirst(a, t)
           w == Reverted(v, t)
           n == Len(a)
<1>1. a \in Seq(Tx) /\ n \in Nat /\ ToSet(a) = {a[i] : i \in 1 .. n}
  BY ToSetIs DEF ViewsOn
<1>2. PICK k \in 1 .. n : a[k] = t /\ b = RemoveAt(a, k)
  <2> HIDE DEF a
  <2> QED BY <1>1, RemoveFirstIs DEF a
<1>3. w = [chain |-> S, spent |-> v.spent \ Ins(t),
           created |-> v.created \ OutpointsOf(t), applied |-> b]
  BY DEF Reverted, ViewsOn
<1>4. /\ v.spent = UNION {Ins(u) : u \in ToSet(a)}
      /\ v.created = UNION {OutpointsOf(u) : u \in ToSet(a)}
      /\ \A i, j \in 1 .. n : i # j => a[i] # a[j] /\ Ins(a[i]) \cap Ins(a[j]) = {}
  BY DEF Layered
<1>5. /\ v.spent \subseteq UNION {Ins(u) : u \in Tx}
      /\ v.created \subseteq UNION {OutpointsOf(u) : u \in Tx}
  BY DEF ViewsOn
<1> HIDE DEF a, b, w
<1>6. /\ b \in Seq(Tx) /\ Len(b) = n - 1
      /\ \A i \in 1 .. n - 1 : b[i] = IF i < k THEN a[i] ELSE a[i + 1]
  BY <1>1, <1>2, RemoveAtIs
<1>7. ToSet(b) = {b[i] : i \in 1 .. n - 1}
  BY <1>6, ToSetIs
<1>8. \A i \in 1 .. n - 1 : \E m \in 1 .. n \ {k} : b[i] = a[m] /\ m = IF i < k THEN i ELSE i + 1
  BY <1>1, <1>6
<1>9. ToSet(b) = ToSet(a) \ {t}
  <2>1. ASSUME NEW u \in ToSet(b) PROVE u \in ToSet(a) \ {t}
    <3>1. PICK i \in 1 .. n - 1 : u = b[i]  BY <1>7
    <3>2. PICK m \in 1 .. n \ {k} : u = a[m]  BY <1>8, <3>1
    <3> QED BY <1>1, <1>2, <1>4, <3>2
  <2>2. ASSUME NEW u \in ToSet(a) \ {t} PROVE u \in ToSet(b)
    <3>1. PICK m \in 1 .. n : u = a[m]  BY <1>1
    <3>2. m # k  BY <1>2, <3>1
    <3>3. CASE m < k
      <4>1. m \in 1 .. n - 1  BY <1>1, <3>3
      <4>2. b[m] = a[m]  BY <1>6, <3>3, <4>1
      <4> QED BY <1>7, <3>1, <4>1, <4>2
    <3>4. CASE ~ (m < k)
      <4>1. m - 1 \in 1 .. n - 1 /\ ~ (m - 1 < k) /\ (m - 1) + 1 = m  BY <1>1, <3>2, <3>4
      <4>2. b[m - 1] = a[m]  BY <1>6, <4>1
      <4> QED BY <1>7, <3>1, <4>1, <4>2
    <3> QED BY <3>3, <3>4
  <2> QED BY <2>1, <2>2
<1>10. \A u \in ToSet(a) \ {t} : Ins(u) \cap Ins(t) = {} /\ OutpointsOf(u) \cap OutpointsOf(t) = {}
  <2> SUFFICES ASSUME NEW u \in ToSet(a) \ {t}
               PROVE  Ins(u) \cap Ins(t) = {} /\ OutpointsOf(u) \cap OutpointsOf(t) = {}
    OBVIOUS
  <2>1. PICK m \in 1 .. n : u = a[m]  BY <1>1
  <2>2. Ins(u) \cap Ins(t) = {}  BY <1>2, <1>4, <2>1
  <2>3. OutpointsOf(u) \cap OutpointsOf(t) = {}  BY DEF OutpointsOf
  <2> QED BY <2>2, <2>3
<1>11. t \in ToSet(a)
  BY DEF a
<1>12. w.spent = UNION {Ins(u) : u \in ToSet(b)}
  <2>1. w.spent = (UNION {Ins(u) : u \in ToSet(a)}) \ Ins(t)  BY <1>3, <1>4
  <2>2. (UNION {Ins(u) : u \in ToSet(a)}) \ Ins(t) = UNION {Ins(u) : u \in ToSet(a) \ {t}}
    BY <1>10, <1>11
  <2> QED BY <1>9, <2>1, <2>2
<1>13. w.created = UNION {OutpointsOf(u) : u \in ToSet(b)}
  <2>1. w.created = (UNION {OutpointsOf(u) : u \in ToSet(a)}) \ OutpointsOf(t)  BY <1>3, <1>4
  <2>2. (UNION {OutpointsOf(u) : u \in ToSet(a)}) \ OutpointsOf(t)
          = UNION {OutpointsOf(u) : u \in ToSet(a) \ {t}}
    BY <1>10, <1>11
  <2> QED BY <1>9, <2>1, <2>2
<1>14. \A i, j \in 1 .. n - 1 : i # j => b[i] # b[j] /\ Ins(b[i]) \cap Ins(b[j]) = {}
  <2> SUFFICES ASSUME NEW i \in 1 .. n - 1, NEW j \in 1 .. n - 1, i # j
               PROVE  b[i] # b[j] /\ Ins(b[i]) \cap Ins(b[j]) = {}
    OBVIOUS
  <2>1. PICK p \in 1 .. n : b[i] = a[p] /\ p = IF i < k THEN i ELSE i + 1  BY <1>8
  <2>2. PICK q \in 1 .. n : b[j] = a[q] /\ q = IF j < k THEN j ELSE j + 1  BY <1>8
  <2>3. p # q  BY <1>1, <2>1, <2>2
  <2> QED BY <1>4, <2>1, <2>2, <2>3
<1>15. w \in ViewsOn(S)
  BY <1>3, <1>5, <1>6 DEF ViewsOn
<1>16. Layered(w)
  <2>1. w.applied = b /\ Len(b) = n - 1  BY <1>3, <1>6
  <2> QED BY <1>12, <1>13, <1>14, <2>1 DEF Layered
<1> QED BY <1>15, <1>16 DEF w

-----------------------------------------------------------------------------
\* The inductive invariant: the view is one, and layered.
ViewInv == view \in ViewsOn(view.chain) /\ Layered(view)

\* Any of the actions that write the view.
LEMMA ViewStep ==
  ASSUME ViewInv, [Next]_vars
  PROVE  ViewInv' /\ (view'.chain # view.chain => Grounded(view'))
<1> DEFINE Held(v) == v \in ViewsOn(v.chain) /\ Layered(v)
<1>1. view \in ViewsOn(view.chain) /\ Layered(view) /\ view.applied \in Seq(Tx)
  BY DEF ViewInv, ViewsOn
<1>2. \A S, v : v \in ViewsOn(S) => v.chain = S /\ v \in ViewsOn(v.chain) /\ v.applied \in Seq(Tx)
  BY DEF ViewsOn
<1>3. SUFFICES (view' = view) \/ (Held(view') /\ (view'.chain # view.chain => Grounded(view')))
  BY <1>1 DEF ViewInv
<1>4. ASSUME NEW t \in Own, Pay(t) PROVE Held(view') /\ view'.chain = view.chain
  <2>1. t \in Tx /\ CanApply(view, t) /\ view' = Applied(view, t)
    BY <1>4, OfflineAssumption DEF Pay
  <2>2. view' \in ViewsOn(view.chain) /\ Layered(view')
    BY <1>1, <2>1, AppliedLayered
  <2> QED BY <1>2, <2>2
<1>5. ASSUME NEW t \in Own, Revert(t) PROVE Held(view') /\ view'.chain = view.chain
  <2>1. t \in ToSet(view.applied) /\ view' = Reverted(view, t)
    BY <1>5 DEF Revert
  <2>2. view' \in ViewsOn(view.chain) /\ Layered(view')
    BY <1>1, <2>1, RevertedLayered
  <2> QED BY <1>2, <2>2
<1>6. ASSUME NEW v, NEW S, v.applied \in Seq(Tx), view' = Synced(v, S)
      PROVE  Held(view') /\ Grounded(view')
  <2>1. view' \in ViewsOn(S) /\ Layered(view') /\ Grounded(view')
    BY <1>6, SyncedIs
  <2> QED BY <1>2, <2>1
<1>7. CASE Restart
  <2>1. view' = NewView({})  BY <1>7 DEF Restart
  <2>2. view' \in ViewsOn({}) /\ Layered(view') /\ Grounded(view')  BY <2>1, NewViewIs
  <2> QED BY <1>2, <2>2
<1>8. ASSUME NEW to, Download(to), view' # view PROVE Held(view') /\ Grounded(view')
  <2>1. \E S : view' = Synced(view, S)  BY <1>8 DEF Download
  <2> QED BY <1>1, <1>6, <2>1
<1>9. CASE Snapshot
  <2>1. \E S, U : view' = Synced(Synced(view, S), U)  BY <1>9 DEF Snapshot
  <2>2. PICK S, U : view' = Synced(Synced(view, S), U)  BY <2>1
  <2>3. Synced(view, S).applied \in Seq(Tx)  BY <1>1, <1>2, SyncedIs
  <2> QED BY <1>6, <2>2, <2>3
<1>10. ASSUME NEW t, Confirm(t) \/ Purge(t) \/ Submit(t) PROVE view' = view
  BY <1>10 DEF Confirm, Purge, Submit, device
<1>11. CASE \/ StartSync \/ Filter \/ Deliver \/ Conclude \/ Interrupt
            \/ FilterFails \/ Retry \/ Mine \/ MineEmpty \/ UNCHANGED vars
  BY <1>11 DEF StartSync, Filter, Deliver, Conclude, Interrupt, FilterFails, Retry,
               Mine, MineEmpty, vars, device
<1> HIDE DEF Held
<1> QED
  BY <1>4, <1>5, <1>7, <1>8, <1>9, <1>10, <1>11 DEF Next, SyncStep

LEMMA ViewInit == Init => ViewInv
BY NewViewIs DEF Init, ViewInv, NewView

(***************************************************************************)
(* Whatever is paid, reverted and synchronised in whatever order, the      *)
(* local layers are those of the local transactions, and no two of them    *)
(* spend the same output.                                                  *)
(***************************************************************************)
THEOREM LayersMatch == Spec => []LayersMatchApplied
<1>1. ViewInv /\ [Next]_vars => ViewInv'
  BY ViewStep
<1>2. ViewInv => LayersMatchApplied
  BY DEF ViewInv, LayersMatchApplied
<1> QED BY ViewInit, <1>1, <1>2, PTL DEF Spec

(***************************************************************************)
(* When a synchronisation replaces the chain layer, every local            *)
(* transaction that stays rests on that layer or on one before it.         *)
(***************************************************************************)
THEOREM SyncIsGrounded == Spec => SyncGrounds
<1>1. ViewInv /\ [Next]_vars => ViewInv'
  BY ViewStep
<1>2. ViewInv /\ [Next]_vars => [view'.chain # view.chain => Grounded(view')]_vars
  BY ViewStep
<1> QED BY ViewInit, <1>1, <1>2, PTL DEF Spec, SyncGrounds

-----------------------------------------------------------------------------
SyncFields == {"pc", "common", "to", "todo", "valid", "reported", "attempt", "answer"}

(***************************************************************************)
(* The inductive invariant for the rows: an answer of acceptance that is   *)
(* still to be written is already true of the network.                     *)
(***************************************************************************)
Blocks == \E S : blocks \in Seq(S)

RowsInv ==
  /\ Blocks
  /\ IsFiniteSet(peerPool)
  /\ rows \in [DOMAIN rows -> [status : Statuses, seq : Nat]]
  /\ seqCounter \in Nat
  /\ DOMAIN sync = SyncFields
  /\ sync.pc # "submit" => sync.answer = "none"
  /\ sync.answer = "accepted" => OnNetwork(Head(sync.todo))
  /\ PendingIsOnNetwork

LEMMA RowsInit == Init => RowsInv
<1>1. Init => Blocks
  <2>1. <<<<Alloc>>>> \in Seq({<<Alloc>>})  OBVIOUS
  <2> QED BY <2>1 DEF Init, Blocks
<1> QED
  BY <1>1, FS_EmptySet DEF Init, RowsInv, Idle, SyncFields, PendingIsOnNetwork, Statuses

\* A finite set as a list is a list of its elements.
LEMMA SetToSeqIs ==
  ASSUME NEW S, IsFiniteSet(S)
  PROVE  ToSet(SetToSeq(S)) = S
<1> DEFINE n == Cardinality(S)
           f == SetToSeq(S)
<1>1. n \in Nat /\ ExistsBijection(1 .. n, S)
  BY FS_CardinalityType
<1>2. \E g \in [1 .. n -> S] : IsInjective(g)
  BY <1>1 DEF ExistsBijection, Bijection, Injection
<1>3. f \in [1 .. n -> S] /\ IsInjective(f)
  BY <1>2 DEF SetToSeq
<1>4. f \in Injection(1 .. n, S)
  BY <1>3 DEF Injection
<1>5. IsFiniteSet(1 .. n) /\ Cardinality(1 .. n) = n
  BY <1>1, FS_Interval
<1>6. f \in Surjection(1 .. n, S)
  <2> HIDE DEF f
  <2> QED BY <1>4, <1>5, FS_Injection
<1> HIDE DEF f
<1>7. ToSet(f) = {f[i] : i \in 1 .. n}
  BY <1>3 DEF ToSet
<1>8. QED
  BY <1>3, <1>6, <1>7 DEF Surjection, f

\* The chain only grows, and a transaction leaves the pool for a block.
LEMMA NetworkGrows ==
  ASSUME Blocks, IsFiniteSet(peerPool), [Next]_vars
  PROVE  Blocks' /\ IsFiniteSet(peerPool') /\ \A t : OnNetwork(t) => OnNetwork(t)'
<1> DEFINE Still == blocks' = blocks /\ peerPool \subseteq peerPool' /\ IsFiniteSet(peerPool')
<1>1. ASSUME NEW b, blocks' = Append(blocks, b), \A t \in peerPool \ peerPool' : t \in ToSet(b)
      PROVE  Blocks' /\ \A t : OnNetwork(t) => OnNetwork(t)'
  <2>1. PICK S : blocks \in Seq(S)
    BY DEF Blocks
  <2>2. blocks \in Seq(S \cup {b}) /\ b \in S \cup {b}
    BY <2>1
  <2>3. /\ blocks' \in Seq(S \cup {b}) /\ Len(blocks) \in Nat
        /\ Len(blocks') = Len(blocks) + 1 /\ blocks'[Len(blocks) + 1] = b
        /\ \A i \in 1 .. Len(blocks) : blocks'[i] = blocks[i]
    BY <1>1, <2>2, AppendIs
  <2>4. 1 .. Len(blocks) \subseteq 1 .. Len(blocks') /\ Len(blocks) + 1 \in 1 .. Len(blocks')
    BY <2>3
  <2>5. ASSUME NEW t, OnNetwork(t) PROVE OnNetwork(t)'
    <3>1. CASE OnChain(t)
      BY <3>1, <2>3, <2>4 DEF OnNetwork, OnChain
    <3>2. CASE t \in peerPool
      BY <3>2, <1>1, <2>3, <2>4 DEF OnNetwork, OnChain
    <3> QED BY <2>5, <3>1, <3>2 DEF OnNetwork
  <2> QED BY <2>3, <2>5 DEF Blocks
<1>2. ASSUME Still
      PROVE  Blocks' /\ IsFiniteSet(peerPool') /\ \A t : OnNetwork(t) => OnNetwork(t)'
  BY <1>2 DEF Blocks, OnNetwork, OnChain
<1>3. ASSUME Mine
      PROVE  Blocks' /\ IsFiniteSet(peerPool') /\ \A t : OnNetwork(t) => OnNetwork(t)'
  <2>1. blocks' = Append(blocks, SetToSeq(peerPool)) /\ peerPool' = {}
    BY <1>3 DEF Mine
  <2>2. ToSet(SetToSeq(peerPool)) = peerPool
    BY SetToSeqIs
  <2> QED BY <1>1, <2>1, <2>2, FS_EmptySet
<1>4. ASSUME MineEmpty
      PROVE  Blocks' /\ IsFiniteSet(peerPool') /\ \A t : OnNetwork(t) => OnNetwork(t)'
  <2>1. blocks' = Append(blocks, <<>>) /\ peerPool' = peerPool
    BY <1>4 DEF MineEmpty
  <2> QED BY <1>1, <2>1
<1>5. ASSUME NEW t, Submit(t) PROVE Still
  BY <1>5, FS_AddElement DEF Submit
<1>6. ASSUME Deliver PROVE Still
  <2>1. IsFiniteSet(peerPool \cup {Head(sync.todo)})
    BY FS_AddElement
  <2> QED BY <1>6, <2>1 DEF Deliver
<1>7. ASSUME NEW t, Pay(t) \/ Revert(t) \/ Confirm(t) \/ Purge(t) PROVE Still
  BY <1>7 DEF Pay, Revert, Confirm, Purge, peer
<1>8. ASSUME NEW to, Download(to) PROVE Still
  BY <1>8 DEF Download, peer
<1>9. ASSUME \/ Restart \/ StartSync \/ Snapshot \/ Filter \/ Conclude \/ Interrupt
             \/ FilterFails \/ Retry \/ UNCHANGED vars
      PROVE Still
  BY <1>9 DEF Restart, StartSync, Snapshot, Filter, Conclude, Interrupt, FilterFails, Retry,
              vars, peer
<1> HIDE DEF Still
<1> QED
  BY <1>2, <1>3, <1>4, <1>5, <1>6, <1>7, <1>8, <1>9 DEF Next, SyncStep

\* A step that leaves the rows and gives no new answer.
LEMMA QuietStep ==
  ASSUME RowsInv, [Next]_vars, UNCHANGED rows, seqCounter' \in Nat,
         DOMAIN sync' = SyncFields,
         sync'.answer = "none" \/ (sync'.pc = sync.pc /\ sync'.answer = sync.answer /\ sync'.todo = sync.todo)
  PROVE  RowsInv'
<1>1. Blocks' /\ IsFiniteSet(peerPool') /\ \A t : OnNetwork(t) => OnNetwork(t)'
  BY NetworkGrows DEF RowsInv
<1>2. sync'.pc # "submit" => sync'.answer = "none"
  BY DEF RowsInv
<1>3. (sync.answer = "accepted" => OnNetwork(Head(sync.todo)))'
  BY <1>1 DEF RowsInv, OnNetwork, OnChain
<1>4. PendingIsOnNetwork'
  BY <1>1 DEF RowsInv, PendingIsOnNetwork, OnNetwork, OnChain
<1> QED BY <1>1, <1>2, <1>3, <1>4 DEF RowsInv

\* A step that writes rows which the network bears out, and touches no answer.
LEMMA RowsStep ==
  ASSUME RowsInv, [Next]_vars, UNCHANGED sync, seqCounter' \in Nat,
         rows' \in [DOMAIN rows' -> [status : Statuses, seq : Nat]],
         \A t \in DOMAIN rows' : rows'[t].status = "PENDING_NETWORK" =>
            t \in DOMAIN rows /\ rows[t].status = "PENDING_NETWORK"
  PROVE  RowsInv'
<1>1. Blocks' /\ IsFiniteSet(peerPool') /\ \A t : OnNetwork(t) => OnNetwork(t)'
  BY NetworkGrows DEF RowsInv
<1>2. PendingIsOnNetwork'
  BY <1>1 DEF RowsInv, PendingIsOnNetwork, OnNetwork, OnChain
<1>3. (sync.answer = "accepted" => OnNetwork(Head(sync.todo)))'
  BY <1>1 DEF RowsInv, OnNetwork, OnChain
<1> QED BY <1>1, <1>2, <1>3 DEF RowsInv

\* What the helpers of sync_with_peer leave in `sync`.
LEMMA QuietSync ==
  ASSUME NEW s, DOMAIN s = SyncFields, s.answer = "none",
         BeginSubmit(s) \/ Filtered(s) \/ (\E r : Return(s, r))
  PROVE  DOMAIN sync' = SyncFields /\ sync'.answer = "none"
<1>1. DOMAIN Idle = SyncFields /\ Idle.answer = "none"
  BY DEF Idle, SyncFields
<1>2. \A r : Return(s, r) => sync' = Idle
  BY DEF Return
<1>3. ASSUME BeginSubmit(s) PROVE DOMAIN sync' = SyncFields /\ sync'.answer = "none"
  <2>1. sync' = Idle \/ \E o : sync' = [s EXCEPT !.pc = "filter", !.todo = o]
    BY <1>2, <1>3 DEF BeginSubmit
  <2> QED BY <1>1, <2>1 DEF SyncFields
<1>4. ASSUME Filtered(s) PROVE DOMAIN sync' = SyncFields /\ sync'.answer = "none"
  <2>1. sync' = Idle \/ sync' = s \/ sync' = [s EXCEPT !.pc = "submit", !.todo = s.valid]
    BY <1>2, <1>4 DEF Filtered
  <2> QED BY <1>1, <2>1 DEF SyncFields
<1> QED BY <1>1, <1>2, <1>3, <1>4

\* The actions of sync_with_peer that write no row and give no answer.
LEMMA QuietSyncStep ==
  ASSUME RowsInv,
         \/ StartSync \/ Snapshot \/ Filter \/ FilterFails \/ Interrupt \/ Restart \/ Retry
         \/ \E to : Download(to)
  PROVE  /\ UNCHANGED rows /\ seqCounter' \in Nat
         /\ DOMAIN sync' = SyncFields /\ sync'.answer = "none"
<1>1. DOMAIN Idle = SyncFields /\ Idle.answer = "none"
  BY DEF Idle, SyncFields
<1>2. DOMAIN sync = SyncFields /\ (sync.pc # "submit" => sync.answer = "none") /\ seqCounter \in Nat
  BY DEF RowsInv
<1>3. CASE StartSync
  <2>1. \E c : sync' = [Idle EXCEPT !.pc = "download", !.common = c]
    BY <1>3 DEF StartSync
  <2> QED BY <1>1, <1>2, <1>3, <2>1 DEF StartSync, SyncFields
<1>4. CASE Snapshot
  <2>1. sync.pc = "snapshot" /\ BeginSubmit(sync) /\ UNCHANGED <<rows, seqCounter>>
    BY <1>4 DEF Snapshot
  <2> QED BY <1>2, <2>1, QuietSync
<1>5. CASE Filter
  <2> DEFINE a == [[sync EXCEPT !.todo = Tail(@)] EXCEPT !.valid = Append(@, Head(sync.todo))]
             b == [[sync EXCEPT !.todo = Tail(@)] EXCEPT !.reported = @ \cup {Head(sync.todo)}]
  <2>1. sync.pc = "filter" /\ (Filtered(a) \/ Filtered(b)) /\ UNCHANGED <<rows, seqCounter>>
    BY <1>5 DEF Filter
  <2>2. /\ DOMAIN a = SyncFields /\ a.answer = sync.answer
        /\ DOMAIN b = SyncFields /\ b.answer = sync.answer
    BY <1>2 DEF SyncFields
  <2> HIDE DEF a, b
  <2> QED BY <1>2, <2>1, <2>2, QuietSync
<1>6. CASE FilterFails
  <2> DEFINE b == [sync EXCEPT !.todo = Tail(@), !.reported = @ \cup {Head(sync.todo)}]
  <2>1. sync.pc = "filter" /\ Filtered(b) /\ UNCHANGED <<rows, seqCounter>>
    BY <1>6 DEF FilterFails
  <2>2. DOMAIN b = SyncFields /\ b.answer = sync.answer
    BY <1>2 DEF SyncFields
  <2> HIDE DEF b
  <2> QED BY <1>2, <2>1, <2>2, QuietSync
<1>7. CASE Interrupt
  BY <1>1, <1>2, <1>7 DEF Interrupt
<1>8. CASE Restart
  BY <1>1, <1>2, <1>8 DEF Restart
<1>9. CASE Retry
  <2>1. sync' = [sync EXCEPT !.attempt = @ + 1, !.answer = "none"] /\ UNCHANGED <<rows, seqCounter>>
    BY <1>9 DEF Retry
  <2> QED BY <1>2, <2>1 DEF SyncFields
<1>10. ASSUME NEW to, Download(to)
       PROVE  /\ UNCHANGED rows /\ seqCounter' \in Nat
              /\ DOMAIN sync' = SyncFields /\ sync'.answer = "none"
  <2> DEFINE a == [sync EXCEPT !.to = to]
  <2>1. /\ sync.pc = "download" /\ UNCHANGED <<rows, seqCounter>>
        /\ \/ BeginSubmit(sync) \/ BeginSubmit(a)
           \/ sync' = [sync EXCEPT !.pc = "snapshot", !.to = to]
    BY <1>10 DEF Download
  <2>2. DOMAIN a = SyncFields /\ a.answer = sync.answer
    BY <1>2 DEF SyncFields
  <2>3. CASE sync' = [sync EXCEPT !.pc = "snapshot", !.to = to]
    BY <1>2, <2>1, <2>3 DEF SyncFields
  <2>4. CASE BeginSubmit(sync) \/ BeginSubmit(a)
    <3> HIDE DEF a
    <3> QED BY <1>2, <2>1, <2>2, <2>4, QuietSync
  <2> QED BY <2>1, <2>3, <2>4
<1> QED BY <1>3, <1>4, <1>5, <1>6, <1>7, <1>8, <1>9, <1>10

\* The answer of acceptance comes with the transaction in the pool.
LEMMA DeliverStep ==
  ASSUME RowsInv, [Next]_vars, Deliver
  PROVE  RowsInv'
<1> DEFINE t == Head(sync.todo)
<1>1. Blocks' /\ IsFiniteSet(peerPool') /\ \A u : OnNetwork(u) => OnNetwork(u)'
  BY NetworkGrows DEF RowsInv
<1>2. DOMAIN sync = SyncFields /\ sync.pc = "submit"
  BY DEF RowsInv, Deliver
<1>3. UNCHANGED <<rows, seqCounter>>
  BY DEF Deliver
<1>4. PICK answer : /\ sync' = [sync EXCEPT !.answer = answer]
                    /\ peerPool' = IF answer = "accepted" THEN peerPool \cup {t} ELSE peerPool
  BY DEF Deliver
<1>5. /\ DOMAIN sync' = SyncFields /\ sync'.pc = "submit" /\ sync'.todo = sync.todo
      /\ sync'.answer = "accepted" => t \in peerPool'
  BY <1>2, <1>4 DEF SyncFields
<1>6. (sync.answer = "accepted" => OnNetwork(Head(sync.todo)))'
  BY <1>5 DEF OnNetwork
<1>7. PendingIsOnNetwork'
  BY <1>1, <1>3 DEF RowsInv, PendingIsOnNetwork, OnNetwork, OnChain
<1> QED BY <1>1, <1>3, <1>5, <1>6, <1>7 DEF RowsInv

\* What is written for an answer is what the answer says.
LEMMA ConcludeStep ==
  ASSUME RowsInv, [Next]_vars, Conclude
  PROVE  RowsInv'
<1> DEFINE t == Head(sync.todo)
           c == Conclusion(sync)
<1>1. Blocks' /\ IsFiniteSet(peerPool') /\ \A u : OnNetwork(u) => OnNetwork(u)'
  BY NetworkGrows DEF RowsInv
<1>2. DOMAIN sync = SyncFields
  BY DEF RowsInv
<1>3. DOMAIN sync' = SyncFields /\ sync'.answer = "none"
  <2>1. \/ sync' = Idle
        \/ \E r : sync' = [sync EXCEPT !.todo = Tail(@), !.reported = r, !.attempt = 0,
                                       !.answer = "none"]
    BY DEF Conclude, Return
  <2>2. CASE sync' = Idle
    BY <2>2 DEF SyncFields, Idle
  <2>3. CASE \E r : sync' = [sync EXCEPT !.todo = Tail(@), !.reported = r, !.attempt = 0,
                                         !.answer = "none"]
    <3>1. PICK r : sync' = [sync EXCEPT !.todo = Tail(@), !.reported = r, !.attempt = 0,
                                        !.answer = "none"]
      BY <2>3
    <3> QED BY <1>2, <3>1 DEF SyncFields
  <2> QED BY <2>1, <2>2, <2>3
<1>4. rows' = WithStatus(rows, t, c) /\ seqCounter' = seqCounter
  BY DEF Conclude
<1>5. rows \in [DOMAIN rows -> [status : Statuses, seq : Nat]] /\ c \in Statuses
  BY DEF RowsInv, Conclusion, Statuses
<1>6. c = "PENDING_NETWORK" => OnNetwork(t)
  BY DEF RowsInv, Conclusion
<1> HIDE DEF t, c
<1>7. /\ DOMAIN rows' = DOMAIN rows
      /\ rows' \in [DOMAIN rows -> [status : Statuses, seq : Nat]]
      /\ \A u \in DOMAIN rows : rows'[u].status = rows[u].status \/ (u = t /\ rows'[u].status = c)
  <2>1. CASE t \in DOMAIN rows
    <3>1. rows' = [rows EXCEPT ![t].status = c]  BY <1>4, <2>1 DEF WithStatus
    <3>2. rows[t] \in [status : Statuses, seq : Nat]  BY <1>5, <2>1
    <3>3. [rows[t] EXCEPT !.status = c] \in [status : Statuses, seq : Nat]
      BY <1>5, <3>2
    <3>4. [rows[t] EXCEPT !.status = c].status = c  BY <3>2
    <3> QED BY <1>5, <3>1, <3>2, <3>3, <3>4
  <2>2. CASE t \notin DOMAIN rows
    BY <1>4, <1>5, <2>2 DEF WithStatus
  <2> QED BY <2>1, <2>2
<1>8. PendingIsOnNetwork'
  <2> SUFFICES ASSUME NEW u \in DOMAIN rows', rows'[u].status = "PENDING_NETWORK"
               PROVE  OnNetwork(u)'
    BY DEF PendingIsOnNetwork, OnNetwork, OnChain
  <2>1. OnNetwork(u)
    BY <1>6, <1>7 DEF RowsInv, PendingIsOnNetwork
  <2> QED BY <1>1, <2>1
<1> QED BY <1>1, <1>3, <1>4, <1>7, <1>8 DEF RowsInv

\* The program's own writes make no row pending.
LEMMA ProgramStep ==
  ASSUME RowsInv, NEW t, Pay(t) \/ Confirm(t) \/ Purge(t)
  PROVE  /\ UNCHANGED sync /\ seqCounter' \in Nat
         /\ rows' \in [DOMAIN rows' -> [status : Statuses, seq : Nat]]
         /\ \A u \in DOMAIN rows' : rows'[u].status = "PENDING_NETWORK" =>
              u \in DOMAIN rows /\ rows[u].status = "PENDING_NETWORK"
<1>1. seqCounter \in Nat /\ rows \in [DOMAIN rows -> [status : Statuses, seq : Nat]]
  BY DEF RowsInv
<1>2. CASE Pay(t)
  <2>1. rows' = Cached(rows, t, seqCounter + 1) /\ seqCounter' = seqCounter + 1 /\ sync' = sync
    BY <1>2 DEF Pay
  <2>2. rows' = [u \in DOMAIN rows \cup {t} |->
                   IF u = t THEN [status |-> "CACHED", seq |-> seqCounter + 1] ELSE rows[u]]
    BY <2>1 DEF Cached
  <2>3. [status |-> "CACHED", seq |-> seqCounter + 1] \in [status : Statuses, seq : Nat]
    BY <1>1 DEF Statuses
  <2> QED BY <1>1, <2>1, <2>2, <2>3
<1>3. CASE Confirm(t)
  <2>1. rows' = [rows EXCEPT ![t].status = "CONFIRMED"] /\ t \in DOMAIN rows
        /\ seqCounter' = seqCounter /\ sync' = sync
    BY <1>3 DEF Confirm, Unsettled, WithStatus
  <2>2. rows[t] \in [status : Statuses, seq : Nat]  BY <1>1, <2>1
  <2>3. /\ [rows[t] EXCEPT !.status = "CONFIRMED"] \in [status : Statuses, seq : Nat]
        /\ [rows[t] EXCEPT !.status = "CONFIRMED"].status = "CONFIRMED"
    BY <2>2 DEF Statuses
  <2> QED BY <1>1, <2>1, <2>2, <2>3
<1>4. CASE Purge(t)
  <2>1. rows' = [u \in DOMAIN rows \ {t} |-> rows[u]] /\ seqCounter' = seqCounter /\ sync' = sync
    BY <1>4 DEF Purge, Purged
  <2> QED BY <1>1, <2>1
<1> QED BY <1>2, <1>3, <1>4

LEMMA RowsInvStep == RowsInv /\ [Next]_vars => RowsInv'
<1> SUFFICES ASSUME RowsInv, [Next]_vars PROVE RowsInv'
  OBVIOUS
<1>1. CASE \/ StartSync \/ Snapshot \/ Filter \/ FilterFails \/ Interrupt \/ Restart \/ Retry
           \/ \E to : Download(to)
  BY <1>1, QuietSyncStep, QuietStep
<1>2. CASE Deliver
  BY <1>2, DeliverStep
<1>3. CASE Conclude
  BY <1>3, ConcludeStep
<1>4. ASSUME NEW t, Pay(t) \/ Confirm(t) \/ Purge(t) PROVE RowsInv'
  BY <1>4, ProgramStep, RowsStep
<1>5. ASSUME UNCHANGED <<rows, seqCounter, sync>> PROVE RowsInv'
  <2>1. DOMAIN sync' = SyncFields /\ seqCounter' \in Nat  BY <1>5 DEF RowsInv
  <2> QED BY <1>5, <2>1, QuietStep
<1>6. ASSUME NEW t, Revert(t) \/ Submit(t) PROVE UNCHANGED <<rows, seqCounter, sync>>
  BY <1>6 DEF Revert, Submit, device
<1>7. ASSUME Mine \/ MineEmpty \/ UNCHANGED vars PROVE UNCHANGED <<rows, seqCounter, sync>>
  BY <1>7 DEF Mine, MineEmpty, vars, device
<1> QED
  BY <1>1, <1>2, <1>3, <1>4, <1>5, <1>6, <1>7 DEF Next, SyncStep

(***************************************************************************)
(* A row only says PENDING_NETWORK of a transaction that the peer has in   *)
(* its pool or in a block, through every loss, retry, purge and restart.   *)
(***************************************************************************)
THEOREM PendingIsReal == Spec => []PendingIsOnNetwork
<1>1. RowsInv => PendingIsOnNetwork
  BY DEF RowsInv
<1> QED BY RowsInit, RowsInvStep, <1>1, PTL DEF Spec
=============================================================================
