--------------------------- MODULE IdentityProofs ---------------------------
(***************************************************************************)
(* What holds of identities, challenges and the node's copy of the         *)
(* parameters for every set of identities, anchors and credentials and     *)
(* however long the node runs.                                             *)
(***************************************************************************)
EXTENDS Identity, SequenceTheorems, TLAPS

USE IdentityAssumption, ParamsAssumption

LEMMA RecordIsIn == None \in Record
BY DEF None, Record, Status

LEMMA HistoryStarts ==
  /\ FirstHistory \in Seq(ParameterRecord) /\ FirstHistory # <<>>
  /\ Latest(FirstHistory) = Genesis
BY DEF FirstHistory, ParameterRecord, Latest, Last

\* A history that an update extends is a history, and ends in the update.
LEMMA HistoryGrows ==
  ASSUME NEW h \in Seq(ParameterRecord), NEW p \in Params, NEW at \in Nat
  PROVE  LET g == Append(h, [height |-> at, params |-> p])
         IN  g \in Seq(ParameterRecord) /\ g # <<>> /\ Latest(g) = p
<1> DEFINE r == [height |-> at, params |-> p]
<1>1. r \in ParameterRecord /\ r.params = p
  BY DEF ParameterRecord
<1> HIDE DEF r
<1>2. /\ Append(h, r) \in Seq(ParameterRecord) /\ Append(h, r) # <<>>
      /\ Len(Append(h, r)) = Len(h) + 1 /\ Append(h, r)[Len(h) + 1] = r
  BY <1>1
<1>3. Latest(Append(h, r)) = p
  BY <1>1, <1>2 DEF Latest, Last
<1> QED BY <1>2, <1>3 DEF r

LEMMA Boots ==
  /\ DOMAIN BootAnchors \subseteq Anchor
  /\ BootAnchors \in [DOMAIN BootAnchors -> [key : Key, status : {"ACTIVE", "REMOVED"}]]
BY DEF BootAnchors

LEMMA InitTyped == Init => TypeOK
<1> SUFFICES ASSUME Init PROVE TypeOK
  OBVIOUS
<1>1. registry \in [Did -> Record]
  BY RecordIsIn DEF Init
<1>2. challenges \subseteq [nonce : Nonce, did : Did, action : Actions, expires : Nat]
  BY DEF Init
<1>3. judged \in [Nonce -> Nat] /\ clock \in 0 .. MaxTime /\ issued \in 0 .. MaxNonce
  BY DEF Init
<1>4. anchors = BootAnchors /\ history = FirstHistory /\ params = Genesis
  BY DEF Init
<1> QED BY <1>1, <1>2, <1>3, <1>4, Boots, HistoryStarts DEF TypeOK

-----------------------------------------------------------------------------
(* The registry after each kind of change to it. *)
LEMMA InsertedTyped ==
  ASSUME registry \in [Did -> Record], NEW d \in Did, NEW vc \in Credential
  PROVE  Inserted(d, {vc}) \in [Did -> Record]
<1>1. [status |-> "PENDING", firstAuth |-> 0, credentials |-> {vc}] \in Record
  BY DEF Record, Status
<1> QED BY <1>1 DEF Inserted

LEMMA StatusTyped ==
  ASSUME registry \in [Did -> Record], NEW d \in Did, NEW s \in Status
  PROVE  [registry EXCEPT ![d].status = s] \in [Did -> Record]
<1>1. [registry[d] EXCEPT !.status = s] \in Record
  BY DEF Record
<1> QED BY <1>1

LEMMA ActivatedTyped ==
  ASSUME registry \in [Did -> Record], NEW d \in Did, NEW h \in 0 .. MaxHeight
  PROVE  [registry EXCEPT ![d].status = "AUTHENTICATED", ![d].firstAuth = h] \in [Did -> Record]
<1>1. [registry[d] EXCEPT !.status = "AUTHENTICATED", !.firstAuth = h] \in Record
  BY DEF Record, Status
<1> QED BY <1>1

LEMMA CredentialTyped ==
  ASSUME registry \in [Did -> Record], NEW d \in Did, NEW vc \in Credential
  PROVE  [registry EXCEPT ![d].credentials = @ \cup {vc}] \in [Did -> Record]
<1>1. [registry[d] EXCEPT !.credentials = @ \cup {vc}] \in Record
  BY DEF Record
<1> QED BY <1>1

LEMMA NextTyped == TypeOK /\ [Next]_vars => TypeOK'
<1> SUFFICES ASSUME TypeOK, [Next]_vars PROVE TypeOK'
  OBVIOUS
<1> USE DEF TypeOK
<1>1. ASSUME NEW a \in Anchor, NEW k \in Key, NEW n \in 0 .. MaxSigs, AddAnchor(a, k, n)
      PROVE TypeOK'
  <2>1. /\ DOMAIN anchors' \subseteq Anchor
        /\ anchors' \in [DOMAIN anchors' -> [key : Key, status : {"ACTIVE", "REMOVED"}]]
    BY <1>1 DEF AddAnchor
  <2> QED BY <1>1, <2>1 DEF AddAnchor
<1>2. ASSUME NEW a \in Anchor, NEW n \in 0 .. MaxSigs, RemoveAnchor(a, n)
      PROVE TypeOK'
  <2>1. [anchors[a] EXCEPT !.status = "REMOVED"] \in [key : Key, status : {"ACTIVE", "REMOVED"}]
    BY <1>2 DEF RemoveAnchor
  <2>2. /\ DOMAIN anchors' \subseteq Anchor
        /\ anchors' \in [DOMAIN anchors' -> [key : Key, status : {"ACTIVE", "REMOVED"}]]
    BY <1>2, <2>1 DEF RemoveAnchor
  <2> QED BY <1>2, <2>2 DEF RemoveAnchor
<1>3. ASSUME NEW d \in Did, NEW action \in Actions, CreateChallenge(d, action)
      PROVE TypeOK'
  <2>1. issued' \in 0 .. MaxNonce /\ issued + 1 \in Nonce
    BY <1>3 DEF CreateChallenge, Nonce
  <2>2. challenges' \subseteq [nonce : Nonce, did : Did, action : Actions, expires : Nat]
    BY <1>3, <2>1 DEF CreateChallenge
  <2> QED BY <1>3, <2>1, <2>2 DEF CreateChallenge
<1>4. ASSUME NEW d \in Did, NEW c \in challenges, NEW good \in BOOLEAN, NEW vc \in Credential,
             RegisterDid(d, c, good, vc)
      PROVE TypeOK'
  <2>1. c.nonce \in Nonce
    OBVIOUS
  <2>2. judged' \in [Nonce -> Nat]
    <3>1. [judged EXCEPT ![c.nonce] = @ + 1] \in [Nonce -> Nat]
      BY <2>1
    <3>2. judged' = [judged EXCEPT ![c.nonce] = @ + 1] \/ judged' = judged
      BY <1>4 DEF RegisterDid
    <3> QED BY <3>1, <3>2
  <2>3. registry' \in [Did -> Record]
    BY <1>4, InsertedTyped DEF RegisterDid
  <2>4. challenges' \subseteq challenges
    BY <1>4 DEF RegisterDid, Consumed
  <2> QED BY <1>4, <2>2, <2>3, <2>4 DEF RegisterDid
<1>5. ASSUME NEW d \in Did, NEW h \in 0 .. MaxHeight, VerifyAndActivate(d, h)
      PROVE TypeOK'
  <2>1. registry' \in [Did -> Record]
    BY <1>5, ActivatedTyped DEF VerifyAndActivate
  <2> QED BY <1>5, <2>1 DEF VerifyAndActivate
<1>6. ASSUME NEW d \in Did, NEW vc \in Credential, RegisterIdentity(d, vc)
      PROVE TypeOK'
  BY <1>6, InsertedTyped DEF RegisterIdentity
<1>7. ASSUME NEW d \in Did, Suspend(d)
      PROVE TypeOK'
  <2>1. registry' \in [Did -> Record]
    BY <1>7, StatusTyped DEF Suspend, Status
  <2> QED BY <1>7, <2>1 DEF Suspend
<1>8. ASSUME NEW d \in Did, Revoke(d)
      PROVE TypeOK'
  <2>1. registry' \in [Did -> Record]
    BY <1>8, StatusTyped DEF Revoke, Status
  <2> QED BY <1>8, <2>1 DEF Revoke
<1>9. ASSUME NEW d \in Did, NEW vc \in Credential, AddCredential(d, vc)
      PROVE TypeOK'
  BY <1>9, CredentialTyped DEF AddCredential
<1>10. ASSUME NEW p \in Params, NEW at \in 1 .. MaxHeight, UpdateParams(p, at)
       PROVE TypeOK'
  <2>1. history' \in Seq(ParameterRecord) /\ history' # <<>>
    BY <1>10, HistoryGrows DEF UpdateParams
  <2> QED BY <1>10, <2>1 DEF UpdateParams
<1>11. CASE Tick
  <2>1. clock' \in 0 .. MaxTime
    BY <1>11 DEF Tick
  <2>2. UNCHANGED <<registry, anchors, challenges, history, params, issued, judged>>
    BY <1>11 DEF Tick
  <2> QED BY <2>1, <2>2
<1>12. CASE Restart
  BY <1>12, Boots, HistoryStarts DEF Restart
<1>13. CASE UNCHANGED vars
  BY <1>13 DEF vars
<1>14. \/ \E a \in Anchor, k \in Key, n \in 0 .. MaxSigs : AddAnchor(a, k, n)
       \/ \E a \in Anchor, n \in 0 .. MaxSigs : RemoveAnchor(a, n)
       \/ \E d \in Did, action \in Actions : CreateChallenge(d, action)
       \/ \E d \in Did, c \in challenges, good \in BOOLEAN, vc \in Credential :
            RegisterDid(d, c, good, vc)
       \/ \E d \in Did, h \in 0 .. MaxHeight : VerifyAndActivate(d, h)
       \/ \E d \in Did, vc \in Credential : RegisterIdentity(d, vc)
       \/ \E d \in Did : Suspend(d)
       \/ \E d \in Did : Revoke(d)
       \/ \E d \in Did, vc \in Credential : AddCredential(d, vc)
       \/ \E p \in Params, at \in 1 .. MaxHeight : UpdateParams(p, at)
       \/ Tick \/ Restart \/ UNCHANGED vars
  BY DEF Next, ActivateIdentity, VerifyIdentity
<1> HIDE DEF TypeOK
<1> QED
  BY <1>1, <1>2, <1>3, <1>4, <1>5, <1>6, <1>7, <1>8, <1>9, <1>10, <1>11, <1>12, <1>13, <1>14

(* The state of the identities, the anchors, the challenges and the        *)
(* parameters keeps its shape.                                             *)
THEOREM IdentityTyped == Spec => []TypeOK
BY InitTyped, NextTyped, PTL DEF Spec

-----------------------------------------------------------------------------
(***************************************************************************)
(* The copy of the parameters: every step leaves both alone or sets both.  *)
(***************************************************************************)
LEMMA CopyStep == TypeOK /\ CopyIsLatest /\ [Next]_vars => CopyIsLatest'
<1> SUFFICES ASSUME TypeOK, CopyIsLatest, [Next]_vars PROVE CopyIsLatest'
  OBVIOUS
<1>1. ASSUME NEW p \in Params, NEW at \in 1 .. MaxHeight, UpdateParams(p, at)
      PROVE CopyIsLatest'
  BY <1>1, HistoryGrows DEF UpdateParams, CopyIsLatest, TypeOK
<1>2. CASE Restart
  BY <1>2, HistoryStarts DEF Restart, CopyIsLatest
<1>3. CASE UNCHANGED <<history, params>>
  BY <1>3 DEF CopyIsLatest
<1>4. \/ \E p \in Params, at \in 1 .. MaxHeight : UpdateParams(p, at)
      \/ Restart
      \/ UNCHANGED <<history, params>>
  BY DEF Next, vars, AddAnchor, RemoveAnchor, CreateChallenge, RegisterDid, ActivateIdentity,
         VerifyIdentity, VerifyAndActivate, RegisterIdentity, Suspend, Revoke, AddCredential, Tick
<1> QED BY <1>1, <1>2, <1>3, <1>4

(* An activation is asked for as many signatures as the latest accepted    *)
(* parameters say, whatever updates failed and however often the node was  *)
(* restarted (node.py update_governance_params, _wire_app_state).          *)
THEOREM CopyIsLatestHolds == Spec => []CopyIsLatest
<1>1. Init => CopyIsLatest
  BY HistoryStarts DEF Init, CopyIsLatest
<1> QED BY <1>1, InitTyped, NextTyped, CopyStep, PTL DEF Spec

-----------------------------------------------------------------------------
(***************************************************************************)
(* A challenge that is open has not been judged, no two have a nonce in    *)
(* common, and nonces not yet drawn are unjudged.                          *)
(***************************************************************************)
OpenIsFresh ==
  /\ \A c \in challenges : c.nonce <= issued /\ judged[c.nonce] = 0
  /\ \A c, e \in challenges : c.nonce = e.nonce => c = e
  /\ \A n \in Nonce : n > issued => judged[n] = 0

JudgeInv == OpenIsFresh /\ JudgedOnce

LEMMA JudgeStep == TypeOK /\ JudgeInv /\ [Next]_vars => JudgeInv'
<1> SUFFICES ASSUME TypeOK, JudgeInv, [Next]_vars PROVE JudgeInv'
  OBVIOUS
<1> USE DEF JudgeInv
<1>0. /\ challenges \subseteq [nonce : Nonce, did : Did, action : Actions, expires : Nat]
      /\ judged \in [Nonce -> Nat] /\ issued \in 0 .. MaxNonce
  BY DEF TypeOK
<1>1. ASSUME NEW d \in Did, NEW action \in Actions, CreateChallenge(d, action)
      PROVE JudgeInv'
  <2> DEFINE new == [nonce |-> issued + 1, did |-> d, action |-> action,
                     expires |-> clock + Lifetime]
  <2>1. /\ issued' = issued + 1 /\ challenges' = challenges \cup {new} /\ judged' = judged
        /\ issued + 1 \in Nonce /\ new.nonce = issued + 1
    BY <1>0, <1>1 DEF CreateChallenge, Nonce
  <2> HIDE DEF new
  <2>2. judged[issued + 1] = 0
    BY <2>1, <1>0 DEF OpenIsFresh
  <2>3. \A c \in challenges : c.nonce \in Nonce /\ c.nonce <= issued
    BY <1>0 DEF OpenIsFresh
  <2>4. \A c \in challenges' : c.nonce <= issued' /\ judged'[c.nonce] = 0
    BY <2>1, <2>2, <2>3, <1>0 DEF OpenIsFresh, Nonce
  <2>5. \A c, e \in challenges' : c.nonce = e.nonce => c = e
    BY <2>1, <2>3, <1>0 DEF OpenIsFresh, Nonce
  <2>6. \A n \in Nonce : n > issued' => judged'[n] = 0
    BY <2>1, <1>0 DEF OpenIsFresh, Nonce
  <2> QED BY <2>1, <2>4, <2>5, <2>6 DEF OpenIsFresh, JudgedOnce
<1>2. ASSUME NEW d \in Did, NEW c \in challenges, NEW good \in BOOLEAN, NEW vc \in Credential,
             RegisterDid(d, c, good, vc)
      PROVE JudgeInv'
  <2>1. /\ challenges' = challenges \ {c} /\ issued' = issued
        /\ judged' = judged \/ judged' = [judged EXCEPT ![c.nonce] = @ + 1]
    BY <1>2 DEF RegisterDid, Consumed
  <2>2. c.nonce \in Nonce /\ c.nonce <= issued /\ judged[c.nonce] = 0
    BY <1>0 DEF OpenIsFresh
  <2>3. /\ \A n \in Nonce : n # c.nonce => judged'[n] = judged[n]
        /\ judged'[c.nonce] \in {0, 1}
    BY <2>1, <2>2, <1>0
  <2>4. \A e \in challenges' : e.nonce \in Nonce /\ e.nonce # c.nonce
    BY <2>1, <1>0 DEF OpenIsFresh
  <2>5. \A e \in challenges' : e.nonce <= issued' /\ judged'[e.nonce] = 0
    BY <2>1, <2>3, <2>4 DEF OpenIsFresh
  <2>6. \A n \in Nonce : n > issued' => judged'[n] = 0
    BY <2>1, <2>2, <2>3, <1>0 DEF OpenIsFresh, Nonce
  <2>7. \A n \in Nonce : judged'[n] <= 1
    BY <2>2, <2>3, <1>0 DEF JudgedOnce
  <2> QED BY <2>1, <2>5, <2>6, <2>7 DEF OpenIsFresh, JudgedOnce
<1>3. CASE Restart
  BY <1>3 DEF Restart, OpenIsFresh, JudgedOnce
<1>4. CASE UNCHANGED <<challenges, issued, judged>>
  BY <1>4 DEF OpenIsFresh, JudgedOnce
<1>5. \/ \E d \in Did, action \in Actions : CreateChallenge(d, action)
      \/ \E d \in Did, c \in challenges, good \in BOOLEAN, vc \in Credential :
           RegisterDid(d, c, good, vc)
      \/ Restart
      \/ UNCHANGED <<challenges, issued, judged>>
  BY DEF Next, vars, AddAnchor, RemoveAnchor, ActivateIdentity, VerifyIdentity,
         VerifyAndActivate, RegisterIdentity, Suspend, Revoke, AddCredential, UpdateParams, Tick
<1> QED BY <1>1, <1>2, <1>3, <1>4, <1>5

(* No signature over a challenge is judged twice, whatever is retried and  *)
(* however often the node was restarted (rest_server.py                    *)
(* _consume_identity_challenge).                                           *)
THEOREM JudgedOnceHolds == Spec => []JudgedOnce
<1>1. Init => JudgeInv
  BY DEF Init, JudgeInv, OpenIsFresh, JudgedOnce
<1>2. JudgeInv => JudgedOnce
  BY DEF JudgeInv
<1> QED BY <1>1, <1>2, InitTyped, NextTyped, JudgeStep, PTL DEF Spec

-----------------------------------------------------------------------------
(***************************************************************************)
(* An identity not yet activated has no activation height.                 *)
(***************************************************************************)
NotYetActivated ==
  \A d \in Did : registry[d].status \in {"UNAUTHENTICATED", "PENDING"} => registry[d].firstAuth = 0

Sinks(old, new) ==
  /\ old.status = "REVOKED" => new.status = "REVOKED"
  /\ old.status = "SUSPENDED" => new.status \in {"SUSPENDED", "REVOKED"}
  /\ old.status \in Known \ {"PENDING"} => new.status \in Known \ {"PENDING"}
  /\ old.status \in Known \ {"PENDING"} => new.firstAuth = old.firstAuth
  /\ new.status \in {"UNAUTHENTICATED", "PENDING"} => new.firstAuth = 0

LEMMA EachSinks ==
  ASSUME TypeOK, NotYetActivated, [Next]_vars, NEW e \in Did
  PROVE  Sinks(registry[e], registry'[e])
<1>1. registry \in [Did -> Record]
  BY DEF TypeOK
<1>2. registry[e].status \in {"UNAUTHENTICATED", "PENDING"} => registry[e].firstAuth = 0
  BY DEF NotYetActivated
<1>3. ASSUME NEW d \in Did, NEW vc \in Credential, registry' = Inserted(d, {vc})
      PROVE Sinks(registry[e], registry'[e])
  BY <1>1, <1>2, <1>3 DEF Inserted, Registered, Known, Status, Sinks, Record
<1>4. ASSUME NEW d \in Did, NEW h \in 0 .. MaxHeight, VerifyAndActivate(d, h)
      PROVE Sinks(registry[e], registry'[e])
  BY <1>1, <1>2, <1>4 DEF VerifyAndActivate, Activatable, Sinks, Record
<1>5. ASSUME NEW d \in Did, Suspend(d)
      PROVE Sinks(registry[e], registry'[e])
  BY <1>1, <1>2, <1>5 DEF Suspend, Registered, Known, Status, Sinks, Record
<1>6. ASSUME NEW d \in Did, Revoke(d)
      PROVE Sinks(registry[e], registry'[e])
  BY <1>1, <1>2, <1>6 DEF Revoke, Registered, Known, Status, Sinks, Record
<1>7. ASSUME NEW d \in Did, NEW vc \in Credential, AddCredential(d, vc)
      PROVE Sinks(registry[e], registry'[e])
  BY <1>1, <1>2, <1>7 DEF AddCredential, Sinks, Record
<1>8. CASE UNCHANGED registry
  BY <1>2, <1>8 DEF Sinks
<1>9. \/ \E d \in Did, vc \in Credential : registry' = Inserted(d, {vc})
      \/ \E d \in Did, h \in 0 .. MaxHeight : VerifyAndActivate(d, h)
      \/ \E d \in Did : Suspend(d)
      \/ \E d \in Did : Revoke(d)
      \/ \E d \in Did, vc \in Credential : AddCredential(d, vc)
      \/ UNCHANGED registry
  BY DEF Next, vars, AddAnchor, RemoveAnchor, CreateChallenge, RegisterDid, ActivateIdentity,
         VerifyIdentity, RegisterIdentity, UpdateParams, Tick, Restart
<1> QED BY <1>3, <1>4, <1>5, <1>6, <1>7, <1>8, <1>9

(* An identity becomes authenticated at most once: what it was before      *)
(* PENDING ended never comes back, its activation height is never set      *)
(* anew, and revocation is final (registry.py, node.py, rest_server.py).   *)
THEOREM AuthenticatedOnceHolds == Spec => AuthenticatedOnce
<1>1. Init => NotYetActivated
  BY DEF Init, NotYetActivated, None
<1>2. TypeOK /\ NotYetActivated /\ [Next]_vars => NotYetActivated'
  BY EachSinks DEF Sinks, NotYetActivated
<1>3. TypeOK /\ NotYetActivated /\ [Next]_vars =>
        [\A d \in Did :
           LET old == registry[d]  new == registry'[d]
           IN  /\ old.status = "REVOKED" => new.status = "REVOKED"
               /\ old.status \in Known \ {"PENDING"} => new.status \in Known \ {"PENDING"}
               /\ old.status \in Known \ {"PENDING"} => new.firstAuth = old.firstAuth]_vars
  BY EachSinks DEF Sinks
<1> QED BY <1>1, <1>2, <1>3, InitTyped, NextTyped, PTL DEF Spec, AuthenticatedOnce

(* What the flowchart draws as a step back to AUTHENTICATED is not there:  *)
(* a suspended identity stays so until it is revoked.                      *)
THEOREM SuspensionIsNotLifted ==
  Spec => [][\A d \in Did : registry[d].status = "SUSPENDED" =>
               registry'[d].status \in {"SUSPENDED", "REVOKED"}]_vars
<1>1. Init => NotYetActivated
  BY DEF Init, NotYetActivated, None
<1>2. TypeOK /\ NotYetActivated /\ [Next]_vars => NotYetActivated'
  BY EachSinks DEF Sinks, NotYetActivated
<1>3. TypeOK /\ NotYetActivated /\ [Next]_vars =>
        [\A d \in Did : registry[d].status = "SUSPENDED" =>
           registry'[d].status \in {"SUSPENDED", "REVOKED"}]_vars
  BY EachSinks DEF Sinks
<1> QED BY <1>1, <1>2, <1>3, InitTyped, NextTyped, PTL DEF Spec

(* The two ways to ask for a permission agree, save for an identity that   *)
(* was activated at height 0 (auth.py).                                    *)
THEOREM PermissionsAgreeHolds == Spec => []PermissionsAgree
<1>1. ASSUME TypeOK, NEW d \in Did, NEW p \in Permission
      PROVE  \/ CheckPermission(d, p) <=> p \in EffectivePermissions(d)
             \/ /\ p = "REPLENISH" /\ ~CheckPermission(d, p)
                /\ registry[d].firstAuth = 0
  <2>1. registry[d].status \in Status /\ registry[d].firstAuth \in Nat
    BY <1>1 DEF TypeOK, Record
  <2>2. CASE registry[d].status = "PENDING"
    <3>1. EffectivePermissions(d) = {"WAGE"}
      BY <2>2 DEF EffectivePermissions
    <3>2. CheckPermission(d, p) <=> p = "WAGE"
      BY <2>2 DEF CheckPermission
    <3> QED BY <3>1, <3>2
  <2>3. CASE registry[d].status = "AUTHENTICATED"
    <3>1. EffectivePermissions(d) =
            {"REPLENISH", "SALE", "WAGE"} \cup (IF d \in Governors THEN ByGovernors ELSE {})
      BY <2>3 DEF EffectivePermissions
    <3>2. CheckPermission(d, p) <=>
            \/ p \in ByGovernors /\ d \in Governors
            \/ p = "REPLENISH" /\ registry[d].firstAuth > 0
            \/ p = "SALE" \/ p = "WAGE"
      BY <2>3 DEF CheckPermission
    <3> QED BY <2>1, <3>1, <3>2 DEF ByGovernors
  <2>4. CASE registry[d].status \notin {"PENDING", "AUTHENTICATED"}
    <3>1. EffectivePermissions(d) = {}
      BY <2>4 DEF EffectivePermissions
    <3>2. ~ CheckPermission(d, p)
      BY <2>4 DEF CheckPermission
    <3> QED BY <3>1, <3>2
  <2> QED BY <2>2, <2>3, <2>4
<1>2. ASSUME NEW d \in Did, NEW p \in Permission
      PROVE  CheckPermission(d, p) \in BOOLEAN /\ (p \in EffectivePermissions(d)) \in BOOLEAN
  BY DEF CheckPermission
<1>3. TypeOK => PermissionsAgree
  BY <1>1, <1>2, Zenon DEF PermissionsAgree
<1> QED BY <1>3, IdentityTyped, PTL
=============================================================================
