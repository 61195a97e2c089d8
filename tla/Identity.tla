------------------------------ MODULE Identity ------------------------------
(***************************************************************************)
(* Identities on one node: the registry (identity/registry.py), the trust  *)
(* anchors (identity/trust_anchor.py), the challenge that precedes a       *)
(* registration and the activation of api/rest_server.py, and what a       *)
(* standing permits (identity/auth.py).                                    *)
(*                                                                         *)
(* The registry is a database on disk.  Challenges, trust anchors and the  *)
(* history of parameters live in memory: a restart returns them to what    *)
(* the configuration says.  Each handler runs without an await, so it is   *)
(* one step.                                                               *)
(***************************************************************************)
EXTENDS GovernanceOps, FiniteSets

CONSTANTS
  Did, Anchor, Key,
  Credential,      \* credentials that holders can present
  SubjectOf,       \* Credential -> Did
  SignedBy,        \* Credential -> Key, the key that made the proof
  ExpiresAt,       \* Credential -> time
  Governors,       \* governance_dids of the AuthEngine
  Genesis,         \* the configured parameters
  Bootstrap,       \* the configured trust anchors: some Anchors -> Key
  Lifetime,        \* IDENTITY_CHALLENGE_TTL_SECONDS
  MaxNonce,        \* bound: challenges
  MaxTime,         \* bound: the clock
  MaxHeight,       \* bound: heights given to updates and activations
  MaxSigs          \* bound: signatures sent with a request

ASSUME IdentityAssumption ==
  /\ Governors \subseteq Did
  /\ SubjectOf \in [Credential -> Did] /\ SignedBy \in [Credential -> Key]
  /\ ExpiresAt \in [Credential -> Nat]
  /\ DOMAIN Bootstrap \subseteq Anchor /\ Bootstrap \in [DOMAIN Bootstrap -> Key]
  /\ Genesis \in Params
  /\ Lifetime \in Nat /\ MaxNonce \in Nat /\ MaxTime \in Nat
  /\ MaxHeight \in Nat /\ MaxSigs \in Nat

VARIABLES
  registry,    \* the table identities
  anchors,     \* _anchors of the TrustAnchorRegistry
  challenges,  \* identity_challenges
  history,     \* the history of GovernanceParams
  params,      \* params of the REST server's state
  clock,       \* seconds
  issued,      \* nonces drawn so far
  judged       \* nonce -> how often a signature over its challenge was judged

vars == <<registry, anchors, challenges, history, params, clock, issued, judged>>

Status == {"UNAUTHENTICATED", "PENDING", "AUTHENTICATED", "SUSPENDED", "REVOKED"}
Known == Status \ {"UNAUTHENTICATED"}
Nonce == 1 .. MaxNonce
Actions == {"identity.register", "other"}

None == [status |-> "UNAUTHENTICATED", firstAuth |-> 0, credentials |-> {}]
Record == [status : Status, firstAuth : 0 .. MaxHeight, credentials : SUBSET Credential]

TypeOK ==
  /\ registry \in [Did -> Record]
  /\ DOMAIN anchors \subseteq Anchor
  /\ anchors \in [DOMAIN anchors -> [key : Key, status : {"ACTIVE", "REMOVED"}]]
  /\ challenges \subseteq [nonce : Nonce, did : Did, action : Actions, expires : Nat]
  /\ history \in Seq(ParameterRecord) /\ history # <<>>
  /\ params \in Params
  /\ clock \in 0 .. MaxTime
  /\ issued \in 0 .. MaxNonce
  /\ judged \in [Nonce -> Nat]

FirstHistory == <<[height |-> 0, params |-> Genesis]>>

\* _load_bootstrap_trust_anchors
BootAnchors == [a \in DOMAIN Bootstrap |-> [key |-> Bootstrap[a], status |-> "ACTIVE"]]

Init ==
  /\ registry = [d \in Did |-> None]
  /\ anchors = BootAnchors
  /\ challenges = {}
  /\ history = FirstHistory
  /\ params = Genesis
  /\ clock = 0
  /\ issued = 0
  /\ judged = [n \in Nonce |-> 0]

Registered(d) == registry[d].status \in Known

-----------------------------------------------------------------------------
(***************************************************************************)
(* Trust anchors.  Signatures are counted, against the configured number.  *)
(***************************************************************************)
Signed(n) == n >= Genesis.required

ActiveAnchors == {a \in DOMAIN anchors : anchors[a].status = "ACTIVE"}

\* An id that was ever used, removed ones included, is refused.
AddAnchor(a, k, n) ==
  /\ Signed(n)
  /\ a \notin DOMAIN anchors
  /\ anchors' = [b \in DOMAIN anchors \cup {a} |->
                   IF b = a THEN [key |-> k, status |-> "ACTIVE"] ELSE anchors[b]]
  /\ UNCHANGED <<registry, challenges, history, params, clock, issued, judged>>

RemoveAnchor(a, n) ==
  /\ Signed(n)
  /\ a \in DOMAIN anchors
  /\ anchors' = [anchors EXCEPT ![a].status = "REMOVED"]
  /\ UNCHANGED <<registry, challenges, history, params, clock, issued, judged>>

-----------------------------------------------------------------------------
(***************************************************************************)
(* Registration over REST.                                                 *)
(***************************************************************************)

\* verify_credential: not revoked, not expired, the proof is by this key.
VerifyCredential(vc, key, revocations, now) ==
  /\ vc \notin revocations
  /\ now <= ExpiresAt[vc]
  /\ SignedBy[vc] = key

\* _verify_vc_against_trust_anchors: the manager is a new one, it knows of
\* no revocation.
CredentialTrusted(vc, d) ==
  /\ SubjectOf[vc] = d
  /\ \E a \in ActiveAnchors : VerifyCredential(vc, anchors[a].key, {}, clock)

CreateChallenge(d, action) ==
  /\ issued < MaxNonce
  /\ issued' = issued + 1
  /\ challenges' = challenges \cup
       {[nonce |-> issued + 1, did |-> d, action |-> action, expires |-> clock + Lifetime]}
  /\ UNCHANGED <<registry, anchors, history, params, clock, judged>>

\* _consume_identity_challenge: the checks that follow the pop.
Fits(c, d) ==
  /\ c.did = d
  /\ c.action = "identity.register"
  /\ clock <= c.expires

\* Slip: a challenge is forgotten only when the registration succeeds.
Consumed_OnSuccess(c, ok) == IF ok THEN challenges \ {c} ELSE challenges

\* The challenge is popped before anything is checked.
Consumed(c, ok) == challenges \ {c}

\* register's INSERT fails on a DID that is there.
Inserted(d, vcs) ==
  IF Registered(d) THEN registry
  ELSE [registry EXCEPT ![d] = [status |-> "PENDING", firstAuth |-> 0, credentials |-> vcs]]

\* register_did, answering an open challenge; one that is not open changes
\* nothing.
RegisterDid(d, c, signatureGood, vc) ==
  LET heard == Fits(c, d)
      ok == heard /\ signatureGood /\ CredentialTrusted(vc, d)
  IN  /\ judged' = IF heard THEN [judged EXCEPT ![c.nonce] = @ + 1] ELSE judged
      /\ registry' = IF ok THEN Inserted(d, {vc}) ELSE registry
      /\ challenges' = Consumed(c, ok /\ ~Registered(d))
      /\ UNCHANGED <<anchors, history, params, clock, issued>>

-----------------------------------------------------------------------------
(***************************************************************************)
(* Governance over identities.                                             *)
(***************************************************************************)

\* Slip: any known identity that is not revoked can be activated.
Activatable_NotRevoked(d) == Registered(d) /\ registry[d].status # "REVOKED"

Activatable(d) == registry[d].status = "PENDING"

\* verify_and_activate
VerifyAndActivate(d, height) ==
  /\ Activatable(d)
  /\ registry' = [registry EXCEPT ![d].status = "AUTHENTICATED", ![d].firstAuth = height]
  /\ UNCHANGED <<anchors, challenges, history, params, clock, issued, judged>>

\* activate_identity, with n signatures that are not empty.
ActivateIdentity(d, n, height) == n >= params.required /\ VerifyAndActivate(d, height)

\* BCSNode.register_identity and verify_identity: no challenge, no count.
RegisterIdentity(d, vc) ==
  /\ registry' = Inserted(d, {vc})
  /\ UNCHANGED <<anchors, challenges, history, params, clock, issued, judged>>

VerifyIdentity(d, n, height) == n >= 1 /\ VerifyAndActivate(d, height)

Suspend(d) ==
  /\ Registered(d) /\ registry[d].status # "REVOKED"
  /\ registry' = [registry EXCEPT ![d].status = "SUSPENDED"]
  /\ UNCHANGED <<anchors, challenges, history, params, clock, issued, judged>>

Revoke(d) ==
  /\ Registered(d)
  /\ registry' = [registry EXCEPT ![d].status = "REVOKED"]
  /\ UNCHANGED <<anchors, challenges, history, params, clock, issued, judged>>

AddCredential(d, vc) ==
  /\ Registered(d)
  /\ registry' = [registry EXCEPT ![d].credentials = @ \cup {vc}]
  /\ UNCHANGED <<anchors, challenges, history, params, clock, issued, judged>>

\* update_governance_params: update raises when the height does not grow.
UpdateParams(p, at) ==
  /\ CanUpdate(history, at)
  /\ history' = Append(history, [height |-> at, params |-> p])
  /\ params' = p
  /\ UNCHANGED <<registry, anchors, challenges, clock, issued, judged>>

Tick ==
  /\ clock < MaxTime
  /\ clock' = clock + 1
  /\ UNCHANGED <<registry, anchors, challenges, history, params, issued, judged>>

\* The process ends and a new one reads the configuration and the database.
Restart ==
  /\ anchors' = BootAnchors
  /\ challenges' = {}
  /\ history' = FirstHistory
  /\ params' = Genesis
  /\ UNCHANGED <<registry, clock, issued, judged>>

Next ==
  \/ \E a \in Anchor, k \in Key, n \in 0 .. MaxSigs : AddAnchor(a, k, n)
  \/ \E a \in Anchor, n \in 0 .. MaxSigs : RemoveAnchor(a, n)
  \/ \E d \in Did, action \in Actions : CreateChallenge(d, action)
  \/ \E d \in Did, c \in challenges, good \in BOOLEAN, vc \in Credential :
       RegisterDid(d, c, good, vc)
  \/ \E d \in Did, n \in 0 .. MaxSigs, h \in 0 .. MaxHeight : ActivateIdentity(d, n, h)
  \/ \E d \in Did, vc \in Credential : RegisterIdentity(d, vc)
  \/ \E d \in Did, n \in 0 .. MaxSigs, h \in 0 .. MaxHeight : VerifyIdentity(d, n, h)
  \/ \E d \in Did : Suspend(d) \/ Revoke(d)
  \/ \E d \in Did, vc \in Credential : AddCredential(d, vc)
  \/ \E p \in Params, at \in 1 .. MaxHeight : UpdateParams(p, at)
  \/ Tick
  \/ Restart

Spec == Init /\ [][Next]_vars

-----------------------------------------------------------------------------
(***************************************************************************)
(* AuthEngine: one predicate per permission, and the set of permissions    *)
(* that get_effective_permissions computes on its own.                     *)
(***************************************************************************)
Permission == {"MINT", "REPLENISH", "BURN", "GOVERN", "VALIDATE", "SALE", "WAGE"}
ByGovernors == {"MINT", "BURN", "GOVERN", "VALIDATE"}

\* Slip: suspension is overlooked for wages.
CheckPermission_WageSuspended(d, p) ==
  LET s == registry[d].status
  IN  \/ p \in ByGovernors /\ s = "AUTHENTICATED" /\ d \in Governors
      \/ p = "REPLENISH" /\ s = "AUTHENTICATED" /\ registry[d].firstAuth > 0
      \/ p = "SALE" /\ s = "AUTHENTICATED"
      \/ p = "WAGE" /\ s \in {"AUTHENTICATED", "PENDING", "SUSPENDED"}

\* The check_..._permission methods, as assert_permission picks them.
CheckPermission(d, p) ==
  LET s == registry[d].status
  IN  \/ p \in ByGovernors /\ s = "AUTHENTICATED" /\ d \in Governors
      \/ p = "REPLENISH" /\ s = "AUTHENTICATED" /\ registry[d].firstAuth > 0
      \/ p = "SALE" /\ s = "AUTHENTICATED"
      \/ p = "WAGE" /\ s \in {"AUTHENTICATED", "PENDING"}

\* get_effective_permissions
EffectivePermissions(d) ==
  CASE registry[d].status = "PENDING" -> {"WAGE"}
    [] registry[d].status = "AUTHENTICATED" ->
         {"REPLENISH", "SALE", "WAGE"} \cup (IF d \in Governors THEN ByGovernors ELSE {})
    [] OTHER -> {}

(***************************************************************************)
(* Properties.                                                             *)
(***************************************************************************)

\* The signature over a challenge is judged at most once, whether it was good
\* or not, across retries, other registrations and restarts: a failed answer
\* uses the challenge up (rest_server.py _consume_identity_challenge).
JudgedOnce == \A n \in Nonce : judged[n] <= 1

\* The two ways to ask what an identity may do agree, except that an identity
\* activated at height 0, the default, is told it may replenish and is then
\* refused (auth.py get_effective_permissions, check_replenish_permission).
PermissionsAgree ==
  \A d \in Did, p \in Permission :
    CheckPermission(d, p) # (p \in EffectivePermissions(d)) =>
      /\ p = "REPLENISH" /\ ~CheckPermission(d, p)
      /\ registry[d].firstAuth = 0

\* The number of signatures an activation is asked for is that of the latest
\* accepted parameters, whatever updates failed and whenever the node was
\* restarted (node.py update_governance_params, _wire_app_state).
CopyIsLatest == params = Latest(history)

\* An identity becomes authenticated at most once, whatever registrations,
\* activations, suspensions, revocations and restarts come in between: one
\* that has left PENDING is never there again, its first_auth_height is never
\* set anew, and a revoked one stays revoked (registry.py register,
\* verify_and_activate, suspend, revoke).
AuthenticatedOnce ==
  [][\A d \in Did :
       LET old == registry[d]  new == registry'[d]
       IN  /\ old.status = "REVOKED" => new.status = "REVOKED"
           /\ old.status \in Known \ {"PENDING"} => new.status \in Known \ {"PENDING"}
           /\ old.status \in Known \ {"PENDING"} => new.firstAuth = old.firstAuth]_vars

(***************************************************************************)
(* What the repository's flowchart says of the status of an identity       *)
(* (doc/SYSTEM_OPERATION_FLOWCHARTS_CN.md:136-141).  The code does not     *)
(* keep to it: an identity is suspended or revoked before it was           *)
(* authenticated, and no operation takes the step from SUSPENDED back to   *)
(* AUTHENTICATED that the flowchart draws.                                 *)
(***************************************************************************)
Flowchart ==
  {<<"UNAUTHENTICATED", "PENDING">>, <<"PENDING", "AUTHENTICATED">>,
   <<"AUTHENTICATED", "SUSPENDED">>, <<"SUSPENDED", "AUTHENTICATED">>,
   <<"AUTHENTICATED", "REVOKED">>, <<"SUSPENDED", "REVOKED">>}

FollowsFlowchart ==
  [][\A d \in Did : registry'[d].status # registry[d].status =>
       <<registry[d].status, registry'[d].status>> \in Flowchart]_vars
=============================================================================
