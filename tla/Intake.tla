------------------------------- MODULE Intake -------------------------------
(***************************************************************************)
(* The API's middleware (api/middleware.py): authentication, and inside it *)
(* the limit on the rate, over the requests in the order they arrive.      *)
(*                                                                         *)
(* A request says which API key it carries, whether it carries the three   *)
(* headers of a signature, which nothing verifies, and whether its path is *)
(* exempt.  A handler does not await anything between reading and writing  *)
(* what the limit keeps of a client, so a request is one step.  Tokens are *)
(* counted in units of which a request costs Cost and a unit of time gives *)
(* Rate.                                                                   *)
(***************************************************************************)
EXTENDS Traversal, FiniteSets

CONSTANTS
  Client,     \* who _extract_client_ip names
  Config,     \* AuthConfig: [keys, requireSignature : BOOLEAN]
  Request,    \* [key, signed : BOOLEAN, exempt : BOOLEAN]
  Burst,      \* the capacity of a bucket, in requests: 20
  Cost,
  Rate,       \* Rate / Cost requests per unit of time: 10 per second
  Block,      \* how long a client that overran is refused: 60 seconds
  MaxTime,    \* bound: the clock
  MaxAsked    \* bound: requests of each client

ASSUME IntakeAssumption ==
  /\ \A r \in Request : r.signed \in BOOLEAN /\ r.exempt \in BOOLEAN
  /\ Burst \in Nat \ {0, 1} /\ Cost \in Nat \ {0} /\ Rate \in Nat /\ Block \in Nat
  /\ MaxTime \in Nat /\ MaxAsked \in [Client -> Nat]

VARIABLES
  now,      \* time.monotonic()
  config,   \* of the AuthenticationMiddleware
  meters,   \* _buckets and _blocked, by client
  asked     \* the requests of each client so far, with their answers

intakeVars == <<now, config, meters, asked>>

(***************************************************************************)
(* A meter is the bucket of a client and the end of its block, 0 when it   *)
(* is not blocked.  A client that is not known has a full bucket: made at  *)
(* its first request, it is as full as one that was there from the start.  *)
(* It is made a moment after the request's time was taken, so that request *)
(* finds it short by less than a unit of time gives, which matters to none *)
(* but a bucket of one request: that would be refused, and its client      *)
(* blocked.  Hence the bound on Burst.                                     *)
(***************************************************************************)
Meter == [tokens : Nat, last : Nat, until : Nat]
NewMeter == [tokens |-> Cost * Burst, last |-> 0, until |-> 0]

Reply == [at : Nat, exempt : BOOLEAN, status : {200, 401, 429}]

IntakeTypeOK ==
  /\ now \in 0 .. MaxTime
  /\ config \in Config
  /\ meters \in [Client -> Meter]
  /\ asked \in [Client -> Seq(Reply)]

IntakeInit ==
  /\ now = 0
  /\ config \in Config
  /\ meters = [c \in Client |-> NewMeter]
  /\ asked = [c \in Client |-> <<>>]

-----------------------------------------------------------------------------
\* AuthenticationMiddleware
Authenticated(r) ==
  \/ r.exempt
  \/ r.key \in config.keys
  \/ config.requireSignature /\ r.signed
  \/ ~ config.requireSignature /\ config.keys = {}

Lower(a, b) == IF a < b THEN a ELSE b

\* Slip: the bucket is not capped.
Refilled_Uncapped(m, t) == m.tokens + Rate * (t - m.last)

\* The bucket after the time that has passed.
Refilled(m, t) == Lower(Cost * Burst, m.tokens + Rate * (t - m.last))

Blocked(m, t) == t < m.until

Overrun(m, t) == [tokens |-> Refilled(m, t), last |-> t, until |-> t + Block]

(***************************************************************************)
(* RateLimitMiddleware.  A blocked client is refused without its bucket    *)
(* being touched; the first request after the block lifts it.              *)
(***************************************************************************)
Limit(m, t) ==
  CASE Blocked(m, t) -> [meter |-> m, status |-> 429]
    [] ~ Blocked(m, t) /\ Refilled(m, t) >= Cost ->
         [meter |-> [tokens |-> Refilled(m, t) - Cost, last |-> t, until |-> 0], status |-> 200]
    [] ~ Blocked(m, t) /\ Refilled(m, t) < Cost ->
         [meter |-> Overrun(m, t), status |-> 429]

Answered(c, r, status) ==
  /\ Len(asked[c]) < MaxAsked[c]
  /\ asked' = [asked EXCEPT ![c] = Append(@, [at |-> now, exempt |-> r.exempt, status |-> status])]
  /\ UNCHANGED <<now, config>>

Limited(c, r) ==
  /\ meters' = [meters EXCEPT ![c] = Limit(@, now).meter]
  /\ Answered(c, r, Limit(meters[c], now).status)

\* Turned away before the limit.
Unauthorized(c, r) ==
  /\ ~ Authenticated(r)
  /\ Answered(c, r, 401)
  /\ UNCHANGED meters

\* Both let an exempt path pass.
Exempt(c, r) ==
  /\ r.exempt
  /\ Answered(c, r, 200)
  /\ UNCHANGED meters

Counted(c, r) ==
  /\ Authenticated(r) /\ ~ r.exempt
  /\ Limited(c, r)

Tick ==
  /\ now < MaxTime
  /\ now' = now + 1
  /\ UNCHANGED <<config, meters, asked>>

IntakeNext ==
  \/ \E c \in Client, r \in Request : Unauthorized(c, r) \/ Exempt(c, r) \/ Counted(c, r)
  \/ Tick

IntakeSpec == IntakeInit /\ [][IntakeNext]_intakeVars

-----------------------------------------------------------------------------
\* The requests that the limit saw, and those it let pass among them.
Seen(s) == {k \in DOMAIN s : ~ s[k].exempt /\ s[k].status # 401}
Served(s, i, j) == {k \in Seen(s) : i <= k /\ k <= j /\ s[k].status = 200}
Refused(s) == {k \in Seen(s) : s[k].status = 429}

\* What may be served from the i-th to the j-th request.
Allowed(s, i, j) == Cost * Burst + Rate * (s[j].at - s[i].at)

(***************************************************************************)
(* A client is served at most the burst and what the rate allows, over any *)
(* stretch of its requests, whatever it was refused in between.            *)
(***************************************************************************)
WithinRate ==
  \A c \in Client : \A i, j \in Seen(asked[c]) :
    i <= j => Cost * Cardinality(Served(asked[c], i, j)) <= Allowed(asked[c], i, j)

\* One more than was served would have been too much since some request.
Overran(s, k) ==
  \E i \in Seen(s) : i < k /\ Cost * (Cardinality(Served(s, i, k)) + 1) > Allowed(s, i, k)

(***************************************************************************)
(* A client is refused only where one more would have been too much, and   *)
(* for the time of a block after that: what it asks while it is blocked    *)
(* does not make the block longer, nor does it cost a token.               *)
(***************************************************************************)
RefusedForCause ==
  \A c \in Client : \A k \in Refused(asked[c]) : \E j \in Refused(asked[c]) :
    /\ j <= k
    /\ j = k \/ asked[c][k].at < asked[c][j].at + Block
    /\ Overran(asked[c], j)

(***************************************************************************)
(* A client that overran is served nothing until the block has passed: a   *)
(* refusal that is not within the block of an earlier one starts a block.  *)
(***************************************************************************)
BlockHolds ==
  \A c \in Client :
    LET s        == asked[c]
        within(k, j) == j < k /\ s[k].at < s[j].at + Block
    IN  \A j \in Refused(s) :
          (\A i \in Refused(s) : ~ within(j, i)) =>
             \A k \in Seen(s) : within(k, j) => k \in Refused(s)

(***************************************************************************)
(* What is kept of a client, and how it is answered, follows from its own  *)
(* requests that the limit saw: others, those turned away and those for an *)
(* exempt path make no difference.                                         *)
(***************************************************************************)
Metered(m, a) == IF a.exempt \/ a.status = 401 THEN m ELSE Limit(m, a.at).meter
MeterAfter(s) == Along(Metered, NewMeter, s)

OwnRequestsDecide ==
  \A c \in Client :
    /\ meters[c] = MeterAfter(asked[c])
    /\ \A k \in Seen(asked[c]) :
         asked[c][k].status = Limit(MeterAfter(SubSeq(asked[c], 1, k - 1)), asked[c][k].at).status

(***************************************************************************)
(* The limit serves a client what its rate allows and refuses it the rest: *)
(* no stretch of its requests is served more, nothing is refused without a *)
(* request that was one too many, the block such a request starts is kept  *)
(* to the end, and no other client has a say (middleware.py:145-215).      *)
(***************************************************************************)
ServedWithinRate == WithinRate /\ RefusedForCause /\ BlockHolds /\ OwnRequestsDecide
=============================================================================
