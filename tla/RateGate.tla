------------------------------ MODULE RateGate ------------------------------
(***************************************************************************)
(* The per-minute rate limit of an agency, split over the containers of a  *)
(* server (packages/core: limits/split.ts, and the token bucket of         *)
(* http/client.ts).  A request of a container waits for a token of its     *)
(* client's bucket, is sent, and may be sent again without another token   *)
(* when the attempt fails; an answer that reports no remaining quota       *)
(* closes the bucket for a minute.                                         *)
(*                                                                         *)
(* Time is a tick, Minute of them a minute.  A bucket counts in drops,     *)
(* Minute of them a token, so that a tick adds PerMinute drops; the code's *)
(* fractions of a token are floating point, these are exact.  What a       *)
(* request does between its token and its first attempt (the limiter, the  *)
(* daily budget) is a step that may refuse it.                             *)
(***************************************************************************)
EXTENDS Integers, FiniteSets

CONSTANTS
  Container,    \* the containers of one server
  Request,      \* requests; one that is done stands for the next one too
  Home,         \* the container of each request
  AgencyLimit,  \* upstreamPerMinute of the source: the agency's own limit
  Reserved,     \* reservedConcurrency: how many containers share it
  Minute,       \* ticks in a minute
  MaxWait,      \* maxWaitMs
  MaxAttempts   \* DEFAULT_BACKOFF.maxAttempts

ASSUME GateAssumption ==
  /\ Home \in [Request -> Container]
  /\ AgencyLimit \in Nat /\ Reserved \in Nat \ {0}
  /\ Minute \in Nat \ {0} /\ MaxWait \in Nat /\ MaxAttempts \in Nat \ {0}

\* splitUpstreamPerMinute: a container's slice, never less than 1.
PerMinute == IF AgencyLimit \div Reserved < 1 THEN 1 ELSE AgencyLimit \div Reserved

Capacity == PerMinute * Minute

VARIABLES
  tokens,     \* drops in each container's bucket at its last refill
  since,      \* the time since that refill, up to a minute
  blocked,    \* the time left until blockedUntilMs
  pc,         \* where each request is
  nap,        \* the time a sleeping request has left to sleep
  attempt,    \* attempts a request has sent
  overtaken,  \* requests whose bucket another one changed while they slept
  watchAge,   \* the age of a window under observation, Minute if none is
  granted,    \* tokens each container granted in that window
  sent        \* attempts all containers sent in it

vars == <<tokens, since, blocked, pc, nap, attempt, overtaken, watchAge, granted, sent>>
bucket == <<tokens, since, blocked>>
watch == <<watchAge, granted, sent>>

TypeOK ==
  /\ tokens \in [Container -> 0 .. Capacity]
  /\ since \in [Container -> 0 .. Minute]
  /\ blocked \in [Container -> 0 .. Minute]
  /\ pc \in [Request -> {"idle", "asleep", "admitted", "inflight"}]
  /\ nap \in [Request -> 0 .. Minute]
  /\ attempt \in [Request -> 0 .. MaxAttempts]
  /\ overtaken \subseteq Request
  /\ watchAge \in 0 .. Minute
  /\ granted \in [Container -> Nat]
  /\ sent \in Nat

Init ==
  /\ tokens = [c \in Container |-> Capacity]
  /\ since = [c \in Container |-> 0]
  /\ blocked = [c \in Container |-> 0]
  /\ pc = [r \in Request |-> "idle"]
  /\ nap = [r \in Request |-> 0]
  /\ attempt = [r \in Request |-> 0]
  /\ overtaken = {}
  /\ watchAge = Minute
  /\ granted = [c \in Container |-> 0]
  /\ sent = 0

-----------------------------------------------------------------------------
(* The bucket.                                                             *)

\* Mutant: the refill forgets the capacity.
Overflowing(c) == tokens[c] + since[c] * PerMinute

\* tokens after a refill now.
Refilled(c) ==
  IF tokens[c] + since[c] * PerMinute > Capacity THEN Capacity
  ELSE tokens[c] + since[c] * PerMinute

\* Mutant: the wait is rounded down.
RoundedDown(n) == n \div PerMinute

\* Math.ceil(deficit / ratePerMs).
RoundedUp(n) == (n + PerMinute - 1) \div PerMinute

HasToken(c) == blocked[c] = 0 /\ Refilled(c) >= Minute

\* The wait checkToken returns when it has no token.
WaitFor(c) == IF blocked[c] > 0 THEN blocked[c] ELSE RoundedUp(Minute - Refilled(c))

\* A refill, and n tokens fewer; a closed bucket is left alone.
Draw(c, n) ==
  /\ UNCHANGED blocked
  /\ IF blocked[c] > 0 THEN UNCHANGED <<tokens, since>>
     ELSE /\ tokens' = [tokens EXCEPT ![c] = Refilled(c) - n * Minute]
          /\ since' = [since EXCEPT ![c] = 0]

\* The other requests of container c that sleep.
Asleep(c) == {r \in Request : Home[r] = c /\ pc[r] = "asleep"}

-----------------------------------------------------------------------------
(* A request.                                                              *)

\* A request reads the bucket when it arrives and when its sleep is over.
Asks(r) == pc[r] = "idle" \/ (pc[r] = "asleep" /\ nap[r] = 0)

\* Mutant: a token is taken without noting the time of the refill.
TakeTwice(r) ==
  LET c == Home[r] IN
  /\ Asks(r)
  /\ HasToken(c)
  /\ tokens' = [tokens EXCEPT ![c] = Refilled(c) - Minute]
  /\ UNCHANGED <<since, blocked>>
  /\ pc' = [pc EXCEPT ![r] = "admitted"]
  /\ overtaken' = (overtaken \cup Asleep(c)) \ {r}
  /\ granted' = [granted EXCEPT ![c] = IF watchAge < Minute THEN @ + 1 ELSE @]
  /\ UNCHANGED <<nap, attempt, watchAge, sent>>

Take(r) ==
  LET c == Home[r] IN
  /\ Asks(r)
  /\ HasToken(c)
  /\ Draw(c, 1)
  /\ pc' = [pc EXCEPT ![r] = "admitted"]
  /\ overtaken' = (overtaken \cup Asleep(c)) \ {r}
  /\ granted' = [granted EXCEPT ![c] = IF watchAge < Minute THEN @ + 1 ELSE @]
  /\ UNCHANGED <<nap, attempt, watchAge, sent>>

Sleep(r) ==
  LET c == Home[r] IN
  /\ Asks(r)
  /\ ~ HasToken(c) /\ WaitFor(c) <= MaxWait
  /\ Draw(c, 0)
  /\ pc' = [pc EXCEPT ![r] = "asleep"]
  /\ nap' = [nap EXCEPT ![r] = WaitFor(c)]
  /\ overtaken' = overtaken \ {r}
  /\ UNCHANGED <<attempt, watch>>

\* RateLimitWaitError.
Refuse(r) ==
  LET c == Home[r] IN
  /\ Asks(r)
  /\ ~ HasToken(c) /\ WaitFor(c) > MaxWait
  /\ Draw(c, 0)
  /\ pc' = [pc EXCEPT ![r] = "idle"]
  /\ overtaken' = overtaken \ {r}
  /\ UNCHANGED <<nap, attempt, watch>>

\* An attempt is sent: the first one, or a retry after its delay.
Send(r) ==
  /\ pc[r] = "admitted"
  /\ pc' = [pc EXCEPT ![r] = "inflight"]
  /\ attempt' = [attempt EXCEPT ![r] = @ + 1]
  /\ sent' = IF watchAge < Minute THEN sent + 1 ELSE sent
  /\ UNCHANGED <<bucket, nap, overtaken, watchAge, granted>>

\* The attempt fails and is retried: no token is asked for.
Retry(r) ==
  /\ pc[r] = "inflight"
  /\ attempt[r] < MaxAttempts
  /\ pc' = [pc EXCEPT ![r] = "admitted"]
  /\ UNCHANGED <<bucket, nap, attempt, overtaken, watch>>

\* The request ends: with an answer, an error, or a refusal after its token.
Finish(r) ==
  /\ pc[r] \in {"admitted", "inflight"}
  /\ pc' = [pc EXCEPT ![r] = "idle"]
  /\ attempt' = [attempt EXCEPT ![r] = 0]
  /\ UNCHANGED <<bucket, nap, overtaken, watch>>

\* It ends with an answer whose x-ratelimit-remaining is 0.
FinishExhausted(r) ==
  LET c == Home[r] IN
  /\ pc[r] = "inflight"
  /\ pc' = [pc EXCEPT ![r] = "idle"]
  /\ attempt' = [attempt EXCEPT ![r] = 0]
  /\ blocked' = [blocked EXCEPT ![c] = Minute]
  /\ overtaken' = overtaken \cup Asleep(c)
  /\ UNCHANGED <<tokens, since, nap, watch>>

-----------------------------------------------------------------------------
(* Time, and an observer who may start to watch a minute at any moment.    *)

Sooner(n) == IF n > 0 THEN n - 1 ELSE 0

Tick ==
  /\ since' = [c \in Container |-> IF since[c] < Minute THEN since[c] + 1 ELSE Minute]
  /\ blocked' = [c \in Container |-> Sooner(blocked[c])]
  /\ nap' = [r \in Request |-> Sooner(nap[r])]
  /\ watchAge' = IF watchAge < Minute THEN watchAge + 1 ELSE Minute
  /\ IF watchAge + 1 < Minute THEN UNCHANGED <<granted, sent>>
     ELSE granted' = [c \in Container |-> 0] /\ sent' = 0
  /\ UNCHANGED <<tokens, pc, attempt, overtaken>>

StartWatch ==
  /\ watchAge = Minute
  /\ watchAge' = 0
  /\ UNCHANGED <<bucket, pc, nap, attempt, overtaken, granted, sent>>

Next ==
  \/ \E r \in Request :
       Take(r) \/ Sleep(r) \/ Refuse(r) \/ Send(r) \/ Retry(r) \/ Finish(r) \/ FinishExhausted(r)
  \/ Tick
  \/ StartWatch

Spec == Init /\ [][Next]_vars

-----------------------------------------------------------------------------
(* Properties.                                                             *)

\* In any minute, whenever it starts, a container grants fewer than twice the
\* tokens of its slice: a full bucket at its start, and what drips in.
BurstBounded == \A c \in Container : granted[c] < 2 * PerMinute

\* A request that wakes finds its token, unless another request took one or an
\* answer closed the bucket while it slept: the wait it was told, rounded, is
\* long enough, and a closed bucket is full when it opens.
WaitIsHonest ==
  \A r \in Request :
    pc[r] = "asleep" /\ nap[r] = 0 /\ r \notin overtaken => HasToken(Home[r])

\* "each container's own client gets floor(total / reservedConcurrency), so
\* the fleet never exceeds the agency's limit" (limits/split.ts).
FleetWithinLimit == sent <= AgencyLimit

=============================================================================
