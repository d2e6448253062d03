----------------------------- MODULE HttpClient -----------------------------
(***************************************************************************)
(* One container's HTTP client for one source (packages/core,              *)
(* http/client.ts): the two-tier cache around performRequest, the          *)
(* per-minute error window, the retry loop, the per-attempt timeout and    *)
(* the caller's deadline.  A call runs without interruption between two    *)
(* awaits, and calls of one container interleave at those.                 *)
(*                                                                         *)
(* Times are ages, counted in ticks up to Horizon, which stands for "that  *)
(* long or longer".  A value is what the agency held when it looked: all   *)
(* that matters of it is how long ago that was.  How long a token, the     *)
(* limiter or a delay is waited for, and whether it is granted, is the     *)
(* environment's choice here; Limiter has the limiter.  Left out: fixture  *)
(* files, credentials, headers, and the notes and metrics of a call.       *)
(***************************************************************************)
EXTENDS Integers, FiniteSets

CONSTANTS
  Call,         \* calls of getWithCache; one that is done may be made again
  Key,          \* cache keys
  Cacheable,    \* keys requested with freshTtlSeconds
  FreshTtl,     \* freshTtlSeconds
  StaleTtl,     \* staleTtlSeconds
  Timeout,      \* timeoutMs, of one attempt
  MaxAttempts,  \* DEFAULT_BACKOFF.maxAttempts
  ErrorLimit,   \* errorsPerMinute
  Minute,       \* the length of the error window
  Horizon,      \* ages stop growing here
  NoEntry       \* a cache miss, an agency that has not looked yet

ASSUME ClientAssumption ==
  /\ Cacheable \subseteq Key
  /\ FreshTtl \in Nat /\ StaleTtl \in Nat /\ FreshTtl <= StaleTtl
  /\ Timeout \in Nat \ {0} /\ MaxAttempts \in Nat \ {0}
  /\ ErrorLimit \in Nat \ {0} /\ Minute \in Nat \ {0}
  /\ Horizon \in Nat /\ Horizon > StaleTtl /\ Horizon > FreshTtl + Timeout /\ Horizon >= Minute
  /\ NoEntry \notin Nat

ASSUME CallAssumption == IsFiniteSet(Call) /\ Call # {} /\ Key # {}

VARIABLES
  cache,      \* the MemoryCacheStore
  errors,     \* errorCount
  windowAge,  \* the time since errorWindowStartMs
  pc,         \* where each call is, or how it ended
  key,        \* the key a call asks for
  held,       \* `existing`, the entry a call read, as old as it is by now
  servable,   \* ageSeconds <= staleLimit, by the age computed at the start
  aborted,    \* the caller's signal
  attempt,    \* attempts started
  elapsed,    \* the time since the attempt was sent
  sight       \* the time since the agency looked its answer up

vars == <<cache, errors, windowAge, pc, key, held, servable, aborted, attempt, elapsed, sight>>

Age == 0 .. Horizon

\* A cached value: the time since it was stored and since the agency looked.
Entry == [age : Age, lag : Age]
NoData == [age |-> NoEntry, lag |-> NoEntry]

Answered == {"fresh", "fetched", "stale", "failed"}
Running == {"lookup", "token", "charge", "ready", "fetch"}

TypeOK ==
  /\ cache \in [Key -> Entry \cup {NoData}]
  /\ errors \in Nat
  /\ windowAge \in 0 .. Minute
  /\ pc \in [Call -> {"idle"} \cup Running \cup Answered]
  /\ key \in [Call -> Key]
  /\ held \in [Call -> Entry \cup {NoData}]
  /\ servable \in [Call -> BOOLEAN]
  /\ aborted \in [Call -> BOOLEAN]
  /\ attempt \in [Call -> 0 .. MaxAttempts]
  /\ elapsed \in [Call -> 0 .. Timeout]
  /\ sight \in [Call -> Age \cup {NoEntry}]

AnyKey == CHOOSE k \in Key : TRUE

Init ==
  /\ cache = [k \in Key |-> NoData]
  /\ errors = 0
  /\ windowAge = 0
  /\ pc = [c \in Call |-> "idle"]
  /\ key = [c \in Call |-> AnyKey]
  /\ held = [c \in Call |-> NoData]
  /\ servable = [c \in Call |-> FALSE]
  /\ aborted = [c \in Call |-> FALSE]
  /\ attempt = [c \in Call |-> 0]
  /\ elapsed = [c \in Call |-> 0]
  /\ sight = [c \in Call |-> NoEntry]

-----------------------------------------------------------------------------
(* The pieces the handlers share.                                          *)

\* Mutant: the fresh test reads the stale time to live.
IsStaleFresh(e) == e # NoData /\ e.age <= StaleTtl

IsFresh(e) == e # NoData /\ e.age <= FreshTtl

CanServe(e) == e # NoData /\ e.age <= StaleTtl

\* Call c ends with result r; its frame is gone.
Settle(c, r) ==
  /\ pc' = [pc EXCEPT ![c] = r]
  /\ key' = [key EXCEPT ![c] = AnyKey]
  /\ held' = [held EXCEPT ![c] = NoData]
  /\ servable' = [servable EXCEPT ![c] = FALSE]
  /\ aborted' = [aborted EXCEPT ![c] = FALSE]
  /\ attempt' = [attempt EXCEPT ![c] = 0]
  /\ elapsed' = [elapsed EXCEPT ![c] = 0]
  /\ sight' = [sight EXCEPT ![c] = NoEntry]

\* An error leaves performRequest: the entry read at the start answers if
\* it was young enough then, whatever the error is.
Throw(c, canServe) == Settle(c, IF canServe THEN "stale" ELSE "failed")

GoOn(c, stage) ==
  /\ pc' = [pc EXCEPT ![c] = stage]
  /\ UNCHANGED <<key, held, aborted, attempt, elapsed, sight>>

\* rollErrorWindow, then errorCount plus n.
WindowOver == windowAge >= Minute
Rolled == IF WindowOver THEN 0 ELSE errors
CountErrors(n) ==
  /\ errors' = Rolled + n
  /\ windowAge' = IF WindowOver THEN 0 ELSE windowAge

\* Mutant: the limit is off by one.
OverSpent == Rolled > ErrorLimit

\* checkErrorLimit: it rolls the window (CountErrors(0)), then compares.
ErrorsSpent == Rolled >= ErrorLimit

\* Mutant: one attempt too many.
ExhaustedLate(c) == attempt[c] > MaxAttempts

Exhausted(c) == attempt[c] >= MaxAttempts

\* Mutant: every attempt is the first.
SameAttempt(c) == 1

NextAttempt(c) == attempt[c] + 1

-----------------------------------------------------------------------------
(* A call.                                                                 *)

\* getWithCache up to cache.get; the signal may have fired already.
Begin(c, k, already) ==
  /\ pc[c] \in {"idle"} \cup Answered
  /\ pc' = [pc EXCEPT ![c] = "lookup"]
  /\ key' = [key EXCEPT ![c] = k]
  /\ held' = [held EXCEPT ![c] = IF k \in Cacheable THEN cache[k] ELSE NoData]
  /\ aborted' = [aborted EXCEPT ![c] = already]
  /\ UNCHANGED <<cache, errors, windowAge, servable, attempt, elapsed, sight>>

\* A fresh entry answers; else performRequest, up to its first await.
Decide(c) ==
  /\ pc[c] = "lookup"
  /\ UNCHANGED cache
  /\ \/ /\ IsFresh(held[c])
        /\ Settle(c, "fresh")
        /\ UNCHANGED <<errors, windowAge>>
     \/ /\ ~ IsFresh(held[c])
        /\ aborted[c]
        /\ Throw(c, CanServe(held[c]))
        /\ UNCHANGED <<errors, windowAge>>
     \/ /\ ~ IsFresh(held[c])
        /\ ~ aborted[c]
        /\ CountErrors(0)
        /\ IF ErrorsSpent THEN Throw(c, CanServe(held[c]))
           ELSE /\ servable' = [servable EXCEPT ![c] = CanServe(held[c])]
                /\ GoOn(c, "token")

\* The token is there, after a wait or at once: ask the limiter.
TokenTaken(c) ==
  /\ pc[c] = "token"
  /\ GoOn(c, "charge")
  /\ UNCHANGED <<cache, errors, windowAge, servable>>

\* The limiter and the daily budget count the query.
Charged(c) ==
  /\ pc[c] = "charge"
  /\ GoOn(c, "ready")
  /\ UNCHANGED <<cache, errors, windowAge, servable>>

\* The wait for a token would be too long, the limiter refuses the query, or
\* the daily budget does after the limiter counted it.
Refused(c) ==
  /\ pc[c] \in {"token", "charge"}
  /\ Throw(c, servable[c])
  /\ UNCHANGED <<cache, errors, windowAge>>

\* Mutant: an attempt starts without a look at the caller's signal.
AttemptHeedless(c) ==
  /\ pc[c] = "ready"
  /\ UNCHANGED cache
  /\ CountErrors(0)
  /\ IF ErrorsSpent THEN Throw(c, servable[c])
     ELSE /\ pc' = [pc EXCEPT ![c] = "fetch"]
          /\ attempt' = [attempt EXCEPT ![c] = NextAttempt(c)]
          /\ UNCHANGED <<key, held, servable, aborted, elapsed, sight>>

\* The top of fetchWithRetry's loop, entered once the budget is charged and
\* again after the delay that follows a failed attempt.
Attempt(c) ==
  /\ pc[c] = "ready"
  /\ UNCHANGED cache
  /\ \/ /\ aborted[c]
        /\ Throw(c, servable[c])
        /\ UNCHANGED <<errors, windowAge>>
     \/ /\ ~ aborted[c]
        /\ CountErrors(0)
        /\ IF ErrorsSpent THEN Throw(c, servable[c])
           ELSE /\ pc' = [pc EXCEPT ![c] = "fetch"]
                /\ attempt' = [attempt EXCEPT ![c] = NextAttempt(c)]
                /\ UNCHANGED <<key, held, servable, aborted, elapsed, sight>>

\* The agency works the answer out.
AgencyLooks(c) ==
  /\ pc[c] = "fetch"
  /\ sight[c] = NoEntry
  /\ sight' = [sight EXCEPT ![c] = 0]
  /\ UNCHANGED <<cache, errors, windowAge, pc, key, held, servable, aborted, attempt, elapsed>>

\* A 2xx answer the caller's parser takes: it is cached and returned.
Fetched(c) ==
  /\ pc[c] = "fetch"
  /\ sight[c] # NoEntry
  /\ cache' = IF key[c] \in Cacheable
              THEN [cache EXCEPT ![key[c]] = [age |-> 0, lag |-> sight[c]]]
              ELSE cache
  /\ Settle(c, "fetched")
  /\ UNCHANGED <<errors, windowAge>>

\* Back to the top of the loop, after a delay.
Retry(c) ==
  /\ pc' = [pc EXCEPT ![c] = "ready"]
  /\ elapsed' = [elapsed EXCEPT ![c] = 0]
  /\ sight' = [sight EXCEPT ![c] = NoEntry]
  /\ UNCHANGED <<key, held, servable, aborted, attempt>>

\* A failed attempt.  Counted against the error window: 4xx, 429, and the
\* errors an agency reports in a 2xx body.  Retried: 429, 502 to 504, the
\* body errors that may pass, and the network's own failures.  Neither: other
\* 5xx, and a body the caller's parser refuses.
FailedAttempt(c, counted, retryable) ==
  /\ pc[c] = "fetch"
  /\ IF counted THEN CountErrors(1) ELSE UNCHANGED <<errors, windowAge>>
  /\ IF retryable /\ ~ Exhausted(c) THEN Retry(c) ELSE Throw(c, servable[c])
  /\ UNCHANGED cache

\* The attempt's own timer fires: not retried.
TimesOut(c) ==
  /\ pc[c] = "fetch"
  /\ elapsed[c] = Timeout
  /\ Throw(c, servable[c])
  /\ UNCHANGED <<cache, errors, windowAge>>

\* What the call does by itself, sooner or later, whatever the agency does.
Advance(c) ==
  \/ Decide(c)
  \/ TokenTaken(c)
  \/ Charged(c)
  \/ Refused(c)
  \/ Attempt(c)
  \/ TimesOut(c)

-----------------------------------------------------------------------------
(* The environment.                                                        *)

\* The caller's signal fires.  An attempt in flight is aborted with it and
\* the call ends there; any other await goes on, and the call looks later.
Abort(c) ==
  /\ pc[c] \in Running
  /\ ~ aborted[c]
  /\ IF pc[c] = "fetch" THEN Throw(c, servable[c])
     ELSE /\ aborted' = [aborted EXCEPT ![c] = TRUE]
          /\ UNCHANGED <<pc, key, held, servable, attempt, elapsed, sight>>
  /\ UNCHANGED <<cache, errors, windowAge>>

Older(a) == IF a < Horizon THEN a + 1 ELSE Horizon
OlderEntry(e) == IF e = NoData THEN NoData ELSE [age |-> Older(e.age), lag |-> Older(e.lag)]

\* Time passes; no attempt outlives its timer.
Tick ==
  /\ \A c \in Call : pc[c] = "fetch" => elapsed[c] < Timeout
  /\ cache' = [k \in Key |-> OlderEntry(cache[k])]
  /\ windowAge' = IF WindowOver THEN Minute ELSE windowAge + 1
  /\ held' = [c \in Call |-> OlderEntry(held[c])]
  /\ elapsed' = [c \in Call |-> IF pc[c] = "fetch" THEN elapsed[c] + 1 ELSE elapsed[c]]
  /\ sight' = [c \in Call |-> IF sight[c] = NoEntry THEN NoEntry ELSE Older(sight[c])]
  /\ UNCHANGED <<errors, pc, key, servable, aborted, attempt>>

AgencyAnswers(c) ==
  \/ AgencyLooks(c)
  \/ Fetched(c)
  \/ \E counted, retryable \in BOOLEAN : FailedAttempt(c, counted, retryable)

Next ==
  \/ \E c \in Call :
       \/ \E k \in Key, already \in BOOLEAN : Begin(c, k, already)
       \/ Advance(c)
       \/ AgencyAnswers(c)
       \/ Abort(c)
  \/ Tick

\* The timers run, every wait for a token, the limiter, the store or a delay
\* ends, and the event loop resumes every call; the agency owes nothing.
Fairness ==
  /\ WF_vars(Tick)
  /\ \A c \in Call : WF_vars(Advance(c))

Spec == Init /\ [][Next]_vars /\ Fairness

-----------------------------------------------------------------------------
(* Properties.                                                             *)

\* A cached value was looked up by the agency at most one timeout before it
\* was stored, however many attempts the call made.
EntriesAreRecent ==
  \A k \in Key : cache[k] # NoData => cache[k].lag <= cache[k].age + Timeout

\* Calls overshoot the agency's error budget by no more than one error each:
\* those that passed checkErrorLimit before the error that spent it.
ErrorsBounded == errors + 1 <= ErrorLimit + Cardinality(Call)

\* An answer given as fresh is what the agency held within the fresh time to
\* live and one timeout, although nothing says when the agency looked.
FreshIsRecent ==
  [][\A c \in Call :
       pc[c] # "fresh" /\ pc'[c] = "fresh" => held[c].lag <= FreshTtl + Timeout]_vars

\* "no upstream call is made, and no cache entry ... is ever written for an
\* aborted request": whatever a call awaits when its caller gives up, it
\* starts no attempt after it and its answer changes no entry.
AbortIsFinal ==
  [][\A c \in Call :
       aborted[c] /\ pc[c] \in Running => pc'[c] \notin {"fetch", "fetched"}]_vars

\* Every call ends, with an agency that never answers, or one that fails in
\* every retryable way it has.
EveryCallEnds == \A c \in Call : pc[c] \in Running ~> pc[c] \in Answered

\* "Cached values older than this are never served on fetch failure"
\* (RequestOptions.staleTtlSeconds).
StaleWithinTtl ==
  [][\A c \in Call :
       pc[c] # "stale" /\ pc'[c] = "stale" => held[c].age <= StaleTtl]_vars

=============================================================================
