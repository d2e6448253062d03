---------------------------- MODULE QcewHistory ----------------------------
(***************************************************************************)
(* The history fetch of the QCEW indicators (server-bls,                   *)
(* qcew-indicators.ts).  A call asks for several series; each series reads *)
(* a window of its periods, newest first, through a pool of Concurrency    *)
(* workers over the cached HTTP client, under one deadline for the call.   *)
(* The answer holds the rows of the newest Want periods, and names the     *)
(* periods the deadline stopped.                                           *)
(*                                                                         *)
(* A slice is one period of one series.  Its fetch is the client's: it is  *)
(* answered from the cache before any timer can fire, or by the agency, or *)
(* ends with an error, an attempt's timeout, or the deadline.  How many    *)
(* attempts it makes is in HttpClient; here a retry starts the attempt's   *)
(* timer again.  Left out: ages of cached slices (fresh for 30 days), the  *)
(* numbers in a row, and the wording of the notes.                         *)
(***************************************************************************)
EXTENDS Integers, FiniteSets

CONSTANTS
  Call,         \* calls one container serves, one after the other: 1..n
  Series,       \* series: a measure of an area and an industry
  Last,         \* periods asked for, 1 the newest
  Want,         \* QCEW_MAX_PERIODS, or 1 without explicit years
  Lookback,     \* QCEW_MAX_LOOKBACK
  LatestOnly,   \* the caller gave no years
  Concurrency,  \* QCEW_CONCURRENCY
  Timeout,      \* the client's timeout of one attempt, in ticks
  Deadline,     \* QCEW_CALL_DEADLINE_MS, in ticks
  Worlds,       \* what the agency may hold of each period of each series
  Plans,        \* the series that each call may ask for
  Pending       \* a series not answered yet

\* A file with the row asked for, a file without it, a file with no rows
\* (not published yet), no file (an annual file not published yet: HTTP 404).
Content == {"row", "norow", "empty", "absent"}

Period == 1 .. Last

ASSUME HistoryAssumption ==
  /\ Call \subseteq Nat \ {0}
  /\ Last \in Nat \ {0} /\ Want \in Nat \ {0} /\ Lookback \in Nat
  /\ LatestOnly \in BOOLEAN
  /\ Concurrency \in Nat \ {0}
  /\ Timeout \in Nat \ {0} /\ Deadline \in Nat \ {0}
  /\ Worlds \subseteq [Series -> [Period -> Content]]
  /\ Plans \subseteq [Call -> SUBSET Series]

\* periods.slice(0, want + QCEW_MAX_LOOKBACK).
Width == IF Last <= Want + Lookback THEN Last ELSE Want + Lookback
Window == 1 .. Width

\* The pool of one series in one call.
Pool == Call \X Series

VARIABLES
  world,    \* what the agency holds
  asks,     \* the series each call asks for, none of a call never made
  cached,   \* the slices in the client's cache
  results,  \* results[p][i]: what the pool learnt of slice i
  cursor,   \* the next slice of a pool
  flying,   \* the slices a pool's workers are fetching
  waited,   \* the time each of those has waited for its attempt
  aborted,  \* the call's signal
  clock,    \* the time a call has run
  pc,       \* the state of a call
  said,     \* what a series answers: its rows, named periods, cap noted
  cause     \* history: why a call failed

given == <<world, asks>>
vars == <<world, asks, cached, results, cursor, flying, waited, aborted, clock, pc, said, cause>>
pools == <<results, cursor, flying, waited>>
calls == <<aborted, clock, pc, said, cause>>

Result == Content \cup {"hole", "timedout"}
Answer == [rows : SUBSET Window, named : SUBSET Window, capped : BOOLEAN]

ASSUME PendingAssumption == Pending \notin Answer

TypeOK ==
  /\ world \in Worlds
  /\ asks \in Plans
  /\ cached \subseteq Series \X Period
  /\ results \in [Pool -> [Window -> Result]]
  /\ cursor \in [Pool -> 1 .. Width + 1]
  /\ flying \in [Pool -> SUBSET Window]
  /\ waited \in [Pool -> [Window -> 0 .. Timeout]]
  /\ aborted \in [Call -> BOOLEAN]
  /\ clock \in [Call -> 0 .. Deadline]
  /\ pc \in [Call -> {"idle", "running", "answered", "failed"}]
  /\ said \in [Pool -> Answer \cup {Pending}]
  /\ cause \in [Call -> {"none", "error", "timeout", "nothing"}]

Init ==
  /\ world \in Worlds
  /\ asks \in Plans
  /\ cached = {}
  /\ results = [p \in Pool |-> [i \in Window |-> "hole"]]
  /\ cursor = [p \in Pool |-> 1]
  /\ flying = [p \in Pool |-> {}]
  /\ waited = [p \in Pool |-> [i \in Window |-> 0]]
  /\ aborted = [c \in Call |-> FALSE]
  /\ clock = [c \in Call |-> 0]
  /\ pc = [c \in Call |-> "idle"]
  /\ said = [p \in Pool |-> Pending]
  /\ cause = [c \in Call |-> "none"]

-----------------------------------------------------------------------------
(* The pool.                                                               *)

PoolsOf(c) == {p \in Pool : p[1] = c /\ p[2] \in asks[c]}

\* min(QCEW_CONCURRENCY, window.length) workers.
Workers == IF Concurrency < Width THEN Concurrency ELSE Width

\* A call starts: every worker of every pool takes a slice at once.
Begin(c) ==
  /\ pc[c] = "idle"
  /\ asks[c] # {}
  /\ \A d \in Call : d < c => pc[d] \in {"answered", "failed"}
  /\ pc' = [pc EXCEPT ![c] = "running"]
  /\ cursor' = [p \in Pool |-> IF p \in PoolsOf(c) THEN Workers + 1 ELSE cursor[p]]
  /\ flying' = [p \in Pool |-> IF p \in PoolsOf(c) THEN 1 .. Workers ELSE flying[p]]
  /\ UNCHANGED <<given, cached, results, waited, aborted, clock, said, cause>>

\* Mutant: a worker that finds the signal aborted leaves the rest unmarked.
GoesOnUnmarked(p, i, r) ==
  /\ waited' = [waited EXCEPT ![p] = [@ EXCEPT ![i] = 0]]
  /\ results' = [results EXCEPT ![p] = [@ EXCEPT ![i] = r]]
  /\ IF ~ aborted[p[1]] /\ cursor[p] <= Width
     THEN /\ cursor' = [cursor EXCEPT ![p] = @ + 1]
          /\ flying' = [flying EXCEPT ![p] = (@ \ {i}) \cup {cursor[p]}]
     ELSE /\ flying' = [flying EXCEPT ![p] = @ \ {i}]
          /\ UNCHANGED cursor

\* Mutant: a worker takes the next slice without a look at the window's end.
GoesOnPast(p, i, r) ==
  /\ waited' = [waited EXCEPT ![p] = [@ EXCEPT ![i] = 0]]
  /\ results' = [results EXCEPT ![p] = [@ EXCEPT ![i] = r]]
  /\ cursor' = [cursor EXCEPT ![p] = @ + 1]
  /\ flying' = [flying EXCEPT ![p] = (@ \ {i}) \cup {cursor[p]}]

\* A worker's fetch of slice i comes to r, and the worker goes on: to the
\* next slice, or, past the deadline, marking every slice not yet started.
GoesOn(p, i, r) ==
  /\ waited' = [waited EXCEPT ![p] = [@ EXCEPT ![i] = 0]]
  /\ IF aborted[p[1]]
     THEN /\ results' = [results EXCEPT ![p] =
               [j \in Window |-> IF j = i THEN r
                                 ELSE IF j >= cursor[p] THEN "timedout" ELSE @[j]]]
          /\ cursor' = [cursor EXCEPT ![p] = Width + 1]
          /\ flying' = [flying EXCEPT ![p] = @ \ {i}]
     ELSE /\ results' = [results EXCEPT ![p] = [@ EXCEPT ![i] = r]]
          /\ IF cursor[p] <= Width
             THEN /\ cursor' = [cursor EXCEPT ![p] = @ + 1]
                  /\ flying' = [flying EXCEPT ![p] = (@ \ {i}) \cup {cursor[p]}]
             ELSE /\ flying' = [flying EXCEPT ![p] = @ \ {i}]
                  /\ UNCHANGED cursor

InCache(p, i) == <<p[2], i>> \in cached

\* Mutant: an answer is not kept for the next call.
NeverStored(s, i) == {}

\* What a fetched slice adds to the cache: a 404 is thrown, not stored.
Stored(s, i) == IF world[s][i] = "absent" THEN {} ELSE {<<s, i>>}

\* The slice is answered, by the cache or by the agency.
Answered(p, i) ==
  /\ i \in flying[p]
  /\ GoesOn(p, i, world[p[2]][i])
  /\ cached' = cached \cup Stored(p[2], i)
  /\ UNCHANGED <<given, calls>>

\* The deadline stopped the slice: its attempt was aborted, or it woke from
\* a wait and found the signal.
Stopped(p, i) ==
  /\ i \in flying[p]
  /\ aborted[p[1]]
  /\ ~ InCache(p, i)
  /\ GoesOn(p, i, "timedout")
  /\ UNCHANGED <<given, cached, calls>>

\* Another attempt at the slice, with a timer of its own.
Retried(p, i) ==
  /\ i \in flying[p]
  /\ ~ InCache(p, i)
  /\ ~ aborted[p[1]]
  /\ waited' = [waited EXCEPT ![p] = [@ EXCEPT ![i] = 0]]
  /\ UNCHANGED <<given, cached, results, cursor, flying, calls>>

\* The call is rejected and its timer cleared; its other workers go on.
Fail(c, why) ==
  /\ IF pc[c] = "running"
     THEN /\ pc' = [pc EXCEPT ![c] = "failed"]
          /\ cause' = [cause EXCEPT ![c] = why]
     ELSE UNCHANGED <<pc, cause>>
  /\ UNCHANGED <<aborted, clock, said>>

\* The worker throws: an error that is not the deadline's.
Throws(p, i, why) ==
  /\ i \in flying[p]
  /\ ~ InCache(p, i)
  /\ flying' = [flying EXCEPT ![p] = @ \ {i}]
  /\ waited' = [waited EXCEPT ![p] = [@ EXCEPT ![i] = 0]]
  /\ Fail(p[1], why)
  /\ UNCHANGED <<given, cached, results, cursor>>

\* A refusal, an HTTP error, a network error.
Errs(p, i) == Throws(p, i, "error")

\* The client's own timer of the attempt fires first.
TimesOut(p, i) == waited[p][i] = Timeout /\ ~ aborted[p[1]] /\ Throws(p, i, "timeout")

-----------------------------------------------------------------------------
(* The answer.                                                             *)

RowsUpTo(p, i) == {j \in 1 .. i : results[p][j] = "row"}

\* The scan stops at the slice that completes Want rows.
Consumed(p) ==
  {i \in Window : Cardinality(RowsUpTo(p, i - 1)) < Want}

Published(p) == \E i \in Consumed(p) : results[p][i] \in {"row", "norow"}

Missing(p) == {i \in Consumed(p) : results[p][i] = "timedout"}

AnswerOf(p) ==
  LET rows == {i \in Consumed(p) : results[p][i] = "row"} IN
  [rows |-> rows, named |-> Missing(p),
   capped |-> ~ LatestOnly /\ Cardinality(rows) >= Want /\ Last > Cardinality(Consumed(p))]

\* Mutant: the answer is read when one worker is done.
SomeDone(p) == cursor[p] = Width + 1

\* Every worker of the pool is done.
PoolDone(p) == flying[p] = {}

\* The pool is done: its series is answered, or the call fails because the
\* deadline left nothing to answer with.  The last series ends the call.
Read(p) ==
  LET c == p[1]
      a == AnswerOf(p)
      empty == a.rows = {} /\ ~ Published(p) /\ a.named # {}
  IN
  /\ pc[c] = "running"
  /\ p \in PoolsOf(c)
  /\ said[p] = Pending
  /\ PoolDone(p)
  /\ \/ /\ empty
        /\ Fail(c, "nothing")
     \/ /\ ~ empty
        /\ said' = [said EXCEPT ![p] = a]
        /\ IF \A q \in PoolsOf(c) \ {p} : said[q] # Pending
           THEN pc' = [pc EXCEPT ![c] = "answered"]
           ELSE UNCHANGED pc
        /\ UNCHANGED <<aborted, clock, cause>>
  /\ UNCHANGED <<given, cached, pools>>

-----------------------------------------------------------------------------
(* Timers.                                                                 *)

\* A slice in the cache is read within microtasks, before any timer.
CacheBusy == \E p \in Pool : \E i \in flying[p] : InCache(p, i)

\* Mutant: the timer is cleared when the first series is answered.
DeadlineForgotten(c) ==
  /\ pc[c] = "running"
  /\ clock[c] = Deadline
  /\ ~ aborted[c]
  /\ ~ CacheBusy
  /\ \A p \in PoolsOf(c) : said[p] = Pending
  /\ aborted' = [aborted EXCEPT ![c] = TRUE]
  /\ UNCHANGED <<given, cached, pools, clock, pc, said, cause>>

DeadlineFires(c) ==
  /\ pc[c] = "running"
  /\ clock[c] = Deadline
  /\ ~ aborted[c]
  /\ ~ CacheBusy
  /\ aborted' = [aborted EXCEPT ![c] = TRUE]
  /\ UNCHANGED <<given, cached, pools, clock, pc, said, cause>>

\* Time passes; no timer is late.
Tick ==
  /\ ~ CacheBusy
  /\ \A c \in Call : pc[c] = "running" /\ ~ aborted[c] => clock[c] < Deadline
  /\ \A p \in Pool : ~ aborted[p[1]] => \A i \in flying[p] : waited[p][i] < Timeout
  /\ clock' = [c \in Call |-> IF pc[c] = "running" /\ clock[c] < Deadline
                              THEN clock[c] + 1 ELSE clock[c]]
  /\ waited' = [p \in Pool |-> [i \in Window |->
                 IF i \in flying[p] /\ waited[p][i] < Timeout
                 THEN waited[p][i] + 1 ELSE waited[p][i]]]
  /\ UNCHANGED <<given, cached, results, cursor, flying, aborted, pc, said, cause>>

Next ==
  \/ \E c \in Call : Begin(c) \/ DeadlineFires(c)
  \/ \E p \in Pool :
       \/ Read(p)
       \/ \E i \in Window : \/ Answered(p, i) \/ Stopped(p, i) \/ Retried(p, i)
                            \/ Errs(p, i) \/ TimesOut(p, i)
  \/ Tick

\* What the event loop does for a call whatever the agency does: its timers
\* fire, its slices in the cache are read, those past the deadline are stopped
\* once their wait is over, and a pool that is done is read.
Runs(c) ==
  \/ DeadlineFires(c)
  \/ \E p \in PoolsOf(c) :
       \/ Read(p)
       \/ \E i \in Window : (InCache(p, i) /\ Answered(p, i)) \/ Stopped(p, i) \/ TimesOut(p, i)

\* The agency owes nothing, and a fetch may be retried for ever.
Fairness == WF_vars(Tick) /\ \A c \in Call : WF_vars(Runs(c))

Spec == Init /\ [][Next]_vars /\ Fairness

-----------------------------------------------------------------------------
(* Properties.                                                             *)

Replied(p) == said[p] # Pending

\* A slice the deadline stopped is never a silent gap: whichever of the newest
\* periods the agency has a row for is in the answer or named in it, up to the
\* oldest the answer reaches, and no row is passed over for an older one.
NoSilentGap ==
  \A p \in Pool : Replied(p) =>
    \A i \in Window :
      world[p[2]][i] = "row" /\ i \notin said[p].rows \cup said[p].named =>
        Cardinality(said[p].rows) = Want /\ \A j \in said[p].rows : j < i

\* "ask again, and the quarters already fetched will come from cache": a row
\* one call answered with is never out of time in a later one, which would
\* take more slow slices before it than the pool has workers.  (Annual files
\* that answer 404 are not cached, and are such slices.)
AskAgain ==
  \A p, q \in Pool :
    /\ p[1] < q[1] /\ p[2] = q[2] /\ pc[p[1]] = "answered" /\ Replied(p) /\ Replied(q)
    /\ \A i \in Period : world[p[2]][i] # "absent"
    => said[p].rows \cap said[q].named = {}

\* A call that was answered has nothing in flight, for any of its series: only
\* a rejected one leaves workers behind.
NothingOutlivesAnswer ==
  \A p \in Pool : pc[p[1]] = "answered" => flying[p] = {}

\* Every call ends, whatever the agency does and however often it is retried.
EveryCallEnds == \A c \in Call : pc[c] = "running" ~> pc[c] \in {"answered", "failed"}

\* "when the caller gave years -- every published period in range" (qcewFetch),
\* short of what the deadline or the cap left out and says so.
EveryPeriodAccounted ==
  \A p \in Pool : Replied(p) /\ ~ LatestOnly /\ ~ said[p].capped =>
    \A i \in Period :
      world[p[2]][i] = "row" => i \in said[p].rows \cup said[p].named

\* "one stalled slice among 8 gives a partial answer within the budget, naming
\* the missing quarter" (qcew-deadline.test.ts): a stall never costs the rows
\* that were retrieved.
StallGivesPartial ==
  \A p \in Pool : pc[p[1]] = "failed" /\ cause[p[1]] = "timeout" =>
    \A i \in Window : results[p][i] # "row"

=============================================================================
