# federal-mcps: specifications, model checking and proofs

federal-mcps serves U.S. federal statistics (BLS, BEA, HUD, Census, geography)
to language models as MCP servers. Each server is a Lambda function built from
`packages/core`. This directory holds TLA+ specifications of the parts of it
whose behaviour over time is hard to test, TLC configurations that check them on
small instances, and proofs, checked by TLAPS, for all instances.

`PROJECT.json` is the machine-readable index: components, runs, the source lines
each definition stands for, mutations each property detects, disagreements
between code and documentation, hazards, and theorems.

## 1. Inventory

One Lambda container runs one request at a time for each server it holds. It
keeps, for its life: one MCP server, one limiter, one HTTP client per source
(with its cache, token bucket, error window and daily count). The containers
of a fleet share **only** the DynamoDB table of counters. Inside a container
there is one JavaScript event loop: code runs without interruption between two
`await`s, so every hazard of this code sits at an `await`, at a timer, at the
table, or at the death of a container.

| component | state | operations | hard behaviour | what makes it correct |
|---|---|---|---|---|
| **persistent limiter** `core/src/limits` | the table; per container the keys known over and the fallback counts | `beginToolCall`, `beforeUpstream`, conditional increment | several containers on one item; lost or repeated answers; table down; container death; day change between keying and counting | daily limits hold; one caller cannot drain the shared budget; nobody is refused early |
| **HTTP client** `core/src/http/client.ts` | cache, error window; per call: entry read, attempt, timer, signal | `getWithCache`, `performRequest`, `fetchWithRetry`, caller's abort | checks before an `await` used after it; overlapping attempts; timeout, retry and abort races | fresh means recent; agency error budget; an abort is final; every call ends |
| **rate limit** `core/src/limits/split.ts`, token bucket of `client.ts` | tokens, time of last refill, time the bucket is closed until | `checkToken`, `waitForToken`, `x-ratelimit-remaining: 0` | bursts, sleepers that wake together, rounding, retries | at most so many requests a minute; a wait is long enough |
| **QCEW history fetch** `server-bls/src/qcew-indicators.ts` | per series: results, next slice, workers; per call: deadline, signal | `fetchSlicesBounded`, `fetchRows`, `qcewFetch` | pool of workers under one deadline, failing and unpublished slices, cache | no silent gap in a history; asking again makes progress; calls end |
| **daily budget of a container** `core/src/http/budget.ts` | a count per day | `consume` | counted after the limiter | never above its maximum |
| **server shell** `core/src/server` | queue of requests, the transport the server holds, a context per call | tool wrapper, HTTP handler, error mapping, metrics line | a call that throws while others wait, and whose queries run on into the next | an answer reaches its own request with its own notes, and its metrics line tells the same |
| **caller identity** `server/identify.ts`, `attestation.ts` | none (pure over headers and secrets) | choose caller key and scope, bypass, test limit | precedence of headers; keys that change at midnight | a caller is its peer; a network has one share a day |
| **response envelope** `core/src/envelope` | none | build, check | size budget | – |
| **geography catalog and resolver** `core/src/geography` | read-only tables | resolve a name to a place, or ask; containment, overlap, codes | thresholds, ties, twins, qualified names | a wrong place is never silently chosen, and a question can be answered |
| **indicators** `core/src/indicators` | registry | get, compare, list: fall back from place to county, align | what stands in for what; lagging periods; two handlers that settle the same thing apart | every figure is the agency's, of the place told; a comparison compares like with like |
| **BLS series fetch** `server-bls/src/series-fetch.ts` | none | batches of series × years | a release between two batches | no series lost silently |
| **BLS programs** (`laus`, `ces`, `cpi`, `jt`, `oe`, `ppi`) | none | codes, substitutes, series ids | – | the series is of the place told |
| **BEA, HUD, Census servers** | none of their own | codes, town ids, years, reads, raw replies | missing years, suppressed values, renamed areas | nothing asked is silently missing; the source cited holds the figure |
| **geography build** `geography-build` | download cache, one SQLite file | download, assemble, write | a crash at any point; a cut cache file is trusted for ever | a catalog that serves is whole |
| **deployment** `scripts/deploy.sh` | artifact, zip, what is live | build when missing, bundle, apply, verify | an artifact half written is taken for present | a deploy that reports success serves a whole catalog |
| geography server, geography benchmark, contract checks | – | registers core's tools; evaluation; test support | – | – |

**How they interact.** An HTTP request is identified (caller, scope), queued for
its server, and runs a tool. The shell calls `limiter.beginToolCall`, then the
tool. A tool calls `client.getWithCache`, once or many times at a time. On a
cache miss, `performRequest` checks the error window, waits for a token,
calls `limiter.beforeUpstream` (which writes the table, and counts the caller's
share before the service budget), consumes the container's budget, and only then
enters the retry loop. The QCEW fetch runs up to six such calls per series
under an `AbortSignal` of its own. Answers, errors and notes go back through the
envelope. An indicator tool resolves its places in the catalog, which the process opens once and the
build and the deploy put there, settles the series to fetch, and reads its figures off the answers of
`getWithCache`. There are no callbacks between components but the abort signal.

The hazards of this code, each at its line, are the `hazards` of
`PROJECT.json`; the properties below were chosen from that list.

## 2. Modules

| module | models | actions ↔ code |
|---|---|---|
| `Limiter` | one query of the limiter at a time, over table, memory and fallback | `Begin`: `charge()` up to the first await; `ShareSettled`, `StoreRefused`, `ServiceCharged`, `ServiceDegraded`: the code after each await; `StoreApplies`, `StoreAppliesUnheard`, `StoreAppliesResent`, `StoreRefuses`, `StoreFails`: the conditional `UpdateItem`, external; `NextDay`; `Restart`: a container replaced |
| `HttpClient` | calls of one client that overlap | `Begin`, `Decide`: `getWithCache` and the checks of `performRequest`; `TokenTaken`, `Charged`, `Refused`: the awaits before the first attempt; `Attempt`, `FailedAttempt`, `TimesOut`, `Fetched`: `fetchWithRetry`, `fetchOnce`; `Abort`: the caller's signal; `AgencyLooks`: external; `Tick` |
| `RateGate` | the token bucket of each container of a fleet | `Take`, `Sleep`, `Refuse`: `checkToken` and `waitForToken`; `Send`, `Retry`, `Finish`; `FinishExhausted`: quota header; `Tick`; `StartWatch`: an observer who starts to count |
| `QcewHistory` | calls of the QCEW indicators, one after the other, on one cache | `Begin`: pools start; `Answered`, `Stopped`, `Errs`, `TimesOut`: the ways `fetchSlice` ends and its worker goes on (`GoesOn`); `Retried`; `Read`: the scan of `fetchRows` and the end of the call; `DeadlineFires`; `Tick` |
| `ToolCall` | requests at containers, from arrival to metrics line, over one shared table | `Arrive`, `Close`: `createHttpHandler` and its promise queue; `TransportFails`; `Open`: connect, `callerFor` (with `Headers` and `Identify`), `beginToolCall`; `FromCache`, `FailsEarly`, `ShareRefuses`, `ServiceRefuses`: a query that gets no further than `getWithCache` and the limiter; `Counts`: the limiter counts it (`client.ts:432`); `BudgetRefuses`, `Grants`: the container's own budget, which reads the clock again (`client.ts:444`, `budget.ts:38`); `Sends` (`client.ts:458`); `Ends`; `Returns`, `WrapThrows`, `Objects`, `Throws`: the ways `registerDefinitionTool`'s handler ends; `NextDay` |
| `Geography` | the catalog's queries and `resolvePlace` (operators) | – |
| `HudFetch`, `BeaFetch`, `BlsFetch`, `CensusFetch`, `QcewFetch` | what each server knows of its indicators: dimensions, codes, substitutes, caveats, keys, the next requests, the series read off the answers, the source cited, the raw tool (operators) | – |
| `Indicators` | the registry and the tools get, compare and list over those (operators) | – |
| `GeographyBuild` | `geography:build` and `deploy.sh` | `StartBuild`, `ReadSource`: `fetchCached` source by source; `OpenCatalog`, `InsertRows`, `FinishCatalog`: the phases of the SQLite file; `CrashBuild`: at any point, in a write too; `StartDeploy`, `AfterBuild`, `Bundle`, `Apply`, `Verify`: `deploy.sh` line by line; `CleanUp`: the operator |
| `Answers` | a server that opens the deployed catalog and answers calls; composes `Indicators` and `GeographyBuild` | `OpenServer`; `StartCall`: a handler up to its first request; `Fetch`, `FetchFails`: one request; `DeadlineStops`: QCEW's deadline; `Finish`: the handler after its last answer; `Return`; `Publish`: an agency's release, external |
| `DailyBudget` | abstract: a bounded shared budget and what grants and refusals may rest on | `Ask`, `Count`, `Waive`, `Grant`, `Refuse`, `Forget` |
| `MC…` | values TLC needs that a configuration cannot write; `MCAnswers` has a country, the agencies' figures and the calls | – |
| `LimiterProofs`, `HttpClientProofs`, `RateGateProofs`, `QcewHistoryProofs`, `ToolCallProofs`, `DeployProofs`, `AnswersProofs` | theorems | – |
| `WellOrder` | least members, bounded growth, ranks and maxima, lemmas in place of induction | – |

The fetch modules extend one another in the order listed, because `Indicators` needs all of them and they
share `FirstOpen`, `NewestFirst` and the vocabulary of `Geography`; none uses another's constants.

**Abstractions.** A cached value is what matters of it: the time since it was
stored and the time since the agency looked it up. A QCEW file is one of four
contents (row, no row, header only, absent). Strings, notes, log lines, item
expiry, headers, credentials and fixture files are left out. In `Limiter` a
query is a call of the limiter, and what happens around it is the choice of
`Workload`. In `HttpClient` the token and the limiter are waits that end either
way: `RateGate` and `Limiter` say how. In `RateGate` the bucket is counted in
exact fractions of a token; the code's are floating point. In `QcewHistory` a
fetch is one that `HttpClient` allows, except that attempts are not counted:
it may be retried any number of times, which only makes its properties stronger.

`ToolCall` composes what the others promise: the limiter is one step that counts
or refuses (`Limiter` has its failures), and whether the cache has an entry and
how an attempt ends is a choice of the environment (`HttpClient` has both). Count, grant and send are three steps, each on the
day of its own clock; the two counts of the limiter are one moment on the day it was called. A tool is the set of queries it makes, in order but
overlapping, and an end. A header's syntax, hashes and addresses are sets of
a few values; a caller's key is the pair that is hashed. A metrics line is its
outcome, with the scope of a refusal for `refused` and `limitScope`, and its
count of queries. Of a container's memory of spent keys
only that of tool calls is left out: it changes no answer.

In `Geography` an entity's id is the tuple of its UCGID and a name is a tuple of
words, which keeps the order and the containment that the code's strings have; the trigram search finds
the names that hold the query. Shares are in hundredths, areas and people small numbers. In the fetch modules a
key is the record the code writes into a string and parses again, a page or a
row of an agency is a record with the place it is *of*, and `release` says when it was published: an
answer holds what was released when the request was sent, so that two requests of one call may see
two releases. Wording of notes is left out; which note is written, and what it names, is not.
`Answers` runs one call at a time, since calls share only the catalog: their
budgets, caches, retries and overlap are in `Limiter`, `RateGate`, `HttpClient`, `QcewHistory` and `ToolCall`.
A request that fails there for good is `FetchFails` here. A source of the build is a sequence of rows
already split into fields. `writeFile` empties a file before it fills it, so a crash during a write leaves a text file
with its first rows or none, and a zip or a JSON file empty (`Empty`) or unreadable (`Garbled`). BLS may list a series without a
row of it (`BlsListed`), and chooses the years of a raw call that names none (`BlsDefault`).

**History variables** (`shareBy`, `serviceBy`, `lost` in `Limiter`; `overtaken`,
`watchAge`, `granted`, `sent` in `RateGate`; `cause` in `QcewHistory`; `counted`, `granted`, `sent` in `ToolCall`) are read
by properties, and no guard of the code's steps depends on them, with two
exceptions: `lost` stops a query whose container died, and a watch ends after
a minute.

## 3. Model checking

Passing runs:

| run | instance | properties | what it shows |
|---|---|---|---|
| `limiter` | 2 containers, 3 queries, 1 source with a budget of 2, a visitor with a share of 1 query and 1 tool call a day, an operator without limit, 2 days (queries on the first, the visitor's tool calls on the second); containers and queries symmetric | `TypeOK`, `BudgetHeld`, `ShareShieldsService`, `OverIsSound`, `RefusalIsJustified`, `BudgetIsKept` | three queries are one more than the budget, so the last unit is contended by two containers while the table fails, answers late, answers never, or is written twice, and containers die; every step is one that `DailyBudget` allows |
| `client` | 2 calls, one cached and one uncached key, fresh 1, stale 2, timeout 1, 3 attempts, 2 errors a minute of 2 ticks, ages up to 3 | `TypeOK`, `ErrorsBounded`, `FreshIsRecent`, `AbortIsFinal`, `EveryCallEnds` | two overlapping attempts reach the error limit together; an entry passes from fresh to stale to neither while a call waits; every retry count is exhausted |
| `rate_gate` | 1 container, 3 interchangeable requests, 5 a minute over 2 containers (slice 2), minute of 5 ticks, waits up to 3, 2 attempts | `TypeOK`, `BurstBounded`, `WaitIsHonest` | 5 ticks do not divide into 2 tokens evenly, so waits are rounded; three requests sleep on one bucket; waits both within and above the maximum |
| `qcew` | 2 calls, 2 series, 4 periods, 2 wanted plus 1 looked back, 2 workers, timeout 2, deadline 3; one call twice for the county, or one for county and metro | `TypeOK`, `NoSilentGap`, `AskAgain`, `NothingOutlivesAnswer`, `EveryCallEnds` | a window larger than the pool and smaller than the range; not-published, absent, and row-less files; timeouts, retries, errors, the deadline before, amid and after the workers |
| `tool_call` | 1 container, 2 requests in either order, one of 1 query and one of 2; a visitor, and one of: a visitor of the same network who claims another's address and repeats the operator header, the claude.ai pool, an operator, an operator's test run, a request the adapter never saw, a wrong path; 2 days; shares of 1, a service budget of 3 of which 2 are used elsewhere on the first day, a container budget of 2 | `TypeOK`, `AnswersOwnRequest`, `NotesAreOwn`, `SharesArePaid`, `BudgetsCoverQueries`, `ShareAcrossMidnight`, `CallerIsPeer`, `LinesTellOutcome`, `EveryRequestEnds` | queries of a failed call run on in the next call; midnight falls before, in and between calls, and between the count, the grant and the send of a query; each of the three counts refuses, alone and in turn; a container refuses from memory |
| `answers` | 18 sources of a few rows (7 states, 9 counties, towns, places, metros, a ZIP area), 3 worlds of populations, 1 crash or failed download, 94 calls over every program (66 get, 9 compare, 7 list, 12 raw), 2 releases, 2 series a BLS request, 4 QCEW periods a call, on 31 December | `AnswersTypeOK`, `VerifiedIsWhole`, `Clarified`, `RivalsAreTold`, `ShownIsPublished`, `CitedIsRead`, `ComparedAlike`, `RangeIsKept`, `NewestIsShown`, `ProductIsTold`, `ListMatchesGet`, `RawTellsAll` | a catalog built through a crash at any point is whole once deployed, but for a text file it cut or a BEA list it left empty; on it, every kind of question is answered with the right place or asked back, by figures that are published, cited, in range, newest, and compared at one period |

Every count is the least with which the interesting case occurs: one query more
than a budget, one call more than one, one slice more than the workers, one
period more than the window. What the bounds cap: `LastDay` (days), `Query`,
`Call`, `Request` (activity; in `HttpClient` and `RateGate` a finished one starts
again, so activity is unbounded there), `Horizon` (ages stop growing where no
comparison tells them apart), `Minute` (window ages likewise). `MaxFaults`
and `Releases` likewise cap crashes and publications; one crash can hit every file in every phase, and one release
can come before or after every request of every call. In `answers` each row of the small country is there
for a rule of the resolver or of a server (a city with its county of the same name, cities of one name in two states with rival,
dominant and unknown populations, two towns of one name in one state, a consolidated town, a combined BEA area, a metro across the rule of fallback, a
place whose GEOID changed, missing years, suppressed and annotated values), and a call is enabled in every
state of the server, so the calls need not follow one another. The date is one on which six months back
overflows the month. A request to the
table is repeated at most once (`resent`); the SDK's default is twice.

Runs that TLC is expected to refute, where the code does something else than a
comment, document or test of the repository says (`findings`):

| run | property | what happens |
|---|---|---|
| `limiter_zero` | `NothingPastMax` | a budget configured as 0 lets one unit through: the condition accepts an item that does not exist before it compares |
| `client_stale` | `StaleWithinTtl` | the age of the cached entry is taken before the waits and retries, so what is served after them may be older than its stale time to live |
| `fleet_rate` | `FleetWithinLimit` | a full bucket, what drips into it, and retries that take no token pass the agency's per-minute limit |
| `qcew_gap` | `EveryPeriodAccounted` | with more row-less periods than the look-back, older published periods of the range are neither fetched nor mentioned |
| `qcew_stall` | `StallGivesPartial` | a slice that stalls from the start meets the client's 15 s timeout before the call's 20 s deadline, and the whole call fails |
| `resolve_leader` | `LeaderIsAnswered` | of two cities of one name, the dominance test looks at the most populous and the ranking at the largest in land: the question is not asked, and the small city is answered |

`limiter`, `limiter_zero`, `tool_call`, `resolve_leader` and the three `qcew` runs do not check for deadlock: queries and calls are
used up, after which the model stops, as it should.

**Fairness.** `Limiter`, `RateGate` and `Answers` have none: their properties are safety.
`HttpClient` assumes weak fairness of `Tick` (timers run) and, per call, of
`Advance`: what the event loop does for it, including the end of each wait for a
token, for the limiter and for a delay. These waits end in the code: token waits
are at most `maxWaitMs`, the store client has its own timeout, and delays are
finite (as long as an agency's `Retry-After` is). The agency owes nothing: no fairness on any answer.
`QcewHistory` assumes weak fairness of `Tick` and, per call, of `Runs`: its timers,
its cached slices, slices past the deadline, and reading a pool that is done.
Again nothing of the agency, and a fetch may be retried for ever.
`ToolCall` assumes weak fairness, per request, of `Advance`: its turn is taken when it comes,
its queries end (`HttpClient`'s `EveryCallEnds`) and its tool comes to an end of its own; and of
each container's `Close`, the `finally` and the promise queue. A tool that awaits something for ever would hold
its container: the code has no timeout there, and the property does not say otherwise.
A container that is frozen or killed is outside those three models, and inside `Limiter`.

## 4. Proofs

The assumptions are the named `ASSUME`s on constants and nothing else
(TLC evaluates them in the runs). Every theorem holds for every number of
containers, queries, calls, requests, keys and days, and for every limit.

* **`LimiterProofs`**: `TypeCorrect`, `BudgetIsHeld`, `MemoryIsSound`,
  `ServiceIsShielded`, `RefusalsAreJustified`. None of the invariants is
  inductive alone. The counter of a key bounds the *set* of queries that hold a
  unit of it (`CountsHolders`), since a unit is added in the step that makes its
  holder; the conditional write keeps the counter under its ceiling
  (`WithinCeiling`); counters only grow, so "refused by the table" stays true
  on the way back to the sender (`RefusedMeansFull`), and what a container
  then remembers is sound (`OverIsSound`); the service budget is reached only
  past the share (`ShareFirst`).
* **`HttpClientProofs`**: `TypeCorrect`, `ErrorsAreBounded`,
  `FreshAnswersAreRecent`, `AbortsAreFinal`. Errors counted **plus attempts in
  flight** are within budget plus one per call (`Overshoot`): the number the code
  does not keep. An answer is as old as its attempt at most, so an entry is as
  old as its storing plus a timeout (`Recent`).
* **`RateGateProofs`**: `TypeCorrect`, `BurstsAreBounded`, `WaitsAreHonest`.
  Since a watch began, tokens granted plus tokens in the bucket are at most a full bucket plus
  what dripped in (`Ledger`). A sleeper not overtaken has, in the time it has
  slept and will sleep, a whole token dripping in, and its bucket does not
  stay closed longer (`NapCovers`); a closed bucket is full when it opens
  (`ClosedLong`).
* **`QcewHistoryProofs`**: `TypeCorrect`, `AnsweredRests`, `GapsAreTold`, `AskedAgainIsFound`. While a call runs, each slice of its
  pools is still to start, in flight, or settled as what the agency holds or as timed out, and a pool with
  nothing in flight has nothing left to start (`Accounted`): so a call that is read has settled everything, and
  nothing of it flies afterwards (`RepliedRests`). What the scan reads is a prefix of the window
  that ends with the row that completes `Want` (`ScanIsPrefix`): the first slice it leaves out is the least one,
  and the one before it was read. For `AskedAgainIsFound`: each slow slice holds a worker, so fewer than `Workers`
  slices before a row that was answered with are not in the cache (`RowsAreWarm`); when a later call is stopped,
  all its workers are busy, each with such a slice (`Staffed`), so they are past that row (`RowsAreReached`). The
  property is about series whose files are all published or pending: an annual file that answers 404
  is not cached, and may keep a worker from the row each time.
* **`ToolCallProofs`**: `TypeCorrect`, `AnswersGoHome`, `NotesStayApart`, `LinesAreTrue`, `PeersAreCallers`,
  `SharesCover`, `BudgetsCover`, `MidnightIsBounded`: every safety property of `ToolCall`. A call whose tool runs
  heads its queue and holds its transport (`InTurn`). A request has no caller and no query before its turn
  (`Fresh`), so naming its caller moves no query from one account to another. A query is counted, granted and
  sent once each, in this order and on days that never go back (`InOrder`), and what is dated in one of the three histories is
  in the counter of that date (`Budgets`, `SharesArePaid`): the service budget of a day covers what was counted on it,
  each container's what was granted on it, and what is sent on a day was counted on it or was under way at
  midnight (`BudgetsCoverQueries` says both, and `Covered` derives them). A network's key is no younger than
  what is counted on it (`KeysAreOld`), so the queries of a day spread over the keys of that day and before, each within one
  share (`ShareHeld`); so do those that were counted on an earlier day and sent on this one. The sum over the days is
  `StepsBound` of `WellOrder`.

* **`LimiterProofs`**, second part: `LimiterImplementsBudget`. Under the mapping at the end of
  `Limiter` every step of the limiter is a step of `DailyBudget` or a stutter. A unit the table adds is a
  `Count`, heard of or not; a query that goes on without its share counted is a `Waive`;
  the fallback count of a container is its `own` allowance, and its death a `Forget`; the
  query that stops waiting is a `Grant` or a `Refuse`. Beside `IInv` the argument needs
  that a query keeps the job it began with and settles nothing before it is
  due (`InOrder`).
* **`DeployProofs`**: `DeployedIsWhole`, for any sources in any order, any published files and any
  number of crashes. A crash cuts one cache file at most, so cut files never outnumber faults
  (`CutsAreFaults`); an empty or cut zip or JSON file stops the build where it is read, or, for a cut list of BEA's, before
  the old artifact is removed, but an empty list of BEA's is skipped (`ReadIsReadable`); so a finished artifact is
  readable but for that (`WholeIsGood`), and
  is copied as it is (`DoneIsWhole`). `VerifiedIsWhole` is not inductive: it says nothing of the
  artifact while it is built. A server opens its catalog once the deploy is done, so the catalog it answers from is
  assembled of published rows, a file whole or short of its last ones (`Opened`, `TextIsPublished`): its entities are of
  the levels known (`EntityLevels`), a town is a row of its gazetteer (`TownRow`), and the 2020 GEOID of a town is that of a
  published row with the same permanent code (`Recoded`). What the builders write is read off them one by one
  (`CodeMade`): a code of LAUS, CES, CPI, OEWS, QCEW or BEA holds the number of the place it is filed under (`LausCoded`,
  `MetroCoded`, `CpiCoded`, `CombinedCoded`), and the id of an entity has the parts of its level (`EntitiesFormed`). Last,
  whatever is asked, the resolver answers with an entity of that catalog (`ResolvedIsListed`): candidates are ranked by a strict
  and total order, so a first one exists and every one has its place (`RanksTotal`, `AllRanked`), and `Judged` says which reply that
  ranking leads to. Two results follow about names. A question that names the kind and the state of a candidate has that candidate,
  or one that shares both, in its first tier alone, and is answered with it (`Clarifies`). A question by name alone finds every
  entity of the name when its matches fit a page (`PageHolds`, `NameFinds`); those that the answer leaves out are of one
  kind and state or far behind the most populous (`DominantLeads`, `LedByOne`), or a town whose place, of the same
  name (`TownParent`, `TwinNamed`), stands for it (`NameTells`).
* **`AnswersProofs`**: `TypeCorrect`, `ProductTold`, `RawIsTold`, `RangeKept`, `ComparedAtOnePeriod`, `CitedIsFound`,
  `ListAgrees`, `ShownAsPublished`, `AmbiguityEnds`, `NobodyInSilence`: what a reader is told with a figure, for any catalog, any calls and anything the agencies publish at any time.
  `IInv` says that a reply is what its handler makes of the call and of all it asked for (`ReplyIsMade`,
  `Settled`), and that each answer it was made from is the agency's own of one release until now, or out of time
  (`GotIsRead`); the answers of one call may be of different releases. The rest is about the handlers:
  * which series a reply shows, and that it is made of the answers under its own key (`ShownWhence`, `OneAgency`);
  * that HUD's and BEA's requests are those that were due, year by year or table by table (`HudReadsListed`,
    `BeaAsked`), so that a year without figures was asked for and is named (`HudDone`, `HudRange`);
  * that only rows within the years asked for pass each server's filter (`SeriesInRange`);
  * that every row is dated and a series has finitely many, so that a comparison's period is the latest, by year, then by
    month or quarter, of those that all its places share (`SeriesTimed`, `LatestIsLatest`);
  * that the rows behind the source a series cites, and behind the footnote of an ACS figure that fell to five years, hold
    the figure shown (`SeriesCited`, one lemma per agency), in the release it
    was read in or any later one, since an agency of the model only adds rows;
  * that a caveat names the product of the file that was read (`CensusCaveated`), and that every id of a raw
    call is in exactly one of its batches, returned with all its rows or without any, or named (`BatchOf`, `RawSpanKept`);
  * that a list resolves one place as a get does, and that both take the same substitute (`ListedAt`, `StandsIn`);
  * that the code of a row is of the row's place or of an area its caveats name (`RowNamed`, through every substitute of every
    program: `SubstituteNamed`), and that the agency's rows under that code are of that area (`HudNames`, `BeaNames`,
    `BlsNames`, `QcewNames`): so the figure shown is of the place told (`SeriesSays`);
  * that a reply carries what the resolver said of each place (`Follows`, `RowFollows`, `AnswerFollows`), so that `DeployProofs`'
    results about names are about replies.

  `NobodyInSilence` is `Spec => [](AskedByName => RivalsAreTold)`: the handlers promise this only of places asked for by name, and
  `AskedByName` says when that is. The text is not one too short to be searched, and it names no
  GEOID of the catalog, which is answered without a search; the entities that hold the text fit a page of each of the two searches (a name held by more
  than `SearchPage` others is searched in part, and the rest is passed over); and taking one suffix off the text
  leaves none, or a place and its town would differ in name. The calls of run `answers` meet it, and nothing else in the property is weakened.
  `AmbiguityEnds` has no such hypothesis.

  A fiscal year before a town's recoding is read under its old id and cited under it, and HUD's pages have no such year
  under the new one ("The first fiscal year HUD takes a recoded Connecticut town's new id", `hud-api.ts:52`).
  `CitedIsFound` rests on that: `TownsAssumption` says it of the towns of the published files, and `Recoded` that a catalog has no
  other, even one short of a text file's last rows.

In the first five modules `Invariance` states `Spec => []IInv`. Induction over naturals, which no installed
prover can instantiate, is replaced by a least counterexample (`WellOrder`).

The proofs about answers use what the agencies' data and the calls have to be, as assumptions in the modules that
declare them: years and releases are numbers, finitely many HUD pages and BEA rows, one row a series and
period (or table, place and period) for BLS and BEA, a page of Picture of its vintage of census areas, a decennial count
that is a number, an indicator of the registry and at most one place for get and list; files of rows, the gazetteers, the 2020
list of towns and the agencies' lists of codes among the sources, with GEOIDs of the parts of their level
(`FilesAssumption`); and `TownsAssumption`.
The results about names add `NamesAssumption`: names are sequences of words, a place and a town of one code have one bare name
(`deriveTownTwins` takes them for one municipality), no town is called a CDP, and the vendored pairs nest nothing in a
town; `KindsAssumption` and `GeographyAssumption`: the absence of a kind is no kind, and that of a state neither a state's number nor its code;
and that a place asked for has the fields the resolver reads (`AnswersAssumption`).

`ShownAsPublished` needs to know what an agency means by its codes, since nothing in this repository could say that BEA's
`06037` is Los Angeles County. `HudCodesAssumption`, `BeaCodesAssumption`, `BlsCodesAssumption` and `QcewCodesAssumption` say it of
each agency's **own** rows, by the form of the code and the agency's own published lists, and never mention the catalog:
that the catalog's codes are these, for the place asked or the one named in its stead, is what is proved.
HUD's county id ends in a suffix, and a town is its GEOID or the one of 2020; BEA's combinations are those of its list;
the LAUS code of a town leaves its county out, so one series is of every part of the town; a QCEW file may hold
a row of another industry beside the one asked for, told apart by its aggregation level alone ("agglvl_code disambiguates rows that
share an industry_code", `qcew.ts`).

**Only model-checked:**

* Liveness (`EveryCallEnds`, twice, and `EveryRequestEnds`), which this prover does not reach, and the refuted properties.
* `NewestIsShown`. It is not true for every value of the constants. A list of codes that a crash cut short in the download cache
  (LAUS, CPI) can leave a place without its code; the area that stands in is shown with its caveat, and nothing
  says that its newest period is as new as the place's own. In a whole catalog it still needs that no row of the area
  shown is filed under another code than the one asked for: the converse of the assumptions on codes, which no
  document of the agencies promises.

## 5. What the code does that a reader may not expect

Met while modelling; nothing in the repository says otherwise, so these are not findings.
The models have each of them.

* `deploy.sh:63` takes an artifact that a crash left half written for present. The last check of the deploy
  catches it, and the operator has to remove it.
* A text file cut by a crash while it was written to the download cache is trusted from then on
  (`download.ts:154-173`): the catalog is short of its rows (`VerifiedIsWhole` says how many files at most). Cached
  sources never expire. `writeFile` empties the file first: a BEA list left at 0 bytes is skipped without a word
  (`assemble.ts:115`), and the catalog that is built, deployed and verified knows none of BEA's combinations.
* An unknown population counts as none when a town or a metro is dominated, but stops
  dominance between states.
* Picture of Subsidized Households keeps the newest year alone unless years are asked for, and so does
  QCEW: a comparison of places whose newest differ shows none of them, without a note.
* A range that ends before it starts has no observations and no note for Fair Market Rents, Income Limits and QCEW. CHAS serves
  one release whatever the range; ACS and the decennial census ignore it.
* An ACS figure that fell back to five years cites the id it was asked under, the one-year one: ACS indicators have no
  `sourceOf` (`tools.ts:265-280`, `acs.ts:240-252`). Only its footnote and its period tell; `CitedIsRead` follows the
  source and that footnote.
* A query counted before midnight and sent after it is on top of the new day's service budget and container budget:
  `BudgetsCoverQueries` and `ShareAcrossMidnight` count it apart.
* `bls_get_raw` names the ids that no reply has. BLS lists a series it does not have without data, and such an id
  gets no note (`get-indicator.ts:212-221`), though the comment at 210 speaks of one that "came back empty".
* When one place of an ACS comparison falls from one year to five, no period is shared
  with the others. Where all fall, they are met on five years beforehand.
* A range that holds no year of a BEA table is asked for all the same, with an empty list of years
  (`gdp-indicators.ts:162-176`); the comment of another table calls that "a call BEA would reject". The model's
  BEA has no row for it, or the request fails. Without a range no year is sent and BEA answers with its last five.
* A state or kind option that is not recognised is ignored.
* Same-name entities of one kind and state, other than towns, are told apart by land area, without asking.
* `latestPublishedQuarter` overflows on days the month six months back lacks: on 31 December it names the
  third quarter already, and asks for a file that is not out. The look-back covers it.
* `bls_get_raw` caps a request at 20 years and says so, and sends no years when none is named (BLS then chooses); `bls_get_indicator` does not cap.

## 6. Not modelled

* Of the server shell: resources, `describe_source`, stdio, the rendering of answers
  and the texts of errors; of identity: hashing, the parsing of addresses, the syntax of headers,
  and a deployment without a secret, which knows no caller.
* Test limits (an operator's header that lowers a limit for one call) would give
  a key two limits. `Limiter` gives it one.
* Publication during a QCEW call with its cache: `QcewHistory` fixes what the agency holds, and `Answers`,
  where agencies publish, has no cache.
* Rounding errors of floating point in the bucket.
* Of the build: field splitting, XML, Geocorr's transformation to edges, and the contents of the static tables; of the
  deployment: keys, Terraform, the portal and aliases; of the BEA server: the bulk GeoFips of its raw tool.
* The agencies' APIs, SQLite, the SDK and Lambda: external, as choices of the environment.
* String building and parsing (series ids, CSV), schemas, wording, the geography benchmark
  and the contract checks: no behaviour over time.

## 7. Plan

Done: `Limiter`, `HttpClient`, `RateGate`, `QcewHistory`, `ToolCall`, each with its proofs; `Geography`,
the fetch modules, `Indicators`, `GeographyBuild` and `Answers`; the budget that `Limiter` implements; the proofs
about the deployed and the opened catalog, about asking QCEW again, about what is told with a figure and whose it is,
and about namesakes.

Left: `NewestIsShown` for whole catalogs, as a theorem; a *ledger* (each slice's verdict
settles once, an answer only after all) that `QcewHistory` implements; publication in `QcewHistory`, with the ages of
its cached slices; the limiter of `ToolCall` replaced by `DailyBudget`, whose refusals may be waived.
