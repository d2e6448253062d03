------------------------------- MODULE Limiter -------------------------------
(***************************************************************************)
(* The persistent limiter of packages/core (limits/persistent-limiter.ts)  *)
(* over its two counter stores (limits/dynamo-store.ts, the table every    *)
(* container shares, and limits/counter-store.ts, the fallback each        *)
(* container keeps).  A query is one call of beginToolCall (kind "tool")   *)
(* or beforeUpstream (kind "upstream").  It runs without interruption up   *)
(* to an await of the store; the store performs the conditional increment  *)
(* at a moment of its own, and the query resumes when the answer arrives.  *)
(* Queries of one container and of several containers interleave at those  *)
(* points, and a container may die at any of them.                         *)
(*                                                                         *)
(* Log lines, expiry times, and the numbers an error message repeats are   *)
(* left out: no counter or verdict depends on them.                        *)
(***************************************************************************)
EXTENDS Integers, FiniteSets

CONSTANTS
  Container,       \* Lambda containers: one limiter in each
  Query,           \* calls of the limiter over the life of the system
  Workload,        \* what those calls may be: the traffic clients offer
  Source,          \* upstream budget keys ("bls", "bls-qcew", "hud", ...)
  Caller,          \* caller keys, with their scope; bypass callers included
  LastDay,         \* the UTC days are 1..LastDay
  ServiceDaily,    \* config.serviceDaily, per source
  UpstreamDaily,   \* a caller's upstreamDaily (or its testLimit), per caller
  ToolCallsDaily,  \* a caller's toolCallsDaily (or its testLimit), per caller
  NoLimit,         \* an absent configuration entry, or a caller that bypasses
  Everyone,        \* the caller field of a service key
  AllSources,      \* the source field of a toolCalls key ("*")
  NoJob            \* what an unused query is doing

Count == Nat \cup {NoLimit}

ASSUME ConfigAssumption ==
  /\ LastDay \in Nat \ {0}
  /\ NoLimit \notin Nat
  /\ ServiceDaily \in [Source -> Count]
  /\ UpstreamDaily \in [Caller -> Count]
  /\ ToolCallsDaily \in [Caller -> Count]

Day == 1 .. LastDay

\* One counter each: svc#<source>#<day> and <scope>#<kind>#<source|*>#<caller>#<day>.
Key ==
  [kind : {"service"}, source : Source, caller : {Everyone}, day : Day]
    \cup [kind : {"upstream"}, source : Source, caller : Caller, day : Day]
    \cup [kind : {"toolCalls"}, source : {AllSources}, caller : Caller, day : Day]

Limit(k) ==
  CASE k.kind = "service"   -> ServiceDaily[k.source]
    [] k.kind = "upstream"  -> UpstreamDaily[k.caller]
    [] k.kind = "toolCalls" -> ToolCallsDaily[k.caller]

Job == [kind : {"tool", "upstream"}, container : Container,
        source : Source, caller : Caller, day : Day]

ASSUME WorkloadAssumption == Workload \subseteq Job /\ NoJob \notin Job

VARIABLES
  day,       \* the current UTC day
  store,     \* the table: the count of each key, 0 for an item never written
  over,      \* per container, the keys known to be over their limit
  fallback,  \* per container, the counts of its MemoryCounterStore
  pc,        \* where each query is
  job,       \* what each query was called with
  wire,      \* the store request a query has out, as the store sees it
  shareBy,   \* history: who counted the query's share unit
  serviceBy, \* history: who counted its service unit
  lost       \* queries whose container died under them

vars == <<day, store, over, fallback, pc, job, wire, shareBy, serviceBy, lost>>

Stage == {"share", "service"}
TypeOK ==
  /\ day \in Day
  /\ store \in [Key -> Nat]
  /\ over \in [Container -> SUBSET Key]
  /\ fallback \in [Container -> [Key -> Nat]]
  /\ pc \in [Query -> {"idle", "granted", "refused"} \cup Stage]
  /\ job \in [Query -> Job \cup {NoJob}]
  /\ \A q \in Query : pc[q] # "idle" => job[q] \in Job
  /\ \A q \in Query : wire[q] = "quiet" <=> pc[q] \notin Stage
  /\ wire \in [Query -> {"quiet", "sent", "resent", "applied", "refused", "failed"}]
  /\ shareBy \in [Query -> {"no", "store", "open"}]
  /\ serviceBy \in [Query -> {"no", "store", "fallback"}]
  /\ lost \subseteq Query

Init ==
  /\ day = 1
  /\ store = [k \in Key |-> 0]
  /\ over = [c \in Container |-> {}]
  /\ fallback = [c \in Container |-> [k \in Key |-> 0]]
  /\ pc = [q \in Query |-> "idle"]
  /\ job = [q \in Query |-> NoJob]
  /\ wire = [q \in Query |-> "quiet"]
  /\ shareBy = [q \in Query |-> "no"]
  /\ serviceBy = [q \in Query |-> "no"]
  /\ lost = {}

-----------------------------------------------------------------------------
(* The keys a call counts: the empty set where the code has `undefined`.   *)

ShareKeyOf(j) ==
  IF j.kind = "tool"
  THEN [kind |-> "toolCalls", source |-> AllSources, caller |-> j.caller, day |-> j.day]
  ELSE [kind |-> "upstream", source |-> j.source, caller |-> j.caller, day |-> j.day]

ServiceKeyOf(j) ==
  [kind |-> "service", source |-> j.source, caller |-> Everyone, day |-> j.day]

shareCounted(j) ==
  IF Limit(ShareKeyOf(j)) = NoLimit THEN {} ELSE {ShareKeyOf(j)}

serviceCounted(j) ==
  IF j.kind = "tool" \/ ServiceDaily[j.source] = NoLimit THEN {} ELSE {ServiceKeyOf(j)}

\* The key of the increment a query is waiting for.
AwaitedKey(q) == IF pc[q] = "share" THEN ShareKeyOf(job[q]) ELSE ServiceKeyOf(job[q])

\* Mutant: any key over its limit stops every key.
KnownOverAny(c, keys) == over[c] # {}

KnownOver(c, keys) == keys \cap over[c] # {}

\* Mutant: the condition compares with max instead of max - by.
AdmitsOneMore(k) == store[k] = 0 \/ store[k] <= Limit(k)

\* ConditionExpression "attribute_not_exists(#count) OR #count <= max - 1":
\* an item exists exactly when its count is not 0.
Admits(k) == store[k] = 0 \/ store[k] <= Limit(k) - 1

\* MemoryCounterStore: refused when current + by > max.
FallbackAdmits(c, k) == fallback[c][k] + 1 <= Limit(k)

-----------------------------------------------------------------------------
(* A query, between two awaits.                                            *)

\* Where a query goes once its share is settled: charge() looks at `over`
\* again before it writes, and a source without a budget needs no more.
AfterShare(j) ==
  IF serviceCounted(j) = {} THEN "granted"
  ELSE IF KnownOver(j.container, serviceCounted(j)) THEN "refused"
  ELSE "service"

\* What a call does up to its first await: refuse from memory when either
\* key is known to be over, else count the share first.
AtBegin(j) ==
  IF KnownOver(j.container, shareCounted(j) \cup serviceCounted(j)) THEN "refused"
  ELSE IF shareCounted(j) # {} THEN "share"
  ELSE AfterShare(j)

\* Mutant: a query that has finished sends another request.
GoToSending(q, s) ==
  /\ pc' = [pc EXCEPT ![q] = s]
  /\ wire' = [wire EXCEPT ![q] = "sent"]

\* Query q moves to stage s, sending a store request when s awaits one.
GoTo(q, s) ==
  /\ pc' = [pc EXCEPT ![q] = s]
  /\ wire' = [wire EXCEPT ![q] = IF s \in Stage THEN "sent" ELSE "quiet"]

Begin(q, j) ==
  /\ pc[q] = "idle"
  /\ j.day = day
  /\ job' = [job EXCEPT ![q] = j]
  /\ GoTo(q, AtBegin(j))
  /\ UNCHANGED <<day, store, over, fallback, shareBy, serviceBy, lost>>

\* A query still running resumes with what the store answered.
Resumes(q, stage, answer) ==
  /\ pc[q] = stage
  /\ wire[q] = answer
  /\ q \notin lost

\* Mutant: a refused share is let through.
ShareSettledAnyway(q) ==
  /\ \/ /\ Resumes(q, "share", "applied")
        /\ shareBy' = [shareBy EXCEPT ![q] = "store"]
     \/ /\ Resumes(q, "share", "failed")
        /\ shareBy' = [shareBy EXCEPT ![q] = "open"]
     \/ Resumes(q, "share", "refused") /\ UNCHANGED shareBy
  /\ GoTo(q, AfterShare(job[q]))
  /\ UNCHANGED <<day, store, over, fallback, job, serviceBy, lost>>

\* The share is counted, or the store failed and the share is let through.
ShareSettled(q) ==
  /\ \/ /\ Resumes(q, "share", "applied")
        /\ shareBy' = [shareBy EXCEPT ![q] = "store"]
     \/ /\ Resumes(q, "share", "failed")
        /\ shareBy' = [shareBy EXCEPT ![q] = "open"]
  /\ GoTo(q, AfterShare(job[q]))
  /\ UNCHANGED <<day, store, over, fallback, job, serviceBy, lost>>

\* Either key was over its limit: remember it, and refuse.
StoreRefused(q) ==
  /\ \E s \in Stage : Resumes(q, s, "refused")
  /\ over' = [over EXCEPT ![job[q].container] = @ \cup {AwaitedKey(q)}]
  /\ GoTo(q, "refused")
  /\ UNCHANGED <<day, store, fallback, job, shareBy, serviceBy, lost>>

ServiceCharged(q) ==
  /\ Resumes(q, "service", "applied")
  /\ serviceBy' = [serviceBy EXCEPT ![q] = "store"]
  /\ GoTo(q, "granted")
  /\ UNCHANGED <<day, store, over, fallback, job, shareBy, lost>>

\* Mutant: a failed store counts as a spent budget.
ServiceFailsClosed(q) ==
  /\ Resumes(q, "service", "failed")
  /\ over' = [over EXCEPT ![job[q].container] = @ \cup {ServiceKeyOf(job[q])}]
  /\ GoTo(q, "refused")
  /\ UNCHANGED <<day, store, fallback, job, shareBy, serviceBy, lost>>

\* Mutant: a failed store lets the query through without a count of its own.
ServiceFailsOpen(q) ==
  /\ Resumes(q, "service", "failed")
  /\ GoTo(q, "granted")
  /\ UNCHANGED <<day, store, over, fallback, job, shareBy, serviceBy, lost>>

\* The store failed: the container's own count decides (its increment is an
\* async function without an await, so nothing runs between check and add).
ServiceDegraded(q) ==
  LET c == job[q].container
      k == ServiceKeyOf(job[q])
  IN
  /\ Resumes(q, "service", "failed")
  /\ \/ /\ FallbackAdmits(c, k)
        /\ fallback' = [fallback EXCEPT ![c][k] = @ + 1]
        /\ serviceBy' = [serviceBy EXCEPT ![q] = "fallback"]
        /\ GoTo(q, "granted")
        /\ UNCHANGED over
     \/ /\ ~ FallbackAdmits(c, k)
        /\ over' = [over EXCEPT ![c] = @ \cup {k}]
        /\ GoTo(q, "refused")
        /\ UNCHANGED <<fallback, serviceBy>>
  /\ UNCHANGED <<day, store, job, shareBy, lost>>

Resume(q) == ShareSettled(q) \/ StoreRefused(q) \/ ServiceCharged(q) \/ ServiceDegraded(q)

-----------------------------------------------------------------------------
(* The store, on a request that is out (its sender may be dead by now).    *)

Out(q) == wire[q] \in {"sent", "resent"}

StoreAdds(q, reply) ==
  /\ Out(q)
  /\ Admits(AwaitedKey(q))
  /\ store' = [store EXCEPT ![AwaitedKey(q)] = @ + 1]
  /\ wire' = [wire EXCEPT ![q] = reply]
  /\ UNCHANGED <<day, over, fallback, pc, job, shareBy, serviceBy, lost>>

\* The increment happens, and its answer arrives, or is lost and reported as
\* an error.
StoreApplies(q) == StoreAdds(q, "applied")
StoreAppliesUnheard(q) == StoreAdds(q, "failed")

\* The increment happens, its answer is lost, and the SDK sends it again.
\* (By default it retries twice; the model lets it happen once a request.)
StoreAppliesResent(q) == wire[q] = "sent" /\ StoreAdds(q, "resent")

StoreAnswers(q, reply) ==
  /\ Out(q)
  /\ wire' = [wire EXCEPT ![q] = reply]
  /\ UNCHANGED <<day, store, over, fallback, pc, job, shareBy, serviceBy, lost>>

\* The condition fails: nothing is written.
StoreRefuses(q) == StoreAnswers(q, "refused") /\ ~ Admits(AwaitedKey(q))

\* The store is down, throttled or unreachable: nothing is written.
StoreFails(q) == StoreAnswers(q, "failed")

StoreStep(q) ==
  \/ StoreApplies(q)
  \/ StoreAppliesUnheard(q)
  \/ StoreAppliesResent(q)
  \/ StoreRefuses(q)
  \/ StoreFails(q)

-----------------------------------------------------------------------------
(* The environment.                                                        *)

NextDay ==
  /\ day < LastDay
  /\ day' = day + 1
  /\ UNCHANGED <<store, over, fallback, pc, job, wire, shareBy, serviceBy, lost>>

RunningIn(c) == {q \in Query : pc[q] \in Stage /\ job[q].container = c}

\* The container dies and a fresh one takes its place: its memory is gone,
\* its queries never resume, and requests they have out may still land.
Restart(c) ==
  /\ \/ over[c] # {}
     \/ \E k \in Key : fallback[c][k] # 0
     \/ RunningIn(c) \ lost # {}
  /\ over' = [over EXCEPT ![c] = {}]
  /\ fallback' = [fallback EXCEPT ![c] = [k \in Key |-> 0]]
  /\ lost' = lost \cup RunningIn(c)
  /\ UNCHANGED <<day, store, pc, job, wire, shareBy, serviceBy>>

Next ==
  \/ \E q \in Query : (\E j \in Workload : Begin(q, j)) \/ Resume(q) \/ StoreStep(q)
  \/ \E c \in Container : Restart(c)
  \/ NextDay

Spec == Init /\ [][Next]_vars

-----------------------------------------------------------------------------
(* Properties.                                                             *)

\* Queries that had their share, or service, unit for key k counted by the
\* store and know it, or are about to learn it.
PaidShare(k) ==
  {q \in Query : /\ pc[q] # "idle"
                 /\ k = ShareKeyOf(job[q])
                 /\ \/ shareBy[q] = "store"
                    \/ pc[q] = "share" /\ wire[q] = "applied"}

PaidService(k) ==
  {q \in Query : /\ pc[q] # "idle"
                 /\ k = ServiceKeyOf(job[q])
                 /\ \/ serviceBy[q] = "store"
                    \/ pc[q] = "service" /\ wire[q] = "applied"}

\* What a counter can reach: a table item that does not exist yet admits its
\* first unit whatever the limit is.
Ceiling(k) == IF Limit(k) = 0 THEN 1 ELSE Limit(k)

\* No interleaving of containers, lost or repeated store answer, or restart
\* lets more queries through on the store's word than a key's daily limit;
\* and no container's fallback lets through more than that by itself.
BudgetHeld ==
  \A k \in Key : Limit(k) # NoLimit =>
    /\ Cardinality(PaidShare(k)) <= Ceiling(k)
    /\ Cardinality(PaidService(k)) <= Ceiling(k)
    /\ \A c \in Container : fallback[c][k] <= Limit(k)

\* Queries of caller u to source s on day d that spent a unit of the service
\* budget, and those whose share was let through by a store failure.
Drew(u, s, d) ==
  {q \in Query : /\ pc[q] # "idle"
                 /\ job[q].kind = "upstream" /\ job[q].caller = u
                 /\ job[q].source = s /\ job[q].day = d
                 /\ \/ serviceBy[q] # "no"
                    \/ pc[q] = "service" /\ wire[q] = "applied"}

Waived(u, s, d) ==
  {q \in Query : /\ pc[q] # "idle"
                 /\ job[q].kind = "upstream" /\ job[q].caller = u
                 /\ job[q].source = s /\ job[q].day = d
                 /\ shareBy[q] = "open"}

\* One caller cannot drain the budget everyone shares: it spends at most its
\* own share of it, plus one unit for each query the store failed to count
\* ("a script looping on refusals cannot drain it for everyone").
ShareShieldsService ==
  \A u \in Caller, s \in Source, d \in Day :
    UpstreamDaily[u] # NoLimit =>
      Cardinality(Drew(u, s, d))
        <= (IF UpstreamDaily[u] = 0 THEN 1 ELSE UpstreamDaily[u])
             + Cardinality(Waived(u, s, d))

\* A counter some container can see at its limit.
Spent(c, k) == Limit(k) # NoLimit /\ (store[k] >= Limit(k) \/ fallback[c][k] >= Limit(k))

\* What a container remembers as over its limit is over it, whatever was
\* counted, failed or lost since, so refusing from memory refuses nobody early.
OverIsSound == \A c \in Container : \A k \in over[c] : Spent(c, k)

\* A query is refused only when a counter of its own, for its own day, is
\* spent: neither another caller's, nor yesterday's, nor a store failure.
RefusalIsJustified ==
  [][\A q \in Query :
       pc[q] # "refused" /\ pc'[q] = "refused" =>
         \E k \in Key : /\ k.day = job'[q].day
                        /\ k.caller \in {job'[q].caller, Everyone}
                        /\ k.source \in {job'[q].source, AllSources}
                        /\ Spent(job'[q].container, k)]_vars

\* "With `max`, the add happens only when the result stays at or below `max`"
\* (counter-store.ts): no item of the table ever passes its limit.
NothingPastMax == \A k \in Key : Limit(k) # NoLimit => store[k] <= Limit(k)

-----------------------------------------------------------------------------
(* The promise of the limiter, and what the queries hold of it.            *)

\* A share is paid once the store has counted it and its query has heard, or
\* is about to; so is the service budget.
PaidBy(q) ==
  (IF shareBy[q] = "store" \/ (pc[q] = "share" /\ wire[q] = "applied")
   THEN {ShareKeyOf(job[q])} ELSE {})
  \cup (IF serviceBy[q] = "store" \/ (pc[q] = "service" /\ wire[q] = "applied")
        THEN {ServiceKeyOf(job[q])} ELSE {})

Verdict(q) == IF pc[q] \in {"granted", "refused"} THEN pc[q] ELSE "open"

Budget == INSTANCE DailyBudget WITH
  Job <- Workload,
  Allowed <- [k \in Key |-> Limit(k)],
  Shares <- [j \in Workload |-> shareCounted(j)],
  Services <- [j \in Workload |-> serviceCounted(j)],
  Home <- [j \in Workload |-> j.container],
  spent <- store,
  own <- fallback,
  asked <- job,
  paid <- [q \in Query |-> PaidBy(q)],
  waived <- {q \in Query : shareBy[q] = "open"},
  verdict <- [q \in Query |-> Verdict(q)]

\* Lost and repeated answers, dead containers, the fallback and the memory of
\* spent keys are invisible to callers: whatever the limiter does is counting
\* within the ceilings, in the order share then service, granting what is paid
\* or waived, and refusing what is full.
BudgetIsKept == Budget!Spec

=============================================================================
