------------------------------ MODULE ToolCall ------------------------------
(***************************************************************************)
(* A tool call from the request to the answer (packages/core: server/, and *)
(* the order of counting in http/client.ts).  An HTTP request is           *)
(* identified, queued for its container's one MCP server, counted, and     *)
(* runs a tool.  The tool queries the agency, several queries at a time;   *)
(* each is counted against its caller's share and the service budget, then *)
(* against the container's own budget, then sent: three steps, and         *)
(* midnight or other queries may fall between any two.  The first failed   *)
(* query may end the call while its other queries go on, into the time of  *)
(* the next call of the container.  The answer carries the notes its own   *)
(* queries left, and every call writes a metrics line.                     *)
(*                                                                         *)
(* The limiter is here what Limiter promises of it when its table works:   *)
(* one step that counts or refuses, on the day of its own clock.  Whether  *)
(* the cache has a fresh or a servable entry, and how an attempt ends, is  *)
(* the environment's choice: HttpClient has both.  Left out: what tools    *)
(* compute, how answers are rendered, hashing and the parsing of addresses.*)
(***************************************************************************)
EXTENDS Integers, FiniteSets, Sequences

CONSTANTS
  Container,      \* processes: one McpServer, one budget, one queue in each
  Request,        \* HTTP requests
  Home,           \* the container that gets each request
  Queries,        \* the queries each request's tool may make of the agency, 1..n
  Offer,          \* what each request may be
  Address,        \* source addresses
  NetworkOf,      \* networkOf: IPv4, the /64 of IPv6
  Pool,           \* the network of the claude.ai range
  TestRun,        \* run ids of operator smoke tests
  Nobody,         \* no address, no test run, no caller, no transport
  LastDay,        \* the UTC days are 1..LastDay
  UpstreamShare,  \* upstreamDaily of a network and of the pool
  ToolShare,      \* toolCallsDaily of a network and of the pool
  TestLimit,      \* testLimit
  ServiceDaily,   \* serviceDaily of the source
  OwnDaily,       \* limitPerDay of a container's MemoryBudgetStore
  Elsewhere       \* queries other containers counted before, on the first day

ASSUME CallAssumption ==
  /\ Home \in [Request -> Container]
  /\ Queries \in [Request -> SUBSET Nat]
  /\ NetworkOf \in [Address -> STRING]
  /\ LastDay \in Nat \ {0}
  /\ UpstreamShare \in Nat \ {0} /\ ToolShare \in Nat \ {0} /\ TestLimit \in Nat \ {0}
  /\ ServiceDaily \in Nat \ {0} /\ OwnDaily \in Nat
  /\ Elsewhere \in 0 .. ServiceDaily

Day == 1 .. LastDay
Network == {NetworkOf[a] : a \in Address}
Query == UNION {Queries[r] : r \in Request}

\* A request: whether it is a POST to the served path; whether it came through
\* the Lambda adapter; its TCP peer; a source header the client wrote itself;
\* its operator header ("twice": under two spellings); its test-limit header.
Event ==
  [served : BOOLEAN, adapter : BOOLEAN, peer : Address, claim : Address \cup {Nobody},
   operator : {"none", "token", "wrong", "twice"}, test : TestRun \cup {Nobody}]

ASSUME OfferAssumption == Offer \in [Request -> SUBSET Event]

\* A caller's key: a network on a day (the hash of both), the pool, a test run.
CallerKey ==
  [of : {"network"}, name : Network \ {Pool}, day : Day]
    \cup [of : {"pool"}, name : {Pool}, day : {0}]
    \cup [of : {"test"}, name : TestRun, day : {0}]

Caller == [key : CallerKey, kind : {"network", "pool"}, bypass : BOOLEAN]

-----------------------------------------------------------------------------
(* Identity.                                                               *)

\* Mutant: a source header the client sent survives the adapter.
HeadersKept(e) ==
  [source |-> IF e.claim # Nobody THEN e.claim ELSE e.peer, attested |-> e.adapter,
   operator |-> e.operator = "token", test |-> e.test]

\* The headers the handler sees.  The adapter drops what the client claims,
\* asserts the peer with this process's nonce, and drops an operator header
\* that came twice; a request that reaches the handler without it has no nonce.
Headers(e) ==
  [source |-> IF e.adapter THEN e.peer ELSE e.claim, attested |-> e.adapter,
   operator |-> e.operator = "token", test |-> e.test]

\* callerFor, then identify: no attestation, no caller; an operator's test run
\* before the pool, the pool before a network.
Identify(h, d) ==
  IF ~ h.attested \/ h.source = Nobody THEN Nobody
  ELSE IF h.operator /\ h.test # Nobody
  THEN [key |-> [of |-> "test", name |-> h.test, day |-> 0], kind |-> "network", bypass |-> FALSE]
  ELSE IF NetworkOf[h.source] = Pool
  THEN [key |-> [of |-> "pool", name |-> Pool, day |-> 0], kind |-> "pool", bypass |-> h.operator]
  ELSE [key |-> [of |-> "network", name |-> NetworkOf[h.source], day |-> d],
        kind |-> "network", bypass |-> h.operator]

VARIABLES
  day,        \* the current UTC day
  share,      \* the table: upstream queries of a caller's key on a day
  tools,      \* the table: tool calls of a caller's key on a day
  service,    \* the table: upstream queries of everyone on a day
  over,       \* per container, the shares and service budgets it knows are spent
  own,        \* per container, its own count of a day
  queue,      \* per container, requests in order of arrival, the head running
  transport,  \* per container, the request whose transport the server holds
  event,      \* what each request is
  pc,         \* where it is
  who,        \* its caller
  query,      \* what became of each of its queries
  notes,      \* the notes of its context, and whose query left each
  fetched,    \* upstreamCalls.count of its context
  lines,      \* the metrics lines it wrote
  reply,      \* what came back on its connection
  counted,    \* history: the day share and service counted each query, 0 if they did not
  granted,    \* history: the day its container's own budget did
  sent        \* history: the day it was sent

vars == <<day, share, tools, service, over, own, queue, transport, event, pc, who, query,
          notes, fetched, lines, reply, counted, granted, sent>>
counts == <<share, tools, service, over, own>>
days == <<counted, granted, sent>>
context == <<query, notes, fetched, days>>

Failed == {"error", "network", "pool", "service"}
Outcome == {"ok", "stale", "error", "network", "pool", "service"}
NoteKind == {"stale", "near"}

\* A query on its way: counted by the limiter, granted by the container, sent.
Under == {"counted", "granted", "out"}
Dates == [Request -> [Query -> Day \cup {0}]]

Line == [outcome : Outcome, upstream : Nat]
Reply == [of : Request, outcome : Outcome \ {"stale"}, limitations : SUBSET (NoteKind \X Request)]

TypeOK ==
  /\ day \in Day
  /\ share \in [CallerKey \X Day -> Nat]
  /\ tools \in [CallerKey \X Day -> Nat]
  /\ service \in [Day -> 0 .. ServiceDaily]
  /\ over \in [Container -> [share : SUBSET (CallerKey \X Day), service : SUBSET Day]]
  /\ own \in [Container -> [Day -> 0 .. OwnDaily]]
  /\ queue \in [Container -> Seq(Request)]
  /\ transport \in [Container -> Request \cup {Nobody}]
  /\ event \in [Request -> Event \cup {Nobody}]
  /\ pc \in [Request -> {"new", "queued", "handling", "answered", "threw", "broken", "turned away"}]
  /\ who \in [Request -> Caller \cup {Nobody}]
  /\ query \in [Request -> [Query -> {"idle", "done", "excused"} \cup Under \cup Failed]]
  /\ notes \in [Request -> SUBSET (NoteKind \X Request)]
  /\ fetched \in [Request -> Nat]
  /\ lines \in [Request -> Seq(Line)]
  /\ reply \in [Request -> Reply \cup {Nobody}]
  /\ counted \in Dates /\ granted \in Dates /\ sent \in Dates

Init ==
  /\ day = 1
  /\ share = [k \in CallerKey \X Day |-> 0]
  /\ tools = [k \in CallerKey \X Day |-> 0]
  /\ service = [d \in Day |-> IF d = 1 THEN Elsewhere ELSE 0]
  /\ over = [c \in Container |-> [share |-> {}, service |-> {}]]
  /\ own = [c \in Container |-> [d \in Day |-> 0]]
  /\ queue = [c \in Container |-> <<>>]
  /\ transport = [c \in Container |-> Nobody]
  /\ event = [r \in Request |-> Nobody]
  /\ pc = [r \in Request |-> "new"]
  /\ who = [r \in Request |-> Nobody]
  /\ query = [r \in Request |-> [q \in Query |-> "idle"]]
  /\ notes = [r \in Request |-> {}]
  /\ fetched = [r \in Request |-> 0]
  /\ lines = [r \in Request |-> <<>>]
  /\ reply = [r \in Request |-> Nobody]
  /\ counted = [r \in Request |-> [q \in Query |-> 0]]
  /\ granted = [r \in Request |-> [q \in Query |-> 0]]
  /\ sent = [r \in Request |-> [q \in Query |-> 0]]

-----------------------------------------------------------------------------
(* The queue.                                                              *)

\* A request arrives: it is queued behind those before it, or turned away.
Arrive(r, e) ==
  /\ pc[r] = "new"
  /\ event' = [event EXCEPT ![r] = e]
  /\ IF e.served
     THEN /\ pc' = [pc EXCEPT ![r] = "queued"]
          /\ queue' = [queue EXCEPT ![Home[r]] = Append(@, r)]
     ELSE /\ pc' = [pc EXCEPT ![r] = "turned away"]
          /\ UNCHANGED queue
  /\ UNCHANGED <<day, counts, transport, who, context, lines, reply>>

\* Mutant: a request does not wait for the one before it.
MyTurnAtOnce(r) == pc[r] = "queued"

\* The requests before r have been answered, or have failed.
MyTurn(r) == pc[r] = "queued" /\ Head(queue[Home[r]]) = r

\* Mutant: the queue goes on only after a success.
CanCloseAfterSuccess(r) == pc[r] = "answered"

CanClose(r) == pc[r] \in {"answered", "threw", "broken"}

\* The head is over, well or badly: its transport is closed and the queue goes on.
Close(c) ==
  /\ queue[c] # <<>>
  /\ CanClose(Head(queue[c]))
  /\ queue' = [queue EXCEPT ![c] = Tail(@)]
  /\ transport' = [transport EXCEPT ![c] = Nobody]
  /\ UNCHANGED <<day, counts, event, pc, who, context, lines, reply>>

\* The connection or the transport fails: the request gets no answer from the tool.
TransportFails(r) ==
  /\ MyTurn(r)
  /\ pc' = [pc EXCEPT ![r] = "broken"]
  /\ UNCHANGED <<day, counts, queue, transport, event, who, context, lines, reply>>

-----------------------------------------------------------------------------
(* The answer.                                                             *)

\* The answer of r goes out on the transport the server holds.
Answer(to, r, outcome, limitations) ==
  reply' = [reply EXCEPT ![to] =
              [of |-> r, outcome |-> outcome, limitations |-> limitations]]

Held(r) == transport[Home[r]]

Writes(r, more) == lines' = [lines EXCEPT ![r] = @ \o more]

\* The line of a call whose tool threw: it reports no queries.
ErrorLine(outcome) == [outcome |-> outcome, upstream |-> 0]

-----------------------------------------------------------------------------
(* The call.                                                               *)

\* The share of a caller, of upstream queries or of tool calls; none when it
\* bypasses shares or there is no caller.
Shared(w) == w # Nobody /\ ~ w.bypass
Limit(w, ordinary) == IF w.key.of = "test" THEN TestLimit ELSE ordinary

CallRefused(w, d) == Shared(w) /\ tools[<<w.key, d>>] >= Limit(w, ToolShare)

\* A request gets its turn: it is connected and identified, its tool call is
\* counted, and its tool starts; or its caller has no tool call left.
Open(r) ==
  LET w == Identify(Headers(event[r]), day) IN
  /\ MyTurn(r)
  /\ transport' = [transport EXCEPT ![Home[r]] = r]
  /\ who' = [who EXCEPT ![r] = w]
  /\ \/ /\ CallRefused(w, day)
        /\ pc' = [pc EXCEPT ![r] = "answered"]
        /\ Writes(r, <<ErrorLine(w.kind)>>)
        /\ Answer(r, r, w.kind, {})
        /\ UNCHANGED tools
     \/ /\ ~ CallRefused(w, day)
        /\ pc' = [pc EXCEPT ![r] = "handling"]
        /\ tools' = IF Shared(w) THEN [tools EXCEPT ![<<w.key, day>>] = @ + 1] ELSE tools
        /\ UNCHANGED <<lines, reply>>
  /\ UNCHANGED <<day, share, service, over, own, queue, event, context>>

\* Mutant: one context for the process, that of the call opened last.
LatestContext(r) ==
  IF transport[Home[r]] # Nobody THEN transport[Home[r]] ELSE r

\* currentCall(): the context a query runs in is that of the call that made it.
Context(r) == r

\* A call makes queries while its tool runs.  Those of a call that threw go
\* on: its tool had started them together (HUD, QCEW), or in turn, and then the
\* model lets more of them go on than the code.
Runs(r, q) == q \in Queries[r] /\ pc[r] \in {"handling", "threw"}

\* Queries are numbered in the order they are made.
Starts(r, q) ==
  /\ Runs(r, q) /\ query[r][q] = "idle"
  /\ \A p \in Queries[r] : p < q => query[r][p] # "idle"

Settles(r, q, how) == query' = [query EXCEPT ![r][q] = how]

Leave(kind, r, left) == [left EXCEPT ![Context(r)] = @ \cup {<<kind, r>>}]

\* What a failure is answered with: a servable entry, which says why when the
\* query was refused; or the error, with the scope of the refusal.  `left` is
\* what the notes were.
Fails(r, q, servable, scope, left) ==
  \/ /\ servable /\ scope = "error"
     /\ Settles(r, q, "done")
     /\ notes' = left
  \/ /\ servable /\ scope # "error"
     /\ Settles(r, q, "excused")
     /\ notes' = Leave("stale", r, left)
  \/ /\ ~ servable
     /\ Settles(r, q, scope)
     /\ notes' = left

\* The cache has a fresh entry.
FromCache(r, q) ==
  /\ Starts(r, q)
  /\ Settles(r, q, "done")
  /\ UNCHANGED <<day, counts, queue, transport, event, pc, who, notes, fetched, lines, reply, days>>

\* The client fails before it counts: an error budget spent, a token too far away.
FailsEarly(r, q, servable) ==
  /\ Starts(r, q)
  /\ Fails(r, q, servable, "error", notes)
  /\ UNCHANGED <<day, counts, queue, transport, event, pc, who, fetched, lines, reply, days>>

\* Mutant: the comparison lets one more through.
ShareSpentLate(w) == Shared(w) /\ share[<<w.key, day>>] > Limit(w, UpstreamShare)

ShareSpent(w) == Shared(w) /\ share[<<w.key, day>>] >= Limit(w, UpstreamShare)

CountShare(w) ==
  share' = IF Shared(w) THEN [share EXCEPT ![<<w.key, day>>] = @ + 1] ELSE share

\* Mutant: an operator that bypasses shares bypasses the service budget too.
CountServiceOfShared(w) ==
  service' = IF Shared(w) THEN [service EXCEPT ![day] = @ + 1] ELSE service

CountService(w) == service' = [service EXCEPT ![day] = @ + 1]

\* What this container was refused before, it refuses from memory.
ShareKnownOver(r, w) == Shared(w) /\ <<w.key, day>> \in over[Home[r]].share
ServiceKnownOver(r) == day \in over[Home[r]].service

\* The caller's share refuses the query.
ShareRefuses(r, q, servable) ==
  LET w == who[Context(r)] IN
  /\ Starts(r, q)
  /\ ShareSpent(w)
  /\ ShareKnownOver(r, w) \/ ~ ServiceKnownOver(r)
  /\ over' = [over EXCEPT ![Home[r]].share = @ \cup {<<w.key, day>>}]
  /\ Fails(r, q, servable, w.kind, notes)
  /\ UNCHANGED <<day, share, tools, service, own, queue, transport, event, pc, who, fetched,
                 lines, reply, days>>

\* The service budget refuses it: from memory, or after the share counted it.
ServiceRefuses(r, q, servable) ==
  LET w == who[Context(r)] IN
  /\ Starts(r, q)
  /\ \/ ~ ShareKnownOver(r, w) /\ ServiceKnownOver(r) /\ UNCHANGED <<share, over>>
     \/ /\ ~ ShareSpent(w) /\ ~ ServiceKnownOver(r)
        /\ service[day] >= ServiceDaily
        /\ CountShare(w)
        /\ over' = [over EXCEPT ![Home[r]].service = @ \cup {day}]
  /\ Fails(r, q, servable, "service", notes)
  /\ UNCHANGED <<day, tools, service, own, queue, transport, event, pc, who, fetched, lines,
                 reply, days>>

\* usage.used / usage.limit past 80 %: one warning a call.
NearNotes(r) ==
  IF ((service[day] + 1) * 100) \div ServiceDaily >= 80 THEN Leave("near", r, notes) ELSE notes

\* Share and service budget count the query, each on the limiter's day.
Counts(r, q) ==
  LET w == who[Context(r)] IN
  /\ Starts(r, q)
  /\ ~ ShareSpent(w)
  /\ service[day] < ServiceDaily
  /\ CountShare(w)
  /\ CountService(w)
  /\ Settles(r, q, "counted")
  /\ notes' = NearNotes(r)
  /\ counted' = [counted EXCEPT ![r][q] = day]
  /\ UNCHANGED <<day, tools, over, own, queue, transport, event, pc, who, fetched, lines, reply,
                 granted, sent>>

\* Mutant: the comparison lets one more through.
OwnSpentLate(c) == own[c][day] > OwnDaily

\* MemoryBudgetStore.consume: usedSoFar + 1 > limitPerDay.
OwnSpent(c) == own[c][day] + 1 > OwnDaily

\* A query both have counted is held against the container's own budget, on the
\* day it is by then: refused,
BudgetRefuses(r, q, servable) ==
  /\ Runs(r, q) /\ query[r][q] = "counted"
  /\ OwnSpent(Home[r])
  /\ Fails(r, q, servable, "service", notes)
  /\ UNCHANGED <<day, counts, queue, transport, event, pc, who, fetched, lines, reply, days>>

\* or counted once more,
Grants(r, q) ==
  /\ Runs(r, q) /\ query[r][q] = "counted"
  /\ ~ OwnSpent(Home[r])
  /\ own' = [own EXCEPT ![Home[r]][day] = @ + 1]
  /\ Settles(r, q, "granted")
  /\ granted' = [granted EXCEPT ![r][q] = day]
  /\ UNCHANGED <<day, share, tools, service, over, queue, transport, event, pc, who, notes,
                 fetched, lines, reply, counted, sent>>

\* and, once the caller's turn has come round, sent.
Sends(r, q) ==
  /\ Runs(r, q) /\ query[r][q] = "granted"
  /\ fetched' = [fetched EXCEPT ![Context(r)] = @ + 1]
  /\ Settles(r, q, "out")
  /\ sent' = [sent EXCEPT ![r][q] = day]
  /\ UNCHANGED <<day, counts, queue, transport, event, pc, who, notes, lines, reply, counted, granted>>

\* A query that was sent ends: with data, with the agency's own refusal for
\* today, or with another error.
Ends(r, q) ==
  /\ Runs(r, q) /\ query[r][q] = "out"
  /\ \/ /\ Settles(r, q, "done")
        /\ UNCHANGED notes
     \/ \E servable \in BOOLEAN, scope \in {"service", "error"} :
          Fails(r, q, servable, scope, notes)
  /\ UNCHANGED <<day, counts, queue, transport, event, pc, who, fetched, lines, reply, days>>

-----------------------------------------------------------------------------
(* The end of a call.                                                      *)

Quiet(r) == \A q \in Queries[r] : query[r][q] \notin Under

\* Kinds of notes in a call's limitations.
StaleNoted(r) == \E n \in notes[r] : n[1] = "stale"

\* Mutant: the line of an answer with a stale part says ok.
PlainLine(r) == [outcome |-> "ok", upstream |-> fetched[r]]

OkLine(r) == [outcome |-> IF StaleNoted(r) THEN "stale" ELSE "ok", upstream |-> fetched[r]]

\* The tool returns; whatever failed, it made do without.
Returns(r) ==
  /\ pc[r] = "handling"
  /\ Quiet(r)
  /\ pc' = [pc EXCEPT ![r] = "answered"]
  /\ Writes(r, <<OkLine(r)>>)
  /\ Answer(Held(r), r, "ok", notes[r])
  /\ UNCHANGED <<day, counts, queue, transport, event, who, context>>

\* It returns what the shell cannot render: a second line tells, and counts.
WrapThrows(r) ==
  /\ pc[r] = "handling"
  /\ Quiet(r)
  /\ pc' = [pc EXCEPT ![r] = "answered"]
  /\ Writes(r, <<OkLine(r), [outcome |-> "error", upstream |-> fetched[r]]>>)
  /\ Answer(Held(r), r, "error", {})
  /\ UNCHANGED <<day, counts, queue, transport, event, who, context>>

\* It throws an error of its own: an unknown place, an unknown indicator.
Objects(r) ==
  /\ pc[r] = "handling"
  /\ Quiet(r)
  /\ pc' = [pc EXCEPT ![r] = "answered"]
  /\ Writes(r, <<ErrorLine("error")>>)
  /\ Answer(Held(r), r, "error", {})
  /\ UNCHANGED <<day, counts, queue, transport, event, who, context>>

\* It throws what a query failed with, and leaves its other queries running.
Throws(r, q) ==
  /\ pc[r] = "handling"
  /\ query[r][q] \in Failed
  /\ pc' = [pc EXCEPT ![r] = "threw"]
  /\ Writes(r, <<ErrorLine(query[r][q])>>)
  /\ Answer(Held(r), r, query[r][q], {})
  /\ UNCHANGED <<day, counts, queue, transport, event, who, context>>

NextDay ==
  /\ day < LastDay
  /\ day' = day + 1
  /\ UNCHANGED <<counts, queue, transport, event, pc, who, context, lines, reply>>

\* What a request does, once it is there.
Advance(r) ==
  \/ Open(r) \/ TransportFails(r)
  \/ Returns(r) \/ WrapThrows(r) \/ Objects(r)
  \/ \E q \in Queries[r] :
       \/ FromCache(r, q) \/ Counts(r, q) \/ Grants(r, q) \/ Sends(r, q) \/ Ends(r, q)
       \/ Throws(r, q)
       \/ \E servable \in BOOLEAN :
            \/ FailsEarly(r, q, servable) \/ ShareRefuses(r, q, servable)
            \/ ServiceRefuses(r, q, servable) \/ BudgetRefuses(r, q, servable)

Next ==
  \/ \E r \in Request : (\E e \in Offer[r] : Arrive(r, e)) \/ Advance(r)
  \/ \E c \in Container : Close(c)
  \/ NextDay

\* Every query ends (HttpClient), every tool comes to an end of its own, and the
\* queue of a container goes on.
Fairness ==
  /\ \A r \in Request : WF_vars(Advance(r))
  /\ \A c \in Container : WF_vars(Close(c))

Spec == Init /\ [][Next]_vars /\ Fairness

-----------------------------------------------------------------------------
(* Properties.                                                             *)

\* Each answer comes back on the connection of its own request: one server has
\* one transport, and the queue keeps calls from meeting on it.
AnswersOwnRequest == \A r \in Request : reply[r] # Nobody => reply[r].of = r

\* An answer carries the notes its own queries left and no other's, although
\* those of an earlier call may still run: it says that it is stale exactly
\* when a refused query of its own was answered from the cache.
NotesAreOwn ==
  \A r \in Request : reply[r] # Nobody =>
    /\ \A n \in reply[r].limitations : n[2] = r
    /\ reply[r].outcome = "ok" =>
         (<<"stale", r>> \in reply[r].limitations <=> \E q \in Query : query[r][q] = "excused")

\* The queries of requests of R that have day d in `dates`.
On(dates, R, d) == {rq \in R \X Query : dates[rq[1]][rq[2]] = d}

\* What a caller has counted, and so all it has sent, is in its own share:
\* neither in that of the call it overlaps, nor under another day's hash.
SharesArePaid ==
  \A k \in CallerKey, d \in Day :
    Cardinality(On(counted, {r \in Request : who[r] # Nobody /\ who[r].key = k /\ ~ who[r].bypass}, d))
      <= share[<<k, d>>]

\* Nothing is sent that the service budget and the container's have not both
\* counted, one after the other; what they count on a day is in their budget of
\* that day, bypassing callers and calls that were abandoned included.  So a
\* day sees what is in its service budget and no more than was under way, and
\* counted on the days before, at midnight.
BudgetsCoverQueries ==
  /\ \A r \in Request, q \in Query : sent[r][q] # 0 =>
       0 < counted[r][q] /\ counted[r][q] <= granted[r][q] /\ granted[r][q] <= sent[r][q]
  /\ \A d \in Day :
       /\ Cardinality(On(counted, Request, d)) <= service[d]
       /\ Cardinality(On(sent, Request, d)) <=
            service[d] + Cardinality({rq \in On(sent, Request, d) : counted[rq[1]][rq[2]] < d})
       /\ \A c \in Container :
            Cardinality(On(granted, {r \in Request : Home[r] = c}, d)) = own[c][d]

\* The peers of one network send its share of a day; after midnight also what
\* calls of the days before still count, on their old keys: a share more for
\* each; and what had been counted and was under way at midnight: of each day
\* before a share for every key there was.
ShareAcrossMidnight ==
  \A n \in Network \ {Pool}, d \in Day :
    LET from == {r \in Request : /\ who[r] # Nobody /\ ~ who[r].bypass
                                  /\ event[r].adapter /\ NetworkOf[event[r].peer] = n
                                  /\ who[r].key.of = "network"}
        late == {r \in from : who[r].key.day < d}
        CountedOn(R, e) == {rq \in On(sent, R, d) : counted[rq[1]][rq[2]] = e}
    IN  /\ Cardinality(On(sent, from \ late, d)) <= UpstreamShare
        /\ Cardinality(CountedOn(late, d)) <= UpstreamShare * (d - 1)
        /\ \A e \in 1 .. d - 1 : Cardinality(CountedOn(late, e)) <= UpstreamShare * e

\* Whose share a call spends is said by the adapter, never by the client: a
\* request that did not come through it has no caller, and one that did
\* has its TCP peer's, unless it is an operator's test run.
CallerIsPeer ==
  \A r \in Request : who[r] # Nobody =>
    /\ event[r].adapter
    /\ who[r].key.of # "test" => NetworkOf[event[r].peer] \in {who[r].key.name}

\* The last metrics line of a call tells how it was answered: with what error,
\* or that some of it is stale; and an ok line counts the queries it sent.
LinesTellOutcome ==
  \A r \in Request : reply[r] # Nobody /\ reply[r].of = r =>
    LET last == lines[r][Len(lines[r])] IN
    /\ lines[r] # <<>>
    /\ last.outcome = IF \E n \in reply[r].limitations : n[1] = "stale" THEN "stale"
                      ELSE reply[r].outcome
    /\ reply[r].outcome = "ok" => last.upstream = Cardinality({q \in Query : sent[r][q] # 0})

\* No request waits for ever once it is queued: it is answered, or its own
\* transport fails, and no failure before it stops the queue.  (It is queued
\* once: "again and again it is not waiting" says that it ends.)
EveryRequestEnds ==
  \A r \in Request : []<>(pc[r] \in {"new", "turned away", "broken"} \/ reply[r] # Nobody)

=============================================================================
