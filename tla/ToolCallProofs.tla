-------------------------- MODULE ToolCallProofs --------------------------
(***************************************************************************)
(* ToolCall is type correct, answers each request on its own connection    *)
(* and with its own notes, names callers by their peers, writes true       *)
(* lines, and counts every query it sends: for any containers, requests,   *)
(* queries, addresses and days, and whatever the limits.                   *)
(*                                                                         *)
(* The argument.  A call whose tool runs heads its queue and its transport *)
(* is the one held (InTurn), so answers go home.  A request has no caller *)
(* and no query before its turn (Fresh); then it has the key of its peer's *)
(* network, of no later day than any query it sends (KeysAreOld).          *)
(* A query is counted, granted and sent once each, in this order and on    *)
(* days in this order (InOrder), in the step that adds one to the counter  *)
(* it is for (Accounts), and a share never passes its limit (ShareHeld).   *)
(* Only the queries of a call leave notes in its context, and one of       *)
(* "stale" when a refused query is excused (NotesFollow), until it is      *)
(* answered (Told).                                                        *)
(***************************************************************************)
EXTENDS ToolCall, WellOrder, FiniteSetTheorems, SequenceTheorems, TLAPS

\* A queued request is in its container's queue; a running one is the head.
Holds(s, r) == \E i \in 1 .. Len(s) : s[i] = r
InTurn ==
  \A r \in Request :
    /\ pc[r] = "queued" => Holds(queue[Home[r]], r)
    /\ pc[r] = "handling" => /\ queue[Home[r]] # <<>> /\ Head(queue[Home[r]]) = r
                             /\ transport[Home[r]] = r

\* Before its turn a request has no caller and no query.
Fresh ==
  \A r \in Request : pc[r] \in {"new", "queued"} =>
    /\ who[r] = Nobody /\ reply[r] = Nobody
    /\ \A q \in Query : query[r][q] = "idle"

\* How far a query has got, and the days of its steps so far, c, g and s of them.
Steps(how, c, g, s) ==
  /\ how = "idle" => c = 0 /\ g = 0 /\ s = 0
  /\ how = "counted" => c # 0 /\ g = 0 /\ s = 0
  /\ how = "granted" => g # 0 /\ s = 0
  /\ g # 0 => c # 0 /\ c <= g
  /\ s # 0 => g # 0 /\ g <= s
  /\ c <= day /\ g <= day /\ s <= day

InOrder ==
  \A r \in Request, q \in Query :
    Steps(query[r][q], counted[r][q], granted[r][q], sent[r][q])

\* A request that has arrived is an event.
Arrived == \A r \in Request : pc[r] # "new" => event[r] \in Event

\* A network's key is of the day the call began, no later than what it has counted.
KeysAreOld ==
  \A r \in Request : who[r] # Nobody /\ who[r].key.of = "network" =>
    /\ who[r].key.day <= day
    /\ \A q \in Query : counted[r][q] # 0 => who[r].key.day <= counted[r][q]

ShareHeld == \A k \in CallerKey, d \in Day : k.of # "test" => share[<<k, d>>] <= UpstreamShare

\* Requests that spend the share of k; requests at c.
Payers(k) == {r \in Request : who[r] # Nobody /\ who[r].key = k /\ ~ who[r].bypass}
At(c) == {r \in Request : Home[r] = c}

\* Queries a request has sent.
SentBy(r) == {q \in Query : sent[r][q] # 0}

Finite(dates) == \A d \in Day : IsFiniteSet(On(dates, Request, d))

Counted ==
  /\ Finite(counted) /\ Finite(granted) /\ Finite(sent)
  /\ \A r \in Request : IsFiniteSet(SentBy(r)) /\ fetched[r] = Cardinality(SentBy(r))

\* The service budget has what was counted on a day, and a container's what it granted.
Budgets ==
  \A d \in Day :
    /\ Cardinality(On(counted, Request, d)) <= service[d]
    /\ \A c \in Container : Cardinality(On(granted, At(c), d)) = own[c][d]

NotesFollow ==
  \A r \in Request :
    /\ \A n \in notes[r] : n[2] = r
    /\ <<"stale", r>> \in notes[r] <=> \E q \in Query : query[r][q] = "excused"

\* An answered call runs no more; what was answered "ok" is what its notes say.
Told ==
  \A r \in Request : reply[r] # Nobody =>
    /\ pc[r] \notin {"handling"}
    /\ reply[r].outcome = "ok" => pc[r] = "answered" /\ reply[r].limitations = notes[r]
    /\ reply[r].outcome # "ok" => reply[r].limitations = {}

Accounts == ShareHeld /\ Counted /\ SharesArePaid /\ Budgets

IInv ==
  /\ TypeOK /\ InTurn /\ AnswersOwnRequest
  /\ Arrived /\ Fresh /\ InOrder /\ KeysAreOld /\ CallerIsPeer
  /\ Accounts
  /\ NotesFollow /\ Told /\ LinesTellOutcome

-----------------------------------------------------------------------------
(* Callers and their shares.                                               *)

LEMMA Days == Day \subseteq Nat /\ 1 \in Day /\ \A r \in Request : Queries[r] \subseteq Query
BY CallAssumption DEF Day, Query

\* Who an event is said to be: the peer's network on that day, the pool, or a
\* test run, and always through the adapter.
LEMMA Identified ==
  ASSUME NEW e \in Event, NEW d \in Day, NEW w, w = Identify(Headers(e), d)
  PROVE  /\ w \in Caller \cup {Nobody}
         /\ w # Nobody => /\ e.adapter
                          /\ w.key.of # "test" => w.key.name = NetworkOf[e.peer]
                          /\ w.key.of = "network" => w.key.day = d
<1> DEFINE h == Headers(e)
<1>1. /\ h.attested = e.adapter /\ h.operator \in BOOLEAN /\ h.test \in TestRun \cup {Nobody}
      /\ h.source \in Address \cup {Nobody} /\ (h.attested => h.source = e.peer)
      /\ w = Identify(h, d)
  BY DEF Headers, Event
<1> HIDE DEF h
<1>2. CASE ~ h.attested \/ h.source = Nobody
  BY <1>1, <1>2 DEF Identify
<1>3. CASE h.attested /\ h.source # Nobody /\ h.operator /\ h.test # Nobody
  <2> DEFINE k == [of |-> "test", name |-> h.test, day |-> 0]
  <2>1. w = [key |-> k, kind |-> "network", bypass |-> FALSE]
    BY <1>1, <1>3 DEF Identify
  <2>2. k \in CallerKey /\ k.of = "test"
    BY <1>1, <1>3 DEF CallerKey
  <2> HIDE DEF k
  <2> QED BY <2>1, <2>2, <1>1, <1>3 DEF Caller
<1>4. CASE /\ h.attested /\ h.source # Nobody /\ ~ (h.operator /\ h.test # Nobody)
           /\ NetworkOf[h.source] = Pool
  <2> DEFINE k == [of |-> "pool", name |-> Pool, day |-> 0]
  <2>1. w = [key |-> k, kind |-> "pool", bypass |-> h.operator]
    BY <1>1, <1>4 DEF Identify
  <2>2. k \in CallerKey /\ k.of = "pool" /\ k.name = Pool
    BY DEF CallerKey
  <2> HIDE DEF k
  <2> QED BY <2>1, <2>2, <1>1, <1>4 DEF Caller
<1>5. CASE /\ h.attested /\ h.source # Nobody /\ ~ (h.operator /\ h.test # Nobody)
           /\ NetworkOf[h.source] # Pool
  <2> DEFINE k == [of |-> "network", name |-> NetworkOf[h.source], day |-> d]
  <2>1. w = [key |-> k, kind |-> "network", bypass |-> h.operator]
    BY <1>1, <1>5 DEF Identify
  <2>2. NetworkOf[h.source] \in Network \ {Pool}
    BY <1>1, <1>5 DEF Network
  <2>3. k \in CallerKey /\ k.name = NetworkOf[h.source] /\ k.day = d
    BY <2>2 DEF CallerKey
  <2> HIDE DEF k
  <2> QED BY <2>1, <2>3, <1>1, <1>5 DEF Caller
<1> QED BY <1>2, <1>3, <1>4, <1>5

\* What counting against a share does to the shares.
LEMMA ShareCounts ==
  ASSUME TypeOK, NEW w \in Caller \cup {Nobody}, CountShare(w)
  PROVE  /\ share' \in [CallerKey \X Day -> Nat]
         /\ \A x \in CallerKey \X Day : share[x] <= share'[x]
         /\ Shared(w) => share'[<<w.key, day>>] = share[<<w.key, day>>] + 1
         /\ ~ ShareSpent(w) /\ ShareHeld => ShareHeld'
<1> DEFINE K == CallerKey \X Day
<1>0. share \in [K -> Nat] /\ day \in Day
  BY DEF TypeOK
<1>1. CASE ~ Shared(w)
  <2>1. share' = share
    BY <1>1 DEF CountShare
  <2> QED BY <1>0, <1>1, <2>1 DEF ShareHeld
<1>2. CASE Shared(w)
  <2> DEFINE x == <<w.key, day>>
  <2>1. x \in K /\ w.key \in CallerKey
    BY <1>0, <1>2 DEF Shared, Caller
  <2>2. share' = [share EXCEPT ![x] = @ + 1]
    BY <1>2 DEF CountShare
  <2> HIDE DEF x, K
  <2>3. /\ share' \in [K -> Nat]
        /\ \A y \in K : share[y] <= share'[y]
        /\ share'[x] = share[x] + 1 /\ share[x] \in Nat
        /\ \A y \in K : y # x => share'[y] = share[y]
    BY <1>0, <2>1, <2>2
  <2>4. ASSUME ~ ShareSpent(w), ShareHeld PROVE ShareHeld'
    <3> SUFFICES ASSUME NEW k \in CallerKey, NEW d \in Day, k.of # "test"
                 PROVE  share'[<<k, d>>] <= UpstreamShare
      BY DEF ShareHeld
    <3>1. CASE <<k, d>> = x
      <4>1. k = w.key
        BY <3>1 DEF x
      <4>2. ~ (share[x] >= UpstreamShare)
        BY <2>4, <4>1, <1>2 DEF ShareSpent, Limit, x
      <4> QED BY <4>2, <3>1, <2>1, <2>3, CallAssumption
    <3>2. CASE <<k, d>> # x
      <4>1. <<k, d>> \in K
        BY DEF K
      <4> QED BY <4>1, <3>2, <2>3, <2>4 DEF ShareHeld
    <3> QED BY <3>1, <3>2
  <2> QED BY <2>3, <2>4, <1>2 DEF x, K
<1> QED BY <1>1, <1>2

-----------------------------------------------------------------------------
(* The steps of a query.                                                   *)

\* The notes before a failure adds its own.
Before(r) == {notes, [notes EXCEPT ![r] = @ \cup {<<"near", r>>}]}

\* Where a query may get to.
Hows == {"done", "excused"} \cup Under \cup Failed

\* What every step of a query does to its call: it takes the query further, and
\* leaves a note when it excuses it.
Takes(r, q, how) ==
  /\ q \in Queries[r] /\ pc[r] \in {"handling", "threw"}
  /\ query[r][q] \in {"idle"} \cup Under
  /\ how \in Hows
  /\ Settles(r, q, how)
  /\ \E left \in Before(r) :
       notes' = IF how = "excused" THEN [left EXCEPT ![r] = @ \cup {<<"stale", r>>}] ELSE left
  /\ UNCHANGED <<day, tools, queue, transport, event, pc, who, lines, reply>>

\* It counts nothing, or its share; or it is counted, granted or sent.
CountsNone == UNCHANGED <<share, service, own, fetched, counted, granted, sent>>
CountsShare(r) ==
  /\ ~ ShareSpent(who[r]) /\ CountShare(who[r])
  /\ UNCHANGED <<service, own, fetched, counted, granted, sent>>
IsCounted(r, q) ==
  /\ query[r][q] = "idle"
  /\ ~ ShareSpent(who[r]) /\ CountShare(who[r])
  /\ service[day] < ServiceDaily /\ CountService(who[r])
  /\ counted' = [counted EXCEPT ![r][q] = day]
  /\ UNCHANGED <<own, fetched, granted, sent>>
IsGranted(r, q) ==
  /\ query[r][q] = "counted"
  /\ ~ OwnSpent(Home[r])
  /\ own' = [own EXCEPT ![Home[r]][day] = @ + 1]
  /\ granted' = [granted EXCEPT ![r][q] = day]
  /\ UNCHANGED <<share, service, fetched, counted, sent>>
IsSent(r, q) ==
  /\ query[r][q] = "granted"
  /\ fetched' = [fetched EXCEPT ![r] = @ + 1]
  /\ sent' = [sent EXCEPT ![r][q] = day]
  /\ UNCHANGED <<share, service, own, counted, granted>>

CountsSome(r, q, how) ==
  \/ how \notin Under /\ (CountsNone \/ CountsShare(r))
  \/ how = "counted" /\ IsCounted(r, q)
  \/ how = "granted" /\ IsGranted(r, q)
  \/ how = "out" /\ IsSent(r, q)

OverGrows == over' \in [Container -> [share : SUBSET (CallerKey \X Day), service : SUBSET Day]]

\* One step of a query, whichever.
QueryStep(r, q) ==
  \/ FromCache(r, q) \/ Counts(r, q) \/ Grants(r, q) \/ Sends(r, q) \/ Ends(r, q)
  \/ \E servable \in BOOLEAN :
       \/ FailsEarly(r, q, servable) \/ ShareRefuses(r, q, servable)
       \/ ServiceRefuses(r, q, servable) \/ BudgetRefuses(r, q, servable)

LEMMA FailsTakes ==
  ASSUME NEW r \in Request, NEW q \in Queries[r], NEW servable \in BOOLEAN,
         NEW scope \in Failed, NEW left \in Before(r),
         pc[r] \in {"handling", "threw"}, query[r][q] \in {"idle"} \cup Under,
         Fails(r, q, servable, scope, left),
         UNCHANGED <<day, tools, queue, transport, event, pc, who, lines, reply>>
  PROVE  \E how \in Hows \ Under : Takes(r, q, how)
<1> USE DEF Hows
<1>1. CASE servable /\ scope = "error"
  <2>1. Takes(r, q, "done")
    BY <1>1 DEF Fails, Takes, Failed
  <2> QED BY <2>1 DEF Under
<1>2. CASE servable /\ scope # "error"
  <2>1. Settles(r, q, "excused") /\ notes' = [left EXCEPT ![r] = @ \cup {<<"stale", r>>}]
    BY <1>2 DEF Fails, Leave, Context
  <2>2. Takes(r, q, "excused")
    BY <2>1 DEF Takes
  <2> QED BY <2>2 DEF Under
<1>3. CASE ~ servable
  <2>1. Settles(r, q, scope) /\ notes' = left
    BY <1>3 DEF Fails
  <2>2. Takes(r, q, scope)
    BY <2>1 DEF Takes, Failed
  <2> QED BY <2>2 DEF Under, Failed
<1> QED BY <1>1, <1>2, <1>3

LEMMA QueryTakes ==
  ASSUME TypeOK, NEW r \in Request, NEW q \in Queries[r], QueryStep(r, q)
  PROVE  \E how \in Hows : Takes(r, q, how) /\ CountsSome(r, q, how) /\ OverGrows
<1> USE DEF Starts, Runs, Context, days
<1> DEFINE Enders == Hows \ Under
<1>1. /\ day \in Day /\ who[r] \in Caller \cup {Nobody} /\ Home[r] \in Container
      /\ over \in [Container -> [share : SUBSET (CallerKey \X Day), service : SUBSET Day]]
  BY CallAssumption DEF TypeOK
<1>2. UNCHANGED over => OverGrows
  BY <1>1 DEF OverGrows
<1>3. notes \in Before(r) /\ NearNotes(r) \in Before(r)
  BY DEF Before, NearNotes, Leave
<1>4. CASE FromCache(r, q)
  <2>1. Takes(r, q, "done") /\ "done" \in Enders
    BY <1>3, <1>4 DEF FromCache, Takes, counts, Hows, Under
  <2>2. CountsNone /\ UNCHANGED over
    BY <1>4 DEF FromCache, CountsNone, counts
  <2> QED BY <2>1, <2>2, <1>2 DEF CountsSome
<1>5. CASE Counts(r, q)
  <2>1. Takes(r, q, "counted") /\ UNCHANGED over /\ "counted" \in Hows
    BY <1>3, <1>5 DEF Counts, Takes, Hows, Under
  <2>2. IsCounted(r, q)
    BY <1>5 DEF Counts, IsCounted
  <2> QED BY <2>1, <2>2, <1>2 DEF CountsSome
<1>11. CASE Grants(r, q)
  <2>1. Takes(r, q, "granted") /\ UNCHANGED over /\ "granted" \in Hows
    BY <1>3, <1>11 DEF Grants, Takes, Hows, Under
  <2>2. IsGranted(r, q)
    BY <1>11 DEF Grants, IsGranted
  <2> QED BY <2>1, <2>2, <1>2 DEF CountsSome
<1>12. CASE Sends(r, q)
  <2>1. Takes(r, q, "out") /\ UNCHANGED over /\ "out" \in Hows
    BY <1>3, <1>12 DEF Sends, Takes, Hows, Under, counts
  <2>2. IsSent(r, q)
    BY <1>12 DEF Sends, IsSent, counts
  <2> QED BY <2>1, <2>2, <1>2 DEF CountsSome
<1>6. CASE Ends(r, q)
  <2>1. CountsNone /\ UNCHANGED over
    BY <1>6 DEF Ends, CountsNone, counts
  <2>2. CASE Settles(r, q, "done") /\ UNCHANGED notes
    <3>1. Takes(r, q, "done") /\ "done" \in Enders
      BY <1>3, <1>6, <2>2 DEF Ends, Takes, counts, Hows, Under
    <3> QED BY <3>1, <2>1, <1>2 DEF CountsSome
  <2>3. ASSUME NEW servable \in BOOLEAN, NEW scope \in {"service", "error"},
               Fails(r, q, servable, scope, notes)
        PROVE  \E how \in Enders : Takes(r, q, how)
    <3>1. scope \in Failed /\ pc[r] \in {"handling", "threw"} /\ query[r][q] \in {"idle"} \cup Under
          /\ UNCHANGED <<day, tools, queue, transport, event, pc, who, lines, reply>>
      BY <1>6 DEF Ends, Failed, counts, Under
    <3> QED BY <3>1, <2>3, <1>3, FailsTakes
  <2> QED BY <2>1, <2>2, <2>3, <1>2, <1>6 DEF Ends, CountsSome
<1>7. ASSUME NEW servable \in BOOLEAN, FailsEarly(r, q, servable)
      PROVE  \E how \in Enders : Takes(r, q, how) /\ CountsSome(r, q, how) /\ OverGrows
  <2>1. CountsNone /\ UNCHANGED over
    BY <1>7 DEF FailsEarly, CountsNone, counts
  <2>2. "error" \in Failed /\ pc[r] \in {"handling", "threw"} /\ query[r][q] \in {"idle"} \cup Under
        /\ UNCHANGED <<day, tools, queue, transport, event, pc, who, lines, reply>>
        /\ Fails(r, q, servable, "error", notes)
    BY <1>7 DEF FailsEarly, Failed, counts
  <2>3. \E how \in Enders : Takes(r, q, how)
    BY <2>2, <1>3, FailsTakes
  <2> QED BY <2>1, <2>3, <1>2 DEF CountsSome
<1>8. ASSUME NEW servable \in BOOLEAN, ShareRefuses(r, q, servable)
      PROVE  \E how \in Enders : Takes(r, q, how) /\ CountsSome(r, q, how) /\ OverGrows
  <2>1. Shared(who[r]) /\ who[r] \in Caller /\ who[r].kind \in Failed
        /\ <<who[r].key, day>> \in CallerKey \X Day
    BY <1>1, <1>8 DEF ShareRefuses, ShareSpent, Shared, Caller, Failed
  <2>2. CountsNone
    BY <1>8 DEF ShareRefuses, CountsNone
  <2>3. OverGrows
    <3>1. over' = [over EXCEPT ![Home[r]].share = @ \cup {<<who[r].key, day>>}]
      BY <1>8 DEF ShareRefuses
    <3> QED BY <3>1, <2>1, <1>1 DEF OverGrows
  <2>4. pc[r] \in {"handling", "threw"} /\ query[r][q] \in {"idle"} \cup Under
        /\ UNCHANGED <<day, tools, queue, transport, event, pc, who, lines, reply>>
        /\ Fails(r, q, servable, who[r].kind, notes)
    BY <1>8 DEF ShareRefuses
  <2>5. \E how \in Enders : Takes(r, q, how)
    BY <2>1, <2>4, <1>3, FailsTakes
  <2> QED BY <2>2, <2>3, <2>5 DEF CountsSome
<1>9. ASSUME NEW servable \in BOOLEAN, ServiceRefuses(r, q, servable)
      PROVE  \E how \in Enders : Takes(r, q, how) /\ CountsSome(r, q, how) /\ OverGrows
  <2>1. "service" \in Failed /\ pc[r] \in {"handling", "threw"} /\ query[r][q] \in {"idle"} \cup Under
        /\ UNCHANGED <<day, tools, queue, transport, event, pc, who, lines, reply>>
        /\ Fails(r, q, servable, "service", notes)
    BY <1>9 DEF ServiceRefuses, Failed
  <2>2. \E how \in Enders : Takes(r, q, how)
    BY <2>1, <1>3, FailsTakes
  <2>3. (CountsNone /\ UNCHANGED over)
        \/ (CountsShare(r) /\ over' = [over EXCEPT ![Home[r]].service = @ \cup {day}])
    BY <1>9 DEF ServiceRefuses, CountsNone, CountsShare
  <2>4. over' = [over EXCEPT ![Home[r]].service = @ \cup {day}] => OverGrows
    BY <1>1 DEF OverGrows
  <2> QED BY <2>2, <2>3, <2>4, <1>2 DEF CountsSome
<1>10. ASSUME NEW servable \in BOOLEAN, BudgetRefuses(r, q, servable)
       PROVE  \E how \in Enders : Takes(r, q, how) /\ CountsSome(r, q, how) /\ OverGrows
  <2>1. "service" \in Failed /\ pc[r] \in {"handling", "threw"} /\ query[r][q] \in {"idle"} \cup Under
        /\ UNCHANGED <<day, tools, queue, transport, event, pc, who, lines, reply>>
        /\ Fails(r, q, servable, "service", notes)
    BY <1>10 DEF BudgetRefuses, Failed, Under, counts
  <2>2. \E how \in Enders : Takes(r, q, how)
    BY <2>1, <1>3, FailsTakes
  <2>3. CountsNone /\ UNCHANGED over
    BY <1>10 DEF BudgetRefuses, CountsNone, counts
  <2> QED BY <2>2, <2>3, <1>2 DEF CountsSome
<1> QED BY <1>4, <1>5, <1>11, <1>12, <1>6, <1>7, <1>8, <1>9, <1>10 DEF QueryStep

\* What counting changes: service budgets and a container's own stay in bounds,
\* shares only grow, and in their limit.
LEMMA CountsType ==
  ASSUME TypeOK, NEW r \in Request, NEW q \in Queries[r], NEW how, CountsSome(r, q, how)
  PROVE  /\ share' \in [CallerKey \X Day -> Nat]
         /\ \A x \in CallerKey \X Day : share[x] <= share'[x]
         /\ service' \in [Day -> 0 .. ServiceDaily]
         /\ \A d \in Day : service[d] <= service'[d]
         /\ own' \in [Container -> [Day -> 0 .. OwnDaily]]
         /\ fetched' \in [Request -> Nat]
         /\ counted' \in Dates /\ granted' \in Dates /\ sent' \in Dates
         /\ ShareHeld => ShareHeld'
<1>1. /\ day \in Day /\ who[r] \in Caller \cup {Nobody} /\ Home[r] \in Container /\ q \in Query
      /\ share \in [CallerKey \X Day -> Nat] /\ service \in [Day -> 0 .. ServiceDaily]
      /\ own \in [Container -> [Day -> 0 .. OwnDaily]] /\ fetched \in [Request -> Nat]
      /\ counted \in Dates /\ granted \in Dates /\ sent \in Dates
  BY CallAssumption, Days DEF TypeOK
<1>2. /\ \A x \in CallerKey \X Day : share[x] <= share[x]
      /\ \A d \in Day : service[d] <= service[d]
  BY <1>1, CallAssumption
<1>3. ASSUME NEW dates \in Dates PROVE [dates EXCEPT ![r][q] = day] \in Dates
  BY <1>1, <1>3 DEF Dates
<1>4. ASSUME CountShare(who[r]), ~ ShareSpent(who[r])
      PROVE  /\ share' \in [CallerKey \X Day -> Nat]
             /\ \A x \in CallerKey \X Day : share[x] <= share'[x]
             /\ ShareHeld => ShareHeld'
  BY <1>1, <1>4, ShareCounts
<1>5. CASE CountsNone
  BY <1>1, <1>2, <1>5 DEF CountsNone, ShareHeld
<1>6. CASE CountsShare(r)
  BY <1>1, <1>2, <1>4, <1>6 DEF CountsShare
<1>7. CASE IsCounted(r, q)
  <2>1. service' \in [Day -> 0 .. ServiceDaily] /\ \A d \in Day : service[d] <= service'[d]
    BY <1>1, <1>7, CallAssumption DEF IsCounted, CountService
  <2>2. counted' \in Dates
    BY <1>1, <1>3, <1>7 DEF IsCounted
  <2> QED BY <1>1, <1>4, <1>7, <2>1, <2>2 DEF IsCounted
<1>8. CASE IsGranted(r, q)
  <2>1. own' \in [Container -> [Day -> 0 .. OwnDaily]]
    BY <1>1, <1>8, CallAssumption DEF IsGranted, OwnSpent
  <2>2. granted' \in Dates
    BY <1>1, <1>3, <1>8 DEF IsGranted
  <2>3. UNCHANGED share => (ShareHeld => ShareHeld')
    BY DEF ShareHeld
  <2> QED BY <1>1, <1>2, <1>8, <2>1, <2>2, <2>3 DEF IsGranted
<1>9. CASE IsSent(r, q)
  <2>1. fetched' \in [Request -> Nat]
    BY <1>1, <1>9 DEF IsSent
  <2>2. sent' \in Dates
    BY <1>1, <1>3, <1>9 DEF IsSent
  <2>3. UNCHANGED share => (ShareHeld => ShareHeld')
    BY DEF ShareHeld
  <2> QED BY <1>1, <1>2, <1>9, <2>1, <2>2, <2>3 DEF IsSent
<1> QED BY <1>5, <1>6, <1>7, <1>8, <1>9 DEF CountsSome

QueryStates == {"idle", "done", "excused"} \cup Under \cup Failed

\* What a step of a query does to its call's queries and notes.
LEMMA TakesType ==
  ASSUME TypeOK, NEW r \in Request, NEW q \in Queries[r], NEW how \in Hows, Takes(r, q, how)
  PROVE  /\ query' \in [Request -> [Query -> QueryStates]]
         /\ query'[r][q] = how /\ query[r][q] \in {"idle"} \cup Under
         /\ \A s \in Request, p \in Query : s # r \/ p # q => query'[s][p] = query[s][p]
         /\ notes' \in [Request -> SUBSET (NoteKind \X Request)]
         /\ \A s \in Request \ {r} : notes'[s] = notes[s]
         /\ notes[r] \subseteq notes'[r] /\ notes'[r] \subseteq notes[r] \cup {<<"near", r>>, <<"stale", r>>}
         /\ <<"stale", r>> \in notes'[r] <=> <<"stale", r>> \in notes[r] \/ how = "excused"
<1>1. /\ query \in [Request -> [Query -> QueryStates]] /\ how \in QueryStates
      /\ notes \in [Request -> SUBSET (NoteKind \X Request)] /\ q \in Query
  BY Days DEF TypeOK, QueryStates, Hows
<1>2. query' = [query EXCEPT ![r][q] = how] /\ query[r][q] \in {"idle"} \cup Under
  BY DEF Takes, Settles
<1>3. /\ query' \in [Request -> [Query -> QueryStates]]
      /\ query'[r][q] = how
      /\ \A s \in Request, p \in Query : s # r \/ p # q => query'[s][p] = query[s][p]
  BY <1>1, <1>2
<1>4. PICK left \in Before(r) :
        notes' = IF how = "excused" THEN [left EXCEPT ![r] = @ \cup {<<"stale", r>>}] ELSE left
  BY DEF Takes
<1>5. /\ left \in [Request -> SUBSET (NoteKind \X Request)]
      /\ \A s \in Request \ {r} : left[s] = notes[s]
      /\ left[r] = notes[r] \/ left[r] = notes[r] \cup {<<"near", r>>}
  BY <1>1 DEF Before, NoteKind
<1>6. <<"stale", r>> \in NoteKind \X Request /\ <<"stale", r>> # <<"near", r>>
  BY DEF NoteKind
<1>7. CASE how = "excused"
  BY <1>2, <1>3, <1>4, <1>5, <1>6, <1>7
<1>8. CASE how # "excused"
  BY <1>2, <1>3, <1>4, <1>5, <1>6, <1>8
<1> QED BY <1>7, <1>8

-----------------------------------------------------------------------------
(* The accounts.                                                           *)

LEMMA CountTypes ==
  ASSUME TypeOK
  PROVE  /\ day \in Day /\ 0 \notin Day /\ Day \subseteq Nat
         /\ counted \in Dates /\ granted \in Dates /\ sent \in Dates /\ fetched \in [Request -> Nat]
         /\ share \in [CallerKey \X Day -> Nat]
         /\ service \in [Day -> 0 .. ServiceDaily] /\ service \in [Day -> Nat]
         /\ own \in [Container -> [Day -> 0 .. OwnDaily]] /\ own \in [Container -> [Day -> Nat]]
<1>1. /\ day \in Day /\ counted \in Dates /\ granted \in Dates /\ sent \in Dates
      /\ fetched \in [Request -> Nat] /\ share \in [CallerKey \X Day -> Nat]
      /\ service \in [Day -> 0 .. ServiceDaily] /\ own \in [Container -> [Day -> 0 .. OwnDaily]]
  BY DEF TypeOK
<1>2. 0 .. ServiceDaily \subseteq Nat /\ 0 .. OwnDaily \subseteq Nat
  BY CallAssumption
<1>3. 0 \notin Day /\ Day \subseteq Nat
  BY CallAssumption DEF Day
<1> QED BY <1>1, <1>2, <1>3

\* Each set of requests has finitely many queries of a day.
LEMMA FinitelyMany ==
  ASSUME NEW dates, Finite(dates), NEW R \in SUBSET Request, NEW d \in Day
  PROVE  IsFiniteSet(On(dates, R, d)) /\ Cardinality(On(dates, R, d)) \in Nat
<1>1. On(dates, R, d) \in SUBSET On(dates, Request, d) /\ IsFiniteSet(On(dates, Request, d))
  BY DEF On, Finite
<1> QED BY <1>1, FS_Subset, FS_CardinalityType

\* Whether a query of r that is dated today is one of R's on day d.
Adds(r, R, d) == IF d = day /\ r \in R THEN 1 ELSE 0

\* A query that gets its date is one more, on its day and of its call.
LEMMA OnGrows ==
  ASSUME NEW old \in Dates, NEW new, NEW r \in Request, NEW q \in Query, old[r][q] = 0,
         new = [old EXCEPT ![r][q] = day], day \in Day, Finite(old)
  PROVE  /\ Finite(new)
         /\ \A R \in SUBSET Request, d \in Day :
              /\ Cardinality(On(old, R, d)) \in Nat
              /\ Cardinality(On(new, R, d)) = Cardinality(On(old, R, d)) + Adds(r, R, d)
<1>1. ASSUME NEW R \in SUBSET Request, NEW d \in Day
      PROVE  /\ IsFiniteSet(On(new, R, d))
             /\ Cardinality(On(old, R, d)) \in Nat
             /\ Cardinality(On(new, R, d)) = Cardinality(On(old, R, d)) + Adds(r, R, d)
  <2>1. IsFiniteSet(On(old, R, d)) /\ 0 \notin Day
    BY FinitelyMany, CallAssumption DEF Day
  <2>2. \A s \in Request, p \in Query :
          new[s][p] = IF s = r /\ p = q THEN day ELSE old[s][p]
    <3> SUFFICES ASSUME NEW s \in Request, NEW p \in Query
                 PROVE  new[s][p] = IF s = r /\ p = q THEN day ELSE old[s][p]
      OBVIOUS
    <3>1. old \in [Request -> [Query -> Day \cup {0}]]
      BY DEF Dates
    <3>2. new[s] = IF s = r THEN [old[r] EXCEPT ![q] = day] ELSE old[s]
      BY <3>1
    <3>3. old[r] \in [Query -> Day \cup {0}]
      BY <3>1
    <3>4. [old[r] EXCEPT ![q] = day][p] = IF p = q THEN day ELSE old[r][p]
      BY ONLY <3>3
    <3> QED BY ONLY <3>2, <3>4
  <2>3. CASE d = day /\ r \in R
    <3>1. On(new, R, d) = On(old, R, d) \cup {<<r, q>>} /\ <<r, q>> \notin On(old, R, d)
      <4>1. \A s \in R, p \in Query : new[s][p] = d <=> (s = r /\ p = q) \/ old[s][p] = d
        BY <2>2, <2>3
      <4>2. old[r][q] # d /\ r \in R /\ q \in Query
        BY <2>1, <2>3
      <4> QED BY ONLY <4>1, <4>2 DEF On
    <3>2. IsFiniteSet(On(new, R, d)) /\ Cardinality(On(new, R, d)) = Cardinality(On(old, R, d)) + 1
      <4>1. PICK was : was = On(old, R, d)
        OBVIOUS
      <4>2. PICK now : now = On(new, R, d)
        OBVIOUS
      <4>3. IsFiniteSet(was) /\ now = was \cup {<<r, q>>} /\ <<r, q>> \notin was
        BY ONLY <4>1, <4>2, <3>1, <2>1
      <4>4. IsFiniteSet(now) /\ Cardinality(now) = Cardinality(was) + 1
        BY ONLY <4>3, FS_AddElement
      <4> QED BY ONLY <4>1, <4>2, <4>4
    <3>3. Cardinality(On(old, R, d)) \in Nat
      BY <2>1, FS_CardinalityType
    <3> QED BY <3>2, <3>3, <2>3 DEF Adds
  <2>4. CASE ~ (d = day /\ r \in R)
    <3>1. On(new, R, d) = On(old, R, d)
      BY <2>1, <2>2, <2>4 DEF On
    <3> QED BY <3>1, <2>1, <2>4, FS_CardinalityType DEF Adds
  <2> QED BY <2>3, <2>4
<1>2. Finite(new)
  <2>1. Request \in SUBSET Request
    OBVIOUS
  <2> QED BY <1>1, <2>1 DEF Finite
<1> QED BY <1>1, <1>2

\* A query that is sent is one more of what its request has sent.
LEMMA SentByGrows ==
  ASSUME TypeOK, Counted, NEW r \in Request, NEW q \in Query, sent[r][q] = 0,
         sent' = [sent EXCEPT ![r][q] = day], fetched' = [fetched EXCEPT ![r] = @ + 1]
  PROVE  \A s \in Request : IsFiniteSet(SentBy(s)') /\ fetched'[s] = Cardinality(SentBy(s)')
<1> SUFFICES ASSUME NEW s \in Request
             PROVE  IsFiniteSet(SentBy(s)') /\ fetched'[s] = Cardinality(SentBy(s)')
  OBVIOUS
<1>1. sent \in [Request -> [Query -> Day \cup {0}]] /\ day \in Day /\ 0 \notin Day
      /\ fetched \in [Request -> Nat]
  BY CountTypes DEF Dates
<1>2. IsFiniteSet(SentBy(s)) /\ fetched[s] = Cardinality(SentBy(s))
  BY DEF Counted
<1>3. CASE s = r
  <2>1. SentBy(s)' = SentBy(s) \cup {q} /\ q \notin SentBy(s)
    BY <1>1, <1>3 DEF SentBy
  <2>2. fetched'[s] = fetched[s] + 1
    BY <1>1, <1>3
  <2> QED BY <2>1, <2>2, <1>2, FS_AddElement
<1>4. CASE s # r
  <2>1. SentBy(s)' = SentBy(s) /\ fetched'[s] = fetched[s]
    BY <1>1, <1>4 DEF SentBy
  <2> QED BY <2>1, <1>2
<1> QED BY <1>3, <1>4

\* With nothing counted, and no caller changed that has something counted,
\* shares are paid as they were, whatever is counted against them besides.
LEMMA StillPaid ==
  ASSUME TypeOK, Accounts, UNCHANGED counted,
         \A s \in Request : who'[s] = who[s] \/ \A q \in Query : counted[s][q] = 0,
         \A x \in CallerKey \X Day : share[x] <= share'[x],
         share' \in [CallerKey \X Day -> Nat]
  PROVE  SharesArePaid'
<1> SUFFICES ASSUME NEW k \in CallerKey, NEW d \in Day
             PROVE  Cardinality(On(counted, Payers(k)', d)) <= share'[<<k, d>>]
  BY DEF SharesArePaid, Payers
<1>1. Cardinality(On(counted, Payers(k), d)) <= share[<<k, d>>]
  BY DEF Accounts, SharesArePaid, Payers
<1>2. Cardinality(On(counted, Payers(k), d)) \in Nat
  BY FinitelyMany DEF Payers, Accounts, Counted
<1>3. On(counted, Payers(k)', d) = On(counted, Payers(k), d)
  <2>1. d # 0
    BY CountTypes
  <2> QED BY <2>1 DEF On, Payers
<1>4. <<k, d>> \in CallerKey \X Day
  OBVIOUS
<1>5. share[<<k, d>>] \in Nat /\ share'[<<k, d>>] \in Nat /\ share[<<k, d>>] <= share'[<<k, d>>]
  BY <1>4 DEF TypeOK
<1> QED BY <1>1, <1>2, <1>3, <1>5

\* With nothing dated, accounts stay as they were.
LEMMA NothingSent ==
  ASSUME TypeOK, Accounts, UNCHANGED <<counted, granted, sent, service, own, fetched>>,
         \A s \in Request : who'[s] = who[s] \/ \A q \in Query : counted[s][q] = 0,
         ShareHeld', \A x \in CallerKey \X Day : share[x] <= share'[x],
         share' \in [CallerKey \X Day -> Nat]
  PROVE  Accounts'
<1>1. Counted'
  BY DEF Accounts, Counted, Finite, On, SentBy
<1>2. SharesArePaid'
  BY StillPaid
<1>3. Budgets'
  BY DEF Accounts, Budgets, On, At
<1> QED BY <1>1, <1>2, <1>3 DEF Accounts

\* A query that is counted is in the account of its share and of the service.
LEMMA OneCounted ==
  ASSUME TypeOK, Accounts, InOrder, NEW r \in Request, NEW q \in Query, IsCounted(r, q),
         UNCHANGED <<who, day>>
  PROVE  Accounts'
<1>1. /\ counted[r][q] = 0 /\ counted' = [counted EXCEPT ![r][q] = day]
      /\ service' = [service EXCEPT ![day] = @ + 1]
      /\ CountShare(who[r]) /\ ~ ShareSpent(who[r]) /\ UNCHANGED <<own, fetched, granted, sent>>
  BY DEF IsCounted, CountService, InOrder, Steps
<1>2. /\ Counted /\ Finite(counted) /\ day \in Day /\ who[r] \in Caller \cup {Nobody}
      /\ counted \in Dates
  BY CountTypes DEF Accounts, TypeOK, Counted
<1>3. /\ share' \in [CallerKey \X Day -> Nat]
      /\ \A x \in CallerKey \X Day : share[x] <= share'[x]
      /\ Shared(who[r]) => share'[<<who[r].key, day>>] = share[<<who[r].key, day>>] + 1
      /\ ShareHeld'
  BY <1>1, <1>2, ShareCounts DEF Accounts
<1>4. PICK new : new = counted'
  OBVIOUS
<1>5. /\ Finite(new)
      /\ \A R \in SUBSET Request, d \in Day :
           /\ Cardinality(On(counted, R, d)) \in Nat
           /\ Cardinality(On(new, R, d)) = Cardinality(On(counted, R, d)) + Adds(r, R, d)
  <2>1. new = [counted EXCEPT ![r][q] = day]
    BY <1>1, <1>4
  <2> QED BY <1>1, <1>2, <2>1, OnGrows
<1>6. Counted'
  <2>1. Finite(counted)' /\ Finite(granted)' /\ Finite(sent)'
    BY <1>1, <1>2, <1>4, <1>5 DEF Finite, On, Counted
  <2>2. \A s \in Request : IsFiniteSet(SentBy(s)') /\ fetched'[s] = Cardinality(SentBy(s)')
    BY <1>1, <1>2 DEF Counted, SentBy
  <2> QED BY <2>1, <2>2 DEF Counted
<1>7. SharesArePaid'
  <2> SUFFICES ASSUME NEW k \in CallerKey, NEW d \in Day
               PROVE  Cardinality(On(new, Payers(k), d)) <= share'[<<k, d>>]
    BY <1>4 DEF SharesArePaid, Payers, On
  <2>1. PICK R \in SUBSET Request : R = Payers(k)
    BY DEF Payers
  <2>2. Cardinality(On(counted, R, d)) <= share[<<k, d>>]
    BY <2>1 DEF Payers, Accounts, SharesArePaid
  <2>3. <<k, d>> \in CallerKey \X Day
    OBVIOUS
  <2>4. share[<<k, d>>] \in Nat /\ share'[<<k, d>>] \in Nat /\ share[<<k, d>>] <= share'[<<k, d>>]
    BY <1>3, <2>3 DEF TypeOK
  <2>5. r \in R => Shared(who[r]) /\ who[r].key = k
    BY <2>1 DEF Payers, Shared
  <2>6. d = day /\ r \in R => share'[<<k, d>>] = share[<<k, d>>] + 1
    BY <1>3, <2>5
  <2> QED BY <2>1, <2>2, <2>4, <2>6, <1>5 DEF Adds
<1>8. Budgets'
  <2> SUFFICES ASSUME NEW d \in Day
               PROVE  /\ Cardinality(On(new, Request, d)) <= service'[d]
                      /\ \A c \in Container : Cardinality(On(granted, At(c), d)) = own[c][d]
    BY <1>1, <1>4 DEF Budgets, At, On
  <2>1. /\ Cardinality(On(counted, Request, d)) <= service[d]
        /\ \A c \in Container : Cardinality(On(granted, At(c), d)) = own[c][d]
    BY DEF Accounts, Budgets
  <2>2. service[d] \in Nat /\ service'[d] = service[d] + (IF d = day THEN 1 ELSE 0)
    BY <1>1, <1>2, CountTypes
  <2> QED BY <1>5, <2>1, <2>2 DEF Adds
<1> QED BY <1>3, <1>6, <1>7, <1>8 DEF Accounts

\* One that is granted is in the account of its container.
LEMMA OneGranted ==
  ASSUME TypeOK, Accounts, InOrder, NEW r \in Request, NEW q \in Query, IsGranted(r, q),
         UNCHANGED <<who, day>>
  PROVE  Accounts'
<1>1. /\ granted[r][q] = 0 /\ granted' = [granted EXCEPT ![r][q] = day]
      /\ own' = [own EXCEPT ![Home[r]][day] = @ + 1]
      /\ UNCHANGED <<share, service, fetched, counted, sent>>
  BY DEF IsGranted, InOrder, Steps
<1>2. Counted /\ Finite(granted) /\ day \in Day /\ Home[r] \in Container /\ granted \in Dates
  BY CountTypes, CallAssumption DEF Accounts, TypeOK, Counted
<1>3. PICK new : new = granted'
  OBVIOUS
<1>4. /\ Finite(new)
      /\ \A R \in SUBSET Request, d \in Day :
           /\ Cardinality(On(granted, R, d)) \in Nat
           /\ Cardinality(On(new, R, d)) = Cardinality(On(granted, R, d)) + Adds(r, R, d)
  <2>1. new = [granted EXCEPT ![r][q] = day]
    BY <1>1, <1>3
  <2> QED BY <1>1, <1>2, <2>1, OnGrows
<1>5. Counted'
  <2>1. Finite(counted)' /\ Finite(granted)' /\ Finite(sent)'
    BY <1>1, <1>2, <1>3, <1>4 DEF Finite, On, Counted
  <2>2. \A s \in Request : IsFiniteSet(SentBy(s)') /\ fetched'[s] = Cardinality(SentBy(s)')
    BY <1>1, <1>2 DEF Counted, SentBy
  <2> QED BY <2>1, <2>2 DEF Counted
<1>6. SharesArePaid' /\ ShareHeld'
  BY <1>1 DEF Accounts, SharesArePaid, ShareHeld, On
<1>7. Budgets'
  <2> SUFFICES ASSUME NEW d \in Day
               PROVE  /\ Cardinality(On(counted, Request, d)) <= service[d]
                      /\ \A c \in Container : Cardinality(On(new, At(c), d)) = own'[c][d]
    BY <1>1, <1>3 DEF Budgets, At, On
  <2>1. /\ Cardinality(On(counted, Request, d)) <= service[d]
        /\ \A c \in Container : Cardinality(On(granted, At(c), d)) = own[c][d]
    BY DEF Accounts, Budgets
  <2>2. ASSUME NEW c \in Container PROVE Cardinality(On(new, At(c), d)) = own'[c][d]
    <3>1. own[c][d] \in Nat /\ own'[c][d] = own[c][d] + (IF d = day /\ Home[r] = c THEN 1 ELSE 0)
      BY <1>1, <1>2, CountTypes
    <3>2. At(c) \in SUBSET Request /\ (r \in At(c) <=> Home[r] = c)
      BY DEF At
    <3> QED BY <1>4, <2>1, <3>1, <3>2 DEF Adds
  <2> QED BY <2>1, <2>2
<1> QED BY <1>5, <1>6, <1>7 DEF Accounts

\* And one that is sent is in that of its call.
LEMMA OneSent ==
  ASSUME TypeOK, Accounts, InOrder, NEW r \in Request, NEW q \in Query, IsSent(r, q),
         UNCHANGED <<who, day>>
  PROVE  Accounts'
<1>1. /\ sent[r][q] = 0 /\ sent' = [sent EXCEPT ![r][q] = day]
      /\ fetched' = [fetched EXCEPT ![r] = @ + 1]
      /\ UNCHANGED <<share, service, own, counted, granted>>
  BY DEF IsSent, InOrder, Steps
<1>2. Counted /\ Finite(sent) /\ day \in Day /\ sent \in Dates
  BY CountTypes DEF Accounts, Counted
<1>3. PICK new : new = sent'
  OBVIOUS
<1>4. Finite(new)
  <2>1. new = [sent EXCEPT ![r][q] = day]
    BY <1>1, <1>3
  <2> QED BY <1>1, <1>2, <2>1, OnGrows
<1>5. Counted'
  <2>1. Finite(counted)' /\ Finite(granted)' /\ Finite(sent)'
    BY <1>1, <1>2, <1>3, <1>4 DEF Finite, On, Counted
  <2>2. \A s \in Request : IsFiniteSet(SentBy(s)') /\ fetched'[s] = Cardinality(SentBy(s)')
    BY <1>1, <1>2, SentByGrows
  <2> QED BY <2>1, <2>2 DEF Counted
<1>6. SharesArePaid' /\ ShareHeld' /\ Budgets'
  BY <1>1 DEF Accounts, SharesArePaid, ShareHeld, Budgets, On, At
<1> QED BY <1>5, <1>6 DEF Accounts

LEMMA NothingCounted ==
  ASSUME TypeOK, Accounts, UNCHANGED <<share, service, own, fetched, counted, granted, sent, who>>
  PROVE  Accounts'
<1>1. ShareHeld'
  BY DEF Accounts, ShareHeld
<1>2. share \in [CallerKey \X Day -> Nat]
  BY CountTypes
<1>3. \A x \in CallerKey \X Day : share[x] <= share'[x]
  BY <1>2
<1> QED BY <1>1, <1>2, <1>3, NothingSent

-----------------------------------------------------------------------------
(* Initially.                                                              *)

LEMMA InvInit == Init => IInv
<1> SUFFICES ASSUME Init PROVE IInv
  OBVIOUS
<1> USE DEF Init
<1>1. TypeOK
  <2>1. day \in Day /\ Elsewhere \in 0 .. ServiceDaily /\ 0 \in 0 .. ServiceDaily /\ 0 \in 0 .. OwnDaily
    BY CallAssumption, Days
  <2>2. counted \in Dates /\ granted \in Dates /\ sent \in Dates
    BY DEF Dates
  <2>3. day \in Day /\ service \in [Day -> 0 .. ServiceDaily] /\ own \in [Container -> [Day -> 0 .. OwnDaily]]
    BY <2>1
  <2>4. query \in [Request -> [Query -> {"idle", "done", "excused"} \cup Under \cup Failed]]
    OBVIOUS
  <2> QED BY <2>2, <2>3, <2>4 DEF TypeOK
<1>2. InTurn /\ AnswersOwnRequest /\ Arrived /\ Fresh /\ InOrder /\ KeysAreOld /\ CallerIsPeer
  <2>1. InOrder
    BY DEF InOrder, Steps
  <2> QED BY <2>1 DEF Arrived, InTurn, AnswersOwnRequest, Fresh, KeysAreOld, CallerIsPeer
<1>3. \A R \in SUBSET Request, d \in Day : On(counted, R, d) = {} /\ On(granted, R, d) = {} /\ On(sent, R, d) = {}
  BY CallAssumption DEF On, Day
<1>4. Accounts
  <2>1. ShareHeld
    BY CallAssumption DEF ShareHeld
  <2>2. Counted
    <3>1. \A r \in Request : SentBy(r) = {}
      BY DEF SentBy
    <3>2. \A d \in Day : On(counted, Request, d) = {} /\ On(granted, Request, d) = {} /\ On(sent, Request, d) = {}
      BY <1>3
    <3>3. Finite(counted) /\ Finite(granted) /\ Finite(sent)
      BY <3>2, FS_EmptySet DEF Finite
    <3>4. \A r \in Request : fetched[r] = 0
      OBVIOUS
    <3> QED BY ONLY <3>1, <3>3, <3>4, FS_EmptySet DEF Counted
  <2>3. SharesArePaid
    <3> SUFFICES ASSUME NEW k \in CallerKey, NEW d \in Day
                 PROVE  Cardinality(On(counted, Payers(k), d)) <= share[<<k, d>>]
      BY DEF SharesArePaid, Payers
    <3>1. share[<<k, d>>] = 0
      OBVIOUS
    <3>2. Payers(k) \in SUBSET Request
      BY DEF Payers
    <3>3. On(counted, Payers(k), d) = {}
      BY ONLY <1>3, <3>2
    <3> QED BY ONLY <3>1, <3>3, FS_EmptySet
  <2>4. Budgets
    <3> SUFFICES ASSUME NEW d \in Day
                 PROVE  /\ Cardinality(On(counted, Request, d)) <= service[d]
                        /\ \A c \in Container : Cardinality(On(granted, At(c), d)) = own[c][d]
      BY DEF Budgets
    <3>1. service[d] \in Nat /\ On(counted, Request, d) = {}
      <4>1. Request \in SUBSET Request /\ service[d] \in Nat
        BY CallAssumption
      <4> QED BY ONLY <4>1, <1>3
    <3>2. \A c \in Container : own[c][d] = 0 /\ On(granted, At(c), d) = {}
      <4>1. \A c \in Container : At(c) \in SUBSET Request
        BY DEF At
      <4> QED BY <1>3, <4>1
    <3>3. Cardinality(On(counted, Request, d)) <= service[d]
      BY ONLY <3>1, FS_EmptySet
    <3>4. \A c \in Container : Cardinality(On(granted, At(c), d)) = own[c][d]
      BY ONLY <3>2, FS_EmptySet
    <3> QED BY <3>3, <3>4
  <2> QED BY <2>1, <2>2, <2>3, <2>4 DEF Accounts
<1>5. NotesFollow /\ Told /\ LinesTellOutcome
  BY DEF NotesFollow, Told, LinesTellOutcome
<1> QED BY <1>1, <1>2, <1>4, <1>5 DEF IInv

-----------------------------------------------------------------------------
(* The queue.                                                              *)

LEMMA QueueTypes ==
  ASSUME TypeOK
  PROVE  /\ queue \in [Container -> Seq(Request)] /\ Home \in [Request -> Container]
         /\ transport \in [Container -> Request \cup {Nobody}]
         /\ event \in [Request -> Event \cup {Nobody}] /\ who \in [Request -> Caller \cup {Nobody}]
         /\ pc \in [Request -> {"new", "queued", "handling", "answered", "threw", "broken", "turned away"}]
BY CallAssumption DEF TypeOK

\* A request that is no longer at its turn disturbs nobody's.
LEMMA TurnLeft ==
  ASSUME InTurn, NEW r \in Request, UNCHANGED <<queue, transport>>, pc'[r] \notin {"queued", "handling"},
         \A s \in Request \ {r} : pc'[s] = pc[s]
  PROVE  InTurn'
<1> SUFFICES ASSUME NEW s \in Request
             PROVE  /\ pc'[s] = "queued" => Holds(queue[Home[s]], s)
                    /\ pc'[s] = "handling" => /\ queue[Home[s]] # <<>> /\ Head(queue[Home[s]]) = s
                                              /\ transport[Home[s]] = s
  BY DEF InTurn, Holds
<1>1. CASE s = r
  BY <1>1
<1>2. CASE s # r
  BY <1>2 DEF InTurn
<1> QED BY <1>1, <1>2

\* What does not change does not break the invariant.
LEMMA Kept ==
  ASSUME IInv
  PROVE  /\ UNCHANGED <<reply>> => AnswersOwnRequest'
         /\ UNCHANGED <<pc, who, reply, query>> => Fresh'
         /\ UNCHANGED <<day, query, counted, granted, sent>> => InOrder'
         /\ UNCHANGED <<who, day, counted>> => KeysAreOld'
         /\ UNCHANGED <<who, event>> => CallerIsPeer'
         /\ UNCHANGED <<notes, query>> => NotesFollow'
         /\ UNCHANGED <<reply, pc, notes>> => Told'
         /\ UNCHANGED <<reply, lines, sent>> => LinesTellOutcome'
         /\ UNCHANGED <<pc, queue, transport>> => InTurn'
         /\ UNCHANGED <<pc, event>> => Arrived'
<1>1. AnswersOwnRequest /\ Fresh /\ InOrder /\ KeysAreOld /\ CallerIsPeer /\ NotesFollow /\ Told
      /\ LinesTellOutcome /\ InTurn /\ Arrived
  BY DEF IInv
<1>2. UNCHANGED <<reply>> => AnswersOwnRequest'
  BY <1>1 DEF AnswersOwnRequest
<1>3. UNCHANGED <<pc, who, reply, query>> => Fresh'
  BY <1>1 DEF Fresh
<1>11. UNCHANGED <<day, query, counted, granted, sent>> => InOrder'
  BY <1>1 DEF InOrder, Steps
<1>4. UNCHANGED <<who, day, counted>> => KeysAreOld'
  BY <1>1 DEF KeysAreOld
<1>5. UNCHANGED <<who, event>> => CallerIsPeer'
  BY <1>1 DEF CallerIsPeer
<1>6. UNCHANGED <<notes, query>> => NotesFollow'
  BY <1>1 DEF NotesFollow
<1>7. UNCHANGED <<reply, pc, notes>> => Told'
  BY <1>1 DEF Told
<1>8. UNCHANGED <<reply, lines, sent>> => LinesTellOutcome'
  BY <1>1 DEF LinesTellOutcome
<1>9. UNCHANGED <<pc, queue, transport>> => InTurn'
  BY <1>1 DEF InTurn
<1>10. UNCHANGED <<pc, event>> => Arrived'
  BY <1>1 DEF Arrived
<1> QED BY <1>2, <1>3, <1>4, <1>5, <1>6, <1>7, <1>8, <1>9, <1>10, <1>11

\* A request that joins a queue is in it, behind the others.
LEMMA Joins ==
  ASSUME NEW s \in Seq(Request), NEW r \in Request
  PROVE  /\ Append(s, r) \in Seq(Request) /\ Append(s, r) # <<>> /\ Holds(Append(s, r), r)
         /\ \A x : Holds(s, x) => Holds(Append(s, r), x)
         /\ s # <<>> => Head(Append(s, r)) = Head(s)
<1> DEFINE t == Append(s, r)
<1>1. /\ t \in Seq(Request) /\ t # <<>> /\ Len(t) = Len(s) + 1 /\ Len(s) \in Nat
      /\ t[Len(s) + 1] = r /\ \A i \in 1 .. Len(s) : t[i] = s[i]
  BY AppendProperties, LenProperties
<1>2. s # <<>> => 1 \in 1 .. Len(s) /\ Head(s) = s[1]
  BY LenProperties, EmptySeq
<1>3. Head(t) = t[1]
  BY <1>1
<1> HIDE DEF t
<1>4. Holds(t, r)
  <2>1. Len(s) + 1 \in 1 .. Len(t)
    BY <1>1
  <2> QED BY <1>1, <2>1 DEF Holds
<1>5. ASSUME NEW x, Holds(s, x) PROVE Holds(t, x)
  BY <1>1, <1>5 DEF Holds
<1> QED BY <1>1, <1>2, <1>3, <1>4, <1>5 DEF t

\* When the head leaves, the others stay.
LEMMA Leaves ==
  ASSUME NEW s \in Seq(Request), s # <<>>
  PROVE  /\ Tail(s) \in Seq(Request)
         /\ \A x : Holds(s, x) /\ Head(s) # x => Holds(Tail(s), x)
<1>1. /\ Tail(s) \in Seq(Request) /\ Len(s) \in Nat /\ Len(Tail(s)) = Len(s) - 1
      /\ Head(s) = s[1] /\ \A i \in 1 .. Len(Tail(s)) : Tail(s)[i] = s[i + 1]
  BY HeadTailProperties, LenProperties
<1>2. ASSUME NEW x, Holds(s, x), Head(s) # x PROVE Holds(Tail(s), x)
  <2>1. PICK i \in 1 .. Len(s) : s[i] = x
    BY <1>2 DEF Holds
  <2>2. i - 1 \in 1 .. Len(Tail(s)) /\ (i - 1) + 1 = i
    BY <1>1, <1>2, <2>1
  <2> QED BY <1>1, <2>1, <2>2 DEF Holds
<1> QED BY <1>1, <1>2

LEMMA ArriveStep ==
  ASSUME IInv, NEW r \in Request, NEW e \in Offer[r], Arrive(r, e)
  PROVE  IInv'
<1>1. /\ TypeOK /\ InTurn /\ Accounts /\ Fresh /\ CallerIsPeer /\ Told /\ Arrived /\ pc[r] = "new"
      /\ UNCHANGED <<day, transport, who, lines, reply>>
      /\ UNCHANGED <<share, tools, service, over, own>> /\ UNCHANGED <<query, notes, fetched, counted, granted, sent>>
  BY DEF IInv, Arrive, counts, context, days
<1>2. /\ event' = [event EXCEPT ![r] = e]
      /\ pc' = [pc EXCEPT ![r] = IF e.served THEN "queued" ELSE "turned away"]
      /\ queue' = IF e.served THEN [queue EXCEPT ![Home[r]] = Append(@, r)] ELSE queue
  BY DEF Arrive
<1>3. e \in Event
  BY OfferAssumption
<1>4. /\ pc' \in [Request -> {"new", "queued", "handling", "answered", "threw", "broken", "turned away"}]
      /\ pc'[r] = IF e.served THEN "queued" ELSE "turned away"
      /\ \A s \in Request \ {r} : pc'[s] = pc[s] /\ event'[s] = event[s]
      /\ event' \in [Request -> Event \cup {Nobody}]
  BY <1>1, <1>2, <1>3, QueueTypes
<1>5. queue' \in [Container -> Seq(Request)]
  BY <1>1, <1>2, QueueTypes, Joins
<1>6. TypeOK'
  BY <1>1, <1>4, <1>5 DEF TypeOK
<1>7. InTurn'
  <2> SUFFICES ASSUME NEW s \in Request
               PROVE  /\ pc'[s] = "queued" => Holds(queue'[Home[s]], s)
                      /\ pc'[s] = "handling" => /\ queue'[Home[s]] # <<>> /\ Head(queue'[Home[s]]) = s
                                                /\ transport[Home[s]] = s
    BY <1>1 DEF InTurn, Holds
  <2> DEFINE old == queue[Home[s]]
             new == queue'[Home[s]]
  <2>1. old \in Seq(Request) /\ new \in {old, Append(old, r)}
        /\ (s = r /\ pc'[s] = "queued" => new = Append(old, r))
        /\ (s = r => pc'[s] # "handling") /\ (s # r => pc'[s] = pc[s])
    BY <1>1, <1>2, <1>4, QueueTypes
  <2>2. /\ pc[s] = "queued" => Holds(old, s)
        /\ pc[s] = "handling" => old # <<>> /\ Head(old) = s /\ transport[Home[s]] = s
    BY <1>1 DEF InTurn
  <2> SUFFICES /\ pc'[s] = "queued" => Holds(new, s)
               /\ pc'[s] = "handling" => new # <<>> /\ Head(new) = s /\ transport[Home[s]] = s
    OBVIOUS
  <2> HIDE DEF old, new
  <2> QED BY <2>1, <2>2, Joins, ZenonT(30)
<1>8. Fresh'
  <2> SUFFICES ASSUME NEW s \in Request
               PROVE  pc'[s] \in {"new", "queued"} =>
                        /\ who[s] = Nobody /\ reply[s] = Nobody
                        /\ \A q \in Query : query[s][q] = "idle"
    BY <1>1 DEF Fresh
  <2>1. pc'[s] \in {"new", "queued"} => pc[s] \in {"new", "queued"}
    BY <1>1, <1>4
  <2> QED BY <1>1, <2>1 DEF Fresh
<1>9. CallerIsPeer'
  <2>1. who[r] = Nobody
    BY <1>1 DEF Fresh
  <2> QED BY <1>1, <1>4, <2>1 DEF CallerIsPeer
<1>10. Told'
  BY <1>1, <1>4 DEF Told, Fresh
<1>11. Accounts'
  BY <1>1, NothingCounted
<1>12. Arrived'
  <2>1. event'[r] = e
    BY <1>1, <1>2, QueueTypes
  <2> QED BY <1>1, <1>3, <1>4, <2>1 DEF Arrived
<1> QED BY <1>1, <1>6, <1>7, <1>8, <1>9, <1>10, <1>11, <1>12, Kept DEF IInv

LEMMA CloseStep ==
  ASSUME IInv, NEW c \in Container, Close(c)
  PROVE  IInv'
<1>1. /\ TypeOK /\ InTurn /\ Accounts /\ UNCHANGED <<day, event, pc, who, lines, reply>>
      /\ UNCHANGED <<share, tools, service, over, own>> /\ UNCHANGED <<query, notes, fetched, counted, granted, sent>>
  BY DEF IInv, Close, counts, context, days
<1>2. /\ queue[c] # <<>> /\ pc[Head(queue[c])] \in {"answered", "threw", "broken"}
      /\ queue' = [queue EXCEPT ![c] = Tail(@)] /\ transport' = [transport EXCEPT ![c] = Nobody]
  BY DEF Close, CanClose
<1>3. queue' \in [Container -> Seq(Request)] /\ transport' \in [Container -> Request \cup {Nobody}]
  <2>1. Tail(queue[c]) \in Seq(Request)
    BY <1>1, <1>2, QueueTypes, Leaves
  <2> QED BY <1>1, <1>2, <2>1, QueueTypes
<1>4. TypeOK'
  BY <1>1, <1>3 DEF TypeOK
<1>5. InTurn'
  <2> SUFFICES ASSUME NEW s \in Request
               PROVE  /\ pc[s] = "queued" => Holds(queue'[Home[s]], s)
                      /\ pc[s] = "handling" => /\ queue'[Home[s]] # <<>> /\ Head(queue'[Home[s]]) = s
                                               /\ transport'[Home[s]] = s
    BY <1>1 DEF InTurn, Holds
  <2>1. /\ pc[s] = "queued" => Holds(queue[Home[s]], s)
        /\ pc[s] = "handling" => /\ queue[Home[s]] # <<>> /\ Head(queue[Home[s]]) = s
                                 /\ transport[Home[s]] = s
    BY <1>1 DEF InTurn
  <2>2. CASE Home[s] # c
    BY <1>1, <1>2, <2>1, <2>2, QueueTypes
  <2>3. CASE Home[s] = c
    <3>1. queue'[c] = Tail(queue[c]) /\ queue[c] \in Seq(Request)
      BY <1>1, <1>2, QueueTypes
    <3>2. pc[s] # "handling" /\ (pc[s] = "queued" => Head(queue[c]) # s)
      BY <1>2, <2>1, <2>3
    <3> QED BY <1>2, <2>1, <2>3, <3>1, <3>2, Leaves
  <2> QED BY <2>2, <2>3
<1>6. Accounts'
  BY <1>1, NothingCounted
<1> QED BY <1>1, <1>4, <1>5, <1>6, Kept DEF IInv

LEMMA BreakStep ==
  ASSUME IInv, NEW r \in Request, TransportFails(r)
  PROVE  IInv'
<1>1. /\ TypeOK /\ InTurn /\ Accounts /\ Fresh /\ Told /\ Arrived /\ pc[r] = "queued"
      /\ pc' = [pc EXCEPT ![r] = "broken"]
      /\ UNCHANGED <<day, queue, transport, event, who, lines, reply>>
      /\ UNCHANGED <<share, tools, service, over, own>> /\ UNCHANGED <<query, notes, fetched, counted, granted, sent>>
  BY DEF IInv, TransportFails, MyTurn, counts, context, days
<1>2. /\ pc' \in [Request -> {"new", "queued", "handling", "answered", "threw", "broken", "turned away"}]
      /\ pc'[r] = "broken" /\ \A s \in Request \ {r} : pc'[s] = pc[s]
  BY <1>1, QueueTypes
<1>3. TypeOK'
  BY <1>1, <1>2 DEF TypeOK
<1>4. InTurn'
  BY <1>1, <1>2, TurnLeft
<1>5. Fresh'
  <2> SUFFICES ASSUME NEW s \in Request
               PROVE  pc'[s] \in {"new", "queued"} =>
                        /\ who[s] = Nobody /\ reply[s] = Nobody
                        /\ \A q \in Query : query[s][q] = "idle"
    BY <1>1 DEF Fresh
  <2> QED BY <1>1, <1>2 DEF Fresh
<1>6. Told'
  <2>1. reply[r] = Nobody
    BY <1>1 DEF Fresh
  <2> QED BY <1>1, <1>2, <2>1 DEF Told
<1>7. Accounts'
  BY <1>1, NothingCounted
<1>8. Arrived'
  BY <1>1, <1>2 DEF Arrived
<1> QED BY <1>1, <1>3, <1>4, <1>5, <1>6, <1>7, <1>8, Kept DEF IInv

LEMMA DayStep ==
  ASSUME IInv, NextDay
  PROVE  IInv'
<1>1. /\ TypeOK /\ InOrder /\ KeysAreOld /\ Accounts /\ day < LastDay /\ day' = day + 1
      /\ UNCHANGED <<pc, queue, transport, event, who, lines, reply>>
      /\ UNCHANGED <<share, tools, service, over, own>> /\ UNCHANGED <<query, notes, fetched, counted, granted, sent>>
  BY DEF IInv, NextDay, counts, context, days
<1>2. day \in Day /\ day' \in Day /\ day <= day'
  BY <1>1, CountTypes, CallAssumption DEF Day
<1>3. TypeOK'
  BY <1>1, <1>2 DEF TypeOK
<1>4. KeysAreOld'
  <2> SUFFICES ASSUME NEW s \in Request, who[s] # Nobody, who[s].key.of = "network"
               PROVE  who[s].key.day <= day'
                      /\ \A q \in Query : counted[s][q] # 0 => who[s].key.day <= counted[s][q]
    BY <1>1 DEF KeysAreOld
  <2>1. who[s].key.day \in Day
    BY <1>1, QueueTypes DEF Caller, CallerKey
  <2>2. who[s].key.day <= day
    BY <1>1 DEF KeysAreOld
  <2> QED BY <1>1, <1>2, <2>1, <2>2, Days DEF KeysAreOld
<1>5. Accounts'
  BY <1>1, NothingCounted
<1>6. InOrder'
  <2> SUFFICES ASSUME NEW s \in Request, NEW q \in Query
               PROVE  Steps(query[s][q], counted[s][q], granted[s][q], sent[s][q])'
    BY DEF InOrder
  <2>1. Steps(query[s][q], counted[s][q], granted[s][q], sent[s][q])
    BY <1>1 DEF InOrder
  <2>2. counted[s][q] \in Nat /\ granted[s][q] \in Nat /\ sent[s][q] \in Nat
    <3>1. /\ counted \in Dates /\ granted \in Dates /\ sent \in Dates /\ Day \subseteq Nat
          /\ s \in Request /\ q \in Query
      BY <1>1, CountTypes
    <3>2. counted[s][q] \in Day \cup {0} /\ granted[s][q] \in Day \cup {0} /\ sent[s][q] \in Day \cup {0}
      BY ONLY <3>1 DEF Dates
    <3> QED
      <4>1. \A x \in Day \cup {0} : x \in Nat
        BY ONLY <3>1
      <4> QED BY ONLY <3>2, <4>1
  <2>3. /\ query'[s][q] = query[s][q] /\ counted'[s][q] = counted[s][q]
        /\ granted'[s][q] = granted[s][q] /\ sent'[s][q] = sent[s][q] /\ day <= day'
        /\ day \in Nat /\ day' \in Nat
    BY <1>1, <1>2, CallAssumption DEF Day
  <2> QED BY ONLY <2>1, <2>2, <2>3 DEF Steps
<1> QED BY <1>1, <1>3, <1>4, <1>5, <1>6, Kept DEF IInv

-----------------------------------------------------------------------------
(* The call.                                                               *)

AnswerTypes ==
  /\ lines \in [Request -> Seq(Line)] /\ reply \in [Request -> Reply \cup {Nobody}]
  /\ notes \in [Request -> SUBSET (NoteKind \X Request)] /\ fetched \in [Request -> Nat]
  /\ query \in [Request -> [Query -> QueryStates]]
  /\ tools \in [CallerKey \X Day -> Nat]

LEMMA AnswersTyped == TypeOK => AnswerTypes
BY DEF TypeOK, AnswerTypes, QueryStates

\* A line that is written is the last.
LEMMA LastLine ==
  ASSUME NEW s \in Seq(Line), NEW t \in Seq(Line), t # <<>>
  PROVE  /\ s \o t \in Seq(Line) /\ s \o t # <<>>
         /\ (s \o t)[Len(s \o t)] = t[Len(t)]
<1>1. /\ s \o t \in Seq(Line) /\ Len(s \o t) = Len(s) + Len(t)
      /\ \A i \in 1 .. Len(t) : (s \o t)[Len(s) + i] = t[i]
  BY ConcatProperties
<1>2. Len(s) \in Nat /\ Len(t) \in Nat /\ Len(t) # 0
  BY LenProperties, EmptySeq
<1>3. s \o t # <<>>
  BY <1>1, <1>2, EmptySeq
<1>4. Len(t) \in 1 .. Len(t)
  BY <1>2
<1> QED BY <1>1, <1>2, <1>3, <1>4

\* The outcome a line tells of an answer.
LineOf(outcome, limitations) ==
  IF \E n \in limitations : n[1] = "stale" THEN "stale" ELSE outcome

\* What answers r: its state, its lines, the answer and where it goes.
Concludes(r, to, then, more, outcome, limitations) ==
  /\ pc' = [pc EXCEPT ![r] = then] /\ Writes(r, more) /\ Answer(to, r, outcome, limitations)
  /\ UNCHANGED <<day, queue, event>> /\ UNCHANGED <<share, service, own>>
  /\ UNCHANGED <<query, notes, fetched, counted, granted, sent>>

\* The lines and the answer agree, and the answer is the call's own.
LEMMA Answered ==
  ASSUME IInv, NEW r \in Request, NEW then \in {"answered", "threw"}, NEW more \in Seq(Line),
         NEW outcome \in Outcome \ {"stale"}, NEW limitations \in {notes[r], {}},
         more # <<>>, pc[r] \in {"queued", "handling"},
         Concludes(r, r, then, more, outcome, limitations),
         outcome = "ok" => limitations = notes[r] /\ then = "answered",
         outcome # "ok" => limitations = {},
         more[Len(more)].outcome = LineOf(outcome, limitations),
         outcome = "ok" => more[Len(more)].upstream = fetched[r]
  PROVE  /\ reply' \in [Request -> Reply \cup {Nobody}] /\ lines' \in [Request -> Seq(Line)]
         /\ pc' \in [Request -> {"new", "queued", "handling", "answered", "threw", "broken", "turned away"}]
         /\ pc'[r] = then /\ \A s \in Request \ {r} : pc'[s] = pc[s]
         /\ AnswersOwnRequest' /\ Told' /\ LinesTellOutcome'
<1>1. /\ TypeOK /\ AnswersOwnRequest /\ Told /\ LinesTellOutcome /\ Counted
      /\ UNCHANGED notes /\ UNCHANGED sent
  BY DEF IInv, Accounts, Concludes
<1>2. AnswerTypes /\ pc \in [Request -> {"new", "queued", "handling", "answered", "threw", "broken", "turned away"}]
  BY <1>1, AnswersTyped, QueueTypes
<1> DEFINE a == [of |-> r, outcome |-> outcome, limitations |-> limitations]
           ls == lines[r] \o more
<1>3. /\ pc' = [pc EXCEPT ![r] = then] /\ lines' = [lines EXCEPT ![r] = ls]
      /\ reply' = [reply EXCEPT ![r] = a]
  BY DEF Concludes, Writes, Answer
<1>4. /\ a \in Reply /\ a.of = r /\ a.outcome = outcome /\ a.limitations = limitations
  <2>1. notes[r] \in SUBSET (NoteKind \X Request)
    BY <1>2 DEF AnswerTypes
  <2> QED BY <2>1 DEF Reply
<1>5. ls \in Seq(Line) /\ ls # <<>> /\ ls[Len(ls)] = more[Len(more)]
  BY <1>2, LastLine DEF AnswerTypes
<1> HIDE DEF a, ls
<1>6. /\ reply' \in [Request -> Reply \cup {Nobody}] /\ lines' \in [Request -> Seq(Line)]
      /\ pc' \in [Request -> {"new", "queued", "handling", "answered", "threw", "broken", "turned away"}]
      /\ reply'[r] = a /\ lines'[r] = ls /\ pc'[r] = then
      /\ \A s \in Request \ {r} : reply'[s] = reply[s] /\ lines'[s] = lines[s] /\ pc'[s] = pc[s]
  BY <1>2, <1>3, <1>4, <1>5 DEF AnswerTypes
<1>7. AnswersOwnRequest'
  <2> SUFFICES ASSUME NEW s \in Request, reply'[s] # Nobody PROVE reply'[s].of = s
    BY DEF AnswersOwnRequest
  <2>1. CASE s = r
    BY <1>4, <1>6, <2>1
  <2>2. CASE s # r
    BY <1>1, <1>6, <2>2 DEF AnswersOwnRequest
  <2> QED BY <2>1, <2>2
<1>8. Told'
  <2> SUFFICES ASSUME NEW s \in Request, reply'[s] # Nobody
               PROVE  /\ pc'[s] # "handling"
                      /\ reply'[s].outcome = "ok" =>
                           pc'[s] = "answered" /\ reply'[s].limitations = notes[s]
                      /\ reply'[s].outcome # "ok" => reply'[s].limitations = {}
    BY <1>1 DEF Told
  <2>1. CASE s = r
    BY <1>4, <1>6, <2>1
  <2>2. CASE s # r
    <3>1. reply'[s] = reply[s] /\ pc'[s] = pc[s] /\ reply[s] # Nobody
      BY <1>6, <2>2
    <3>2. /\ pc[s] # "handling"
          /\ reply[s].outcome = "ok" => pc[s] = "answered" /\ reply[s].limitations = notes[s]
          /\ reply[s].outcome # "ok" => reply[s].limitations = {}
      BY <1>1, <3>1 DEF Told
    <3> QED BY ONLY <3>1, <3>2
  <2> QED BY <2>1, <2>2
<1>9. LinesTellOutcome'
  <2> SUFFICES ASSUME NEW s \in Request, reply'[s] # Nobody, reply'[s].of = s
               PROVE  LET last == lines'[s][Len(lines'[s])] IN
                      /\ lines'[s] # <<>>
                      /\ last.outcome = IF \E n \in reply'[s].limitations : n[1] = "stale" THEN "stale"
                                        ELSE reply'[s].outcome
                      /\ reply'[s].outcome = "ok" => last.upstream = Cardinality(SentBy(s))
    BY <1>1 DEF LinesTellOutcome, SentBy
  <2>1. CASE s = r
    <3>1. outcome = "ok" => fetched[r] = Cardinality(SentBy(r))
      BY <1>1 DEF Counted
    <3>2. /\ reply'[s].outcome = outcome /\ reply'[s].limitations = limitations
          /\ lines'[s] # <<>> /\ lines'[s][Len(lines'[s])] = more[Len(more)]
      BY ONLY <1>4, <1>5, <1>6, <2>1
    <3>3. more[Len(more)].outcome = IF \E n \in limitations : n[1] = "stale" THEN "stale" ELSE outcome
      BY DEF LineOf
    <3>4. outcome = "ok" => more[Len(more)].upstream = Cardinality(SentBy(s))
      BY <2>1, <3>1
    <3> QED BY ONLY <3>2, <3>3, <3>4
  <2>2. CASE s # r
    <3>1. reply'[s] = reply[s] /\ lines'[s] = lines[s]
      BY <1>6, <2>2
    <3>2. reply[s] # Nobody /\ reply[s].of = s
      BY <3>1
    <3>3. LET last == lines[s][Len(lines[s])] IN
          /\ lines[s] # <<>>
          /\ last.outcome = IF \E n \in reply[s].limitations : n[1] = "stale" THEN "stale"
                            ELSE reply[s].outcome
          /\ reply[s].outcome = "ok" => last.upstream = Cardinality(SentBy(s))
      BY <1>1, <3>2 DEF LinesTellOutcome, SentBy
    <3> QED BY ONLY <3>1, <3>3
  <2> QED BY <2>1, <2>2
<1> QED BY <1>6, <1>7, <1>8, <1>9

\* The end of a running call goes to the transport it holds.
LEMMA ConcludeStep ==
  ASSUME IInv, NEW r \in Request, NEW then \in {"answered", "threw"}, NEW more \in Seq(Line),
         NEW outcome \in Outcome \ {"stale"}, NEW limitations \in {notes[r], {}},
         more # <<>>, pc[r] = "handling",
         Concludes(r, Held(r), then, more, outcome, limitations), UNCHANGED <<transport, who, tools, over>>,
         outcome = "ok" => limitations = notes[r] /\ then = "answered",
         outcome # "ok" => limitations = {},
         more[Len(more)].outcome = LineOf(outcome, limitations),
         outcome = "ok" => more[Len(more)].upstream = fetched[r]
  PROVE  IInv'
<1>1. /\ TypeOK /\ InTurn /\ Accounts /\ Fresh /\ Arrived /\ UNCHANGED <<day, queue, event>>
      /\ UNCHANGED <<share, service, own>> /\ UNCHANGED <<query, notes, fetched, counted, granted, sent>>
  BY DEF IInv, Concludes
<1>2. Held(r) = r
  BY <1>1 DEF Held, InTurn
<1>3. /\ reply' \in [Request -> Reply \cup {Nobody}] /\ lines' \in [Request -> Seq(Line)]
      /\ pc' \in [Request -> {"new", "queued", "handling", "answered", "threw", "broken", "turned away"}]
      /\ pc'[r] = then /\ \A s \in Request \ {r} : pc'[s] = pc[s]
      /\ AnswersOwnRequest' /\ Told' /\ LinesTellOutcome'
  <2>1. Concludes(r, r, then, more, outcome, limitations) /\ pc[r] \in {"queued", "handling"}
    BY <1>2
  <2> QED BY <2>1, Answered, ZenonT(30)
<1>4. TypeOK'
  BY <1>1, <1>3 DEF TypeOK
<1>5. InTurn'
  <2>1. pc'[r] \notin {"queued", "handling"}
    BY <1>3
  <2> QED BY <1>1, <1>3, <2>1, TurnLeft
<1>6. Fresh'
  <2> SUFFICES ASSUME NEW s \in Request
               PROVE  pc'[s] \in {"new", "queued"} =>
                        /\ who[s] = Nobody /\ reply'[s] = Nobody
                        /\ \A q \in Query : query[s][q] = "idle"
    BY <1>1 DEF Fresh
  <2>1. s # r => reply'[s] = reply[s]
    BY <1>1, <1>2, AnswersTyped DEF AnswerTypes, Concludes, Answer
  <2> QED BY <1>1, <1>3, <2>1 DEF Fresh
<1>7. Accounts'
  BY <1>1, NothingCounted
<1>8. Arrived'
  BY <1>1, <1>3 DEF Arrived
<1> QED BY <1>1, <1>3, <1>4, <1>5, <1>6, <1>7, <1>8, Kept DEF IInv

\* Every way a running call ends.
LEMMA EndStep ==
  ASSUME IInv, NEW r \in Request,
         Returns(r) \/ WrapThrows(r) \/ Objects(r) \/ \E q \in Queries[r] : Throws(r, q)
  PROVE  IInv'
<1>1. TypeOK /\ NotesFollow /\ AnswerTypes
  BY AnswersTyped DEF IInv
<1>2. fetched[r] \in Nat /\ OkLine(r) \in Line /\ OkLine(r).upstream = fetched[r]
      /\ OkLine(r).outcome = IF \E n \in notes[r] : n[1] = "stale" THEN "stale" ELSE "ok"
  BY <1>1 DEF AnswerTypes, OkLine, StaleNoted, Line, Outcome
<1>3. \A o \in Outcome : ErrorLine(o) \in Line /\ ErrorLine(o).outcome = o
  BY DEF ErrorLine, Line
<1>4. \A l \in Line : /\ <<l>> \in Seq(Line) /\ <<l>> # <<>> /\ <<l>>[Len(<<l>>)] = l
  OBVIOUS
<1>5. CASE Returns(r)
  <2>1. /\ pc[r] = "handling" /\ UNCHANGED <<transport, who, tools, over>>
        /\ Concludes(r, Held(r), "answered", <<OkLine(r)>>, "ok", notes[r])
    BY <1>5 DEF Returns, Concludes, counts, context, days
  <2> QED BY <2>1, <1>2, <1>4, ConcludeStep DEF Outcome, LineOf
<1>6. CASE WrapThrows(r)
  <2> DEFINE second == [outcome |-> "error", upstream |-> fetched[r]]
             more == <<OkLine(r), second>>
  <2>1. /\ pc[r] = "handling" /\ UNCHANGED <<transport, who, tools, over>>
        /\ Concludes(r, Held(r), "answered", more, "error", {})
    BY <1>6 DEF WrapThrows, Concludes, counts, context, days
  <2>2. second \in Line /\ second.outcome = "error"
    BY <1>2 DEF Line, Outcome
  <2> HIDE DEF second
  <2>3. more \in Seq(Line) /\ more # <<>> /\ more[Len(more)].outcome = "error"
    BY <1>2, <2>2
  <2> HIDE DEF more
  <2> QED BY <2>1, <2>3, ConcludeStep DEF Outcome, LineOf
<1>7. CASE Objects(r)
  <2>1. /\ pc[r] = "handling" /\ UNCHANGED <<transport, who, tools, over>>
        /\ Concludes(r, Held(r), "answered", <<ErrorLine("error")>>, "error", {})
    BY <1>7 DEF Objects, Concludes, counts, context, days
  <2> QED BY <2>1, <1>3, <1>4, ConcludeStep DEF Outcome, LineOf
<1>8. ASSUME NEW q \in Queries[r], Throws(r, q) PROVE IInv'
  <2>1. /\ pc[r] = "handling" /\ UNCHANGED <<transport, who, tools, over>>
        /\ query[r][q] \in Failed
        /\ Concludes(r, Held(r), "threw", <<ErrorLine(query[r][q])>>, query[r][q], {})
    BY <1>8 DEF Throws, Concludes, counts, context, days
  <2>2. query[r][q] \in Outcome \ {"stale"} /\ query[r][q] # "ok"
    BY <2>1 DEF Failed, Outcome
  <2> QED BY <2>1, <2>2, <1>3, <1>4, ConcludeStep DEF LineOf
<1> QED BY <1>5, <1>6, <1>7, <1>8


\* A request gets its turn, or no tool call.
LEMMA OpenStep ==
  ASSUME IInv, NEW r \in Request, Open(r)
  PROVE  IInv'
<1>1. /\ TypeOK /\ InTurn /\ Arrived /\ Fresh /\ InOrder /\ Accounts /\ KeysAreOld /\ CallerIsPeer
      /\ Told /\ AnswerTypes
  BY AnswersTyped DEF IInv
<1>2. PICK w : w = Identify(Headers(event[r]), day)
  OBVIOUS
<1>3. /\ pc[r] = "queued" /\ Head(queue[Home[r]]) = r
      /\ transport' = [transport EXCEPT ![Home[r]] = r] /\ who' = [who EXCEPT ![r] = w]
      /\ UNCHANGED <<day, queue, event>> /\ UNCHANGED <<share, service, over, own>>
      /\ UNCHANGED <<query, notes, fetched, counted, granted, sent>>
  BY <1>2 DEF Open, MyTurn, context, days
<1>4. \/ /\ CallRefused(w, day) /\ pc' = [pc EXCEPT ![r] = "answered"]
         /\ Writes(r, <<ErrorLine(w.kind)>>) /\ Answer(r, r, w.kind, {}) /\ UNCHANGED tools
      \/ /\ ~ CallRefused(w, day) /\ pc' = [pc EXCEPT ![r] = "handling"]
         /\ tools' = IF Shared(w) THEN [tools EXCEPT ![<<w.key, day>>] = @ + 1] ELSE tools
         /\ UNCHANGED <<lines, reply>>
  BY <1>2 DEF Open
<1>5. /\ w \in Caller \cup {Nobody}
      /\ w # Nobody => /\ event[r].adapter
                       /\ w.key.of # "test" => w.key.name = NetworkOf[event[r].peer]
                       /\ w.key.of = "network" => w.key.day = day
  <2>1. event[r] \in Event /\ day \in Day
    BY <1>1, <1>3, CountTypes DEF Arrived
  <2> QED BY <1>2, <2>1, Identified
<1>6. /\ who[r] = Nobody /\ reply[r] = Nobody
      /\ \A q \in Query : query[r][q] = "idle" /\ counted[r][q] = 0
  BY <1>1, <1>3 DEF Fresh, InOrder, Steps
<1>7. /\ who' \in [Request -> Caller \cup {Nobody}] /\ transport' \in [Container -> Request \cup {Nobody}]
      /\ who'[r] = w /\ \A s \in Request \ {r} : who'[s] = who[s]
      /\ transport'[Home[r]] = r /\ \A c \in Container \ {Home[r]} : transport'[c] = transport[c]
  BY <1>1, <1>3, <1>5, QueueTypes
<1>8. /\ reply' \in [Request -> Reply \cup {Nobody}] /\ lines' \in [Request -> Seq(Line)]
      /\ pc' \in [Request -> {"new", "queued", "handling", "answered", "threw", "broken", "turned away"}]
      /\ pc'[r] \in {"answered", "handling"} /\ \A s \in Request \ {r} : pc'[s] = pc[s]
      /\ \A s \in Request \ {r} : reply'[s] = reply[s]
      /\ tools' \in [CallerKey \X Day -> Nat]
      /\ AnswersOwnRequest' /\ Told' /\ LinesTellOutcome'
  <2>1. CASE CallRefused(w, day) /\ pc' = [pc EXCEPT ![r] = "answered"]
             /\ Writes(r, <<ErrorLine(w.kind)>>) /\ Answer(r, r, w.kind, {}) /\ UNCHANGED tools
    <3>1. w \in Caller /\ w.kind \in {"network", "pool"}
      BY <1>5, <2>1 DEF CallRefused, Shared, Caller
    <3> DEFINE line == ErrorLine(w.kind)
    <3>2. line \in Line /\ line.outcome = w.kind /\ w.kind \in Outcome \ {"stale", "ok"}
      BY <3>1 DEF ErrorLine, Line, Outcome
    <3>3. Concludes(r, r, "answered", <<line>>, w.kind, {})
      BY <1>3, <2>1 DEF Concludes
    <3> HIDE DEF line
    <3>4. <<line>> \in Seq(Line) /\ <<line>> # <<>> /\ <<line>>[Len(<<line>>)] = line
      BY <3>2
    <3>5. LineOf(w.kind, {}) = w.kind
      BY DEF LineOf
    <3>6. \A s \in Request \ {r} : reply'[s] = reply[s]
      BY <1>1, <2>1 DEF Answer, AnswerTypes
    <3>7. /\ reply' \in [Request -> Reply \cup {Nobody}] /\ lines' \in [Request -> Seq(Line)]
          /\ pc' \in [Request -> {"new", "queued", "handling", "answered", "threw", "broken", "turned away"}]
          /\ pc'[r] = "answered" /\ \A s \in Request \ {r} : pc'[s] = pc[s]
          /\ AnswersOwnRequest' /\ Told' /\ LinesTellOutcome'
      BY <1>3, <3>2, <3>3, <3>4, <3>5, Answered
    <3> QED BY <1>1, <2>1, <3>6, <3>7 DEF AnswerTypes
  <2>2. CASE /\ ~ CallRefused(w, day) /\ pc' = [pc EXCEPT ![r] = "handling"]
             /\ tools' = IF Shared(w) THEN [tools EXCEPT ![<<w.key, day>>] = @ + 1] ELSE tools
             /\ UNCHANGED <<lines, reply>>
    <3>1. tools' \in [CallerKey \X Day -> Nat]
      <4>1. Shared(w) => <<w.key, day>> \in CallerKey \X Day
        BY <1>1, <1>5, CountTypes DEF Shared, Caller
      <4> DEFINE x == <<w.key, day>>
                 K == CallerKey \X Day
      <4>2. tools \in [K -> Nat] /\ (Shared(w) => x \in K)
            /\ tools' = IF Shared(w) THEN [tools EXCEPT ![x] = @ + 1] ELSE tools
        BY <1>1, <2>2, <4>1 DEF AnswerTypes
      <4> HIDE DEF x, K
      <4>3. tools' \in [K -> Nat]
        BY <4>2
      <4> QED BY <4>3 DEF K
    <3>2. /\ pc' \in [Request -> {"new", "queued", "handling", "answered", "threw", "broken", "turned away"}]
          /\ pc'[r] = "handling" /\ \A s \in Request \ {r} : pc'[s] = pc[s]
      BY <1>1, <2>2, QueueTypes
    <3>3. Told'
      BY <1>1, <1>3, <1>6, <2>2, <3>2 DEF Told
    <3> QED BY <1>1, <1>3, <2>2, <3>1, <3>2, <3>3, Kept DEF AnswerTypes
  <2> QED BY <1>4, <2>1, <2>2
<1>9. TypeOK'
  BY <1>1, <1>3, <1>7, <1>8 DEF TypeOK
<1>10. InTurn'
  <2> SUFFICES ASSUME NEW s \in Request
               PROVE  /\ pc'[s] = "queued" => Holds(queue[Home[s]], s)
                      /\ pc'[s] = "handling" => /\ queue[Home[s]] # <<>> /\ Head(queue[Home[s]]) = s
                                                /\ transport'[Home[s]] = s
    BY <1>3 DEF InTurn, Holds
  <2>1. queue[Home[r]] # <<>>
    <3>1. Holds(queue[Home[r]], r)
      BY <1>1, <1>3 DEF InTurn
    <3> QED BY <3>1 DEF Holds
  <2>2. CASE s = r
    BY <1>3, <1>7, <1>8, <2>1, <2>2
  <2>3. CASE s # r
    <3>1. pc'[s] = pc[s]
      BY <1>8, <2>3
    <3>2. pc[s] = "handling" => Home[s] \in Container \ {Home[r]}
      BY <1>1, <1>3, <2>3, QueueTypes DEF InTurn
    <3> QED BY <1>1, <1>7, <3>1, <3>2 DEF InTurn
  <2> QED BY <2>2, <2>3
<1>11. Fresh'
  <2> SUFFICES ASSUME NEW s \in Request
               PROVE  pc'[s] \in {"new", "queued"} =>
                        /\ who'[s] = Nobody /\ reply'[s] = Nobody
                        /\ \A q \in Query : query[s][q] = "idle"
    BY <1>3 DEF Fresh
  <2> QED BY <1>1, <1>7, <1>8 DEF Fresh
<1>12. Arrived'
  BY <1>1, <1>3, <1>8 DEF Arrived
<1>13. KeysAreOld'
  <2> SUFFICES ASSUME NEW s \in Request, who'[s] # Nobody, who'[s].key.of = "network"
               PROVE  who'[s].key.day <= day
                      /\ \A q \in Query : counted[s][q] # 0 => who'[s].key.day <= counted[s][q]
    BY <1>3 DEF KeysAreOld
  <2>1. CASE s = r
    BY <1>1, <1>5, <1>6, <1>7, <2>1, CountTypes
  <2>2. CASE s # r
    BY <1>1, <1>7, <2>2 DEF KeysAreOld
  <2> QED BY <2>1, <2>2
<1>14. CallerIsPeer'
  <2> SUFFICES ASSUME NEW s \in Request, who'[s] # Nobody
               PROVE  /\ event[s].adapter
                      /\ who'[s].key.of # "test" => NetworkOf[event[s].peer] \in {who'[s].key.name}
    BY <1>3 DEF CallerIsPeer
  <2>1. CASE s = r
    BY <1>5, <1>7, <2>1
  <2>2. CASE s # r
    BY <1>1, <1>7, <2>2 DEF CallerIsPeer
  <2> QED BY <2>1, <2>2
<1>15. Accounts'
  <2>1. ShareHeld'
    BY <1>1, <1>3 DEF Accounts, ShareHeld
  <2>2. share \in [CallerKey \X Day -> Nat] /\ \A x \in CallerKey \X Day : share[x] <= share'[x]
    BY <1>1, <1>3, CountTypes
  <2>3. \A s \in Request : who'[s] = who[s] \/ \A q \in Query : counted[s][q] = 0
    BY <1>6, <1>7
  <2> QED BY <1>1, <1>3, <2>1, <2>2, <2>3, NothingSent
<1>17. InOrder'
  BY <1>3, Kept
<1>16. NotesFollow'
  BY <1>3, Kept
<1> QED BY <1>8, <1>9, <1>10, <1>11, <1>12, <1>13, <1>14, <1>15, <1>16, <1>17 DEF IInv

\* A step of a query leaves every other query dated as it was, and counts
\* what it dates.
LEMMA QueryAccounts ==
  ASSUME IInv, NEW r \in Request, NEW q \in Queries[r], NEW how, CountsSome(r, q, how),
         UNCHANGED <<who, day>>
  PROVE  /\ Accounts'
         /\ \A s \in Request, p \in Query : s # r \/ p # q =>
              counted'[s][p] = counted[s][p] /\ granted'[s][p] = granted[s][p] /\ sent'[s][p] = sent[s][p]
         /\ counted'[r][q] \in {counted[r][q], day}
         /\ how \in Hows =>
              Steps(how, counted'[r][q], granted'[r][q], sent'[r][q])
<1>1. TypeOK /\ Accounts /\ InOrder /\ q \in Query
  BY Days DEF IInv
<1>2. /\ counted \in [Request -> [Query -> Day \cup {0}]] /\ granted \in [Request -> [Query -> Day \cup {0}]]
      /\ sent \in [Request -> [Query -> Day \cup {0}]] /\ day \in Day /\ Day \subseteq Nat /\ 0 \notin Day
  BY <1>1, CountTypes DEF Dates
<1>3. Steps(query[r][q], counted[r][q], granted[r][q], sent[r][q])
  BY <1>1 DEF InOrder
<1>4. counted[r][q] \in Nat /\ granted[r][q] \in Nat /\ sent[r][q] \in Nat /\ day \in Nat \ {0}
  <2>1. r \in Request /\ q \in Query
    BY <1>1
  <2>2. counted[r][q] \in Day \cup {0}
    BY ONLY <2>1, <1>2
  <2>3. granted[r][q] \in Day \cup {0}
    BY ONLY <2>1, <1>2
  <2>4. sent[r][q] \in Day \cup {0}
    BY ONLY <2>1, <1>2
  <2>5. \A x \in Day \cup {0} : x \in Nat
    BY ONLY <1>2
  <2>6. day \in Nat \ {0}
    BY ONLY <1>2
  <2> QED BY ONLY <2>2, <2>3, <2>4, <2>5, <2>6
<1>5. CASE how = "counted" /\ IsCounted(r, q)
  <2>1. /\ counted' = [counted EXCEPT ![r][q] = day] /\ UNCHANGED <<granted, sent>>
        /\ query[r][q] = "idle"
    BY <1>5 DEF IsCounted
  <2>2. counted'[r][q] = day /\ \A s \in Request, p \in Query : s # r \/ p # q => counted'[s][p] = counted[s][p]
    BY <1>1, <1>2, <2>1
  <2>3. Steps(how, day, granted[r][q], sent[r][q])
    BY <1>3, <1>4, <1>5, <2>1 DEF Steps
  <2> QED BY <1>1, <1>5, <2>1, <2>2, <2>3, OneCounted
<1>6. CASE how = "granted" /\ IsGranted(r, q)
  <2>1. /\ granted' = [granted EXCEPT ![r][q] = day] /\ UNCHANGED <<counted, sent>>
        /\ query[r][q] = "counted"
    BY <1>6 DEF IsGranted
  <2>2. granted'[r][q] = day /\ \A s \in Request, p \in Query : s # r \/ p # q => granted'[s][p] = granted[s][p]
    BY <1>1, <1>2, <2>1
  <2>3. Steps(how, counted[r][q], day, sent[r][q])
    BY <1>3, <1>4, <1>6, <2>1 DEF Steps
  <2> QED BY <1>1, <1>6, <2>1, <2>2, <2>3, OneGranted
<1>7. CASE how = "out" /\ IsSent(r, q)
  <2>1. /\ sent' = [sent EXCEPT ![r][q] = day] /\ UNCHANGED <<counted, granted>>
        /\ query[r][q] = "granted"
    BY <1>7 DEF IsSent
  <2>2. sent'[r][q] = day /\ \A s \in Request, p \in Query : s # r \/ p # q => sent'[s][p] = sent[s][p]
    BY <1>1, <1>2, <2>1
  <2>3. Steps(how, counted[r][q], granted[r][q], day)
    BY <1>3, <1>4, <1>7, <2>1 DEF Steps
  <2> QED BY <1>1, <1>7, <2>1, <2>2, <2>3, OneSent
<1>8. CASE how \notin Under /\ (CountsNone \/ CountsShare(r))
  <2>1. UNCHANGED <<service, own, fetched, counted, granted, sent>>
    BY <1>8 DEF CountsNone, CountsShare
  <2>2. /\ share' \in [CallerKey \X Day -> Nat]
        /\ \A x \in CallerKey \X Day : share[x] <= share'[x]
        /\ ShareHeld'
    BY <1>1, CountsType DEF Accounts
  <2>3. \A s \in Request : who'[s] = who[s] \/ \A p \in Query : counted[s][p] = 0
    OBVIOUS
  <2>4. Accounts'
    BY <1>1, <2>1, <2>2, <2>3, NothingSent
  <2>5. how \in Hows => Steps(how, counted[r][q], granted[r][q], sent[r][q])
    BY <1>3, <1>8 DEF Steps, Hows, Under, Failed
  <2> QED BY <2>1, <2>4, <2>5
<1> QED BY <1>5, <1>6, <1>7, <1>8 DEF CountsSome

LEMMA QueryKeeps ==
  ASSUME IInv, NEW r \in Request, NEW q \in Queries[r], QueryStep(r, q)
  PROVE  IInv'
<1>1. /\ TypeOK /\ Fresh /\ InOrder /\ KeysAreOld /\ NotesFollow /\ Told /\ LinesTellOutcome /\ q \in Query
  BY Days DEF IInv
<1>2. PICK how \in Hows :
        Takes(r, q, how) /\ CountsSome(r, q, how) /\ OverGrows
  BY <1>1, QueryTakes
<1>3. /\ pc[r] \in {"handling", "threw"}
      /\ UNCHANGED <<day, tools, queue, transport, event, pc, who, lines, reply>>
  BY <1>2 DEF Takes
<1>4. /\ query' \in [Request -> [Query -> QueryStates]]
      /\ query'[r][q] = how /\ query[r][q] \in {"idle"} \cup Under
      /\ \A s \in Request, p \in Query : s # r \/ p # q => query'[s][p] = query[s][p]
      /\ notes' \in [Request -> SUBSET (NoteKind \X Request)]
      /\ \A s \in Request \ {r} : notes'[s] = notes[s]
      /\ notes[r] \subseteq notes'[r] /\ notes'[r] \subseteq notes[r] \cup {<<"near", r>>, <<"stale", r>>}
      /\ <<"stale", r>> \in notes'[r] <=> <<"stale", r>> \in notes[r] \/ how = "excused"
  BY <1>1, <1>2, TakesType
<1>5. /\ Accounts'
      /\ \A s \in Request, p \in Query : s # r \/ p # q =>
           counted'[s][p] = counted[s][p] /\ granted'[s][p] = granted[s][p] /\ sent'[s][p] = sent[s][p]
      /\ counted'[r][q] \in {counted[r][q], day}
      /\ Steps(how, counted'[r][q], granted'[r][q], sent'[r][q])
  BY <1>2, <1>3, QueryAccounts
<1>6. TypeOK'
  <2>1. /\ share' \in [CallerKey \X Day -> Nat] /\ service' \in [Day -> 0 .. ServiceDaily]
        /\ own' \in [Container -> [Day -> 0 .. OwnDaily]] /\ fetched' \in [Request -> Nat]
        /\ counted' \in Dates /\ granted' \in Dates /\ sent' \in Dates
    BY <1>1, <1>2, CountsType
  <2> QED BY <1>1, <1>2, <1>3, <1>4, <2>1 DEF TypeOK, OverGrows, QueryStates
<1>7. Fresh'
  <2> SUFFICES ASSUME NEW s \in Request
               PROVE  pc[s] \in {"new", "queued"} =>
                        /\ who[s] = Nobody /\ reply[s] = Nobody
                        /\ \A p \in Query : query'[s][p] = "idle"
    BY <1>3 DEF Fresh
  <2>1. pc[s] \in {"new", "queued"} => s # r
    BY <1>3
  <2> QED BY <1>1, <1>4, <2>1 DEF Fresh
<1>12. InOrder'
  <2> SUFFICES ASSUME NEW s \in Request, NEW p \in Query
               PROVE  Steps(query'[s][p], counted'[s][p], granted'[s][p], sent'[s][p])
    BY <1>3 DEF InOrder, Steps
  <2>1. CASE s = r /\ p = q
    BY <1>4, <1>5, <2>1
  <2>2. CASE s # r \/ p # q
    <3>1. Steps(query[s][p], counted[s][p], granted[s][p], sent[s][p])
      BY <1>1 DEF InOrder
    <3> QED BY <1>4, <1>5, <2>2, <3>1
  <2> QED BY <2>1, <2>2
<1>8. KeysAreOld'
  <2> SUFFICES ASSUME NEW s \in Request, who[s] # Nobody, who[s].key.of = "network"
               PROVE  who[s].key.day <= day
                      /\ \A p \in Query : counted'[s][p] # 0 => who[s].key.day <= counted'[s][p]
    BY <1>3 DEF KeysAreOld
  <2> QED BY <1>1, <1>5 DEF KeysAreOld
<1>9. NotesFollow'
  <2> SUFFICES ASSUME NEW s \in Request
               PROVE  /\ \A n \in notes'[s] : n[2] = s
                      /\ <<"stale", s>> \in notes'[s] <=> \E p \in Query : query'[s][p] = "excused"
    BY DEF NotesFollow
  <2>1. CASE s = r
    <3>1. \A n \in notes'[r] : n[2] = r
      BY <1>1, <1>4 DEF NotesFollow
    <3>2. (\E p \in Query : query'[r][p] = "excused")
            <=> (\E p \in Query : query[r][p] = "excused") \/ how = "excused"
      <4>1. /\ q \in Query /\ query[r][q] # "excused" /\ query'[r][q] = how
            /\ \A p \in Query \ {q} : query'[r][p] = query[r][p]
        BY <1>1, <1>4 DEF Under
      <4> QED BY ONLY <4>1
    <3> QED BY <1>1, <1>4, <2>1, <3>1, <3>2 DEF NotesFollow
  <2>2. CASE s # r
    BY <1>1, <1>4, <2>2 DEF NotesFollow
  <2> QED BY <2>1, <2>2
<1>10. Told'
  <2> SUFFICES ASSUME NEW s \in Request, reply[s] # Nobody
               PROVE  /\ pc[s] # "handling"
                      /\ reply[s].outcome = "ok" => pc[s] = "answered" /\ reply[s].limitations = notes'[s]
                      /\ reply[s].outcome # "ok" => reply[s].limitations = {}
    BY <1>3 DEF Told
  <2> QED BY <1>1, <1>3, <1>4 DEF Told
<1>11. LinesTellOutcome'
  <2> SUFFICES ASSUME NEW s \in Request, reply[s] # Nobody, reply[s].of = s
               PROVE  LET last == lines[s][Len(lines[s])] IN
                      /\ lines[s] # <<>>
                      /\ last.outcome = LineOf(reply[s].outcome, reply[s].limitations)
                      /\ reply[s].outcome = "ok" => last.upstream = Cardinality(SentBy(s)')
    BY <1>3 DEF LinesTellOutcome, SentBy, LineOf
  <2>1. reply[s].outcome = "ok" => SentBy(s)' = SentBy(s)
    <3>1. reply[s].outcome = "ok" => s # r
      BY <1>1, <1>3 DEF Told
    <3> QED BY <1>5, <3>1 DEF SentBy
  <2> QED BY <1>1, <2>1 DEF LinesTellOutcome, SentBy, LineOf
<1> QED BY <1>3, <1>5, <1>6, <1>7, <1>8, <1>9, <1>10, <1>11, <1>12, Kept DEF IInv

-----------------------------------------------------------------------------
(* Every step.                                                             *)

LEMMA InvStep == IInv /\ [Next]_vars => IInv'
<1> SUFFICES ASSUME IInv, [Next]_vars PROVE IInv'
  OBVIOUS
<1>1. ASSUME NEW r \in Request, NEW e \in Offer[r], Arrive(r, e) PROVE IInv'
  BY <1>1, ArriveStep
<1>2. ASSUME NEW r \in Request, Advance(r) PROVE IInv'
  <2>1. CASE Open(r)
    BY <2>1, OpenStep
  <2>2. CASE TransportFails(r)
    BY <2>2, BreakStep
  <2>3. CASE Returns(r) \/ WrapThrows(r) \/ Objects(r) \/ \E q \in Queries[r] : Throws(r, q)
    BY <2>3, EndStep
  <2>4. ASSUME NEW q \in Queries[r], QueryStep(r, q) PROVE IInv'
    BY <2>4, QueryKeeps
  <2> QED BY <1>2, <2>1, <2>2, <2>3, <2>4 DEF Advance, QueryStep
<1>3. ASSUME NEW c \in Container, Close(c) PROVE IInv'
  BY <1>3, CloseStep
<1>4. CASE NextDay
  BY <1>4, DayStep
<1>5. CASE UNCHANGED vars
  <2>1. UNCHANGED <<share, service, own, fetched, counted, granted, sent, who>> /\ TypeOK /\ Accounts
    BY <1>5 DEF vars, IInv
  <2>2. Accounts'
    BY <2>1, NothingCounted
  <2>3. TypeOK'
    BY <1>5, <2>1 DEF vars, TypeOK
  <2> QED BY <1>5, <2>2, <2>3, Kept DEF vars, IInv
<1> QED BY <1>1, <1>2, <1>3, <1>4, <1>5 DEF Next

\* The invariant holds in every behaviour.
THEOREM Invariance == Spec => []IInv
BY InvInit, InvStep, PTL DEF Spec

-----------------------------------------------------------------------------
(* The shares of a network around midnight.                                *)

\* Calls of a network's peers that spend its share, on keys of day e and before.
Spenders(n) ==
  {r \in Request : /\ who[r] # Nobody /\ ~ who[r].bypass
                   /\ event[r].adapter /\ NetworkOf[event[r].peer] = n
                   /\ who[r].key.of = "network"}
UpTo(n, e) == {r \in Spenders(n) : who[r].key.day <= e}
NetworkKey(n, e) == [of |-> "network", name |-> n, day |-> e]

\* They have the network's key of the day they began, no later than what they count.
LEMMA Keyed ==
  ASSUME IInv, NEW n \in Network \ {Pool}, NEW r \in Spenders(n)
  PROVE  /\ who[r].key.day \in Day /\ who[r].key.day \in Nat /\ who[r].key.day # 0
         /\ r \in Payers(NetworkKey(n, who[r].key.day))
         /\ \A q \in Query : counted[r][q] # 0 => who[r].key.day <= counted[r][q]
<1>1. /\ TypeOK /\ KeysAreOld /\ CallerIsPeer
      /\ r \in Request /\ who[r] # Nobody /\ ~ who[r].bypass /\ NetworkOf[event[r].peer] = n
      /\ who[r].key.of = "network"
  BY DEF IInv, Spenders
<1>2. who[r] \in Caller /\ who[r].key.name = n
  BY <1>1, QueueTypes DEF CallerIsPeer
<1>3. PICK m \in Network, e \in Day : who[r].key = [of |-> "network", name |-> m, day |-> e]
  BY <1>1, <1>2 DEF Caller, CallerKey
<1>4. who[r].key = NetworkKey(n, e) /\ who[r].key.day = e
  BY <1>2, <1>3 DEF NetworkKey
<1>5. e \in Nat /\ e # 0
  BY <1>1, CountTypes
<1>6. \A q \in Query : counted[r][q] # 0 => who[r].key.day <= counted[r][q]
  BY <1>1 DEF KeysAreOld
<1> QED BY <1>1, <1>3, <1>4, <1>5, <1>6 DEF Payers

\* Each of its keys has one share of a day.
LEMMA OneShare ==
  ASSUME IInv, NEW n \in Network \ {Pool}, NEW e \in Day, NEW d \in Day
  PROVE  LET paid == On(counted, Payers(NetworkKey(n, e)), d) IN
         IsFiniteSet(paid) /\ Cardinality(paid) \in Nat /\ Cardinality(paid) <= UpstreamShare
<1>1. /\ TypeOK /\ ShareHeld /\ SharesArePaid /\ Finite(counted) /\ UpstreamShare \in Nat
  BY CallAssumption DEF IInv, Accounts, Counted
<1> DEFINE k == NetworkKey(n, e)
<1>2. k \in CallerKey /\ k.of # "test"
  BY DEF CallerKey, NetworkKey
<1> HIDE DEF k
<1>3. share[<<k, d>>] <= UpstreamShare /\ share[<<k, d>>] \in Nat
  BY <1>1, <1>2, CountTypes DEF ShareHeld
<1>4. Cardinality(On(counted, Payers(k), d)) <= share[<<k, d>>]
  BY <1>1, <1>2 DEF SharesArePaid, Payers
<1>5. IsFiniteSet(On(counted, Payers(k), d)) /\ Cardinality(On(counted, Payers(k), d)) \in Nat
  BY <1>1, FinitelyMany DEF Payers
<1>6. Cardinality(On(counted, Payers(k), d)) <= UpstreamShare
  BY <1>1, <1>3, <1>4, <1>5
<1> QED BY <1>5, <1>6 DEF k

\* So what is counted on a day under keys of the days up to m is m shares at most.
LEMMA SharesUpTo ==
  ASSUME IInv, NEW n \in Network \ {Pool}, NEW d \in Day, NEW m \in 0 .. d
  PROVE  LET paid == On(counted, UpTo(n, m), d) IN
         IsFiniteSet(paid) /\ Cardinality(paid) \in Nat /\ Cardinality(paid) <= UpstreamShare * m
<1> DEFINE f == [e \in 0 .. m |-> On(counted, UpTo(n, e), d)]
           D == [r \in Spenders(n) |-> who[r].key.day]
<1>1. /\ Finite(counted) /\ UpstreamShare \in Nat /\ d \in Nat \ {0} /\ m \in Nat /\ m <= d
      /\ Day = 1 .. LastDay /\ LastDay \in Nat
  BY CallAssumption DEF IInv, Accounts, Counted, Day
<1>2. \A r \in Spenders(n) : D[r] \in Nat /\ D[r] # 0 /\ r \in Payers(NetworkKey(n, D[r]))
  BY Keyed
<1>3. ASSUME NEW e
      PROVE  UpTo(n, e) \subseteq Spenders(n) /\ \A r \in Spenders(n) : r \in UpTo(n, e) <=> D[r] <= e
  BY DEF UpTo
<1> HIDE DEF D
<1>4. f[0] = {}
  <2>1. UpTo(n, 0) = {}
    BY <1>2, <1>3
  <2> QED BY <1>1, <2>1 DEF On
<1>5. \A e \in 0 .. m : f[e] = On(counted, UpTo(n, e), d) /\ IsFiniteSet(f[e])
  <2> SUFFICES ASSUME NEW e \in 0 .. m PROVE IsFiniteSet(On(counted, UpTo(n, e), d))
    OBVIOUS
  <2>1. UpTo(n, e) \in SUBSET Request
    BY DEF UpTo, Spenders
  <2> QED BY <1>1, <2>1, FinitelyMany
<1>6. ASSUME NEW e \in 1 .. m
      PROVE  Cardinality(f[e]) <= Cardinality(f[e - 1]) + UpstreamShare
  <2>1. e \in Day /\ e \in 0 .. m /\ e - 1 \in 0 .. m /\ e \in Nat
    BY <1>1 DEF Day
  <2> DEFINE A == f[e - 1]
             B == On(counted, Payers(NetworkKey(n, e)), d)
             C == f[e]
  <2> SUFFICES Cardinality(C) <= Cardinality(A) + UpstreamShare
    OBVIOUS
  <2>2. C \subseteq A \cup B
    <3>1. A = On(counted, UpTo(n, e - 1), d) /\ C = On(counted, UpTo(n, e), d)
      BY <1>5, <2>1
    <3>2. ASSUME NEW r \in UpTo(n, e), r \notin UpTo(n, e - 1) PROVE r \in Payers(NetworkKey(n, e))
      <4>1. r \in Spenders(n) /\ D[r] <= e /\ ~ (D[r] <= e - 1)
        BY <1>3, <3>2
      <4>2. D[r] = e
        BY <1>2, <2>1, <4>1
      <4> QED BY <1>2, <4>1, <4>2
    <3> HIDE DEF A, C
    <3> QED BY <3>1, <3>2 DEF On
  <2>3. IsFiniteSet(A) /\ IsFiniteSet(C)
    BY <1>5, <2>1
  <2>4. IsFiniteSet(B) /\ Cardinality(B) \in Nat /\ Cardinality(B) <= UpstreamShare
    BY <2>1, OneShare
  <2> HIDE DEF A, B, C, f
  <2>5. /\ IsFiniteSet(A \cup B)
        /\ Cardinality(A \cup B) = Cardinality(A) + Cardinality(B) - Cardinality(A \cap B)
    BY <2>3, <2>4, FS_Union
  <2>6. Cardinality(A \cap B) \in Nat /\ Cardinality(A) \in Nat /\ Cardinality(C) \in Nat
    BY <2>3, <2>4, FS_Intersection, FS_CardinalityType
  <2>7. Cardinality(C) <= Cardinality(A \cup B)
    BY <2>2, <2>5, FS_Subset
  <2> QED BY <1>1, <2>4, <2>5, <2>6, <2>7
<1>7. Cardinality(f[m]) <= UpstreamShare * m
  <2> HIDE DEF f
  <2> QED BY <1>1, <1>4, <1>5, <1>6, StepsBound
<1>8. f[m] = On(counted, UpTo(n, m), d) /\ IsFiniteSet(f[m])
  BY <1>1, <1>5
<1> HIDE DEF f
<1> QED BY <1>7, <1>8, FS_CardinalityType

\* A subset of few has few.
LEMMA FewOf ==
  ASSUME NEW S, NEW T, S \subseteq T, IsFiniteSet(T), NEW u \in Nat, Cardinality(T) <= u
  PROVE  Cardinality(S) <= u
<1>1. IsFiniteSet(S) /\ Cardinality(S) <= Cardinality(T)
  BY FS_Subset
<1> QED BY <1>1, FS_CardinalityType

\* What the peers of a network send on a day is what they have counted on it,
\* on keys of that day and of days before, and on the days before.
LEMMA Midnight ==
  ASSUME IInv, NEW n \in Network \ {Pool}, NEW d \in Day
  PROVE  LET from == Spenders(n)
             late == {r \in from : who[r].key.day < d}
             CountedOn(R, e) == {rq \in On(sent, R, d) : counted[rq[1]][rq[2]] = e}
         IN  /\ Cardinality(On(sent, from \ late, d)) <= UpstreamShare
             /\ Cardinality(CountedOn(late, d)) <= UpstreamShare * (d - 1)
             /\ \A e \in 1 .. d - 1 : Cardinality(CountedOn(late, e)) <= UpstreamShare * e
<1> DEFINE from == Spenders(n)
           late == {r \in from : who[r].key.day < d}
           CountedOn(R, e) == {rq \in On(sent, R, d) : counted[rq[1]][rq[2]] = e}
<1>1. /\ TypeOK /\ InOrder /\ UpstreamShare \in Nat /\ d \in Nat \ {0} /\ Day = 1 .. LastDay
      /\ LastDay \in Nat /\ from \subseteq Request
  BY CallAssumption DEF IInv, Day, Spenders
<1>2. ASSUME NEW r \in from, NEW q \in Query, sent[r][q] = d
      PROVE  /\ counted[r][q] \in Nat \ {0} /\ counted[r][q] <= d
             /\ who[r].key.day \in Nat /\ who[r].key.day <= counted[r][q]
             /\ r \in Payers(NetworkKey(n, who[r].key.day))
  <2>1. Steps(query[r][q], counted[r][q], granted[r][q], sent[r][q])
    BY <1>1 DEF InOrder
  <2>2. counted[r][q] \in Nat /\ granted[r][q] \in Nat
    BY <1>1, CountTypes DEF Dates
  <2>3. counted[r][q] # 0 /\ counted[r][q] <= d
    BY <1>1, <1>2, <2>1, <2>2 DEF Steps
  <2> QED BY <2>2, <2>3, Keyed
<1>3. Cardinality(On(sent, from \ late, d)) <= UpstreamShare
  <2>1. On(sent, from \ late, d) \subseteq On(counted, Payers(NetworkKey(n, d)), d)
    <3> SUFFICES ASSUME NEW r \in from \ late, NEW q \in Query, sent[r][q] = d
                 PROVE  r \in Payers(NetworkKey(n, d)) /\ counted[r][q] = d
      BY DEF On, Payers
    <3>1. ~ (who[r].key.day < d)
      OBVIOUS
    <3>2. who[r].key.day = d /\ counted[r][q] = d
      BY <1>1, <1>2, <3>1
    <3> QED BY <1>2, <3>2
  <2>2. LET paid == On(counted, Payers(NetworkKey(n, d)), d) IN
        IsFiniteSet(paid) /\ Cardinality(paid) <= UpstreamShare
    BY OneShare
  <2> QED BY ONLY <1>1, <2>1, <2>2, FewOf
<1>4. ASSUME NEW e \in 1 .. d, NEW m \in 0 .. e,
             \A r \in late, q \in Query : sent[r][q] = d /\ counted[r][q] = e => who[r].key.day <= m
      PROVE  Cardinality(CountedOn(late, e)) <= UpstreamShare * m
  <2>1. CountedOn(late, e) \subseteq On(counted, UpTo(n, m), e)
    BY <1>4 DEF On, UpTo
  <2>2. e \in Day /\ UpstreamShare * m \in Nat
    BY <1>1
  <2>3. IsFiniteSet(On(counted, UpTo(n, m), e)) /\ Cardinality(On(counted, UpTo(n, m), e)) <= UpstreamShare * m
    BY <2>2, SharesUpTo
  <2> HIDE DEF CountedOn, late
  <2> QED BY <2>1, <2>2, <2>3, FewOf
<1>5. Cardinality(CountedOn(late, d)) <= UpstreamShare * (d - 1)
  <2>1. \A r \in late, q \in Query : sent[r][q] = d => who[r].key.day <= d - 1
    <3> SUFFICES ASSUME NEW r \in late, NEW q \in Query, sent[r][q] = d PROVE who[r].key.day <= d - 1
      OBVIOUS
    <3>1. who[r].key.day < d /\ who[r].key.day \in Nat
      BY <1>2
    <3> QED BY <1>1, <3>1
  <2>2. d \in 1 .. d /\ d - 1 \in 0 .. d
    BY <1>1
  <2> HIDE DEF CountedOn, late
  <2> QED BY <1>4, <2>1, <2>2
<1>6. ASSUME NEW e \in 1 .. d - 1 PROVE Cardinality(CountedOn(late, e)) <= UpstreamShare * e
  <2>1. \A r \in late, q \in Query : sent[r][q] = d /\ counted[r][q] = e => who[r].key.day <= e
    BY <1>2
  <2>2. e \in 1 .. d /\ e \in 0 .. e
    BY <1>1
  <2> HIDE DEF CountedOn, late
  <2> QED BY <1>4, <2>1, <2>2
<1> QED BY <1>3, <1>5, <1>6

-----------------------------------------------------------------------------
(* The budgets around midnight.                                            *)

\* What is sent on a day was counted on it, or on a day before.
LEMMA Covered == IInv => BudgetsCoverQueries
<1> SUFFICES ASSUME IInv PROVE BudgetsCoverQueries
  OBVIOUS
<1>1. TypeOK /\ InOrder /\ Counted /\ Budgets
  BY DEF IInv, Accounts
<1>2. ASSUME NEW r \in Request, NEW q \in Query, sent[r][q] # 0
      PROVE  0 < counted[r][q] /\ counted[r][q] <= granted[r][q] /\ granted[r][q] <= sent[r][q]
             /\ counted[r][q] <= sent[r][q]
  <2>1. Steps(query[r][q], counted[r][q], granted[r][q], sent[r][q])
    BY <1>1 DEF InOrder
  <2>2. counted[r][q] \in Nat /\ granted[r][q] \in Nat /\ sent[r][q] \in Nat
    BY <1>1, CountTypes DEF Dates
  <2> QED BY <1>2, <2>1, <2>2 DEF Steps
<1>3. ASSUME NEW d \in Day
      PROVE  Cardinality(On(sent, Request, d)) <=
               service[d] + Cardinality({rq \in On(sent, Request, d) : counted[rq[1]][rq[2]] < d})
  <2> DEFINE S == On(sent, Request, d)
             A == On(counted, Request, d)
             B == {rq \in S : counted[rq[1]][rq[2]] < d}
  <2>1. d # 0 /\ d \in Nat /\ counted \in Dates
    BY <1>1, CountTypes
  <2>2. S \subseteq A \cup B
    <3> SUFFICES ASSUME NEW r \in Request, NEW q \in Query, sent[r][q] = d
                 PROVE  counted[r][q] = d \/ counted[r][q] < d
      BY DEF On
    <3>1. counted[r][q] <= d
      BY <1>2, <2>1
    <3>2. counted[r][q] \in Nat
      BY <1>1, CountTypes DEF Dates
    <3> QED BY <2>1, <3>1, <3>2
  <2>3. Request \in SUBSET Request /\ IsFiniteSet(S) /\ IsFiniteSet(A) /\ B \subseteq S
    BY <1>1, FinitelyMany DEF Counted
  <2>4. Cardinality(A) <= service[d] /\ service[d] \in Nat
    BY <1>1, CountTypes DEF Budgets
  <2> SUFFICES Cardinality(S) <= service[d] + Cardinality(B)
    OBVIOUS
  <2> HIDE DEF S, A, B
  <2>5. IsFiniteSet(B)
    BY <2>3, FS_Subset
  <2>6. /\ IsFiniteSet(A \cup B)
        /\ Cardinality(A \cup B) = Cardinality(A) + Cardinality(B) - Cardinality(A \cap B)
    BY <2>3, <2>5, FS_Union
  <2>7. /\ Cardinality(A \cap B) \in Nat /\ Cardinality(A) \in Nat /\ Cardinality(B) \in Nat
        /\ Cardinality(S) \in Nat
    BY <2>3, <2>5, FS_Intersection, FS_CardinalityType
  <2>8. Cardinality(S) <= Cardinality(A \cup B)
    BY <2>2, <2>6, FS_Subset
  <2> QED BY <2>4, <2>6, <2>7, <2>8
<1>4. \A d \in Day :
        /\ Cardinality(On(counted, Request, d)) <= service[d]
        /\ \A c \in Container : Cardinality(On(granted, {r \in Request : Home[r] = c}, d)) = own[c][d]
  BY <1>1 DEF Budgets, At
<1> QED BY <1>2, <1>3, <1>4 DEF BudgetsCoverQueries

-----------------------------------------------------------------------------
(* The theorems.                                                           *)

\* Every variable keeps its type: counters of the service and of a container
\* within their limits, callers with keys that can be.
THEOREM TypeCorrect == Spec => []TypeOK
<1>1. IInv => TypeOK
  BY DEF IInv
<1> QED BY <1>1, Invariance, PTL

\* Each answer comes back on the connection of its own request: the queue of
\* server/http.ts keeps calls from meeting on the transport of one server.
THEOREM AnswersGoHome == Spec => []AnswersOwnRequest
<1>1. IInv => AnswersOwnRequest
  BY DEF IInv
<1> QED BY <1>1, Invariance, PTL

\* An answer carries its own notes and no other's (limits/context.ts), however
\* many queries of calls before it still run.
THEOREM NotesStayApart == Spec => []NotesAreOwn
<1>1. IInv => NotesAreOwn
  BY AnswersTyped DEF IInv, NotesAreOwn, Told, NotesFollow
<1> QED BY <1>1, Invariance, PTL

\* The last line of a call tells its outcome, and of an ok one the queries it
\* sent (server/create-server.ts, server/metrics.ts).
THEOREM LinesAreTrue == Spec => []LinesTellOutcome
<1>1. IInv => LinesTellOutcome
  BY DEF IInv
<1> QED BY <1>1, Invariance, PTL

\* A caller is the TCP peer the adapter saw, or an operator's test run
\* (server/identify.ts, server/lambda-headers.ts).
THEOREM PeersAreCallers == Spec => []CallerIsPeer
<1>1. IInv => CallerIsPeer
  BY DEF IInv
<1> QED BY <1>1, Invariance, PTL

\* Every query that is counted, as each is before it is sent, is in its
\* caller's share.
THEOREM SharesCover == Spec => []SharesArePaid
<1>1. IInv => SharesArePaid
  BY DEF IInv, Accounts
<1> QED BY <1>1, Invariance, PTL

\* It is in the service budget of the day it is counted, and in its container's
\* of the day it is granted; a day sees the first, and what midnight found
\* under way (http/client.ts, http/budget.ts).
THEOREM BudgetsCover == Spec => []BudgetsCoverQueries
<1>1. IInv => BudgetsCoverQueries
  BY Covered
<1> QED BY <1>1, Invariance, PTL

\* The peers of a network send a share a day; after midnight at most a share
\* more for every day before, on the keys of those days, and what had been
\* counted before it and was under way.
THEOREM MidnightIsBounded == Spec => []ShareAcrossMidnight
<1>1. IInv => ShareAcrossMidnight
  <2> SUFFICES ASSUME IInv, NEW n \in Network \ {Pool}, NEW d \in Day
               PROVE  LET from == Spenders(n)
                          late == {r \in from : who[r].key.day < d}
                          CountedOn(R, e) == {rq \in On(sent, R, d) : counted[rq[1]][rq[2]] = e}
                      IN  /\ Cardinality(On(sent, from \ late, d)) <= UpstreamShare
                          /\ Cardinality(CountedOn(late, d)) <= UpstreamShare * (d - 1)
                          /\ \A e \in 1 .. d - 1 : Cardinality(CountedOn(late, e)) <= UpstreamShare * e
    BY DEF ShareAcrossMidnight, Spenders
  <2> QED BY Midnight
<1> QED BY <1>1, Invariance, PTL
=============================================================================
