---------------------------- MODULE AnswersProofs ----------------------------
(***************************************************************************)
(* Proofs about what a reader is told with a figure: its product, its      *)
(* range, its period, its source, its place, the namesakes of that place,  *)
(* and the ids a raw call found nothing for.  They hold for any catalog    *)
(* and calls, and whatever the agencies publish before, during and after a *)
(* call.                                                                   *)
(*                                                                         *)
(* The argument.  A reply is what its handler makes of a call for which    *)
(* every request was answered, and each answer is the agency's own of one  *)
(* release until now, or QCEW's deadline's (IInv).  So a reply can be      *)
(* taken apart: each series shown was read, by its agency's rules, off the *)
(* answers to requests for its own key (ShownWhence, CallKeyed, CallRead). *)
(* What is left is said agency by agency of those rules: which rows they   *)
(* keep (HudShows, BeaShows, BlsShows, QcewShows, CensusObserved), that    *)
(* each is dated (SeriesTimed), and that the request a row cites is        *)
(* answered by that row (SeriesCited), then and later.                     *)
(*                                                                         *)
(* The code of a row is of its place or of an area its caveats name        *)
(* (RowNamed), and what an agency files under it is of that area, so a     *)
(* figure is of the place told (SeriesSays).  A reply carries what the     *)
(* resolver said of its places (RowFollows), so what DeployProofs says of  *)
(* names is said of replies (AmbiguityEnds, NobodyInSilence).              *)
(***************************************************************************)
EXTENDS DeployProofs, WellOrder, FiniteSetTheorems, TLAPS

-----------------------------------------------------------------------------
(* Sequences.                                                              *)

\* Keeping lists the members at the indexes kept, in order, and only these.
LEMMA KeepingLists ==
  ASSUME NEW s, NEW S \in SUBSET Nat, IsFiniteSet(S)
  PROVE  /\ Cardinality(S) \in Nat
         /\ DOMAIN Keeping(s, S) = 1 .. Cardinality(S)
         /\ \A k \in DOMAIN Keeping(s, S) : \E n \in S : Keeping(s, S)[k] = s[n]
         /\ \A n \in S : \E k \in DOMAIN Keeping(s, S) : Keeping(s, S)[k] = s[n]
<1> DEFINE B == [n \in S |-> {m \in S : m < n}]
           Count(n) == Cardinality(B[n])
<1>1. \A n \in S : B[n] = {m \in S : m < n}
  OBVIOUS
<1>2. /\ \A x \in S : B[x] \subseteq S /\ x \notin B[x]
      /\ \A x, y \in S : x # y => x \in B[y] \/ y \in B[x]
      /\ \A x, y, z \in S : x \in B[y] /\ y \in B[z] => x \in B[z]
  OBVIOUS
<1> HIDE DEF B
<1>3. /\ Cardinality(S) \in Nat
      /\ \A x \in S : Count(x) \in 0 .. Cardinality(S) - 1
      /\ \A x, z \in S : Count(x) = Count(z) => x = z
      /\ \A k \in 0 .. Cardinality(S) - 1 : \E x \in S : Count(x) = k
  BY <1>2, Ranked
<1>4. \A n \in S : Count(n) = Cardinality({m \in S : m < n})
  BY <1>1
<1> HIDE DEF Count
<1>5. DOMAIN Keeping(s, S) = 1 .. Cardinality(S)
  BY DEF Keeping
<1>6. ASSUME NEW k \in 1 .. Cardinality(S)
      PROVE  \E n \in S : Keeping(s, S)[k] = s[n] /\ Count(n) = k - 1
  <2>1. k - 1 \in 0 .. Cardinality(S) - 1
    BY <1>3
  <2>2. \E n \in S : Cardinality({m \in S : m < n}) = k - 1
    BY <1>3, <1>4, <2>1
  <2> DEFINE i == CHOOSE n \in S : Cardinality({m \in S : m < n}) = k - 1
  <2>3. i \in S /\ Cardinality({m \in S : m < i}) = k - 1
    BY <2>2
  <2>4. Keeping(s, S)[k] = s[i]
    BY DEF Keeping
  <2> QED BY <1>4, <2>3, <2>4
<1>7. ASSUME NEW n \in S
      PROVE  \E k \in DOMAIN Keeping(s, S) : Keeping(s, S)[k] = s[n]
  <2>1. Count(n) + 1 \in 1 .. Cardinality(S) /\ (Count(n) + 1) - 1 = Count(n)
    BY <1>3
  <2>2. PICK m \in S : Keeping(s, S)[Count(n) + 1] = s[m] /\ Count(m) = Count(n)
    BY <1>6, <2>1
  <2>3. m = n
    BY <1>3, <2>2
  <2> QED BY <1>5, <2>1, <2>2, <2>3
<1> QED BY <1>3, <1>5, <1>6, <1>7

\* What is asked in turn has been answered when nothing is next.
LEMMA AllAnswered ==
  ASSUME NEW asks, NEW g, FirstOpen(asks, g) = {}
  PROVE  \A n \in DOMAIN asks : asks[n] \in DOMAIN g
BY DEF FirstOpen

\* A page, or a row, is chosen out of the answer.
LEMMA Chosen == \A S : S # {} => ThePick(S) \in S
BY DEF ThePick

-----------------------------------------------------------------------------
(* The inductive invariant.                                                *)

Tool == call.ask.tool

\* A call is one of those asked of a server with its catalog open.
CallIsAsked ==
  call # None => open # None /\ \E n \in DOMAIN Asks : call.ask = Asks[n]

\* What was settled of a call to fetch.
Settled ==
  \/ Tool = "raw" /\ ~RawToolRefused(call.ask)
  \/ Tool \in {"get", "compare"} /\ ~Refused(call.ask) /\ call = Plan(open, call.ask) /\ ~call.refused

\* A reply is what its handler makes of the call and of all it asked for.
ReplyIsMade ==
  \/ reply = None
  \/ call # None /\ reply = Error
  \/ /\ call # None /\ Tool = "list" /\ reply = [kind |-> "list", of |-> ListIndicators(open, call.ask)]
  \/ /\ call # None /\ Settled /\ NextRequests = {}
     /\ \/ Tool = "raw" /\ reply = [kind |-> "raw", of |-> RawResult(call.ask)]
        \/ /\ Tool = "get" /\ reply = [kind |-> "get", of |-> GetIndicator(open, call, got)]
           /\ ~SeriesFail(call.ask.indicator, call.keys, Options(call.ask), got)
        \/ /\ Tool = "compare" /\ reply = [kind |-> "compare", of |-> ComparePlaces(call, got)]
           /\ ~SeriesFail(call.ask.indicator, call.keys, Options(call.ask), got)

\* An answer is the agency's of a release until now, or the deadline's.
ReadAt(r) ==
  \/ \E when \in 0 .. released : got[r] = AnswerOf(call.ask, r, when)
  \/ got[r] = TimedOut /\ Tool # "raw" /\ Qcew(call.ask.indicator)
GotIsRead ==
  /\ call = None => DOMAIN got = {}
  /\ \A r \in DOMAIN got : ReadAt(r)

IInv ==
  /\ released \in 0 .. Releases
  /\ CallIsAsked
  /\ Pending => Settled
  /\ ReplyIsMade
  /\ GotIsRead

-----------------------------------------------------------------------------
(* The parts of a call.                                                    *)

LEMMA PlanAsks ==
  ASSUME NEW c, NEW ask
  PROVE  Plan(c, ask).ask = ask /\ Plan(c, ask) # None
<1>1. \A dims, rows, met : PlanOf(ask, dims, rows, met).ask = ask /\ PlanOf(ask, dims, rows, met) # None
  BY DEF PlanOf, None
<1>2. \A dims, rows, met : PlanMet(c, ask, dims, rows, met).ask = ask /\ PlanMet(c, ask, dims, rows, met) # None
  BY <1>1 DEF PlanMet
<1>3. \A dims, found : PlanFound(c, ask, dims, found).ask = ask /\ PlanFound(c, ask, dims, found) # None
  BY <1>2 DEF PlanFound
<1>4. \A dims : PlanAsked(c, ask, dims).ask = ask /\ PlanAsked(c, ask, dims) # None
  BY <1>3 DEF PlanAsked
<1> QED BY <1>4 DEF Plan

LEMMA InvInit == Init => IInv
BY AnswersAssumption DEF Init, IInv, CallIsAsked, Pending, ReplyIsMade, GotIsRead, None

LEMMA InvNext == IInv /\ [Next]_vars => IInv'
<1> SUFFICES ASSUME IInv, [Next]_vars PROVE IInv'
  OBVIOUS
<1> USE AnswersAssumption
<1>1. CASE UNCHANGED <<open, idle>>
  BY <1>1 DEF IInv, CallIsAsked, Pending, Settled, ReplyIsMade, GotIsRead, ReadAt, Tool, NextRequests, RawResult, idle
<1>2. CASE OpenServer
  BY <1>2 DEF OpenServer, IInv, CallIsAsked, Pending, Settled, ReplyIsMade, GotIsRead, ReadAt, Tool, NextRequests,
    RawResult, idle, None
<1>3. ASSUME NEW n \in DOMAIN Asks, StartCall(Asks[n]) PROVE IInv'
  <2> DEFINE ask == Asks[n]
  <2>1. open # None /\ open' = open /\ released' = released /\ DOMAIN got' = {}
    BY <1>3 DEF StartCall
  <2>2. call' # None /\ call'.ask = ask
    <3>1. [ask |-> ask] # None /\ [ask |-> ask].ask = ask
      BY DEF None
    <3> QED BY <1>3, <3>1, PlanAsks DEF StartCall
  <2>3. CallIsAsked'
    BY <2>1, <2>2 DEF CallIsAsked
  <2>4. GotIsRead'
    BY <2>1, <2>2 DEF GotIsRead
  <2>5. released' \in 0 .. Releases
    BY <2>1 DEF IInv
  <2>6. (Pending => Settled)' /\ ReplyIsMade'
    <3>1. CASE ask.tool = "raw" /\ reply' = IF RawToolRefused(ask) THEN Error ELSE None
      BY <2>2, <3>1 DEF Pending, Settled, ReplyIsMade, Tool, Error, None
    <3>2. CASE ask.tool = "list" /\ reply' = [kind |-> "list", of |-> ListIndicators(open, ask)]
      BY <2>1, <2>2, <3>2 DEF Pending, ReplyIsMade, Tool, None
    <3>3. CASE reply' = Error
      BY <2>2, <3>3 DEF Pending, ReplyIsMade, Error, None
    <3>4. CASE /\ ask.tool \in {"get", "compare"} /\ ~Refused(ask)
               /\ call' = Plan(open, ask) /\ reply' = IF Plan(open, ask).refused THEN Error ELSE None
      BY <2>1, <2>2, <3>4 DEF Pending, Settled, ReplyIsMade, Tool, Error, None
    <3> QED BY <1>3, <3>1, <3>2, <3>3, <3>4 DEF StartCall
  <2> QED BY <2>3, <2>4, <2>5, <2>6 DEF IInv
<1>4. CASE Fetch
  BY <1>4 DEF Fetch, IInv, CallIsAsked, Pending, Settled, ReplyIsMade, GotIsRead, ReadAt, Tool
<1>5. CASE FetchFails
  BY <1>5 DEF FetchFails, IInv, CallIsAsked, Pending, Settled, ReplyIsMade, GotIsRead, ReadAt, Tool, Error, None
<1>6. CASE DeadlineStops
  BY <1>6 DEF DeadlineStops, IInv, CallIsAsked, Pending, Settled, ReplyIsMade, GotIsRead, ReadAt, Tool
<1>7. CASE Finish
  <2>1. /\ UNCHANGED <<open, call, got, released>>
        /\ call # None /\ reply = None /\ NextRequests = {} /\ Settled
    BY <1>7 DEF Finish, IInv, Pending
  <2>2. CallIsAsked' /\ GotIsRead' /\ released' \in 0 .. Releases
    BY <2>1 DEF IInv, CallIsAsked, GotIsRead, ReadAt, Tool
  <2>3. Settled' /\ NextRequests' = {}
    BY <2>1 DEF Settled, NextRequests, Tool
  <2>4. CASE Tool = "raw" /\ reply' = [kind |-> "raw", of |-> RawResult(call.ask)]
    BY <2>1, <2>2, <2>3, <2>4 DEF IInv, Pending, ReplyIsMade, Tool, RawResult, None
  <2>5. CASE reply' = Error
    BY <2>1, <2>2, <2>3, <2>5 DEF IInv, Pending, ReplyIsMade, Error, None
  <2>6. CASE /\ Tool = "get" /\ reply' = [kind |-> "get", of |-> GetIndicator(open, call, got)]
             /\ ~SeriesFail(call.ask.indicator, call.keys, Options(call.ask), got)
    BY <2>1, <2>2, <2>3, <2>6 DEF IInv, Pending, ReplyIsMade, Tool, None
  <2>7. CASE /\ Tool = "compare" /\ reply' = [kind |-> "compare", of |-> ComparePlaces(call, got)]
             /\ ~SeriesFail(call.ask.indicator, call.keys, Options(call.ask), got)
    BY <2>1, <2>2, <2>3, <2>7 DEF IInv, Pending, ReplyIsMade, Tool, None
  <2> QED BY <1>7, <2>1, <2>4, <2>5, <2>6, <2>7 DEF Finish, Settled, Tool
<1>8. CASE Return
  BY <1>8 DEF Return, IInv, CallIsAsked, Pending, ReplyIsMade, GotIsRead, None
<1>9. CASE Publish
  <2>1. \A r : ReadAt(r) => ReadAt(r)'
    BY <1>9 DEF Publish, IInv, ReadAt, Tool
  <2> QED BY <1>9, <2>1 DEF Publish, IInv, CallIsAsked, Pending, Settled, ReplyIsMade, GotIsRead, Tool
<1> QED BY <1>1, <1>2, <1>3, <1>4, <1>5, <1>6, <1>7, <1>8, <1>9 DEF Next, BuildStep, vars, idle

LEMMA InvAlways == Spec => []IInv
BY InvInit, InvNext, PTL DEF Spec

-----------------------------------------------------------------------------
(* The series of a call.                                                   *)

\* The distinct keys are those of the places, each of them.
LEMMA DistinctKeys ==
  ASSUME NEW s, NEW top \in Nat, DOMAIN s = 1 .. top
  PROVE  /\ \E m \in Nat : DOMAIN Distinct(s) = 1 .. m /\ Len(Distinct(s)) = m
         /\ \A k \in DOMAIN Distinct(s) : \E n \in DOMAIN s : s[n] # <<>> /\ Distinct(s)[k] = s[n][1]
         /\ \A n \in DOMAIN s : s[n] # <<>> => \E k \in DOMAIN Distinct(s) : Distinct(s)[k] = s[n][1]
<1> DEFINE first == {n \in DOMAIN s : s[n] # <<>> /\ \A m \in 1 .. n - 1 : s[m] # s[n]}
<1>1. first \in SUBSET Nat /\ IsFiniteSet(first)
  <2>1. IsFiniteSet(1 .. top) /\ first \in SUBSET (1 .. top) /\ 1 .. top \in SUBSET Nat
    BY FS_Interval
  <2> HIDE DEF first
  <2>2. IsFiniteSet(first)
    BY <2>1, FS_Subset
  <2> QED BY <2>1, <2>2
<1>2. ASSUME NEW n \in DOMAIN s, s[n] # <<>>
      PROVE  \E m \in first : s[m] = s[n]
  <2> DEFINE same == {m \in DOMAIN s : s[m] = s[n]}
  <2>1. PICK m \in same : \A x \in same : m <= x
    <3>1. same \in SUBSET Nat /\ same # {}
      OBVIOUS
    <3> HIDE DEF same
    <3> QED BY <3>1, LeastMember
  <2>2. \A x \in 1 .. m - 1 : x \in DOMAIN s /\ x < m
    BY <2>1
  <2>3. \A x \in 1 .. m - 1 : s[x] # s[m]
    BY <2>1, <2>2
  <2> QED BY <1>2, <2>1, <2>3
<1>3. /\ Cardinality(first) \in Nat
      /\ DOMAIN Keeping(s, first) = 1 .. Cardinality(first)
      /\ \A k \in DOMAIN Keeping(s, first) : \E n \in first : Keeping(s, first)[k] = s[n]
      /\ \A n \in first : \E k \in DOMAIN Keeping(s, first) : Keeping(s, first)[k] = s[n]
  <2> HIDE DEF first
  <2> QED BY <1>1, KeepingLists
<1>4. Distinct(s) = [k \in 1 .. Cardinality(first) |-> Keeping(s, first)[k][1]]
  BY DEF Distinct
<1> HIDE DEF Keeping
<1>5. first \subseteq DOMAIN s /\ \A n \in first : s[n] # <<>>
  OBVIOUS
<1> HIDE DEF first
<1>6. DOMAIN Distinct(s) = 1 .. Cardinality(first) /\ Len(Distinct(s)) = Cardinality(first)
      /\ \A k \in 1 .. Cardinality(first) : Distinct(s)[k] = Keeping(s, first)[k][1]
  <2> DEFINE C == Cardinality(first)
  <2>1. \A z : z = [k \in 1 .. C |-> Keeping(s, first)[k][1]] => Len(z) = C
    <3>1. C \in Nat
      BY <1>3
    <3> HIDE DEF C
    <3>2. ASSUME NEW z, z = [k \in 1 .. C |-> Keeping(s, first)[k][1]] PROVE Len(z) = C
      <4>1. z \in Seq({Keeping(s, first)[k][1] : k \in 1 .. C})
        BY <3>1, <3>2
      <4> QED BY <3>1, <3>2, <4>1
    <3> QED BY <3>2
  <2> QED BY <1>4, <2>1
<1>7. ASSUME NEW n \in DOMAIN s, s[n] # <<>>
      PROVE  \E k \in DOMAIN Distinct(s) : Distinct(s)[k] = s[n][1]
  <2>1. PICK m \in first : s[m] = s[n]
    BY <1>2, <1>7
  <2>2. PICK k \in DOMAIN Keeping(s, first) : Keeping(s, first)[k] = s[m]
    BY <1>3
  <2> QED BY <1>3, <1>6, <2>1, <2>2
<1>8. \A k \in DOMAIN Distinct(s) : \E n \in DOMAIN s : s[n] # <<>> /\ Distinct(s)[k] = s[n][1]
  BY <1>3, <1>5, <1>6
<1> QED BY <1>3, <1>6, <1>7, <1>8

\* What a plan has: the row of every place, the key of every row that has
\* one, and the series to fetch.
PlanKey(p, ask, code) == SeriesKey(ask.indicator, code, p.dims, ask.adjusted)
PlanIsFull(p, ask) ==
  /\ DOMAIN p.rows = DOMAIN ask.places /\ DOMAIN p.keyOf = DOMAIN p.rows
  /\ \E m \in Nat : DOMAIN p.keys = 1 .. m /\ Len(p.keys) = m
  /\ NationalScope(ask.indicator) => p.keys = << PlanKey(p, ask, NationCode) >>
  /\ ~NationalScope(ask.indicator) =>
       /\ \A n \in DOMAIN p.rows : p.rows[n].status = "ok" =>
            /\ p.keyOf[n] = << PlanKey(p, ask, p.rows[n].code) >>
            /\ \E k \in DOMAIN p.keys : p.keys[k] = PlanKey(p, ask, p.rows[n].code)
       /\ \A k \in DOMAIN p.keys : \E n \in DOMAIN p.rows :
            p.rows[n].status = "ok" /\ p.keys[k] = PlanKey(p, ask, p.rows[n].code)

LEMMA PlanHas ==
  ASSUME NEW c, NEW ask, NEW top \in Nat, DOMAIN ask.places = 1 .. top,
         ~Plan(c, ask).refused
  PROVE  PlanIsFull(Plan(c, ask), ask)
<1> DEFINE i == ask.indicator
<1>1. ASSUME NEW dims, NEW rows, NEW met, DOMAIN rows = DOMAIN ask.places,
             ~PlanOf(ask, dims, rows, met).refused
      PROVE  PlanIsFull(PlanOf(ask, dims, rows, met), ask)
  <2> DEFINE q == PlanOf(ask, dims, rows, met)
             national == NationalScope(i)
             keyOf(code) == SeriesKey(i, code, dims, ask.adjusted)
             ok == {n \in DOMAIN rows : rows[n].status = "ok"}
             refused == KeyRefused(i, dims) /\ (national \/ ok # {})
             keys == [n \in DOMAIN rows |-> IF ~national /\ ~refused /\ n \in ok
                                            THEN << keyOf(rows[n].code) >> ELSE <<>>]
  <2>1. /\ q.rows = rows /\ q.dims = dims /\ q.refused = refused /\ q.keyOf = keys
        /\ q.keys = IF national /\ ~refused THEN << keyOf(NationCode) >> ELSE Distinct(keys)
    BY DEF PlanOf
  <2>2. ~refused
    BY <1>1, <2>1
  <2>3. DOMAIN keys = 1 .. top
    BY <1>1
  <2>4. /\ \E m \in Nat : DOMAIN Distinct(keys) = 1 .. m /\ Len(Distinct(keys)) = m
        /\ \A k \in DOMAIN Distinct(keys) : \E n \in DOMAIN keys :
             keys[n] # <<>> /\ Distinct(keys)[k] = keys[n][1]
        /\ \A n \in DOMAIN keys : keys[n] # <<>> =>
             \E k \in DOMAIN Distinct(keys) : Distinct(keys)[k] = keys[n][1]
    <3> HIDE DEF keys
    <3> QED BY <2>3, DistinctKeys
  <2>5. \A n \in DOMAIN rows :
          /\ ~national /\ rows[n].status = "ok" => keys[n] = << keyOf(rows[n].code) >>
          /\ keys[n] # <<>> => ~national /\ rows[n].status = "ok"
    BY <2>2
  <2>6. DOMAIN keys = DOMAIN rows
    OBVIOUS
  <2> SUFFICES PlanIsFull(q, ask)
    OBVIOUS
  <2> HIDE DEF keys, refused, keyOf, national, q
  <2>7. CASE national
    <3>1. DOMAIN << keyOf(NationCode) >> = 1 .. 1 /\ Len(<< keyOf(NationCode) >>) = 1
      OBVIOUS
    <3> QED BY <1>1, <2>1, <2>2, <2>6, <2>7, <3>1 DEF national, keyOf, PlanIsFull, PlanKey
  <2>8. CASE ~national
    <3>1. \A n \in DOMAIN rows : rows[n].status = "ok" =>
            keys[n] # <<>> /\ keys[n][1] = keyOf(rows[n].code)
      BY <2>5, <2>8
    <3>2. q.keys = Distinct(keys)
      BY <2>1, <2>8
    <3>3. \A k \in DOMAIN q.keys : \E n \in DOMAIN rows :
            rows[n].status = "ok" /\ q.keys[k] = keyOf(rows[n].code)
      BY <2>4, <2>5, <2>6, <3>1, <3>2
    <3>4. \A n \in DOMAIN rows : rows[n].status = "ok" =>
            \E k \in DOMAIN q.keys : q.keys[k] = keyOf(rows[n].code)
      BY <2>4, <2>6, <3>1, <3>2
    <3>5. \E m \in Nat : DOMAIN q.keys = 1 .. m /\ Len(q.keys) = m
      BY <2>4, <3>2
    <3> QED BY <1>1, <2>1, <2>5, <2>6, <2>8, <3>3, <3>4, <3>5 DEF national, keyOf, PlanIsFull, PlanKey
  <2> QED BY <2>7, <2>8
<1>2. ASSUME NEW dims, NEW rows, NEW met, DOMAIN rows = DOMAIN ask.places,
             ~PlanMet(c, ask, dims, rows, met).refused
      PROVE  PlanIsFull(PlanMet(c, ask, dims, rows, met), ask)
  BY <1>1, <1>2 DEF PlanMet
<1> QED BY <1>2 DEF Plan, PlanAsked, PlanFound

\* The least of some places in a sequence is one of them.
LEMMA LeastOne == \A S \in SUBSET Nat : S # {} => Min(S) \in S /\ \A n \in S : Min(S) <= n
BY LeastMember DEF Min

\* The call a reply answers: what it was asked and what it fetched.
LEMMA AskOf ==
  ASSUME IInv, call # None
  PROVE  \E n \in DOMAIN Asks : call.ask = Asks[n]
BY DEF IInv, CallIsAsked

LEMMA IsReleased == IInv => released \in Nat
BY AnswersAssumption DEF IInv

LEMMA RepliedTo ==
  ASSUME IInv, reply.kind \in {"get", "compare"}
  PROVE  /\ call # None /\ Tool = reply.kind /\ ~Refused(call.ask)
         /\ call = Plan(open, call.ask) /\ ~call.refused
         /\ Wanted(call.ask.indicator, call.keys, Options(call.ask), got) = {}
         /\ ~SeriesFail(call.ask.indicator, call.keys, Options(call.ask), got)
         /\ reply.kind = "get" => reply.of = GetIndicator(open, call, got)
         /\ reply.kind = "compare" => reply.of = ComparePlaces(call, got)
         /\ \A r \in DOMAIN got : \/ \E when \in 0 .. released :
                                       got[r] = AgencyAnswer(call.ask.indicator, r, when)
                                  \/ got[r] = TimedOut /\ Qcew(call.ask.indicator)
         /\ \E top \in Nat : /\ DOMAIN call.ask.places = 1 .. top
                             /\ reply.kind = "get" => top <= 1
<1>1. /\ call # None /\ Settled /\ Tool = reply.kind /\ NextRequests = {}
      /\ reply.kind = "get" => reply.of = GetIndicator(open, call, got)
      /\ reply.kind = "compare" => reply.of = ComparePlaces(call, got)
      /\ ~SeriesFail(call.ask.indicator, call.keys, Options(call.ask), got)
  BY DEF IInv, ReplyIsMade, None, Error
<1>2. /\ ~Refused(call.ask) /\ call = Plan(open, call.ask) /\ ~call.refused
      /\ Wanted(call.ask.indicator, call.keys, Options(call.ask), got) = {}
  BY <1>1 DEF Settled, NextRequests, Tool
<1>3. \A r \in DOMAIN got : \/ \E when \in 0 .. released :
                                 got[r] = AgencyAnswer(call.ask.indicator, r, when)
                            \/ got[r] = TimedOut /\ Qcew(call.ask.indicator)
  BY <1>1 DEF IInv, GotIsRead, ReadAt, AnswerOf, Tool
<1>4. PICK n \in DOMAIN Asks : call.ask = Asks[n]
  BY <1>1, AskOf
<1>5. /\ call.ask.places \in Seq(ToSet(call.ask.places))
      /\ call.ask.tool = "get" => Len(call.ask.places) <= 1
  BY <1>1, <1>4, AnswersAssumption DEF Tool
<1>6. Len(call.ask.places) \in Nat /\ DOMAIN call.ask.places = 1 .. Len(call.ask.places)
  BY <1>5
<1> QED BY <1>1, <1>2, <1>3, <1>5, <1>6 DEF Tool

LEMMA SeriesKeyed == \A i, keys, n, o : SeriesOf(i, keys, n, o, got).key = keys[n]
BY DEF SeriesOf, HudSeries, BeaSeries, BlsSeries, QcewSeries, SeriesFrom, CensusSeries

\* What it shows of a place: an observation of that place's series.
ShownOf(n, k) ==
  LET i == call.ask.indicator
      row == Answer[n]
      s == SeriesOf(i, call.keys, k, Options(call.ask), got)
  IN /\ \/ s.observations # <<>> /\ row.latest = s.observations[1]
        \/ \E m \in DOMAIN s.observations : row.latest = s.observations[m]
     /\ row.key = << call.keys[k] >>
     /\ row.source = {SourceOf(i, call.keys[k], row.latest)}
     /\ NationalScope(i) =>
          /\ row.place = <<Nation>>
          /\ call.keys[k] = SeriesKey(i, NationCode, call.dims, call.ask.adjusted)
     /\ ~NationalScope(i) =>
          /\ n \in DOMAIN call.rows /\ call.rows[n].status = "ok"
          /\ row.caveats = call.rows[n].caveats /\ row.place = call.rows[n].place
          /\ call.keys[k] = SeriesKey(i, call.rows[n].code, call.dims, call.ask.adjusted)

LEMMA ShownWhence ==
  ASSUME IInv, reply.kind \in {"get", "compare"}, NEW n \in Shown
  PROVE  \E k \in DOMAIN call.keys : ShownOf(n, k)
<1> DEFINE i == call.ask.indicator
           o == Options(call.ask)
           key(code) == SeriesKey(i, code, call.dims, call.ask.adjusted)
<1>1. PICK top \in Nat : DOMAIN call.ask.places = 1 .. top /\ (reply.kind = "get" => top <= 1)
  BY RepliedTo
<1>2. call = Plan(open, call.ask) /\ ~call.refused
  BY RepliedTo
<1>3. /\ DOMAIN call.rows = 1 .. top /\ DOMAIN call.keyOf = 1 .. top
      /\ \E m \in Nat : DOMAIN call.keys = 1 .. m
      /\ NationalScope(i) => call.keys = << key(NationCode) >>
      /\ ~NationalScope(i) =>
           /\ \A x \in DOMAIN call.rows : call.rows[x].status = "ok" =>
                /\ call.keyOf[x] = << key(call.rows[x].code) >>
                /\ \E k \in DOMAIN call.keys : call.keys[k] = key(call.rows[x].code)
           /\ \A k \in DOMAIN call.keys : \E x \in DOMAIN call.rows :
                call.rows[x].status = "ok" /\ call.keys[k] = key(call.rows[x].code)
  <2>1. PlanIsFull(call, call.ask)
    BY <1>1, <1>2, PlanHas
  <2> QED BY <1>1, <2>1 DEF PlanIsFull, PlanKey
<1>4. Answer[n].latest.value # Null /\ n \in DOMAIN Answer
  BY DEF Shown
<1>5. CASE reply.kind = "get"
  <2>1. Answer = << GetIndicator(open, call, got) >> /\ n = 1
    BY <1>4, <1>5, RepliedTo DEF Answer
  <2> DEFINE series == SeriesOf(i, call.keys, 1, o, got)
             row == GetIndicator(open, call, got)
  <2>2. /\ row.latest = LatestOf(series) /\ row.key = << call.keys[1] >>
        /\ row.latest # Nothing => row.source = {SourceOf(i, call.keys[1], row.latest)}
        /\ NationalScope(i) => row.place = <<Nation>>
        /\ ~NationalScope(i) => /\ call.rows[1].status = "ok" /\ row.caveats = call.rows[1].caveats
                                /\ row.place = call.rows[1].place
    BY <1>4, <2>1 DEF GetIndicator, GetAnswer, Answered, Unanswered, Nothing
  <2>3. series.observations # <<>> /\ row.latest = series.observations[1] /\ row.latest # Nothing
    BY <1>4, <2>1, <2>2 DEF LatestOf, Nothing
  <2>4. /\ 1 \in DOMAIN call.keys
        /\ NationalScope(i) => call.keys[1] = key(NationCode)
        /\ ~NationalScope(i) => 1 \in DOMAIN call.rows /\ call.keys[1] = key(call.rows[1].code)
    <3>1. CASE NationalScope(i)
      <4>1. 1 \in DOMAIN << key(NationCode) >> /\ << key(NationCode) >>[1] = key(NationCode)
        OBVIOUS
      <4> QED BY <1>3, <3>1, <4>1
    <3>2. CASE ~NationalScope(i)
      <4>1. top = 1
        <5>1. top # 0
          BY <1>3, <1>4, <2>1, <2>2, <3>2, RepliedTo, <1>1, <1>5 DEF Refused, Tool
        <5> QED BY <1>1, <1>5, <5>1
      <4>2. PICK k \in DOMAIN call.keys : call.keys[k] = key(call.rows[1].code)
        BY <1>3, <2>2, <3>2, <4>1
      <4>3. \A m \in DOMAIN call.keys : call.keys[m] = key(call.rows[1].code)
        BY <1>3, <3>2, <4>1
      <4> QED BY <1>3, <4>1, <4>2, <4>3
    <3> QED BY <3>1, <3>2
  <2> QED BY <2>1, <2>2, <2>3, <2>4 DEF ShownOf
<1>6. CASE reply.kind = "compare"
  <2>1. ~NationalScope(i)
    BY <1>6, RepliedTo DEF Refused, Tool
  <2> DEFINE all == {SeriesOf(i, call.keys, k, o, got) : k \in DOMAIN call.keys}
             period == SharedPeriod(all)
             at(x) == {y \in UNION {ToSetOf(s.observations) : s \in {t \in all : t.key = x}} :
                         <<y.year, y.period>> = period}
             k0 == call.keyOf[n][1]
  <2>2. /\ Answer = Compared(call, all, period).rows
    BY <1>6, RepliedTo DEF Answer, ComparePlaces, CompareFetched
  <2>3. n \in DOMAIN call.rows /\ DOMAIN call.rows = DOMAIN Answer
        /\ Answer[n] = IF call.rows[n].status # "ok" THEN Unanswered(call.rows[n], {})
                       ELSE CompareRow(call, call.rows[n], k0, at(k0))
    BY <1>4, <2>2 DEF Compared
  <2> HIDE DEF all, period, at, k0
  <2>4. call.rows[n].status = "ok" /\ Answer[n] = CompareRow(call, call.rows[n], k0, at(k0))
    BY <1>4, <2>3 DEF Unanswered, Nothing
  <2>5. /\ Answer[n].latest = IF at(k0) = {} THEN Nothing ELSE ThePick(at(k0))
        /\ Answer[n].key = << k0 >> /\ Answer[n].caveats = call.rows[n].caveats
        /\ Answer[n].place = call.rows[n].place
        /\ Answer[n].latest # Nothing => Answer[n].source = {SourceOf(i, k0, Answer[n].latest)}
    BY <2>4 DEF CompareRow, Answered
  <2>6. Answer[n].latest \in at(k0) /\ Answer[n].latest # Nothing
    BY <1>4, <2>5, Chosen DEF Nothing
  <2>7. PICK k \in DOMAIN call.keys :
          LET s == SeriesOf(i, call.keys, k, o, got) IN
          s.key = k0 /\ \E m \in DOMAIN s.observations : Answer[n].latest = s.observations[m]
    BY <2>6 DEF at, all, ToSetOf
  <2>8. k0 = key(call.rows[n].code)
    <3>1. call.keyOf[n] = << key(call.rows[n].code) >>
      BY <1>3, <2>1, <2>3, <2>4
    <3> QED BY ONLY <3>1 DEF k0
  <2>9. k0 = call.keys[k]
    BY <2>7, SeriesKeyed
  <2> QED BY <2>1, <2>3, <2>4, <2>5, <2>6, <2>7, <2>8, <2>9 DEF ShownOf
<1> QED BY <1>5, <1>6

-----------------------------------------------------------------------------
(* The Census: the product a figure is of.                                 *)

LEMMA OnlyCensus ==
  ASSUME NEW i \in CensusIndicators
  PROVE  ~Hud(i) /\ ~Bea(i) /\ ~Bls(i) /\ ~Qcew(i) /\ ~NationalScope(i)
BY DEF CensusIndicators, AcsIndicators, Hud, Bea, Bls, Qcew, NationalScope, HudIndicators, Areas, PictureFields,
   ChasMeasures, BeaIndicators, GdpIndicators, IncomeLines, BlsIndicators, LausIndicators, JoltsIndicators,
   OewsIndicators, QcewIndicators

\* The code and the caveat of a place are of one population and one product.
CensusRow(p, row) ==
  row.status = "ok" =>
    /\ row.code[1] = row.place
    /\ row.caveats = {<<"product", ChooseProduct(row.code[1], row.code[2], p.dims.product)>>}

LEMMA CensusCaveated ==
  ASSUME NEW c, NEW ask, ask.indicator \in AcsIndicators
  PROVE  \A n \in DOMAIN Plan(c, ask).rows : CensusRow(Plan(c, ask), Plan(c, ask).rows[n])
<1> DEFINE i == ask.indicator
<1>1. i \in CensusIndicators
  BY DEF CensusIndicators
<1>2. ~Hud(i) /\ ~Bea(i) /\ ~Bls(i) /\ ~Qcew(i)
  BY <1>1, OnlyCensus
<1> DEFINE caveats(id, dims) == {<<"product", ChooseProduct(id, c.rows[id].pop, dims.product)>>}
           Fits(row, dims) ==
             /\ {"status", "place", "code", "caveats"} \subseteq DOMAIN row
             /\ row.status = "ok" =>
                  row.code = <<row.place, c.rows[row.place].pop>> /\ row.caveats = caveats(row.place, dims)
<1>3. \A id, dims : AgencyCode(c, i, id) = {<<id, c.rows[id].pop>>} /\ CaveatOf(c, i, id, dims) = caveats(id, dims)
  BY <1>2 DEF AgencyCode, CensusCode, CaveatOf, CensusCaveats
<1>4. \A q, dims : Fits(Resolution(c, i, q, dims), dims)
  <2>1. ASSUME NEW r, NEW dims, NEW id
        PROVE  Fits(ResolvedAt(c, i, r, dims, id, AgencyCode(c, i, id)), dims)
    <3>1. AgencyCode(c, i, id) # {} /\ ThePick(AgencyCode(c, i, id)) = <<id, c.rows[id].pop>>
      BY <1>3 DEF ThePick
    <3>2. ResolvedAt(c, i, r, dims, id, AgencyCode(c, i, id)) =
            Resolved(r, "ok", id, id, <<id, c.rows[id].pop>>, caveats(id, dims))
      BY <1>3, <3>1 DEF ResolvedAt
    <3> QED BY <3>2 DEF Resolved
  <2>2. ASSUME NEW r, NEW dims
        PROVE  Fits(ResolutionOf(c, i, r, dims), dims)
    <3>1. \A status : status # "ok" => Fits(Resolved(r, status, <<>>, <<>>, <<>>, {}), dims)
      BY DEF Resolved
    <3> HIDE DEF Fits
    <3> QED BY <2>1, <3>1 DEF ResolutionOf
  <2> HIDE DEF Fits
  <2> QED BY <2>2 DEF Resolution
<1>5. ASSUME NEW dims, NEW rows, NEW met, \A n \in DOMAIN rows : Fits(rows[n], dims)
      PROVE  LET p == PlanMet(c, ask, dims, rows, met) IN \A n \in DOMAIN p.rows : Fits(p.rows[n], p.dims)
  <2>1. \A ds, rs : PlanOf(ask, ds, rs, met).rows = rs /\ PlanOf(ask, ds, rs, met).dims = ds
    BY DEF PlanOf
  <2>2. CASE met = {}
    BY <1>5, <2>1, <2>2 DEF PlanMet
  <2>3. CASE met # {}
    <3> DEFINE five == [dims EXCEPT !.product = "5-year"]
               again == [n \in DOMAIN rows |->
                          IF rows[n].status # "ok" THEN rows[n]
                          ELSE [rows[n] EXCEPT !.caveats = CaveatOf(c, i, rows[n].place, five)]]
    <3>1. PlanMet(c, ask, dims, rows, met) = PlanOf(ask, five, again, met)
      BY <2>3 DEF PlanMet
    <3>2. ASSUME NEW n \in DOMAIN rows PROVE Fits(again[n], five)
      <4>0. Fits(rows[n], dims)
        BY <1>5
      <4> QED BY <1>3, <4>0
    <3> HIDE DEF again, five, Fits
    <3>3. DOMAIN again = DOMAIN rows
      BY DEF again
    <3> QED BY <2>1, <3>1, <3>2, <3>3
  <2> QED BY <2>2, <2>3
<1>6. LET p == Plan(c, ask) IN \A n \in DOMAIN p.rows : Fits(p.rows[n], p.dims)
  <2> HIDE DEF Fits
  <2>1. ASSUME NEW dims
        PROVE  LET p == PlanAsked(c, ask, dims) IN \A n \in DOMAIN p.rows : Fits(p.rows[n], p.dims)
    <3> DEFINE found == [n \in DOMAIN ask.places |-> Resolution(c, i, ask.places[n], dims)]
    <3>1. \A n \in DOMAIN found : Fits(found[n], dims)
      BY <1>4
    <3> QED BY <1>5, <3>1 DEF PlanAsked, PlanFound
  <2> QED BY <2>1 DEF Plan
<1> QED BY <1>6 DEF CensusRow

\* A series shows the product of its key, or five years and says so.
LEMMA CensusObserved ==
  ASSUME NEW i \in AcsIndicators, NEW key, key.product \in Products,
         \A n \in DOMAIN CensusReads(key, got) : CensusReads(key, got)[n] \in DOMAIN got,
         \A r \in DOMAIN got : \E when : got[r] = CensusAnswer(r, when),
         NEW x, NEW m \in DOMAIN CensusSeries(i, key, got).observations,
         x = CensusSeries(i, key, got).observations[m]
  PROVE  \/ x.period = IF key.product = "1-year" THEN Annual ELSE FiveYears
         \/ x.period = FiveYears /\ <<"five_shown">> \in x.footnotes
<1> DEFINE reads == CensusReads(key, got)
           rows == got[reads[Len(reads)]]
           fell == IF Len(reads) = 2 THEN {<<"five_shown">>} ELSE {}
           r == CHOOSE y \in rows : TRUE
           o == AcsObservation(r)
<1>1. CensusSeries(i, key, got).observations =
        IF rows = {} THEN <<>> ELSE << [o EXCEPT !.footnotes = @ \cup fell] >>
  BY DEF CensusSeries
<1>2. rows # {} /\ x = [o EXCEPT !.footnotes = @ \cup fell]
  <2> DEFINE z == [o EXCEPT !.footnotes = @ \cup fell]
  <2>1. CensusSeries(i, key, got).observations = IF rows = {} THEN <<>> ELSE << z >>
    BY <1>1
  <2> HIDE DEF rows, z
  <2>2. rows # {} /\ x = z
    BY <2>1
  <2> QED BY <2>2 DEF z
<1>3. r \in rows
  BY <1>2
<1>4. x.period = (IF r.product = "1-year" THEN Annual ELSE FiveYears) /\ fell \subseteq x.footnotes
  <2> HIDE DEF rows, r, fell
  <2> QED BY <1>2 DEF AcsObservation
<1>5. CASE reads = <<key>>
  <2>1. reads[Len(reads)] = key /\ key \in DOMAIN got
    BY <1>5
  <2>2. r.product = key.product
    BY <1>3, <2>1 DEF CensusAnswer
  <2> QED BY <1>4, <2>2
<1>6. CASE reads = <<key, AsFive(key)>>
  <2>1. reads[Len(reads)] = AsFive(key) /\ AsFive(key) \in DOMAIN got /\ Len(reads) = 2
    BY <1>6
  <2>2. r.product = AsFive(key).product
    BY <1>3, <2>1 DEF CensusAnswer
  <2>3. fell = {<<"five_shown">>}
    BY <2>1
  <2> HIDE DEF fell, r, reads, rows
  <2>4. AsFive(key).product = "5-year" \/ AsFive(key).product = key.product
    BY DEF AsFive
  <2> QED BY <1>4, <2>2, <2>3, <2>4
<1> QED BY <1>5, <1>6 DEF CensusReads

LEMMA CensusAnswered ==
  ASSUME NEW keys, NEW top \in Nat, DOMAIN keys = 1 .. top, CensusWanted(keys, got) = {}
  PROVE  \A k \in DOMAIN keys : LET reads == CensusReads(keys[k], got) IN
           \A n \in DOMAIN reads : reads[n] \in DOMAIN got
<1> DEFINE busy == {n \in DOMAIN keys : FirstOpen(CensusReads(keys[n], got), got) # {}}
<1>1. busy \in SUBSET Nat
  OBVIOUS
<1>2. busy = {}
  <2>1. SUFFICES ASSUME busy # {} PROVE FALSE
    OBVIOUS
  <2>2. Min(busy) \in busy
    <3> HIDE DEF busy
    <3> QED BY <1>1, <2>1, LeastOne
  <2> QED BY <2>1, <2>2 DEF CensusWanted
<1> QED BY <1>2, AllAnswered

\* A figure of the ACS shows the product its caveat says, or that it fell from
\* one year to five (productFor, caveatFor and the five-year retry of acs).
THEOREM ProductTold == Spec => []ProductIsTold
<1>1. IInv => ProductIsTold
  <2> SUFFICES ASSUME IInv, reply.kind \in {"get", "compare"}, NEW n \in Shown,
                      call.ask.indicator \in AcsIndicators
               PROVE  LET x == Answer[n].latest
                          product == IF x.period = FiveYears THEN "5-year" ELSE "1-year"
                      IN \/ Answer[n].caveats = {<<"product", product>>}
                         \/ product = "5-year" /\ <<"five_shown">> \in x.footnotes
    BY DEF ProductIsTold
  <2> DEFINE i == call.ask.indicator
             x == Answer[n].latest
  <2>1. i \in CensusIndicators
    BY DEF CensusIndicators
  <2>2. ~Hud(i) /\ ~Bea(i) /\ ~Bls(i) /\ ~Qcew(i) /\ ~NationalScope(i)
    BY <2>1, OnlyCensus
  <2>3. PICK k \in DOMAIN call.keys : ShownOf(n, k)
    BY ShownWhence
  <2> DEFINE row == call.rows[n]
             key == call.keys[k]
  <2>4. /\ n \in DOMAIN call.rows /\ row.status = "ok" /\ Answer[n].caveats = row.caveats
        /\ key = CensusKey(i, row.code, call.dims)
    BY <2>2, <2>3 DEF ShownOf, SeriesKey
  <2>5. row.caveats = {<<"product", key.product>>} /\ key.product \in Products
    <3>1. call = Plan(open, call.ask)
      BY RepliedTo
    <3>2. CensusRow(call, row)
      BY <2>4, <3>1, CensusCaveated
    <3>3. key.product = ChooseProduct(row.code[1], row.code[2], call.dims.product)
      BY <2>4 DEF CensusKey
    <3> HIDE DEF key, row
    <3>4. key.product \in Products
      BY <3>3 DEF ChooseProduct, Products
    <3> QED BY <2>4, <3>2, <3>3, <3>4 DEF CensusRow
  <2>6. /\ \A m \in DOMAIN CensusReads(key, got) : CensusReads(key, got)[m] \in DOMAIN got
        /\ \A r \in DOMAIN got : \E when : got[r] = CensusAnswer(r, when)
    <3>1. CensusWanted(call.keys, got) = {}
      BY <2>2, RepliedTo DEF Wanted
    <3>2. \E top \in Nat : DOMAIN call.keys = 1 .. top
      <4>1. PICK top \in Nat : DOMAIN call.ask.places = 1 .. top
        BY RepliedTo
      <4>2. call = Plan(open, call.ask) /\ ~call.refused
        BY RepliedTo
      <4>3. PlanIsFull(call, call.ask)
        BY <4>1, <4>2, PlanHas
      <4> QED BY <4>3 DEF PlanIsFull
    <3>3. \A r \in DOMAIN got : \E when : got[r] = CensusAnswer(r, when)
      BY <2>2, RepliedTo DEF AgencyAnswer
    <3> QED BY <3>1, <3>2, <3>3, CensusAnswered
  <2>7. \E m \in DOMAIN CensusSeries(i, key, got).observations : x = CensusSeries(i, key, got).observations[m]
    <3>1. SeriesOf(i, call.keys, k, Options(call.ask), got) = CensusSeries(i, key, got)
      BY <2>2 DEF SeriesOf
    <3> DEFINE s == CensusSeries(i, key, got).observations
    <3>2. s # <<>> => 1 \in DOMAIN s
      BY DEF CensusSeries
    <3> HIDE DEF s
    <3>3. \/ s # <<>> /\ x = s[1]
          \/ \E m \in DOMAIN s : x = s[m]
      BY <2>3, <3>1 DEF ShownOf, s
    <3> QED BY <3>2, <3>3 DEF s
  <2> HIDE DEF x, key, row, i
  <2>8. \/ x.period = IF key.product = "1-year" THEN Annual ELSE FiveYears
        \/ x.period = FiveYears /\ <<"five_shown">> \in x.footnotes
    <3>1. i \in AcsIndicators
      BY DEF i
    <3> QED BY <2>5, <2>6, <2>7, <3>1, CensusObserved
  <2> QED BY <2>4, <2>5, <2>8 DEF x, Annual, FiveYears, Products
<1> QED BY <1>1, InvAlways, PTL

-----------------------------------------------------------------------------
(* The raw tools.                                                          *)

\* HUD's answer of a release is a page of it, and there is one when HUD had
\* one for the request before.
LEMMA HudAnswers ==
  ASSUME NEW r, NEW when \in Nat
  PROVE  /\ \A p \in HudAnswer(r, when) :
              p \in HudVisible(when) /\ p.page = r.page /\ p.id = r.id /\ (r.year # Latest => p.year = r.year)
         /\ (\E p \in HudVisible(when) : /\ p.page = r.page /\ p.id = r.id
                                         /\ r.year # Latest => p.year = r.year)
            /\ (r.page = "picture" => r.year # Latest /\ r.census = PictureCensus(r.year))
              => HudAnswer(r, when) # {}
<1> DEFINE of == {p \in HudVisible(when) : p.page = r.page /\ p.id = r.id}
<1>1. of \subseteq HudPages /\ \A p \in of : p.year \in Nat /\ (p.page = "picture" => PictureCensus(p.year) \in p.census)
  BY HudAssumption DEF HudVisible
<1>2. ASSUME NEW p \in of, r.year # Latest => p.year = r.year,
             r.page = "picture" => r.year # Latest /\ r.census = PictureCensus(r.year)
      PROVE  HudAnswer(r, when) # {}
  <2>1. CASE r.year # Latest
    BY <1>1, <1>2, <2>1 DEF HudAnswer
  <2>2. CASE r.year = Latest
    <3> DEFINE B == [x \in of |-> {y \in of : x.year < y.year}]
    <3>1. /\ \A x \in of : B[x] \subseteq of /\ x \notin B[x]
          /\ \A x, y \in of : x \in B[y] => B[x] \subseteq B[y]
      <4> HIDE DEF of
      <4> QED BY <1>1
    <3>2. IsFiniteSet(of)
      BY <1>1, HudAssumption, FS_Subset
    <3>3. PICK x \in of : B[x] = {}
      <4> HIDE DEF of, B
      <4> QED BY <1>2, <3>1, <3>2, Foremost
    <3>4. \A q \in of : q.year <= x.year
      <4> HIDE DEF of
      <4> QED BY <1>1, <3>3
    <3> QED BY <1>2, <2>2, <3>4 DEF HudAnswer
  <2> QED BY <2>1, <2>2
<1>3. \A p \in HudAnswer(r, when) :
        p \in HudVisible(when) /\ p.page = r.page /\ p.id = r.id /\ (r.year # Latest => p.year = r.year)
  BY DEF HudAnswer
<1> QED BY <1>2, <1>3

LEMMA RawRepliedTo ==
  ASSUME IInv, reply.kind = "raw"
  PROVE  /\ call # None /\ Tool = "raw" /\ ~RawToolRefused(call.ask)
         /\ reply.of = RawResult(call.ask)
         /\ \A n \in DOMAIN RawAsked(call.ask) : RawAsked(call.ask)[n] \in DOMAIN got
         /\ \A r \in DOMAIN got : \E when \in 0 .. released : got[r] = RawAnswer(call.ask, r, when)
         /\ released \in Nat
         /\ \E n \in DOMAIN Asks : call.ask = Asks[n]
<1>1. /\ call # None /\ Tool = "raw" /\ ~RawToolRefused(call.ask) /\ NextRequests = {}
      /\ reply.of = RawResult(call.ask)
  BY DEF IInv, ReplyIsMade, Settled, None, Error
<1>2. \A n \in DOMAIN RawAsked(call.ask) : RawAsked(call.ask)[n] \in DOMAIN got
  <2>1. FirstOpen(RawAsked(call.ask), got) = {}
    BY <1>1 DEF NextRequests, Tool
  <2> QED BY <2>1, AllAnswered
<1>3. \A r \in DOMAIN got : \E when \in 0 .. released : got[r] = RawAnswer(call.ask, r, when)
  BY <1>1 DEF IInv, GotIsRead, ReadAt, AnswerOf, Tool
<1> QED BY <1>1, <1>2, <1>3, AskOf, AnswersAssumption DEF IInv

\* What the raw tool of HUD says of an id.
LEMMA HudRawTells ==
  ASSUME IInv, reply.kind = "raw", call.ask.server = "hud"
  PROVE  LET q == call.ask.query
             none == {w[2] : w \in {v \in reply.of.notes : v[1] = "none"}}
             published(id, when) ==
               \E p \in HudVisible(when) :
                 p.page = q.endpoint /\ p.id = id /\ (q.year # Latest => p.year = q.year)
         IN /\ \A id \in none : ~published(id, 0)
            /\ \A id \in ToSet(q.ids) \ none : published(id, released)
<1> DEFINE q == call.ask.query
           reads == RawRequests(q)
           none == {w[2] : w \in {v \in reply.of.notes : v[1] = "none"}}
           published(id, when) ==
             \E p \in HudVisible(when) :
               p.page = q.endpoint /\ p.id = id /\ (q.year # Latest => p.year = q.year)
<1>1. /\ ~RawRefused(q) /\ reply.of = RawReply(q, got)
      /\ \A n \in DOMAIN reads : reads[n] \in DOMAIN got
      /\ \A r \in DOMAIN got : \E when \in 0 .. released : got[r] = HudAnswer(r, when)
      /\ released \in Nat
  BY RawRepliedTo DEF RawToolRefused, RawResult, RawAsked, RawAnswer
<1>2. DOMAIN reads = DOMAIN q.ids
  BY DEF RawRequests
<1>3. ASSUME NEW n \in DOMAIN q.ids
      PROVE  /\ reads[n].page = q.endpoint /\ reads[n].id = q.ids[n] /\ reads[n].year = q.year
             /\ q.endpoint = "picture" => q.year # Latest /\ reads[n].census = PictureCensus(q.year)
  <2>1. CASE q.endpoint = "chas"
    BY <2>1 DEF RawRequests, ChasRequest
  <2>2. CASE q.endpoint = "picture"
    BY <1>1, <2>2 DEF RawRequests, PictureRequest, RawRefused
  <2>3. CASE q.endpoint \notin {"chas", "picture"}
    <3>1. reads[n] = AreaRequest(q.endpoint, << q.ids[n], <<>> >>, q.year)
      BY <2>3 DEF RawRequests
    <3>2. \A y, from : IdForYear(<< q.ids[n], <<>> >>, y, from) = q.ids[n]
      BY DEF IdForYear
    <3> QED BY <2>3, <3>1, <3>2 DEF AreaRequest
  <2> QED BY <2>1, <2>2, <2>3
<1>4. \A id : id \in none <=> \E n \in DOMAIN q.ids : got[reads[n]] = {} /\ id = q.ids[n]
  <2> DEFINE bad == {m \in DOMAIN q.ids : got[reads[m]] = {}}
  <2>1. reply.of.notes = {<<"none", q.ids[n]>> : n \in bad}
    BY <1>1 DEF RawReply
  <2> HIDE DEF bad
  <2>2. \A w \in reply.of.notes : w[1] = "none" /\ \E n \in bad : w[2] = q.ids[n]
    BY <2>1
  <2>3. \A n \in bad : <<"none", q.ids[n]>> \in reply.of.notes
    BY <2>1
  <2>4. \A id \in none : \E n \in bad : id = q.ids[n]
    BY <2>2
  <2>5. ASSUME NEW n \in bad PROVE q.ids[n] \in none
    <3>1. <<"none", q.ids[n]>>[1] = "none" /\ <<"none", q.ids[n]>>[2] = q.ids[n]
      OBVIOUS
    <3> QED BY <2>3, <3>1
  <2> HIDE DEF none
  <2>6. \A n : n \in bad <=> n \in DOMAIN q.ids /\ got[reads[n]] = {}
    BY DEF bad
  <2> QED BY <2>4, <2>5, <2>6
<1>5. ASSUME NEW n \in DOMAIN q.ids
      PROVE  /\ got[reads[n]] = {} => ~published(q.ids[n], 0)
             /\ got[reads[n]] # {} => published(q.ids[n], released)
  <2> DEFINE r == reads[n]
  <2>1. PICK when \in 0 .. released : got[r] = HudAnswer(r, when)
    BY <1>1, <1>2
  <2>2. HudVisible(0) \subseteq HudVisible(when) /\ HudVisible(when) \subseteq HudVisible(released)
    BY <1>1, HudAssumption DEF HudVisible
  <2>3. when \in Nat
    BY <1>1
  <2>4. \A p \in HudAnswer(r, when) :
          p \in HudVisible(when) /\ p.page = r.page /\ p.id = r.id /\ (r.year # Latest => p.year = r.year)
    BY <2>3, HudAnswers
  <2>5. (\E p \in HudVisible(when) : p.page = r.page /\ p.id = r.id /\ (r.year # Latest => p.year = r.year))
        /\ (r.page = "picture" => r.year # Latest /\ r.census = PictureCensus(r.year))
          => HudAnswer(r, when) # {}
    BY <2>3, HudAnswers
  <2>6. /\ r.page = q.endpoint /\ r.id = q.ids[n] /\ r.year = q.year
        /\ r.page = "picture" => r.year # Latest /\ r.census = PictureCensus(r.year)
    BY <1>3
  <2> HIDE DEF r, q
  <2>7. got[r] = {} => ~published(q.ids[n], 0)
    BY <2>1, <2>2, <2>5, <2>6
  <2>8. got[r] # {} => published(q.ids[n], released)
    BY <2>1, <2>2, <2>4, <2>6
  <2> QED BY <2>7, <2>8 DEF r
<1> HIDE DEF reads, none, published, q
<1>6. \A id \in none : ~published(id, 0)
  BY <1>4, <1>5
<1>7. \A id \in ToSet(q.ids) \ none : published(id, released)
  BY <1>4, <1>5 DEF ToSet
<1> QED BY <1>6, <1>7 DEF none, published, q

\* Of batches of a size, the one a series is in.
LEMMA BatchOf ==
  ASSUME NEW size \in Nat \ {0}, NEW top \in Nat, NEW n \in 1 .. top
  PROVE  ((n - 1) \div size) + 1 \in 1 .. ((top + size - 1) \div size)
<1>1. \A a, b \in Nat : a <= b => a \div size <= b \div size
  OBVIOUS
<1>2. \A a \in Nat : (a + size) \div size = (a \div size) + 1 /\ a \div size \in Nat
  OBVIOUS
<1>3. n - 1 \in Nat /\ top - 1 \in Nat /\ n - 1 <= top - 1
  OBVIOUS
<1>4. ((top - 1) + size) \div size = ((top - 1) \div size) + 1
  BY <1>2, <1>3
<1>5. (top - 1) + size = top + size - 1
  OBVIOUS
<1>6. (n - 1) \div size <= (top - 1) \div size /\ (n - 1) \div size \in Nat /\ (top - 1) \div size \in Nat
  BY <1>1, <1>2, <1>3
<1>7. (top + size - 1) \div size = ((top - 1) \div size) + 1
  BY <1>4, <1>5
<1> DEFINE a == (n - 1) \div size
           b == (top - 1) \div size
           c == (top + size - 1) \div size
<1>8. a \in Nat /\ b \in Nat /\ a <= b /\ c = b + 1
  BY <1>6, <1>7
<1> HIDE DEF a, b, c
<1>9. a + 1 \in 1 .. c
  BY <1>8
<1> QED BY <1>9 DEF a, c

\* Every series is in a batch, for the years asked for.
LEMMA Batched ==
  ASSUME NEW ids, NEW years, NEW top \in Nat, DOMAIN ids = 1 .. top, Len(ids) = top, NEW n \in DOMAIN ids
  PROVE  LET b == ((n - 1) \div SeriesPerRequest) + 1
             batches == BlsBatches(ids, years)
         IN /\ b \in DOMAIN batches
            /\ ids[n] \in batches[b].series /\ batches[b].years = years
            /\ \A id \in batches[b].series : \E m \in DOMAIN ids : id = ids[m]
<1> DEFINE b == ((n - 1) \div SeriesPerRequest) + 1
           in == {m \in DOMAIN ids : (m - 1) \div SeriesPerRequest = b - 1}
<1>1. b \in 1 .. ((Len(ids) + SeriesPerRequest - 1) \div SeriesPerRequest)
  BY BatchOf, BlsAssumption
<1>2. n \in in
  <2>1. (n - 1) \div SeriesPerRequest \in Int
    BY BlsAssumption
  <2> QED BY <2>1
<1>3. b \in DOMAIN BlsBatches(ids, years) /\ BlsBatches(ids, years)[b] = BlsRequest({ids[m] : m \in in}, years)
  <2> HIDE DEF b
  <2> QED BY <1>1 DEF BlsBatches
<1>4. /\ BlsBatches(ids, years)[b].series = {ids[m] : m \in in}
      /\ BlsBatches(ids, years)[b].years = years
  <2> HIDE DEF b, in
  <2> QED BY <1>3 DEF BlsRequest
<1>5. in \subseteq DOMAIN ids
  OBVIOUS
<1> HIDE DEF b, in
<1>6. ids[n] \in BlsBatches(ids, years)[b].series
      /\ \A id \in BlsBatches(ids, years)[b].series : \E m \in DOMAIN ids : id = ids[m]
  BY <1>2, <1>4, <1>5
<1> QED BY <1>3, <1>4, <1>6 DEF b

\* The years of a raw call of BLS that names one: at most twenty.
LEMMA RawSpanKept ==
  ASSUME NEW q, {q.start, q.end} \subseteq Year \cup {Null}
  PROVE  /\ {q.start, q.end} # {Null} => Cardinality(BlsYears(q)) <= RawSpan
         /\ \A v \in BlsRawYears(q, ThisYear).notes : v[1] # "none"
<1> DEFINE y == BlsRawYears(q, ThisYear)
           end == IF q.start # Null /\ q.end = Null THEN ThisYear ELSE q.end
           filled == IF q.start = Null /\ q.end # Null THEN q.end - (RawSpan - 1) ELSE q.start
           start == IF filled # Null /\ end - filled + 1 > RawSpan THEN end - (RawSpan - 1) ELSE filled
<1>1. y.start = start /\ y.end = end
  BY DEF BlsRawYears
<1>2. \A v \in y.notes : v[1] \in {"end", "start", "capped"}
  BY DEF BlsRawYears
<1>3. start # Null => start \in Int /\ end \in Int /\ end - start + 1 <= RawSpan
  BY IndicatorsAssumption DEF IndicatorsAssumption, Year, Null, RawSpan
<1>4. start = Null => {q.start, q.end} = {Null}
  BY IndicatorsAssumption DEF IndicatorsAssumption, Year, Null, RawSpan
<1> HIDE DEF y, start, end
<1>5. BlsYears(q) = IF start = Null THEN BlsDefault ELSE start .. end
  BY <1>1 DEF BlsYears, y
<1>6. CASE start = Null
  BY <1>4, <1>2, <1>6 DEF y
<1>7. CASE start # Null
  <2>1. Cardinality(start .. end) = IF start > end THEN 0 ELSE end - start + 1
    BY <1>3, <1>7, FS_Interval
  <2> QED BY <1>2, <1>3, <1>5, <1>7, <2>1 DEF RawSpan, y
<1> QED BY <1>6, <1>7

\* What the raw tool of BLS says of a series: a row is in a reply, from the first
\* or a later release, and the series without a note are those of the replies.
LEMMA BlsRawTells ==
  ASSUME IInv, reply.kind = "raw", call.ask.server = "bls"
  PROVE  LET q == call.ask.query
             none == {w[2] : w \in {v \in reply.of.notes : v[1] = "none"}}
             wanted(when) == {r \in BlsVisible(when) : r.series \in ToSet(q.ids) /\ r.year \in BlsYears(q)}
             shown == UNION {reply.of.replies[b].rows : b \in DOMAIN reply.of.replies}
             published(id, when) == \E r \in wanted(when) : r.series = id
         IN /\ \A id \in none : ~published(id, 0)
            /\ \A id \in ToSet(q.ids) \ none : published(id, released) \/ id \in BlsListed
            /\ wanted(0) \subseteq shown /\ shown \subseteq wanted(released)
            /\ {q.start, q.end} # {Null} => Cardinality(BlsYears(q)) <= RawSpan
<1> DEFINE q == call.ask.query
           years == BlsYears(q)
           batches == BlsBatches(q.ids, years)
           none == {w[2] : w \in {v \in reply.of.notes : v[1] = "none"}}
           wanted(when) == {r \in BlsVisible(when) : r.series \in ToSet(q.ids) /\ r.year \in years}
           shown == UNION {got[batches[b]] : b \in DOMAIN batches}
           listed == UNION {BlsReply(batches[b], got[batches[b]]).series : b \in DOMAIN batches}
           silent == {m \in DOMAIN q.ids : q.ids[m] \notin listed}
<1>1. /\ \A n \in DOMAIN batches : batches[n] \in DOMAIN got
      /\ \A r \in DOMAIN got : \E when \in 0 .. released : got[r] = BlsAnswer(r, when)
      /\ released \in Nat
  BY RawRepliedTo DEF RawAsked, RawAnswer
<1>2. /\ {q.start, q.end} \subseteq Year \cup {Null} /\ q.ids \in Seq(ToSet(q.ids))
  <2>1. PICK n \in DOMAIN Asks : call.ask = Asks[n]
    BY RawRepliedTo
  <2>2. call.ask.tool = "raw"
    BY RawRepliedTo DEF Tool
  <2> QED BY <2>1, <2>2, AnswersAssumption
<1>3. /\ {q.start, q.end} # {Null} => Cardinality(years) <= RawSpan
      /\ \A v \in BlsRawYears(q, ThisYear).notes : v[1] # "none"
  BY <1>2, RawSpanKept
<1>4. Len(q.ids) \in Nat /\ DOMAIN q.ids = 1 .. Len(q.ids)
  BY <1>2
<1>5. /\ reply.of.notes = {<<"none", q.ids[n]>> : n \in silent} \cup BlsRawYears(q, ThisYear).notes
      /\ reply.of.replies = BlsReplies(q, years, got)
  <2> DEFINE z == BlsRawReply(q, years, got)
  <2>1. reply.of = [z EXCEPT !.notes = @ \cup BlsRawYears(q, ThisYear).notes]
    BY RawRepliedTo DEF RawResult
  <2>2. DOMAIN z = {"replies", "notes"} /\ z.replies = BlsReplies(q, years, got)
        /\ z.notes = {<<"none", q.ids[n]>> : n \in silent}
    <3> DEFINE answers == BlsReplies(q, years, got)
    <3>1. answers = [b \in DOMAIN batches |-> BlsReply(batches[b], got[batches[b]])]
      BY DEF BlsReplies
    <3>2. {answers[b].series : b \in DOMAIN answers}
          = {BlsReply(batches[b], got[batches[b]]).series : b \in DOMAIN batches}
      <4> HIDE DEF answers, batches
      <4> QED BY ONLY <3>1
    <3>3. z.notes = NotReturned(q, listed)
      BY <3>2 DEF BlsRawReply
    <3> QED BY <3>3 DEF BlsRawReply, NotReturned
  <2> HIDE DEF z, silent, q, years
  <2> QED BY <2>1, <2>2
<1>6. UNION {reply.of.replies[b].rows : b \in DOMAIN reply.of.replies} = shown
  <2>1. reply.of.replies = [b \in DOMAIN batches |-> BlsReply(batches[b], got[batches[b]])]
    BY <1>5 DEF BlsReplies
  <2>2. \A b : BlsReply(batches[b], got[batches[b]]).rows = got[batches[b]]
    BY DEF BlsReply
  <2> HIDE DEF batches
  <2>3. {reply.of.replies[b].rows : b \in DOMAIN reply.of.replies} = {got[batches[b]] : b \in DOMAIN batches}
    BY <2>1, <2>2
  <2> QED BY <2>3
<1>7. \A id : id \in listed <=> \E b \in DOMAIN batches :
               \/ \E r \in got[batches[b]] : r.series = id
               \/ id \in batches[b].series \cap BlsListed
  BY DEF BlsReply
<1> HIDE DEF listed
<1>8. \A id : id \in none <=> \E n \in DOMAIN q.ids : q.ids[n] \notin listed /\ id = q.ids[n]
  <2> HIDE DEF silent
  <2>1. \A w \in reply.of.notes : w[1] = "none" => \E n \in silent : w[2] = q.ids[n]
    BY <1>3, <1>5
  <2>2. \A n \in silent : <<"none", q.ids[n]>> \in reply.of.notes
    BY <1>5
  <2>3. \A id \in none : \E n \in silent : id = q.ids[n]
    BY <2>1
  <2>4. ASSUME NEW n \in silent PROVE q.ids[n] \in none
    <3>1. <<"none", q.ids[n]>>[1] = "none" /\ <<"none", q.ids[n]>>[2] = q.ids[n]
      OBVIOUS
    <3> QED BY <2>2, <3>1
  <2> HIDE DEF none
  <2>5. \A n : n \in silent <=> n \in DOMAIN q.ids /\ q.ids[n] \notin listed
    BY DEF silent
  <2> QED BY <2>3, <2>4, <2>5
<1>9. ASSUME NEW r \in wanted(0)
      PROVE  \E b \in DOMAIN batches : r \in got[batches[b]]
  <2>1. PICK n \in DOMAIN q.ids : r.series = q.ids[n]
    BY DEF ToSet
  <2> DEFINE b == ((n - 1) \div SeriesPerRequest) + 1
  <2>2. b \in DOMAIN batches /\ q.ids[n] \in batches[b].series /\ batches[b].years = years
    BY <1>4, Batched
  <2>3. r \in BlsVisible(0) /\ r.year \in years
    OBVIOUS
  <2> HIDE DEF b, batches, years, q
  <2>4. PICK when \in 0 .. released : got[batches[b]] = BlsAnswer(batches[b], when)
    BY <1>1, <2>2
  <2>5. r \in BlsVisible(when)
    BY <1>1, <2>3, BlsAssumption DEF BlsVisible
  <2>6. r \in got[batches[b]]
    BY <2>1, <2>2, <2>3, <2>4, <2>5 DEF BlsAnswer
  <2> QED BY <2>2, <2>6
<1>10. ASSUME NEW b \in DOMAIN batches, NEW r \in got[batches[b]]
       PROVE  r \in wanted(released)
  <2>1. PICK when \in 0 .. released : got[batches[b]] = BlsAnswer(batches[b], when)
    BY <1>1
  <2>2. batches[b].years = years
        /\ batches[b].series = {q.ids[n] : n \in {m \in DOMAIN q.ids : (m - 1) \div SeriesPerRequest = b - 1}}
    BY DEF BlsBatches, BlsRequest
  <2>3. \A id \in batches[b].series : id \in ToSet(q.ids)
    BY <2>2 DEF ToSet
  <2> HIDE DEF batches, years, q
  <2>4. r \in BlsVisible(when) /\ r.year \in years /\ r.series \in ToSet(q.ids)
    BY <2>1, <2>2, <2>3 DEF BlsAnswer
  <2>5. r \in BlsVisible(released)
    BY <1>1, <2>4, BlsAssumption DEF BlsVisible
  <2> QED BY <2>4, <2>5
<1>11. wanted(0) \subseteq shown /\ shown \subseteq wanted(released)
  <2> HIDE DEF batches, wanted
  <2> QED BY <1>9, <1>10
<1> DEFINE published(id, when) == \E r \in wanted(when) : r.series = id
<1>12. \A id \in none : ~published(id, 0)
  <2> HIDE DEF batches, wanted, none, q
  <2> QED BY <1>7, <1>8, <1>9
<1>13. \A id \in ToSet(q.ids) \ none : published(id, released) \/ id \in BlsListed
  <2>1. \A id \in ToSet(q.ids) : \E n \in DOMAIN q.ids : id = q.ids[n]
    BY DEF ToSet
  <2> HIDE DEF batches, wanted, none, q
  <2> QED BY <1>7, <1>8, <1>10, <2>1
<1> HIDE DEF none, wanted, shown, q
<1> QED BY <1>3, <1>6, <1>11, <1>12, <1>13 DEF none, wanted, shown, q

\* A raw reply leaves no id out in silence, whatever is published while it is
\* read (hud_get_raw and bls_get_raw).
THEOREM RawIsTold == Spec => []RawTellsAll
<1>1. IInv => RawTellsAll
  BY HudRawTells, BlsRawTells DEF RawTellsAll
<1> QED BY <1>1, InvAlways, PTL

-----------------------------------------------------------------------------
(* Observations, newest first.                                             *)

Newer(x, y) == x.year > y.year \/ (x.year = y.year /\ x.period > y.period)

\* Figures of different periods are listed each once, the newest first.
LEMMA NewestListed ==
  ASSUME NEW S, IsFiniteSet(S), \A x \in S : x.year \in Int /\ x.period \in Int,
         \A x, y \in S : x.year = y.year /\ x.period = y.period => x = y
  PROVE  /\ Cardinality(S) \in Nat /\ DOMAIN NewestFirst(S) = 1 .. Cardinality(S)
         /\ \A k \in DOMAIN NewestFirst(S) : NewestFirst(S)[k] \in S
         /\ \A x \in S : \E k \in DOMAIN NewestFirst(S) : NewestFirst(S)[k] = x
         /\ S # {} => NewestFirst(S) # <<>> /\ \A x \in S : ~Newer(x, NewestFirst(S)[1])
         /\ NewestFirst(S) # <<>> => 1 \in DOMAIN NewestFirst(S)
<1> DEFINE B == [x \in S |-> {y \in S : Newer(y, x)}]
           Count(x) == Cardinality(B[x])
<1>1. \A x \in S : B[x] = {y \in S : Newer(y, x)}
  OBVIOUS
<1>2. /\ \A x \in S : B[x] \subseteq S /\ x \notin B[x]
      /\ \A x, y \in S : x # y => x \in B[y] \/ y \in B[x]
      /\ \A x, y, z \in S : x \in B[y] /\ y \in B[z] => x \in B[z]
  BY DEF Newer
<1> HIDE DEF B
<1>3. /\ Cardinality(S) \in Nat
      /\ \A x \in S : Count(x) \in 0 .. Cardinality(S) - 1
      /\ \A x, z \in S : Count(x) = Count(z) => x = z
      /\ \A k \in 0 .. Cardinality(S) - 1 : \E x \in S : Count(x) = k
  BY <1>2, Ranked
<1>4. \A x \in S : Count(x) = Cardinality({y \in S : y.year > x.year \/ (y.year = x.year /\ y.period > x.period)})
  BY <1>1 DEF Newer
<1>5. \A x \in S : Count(x) = 0 => \A y \in S : ~Newer(y, x)
  <2>1. \A x \in S : IsFiniteSet(B[x])
    BY <1>2, FS_Subset
  <2> QED BY <1>1, <2>1, FS_EmptySet
<1> HIDE DEF Count
<1>6. DOMAIN NewestFirst(S) = 1 .. Cardinality(S)
  BY DEF NewestFirst
<1>7. ASSUME NEW k \in 1 .. Cardinality(S)
      PROVE  NewestFirst(S)[k] \in S /\ Count(NewestFirst(S)[k]) = k - 1
  <2> DEFINE Fits(x) == Cardinality({y \in S : y.year > x.year \/ (y.year = x.year /\ y.period > x.period)}) = k - 1
  <2>1. k - 1 \in 0 .. Cardinality(S) - 1
    BY <1>3
  <2>2. \E x \in S : Fits(x)
    BY <1>3, <1>4, <2>1
  <2>3. NewestFirst(S)[k] = CHOOSE x \in S : Fits(x)
    BY DEF NewestFirst
  <2> HIDE DEF Fits
  <2>4. NewestFirst(S)[k] \in S /\ Fits(NewestFirst(S)[k])
    BY <2>2, <2>3
  <2> QED BY <1>4, <2>4 DEF Fits
<1>8. ASSUME NEW x \in S PROVE \E k \in DOMAIN NewestFirst(S) : NewestFirst(S)[k] = x
  <2>1. Count(x) + 1 \in 1 .. Cardinality(S) /\ (Count(x) + 1) - 1 = Count(x)
    BY <1>3
  <2>2. NewestFirst(S)[Count(x) + 1] = x
    BY <1>3, <1>7, <2>1
  <2> QED BY <1>6, <2>1, <2>2
<1>9. ASSUME S # {} PROVE NewestFirst(S) # <<>> /\ \A x \in S : ~Newer(x, NewestFirst(S)[1])
  <2>1. 1 \in 1 .. Cardinality(S)
    <3>1. PICK x \in S : TRUE
      BY <1>9
    <3> QED BY <1>3, <3>1
  <2>2. NewestFirst(S)[1] \in S /\ Count(NewestFirst(S)[1]) = 0
    BY <1>7, <2>1
  <2>3. NewestFirst(S) # <<>>
    <3>1. 1 \in DOMAIN NewestFirst(S) /\ 1 \notin DOMAIN << >>
      BY <1>6, <2>1
    <3> HIDE DEF NewestFirst
    <3> QED BY <3>1
  <2> QED BY <1>5, <2>2, <2>3
<1>10. ASSUME NewestFirst(S) # <<>> PROVE 1 \in DOMAIN NewestFirst(S)
  <2>1. Cardinality(S) # 0
    BY <1>10 DEF NewestFirst
  <2> QED BY <1>3, <1>6, <2>1
<1> QED BY <1>3, <1>6, <1>7, <1>8, <1>9, <1>10

-----------------------------------------------------------------------------
(* A range of years.                                                       *)

LEMMA OptionsTyped ==
  ASSUME IInv, reply.kind \in {"get", "compare"}
  PROVE  LET o == Options(call.ask) IN
         /\ o.start \in Int /\ o.end \in Int
         /\ o.explicit => \A a \in Int : a >= o.start => a .. o.end # {Latest}
<1>1. PICK n \in DOMAIN Asks : call.ask = Asks[n]
  BY RepliedTo, AskOf
<1>2. {call.ask.start, call.ask.end} \subseteq Year \cup {Null}
  BY <1>1, RepliedTo, AnswersAssumption DEF Tool
<1> DEFINE o == Options(call.ask)
<1>3. /\ o.start \in Int /\ o.end \in Int
      /\ o.explicit => o.end # 0 \/ o.start > 0
  <2> DEFINE a == call.ask.start
             b == call.ask.end
  <2>1. (a = Null \/ (a \in Int /\ a > 0)) /\ (b = Null \/ (b \in Int /\ b > 0)) /\ ThisYear \in Int
    BY <1>2, IndicatorsAssumption DEF IndicatorsAssumption, Year
  <2>2. /\ o.start = IF a = Null THEN ThisYear - 1 ELSE a
        /\ o.end = IF b = Null THEN ThisYear ELSE b
        /\ o.explicit => a # Null \/ b # Null
    BY DEF Options
  <2> HIDE DEF o, a, b
  <2> QED BY <2>1, <2>2
<1> HIDE DEF o
<1>4. ASSUME o.explicit, NEW a \in Int, a >= o.start, a .. o.end = {0} PROVE FALSE
  <2>1. 0 \in a .. o.end /\ (o.end \in a .. o.end)
    BY <1>3, <1>4
  <2>2. o.end = 0 /\ a <= 0
    BY <1>3, <1>4, <2>1
  <2> QED BY <1>3, <1>4, <2>2
<1> QED BY <1>3, <1>4 DEF o, Latest

\* A get reply with a series shows that series.
LEMMA GetShows ==
  ASSUME IInv, reply.kind = "get", reply.of.key # <<>>
  PROVE  LET i == call.ask.indicator
             s == SeriesOf(i, call.keys, 1, Options(call.ask), got)
         IN /\ reply.of.observations = s.observations /\ reply.of.latest = LatestOf(s)
            /\ reply.of.notes = HistoryNote(call.ask) \cup s.notes
            /\ \E m \in Nat : DOMAIN call.keys = 1 .. m /\ Len(call.keys) = m
            /\ 1 \in DOMAIN call.keys
            /\ \E code : call.keys[1] = SeriesKey(i, code, call.dims, call.ask.adjusted)
<1> DEFINE i == call.ask.indicator
<1>1. PICK top \in Nat : DOMAIN call.ask.places = 1 .. top /\ top <= 1
  BY RepliedTo
<1>2. call = Plan(open, call.ask) /\ ~call.refused /\ reply.of = GetIndicator(open, call, got)
  BY RepliedTo
<1>3. PlanIsFull(call, call.ask)
  BY <1>1, <1>2, PlanHas
<1>4. NationalScope(i) \/ call.rows[1].status = "ok"
  BY <1>2 DEF GetIndicator, Unanswered
<1>5. /\ reply.of.observations = SeriesOf(i, call.keys, 1, Options(call.ask), got).observations
      /\ reply.of.latest = LatestOf(SeriesOf(i, call.keys, 1, Options(call.ask), got))
      /\ reply.of.notes = HistoryNote(call.ask) \cup SeriesOf(i, call.keys, 1, Options(call.ask), got).notes
  <2>1. \A row, series : LET x == GetAnswer(call, row, series) IN
          /\ x.observations = series.observations /\ x.latest = LatestOf(series)
          /\ x.notes = HistoryNote(call.ask) \cup series.notes
    BY DEF GetAnswer, Answered
  <2>2. \E row : reply.of = GetAnswer(call, row, SeriesOf(i, call.keys, 1, Options(call.ask), got))
    BY <1>2, <1>4 DEF GetIndicator
  <2> QED BY ONLY <2>1, <2>2
<1>6. 1 \in DOMAIN call.keys /\ \E code : call.keys[1] = SeriesKey(i, code, call.dims, call.ask.adjusted)
  <2>1. CASE NationalScope(i)
    <3>1. call.keys = << PlanKey(call, call.ask, NationCode) >>
      BY <1>3, <2>1 DEF PlanIsFull
    <3>2. 1 \in DOMAIN call.keys /\ call.keys[1] = PlanKey(call, call.ask, NationCode)
      BY <3>1
    <3> QED BY <3>2 DEF PlanKey
  <2>2. CASE ~NationalScope(i)
    <3>1. call.ask.places # <<>>
      BY <2>2, RepliedTo DEF Refused, Tool
    <3>2. top = 1
      <4>1. PICK n \in DOMAIN Asks : call.ask = Asks[n]
        BY RepliedTo, AskOf
      <4>2. call.ask.places \in Seq(ToSet(call.ask.places))
        BY <4>1, RepliedTo, AnswersAssumption DEF Tool
      <4>3. Len(call.ask.places) # 0
        BY <3>1, <4>2
      <4> QED BY <1>1, <4>2, <4>3
    <3>3. 1 \in DOMAIN call.rows
      BY <1>1, <1>3, <3>2 DEF PlanIsFull
    <3>4. PICK k \in DOMAIN call.keys : call.keys[k] = PlanKey(call, call.ask, call.rows[1].code)
      BY <1>3, <1>4, <2>2, <3>3 DEF PlanIsFull
    <3>5. \A m \in DOMAIN call.keys : call.keys[m] = PlanKey(call, call.ask, call.rows[1].code)
      BY <1>1, <1>3, <2>2, <3>2 DEF PlanIsFull
    <3>6. 1 \in DOMAIN call.keys
      BY <1>3, <3>4 DEF PlanIsFull
    <3> QED BY <3>5, <3>6 DEF PlanKey
  <2> QED BY <2>1, <2>2
<1> QED BY <1>3, <1>5, <1>6 DEF PlanIsFull

\* The years of a range, newest first.
ListsYears(Y, a, b) ==
  /\ \E m \in Nat : DOMAIN Y = 1 .. m
  /\ \A n \in DOMAIN Y : Y[n] \in a .. b
  /\ \A y \in a .. b : \E n \in DOMAIN Y : Y[n] = y

LEMMA YearsListed ==
  ASSUME NEW a \in Int, NEW b \in Int
  PROVE  ListsYears(YearsDown(a, b), a, b)
<1> DEFINE m == IF b < a THEN 0 ELSE b - a + 1
           Y == YearsDown(a, b)
<1>1. m \in Nat /\ DOMAIN Y = 1 .. m /\ \A n \in DOMAIN Y : Y[n] = b - n + 1
  BY DEF YearsDown
<1>2. \A n \in DOMAIN Y : Y[n] \in a .. b
  BY <1>1
<1>3. ASSUME NEW y \in a .. b PROVE \E n \in DOMAIN Y : Y[n] = y
  <2>1. b - y + 1 \in 1 .. m
    OBVIOUS
  <2>2. Y[b - y + 1] = y
    BY <1>1, <2>1
  <2> QED BY <1>1, <2>1, <2>2
<1> QED BY <1>1, <1>2, <1>3 DEF ListsYears

\* When nothing is next, the reads of every series have been answered.
LEMMA ReadsAnswered ==
  ASSUME NEW first, NEW reads, NEW T, first \in Seq(T), reads \in Seq(T), NEW g,
         FirstOpen(first \o reads, g) = {}
  PROVE  /\ \A n \in DOMAIN reads : reads[n] \in DOMAIN g
         /\ \A n \in DOMAIN first : first[n] \in DOMAIN g
<1>1. \A n \in DOMAIN (first \o reads) : (first \o reads)[n] \in DOMAIN g
  BY AllAnswered
<1>2. \A n \in DOMAIN reads : /\ Len(first) + n \in DOMAIN (first \o reads)
                              /\ (first \o reads)[Len(first) + n] = reads[n]
  OBVIOUS
<1>3. \A n \in DOMAIN first : n \in DOMAIN (first \o reads) /\ (first \o reads)[n] = first[n]
  OBVIOUS
<1> QED BY <1>1, <1>2, <1>3

\* The years a series shows.
YearsOf(s) == {x.year : x \in ToSet(s.observations)}

\* The reads are of these years: a page of the year, or the year with no page.
HudDated(i, key, o, g, Y) ==
  LET reads == HudReads(i, key, o, g) IN
  /\ DOMAIN reads = DOMAIN Y
  /\ \A n \in DOMAIN Y : IF Observed(i, key, g, reads[n])
                         THEN (CHOOSE p \in g[reads[n]] : TRUE).year = Y[n]
                         ELSE reads[n].year = Y[n]

\* What RangeIsKept says of a series shown.
InRange(i, o, s) ==
  LET seen == YearsOf(s)
  IN /\ seen \subseteq o.start .. o.end \/ \E y : <<"release", y>> \in s.notes
     /\ Hud(i) /\ i \notin ChasMeasures =>
          \A y \in o.start .. o.end :
            \/ y \in seen \/ <<"none", y>> \in s.notes
            \/ \E z : <<"starts", z>> \in s.notes /\ y < z

\* What a HUD series shows of a range, once each read is the page of its year.
LEMMA HudShows ==
  ASSUME NEW i \in HudIndicators \ ChasMeasures, NEW key, NEW o, NEW g, o.explicit,
         o.start \in Int, o.end \in Int, NEW floor \in Int,
         floor = IF i \in DOMAIN PictureFields THEN PictureFloor ELSE HudFloor,
         NEW from \in Int, from = IF o.start < floor THEN floor ELSE o.start,
         NEW Y, Y = YearsDown(from, o.end),
         HudDated(i, key, o, g, Y)
  PROVE  InRange(i, o, HudSeries(i, key, o, g))
<1> DEFINE s == HudSeries(i, key, o, g)
           reads == HudReads(i, key, o, g)
           at == {n \in DOMAIN reads : Observed(i, key, g, reads[n])}
           kept == Keeping(reads, at)
           page(r) == CHOOSE p \in g[r] : TRUE
           unseen == {reads[n].year : n \in {m \in DOMAIN reads : ~Observed(i, key, g, reads[m])}}
           seen == YearsOf(s)
<1>1. /\ DOMAIN s.observations = DOMAIN kept
      /\ \A n \in DOMAIN kept : s.observations[n].year = page(kept[n]).year
      /\ {<<"none", y>> : y \in unseen} \subseteq s.notes
      /\ o.start < floor => <<"starts", floor>> \in s.notes
  <2>1. s.observations = [n \in DOMAIN kept |->
          [year |-> page(kept[n]).year, period |-> Annual, value |-> HudValue(i, page(kept[n]), key.pick)]]
    BY DEF HudSeries
  <2>2. s.notes = (IF o.start < floor THEN {<<"starts", floor>>} ELSE {}) \cup {<<"none", y>> : y \in unseen}
    BY DEF HudSeries
  <2> HIDE DEF s, kept, page, unseen
  <2> QED BY <2>1, <2>2
<1>2. from >= o.start /\ (from = o.start \/ (from = floor /\ o.start < floor))
  OBVIOUS
<1>0. ListsYears(Y, from, o.end)
  BY YearsListed
<1>3. PICK top \in Nat : DOMAIN Y = 1 .. top
  BY ONLY <1>0 DEF ListsYears
<1>4. /\ \A n \in DOMAIN Y : Y[n] \in from .. o.end
      /\ \A y \in from .. o.end : \E n \in DOMAIN Y : Y[n] = y
  BY ONLY <1>0 DEF ListsYears
<1>5. at \in SUBSET Nat /\ IsFiniteSet(at) /\ at \subseteq DOMAIN Y
  <2>1. at \subseteq DOMAIN Y
    BY DEF HudDated
  <2>2. IsFiniteSet(1 .. top) /\ 1 .. top \in SUBSET Nat
    BY ONLY top \in Nat, FS_Interval
  <2> HIDE DEF at
  <2> QED BY ONLY <1>3, <2>1, <2>2, FS_Subset
<1>6. /\ \A k \in DOMAIN kept : \E n \in at : kept[k] = reads[n]
      /\ \A n \in at : \E k \in DOMAIN kept : kept[k] = reads[n]
  <2> HIDE DEF at
  <2> QED BY <1>5, KeepingLists
<1>7. \A n \in DOMAIN Y : IF n \in at THEN page(reads[n]).year = Y[n]
                          ELSE reads[n].year = Y[n] /\ reads[n].year \in unseen
  BY DEF HudDated
<1> HIDE DEF at, kept, unseen, page, s
<1>8. \A y : y \in seen <=> \E k \in DOMAIN kept : y = page(kept[k]).year
  BY <1>1 DEF ToSet, YearsOf
<1> HIDE DEF seen
<1>9. seen \subseteq o.start .. o.end
  <2> SUFFICES ASSUME NEW y \in seen PROVE y \in o.start .. o.end
    OBVIOUS
  <2>1. PICK n \in at : y = page(reads[n]).year
    BY <1>6, <1>8
  <2>2. y \in from .. o.end
    BY <1>4, <1>5, <1>7, <2>1
  <2> QED BY <1>2, <2>2
<1>10. ASSUME NEW y \in o.start .. o.end
       PROVE  \/ y \in seen \/ <<"none", y>> \in s.notes
              \/ <<"starts", floor>> \in s.notes /\ y < floor
  <2>1. CASE y < from
    BY <1>1, <1>2, <2>1
  <2>2. CASE y \in from .. o.end
    <3>1. PICK n \in DOMAIN Y : Y[n] = y
      BY <1>4, <2>2
    <3>2. CASE n \in at
      BY <1>6, <1>7, <1>8, <3>1, <3>2
    <3>3. CASE n \notin at
      BY <1>1, <1>7, <3>1, <3>3
    <3> QED BY <3>2, <3>3
  <2> QED BY <1>2, <2>1, <2>2
<1> QED BY <1>9, <1>10 DEF s, seen, InRange

\* Every request was answered by an agency, at one time or another.
HudRead(g) == \A r \in DOMAIN g : \E when \in 0 .. released : g[r] = HudAnswer(r, when)
BeaRead(g) == \A r \in DOMAIN g : \E when \in 0 .. released : g[r] = BeaAnswer(r, when)

\* A HUD page read for a year is of that year.
LEMMA HudPageRead ==
  ASSUME NEW g, NEW r, r \in DOMAIN g, NEW when, g[r] = HudAnswer(r, when), g[r] # {}
  PROVE  LET p == CHOOSE q \in g[r] : TRUE IN
         p.year \in Nat \ {0} /\ (r.year # Latest => p.year = r.year)
<1> DEFINE p == CHOOSE q \in g[r] : TRUE
<1>1. p \in g[r]
  OBVIOUS
<1> HIDE DEF p
<1>2. p \in HudPages /\ (r.year # Latest => p.year = r.year)
  BY <1>1 DEF HudAnswer, HudVisible
<1> QED BY <1>2, HudAssumption DEF p

\* Every read of a range is answered, and its page is of its year.
LEMMA HudReadsYears ==
  ASSUME NEW i \in HudIndicators \ ChasMeasures, NEW key, NEW o, NEW g, o.explicit,
         o.start \in Int, o.end \in Int, HudNext(i, key, o, g) = {}, HudRead(g),
         NEW floor \in Int, floor = IF i \in DOMAIN PictureFields THEN PictureFloor ELSE HudFloor,
         NEW from \in Int, from = IF o.start < floor THEN floor ELSE o.start,
         NEW Y, Y = YearsDown(from, o.end)
  PROVE  HudDated(i, key, o, g, Y)
<1> DEFINE reads == HudReads(i, key, o, g)
           page(r) == CHOOSE p \in g[r] : TRUE
           Dated(n) == IF Observed(i, key, g, reads[n])
                       THEN page(reads[n]).year = Y[n] ELSE reads[n].year = Y[n]
           latest0 == AreaRequest(Areas[i], key.entity, Latest)
           first == IF i \in DOMAIN Areas /\ i # "fair_market_rent" /\ reads # <<>>
                    THEN << latest0 >> ELSE <<>>
           T == {reads[n] : n \in DOMAIN reads} \cup {latest0}
<1> SUFFICES DOMAIN reads = DOMAIN Y /\ \A n \in DOMAIN Y : Dated(n)
  BY DEF HudDated
<1>0. from >= floor
  OBVIOUS
<1>1. /\ \E m \in Nat : DOMAIN Y = 1 .. m
      /\ \A n \in DOMAIN Y : Y[n] \in from .. o.end
  <2>1. ListsYears(Y, from, o.end)
    BY YearsListed
  <2> QED BY ONLY <2>1 DEF ListsYears
<1>2. \A n \in DOMAIN Y : Y[n] \in Nat \ {0}
  BY <1>0, <1>1 DEF PictureFloor, HudFloor
<1>3. DOMAIN reads = DOMAIN Y => /\ \A n \in DOMAIN Y : reads[n] \in DOMAIN g
                                 /\ \A n \in DOMAIN first : first[n] \in DOMAIN g
  <2> SUFFICES ASSUME DOMAIN reads = DOMAIN Y
               PROVE  /\ \A n \in DOMAIN Y : reads[n] \in DOMAIN g
                      /\ \A n \in DOMAIN first : first[n] \in DOMAIN g
    OBVIOUS
  <2>1. reads \in Seq(T)
    <3>1. \A z : (\E m \in Nat : DOMAIN z = 1 .. m) /\ z = [n \in DOMAIN z |-> z[n]] => z \in Seq({z[n] : n \in DOMAIN z})
      OBVIOUS
    <3>2. reads = [n \in DOMAIN reads |-> reads[n]]
      BY DEF HudReads, IncomeReads
    <3> HIDE DEF reads
    <3>3. reads \in Seq({reads[n] : n \in DOMAIN reads})
      BY <1>1, <3>1, <3>2
    <3> QED BY <3>3
  <2>2. first \in Seq(T)
    <3>1. latest0 \in T
      OBVIOUS
    <3> HIDE DEF reads, T, latest0
    <3> QED BY <3>1
  <2>3. FirstOpen(first \o reads, g) = {}
    BY DEF HudNext
  <2> HIDE DEF first, reads, T
  <2> QED BY <2>1, <2>2, <2>3, ReadsAnswered
<1>4. ASSUME NEW n \in DOMAIN Y, DOMAIN reads = DOMAIN Y, reads[n].year = Y[n]
      PROVE  Dated(n)
  <2> HIDE DEF reads
  <2>1. reads[n] \in DOMAIN g /\ reads[n].year # Latest
    BY <1>2, <1>3, <1>4 DEF Latest
  <2>2. PICK when : g[reads[n]] = HudAnswer(reads[n], when)
    BY <2>1 DEF HudRead
  <2>3. g[reads[n]] # {} => page(reads[n]).year = reads[n].year
    BY <2>1, <2>2, HudPageRead
  <2>4. Observed(i, key, g, reads[n]) => g[reads[n]] # {}
    BY DEF Observed
  <2> QED BY <1>4, <2>3, <2>4
<1>5. CASE i = "fair_market_rent"
  <2>1. FiscalYears(o) = Y
    BY <1>5 DEF FiscalYears, PictureFields, HudFloor
  <2>2. reads = [n \in DOMAIN Y |-> AreaRequest("fmr", key.entity, Y[n])]
    BY <1>5, <2>1 DEF HudReads
  <2>3. \A n \in DOMAIN Y : reads[n].year = Y[n]
    BY <2>2 DEF AreaRequest
  <2> QED BY <1>4, <2>2, <2>3
<1>6. CASE i \in DOMAIN PictureFields
  <2>1. CandidateYears(o) = Y
    BY <1>6 DEF CandidateYears
  <2>2. reads = [n \in DOMAIN Y |-> PictureRequest(key.entity, Y[n])]
    BY <1>6, <2>1 DEF HudReads, PictureFields, Areas, ChasMeasures
  <2>3. \A n \in DOMAIN Y : reads[n].year = Y[n]
    BY <2>2 DEF PictureRequest
  <2> QED BY <1>4, <2>2, <2>3
<1>7. CASE i \in DOMAIN Areas \ {"fair_market_rent"}
  <2> DEFINE latest == AreaRequest(Areas[i], key.entity, Latest)
             now == IF latest \in DOMAIN g /\ g[latest] # {} THEN page(latest).year ELSE Latest
  <2>1. FiscalYears(o) = Y
    BY <1>7 DEF FiscalYears, PictureFields, Areas, HudFloor
  <2>2. reads = [n \in DOMAIN Y |-> IF Y[n] \in {Latest, now} THEN latest
                                    ELSE AreaRequest(Areas[i], key.entity, Y[n])]
    BY <1>7, <2>1 DEF HudReads, IncomeReads
  <2>3. DOMAIN reads = DOMAIN Y
    BY <2>2
  <2> HIDE DEF reads
  <2>4. ASSUME NEW n \in DOMAIN Y, Y[n] = now PROVE Dated(n)
    <3>1. latest \in DOMAIN g /\ g[latest] # {} /\ page(latest).year = Y[n]
      BY <1>2, <2>4 DEF Latest
    <3>2. reads[n] = latest
      BY <2>2, <2>4
    <3>3. Observed(i, key, g, latest)
      BY <1>7, <3>1 DEF Observed, PictureFields, Areas
    <3> QED BY <3>1, <3>2, <3>3
  <2>5. ASSUME NEW n \in DOMAIN Y, Y[n] # now PROVE Dated(n)
    <3>1. reads[n] = AreaRequest(Areas[i], key.entity, Y[n])
      BY <1>2, <2>2, <2>5 DEF Latest
    <3>2. reads[n].year = Y[n]
      BY <3>1 DEF AreaRequest
    <3> QED BY <1>4, <2>3, <3>2
  <2> QED BY <2>3, <2>4, <2>5
<1> QED BY <1>5, <1>6, <1>7 DEF HudIndicators

\* The first series of a HUD call has nothing left to read.
LEMMA HudDone ==
  ASSUME NEW i, NEW keys, NEW o, NEW g, HudWanted(i, keys, o, g) = {},
         NEW top \in Nat, DOMAIN keys = 1 .. top, NEW k \in DOMAIN keys
  PROVE  HudNext(i, keys[k], o, g) = {}
<1> DEFINE busy == {n \in DOMAIN keys : HudNext(i, keys[n], o, g) # {}}
<1>1. CASE i \in DOMAIN Areas /\ i # "fair_market_rent"
  <2>1. HudWanted(i, keys, o, g) = IF busy = {} THEN {} ELSE HudNext(i, keys[Min(busy)], o, g)
    BY <1>1 DEF HudWanted
  <2>2. busy # {} => Min(busy) \in busy
    <3>1. busy \in SUBSET Nat
      OBVIOUS
    <3> HIDE DEF busy
    <3> QED BY <3>1, LeastOne
  <2>3. \A n \in busy : HudNext(i, keys[n], o, g) # {}
    OBVIOUS
  <2> HIDE DEF busy
  <2>4. busy = {}
    BY <2>1, <2>2, <2>3
  <2> QED BY <2>4 DEF busy
<1>2. CASE ~(i \in DOMAIN Areas /\ i # "fair_market_rent")
  BY <1>2 DEF HudWanted
<1> QED BY <1>1, <1>2

\* HUD: a page of every year of the range, or its absence, and no other.
LEMMA HudRange ==
  ASSUME NEW i \in HudIndicators, NEW key, NEW o, NEW g, o.explicit, o.start \in Int, o.end \in Int,
         HudNext(i, key, o, g) = {}, HudRead(g)
  PROVE  InRange(i, o, HudSeries(i, key, o, g))
<1>1. CASE i \in ChasMeasures
  <2> DEFINE s == HudSeries(i, key, o, g)
             reads == HudReads(i, key, o, g)
             kept == Keeping(reads, {n \in DOMAIN reads : Observed(i, key, g, reads[n])})
             year(n) == (CHOOSE p \in g[kept[n]] : TRUE).year
  <2>1. /\ DOMAIN s.observations = DOMAIN kept
        /\ {<<"release", year(n)>> : n \in DOMAIN kept} \subseteq s.notes
    BY <1>1 DEF HudSeries
  <2> HIDE DEF s, kept
  <2>2. CASE DOMAIN kept = {}
    <3>1. YearsOf(s) = {}
      BY <2>1, <2>2 DEF ToSet, YearsOf
    <3> QED BY <1>1, <3>1 DEF InRange, s
  <2>3. CASE DOMAIN kept # {}
    <3>1. PICK n \in DOMAIN kept : TRUE
      BY <2>3
    <3>2. <<"release", year(n)>> \in s.notes
      BY <2>1, <3>1
    <3> QED BY <1>1, <3>2 DEF InRange, s
  <2> QED BY <2>2, <2>3
<1>2. CASE i \notin ChasMeasures
  <2> DEFINE floor == IF i \in DOMAIN PictureFields THEN PictureFloor ELSE HudFloor
             from == IF o.start < floor THEN floor ELSE o.start
             Y == YearsDown(from, o.end)
  <2>1. floor \in Int /\ floor = IF i \in DOMAIN PictureFields THEN PictureFloor ELSE HudFloor
    BY DEF PictureFloor, HudFloor
  <2>2. from \in Int /\ from = IF o.start < floor THEN floor ELSE o.start
    BY <2>1
  <2> HIDE DEF floor, from
  <2>0. Y = YearsDown(from, o.end)
    OBVIOUS
  <2> HIDE DEF Y
  <2>3. HudDated(i, key, o, g, Y)
    BY <1>2, <2>0, <2>1, <2>2, HudReadsYears
  <2> QED BY <1>2, <2>0, <2>1, <2>2, <2>3, HudShows
<1> QED BY <1>1, <1>2

\* The figures of one area, line and table, newest first.
LEMMA BeaListed ==
  ASSUME NEW rows, rows \in SUBSET BeaRows,
         \A r, s \in rows : r.table = s.table /\ r.line = s.line /\ r.geo = s.geo
  PROVE  LET all == NewestFirst({BeaObservation(r) : r \in rows}) IN
         /\ \E m \in Nat : DOMAIN all = 1 .. m
         /\ \A k \in DOMAIN all : \E r \in rows : all[k] = BeaObservation(r)
         /\ \A r \in rows : \E k \in DOMAIN all : all[k] = BeaObservation(r)
         /\ rows # {} => all # <<>> /\ \A r \in rows : ~Newer(BeaObservation(r), all[1])
         /\ all # <<>> => 1 \in DOMAIN all
<1> DEFINE f == [r \in rows |-> BeaObservation(r)]
           S == {BeaObservation(r) : r \in rows}
<1>1. IsFiniteSet(S)
  <2>1. S = {f[r] : r \in rows}
    OBVIOUS
  <2>2. IsFiniteSet(rows)
    BY BeaAssumption, FS_Subset
  <2>3. DOMAIN f = rows /\ f = [r \in rows |-> f[r]]
    OBVIOUS
  <2> HIDE DEF f, S
  <2> QED BY <2>1, <2>2, <2>3, ImagesFinite
<1>2. \A r \in rows : BeaObservation(r).year = r.year /\ BeaObservation(r).period = r.quarter
  BY DEF BeaObservation
<1>3. \A x \in S : x.year \in Int /\ x.period \in Int
  BY <1>2, BeaAssumption
<1>4. \A x, y \in S : x.year = y.year /\ x.period = y.period => x = y
  <2> SUFFICES ASSUME NEW r \in rows, NEW q \in rows,
                      BeaObservation(r).year = BeaObservation(q).year,
                      BeaObservation(r).period = BeaObservation(q).period
               PROVE  BeaObservation(r) = BeaObservation(q)
    OBVIOUS
  <2>1. r = q
    BY <1>2, BeaAssumption
  <2> QED BY <2>1
<1>5. /\ \A r \in rows : BeaObservation(r) \in S
      /\ \A x \in S : \E r \in rows : x = BeaObservation(r)
  OBVIOUS
<1> HIDE DEF S
<1>6. /\ Cardinality(S) \in Nat /\ DOMAIN NewestFirst(S) = 1 .. Cardinality(S)
      /\ \A k \in DOMAIN NewestFirst(S) : NewestFirst(S)[k] \in S
      /\ \A x \in S : \E k \in DOMAIN NewestFirst(S) : NewestFirst(S)[k] = x
      /\ S # {} => NewestFirst(S) # <<>> /\ \A x \in S : ~Newer(x, NewestFirst(S)[1])
      /\ NewestFirst(S) # <<>> => 1 \in DOMAIN NewestFirst(S)
  BY <1>1, <1>3, <1>4, NewestListed
<1>7. rows # {} => S # {}
  BY <1>5
<1> QED BY <1>5, <1>6, <1>7 DEF S

\* The request of a key has been answered: its line, its table, its area.
LEMMA BeaAsked ==
  ASSUME NEW i, NEW keys, NEW top \in Nat, DOMAIN keys = 1 .. top, NEW o, NEW g,
         BeaWanted(i, keys, o, g) = {}, ~Skipped(i, o), NEW n \in DOMAIN keys, keys[n].table # "none"
  PROVE  RequestOf(i, keys, n, o) \in DOMAIN g
<1> DEFINE at == {m \in DOMAIN keys : keys[m].table # "none"}
           asks == [m \in DOMAIN keys |-> RequestOf(i, keys, m, o)]
<1>1. at \in SUBSET Nat /\ IsFiniteSet(at) /\ n \in at
  <2>1. IsFiniteSet(1 .. top) /\ at \in SUBSET (1 .. top) /\ 1 .. top \in SUBSET Nat
    BY FS_Interval
  <2>2. n \in at
    OBVIOUS
  <2> HIDE DEF at
  <2> QED BY <2>1, <2>2, FS_Subset
<1>2. FirstOpen(Keeping(asks, at), g) = {}
  BY DEF BeaWanted
<1>3. asks[n] = RequestOf(i, keys, n, o)
  OBVIOUS
<1> HIDE DEF at, asks
<1>4. PICK k \in DOMAIN Keeping(asks, at) : Keeping(asks, at)[k] = asks[n]
  BY <1>1, KeepingLists
<1>5. Keeping(asks, at)[k] \in DOMAIN g
  BY <1>2, <1>4, AllAnswered
<1> QED BY <1>3, <1>4, <1>5

\* What BEA's rows of a series are.
BeaRowsOf(i, keys, n, o, g) ==
  IF Skipped(i, o) \/ keys[n].table = "none" THEN {}
  ELSE {r \in g[RequestOf(i, keys, n, o)] : r.geo = keys[n].geo}

BeaFits(rows, key) ==
  /\ rows \in SUBSET BeaRows
  /\ \A r \in rows : r.release <= released
  /\ \A r \in rows : r.table = key.table /\ r.line = key.line /\ r.geo = key.geo
RowsWithin(rows, a, b) == a .. b # {Latest} => \A r \in rows : r.year \in a .. b

LEMMA BeaRowsRead ==
  ASSUME NEW i, NEW keys, NEW top \in Nat, DOMAIN keys = 1 .. top, NEW o, NEW g,
         BeaWanted(i, keys, o, g) = {}, BeaRead(g), released \in Nat,
         NEW n \in DOMAIN keys
  PROVE  LET rows == BeaRowsOf(i, keys, n, o, g) IN
         /\ BeaFits(rows, keys[n])
         /\ o.explicit => RowsWithin(rows, AskedFrom(i, keys[n].table, o), o.end)
<1> DEFINE rows == BeaRowsOf(i, keys, n, o, g)
           ask == RequestOf(i, keys, n, o)
<1>1. CASE Skipped(i, o) \/ keys[n].table = "none"
  BY <1>1 DEF BeaRowsOf, BeaFits, RowsWithin
<1>2. CASE ~Skipped(i, o) /\ keys[n].table # "none"
  <2>1. ask \in DOMAIN g
    BY <1>2, BeaAsked
  <2>2. PICK when \in 0 .. released : g[ask] = BeaAnswer(ask, when)
    BY <2>1 DEF BeaRead
  <2>3. /\ ask.table = keys[n].table /\ ask.line = keys[n].line
        /\ o.explicit => ask.years = AskedFrom(i, keys[n].table, o) .. o.end
    BY DEF RequestOf, BeaRequest
  <2>4. rows = {r \in g[ask] : r.geo = keys[n].geo}
    BY <1>2 DEF BeaRowsOf
  <2> HIDE DEF ask, rows
  <2>5. \A r \in g[ask] : /\ r \in BeaRows /\ r.table = ask.table /\ r.line = ask.line
                          /\ ask.years = {Latest} \/ r.year \in ask.years
                          /\ r.release <= when
    BY <2>2 DEF BeaAnswer, BeaVisible
  <2>6. \A r \in g[ask] : r.release <= released
    BY <2>5, BeaAssumption
  <2> QED BY <2>3, <2>4, <2>5, <2>6 DEF rows, BeaFits, RowsWithin
<1> QED BY <1>1, <1>2

\* What a BEA series shows: its rows, or the newest of them.
ShowsRows(observations, rows) ==
  /\ \E m \in Nat : DOMAIN observations = 1 .. m
  /\ observations # <<>> => 1 \in DOMAIN observations
  /\ \A x \in ToSet(observations) : \E r \in rows : x = BeaObservation(r)
  /\ rows # {} => observations # <<>> /\ \A r \in rows : ~Newer(BeaObservation(r), observations[1])

LEMMA BeaShows ==
  ASSUME NEW i, NEW keys, NEW n, NEW o, NEW g, BeaFits(BeaRowsOf(i, keys, n, o, g), keys[n])
  PROVE  ShowsRows(BeaSeries(i, keys, n, o, g).observations, BeaRowsOf(i, keys, n, o, g))
<1> DEFINE rows == BeaRowsOf(i, keys, n, o, g)
           all == NewestFirst({BeaObservation(r) : r \in rows})
           one == i \in DOMAIN IncomeLines /\ ~o.explicit /\ Len(all) > 1
           s == BeaSeries(i, keys, n, o, g)
<1>1. s.observations = IF one THEN SubSeq(all, 1, 1) ELSE all
  BY DEF BeaSeries, BeaRowsOf
<1>2. /\ \E m \in Nat : DOMAIN all = 1 .. m
      /\ \A k \in DOMAIN all : \E r \in rows : all[k] = BeaObservation(r)
      /\ rows # {} => all # <<>> /\ \A r \in rows : ~Newer(BeaObservation(r), all[1])
      /\ all # <<>> => 1 \in DOMAIN all
  BY BeaListed DEF BeaFits
<1>3. all = [k \in DOMAIN all |-> all[k]]
  <2> DEFINE S == {BeaObservation(r) : r \in rows}
             Nth(m) == CHOOSE x \in S :
               Cardinality({y \in S : y.year > x.year \/ (y.year = x.year /\ y.period > x.period)}) = m - 1
  <2>1. NewestFirst(S) = [m \in 1 .. Cardinality(S) |-> Nth(m)]
    BY DEF NewestFirst
  <2> HIDE DEF Nth, S
  <2>2. NewestFirst(S) = [k \in DOMAIN NewestFirst(S) |-> NewestFirst(S)[k]]
    BY <2>1
  <2> QED BY <2>2 DEF S
<1> HIDE DEF s, all, rows
<1>4. CASE ~one
  <2>1. s.observations = all
    BY <1>1, <1>4
  <2> QED BY <1>2, <2>1 DEF ToSet, s, rows, ShowsRows
<1>5. CASE one
  <2>1. all \in Seq({all[k] : k \in DOMAIN all})
    <3>1. \A z : (\E m \in Nat : DOMAIN z = 1 .. m) /\ z = [k \in DOMAIN z |-> z[k]] => z \in Seq({z[k] : k \in DOMAIN z})
      OBVIOUS
    <3> QED BY <1>2, <1>3, <3>1
  <2>2. Len(all) > 1 /\ Len(all) \in Nat /\ DOMAIN all = 1 .. Len(all)
    BY <1>5, <2>1
  <2>3. s.observations = SubSeq(all, 1, 1)
    BY <1>1, <1>5
  <2>4. DOMAIN SubSeq(all, 1, 1) = 1 .. 1 /\ SubSeq(all, 1, 1)[1] = all[1] /\ SubSeq(all, 1, 1) # <<>>
    BY <2>1, <2>2
  <2> HIDE DEF one
  <2>5. 1 \in DOMAIN all
    BY <2>2
  <2> QED BY <1>2, <2>3, <2>4, <2>5 DEF ToSet, s, rows, ShowsRows
<1> QED BY <1>4, <1>5

\* BEA: only years of the range.
LEMMA BeaRange ==
  ASSUME NEW i \in BeaIndicators, NEW keys, NEW top \in Nat, DOMAIN keys = 1 .. top, NEW o, NEW g,
         o.explicit, o.start \in Int, o.end \in Int,
         \A a \in Int : a >= o.start => a .. o.end # {Latest},
         BeaWanted(i, keys, o, g) = {}, BeaRead(g), released \in Nat,
         NEW n \in DOMAIN keys
  PROVE  YearsOf(BeaSeries(i, keys, n, o, g)) \subseteq o.start .. o.end
<1> DEFINE rows == BeaRowsOf(i, keys, n, o, g)
           from == AskedFrom(i, keys[n].table, o)
           s == BeaSeries(i, keys, n, o, g)
<1>1. from \in Int /\ from >= o.start
  BY DEF AskedFrom, Later, RppFloor, CountyGdpFloor
<1>2. from .. o.end # {Latest}
  <2> HIDE DEF from
  <2> QED BY <1>1
<1>3. BeaFits(rows, keys[n]) /\ RowsWithin(rows, from, o.end)
  BY BeaRowsRead
<1>4. \A x \in ToSet(s.observations) : \E r \in rows : x = BeaObservation(r)
  <2>1. ShowsRows(s.observations, rows)
    BY <1>3, BeaShows
  <2> HIDE DEF s, rows
  <2> QED BY <2>1 DEF ShowsRows
<1>5. \A r \in rows : BeaObservation(r).year = r.year
  BY DEF BeaObservation
<1> HIDE DEF rows, from
<1>6. \A r \in rows : r.year \in o.start .. o.end
  BY <1>1, <1>2, <1>3 DEF RowsWithin
<1> QED BY <1>4, <1>5, <1>6 DEF YearsOf

\* BLS's figures of a series are of the years asked for.
BlsRead(g) == \A r \in DOMAIN g : \E when \in 0 .. released : g[r] = BlsAnswer(r, when)
BlsObservation(r) == [year |-> r.year, period |-> r.period, value |-> IF r.marked THEN Null ELSE r.value]
ShowsBls(observations, rows) ==
  /\ \E m \in Nat : DOMAIN observations = 1 .. m
  /\ observations # <<>> => 1 \in DOMAIN observations
  /\ \A x \in ToSet(observations) : \E r \in rows : x = BlsObservation(r)
  /\ rows # {} => observations # <<>> /\ \A r \in rows : ~Newer(BlsObservation(r), observations[1])

LEMMA BlsCounted ==
  ASSUME NEW rows, rows \in SUBSET BlsRows, \A r, s \in rows : r.series = s.series
  PROVE  ShowsBls(NewestFirst({BlsObservation(r) : r \in rows}), rows)
<1> DEFINE f == [r \in rows |-> BlsObservation(r)]
           S == {BlsObservation(r) : r \in rows}
<1>1. IsFiniteSet(S)
  <2>1. S = {f[r] : r \in rows}
    OBVIOUS
  <2>2. IsFiniteSet(rows)
    BY BlsAssumption, FS_Subset
  <2>3. DOMAIN f = rows /\ f = [r \in rows |-> f[r]]
    OBVIOUS
  <2> HIDE DEF f, S
  <2> QED BY <2>1, <2>2, <2>3, ImagesFinite
<1>2. \A r \in rows : BlsObservation(r).year = r.year /\ BlsObservation(r).period = r.period
  BY DEF BlsObservation
<1>3. \A x \in S : x.year \in Int /\ x.period \in Int
  BY <1>2, BlsAssumption
<1>4. \A x, y \in S : x.year = y.year /\ x.period = y.period => x = y
  <2> SUFFICES ASSUME NEW r \in rows, NEW q \in rows,
                      BlsObservation(r).year = BlsObservation(q).year,
                      BlsObservation(r).period = BlsObservation(q).period
               PROVE  BlsObservation(r) = BlsObservation(q)
    OBVIOUS
  <2>1. r = q
    BY <1>2, BlsAssumption
  <2> QED BY <2>1
<1>5. /\ \A r \in rows : BlsObservation(r) \in S
      /\ \A x \in S : \E r \in rows : x = BlsObservation(r)
  OBVIOUS
<1> HIDE DEF S
<1>6. /\ Cardinality(S) \in Nat /\ DOMAIN NewestFirst(S) = 1 .. Cardinality(S)
      /\ \A k \in DOMAIN NewestFirst(S) : NewestFirst(S)[k] \in S
      /\ S # {} => NewestFirst(S) # <<>> /\ \A x \in S : ~Newer(x, NewestFirst(S)[1])
      /\ NewestFirst(S) # <<>> => 1 \in DOMAIN NewestFirst(S)
  BY <1>1, <1>3, <1>4, NewestListed
<1>7. rows # {} => S # {}
  BY <1>5
<1>8. ShowsBls(NewestFirst(S), rows)
  BY <1>5, <1>6, <1>7 DEF ShowsBls, ToSet
<1> QED BY <1>8 DEF S

\* The rows of a BLS series are its own, of the years asked for.
BlsRowsOf(keys, n, o, g) ==
  {r \in g[BlsBatches(keys, o.start .. o.end)[((n - 1) \div SeriesPerRequest) + 1]] : r.series = keys[n]}

LEMMA BlsShows ==
  ASSUME NEW i, NEW keys, NEW top \in Nat, DOMAIN keys = 1 .. top, Len(keys) = top, NEW o, NEW g,
         BlsWanted(keys, o, g) = {}, BlsRead(g), released \in Nat, NEW n \in DOMAIN keys
  PROVE  LET rows == BlsRowsOf(keys, n, o, g) IN
         /\ rows \in SUBSET BlsRows
         /\ \A r \in rows : r.series = keys[n] /\ r.year \in o.start .. o.end /\ r.release <= released
         /\ ShowsBls(BlsSeries(i, keys, n, o, g).observations, rows)
<1> DEFINE rows == BlsRowsOf(keys, n, o, g)
           years == o.start .. o.end
           b == ((n - 1) \div SeriesPerRequest) + 1
           batches == BlsBatches(keys, years)
<1>1. b \in DOMAIN batches /\ batches[b].years = years
  <2> HIDE DEF years
  <2> QED BY Batched
<1>2. batches[b] \in DOMAIN g
  <2>1. FirstOpen(batches, g) = {}
    BY DEF BlsWanted
  <2> HIDE DEF batches, b
  <2> QED BY <1>1, <2>1, AllAnswered
<1>3. BlsSeries(i, keys, n, o, g).observations = NewestFirst({BlsObservation(r) : r \in rows})
  BY DEF BlsSeries, BlsRowsOf, BlsObservation
<1>4. rows = {r \in g[batches[b]] : r.series = keys[n]}
  BY DEF BlsRowsOf
<1> HIDE DEF rows, b, batches, years
<1>5. PICK when \in 0 .. released : g[batches[b]] = BlsAnswer(batches[b], when)
  BY <1>2 DEF BlsRead
<1>6. rows \in SUBSET BlsRows /\ \A r \in rows : r.series = keys[n] /\ r.year \in years
  BY <1>1, <1>4, <1>5 DEF BlsAnswer, BlsVisible
<1>7. ShowsBls(NewestFirst({BlsObservation(r) : r \in rows}), rows)
  BY <1>6, BlsCounted
<1>8. ShowsBls(BlsSeries(i, keys, n, o, g).observations, rows)
  BY <1>3, <1>7
<1>9. \A r \in rows : r.release <= released
  <2>1. \A r \in rows : r.release \in Nat /\ r.release <= when
    BY <1>4, <1>5, BlsAssumption DEF BlsAnswer, BlsVisible
  <2> QED BY <2>1
<1> QED BY <1>6, <1>8, <1>9 DEF rows, years

\* A period of quarters or of years, after the mark of no number.
QcewPeriod(p, annual) ==
  /\ p = <<p[1], p[2]>> /\ p[1] \in Int /\ p[1] > Null /\ p[2] \in Nat
  /\ p[2] = 0 <=> annual

LEMMA LatestQuarterTyped == LatestQuarter \in Int /\ LatestQuarter >= -16
<1> DEFINE back == IF Today.month > 6 THEN <<Today.year, Today.month - 6>>
                                      ELSE <<Today.year - 1, Today.month + 6>>
           month == IF Today.day > DaysIn(back[1], back[2]) THEN back[2] + 1 ELSE back[2]
<1>1. back[1] \in Int /\ back[2] \in Int /\ back[1] >= -1 /\ back[2] >= 1
  BY QcewAssumption
<1> HIDE DEF back
<1>2. month \in Int /\ month >= 1
  BY <1>1
<1> HIDE DEF month
<1>3. LatestQuarter = 4 * back[1] + (((month - 1) \div 3) + 1) - 1
  BY DEF LatestQuarter, QuarterNumber, back, month
<1>4. (month - 1) \div 3 \in Nat
  BY <1>2
<1> QED BY <1>1, <1>3, <1>4

\* QCEW's periods are of the kind asked for, and those of a range of its years.
LEMMA QcewPeriods ==
  ASSUME NEW o, o.start \in Int, o.end \in Int, NEW annual \in BOOLEAN
  PROVE  LET c == CandidatePeriods(o, annual) IN
         /\ \E m \in Nat : DOMAIN c = 1 .. m
         /\ c = [n \in DOMAIN c |-> c[n]]
         /\ \A n \in DOMAIN c : QcewPeriod(c[n], annual)
         /\ o.explicit => \A n \in DOMAIN c : c[n][1] \in o.start .. o.end
<1> DEFINE year == LatestQuarter \div 4
           end == IF o.end < year THEN o.end ELSE year
           last == IF end < year THEN QuarterNumber(end, 4) ELSE LatestQuarter
           c == CandidatePeriods(o, annual)
           lo == IF o.explicit THEN QcewStart(o) ELSE year - MaxLookback + 1
           hi == IF o.explicit THEN end ELSE year
           from == IF o.explicit THEN QuarterNumber(QcewStart(o), 1) ELSE LatestQuarter - MaxLookback + 1
           to == IF o.explicit THEN last ELSE LatestQuarter
<1>1. LatestQuarter \in Int /\ LatestQuarter >= -16 /\ year \in Int /\ year >= -4
  BY LatestQuarterTyped
<1>2. /\ end \in Int /\ last \in Int /\ end <= o.end /\ last \div 4 <= end
      /\ QcewStart(o) \in Int /\ QcewStart(o) >= o.start /\ QcewStart(o) >= 2014
  <2>1. end \in Int /\ end <= o.end /\ end <= year
    BY <1>1
  <2>2. QcewStart(o) \in Int /\ QcewStart(o) >= o.start /\ QcewStart(o) >= 2014
    BY DEF QcewStart, EarliestQcewYear
  <2>3. last \in Int /\ last \div 4 <= end
    <3>1. CASE end < year
      <4> HIDE DEF year, end
      <4>1. last = 4 * end + 3
        BY <1>1, <2>1, <3>1 DEF QuarterNumber
      <4> HIDE DEF last
      <4> QED BY <2>1, <4>1
    <3>2. CASE ~(end < year)
      BY <1>1, <2>1, <3>2
    <3> QED BY <3>1, <3>2
  <2> QED BY <2>1, <2>2, <2>3
<1> HIDE DEF end, last, year
<1>3. /\ lo \in Int /\ hi \in Int /\ from \in Int /\ to \in Int /\ lo >= -6 /\ from >= -18
      /\ o.explicit => /\ lo >= o.start /\ hi <= o.end
                       /\ from = 4 * lo /\ to \div 4 <= hi
  <2>1. CASE o.explicit
    <3>1. lo = QcewStart(o) /\ hi = end /\ from = QuarterNumber(QcewStart(o), 1) /\ to = last
      BY <2>1
    <3>2. QuarterNumber(QcewStart(o), 1) = 4 * QcewStart(o)
      BY <1>2 DEF QuarterNumber
    <3> HIDE DEF lo, hi, from, to
    <3> QED BY <1>2, <3>1, <3>2
  <2>2. CASE ~o.explicit
    <3>1. lo = year - 2 /\ hi = year /\ from = LatestQuarter - 2 /\ to = LatestQuarter
      BY <1>1, <2>2 DEF MaxLookback
    <3> HIDE DEF lo, hi, from, to
    <3> QED BY <1>1, <2>2, <3>1
  <2> QED BY <2>1, <2>2
<1> DEFINE Y == YearsDown(lo, hi)
           Q == YearsDown(from, to)
<1>4. c = IF annual THEN [n \in DOMAIN Y |-> <<Y[n], 0>>] ELSE [n \in DOMAIN Q |-> QuarterAt(Q[n])]
  BY DEF CandidatePeriods, YearsDown, year, end, last
<1> HIDE DEF lo, hi, from, to
<1>5. ListsYears(Y, lo, hi) /\ ListsYears(Q, from, to)
  BY <1>3, YearsListed
<1> HIDE DEF Y, Q, c
<1>6. CASE annual
  <2>1. c = [n \in DOMAIN Y |-> <<Y[n], 0>>]
    BY <1>4, <1>6
  <2>2. \E m \in Nat : DOMAIN Y = 1 .. m
    BY <1>5 DEF ListsYears
  <2>3. \A n \in DOMAIN Y : Y[n] \in lo .. hi
    BY <1>5 DEF ListsYears
  <2>4. ASSUME NEW y \in lo .. hi PROVE QcewPeriod(<<y, 0>>, annual)
    <3>1. y \in Int /\ y > Null
      BY <1>3 DEF Null
    <3> QED BY <1>6, <3>1 DEF QcewPeriod
  <2>5. ASSUME o.explicit, NEW y \in lo .. hi PROVE y \in o.start .. o.end
    BY <1>3, <2>5
  <2> QED BY <2>1, <2>2, <2>3, <2>4, <2>5 DEF c
<1>7. CASE ~annual
  <2>1. c = [n \in DOMAIN Q |-> QuarterAt(Q[n])]
    BY <1>4, <1>7
  <2>2. \E m \in Nat : DOMAIN Q = 1 .. m
    BY <1>5 DEF ListsYears
  <2>3. \A n \in DOMAIN Q : Q[n] \in from .. to
    BY <1>5 DEF ListsYears
  <2>4. ASSUME NEW q \in from .. to
        PROVE  QcewPeriod(QuarterAt(q), annual) /\ QuarterAt(q)[1] = q \div 4 /\ q \in Int
    <3>1. q \in Int /\ q >= -18
      BY <1>3
    <3>2. q \div 4 \in Int /\ q \div 4 > -1000 /\ (q % 4) + 1 \in Nat /\ (q % 4) + 1 # 0
      BY <3>1
    <3> QED BY <1>7, <3>1, <3>2 DEF QcewPeriod, QuarterAt, Null
  <2>5. ASSUME o.explicit, NEW q \in from .. to PROVE q \div 4 \in o.start .. o.end
    <3>1. q \in Int /\ 4 * lo <= q /\ q <= to /\ to \div 4 <= hi /\ lo >= o.start /\ hi <= o.end
      BY <1>3, <2>5
    <3>2. lo <= q \div 4 /\ q \div 4 <= to \div 4 /\ q \div 4 \in Int
      BY <1>3, <3>1
    <3> QED BY <1>3, <3>1, <3>2
  <2> QED BY <2>1, <2>2, <2>3, <2>4, <2>5 DEF c
<1> QED BY <1>6, <1>7

\* Every file of every window was read, or the deadline stopped it.
QcewRead(g) == \A r \in DOMAIN g : g[r] = TimedOut \/ \E when \in 0 .. released : g[r] = QcewAnswer(r, when)

LEMMA QcewAnswered ==
  ASSUME NEW keys, NEW top \in Nat, DOMAIN keys = 1 .. top, NEW o, NEW g, QcewWanted(keys, o, g) = {},
         NEW k \in DOMAIN keys
  PROVE  \A m \in DOMAIN QcewReads(keys[k], o) : QcewReads(keys[k], o)[m] \in DOMAIN g
<1> DEFINE lists == AllReads(keys, o)
           busy == {n \in DOMAIN lists : FirstOpen(lists[n], g) # {}}
<1>1. DOMAIN lists = 1 .. top /\ lists[k] = QcewReads(keys[k], o)
  BY DEF AllReads
<1>2. IF busy = {} THEN TRUE ELSE FirstOpen(lists[Min(busy)], g) = {}
  <2>1. WantedOf(lists, g) = {}
    BY DEF QcewWanted
  <2> HIDE DEF lists
  <2> QED BY <2>1 DEF WantedOf
<1>3. busy # {} => Min(busy) \in busy
  <2>1. busy \in SUBSET Nat
    BY <1>1
  <2> HIDE DEF busy
  <2> QED BY <2>1, LeastOne
<1>4. busy = {}
  BY <1>2, <1>3
<1> HIDE DEF lists
<1>5. FirstOpen(lists[k], g) = {}
  BY <1>1, <1>4
<1> QED BY <1>1, <1>5, AllAnswered

\* An observation is what is read of a row, in the file of a period.
QcewReadAt(i, key, x, period) ==
  \E r : /\ \E when \in 0 .. released : r \in QcewRow(key, QcewAnswer(QcewRequest(key.area, period), when))
         /\ r.period = period
         /\ x = QcewObservation(i, r)

LEMMA QcewShows ==
  ASSUME NEW i, NEW key, key.annual \in BOOLEAN, NEW o, NEW g, o.start \in Int, o.end \in Int,
         QcewRead(g), \A m \in DOMAIN QcewReads(key, o) : QcewReads(key, o)[m] \in DOMAIN g
  PROVE  LET s == QcewSeries(i, key, o, g)
             c == CandidatePeriods(o, key.annual)
         IN /\ \E m \in Nat : DOMAIN s.observations = 1 .. m
            /\ s.observations # <<>> => 1 \in DOMAIN s.observations
            /\ \A k \in DOMAIN s.observations : \E n \in DOMAIN c : QcewReadAt(i, key, s.observations[k], c[n])
<1> DEFINE all == CandidatePeriods(o, key.annual)
           width == WantedPeriods(o) + MaxLookback
           cut == IF Len(all) < width THEN Len(all) ELSE width
           window == QcewWindow(key, o)
           reads == QcewReads(key, o)
           found == [n \in DOMAIN reads |-> FoundIn(key, g[reads[n]])]
           scan == QcewScan(key, o, g)
           s == QcewSeries(i, key, o, g)
<1>1. (\E m \in Nat : DOMAIN all = 1 .. m) /\ all = [n \in DOMAIN all |-> all[n]]
  BY QcewPeriods
<1>2. window = SubSeq(all, 1, cut)
  BY DEF QcewWindow, Newest
<1>3. width \in Nat
  BY QcewAssumption DEF WantedPeriods, MaxLookback
<1> HIDE DEF all, width, window
<1>4. all \in Seq({all[n] : n \in DOMAIN all})
  BY <1>1
<1>5. Len(all) \in Nat /\ DOMAIN all = 1 .. Len(all) /\ cut \in Nat /\ cut <= Len(all)
  BY <1>3, <1>4
<1>6. DOMAIN window = 1 .. cut /\ \A m \in DOMAIN window : window[m] = all[m] /\ m \in DOMAIN all
  <2>1. \A z, T, x : z \in Seq(T) /\ x \in Nat /\ x <= Len(z) =>
          DOMAIN SubSeq(z, 1, x) = 1 .. x /\ \A m \in 1 .. x : SubSeq(z, 1, x)[m] = z[m]
    OBVIOUS
  <2> HIDE DEF cut
  <2> QED BY <1>2, <1>4, <1>5, <2>1
<1>7. DOMAIN reads = 1 .. cut /\ \A m \in DOMAIN reads : reads[m] = QcewRequest(key.area, all[m])
                                                        /\ m \in DOMAIN all
  <2>1. reads = [m \in DOMAIN window |-> QcewRequest(key.area, window[m])]
    BY DEF QcewReads, RequestsOf, window
  <2> HIDE DEF reads, cut
  <2> QED BY <1>6, <2>1
<1> HIDE DEF cut, reads
<1>8. ASSUME NEW m \in DOMAIN reads, NEW r \in found[m]
      PROVE  QcewReadAt(i, key, QcewObservation(i, r), all[m])
  <2>1. g[reads[m]] # TimedOut /\ r \in QcewRow(key, g[reads[m]])
    <3> DEFINE answered == g[reads[m]]
    <3>1. r \in FoundIn(key, answered)
      BY <1>8
    <3> HIDE DEF answered
    <3>2. answered # TimedOut /\ r \in QcewRow(key, answered)
      BY <3>1 DEF FoundIn
    <3> QED BY <3>2 DEF answered
  <2>2. PICK when \in 0 .. released : g[reads[m]] = QcewAnswer(reads[m], when)
    BY <2>1 DEF QcewRead, reads
  <2>3. r \in QcewRow(key, QcewAnswer(QcewRequest(key.area, all[m]), when))
    BY <1>7, <2>1, <2>2
  <2>4. r \in QcewAnswer(QcewRequest(key.area, all[m]), when)
    BY <2>3 DEF QcewRow
  <2>5. r.period = all[m]
    BY <2>4 DEF QcewAnswer, QcewRequest
  <2> QED BY <2>3, <2>5 DEF QcewReadAt
<1> DEFINE upTo(n) == {m \in 1 .. n : found[m] # {}}
           read == {n \in DOMAIN reads : Cardinality(upTo(n - 1)) < WantedPeriods(o)}
           at == {n \in read : found[n] # {}}
           rows == Keeping(found, at)
<1>9. scan.rows = [k \in DOMAIN rows |-> CHOOSE r \in rows[k] : TRUE]
  BY DEF QcewScan, ScanOf, Scanned, reads
<1>10. s.observations = [n \in DOMAIN scan.rows |-> QcewObservation(i, scan.rows[n])]
  BY DEF QcewSeries, SeriesFrom
<1>11. at \subseteq DOMAIN reads /\ \A n \in at : found[n] # {}
  OBVIOUS
<1> HIDE DEF at, found, scan, s
<1>12. at \in SUBSET Nat /\ IsFiniteSet(at)
  <2>1. IsFiniteSet(1 .. cut) /\ 1 .. cut \in SUBSET Nat
    BY ONLY <1>5, FS_Interval
  <2> QED BY <1>7, <1>11, <2>1, FS_Subset
<1>13. /\ \E m \in Nat : DOMAIN rows = 1 .. m
       /\ \A k \in DOMAIN rows : \E n \in at : rows[k] = found[n]
  BY <1>12, KeepingLists
<1> HIDE DEF rows
<1>14. ASSUME NEW k \in DOMAIN s.observations
       PROVE  \E n \in DOMAIN all : QcewReadAt(i, key, s.observations[k], all[n])
  <2>1. k \in DOMAIN rows /\ scan.rows[k] = CHOOSE r \in rows[k] : TRUE
    BY <1>9, <1>10, <1>14
  <2>2. PICK n \in at : rows[k] = found[n]
    BY <1>13, <2>1
  <2>3. scan.rows[k] \in found[n]
    BY <1>11, <2>1, <2>2
  <2>4. QcewReadAt(i, key, QcewObservation(i, scan.rows[k]), all[n]) /\ n \in DOMAIN all
    BY <1>7, <1>8, <1>11, <2>3
  <2>5. s.observations[k] = QcewObservation(i, scan.rows[k])
    BY <1>9, <1>10, <2>1
  <2> QED BY <2>4, <2>5
<1>15. /\ \E m \in Nat : DOMAIN s.observations = 1 .. m
       /\ s.observations # <<>> => 1 \in DOMAIN s.observations
  <2> DEFINE observed(n) == QcewObservation(i, scan.rows[n])
  <2>1. DOMAIN s.observations = DOMAIN rows /\ s.observations = [n \in DOMAIN rows |-> observed(n)]
    BY <1>9, <1>10
  <2> HIDE DEF observed
  <2>2. PICK m \in Nat : DOMAIN rows = 1 .. m
    BY <1>13
  <2>3. m = 0 => s.observations = <<>>
    BY <2>1, <2>2
  <2> QED BY <2>1, <2>2, <2>3
<1> QED BY <1>14, <1>15 DEF s, all

\* No indicator is of two agencies.
LEMMA OneAgency ==
  \A i : /\ Bea(i) => ~Hud(i)
         /\ Bls(i) => ~Hud(i) /\ ~Bea(i)
         /\ Qcew(i) => ~Hud(i) /\ ~Bea(i) /\ ~Bls(i)
BY DEF Hud, Bea, Bls, Qcew, HudIndicators, Areas, PictureFields, ChasMeasures, BeaIndicators, GdpIndicators,
   IncomeLines, BlsIndicators, LausIndicators, JoltsIndicators, OewsIndicators, QcewIndicators

\* The keys of a call are keys of its indicator.
LEMMA CallKeyed ==
  ASSUME IInv, reply.kind \in {"get", "compare"}
  PROVE  /\ \E m \in Nat : DOMAIN call.keys = 1 .. m /\ Len(call.keys) = m
         /\ \A k \in DOMAIN call.keys :
              \E code : call.keys[k] = SeriesKey(call.ask.indicator, code, call.dims, call.ask.adjusted)
<1>1. PICK top \in Nat : DOMAIN call.ask.places = 1 .. top
  BY RepliedTo
<1>2. call = Plan(open, call.ask) /\ ~call.refused
  BY RepliedTo
<1>3. PlanIsFull(call, call.ask)
  BY <1>1, <1>2, PlanHas
<1>4. CASE NationalScope(call.ask.indicator)
  <2>1. call.keys = << PlanKey(call, call.ask, NationCode) >>
    BY <1>3, <1>4 DEF PlanIsFull
  <2>2. \A k \in DOMAIN call.keys : call.keys[k] = PlanKey(call, call.ask, NationCode)
    BY <2>1
  <2> QED BY <1>3, <2>2 DEF PlanIsFull, PlanKey
<1>5. CASE ~NationalScope(call.ask.indicator)
  BY <1>3, <1>5 DEF PlanIsFull, PlanKey
<1> QED BY <1>4, <1>5

\* Each agency asked for all that its series need, and answered it.
CensusRead(g) == \A r \in DOMAIN g : \E when \in 0 .. released : g[r] = CensusAnswer(r, when)
AgencyRead(i, keys, o, g) ==
  \/ Hud(i) /\ HudWanted(i, keys, o, g) = {} /\ HudRead(g)
  \/ Bea(i) /\ ~Hud(i) /\ BeaWanted(i, keys, o, g) = {} /\ BeaRead(g)
  \/ Bls(i) /\ ~Hud(i) /\ ~Bea(i) /\ BlsWanted(keys, o, g) = {} /\ BlsRead(g)
  \/ Qcew(i) /\ ~Hud(i) /\ ~Bea(i) /\ ~Bls(i) /\ QcewWanted(keys, o, g) = {} /\ QcewRead(g)
  \/ /\ i \in CensusIndicators /\ ~Hud(i) /\ ~Bea(i) /\ ~Bls(i) /\ ~Qcew(i)
     /\ CensusWanted(keys, g) = {} /\ CensusRead(g)

LEMMA CallRead ==
  ASSUME IInv, reply.kind \in {"get", "compare"}
  PROVE  AgencyRead(call.ask.indicator, call.keys, Options(call.ask), got)
<1> DEFINE i == call.ask.indicator
           o == Options(call.ask)
           keys == call.keys
<1>1. /\ Wanted(i, keys, o, got) = {}
      /\ \A r \in DOMAIN got : \/ \E when \in 0 .. released : got[r] = AgencyAnswer(i, r, when)
                               \/ got[r] = TimedOut /\ Qcew(i)
  BY RepliedTo
<1>2. Hud(i) \/ Bea(i) \/ Bls(i) \/ Qcew(i) \/ i \in CensusIndicators
  <2>1. PICK n \in DOMAIN Asks : call.ask = Asks[n]
    BY RepliedTo, AskOf
  <2>2. i \in Indicators
    BY <2>1, RepliedTo, AnswersAssumption DEF Tool
  <2> QED BY <2>2 DEF Indicators, Hud, Bea, Bls, Qcew
<1> HIDE DEF o, i, keys
<1>3. CASE Hud(i)
  <2>1. HudWanted(i, keys, o, got) = {} /\ HudRead(got)
    BY <1>1, <1>3, OneAgency DEF Wanted, AgencyAnswer, HudRead
  <2> QED BY <1>3, <2>1 DEF AgencyRead, i, o, keys
<1>4. CASE Bea(i)
  <2>1. BeaWanted(i, keys, o, got) = {} /\ BeaRead(got) /\ ~Hud(i)
    BY <1>1, <1>4, OneAgency DEF Wanted, AgencyAnswer, BeaRead
  <2> QED BY <1>4, <2>1 DEF AgencyRead, i, o, keys
<1>5. CASE Bls(i)
  <2>1. BlsWanted(keys, o, got) = {} /\ BlsRead(got) /\ ~Hud(i) /\ ~Bea(i)
    BY <1>1, <1>5, OneAgency DEF Wanted, AgencyAnswer, BlsRead
  <2> QED BY <1>5, <2>1 DEF AgencyRead, i, o, keys
<1>6. CASE Qcew(i)
  <2>1. QcewWanted(keys, o, got) = {} /\ QcewRead(got) /\ ~Hud(i) /\ ~Bea(i) /\ ~Bls(i)
    BY <1>1, <1>6, OneAgency DEF Wanted, AgencyAnswer, QcewRead
  <2> QED BY <1>6, <2>1 DEF AgencyRead, i, o, keys
<1>7. CASE i \in CensusIndicators
  <2>1. ~Hud(i) /\ ~Bea(i) /\ ~Bls(i) /\ ~Qcew(i)
    BY <1>7, OnlyCensus
  <2>2. CensusWanted(keys, got) = {} /\ CensusRead(got)
    BY <1>1, <2>1 DEF Wanted, AgencyAnswer, CensusRead
  <2> QED BY <1>7, <2>1, <2>2 DEF AgencyRead, i, o, keys
<1> QED BY <1>2, <1>3, <1>4, <1>5, <1>6, <1>7

\* The series a get call shows keeps the range asked for.
LEMMA SeriesInRange ==
  ASSUME IInv, reply.kind = "get", reply.of.key # <<>>, Options(call.ask).explicit,
         call.ask.indicator \notin CensusIndicators
  PROVE  InRange(call.ask.indicator, Options(call.ask),
                 SeriesOf(call.ask.indicator, call.keys, 1, Options(call.ask), got))
<1> DEFINE i == call.ask.indicator
           o == Options(call.ask)
           s == SeriesOf(i, call.keys, 1, o, got)
<1>1. PICK top \in Nat : DOMAIN call.keys = 1 .. top /\ Len(call.keys) = top
  BY GetShows
<1>2. /\ 1 \in DOMAIN call.keys
      /\ \E code : call.keys[1] = SeriesKey(i, code, call.dims, call.ask.adjusted)
  BY GetShows
<1>3. AgencyRead(i, call.keys, o, got)
  BY CallRead
<1>4. /\ o.start \in Int /\ o.end \in Int
      /\ \A a \in Int : a >= o.start => a .. o.end # {Latest}
  BY OptionsTyped
<1>5. Hud(i) \/ Bea(i) \/ Bls(i) \/ Qcew(i)
  BY <1>3 DEF AgencyRead
<1> HIDE DEF o, i
<1>6. CASE Hud(i)
  <2>1. HudWanted(i, call.keys, o, got) = {} /\ HudRead(got)
    BY <1>3, <1>6, OneAgency DEF AgencyRead
  <2>2. HudNext(i, call.keys[1], o, got) = {}
    BY <1>1, <1>2, <2>1, HudDone
  <2>3. i \in HudIndicators
    BY <1>6 DEF Hud
  <2>4. InRange(i, o, HudSeries(i, call.keys[1], o, got))
    BY <1>4, <2>1, <2>2, <2>3, HudRange DEF i, o
  <2> QED BY <1>6, <2>4 DEF SeriesOf, i, o
<1>7. ASSUME ~Hud(i), YearsOf(s) \subseteq o.start .. o.end PROVE InRange(i, o, s)
  BY <1>7 DEF InRange
<1>8. CASE Bea(i)
  <2>1. BeaWanted(i, call.keys, o, got) = {} /\ BeaRead(got) /\ ~Hud(i)
    BY <1>3, <1>8, OneAgency DEF AgencyRead
  <2>2. i \in BeaIndicators
    BY <1>8 DEF Bea
  <2>3. YearsOf(BeaSeries(i, call.keys, 1, o, got)) \subseteq o.start .. o.end
    BY <1>1, <1>2, <1>4, <2>1, <2>2, IsReleased, BeaRange DEF i, o
  <2>4. s = BeaSeries(i, call.keys, 1, o, got)
    BY <1>8, <2>1 DEF SeriesOf
  <2> QED BY <1>7, <2>1, <2>3, <2>4 DEF i, o
<1>9. CASE Bls(i)
  <2>1. BlsWanted(call.keys, o, got) = {} /\ BlsRead(got) /\ ~Hud(i) /\ ~Bea(i)
    BY <1>3, <1>9, OneAgency DEF AgencyRead
  <2>2. /\ \A r \in BlsRowsOf(call.keys, 1, o, got) : r.year \in o.start .. o.end
        /\ ShowsBls(BlsSeries(i, call.keys, 1, o, got).observations, BlsRowsOf(call.keys, 1, o, got))
    <3>1. released \in Nat /\ 1 \in DOMAIN call.keys
      BY <1>2, IsReleased
    <3> QED BY ONLY <1>1, <2>1, <3>1, BlsShows
  <2>3. s = BlsSeries(i, call.keys, 1, o, got)
    BY <1>9, <2>1 DEF SeriesOf
  <2>4. \A r : BlsObservation(r).year = r.year
    BY DEF BlsObservation
  <2> HIDE DEF s
  <2>5. YearsOf(s) \subseteq o.start .. o.end
    BY <2>2, <2>3, <2>4 DEF ShowsBls, YearsOf
  <2> QED BY <1>7, <2>1, <2>5 DEF i, o, s
<1>10. CASE Qcew(i)
  <2>1. QcewWanted(call.keys, o, got) = {} /\ QcewRead(got) /\ ~Hud(i) /\ ~Bea(i) /\ ~Bls(i)
    BY <1>3, <1>10, OneAgency DEF AgencyRead
  <2>2. call.keys[1].annual \in BOOLEAN
    BY <1>2, <1>10, <2>1 DEF SeriesKey, QcewKey
  <2>3. \A m \in DOMAIN QcewReads(call.keys[1], o) : QcewReads(call.keys[1], o)[m] \in DOMAIN got
    BY <1>1, <1>2, <2>1, QcewAnswered
  <2>4. s = QcewSeries(i, call.keys[1], o, got)
    BY <1>10, <2>1 DEF SeriesOf
  <2> DEFINE c == CandidatePeriods(o, call.keys[1].annual)
  <2>5. \A k \in DOMAIN s.observations :
          \E n \in DOMAIN c : QcewReadAt(i, call.keys[1], s.observations[k], c[n])
    BY <1>4, <2>1, <2>2, <2>3, <2>4, QcewShows DEF i, o
  <2>6. \A n \in DOMAIN c : c[n][1] \in o.start .. o.end
    BY <1>4, <2>2, QcewPeriods DEF i, o
  <2>7. \A x, p : QcewReadAt(i, call.keys[1], x, p) => x.year = p[1]
    BY DEF QcewReadAt, QcewObservation
  <2> HIDE DEF s, c
  <2>8. YearsOf(s) \subseteq o.start .. o.end
    BY <2>5, <2>6, <2>7 DEF YearsOf, ToSet
  <2> QED BY <1>7, <2>1, <2>8 DEF i, o, s
<1> QED BY <1>5, <1>6, <1>8, <1>9, <1>10 DEF i, o

\* Nothing out of the range is shown as if it were in it, and no HUD year of
\* it is dropped in silence, whatever the agencies publish meanwhile.
THEOREM RangeKept == Spec => []RangeIsKept
<1>1. IInv => RangeIsKept
  <2> SUFFICES ASSUME IInv, reply.kind = "get", reply.of.key # <<>>, Options(call.ask).explicit,
                      call.ask.indicator \notin CensusIndicators
               PROVE  RangeIsKept
    BY DEF RangeIsKept
  <2> DEFINE i == call.ask.indicator
             o == Options(call.ask)
             s == SeriesOf(i, call.keys, 1, o, got)
             seen == {x.year : x \in ToSet(reply.of.observations)}
             said == {w[1] : w \in reply.of.notes}
             starts == {w[2] : w \in {v \in reply.of.notes : v[1] = "starts"}}
             none == {w[2] : w \in {v \in reply.of.notes : v[1] = "none" /\ Len(v) = 2}}
  <2>1. InRange(i, o, s)
    BY SeriesInRange
  <2>2. seen = YearsOf(s) /\ s.notes \subseteq reply.of.notes
    BY GetShows DEF YearsOf
  <2>3. \A y : <<"release", y>> \in reply.of.notes => "release" \in said
    <3>1. \A y : <<"release", y>>[1] = "release"
      OBVIOUS
    <3> QED BY <3>1
  <2>4. \A y : <<"none", y>> \in reply.of.notes => y \in none
    <3>1. \A y : <<"none", y>>[1] = "none" /\ <<"none", y>>[2] = y /\ Len(<<"none", y>>) = 2
      OBVIOUS
    <3> QED BY <3>1
  <2>5. \A y : <<"starts", y>> \in reply.of.notes => y \in starts
    <3>1. \A y : <<"starts", y>>[1] = "starts" /\ <<"starts", y>>[2] = y
      OBVIOUS
    <3> QED BY <3>1
  <2> HIDE DEF s, i, o, seen, said, starts, none
  <2>6. /\ seen \subseteq o.start .. o.end \/ said \cap {"range_not_applied", "release"} # {}
        /\ Hud(i) /\ i \notin ChasMeasures =>
             \A y \in o.start .. o.end : y \in seen \cup none \/ \E z \in starts : y < z
    BY <2>1, <2>2, <2>3, <2>4, <2>5 DEF InRange
  <2> QED BY <2>6 DEF RangeIsKept, s, i, o, seen, said, starts, none
<1> QED BY <1>1, InvAlways, PTL

-----------------------------------------------------------------------------
(* The period of a comparison.                                             *)

\* Every observation of a series has its year and its period.
Timed(s) ==
  /\ \E m \in Nat : DOMAIN s.observations = 1 .. m
  /\ s.observations # <<>> => 1 \in DOMAIN s.observations
  /\ \A k \in DOMAIN s.observations :
       /\ s.observations[k].year \in Int /\ s.observations[k].year > Null
       /\ s.observations[k].period \in Int

\* The years a HUD series may be asked for are a sequence.
LEMMA DownListed ==
  ASSUME NEW o, o.start \in Int, o.end \in Int, NEW floor \in Int
  PROVE  \E m \in Nat : DOMAIN YearsDown(IF o.start < floor THEN floor ELSE o.start, o.end) = 1 .. m
<1> DEFINE a == IF o.start < floor THEN floor ELSE o.start
<1>1. a \in Int
  OBVIOUS
<1> HIDE DEF a
<1>2. ListsYears(YearsDown(a, o.end), a, o.end)
  BY <1>1, YearsListed
<1>3. \E m \in Nat : DOMAIN YearsDown(a, o.end) = 1 .. m
  BY ONLY <1>2 DEF ListsYears
<1> QED BY <1>3 DEF a

LEMMA CandidatesListed ==
  ASSUME NEW o, o.start \in Int, o.end \in Int
  PROVE  \E m \in Nat : DOMAIN CandidateYears(o) = 1 .. m
<1>1. CASE o.explicit
  <2>1. CandidateYears(o) = YearsDown(IF o.start < PictureFloor THEN PictureFloor ELSE o.start, o.end)
    BY <1>1 DEF CandidateYears
  <2>2. PictureFloor \in Int
    BY DEF PictureFloor
  <2> HIDE DEF PictureFloor
  <2> QED BY <2>1, <2>2, DownListed
<1>2. CASE ~o.explicit
  <2>1. DOMAIN CandidateYears(o) = 1 .. 3
    BY <1>2 DEF CandidateYears, PictureLookback
  <2> QED BY <2>1
<1> QED BY <1>1, <1>2

\* The requests of a HUD series are a sequence.
LEMMA HudReadsListed ==
  ASSUME NEW i, NEW key, NEW o, NEW g, o.start \in Int, o.end \in Int
  PROVE  \E m \in Nat : DOMAIN HudReads(i, key, o, g) = 1 .. m
<1> DEFINE reads == HudReads(i, key, o, g)
           down(floor) == YearsDown(IF o.start < floor THEN floor ELSE o.start, o.end)
<1>1. \A floor \in Int : \E m \in Nat : DOMAIN down(floor) = 1 .. m
  BY DownListed
<1>2. \E m \in Nat : DOMAIN FiscalYears(o) = 1 .. m
  <2>1. CASE o.explicit
    <3>1. FiscalYears(o) = down(HudFloor)
      BY <2>1 DEF FiscalYears
    <3> QED BY <1>1, <3>1 DEF HudFloor
  <2>2. CASE ~o.explicit
    <3>1. FiscalYears(o) = <<Latest>>
      BY <2>2 DEF FiscalYears
    <3>2. DOMAIN <<Latest>> = 1 .. 1
      OBVIOUS
    <3> QED BY <3>1, <3>2
  <2> QED BY <2>1, <2>2
<1>3. \E m \in Nat : DOMAIN CandidateYears(o) = 1 .. m
  BY CandidatesListed
<1> HIDE DEF down
<1>4. CASE i \in DOMAIN Areas
  <2>1. DOMAIN reads = DOMAIN FiscalYears(o)
    BY <1>4 DEF HudReads, IncomeReads
  <2> QED BY <1>2, <2>1
<1>5. CASE i \notin DOMAIN Areas /\ i \in ChasMeasures
  <2> DEFINE r == ChasRequest(key.entity, IF o.explicit THEN ReleaseFor(o.end) ELSE Latest)
  <2>1. reads = << r >>
    BY <1>5 DEF HudReads, Areas
  <2>2. DOMAIN << r >> = 1 .. 1
    OBVIOUS
  <2> QED BY <2>1, <2>2
<1>6. CASE i \notin DOMAIN Areas /\ i \notin ChasMeasures
  <2> DEFINE all == [n \in DOMAIN CandidateYears(o) |-> PictureRequest(key.entity, CandidateYears(o)[n])]
             hits == {n \in DOMAIN all : /\ all[n] \in DOMAIN g
                                         /\ \E p \in g[all[n]] : p.rows # {}}
  <2>1. reads = IF o.explicit \/ hits = {} THEN all ELSE SubSeq(all, 1, Min(hits))
    BY <1>6 DEF HudReads, Areas
  <2>2. DOMAIN all = DOMAIN CandidateYears(o) /\ all = [n \in DOMAIN all |-> all[n]] /\ hits \subseteq DOMAIN all
    OBVIOUS
  <2> HIDE DEF all, hits
  <2>3. PICK m \in Nat : DOMAIN all = 1 .. m
    BY <1>3, <2>2
  <2>4. hits # {} => DOMAIN SubSeq(all, 1, Min(hits)) = 1 .. Min(hits) /\ Min(hits) \in Nat
    <3>1. all \in Seq({all[n] : n \in DOMAIN all}) /\ Len(all) = m
      BY <2>2, <2>3
    <3>2. hits # {} => Min(hits) \in 1 .. m
      <4>1. hits \in SUBSET Nat
        BY <2>2, <2>3
      <4>2. hits # {} => Min(hits) \in hits
        BY <4>1, LeastOne
      <4> QED BY <2>2, <2>3, <4>2
    <3>3. \A z, T, x : z \in Seq(T) /\ x \in Nat /\ x <= Len(z) => DOMAIN SubSeq(z, 1, x) = 1 .. x
      OBVIOUS
    <3> QED BY <3>1, <3>2, <3>3
  <2> QED BY <2>1, <2>3, <2>4
<1> QED BY <1>4, <1>5, <1>6

LEMMA HudTimed ==
  ASSUME NEW i, NEW key, NEW o, NEW g, o.start \in Int, o.end \in Int, HudRead(g)
  PROVE  Timed(HudSeries(i, key, o, g))
<1> DEFINE s == HudSeries(i, key, o, g)
           reads == HudReads(i, key, o, g)
           at == {n \in DOMAIN reads : Observed(i, key, g, reads[n])}
           kept == Keeping(reads, at)
           page(r) == CHOOSE p \in g[r] : TRUE
<1>1. s.observations = [n \in DOMAIN kept |->
        [year |-> page(kept[n]).year, period |-> Annual, value |-> HudValue(i, page(kept[n]), key.pick)]]
  BY DEF HudSeries
<1>2. PICK m \in Nat : DOMAIN reads = 1 .. m
  BY HudReadsListed
<1>3. at \subseteq DOMAIN reads /\ \A n \in at : Observed(i, key, g, reads[n])
  OBVIOUS
<1> HIDE DEF reads, at, s
<1>4. at \in SUBSET Nat /\ IsFiniteSet(at)
  <2>1. IsFiniteSet(1 .. m) /\ 1 .. m \in SUBSET Nat
    BY ONLY m \in Nat, FS_Interval
  <2> QED BY ONLY <1>2, <1>3, <2>1, FS_Subset
<1>5. /\ \E x \in Nat : DOMAIN kept = 1 .. x
      /\ \A k \in DOMAIN kept : \E n \in at : kept[k] = reads[n]
  BY <1>4, KeepingLists
<1>6. ASSUME NEW r, Observed(i, key, g, r) PROVE page(r).year \in Nat \ {0}
  <2>1. r \in DOMAIN g /\ g[r] # {}
    BY <1>6 DEF Observed
  <2>2. PICK when \in 0 .. released : g[r] = HudAnswer(r, when)
    BY <2>1 DEF HudRead
  <2> QED BY <2>1, <2>2, HudPageRead
<1> HIDE DEF kept, page
<1>7. \A k \in DOMAIN kept : page(kept[k]).year \in Nat
  BY <1>3, <1>5, <1>6
<1>8. /\ DOMAIN s.observations = DOMAIN kept
      /\ \A k \in DOMAIN kept : s.observations[k].year = page(kept[k]).year /\ s.observations[k].period = Annual
  BY <1>1
<1>9. Timed(s)
  BY <1>5, <1>7, <1>8 DEF Timed, Annual, Null
<1> QED BY <1>9 DEF s

LEMMA CensusTimed ==
  ASSUME NEW i, NEW key, NEW g
  PROVE  Timed(CensusSeries(i, key, g))
<1> DEFINE s == CensusSeries(i, key, g)
           reads == CensusReads(key, g)
           rows == g[reads[Len(reads)]]
           of(r) == IF i \in AcsIndicators THEN AcsObservation(r) ELSE CountObservation(r)
           fell == IF Len(reads) = 2 THEN {<<"five_shown">>} ELSE {}
           r0 == CHOOSE r \in rows : TRUE
           x == [of(r0) EXCEPT !.footnotes = @ \cup fell]
<1>1. s.observations = IF rows = {} THEN <<>> ELSE << x >>
  BY DEF CensusSeries
<1>2. x.year \in Int /\ x.year > Null /\ x.period \in Int
  <2>1. CASE i \in AcsIndicators
    <3>1. x = [AcsObservation(r0) EXCEPT !.footnotes = @ \cup fell]
      BY <2>1
    <3> HIDE DEF x, r0, fell
    <3>2. x.year = AcsVintage /\ x.period \in {Annual, FiveYears}
      BY <3>1 DEF AcsObservation
    <3> QED BY <3>2 DEF AcsVintage, Annual, FiveYears, Null
  <2>2. CASE i \notin AcsIndicators
    <3>1. x = [CountObservation(r0) EXCEPT !.footnotes = @ \cup fell]
      BY <2>2
    <3> HIDE DEF x, r0, fell
    <3>2. x.year = DecennialYear /\ x.period = Annual
      BY <3>1 DEF CountObservation
    <3> QED BY <3>2 DEF DecennialYear, Annual, Null
  <2> QED BY <2>1, <2>2
<1> HIDE DEF s, x
<1>3. CASE rows = {}
  <2>1. s.observations = <<>>
    BY <1>1, <1>3
  <2>2. DOMAIN s.observations = 1 .. 0
    BY <2>1
  <2>3. Timed(s)
    BY <2>1, <2>2 DEF Timed
  <2> QED BY <2>3 DEF s
<1>4. CASE rows # {}
  <2>1. s.observations = << x >>
    BY <1>1, <1>4
  <2>2. DOMAIN s.observations = 1 .. 1 /\ s.observations[1] = x
    BY <2>1
  <2>3. Timed(s)
    BY <1>2, <2>2 DEF Timed
  <2> QED BY <2>3 DEF s
<1> QED BY <1>3, <1>4

\* Every series of a call is dated.
LEMMA SeriesTimed ==
  ASSUME IInv, reply.kind \in {"get", "compare"}, NEW k \in DOMAIN call.keys
  PROVE  Timed(SeriesOf(call.ask.indicator, call.keys, k, Options(call.ask), got))
<1> DEFINE i == call.ask.indicator
           o == Options(call.ask)
           key == call.keys[k]
           s == SeriesOf(i, call.keys, k, o, got)
<1>1. AgencyRead(i, call.keys, o, got)
  BY CallRead
<1>2. o.start \in Int /\ o.end \in Int
  BY OptionsTyped
<1>3. PICK top \in Nat : DOMAIN call.keys = 1 .. top /\ Len(call.keys) = top
  BY CallKeyed
<1>4. \E code : key = SeriesKey(i, code, call.dims, call.ask.adjusted)
  BY CallKeyed
<1> HIDE DEF i, o
<1>5. CASE Hud(i)
  <2>1. HudRead(got) /\ s = HudSeries(i, key, o, got)
    BY <1>1, <1>5 DEF AgencyRead, SeriesOf
  <2>2. Timed(HudSeries(i, key, o, got))
    BY <1>2, <2>1, HudTimed
  <2> QED BY <2>1, <2>2 DEF i, o
<1>6. CASE Bea(i) /\ ~Hud(i)
  <2>1. BeaWanted(i, call.keys, o, got) = {} /\ BeaRead(got)
    BY <1>1, <1>6, OneAgency DEF AgencyRead
  <2> DEFINE rows == BeaRowsOf(i, call.keys, k, o, got)
             obs == BeaSeries(i, call.keys, k, o, got).observations
  <2>2. s.observations = obs
    BY <1>6 DEF SeriesOf
  <2>3. BeaFits(rows, key)
    BY <1>3, <2>1, IsReleased, BeaRowsRead
  <2>4. ShowsRows(obs, rows)
    BY <2>3, BeaShows
  <2> HIDE DEF rows, obs, s
  <2>5. /\ \E m \in Nat : DOMAIN obs = 1 .. m
        /\ \A n \in DOMAIN obs : \E r \in rows : obs[n] = BeaObservation(r)
    BY <2>4 DEF ShowsRows, ToSet
  <2>6. \A r \in rows : r.year \in Nat /\ r.quarter \in Nat
    BY <2>3, BeaAssumption DEF BeaFits
  <2>7. \A r : BeaObservation(r).year = r.year /\ BeaObservation(r).period = r.quarter
    BY DEF BeaObservation
  <2>8. \A n \in DOMAIN obs : obs[n].year \in Nat /\ obs[n].period \in Nat
    BY ONLY <2>5, <2>6, <2>7
  <2>9. \A x \in Nat : x \in Int /\ x > Null
    BY DEF Null
  <2>10. \E m \in Nat : DOMAIN obs = 1 .. m
    BY ONLY <2>5
  <2>11. Timed(s)
    BY ONLY <2>2, <2>8, <2>9, <2>10 DEF Timed
  <2> QED BY <2>11 DEF s, i, o
<1>7. CASE Bls(i) /\ ~Hud(i) /\ ~Bea(i)
  <2>1. BlsWanted(call.keys, o, got) = {} /\ BlsRead(got)
    BY <1>1, <1>7, OneAgency DEF AgencyRead
  <2> DEFINE rows == BlsRowsOf(call.keys, k, o, got)
             obs == BlsSeries(i, call.keys, k, o, got).observations
  <2>2. s.observations = obs
    BY <1>7 DEF SeriesOf
  <2>3. rows \in SUBSET BlsRows /\ ShowsBls(obs, rows)
    BY <1>3, <2>1, IsReleased, BlsShows
  <2> HIDE DEF rows, obs, s
  <2>5. /\ \E m \in Nat : DOMAIN obs = 1 .. m
        /\ \A n \in DOMAIN obs : \E r \in rows : obs[n] = BlsObservation(r)
    BY <2>3 DEF ShowsBls, ToSet
  <2>6. \A r \in rows : r.year \in Nat /\ r.period \in Nat
    BY <2>3, BlsAssumption
  <2>7. \A r : BlsObservation(r).year = r.year /\ BlsObservation(r).period = r.period
    BY DEF BlsObservation
  <2>8. \A n \in DOMAIN obs : obs[n].year \in Nat /\ obs[n].period \in Nat
    BY ONLY <2>5, <2>6, <2>7
  <2>9. \A x \in Nat : x \in Int /\ x > Null
    BY DEF Null
  <2>10. \E m \in Nat : DOMAIN obs = 1 .. m
    BY ONLY <2>5
  <2>11. Timed(s)
    BY ONLY <2>2, <2>8, <2>9, <2>10 DEF Timed
  <2> QED BY <2>11 DEF s, i, o
<1>8. CASE Qcew(i) /\ ~Hud(i) /\ ~Bea(i) /\ ~Bls(i)
  <2>1. QcewWanted(call.keys, o, got) = {} /\ QcewRead(got)
    BY <1>1, <1>8, OneAgency DEF AgencyRead
  <2>2. key.annual \in BOOLEAN
    BY <1>4, <1>8 DEF SeriesKey, QcewKey
  <2>3. \A m \in DOMAIN QcewReads(key, o) : QcewReads(key, o)[m] \in DOMAIN got
    BY <1>3, <2>1, QcewAnswered
  <2>4. s = QcewSeries(i, key, o, got)
    BY <1>8 DEF SeriesOf
  <2> DEFINE c == CandidatePeriods(o, key.annual)
  <2>5. /\ \E m \in Nat : DOMAIN s.observations = 1 .. m
        /\ s.observations # <<>> => 1 \in DOMAIN s.observations
        /\ \A n \in DOMAIN s.observations : \E h \in DOMAIN c : QcewReadAt(i, key, s.observations[n], c[h])
    BY <1>2, <2>1, <2>2, <2>3, <2>4, QcewShows
  <2>6. \A h \in DOMAIN c : QcewPeriod(c[h], key.annual)
    BY <1>2, <2>2, QcewPeriods
  <2>7. ASSUME NEW x, NEW p, QcewReadAt(i, key, x, p), QcewPeriod(p, key.annual)
        PROVE  x.year \in Int /\ x.year > Null /\ x.period \in Int
    <3>1. x.year = p[1] /\ x.period = IF p[2] = 0 THEN Annual ELSE p[2]
      BY <2>7 DEF QcewReadAt, QcewObservation
    <3> QED BY <2>7, <3>1 DEF QcewPeriod, Annual
  <2> HIDE DEF s, c
  <2>8. Timed(s)
    BY <2>5, <2>6, <2>7 DEF Timed
  <2> QED BY <2>8 DEF s, i, o
<1>9. CASE ~Hud(i) /\ ~Bea(i) /\ ~Bls(i) /\ ~Qcew(i)
  <2>1. s = CensusSeries(i, key, got)
    BY <1>9 DEF SeriesOf
  <2> QED BY <2>1, CensusTimed DEF i, o
<1> QED BY <1>5, <1>6, <1>7, <1>8, <1>9

\* The latest of finitely many periods, if there are any, is one of them.
LEMMA LatestIsLatest ==
  ASSUME NEW S, IsFiniteSet(S), S # {}, \A p \in S : p[1] \in Int /\ p[2] \in Int
  PROVE  /\ LatestPeriod(S) \in S
         /\ \A q \in S : \/ q[1] < LatestPeriod(S)[1]
                         \/ q[1] = LatestPeriod(S)[1] /\ q[2] <= LatestPeriod(S)[2]
<1> DEFINE After(q, p) == q[1] > p[1] \/ (q[1] = p[1] /\ q[2] > p[2])
           B == [p \in S |-> {q \in S : After(q, p)}]
<1>1. /\ \A p \in S : B[p] \subseteq S /\ p \notin B[p]
      /\ \A p, q \in S : p \in B[q] => B[p] \subseteq B[q]
  OBVIOUS
<1>2. \A p \in S : B[p] = {} => \A q \in S : ~After(q, p)
  OBVIOUS
<1> HIDE DEF B
<1>3. PICK p \in S : B[p] = {}
  BY <1>1, Foremost
<1> DEFINE Top(x) == \A q \in S : q[1] < x[1] \/ (q[1] = x[1] /\ q[2] <= x[2])
<1>4. Top(p)
  BY <1>2, <1>3
<1>5. LatestPeriod(S) = CHOOSE x \in S : Top(x)
  BY DEF LatestPeriod
<1> HIDE DEF Top
<1>6. LatestPeriod(S) \in S /\ Top(LatestPeriod(S))
  BY <1>4, <1>5
<1> QED BY <1>6 DEF Top

\* The periods of a series are finitely many, each a year and its part.
LEMMA PeriodsTimed ==
  ASSUME NEW s, Timed(s)
  PROVE  /\ IsFiniteSet(PeriodsOf(s))
         /\ \A p \in PeriodsOf(s) : p[1] \in Int /\ p[1] > Null /\ p[2] \in Int
<1> DEFINE obs == s.observations
           f == [k \in DOMAIN obs |-> <<obs[k].year, obs[k].period>>]
<1>1. PeriodsOf(s) = {f[k] : k \in DOMAIN obs}
  BY DEF PeriodsOf, ToSetOf
<1>2. PICK m \in Nat : DOMAIN obs = 1 .. m
  BY DEF Timed
<1>3. IsFiniteSet(DOMAIN obs)
  BY ONLY <1>2, FS_Interval
<1>4. DOMAIN f = DOMAIN obs /\ f = [k \in DOMAIN obs |-> f[k]]
  OBVIOUS
<1>5. \A k \in DOMAIN obs : f[k][1] \in Int /\ f[k][1] > Null /\ f[k][2] \in Int
  BY DEF Timed
<1> HIDE DEF f, obs
<1>6. IsFiniteSet({f[k] : k \in DOMAIN obs})
  BY <1>3, <1>4, ImagesFinite
<1> QED BY <1>1, <1>5, <1>6

\* Places are compared at one period, the latest their series share (by year,
\* and by quarter or month within a year), and a
\* place with data shows its figure of it (sharedPeriod and comparePlaces).
THEOREM ComparedAtOnePeriod == Spec => []ComparedAlike
<1>1. IInv => ComparedAlike
  <2> SUFFICES ASSUME IInv, reply.kind = "compare" PROVE ComparedAlike
    BY DEF ComparedAlike
  <2> DEFINE i == call.ask.indicator
             o == Options(call.ask)
             series == {SeriesOf(i, call.keys, k, o, got) : k \in DOMAIN call.keys}
             full == {s \in series : s.observations # <<>>}
             shared == {p \in UNION {PeriodsOf(s) : s \in full} : \A s \in full : p \in PeriodsOf(s)}
             period == LatestPeriod(shared)
             at(k) == {x \in UNION {ToSetOf(s.observations) : s \in {t \in series : t.key = k}} :
                         <<x.year, x.period>> = period}
             place(n) == call.keyOf[n][1]
  <2>1. Answer = Compared(call, series, period).rows
    BY RepliedTo DEF Answer, ComparePlaces, CompareFetched, SharedPeriod
  <2>2. DOMAIN Answer = DOMAIN call.rows
        /\ \A n \in DOMAIN Answer : Answer[n] = IF call.rows[n].status # "ok" THEN Unanswered(call.rows[n], {})
                                                ELSE CompareRow(call, call.rows[n], place(n), at(place(n)))
    BY <2>1 DEF Compared
  <2>0. \A row : Unanswered(row, {}).latest = Nothing /\ Unanswered(row, {}).key = <<>>
    BY DEF Unanswered
  <2>3. \A s \in series : Timed(s)
    BY SeriesTimed
  <2>4. \A s \in full : s \in series
    OBVIOUS
  <2>5. \A p \in shared : \E s \in full : p \in PeriodsOf(s)
    OBVIOUS
  <2>6. \A p \in shared : \A s \in full : p \in PeriodsOf(s)
    OBVIOUS
  <2>7. \A k : \A x \in at(k) : <<x.year, x.period>> = period
    OBVIOUS
  <2>8. ASSUME NEW s \in series, period \in PeriodsOf(s) PROVE at(s.key) # {}
    <3>1. PICK x \in ToSetOf(s.observations) : period = <<x.year, x.period>>
      BY <2>8 DEF PeriodsOf
    <3>2. x \in at(s.key)
      BY <3>1
    <3> QED BY <3>2
  <2>9. shared = {p \in UNION {PeriodsOf(s) : s \in full} : \A s \in full : p \in PeriodsOf(s)}
    OBVIOUS
  <2> HIDE DEF series, full, shared, at, place, period
  <2>10. ASSUME shared # {}
         PROVE  /\ period \in shared /\ period[1] \in Int /\ period[1] > Null
                /\ \A q \in shared : q[1] < period[1] \/ (q[1] = period[1] /\ q[2] <= period[2])
    <3>1. PICK s \in full : shared \subseteq PeriodsOf(s)
      BY <2>5, <2>6, <2>10
    <3>2. /\ IsFiniteSet(PeriodsOf(s))
          /\ \A p \in PeriodsOf(s) : p[1] \in Int /\ p[1] > Null /\ p[2] \in Int
      BY <2>3, <2>4, <3>1, PeriodsTimed
    <3>3. IsFiniteSet(shared) /\ \A p \in shared : p[1] \in Int /\ p[1] > Null /\ p[2] \in Int
      BY <3>1, <3>2, FS_Subset
    <3> QED BY <2>10, <3>3, LatestIsLatest DEF period
  <2>11. ASSUME NEW n \in DOMAIN Answer, Answer[n].latest # Nothing
         PROVE  <<Answer[n].latest.year, Answer[n].latest.period>> = period
    <3>1. Answer[n] = CompareRow(call, call.rows[n], place(n), at(place(n)))
      BY <2>0, <2>2, <2>11
    <3>2. Answer[n].latest = IF at(place(n)) = {} THEN Nothing ELSE ThePick(at(place(n)))
      BY <3>1 DEF CompareRow, Answered
    <3>3. Answer[n].latest \in at(place(n))
      BY <2>11, <3>2, Chosen
    <3> QED BY <2>7, <3>3
  <2>12. ASSUME NEW s \in full, NEW n \in DOMAIN Answer, Answer[n].key = << s.key >>, shared # {}
         PROVE  /\ Answer[n].latest # Nothing
                /\ Answer[n].latest.year = period[1] /\ Answer[n].latest.period = period[2]
    <3>0. \A x : << x >> # << >>
      OBVIOUS
    <3>1. Answer[n] = CompareRow(call, call.rows[n], place(n), at(place(n)))
      BY <2>0, <2>2, <2>12, <3>0
    <3>2. Answer[n].key = << place(n) >>
          /\ Answer[n].latest = IF at(place(n)) = {} THEN Nothing ELSE ThePick(at(place(n)))
      BY <3>1 DEF CompareRow, Answered
    <3>3. place(n) = s.key
      BY <2>12, <3>2
    <3>4. at(s.key) # {}
      BY <2>4, <2>6, <2>8, <2>10, <2>12
    <3>5. Answer[n].latest \in at(s.key)
      BY <3>2, <3>3, <3>4, Chosen
    <3>6. Answer[n].latest.year = period[1] /\ Answer[n].latest.period = period[2]
      BY <2>7, <3>5
    <3>7. Nothing.year = Null /\ ~(Null > Null)
      BY DEF Nothing, Null
    <3> QED BY <2>10, <2>12, <3>6, <3>7
  <2> DEFINE where(row) == <<row.latest.year, row.latest.period>>
             rows == {n \in DOMAIN Answer : Answer[n].latest # Nothing}
  <2>13. \A n, m \in rows : where(Answer[n]) = where(Answer[m])
    BY <2>11
  <2>14. ASSUME NEW p \in UNION {PeriodsOf(s) : s \in full}, \A s \in full : p \in PeriodsOf(s),
                NEW n \in DOMAIN Answer, \E s \in full : Answer[n].key = << s.key >>
         PROVE  /\ n \in rows
                /\ \/ p[1] < where(Answer[n])[1]
                   \/ p[1] = where(Answer[n])[1] /\ p[2] <= where(Answer[n])[2]
    <3>1. p \in shared
      BY <2>9, <2>14
    <3>2. PICK s \in full : Answer[n].key = << s.key >>
      BY <2>14
    <3>3. n \in rows /\ where(Answer[n]) = <<period[1], period[2]>>
      BY <2>12, <3>1, <3>2
    <3> QED BY <2>10, <3>1, <3>3
  <2> QED BY <2>13, <2>14 DEF ComparedAlike, series, full, i, o
<1> QED BY <1>1, InvAlways, PTL

-----------------------------------------------------------------------------
(* The source of a figure.                                                 *)

\* A figure is read again at the source its row cites, and its footnote.
ReadsBack(i, key, x) ==
  \E r \in AgencyAnswer(i, Followed(i, SourceOf(i, key, x), x), released) :
    IF Hud(i) THEN r.year = x.year /\ HudValue(i, r, key.pick) = x.value
    ELSE IF Qcew(i) THEN r.period = SourceOf(i, key, x).period /\ QcewValue(i, r) = x.value
    ELSE IF i \in CensusIndicators THEN r.estimate = x.value
    ELSE <<r.year, r.value>> = <<x.year, x.value>>

\* Every request of a HUD series is of its entity, for some year.
HudReadOf(i, key, r) ==
  \E year : r = IF i \in DOMAIN Areas THEN AreaRequest(Areas[i], key.entity, year)
                ELSE IF i \in ChasMeasures THEN ChasRequest(key.entity, year)
                ELSE PictureRequest(key.entity, year)

LEMMA HudReadsOwn ==
  ASSUME NEW i, NEW key, NEW o, NEW g, o.start \in Int, o.end \in Int
  PROVE  \A n \in DOMAIN HudReads(i, key, o, g) : HudReadOf(i, key, HudReads(i, key, o, g)[n])
<1> DEFINE reads == HudReads(i, key, o, g)
<1>1. CASE i = "fair_market_rent"
  <2>1. reads = [n \in DOMAIN FiscalYears(o) |-> AreaRequest("fmr", key.entity, FiscalYears(o)[n])]
    BY <1>1 DEF HudReads
  <2>2. i \in DOMAIN Areas /\ Areas[i] = "fmr"
    BY <1>1 DEF Areas
  <2> QED BY <2>1, <2>2 DEF HudReadOf
<1>2. CASE i \in DOMAIN Areas /\ i # "fair_market_rent"
  <2> DEFINE latest == AreaRequest(Areas[i], key.entity, Latest)
             now == IF latest \in DOMAIN g /\ g[latest] # {} THEN (CHOOSE p \in g[latest] : TRUE).year ELSE Latest
             years == FiscalYears(o)
  <2>1. reads = [n \in DOMAIN years |-> IF years[n] \in {Latest, now} THEN latest
                                        ELSE AreaRequest(Areas[i], key.entity, years[n])]
    BY <1>2 DEF HudReads, IncomeReads
  <2> HIDE DEF reads, now, years
  <2>2. \A n \in DOMAIN reads : reads[n] = latest \/ reads[n] = AreaRequest(Areas[i], key.entity, years[n])
    BY <2>1
  <2> QED BY <1>2, <2>2 DEF HudReadOf, reads
<1>3. CASE i \notin DOMAIN Areas /\ i \in ChasMeasures
  <2> DEFINE r == ChasRequest(key.entity, IF o.explicit THEN ReleaseFor(o.end) ELSE Latest)
  <2>1. reads = << r >>
    BY <1>3 DEF HudReads, Areas
  <2>2. HudReadOf(i, key, r)
    BY <1>3 DEF HudReadOf
  <2> HIDE DEF r
  <2> QED BY <2>1, <2>2
<1>4. CASE i \notin DOMAIN Areas /\ i \notin ChasMeasures
  <2> DEFINE all == [n \in DOMAIN CandidateYears(o) |-> PictureRequest(key.entity, CandidateYears(o)[n])]
             hits == {n \in DOMAIN all : /\ all[n] \in DOMAIN g
                                         /\ \E p \in g[all[n]] : p.rows # {}}
  <2>1. reads = IF o.explicit \/ hits = {} THEN all ELSE SubSeq(all, 1, Min(hits))
    BY <1>4 DEF HudReads, Areas
  <2>2. \A n \in DOMAIN all : HudReadOf(i, key, all[n])
    BY <1>4 DEF HudReadOf
  <2>3. DOMAIN all = DOMAIN CandidateYears(o) /\ all = [n \in DOMAIN all |-> all[n]] /\ hits \subseteq DOMAIN all
    OBVIOUS
  <2>4. \E m \in Nat : DOMAIN all = 1 .. m
    BY <2>3, CandidatesListed
  <2> HIDE DEF all, hits
  <2>5. PICK m \in Nat : DOMAIN all = 1 .. m
    BY <2>4
  <2>6. ASSUME hits # {}, NEW n \in DOMAIN SubSeq(all, 1, Min(hits))
        PROVE  n \in DOMAIN all /\ SubSeq(all, 1, Min(hits))[n] = all[n]
    <3>1. all \in Seq({all[k] : k \in DOMAIN all}) /\ Len(all) = m
      BY <2>3, <2>5
    <3>2. Min(hits) \in 1 .. m
      <4>1. hits \in SUBSET Nat
        BY <2>3, <2>5
      <4>2. Min(hits) \in hits
        BY <2>6, <4>1, LeastOne
      <4> QED BY <2>3, <2>5, <4>2
    <3>3. \A z, T, x : z \in Seq(T) /\ x \in Nat /\ x <= Len(z) =>
            /\ DOMAIN SubSeq(z, 1, x) = 1 .. x
            /\ \A k \in 1 .. x : SubSeq(z, 1, x)[k] = z[k]
      OBVIOUS
    <3> DEFINE x == Min(hits)
    <3>4. x \in Nat /\ x <= Len(all)
      BY <3>1, <3>2, <2>5
    <3>5. n \in 1 .. x /\ SubSeq(all, 1, x)[n] = all[n]
      BY <2>6, <3>1, <3>3, <3>4
    <3> QED BY <2>5, <3>1, <3>2, <3>5
  <2> QED BY <2>1, <2>2, <2>6
<1> QED BY <1>1, <1>2, <1>3, <1>4

\* HUD has no page of an entity under its new id for an earlier year.
EntityIsNew(entity) == entity[2] # <<>> => IdIsNew(entity[1])

\* A page read for a request is found again under its own year.
LEMMA HudFoundAgain ==
  ASSUME NEW i \in HudIndicators, NEW key, i \in DOMAIN Areas => EntityIsNew(key.entity),
         NEW r, HudReadOf(i, key, r), released \in Nat,
         NEW when \in 0 .. released, NEW p \in HudAnswer(r, when)
  PROVE  p \in HudAnswer(HudSource(i, key, p.year), released)
<1> DEFINE cited == HudSource(i, key, p.year)
<1>1. /\ p \in HudPages /\ p.page = r.page /\ p.id = r.id
      /\ p.release <= when
      /\ r.year # Latest => p.year = r.year
  BY DEF HudAnswer, HudVisible
<1>2. p.year \in Nat \ {0} /\ p.release \in Nat /\ (p.page = "picture" => PictureCensus(p.year) \in p.census)
  BY <1>1, HudAssumption
<1>3. p \in HudVisible(released)
  BY <1>1, <1>2 DEF HudVisible
<1>4. ASSUME NEW q, q.page = p.page, q.id = p.id, q.year = p.year,
             q.page = "picture" => q.census = PictureCensus(p.year)
      PROVE  p \in HudAnswer(q, released)
  BY <1>2, <1>3, <1>4 DEF HudAnswer, Latest
<1>5. CASE i \in DOMAIN Areas
  <2> DEFINE entity == key.entity
             page == Areas[i]
             from == NewTownIdFrom[page]
  <2>1. page \in DOMAIN NewTownIdFrom /\ page # "picture" /\ from \in Nat
    BY <1>5 DEF Areas, NewTownIdFrom
  <2>2. PICK year : r = AreaRequest(page, entity, year)
    BY <1>5 DEF HudReadOf
  <2>3. r.page = page /\ r.id = IdForYear(entity, year, from) /\ r.year = year
    BY <2>2 DEF AreaRequest
  <2>4. cited.page = page /\ cited.id = IdForYear(entity, p.year, from) /\ cited.year = p.year
    BY <1>5 DEF HudSource, AreaRequest
  <2>5. IdForYear(entity, p.year, from) = p.id
    <3>1. CASE year # Latest
      BY <1>1, <2>3, <3>1
    <3>2. CASE year = Latest
      <4>1. p.id = entity[1]
        BY <1>1, <2>3, <3>2 DEF IdForYear
      <4>2. entity[2] # <<>> => p.year >= from
        BY <1>1, <1>5, <2>1, <2>3, <4>1 DEF EntityIsNew, IdIsNew
      <4>3. entity[2] # <<>> => ~(p.year < from)
        BY <1>2, <2>1, <4>2
      <4> QED BY <4>1, <4>3 DEF IdForYear
    <3> QED BY <3>1, <3>2
  <2> QED BY <1>1, <1>4, <2>1, <2>3, <2>4, <2>5
<1>6. CASE i \notin DOMAIN Areas /\ i \in ChasMeasures
  <2>1. PICK year : r = ChasRequest(key.entity, year)
    BY <1>6 DEF HudReadOf
  <2>2. r.page = "chas" /\ r.id = key.entity
    BY <2>1 DEF ChasRequest
  <2>3. cited.page = "chas" /\ cited.id = key.entity /\ cited.year = p.year
    BY <1>6 DEF HudSource, ChasRequest
  <2> QED BY <1>1, <1>4, <2>2, <2>3
<1>7. CASE i \notin DOMAIN Areas /\ i \notin ChasMeasures
  <2>1. PICK year : r = PictureRequest(key.entity, year)
    BY <1>7 DEF HudReadOf
  <2>2. r.page = "picture" /\ r.id = key.entity
    BY <2>1 DEF PictureRequest
  <2>3. cited.page = "picture" /\ cited.id = key.entity /\ cited.year = p.year
        /\ cited.census = PictureCensus(p.year)
    BY <1>7 DEF HudSource, PictureRequest
  <2> QED BY <1>1, <1>4, <2>2, <2>3
<1> QED BY <1>5, <1>6, <1>7

\* An observation is what is read of a page HUD answered to one of the requests.
LEMMA HudObserved ==
  ASSUME NEW i, NEW key, NEW o, NEW g, o.start \in Int, o.end \in Int, HudRead(g),
         NEW k \in DOMAIN HudSeries(i, key, o, g).observations
  PROVE  \E r : \E when \in 0 .. released : \E p \in HudAnswer(r, when) :
           /\ HudReadOf(i, key, r)
           /\ HudSeries(i, key, o, g).observations[k]
                = [year |-> p.year, period |-> Annual, value |-> HudValue(i, p, key.pick)]
<1> DEFINE s == HudSeries(i, key, o, g)
           reads == HudReads(i, key, o, g)
           at == {n \in DOMAIN reads : Observed(i, key, g, reads[n])}
           kept == Keeping(reads, at)
           page(r) == CHOOSE p \in g[r] : TRUE
           x == s.observations[k]
<1>1. s.observations = [n \in DOMAIN kept |->
        [year |-> page(kept[n]).year, period |-> Annual, value |-> HudValue(i, page(kept[n]), key.pick)]]
  BY DEF HudSeries
<1>2. PICK m \in Nat : DOMAIN reads = 1 .. m
  BY HudReadsListed
<1>3. \A n \in DOMAIN reads : HudReadOf(i, key, reads[n])
  BY HudReadsOwn
<1>4. at \subseteq DOMAIN reads /\ \A n \in at : Observed(i, key, g, reads[n])
  OBVIOUS
<1> HIDE DEF reads, at, s
<1>5. at \in SUBSET Nat /\ IsFiniteSet(at)
  <2>1. IsFiniteSet(1 .. m) /\ 1 .. m \in SUBSET Nat
    BY ONLY m \in Nat, FS_Interval
  <2> QED BY ONLY <1>2, <1>4, <2>1, FS_Subset
<1>6. \A n \in DOMAIN kept : \E a \in at : kept[n] = reads[a]
  BY <1>5, KeepingLists
<1> HIDE DEF kept
<1>7. k \in DOMAIN kept
  BY <1>1 DEF s
<1>8. PICK a \in at : kept[k] = reads[a]
  BY <1>6, <1>7
<1> DEFINE r == reads[a]
           p == page(r)
<1>9. HudReadOf(i, key, r) /\ r \in DOMAIN g /\ p \in g[r]
  BY <1>3, <1>4 DEF Observed
<1>10. PICK when \in 0 .. released : g[r] = HudAnswer(r, when)
  BY <1>9 DEF HudRead
<1>11. x = [year |-> p.year, period |-> Annual, value |-> HudValue(i, p, key.pick)]
  BY <1>1, <1>7, <1>8
<1> HIDE DEF r, p, x
<1>12. p \in HudAnswer(r, when)
  BY <1>9, <1>10
<1> QED BY <1>9, <1>11, <1>12 DEF x, s

LEMMA HudCited ==
  ASSUME NEW i \in HudIndicators, NEW key, i \in DOMAIN Areas => EntityIsNew(key.entity),
         NEW o, NEW g, o.start \in Int, o.end \in Int, HudRead(g), released \in Nat,
         NEW k \in DOMAIN HudSeries(i, key, o, g).observations
  PROVE  ReadsBack(i, key, HudSeries(i, key, o, g).observations[k])
<1> DEFINE x == HudSeries(i, key, o, g).observations[k]
<1>1. PICK r : \E when \in 0 .. released : \E p \in HudAnswer(r, when) :
        /\ HudReadOf(i, key, r)
        /\ x = [year |-> p.year, period |-> Annual, value |-> HudValue(i, p, key.pick)]
  BY HudObserved
<1>2. PICK when \in 0 .. released : \E p \in HudAnswer(r, when) :
        x = [year |-> p.year, period |-> Annual, value |-> HudValue(i, p, key.pick)]
  BY <1>1
<1>3. PICK p \in HudAnswer(r, when) :
        x = [year |-> p.year, period |-> Annual, value |-> HudValue(i, p, key.pick)]
  BY <1>2
<1> HIDE DEF x
<1>4. x.year = p.year /\ x.value = HudValue(i, p, key.pick)
  BY <1>3
<1>5. p \in HudAnswer(HudSource(i, key, p.year), released)
  BY <1>1, HudFoundAgain
<1>6. Hud(i)
  BY DEF Hud
<1>7. p \in AgencyAnswer(i, Followed(i, SourceOf(i, key, x), x), released)
  <2>1. i \notin CensusIndicators
    BY <1>6, OnlyCensus
  <2>2. Followed(i, SourceOf(i, key, x), x) = HudSource(i, key, p.year)
    BY <1>4, <1>6, <2>1 DEF Followed, SourceOf
  <2> QED BY <1>5, <1>6, <2>2 DEF AgencyAnswer
<1>8. ReadsBack(i, key, x)
  BY <1>4, <1>6, <1>7 DEF ReadsBack
<1> QED BY <1>8 DEF x

LEMMA BeaCited ==
  ASSUME NEW i, Bea(i), ~Hud(i), NEW key, NEW rows, BeaFits(rows, key), NEW x, x.value # Null,
         NEW r \in rows, x = BeaObservation(r)
  PROVE  ReadsBack(i, key, x)
<1>1. /\ r \in BeaRows /\ r.release <= released /\ r.table = key.table /\ r.line = key.line
      /\ r.geo = key.geo /\ r.year \in Nat \ {0}
  BY BeaAssumption DEF BeaFits
<1>2. x.year = r.year /\ x.value = r.value
  BY DEF BeaObservation
<1> DEFINE cited == BeaSource(key, x.year)
<1>3. /\ cited.table = key.table /\ cited.line = key.line /\ cited.geos = {key.geo}
      /\ cited.years = {r.year}
  BY <1>2 DEF BeaSource
<1>4. cited.years # {Latest}
  BY <1>1, <1>3 DEF Latest
<1> HIDE DEF cited
<1>5. r \in BeaAnswer(cited, released)
  BY <1>1, <1>3, <1>4 DEF BeaAnswer, BeaVisible
<1>6. ~Qcew(i) /\ i \notin CensusIndicators
  BY OneAgency, OnlyCensus
<1>7. r \in AgencyAnswer(i, Followed(i, SourceOf(i, key, x), x), released)
  BY <1>5, <1>6 DEF AgencyAnswer, Followed, SourceOf, cited
<1> QED BY <1>2, <1>6, <1>7 DEF ReadsBack

LEMMA BlsCited ==
  ASSUME NEW i, Bls(i), ~Hud(i), ~Bea(i), NEW key, NEW x, x.value # Null,
         NEW r \in BlsRows, r.series = key, r.release <= released, x = BlsObservation(r)
  PROVE  ReadsBack(i, key, x)
<1>1. x.year = r.year /\ x.value = r.value
  BY DEF BlsObservation
<1> DEFINE cited == BlsSource(key, x.year)
<1>2. cited.series = {key} /\ cited.years = {r.year}
  BY <1>1 DEF BlsSource, BlsRequest
<1> HIDE DEF cited
<1>3. r \in BlsAnswer(cited, released)
  BY <1>2 DEF BlsAnswer, BlsVisible
<1>4. ~Qcew(i) /\ i \notin CensusIndicators
  BY OneAgency, OnlyCensus
<1>5. r \in AgencyAnswer(i, Followed(i, SourceOf(i, key, x), x), released)
  BY <1>3, <1>4 DEF AgencyAnswer, Followed, SourceOf, cited
<1> QED BY <1>1, <1>4, <1>5 DEF ReadsBack

LEMMA QcewCited ==
  ASSUME NEW i, Qcew(i), ~Hud(i), ~Bea(i), ~Bls(i), NEW key, NEW x, NEW p, released \in Nat,
         QcewReadAt(i, key, x, p), QcewPeriod(p, key.annual), key.annual \in BOOLEAN
  PROVE  ReadsBack(i, key, x)
<1>1. PICK r : /\ \E when \in 0 .. released : r \in QcewRow(key, QcewAnswer(QcewRequest(key.area, p), when))
               /\ r.period = p /\ x = QcewObservation(i, r)
  BY DEF QcewReadAt
<1>2. PICK when \in 0 .. released : r \in QcewAnswer(QcewRequest(key.area, p), when)
  BY <1>1 DEF QcewRow
<1>3. r \in QcewRows /\ r.release <= when /\ r.area = key.area /\ r.release \in Nat
  BY <1>2, QcewAssumption DEF QcewAnswer, QcewVisible, QcewRequest
<1>4. r.release <= released
  BY <1>3
<1>5. x.year = p[1] /\ x.period = (IF p[2] = 0 THEN Annual ELSE p[2]) /\ x.value = QcewValue(i, r)
  BY <1>1 DEF QcewObservation
<1> DEFINE cited == QcewSource(key, x)
<1>6. cited.area = key.area /\ cited.period = p
  <2>1. cited.period = <<x.year, IF key.annual THEN 0 ELSE x.period>> /\ cited.area = key.area
    BY DEF QcewSource, QcewRequest
  <2> HIDE DEF cited
  <2> QED BY <1>5, <2>1 DEF QcewPeriod
<1> HIDE DEF cited
<1>7. r \in QcewAnswer(cited, released)
  BY <1>1, <1>3, <1>4, <1>6 DEF QcewAnswer, QcewVisible
<1>8. SourceOf(i, key, x) = cited
  BY DEF SourceOf, cited
<1>9. i \notin CensusIndicators
  BY OnlyCensus
<1>10. Followed(i, cited, x) = cited
  BY <1>9 DEF Followed
<1>11. r \in AgencyAnswer(i, cited, released)
  BY <1>7 DEF AgencyAnswer
<1> QED BY <1>1, <1>5, <1>6, <1>8, <1>10, <1>11 DEF ReadsBack

LEMMA CensusCited ==
  ASSUME NEW i \in CensusIndicators, NEW key, NEW g,
         \A n \in DOMAIN CensusReads(key, g) : CensusReads(key, g)[n] \in DOMAIN g,
         CensusRead(g), released \in Nat,
         NEW k \in DOMAIN CensusSeries(i, key, g).observations,
         CensusSeries(i, key, g).observations[k].value # Null
  PROVE  ReadsBack(i, key, CensusSeries(i, key, g).observations[k])
<1> DEFINE s == CensusSeries(i, key, g)
           x == s.observations[k]
           reads == CensusReads(key, g)
           asked == reads[Len(reads)]
           rows == g[asked]
           of(r) == IF i \in AcsIndicators THEN AcsObservation(r) ELSE CountObservation(r)
           fell == IF Len(reads) = 2 THEN {<<"five_shown">>} ELSE {}
           r0 == CHOOSE r \in rows : TRUE
           y == [of(r0) EXCEPT !.footnotes = @ \cup fell]
<1>1. s.observations = IF rows = {} THEN <<>> ELSE << y >>
  BY DEF CensusSeries
<1>2. rows # {} /\ x = y
  <2> HIDE DEF rows, y, s
  <2>1. k \in DOMAIN s.observations
    BY DEF s
  <2> QED BY <1>1, <2>1
<1>3. r0 \in rows
  BY <1>2
<1>4. /\ i \in AcsIndicators => x.value = Estimate(r0) /\ x.footnotes = Footnotes(r0) \cup fell
      /\ i \notin AcsIndicators => x.value = r0.estimate /\ x.footnotes = {<<"count">>} \cup fell
  <2> HIDE DEF r0, fell, x
  <2>1. CASE i \in AcsIndicators
    <3>1. x = [AcsObservation(r0) EXCEPT !.footnotes = @ \cup fell]
      BY <1>2, <2>1
    <3> QED BY <2>1, <3>1 DEF AcsObservation
  <2>2. CASE i \notin AcsIndicators
    <3>1. x = [CountObservation(r0) EXCEPT !.footnotes = @ \cup fell]
      BY <1>2, <2>2
    <3> QED BY <2>2, <3>1 DEF CountObservation
  <2> QED BY <2>1, <2>2
<1>5. x.value = r0.estimate
  <2>1. x.value # Null
    OBVIOUS
  <2> HIDE DEF r0, x
  <2> QED BY <1>4, <2>1 DEF Estimate
<1>6. /\ \/ asked = key /\ fell = {}
         \/ asked = AsFive(key) /\ key.product = "1-year" /\ fell = {<<"five_shown">>}
      /\ asked \in DOMAIN g
  <2>1. CASE reads = <<key>>
    <3>1. Len(reads) = 1 /\ 1 \in DOMAIN reads /\ reads[1] = key
      BY <2>1
    <3> HIDE DEF reads
    <3> QED BY <3>1 DEF reads
  <2>2. CASE reads = <<key, AsFive(key)>> /\ key.product = "1-year"
    <3>1. Len(reads) = 2 /\ 2 \in DOMAIN reads /\ reads[2] = AsFive(key)
      BY <2>2
    <3> HIDE DEF reads
    <3> QED BY <2>2, <3>1 DEF reads
  <2> QED BY <2>1, <2>2 DEF CensusReads
<1>7. PICK when \in 0 .. released : rows = CensusAnswer(asked, when)
  BY <1>6 DEF CensusRead
<1> HIDE DEF rows, asked, r0, x, fell
<1>8. r0 \in CensusAnswer(asked, released)
  BY <1>3, <1>7, CensusAssumption DEF CensusAnswer, CensusVisible
<1>9. <<"five_shown">> \in x.footnotes <=> <<"five_shown">> \in fell
  <2>1. <<"five_shown">> \notin Footnotes(r0) /\ <<"five_shown">> \notin {<<"count">>}
    BY DEF Footnotes
  <2> QED BY <1>4, <2>1
<1>10. Followed(i, key, x) = asked
  BY <1>6, <1>9 DEF Followed
<1>11. ~Hud(i) /\ ~Bea(i) /\ ~Bls(i) /\ ~Qcew(i)
  BY OnlyCensus
<1>12. SourceOf(i, key, x) = key
  BY <1>11 DEF SourceOf
<1>13. r0 \in AgencyAnswer(i, Followed(i, SourceOf(i, key, x), x), released)
  BY <1>8, <1>10, <1>11, <1>12 DEF AgencyAnswer
<1>14. ReadsBack(i, key, x)
  BY <1>5, <1>11, <1>13 DEF ReadsBack
<1> QED BY <1>14 DEF x, s

\* The code of a place with HUD areas is an entity of the catalog.
AreaRow(c, row) == row.status = "ok" => \E id : row.code \in FmrEntity(c, id)

LEMMA AreaCoded ==
  ASSUME NEW c, NEW ask, ask.indicator \in DOMAIN Areas
  PROVE  \A n \in DOMAIN Plan(c, ask).rows : AreaRow(c, Plan(c, ask).rows[n])
<1> DEFINE i == ask.indicator
<1>1. Hud(i) /\ i \notin CensusIndicators
  <2>1. Hud(i)
    BY DEF Hud, HudIndicators
  <2> QED BY <2>1, OnlyCensus
<1>2. /\ \A id : AgencyCode(c, i, id) = FmrEntity(c, id)
      /\ \A id : \A s \in Fallback(c, i, id) : \E p : s.code \in FmrEntity(c, p)
  BY <1>1 DEF AgencyCode, HudCode, Fallback, HudFallback
<1>3. ASSUME NEW r, NEW dims, NEW id
      PROVE  AreaRow(c, ResolvedAt(c, i, r, dims, id, AgencyCode(c, i, id)))
  <2>1. \A st, pl, re, cd, ca : Resolved(r, st, pl, re, cd, ca).status = st /\ Resolved(r, st, pl, re, cd, ca).code = cd
    BY DEF Resolved
  <2>2. CASE AgencyCode(c, i, id) # {}
    <3>1. ThePick(AgencyCode(c, i, id)) \in FmrEntity(c, id)
      BY <1>2, <2>2, Chosen
    <3> QED BY <2>1, <2>2, <3>1 DEF ResolvedAt, AreaRow
  <2>3. CASE AgencyCode(c, i, id) = {} /\ Fallback(c, i, id) # {}
    <3>1. \E p : ThePick(Fallback(c, i, id)).code \in FmrEntity(c, p)
      BY <1>2, <2>3, Chosen
    <3> QED BY <2>1, <2>3, <3>1 DEF ResolvedAt, AreaRow
  <2>4. CASE AgencyCode(c, i, id) = {} /\ Fallback(c, i, id) = {}
    BY <2>1, <2>4 DEF ResolvedAt, AreaRow
  <2> QED BY <2>2, <2>3, <2>4
<1>4. \A q, dims : AreaRow(c, Resolution(c, i, q, dims))
  <2>1. ASSUME NEW r, NEW dims PROVE AreaRow(c, ResolutionOf(c, i, r, dims))
    <3>1. \A st : st # "ok" => AreaRow(c, Resolved(r, st, <<>>, <<>>, <<>>, {}))
      BY DEF Resolved, AreaRow
    <3> QED BY <1>3, <3>1 DEF ResolutionOf
  <2> QED BY <2>1 DEF Resolution
<1>5. \A dims, found : PlanFound(c, ask, dims, found).rows = found
  BY <1>1 DEF PlanFound, PlanMet, PlanOf, Aligned
<1>6. Plan(c, ask).rows = [n \in DOMAIN ask.places |-> Resolution(c, i, ask.places[n], Selection(i, ask.dims))]
  BY <1>5 DEF Plan, PlanAsked
<1> QED BY <1>4, <1>6

\* The entity of a series with HUD areas is new only where HUD's pages are.
LEMMA AreaKeyed ==
  ASSUME IInv, reply.kind \in {"get", "compare"}, NewIdsAreNew(open), call.ask.indicator \in DOMAIN Areas,
         NEW k \in DOMAIN call.keys
  PROVE  EntityIsNew(call.keys[k].entity)
<1> DEFINE i == call.ask.indicator
<1>1. PICK top \in Nat : DOMAIN call.ask.places = 1 .. top
  BY RepliedTo
<1>2. call = Plan(open, call.ask) /\ ~call.refused
  BY RepliedTo
<1>3. Hud(i) /\ ~NationalScope(i)
  BY DEF Hud, HudIndicators, Areas, NationalScope
<1>4. PlanIsFull(call, call.ask)
  BY <1>1, <1>2, PlanHas
<1>5. PICK n \in DOMAIN call.rows : /\ call.rows[n].status = "ok"
                                    /\ call.keys[k] = PlanKey(call, call.ask, call.rows[n].code)
  BY <1>3, <1>4 DEF PlanIsFull
<1>6. call.keys[k].entity = call.rows[n].code
  BY <1>3, <1>5 DEF PlanKey, SeriesKey, HudKey
<1>7. AreaRow(open, call.rows[n])
  BY <1>2, AreaCoded
<1>8. PICK id : call.keys[k].entity \in FmrEntity(open, id)
  BY <1>5, <1>6, <1>7 DEF AreaRow
<1> DEFINE entity == call.keys[k].entity
           old == CodeOf(open, id, "GEOID2020") \ {Tail(id)}
<1>9. ASSUME entity[2] # <<>>
      PROVE  entity[1] = Tail(id) /\ old # {}
  <2>1. CASE entity = << <<id[2], id[3], CountySuffix>>, <<>> >>
    BY <1>9, <2>1
  <2>2. CASE entity = <<Tail(id), IF old = {} THEN <<>> ELSE CHOOSE h \in old : TRUE>>
    <3> DEFINE before == IF old = {} THEN <<>> ELSE CHOOSE h \in old : TRUE
    <3>1. entity[1] = Tail(id) /\ entity[2] = before
      BY <2>2
    <3> QED BY <1>9, <3>1
  <2> QED BY <1>8, <2>1, <2>2 DEF FmrEntity
<1>10. ASSUME entity[2] # <<>>
       PROVE  \E h \in open.codes : h.id = id /\ h.program = "GEOID2020" /\ h.code # Tail(id)
  BY <1>9, <1>10 DEF CodeOf, CodesOf
<1> HIDE DEF entity, old
<1>11. EntityIsNew(entity)
  BY <1>9, <1>10 DEF EntityIsNew, NewIdsAreNew
<1> QED BY <1>11 DEF entity

\* Every figure of a series is read again at its source.
LEMMA SeriesCited ==
  ASSUME IInv, reply.kind \in {"get", "compare"}, NewIdsAreNew(open), NEW k \in DOMAIN call.keys,
         NEW m \in DOMAIN SeriesOf(call.ask.indicator, call.keys, k, Options(call.ask), got).observations,
         NEW x, x = SeriesOf(call.ask.indicator, call.keys, k, Options(call.ask), got).observations[m],
         x.value # Null
  PROVE  ReadsBack(call.ask.indicator, call.keys[k], x)
<1> DEFINE i == call.ask.indicator
           o == Options(call.ask)
           key == call.keys[k]
           s == SeriesOf(i, call.keys, k, o, got)
<1>1. AgencyRead(i, call.keys, o, got)
  BY CallRead
<1>2. o.start \in Int /\ o.end \in Int /\ released \in Nat
  BY OptionsTyped, IsReleased
<1>3. PICK top \in Nat : DOMAIN call.keys = 1 .. top /\ Len(call.keys) = top
  BY CallKeyed
<1>4. PICK code : key = SeriesKey(i, code, call.dims, call.ask.adjusted)
  BY CallKeyed
<1>5. i \in DOMAIN Areas => EntityIsNew(key.entity)
  BY AreaKeyed
<1>6. m \in DOMAIN s.observations /\ x = s.observations[m]
  OBVIOUS
<1> HIDE DEF i, o
<1>7. CASE Hud(i)
  <2>1. HudRead(got) /\ s = HudSeries(i, key, o, got) /\ i \in HudIndicators
    BY <1>1, <1>7 DEF AgencyRead, SeriesOf, Hud
  <2>2. ReadsBack(i, key, x)
    BY <1>2, <1>5, <1>6, <2>1, HudCited
  <2> QED BY <2>2 DEF i
<1>8. CASE Bea(i) /\ ~Hud(i)
  <2>1. BeaWanted(i, call.keys, o, got) = {} /\ BeaRead(got)
    BY <1>1, <1>8, OneAgency DEF AgencyRead
  <2> DEFINE rows == BeaRowsOf(i, call.keys, k, o, got)
  <2>2. s.observations = BeaSeries(i, call.keys, k, o, got).observations
    BY <1>8 DEF SeriesOf
  <2>3. BeaFits(rows, key)
    BY <1>2, <1>3, <2>1, BeaRowsRead
  <2>4. ShowsRows(s.observations, rows)
    BY <2>2, <2>3, BeaShows
  <2> HIDE DEF rows, s
  <2>5. PICK r \in rows : x = BeaObservation(r)
    BY <1>6, <2>4 DEF ShowsRows, ToSet
  <2>6. ReadsBack(i, key, x)
    BY <1>8, <2>3, <2>5, BeaCited
  <2> QED BY <2>6 DEF i
<1>9. CASE Bls(i) /\ ~Hud(i) /\ ~Bea(i)
  <2>1. BlsWanted(call.keys, o, got) = {} /\ BlsRead(got)
    BY <1>1, <1>9, OneAgency DEF AgencyRead
  <2> DEFINE rows == BlsRowsOf(call.keys, k, o, got)
  <2>2. s.observations = BlsSeries(i, call.keys, k, o, got).observations
    BY <1>9 DEF SeriesOf
  <2>3. /\ rows \in SUBSET BlsRows
        /\ \A r \in rows : r.series = key /\ r.year \in o.start .. o.end /\ r.release <= released
        /\ ShowsBls(BlsSeries(i, call.keys, k, o, got).observations, rows)
    BY <1>2, <1>3, <2>1, BlsShows
  <2> HIDE DEF rows, s
  <2>4. ShowsBls(s.observations, rows)
    BY <2>2, <2>3
  <2>5. PICK r \in rows : x = BlsObservation(r)
    BY <1>6, <2>4 DEF ShowsBls, ToSet
  <2>6. ReadsBack(i, key, x)
    BY <1>9, <2>3, <2>5, BlsCited
  <2> QED BY <2>6 DEF i
<1>10. CASE Qcew(i) /\ ~Hud(i) /\ ~Bea(i) /\ ~Bls(i)
  <2>1. QcewWanted(call.keys, o, got) = {} /\ QcewRead(got)
    BY <1>1, <1>10, OneAgency DEF AgencyRead
  <2>2. key.annual \in BOOLEAN
    BY <1>4, <1>10 DEF SeriesKey, QcewKey
  <2>3. \A n \in DOMAIN QcewReads(key, o) : QcewReads(key, o)[n] \in DOMAIN got
    BY <1>3, <2>1, QcewAnswered
  <2>4. s = QcewSeries(i, key, o, got)
    BY <1>10 DEF SeriesOf
  <2> DEFINE c == CandidatePeriods(o, key.annual)
  <2>5. \A n \in DOMAIN s.observations : \E h \in DOMAIN c : QcewReadAt(i, key, s.observations[n], c[h])
    BY <1>2, <2>1, <2>2, <2>3, <2>4, QcewShows
  <2>6. \A h \in DOMAIN c : QcewPeriod(c[h], key.annual)
    BY <1>2, <2>2, QcewPeriods
  <2> HIDE DEF s, c
  <2>7. PICK h \in DOMAIN c : QcewReadAt(i, key, x, c[h])
    BY <1>6, <2>5
  <2>8. ReadsBack(i, key, x)
    BY <1>2, <1>10, <2>2, <2>6, <2>7, QcewCited
  <2> QED BY <2>8 DEF i
<1>11. CASE ~Hud(i) /\ ~Bea(i) /\ ~Bls(i) /\ ~Qcew(i)
  <2>1. i \in CensusIndicators /\ CensusWanted(call.keys, got) = {} /\ CensusRead(got)
    BY <1>1, <1>11 DEF AgencyRead
  <2>2. s = CensusSeries(i, key, got)
    BY <1>11 DEF SeriesOf
  <2>3. \A n \in DOMAIN CensusReads(key, got) : CensusReads(key, got)[n] \in DOMAIN got
    BY <1>3, <2>1, CensusAnswered
  <2> HIDE DEF s, key
  <2>4. ReadsBack(i, key, x)
    BY <1>2, <1>6, <2>1, <2>2, <2>3, CensusCited
  <2> QED BY <2>4 DEF i, key
<1> QED BY <1>7, <1>8, <1>9, <1>10, <1>11

\* Whoever follows the source a row cites reads the figure shown, whatever was
\* published since (sourceFor): of a town recoded since 2020, the catalog knows
\* both ids, and HUD has no page under the new one for a year cited under the old.
THEOREM CitedIsFound == Spec => []CitedIsRead
<1>1. IInv /\ BuildInv /\ Phases /\ OpenIsLive => CitedIsRead
  <2> SUFFICES ASSUME IInv, BuildInv, Phases, OpenIsLive, NEW n \in Shown
               PROVE  ReadsBack(call.ask.indicator, Answer[n].key[1], Answer[n].latest)
                      /\ Answer[n].source = {SourceOf(call.ask.indicator, Answer[n].key[1], Answer[n].latest)}
    BY DEF CitedIsRead, ReadsBack
  <2>1. reply.kind \in {"get", "compare"}
    BY DEF Shown, Answer
  <2>2. NewIdsAreNew(open)
    BY <2>1, RepliedTo, Recoded DEF IInv, CallIsAsked
  <2>3. PICK k \in DOMAIN call.keys : ShownOf(n, k)
    BY <2>1, ShownWhence
  <2> DEFINE i == call.ask.indicator
             s == SeriesOf(i, call.keys, k, Options(call.ask), got)
             x == Answer[n].latest
  <2>4. Timed(s)
    BY <2>1, SeriesTimed
  <2>5. PICK m \in DOMAIN s.observations : x = s.observations[m]
    <3>1. \/ s.observations # <<>> /\ x = s.observations[1]
          \/ \E m \in DOMAIN s.observations : x = s.observations[m]
      BY <2>3 DEF ShownOf
    <3> HIDE DEF s, x
    <3> QED BY <2>4, <3>1 DEF Timed
  <2>6. x.value # Null
    BY DEF Shown
  <2>7. Answer[n].key[1] = call.keys[k] /\ Answer[n].source = {SourceOf(i, call.keys[k], x)}
    BY <2>3 DEF ShownOf
  <2>8. ReadsBack(i, call.keys[k], x)
    BY <2>1, <2>2, <2>5, <2>6, SeriesCited
  <2> QED BY <2>7, <2>8
<1> QED BY <1>1, InvAlways, Opened, PTL

-----------------------------------------------------------------------------
(* What is listed.                                                         *)

\* One place is resolved for a list, and every indicator of the server is
\* looked up there.
LEMMA ListedAt ==
  ASSUME IInv, reply.kind = "list", reply.of.status = "ok"
  PROVE  LET c == open
             i == call.ask.indicator
             found == ResolvePlace(c, call.ask.places[1])
         IN /\ found.status # "ambiguous" /\ found.candidates # <<>>
            /\ reply.of.list = {ListAt(c, j, found.candidates[1]) : j \in SameServer(i)}
<1> DEFINE ask == call.ask
           r == {ResolvePlace(open, ask.places[n]) : n \in DOMAIN ask.places}
           found == ResolvePlace(open, ask.places[1])
<1>1. call # None /\ Tool = "list" /\ reply.of = ListFound(open, ask.indicator, r)
  BY DEF IInv, ReplyIsMade, None, Error, ListIndicators
<1>2. DOMAIN ask.places \subseteq {1}
  <2>1. PICK n \in DOMAIN Asks : ask = Asks[n]
    BY <1>1, AskOf
  <2>2. ask.places \in Seq(ToSet(ask.places)) /\ Len(ask.places) <= 1
    BY <1>1, <2>1, AnswersAssumption DEF Tool
  <2>3. Len(ask.places) \in Nat /\ DOMAIN ask.places = 1 .. Len(ask.places)
    BY <2>2
  <2> QED BY <2>2, <2>3
<1>3. r \subseteq {found}
  BY <1>2
<1> HIDE DEF r
<1>4. r # {}
  BY <1>1 DEF ListFound
<1>5. ThePick(r) = found
  BY <1>3, <1>4, Chosen
<1> HIDE DEF found
<1> DEFINE pick == ThePick(r)
<1>6. pick.status # "ambiguous" /\ pick.candidates # <<>>
  BY <1>1, <1>4 DEF ListFound
<1>7. reply.of.list = {ListAt(open, j, pick.candidates[1]) : j \in SameServer(ask.indicator)}
  <2>1. reply.of = [status |-> "ok", candidates |-> << pick.candidates[1] >>, passed |-> pick.passed,
                    list |-> {ListAt(open, j, pick.candidates[1]) : j \in SameServer(ask.indicator)}]
    BY <1>1, <1>4, <1>6 DEF ListFound
  <2> QED BY <2>1
<1>8. pick = found
  BY <1>5
<1> HIDE DEF pick
<1> QED BY <1>6, <1>7, <1>8 DEF found

\* list_indicators and get_indicator settle apart what answers for a place, and
\* agree: the place itself, the substitute named, or nothing.
THEOREM ListAgrees == Spec => []ListMatchesGet
<1>1. IInv => ListMatchesGet
  <2> SUFFICES ASSUME IInv, reply.kind = "list", reply.of.status = "ok", NEW e \in reply.of.list
               PROVE  LET row == Resolution(open, e.indicator, call.ask.places[1], Selection(e.indicator, <<>>))
                      IN (IF row.status = "ok" THEN {row.reported} ELSE {})
                         = e.fallback \cup (IF e.published THEN {row.place} ELSE {})
    BY DEF ListMatchesGet
  <2> DEFINE found == ResolvePlace(open, call.ask.places[1])
             top == found.candidates[1]
  <2>1. found.status # "ambiguous" /\ found.candidates # <<>>
    BY ListedAt
  <2>2. PICK j \in SameServer(call.ask.indicator) : e = ListAt(open, j, top)
    BY ListedAt
  <2> DEFINE dims == Selection(j, <<>>)
             direct == AgencyCode(open, j, top)
             others == Fallback(open, j, top)
             row == ResolvedAt(open, j, found, dims, top, direct)
  <2>3. e.indicator = j /\ e.published = (direct # {})
        /\ e.fallback = IF direct # {} \/ others = {} THEN {} ELSE {ThePick(others).id}
    BY <2>2 DEF ListAt, Listed, StandsIn
  <2>4. Resolution(open, j, call.ask.places[1], dims) = row
    BY <2>1 DEF Resolution, ResolutionOf
  <2> HIDE DEF found, top, direct, others, dims
  <2>5. CASE direct # {}
    <3>1. row.status = "ok" /\ row.reported = top /\ row.place = top
      BY <2>5 DEF ResolvedAt, Resolved
    <3> HIDE DEF row
    <3> QED BY <2>3, <2>4, <2>5, <3>1 DEF dims
  <2>6. CASE direct = {} /\ others # {}
    <3>1. row.status = "ok" /\ row.reported = ThePick(others).id
      BY <2>6 DEF ResolvedAt, Resolved, others
    <3> HIDE DEF row
    <3> QED BY <2>3, <2>4, <2>6, <3>1 DEF dims
  <2>7. CASE direct = {} /\ others = {}
    <3>1. row.status = "unavailable"
      BY <2>7 DEF ResolvedAt, Resolved, others
    <3> HIDE DEF row
    <3> QED BY <2>3, <2>4, <2>7, <3>1 DEF dims
  <2> QED BY <2>5, <2>6, <2>7
<1> QED BY <1>1, InvAlways, PTL

-----------------------------------------------------------------------------
(* Types.                                                                  *)

\* A catalog is served only of levels the tools know, a reply only while its
\* call is at hand, and the deploy and the agencies keep to their bounds.
THEOREM TypeCorrect == Spec => []AnswersTypeOK
<1>1. BuildInv /\ Phases => BuildTypeOK
  <2> SUFFICES ASSUME BuildInv, Phases PROVE BuildTypeOK
    OBVIOUS
  <2>1. faults \in 0 .. MaxFaults
    BY BuildAssumption DEF BuildInv, BuildTypes, Phases
  <2> QED BY <2>1 DEF BuildTypeOK, BuildInv, BuildTypes, Phases, Kinds
<1>2. ASSUME BuildInv, Phases, OpenIsLive, open # None PROVE \A id \in DOMAIN open.rows : id[1] \in Levels
  <2> DEFINE text == TextOf(live.read)
  <2>1. open = Assemble(text) /\ IsPublished(text)
    BY <1>2, TextIsPublished
  <2> HIDE DEF text
  <2>2. GeoidsAreSequences(text)
    BY <2>1, GeoidsPublished
  <2> QED BY <2>1, <2>2, EntityLevels
<1>3. IInv => /\ reply.kind \in {"none", "error", "get", "compare", "list", "raw"}
              /\ reply # None => call # None
              /\ call # None => open # None
              /\ released \in 0 .. Releases
  BY DEF IInv, CallIsAsked, ReplyIsMade, None, Error
<1>4. IInv /\ BuildInv /\ Phases /\ OpenIsLive => AnswersTypeOK
  BY <1>1, <1>2, <1>3 DEF AnswersTypeOK
<1> QED BY <1>4, InvAlways, Opened, PTL

-----------------------------------------------------------------------------
(* The place of a figure.                                                  *)

\* The code of a row is its agency's for the place, or for an area the row's
\* caveats name: BEA's combination, or the nonmetropolitan part of a state.
Combined(i) == Bea(i) /\ i # "regional_price_parity"
Named(c, i, code, areas) ==
  \/ \E id \in DOMAIN c.rows \cap areas :
       code \in AgencyCode(c, i, id) /\ (Combined(i) => Combination(c, id) \subseteq areas)
  \/ Bls(i) /\ code = NationCode /\ <<Nation>> \in areas
  \/ i = "regional_price_parity" /\ \E s : code = <<"PARPP", <<s, 999>>>> /\ <<s, 999>> \in areas

SaidOf(caveats) == {w[2] : w \in {v \in caveats : v[1] \in {"covers", "combined"}}}

LEMMA ParentsListed ==
  ASSUME NEW c, NEW id
  PROVE  /\ ParentsOf(c, id) \subseteq DOMAIN c.rows
         /\ \A level : \A p \in MainParent(c, id, level) : p \in DOMAIN c.rows /\ p[1] = level
BY DEF ParentsOf, EdgesUp, MainParent

\* What stands in for a place is in the catalog, and its caveat names it.
LEMMA SubstituteNamed ==
  ASSUME NEW c, NEW i, NEW id, NEW s \in Fallback(c, i, id), NEW areas, SaidOf(s.caveat) \subseteq areas
  PROVE  Named(c, i, s.code, areas)
<1>1. ASSUME NEW p, <<"covers", p>> \in s.caveat PROVE p \in areas
  <2> DEFINE w == <<"covers", p>>
  <2>1. w[1] = "covers" /\ w[2] = p /\ w \in s.caveat
    BY <1>1
  <2> HIDE DEF w
  <2> QED BY <2>1 DEF SaidOf
<1>2. ASSUME NEW p, <<"combined", p>> \in s.caveat PROVE p \in areas
  <2> DEFINE w == <<"combined", p>>
  <2>1. w[1] = "combined" /\ w[2] = p /\ w \in s.caveat
    BY <1>2
  <2> HIDE DEF w
  <2> QED BY <2>1 DEF SaidOf
<1>3. CASE Hud(i)
  <2>1. s \in HudFallback(c, i, id) /\ ~Bea(i) /\ i \in DOMAIN Areas
    BY <1>3, OneAgency DEF Fallback, HudFallback
  <2>2. PICK p : /\ \E level : p \in MainParent(c, id, level)
                 /\ s.code \in FmrEntity(c, p) /\ s.caveat = {<<"covers", p>>}
    BY <2>1 DEF HudFallback
  <2>3. p \in DOMAIN c.rows /\ p \in areas
    BY <1>1, <2>2, ParentsListed
  <2>4. s.code \in AgencyCode(c, i, p)
    BY <1>3, <2>1, <2>2 DEF AgencyCode, HudCode
  <2> QED BY <2>1, <2>3, <2>4 DEF Named, Combined
<1>4. CASE Bea(i) /\ ~Hud(i) /\ i # "regional_price_parity"
  <2>1. s \in BeaCountyFallback(c, id)
    BY <1>4 DEF Fallback, BeaFallback
  <2>2. PICK p \in MainParent(c, id, County) :
          s.code = CountyFips(c, p) /\ s.caveat = {<<"covers", p>>} \cup CombinedCaveat(c, p)
    BY <2>1 DEF BeaCountyFallback
  <2>3. p \in DOMAIN c.rows /\ p \in areas /\ p[1] = County
    <3>1. <<"covers", p>> \in s.caveat
      BY <2>2
    <3>2. p \in areas
      BY <1>1, <3>1
    <3>3. p \in DOMAIN c.rows /\ p[1] = County
      BY DEF MainParent, EdgesUp
    <3> QED BY <3>2, <3>3
  <2>4. Combination(c, p) \subseteq areas
    BY <1>2, <2>2 DEF CombinedCaveat
  <2>5. s.code \in AgencyCode(c, i, p)
    BY <1>4, <2>2, <2>3 DEF AgencyCode, BeaCode
  <2> QED BY <2>3, <2>4, <2>5 DEF Named
<1>5. CASE Bea(i) /\ ~Hud(i) /\ i = "regional_price_parity"
  <2>1. s \in MetroFallback(c, id) \cup PortionFallback(c, id)
    BY <1>5 DEF Fallback, BeaFallback
  <2>2. CASE s \in MetroFallback(c, id)
    <3>1. PICK e \in c.edges : /\ e.parent \in DOMAIN c.rows /\ e.parent[1] = Metro
                               /\ s.code = <<"MARPP", Tail(e.parent)>> /\ s.caveat = {<<"covers", e.parent>>}
      <4> DEFINE county == IF id[1] = County THEN {} ELSE MainParent(c, id, County)
                 from == IF county = {} THEN id ELSE CHOOSE p \in county : TRUE
                 up == {e \in EdgesUp(c, from) : e.parent[1] = Metro /\ ~Micropolitan(c, e.parent)}
                 near == {f \in up : \A g \in up : g.share < f.share
                                       \/ (g.share = f.share /\ ~Before(g.parent, f.parent))}
      <4>1. s \in {[id |-> e.parent, code |-> <<"MARPP", Tail(e.parent)>>, caveat |-> {<<"covers", e.parent>>}] :
                     e \in near}
        BY <2>2 DEF MetroFallback
      <4>2. \A e \in near : e \in c.edges /\ e.parent \in DOMAIN c.rows /\ e.parent[1] = Metro
        BY DEF EdgesUp
      <4> HIDE DEF near
      <4>3. PICK e \in near :
              s = [id |-> e.parent, code |-> <<"MARPP", Tail(e.parent)>>, caveat |-> {<<"covers", e.parent>>}]
        BY <4>1
      <4>4. s.code = <<"MARPP", Tail(e.parent)>> /\ s.caveat = {<<"covers", e.parent>>}
        BY <4>3
      <4> QED BY <4>2, <4>4
    <3>2. e.parent \in areas
      BY <1>1, <3>1
    <3>3. s.code \in AgencyCode(c, i, e.parent)
      BY <1>5, <3>1 DEF AgencyCode, BeaCode
    <3> QED BY <1>5, <3>1, <3>2, <3>3 DEF Named, Combined
  <2>3. CASE s \in PortionFallback(c, id)
    <3>1. s.code = <<"PARPP", <<id[2], 999>>>> /\ s.caveat = {<<"covers", <<id[2], 999>>>>}
      BY <2>3 DEF PortionFallback
    <3>2. <<id[2], 999>> \in areas
      BY <1>1, <3>1
    <3> QED BY ONLY <1>5, <3>1, <3>2 DEF Named
  <2> QED BY <2>1, <2>2, <2>3
<1>6. CASE Bls(i)
  <2>1. s \in BlsFallback(c, i, id) /\ ~Hud(i) /\ ~Bea(i)
    BY <1>6, OneAgency DEF Fallback
  <2>2. CASE i \in LausIndicators
    <3>1. s \in LausFallback(c, id)
      BY <2>1, <2>2 DEF BlsFallback
    <3>2. PICK e \in EdgesUp(c, id) :
            /\ e.parent[1] = County /\ s.caveat = {<<"covers", e.parent>>}
            /\ s.code \in CodeOf(c, e.parent, "LAUS")
      BY <3>1 DEF LausFallback
    <3>3. e.parent \in DOMAIN c.rows /\ e.parent \in areas
      BY <1>1, <3>2 DEF EdgesUp
    <3>4. s.code \in AgencyCode(c, i, e.parent)
      BY <1>6, <2>1, <2>2, <3>2 DEF AgencyCode, BlsCode, LausIndicators, Nation, County
    <3> QED BY <2>1, <3>3, <3>4 DEF Named, Combined
  <2>3. CASE i = "cpi_all_items" /\ i \notin LausIndicators
    <3>1. s \in CpiFallback(c, id)
      BY <2>1, <2>3 DEF BlsFallback
    <3>2. \/ \E x : \E p \in ParentsOf(c, x) : s.caveat = {<<"covers", p>>} /\ s.code \in CodeOf(c, p, "CPI")
          \/ s.code = NationCode /\ s.caveat = {<<"covers", <<Nation>>>>}
      BY <3>1 DEF CpiFallback
    <3>3. CASE s.code = NationCode /\ s.caveat = {<<"covers", <<Nation>>>>}
      BY <1>1, <1>6, <3>3 DEF Named
    <3>4. ASSUME NEW x, NEW p \in ParentsOf(c, x), s.caveat = {<<"covers", p>>}, s.code \in CodeOf(c, p, "CPI")
          PROVE  Named(c, i, s.code, areas)
      <4>1. p \in DOMAIN c.rows /\ p \in areas
        BY <1>1, <3>4, ParentsListed
      <4>2. s.code \in AgencyCode(c, i, p)
        BY <1>6, <2>1, <2>3, <3>4 DEF AgencyCode, BlsCode
      <4> QED BY <2>1, <4>1, <4>2 DEF Named, Combined
    <3> QED BY <3>2, <3>3, <3>4
  <2> QED BY <2>1, <2>2, <2>3 DEF BlsFallback
<1> QED BY <1>3, <1>4, <1>5, <1>6 DEF Fallback

\* What a place is coded by: the agency's code, or that of what stands in.
Coded(c, i, row) ==
  row.status = "ok" =>
    \/ /\ row.place \in DOMAIN c.rows /\ row.code \in AgencyCode(c, i, row.place)
       /\ Combined(i) => row.caveats = CombinedCaveat(c, row.place)
    \/ \E s \in Fallback(c, i, row.place) : row.code = s.code /\ row.caveats = s.caveat

LEMMA RowCoded ==
  ASSUME NEW text, IsPublished(text), NEW ask
  PROVE  LET c == Assemble(text) IN
         \A n \in DOMAIN Plan(c, ask).rows : Coded(c, ask.indicator, Plan(c, ask).rows[n])
<1> DEFINE c == Assemble(text)
           i == ask.indicator
           dims == Selection(i, ask.dims)
           found == [n \in DOMAIN ask.places |-> Resolution(c, i, ask.places[n], dims)]
           IsRow(row) == {"status", "place", "code", "caveats"} \subseteq DOMAIN row
<1>1. ASSUME NEW q PROVE Coded(c, i, Resolution(c, i, q, dims)) /\ IsRow(Resolution(c, i, q, dims))
  <2> DEFINE r == ResolvePlace(c, q)
             id == r.candidates[1]
             direct == AgencyCode(c, i, id)
             found1 == Resolution(c, i, q, dims)
  <2>1. r.candidates # <<>> => id \in DOMAIN c.rows
    BY ResolvedIsListed
  <2>2. Resolution(c, i, q, dims) = ResolutionOf(c, i, r, dims)
    BY DEF Resolution
  <2>3. \A st, pl, re, cd, ca : LET row == Resolved(r, st, pl, re, cd, ca) IN
          IsRow(row) /\ row.status = st /\ row.place = pl /\ row.code = cd /\ row.caveats = ca
    BY DEF Resolved
  <2> HIDE DEF c, r, IsRow, dims
  <2>4. CASE r.status = "ambiguous" \/ r.candidates = <<>>
    <3>1. \E st : st # "ok" /\ found1 = Resolved(r, st, <<>>, <<>>, <<>>, {})
      BY <2>2, <2>4 DEF ResolutionOf
    <3> HIDE DEF found1
    <3> QED BY <2>3, <3>1 DEF Coded, found1
  <2>5. CASE r.status # "ambiguous" /\ r.candidates # <<>>
    <3> HIDE DEF id
    <3>1. found1 = ResolvedAt(c, i, r, dims, id, direct)
      BY <2>2, <2>5 DEF ResolutionOf, id
    <3> HIDE DEF found1
    <3>2. CASE direct # {}
      <4>1. found1 = Resolved(r, "ok", id, id, ThePick(direct), CaveatOf(c, i, id, dims))
        BY <3>1, <3>2 DEF ResolvedAt
      <4>2. ThePick(direct) \in AgencyCode(c, i, id)
        BY <3>2, Chosen
      <4>3. Combined(i) => CaveatOf(c, i, id, dims) = CombinedCaveat(c, id)
        BY OneAgency DEF Combined, CaveatOf, BeaCaveats
      <4> HIDE DEF direct
      <4>4. IsRow(found1) /\ Coded(c, i, found1)
        BY <2>1, <2>3, <2>5, <4>1, <4>2, <4>3 DEF Coded
      <4> QED BY <4>4 DEF found1
    <3>3. CASE direct = {} /\ Fallback(c, i, id) # {}
      <4> DEFINE s == ThePick(Fallback(c, i, id))
      <4>1. found1 = Resolved(r, "ok", id, s.id, s.code, s.caveat)
        BY <3>1, <3>3 DEF ResolvedAt
      <4>2. s \in Fallback(c, i, id)
        BY <3>3, Chosen
      <4> HIDE DEF direct, s
      <4>3. IsRow(found1) /\ Coded(c, i, found1)
        BY <2>3, <4>1, <4>2 DEF Coded
      <4> QED BY <4>3 DEF found1
    <3>4. CASE direct = {} /\ Fallback(c, i, id) = {}
      <4>1. found1 = Resolved(r, "unavailable", id, id, <<>>, {})
        BY <3>1, <3>4 DEF ResolvedAt
      <4> HIDE DEF direct
      <4>2. IsRow(found1) /\ Coded(c, i, found1)
        BY <2>3, <4>1 DEF Coded
      <4> QED BY <4>2 DEF found1
    <3> QED BY <3>2, <3>3, <3>4
  <2> QED BY <2>4, <2>5
<1>2. \A n \in DOMAIN found : Coded(c, i, found[n]) /\ IsRow(found[n])
  BY <1>1
<1> DEFINE met == IF ask.tool # "compare" THEN {}
                  ELSE Aligned(c, i, {found[n].place : n \in {m \in DOMAIN found : found[m].status = "ok"}}, dims)
<1>3. Plan(c, ask) = PlanMet(c, ask, dims, found, met)
  BY DEF Plan, PlanAsked, PlanFound
<1>4. i \notin CensusIndicators => met = {}
  BY DEF Aligned
<1> HIDE DEF c, found, met, IsRow, dims
<1>5. \A ds, rs : PlanOf(ask, ds, rs, met).rows = rs
  BY DEF PlanOf
<1>6. CASE met = {}
  <2>1. Plan(c, ask).rows = found
    BY <1>3, <1>5, <1>6 DEF PlanMet
  <2> QED BY <1>2, <2>1 DEF c
<1>7. CASE met # {}
  <2> DEFINE five == [dims EXCEPT !.product = "5-year"]
             again == [n \in DOMAIN found |->
                        IF found[n].status # "ok" THEN found[n]
                        ELSE [found[n] EXCEPT !.caveats = CaveatOf(c, i, found[n].place, five)]]
  <2>1. Plan(c, ask).rows = again
    BY <1>3, <1>5, <1>7 DEF PlanMet
  <2>2. ~Combined(i) /\ \A id : Fallback(c, i, id) = {}
    BY <1>4, <1>7, OnlyCensus DEF Combined, Fallback
  <2>3. ASSUME NEW n \in DOMAIN found PROVE Coded(c, i, again[n])
    <3>1. /\ again[n].status = found[n].status /\ again[n].place = found[n].place
          /\ again[n].code = found[n].code
      BY <1>2 DEF IsRow
    <3>2. Coded(c, i, found[n])
      BY <1>2
    <3> HIDE DEF again
    <3> QED BY <2>2, <3>1, <3>2 DEF Coded
  <2>4. DOMAIN again = DOMAIN found
    OBVIOUS
  <2> HIDE DEF again
  <2> QED BY <2>1, <2>3, <2>4 DEF c
<1> QED BY <1>6, <1>7

\* Of every row with a series, the code is of the place shown, or of an area
\* its caveats name.
LEMMA RowNamed ==
  ASSUME NEW text, IsPublished(text), NEW ask, NEW n \in DOMAIN Plan(Assemble(text), ask).rows,
         Plan(Assemble(text), ask).rows[n].status = "ok"
  PROVE  LET c == Assemble(text)
             row == Plan(c, ask).rows[n]
         IN Named(c, ask.indicator, row.code, Told(row))
<1> DEFINE c == Assemble(text)
           i == ask.indicator
           row == Plan(c, ask).rows[n]
           areas == Told(row)
<1>1. Coded(c, i, row) /\ row.status = "ok"
  BY RowCoded
<1>2. row.place \in areas /\ SaidOf(row.caveats) \subseteq areas
  BY DEF Told, SaidOf
<1> SUFFICES Named(c, i, row.code, areas)
  OBVIOUS
<1> HIDE DEF c, row, areas
<1>3. CASE /\ row.place \in DOMAIN c.rows /\ row.code \in AgencyCode(c, i, row.place)
           /\ Combined(i) => row.caveats = CombinedCaveat(c, row.place)
  <2>1. ASSUME Combined(i), NEW code \in Combination(c, row.place) PROVE code \in areas
    <3> DEFINE w == <<"combined", code>>
    <3>1. w[1] = "combined" /\ w[2] = code /\ w \in row.caveats
      BY <1>3, <2>1 DEF CombinedCaveat
    <3> HIDE DEF w
    <3> QED BY <1>2, <3>1 DEF SaidOf
  <2> QED BY <1>2, <1>3, <2>1 DEF Named
<1>4. CASE \E s \in Fallback(c, i, row.place) : row.code = s.code /\ row.caveats = s.caveat
  BY <1>2, <1>4, SubstituteNamed
<1> QED BY <1>1, <1>3, <1>4 DEF Coded

\* HUD's pages of an entity are of the place whose entity it is.
LEMMA HudNames ==
  ASSUME NEW text, IsPublished(text), NEW id \in DOMAIN Entities(text), NEW i \in HudIndicators,
         NEW key, key.entity \in HudCode(Assemble(text), i, id),
         NEW r, HudReadOf(i, key, r), NEW p \in HudPages, p.page = r.page, p.id = r.id
  PROVE  p.page = HudSource(i, key, Latest).page /\ p.area = id
<1> DEFINE c == Assemble(text)
           code == key.entity
<1>1. IdIsFormed(id)
  BY EntitiesFormed
<1>2. CASE i \in DOMAIN Areas
  <2> DEFINE page == Areas[i]
  <2>1. PICK year : r = AreaRequest(page, code, year)
    BY <1>2 DEF HudReadOf
  <2>2. /\ r.page = page /\ r.id = IdForYear(code, year, NewTownIdFrom[page])
        /\ page \in DOMAIN NewTownIdFrom /\ HudSource(i, key, Latest).page = page
    BY <1>2, <2>1 DEF AreaRequest, HudSource, Areas, NewTownIdFrom
  <2>3. code \in FmrEntity(c, id)
    BY <1>2 DEF HudCode
  <2>4. r.id = code[1] \/ (code[2] # <<>> /\ r.id = code[2])
    BY <2>2 DEF IdForYear
  <2> HIDE DEF page, code
  <2>5. CASE id[1] = County
    <3> DEFINE own == <<id[2], id[3], CountySuffix>>
    <3>1. code = <<own, <<>>>>
      BY <2>3, <2>5 DEF FmrEntity, County, Town
    <3>2. code[1] = own /\ code[2] = <<>>
      BY <3>1
    <3>3. p.id = own
      BY <2>4, <3>2
    <3>4. Len(own) = 3 /\ own[1] = id[2] /\ own[2] = id[3] /\ own[3] = CountySuffix
      OBVIOUS
    <3> HIDE DEF own
    <3>5. p.area = <<County, id[2], id[3]>>
      BY <2>2, <3>3, <3>4, HudCodesAssumption
    <3> QED BY <1>1, <2>2, <2>5, <3>5 DEF IdIsFormed
  <2>6. CASE id[1] = Town
    <3> DEFINE old == CodeOf(c, id, "GEOID2020") \ {Tail(id)}
               before == IF old = {} THEN <<>> ELSE CHOOSE h \in old : TRUE
    <3>1. code = <<Tail(id), before>>
      BY <2>3, <2>6 DEF FmrEntity, County, Town
    <3>2. code[1] = Tail(id) /\ code[2] = before
      BY <3>1
    <3>3. PICK t \in Rows("gaz060") :
            /\ id = <<Town>> \o t.geoid /\ Tail(id) = t.geoid
            /\ \A h \in CodeOf(c, id, "GEOID2020") : \E o \in Rows("cousubs2020") : o.gnis = t.gnis /\ h = o.geoid
      BY <2>6, TownCoded
    <3>4. before # <<>> => before \in CodeOf(c, id, "GEOID2020")
      OBVIOUS
    <3> HIDE DEF before, c
    <3>5. p.id \in {t.geoid} \cup {o.geoid : o \in {x \in Rows("cousubs2020") : x.gnis = t.gnis}}
      BY <2>4, <3>2, <3>3, <3>4
    <3>6. p.area = <<Town>> \o t.geoid
      BY <2>2, <3>5, HudCodesAssumption
    <3> QED BY <2>2, <3>3, <3>6
  <2> QED BY <2>3, <2>5, <2>6 DEF FmrEntity
<1>3. CASE i \notin DOMAIN Areas
  <2>1. /\ r.page \in {"chas", "picture"} /\ r.id = code
        /\ HudSource(i, key, Latest).page = r.page
    BY <1>3 DEF HudReadOf, HudSource, ChasRequest, PictureRequest
  <2>2. code = id
    BY <1>3 DEF HudCode, ChasEntity, PictureEntity
  <2>3. p.page \notin DOMAIN NewTownIdFrom
    BY <2>1 DEF NewTownIdFrom
  <2> QED BY <2>1, <2>2, <2>3, HudCodesAssumption
<1> QED BY <1>2, <1>3

LEMMA HudSays ==
  ASSUME NEW text, IsPublished(text), NEW i, Hud(i), NEW code, NEW areas, Named(Assemble(text), i, code, areas),
         NEW dims, NEW key, key = HudKey(i, code, dims), released \in Nat,
         NEW o, NEW g, o.start \in Int, o.end \in Int, HudRead(g),
         NEW k \in DOMAIN HudSeries(i, key, o, g).observations
  PROVE  Says(i, key, areas, HudSeries(i, key, o, g).observations[k])
<1> DEFINE x == HudSeries(i, key, o, g).observations[k]
<1>1. PICK r : \E when \in 0 .. released : \E p \in HudAnswer(r, when) :
        /\ HudReadOf(i, key, r)
        /\ x = [year |-> p.year, period |-> Annual, value |-> HudValue(i, p, key.pick)]
  BY ONLY o.start \in Int, o.end \in Int, HudRead(g), k \in DOMAIN HudSeries(i, key, o, g).observations,
          HudObserved
<1>2. PICK when \in 0 .. released : \E p \in HudAnswer(r, when) :
        x = [year |-> p.year, period |-> Annual, value |-> HudValue(i, p, key.pick)]
  BY <1>1
<1>3. PICK p \in HudAnswer(r, when) :
        x = [year |-> p.year, period |-> Annual, value |-> HudValue(i, p, key.pick)]
  BY <1>2
<1>4. p \in HudPages /\ p.page = r.page /\ p.id = r.id /\ p.release <= when
  BY DEF HudAnswer, HudVisible
<1>5. p \in HudVisible(released)
  BY <1>4, HudAssumption DEF HudVisible
<1>6. ~Bls(i) /\ i # "regional_price_parity" /\ i \in HudIndicators /\ key.entity = code
  BY OneAgency DEF Hud, HudKey, HudIndicators, Areas, PictureFields, ChasMeasures
<1>7. PICK id \in DOMAIN Entities(text) : id \in areas /\ code \in HudCode(Assemble(text), i, id)
  BY <1>6 DEF Named, AgencyCode, Assemble
<1>8. p.page = HudSource(i, key, Latest).page /\ p.area \in areas
  BY <1>1, <1>4, <1>6, <1>7, HudNames
<1> HIDE DEF x
<1>9. [year |-> x.year, period |-> x.period, value |-> x.value]
        = [year |-> p.year, period |-> Annual, value |-> HudValue(i, p, key.pick)]
  BY <1>3
<1>10. Says(i, key, areas, x)
  BY <1>5, <1>8, <1>9 DEF Says, Figures
<1> QED BY <1>10 DEF x

\* BEA's rows of a key are of the place of its code, or of an area named.
LEMMA BeaNames ==
  ASSUME NEW text, IsPublished(text), NEW i, Bea(i), ~Hud(i), NEW code, NEW areas,
         Named(Assemble(text), i, code, areas), NEW dims, NEW key, key = BeaKey(i, code, dims),
         NEW r \in BeaRows, r.table = key.table, r.geo = key.geo
  PROVE  r.area \in areas
<1> DEFINE c == Assemble(text)
<1>1. ~Bls(i)
  BY OneAgency
<1>2. /\ r.table = "MARPP" => r.area = <<Metro>> \o r.geo
      /\ r.table = "PARPP" => r.area = r.geo
      /\ r.table \notin {"MARPP", "PARPP"} =>
           /\ Len(r.geo) = 2 /\ r.geo[2] = 0 => r.area = <<State, r.geo[1]>>
           /\ r.geo \in {b.code : b \in Rows("bea")} => r.area = r.geo
           /\ r.geo \in {t.geoid : t \in Rows("gaz050")} => r.area = <<County>> \o r.geo
  BY BeaCodesAssumption
<1>3. \A s : LET g == <<s, 0>> IN Len(g) = 2 /\ g[2] = 0 /\ g[1] = s
  OBVIOUS
<1>4. ASSUME NEW id \in DOMAIN c.rows \cap areas, code \in AgencyCode(c, i, id),
             Combined(i) => Combination(c, id) \subseteq areas
      PROVE  r.area \in areas
  <2>1. IdIsFormed(id) /\ code \in BeaCode(c, i, id)
    BY <1>4, EntitiesFormed DEF Assemble, AgencyCode
  <2> HIDE DEF c
  <2>2. CASE i = "regional_price_parity"
    <3>1. r.table = code[1] /\ r.geo = code[2]
      BY <2>2 DEF BeaKey
    <3>2. CASE id[1] = Metro
      <4>1. code = <<"MARPP", Tail(id)>> /\ id = <<Metro, id[2]>> /\ Tail(id) = <<id[2]>>
        BY <2>1, <2>2, <3>2 DEF BeaCode, IdIsFormed
      <4>2. r.table = "MARPP" /\ r.geo = <<id[2]>>
        BY <3>1, <4>1
      <4>3. <<Metro>> \o <<id[2]>> = <<Metro, id[2]>>
        BY ONLY Joined
      <4>4. r.area = <<Metro>> \o <<id[2]>>
        BY <1>2, <4>2
      <4>5. r.area = id
        BY ONLY <4>1, <4>3, <4>4
      <4> QED BY <4>5
    <3>3. CASE id[1] = State
      <4> DEFINE g == <<id[2], 0>>
      <4>1. code = <<"SARPP", g>> /\ id = <<State, id[2]>>
        BY <2>1, <2>2, <3>3 DEF BeaCode, IdIsFormed, State, Metro
      <4>2. Len(g) = 2 /\ g[2] = 0 /\ g[1] = id[2]
        BY <1>3
      <4> HIDE DEF g
      <4>3. r.table = "SARPP" /\ r.geo = g
        BY <3>1, <4>1
      <4>4. r.area = id
        BY <1>2, <4>1, <4>2, <4>3
      <4> QED BY <4>4
    <3> QED BY <2>1, <2>2, <3>2, <3>3 DEF BeaCode
  <2>3. CASE i # "regional_price_parity"
    <3>1. r.geo = code /\ r.table \notin {"MARPP", "PARPP"}
      BY <2>3 DEF BeaKey
    <3>2. CASE id[1] = County /\ Combination(c, id) # {}
      <4>1. code \in Combination(c, id) /\ code \in areas
        BY <1>4, <2>1, <2>3, <3>2 DEF BeaCode, CountyFips, Combined
      <4>2. code \in {b.code : b \in Rows("bea")}
        BY <4>1, CombinedCoded DEF Combination, c
      <4> QED BY <1>2, <3>1, <4>1, <4>2
    <3>3. CASE id[1] = County /\ Combination(c, id) = {}
      <4>1. code = Tail(id)
        BY <2>1, <2>3, <3>3 DEF BeaCode, CountyFips
      <4>2. /\ id = <<County, id[2], id[3]>> /\ Tail(id) = <<id[2], id[3]>>
            /\ Tail(id) \in {t.geoid : t \in Rows("gaz050")}
        BY <2>1, <3>3 DEF IdIsFormed
      <4>3. r.area = <<County>> \o <<id[2], id[3]>>
        BY <1>2, <3>1, <4>1, <4>2
      <4>4. r.area = id
        BY <4>2, <4>3, Joined
      <4> QED BY <4>4
    <3>4. CASE id[1] = State
      <4> DEFINE g == <<id[2], 0>>
      <4>1. code = g /\ id = <<State, id[2]>>
        BY <2>1, <2>3, <3>4 DEF BeaCode, IdIsFormed, State, County
      <4>2. Len(g) = 2 /\ g[2] = 0 /\ g[1] = id[2]
        BY <1>3
      <4> HIDE DEF g
      <4>3. r.area = id
        BY <1>2, <3>1, <4>1, <4>2
      <4> QED BY <4>3
    <3> QED BY <2>1, <2>3, <3>2, <3>3, <3>4 DEF BeaCode
  <2> QED BY <2>2, <2>3
<1>5. ASSUME i = "regional_price_parity", NEW s, code = <<"PARPP", <<s, 999>>>>, <<s, 999>> \in areas
      PROVE  r.area \in areas
  <2>1. r.table = code[1] /\ r.geo = code[2]
    BY <1>5 DEF BeaKey
  <2>2. r.table = "PARPP" /\ r.geo = <<s, 999>>
    BY <1>5, <2>1
  <2> QED BY <1>2, <1>5, <2>2
<1>6. \/ \E id \in DOMAIN c.rows \cap areas :
           code \in AgencyCode(c, i, id) /\ (Combined(i) => Combination(c, id) \subseteq areas)
      \/ i = "regional_price_parity" /\ \E s : code = <<"PARPP", <<s, 999>>>> /\ <<s, 999>> \in areas
  BY <1>1 DEF Named
<1> HIDE DEF c
<1>7. CASE \E id \in DOMAIN c.rows \cap areas :
             code \in AgencyCode(c, i, id) /\ (Combined(i) => Combination(c, id) \subseteq areas)
  <2>1. PICK id \in DOMAIN c.rows \cap areas :
          code \in AgencyCode(c, i, id) /\ (Combined(i) => Combination(c, id) \subseteq areas)
    BY <1>7
  <2> QED BY <1>4, <2>1
<1>8. CASE i = "regional_price_parity" /\ \E s : code = <<"PARPP", <<s, 999>>>> /\ <<s, 999>> \in areas
  <2>1. PICK s : code = <<"PARPP", <<s, 999>>>> /\ <<s, 999>> \in areas
    BY <1>8
  <2> QED BY <1>5, <1>8, <2>1
<1> QED BY ONLY <1>6, <1>7, <1>8

LEMMA BeaSays ==
  ASSUME NEW text, IsPublished(text), NEW i, Bea(i), ~Hud(i), NEW code, NEW areas,
         Named(Assemble(text), i, code, areas), NEW dims, NEW key, key = BeaKey(i, code, dims),
         NEW rows, BeaFits(rows, key), NEW x, NEW r \in rows, x = BeaObservation(r)
  PROVE  Says(i, key, areas, x)
<1>1. /\ r \in BeaRows /\ r.release <= released
      /\ r.table = key.table /\ r.line = key.line /\ r.geo = key.geo
  BY DEF BeaFits
<1>2. r.area \in areas
  BY <1>1, BeaNames
<1>3. r \in BeaVisible(released) /\ <<r.table, r.line>> = <<key.table, key.line>>
  BY <1>1 DEF BeaVisible
<1>4. [year |-> x.year, period |-> x.period, value |-> x.value] = BeaObservation(r)
  BY DEF BeaObservation
<1> QED BY <1>2, <1>3, <1>4 DEF Says, Figures

\* BLS files a series under the places its area code is for.
LEMMA BlsNames ==
  ASSUME NEW text, IsPublished(text), NEW i, Bls(i), ~Hud(i), ~Bea(i), NEW code, NEW areas,
         Named(Assemble(text), i, code, areas), NationalScope(i) => <<Nation>> \in areas,
         NEW dims, NEW adjusted, NEW key, key = BlsKey(i, code, dims, adjusted),
         NEW r \in BlsRows, r.series = key
  PROVE  r.of \cap areas # {}
<1> DEFINE c == Assemble(text)
           Two(g) == Len(g) = 2 /\ g # NationCode
<1>1. /\ key.area = code
      /\ i \in LausIndicators /\ code # NationCode => key.survey = "LA"
      /\ i = "payroll_employment" /\ code # NationCode => key.survey = "SM"
      /\ i = "cpi_all_items" => key.survey = "CU"
      /\ i \in JoltsIndicators => key.survey = "JT"
      /\ i \in OewsIndicators => key.survey = "OE"
  BY DEF BlsKey, LausIndicators, JoltsIndicators, OewsIndicators
<1>2. /\ code = NationCode => <<Nation>> \in r.of
      /\ key.survey = "CU" /\ code[1] \in DOMAIN CpiAreas => CpiAreas[code[1]] \in r.of
      /\ key.survey \in {"SM", "OE", "JT"} /\ Len(code) = 2 =>
           /\ code[2] = 0 => <<State, code[1]>> \in r.of
           /\ code[2] # 0 /\ key.survey = "SM" => <<Metro, code[2]>> \in r.of
           /\ code[2] # 0 /\ key.survey # "SM" => code \in r.of
      /\ key.survey = "LA" =>
           /\ code[1] # Town => code \in r.of
           /\ code[1] = Town => \A t \in Rows("gaz060") :
                code = <<Town, t.geoid[1], t.geoid[3]>> => <<Town>> \o t.geoid \in r.of
  BY <1>1, BlsCodesAssumption
<1>3. /\ i \in LausIndicators \cup JoltsIndicators \cup OewsIndicators
                \cup {"payroll_employment", "cpi_all_items", "producer_price_index"}
      /\ i = "producer_price_index" => NationalScope(i)
  BY DEF Bls, BlsIndicators, NationalScope
<1>4. \A s, n : LET g == <<s, n>> IN Len(g) = 2 /\ g[1] = s /\ g[2] = n /\ g # NationCode
  BY DEF NationCode
<1>5. CASE code = NationCode /\ <<Nation>> \in areas
  BY <1>2, <1>5
<1>6. ASSUME NEW id \in DOMAIN c.rows \cap areas, code \in AgencyCode(c, i, id), i # "producer_price_index"
      PROVE  id \in r.of
  <2>1. IdIsFormed(id) /\ code \in BlsCode(c, i, id)
    BY <1>6, EntitiesFormed DEF Assemble, AgencyCode
  <2> HIDE DEF c
  <2>2. CASE i = "cpi_all_items"
    <3>1. code \in CodeOf(c, id, "CPI")
      BY <2>1, <2>2 DEF BlsCode
    <3>2. PICK a \in DOMAIN CpiAreas : code = <<a>> /\ CpiAreas[a] = id
      BY <3>1, CpiCoded DEF c
    <3>3. code[1] = a
      BY <3>2
    <3> QED BY <1>1, <1>2, <2>2, <3>2, <3>3
  <2>3. CASE i # "cpi_all_items" /\ id[1] = Nation
    <3>1. code = NationCode /\ id = <<Nation>>
      BY <1>6, <2>1, <2>3 DEF BlsCode, IdIsFormed
    <3> QED BY <1>2, <3>1
  <2>4. CASE i \in LausIndicators /\ i # "cpi_all_items" /\ id[1] # Nation
    <3>1. code \in CodeOf(c, id, "LAUS")
      BY <1>6, <2>1, <2>4 DEF BlsCode
    <3>2. \/ code = id /\ code[1] \in {State, County, Place, Metro}
          \/ id[1] = Town /\ id \in DOMAIN Entities(text) /\ code = <<Town, id[2], id[4]>>
      BY <3>1, LausCoded DEF c
    <3>3. CASE code = id /\ code[1] \in {State, County, Place, Metro}
      <4>1. code[1] # Town /\ code[1] # 0
        BY <3>3 DEF State, County, Place, Metro, Town
      <4>2. code # NationCode
        BY <4>1 DEF NationCode
      <4> QED BY <1>1, <1>2, <2>4, <3>3, <4>1, <4>2
    <3>4. CASE id[1] = Town /\ code = <<Town, id[2], id[4]>>
      <4>1. PICK t \in Rows("gaz060") : id = <<Town>> \o t.geoid /\ t.geoid \in Seq(Nat) /\ Len(t.geoid) = 3
        BY <2>1, <3>4 DEF IdIsFormed
      <4>2. Town \in Nat
        BY DEF Town
      <4>3. \A n \in 1 .. 3 : (<<Town>> \o t.geoid)[n + 1] = t.geoid[n]
        BY <4>1, <4>2, Prefixed
      <4>4. id[1 + 1] = t.geoid[1] /\ id[3 + 1] = t.geoid[3]
        BY <4>1, <4>3
      <4>5. id[2] = t.geoid[1] /\ id[4] = t.geoid[3]
        BY <4>4
      <4> DEFINE g == <<Town, id[2], id[4]>>
      <4>6. g[1] = Town /\ g # NationCode /\ g = <<Town, t.geoid[1], t.geoid[3]>>
        BY <4>5 DEF NationCode
      <4>7. code = g
        BY <3>4
      <4> HIDE DEF g
      <4>8. code[1] = Town /\ key.survey = "LA" /\ code = <<Town, t.geoid[1], t.geoid[3]>>
        BY <1>1, <2>4, <4>6, <4>7
      <4>9. <<Town>> \o t.geoid \in r.of
        BY <1>2, <4>8
      <4> QED BY <4>1, <4>9
    <3> QED BY <3>2, <3>3, <3>4
  <2>5. CASE i \notin LausIndicators /\ i # "cpi_all_items" /\ id[1] = State
    <3> DEFINE g == <<id[2], 0>>
    <3>1. code = g /\ id = <<State, id[2]>>
      BY <1>6, <2>1, <2>5 DEF BlsCode, IdIsFormed, State, Nation
    <3>2. Len(g) = 2 /\ g[1] = id[2] /\ g[2] = 0 /\ g # NationCode
      BY <1>4
    <3> HIDE DEF g
    <3>3. key.survey \in {"SM", "OE", "JT"}
      BY <1>1, <1>3, <1>6, <2>5, <3>1, <3>2
    <3>4. <<State, id[2]>> \in r.of
      BY <1>2, <3>1, <3>2, <3>3
    <3> QED BY <3>1, <3>4
  <2>6. CASE i \notin LausIndicators /\ i # "cpi_all_items" /\ id[1] \notin {Nation, State}
    <3>1. id = <<Metro, id[2]>> /\ id[2] # 0 /\ i \notin JoltsIndicators
      BY <1>6, <2>1, <2>6 DEF BlsCode, IdIsFormed
    <3>2. CASE i = "payroll_employment"
      <4>1. code \in CodeOf(c, id, "SM")
        BY <1>6, <2>1, <2>6, <3>2 DEF BlsCode
      <4>2. PICK s : code = <<s, id[2]>>
        BY <4>1, MetroCoded DEF c
      <4> DEFINE g == <<s, id[2]>>
      <4>3. Len(g) = 2 /\ g[2] = id[2] /\ g # NationCode
        BY <1>4
      <4>4. code = g
        BY <4>2
      <4> HIDE DEF g
      <4>5. key.survey = "SM"
        BY <1>1, <3>2, <4>3, <4>4
      <4>6. <<Metro, id[2]>> \in r.of
        BY <1>2, <3>1, <4>3, <4>4, <4>5
      <4> QED BY <3>1, <4>6
    <3>3. CASE i # "payroll_employment"
      <4>1. PICK of \in CodeOf(c, id, "OEWS") : code = <<Metro>> \o of
        BY <1>6, <2>1, <2>6, <3>1, <3>3 DEF BlsCode
      <4>2. of = <<id[2]>>
        BY <4>1, MetroCoded DEF c
      <4>3. code = <<Metro, id[2]>>
        BY ONLY <4>1, <4>2, Joined
      <4> DEFINE g == <<Metro, id[2]>>
      <4>4. Len(g) = 2 /\ g[2] = id[2] /\ g # NationCode
        BY <1>4
      <4>5. code = g /\ id = g
        BY <3>1, <4>3
      <4> HIDE DEF g
      <4>6. key.survey = "OE"
        BY <1>1, <1>3, <1>6, <2>6, <3>1, <3>3
      <4>7. code \in r.of
        BY <1>2, <3>1, <4>4, <4>5, <4>6
      <4> QED BY <4>5, <4>7
    <3> QED BY <3>2, <3>3
  <2> QED BY <2>2, <2>3, <2>4, <2>5, <2>6
<1>7. \/ \E id \in DOMAIN c.rows \cap areas : code \in AgencyCode(c, i, id)
      \/ code = NationCode /\ <<Nation>> \in areas
  <2>1. i # "regional_price_parity"
    BY <1>3 DEF LausIndicators, JoltsIndicators, OewsIndicators
  <2> QED BY <2>1 DEF Named
<1> HIDE DEF c
<1>8. CASE i = "producer_price_index"
  <2>1. code = NationCode /\ <<Nation>> \in areas
    BY <1>3, <1>7, <1>8 DEF AgencyCode, BlsCode
  <2> QED BY <1>5, <2>1
<1>9. CASE i # "producer_price_index" /\ \E id \in DOMAIN c.rows \cap areas : code \in AgencyCode(c, i, id)
  <2>1. PICK id \in DOMAIN c.rows \cap areas : code \in AgencyCode(c, i, id)
    BY <1>9
  <2>2. id \in r.of
    BY <1>6, <1>9, <2>1
  <2> QED BY <2>2
<1> QED BY <1>5, <1>7, <1>8, <1>9

LEMMA BlsSays ==
  ASSUME NEW text, IsPublished(text), NEW i, Bls(i), ~Hud(i), ~Bea(i), NEW code, NEW areas,
         Named(Assemble(text), i, code, areas), NationalScope(i) => <<Nation>> \in areas,
         NEW dims, NEW adjusted, NEW key, key = BlsKey(i, code, dims, adjusted), NEW x,
         NEW r \in BlsRows, r.series = key, r.release <= released, x = BlsObservation(r)
  PROVE  Says(i, key, areas, x)
<1>1. r.of \cap areas # {}
  BY BlsNames
<1>2. r \in BlsVisible(released)
  BY DEF BlsVisible
<1>3. [year |-> x.year, period |-> x.period, value |-> x.value]
        = [year |-> r.year, period |-> r.period, value |-> IF r.marked THEN Null ELSE r.value]
  BY DEF BlsObservation
<1> QED BY <1>1, <1>2, <1>3 DEF Says, Figures

\* The area code of QCEW is that of one place, and a row under it is for that
\* place, or stands beside the one that is.
LEMMA QcewNames ==
  ASSUME NEW text, IsPublished(text), NEW id \in DOMAIN Entities(text), NEW code \in QcewCode(Assemble(text), id)
  PROVE  AreaOf(code) = id
<1>1. IdIsFormed(id)
  BY EntitiesFormed
<1>2. \A a, b : LET g == <<a, b>> IN Len(g) = 2 /\ g[1] = a /\ g[2] = b
  OBVIOUS
<1>3. QcewNation[1] = 0 /\ QcewNation[2] = 0 /\ Len(QcewNation) = 2
  BY DEF QcewNation
<1> DEFINE c == Assemble(text)
<1>0. /\ id[1] = Nation => QcewCode(c, id) = {QcewNation}
      /\ id[1] = County => QcewCode(c, id) = {Tail(id)}
      /\ id[1] = State => QcewCode(c, id) = {<<id[2], 0>>}
      /\ id[1] = Metro => QcewCode(c, id) = CodeOf(c, id, "QCEW")
      /\ id[1] \in {Nation, County, State, Metro}
  BY DEF QcewCode, Nation, County, State, Metro
<1> HIDE DEF c
<1>4. CASE id[1] = Nation
  BY <1>0, <1>1, <1>4 DEF AreaOf, IdIsFormed, c
<1>5. CASE id[1] = County
  <2> DEFINE g == <<id[2], id[3]>>
  <2>1. code = g /\ id = <<County, id[2], id[3]>> /\ id[2] # 0 /\ id[3] # 0
    <3>1. code = Tail(id)
      BY <1>0, <1>5 DEF c
    <3>2. /\ id = <<County, id[2], id[3]>> /\ Tail(id) = <<id[2], id[3]>>
          /\ id[2] \in Nat \ {0} /\ id[3] \in Nat \ {0}
      BY <1>1, <1>5 DEF IdIsFormed
    <3> QED BY <3>1, <3>2
  <2>2. Len(g) = 2 /\ g[1] = id[2] /\ g[2] = id[3]
    BY <1>2
  <2>3. <<County>> \o g = <<County, id[2], id[3]>>
    BY ONLY Joined
  <2> HIDE DEF g
  <2>4. AreaOf(code) = <<County>> \o g
    BY <1>3, <2>1, <2>2 DEF AreaOf
  <2> QED BY ONLY <2>1, <2>3, <2>4
<1>6. CASE id[1] = State
  <2> DEFINE g == <<id[2], 0>>
  <2>1. code = g /\ id = <<State, id[2]>> /\ id[2] # 0
    <3>1. code = <<id[2], 0>>
      BY <1>0, <1>6 DEF c
    <3>2. id = <<State, id[2]>> /\ id[2] \in Nat \ {0}
      BY <1>1, <1>6 DEF IdIsFormed
    <3> QED BY <3>1, <3>2
  <2>2. Len(g) = 2 /\ g[1] = id[2] /\ g[2] = 0
    BY <1>2
  <2> HIDE DEF g
  <2> QED BY <1>3, <2>1, <2>2 DEF AreaOf
<1>7. CASE id[1] = Metro
  <2> DEFINE g == <<id[2]>>
  <2>1. code \in CodeOf(Assemble(text), id, "QCEW") /\ id = <<Metro, id[2]>>
    BY <1>0, <1>1, <1>7 DEF IdIsFormed, c
  <2>2. code = g
    BY <2>1, MetroCoded
  <2>3. Len(g) = 1
    OBVIOUS
  <2>4. <<Metro>> \o g = <<Metro, id[2]>>
    BY ONLY Joined
  <2> HIDE DEF g
  <2>5. Len(code) = 1
    BY <2>2, <2>3
  <2>6. code # QcewNation
    BY <1>3, <2>5
  <2>7. AreaOf(code) = <<Metro>> \o code
    BY ONLY <2>5, <2>6 DEF AreaOf
  <2> QED BY ONLY <2>1, <2>2, <2>4, <2>7
<1> QED BY <1>0, <1>4, <1>5, <1>6, <1>7

LEMMA QcewOwn ==
  ASSUME NEW key, NEW p, NEW when, NEW r \in QcewRow(key, QcewAnswer(QcewRequest(key.area, p), when)),
         when \in Nat
  PROVE  /\ r \in QcewRows /\ r.release <= when /\ r.area = key.area
         /\ r.own = key.own /\ r.industry = key.industry /\ r.of = AreaOf(key.area)
<1> DEFINE page == QcewAnswer(QcewRequest(key.area, p), when)
           rows == {q \in page : q.own = key.own /\ q.industry = key.industry}
           level == {q \in rows : q.level = ExpectedLevel(key)}
<1>1. \A q : q \in page <=> q \in QcewRows /\ q.release <= when /\ q.area = key.area /\ q.period = p
  BY DEF QcewAnswer, QcewVisible, QcewRequest
<1> HIDE DEF page
<1>2. r \in rows /\ (level # {} => r \in level)
  BY DEF QcewRow, page
<1>3. r \in QcewRows /\ r.release <= when /\ r.area = key.area /\ r.period = p
  BY <1>1, <1>2
<1>4. r.own = key.own /\ r.industry = key.industry
  BY <1>2
<1>5. ExpectedLevel(r) = ExpectedLevel(key)
  BY <1>3, <1>4 DEF ExpectedLevel
<1>6. r.of = AreaOf(r.area)
  <2> SUFFICES ASSUME r.of # AreaOf(r.area) PROVE FALSE
    OBVIOUS
  <2>1. PICK q \in QcewRows :
          /\ <<q.area, q.period, q.own, q.industry>> = <<r.area, r.period, r.own, r.industry>>
          /\ q.level = ExpectedLevel(r) /\ q.release <= r.release
    BY <1>3, QcewCodesAssumption
  <2>2. r.level # ExpectedLevel(r)
    BY <1>3, QcewCodesAssumption
  <2>3. q.area = r.area /\ q.period = r.period /\ q.own = r.own /\ q.industry = r.industry
    BY <2>1
  <2>4. q.release \in Nat /\ r.release \in Nat
    BY <1>3, QcewAssumption
  <2>5. q.release <= when
    BY <1>3, <2>1, <2>4
  <2>6. q \in level
    BY <1>1, <1>3, <1>4, <1>5, <2>1, <2>3, <2>5
  <2> QED BY <1>2, <1>5, <2>2, <2>6
<1> QED BY <1>3, <1>4, <1>6

LEMMA QcewSays ==
  ASSUME NEW text, IsPublished(text), NEW i, Qcew(i), ~Hud(i), ~Bea(i), ~Bls(i), NEW code, NEW areas,
         Named(Assemble(text), i, code, areas), NEW dims, NEW key, key = QcewKey(code, dims),
         released \in Nat, NEW x, NEW p, QcewReadAt(i, key, x, p), QcewPeriod(p, key.annual)
  PROVE  Says(i, key, areas, x)
<1>1. i # "regional_price_parity" /\ i \notin CensusIndicators
  BY OneAgency, OnlyCensus DEF Qcew, QcewIndicators
<1>2. PICK id \in DOMAIN Entities(text) : id \in areas /\ code \in QcewCode(Assemble(text), id)
  BY <1>1 DEF Named, AgencyCode, Assemble
<1>3. AreaOf(key.area) = id /\ key.annual \in BOOLEAN
  <2>1. key.area = code /\ key.annual \in BOOLEAN
    BY DEF QcewKey
  <2> QED BY <1>2, <2>1, QcewNames
<1>4. PICK r : /\ \E when \in 0 .. released : r \in QcewRow(key, QcewAnswer(QcewRequest(key.area, p), when))
               /\ r.period = p /\ x = QcewObservation(i, r)
  BY DEF QcewReadAt
<1>5. PICK when \in 0 .. released : r \in QcewRow(key, QcewAnswer(QcewRequest(key.area, p), when))
  BY <1>4
<1>6. /\ r \in QcewRows /\ r.release <= when /\ r.own = key.own /\ r.industry = key.industry
      /\ r.of = AreaOf(key.area)
  <2>1. when \in Nat
    OBVIOUS
  <2> QED BY ONLY <1>5, <2>1, QcewOwn
<1>7. r \in QcewVisible(released)
  BY <1>6, QcewAssumption DEF QcewVisible
<1>8. (r.period[2] = 0) = key.annual
  BY <1>3, <1>4 DEF QcewPeriod
<1>9. r.of \in areas /\ <<r.own, r.industry>> = <<key.own, key.industry>>
  BY <1>2, <1>3, <1>6
<1>10. [year |-> x.year, period |-> x.period, value |-> x.value] = QcewObservation(i, r)
  BY <1>4 DEF QcewObservation
<1>11. [year |-> x.year, period |-> x.period, value |-> x.value]
         \in {QcewObservation(i, q) :
                q \in {q \in QcewVisible(released) : /\ q.of \in areas
                                                     /\ <<q.own, q.industry>> = <<key.own, key.industry>>
                                                     /\ (q.period[2] = 0) = key.annual}}
  BY <1>7, <1>8, <1>9, <1>10
<1> QED BY <1>11 DEF Says, Figures

LEMMA CensusSays ==
  ASSUME NEW text, NEW i \in CensusIndicators, NEW code, NEW areas, Named(Assemble(text), i, code, areas),
         NEW dims, NEW key, key = CensusKey(i, code, dims), NEW g,
         \A n \in DOMAIN CensusReads(key, g) : CensusReads(key, g)[n] \in DOMAIN g,
         CensusRead(g), released \in Nat,
         NEW k \in DOMAIN CensusSeries(i, key, g).observations
  PROVE  Says(i, key, areas, CensusSeries(i, key, g).observations[k])
<1> DEFINE s == CensusSeries(i, key, g)
           x == s.observations[k]
           reads == CensusReads(key, g)
           asked == reads[Len(reads)]
           rows == g[asked]
           of(r) == IF i \in AcsIndicators THEN AcsObservation(r) ELSE CountObservation(r)
           fell == IF Len(reads) = 2 THEN {<<"five_shown">>} ELSE {}
           r0 == CHOOSE r \in rows : TRUE
           y == [of(r0) EXCEPT !.footnotes = @ \cup fell]
<1>1. s.observations = IF rows = {} THEN <<>> ELSE << y >>
  BY DEF CensusSeries
<1>2. rows # {} /\ x = y
  <2> HIDE DEF rows, y, s
  <2>1. k \in DOMAIN s.observations
    BY DEF s
  <2> QED BY <1>1, <2>1
<1>3. r0 \in rows
  BY <1>2
<1>4. /\ i \in AcsIndicators => /\ x.year = AcsVintage /\ x.value = Estimate(r0)
                                /\ x.period = IF r0.product = "1-year" THEN Annual ELSE FiveYears
      /\ i \notin AcsIndicators => x.year = DecennialYear /\ x.period = Annual /\ x.value = r0.estimate
  <2> HIDE DEF r0, fell, x
  <2>1. CASE i \in AcsIndicators
    <3>1. x = [AcsObservation(r0) EXCEPT !.footnotes = @ \cup fell]
      BY <1>2, <2>1
    <3> QED BY <2>1, <3>1 DEF AcsObservation
  <2>2. CASE i \notin AcsIndicators
    <3>1. x = [CountObservation(r0) EXCEPT !.footnotes = @ \cup fell]
      BY <1>2, <2>2
    <3> QED BY <2>2, <3>1 DEF CountObservation
  <2> QED BY <2>1, <2>2
<1>5. /\ key.id = code[1] /\ key.variable = i
      /\ key.product \in IF i \in AcsIndicators THEN Products ELSE {"count"}
  BY DEF CensusKey, ChooseProduct, Products
<1>6. key = [id |-> key.id, variable |-> i, product |-> key.product]
  BY DEF CensusKey
<1>7. AsFive(key).id = key.id /\ AsFive(key).variable = i /\ AsFive(key).product = "5-year"
  BY <1>6 DEF AsFive
<1>8. (asked = key \/ (asked = AsFive(key) /\ key.product = "1-year")) /\ asked \in DOMAIN g
  <2>1. CASE reads = <<key>>
    <3>1. Len(reads) = 1 /\ 1 \in DOMAIN reads /\ reads[1] = key
      BY <2>1
    <3> HIDE DEF reads
    <3> QED BY <3>1 DEF reads
  <2>2. CASE reads = <<key, AsFive(key)>> /\ key.product = "1-year"
    <3>1. Len(reads) = 2 /\ 2 \in DOMAIN reads /\ reads[2] = AsFive(key)
      BY <2>2
    <3> HIDE DEF reads
    <3> QED BY <2>2, <3>1 DEF reads
  <2> QED BY <2>1, <2>2 DEF CensusReads
<1>9. PICK when \in 0 .. released : rows = CensusAnswer(asked, when)
  BY <1>8 DEF CensusRead
<1>10. ~Hud(i) /\ ~Bea(i) /\ ~Bls(i) /\ ~Qcew(i) /\ i # "regional_price_parity"
  BY OnlyCensus DEF CensusIndicators, AcsIndicators
<1>11. key.id \in areas
  <2>1. PICK id \in areas : code \in CensusCode(Assemble(text), id)
    BY <1>10 DEF Named, AgencyCode
  <2> QED BY <1>5, <2>1 DEF CensusCode
<1> HIDE DEF rows, asked, r0, x, reads
<1>12. /\ r0 \in CensusRows /\ r0.release <= when /\ r0.release \in Nat
       /\ r0.id = key.id /\ r0.variable = i /\ r0.product = asked.product
  <2>1. asked.id = key.id /\ asked.variable = i
    BY <1>5, <1>7, <1>8
  <2> QED BY <1>3, <1>9, <2>1, CensusAssumption DEF CensusAnswer, CensusVisible
<1>13. r0 \in CensusVisible(released)
  BY <1>12 DEF CensusVisible
<1> DEFINE year == IF i \in AcsIndicators THEN AcsVintage ELSE DecennialYear
           period == IF r0.product = "5-year" THEN FiveYears ELSE Annual
<1>14. x.year = year /\ x.period = period /\ x.value = Estimate(r0)
  <2>1. CASE i \in AcsIndicators
    <3>1. r0.product \in {"1-year", "5-year"}
      BY <1>5, <1>7, <1>8, <1>12, <2>1 DEF Products
    <3> QED BY <1>4, <2>1, <3>1
  <2>2. CASE i \notin AcsIndicators
    <3>1. r0.product = "count"
      BY <1>5, <1>8, <1>12, <2>2
    <3>2. r0.estimate \in Nat
      BY <1>12, <3>1, CensusAssumption
    <3>3. Estimate(r0) = r0.estimate
      BY <3>2 DEF Estimate, EstimateMarks
    <3> QED BY <1>4, <2>2, <3>1, <3>3
  <2> QED BY <2>1, <2>2
<1>15. [year |-> x.year, period |-> x.period, value |-> x.value]
         = [year |-> year, period |-> period, value |-> Estimate(r0)]
  BY <1>14
<1> HIDE DEF year
<1>16. [year |-> x.year, period |-> x.period, value |-> x.value]
         \in {[year |-> year, period |-> IF r.product = "5-year" THEN FiveYears ELSE Annual,
               value |-> Estimate(r)] : r \in {q \in CensusVisible(released) : q.variable = i /\ q.id \in areas}}
  BY <1>11, <1>12, <1>13, <1>15
<1>17. Says(i, key, areas, x)
  BY <1>10, <1>16 DEF Says, Figures, year
<1> QED BY <1>17 DEF x, s

\* Every figure of a series is of the areas its code names.
LEMMA SeriesSays ==
  ASSUME IInv, reply.kind \in {"get", "compare"}, NEW text, IsPublished(text), NEW code, NEW areas,
         Named(Assemble(text), call.ask.indicator, code, areas),
         NationalScope(call.ask.indicator) => <<Nation>> \in areas,
         NEW k \in DOMAIN call.keys,
         call.keys[k] = SeriesKey(call.ask.indicator, code, call.dims, call.ask.adjusted),
         NEW m \in DOMAIN SeriesOf(call.ask.indicator, call.keys, k, Options(call.ask), got).observations,
         NEW x, x = SeriesOf(call.ask.indicator, call.keys, k, Options(call.ask), got).observations[m]
  PROVE  Says(call.ask.indicator, call.keys[k], areas, x)
<1> DEFINE i == call.ask.indicator
           o == Options(call.ask)
           key == call.keys[k]
           s == SeriesOf(i, call.keys, k, o, got)
<1>1. AgencyRead(i, call.keys, o, got)
  BY CallRead
<1>2. o.start \in Int /\ o.end \in Int /\ released \in Nat
  BY OptionsTyped, IsReleased
<1>3. PICK top \in Nat : DOMAIN call.keys = 1 .. top /\ Len(call.keys) = top
  BY CallKeyed
<1>4. /\ key = SeriesKey(i, code, call.dims, call.ask.adjusted)
      /\ Named(Assemble(text), i, code, areas) /\ (NationalScope(i) => <<Nation>> \in areas)
  OBVIOUS
<1>5. m \in DOMAIN s.observations /\ x = s.observations[m]
  OBVIOUS
<1> HIDE DEF i, o
<1>6. CASE Hud(i)
  <2>1. HudRead(got) /\ s = HudSeries(i, key, o, got)
    BY <1>1, <1>6 DEF AgencyRead, SeriesOf
  <2>2. key = HudKey(i, code, call.dims)
    BY <1>4, <1>6 DEF SeriesKey
  <2> HIDE DEF s, key
  <2>3. m \in DOMAIN HudSeries(i, key, o, got).observations
    BY <1>5, <2>1
  <2>4. Says(i, key, areas, HudSeries(i, key, o, got).observations[m])
    BY <1>2, <1>4, <1>6, <2>1, <2>2, <2>3, HudSays
  <2> QED BY <1>5, <2>1, <2>4 DEF i, key
<1>7. CASE Bea(i) /\ ~Hud(i)
  <2>1. BeaWanted(i, call.keys, o, got) = {} /\ BeaRead(got)
    BY <1>1, <1>7, OneAgency DEF AgencyRead
  <2> DEFINE rows == BeaRowsOf(i, call.keys, k, o, got)
  <2>2. s.observations = BeaSeries(i, call.keys, k, o, got).observations
    BY <1>7 DEF SeriesOf
  <2>3. BeaFits(rows, key)
    BY <1>2, <1>3, <2>1, BeaRowsRead
  <2>4. ShowsRows(s.observations, rows)
    BY <2>2, <2>3, BeaShows
  <2>5. key = BeaKey(i, code, call.dims)
    BY <1>4, <1>7 DEF SeriesKey
  <2> HIDE DEF rows, s, key
  <2>6. PICK r \in rows : x = BeaObservation(r)
    BY <1>5, <2>4 DEF ShowsRows, ToSet
  <2>7. Says(i, key, areas, x)
    BY <1>4, <1>7, <2>3, <2>5, <2>6, BeaSays
  <2> QED BY <2>7 DEF i, key
<1>8. CASE Bls(i) /\ ~Hud(i) /\ ~Bea(i)
  <2>1. BlsWanted(call.keys, o, got) = {} /\ BlsRead(got)
    BY <1>1, <1>8, OneAgency DEF AgencyRead
  <2> DEFINE rows == BlsRowsOf(call.keys, k, o, got)
  <2>2. s.observations = BlsSeries(i, call.keys, k, o, got).observations
    BY <1>8 DEF SeriesOf
  <2>3. /\ rows \in SUBSET BlsRows /\ \A r \in rows : r.series = key /\ r.release <= released
        /\ ShowsBls(s.observations, rows)
    <3> DEFINE keys == call.keys
    <3> HIDE DEF keys, o
    <3>1. /\ DOMAIN keys = 1 .. top /\ Len(keys) = top /\ BlsWanted(keys, o, got) = {} /\ BlsRead(got)
          /\ released \in Nat /\ k \in DOMAIN keys
      BY <1>2, <1>3, <2>1 DEF keys
    <3>2. LET all == BlsRowsOf(keys, k, o, got) IN
          /\ all \in SUBSET BlsRows
          /\ \A r \in all : r.series = keys[k] /\ r.year \in o.start .. o.end /\ r.release <= released
          /\ ShowsBls(BlsSeries(i, keys, k, o, got).observations, all)
      BY <3>1, BlsShows
    <3> DEFINE all == BlsRowsOf(keys, k, o, got)
    <3>3. all = rows /\ keys[k] = key /\ s.observations = BlsSeries(i, keys, k, o, got).observations
      BY <2>2 DEF keys
    <3> HIDE DEF all, rows, s, key
    <3> QED BY <3>2, <3>3 DEF all
  <2>4. key = BlsKey(i, code, call.dims, call.ask.adjusted)
    BY <1>4, <1>8 DEF SeriesKey
  <2> HIDE DEF rows, s, key
  <2>5. PICK r \in rows : x = BlsObservation(r)
    BY <1>5, <2>3 DEF ShowsBls, ToSet
  <2>6. Says(i, key, areas, x)
    BY <1>4, <1>8, <2>3, <2>4, <2>5, BlsSays
  <2> QED BY <2>6 DEF i, key
<1>9. CASE Qcew(i) /\ ~Hud(i) /\ ~Bea(i) /\ ~Bls(i)
  <2>1. QcewWanted(call.keys, o, got) = {} /\ QcewRead(got)
    BY <1>1, <1>9, OneAgency DEF AgencyRead
  <2>2. key = QcewKey(code, call.dims)
    BY <1>4, <1>9 DEF SeriesKey
  <2>3. key.annual \in BOOLEAN
    BY <2>2 DEF QcewKey
  <2>4. \A n \in DOMAIN QcewReads(key, o) : QcewReads(key, o)[n] \in DOMAIN got
    BY <1>3, <2>1, QcewAnswered
  <2>5. s = QcewSeries(i, key, o, got)
    BY <1>9 DEF SeriesOf
  <2> DEFINE c == CandidatePeriods(o, key.annual)
  <2>6. \A n \in DOMAIN s.observations : \E h \in DOMAIN c : QcewReadAt(i, key, s.observations[n], c[h])
    BY <1>2, <2>1, <2>3, <2>4, <2>5, QcewShows
  <2>7. \A h \in DOMAIN c : QcewPeriod(c[h], key.annual)
    BY <1>2, <2>3, QcewPeriods
  <2> HIDE DEF s, c, key
  <2>8. PICK h \in DOMAIN c : QcewReadAt(i, key, x, c[h])
    BY <1>5, <2>6
  <2>9. Says(i, key, areas, x)
    BY <1>2, <1>4, <1>9, <2>2, <2>7, <2>8, QcewSays
  <2> QED BY <2>9 DEF i, key
<1>10. CASE ~Hud(i) /\ ~Bea(i) /\ ~Bls(i) /\ ~Qcew(i)
  <2>1. i \in CensusIndicators /\ CensusWanted(call.keys, got) = {} /\ CensusRead(got)
    BY <1>1, <1>10 DEF AgencyRead
  <2>2. s = CensusSeries(i, key, got)
    BY <1>10 DEF SeriesOf
  <2>3. \A n \in DOMAIN CensusReads(key, got) : CensusReads(key, got)[n] \in DOMAIN got
    BY <1>3, <2>1, CensusAnswered
  <2>4. key = CensusKey(i, code, call.dims)
    BY <1>4, <1>10 DEF SeriesKey
  <2> HIDE DEF s, key
  <2>5. m \in DOMAIN CensusSeries(i, key, got).observations
    BY <1>5, <2>2
  <2>6. Says(i, key, areas, CensusSeries(i, key, got).observations[m])
    BY <1>2, <1>4, <2>1, <2>3, <2>4, <2>5, CensusSays
  <2> QED BY <1>5, <2>2, <2>6 DEF i, key
<1> QED BY <1>6, <1>7, <1>8, <1>9, <1>10

\* The figure shown for a place is one its agency published, for the period and
\* breakdown shown, of that place or of an area a caveat names (resolveSeries,
\* fallbackAgencyCode and caveatFor of the five servers).  The resolver answers
\* with an entity of the catalog; the code of the row is the agency's for it, or
\* for what stands in for it, and the catalog's codes were built from the
\* agencies' own lists, so the agency's rows under that code are of that place.
THEOREM ShownAsPublished == Spec => []ShownIsPublished
<1>1. IInv /\ BuildInv /\ Phases /\ OpenIsLive => ShownIsPublished
  <2> SUFFICES ASSUME IInv, BuildInv, Phases, OpenIsLive, NEW n \in Shown
               PROVE  Says(call.ask.indicator, Answer[n].key[1], Told(Answer[n]), Answer[n].latest)
    BY DEF ShownIsPublished
  <2>1. reply.kind \in {"get", "compare"}
    BY DEF Shown, Answer
  <2> DEFINE i == call.ask.indicator
             text == TextOf(live.read)
             areas == Told(Answer[n])
             x == Answer[n].latest
  <2>2. call = Plan(open, call.ask) /\ open # None
    BY <2>1, RepliedTo DEF IInv, CallIsAsked
  <2>3. open = Assemble(text) /\ IsPublished(text)
    BY <2>2, TextIsPublished
  <2>4. PICK k \in DOMAIN call.keys : ShownOf(n, k)
    BY <2>1, ShownWhence
  <2> DEFINE s == SeriesOf(i, call.keys, k, Options(call.ask), got)
             key(code) == SeriesKey(i, code, call.dims, call.ask.adjusted)
  <2>5. Timed(s)
    BY <2>1, SeriesTimed
  <2>6. PICK m \in DOMAIN s.observations : x = s.observations[m]
    <3>1. \/ s.observations # <<>> /\ x = s.observations[1]
          \/ \E m \in DOMAIN s.observations : x = s.observations[m]
      BY <2>4 DEF ShownOf
    <3> HIDE DEF s, x
    <3> QED BY <2>5, <3>1 DEF Timed
  <2>7. Answer[n].key[1] = call.keys[k] /\ Answer[n].place \in areas
    BY <2>4 DEF ShownOf, Told
  <2>8. PICK code : /\ Named(Assemble(text), i, code, areas) /\ call.keys[k] = key(code)
                    /\ NationalScope(i) => <<Nation>> \in areas
    <3>1. CASE NationalScope(i)
      <4>1. Bls(i)
        BY <3>1 DEF NationalScope, Bls, BlsIndicators
      <4>2. <<Nation>> \in areas /\ call.keys[k] = key(NationCode)
        BY <2>4, <2>7, <3>1 DEF ShownOf
      <4> QED BY <4>1, <4>2 DEF Named
    <3>2. CASE ~NationalScope(i)
      <4> DEFINE row == call.rows[n]
      <4>1. /\ n \in DOMAIN call.rows /\ row.status = "ok" /\ call.keys[k] = key(row.code)
            /\ Answer[n].caveats = row.caveats /\ Answer[n].place = row.place
        BY <2>4, <3>2 DEF ShownOf
      <4>2. Told(row) = areas
        BY <4>1 DEF Told
      <4>3. call.rows = Plan(Assemble(text), call.ask).rows
        BY <2>2, <2>3
      <4> HIDE DEF areas, text
      <4>4. Named(Assemble(text), i, row.code, Told(row))
        BY <2>3, <4>1, <4>3, RowNamed
      <4> QED BY <3>2, <4>1, <4>2, <4>4
    <3> QED BY <3>1, <3>2
  <2> HIDE DEF areas, text
  <2>9. Says(i, call.keys[k], areas, x)
    BY <2>1, <2>3, <2>6, <2>8, SeriesSays
  <2> QED BY <2>7, <2>9 DEF areas
<1> QED BY <1>1, InvAlways, Opened, PTL

-----------------------------------------------------------------------------
(* Namesakes.                                                              *)

\* A row of a plan says what resolving its place said.
Follows(row, r) ==
  /\ {"status", "place", "code", "caveats", "passed", "candidates"} \subseteq DOMAIN row
  /\ row.passed = r.passed
  /\ row.status # "fallback"
  /\ row.status = "ambiguous" => r.status = "ambiguous" /\ row.candidates = r.candidates
  /\ row.status = "ok" => r.status # "ambiguous" /\ r.candidates # <<>> /\ row.place = r.candidates[1]

LEMMA RowFollows ==
  ASSUME NEW c, NEW ask
  PROVE  /\ DOMAIN Plan(c, ask).rows = DOMAIN ask.places
         /\ \A n \in DOMAIN ask.places : Follows(Plan(c, ask).rows[n], ResolvePlace(c, ask.places[n]))
<1> DEFINE i == ask.indicator
           dims == Selection(i, ask.dims)
           found == [n \in DOMAIN ask.places |-> Resolution(c, i, ask.places[n], dims)]
<1>1. ASSUME NEW q PROVE Follows(Resolution(c, i, q, dims), ResolvePlace(c, q))
  <2> DEFINE r == ResolvePlace(c, q)
  <2>1. \A st, pl, re, cd, ca : LET row == Resolved(r, st, pl, re, cd, ca) IN
          /\ {"status", "place", "code", "caveats", "passed", "candidates"} \subseteq DOMAIN row
          /\ row.status = st /\ row.place = pl /\ row.passed = r.passed
          /\ st = "ambiguous" => row.candidates = r.candidates
    BY DEF Resolved
  <2>2. Resolution(c, i, q, dims) = ResolutionOf(c, i, r, dims)
    BY DEF Resolution
  <2> HIDE DEF r
  <2>3. CASE r.status = "ambiguous"
    <3>1. Resolution(c, i, q, dims) = Resolved(r, "ambiguous", <<>>, <<>>, <<>>, {})
      BY <2>2, <2>3 DEF ResolutionOf
    <3> QED BY <2>1, <2>3, <3>1 DEF Follows, r
  <2>4. CASE r.status # "ambiguous" /\ r.candidates = <<>>
    <3>1. Resolution(c, i, q, dims) = Resolved(r, "not_found", <<>>, <<>>, <<>>, {})
      BY <2>2, <2>4 DEF ResolutionOf
    <3> QED BY <2>1, <3>1 DEF Follows, r
  <2>5. CASE r.status # "ambiguous" /\ r.candidates # <<>>
    <3>1. \E st, re, cd, ca : st \notin {"ambiguous", "fallback"} /\ Resolution(c, i, q, dims) = Resolved(r, st, r.candidates[1], re, cd, ca)
      BY <2>2, <2>5 DEF ResolutionOf, ResolvedAt
    <3> QED BY <2>1, <2>5, <3>1 DEF Follows, r
  <2> QED BY <2>3, <2>4, <2>5
<1>2. \A n \in DOMAIN found : Follows(found[n], ResolvePlace(c, ask.places[n]))
  BY <1>1
<1> DEFINE met == IF ask.tool # "compare" THEN {}
                  ELSE Aligned(c, i, {found[n].place : n \in {m \in DOMAIN found : found[m].status = "ok"}}, dims)
<1>3. Plan(c, ask) = PlanMet(c, ask, dims, found, met)
  BY DEF Plan, PlanAsked, PlanFound
<1>4. DOMAIN found = DOMAIN ask.places
  OBVIOUS
<1> HIDE DEF found, met, dims
<1>5. \A ds, rs : PlanOf(ask, ds, rs, met).rows = rs
  BY DEF PlanOf
<1>6. CASE met = {}
  <2>1. Plan(c, ask).rows = found
    BY <1>3, <1>5, <1>6 DEF PlanMet
  <2> QED BY <1>2, <1>4, <2>1
<1>7. CASE met # {}
  <2> DEFINE five == [dims EXCEPT !.product = "5-year"]
             again == [n \in DOMAIN found |->
                        IF found[n].status # "ok" THEN found[n]
                        ELSE [found[n] EXCEPT !.caveats = CaveatOf(c, i, found[n].place, five)]]
  <2>1. Plan(c, ask).rows = again
    BY <1>3, <1>5, <1>7 DEF PlanMet
  <2>2. ASSUME NEW n \in DOMAIN found PROVE Follows(again[n], ResolvePlace(c, ask.places[n]))
    <3>1. Follows(found[n], ResolvePlace(c, ask.places[n]))
      BY <1>2
    <3>2. /\ DOMAIN again[n] = DOMAIN found[n]
          /\ again[n].status = found[n].status /\ again[n].place = found[n].place
          /\ again[n].passed = found[n].passed /\ again[n].candidates = found[n].candidates
      BY <3>1 DEF Follows
    <3> HIDE DEF again
    <3> QED BY <3>1, <3>2 DEF Follows
  <2>3. DOMAIN again = DOMAIN found
    OBVIOUS
  <2> HIDE DEF again
  <2> QED BY <1>4, <2>1, <2>2, <2>3
<1> QED BY <1>6, <1>7

\* An ambiguous question can be answered: naming the kind and the state of the
\* namesake meant, or the GEOID of a town, picks it or one just like it.
THEOREM AmbiguityEnds == Spec => []Clarified
<1>1. IInv /\ BuildInv /\ Phases /\ OpenIsLive => Clarified
  <2> SUFFICES ASSUME IInv, BuildInv, Phases, OpenIsLive, reply.kind = "get", reply.of.status = "ambiguous",
                      NEW id \in ToSet(reply.of.candidates) \cap Namesakes(call.ask.places[1])
               PROVE  LET q == call.ask.places[1] IN
                      \/ \E one \in Namesakes(q) : Alike(one, id) /\ Picks(Naming(q, id), one)
                      \/ id[1] = Town /\ Picks([q EXCEPT !.geoid = id], id)
    BY DEF Clarified
  <2> DEFINE ask == call.ask
             q == ask.places[1]
             text == TextOf(live.read)
             i == ask.indicator
  <2>1. /\ call # None /\ Tool = "get" /\ ~Refused(ask) /\ call = Plan(open, ask) /\ open # None
        /\ reply.of = GetIndicator(open, call, got)
        /\ \E top \in Nat : DOMAIN ask.places = 1 .. top /\ top <= 1
    BY RepliedTo DEF IInv, CallIsAsked
  <2>2. open = Assemble(text) /\ IsPublished(text)
    BY <2>1, TextIsPublished
  <2>3. ~NationalScope(i) /\ reply.of.status = call.rows[1].status /\ reply.of.candidates = call.rows[1].candidates
    <3>1. call.ask = ask
      OBVIOUS
    <3>2. \A plan, row, key, x, obs, notes : Answered(plan, row, key, x, obs, notes).status = "ok"
      BY DEF Answered
    <3>3. \A row, notes : Unanswered(row, notes).status = row.status /\ Unanswered(row, notes).candidates = row.candidates
      BY DEF Unanswered
    <3>4. CASE ~NationalScope(i) /\ call.rows[1].status # "ok"
      <4>1. \E notes : reply.of = Unanswered(call.rows[1], notes)
        BY <2>1, <3>4 DEF GetIndicator
      <4> QED BY <3>3, <3>4, <4>1
    <3>5. CASE ~(~NationalScope(i) /\ call.rows[1].status # "ok")
      <4>1. \E row, key, x, obs, notes : reply.of = Answered(call, row, key, x, obs, notes)
        BY <2>1, <3>5 DEF GetIndicator, GetAnswer
      <4> QED BY <3>2, <4>1
    <3> QED BY <3>4, <3>5
  <2>4. 1 \in DOMAIN ask.places
    <3>1. ask.places # <<>>
      BY <2>1, <2>3 DEF Refused, Tool
    <3>2. PICK k \in DOMAIN Asks : ask = Asks[k]
      BY <2>1, AskOf
    <3>3. ask.places \in Seq(ToSet(ask.places))
      BY <2>1, <3>2, AnswersAssumption DEF Tool
    <3>4. Len(ask.places) \in Nat \ {0} /\ DOMAIN ask.places = 1 .. Len(ask.places)
      BY <3>1, <3>3
    <3> QED BY <3>4
  <2>5. DOMAIN q = {"text", "county", "tail", "geoid", "kind", "state"}
    <3>1. PICK k \in DOMAIN Asks : ask = Asks[k]
      BY <2>1, AskOf
    <3>2. q \in ToSet(ask.places)
      BY <2>4 DEF ToSet
    <3> QED BY <2>1, <3>1, <3>2, AnswersAssumption DEF Tool
  <2>6. ResolvePlace(open, q).status = "ambiguous" /\ ResolvePlace(open, q).candidates = reply.of.candidates
    <3>1. Follows(call.rows[1], ResolvePlace(open, q))
      BY <2>1, <2>4, RowFollows
    <3> QED BY <2>3, <3>1 DEF Follows
  <2> HIDE DEF q, text
  <2>7. id \in ToSet(ResolvePlace(open, q).candidates) /\ id \in Namesakes(q)
    BY <2>6 DEF q
  <2>8. \/ \E one \in Namesakes(q) : Alike(one, id) /\ Picks(Naming(q, id), one)
        \/ id[1] = Town /\ Picks([q EXCEPT !.geoid = id], id)
    BY <2>2, <2>5, <2>6, <2>7, Clarifies
  <2> QED BY <2>8 DEF q
<1> QED BY <1>1, InvAlways, Opened, PTL

\* An answer for a place is of the row settled for it.
LEMMA AnswerFollows ==
  ASSUME IInv, reply.kind \in {"get", "compare"}, ~NationalScope(call.ask.indicator),
         NEW n \in DOMAIN Answer, Answer[n].status \in {"ok", "fallback"}
  PROVE  /\ n \in DOMAIN call.ask.places
         /\ LET r == ResolvePlace(open, call.ask.places[n]) IN
            /\ r.status # "ambiguous"
            /\ Answer[n].place = r.candidates[1] /\ Answer[n].passed = r.passed
<1> DEFINE ask == call.ask
           plan == call
           row == call.rows[n]
<1>1. /\ call # None /\ ~Refused(ask) /\ call = Plan(open, ask) /\ Tool = reply.kind
      /\ reply.kind = "get" => reply.of = GetIndicator(open, call, got)
      /\ reply.kind = "compare" => reply.of = ComparePlaces(call, got)
  BY RepliedTo
<1>2. \A p, x, key, obs, m, notes :
        /\ Answered(p, x, key, obs, m, notes).place = x.place
        /\ Answered(p, x, key, obs, m, notes).passed = x.passed
  BY DEF Answered
<1>3. \A x, notes : Unanswered(x, notes).status = x.status
  BY DEF Unanswered
<1>4. \A m \in DOMAIN ask.places : Follows(call.rows[m], ResolvePlace(open, ask.places[m]))
  BY <1>1, RowFollows
<1>5. DOMAIN call.rows = DOMAIN ask.places
  BY <1>1, RowFollows
<1>6. /\ n \in DOMAIN call.rows
      /\ \/ Answer[n].place = row.place /\ Answer[n].passed = row.passed /\ row.status = "ok"
         \/ Answer[n].status = row.status /\ row.status # "ok"
  <2>1. CASE reply.kind = "get"
    <3>1. Answer = << reply.of >> /\ n = 1 /\ Answer[n] = GetIndicator(open, call, got)
      BY <1>1, <2>1 DEF Answer
    <3>2. 1 \in DOMAIN ask.places
      <4>1. ask.places # <<>>
        BY <1>1, <2>1 DEF Refused, Tool
      <4>2. PICK k \in DOMAIN Asks : ask = Asks[k]
        BY <1>1, AskOf
      <4>3. ask.places \in Seq(ToSet(ask.places))
        BY <1>1, <2>1, <4>2, AnswersAssumption DEF Tool
      <4>4. Len(ask.places) \in Nat \ {0} /\ DOMAIN ask.places = 1 .. Len(ask.places)
        BY <4>1, <4>3
      <4> QED BY <4>4
    <3>3. CASE row.status # "ok"
      <4>1. \E notes : Answer[n] = Unanswered(row, notes)
        BY <3>1, <3>3 DEF GetIndicator
      <4> QED BY <1>3, <1>5, <3>1, <3>2, <3>3, <4>1
    <3>4. CASE row.status = "ok"
      <4>1. \E key, x, obs, notes : Answer[n] = Answered(call, row, key, x, obs, notes)
        BY <3>1, <3>4 DEF GetIndicator, GetAnswer
      <4> QED BY <1>2, <1>5, <3>1, <3>2, <3>4, <4>1
    <3> QED BY <3>3, <3>4
  <2>2. CASE reply.kind = "compare"
    <3>1. PICK all, period : reply.of = Compared(call, all, period)
      BY <1>1, <2>2 DEF ComparePlaces, CompareFetched
    <3> DEFINE at(key) == {x \in UNION {ToSetOf(s.observations) : s \in {t \in all : t.key = key}} :
                             <<x.year, x.period>> = period}
               rows == [m \in DOMAIN call.rows |->
                          IF call.rows[m].status # "ok" THEN Unanswered(call.rows[m], {})
                          ELSE CompareRow(call, call.rows[m], call.keyOf[m][1], at(call.keyOf[m][1]))]
    <3>2. Answer = rows
      BY <2>2, <3>1 DEF Answer, Compared
    <3>3. DOMAIN rows = DOMAIN call.rows
      OBVIOUS
    <3>4. \A x, key, S : /\ CompareRow(call, x, key, S).place = x.place
                         /\ CompareRow(call, x, key, S).passed = x.passed
      <4> SUFFICES ASSUME NEW x, NEW key, NEW S
                   PROVE  /\ CompareRow(call, x, key, S).place = x.place
                          /\ CompareRow(call, x, key, S).passed = x.passed
        OBVIOUS
      <4> DEFINE full == Answered(call, x, key, IF S = {} THEN Nothing ELSE ThePick(S), <<>>, {})
      <4>1. full.place = x.place /\ full.passed = x.passed
        BY <1>2
      <4> HIDE DEF full
      <4>2. \A st : [full EXCEPT !.status = st].place = full.place /\ [full EXCEPT !.status = st].passed = full.passed
        OBVIOUS
      <4> QED BY <4>1, <4>2 DEF CompareRow, full
    <3>5. n \in DOMAIN call.rows
      BY <3>2, <3>3
    <3>6. CASE row.status # "ok"
      <4>1. Answer[n] = Unanswered(row, {})
        BY <3>2, <3>5, <3>6
      <4> QED BY <1>3, <3>5, <3>6, <4>1
    <3>7. CASE row.status = "ok"
      <4>1. \E key, S : Answer[n] = CompareRow(call, row, key, S)
        BY <3>2, <3>5, <3>7
      <4> QED BY <3>4, <3>5, <3>7, <4>1
    <3> QED BY <3>6, <3>7
  <2> QED BY <2>1, <2>2
<1>7. n \in DOMAIN ask.places /\ Follows(row, ResolvePlace(open, ask.places[n]))
  BY <1>4, <1>5, <1>6
<1> QED BY <1>6, <1>7 DEF Follows

\* Every place is asked for by a name of at most one suffix, whose matches fit a
\* page of the search.
AskedByName ==
  \A n \in DOMAIN call.ask.places :
    LET q == call.ask.places[n] IN
    /\ q.text \notin Short /\ q.geoid \notin DOMAIN open.rows
    /\ MatchesFit(open, q.text) /\ Normal(Normal(q.text)) = Normal(q.text)

\* Nobody is passed over in silence: whoever has the name asked for is mentioned,
\* or stands behind the one leader of those that are not.
THEOREM NobodyInSilence == Spec => [](AskedByName => RivalsAreTold)
<1>1. IInv /\ BuildInv /\ Phases /\ OpenIsLive => (AskedByName => RivalsAreTold)
  <2> SUFFICES ASSUME IInv, BuildInv, Phases, OpenIsLive, AskedByName,
                      reply.kind \in {"get", "compare"}, ~NationalScope(call.ask.indicator),
                      NEW n \in DOMAIN Answer, Answer[n].status \in {"ok", "fallback"},
                      {call.ask.places[n].county, call.ask.places[n].tail} = {<<>>},
                      call.ask.places[n].kind = NoKind, call.ask.places[n].state = NoState,
                      ~(Namesakes(call.ask.places[n]) \subseteq Answer[n].passed \ {Answer[n].place})
               PROVE  LET M == Namesakes(call.ask.places[n])
                          told == Answer[n].passed \ {Answer[n].place}
                      IN \E lead \in M \ told : \A id \in M :
                           \E one \in {id} \cup {t \in M : Twin(id, t)} : one \in told \/ Outshone(one, lead)
    BY DEF RivalsAreTold
  <2> DEFINE text == TextOf(live.read)
  <2>0. PICK q, told : q = call.ask.places[n] /\ told = Answer[n].passed \ {Answer[n].place}
    OBVIOUS
  <2>1. open = Assemble(text) /\ IsPublished(text)
    <3>1. open # None
      BY RepliedTo DEF IInv, CallIsAsked
    <3> QED BY <3>1, TextIsPublished
  <2>2. /\ n \in DOMAIN call.ask.places
        /\ ResolvePlace(open, q).status # "ambiguous"
        /\ told = ResolvePlace(open, q).passed \ {ResolvePlace(open, q).candidates[1]}
    BY <2>0, AnswerFollows
  <2>3. ResolvePlace(open, q).status = "ok"
    BY <2>2, OkOrAsked
  <2>4. /\ q.text \notin Short /\ q.geoid \notin DOMAIN open.rows
        /\ MatchesFit(open, q.text) /\ Normal(Normal(q.text)) = Normal(q.text)
    BY <2>0, <2>2 DEF AskedByName
  <2>5. q.county = <<>> /\ q.tail = <<>> /\ q.kind = NoKind /\ q.state = NoState
        /\ ~(Namesakes(q) \subseteq told)
    BY <2>0
  <2> HIDE DEF text
  <2>6. \E lead \in Namesakes(q) \ told : \A id \in Namesakes(q) :
          \E one \in {id} \cup {t \in Namesakes(q) : Twin(id, t)} : one \in told \/ Outshone(one, lead)
    BY <2>1, <2>2, <2>3, <2>4, <2>5, NameTells
  <2> QED BY <2>0, <2>6
<1> QED BY <1>1, InvAlways, Opened, PTL
=============================================================================
