----------------------------- MODULE Indicators -----------------------------
(***************************************************************************)
(* The indicator tools of every server (core/src/indicators): get, compare *)
(* and list over a registry of definitions, each with its dimensions, the  *)
(* code of a place, a caveat, a substitute, a series key, and a way to     *)
(* fetch.  Here the programs' parts are put together, and what the three   *)
(* tools do with them: everything but the fetches in between.              *)
(*                                                                         *)
(* An ask is a record: tool, indicator, places (queries of Geography; none *)
(* when no place was given), dims (argument -> code), start and end (years *)
(* or Null), adjusted.  A resolution is [status, place, reported, code,    *)
(* caveats, passed, candidates].                                           *)
(***************************************************************************)
EXTENDS QcewFetch

CONSTANT ThisYear  \* now().getFullYear()

IndicatorsAssumption == ThisYear \in Nat
ASSUME IndicatorsAssumption

Hud(i) == i \in HudIndicators
Bea(i) == i \in BeaIndicators
Bls(i) == i \in BlsIndicators
Qcew(i) == i \in QcewIndicators
Indicators == HudIndicators \cup BeaIndicators \cup BlsIndicators \cup QcewIndicators
              \cup CensusIndicators
SameServer(i) ==  \* registry.list()
  IF Hud(i) THEN HudIndicators ELSE IF Bea(i) THEN BeaIndicators
  ELSE IF Bls(i) \/ Qcew(i) THEN BlsIndicators \cup QcewIndicators ELSE CensusIndicators

NationalScope(i) == i = "producer_price_index"
ServesHistory(i) == i \notin OewsIndicators

-----------------------------------------------------------------------------
(* The registry: one definition per indicator.                             *)

Dimensions(i) ==
  IF Hud(i) THEN HudDimensions(i) ELSE IF Bea(i) THEN BeaDimensions(i)
  ELSE IF Bls(i) THEN BlsDimensions(i) ELSE IF Qcew(i) THEN QcewDimensions ELSE CensusDimensions(i)

\* resolveDimensions: an argument the indicator does not take, or a code out
\* of its vocabulary, is refused; what was not given is the default.
DimensionsRefused(i, args) ==
  \/ DOMAIN args \ DOMAIN Dimensions(i) # {}
  \/ \E a \in DOMAIN args \cap DOMAIN Dimensions(i) : args[a] \notin Dimensions(i)[a].vocabulary
Selection(i, args) ==
  [a \in DOMAIN Dimensions(i) |-> IF a \in DOMAIN args THEN args[a] ELSE Dimensions(i)[a].default]

AgencyCode(c, i, id) ==
  IF Hud(i) THEN HudCode(c, i, id) ELSE IF Bea(i) THEN BeaCode(c, i, id)
  ELSE IF Bls(i) THEN BlsCode(c, i, id) ELSE IF Qcew(i) THEN QcewCode(c, id) ELSE CensusCode(c, id)

CaveatOf(c, i, id, dims) ==
  IF Hud(i) THEN HudCaveats(i, id) ELSE IF Bea(i) THEN BeaCaveats(c, i, id)
  ELSE IF Bls(i) THEN BlsCaveats(c, i, id) ELSE IF Qcew(i) THEN {} ELSE CensusCaveats(c, i, id, dims)

Fallback(c, i, id) ==
  IF Hud(i) THEN HudFallback(c, i, id) ELSE IF Bea(i) THEN BeaFallback(c, i, id)
  ELSE IF Bls(i) THEN BlsFallback(c, i, id) ELSE {}

UnavailableNotes(i, id) ==
  (IF Hud(i) THEN HudUnavailable(i, id) ELSE IF Bea(i) THEN BeaUnavailable(i, id) ELSE {})
  \cup (IF id[1] = Nation THEN {<<"no_national">>} ELSE {})

SeriesKey(i, code, dims, adjusted) ==
  IF Hud(i) THEN HudKey(i, code, dims) ELSE IF Bea(i) THEN BeaKey(i, code, dims)
  ELSE IF Bls(i) THEN BlsKey(i, code, dims, adjusted) ELSE IF Qcew(i) THEN QcewKey(code, dims)
  ELSE CensusKey(i, code, dims)
KeyRefused(i, dims) == (Bls(i) /\ BlsKeyRefused(i, dims)) \/ (Qcew(i) /\ QcewKeyRefused(dims))

\* alignDimensions: the places a comparison has to meet, or none.
Aligned(c, i, ids, dims) == IF i \in CensusIndicators THEN CensusAlign(c, i, ids, dims) ELSE {}

\* The fetch: the next requests, an agency's answer, the series read off.
Wanted(i, keys, o, got) ==
  IF Hud(i) THEN HudWanted(i, keys, o, got) ELSE IF Bea(i) THEN BeaWanted(i, keys, o, got)
  ELSE IF Bls(i) THEN BlsWanted(keys, o, got) ELSE IF Qcew(i) THEN QcewWanted(keys, o, got)
  ELSE CensusWanted(keys, got)

AgencyAnswer(i, request, released) ==
  IF Hud(i) THEN HudAnswer(request, released) ELSE IF Bea(i) THEN BeaAnswer(request, released)
  ELSE IF Bls(i) THEN BlsAnswer(request, released) ELSE IF Qcew(i) THEN QcewAnswer(request, released)
  ELSE CensusAnswer(request, released)

SeriesOf(i, keys, n, o, got) ==
  IF Hud(i) THEN HudSeries(i, keys[n], o, got) ELSE IF Bea(i) THEN BeaSeries(i, keys, n, o, got)
  ELSE IF Bls(i) THEN BlsSeries(i, keys, n, o, got) ELSE IF Qcew(i) THEN QcewSeries(i, keys[n], o, got)
  ELSE CensusSeries(i, keys[n], got)

\* A fetch that throws with all its answers in hand.
SeriesFail(i, keys, o, got) == Qcew(i) /\ QcewFails(keys, o, got)

\* sourceFor: what the answer cites for a figure, as the request that reads it.
\* The Census server has no sourceOf: it cites the key it asked for, also when
\* the figure fell from one year to five.
SourceOf(i, key, x) ==
  IF Hud(i) THEN HudSource(i, key, x.year) ELSE IF Bea(i) THEN BeaSource(key, x.year)
  ELSE IF Bls(i) THEN BlsSource(key, x.year) ELSE IF Qcew(i) THEN QcewSource(key, x)
  ELSE key

-----------------------------------------------------------------------------
(* resolveSeries, and the same steps in the get handler.                   *)

ThePick(S) == CHOOSE x \in S : TRUE

Resolved(r, status, place, reported, code, caveats) ==
  [status |-> status, place |-> place, reported |-> reported, code |-> code,
   caveats |-> caveats, passed |-> r.passed,
   candidates |-> IF status = "ambiguous" THEN r.candidates ELSE <<>>]

ResolvedAt(c, i, r, dims, top, direct) ==
  IF direct # {} THEN Resolved(r, "ok", top, top, ThePick(direct), CaveatOf(c, i, top, dims))
  ELSE IF Fallback(c, i, top) # {}
  THEN LET s == ThePick(Fallback(c, i, top)) IN Resolved(r, "ok", top, s.id, s.code, s.caveat)
  ELSE Resolved(r, "unavailable", top, top, <<>>, {})

ResolutionOf(c, i, r, dims) ==
  IF r.status = "ambiguous" THEN Resolved(r, "ambiguous", <<>>, <<>>, <<>>, {})
  ELSE IF r.candidates = <<>> THEN Resolved(r, "not_found", <<>>, <<>>, <<>>, {})
  ELSE ResolvedAt(c, i, r, dims, r.candidates[1], AgencyCode(c, i, r.candidates[1]))
Resolution(c, i, q, dims) == ResolutionOf(c, i, ResolvePlace(c, q), dims)

\* The range asked for, or the last two calendar years.
Options(ask) ==
  [start |-> IF ask.start = Null THEN ThisYear - 1 ELSE ask.start,
   end |-> IF ask.end = Null THEN ThisYear ELSE ask.end,
   explicit |-> ask.start # Null \/ ask.end # Null]

HistoryNote(ask) ==
  IF ~ServesHistory(ask.indicator) /\ Options(ask).explicit THEN {<<"range_not_applied">>} ELSE {}

\* What a handler settles before it fetches: a refusal, or the resolution of
\* every place and the distinct series to fetch, in order.
Refused(ask) ==
  \/ DimensionsRefused(ask.indicator, ask.dims)
  \/ ask.tool = "get" /\ ask.places = <<>> /\ ~NationalScope(ask.indicator)
  \/ ask.tool = "compare" /\ NationalScope(ask.indicator)

\* The keys of the places that have one, each once.
Distinct(s) ==
  LET first == {n \in DOMAIN s : s[n] # <<>> /\ \A m \in 1 .. n - 1 : s[m] # s[n]}
  IN [k \in 1 .. Cardinality(first) |-> Keeping(s, first)[k][1]]

\* The series of the resolved places, with the dimensions met on.
PlanOf(ask, dims, rows, met) ==
  LET i == ask.indicator
      national == NationalScope(i)
      keyOf(code) == SeriesKey(i, code, dims, ask.adjusted)
      ok == {n \in DOMAIN rows : rows[n].status = "ok"}
      refused == KeyRefused(i, dims) /\ (national \/ ok # {})
      keys == [n \in DOMAIN rows |-> IF ~national /\ ~refused /\ n \in ok
                                     THEN << keyOf(rows[n].code) >> ELSE <<>>]
  IN [ask |-> ask, dims |-> dims, rows |-> rows, aligned |-> met, refused |-> refused, keyOf |-> keys,
      keys |-> IF national /\ ~refused THEN << keyOf(NationCode) >> ELSE Distinct(keys)]

\* Met on another product, a place's caveat is worded again.
PlanMet(c, ask, dims, rows, met) ==
  IF met = {} THEN PlanOf(ask, dims, rows, met)
  ELSE LET five == [dims EXCEPT !.product = "5-year"]
       IN PlanOf(ask, five,
                 [n \in DOMAIN rows |->
                    IF rows[n].status # "ok" THEN rows[n]
                    ELSE [rows[n] EXCEPT !.caveats = CaveatOf(c, ask.indicator, rows[n].place, five)]], met)

PlanFound(c, ask, dims, found) ==
  PlanMet(c, ask, dims, found,
          IF ask.tool # "compare" THEN {}
          ELSE Aligned(c, ask.indicator,
                       {found[n].place : n \in {m \in DOMAIN found : found[m].status = "ok"}}, dims))
PlanAsked(c, ask, dims) ==
  PlanFound(c, ask, dims,
            [n \in DOMAIN ask.places |-> Resolution(c, ask.indicator, ask.places[n], dims)])
Plan(c, ask) == PlanAsked(c, ask, Selection(ask.indicator, ask.dims))

-----------------------------------------------------------------------------
(* The answers.  A reply is [status, place, value, period, caveats, notes, *)
(* ...] for get, and a row of the same for each place of a comparison.     *)

Nothing == [year |-> Null, period |-> Null, value |-> Null]
LatestOf(series) == IF series.observations = <<>> THEN Nothing ELSE series.observations[1]

\* The nation's series; a place that is not the nation only names a caveat.
NamesNation(r) == r.status # "ambiguous" /\ r.candidates # <<>> /\ r.candidates[1][1] = Nation
MentionedCaveat(c, ask) ==
  {<<"not_for", ask.places[n].text>> :
     n \in {m \in DOMAIN ask.places : ~NamesNation(ResolvePlace(c, ask.places[m]))}}

Answered(plan, row, key, x, observations, notes) ==
  [status |-> "ok", place |-> row.place, reported |-> row.reported, key |-> <<key>>,
   caveats |-> row.caveats, passed |-> row.passed, candidates |-> <<>>,
   latest |-> x, observations |-> observations, notes |-> notes,
   source |-> IF x = Nothing THEN {} ELSE {SourceOf(plan.ask.indicator, key, x)}]

Unanswered(row, notes) ==
  [status |-> row.status, place |-> row.place, reported |-> row.reported, key |-> <<>>,
   caveats |-> {}, passed |-> row.passed, candidates |-> row.candidates,
   latest |-> Nothing, observations |-> <<>>, notes |-> notes, source |-> {}]

GetAnswer(plan, row, series) ==
  Answered(plan, row, plan.keys[1], LatestOf(series), series.observations,
           HistoryNote(plan.ask) \cup series.notes)

GetIndicator(c, plan, got) ==
  LET ask == plan.ask
      i == ask.indicator
      row == plan.rows[1]
      nation == [place |-> <<Nation>>, reported |-> <<Nation>>, passed |-> {},
                 caveats |-> MentionedCaveat(c, ask)]
  IN IF ~NationalScope(i) /\ row.status # "ok"
     THEN Unanswered(row, IF row.status = "unavailable" THEN UnavailableNotes(i, row.place) ELSE {})
     ELSE GetAnswer(plan, IF NationalScope(i) THEN nation ELSE row,
                    SeriesOf(i, plan.keys, 1, Options(ask), got))

\* The latest period every series with data shares.
ToSetOf(s) == {s[n] : n \in DOMAIN s}
PeriodsOf(series) == {<<x.year, x.period>> : x \in ToSetOf(series.observations)}
LatestYear(S) ==  \* mutant: the months or quarters of a year are not ordered
  IF S = {} THEN <<Null, Null>> ELSE CHOOSE p \in S : \A q \in S : q[1] <= p[1]
LatestPeriod(S) ==
  IF S = {} THEN <<Null, Null>>
  ELSE CHOOSE p \in S : \A q \in S : q[1] < p[1] \/ (q[1] = p[1] /\ q[2] <= p[2])
SharedPeriod(all) ==
  LET full == {s \in all : s.observations # <<>>}
      shared == {p \in UNION {PeriodsOf(s) : s \in full} : \A s \in full : p \in PeriodsOf(s)}
  IN LatestPeriod(shared)

CompareRow(plan, r, key, at) ==
  [Answered(plan, r, key, IF at = {} THEN Nothing ELSE ThePick(at), <<>>, {}) EXCEPT
     !.status = IF r.caveats = {} THEN "ok" ELSE "fallback"]

\* all is the series fetched, one of every distinct key.
Compared(plan, all, period) ==
  LET i == plan.ask.indicator
      at(key) == {x \in UNION {ToSetOf(s.observations) : s \in {t \in all : t.key = key}} :
                    <<x.year, x.period>> = period}
  IN [period |-> period, dims |-> plan.dims,
      rows |-> [n \in DOMAIN plan.rows |->
                  IF plan.rows[n].status # "ok" THEN Unanswered(plan.rows[n], {})
                  ELSE CompareRow(plan, plan.rows[n], plan.keyOf[n][1], at(plan.keyOf[n][1]))],
      notes |-> {<<"aligned", id>> : id \in plan.aligned}
                \cup (UNION {UnavailableNotes(i, plan.rows[n].place) :
                              n \in {m \in DOMAIN plan.rows : plan.rows[m].status = "unavailable"}})
                \cup HistoryNote(plan.ask)
                \cup UNION {s.notes : s \in all}]

CompareFetched(plan, all) == Compared(plan, all, SharedPeriod(all))
ComparePlaces(plan, got) ==
  CompareFetched(plan, {SeriesOf(plan.ask.indicator, plan.keys, k, Options(plan.ask), got) :
                          k \in DOMAIN plan.keys})

\* list_indicators: every indicator of the server, and at a place whether it
\* is published there and what stands in.
Listed(i, published, substitutes) == [indicator |-> i, published |-> published, fallback |-> substitutes]

StandsIn(c, i, id) == IF Fallback(c, i, id) = {} THEN {} ELSE {ThePick(Fallback(c, i, id)).id}
ListAtEither(c, i, id) ==  \* mutant: a substitute is named even where it is published
  Listed(i, AgencyCode(c, i, id) # {}, StandsIn(c, i, id))
ListAt(c, i, id) ==
  LET direct == AgencyCode(c, i, id) # {}
  IN Listed(i, direct, IF direct THEN {} ELSE StandsIn(c, i, id))

ListFound(c, i, r) ==
  LET reply(status, candidates, passed, list) ==
        [status |-> status, candidates |-> candidates, passed |-> passed, list |-> list]
      bare == {Listed(j, FALSE, {}) : j \in SameServer(i)}
  IN IF r = {} THEN reply("no_place", <<>>, {}, bare)
     ELSE LET found == ThePick(r) IN
       IF found.status = "ambiguous" THEN reply("ambiguous", found.candidates, {}, bare)
       ELSE IF found.candidates = <<>> THEN reply("not_found", <<>>, {}, bare)
       ELSE reply("ok", << found.candidates[1] >>, found.passed,
                  {ListAt(c, j, found.candidates[1]) : j \in SameServer(i)})

ListIndicators(c, ask) ==
  ListFound(c, ask.indicator, {ResolvePlace(c, ask.places[n]) : n \in DOMAIN ask.places})
=============================================================================
