------------------------------ MODULE Answers ------------------------------
(***************************************************************************)
(* A server answers a call: geography-build and deploy.sh put a catalog    *)
(* under it (GeographyBuild), it opens the catalog once, resolves the      *)
(* places of the call, settles the series, sends the agency its requests   *)
(* one by one while the agency may publish new figures or fail, and        *)
(* answers (Indicators).  Calls of one process share nothing but the       *)
(* catalog here; their budgets, caches and retries are in HttpClient and   *)
(* ToolCall.                                                               *)
(***************************************************************************)
EXTENDS Indicators, GeographyBuild

CONSTANTS
  Asks,        \* the calls: asks of Indicators, and those of the raw tools
  Releases     \* bound: how often the agencies publish

\* A year is a positive number: Null and Latest are none.
Year == Nat \ {0}
ASSUME AnswersAssumption ==
  /\ Releases \in Nat
  /\ \A n \in DOMAIN Asks :
       LET ask == Asks[n] IN
       IF ask.tool # "raw"
       THEN /\ ask.indicator \in Indicators
            /\ {ask.start, ask.end} \subseteq Year \cup {Null}
            /\ ask.places \in Seq(ToSet(ask.places))
            /\ \A q \in ToSet(ask.places) :
                 DOMAIN q = {"text", "county", "tail", "geoid", "kind", "state"}
            /\ ask.tool \in {"get", "list"} => Len(ask.places) <= 1
       ELSE /\ ask.server = "bls" => /\ {ask.query.start, ask.query.end} \subseteq Year \cup {Null}
                                     /\ ask.query.ids \in Seq(ToSet(ask.query.ids))
            /\ ask.server = "hud" => ask.query.year \in Year \cup {Latest}

\* A town whose GEOID changed since 2020 is new to HUD under its own.
ASSUME TownsAssumption ==
  \A w \in Worlds : \A t \in ToSet(w.files["gaz060"]), o \in ToSet(w.files["cousubs2020"]) :
    t.gnis = o.gnis /\ t.geoid # o.geoid => IdIsNew(t.geoid)

(* What the agencies' codes name, of the places of the published lists.     *)
Rows(list) == UNION {ToSet(w.files[list]) : w \in Worlds}

\* HUD: a county and its suffix, a town by its GEOID or the one of 2020.
ASSUME HudCodesAssumption ==
  \A p \in HudPages :
    IF p.page \notin DOMAIN NewTownIdFrom THEN p.area = p.id
    ELSE /\ Len(p.id) = 3 /\ p.id[3] = CountySuffix => p.area = <<County, p.id[1], p.id[2]>>
         /\ \A t \in Rows("gaz060") :
              p.id \in {t.geoid} \cup {o.geoid : o \in {x \in Rows("cousubs2020") : x.gnis = t.gnis}}
              => p.area = <<Town>> \o t.geoid

\* BEA: a metro, the rest of a state, a state, a combination or a county.
ASSUME BeaCodesAssumption ==
  \A r \in BeaRows :
    IF r.table = "MARPP" THEN r.area = <<Metro>> \o r.geo
    ELSE IF r.table = "PARPP" THEN r.area = r.geo
    ELSE /\ Len(r.geo) = 2 /\ r.geo[2] = 0 => r.area = <<State, r.geo[1]>>
         /\ r.geo \in {b.code : b \in Rows("bea")} => r.area = r.geo
         /\ r.geo \in {t.geoid : t \in Rows("gaz050")} => r.area = <<County>> \o r.geo

\* BLS: the nation, a CPI area, a state and its metros, or a LAUS area; the
\* code of a town leaves out the county of its GEOID.
ASSUME BlsCodesAssumption ==
  \A r \in BlsRows :
    LET a == r.series.area
        survey == r.series.survey
    IN /\ a = NationCode => <<Nation>> \in r.of
       /\ survey = "CU" /\ a[1] \in DOMAIN CpiAreas => CpiAreas[a[1]] \in r.of
       /\ survey \in {"SM", "OE", "JT"} /\ Len(a) = 2 =>
            IF a[2] = 0 THEN <<State, a[1]>> \in r.of
            ELSE IF survey = "SM" THEN <<Metro, a[2]>> \in r.of ELSE a \in r.of
       /\ survey = "LA" =>
            IF a[1] # Town THEN a \in r.of
            ELSE \A t \in Rows("gaz060") :
                   a = <<Town, t.geoid[1], t.geoid[3]>> => <<Town>> \o t.geoid \in r.of

VARIABLES
  open,      \* the catalog this process opened, or None
  call,      \* what the handler settled before it fetches, or None
  got,       \* request -> the agency's answer
  reply,     \* the tool result, or None
  released   \* the newest release of the agencies

vars == <<buildVars, open, call, got, reply, released>>
idle == <<call, got, reply, released>>

-----------------------------------------------------------------------------
(* The raw tools: [tool, server, query].                                   *)

RawToolRefused(ask) ==
  CASE ask.server = "hud" -> RawRefused(ask.query)
    [] ask.server = "bea" -> BeaRawRefused(ask.query)
    [] ask.server = "bls" -> BlsRawRefused(ask.query)
    [] ask.server = "census" -> CensusRawRefused(ask.query)

BlsYears(q) ==
  LET y == BlsRawYears(q, ThisYear) IN IF y.start = Null THEN BlsDefault ELSE y.start .. y.end

RawAsked(ask) ==
  CASE ask.server = "hud" -> RawRequests(ask.query)
    [] ask.server = "bls" -> BlsBatches(ask.query.ids, BlsYears(ask.query))
    [] OTHER -> << ask.query.request >>

RawAnswer(ask, request, when) ==
  CASE ask.server = "hud" -> HudAnswer(request, when)
    [] ask.server = "bea" -> BeaAnswer(request, when)
    [] ask.server = "bls" -> BlsAnswer(request, when)
    [] ask.server = "census" -> CensusAnswer(request, when)

RawResult(ask) ==
  CASE ask.server = "hud" -> RawReply(ask.query, got)
    [] ask.server = "bea" -> BeaRawReply(got[ask.query.request])
    [] ask.server = "bls" ->
         LET y == BlsRawYears(ask.query, ThisYear)
             r == BlsRawReply(ask.query, BlsYears(ask.query), got)
         IN [r EXCEPT !.notes = @ \cup y.notes]
    [] ask.server = "census" -> CensusRawReply(got[ask.query.request])

-----------------------------------------------------------------------------
(* The calls.                                                              *)

\* bundled-catalog: opened on first use, kept for the life of the process.
OpenServer ==
  /\ deploy = "done" /\ open = None
  /\ open' = Assemble(TextOf(live.read))
  /\ UNCHANGED <<buildVars, idle>>

Error == [kind |-> "error"]

StartCall(ask) ==
  /\ open # None /\ call = None
  /\ got' = <<>>
  /\ \/ /\ ask.tool = "raw"
        /\ call' = [ask |-> ask]
        /\ reply' = IF RawToolRefused(ask) THEN Error ELSE None
     \/ /\ ask.tool = "list"
        /\ call' = [ask |-> ask]
        /\ reply' = [kind |-> "list", of |-> ListIndicators(open, ask)]
     \/ /\ ask.tool \in {"get", "compare"} /\ Refused(ask)
        /\ call' = [ask |-> ask] /\ reply' = Error
     \/ /\ ask.tool \in {"get", "compare"} /\ ~Refused(ask)
        /\ LET plan == Plan(open, ask)
           IN call' = plan /\ reply' = IF plan.refused THEN Error ELSE None
  /\ UNCHANGED <<buildVars, open, released>>

Pending == call # None /\ reply = None

NextRequests ==
  IF call.ask.tool = "raw" THEN FirstOpen(RawAsked(call.ask), got)
  ELSE Wanted(call.ask.indicator, call.keys, Options(call.ask), got)

\* The agency's answer at a release.
AnswerOf(ask, request, when) ==
  IF ask.tool = "raw" THEN RawAnswer(ask, request, when) ELSE AgencyAnswer(ask.indicator, request, when)

Fetch ==
  /\ Pending
  /\ \E r \in NextRequests :
       got' = [q \in DOMAIN got \cup {r} |-> IF q = r THEN AnswerOf(call.ask, r, released) ELSE got[q]]
  /\ UNCHANGED <<buildVars, open, call, reply, released>>

\* A request that fails in the end (HttpClient) fails the whole call.
FetchFails ==
  /\ Pending /\ NextRequests # {}
  /\ reply' = Error
  /\ UNCHANGED <<buildVars, open, call, got, released>>

Finish ==
  /\ Pending /\ NextRequests = {}
  /\ reply' = IF call.ask.tool = "raw" THEN [kind |-> "raw", of |-> RawResult(call.ask)]
              ELSE IF SeriesFail(call.ask.indicator, call.keys, Options(call.ask), got) THEN Error
              ELSE IF call.ask.tool = "get" THEN [kind |-> "get", of |-> GetIndicator(open, call, got)]
              ELSE [kind |-> "compare", of |-> ComparePlaces(call, got)]
  /\ UNCHANGED <<buildVars, open, call, got, released>>

\* The deadline of a QCEW call stops every file not read yet (QcewHistory).
DeadlineStops ==
  /\ Pending /\ NextRequests # {}
  /\ call.ask.tool # "raw" /\ Qcew(call.ask.indicator)
  /\ got' = [q \in DOMAIN got \cup QcewOpen(call.keys, Options(call.ask), got) |->
               IF q \in DOMAIN got THEN got[q] ELSE TimedOut]
  /\ UNCHANGED <<buildVars, open, call, reply, released>>

\* Mutant: the last reply outlives its call.
ReturnKeeping ==
  /\ reply # None
  /\ call' = None /\ got' = <<>>
  /\ UNCHANGED <<buildVars, open, reply, released>>

\* The reply is sent; the process is free for the next call.
Return ==
  /\ reply # None
  /\ call' = None /\ got' = <<>> /\ reply' = None
  /\ UNCHANGED <<buildVars, open, released>>

\* An agency publishes while a call is under way.
Publish ==
  /\ Pending /\ released < Releases
  /\ released' = released + 1
  /\ UNCHANGED <<buildVars, open, call, got, reply>>

BuildStep == BuildNext /\ UNCHANGED <<open, idle>>

Init ==
  /\ BuildInit
  /\ open = None /\ call = None /\ got = <<>> /\ reply = None /\ released = 0

Next ==
  \/ BuildStep \/ OpenServer \/ (\E n \in DOMAIN Asks : StartCall(Asks[n]))
  \/ Fetch \/ FetchFails \/ DeadlineStops \/ Finish \/ Return \/ Publish

Spec == Init /\ [][Next]_vars

-----------------------------------------------------------------------------
(* Properties.                                                             *)

AnswersTypeOK ==
  /\ BuildTypeOK
  /\ open = None \/ \A id \in DOMAIN open.rows : id[1] \in Levels
  /\ reply.kind \in {"none", "error", "get", "compare", "list", "raw"}
  /\ reply # None => call # None
  /\ call # None => open # None
  /\ released \in 0 .. Releases

\* Rows of an answer, and those that show a number.
Answer ==
  IF reply.kind = "get" THEN << reply.of >>
  ELSE IF reply.kind = "compare" THEN reply.of.rows ELSE <<>>
Shown == {n \in DOMAIN Answer : Answer[n].latest.value # Null}

\* The entities of the kind asked for whose own name is the one asked for; the
\* query may leave out its suffix, but names no other.
Namesakes(q) ==
  LET a == AskedOf(q, SplitState(open, q.tail)) IN
  {id \in DOMAIN open.rows :
     /\ id[1] \in a.levels
     /\ Normal(a.text) \in {Normal(n) : n \in NamesOf(open, id)}
     /\ id[1] = Nation \/ \E n \in NamesOf(open, id) : Holds(a.text, n)}

KindLabel ==
  [level \in Levels |->
     CASE level = Nation -> "nation" [] level = Region -> "region" [] level = Division -> "division"
       [] level = State -> "state" [] level = County -> "county" [] level = Place -> "city"
       [] level = Town -> "county subdivision" [] level = Tract -> "tract"
       [] level = Metro -> "metro" [] level = Zcta -> "zip"]

Alike(a, b) == a[1] = b[1] /\ StateOf(a) = StateOf(b)
Picks(q, id) == ResolvePlace(open, q).status = "ok" /\ ResolvePlace(open, q).candidates[1] = id

\* The query with its kind named, and its state where it has one.
Naming(q, id) ==
  [q EXCEPT !.kind = KindLabel[id[1]], !.state = IF StateOf(id) = NoState THEN @ ELSE StateOf(id)]

(* A question can be answered: whichever namesake among the candidates of   *)
(* an ambiguous reply was meant, naming its kind and state picks it, or one *)
(* that shares both with it; of two towns, its GEOID does (resolvePlace).   *)
Clarified ==
  reply.kind = "get" /\ reply.of.status = "ambiguous" =>
    LET q == call.ask.places[1] IN
    \A id \in ToSet(reply.of.candidates) \cap Namesakes(q) :
      \/ \E one \in Namesakes(q) : Alike(one, id) /\ Picks(Naming(q, id), one)
      \/ id[1] = Town /\ Picks([q EXCEPT !.geoid = id], id)

Twin(a, b) == b \in ParentsOf(open, a) \/ a \in ParentsOf(open, b)

\* Next to a leader, a namesake need not be told of.
Outshone(id, lead) ==
  \/ id = lead
  \/ Ratio * Pop(open.rows[id].pop) <= Pop(open.rows[lead].pop)
  \/ Alike(id, lead)

(* Nobody is passed over in silence (resolvePlace): when only a name was    *)
(* given, the namesakes the answer does not mention have one leader, and    *)
(* every other one, or a namesake it is the twin of, is mentioned, has at   *)
(* most a tenth of the leader's people, or shares its kind and state.       *)
RivalsAreTold ==
  reply.kind \in {"get", "compare"} /\ ~NationalScope(call.ask.indicator) =>
    \A n \in DOMAIN Answer :
      LET q == call.ask.places[n]
          row == Answer[n]
          told == row.passed \ {row.place}
      IN row.status \in {"ok", "fallback"} /\ {q.county, q.tail} = {<<>>}
         /\ q.kind = NoKind /\ q.state = NoState /\ ~(Namesakes(q) \subseteq told) =>
           \E lead \in Namesakes(q) \ told : \A id \in Namesakes(q) :
             \E one \in {id} \cup {t \in Namesakes(q) : Twin(id, t)} : one \in told \/ Outshone(one, lead)

(* The most populous namesake is answered, or nothing is: "Same-name places *)
(* in other states are rivals unless the leader has at least this many      *)
(* times the runner-up's population" (resolver.ts).                         *)
LeaderIsAnswered ==
  reply.kind = "get" /\ reply.of.status = "ok" =>
    LET q == call.ask.places[1] IN
    \A id \in Namesakes(q) :
      id[1] = reply.of.place[1] => Pop(open.rows[id].pop) <= Pop(open.rows[reply.of.place].pop)

\* The place of a row, and the areas its caveats name.
Told(row) ==
  {row.place} \cup {w[2] : w \in {v \in row.caveats : v[1] \in {"covers", "combined"}}}

\* What an agency has published of these areas, by its release `when`.
Figures(i, key, areas, when) ==
  LET figure(year, period, value) == [year |-> year, period |-> period, value |-> value]
  IN IF Hud(i)
     THEN {figure(p.year, Annual, HudValue(i, p, key.pick)) :
             p \in {q \in HudVisible(when) : q.page = HudSource(i, key, Latest).page /\ q.area \in areas}}
     ELSE IF Bea(i)
     THEN {BeaObservation(r) :
             r \in {q \in BeaVisible(when) : /\ <<q.table, q.line>> = <<key.table, key.line>>
                                             /\ q.area \in areas}}
     ELSE IF Bls(i)
     THEN {figure(r.year, r.period, IF r.marked THEN Null ELSE r.value) :
             r \in {q \in BlsVisible(when) : q.series = key /\ q.of \cap areas # {}}}
     ELSE IF Qcew(i)
     THEN {QcewObservation(i, r) :
             r \in {q \in QcewVisible(when) : /\ q.of \in areas
                                              /\ <<q.own, q.industry>> = <<key.own, key.industry>>
                                              /\ (q.period[2] = 0) = key.annual}}
     ELSE {figure(IF i \in AcsIndicators THEN AcsVintage ELSE DecennialYear,
                  IF r.product = "5-year" THEN FiveYears ELSE Annual, Estimate(r)) :
             r \in {q \in CensusVisible(when) : q.variable = i /\ q.id \in areas}}

Says(i, key, areas, x) ==
  [year |-> x.year, period |-> x.period, value |-> x.value] \in Figures(i, key, areas, released)

(* The figure shown for a place is one its agency published, for the period *)
(* and breakdown shown, of that place, or of an area a caveat names: a      *)
(* county for its town, BEA's combination, the state's nonmetropolitan      *)
(* part, a division for a metro without its own CPI (resolveSeries, the     *)
(* servers' fallbackAgencyCode and caveatFor).                              *)
ShownIsPublished ==
  \A n \in Shown : Says(call.ask.indicator, Answer[n].key[1], Told(Answer[n]), Answer[n].latest)

\* What a reader asks the agency for: the source cited, but the five-year
\* product of the area cited when the figure's footnote says it is shown.
Followed(i, request, x) ==
  IF i \in CensusIndicators /\ <<"five_shown">> \in x.footnotes THEN AsFive(request) ELSE request

(* Whoever follows the source a row cites, and the footnote of an ACS       *)
(* figure that fell to five years, reads the figure shown: the same id,     *)
(* with the year in it, whatever was published since.  The source alone is  *)
(* not enough there: it names the one-year product asked for (sourceFor,    *)
(* and acsFetch, which keeps the id it was asked).                          *)
CitedIsRead ==
  \A n \in Shown :
    LET i == call.ask.indicator
        row == Answer[n]
        key == row.key[1]
        x == row.latest
    IN \E request \in row.source :
         \E r \in AgencyAnswer(i, Followed(i, request, x), released) :
           IF Hud(i) THEN r.year = x.year /\ HudValue(i, r, key.pick) = x.value
           ELSE IF Qcew(i) THEN r.period = request.period /\ QcewValue(i, r) = x.value
           ELSE IF i \in CensusIndicators THEN r.estimate = x.value
           ELSE <<r.year, r.value>> = <<x.year, x.value>>

(* Places are compared at one period, the newest that every place with data *)
(* has; and a place that has that period is not left blank (compare_places).*)
ComparedAlike ==
  reply.kind = "compare" =>
    LET i == call.ask.indicator
        series == {SeriesOf(i, call.keys, k, Options(call.ask), got) : k \in DOMAIN call.keys}
        full == {s \in series : s.observations # <<>>}
        at(row) == <<row.latest.year, row.latest.period>>
        rows == {n \in DOMAIN Answer : Answer[n].latest # Nothing}
    IN /\ \A n, m \in rows : at(Answer[n]) = at(Answer[m])
       /\ \A p \in UNION {PeriodsOf(s) : s \in full} :
            (\A s \in full : p \in PeriodsOf(s)) =>
              \A n \in DOMAIN Answer :
                (\E s \in full : Answer[n].key = << s.key >>)
                  => n \in rows /\ \/ p[1] < at(Answer[n])[1]
                                   \/ p[1] = at(Answer[n])[1] /\ p[2] <= at(Answer[n])[2]

(* A range of years is kept: nothing outside it is shown unless the reply   *)
(* says that it was not applied, and a HUD year inside it is shown, said to *)
(* be missing, or before the year the reply says the series starts.         *)
RangeIsKept ==
  reply.kind = "get" /\ reply.of.key # <<>> =>
    LET i == call.ask.indicator
        o == Options(call.ask)
        seen == {x.year : x \in ToSet(reply.of.observations)}
        said == {w[1] : w \in reply.of.notes}
        starts == {w[2] : w \in {v \in reply.of.notes : v[1] = "starts"}}
        none == {w[2] : w \in {v \in reply.of.notes : v[1] = "none" /\ Len(v) = 2}}
    IN o.explicit /\ i \notin CensusIndicators =>
         /\ seen \subseteq o.start .. o.end \/ said \cap {"range_not_applied", "release"} # {}
         /\ Hud(i) /\ i \notin ChasMeasures =>
              \A y \in o.start .. o.end : y \in seen \cup none \/ \E s \in starts : y < s

(* Without years, the newest number the agency had when the call began is   *)
(* shown, or a newer period, or what the deadline kept back is named; of    *)
(* QCEW files that come out late, up to two (candidatePeriods and the other *)
(* servers' defaults).                                                      *)
NewestIsShown ==
  reply.kind = "get" /\ reply.of.key # <<>> /\ ~Options(call.ask).explicit =>
    LET i == call.ask.indicator
        x == reply.of.latest
        late == {w \in reply.of.notes : w[1] = "late"}
    IN \A f \in Figures(i, reply.of.key[1], Told(reply.of), 0) :
         f.value # Null /\ late = {} =>
           \/ f.year < x.year
           \/ f.year = x.year /\ (f.period <= x.period \/ i \in CensusIndicators)

(* An ACS figure shows the product its caveat says, or says it fell from    *)
(* one year to five; and places with figures of both are never compared.    *)
ProductIsTold ==
  reply.kind \in {"get", "compare"} =>
    \A n \in Shown :
      LET x == Answer[n].latest
          product == IF x.period = FiveYears THEN "5-year" ELSE "1-year"
      IN call.ask.indicator \in AcsIndicators =>
           \/ Answer[n].caveats = {<<"product", product>>}
           \/ product = "5-year" /\ <<"five_shown">> \in x.footnotes

(* What list_indicators says of a place is what get_indicator does there:   *)
(* it answers for the place, for the substitute named, or not at all (two   *)
(* handlers that settle this apart; the indicators of the nation aside).    *)
ListMatchesGet ==
  reply.kind = "list" /\ reply.of.status = "ok" =>
    \A e \in reply.of.list : ~NationalScope(e.indicator) =>
      LET i == e.indicator
          row == Resolution(open, i, call.ask.places[1], Selection(i, <<>>))
          answered == IF row.status = "ok" THEN {row.reported} ELSE {}
      IN answered = e.fallback \cup (IF e.published THEN {row.place} ELSE {})

(* A raw reply leaves nothing out: an id with a note had no data at the     *)
(* agency at first, one without has data in the reply, or is a series BLS   *)
(* lists without a row; each row BLS had at first of the ids and years is   *)
(* in a reply, and none it never had; and no more than 20 years are asked   *)
(* of BLS, whatever years are named (hud_get_raw, bls_get_raw).             *)
RawTellsAll ==
  reply.kind = "raw" /\ call.ask.server \in {"hud", "bls"} =>
    LET q == call.ask.query
        none == {w[2] : w \in {v \in reply.of.notes : v[1] = "none"}}
        wanted(when) == {r \in BlsVisible(when) : r.series \in ToSet(q.ids) /\ r.year \in BlsYears(q)}
        shown == UNION {reply.of.replies[b].rows : b \in DOMAIN reply.of.replies}
        published(id, when) ==
          IF call.ask.server = "hud"
          THEN \E p \in HudVisible(when) :
                 p.page = q.endpoint /\ p.id = id /\ (q.year # Latest => p.year = q.year)
          ELSE \E r \in wanted(when) : r.series = id
        empty == IF call.ask.server = "bls" THEN BlsListed ELSE {}
    IN /\ \A id \in none : ~published(id, 0)
       /\ \A id \in ToSet(q.ids) \ none : published(id, released) \/ id \in empty
       /\ call.ask.server = "bls" =>
            /\ wanted(0) \subseteq shown /\ shown \subseteq wanted(released)
            /\ {q.start, q.end} # {Null} => Cardinality(BlsYears(q)) <= RawSpan
=============================================================================
