------------------------------ MODULE BlsFetch ------------------------------
(***************************************************************************)
(* How the BLS server reads its timeseries indicators (server-bls): LAUS,  *)
(* CES, CPI, OEWS, JOLTS and PPI.  The code of a place, the substitutes    *)
(* (a county for LAUS, a division, region or the nation for CPI), the      *)
(* series id, and the batches one call sends in turn.  QCEW is in          *)
(* QcewFetch.                                                              *)
(*                                                                         *)
(* A series id is the record [survey, area, items, adjusted].              *)
(***************************************************************************)
EXTENDS BeaFetch

CONSTANTS
  SeriesPerRequest,  \* MAX_SERIES_PER_REQUEST, 50
  BlsListed,         \* the series BLS lists in a reply also with no row, as it
                     \* does a series that does not exist ("data: []")
  BlsDefault,        \* the years BLS answers for when a request names none
  BlsRows            \* [series, of, year, period, value, marked, release], of
                     \* the catalog ids the figure is for: a town in parts of
                     \* several counties has one for each

\* BLS has one figure of a series for a period.
ASSUME BlsAssumption ==
  /\ SeriesPerRequest \in Nat \ {0}
  /\ IsFiniteSet(BlsRows)
  /\ \A r \in BlsRows : r.year \in Nat \ {0} /\ r.period \in Nat /\ r.release \in Nat
  /\ \A r, s \in BlsRows : r.series = s.series /\ r.year = s.year /\ r.period = s.period => r = s

LausIndicators == {"unemployment_rate", "unemployment", "employment", "labor_force"}
JoltsIndicators == {"job_openings", "hires", "quits", "layoffs"}
OewsIndicators == {"occupational_wage", "occupational_employment"}
BlsIndicators == LausIndicators \cup JoltsIndicators \cup OewsIndicators
                 \cup {"payroll_employment", "cpi_all_items", "producer_price_index"}

AllOccupations == "000000"
Occupations == {AllOccupations, "470000", "472031"}  \* published, of any six digits

BlsDimensions(i) ==
  CASE i = "cpi_all_items" -> [item |-> [vocabulary |-> {"SA0", "SAF1"}, default |-> "SA0"]]
    [] i = "producer_price_index" -> [item |-> [vocabulary |-> {"FD4", "08"}, default |-> "FD4"]]
    [] i = "occupational_wage" ->
         [occupation |-> [vocabulary |-> Occupations \cup {"479999"}, default |-> AllOccupations],
          statistic |-> [vocabulary |-> {"04", "13"}, default |-> "04"]]
    [] i = "occupational_employment" ->
         [occupation |-> [vocabulary |-> Occupations \cup {"479999"}, default |-> AllOccupations],
          statistic |-> [vocabulary |-> {"01", "16"}, default |-> "01"]]
    [] OTHER -> <<>>

\* buildOeSeriesId refuses an occupation the OE survey does not publish.
BlsKeyRefused(i, dims) == i \in OewsIndicators /\ dims.occupation \notin Occupations

-----------------------------------------------------------------------------
(* Codes and substitutes.                                                  *)

NationCode == <<0>>

BlsCode(c, i, id) ==
  IF i = "producer_price_index" THEN {NationCode}
  ELSE IF i = "cpi_all_items" THEN CodeOf(c, id, "CPI")
  ELSE IF id[1] = Nation THEN {NationCode}
  ELSE IF i \in LausIndicators THEN CodeOf(c, id, "LAUS")
  ELSE IF id[1] = State THEN {<<id[2], 0>>}
  ELSE IF id[1] # Metro \/ i \in JoltsIndicators THEN {}
  ELSE IF i = "payroll_employment" THEN CodeOf(c, id, "SM")
  ELSE {<<Metro>> \o code : code \in CodeOf(c, id, "OEWS")}

\* The county with the largest share among those with a LAUS code.
LausFallback(c, id) ==
  IF "below_threshold" \notin Flags(c, id) THEN {}
  ELSE LET up == {e \in EdgesUp(c, id) : e.parent[1] = County /\ CodeOf(c, e.parent, "LAUS") # {}}
           nearest == {e \in up : \A g \in up :
                         \/ g.share < e.share
                         \/ g.share = e.share /\ ~Before(g.parent, e.parent)}
       IN UNION {{[id |-> e.parent, code |-> code, caveat |-> {<<"covers", e.parent>>}] :
                    code \in CodeOf(c, e.parent, "LAUS")} : e \in nearest}

\* The division of the state, else its region, else the U.S. city average.
CpiFallback(c, id) ==
  LET step(S, level) == {p \in UNION {ParentsOf(c, x) : x \in S} : p[1] = level}
      division == IF StateOf(id) = NoState THEN {} ELSE step({<<State, StateOf(id)>>}, Division)
      region == step(division, Region)
      as(p, code) == [id |-> p, code |-> code, caveat |-> {<<"covers", p>>}]
      found(S) == UNION {{as(p, code) : code \in CodeOf(c, p, "CPI")} : p \in S}
  IN IF found(division) # {} THEN found(division)
     ELSE IF found(region) # {} THEN found(region) ELSE {as(<<Nation>>, NationCode)}

BlsFallback(c, i, id) ==
  IF i \in LausIndicators THEN LausFallback(c, id)
  ELSE IF i = "cpi_all_items" THEN CpiFallback(c, id) ELSE {}

\* The nation is the CPS's or the national CES's; a metro of many states is
\* filed under its first.
BlsCaveats(c, i, id) ==
  IF i \in LausIndicators THEN {<<"cps">> : x \in {id} \cap {<<Nation>>}}
  ELSE IF i = "payroll_employment"
  THEN {<<"ces">> : x \in {id} \cap {<<Nation>>}}
       \cup {<<"multi_state">> : k \in {h \in CodesOf(c, id) : h.program = "SM" /\ h.note # "none"}}
  ELSE {}

BlsKey(i, code, dims, adjusted) ==
  LET series(survey, items) ==
        [survey |-> survey, area |-> code, items |-> items, adjusted |-> adjusted]
      nation == code = NationCode
  IN CASE i \in LausIndicators -> series(IF nation THEN "LN" ELSE "LA", <<i>>)
       [] i = "payroll_employment" -> series(IF nation THEN "CE" ELSE "SM", <<>>)
       [] i = "cpi_all_items" -> series("CU", <<dims.item>>)
       [] i = "producer_price_index" -> series("WP", <<dims.item>>)
       [] i \in JoltsIndicators -> series("JT", <<i>>)
       [] OTHER -> [series("OE", <<dims.occupation, dims.statistic>>) EXCEPT !.adjusted = FALSE]

-----------------------------------------------------------------------------
(* Batches, one request after the other, and what is read off the rows.    *)

BlsRequest(series, years) == [series |-> series, years |-> years]

\* o.start and o.end are set even when the caller named no year.
BlsBatches(keys, years) ==
  [b \in 1 .. ((Len(keys) + SeriesPerRequest - 1) \div SeriesPerRequest) |->
     BlsRequest({keys[n] : n \in {m \in DOMAIN keys : (m - 1) \div SeriesPerRequest = b - 1}}, years)]

BlsWanted(keys, o, got) == FirstOpen(BlsBatches(keys, o.start .. o.end), got)

BlsVisible(released) == {r \in BlsRows : r.release <= released}
BlsAnswer(r, released) == {x \in BlsVisible(released) : x.series \in r.series /\ x.year \in r.years}

\* "", "-" and "*" are no number.
BlsSeries(i, keys, n, o, got) ==
  LET batch == BlsBatches(keys, o.start .. o.end)[((n - 1) \div SeriesPerRequest) + 1]
      rows == {r \in got[batch] : r.series = keys[n]}
  IN [key |-> keys[n],
      observations |-> NewestFirst({[year |-> r.year, period |-> r.period,
                                     value |-> IF r.marked THEN Null ELSE r.value] : r \in rows}),
      notes |-> IF i \in OewsIndicators /\ rows = {} /\ keys[n] \in BlsListed
                   /\ keys[n].items[1] # AllOccupations
                THEN {<<"no_estimate">>} ELSE {}]

BlsSource(key, year) == BlsRequest({key}, {year})

-----------------------------------------------------------------------------
(* bls_get_raw: a missing year is filled in and the span capped, and said. *)
(* A query is [ids, start, end], each year perhaps Null.                   *)

RawSpan == 20
BlsRawRefused(q) == \E n \in DOMAIN q.ids : q.ids[n].survey = "none"  \* e.g. a QCEW key

BlsRawYears(q, thisYear) ==
  LET end == IF q.start # Null /\ q.end = Null THEN thisYear ELSE q.end
      filled == IF q.start = Null /\ q.end # Null THEN q.end - (RawSpan - 1) ELSE q.start
      start == IF filled # Null /\ end - filled + 1 > RawSpan THEN end - (RawSpan - 1) ELSE filled
  IN [start |-> start, end |-> end,
      notes |-> (IF end # q.end THEN {<<"end", end>>} ELSE {})
                \cup (IF filled # q.start THEN {<<"start", filled>>} ELSE {})
                \cup (IF start # filled THEN {<<"capped", start>>} ELSE {})]

\* A batch's reply: the series in its Results, and their rows.
BlsReply(batch, rows) ==
  [rows |-> rows, series |-> {r.series : r \in rows} \cup (batch.series \cap BlsListed)]
BlsReplies(q, years, got) ==
  LET batches == BlsBatches(q.ids, years)
  IN [b \in DOMAIN batches |-> BlsReply(batches[b], got[batches[b]])]
NotReturned(q, returned) ==
  {<<"none", q.ids[n]>> : n \in {m \in DOMAIN q.ids : q.ids[m] \notin returned}}

BlsFirstReply(q, years, got) ==  \* mutant: only the first batch is looked at
  LET replies == BlsReplies(q, years, got)
  IN [replies |-> replies, notes |-> NotReturned(q, replies[1].series)]

\* One reply per batch, and a note for an id that no reply has; an id that
\* comes back without a row has none.
BlsRawReply(q, years, got) ==
  LET replies == BlsReplies(q, years, got)
  IN [replies |-> replies,
      notes |-> NotReturned(q, UNION {replies[b].series : b \in DOMAIN replies})]
=============================================================================
