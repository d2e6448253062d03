------------------------------ MODULE HudFetch ------------------------------
(***************************************************************************)
(* How the HUD server reads an indicator (server-hud): the entity of a     *)
(* place, its substitute when HUD has none, the requests a series makes,   *)
(* and what is read off the answers.                                       *)
(*                                                                         *)
(* A request is a record; got maps the requests answered so far to HUD's   *)
(* page, as a set: empty for "no data" (HTTP 400 or 404).  A page has the  *)
(* year it is for and rows [tag, values]; a value is a number or Null.     *)
(***************************************************************************)
EXTENDS Geography

\* The members of a sequence at these indexes, in order.
Keeping(s, S) ==
  [k \in 1 .. Cardinality(S) |-> s[CHOOSE n \in S : Cardinality({m \in S : m < n}) = k - 1]]

Null == -1000     \* no number
Latest == 0       \* no year in the request: what HUD calls current
Annual == 1       \* the period of yearly data

CONSTANTS
  HudPages  \* HUD's pages: [page, id, year, census, area, release, rows],
            \* where area is the place the figures are really for

PictureCensus(year) == IF year <= 2021 THEN 2010 ELSE 2020

\* "Picture's required census vintage for a data year" (hud-api.ts).
ASSUME HudAssumption ==
  /\ IsFiniteSet(HudPages)
  /\ \A p \in HudPages : /\ p.year \in Nat \ {0} /\ p.release \in Nat
                         /\ p.page = "picture" => PictureCensus(p.year) \in p.census

NewEngland == {9, 23, 25, 33, 44, 50}
IsNewEngland(id) == StateOf(id) \in NewEngland
HudFloor == 2017         \* FMR_FLOOR_FISCAL_YEAR, FLOOR_FISCAL_YEAR
PictureFloor == 2012
PictureLookback == 3
NewTownIdFrom == [fmr |-> 2026, il |-> 2025, mtspil |-> 2025]
ChasReleases == <<2022, 2021, 2020, 2019, 2018, 2017, 2016>>  \* by last year

PictureFields == [subsidized_units |-> "units", subsidized_people |-> "people",
                  average_household_income |-> "income", share_below_30_ami |-> "lt30",
                  months_waiting |-> "months"]
ChasMeasures == {"cost_burdened_renter_share", "cost_burdened_owner_share",
                 "cost_burdened_renters", "cost_burdened_owners"}
Areas == [fair_market_rent |-> "fmr", income_limit |-> "il", area_median_income |-> "il",
          mtsp_limit |-> "mtspil"]
HudIndicators == DOMAIN Areas \cup DOMAIN PictureFields \cup ChasMeasures

HudDimensions(i) ==
  CASE i = "fair_market_rent" -> [bedrooms |-> [vocabulary |-> {"0", "1", "2", "3", "4"}, default |-> "2"]]
    [] i = "income_limit" -> [level |-> [vocabulary |-> {"30", "50", "80"}, default |-> "80"],
                              household_size |-> [vocabulary |-> {"1", "4", "8"}, default |-> "4"]]
    [] i = "mtsp_limit" -> [level |-> [vocabulary |-> {"50", "60", "80"}, default |-> "60"],
                            household_size |-> [vocabulary |-> {"1", "4", "8"}, default |-> "4"]]
    [] i = "area_median_income" -> <<>>
    [] i \in ChasMeasures -> [level |-> [vocabulary |-> {"30", "50"}, default |-> "30"]]
    [] OTHER -> [program |-> [vocabulary |-> {"1", "2", "3"}, default |-> "1"]]

-----------------------------------------------------------------------------
(* Entities.  An FMR or income-limit entity is the current id and, for a   *)
(* recoded town, the id of before, else <<>>.                              *)

CountySuffix == 99999

FmrEntity(c, id) ==
  IF id[1] = County /\ ~IsNewEngland(id) THEN {<< <<id[2], id[3], CountySuffix>>, <<>> >>}
  ELSE IF id[1] = Town /\ IsNewEngland(id)
  THEN LET old == CodeOf(c, id, "GEOID2020") \ {Tail(id)}
       IN {<<Tail(id), IF old = {} THEN <<>> ELSE CHOOSE g \in old : TRUE>>}
  ELSE {}

\* "The first fiscal year HUD takes a recoded Connecticut town's new id"
\* (hud-api.ts): it has no page of an earlier year under it.
IdIsNew(id) ==
  \A p \in HudPages :
    p.page \in DOMAIN NewTownIdFrom /\ p.id = id => p.year >= NewTownIdFrom[p.page]

IdForYear(entity, year, from) ==
  IF entity[2] # <<>> /\ year # Latest /\ year < from THEN entity[2] ELSE entity[1]

ChasEntity(id) == IF id[1] \in {State, County, Place} THEN {id} ELSE {}

UspsStates == {Usps[s] : s \in DOMAIN Usps}
PictureEntity(id) ==
  IF id[1] = Metro \/ (id[1] \in {State, County, Place, Tract} /\ StateOf(id) \in UspsStates)
  THEN {id} ELSE {}

HudCode(c, i, id) ==
  IF i \in DOMAIN Areas THEN FmrEntity(c, id)
  ELSE IF i \in ChasMeasures THEN ChasEntity(id) ELSE PictureEntity(id)

\* Of the edges up to a level, the one with the largest share.
MainParent(c, id, level) ==
  LET up == {e \in EdgesUp(c, id) : e.parent[1] = level}
  IN {e.parent : e \in {f \in up : \A g \in up : g.share < f.share
                                      \/ (g.share = f.share /\ ~Before(g.parent, f.parent))}}

\* A New England city answers with its town, any other city or town with its county.
HudFallback(c, i, id) ==
  IF i \notin DOMAIN Areas \/ id[1] \notin {Place, Town} THEN {}
  ELSE LET level == IF IsNewEngland(id) THEN Town ELSE County
       IN IF IsNewEngland(id) /\ id[1] = Town THEN {}
          ELSE UNION {{[id |-> p, code |-> code, caveat |-> {<<"covers", p>>}] : code \in FmrEntity(c, p)} :
                        p \in MainParent(c, id, level)}

HudCaveats(i, id) ==
  IF i \in DOMAIN Areas /\ i # "fair_market_rent" /\ StateOf(id) = 9 /\ id[1] = Town
  THEN {<<"recoded", id>>} ELSE {}

HudUnavailable(i, id) ==
  IF i \in DOMAIN Areas /\ id[1] = County /\ IsNewEngland(id) THEN {<<"by_town", id>>} ELSE {}

\* The opaque key: the entity and the picked codes.
HudKey(i, code, dims) ==
  [entity |-> code,
   pick |-> CASE i = "fair_market_rent" -> <<dims.bedrooms>>
              [] i \in {"income_limit", "mtsp_limit"} -> <<dims.level, dims.household_size>>
              [] i = "area_median_income" -> <<"median">>
              [] i \in ChasMeasures -> <<dims.level>>
              [] OTHER -> <<dims.program>>]

-----------------------------------------------------------------------------
(* Requests.                                                               *)

YearsUpTo(from, to) == [n \in 1 .. (IF to < from THEN 0 ELSE to - from) |-> to - n]  \* mutant
YearsDown(from, to) == [n \in 1 .. (IF to < from THEN 0 ELSE to - from + 1) |-> to - n + 1]

AreaRequest(page, entity, year) ==
  [page |-> page, id |-> IdForYear(entity, year, NewTownIdFrom[page]), year |-> year, census |-> 0]
ChasRequest(entity, year) == [page |-> "chas", id |-> entity, year |-> year, census |-> 0]
PictureRequest(entity, year) ==
  [page |-> "picture", id |-> entity, year |-> year, census |-> PictureCensus(year)]

FiscalYears(o) ==
  IF ~o.explicit THEN <<Latest>>
  ELSE YearsDown(IF o.start < HudFloor THEN HudFloor ELSE o.start, o.end)

\* The newest release whose last year the asked range reaches, or the oldest.
ReleaseFor(end) ==
  LET fit == {n \in DOMAIN ChasReleases : ChasReleases[n] <= end}
  IN ChasReleases[IF fit = {} THEN Len(ChasReleases) ELSE Min(fit)]

CandidateYears(o) ==
  IF o.explicit THEN YearsDown(IF o.start < PictureFloor THEN PictureFloor ELSE o.start, o.end)
  ELSE [n \in 1 .. PictureLookback |-> o.end - n]

\* fetchYears: one unqualified call tells which year is the latest, and its
\* answer serves that year of the range.
IncomeReads(page, entity, o, got) ==
  LET latest == AreaRequest(page, entity, Latest)
      now == IF latest \in DOMAIN got /\ got[latest] # {}
             THEN (CHOOSE p \in got[latest] : TRUE).year ELSE Latest
      years == FiscalYears(o)
  IN [n \in DOMAIN years |-> IF years[n] \in {Latest, now} THEN latest
                             ELSE AreaRequest(page, entity, years[n])]

\* The requests whose answers make the series, newest first.
HudReads(i, key, o, got) ==
  IF i = "fair_market_rent"
  THEN [n \in DOMAIN FiscalYears(o) |-> AreaRequest("fmr", key.entity, FiscalYears(o)[n])]
  ELSE IF i \in DOMAIN Areas THEN IncomeReads(Areas[i], key.entity, o, got)
  ELSE IF i \in ChasMeasures
  THEN << ChasRequest(key.entity, IF o.explicit THEN ReleaseFor(o.end) ELSE Latest) >>
  ELSE LET all == [n \in DOMAIN CandidateYears(o) |-> PictureRequest(key.entity, CandidateYears(o)[n])]
           hits == {n \in DOMAIN all : /\ all[n] \in DOMAIN got
                                       /\ \E p \in got[all[n]] : p.rows # {}}
       IN IF o.explicit \/ hits = {} THEN all ELSE SubSeq(all, 1, Min(hits))

FirstOpen(asks, got) ==
  LET open == {n \in DOMAIN asks : asks[n] \notin DOMAIN got}
  IN IF open = {} THEN {} ELSE {asks[Min(open)]}

HudNext(i, key, o, got) ==
  LET reads == HudReads(i, key, o, got)
      first == IF i \in DOMAIN Areas /\ i # "fair_market_rent" /\ reads # <<>>
               THEN << AreaRequest(Areas[i], key.entity, Latest) >> ELSE <<>>
  IN FirstOpen(first \o reads, got)

\* FMR, CHAS and Picture read their series at once, income limits in turn.
HudWanted(i, keys, o, got) ==
  IF i \in DOMAIN Areas /\ i # "fair_market_rent"
  THEN LET busy == {n \in DOMAIN keys : HudNext(i, keys[n], o, got) # {}}
       IN IF busy = {} THEN {} ELSE HudNext(i, keys[Min(busy)], o, got)
  ELSE UNION {HudNext(i, keys[n], o, got) : n \in DOMAIN keys}

HudVisible(released) == {p \in HudPages : p.release <= released}

\* HUD's answer: the page of the year, or of its newest.  Picture wants the
\* census vintage of the year.
HudAnswer(r, released) ==
  LET of == {p \in HudVisible(released) : p.page = r.page /\ p.id = r.id}
  IN {p \in of : /\ IF r.year = Latest THEN \A q \in of : q.year <= p.year ELSE p.year = r.year
                 /\ r.page = "picture" => r.census \in p.census}

-----------------------------------------------------------------------------
(* Values.                                                                 *)

Figure(row, name) == IF name \in DOMAIN row.values THEN row.values[name] ELSE Null
RowTagged(page, tag) == {r \in page.rows : r.tag = tag}
OnlyFigure(rows, name) == IF rows = {} THEN Null ELSE Figure(CHOOSE r \in rows : TRUE, name)

\* A Small Area county answers with its "MSA level" row.
FmrValue(page, pick) ==
  LET plain == RowTagged(page, <<"all", "">>)
  IN OnlyFigure(IF plain # {} THEN plain ELSE RowTagged(page, <<"msa", "">>), pick)

\* The program's total row: marked NA or N/A, or the only one.
TotalRow(page, program) ==
  LET rows == {r \in page.rows : r.tag[1] = program}
      total == {r \in rows : r.tag[2] \in {"na", "n/a"}}
  IN IF total # {} THEN total ELSE IF Cardinality(rows) = 1 THEN rows ELSE {}

\* A negative figure is HUD's mark for "not reported".
PictureValue(page, i, pick) ==
  LET v == OnlyFigure(TotalRow(page, pick[1]), <<PictureFields[i]>>) IN IF v < 0 THEN Null ELSE v

\* Over 30% adds the two bands, over 50% is one; a share is in tenths of a
\* percent of all renters or owners.
ChasValue(page, i, pick) ==
  LET row == CHOOSE r \in page.rows : TRUE
      renter == i \in {"cost_burdened_renter_share", "cost_burdened_renters"}
      mid == Figure(row, IF renter THEN <<"D5">> ELSE <<"D4">>)
      severe == Figure(row, IF renter THEN <<"D8">> ELSE <<"D7">>)
      all == Figure(row, IF renter THEN <<"A17">> ELSE <<"A16">>)
      count == IF pick = <<"50">> THEN severe
               ELSE IF Null \in {mid, severe} THEN Null ELSE mid + severe
  IN IF i \in {"cost_burdened_renters", "cost_burdened_owners"} THEN count
     ELSE IF Null \in {count, all} \/ all = 0 THEN Null ELSE (2000 * count + all) \div (2 * all)

HudValue(i, page, pick) ==
  IF i = "fair_market_rent" THEN FmrValue(page, pick)
  ELSE IF i \in DOMAIN Areas THEN OnlyFigure(page.rows, pick)
  ELSE IF i \in ChasMeasures THEN ChasValue(page, i, pick) ELSE PictureValue(page, i, pick)

\* A read gives an observation when HUD has a page, and for Picture a total row.
Observed(i, key, got, r) ==
  /\ r \in DOMAIN got /\ got[r] # {}
  /\ i \in DOMAIN PictureFields => \E p \in got[r] : TotalRow(p, key.pick[1]) # {}

HudSeries(i, key, o, got) ==
  LET reads == HudReads(i, key, o, got)
      seen == Keeping(reads, {n \in DOMAIN reads : Observed(i, key, got, reads[n])})
      page(r) == CHOOSE p \in got[r] : TRUE
      floor == IF i \in DOMAIN PictureFields THEN PictureFloor ELSE HudFloor
      unseen == {reads[n].year : n \in {m \in DOMAIN reads : ~Observed(i, key, got, reads[m])}}
      last == reads[Len(reads)]
      missing == IF i \notin DOMAIN PictureFields \/ o.explicit THEN unseen
                 ELSE IF seen # <<>> THEN {} ELSE IF got[last] = {} THEN unseen ELSE {last.year}
  IN [key |-> key,
      observations |-> [n \in DOMAIN seen |->
         [year |-> page(seen[n]).year, period |-> Annual, value |-> HudValue(i, page(seen[n]), key.pick)]],
      notes |->
        (IF o.explicit /\ i \notin ChasMeasures /\ o.start < floor THEN {<<"starts", floor>>} ELSE {})
        \cup {<<"none", y>> : y \in missing}
        \cup (IF i \in ChasMeasures THEN {<<"release", page(seen[n]).year>> : n \in DOMAIN seen} ELSE {})]

\* Where the figure shown was read.
HudSourceNow(i, key, year) ==  \* mutant: the year is left out
  IF i \in DOMAIN Areas THEN AreaRequest(Areas[i], key.entity, Latest)
  ELSE IF i \in ChasMeasures THEN ChasRequest(key.entity, Latest)
  ELSE PictureRequest(key.entity, year)
HudSource(i, key, year) ==
  IF i \in DOMAIN Areas THEN AreaRequest(Areas[i], key.entity, year)
  ELSE IF i \in ChasMeasures THEN ChasRequest(key.entity, year)
  ELSE PictureRequest(key.entity, year)

-----------------------------------------------------------------------------
(* hud_get_raw: one call per id, in order, with HUD's own parameters; type *)
(* and the other parameters of a CHAS or Picture id are part of it.        *)

RawEndpoints == {"fmr", "il", "mtspil", "chas", "picture"}
RawRefused(q) == q.endpoint = "picture" /\ q.year = Latest

RawRequests(q) ==
  [n \in DOMAIN q.ids |->
     CASE q.endpoint = "chas" -> ChasRequest(q.ids[n], q.year)
       [] q.endpoint = "picture" -> PictureRequest(q.ids[n], q.year)
       [] OTHER -> AreaRequest(q.endpoint, << q.ids[n], <<>> >>, q.year)]

RawReply(q, got) ==
  [responses |-> [n \in DOMAIN q.ids |-> [id |-> q.ids[n], page |-> got[RawRequests(q)[n]]]],
   notes |-> {<<"none", q.ids[n]>> : n \in {m \in DOMAIN q.ids : got[RawRequests(q)[m]] = {}}}]
=============================================================================
