------------------------------ MODULE BeaFetch ------------------------------
(***************************************************************************)
(* How the BEA server reads an indicator (server-bea): GeoFips codes with  *)
(* BEA's combination areas, the substitutes for a place BEA does not       *)
(* publish, one request for every table and line, and BEA's rows.          *)
(*                                                                         *)
(* A GeoFips is <<state, county>>, <<state, 0>> (a state), <<cbsa>>, or    *)
(* <<state, 999>> (a state outside its metros).  got maps a request to the *)
(* set of rows BEA answered.                                               *)
(***************************************************************************)
EXTENDS HudFetch

CONSTANTS
  BeaRows  \* [table, line, geo, area, year, quarter, value, marked, release]

\* BEA has one figure of a table's line in an area for a period.
ASSUME BeaAssumption ==
  /\ IsFiniteSet(BeaRows)
  /\ \A r \in BeaRows : r.year \in Nat \ {0} /\ r.quarter \in Nat /\ r.release \in Nat
  /\ \A r, s \in BeaRows :
       /\ r.table = s.table /\ r.line = s.line /\ r.geo = s.geo
       /\ r.year = s.year /\ r.quarter = s.quarter
       => r = s

CountyGdpFloor == 2001      \* COUNTY_FLOOR_YEAR
RppFloor == 2008
PlanningRegionsFrom == 2024

GdpIndicators == {"gdp", "real_gdp"}
IncomeLines == [personal_income |-> 1, per_capita_personal_income |-> 3]
BeaIndicators == GdpIndicators \cup DOMAIN IncomeLines \cup {"regional_price_parity"}
IndustryLines == "all" :> 1 @@ "private" :> 2 @@ "23" :> 11
ItemLines == "1" :> 1 @@ "2" :> 2 @@ "3" :> 3 @@ "4" :> 4 @@ "5" :> 5

BeaDimensions(i) ==
  IF i \in GdpIndicators
  THEN [industry |-> [vocabulary |-> DOMAIN IndustryLines, default |-> "all"]]
  ELSE IF i \in DOMAIN IncomeLines
  THEN [frequency |-> [vocabulary |-> {"annual", "quarterly"}, default |-> "annual"]]
  ELSE [item |-> [vocabulary |-> DOMAIN ItemLines, default |-> "1"]]

-----------------------------------------------------------------------------
(* Codes and substitutes.                                                  *)

Combination(c, id) == CodeOf(c, id, "GEOFIPS")
CombinedCaveat(c, id) == {<<"combined", code>> : code \in Combination(c, id)}
CountyFips(c, id) ==
  IF Combination(c, id) # {} THEN CHOOSE code \in Combination(c, id) : TRUE ELSE Tail(id)

BeaCode(c, i, id) ==
  IF i = "regional_price_parity"
  THEN IF id[1] = Metro THEN {<<"MARPP", Tail(id)>>}
       ELSE IF id[1] = State THEN {<<"SARPP", <<id[2], 0>>>>} ELSE {}
  ELSE IF id[1] = County THEN {CountyFips(c, id)}
  ELSE IF id[1] = State THEN {<<id[2], 0>>} ELSE {}

BeaCountyFallback(c, id) ==
  IF id[1] \notin {Place, Town} THEN {}
  ELSE {[id |-> p, code |-> CountyFips(c, p), caveat |-> {<<"covers", p>>} \cup CombinedCaveat(c, p)] :
          p \in MainParent(c, id, County)}

Micropolitan(c, id) == LET n == c.rows[id].name IN n[Len(n)] = "micro area"

\* The metropolitan area of the place's main county, never a micropolitan one.
MetroFallback(c, id) ==
  LET county == IF id[1] = County THEN {} ELSE MainParent(c, id, County)
      from == IF county = {} THEN id ELSE CHOOSE p \in county : TRUE
      up == {e \in EdgesUp(c, from) : e.parent[1] = Metro /\ ~Micropolitan(c, e.parent)}
  IN {[id |-> e.parent, code |-> <<"MARPP", Tail(e.parent)>>, caveat |-> {<<"covers", e.parent>>}] :
        e \in {f \in up : \A g \in up : g.share < f.share
                            \/ (g.share = f.share /\ ~Before(g.parent, f.parent))}}

\* Outside every metro: the nonmetropolitan portion of the state.
PortionFallback(c, id) ==
  {[id |-> p, code |-> <<"PARPP", <<id[2], 999>>>>, caveat |-> {<<"covers", <<id[2], 999>>>>}] :
     p \in {q \in ParentsOf(c, id) : q[1] = State}}

BeaFallback(c, i, id) ==
  IF i # "regional_price_parity" THEN BeaCountyFallback(c, id)
  ELSE IF id[1] \notin {County, Place, Town} THEN {}
  ELSE IF MetroFallback(c, id) # {} THEN MetroFallback(c, id) ELSE PortionFallback(c, id)

NoBeaCaveats(c, i, id) == {}  \* mutant
BeaCaveats(c, i, id) == IF i = "regional_price_parity" THEN {} ELSE CombinedCaveat(c, id)

BeaUnavailable(i, id) ==
  IF i \in DOMAIN IncomeLines /\ id[1] = Metro THEN {<<"no_metros", id>>}
  ELSE IF i = "regional_price_parity" /\ id[1] # Nation THEN {<<"no_state", id>>} ELSE {}

\* The table, from the level and the pick; "none" for a county by quarter.
BeaKey(i, code, dims) ==
  LET state == code[2] = 0
      table == IF i = "gdp" THEN (IF state THEN "SAGDP2" ELSE "CAGDP2")
               ELSE IF i = "real_gdp" THEN (IF state THEN "SAGDP9" ELSE "CAGDP9")
               ELSE IF dims.frequency = "quarterly" THEN (IF state THEN "SQINC1" ELSE "none")
               ELSE IF state THEN "SAINC1" ELSE "CAINC1"
  IN IF i = "regional_price_parity" THEN [table |-> code[1], line |-> ItemLines[dims.item], geo |-> code[2]]
     ELSE [table |-> table, geo |-> code,
           line |-> IF i \in GdpIndicators THEN IndustryLines[dims.industry] ELSE IncomeLines[i]]

-----------------------------------------------------------------------------
(* Requests: one for every table and line, in the order of the keys.       *)

CountyGdp == {"CAGDP2", "CAGDP9"}
Later(a, b) == IF a < b THEN b ELSE a

AskedFrom(i, table, o) ==
  IF i = "regional_price_parity" THEN Later(o.start, RppFloor)
  ELSE IF table \in CountyGdp THEN Later(o.start, CountyGdpFloor) ELSE o.start

\* No Year parameter (Latest) asks for BEA's default, the last five.  An empty
\* range is an empty Year, "a call BEA would reject", and no default.
BeaRequest(i, table, line, geos, o) ==
  [table |-> table, line |-> line, geos |-> geos,
   years |-> IF o.explicit THEN AskedFrom(i, table, o) .. o.end ELSE {Latest}]

Skipped(i, o) == i = "regional_price_parity" /\ o.explicit /\ o.end < RppFloor

RequestOf(i, keys, n, o) ==
  BeaRequest(i, keys[n].table, keys[n].line,
             {keys[m].geo : m \in {k \in DOMAIN keys : /\ keys[k].table = keys[n].table
                                                       /\ keys[k].line = keys[n].line}}, o)

BeaWanted(i, keys, o, got) ==
  IF Skipped(i, o) THEN {}
  ELSE FirstOpen(Keeping([n \in DOMAIN keys |-> RequestOf(i, keys, n, o)],
                         {n \in DOMAIN keys : keys[n].table # "none"}), got)

BeaVisible(released) == {r \in BeaRows : r.release <= released}
BeaAnswer(r, released) ==
  LET of == {x \in BeaVisible(released) : x.table = r.table /\ x.line = r.line}
  IN {x \in of : /\ x.geo \in r.geos
                 /\ IF r.years = {Latest} THEN \A y \in of : y.year < x.year + 5 ELSE x.year \in r.years}

-----------------------------------------------------------------------------
(* Values.  A row with a marker such as (D) or (NA) is no number.          *)

BeaObservation(r) ==
  [year |-> r.year, period |-> r.quarter, value |-> IF r.marked THEN Null ELSE r.value]

NewestFirst(S) ==
  [n \in 1 .. Cardinality(S) |->
     CHOOSE x \in S :
       Cardinality({y \in S : y.year > x.year \/ (y.year = x.year /\ y.period > x.period)}) = n - 1]

\* Personal income keeps the newest observation unless years were asked for.
BeaSeries(i, keys, n, o, got) ==
  LET key == keys[n]
      rows == IF Skipped(i, o) \/ key.table = "none" THEN {}
              ELSE {r \in got[RequestOf(i, keys, n, o)] : r.geo = key.geo}
      all == NewestFirst({BeaObservation(r) : r \in rows})
      one == i \in DOMAIN IncomeLines /\ ~o.explicit /\ Len(all) > 1
      region == key.geo[1] = 9 /\ Len(key.geo) = 2 /\ key.geo[2] \in 110 .. 190
  IN [key |-> key,
      observations |-> IF one THEN SubSeq(all, 1, 1) ELSE all,
      notes |->
        (IF o.explicit /\ AskedFrom(i, key.table, o) # o.start
         THEN {<<"starts", AskedFrom(i, key.table, o)>>} ELSE {})
        \cup (IF key.table = "none" THEN {<<"states_only">>} ELSE {})
        \cup (IF i \in GdpIndicators /\ rows = {} THEN {<<"none">>} ELSE {})
        \cup (IF i = "real_gdp" THEN {<<"never_sum">>} ELSE {})
        \cup (IF /\ i # "regional_price_parity" /\ region /\ o.start < PlanningRegionsFrom
                 /\ i \in DOMAIN IncomeLines \/ o.explicit
              THEN {<<"regions_from", PlanningRegionsFrom>>} ELSE {})]

BeaSource(key, year) ==
  [table |-> key.table, line |-> key.line, geos |-> {key.geo}, years |-> {year}]

-----------------------------------------------------------------------------
(* bea_get_raw: years or a span, at most one bulk parameter, BEA's rows    *)
(* unchanged.  A query is [table, line, ids, years, span]; line AllLines,  *)
(* span "ALL" and the ids of BulkGeos ask for all of them, and {} and      *)
(* "none" stand for years and a span not given.                            *)

AllLines == 0
BulkGeos == {<<-1>>, <<-2>>, <<-3>>, <<-4>>, <<-5>>}  \* STATE, COUNTY, MSA, PORT, TERR
BeaRawRefused(q) ==
  LET bulk == {n \in DOMAIN q.ids : q.ids[n] \in BulkGeos} # {}
  IN \/ q.years # {} /\ q.span # "none"
     \/ q.line = AllLines /\ (Len(q.ids) # 1 \/ bulk)
     \/ q.line = AllLines /\ q.span = "ALL"
     \/ bulk /\ (q.span = "ALL" \/ Len(q.ids) > 1)

BeaRawReply(rows) ==
  [rows |-> rows, notes |-> {<<"marked">> : r \in {x \in rows : x.marked}}]
=============================================================================
