---------------------------- MODULE CensusFetch ----------------------------
(***************************************************************************)
(* How the Census server reads its indicators (server-census): the ACS     *)
(* product by population, the fall from one year to five when the Bureau   *)
(* has no row, annotation values and reliability, the decennial count, and *)
(* the raw tool's rules.                                                   *)
(***************************************************************************)
EXTENDS BlsFetch

CONSTANTS
  OneYearThreshold,  \* ACS_ONE_YEAR_THRESHOLD, 65,000 people
  CensusRows         \* [product, variable, id, estimate, margin, mark, release]

ASSUME CensusAssumption ==
  /\ OneYearThreshold \in Nat
  /\ \A r \in CensusRows : /\ r.release \in Nat
                           /\ r.product = "count" => r.estimate \in Nat

AcsVintage == 2024
DecennialYear == 2020
FiveYears == 5           \* the period "5Y"

AcsIndicators == {"population", "median_household_income", "poverty_rate"}  \* of thirteen
CensusIndicators == AcsIndicators \cup {"decennial_population"}
Products == {"1-year", "5-year"}
CensusDimensions(i) ==
  IF i \in AcsIndicators
  THEN [product |-> [vocabulary |-> Products \cup {"auto"}, default |-> "auto"]] ELSE <<>>

\* Tracts and ZCTAs have the five-year product only, and so has an area of
\* unknown population or one below the threshold, whatever was asked for.
FiveYearOnly == {Tract, Zcta}
Eligible(id, pop) == id[1] \notin FiveYearOnly /\ pop # NoPop /\ pop >= OneYearThreshold
ChooseProduct(id, pop, wanted) ==
  IF Eligible(id, pop) /\ wanted # "5-year" THEN "1-year" ELSE "5-year"

\* Every place has a code: its id and the population the product depends on.
CensusCode(c, id) == {<<id, c.rows[id].pop>>}

CensusKey(i, code, dims) ==
  [id |-> code[1], variable |-> i,
   product |-> IF i \in AcsIndicators THEN ChooseProduct(code[1], code[2], dims.product) ELSE "count"]

AskedCaveats(c, i, id, dims) ==  \* mutant: the product asked for, not the one chosen
  IF i \notin AcsIndicators THEN {}
  ELSE {<<"product", IF dims.product \in Products THEN dims.product
                    ELSE ChooseProduct(id, c.rows[id].pop, "auto")>>}
CensusCaveats(c, i, id, dims) ==
  IF i \in AcsIndicators THEN {<<"product", ChooseProduct(id, c.rows[id].pop, dims.product)>>} ELSE {}

\* alignDimensions: when sizes mix and no product was asked for, every place
\* is compared on five years.
CensusAlign(c, i, ids, dims) ==
  LET below == {id \in ids : ChooseProduct(id, c.rows[id].pop, "auto") = "5-year"}
  IN IF i \notin AcsIndicators \/ dims.product \in Products \/ below \in {{}, ids} THEN {} ELSE below

-----------------------------------------------------------------------------
(* Requests: one key after the other; a key of one year without a row is   *)
(* asked again for five.                                                   *)

AsFive(key) == [key EXCEPT !.product = "5-year"]
NoRow(key, got) == key \in DOMAIN got /\ got[key] = {}
CensusReads(key, got) ==
  IF key.product = "1-year" /\ NoRow(key, got) THEN <<key, AsFive(key)>> ELSE <<key>>
CensusWanted(keys, got) ==
  LET busy == {n \in DOMAIN keys : FirstOpen(CensusReads(keys[n], got), got) # {}}
  IN IF busy = {} THEN {} ELSE FirstOpen(CensusReads(keys[Min(busy)], got), got)

CensusVisible(released) == {r \in CensusRows : r.release <= released}
CensusAnswer(key, released) ==
  {r \in CensusVisible(released) :
     r.id = key.id /\ r.variable = key.variable /\ r.product = key.product}

-----------------------------------------------------------------------------
(* Values.  Annotation values are never numbers; each has its words.       *)

EstimateMarks == {-666666666, -999999999, -888888888}
MarginMarks == {-222222222, -333333333, -555555555, -888888888, -999999999}

Estimate(r) == IF r.estimate \in EstimateMarks THEN Null ELSE r.estimate
Margin(r) == IF Estimate(r) = Null \/ r.margin \in MarginMarks THEN Null ELSE r.margin

\* From the coefficient of variation, margin / 1.645 / value, at 0.12 and 0.4.
Reliability(value, margin) ==
  IF Null \in {value, margin} \/ value <= 0 THEN "none"
  ELSE IF 10000 * margin < 1974 * value THEN "high"
  ELSE IF 1000 * margin <= 658 * value THEN "medium" ELSE "low"

\* mark "+" and "-" are an open-ended interval, "N" too few sample cases.
Footnotes(r) ==
  LET low == Reliability(Estimate(r), Margin(r)) = "low"
      number == Estimate(r) # Null
  IN (IF r.estimate = Null \/ ~number THEN {<<"estimate", r.estimate>>} ELSE {})
     \cup (IF number /\ Margin(r) = Null THEN {<<"margin", r.margin>>} ELSE {})
     \cup (IF r.mark = "N" \/ (number /\ r.mark \in {"+", "-"}) THEN {<<"mark", r.mark>>} ELSE {})
     \cup (IF low THEN {<<"low">>} ELSE {})

AcsObservation(r) ==
  [year |-> AcsVintage, period |-> IF r.product = "1-year" THEN Annual ELSE FiveYears,
   value |-> Estimate(r), margin |-> Margin(r),
   grade |-> Reliability(Estimate(r), Margin(r)), footnotes |-> Footnotes(r)]

CountObservation(r) ==
  [year |-> DecennialYear, period |-> Annual, value |-> r.estimate, margin |-> Null,
   grade |-> "none", footnotes |-> {<<"count">>}]

CensusSeries(i, key, got) ==
  LET reads == CensusReads(key, got)
      rows == got[reads[Len(reads)]]
      of(r) == IF i \in AcsIndicators THEN AcsObservation(r) ELSE CountObservation(r)
      fell == IF Len(reads) = 2 THEN {<<"five_shown">>} ELSE {}
  IN [key |-> key, notes |-> {},
      observations |-> IF rows = {} THEN <<>>
                       ELSE << LET o == of(CHOOSE r \in rows : TRUE)
                               IN [o EXCEPT !.footnotes = @ \cup fell] >>]


-----------------------------------------------------------------------------
(* census_get_raw: exactly one of ucgid and for, and in only with for (<<>> *)
(* where absent); no rows earn a note.                                     *)

CensusRawRefused(q) == (q.ucgid = <<>>) = (q.for = <<>>) \/ (q.in # <<>> /\ q.for = <<>>)
CensusRawReply(rows) == [rows |-> rows, notes |-> {<<"no_rows">> : x \in {{}} \cap {rows}}]
=============================================================================
