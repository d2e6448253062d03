----------------------------- MODULE QcewFetch -----------------------------
(***************************************************************************)
(* What QCEW's indicators ask for and read (server-bls, qcew.ts and        *)
(* qcew-indicators.ts): the area of a place, the newest quarter that could *)
(* be out, the periods of a call, the row of a file, and the answer of a   *)
(* series.  The workers that fetch the files under one deadline are in     *)
(* QcewHistory; here the files come in order, and the deadline may stop    *)
(* those not read yet.                                                     *)
(*                                                                         *)
(* A period is <<year, quarter>>, of quarter 0 for an annual file.  A file *)
(* is a set of rows, empty when it is not published: header only, or, for  *)
(* an annual file, HTTP 404.                                               *)
(***************************************************************************)
EXTENDS CensusFetch

CONSTANTS
  Today,       \* the date of the calls: [year, month, day]
  MaxPeriods,  \* QCEW_MAX_PERIODS, 20
  QcewRows     \* [area, period, own, industry, level, months, wage, withheld, of,
               \* release], of the catalog id the row is for, <<>> if it is for
               \* another industry under the same code

ASSUME QcewAssumption ==
  /\ Today \in [year : Nat, month : 1 .. 12, day : 1 .. 31]
  /\ MaxPeriods \in Nat \ {0}
  /\ \A r \in QcewRows : r.release \in Nat

QcewIndicators == {"covered_employment", "average_weekly_wage"}
MaxLookback == 3         \* QCEW_MAX_LOOKBACK
EarliestQcewYear == 2014
TimedOut == {[late |-> TRUE]}  \* in place of a file

AllIndustries == "10"
TotalCovered == "0"
Details == "236" :> 1 @@ "2361" :> 2  \* NAICS codes of 3 to 6 digits: the digits past two

QcewDimensions ==
  [ownership |-> [vocabulary |-> {TotalCovered, "1", "5"}, default |-> TotalCovered],
   industry |-> [vocabulary |-> {AllIndustries, "23"} \cup DOMAIN Details, default |-> AllIndustries],
   frequency |-> [vocabulary |-> {"quarterly", "annual"}, default |-> "quarterly"]]

-----------------------------------------------------------------------------
(* Areas and keys.                                                         *)

QcewNation == <<0, 0>>  \* US000

QcewCode(c, id) ==
  CASE id[1] = Nation -> {QcewNation}
    [] id[1] = County -> {Tail(id)}
    [] id[1] = State -> {<<id[2], 0>>}
    [] id[1] = Metro -> CodeOf(c, id, "QCEW")
    [] OTHER -> {}

\* Sectors are published by ownership only.
QcewKeyRefused(dims) == dims.industry # AllIndustries /\ dims.ownership = TotalCovered

QcewKey(code, dims) ==
  [area |-> code, own |-> dims.ownership, industry |-> dims.industry,
   annual |-> dims.frequency = "annual"]

\* The aggregation level a row of this selection has.
AreaLevel(area) ==
  IF area = QcewNation THEN 10 ELSE IF Len(area) = 1 THEN 40 ELSE IF area[2] = 0 THEN 50 ELSE 70
ExpectedLevel(key) ==
  AreaLevel(key.area) + (IF key.industry \in DOMAIN Details THEN 4 + Details[key.industry]
                         ELSE IF key.industry # AllIndustries THEN 4
                         ELSE IF key.own = TotalCovered THEN 0 ELSE 1)

\* The place an area code names.
AreaOf(area) ==
  IF area = QcewNation THEN <<Nation>>
  ELSE IF Len(area) = 1 THEN <<Metro>> \o area
  ELSE IF area[2] = 0 THEN <<State, area[1]>> ELSE <<County>> \o area

\* "agglvl_code disambiguates rows that share an industry_code" (qcew.ts): a row
\* of another industry stands beside the one it could be taken for.
ASSUME QcewCodesAssumption ==
  \A r \in QcewRows :
    \/ r.of = AreaOf(r.area)
    \/ /\ r.of = <<>> /\ r.level # ExpectedLevel(r)
       /\ \E q \in QcewRows :
            /\ <<q.area, q.period, q.own, q.industry>> = <<r.area, r.period, r.own, r.industry>>
            /\ q.level = ExpectedLevel(r) /\ q.release <= r.release

-----------------------------------------------------------------------------
(* Periods.                                                                *)

DaysIn(year, month) ==
  IF month = 2 THEN (IF year % 4 = 0 /\ (year % 100 # 0 \/ year % 400 = 0) THEN 29 ELSE 28)
  ELSE IF month \in {4, 6, 9, 11} THEN 30 ELSE 31

\* Quarters are counted, so that the prior quarter is one less.
QuarterNumber(year, quarter) == 4 * year + quarter - 1
QuarterAt(n) == << n \div 4, (n % 4) + 1 >>

\* Six months before today; a day that month lacks is one of the next month.
LatestQuarter ==
  LET back == IF Today.month > 6 THEN <<Today.year, Today.month - 6>>
                                 ELSE <<Today.year - 1, Today.month + 6>>
      month == IF Today.day > DaysIn(back[1], back[2]) THEN back[2] + 1 ELSE back[2]
  IN QuarterNumber(back[1], ((month - 1) \div 3) + 1)

\* Mutant: the newest quarter only.
NewestOnly(o, annual) ==
  << IF annual THEN <<LatestQuarter \div 4, 0>> ELSE QuarterAt(LatestQuarter) >>

QcewStart(o) == IF o.start < EarliestQcewYear THEN EarliestQcewYear ELSE o.start

\* Newest first: the latest few, or all of a range.
CandidatePeriods(o, annual) ==
  LET year == LatestQuarter \div 4
      end == IF o.end < year THEN o.end ELSE year
      down(from, to) == [n \in 1 .. (IF to < from THEN 0 ELSE to - from + 1) |-> to - n + 1]
      quarters(from, to) == [n \in DOMAIN down(from, to) |-> QuarterAt(down(from, to)[n])]
      years(from, to) == [n \in DOMAIN down(from, to) |-> <<down(from, to)[n], 0>>]
      last == IF end < year THEN QuarterNumber(end, 4) ELSE LatestQuarter
  IN IF annual THEN (IF o.explicit THEN years(QcewStart(o), end) ELSE years(year - MaxLookback + 1, year))
     ELSE IF o.explicit THEN quarters(QuarterNumber(QcewStart(o), 1), last)
     ELSE quarters(LatestQuarter - MaxLookback + 1, LatestQuarter)

WantedPeriods(o) == IF o.explicit THEN MaxPeriods ELSE 1

\* A little beyond the cap, for periods that are not published.
Newest(all, width) == SubSeq(all, 1, IF Len(all) < width THEN Len(all) ELSE width)
QcewWindow(key, o) == Newest(CandidatePeriods(o, key.annual), WantedPeriods(o) + MaxLookback)

QcewRequest(area, period) == [area |-> area, period |-> period]
RequestsOf(key, window) == [n \in DOMAIN window |-> QcewRequest(key.area, window[n])]
QcewReads(key, o) == RequestsOf(key, QcewWindow(key, o))
AllReads(keys, o) == [n \in DOMAIN keys |-> QcewReads(keys[n], o)]

\* One list of requests for each series, read one after the other.
OpenOf(lists, got) ==
  {r \in UNION {{lists[n][m] : m \in DOMAIN lists[n]} : n \in DOMAIN lists} : r \notin DOMAIN got}
WantedOf(lists, got) ==
  LET busy == {n \in DOMAIN lists : FirstOpen(lists[n], got) # {}}
  IN IF busy = {} THEN {} ELSE FirstOpen(lists[Min(busy)], got)
QcewOpen(keys, o, got) == OpenOf(AllReads(keys, o), got)
QcewWanted(keys, o, got) == WantedOf(AllReads(keys, o), got)

QcewVisible(released) == {r \in QcewRows : r.release <= released}
QcewAnswer(request, released) ==
  {r \in QcewVisible(released) : r.area = request.area /\ r.period = request.period}

-----------------------------------------------------------------------------
(* Rows and answers.                                                       *)

\* The row of the selection, at the level it has: none if that is not one row.
QcewRow(key, file) ==
  LET rows == {r \in file : r.own = key.own /\ r.industry = key.industry}
      level == {r \in rows : r.level = ExpectedLevel(key)}
      candidates == IF level # {} THEN level ELSE rows
  IN IF Cardinality(candidates) = 1 THEN candidates ELSE {}

\* Employment is the mean of three months, rounded, or the annual level.
QcewValue(i, row) ==
  LET m == row.months
  IN IF row.withheld THEN Null
     ELSE IF i = "average_weekly_wage" THEN row.wage
     ELSE IF row.period[2] = 0 THEN m[1]
     ELSE IF Null \in {m[1], m[2], m[3]} THEN Null ELSE (2 * (m[1] + m[2] + m[3]) + 3) \div 6

QcewObservation(i, row) ==
  [year |-> row.period[1], period |-> IF row.period[2] = 0 THEN Annual ELSE row.period[2],
   value |-> QcewValue(i, row)]

\* What the scan of a window finds: it stops at the last row wanted.  found
\* is the row of each file, or none.
Scanned(wanted, reads, got, found) ==
  LET upTo(n) == {m \in 1 .. n : found[m] # {}}
      read == {n \in DOMAIN reads : Cardinality(upTo(n - 1)) < wanted}
      rows == Keeping(found, {n \in read : found[n] # {}})
  IN [read |-> read,
      rows |-> [k \in DOMAIN rows |-> CHOOSE r \in rows[k] : TRUE],
      missing |-> {reads[n].period : n \in {m \in read : got[reads[m]] = TimedOut}},
      published |-> \E n \in read : got[reads[n]] \notin {{}, TimedOut}]
FoundIn(key, file) == IF file = TimedOut THEN {} ELSE QcewRow(key, file)
ScanOf(key, wanted, reads, got) ==
  Scanned(wanted, reads, got, [n \in DOMAIN reads |-> FoundIn(key, got[reads[n]])])
QcewScan(key, o, got) == ScanOf(key, WantedPeriods(o), QcewReads(key, o), got)

\* Nothing was retrieved in time: the call fails.
FoundNothing(scan) == scan.rows = <<>> /\ ~scan.published /\ scan.missing # {}
QcewFails(keys, o, got) == \E n \in DOMAIN keys : FoundNothing(QcewScan(keys[n], o, got))

SeriesFrom(i, key, o, scan) ==
  LET capped == /\ o.explicit /\ Len(scan.rows) >= MaxPeriods
                /\ Len(CandidatePeriods(o, key.annual)) > Cardinality(scan.read)
  IN [key |-> key,
      observations |-> [n \in DOMAIN scan.rows |-> QcewObservation(i, scan.rows[n])],
      notes |->
        (IF o.explicit /\ o.start < EarliestQcewYear THEN {<<"starts", EarliestQcewYear>>} ELSE {})
        \cup (IF capped THEN {<<"capped", scan.rows[Len(scan.rows)].period>>} ELSE {})
        \cup {<<"late", p>> : p \in scan.missing}
        \cup (IF scan.rows = <<>> /\ scan.published /\ key.industry # AllIndustries
              THEN {<<"no_industry", key.industry>>} ELSE {})]
QcewSeries(i, key, o, got) == SeriesFrom(i, key, o, QcewScan(key, o, got))

QcewSource(key, x) == QcewRequest(key.area, <<x.year, IF key.annual THEN 0 ELSE x.period>>)
=============================================================================
