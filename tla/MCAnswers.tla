----------------------------- MODULE MCAnswers -----------------------------
(* A small country for TLC: the sources of the catalog in worlds that      *)
(* differ in populations, the agencies' figures, and the calls.            *)
EXTENDS Answers

States == "co" :> 8 @@ "ct" :> 9 @@ "il" :> 17 @@ "ma" :> 25 @@ "pa" :> 42 @@ "tx" :> 48 @@ "va" :> 51

Sources == <<"gaz040", "gaz050", "gaz060", "gaz160", "gaz310", "gaz860", "cousubs2020",
             "delineation", "laus", "ces", "oews", "cpi", "qcew", "zctaCounty", "tractLineage",
             "acs", "bea", "acs060">>
Zips == {"gaz040", "gaz050", "gaz060", "gaz160", "gaz310", "gaz860", "cousubs2020", "delineation"}
JsonSources == {"acs", "acs060", "bea"}

Row(geoid, name, form, land) ==
  [geoid |-> geoid, name |-> name, form |-> form, funcstat |-> "A", gnis |-> 0,
   land |-> land, title |-> {}]
Plain(geoid, name, land) == Row(geoid, name, "plain", land)

Gaz040 == << Plain(<<8>>, <<"colorado">>, 10000), Plain(<<9>>, <<"connecticut">>, 500),
             Plain(<<17>>, <<"illinois">>, 5500), Plain(<<25>>, <<"massachusetts">>, 800),
             Plain(<<42>>, <<"pennsylvania">>, 4500), Plain(<<48>>, <<"texas">>, 19000),
             Plain(<<51>>, <<"virginia">>, 4000) >>
Gaz050 == << Plain(<<8, 31>>, <<"denver", "county">>, 15),
             Plain(<<9, 170>>, <<"south", "central", "planning", "region">>, 40),
             Plain(<<17, 167>>, <<"sangamon", "county">>, 90),
             Plain(<<25, 13>>, <<"hampden", "county">>, 60),
             Plain(<<42, 19>>, <<"butler", "county">>, 80),
             Plain(<<42, 121>>, <<"venango", "county">>, 70),
             Plain(<<48, 89>>, <<"colorado", "county">>, 100),
             Plain(<<51, 59>>, <<"fairfax", "county">>, 40),
             Plain(<<51, 600>>, <<"fairfax", "city">>, 1) >>
Gaz060 == << [Plain(<<9, 170, 47>>, <<"milford", "town">>, 2) EXCEPT !.funcstat = "C", !.gnis = 7],
             Plain(<<25, 13, 67>>, <<"springfield", "city">>, 3),
             Plain(<<42, 19, 116>>, <<"cranberry", "township">>, 2),
             Plain(<<42, 121, 117>>, <<"cranberry", "township">>, 7) >>
Gaz160 == << Plain(<<8, 20>>, <<"denver", "city">>, 15),
             Row(<<9, 48>>, <<"milford", "city">>, "balance", 2),
             Plain(<<17, 72>>, <<"springfield", "city">>, 6),
             Plain(<<25, 67>>, <<"springfield", "city">>, 3) >>
Gaz310 == << [Plain(<<19740>>, <<"denver", "metro area">>, 800) EXCEPT !.title = {8}],
             [Plain(<<36340>>, <<"oil city", "micro area">>, 70) EXCEPT !.title = {42}] >>
Gaz860 == << Plain(<<80202>>, <<"80202">>, 1) >>

Laus(prefix, parts) == [prefix |-> prefix, parts |-> parts]
Weigh(child, parent, part, area) ==
  [child |-> child, parent |-> parent, part |-> part, area |-> area]
People(id, pop) == [id |-> id, pop |-> pop]

World(springfieldIL, springfieldMA, butler, venango) ==
  "gaz040" :> Gaz040 @@ "gaz050" :> Gaz050 @@ "gaz060" :> Gaz060 @@ "gaz160" :> Gaz160
  @@ "gaz310" :> Gaz310 @@ "gaz860" :> Gaz860
  @@ "cousubs2020" :> << [geoid |-> <<9, 9, 47>>, gnis |-> 7] >>
  @@ "delineation" :> << [county |-> <<8, 31>>, cbsa |-> 19740], [county |-> <<42, 121>>, cbsa |-> 36340] >>
  @@ "laus" :> << Laus("CN", <<8, 31>>), Laus("CS", <<25, 67>>), Laus("CT", <<8, 20>>),
                  Laus("CT", <<17, 72>>), Laus("CT", <<25, 67>>), Laus("CN", <<42, 19>>) >>
  @@ "ces" :> << [area |-> 19740, states |-> <<8>>] >>
  @@ "oews" :> << [area |-> 19740] >>
  @@ "cpi" :> << [area |-> 0], [area |-> 100], [area |-> 230], [area |-> 484] >>
  @@ "qcew" :> << [area |-> 19740] >>
  @@ "zctaCounty" :> << Weigh(<<Zcta, 80202>>, <<County, 8, 31>>, 9, 10) >>
  @@ "tractLineage" :> << Weigh(<<Tract, 8, 31, 2>>, <<Tract, 8, 31, 1>>, 5, 10) >>
  @@ "acs" :> << People(<<State, 8>>, 5800), People(<<County, 8, 31>>, 715),
                 People(<<County, 48, 89>>, 20), People(<<County, 51, 59>>, 1140),
                 People(<<County, 51, 600>>, 24), People(<<Place, 8, 20>>, 715),
                 People(<<Place, 17, 72>>, springfieldIL), People(<<Place, 25, 67>>, springfieldMA),
                 People(<<Metro, 19740>>, 2960) >>
  @@ "acs060" :> << People(<<Town, 25, 13, 67>>, springfieldMA),
                    People(<<Town, 42, 19, 116>>, butler), People(<<Town, 42, 121, 117>>, venango) >>
  @@ "bea" :> << [code |-> <<51, 919>>, names |-> << <<"fairfax">>, <<"fairfax">> >>] >>

\* Rivals of one size, leaders with ten times the people of the next, and a
\* rival of unknown size.  Of the Springfields, the leader is the smaller in land.
Country == {[files |-> World(114, 155, 33, 6)], [files |-> World(15, 155, 33, 3)],
            [files |-> World(NoPop, 155, 33, NoPop)]}

RegionTable == {[code |-> 1, name |-> <<"northeast">>], [code |-> 2, name |-> <<"midwest">>],
                [code |-> 4, name |-> <<"west">>]}
DivisionTable ==
  {[code |-> 1, name |-> <<"new", "england">>, region |-> 1, states |-> {9, 25}],
   [code |-> 2, name |-> <<"middle", "atlantic">>, region |-> 1, states |-> {42}],
   [code |-> 3, name |-> <<"east", "north", "central">>, region |-> 2, states |-> {17}],
   [code |-> 8, name |-> <<"mountain">>, region |-> 4, states |-> {8}]}
CpiTable == 0 :> <<Nation>> @@ 100 :> <<Region, 1>> @@ 230 :> <<Division, 3>> @@ 484 :> <<Metro, 19740>>
PublishTable == {[program |-> "LAUS", level |-> County, keyedBy |-> "code"],
                 [program |-> "ACS", level |-> County, keyedBy |-> "census"]}
ChangeTable == {<<County, 9, 170>>}
Geocorr == {Nest(<<Place, 8, 20>>, <<County, 8, 31>>, 100),
            Nest(<<Place, 17, 72>>, <<County, 17, 167>>, 100),
            Nest(<<Place, 25, 67>>, <<County, 25, 13>>, 100),
            Nest(<<Place, 9, 48>>, <<County, 9, 170>>, 100)}

-----------------------------------------------------------------------------
(* The figures.                                                            *)

Page(page, id, year, area, release, rows) ==
  [page |-> page, id |-> id, year |-> year, census |-> {2020}, area |-> area,
   release |-> release, rows |-> rows]
Line(tag, values) == [tag |-> tag, values |-> values]
Rent(n) == {Line(<<"all", "">>, <<"0">> :> n @@ <<"2">> :> n + 1)}
SmallArea(n) == {Line(<<"msa", "">>, <<"2">> :> n), Line(<<"zip", "80202">>, <<"2">> :> n + 5)}
Income(n) == {Line(<<"", "">>, <<"median">> :> n @@ <<"80", "4">> :> n - 1 @@ <<"50", "1">> :> n - 2
                                  @@ <<"60", "4">> :> n - 3)}
DenverHud == <<8, 31, 99999>>

HudTable ==
  {Page("fmr", DenverHud, y, <<County, 8, 31>>, 0, Rent(y)) : y \in {2024, 2025}}
  \cup {Page("fmr", DenverHud, 2026, <<County, 8, 31>>, 1, SmallArea(1900)),
        Page("fmr", <<25, 13, 67>>, 2026, <<Town, 25, 13, 67>>, 0, Rent(1500)),
        Page("fmr", <<9, 170, 47>>, 2026, <<Town, 9, 170, 47>>, 0, Rent(1600)),
        Page("fmr", <<9, 9, 47>>, 2025, <<Town, 9, 170, 47>>, 0, Rent(1400)),
        Page("il", <<9, 170, 47>>, 2025, <<Town, 9, 170, 47>>, 0, Income(90)),
        Page("il", <<9, 170, 47>>, 2026, <<Town, 9, 170, 47>>, 1, Income(95)),
        Page("il", <<9, 9, 47>>, 2024, <<Town, 9, 170, 47>>, 0, Income(80)),
        Page("mtspil", DenverHud, 2025, <<County, 8, 31>>, 0, Income(70)),
        Page("chas", <<County, 8, 31>>, 2021, <<County, 8, 31>>, 0,
             {Line(<<"", "">>, <<"D5">> :> 30 @@ <<"D8">> :> 20 @@ <<"A17">> :> 100)}),
        Page("picture", <<County, 8, 31>>, 2023, <<County, 8, 31>>, 0,
             {Line(<<"1", "na">>, <<"units">> :> 400 @@ <<"income">> :> -4),
              Line(<<"1", "x">>, <<"units">> :> 90), Line(<<"2", "x">>, <<"units">> :> 50)}),
        [Page("picture", <<County, 8, 31>>, 2021, <<County, 8, 31>>, 0,
             {Line(<<"1", "n/a">>, <<"units">> :> 380)}) EXCEPT !.census = {2010}]}

BeaLine(table, line, geo, area, year, quarter, value) ==
  [table |-> table, line |-> line, geo |-> geo, area |-> area, year |-> year, quarter |-> quarter,
   value |-> value, marked |-> FALSE, release |-> 0]
BeaTable ==
  {BeaLine("CAGDP2", 1, <<8, 31>>, <<County, 8, 31>>, y, Annual, y - 1900) : y \in {2023, 2024}}
  \cup {[BeaLine("CAGDP2", 2, <<8, 31>>, <<County, 8, 31>>, 2024, Annual, 9) EXCEPT !.marked = TRUE],
        BeaLine("CAGDP2", 1, <<51, 919>>, <<51, 919>>, 2024, Annual, 130),
        BeaLine("CAGDP2", 1, <<51, 59>>, <<County, 51, 59>>, 2023, Annual, 5),
        BeaLine("SAGDP2", 1, <<8, 0>>, <<State, 8>>, 2024, Annual, 550),
        BeaLine("SAGDP9", 1, <<8, 0>>, <<State, 8>>, 2024, Annual, 500),
        BeaLine("CAINC1", 3, <<8, 31>>, <<County, 8, 31>>, 2023, Annual, 99),
        BeaLine("CAINC1", 3, <<8, 31>>, <<County, 8, 31>>, 2024, Annual, 101),
        BeaLine("SQINC1", 1, <<8, 0>>, <<State, 8>>, 2025, 4, 450),
        BeaLine("SQINC1", 1, <<8, 0>>, <<State, 8>>, 2025, 3, 440),
        BeaLine("MARPP", 1, <<19740>>, <<Metro, 19740>>, 2023, Annual, 106),
        BeaLine("PARPP", 1, <<42, 999>>, <<42, 999>>, 2023, Annual, 90)}

Series(survey, area, items) == [survey |-> survey, area |-> area, items |-> items, adjusted |-> FALSE]
BlsLine(series, of, year, period, value) ==
  [series |-> series, of |-> {of}, year |-> year, period |-> period, value |-> value,
   marked |-> FALSE, release |-> 0]
Rate(area) == Series("LA", area, <<"unemployment_rate">>)
BlsTable ==
  {BlsLine(Rate(id), id, 2025, m, 40 + m) : id \in {<<Place, 8, 20>>, <<County, 8, 31>>}, m \in {11, 12}}
  \cup {BlsLine(Rate(<<Place, 8, 20>>), <<Place, 8, 20>>, 2026, 1, 44),
        [BlsLine(Rate(<<Place, 25, 67>>), <<Place, 25, 67>>, 2026, 1, 0) EXCEPT !.marked = TRUE],
        BlsLine(Rate(<<Place, 25, 67>>), <<Place, 25, 67>>, 2025, 12, 61),
        [BlsLine(Rate(<<Place, 25, 67>>), <<Place, 25, 67>>, 2026, 2, 62) EXCEPT !.release = 1],
        BlsLine(Rate(<<Place, 17, 72>>), <<Place, 17, 72>>, 2025, 12, 48),
        BlsLine(Rate(<<County, 42, 19>>), <<County, 42, 19>>, 2025, 12, 35),
        BlsLine(Series("LN", <<0>>, <<"unemployment_rate">>), <<Nation>>, 2025, 12, 41),
        BlsLine(Series("SM", <<8, 19740>>, <<>>), <<Metro, 19740>>, 2025, 12, 160),
        BlsLine(Series("CU", <<484>>, <<"SA0">>), <<Metro, 19740>>, 2025, 11, 330),
        BlsLine(Series("CU", <<230>>, <<"SA0">>), <<Division, 3>>, 2025, 12, 300),
        BlsLine(Series("CU", <<100>>, <<"SA0">>), <<Region, 1>>, 2025, 12, 310),
        BlsLine(Series("CU", <<0>>, <<"SA0">>), <<Nation>>, 2025, 12, 320),
        BlsLine(Series("OE", <<8, 0>>, <<AllOccupations, "04">>), <<State, 8>>, 2025, Annual, 70),
        BlsLine(Series("JT", <<8, 0>>, <<"job_openings">>), <<State, 8>>, 2025, 12, 160),
        BlsLine(Series("WP", <<0>>, <<"FD4">>), <<Nation>>, 2025, 12, 150)}

\* BLS lists a series of a place that has none, and one of a survey it lacks.
ListedSeries ==
  {Rate(<<Place, 1, 2>>), Series("OE", <<8, 0>>, <<"470000", "04">>)} \cup {r.series : r \in BlsTable}
LastThree == 2024 .. 2026

Wage(id, area, period, own, industry, level, n) ==
  [area |-> area, period |-> period, own |-> own, industry |-> industry, level |-> level,
   months |-> IF period[2] = 0 THEN << n >> ELSE << n, n + 1, n + 4 >>, wage |-> 10 * n,
   withheld |-> FALSE, of |-> id, release |-> 0]
DenverWage(period, n) == Wage(<<County, 8, 31>>, <<8, 31>>, period, "0", "10", 70, n)
Construction(period, level, n) == Wage(<<County, 8, 31>>, <<8, 31>>, period, "5", "23", level, n)
QcewTable ==
  {DenverWage(<<2026, q>>, 500 + q) : q \in 1 .. 2} \cup {DenverWage(<<2025, q>>, 480 + q) : q \in 0 .. 4}
  \cup {DenverWage(<<2024, 4>>, 470), [DenverWage(<<2026, 3>>, 510) EXCEPT !.release = 1],
        Construction(<<2026, 2>>, 74, 30), [Construction(<<2026, 2>>, 73, 55) EXCEPT !.of = <<>>],
        [Construction(<<2026, 1>>, 74, 28) EXCEPT !.months = <<28, Null, 30>>],
        Wage(<<Metro, 19740>>, <<19740>>, <<2026, 1>>, "0", "10", 40, 900),
        [Wage(<<State, 8>>, <<8, 0>>, <<2026, 2>>, "0", "10", 50, 2000) EXCEPT !.withheld = TRUE],
        Wage(<<State, 8>>, <<8, 0>>, <<2026, 1>>, "0", "10", 50, 1990),
        Wage(<<County, 51, 59>>, <<51, 59>>, <<2026, 1>>, "0", "10", 70, 620),
        Wage(<<County, 51, 59>>, <<51, 59>>, <<2025, 4>>, "0", "10", 70, 615)}

\* Six months before the 31st of December is the 1st of July.
LastOfYear == [year |-> 2026, month |-> 12, day |-> 31]

Count(product, variable, id, estimate, margin) ==
  [product |-> product, variable |-> variable, id |-> id, estimate |-> estimate, margin |-> margin,
   mark |-> "none", release |-> 0]
CensusTable ==
  {Count("1-year", "population", <<County, 8, 31>>, 715, -555555555),
   Count("5-year", "population", <<County, 8, 31>>, 710, -555555555),
   Count("5-year", "population", <<County, 48, 89>>, 20, -555555555),
   Count("5-year", "poverty_rate", <<County, 48, 89>>, 12, 9),
   Count("5-year", "poverty_rate", <<County, 51, 59>>, 6, 1),
   Count("5-year", "median_household_income", <<County, 8, 31>>, -666666666, -222222222),
   Count("count", "decennial_population", <<County, 8, 31>>, 716, 0)}

-----------------------------------------------------------------------------
(* The calls.                                                              *)

At(name, kind, state) ==
  [text |-> <<name>>, county |-> <<>>, tail |-> <<>>, geoid |-> <<>>, kind |-> kind, state |-> state]
Named(name) == At(name, NoKind, NoState)

Ask(tool, indicator, places) ==
  [tool |-> tool, indicator |-> indicator, places |-> places, dims |-> <<>>,
   start |-> Null, end |-> Null, adjusted |-> FALSE]
Get(indicator, place) == Ask("get", indicator, << place >>)
Years(ask, from, to) == [ask EXCEPT !.start = from, !.end = to]
With(ask, dims) == [ask EXCEPT !.dims = dims]
Raw(server, query) == [tool |-> "raw", server |-> server, query |-> query]
BeaRaw(line, ids, years, span) ==
  Raw("bea", [table |-> "CAGDP2", line |-> line, ids |-> ids, years |-> years, span |-> span,
              request |-> [table |-> "CAGDP2", line |-> line, geos |-> ToSet(ids),
                           years |-> IF years = {} THEN {Latest} ELSE years]])

DenverCity == At("denver", "city", NoState)
DenverCounty == At("denver", "county", 8)
Fairfax == At("fairfax", "county", 51)
ColoradoCounty == At("colorado", "county", 48)

PlaceCalls ==
  << Get("unemployment_rate", Named("denver")), Get("unemployment_rate", DenverCity),
     Get("unemployment_rate", Named("springfield")),
     Get("unemployment_rate", [Named("springfield") EXCEPT !.tail = <<"ma">>]),
     Get("unemployment_rate", [Named("springfield") EXCEPT !.tail = <<"illinois">>]),
     Get("unemployment_rate", Named("cranberry")),
     Get("unemployment_rate", [Named("cranberry") EXCEPT !.county = <<"butler", "county">>]),
     Get("unemployment_rate", [Named("4250016748") EXCEPT !.geoid = <<Town, 42, 19, 116>>]),
     Get("unemployment_rate", Named("us")), Get("unemployment_rate", Named("atlantis")),
     Get("gdp", Named("colorado")), Get("gdp", At("denver", NoKind, 8)),
     Ask("list", "unemployment_rate", << DenverCounty >>), Ask("list", "gdp", << Named("springfield") >>),
     Ask("list", "fair_market_rent", << Named("atlantis") >>),
     Ask("list", "fair_market_rent", << DenverCity >>),
     Ask("list", "regional_price_parity", << At("cranberry", "township", 42) >>),
     Ask("list", "cpi_all_items", << At("denver", "metro", NoState) >>), Ask("list", "population", <<>>) >>

AgencyCalls ==
  << Get("fair_market_rent", DenverCity), Years(Get("fair_market_rent", DenverCounty), 2015, 2026),
     Get("fair_market_rent", [Named("springfield") EXCEPT !.tail = <<"ma">>]),
     Years(Get("fair_market_rent", At("milford", "town", NoState)), 2024, 2026),
     Years(Get("area_median_income", At("milford", "town", 9)), 2023, 2026),
     Get("mtsp_limit", DenverCounty), With(Get("income_limit", Named("milford")), [level |-> "50", household_size |-> "1"]),
     Get("fair_market_rent", At("hampden", "county", 25)),
     Get("subsidized_units", DenverCounty), Years(Get("subsidized_units", DenverCounty), 2010, 2023),
     With(Get("subsidized_units", DenverCounty), [program |-> "2"]),
     Get("average_household_income", DenverCounty),
     Get("cost_burdened_renter_share", DenverCounty),
     Years(Get("cost_burdened_renters", DenverCounty), 2021, 2021),
     Get("gdp", Fairfax), With(Get("gdp", DenverCounty), [industry |-> "private"]),
     Years(Get("gdp", DenverCounty), 1999, 2023), Years(Get("gdp", DenverCounty), 1995, 2000), Get("real_gdp", Named("colorado")),
     Get("per_capita_personal_income", DenverCounty),
     With(Get("personal_income", DenverCounty), [frequency |-> "quarterly"]),
     With(Get("personal_income", Named("colorado")), [frequency |-> "quarterly"]),
     Get("personal_income", At("denver", "metro", NoState)),
     Get("regional_price_parity", DenverCity),
     Get("regional_price_parity", At("venango", "county", 42)),
     Years(Get("regional_price_parity", DenverCity), 2000, 2005),
     Get("cpi_all_items", At("denver", "metro", NoState)), Get("cpi_all_items", At("springfield", "city", 17)),
     Get("cpi_all_items", At("springfield", "city", 25)), Get("cpi_all_items", Named("texas")),
     Get("payroll_employment", At("denver", "metro", NoState)),
     Years(Get("occupational_wage", Named("colorado")), 2023, 2024),
     With(Get("occupational_wage", Named("colorado")), [occupation |-> "479999"]),
     With(Get("occupational_wage", Named("colorado")), [occupation |-> "470000"]),
     Get("job_openings", Named("colorado")), Ask("get", "producer_price_index", <<>>),
     Get("producer_price_index", Named("springfield")),
     Get("covered_employment", DenverCounty), Get("average_weekly_wage", At("denver", "metro", NoState)),
     Get("covered_employment", Named("colorado")), Get("covered_employment", DenverCity),
     Years(Get("covered_employment", DenverCounty), 2012, 2026),
     Years(Get("average_weekly_wage", DenverCounty), Null, 2025),
     With(Get("covered_employment", DenverCounty), [frequency |-> "annual"]),
     With(Get("covered_employment", DenverCounty), [industry |-> "23", ownership |-> "5"]),
     With(Get("covered_employment", DenverCounty), [industry |-> "236", ownership |-> "5"]),
     With(Get("covered_employment", DenverCounty), [industry |-> "23"]),
     Get("population", DenverCounty), Get("poverty_rate", Fairfax),
     Get("median_household_income", DenverCounty), Get("decennial_population", DenverCounty),
     With(Get("population", ColoradoCounty), [product |-> "1-year"]),
     With(Get("population", DenverCounty), [vintage |-> "2020"]), Ask("get", "gdp", <<>>) >>

\* compare_places takes one kind and one state for all its places.
In(query, tail) == [query EXCEPT !.tail = tail]
AnyCounty(name) == At(name, "county", NoState)
AnyCity(name) == At(name, "city", NoState)

ManyCalls ==
  << Ask("compare", "population", << AnyCounty("denver"), AnyCounty("colorado") >>),
     With(Ask("compare", "population", << AnyCounty("denver"), AnyCounty("colorado") >>),
          [product |-> "1-year"]),
     Ask("compare", "unemployment_rate",
         << DenverCity, In(AnyCity("springfield"), <<"ma">>), AnyCity("atlantis"), AnyCity("springfield") >>),
     Ask("compare", "gdp",
         << In(AnyCounty("fairfax"), <<"va">>), AnyCounty("fairfax"), AnyCounty("denver") >>),
     Ask("compare", "fair_market_rent", << DenverCity, In(DenverCity, <<"co">>), AnyCity("milford") >>),
     Ask("compare", "fair_market_rent", << Named("colorado"), In(Named("springfield"), <<"ma">>) >>),
     Ask("compare", "covered_employment", << AnyCounty("denver"), In(AnyCounty("fairfax"), <<"va">>) >>),
     Years(Ask("compare", "covered_employment", << AnyCounty("denver"), In(AnyCounty("fairfax"), <<"va">>) >>),
           2025, 2026),
     Ask("compare", "producer_price_index", << Named("us") >>),
     Raw("hud", [endpoint |-> "fmr", ids |-> << DenverHud, <<1, 2, 3>> >>, year |-> 2025]),
     Raw("hud", [endpoint |-> "picture", ids |-> << <<County, 8, 31>> >>, year |-> Latest]),
     BeaRaw(1, << <<8, 31>> >>, {}, "none"), BeaRaw(1, << <<8, 31>> >>, {2024}, "none"),
     BeaRaw(AllLines, << <<8, 31>>, <<51, 919>> >>, {}, "none"),
     BeaRaw(1, << <<8, 31>> >>, {2024}, "ALL"), BeaRaw(1, << <<-2>> >>, {}, "ALL"),
     Raw("bls", [ids |-> << Rate(<<Place, 8, 20>>), Rate(<<Place, 1, 1>>), Rate(<<Place, 17, 72>>) >>,
                 start |-> 2000, end |-> Null]),
     Raw("bls", [ids |-> << Rate(<<Place, 25, 67>>), Rate(<<Place, 1, 2>>), Rate(<<Place, 1, 1>>) >>,
                 start |-> Null, end |-> Null]),
     Raw("bls", [ids |-> << Series("none", <<8, 31>>, <<>>) >>, start |-> Null, end |-> Null]),
     Raw("census", [ucgid |-> <<>>, for |-> <<County, 8, 31>>, in |-> <<>>,
                    request |-> [id |-> <<County, 8, 31>>, variable |-> "population", product |-> "5-year"]]),
     Raw("census", [ucgid |-> <<>>, for |-> <<>>, in |-> <<8>>, request |-> <<>>]) >>

Calls == PlaceCalls \o AgencyCalls \o ManyCalls
=============================================================================
