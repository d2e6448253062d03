--------------------------- MODULE GeographyBuild ---------------------------
(***************************************************************************)
(* From the agencies' files to the catalog that serves (geography-build    *)
(* and scripts/deploy.sh): geography:build downloads each source through a *)
(* cache of files, assembles the rows, and writes one SQLite file; deploy  *)
(* builds it when no artifact is there, bundles it, applies and verifies.  *)
(*                                                                         *)
(* A source is a sequence of rows, already split into fields.  A crash     *)
(* while a cache file is written leaves it empty, or cut short; the file   *)
(* is trusted from then on.  A cut text file is read as a short one.  A    *)
(* cut zip or JSON file cannot be read, nor an empty one, but for BEA's    *)
(* list: assemble skips it when it is empty.  Shares are in hundredths.    *)
(***************************************************************************)
EXTENDS Geography, SequencesExt

CONSTANTS
  Worlds,       \* what the agencies may publish: [files |-> [source -> rows]]
  Order,        \* the sources in the order of the build
  Zipped,       \* sources that are zips: gazetteers, the 2020 file, delineation
  Json,         \* sources that are JSON: ACS and BEA
  Regions,      \* static tables: [code, name],
  Divisions,    \*   [code, name, region, states],
  CpiAreas,     \*   CPI area code -> UCGID (metros, regions, divisions, nation)
  Publishes,    \*   [program, level, keyedBy],
  Changes,      \*   UCGIDs with a county change,
  Vendored,     \*   and Geocorr's edges: [child, parent, share, relation]
  MaxFaults     \* bound: crashes of a build and failed downloads

Source == ToSet(Order)

GazLevels == {State, County, Town, Place, Metro, Zcta}
GazFile(level) == CASE level = State -> "gaz040" [] level = County -> "gaz050" [] level = Town -> "gaz060"
                    [] level = Place -> "gaz160" [] level = Metro -> "gaz310" [] level = Zcta -> "gaz860"

\* The parts of a GEOID.
Parts(level) == CASE level \in {State, Metro, Zcta} -> 1 [] level \in {County, Place} -> 2 [] level = Town -> 3

ASSUME BuildAssumption ==
  /\ Order \in Seq(Source) /\ Order # <<>>
  /\ Zipped \subseteq Source /\ Json \subseteq Source /\ MaxFaults \in Nat
  /\ \A w \in Worlds : \A s \in Source : w.files[s] \in Seq(ToSet(w.files[s]))
  /\ {"delineation", "laus", "ces", "oews", "cpi", "qcew", "bea", "acs", "acs060", "cousubs2020"}
       \subseteq Source
  /\ \A level \in GazLevels : GazFile(level) \in Source
  /\ IsFiniteSet(Regions) /\ IsFiniteSet(Divisions) /\ \A r \in Regions \cup Divisions : r.code \in Nat

\* A GEOID has the parts of its level, of which a state, a county and a metro
\* count from 1; land and people are numbers, and a LAUS code has parts.
ASSUME FilesAssumption ==
  \A w \in Worlds :
    /\ \A level \in GazLevels : \A r \in ToSet(w.files[GazFile(level)]) :
         /\ r.geoid \in [1 .. Parts(level) -> IF level \in {State, County, Metro} THEN Nat \ {0} ELSE Nat]
         /\ r.land \in Nat
    /\ \A a \in ToSet(w.files["acs"]) \cup ToSet(w.files["acs060"]) : a.pop \in Nat \cup {NoPop}
    /\ \A l \in ToSet(w.files["laus"]) : l.parts \in Seq(Nat)

VARIABLES
  world,    \* the files the agencies publish
  cache,    \* rows of each source in the download cache, or Missing
  builder,  \* the build's phase
  source,   \* while it reads: the index of the next source
  deploy,   \* the deploy's phase
  file,     \* the artifact under dist/
  bundle,   \* the catalog in the zip
  live,     \* the catalog the servers have
  faults

buildVars == <<world, cache, builder, source, deploy, file, bundle, live, faults>>

\* In the cache: no file; a zip or JSON file with nothing in it, or cut short.
Missing == -1
Empty == -2
Garbled == -3
None == [kind |-> "none"]

-----------------------------------------------------------------------------
(* assemble: rows to catalog.                                              *)

\* The words stripLsad removes are the resolver's and CDP.
BareName(name) ==
  IF Len(name) > 1 /\ name[Len(name)] \in LsadSuffix \cup {"cdp"}
  THEN SubSeq(name, 1, Len(name) - 1) ELSE name

\* A place and a county subdivision of one code are one municipality, of one
\* bare name, and no subdivision is called a CDP (deriveTownTwins); Geocorr's
\* pairs nest nothing in a subdivision.  A name is a sequence.
IsName(name) == name \in Seq(ToSet(name))
ASSUME NamesAssumption ==
  /\ \A w \in Worlds :
       /\ \A level \in GazLevels : \A r \in ToSet(w.files[GazFile(level)]) : IsName(r.name)
       /\ \A t \in ToSet(w.files["gaz060"]) :
            /\ t.name # <<>> => t.name[Len(t.name)] # "cdp"
            /\ \A p \in ToSet(w.files["gaz160"]) :
                 p.geoid = <<t.geoid[1], t.geoid[3]>> => BareName(p.name) = BareName(t.name)
  /\ \A r \in Regions \cup Divisions : IsName(r.name)
  /\ \A e \in Vendored : e.parent[1] # Town

\* One gazetteer file: an entity per row, and its bare name when it differs.
Gazetteer(level, rows) ==
  [r \in {<<level>> \o rows[i].geoid : i \in DOMAIN rows} |->
     LET row == rows[CHOOSE i \in DOMAIN rows : <<level>> \o rows[i].geoid = r]
     IN [name |-> row.name, form |-> row.form, funcstat |-> row.funcstat, gnis |-> row.gnis,
         land |-> row.land, title |-> row.title, pop |-> NoPop]]
BareAliases(rows) ==
  {[id |-> i, alias |-> BareName(rows[i].name)] :
     i \in {j \in DOMAIN rows : BareName(rows[j].name) # rows[j].name}}

\* Regions, divisions and the nation, from the static tables.
Regional ==
  LET name(id) == CASE id[1] = Nation -> <<"united", "states">>
                    [] id[1] = Region -> (CHOOSE r \in Regions : r.code = id[2]).name
                    [] id[1] = Division -> (CHOOSE d \in Divisions : d.code = id[2]).name
  IN [id \in {<<Nation>>} \cup {<<Region, r.code>> : r \in Regions}
             \cup {<<Division, d.code>> : d \in Divisions} |->
        [name |-> name(id), form |-> "plain", funcstat |-> "none", gnis |-> 0,
         land |-> 1, title |-> {}, pop |-> NoPop]]

RegionalAliases ==
  {[id |-> <<Nation>>, alias |-> a] : a \in {<<"us">>, <<"nation">>}}
  \cup {[id |-> <<Region, r.code>>, alias |-> Append(r.name, "region")] : r \in Regions}
  \cup {[id |-> <<Division, d.code>>, alias |-> Append(d.name, "division")] : d \in Divisions}

Nest(child, parent, share) ==
  [child |-> child, parent |-> parent, share |-> share, relation |-> "nests"]

RegionalEdges(rows) ==
  {Nest(<<Division, d.code>>, <<Region, d.region>>, 100) : d \in Divisions}
  \cup (UNION {{Nest(<<State, s>>, <<Division, d.code>>, 100) : s \in d.states} : d \in Divisions})
  \cup {Nest(id, <<Nation>>, 100) :
          id \in {j \in DOMAIN rows : \/ j[1] = Region
                                      \/ j[1] = State /\ \E d \in Divisions : j[2] \in d.states}}

\* County, tract, place and town in the state and county of their GEOIDs.
StrictContainment(rows) ==
  LET up(id) == (IF id[1] \in {County, Place, Town} THEN {<<State, id[2]>>} ELSE {})
                \cup (IF id[1] \in {Tract, Town} THEN {<<County, id[2], id[3]>>} ELSE {})
  IN UNION {{Nest(id, p, 100) : p \in up(id) \cap DOMAIN rows} : id \in DOMAIN rows}

\* A place and its own county subdivisions: one code in a state, shares by land;
\* or a consolidated town and the only place with its bare name.
TownTwins(rows) ==
  LET towns == {id \in DOMAIN rows : id[1] = Town}
      places == {id \in DOMAIN rows : id[1] = Place}
      twins(p) == {t \in towns : t[2] = p[2] /\ t[4] = p[3]}
      land(T) == MapThenSumSet(LAMBDA t : rows[t].land, T)
      share(p, t) == IF land(twins(p)) > 0 THEN (100 * rows[t].land) \div land(twins(p))
                     ELSE 100 \div Cardinality(twins(p))
      linked == UNION {twins(p) : p \in places}
      named(S, t) == {x \in S : x[2] = t[2] /\ BareName(rows[x].name) = BareName(rows[t].name)}
      merged == {t \in towns : rows[t].funcstat \in {"B", "C"}}
  IN (UNION {{Nest(p, t, share(p, t)) : t \in twins(p)} : p \in places})
     \cup {Nest(CHOOSE p \in named(places, t) : TRUE, t, 100) :
             t \in {u \in merged \ linked : /\ Cardinality(named(merged, u)) = 1
                                            /\ Cardinality(named(places, u)) = 1}}

CountyCbsa(rows, delineation) ==
  {Nest(<<County>> \o r.county, <<Metro, r.cbsa>>, 100) :
     r \in {d \in delineation : {<<County>> \o d.county, <<Metro, d.cbsa>>} \subseteq DOMAIN rows}}

\* A relationship file: the parts of a pair summed, over the anchor's area.
Relationship(rows) ==
  LET pairs == {r \in ToSet(rows) : r.area > 0}
      part(c, p) == FoldSeq(LAMBDA r, acc : IF r.child = c /\ r.parent = p THEN acc + r.part ELSE acc,
                            0, rows)
  IN {[child |-> r.child, parent |-> r.parent, share |-> (100 * part(r.child, r.parent)) \div r.area] :
        r \in pairs}

Overlaps(edges) ==
  {[child |-> e.child, parent |-> e.parent, share |-> e.share, relation |-> "overlaps"] : e \in edges}

\* Geocorr wins over a relationship file.
MergeWeighted(weighted, geocorr) ==
  {w \in weighted : \A g \in geocorr : g.child # w.child \/ g.parent # w.parent} \cup geocorr

\* INSERT OR IGNORE: of the edges of one pair, the first layer's is kept.
FirstOf(layers) ==
  UNION {{e \in layers[n] : \A m \in 1 .. n - 1 : \A k \in layers[m] :
            k.child # e.child \/ k.parent # e.parent} : n \in DOMAIN layers}

Code(id, program, code) == [id |-> id, program |-> program, code |-> code, note |-> "none"]

\* A LAUS area code (its type, then the parts) names a state, county, place or
\* metro; a CS code, of a town in any county, every county part of the town.
LausCodes(rows, laus) ==
  LET level == [ST |-> State, CN |-> County, CT |-> Place, MT |-> Metro]
      whole(r) == <<level[r.prefix]>> \o r.parts
  IN {Code(whole(r), "LAUS", whole(r)) : r \in {l \in laus : l.prefix \in DOMAIN level}}
     \cup UNION {{Code(t, "LAUS", <<Town>> \o r.parts) :
                    t \in {u \in DOMAIN rows : u[1] = Town /\ <<u[2], u[4]>> = r.parts}} :
                  r \in {l \in laus : l.prefix = "CS"}}

\* A metro's CES series is filed under the first state of its title.
CesCodes(ces) ==
  {[id |-> <<Metro, r.area>>, program |-> "SM", code |-> <<r.states[1], r.area>>,
    note |-> IF Len(r.states) > 1 THEN "multi-state" ELSE "none"] :
     r \in {s \in ces : s.states # <<>>}}

MetroCodes(program, areas) == {Code(<<Metro, r.area>>, program, <<r.area>>) : r \in areas}
CpiCodes(areas) ==
  {Code(CpiAreas[r.area], "CPI", <<r.area>>) : r \in {a \in areas : a.area \in DOMAIN CpiAreas}}

\* A town whose GEOID changed since 2020, joined by its permanent code.
Geoid2020(rows, old) ==
  UNION {{Code(t, "GEOID2020", o.geoid) :
            t \in {id \in DOMAIN rows : /\ id[1] = Town /\ rows[id].gnis = o.gnis
                                        /\ id # <<Town>> \o o.geoid}} : o \in old}

\* BEA's combinations: the first name is a county, later ones a city or a county.
BeaComponent(rows, state, names, i) ==
  LET named(n) == {id \in DOMAIN rows : id[1] = County /\ id[2] = state /\ rows[id].name = n}
      county == named(Append(names[i], "county"))
      city == named(Append(names[i], "city"))
  IN IF i > 1 /\ city # {} THEN city ELSE county
BeaUnmatched(rows, bea) ==
  \E r \in bea : \E i \in DOMAIN r.names : BeaComponent(rows, r.code[1], r.names, i) = {}
BeaCodes(rows, bea) ==
  UNION {UNION {{[id |-> id, program |-> "GEOFIPS", code |-> r.code, note |-> "combined"] :
                   id \in BeaComponent(rows, r.code[1], r.names, i)} : i \in DOMAIN r.names} : r \in bea}

\* assemble and buildCatalog over the rows read; text[s] is a source's rows.
ListedRows(text) ==
  LET read == [level \in GazLevels |-> Gazetteer(level, text[GazFile(level)])]
  IN [id \in DOMAIN Regional \cup UNION {DOMAIN read[level] : level \in GazLevels} |->
        IF id[1] \in GazLevels THEN read[id[1]][id] ELSE Regional[id]]
Entities(text) ==
  LET plain == ListedRows(text)
      acs == ToSet(text["acs"]) \cup ToSet(text["acs060"])
  IN [id \in DOMAIN plain |->
        IF \E a \in acs : a.id = id
        THEN [plain[id] EXCEPT !.pop = (CHOOSE a \in acs : a.id = id).pop] ELSE plain[id]]

Assemble(text) ==
  LET rows == Entities(text)
      has(s) == ToSet(text[s])
      areal == {"zctaTract", "zctaCounty", "zctaPlace", "cdCounty", "cdPlace"} \cap Source
      weighted == UNION {Overlaps(Relationship(text[s])) : s \in areal}
  IN [rows |-> rows,
      aliases |-> BareAliases(rows) \cup RegionalAliases,
      edges |-> FirstOf(<<StrictContainment(rows), TownTwins(rows),
                          CountyCbsa(rows, has("delineation")), RegionalEdges(rows),
                          MergeWeighted(weighted, Vendored)>>),
      codes |-> Geoid2020(rows, has("cousubs2020")) \cup BeaCodes(rows, has("bea"))
                \cup LausCodes(rows, has("laus")) \cup CesCodes(has("ces"))
                \cup MetroCodes("OEWS", has("oews")) \cup CpiCodes(has("cpi"))
                \cup MetroCodes("QCEW", has("qcew")),
      publishes |-> Publishes, changed |-> Changes,
      lineage |-> {[from |-> e.parent, to |-> e.child, share |-> e.share] :
                     e \in Relationship(text["tractLineage"])}]

-----------------------------------------------------------------------------
(* geography:build.  builder is "read" (the sources), "assemble", "schema" *)
(* (the old file is gone, the new one has tables and WAL mode), "rows"     *)
(* (committed, still WAL), "idle" or "failed".                             *)

Whole(s) == Len(world.files[s])
TextOf(read) == [s \in Source |-> SubSeq(world.files[s], 1, read[s])]
Torn(s) == cache[s] # Missing /\ cache[s] # Whole(s)
Building == builder \notin {"idle", "failed"}

StartBuild ==
  /\ ~Building /\ deploy \in {"idle", "failed"}
  /\ builder' = "read"
  /\ UNCHANGED <<world, cache, source, deploy, file, bundle, live, faults>>

\* fetchCached: a cached file is read, whatever it holds; a zip or ACS table
\* that is empty or cut stops the build here, a cut BEA list in assemble.
ReadSource ==
  /\ builder = "read"
  /\ LET s == Order[source]
         Next == IF source = Len(Order) THEN builder' = "assemble" /\ source' = 1
                                        ELSE source' = source + 1 /\ UNCHANGED builder
         Stop == builder' = "failed" /\ source' = 1
     IN \/ /\ cache[s] # Missing
           /\ IF Torn(s) /\ s \in (Zipped \cup Json) \ {"bea"} THEN Stop ELSE Next
           /\ UNCHANGED <<cache, faults>>
        \/ /\ cache[s] = Missing
           /\ cache' = [cache EXCEPT ![s] = Whole(s)]
           /\ Next
           /\ UNCHANGED faults
        \/ /\ cache[s] = Missing /\ faults < MaxFaults   \* the download fails
           /\ Stop
           /\ faults' = faults + 1
           /\ UNCHANGED cache
  /\ UNCHANGED <<world, deploy, file, bundle, live>>

\* assemble throws on a cut or unmatched BEA list, and skips an empty one
\* (`if (sources.beaGeoFips)`); then the old file is removed and the schema
\* is written.
OpenCatalog ==
  /\ builder = "assemble"
  /\ IF cache["bea"] = Garbled
        \/ BeaUnmatched(Entities(TextOf(cache)), ToSet(TextOf(cache)["bea"]))
     THEN builder' = "failed" /\ UNCHANGED file
     ELSE builder' = "schema" /\ file' = [kind |-> "schema"]
  /\ UNCHANGED <<world, source, cache, deploy, bundle, live, faults>>

\* One transaction inserts every row and the vintage, into the WAL.
InsertRows ==
  /\ builder = "schema"
  /\ builder' = "rows" /\ file' = [kind |-> "wal"]
  /\ UNCHANGED <<world, source, cache, deploy, bundle, live, faults>>

\* Checkpoint, journal_mode = DELETE, close.
FinishCatalog ==
  /\ builder = "rows"
  /\ builder' = "idle"
  /\ file' = [kind |-> "whole", read |-> cache]
  /\ UNCHANGED <<world, source, cache, deploy, bundle, live, faults>>

\* writeFile empties the file first; the process may die before, or while, it
\* writes the content.
Leaves(s) == IF s \in Zipped \cup Json THEN {Empty, Garbled} ELSE 0 .. Whole(s) - 1

\* The process dies, perhaps while it writes a cache file.
CrashBuild ==
  /\ Building /\ faults < MaxFaults
  /\ faults' = faults + 1
  /\ builder' = "failed" /\ source' = 1
  /\ \/ UNCHANGED cache
     \/ /\ builder = "read" /\ cache[Order[source]] = Missing
        /\ \E n \in Leaves(Order[source]) : cache' = [cache EXCEPT ![Order[source]] = n]
  /\ UNCHANGED <<world, deploy, file, bundle, live>>

-----------------------------------------------------------------------------
(* deploy.sh.                                                              *)

StartDeploy ==
  /\ deploy \in {"idle", "failed"} /\ ~Building
  /\ IF file = None THEN deploy' = "build" /\ builder' = "read"
                    ELSE deploy' = "bundle" /\ UNCHANGED builder
  /\ UNCHANGED <<world, source, cache, file, bundle, live, faults>>

\* set -e: a build that fails ends the deploy.
AfterBuild ==
  /\ deploy = "build" /\ ~Building
  /\ deploy' = IF builder = "failed" THEN "failed" ELSE "bundle"
  /\ UNCHANGED <<world, source, cache, builder, file, bundle, live, faults>>

\* The newest artifact is copied, finished or not (never its -wal).
Bundle ==
  /\ deploy = "bundle"
  /\ bundle' = file /\ deploy' = "apply"
  /\ UNCHANGED <<world, source, cache, builder, file, live, faults>>

Apply ==
  /\ deploy = "apply"
  /\ live' = bundle /\ deploy' = "verify"
  /\ UNCHANGED <<world, source, cache, builder, file, bundle, faults>>

\* resolve_place "Denver" on each server: a WAL file cannot be opened on the
\* read-only file system, an empty catalog has no such place.
Probe == [text |-> <<"denver">>, county |-> <<>>, tail |-> <<>>, geoid |-> <<>>,
          kind |-> NoKind, state |-> NoState]
VerifyUp ==  \* mutant: any answer of the server will do
  /\ deploy = "verify" /\ deploy' = "done"
  /\ UNCHANGED <<world, source, cache, builder, file, bundle, live, faults>>
Verify ==
  /\ deploy = "verify"
  /\ deploy' = IF /\ live.kind = "whole"
                  /\ ResolvePlace(Assemble(TextOf(live.read)), Probe).candidates # <<>>
               THEN "done" ELSE "failed"
  /\ UNCHANGED <<world, source, cache, builder, file, bundle, live, faults>>

\* The operator removes the download cache, or dist/, after a failure.
CleanUp ==
  /\ deploy = "failed" /\ ~Building
  /\ \/ cache' = [s \in Source |-> Missing] /\ UNCHANGED file
     \/ file' = None /\ UNCHANGED cache
  /\ UNCHANGED <<world, source, builder, deploy, bundle, live, faults>>

BuildInit ==
  /\ world \in Worlds
  /\ cache = [s \in Source |-> Missing]
  /\ builder = "idle" /\ source = 1 /\ deploy = "idle"
  /\ file = None /\ bundle = None /\ live = None
  /\ faults = 0

BuildNext ==
  \/ StartBuild \/ ReadSource \/ OpenCatalog \/ InsertRows \/ FinishCatalog \/ CrashBuild
  \/ StartDeploy \/ AfterBuild \/ Bundle \/ Apply \/ Verify \/ CleanUp

BuildTypeOK ==
  /\ world \in Worlds /\ faults \in 0 .. MaxFaults
  /\ \A s \in Source : cache[s] \in {Missing, Whole(s)} \cup Leaves(s)
  /\ builder \in {"read", "assemble", "schema", "rows", "idle", "failed"}
  /\ source \in 1 .. Len(Order)
  /\ deploy \in {"idle", "build", "bundle", "apply", "verify", "done", "failed"}
  /\ {file.kind, bundle.kind, live.kind} \subseteq {"none", "schema", "wal", "whole"}

(* A deploy that reports success serves a finished catalog whose rows are   *)
(* the agencies' own, short only by text files that crashes cut while they  *)
(* were written to the cache, and by BEA's list when one left it empty: any *)
(* other empty or cut zip or JSON, a half-written database and one left in  *)
(* WAL mode are all stopped, or caught by the last check.                   *)
VerifiedIsWhole ==
  deploy = "done" =>
    /\ live.kind = "whole"
    /\ LET cut == {s \in Source : live.read[s] # Whole(s)}
       IN /\ \A s \in cut \cap (Zipped \cup Json) : s = "bea" /\ live.read[s] = Empty
          /\ Cardinality(cut) <= faults
=============================================================================
