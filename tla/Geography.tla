----------------------------- MODULE Geography -----------------------------
(***************************************************************************)
(* Place resolution (core/src/geography): the read-only catalog's queries, *)
(* resolvePlace with its rules for asking instead of guessing, the flags   *)
(* of a candidate, and the geography tools' replies.                       *)
(*                                                                         *)
(* An entity's id is its UCGID: the summary level, then the parts of its   *)
(* GEOID (<<50, 8, 31>> is county 08031, <<60, 25, 17, 70>> a county       *)
(* subdivision, <<160, 8, 20>> a place), so that comparing the tuples      *)
(* compares the strings.  A name is a sequence of lower-case words without *)
(* punctuation ("city and borough" is one word), so the trigram search,    *)
(* which finds a name that holds the query, is a contiguous subsequence.   *)
(* The numbers are small: land and population below 20000.                 *)
(***************************************************************************)
EXTENDS Integers, Sequences, FiniteSets, FiniteSetsExt, TLC

CONSTANTS
  SearchPage,   \* rows of one search, 50
  ResultLimit,  \* candidates of a reply, 10
  Usps,         \* two-letter codes of the states: [code -> state FIPS]
  NoState,      \* no state, or none recognised
  NoKind        \* the caller gave no kind

ASSUME GeographyAssumption ==
  SearchPage \in Nat \ {0} /\ ResultLimit \in Nat \ {0} /\ NoState \notin Nat \cup DOMAIN Usps

Nation == 10   Region == 20   Division == 30   State == 40   County == 50
Town == 60     Tract == 140   Place == 160     Metro == 310  Zcta == 860
Levels == {Nation, Region, Division, State, County, Town, Tract, Place, Metro, Zcta}

NoPop == -1    \* no population known
Ratio == 10    \* STATE_DOMINANCE_RATIO

\* The name and label hints, and the level codes.
KindHints ==
  [kind \in {"nation", "region", "division", "state", "county", "050", "city", "place", "160",
             "town", "township", "county subdivision", "060", "metro",
             "metropolitan statistical area", "310", "zip", "tract"} |->
     CASE kind = "nation" -> {Nation} [] kind = "region" -> {Region}
       [] kind = "division" -> {Division} [] kind = "state" -> {State}
       [] kind \in {"county", "050"} -> {County} [] kind \in {"city", "place", "160"} -> {Place}
       [] kind = "town" -> {Place, Town}
       [] kind \in {"township", "county subdivision", "060"} -> {Town}
       [] kind \in {"metro", "metropolitan statistical area", "310"} -> {Metro}
       [] kind = "zip" -> {Zcta} [] kind = "tract" -> {Tract}]

Hinted(kind) == kind \in DOMAIN KindHints
LevelsOf(kind) == IF Hinted(kind) THEN KindHints[kind] ELSE Levels

ASSUME KindsAssumption == ~Hinted(NoKind)

\* A word of the state option that is neither a known code nor a FIPS is dropped.
StateOption(s) == IF s \in Nat THEN s ELSE IF s \in DOMAIN Usps THEN Usps[s] ELSE NoState

StateNested == {State, County, Town, Tract, Place}
StateOf(id) == IF id[1] \in StateNested THEN id[2] ELSE NoState

-----------------------------------------------------------------------------
(* The catalog's queries.                                                  *)

Before(a, b) ==
  \E i \in 1 .. Len(b) :
    /\ \A j \in 1 .. i - 1 : j <= Len(a) /\ a[j] = b[j]
    /\ i > Len(a) \/ a[i] < b[i]

FirstN(S, n) == {a \in S : Cardinality({b \in S : Before(b, a)}) < n}

Holds(text, name) ==
  \E i \in 0 .. Len(name) - Len(text) : SubSeq(name, i + 1, i + Len(text)) = text

NamesOf(c, id) == {c.rows[id].name} \cup {a.alias : a \in {b \in c.aliases : b.id = id}}

\* A metro is in a state named in its title, or with one of its counties.
InState(c, id, s) ==
  \/ s = NoState
  \/ StateOf(id) = s
  \/ /\ id[1] = Metro
     /\ \/ s \in c.rows[id].title
        \/ \E e \in c.edges : e.parent = id /\ e.child \in DOMAIN c.rows /\ StateOf(e.child) = s

SearchNames(c, text, s, levels, page) ==
  FirstN({id \in DOMAIN c.rows : /\ id[1] \in levels
                                 /\ \E n \in NamesOf(c, id) : Holds(text, n)
                                 /\ InState(c, id, s)}, page)

EdgesUp(c, id) ==
  {e \in c.edges : e.child = id /\ e.relation = "nests" /\ e.parent \in DOMAIN c.rows}
EdgesDown(c, id) ==
  {e \in c.edges : e.parent = id /\ e.relation = "overlaps" /\ e.child \in DOMAIN c.rows}
ParentsOf(c, id) == {e.parent : e \in EdgesUp(c, id)}

CodesOf(c, id) == {k \in c.codes : k.id = id}
CodeOf(c, id, program) == {k.code : k \in {h \in CodesOf(c, id) : h.program = program}}

-----------------------------------------------------------------------------
(* Names, the nation, and the parts of a query.                            *)

LsadSuffix ==
  {"county", "parish", "borough", "census area", "city and borough", "municipality", "city",
   "town", "village", "township", "metropolitan statistical area",
   "micropolitan statistical area"}

Normal(name) ==
  IF Len(name) > 1 /\ name[Len(name)] \in LsadSuffix
  THEN SubSeq(name, 1, Len(name) - 1) ELSE name

NationMatches(c, norm, s, levels) ==
  IF s # NoState \/ Nation \notin levels THEN {}
  ELSE {id \in DOMAIN c.rows : id[1] = Nation /\ \E n \in NamesOf(c, id) : Normal(n) = norm}

\* A tail ", MO" or ", Missouri" is a state when the catalog or the codes know it.
SplitState(c, tail) ==
  IF tail = <<>> THEN NoState
  ELSE IF Len(tail) = 1 /\ tail[1] \in DOMAIN Usps THEN Usps[tail[1]]
  ELSE LET hits == {id \in SearchNames(c, tail, NoState, {State}, 5) :
                      Normal(c.rows[id].name) = Normal(tail)}
       IN IF hits = {} THEN NoState ELSE (CHOOSE id \in hits : \A o \in hits : ~Before(o, id))[2]

-----------------------------------------------------------------------------
(* resolvePlace.  A query is a record: text, county (", Butler County" of  *)
(* the query) and tail, each a name or <<>>; geoid, the id a   *)
(* bare GEOID of 7, 10 or 11 digits names, or <<>>; and the kind and state *)
(* options.                                                                *)

Short == {<<"us">>}   \* fewer than three characters
Pop(p) == IF p = NoPop THEN 0 ELSE p
MaxPop(c, S) == Max({0} \cup {Pop(c.rows[id].pop) : id \in S})

FoldTownTwins(c, S) ==
  S \ {t \in S : t[1] = Town /\ \E p \in S : p[1] = Place /\ t \in ParentsOf(c, p)}

MetrosAsFallback(S, exact, applies) ==
  IF applies /\ \E id \in exact : id[1] # Metro THEN {id \in S : id[1] # Metro} ELSE S

DominatedTowns(c, S, exact) ==
  LET lead == MaxPop(c, {id \in exact : id[1] # Town})
  IN {id \in S : id[1] = Town /\ lead > 0 /\ lead >= Ratio * Pop(c.rows[id].pop)}

DominatedByState(c, exact) ==
  LET state == MaxPop(c, {id \in exact : id[1] = State})
  IN {id \in exact : /\ id[1] # State
                     /\ c.rows[id].pop # NoPop
                     /\ state > 0 /\ state >= Ratio * c.rows[id].pop}

\* 10 ^ (score without the 1000 or 500 of an exact or a prefix match): land,
\* or a town's population, and a factor 10 ^ -5 for a CDP or a balance.
Weight(c, id) ==
  LET r == c.rows[id]
      size == IF id[1] = Town THEN Pop(r.pop) ELSE r.land
  IN (size + 10) * (IF r.form \in {"cdp", "balance"} THEN 1 ELSE 100000)

\* By tier, then by score; equal scores keep the search's order, towns last.
Ranks(c, tier, match, a, b) ==
  LET town(id) == IF id[1] = Town THEN 1 ELSE 0 IN
  \/ tier[a] < tier[b]
  \/ /\ tier[a] = tier[b]
     /\ \/ match[a] > match[b]
        \/ /\ match[a] = match[b]
           /\ \/ Weight(c, a) > Weight(c, b)
              \/ /\ Weight(c, a) = Weight(c, b)
                 /\ town(a) < town(b) \/ (town(a) = town(b) /\ Before(a, b))

SameStateTownRivals(c, ranked, exact) ==
  IF ranked = <<>> \/ ranked[1] \notin exact \/ ranked[1][1] # Town THEN {}
  ELSE LET rivals == {id \in exact : id[1] = Town /\ StateOf(id) = StateOf(ranked[1])}
           lead == MaxPop(c, rivals)
           ties == {id \in rivals : Pop(c.rows[id].pop) = lead}
           next == IF Cardinality(ties) > 1 THEN lead ELSE MaxPop(c, rivals \ ties)
       IN IF Cardinality(rivals) < 2 \/ lead >= Ratio * next THEN {} ELSE rivals

\* Mutant: leading is enough.
HasLeadingState(c, ranked, rivals) ==
  \E id \in rivals : \A b \in rivals : Pop(c.rows[b].pop) <= Pop(c.rows[id].pop)

\* The most populous rival, the first of the ranking at a tie, has Ratio times
\* the best rival of another state.
HasDominantState(c, ranked, rivals) ==
  LET best(S) == ranked[Min({i \in 1 .. Len(ranked) :
                               ranked[i] \in S /\ Pop(c.rows[ranked[i]].pop) = MaxPop(c, S)})]
      lead == best(rivals)
      next == best({b \in rivals : StateOf(b) # StateOf(lead)})
  IN /\ c.rows[lead].pop # NoPop /\ c.rows[next].pop # NoPop
     /\ c.rows[lead].pop >= Ratio * c.rows[next].pop

Reply(status, candidates, why, passed) ==
  [status |-> status, candidates |-> candidates, why |-> why, passed |-> passed]

\* The query, taken apart: the name, a county, the levels and the state asked for.
AskedOf(q, suffix) ==
  LET option == StateOption(q.state)
      whole == q.tail # <<>> /\ suffix = NoState
  IN [text |-> IF whole THEN q.text \o q.county \o q.tail ELSE q.text,
      county |-> IF whole THEN <<>> ELSE Normal(q.county),
      state |-> IF option # NoState THEN option ELSE suffix,
      levels |-> LevelsOf(q.kind)]

Search(c, a) ==
  NationMatches(c, Normal(a.text), a.state, a.levels)
  \cup SearchNames(c, a.text, a.state, a.levels \ {Town}, SearchPage)
  \cup SearchNames(c, a.text, a.state, a.levels \cap {Town}, SearchPage)

\* 2 for an exact name, 1 for one that starts with it, 0 for one that holds it.
Match(norm, names) ==
  IF norm \in names THEN 2
  ELSE IF \E n \in names : Len(norm) <= Len(n) /\ SubSeq(n, 1, Len(norm)) = norm THEN 1 ELSE 0
Matches(c, a, found) ==
  [id \in found |-> Match(Normal(a.text), {Normal(n) : n \in NamesOf(c, id)})]
Exact(match, S) == {id \in S : match[id] = 2}

\* Twins folded, metros kept as a fallback, and of towns those of the county.
InCounty(c, S, county) ==
  IF county = <<>> THEN S
  ELSE {id \in S : \E p \in ParentsOf(c, id) : p[1] = County /\ Normal(c.rows[p].name) = county}
Kept(c, q, a, match, twins) ==
  InCounty(c, MetrosAsFallback(twins, Exact(match, twins), a.state # NoState /\ ~Hinted(q.kind)),
           a.county)

Tier(exact, towns, byState, id) ==
  IF id \in towns THEN 3 ELSE IF id \notin exact THEN 2 ELSE IF id \in byState THEN 1 ELSE 0
RankedBy(c, match, tier) ==
  [i \in 1 .. Cardinality(DOMAIN tier) |->
     CHOOSE a \in DOMAIN tier :
       Cardinality({b \in DOMAIN tier : Ranks(c, tier, match, b, a)}) = i - 1]

\* The answer: ask for a kind, a county, or a state, or take the first.
Decide(c, q, a, exact, weak, byState, ranked) ==
  LET candidates == SubSeq(ranked, 1, IF Len(ranked) < ResultLimit THEN Len(ranked) ELSE ResultLimit)
      rivals == {id \in exact : id[1] = ranked[1][1] /\ StateOf(id) # NoState}
  IN IF q.kind = NoKind /\ Cardinality({id[1] : id \in exact \ weak}) > 1
     THEN Reply("ambiguous", candidates, "kind", {})
     ELSE IF SameStateTownRivals(c, ranked, exact) # {} THEN Reply("ambiguous", candidates, "town", {})
     ELSE IF /\ a.state = NoState /\ ranked # <<>>
             /\ Cardinality({StateOf(id) : id \in rivals}) > 1
             /\ ~HasDominantState(c, ranked, rivals)
     THEN Reply("ambiguous", candidates, "state", {})
     ELSE IF /\ q.kind = NoKind /\ ranked # <<>> /\ byState # {}
             /\ ranked[1] \in exact /\ ranked[1][1] = State
     THEN Reply("ok", candidates, "dominant_match", byState)
     ELSE Reply("ok", candidates, "none", {})

JudgeKept(c, q, a, match, scored, exact, towns, byState) ==
  Decide(c, q, a, exact, towns \cup byState, byState,
         RankedBy(c, match, [id \in scored |-> Tier(exact, towns, byState, id)]))
JudgeExact(c, q, a, match, scored, exact) ==
  JudgeKept(c, q, a, match, scored, exact, DominatedTowns(c, scored, exact), DominatedByState(c, exact))
JudgeScored(c, q, a, match, scored) == JudgeExact(c, q, a, match, scored, Exact(match, scored))
Judge(c, q, a, match) ==
  JudgeScored(c, q, a, match, Kept(c, q, a, match, FoldTownTwins(c, DOMAIN match)))
ResolveAsked(c, q, a) == Judge(c, q, a, Matches(c, a, Search(c, a)))
ResolveByName(c, q) == ResolveAsked(c, q, AskedOf(q, SplitState(c, q.tail)))

\* Mutant: a bare GEOID is a name like any other.
ResolveByNameOnly(c, q) == ResolveByName(c, q)

\* A short query reaches the nation only; a bare GEOID picks its entity.
ResolvePlace(c, q) ==
  IF q.text \in Short /\ q.county = <<>> /\ q.tail = <<>>
  THEN LET nation == NationMatches(c, Normal(q.text), StateOption(q.state), LevelsOf(q.kind))
       IN Reply("ok", IF nation = {} THEN <<>> ELSE << CHOOSE id \in nation : TRUE >>, "none", {})
  ELSE IF q.geoid \in DOMAIN c.rows /\ q.geoid[1] \in LevelsOf(q.kind)
  THEN Reply("ok", <<q.geoid>>, "none", {})
  ELSE ResolveByName(c, q)

-----------------------------------------------------------------------------
(* What a candidate carries, and the other tools.                          *)

Flags(c, id) ==
  LET r == c.rows[id] IN
  (IF id[1] \in {Metro, Zcta} THEN {"non_nesting"} ELSE {})
  \cup (IF r.form = "cdp" THEN {"cdp"} ELSE {})
  \cup (IF r.form = "balance" THEN {"consolidated_city"} ELSE {})
  \cup (IF id[1] \in {Place, Town} /\ CodeOf(c, id, "LAUS") = {} THEN {"below_threshold"} ELSE {})
  \cup (IF id \in c.changed THEN {"vintage_mismatch"} ELSE {})

\* Every flag but non_nesting has a caveat in words.
Caveated(c, id) == Flags(c, id) \ {"non_nesting"} # {}

\* hasCode: a level keyed by the Census code needs no code of its own.
Availability(c, id) ==
  {[program |-> p.program,
    hasCode |-> p.keyedBy = "census" \/ CodeOf(c, id, p.program) # {}] :
      p \in {q \in c.publishes : q.level = id[1]}}

GetAvailability(c, id) == IF id \in DOMAIN c.rows THEN Availability(c, id) ELSE {}
GetContainment(c, id) == {[id |-> e.parent, share |-> e.share] : e \in EdgesUp(c, id)}
GetOverlap(c, id) == {[id |-> e.child, share |-> e.share] : e \in EdgesDown(c, id)}
GetLineage(c, id) == {l \in c.lineage : l.from = id}
=============================================================================
