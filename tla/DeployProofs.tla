---------------------------- MODULE DeployProofs ----------------------------
(***************************************************************************)
(* Proof that a deploy which reports success serves a whole catalog, for   *)
(* any sources, in any order, any published files and any number of        *)
(* crashes.                                                                *)
(*                                                                         *)
(* The argument.  A crash cuts at most one cache file, so the cut files    *)
(* never outnumber the faults (CutsAreFaults).  Files are read in order,   *)
(* and a cut or empty zip or JSON file stops the build where it is read,   *)
(* or, for a cut BEA list, before the old artifact is removed              *)
(* (ReadIsReadable).  So a finished artifact is readable when it is        *)
(* written, but for a BEA list left empty (WholeIsGood), and it is copied  *)
(* into the bundle and to the servers as it is.                            *)
(*                                                                         *)
(* A server opens its catalog once the deploy is done and keeps it, so     *)
(* what it answers from is assembled of rows that were published (Opened,  *)
(* TextIsPublished): its entities are of the levels known, and a town it   *)
(* knows under two codes is a town the published lists recode (Recoded).   *)
(* A code it holds was written there by a builder, and is of the place it  *)
(* is filed under (CodeMade).                                              *)
(*                                                                         *)
(* What the resolver makes of such a catalog: it ranks its candidates by a *)
(* strict and total order (RanksTotal), which settles the reply (Judged);  *)
(* it answers with an entity of the catalog (ResolvedIsListed); naming its *)
(* kind and state picks a candidate of a question (Clarifies), and a name  *)
(* alone passes over nobody but the far smaller and the alike (NameTells). *)
(***************************************************************************)
EXTENDS Answers, WellOrder, FiniteSetTheorems, TLAPS

Cut(read) == {s \in Source : read[s] # Missing /\ read[s] # Whole(s)}

\* Some rows of every source read, its zips and JSON in full but for an empty
\* BEA list, the cut ones no more than the faults.
Good(read) ==
  /\ \A s \in Source : read[s] \in 0 .. Whole(s) \/ (s = "bea" /\ read[s] = Empty)
  /\ \A s \in Cut(read) \cap (Zipped \cup Json) : s = "bea" /\ read[s] = Empty
  /\ IsFiniteSet(Cut(read)) /\ Cardinality(Cut(read)) <= faults

CutsAreFaults == IsFiniteSet(Cut(cache)) /\ Cardinality(Cut(cache)) <= faults

Readable(s) == cache[s] # Missing /\ (s \in Cut(cache) => s \notin (Zipped \cup Json) \ {"bea"})

ReadIsReadable ==
  /\ builder = "read" => \A i \in 1 .. source - 1 : Readable(Order[i])
  /\ builder # "read" => source = 1
  /\ builder \in {"assemble", "schema", "rows"} => \A s \in Source : Readable(s)
  /\ builder \in {"schema", "rows"} => cache["bea"] # Garbled

WholeIsGood ==
  /\ file.kind = "whole" => Good(file.read)
  /\ bundle.kind = "whole" => Good(bundle.read)
  /\ live.kind = "whole" => Good(live.read)

\* From "verify" on, what is live stays: only Apply changes it.
DoneIsWhole == deploy = "done" => live.kind = "whole"

BuildTypes ==
  /\ world \in Worlds
  /\ faults \in Nat
  /\ source \in 1 .. Len(Order)
  /\ cache \in [Source -> Int]
  /\ \A s \in Source : cache[s] \in {Missing, Whole(s)} \cup Leaves(s)

BuildInv == BuildTypes /\ CutsAreFaults /\ ReadIsReadable /\ WholeIsGood /\ DoneIsWhole

-----------------------------------------------------------------------------
(* Facts the steps share.                                                  *)

\* The build reads one source after the other, and every one of them.
LEMMA Sources ==
  /\ Len(Order) \in Nat \ {0}
  /\ \A i \in 1 .. Len(Order) : Order[i] \in Source
  /\ \A s \in Source : \E i \in 1 .. Len(Order) : s = Order[i]
<1>1. Order \in Seq(Source) /\ Order # <<>>
  BY BuildAssumption
<1>2. DOMAIN Order = 1 .. Len(Order) /\ Len(Order) \in Nat
  BY <1>1
<1>3. Len(Order) # 0
  BY <1>1, <1>2
<1> QED
  BY <1>1, <1>2, <1>3 DEF Source, ToSet

\* A file has a number of rows.
LEMMA FileType ==
  ASSUME NEW w \in Worlds, NEW s \in Source
  PROVE  Len(w.files[s]) \in Nat /\ DOMAIN w.files[s] = 1 .. Len(w.files[s])
<1>1. w.files[s] \in Seq(ToSet(w.files[s]))
  BY BuildAssumption
<1> QED BY <1>1

LEMMA WholeType == BuildTypes => \A s \in Source : Whole(s) \in Nat
  BY FileType DEF BuildTypes, Whole

\* Files, once written, stay as good as they were: the agencies' files do not
\* change, and faults are only added.
LEMMA StaysGood ==
  ASSUME BuildTypes, WholeIsGood, world' = world, faults' \in Nat, faults' >= faults
  PROVE  /\ file' = file => (file.kind = "whole" => Good(file.read))'
         /\ bundle' = bundle => (bundle.kind = "whole" => Good(bundle.read))'
         /\ live' = live => (live.kind = "whole" => Good(live.read))'
         /\ bundle' = file => (bundle.kind = "whole" => Good(bundle.read))'
         /\ live' = bundle => (live.kind = "whole" => Good(live.read))'
<1>0. \A s \in Source : Whole(s)' = Whole(s)
  BY DEF Whole
<1>1. \A r : Cut(r) = {s \in Source : r[s] # Missing /\ r[s] # Len(world.files[s])}
  BY DEF Cut, Whole
<1>2. ASSUME NEW r, Good(r)
      PROVE  /\ \A s \in Source : r[s] \in 0 .. Whole(s) \/ (s = "bea" /\ r[s] = Empty)
             /\ \A s \in Cut(r) \cap (Zipped \cup Json) : s = "bea" /\ r[s] = Empty
             /\ IsFiniteSet(Cut(r)) /\ Cardinality(Cut(r)) <= faults'
  <2>1. IsFiniteSet(Cut(r)) /\ Cardinality(Cut(r)) <= faults
    BY <1>2 DEF Good
  <2>2. Cardinality(Cut(r)) \in Nat
    BY <2>1, FS_CardinalityType
  <2>3. Cardinality(Cut(r)) <= faults'
    BY <2>1, <2>2 DEF BuildTypes
  <2> QED
    BY <1>2, <2>1, <2>3 DEF Good
<1>3. ASSUME file' = file, file'.kind = "whole" PROVE Good(file.read)'
  <2>1. Good(file.read)
    BY <1>3 DEF WholeIsGood
  <2>2. Cut(file.read)' = Cut(file.read)
    BY <1>3 DEF Cut, Whole, Missing
  <2> QED
    BY <1>0, <1>2, <1>3, <2>1, <2>2 DEF Good, Missing
<1>4. ASSUME bundle' = bundle, bundle'.kind = "whole" PROVE Good(bundle.read)'
  <2>1. Good(bundle.read)
    BY <1>4 DEF WholeIsGood
  <2>2. Cut(bundle.read)' = Cut(bundle.read)
    BY <1>4 DEF Cut, Whole, Missing
  <2> QED
    BY <1>0, <1>2, <1>4, <2>1, <2>2 DEF Good, Missing
<1>5. ASSUME live' = live, live'.kind = "whole" PROVE Good(live.read)'
  <2>1. Good(live.read)
    BY <1>5 DEF WholeIsGood
  <2>2. Cut(live.read)' = Cut(live.read)
    BY <1>5 DEF Cut, Whole, Missing
  <2> QED
    BY <1>0, <1>2, <1>5, <2>1, <2>2 DEF Good, Missing
<1>6. ASSUME bundle' = file, bundle'.kind = "whole" PROVE Good(bundle.read)'
  <2>1. Good(file.read)
    BY <1>6 DEF WholeIsGood
  <2>2. Cut(bundle.read)' = Cut(file.read)
    BY <1>6 DEF Cut, Whole, Missing
  <2> QED
    BY <1>0, <1>2, <1>6, <2>1, <2>2 DEF Good, Missing
<1>7. ASSUME live' = bundle, live'.kind = "whole" PROVE Good(live.read)'
  <2>1. Good(bundle.read)
    BY <1>7 DEF WholeIsGood
  <2>2. Cut(live.read)' = Cut(bundle.read)
    BY <1>7 DEF Cut, Whole, Missing
  <2> QED
    BY <1>0, <1>2, <1>7, <2>1, <2>2 DEF Good, Missing
<1> QED
  BY <1>3, <1>4, <1>5, <1>6, <1>7

\* A cache no step writes is as cut as before.
LEMMA CacheKept ==
  ASSUME BuildInv, UNCHANGED <<world, cache>>, faults' \in Nat, faults' >= faults
  PROVE  /\ Cut(cache)' = Cut(cache)
         /\ CutsAreFaults'
         /\ \A s \in Source : cache'[s] \in {Missing, Whole(s)'} \cup Leaves(s)'
         /\ \A s \in Source : Readable(s) => Readable(s)'
<1>1. Cut(cache)' = Cut(cache)
  BY DEF Cut, Whole, Missing
<1>2. Cardinality(Cut(cache)) \in Nat
  BY FS_CardinalityType DEF BuildInv, CutsAreFaults
<1>3. CutsAreFaults'
  BY <1>1, <1>2 DEF BuildInv, CutsAreFaults, BuildTypes
<1>4. \A s \in Source : cache'[s] \in {Missing, Whole(s)'} \cup Leaves(s)'
  BY DEF BuildInv, BuildTypes, Whole, Leaves, Missing, Empty, Garbled
<1>5. \A s \in Source : Readable(s) => Readable(s)'
  BY <1>1 DEF Readable, Missing
<1> QED
  BY <1>1, <1>3, <1>4, <1>5

-----------------------------------------------------------------------------
(* The steps.                                                              *)

\* The invariant holds before anything is downloaded.
LEMMA DeployInit == BuildInit => BuildInv
<1> SUFFICES ASSUME BuildInit PROVE BuildInv
  OBVIOUS
<1>1. Cut(cache) = {} /\ \A s \in Source : cache[s] = Missing
  BY DEF BuildInit, Cut
<1>2. \A s \in Source : Whole(s) \in Nat
  BY FileType DEF BuildInit, Whole
<1>3. BuildTypes
  BY <1>1, <1>2, Sources DEF BuildInit, BuildTypes, Missing
<1>4. CutsAreFaults
  BY <1>1, FS_EmptySet DEF BuildInit, CutsAreFaults
<1>5. ReadIsReadable /\ WholeIsGood /\ DoneIsWhole
  BY DEF BuildInit, ReadIsReadable, WholeIsGood, DoneIsWhole, None
<1> QED
  BY <1>3, <1>4, <1>5 DEF BuildInv

\* A step that writes neither the cache nor the build's place in it.
LEMMA QuietStep ==
  ASSUME BuildInv, UNCHANGED <<world, cache, builder, source, faults>>,
         WholeIsGood', DoneIsWhole'
  PROVE  BuildInv'
<1>1. faults' \in Nat /\ faults' >= faults
  BY DEF BuildInv, BuildTypes
<1>2. BuildTypes' /\ CutsAreFaults'
  BY <1>1, CacheKept DEF BuildInv, BuildTypes
<1>3. ReadIsReadable'
  <2>1. \A i \in 1 .. source - 1 : Order[i] \in Source
    BY Sources DEF BuildInv, BuildTypes
  <2> QED
    BY <1>1, <2>1, CacheKept DEF BuildInv, ReadIsReadable
<1> QED
  BY <1>2, <1>3 DEF BuildInv

\* A build begins with the first source, whatever ended the one before.
LEMMA BeginStep ==
  ASSUME BuildInv, ~Building, builder' = "read",
         UNCHANGED <<world, source, cache, file, bundle, live, faults>>, DoneIsWhole'
  PROVE  BuildInv'
<1>1. faults' \in Nat /\ faults' >= faults
  BY DEF BuildInv, BuildTypes
<1>2. BuildTypes' /\ CutsAreFaults'
  BY <1>1, CacheKept DEF BuildInv, BuildTypes
<1>3. source = 1
  BY DEF BuildInv, ReadIsReadable, Building
<1>4. ReadIsReadable'
  BY <1>3 DEF ReadIsReadable
<1>5. WholeIsGood'
  BY <1>1, StaysGood DEF BuildInv, WholeIsGood
<1> QED
  BY <1>2, <1>4, <1>5 DEF BuildInv

\* A cached source is read if it can be, and an absent one is downloaded whole.
LEMMA ReadStep == ASSUME BuildInv, ReadSource PROVE BuildInv'
<1>0. PICK s \in Source : s = Order[source]
  BY Sources DEF BuildInv, BuildTypes
<1> DEFINE Advanced == IF source = Len(Order)
                       THEN builder' = "assemble" /\ source' = 1
                       ELSE source' = source + 1 /\ UNCHANGED builder
           Stopped == builder' = "failed" /\ source' = 1
<1>1. /\ source \in 1 .. Len(Order) /\ Len(Order) \in Nat \ {0}
      /\ builder = "read" /\ BuildTypes
      /\ UNCHANGED <<world, deploy, file, bundle, live>>
  BY Sources DEF BuildInv, BuildTypes, ReadSource
<1>2. faults' \in Nat /\ faults' >= faults
  BY <1>1 DEF ReadSource, BuildTypes
<1>3. WholeIsGood' /\ DoneIsWhole'
  BY <1>1, <1>2, StaysGood DEF BuildInv, WholeIsGood, DoneIsWhole
<1>4. ASSUME UNCHANGED cache, Stopped PROVE BuildInv'
  <2>1. BuildTypes' /\ CutsAreFaults'
    BY <1>1, <1>2, <1>4, CacheKept DEF BuildInv, BuildTypes
  <2>2. ReadIsReadable'
    BY <1>4 DEF ReadIsReadable
  <2> QED
    BY <1>3, <2>1, <2>2 DEF BuildInv
<1>5. ASSUME Advanced, Readable(s)', CutsAreFaults', cache' \in [Source -> Int],
             \A t \in Source : cache'[t] \in {Missing, Whole(t)'} \cup Leaves(t)',
             \A t \in Source : Readable(t) => Readable(t)'
      PROVE  BuildInv'
  <2>1. BuildTypes'
    BY <1>1, <1>2, <1>5 DEF BuildTypes
  <2>2. \A i \in 1 .. source : Readable(Order[i])'
    <3>1. ASSUME NEW i \in 1 .. source, i # source PROVE Readable(Order[i])'
      <4>1. i \in 1 .. source - 1 /\ Order[i] \in Source
        BY <1>1, <3>1, Sources
      <4>2. Readable(Order[i])
        BY <1>1, <4>1 DEF BuildInv, ReadIsReadable
      <4> QED
        BY <1>5, <4>1, <4>2
    <3> QED
      BY <1>0, <1>1, <1>5, <3>1
  <2>3. CASE source = Len(Order)
    <3>1. ASSUME NEW t \in Source PROVE Readable(t)'
      <4>1. PICK i \in 1 .. Len(Order) : t = Order[i]
        BY Sources
      <4> QED
        BY <2>2, <2>3, <4>1
    <3> QED
      BY <1>3, <1>5, <2>1, <2>3, <3>1 DEF BuildInv, ReadIsReadable
  <2>4. CASE source # Len(Order)
    <3>1. source' = source + 1 /\ builder' = "read" /\ source' - 1 = source
      BY <1>1, <1>5, <2>4
    <3>2. ReadIsReadable'
      BY <2>2, <3>1 DEF ReadIsReadable
    <3> QED
      BY <1>3, <1>5, <2>1, <3>2 DEF BuildInv
  <2> QED
    BY <2>3, <2>4
<1>6. CASE cache[s] # Missing /\ UNCHANGED cache /\ Advanced
           /\ ~(Torn(s) /\ s \in (Zipped \cup Json) \ {"bea"})
  <2>1. Readable(s)
    <3>1. s \in Cut(cache) => Torn(s)
      BY <1>1, WholeType DEF Cut, Torn, BuildTypes, Missing
    <3> QED
      BY <1>6, <3>1 DEF Readable
  <2>2. Readable(s)'
    BY <1>1, <1>2, <1>6, <2>1, CacheKept DEF BuildInv
  <2>3. cache' \in [Source -> Int]
    BY <1>1, <1>6 DEF BuildTypes
  <2> QED
    BY <1>1, <1>2, <1>5, <1>6, <2>2, <2>3, CacheKept
<1>7. CASE cache[s] = Missing /\ cache' = [cache EXCEPT ![s] = Whole(s)] /\ Advanced
  <2>1. Whole(s) \in Nat /\ \A t \in Source : Whole(t)' = Whole(t)
    BY <1>1, WholeType DEF Whole
  <2>2. Cut(cache)' = Cut(cache)
    BY <1>1, <1>7, <2>1 DEF Cut, BuildTypes, Missing
  <2>3. CutsAreFaults'
    <3>1. Cardinality(Cut(cache)) \in Nat
      BY FS_CardinalityType DEF BuildInv, CutsAreFaults
    <3> QED
      BY <1>1, <1>2, <2>2, <3>1 DEF BuildInv, CutsAreFaults, BuildTypes
  <2>4. Readable(s)'
    BY <1>1, <1>7, <2>1 DEF Readable, Cut, BuildTypes, Missing
  <2>5. \A t \in Source : Readable(t) => Readable(t)'
    BY <1>1, <1>7, <2>1, <2>2 DEF Readable, BuildTypes, Missing
  <2>6. /\ cache' \in [Source -> Int]
        /\ \A t \in Source : cache'[t] \in {Missing, Whole(t)'} \cup Leaves(t)'
    BY <1>1, <1>7, <2>1 DEF BuildTypes, Missing, Leaves, Empty, Garbled
  <2> QED
    BY <1>5, <1>7, <2>3, <2>4, <2>5, <2>6
<1>8. \/ UNCHANGED cache /\ Stopped
      \/ cache[s] # Missing /\ UNCHANGED cache /\ Advanced
           /\ ~(Torn(s) /\ s \in (Zipped \cup Json) \ {"bea"})
      \/ cache[s] = Missing /\ cache' = [cache EXCEPT ![s] = Whole(s)] /\ Advanced
  BY <1>0 DEF ReadSource
<1> QED
  BY <1>4, <1>6, <1>7, <1>8

\* Past the last source the build only writes its artifact, out of readable
\* rows.
LEMMA WriteStep ==
  ASSUME BuildInv, OpenCatalog \/ InsertRows \/ FinishCatalog
  PROVE  BuildInv'
<1>1. /\ builder \in {"assemble", "schema", "rows"} /\ faults \in Nat /\ BuildTypes
      /\ UNCHANGED <<world, source, cache, deploy, bundle, live, faults>>
  BY DEF OpenCatalog, InsertRows, FinishCatalog, BuildInv, BuildTypes
<1>2. BuildTypes' /\ CutsAreFaults' /\ Cut(cache)' = Cut(cache)
  BY <1>1, CacheKept DEF BuildInv, BuildTypes
<1>3. source = 1 /\ \A s \in Source : Readable(s) /\ Readable(s)'
  BY <1>1, CacheKept DEF BuildInv, ReadIsReadable
<1>4. DoneIsWhole'
  BY <1>1 DEF BuildInv, DoneIsWhole
<1>5. /\ (bundle.kind = "whole" => Good(bundle.read))'
      /\ (live.kind = "whole" => Good(live.read))'
  BY <1>1, StaysGood DEF BuildInv
<1>6. CASE OpenCatalog
  <2>1. \/ builder' = "failed" /\ file' = file
        \/ builder' = "schema" /\ file' = [kind |-> "schema"] /\ cache["bea"] # Garbled
    BY <1>6 DEF OpenCatalog
  <2>2. (file.kind = "whole" => Good(file.read))'
    BY <1>1, <2>1, StaysGood DEF BuildInv
  <2>4. ReadIsReadable'
    BY <1>1, <1>2, <1>3, <2>1 DEF ReadIsReadable, Garbled
  <2> QED
    BY <1>2, <1>4, <1>5, <2>2, <2>4 DEF BuildInv, WholeIsGood
<1>7. CASE InsertRows
  <2>1. builder = "schema" /\ builder' = "rows" /\ file' = [kind |-> "wal"]
    BY <1>7 DEF InsertRows
  <2>2. ReadIsReadable'
    BY <1>1, <1>2, <1>3, <2>1 DEF BuildInv, ReadIsReadable, Garbled
  <2> QED
    BY <1>2, <1>4, <1>5, <2>1, <2>2 DEF BuildInv, WholeIsGood
<1>8. CASE FinishCatalog
  <2>1. builder = "rows" /\ builder' = "idle" /\ file' = [kind |-> "whole", read |-> cache]
    BY <1>8 DEF FinishCatalog
  <2>2. ASSUME NEW s \in Cut(cache) \cap (Zipped \cup Json)
        PROVE  s = "bea" /\ cache[s] = Empty
    <3>1. s \in Source /\ cache[s] # Missing /\ cache[s] # Whole(s)
      BY DEF Cut
    <3>2. s = "bea"
      BY <1>3, <3>1 DEF Readable
    <3>3. cache[s] \in {Empty, Garbled}
      BY <1>1, <3>1 DEF BuildTypes, Leaves
    <3>4. cache["bea"] # Garbled
      BY <2>1 DEF BuildInv, ReadIsReadable
    <3> QED
      BY <3>2, <3>3, <3>4
  <2>3. Cut(file.read)' = Cut(cache)
    BY <1>1, <2>1 DEF Cut, Whole, Missing
  <2>4. Good(file.read)'
    <3>1. ASSUME NEW s \in Source
          PROVE  cache[s] \in 0 .. Whole(s)' \/ (s = "bea" /\ cache[s] = Empty)
      <4>1. Whole(s)' = Whole(s) /\ Whole(s) \in Nat
        BY <1>1, WholeType DEF Whole
      <4>2. cache[s] # Missing /\ cache[s] \in {Missing, Whole(s)} \cup Leaves(s)
        BY <1>1, <1>3 DEF Readable, BuildTypes
      <4>3. CASE s \in Cut(cache) \cap (Zipped \cup Json)
        BY <2>2, <4>3
      <4>4. CASE s \in Cut(cache) /\ s \notin Zipped \cup Json
        BY <4>1, <4>2, <4>4 DEF Leaves
      <4>5. CASE s \notin Cut(cache)
        BY <4>1, <4>2, <4>5 DEF Cut
      <4> QED
        BY <4>3, <4>4, <4>5
    <3>2. file'.read = cache
      BY <2>1
    <3> QED
      BY <1>1, <2>2, <2>3, <3>1, <3>2 DEF Good, BuildInv, CutsAreFaults, Missing
  <2>5. ReadIsReadable'
    BY <1>1, <1>3, <2>1 DEF ReadIsReadable
  <2> QED
    BY <1>2, <1>4, <1>5, <2>4, <2>5 DEF BuildInv, WholeIsGood
<1> QED
  BY <1>6, <1>7, <1>8

\* A crash is a fault, and cuts at most the file that was being written.
LEMMA CrashStep == ASSUME BuildInv, CrashBuild PROVE BuildInv'
<1>1. /\ faults \in Nat /\ faults' = faults + 1 /\ BuildTypes
      /\ builder' = "failed" /\ source' = 1
      /\ UNCHANGED <<world, deploy, file, bundle, live>>
  BY DEF CrashBuild, BuildInv, BuildTypes
<1>2. WholeIsGood' /\ DoneIsWhole' /\ ReadIsReadable'
  BY <1>1, StaysGood DEF BuildInv, WholeIsGood, DoneIsWhole, ReadIsReadable
<1>3. CASE UNCHANGED cache
  <2>1. BuildTypes' /\ CutsAreFaults'
    BY <1>1, <1>3, CacheKept, Sources DEF BuildTypes
  <2> QED
    BY <1>2, <2>1 DEF BuildInv
<1>4. CASE builder = "read" /\ \E n \in Leaves(Order[source]) :
             cache' = [cache EXCEPT ![Order[source]] = n]
  <2>1. PICK s \in Source : s = Order[source]
    BY <1>1, Sources DEF BuildTypes
  <2>2. Whole(s) \in Nat /\ \A t \in Source : Whole(t)' = Whole(t)
    BY <1>1, WholeType DEF Whole
  <2>3. PICK n \in Leaves(s) : cache' = [cache EXCEPT ![s] = n]
    BY <1>4, <2>1
  <2>4. n \in Int
    BY <2>2, <2>3 DEF Leaves, Empty, Garbled
  <2>5. BuildTypes'
    <3>1. \A t \in Source : Leaves(t)' = Leaves(t)
      BY <2>2 DEF Leaves, Empty, Garbled
    <3> QED
      BY <1>1, <2>2, <2>3, <2>4, <3>1, Sources DEF BuildTypes, Missing
  <2>6. Cut(cache)' \subseteq Cut(cache) \cup {s}
    BY <1>1, <2>2, <2>3 DEF Cut, BuildTypes, Missing
  <2>7. CutsAreFaults'
    <3>1. /\ IsFiniteSet(Cut(cache)) /\ Cardinality(Cut(cache)) \in Nat
          /\ Cardinality(Cut(cache)) <= faults
      BY FS_CardinalityType DEF BuildInv, CutsAreFaults
    <3>2. /\ IsFiniteSet(Cut(cache) \cup {s})
          /\ Cardinality(Cut(cache) \cup {s}) <= Cardinality(Cut(cache)) + 1
      <4>1. PICK cut : cut = Cut(cache)
        OBVIOUS
      <4>2. IsFiniteSet(cut) /\ Cardinality(cut) \in Nat
        BY <3>1, <4>1
      <4>3. PICK wide : wide = cut \cup {s}
        OBVIOUS
      <4>4. IsFiniteSet(cut \cup {s}) /\ Cardinality(cut \cup {s}) \in {Cardinality(cut), Cardinality(cut) + 1}
        BY ONLY <4>2, FS_AddElement, Zenon
      <4>5. IsFiniteSet(wide) /\ Cardinality(wide) \in {Cardinality(cut), Cardinality(cut) + 1}
        BY ONLY <4>3, <4>4
      <4>6. Cardinality(wide) <= Cardinality(cut) + 1
        BY ONLY <4>2, <4>5
      <4>7. Cut(cache) \cup {s} = wide
        BY ONLY <4>1, <4>3
      <4> QED
        BY ONLY <4>1, <4>5, <4>6, <4>7
    <3>3. /\ IsFiniteSet(Cut(cache)')
          /\ Cardinality(Cut(cache)') <= Cardinality(Cut(cache) \cup {s})
      BY <2>6, <3>2, FS_Subset
    <3>4. Cardinality(Cut(cache)') \in Nat /\ Cardinality(Cut(cache) \cup {s}) \in Nat
      BY <3>2, <3>3, FS_CardinalityType
    <3>5. Cardinality(Cut(cache)') <= faults'
      BY <1>1, <3>1, <3>2, <3>3, <3>4
    <3> QED
      BY <3>3, <3>5 DEF CutsAreFaults
  <2> QED
    BY <1>2, <2>5, <2>7 DEF BuildInv
<1> QED
  BY <1>3, <1>4 DEF CrashBuild

\* The deploy copies the artifact, and looks at it last.
LEMMA DeployStep ==
  ASSUME BuildInv, StartDeploy \/ AfterBuild \/ Bundle \/ Apply \/ Verify
  PROVE  BuildInv'
<1>1. /\ faults \in Nat /\ faults' = faults /\ BuildTypes
      /\ UNCHANGED <<world, source, cache, file>>
  BY DEF BuildInv, BuildTypes, StartDeploy, AfterBuild, Bundle, Apply, Verify
<1>2. CASE StartDeploy
  <2>1. /\ UNCHANGED <<bundle, live>> /\ ~Building /\ deploy' # "done"
        /\ builder' = "read" \/ builder' = builder
    BY <1>2 DEF StartDeploy
  <2>2. WholeIsGood' /\ DoneIsWhole'
    BY <1>1, <2>1, StaysGood DEF BuildInv, WholeIsGood, DoneIsWhole
  <2> QED
    BY <1>1, <2>1, <2>2, BeginStep, QuietStep
<1>3. CASE AfterBuild
  <2>1. WholeIsGood' /\ DoneIsWhole'
    BY <1>1, <1>3, StaysGood DEF AfterBuild, BuildInv, WholeIsGood, DoneIsWhole
  <2> QED
    BY <1>1, <1>3, <2>1, QuietStep DEF AfterBuild
<1>4. CASE Bundle
  <2>1. WholeIsGood' /\ DoneIsWhole'
    BY <1>1, <1>4, StaysGood DEF Bundle, BuildInv, WholeIsGood, DoneIsWhole
  <2> QED
    BY <1>1, <1>4, <2>1, QuietStep DEF Bundle
<1>5. CASE Apply
  <2>1. WholeIsGood' /\ DoneIsWhole'
    BY <1>1, <1>5, StaysGood DEF Apply, BuildInv, WholeIsGood, DoneIsWhole
  <2> QED
    BY <1>1, <1>5, <2>1, QuietStep DEF Apply
<1>6. CASE Verify
  <2>1. WholeIsGood' /\ DoneIsWhole'
    BY <1>1, <1>6, StaysGood DEF Verify, BuildInv, WholeIsGood, DoneIsWhole
  <2> QED
    BY <1>1, <1>6, <2>1, QuietStep DEF Verify
<1> QED
  BY <1>2, <1>3, <1>4, <1>5, <1>6

\* Removing the cache, or the artifact, cuts nothing.
LEMMA CleanStep == ASSUME BuildInv, CleanUp PROVE BuildInv'
<1>1. /\ faults \in Nat /\ faults' = faults /\ BuildTypes /\ ~Building
      /\ UNCHANGED <<world, source, builder, deploy, bundle, live>>
  BY DEF BuildInv, BuildTypes, CleanUp
<1>2. CASE file' = None /\ UNCHANGED cache
  <2>1. WholeIsGood' /\ DoneIsWhole'
    BY <1>1, <1>2, StaysGood DEF BuildInv, WholeIsGood, DoneIsWhole, None
  <2> QED
    BY <1>1, <1>2, <2>1, QuietStep
<1>3. CASE cache' = [s \in Source |-> Missing] /\ UNCHANGED file
  <2>1. WholeIsGood' /\ DoneIsWhole'
    BY <1>1, <1>3, StaysGood DEF BuildInv, WholeIsGood, DoneIsWhole
  <2>2. Cut(cache)' = {} /\ CutsAreFaults'
    BY <1>1, <1>3, FS_EmptySet DEF Cut, CutsAreFaults
  <2>3. \A s \in Source : Whole(s)' \in Nat
    BY <1>1, WholeType DEF Whole
  <2>4. BuildTypes'
    BY <1>1, <1>3, <2>3 DEF BuildTypes, Missing
  <2>5. ReadIsReadable'
    BY <1>1 DEF BuildInv, ReadIsReadable, Building
  <2> QED
    BY <2>1, <2>2, <2>4, <2>5 DEF BuildInv
<1> QED
  BY <1>2, <1>3 DEF CleanUp

-----------------------------------------------------------------------------
(* The theorem.                                                            *)

\* Every step keeps the invariant: calls write nothing the deploy reads.
LEMMA DeployKeeps == BuildInv /\ [Next]_vars => BuildInv'
<1> SUFFICES ASSUME BuildInv, [Next]_vars PROVE BuildInv'
  OBVIOUS
<1>1. ASSUME UNCHANGED buildVars PROVE BuildInv'
  <2>1. WholeIsGood' /\ DoneIsWhole'
    BY <1>1, StaysGood DEF buildVars, BuildInv, WholeIsGood, DoneIsWhole, BuildTypes
  <2> QED
    BY <1>1, <2>1, QuietStep DEF buildVars
<1>2. ASSUME BuildNext PROVE BuildInv'
  <2>1. CASE StartBuild
    <3>1. DoneIsWhole'
      BY <2>1 DEF StartBuild, BuildInv, DoneIsWhole
    <3> QED
      BY <2>1, <3>1, BeginStep DEF StartBuild
  <2> QED
    BY <1>2, <2>1, ReadStep, WriteStep, CrashStep, DeployStep, CleanStep DEF BuildNext
<1>3. BuildNext \/ UNCHANGED buildVars
  BY DEF Next, BuildStep, OpenServer, StartCall, Fetch, FetchFails, DeadlineStops, Finish, Return,
         Publish, vars
<1> QED
  BY <1>1, <1>2, <1>3

\* Whatever crashes, fails, is cleaned up or is deployed again, a deploy that
\* reports success serves a finished catalog with every zip and JSON file in
\* full, but for a BEA list left empty, and no more files cut than there were
\* faults (download.ts, build.ts, assemble.ts, deploy.sh).
THEOREM DeployedIsWhole == Spec => []VerifiedIsWhole
<1>1. Init => BuildInv
  BY DeployInit DEF Init
<1>2. BuildInv => VerifiedIsWhole
  <2> SUFFICES ASSUME BuildInv, deploy = "done"
               PROVE  /\ live.kind = "whole"
                      /\ \A s \in {t \in Source : live.read[t] # Whole(t)} \cap (Zipped \cup Json) :
                           s = "bea" /\ live.read[s] = Empty
                      /\ Cardinality({s \in Source : live.read[s] # Whole(s)}) <= faults
    BY DEF VerifiedIsWhole
  <2>1. live.kind = "whole" /\ Good(live.read)
    BY DEF BuildInv, DoneIsWhole, WholeIsGood
  <2>2. {s \in Source : live.read[s] # Whole(s)} = Cut(live.read)
    <3>1. \A s \in Source : Whole(s) \in Nat
      BY WholeType DEF BuildInv
    <3> QED
      BY <2>1, <3>1 DEF Good, Cut, Missing, Empty
  <2> QED
    BY <2>1, <2>2 DEF Good
<1> QED
  BY <1>1, <1>2, DeployKeeps, PTL DEF Spec

-----------------------------------------------------------------------------
(* The catalog a server opens.                                             *)

Kinds == {"none", "schema", "wal", "whole"}

Phases ==
  /\ faults <= MaxFaults
  /\ builder \in {"read", "assemble", "schema", "rows", "idle", "failed"}
  /\ deploy \in {"idle", "build", "bundle", "apply", "verify", "done", "failed"}
  /\ file.kind \in Kinds /\ bundle.kind \in Kinds /\ live.kind \in Kinds

\* A deploy that is done stays done, and what it serves is assembled from.
OpenIsLive == open = None \/ (deploy = "done" /\ open = Assemble(TextOf(live.read)))

LEMMA PhasesInit == BuildInit => Phases
BY BuildAssumption DEF BuildInit, Phases, Kinds, None

LEMMA PhasesStep == BuildInv /\ Phases /\ [Next]_vars => Phases'
<1> SUFFICES ASSUME BuildInv, Phases, [Next]_vars PROVE Phases'
  OBVIOUS
<1>1. faults \in Nat /\ MaxFaults \in Nat /\ faults <= MaxFaults
  BY BuildAssumption DEF BuildInv, BuildTypes, Phases
<1>2. CASE UNCHANGED buildVars
  BY <1>2 DEF Phases, buildVars
<1>3. CASE StartBuild \/ AfterBuild \/ StartDeploy \/ Bundle \/ Apply \/ Verify \/ CleanUp
  BY <1>1, <1>3 DEF StartBuild, AfterBuild, StartDeploy, Bundle, Apply, Verify, CleanUp, Phases, Kinds, None
<1>4. CASE ReadSource
  <2>1. faults' = faults \/ (faults < MaxFaults /\ faults' = faults + 1)
    BY <1>4 DEF ReadSource
  <2>2. builder' \in {builder, "assemble", "failed"} /\ UNCHANGED <<deploy, file, bundle, live>>
    BY <1>4 DEF ReadSource
  <2> QED BY <1>1, <2>1, <2>2 DEF Phases
<1>5. CASE OpenCatalog \/ InsertRows \/ FinishCatalog
  BY <1>1, <1>5 DEF OpenCatalog, InsertRows, FinishCatalog, Phases, Kinds
<1>6. CASE CrashBuild
  BY <1>1, <1>6 DEF CrashBuild, Phases
<1>7. BuildNext \/ UNCHANGED buildVars
  BY DEF Next, BuildStep, OpenServer, StartCall, Fetch, FetchFails, DeadlineStops, Finish, Return,
         Publish, vars
<1> QED BY <1>2, <1>3, <1>4, <1>5, <1>6, <1>7 DEF BuildNext

LEMMA OpenStep == BuildInv /\ OpenIsLive /\ [Next]_vars => OpenIsLive'
<1> SUFFICES ASSUME BuildInv, OpenIsLive, [Next]_vars PROVE OpenIsLive'
  OBVIOUS
<1> DEFINE text == TextOf(live.read)
<1>1. ASSUME UNCHANGED <<world, live>> PROVE text' = text
  BY <1>1 DEF TextOf
<1>2. CASE OpenServer
  <2>1. deploy' = "done" /\ open' = Assemble(text) /\ text' = text
    BY <1>1, <1>2 DEF OpenServer, buildVars
  <2> HIDE DEF text
  <2>2. (open = Assemble(TextOf(live.read)))'
    <3>1. Assemble(text)' = Assemble(text)
      BY <2>1 DEF Assemble
    <3> QED BY <2>1, <3>1 DEF text
  <2> QED BY <2>1, <2>2 DEF OpenIsLive
<1>3. CASE open' = open /\ UNCHANGED <<world, live, deploy>>
  <2>1. text' = text
    BY <1>1, <1>3
  <2>2. Assemble(text)' = Assemble(text)
    <3> HIDE DEF text
    <3> QED BY <2>1 DEF Assemble
  <2> QED BY <1>3, <2>2 DEF OpenIsLive
<1>4. CASE BuildStep /\ open = None
  BY <1>4 DEF BuildStep, OpenIsLive
<1>5. CASE BuildStep /\ deploy = "done"
  <2>1. open' = open /\ UNCHANGED <<world, live, deploy>>
    BY <1>5 DEF BuildStep, BuildNext, StartBuild, AfterBuild, StartDeploy, Bundle, Apply, Verify, CleanUp,
                ReadSource, OpenCatalog, InsertRows, FinishCatalog, CrashBuild
  <2> QED BY <1>3, <2>1
<1>6. BuildStep \/ OpenServer \/ (open' = open /\ UNCHANGED <<world, live, deploy>>)
  BY DEF Next, StartCall, Fetch, FetchFails, DeadlineStops, Finish, Return, Publish, vars, buildVars
<1> QED BY <1>2, <1>3, <1>4, <1>5, <1>6 DEF OpenIsLive

\* What a server opens is assembled from some rows of every file published.
LEMMA Opened == Spec => [](BuildInv /\ Phases /\ OpenIsLive)
<1>1. Init => BuildInv /\ Phases /\ OpenIsLive
  BY DeployInit, PhasesInit DEF Init, OpenIsLive
<1> QED BY <1>1, DeployKeeps, PhasesStep, OpenStep, PTL DEF Spec

-----------------------------------------------------------------------------
(* What a catalog holds.                                                   *)

\* The rows read are rows of the files published.
IsPublished(text) ==
  /\ world \in Worlds
  /\ \A s \in Source : ToSet(text[s]) \subseteq ToSet(world.files[s]) /\ IsFiniteSet(DOMAIN text[s])

\* Every row read is the agency's.
LEMMA TextIsPublished ==
  ASSUME BuildInv, Phases, OpenIsLive, open # None
  PROVE  LET text == TextOf(live.read)
         IN /\ open = Assemble(text)
            /\ IsPublished(text)
<1>1. /\ world \in Worlds /\ open = Assemble(TextOf(live.read)) /\ live.kind = "whole" /\ Good(live.read)
  BY DEF BuildInv, BuildTypes, OpenIsLive, DoneIsWhole, WholeIsGood
<1>2. ASSUME NEW s \in Source
      PROVE  /\ ToSet(TextOf(live.read)[s]) \subseteq ToSet(world.files[s])
             /\ IsFiniteSet(DOMAIN TextOf(live.read)[s])
  <2> DEFINE f == world.files[s]
             n == live.read[s]
  <2>1. Len(f) \in Nat /\ DOMAIN f = 1 .. Len(f)
    BY <1>1, FileType
  <2>2. n \in 0 .. Len(f) \/ n = -2
    BY <1>1 DEF Good, Whole, Empty
  <2>3. TextOf(live.read)[s] = SubSeq(f, 1, n)
    BY DEF TextOf
  <2> HIDE DEF f, n
  <2>4. SubSeq(f, 1, n) = [i \in 1 .. n |-> f[i]]
    BY <2>1, <2>2
  <2>5. \A i \in 1 .. n : i \in DOMAIN f
    BY <2>1, <2>2
  <2>6. n \in Int /\ IsFiniteSet(1 .. n)
    BY <2>1, <2>2, FS_Interval
  <2> QED BY <2>3, <2>4, <2>5, <2>6 DEF ToSet, f
<1> QED BY <1>1, <1>2 DEF IsPublished

\* A GEOID has the parts of its level.
LEMMA GeoidParts ==
  ASSUME NEW text, IsPublished(text), NEW level \in GazLevels, NEW r \in ToSet(text[GazFile(level)])
  PROVE  /\ r \in Rows(GazFile(level)) /\ r.geoid \in Seq(Nat) /\ r.land \in Nat
         /\ Parts(level) \in Nat /\ Len(r.geoid) = Parts(level)
         /\ level \in {State, County, Metro} => \A n \in 1 .. Parts(level) : r.geoid[n] # 0
<1>1. r \in ToSet(world.files[GazFile(level)]) /\ world \in Worlds
  BY BuildAssumption DEF IsPublished
<1>2. /\ r.geoid \in [1 .. Parts(level) -> IF level \in {State, County, Metro} THEN Nat \ {0} ELSE Nat]
      /\ r.land \in Nat
  BY <1>1, FilesAssumption
<1>3. Parts(level) \in Nat
  BY DEF Parts, GazLevels, State, County, Town, Place, Metro, Zcta
<1> DEFINE g == r.geoid
           m == Parts(level)
<1>4. g \in [1 .. m -> Nat] /\ (level \in {State, County, Metro} => \A n \in 1 .. m : g[n] # 0)
  BY <1>2
<1>5. m \in Nat
  BY <1>3
<1>6. r \in Rows(GazFile(level))
  BY <1>1 DEF Rows
<1> HIDE DEF g, m
<1>7. g \in Seq(Nat) /\ Len(g) = m
  BY <1>4, <1>5
<1> QED BY <1>2, <1>4, <1>5, <1>6, <1>7 DEF g, m

GeoidsAreSequences(text) ==
  \A level \in GazLevels : \A r \in ToSet(text[GazFile(level)]) : r.geoid \in Seq(Nat)

LEMMA GeoidsPublished == ASSUME NEW text, IsPublished(text) PROVE GeoidsAreSequences(text)
BY GeoidParts DEF GeoidsAreSequences

\* An entity of one gazetteer: its level, and the row it was made of.
LEMMA GazetteerRow ==
  ASSUME NEW level \in Levels, NEW rows, \A r \in ToSet(rows) : r.geoid \in Seq(Nat),
         NEW id \in DOMAIN Gazetteer(level, rows)
  PROVE  /\ id[1] = level
         /\ \E r \in ToSet(rows) : /\ id = <<level>> \o r.geoid /\ Tail(id) = r.geoid
                                   /\ Gazetteer(level, rows)[id].gnis = r.gnis
<1>1. id \in {<<level>> \o rows[i].geoid : i \in DOMAIN rows}
  BY DEF Gazetteer
<1> DEFINE Is(i) == <<level>> \o rows[i].geoid = id
           k == CHOOSE i \in DOMAIN rows : Is(i)
<1>2. k \in DOMAIN rows /\ Is(k)
  BY <1>1
<1>3. Gazetteer(level, rows)[id].gnis = rows[k].gnis
  BY <1>1 DEF Gazetteer
<1> HIDE DEF k
<1>4. rows[k] \in ToSet(rows) /\ rows[k].geoid \in Seq(Nat)
  BY <1>2 DEF ToSet
<1> DEFINE g == rows[k].geoid
<1>5. (<<level>> \o g)[1] = level /\ Tail(<<level>> \o g) = g
  BY <1>4
<1> QED BY <1>2, <1>3, <1>4, <1>5

LEMMA RegionalLevels == \A id \in DOMAIN Regional : id[1] \in {Nation, Region, Division}
BY DEF Regional

\* An entity is of the gazetteer of its level, or of the static tables.
LEMMA ListedLevels ==
  ASSUME NEW text, GeoidsAreSequences(text), NEW id \in DOMAIN ListedRows(text)
  PROVE  /\ id[1] \in Levels
         /\ id[1] \in GazLevels =>
              /\ id \in DOMAIN Gazetteer(id[1], text[GazFile(id[1])])
              /\ ListedRows(text)[id] = Gazetteer(id[1], text[GazFile(id[1])])[id]
<1> DEFINE of(level) == Gazetteer(level, text[GazFile(level)])
<1>1. \A level \in GazLevels : \A j \in DOMAIN of(level) : j[1] = level
  <2>1. GazLevels \subseteq Levels
    BY DEF GazLevels, Levels
  <2> QED BY <2>1, GazetteerRow DEF GeoidsAreSequences
<1> DEFINE ids == DOMAIN Regional \cup UNION {DOMAIN of(level) : level \in GazLevels}
           read == [level \in GazLevels |-> of(level)]
<1>2. ListedRows(text) = [j \in ids |-> IF j[1] \in GazLevels THEN read[j[1]][j] ELSE Regional[j]]
  <2>1. UNION {DOMAIN read[level] : level \in GazLevels} = UNION {DOMAIN of(level) : level \in GazLevels}
    OBVIOUS
  <2> QED BY <2>1 DEF ListedRows
<1> HIDE DEF of
<1>3. id \in ids
  BY <1>2
<1>4. CASE id \in DOMAIN Regional
  <2>1. id[1] \in {Nation, Region, Division}
    BY <1>4, RegionalLevels
  <2> QED BY <2>1 DEF Levels, GazLevels, Nation, Region, Division, State, County, Town, Place, Metro, Zcta
<1>5. CASE id \notin DOMAIN Regional
  <2>1. PICK level \in GazLevels : id \in DOMAIN of(level)
    BY <1>3, <1>5
  <2>2. id[1] = level
    BY <1>1, <2>1
  <2>3. ListedRows(text)[id] = of(level)[id]
    BY <1>2, <1>3, <2>1, <2>2
  <2> QED BY <2>1, <2>2, <2>3 DEF Levels, GazLevels, of
<1> QED BY <1>4, <1>5

\* Population is all that is added to an entity.
LEMMA EntityListed ==
  ASSUME NEW text
  PROVE  /\ DOMAIN Entities(text) = DOMAIN ListedRows(text)
         /\ \A id \in DOMAIN ListedRows(text) : \A level \in Levels : \A rows :
              ListedRows(text)[id] = Gazetteer(level, rows)[id] /\ id \in DOMAIN Gazetteer(level, rows)
              => Entities(text)[id].gnis = Gazetteer(level, rows)[id].gnis
<1> DEFINE plain == ListedRows(text)
           acs == ToSet(text["acs"]) \cup ToSet(text["acs060"])
<1>1. Entities(text) = [id \in DOMAIN plain |->
                          IF \E a \in acs : a.id = id
                          THEN [plain[id] EXCEPT !.pop = (CHOOSE a \in acs : a.id = id).pop] ELSE plain[id]]
  BY DEF Entities
<1> HIDE DEF plain, acs
<1>2. ASSUME NEW id \in DOMAIN plain, NEW level \in Levels, NEW rows, id \in DOMAIN Gazetteer(level, rows),
             plain[id] = Gazetteer(level, rows)[id]
      PROVE  Entities(text)[id].gnis = Gazetteer(level, rows)[id].gnis
  <2> DEFINE rec == plain[id]
             pop == (CHOOSE a \in acs : a.id = id).pop
  <2>1. id \in {<<level>> \o rows[i].geoid : i \in DOMAIN rows}
    BY <1>2 DEF Gazetteer
  <2>2. "gnis" \in DOMAIN rec
    <3> DEFINE row == rows[CHOOSE i \in DOMAIN rows : <<level>> \o rows[i].geoid = id]
    <3>1. rec = [name |-> row.name, form |-> row.form, funcstat |-> row.funcstat, gnis |-> row.gnis,
                 land |-> row.land, title |-> row.title, pop |-> NoPop]
      BY <1>2, <2>1 DEF Gazetteer
    <3> HIDE DEF rec, row
    <3> QED BY <3>1
  <2>3. Entities(text)[id] = rec \/ Entities(text)[id] = [rec EXCEPT !.pop = pop]
    BY <1>1
  <2> HIDE DEF rec, pop
  <2>4. [rec EXCEPT !.pop = pop].gnis = rec.gnis
    BY <2>2
  <2> QED BY <1>2, <2>3, <2>4 DEF rec
<1> QED BY <1>1, <1>2 DEF plain

\* The entities of a catalog are of the levels known.
LEMMA EntityLevels ==
  ASSUME NEW text, GeoidsAreSequences(text), NEW id \in DOMAIN Assemble(text).rows
  PROVE  id[1] \in Levels
BY EntityListed, ListedLevels DEF Assemble

\* A town is a row of its gazetteer.
LEMMA TownRow ==
  ASSUME NEW text, GeoidsAreSequences(text), NEW id \in DOMAIN Entities(text), id[1] = Town
  PROVE  \E r \in ToSet(text["gaz060"]) :
           id = <<Town>> \o r.geoid /\ Tail(id) = r.geoid /\ Entities(text)[id].gnis = r.gnis
<1>1. Town \in GazLevels /\ Town \in Levels /\ GazFile(Town) = "gaz060"
  BY DEF GazLevels, Levels, GazFile, State, County, Town, Place, Metro, Zcta
<1>2. id \in DOMAIN ListedRows(text)
  BY EntityListed
<1>3. /\ id \in DOMAIN Gazetteer(Town, text["gaz060"])
      /\ ListedRows(text)[id] = Gazetteer(Town, text["gaz060"])[id]
  BY <1>1, <1>2, ListedLevels
<1>4. Entities(text)[id].gnis = Gazetteer(Town, text["gaz060"])[id].gnis
  BY <1>1, <1>2, <1>3, EntityListed
<1>5. \A r \in ToSet(text["gaz060"]) : r.geoid \in Seq(Nat)
  BY <1>1 DEF GeoidsAreSequences
<1> QED BY <1>1, <1>3, <1>4, <1>5, GazetteerRow

\* HUD knows a town of the catalog whose GEOID changed by its new one only
\* from the years the code expects.
NewIdsAreNew(c) ==
  \A h \in c.codes : h.program = "GEOID2020" /\ h.code # Tail(h.id) => IdIsNew(Tail(h.id))

\* LAUS codes are of no other program.
LEMMA LausProgram == \A rows, laus : \A h \in LausCodes(rows, laus) : h.program = "LAUS"
<1> SUFFICES ASSUME NEW rows, NEW laus, NEW h \in LausCodes(rows, laus) PROVE h.program = "LAUS"
  OBVIOUS
<1>1. \E id, code : h = Code(id, "LAUS", code)
  BY Zenon DEF LausCodes
<1> QED BY <1>1 DEF Code

\* The codes of a program are of its own list.
CodesFrom(h, rows, text) ==
  /\ h.program = "GEOID2020" => h \in Geoid2020(rows, ToSet(text["cousubs2020"]))
  /\ h.program = "GEOFIPS" => h \in BeaCodes(rows, ToSet(text["bea"]))
  /\ h.program = "LAUS" => h \in LausCodes(rows, ToSet(text["laus"]))
  /\ h.program = "SM" => h \in CesCodes(ToSet(text["ces"]))
  /\ h.program = "OEWS" => h \in MetroCodes("OEWS", ToSet(text["oews"]))
  /\ h.program = "CPI" => h \in CpiCodes(ToSet(text["cpi"]))
  /\ h.program = "QCEW" => h \in MetroCodes("QCEW", ToSet(text["qcew"]))

LEMMA CodesMade == \A text : \A h \in Assemble(text).codes : CodesFrom(h, Entities(text), text)
<1> SUFFICES ASSUME NEW text, NEW h \in Assemble(text).codes PROVE CodesFrom(h, Entities(text), text)
  OBVIOUS
<1> DEFINE rows == Entities(text)
           has(s) == ToSet(text[s])
<1>1. \/ h \in Geoid2020(rows, has("cousubs2020")) \/ h \in BeaCodes(rows, has("bea"))
      \/ h \in LausCodes(rows, has("laus")) \/ h \in CesCodes(has("ces"))
      \/ h \in MetroCodes("OEWS", has("oews")) \/ h \in CpiCodes(has("cpi"))
      \/ h \in MetroCodes("QCEW", has("qcew"))
  BY DEF Assemble
<1> HIDE DEF rows
<1> DEFINE old == has("cousubs2020")
           bea == has("bea")
           laus == has("laus")
           ces == has("ces")
           oews == has("oews")
           cpi == has("cpi")
           qcew == has("qcew")
<1> HIDE DEF old, bea, laus, ces, oews, cpi, qcew
<1>2. /\ \A x \in Geoid2020(rows, old) : x.program = "GEOID2020"
      /\ \A x \in BeaCodes(rows, bea) : x.program = "GEOFIPS"
      /\ \A x \in LausCodes(rows, laus) : x.program = "LAUS"
      /\ \A x \in CesCodes(ces) : x.program = "SM"
  <2>1. \A x \in Geoid2020(rows, old) : x.program = "GEOID2020"
    BY DEF Geoid2020, Code
  <2>2. \A x \in BeaCodes(rows, bea) : x.program = "GEOFIPS"
    BY DEF BeaCodes
  <2>3. \A x \in LausCodes(rows, laus) : x.program = "LAUS"
    BY LausProgram
  <2>4. \A x \in CesCodes(ces) : x.program = "SM"
    BY DEF CesCodes
  <2> QED BY <2>1, <2>2, <2>3, <2>4
<1>3. /\ \A x \in MetroCodes("OEWS", oews) : x.program = "OEWS"
      /\ \A x \in MetroCodes("QCEW", qcew) : x.program = "QCEW"
      /\ \A x \in CpiCodes(cpi) : x.program = "CPI"
  BY DEF MetroCodes, CpiCodes, Code
<1>4. \/ h \in Geoid2020(rows, old) \/ h \in BeaCodes(rows, bea)
      \/ h \in LausCodes(rows, laus) \/ h \in CesCodes(ces)
      \/ h \in MetroCodes("OEWS", oews) \/ h \in CpiCodes(cpi)
      \/ h \in MetroCodes("QCEW", qcew)
  BY <1>1 DEF old, bea, laus, ces, oews, cpi, qcew
<1>5. /\ h.program = "GEOID2020" => h \in Geoid2020(rows, old)
      /\ h.program = "GEOFIPS" => h \in BeaCodes(rows, bea)
      /\ h.program = "LAUS" => h \in LausCodes(rows, laus)
      /\ h.program = "SM" => h \in CesCodes(ces)
      /\ h.program = "OEWS" => h \in MetroCodes("OEWS", oews)
      /\ h.program = "CPI" => h \in CpiCodes(cpi)
      /\ h.program = "QCEW" => h \in MetroCodes("QCEW", qcew)
  BY <1>2, <1>3, <1>4
<1> QED BY <1>5 DEF CodesFrom, old, bea, laus, ces, oews, cpi, qcew, rows

\* A town's two codes come of two published lists, joined by its permanent code.
LEMMA Recoded ==
  ASSUME BuildInv, Phases, OpenIsLive, open # None
  PROVE  NewIdsAreNew(open)
<1> DEFINE text == TextOf(live.read)
           rows == Entities(text)
           old == ToSet(text["cousubs2020"])
<1>1. open = Assemble(text) /\ IsPublished(text)
  BY TextIsPublished
<1> HIDE DEF text
<1>2. GeoidsAreSequences(text)
  BY <1>1, GeoidsPublished
<1>3. "gaz060" \in Source /\ "cousubs2020" \in Source
  <2>1. Town \in GazLevels /\ GazFile(Town) = "gaz060"
    BY DEF GazLevels, GazFile, State, County, Town, Place, Metro, Zcta
  <2> QED BY <2>1, BuildAssumption
<1> HIDE DEF rows
<1>4. \A h \in open.codes : h.program = "GEOID2020" => h \in Geoid2020(rows, old)
  BY <1>1, CodesMade DEF CodesFrom, rows
<1>5. ASSUME NEW h \in Geoid2020(rows, old), h.code # Tail(h.id) PROVE IdIsNew(Tail(h.id))
  <2>1. PICK o \in old, id \in DOMAIN rows :
          id[1] = Town /\ rows[id].gnis = o.gnis /\ h = Code(id, "GEOID2020", o.geoid)
    BY DEF Geoid2020
  <2>2. PICK r \in ToSet(text["gaz060"]) : Tail(id) = r.geoid /\ rows[id].gnis = r.gnis
    BY <1>2, <2>1, TownRow DEF rows
  <2>3. r \in ToSet(world.files["gaz060"]) /\ o \in ToSet(world.files["cousubs2020"])
    BY <1>1, <1>3, <2>1, <2>2 DEF IsPublished
  <2>4. h.id = id /\ h.code = o.geoid
    BY <2>1 DEF Code
  <2>5. r.gnis = o.gnis /\ r.geoid # o.geoid
    BY <1>5, <2>1, <2>2, <2>4
  <2>6. IdIsNew(r.geoid)
    BY <1>1, <2>3, <2>5, TownsAssumption DEF IsPublished
  <2> QED BY <2>2, <2>4, <2>6
<1> QED BY <1>4, <1>5 DEF NewIdsAreNew

-----------------------------------------------------------------------------
(* The entities of a catalog: their ids, and the numbers they rank by.     *)

\* The id of an entity has the parts of its level.
IdIsFormed(id) ==
  /\ id \in Seq(Nat) /\ id[1] \in Levels
  /\ id[1] = Nation => id = <<Nation>>
  /\ id[1] = State => id = <<State, id[2]>> /\ id[2] \in Nat \ {0}
  /\ id[1] = Metro => id = <<Metro, id[2]>> /\ Tail(id) = <<id[2]>> /\ id[2] \in Nat \ {0}
  /\ id[1] = County => /\ id = <<County, id[2], id[3]>> /\ Tail(id) = <<id[2], id[3]>>
                       /\ id[2] \in Nat \ {0} /\ id[3] \in Nat \ {0}
                       /\ Tail(id) \in {t.geoid : t \in Rows("gaz050")}
  /\ id[1] = Town => \E t \in Rows("gaz060") :
       id = <<Town>> \o t.geoid /\ Tail(id) = t.geoid /\ t.geoid \in Seq(Nat) /\ Len(t.geoid) = 3
RowIsTyped(row) == row.land \in Nat /\ row.pop \in Nat \cup {NoPop}

LEMMA RegionalFormed ==
  ASSUME NEW id \in DOMAIN Regional
  PROVE  IdIsFormed(id) /\ Regional[id].land \in Nat /\ "pop" \in DOMAIN Regional[id] /\ Regional[id].pop = NoPop
<1>1. \/ id = <<Nation>>
      \/ \E r \in Regions : id = <<Region, r.code>>
      \/ \E d \in Divisions : id = <<Division, d.code>>
  BY DEF Regional
<1>2. \E name : Regional[id] = [name |-> name, form |-> "plain", funcstat |-> "none", gnis |-> 0,
                                land |-> 1, title |-> {}, pop |-> NoPop]
  BY DEF Regional
<1>3. IdIsFormed(id)
  <2>1. \A r \in Regions \cup Divisions : r.code \in Nat
    BY BuildAssumption
  <2>2. id \in Seq(Nat) /\ id[1] \in {Nation, Region, Division} /\ (id[1] = Nation => id = <<Nation>>)
    <3>1. CASE id = <<Nation>>
      BY <3>1 DEF Nation
    <3>2. ASSUME NEW r \in Regions, id = <<Region, r.code>> PROVE <2>2!:
      BY <2>1, <3>2 DEF Nation, Region, Division
    <3>3. ASSUME NEW d \in Divisions, id = <<Division, d.code>> PROVE <2>2!:
      BY <2>1, <3>3 DEF Nation, Region, Division
    <3> QED BY <1>1, <3>1, <3>2, <3>3
  <2> QED BY <2>2 DEF IdIsFormed, Levels, Nation, Region, Division, State, County, Town, Metro
<1> QED BY <1>2, <1>3

LEMMA GazetteerTyped ==
  ASSUME NEW level, NEW rows, \A r \in ToSet(rows) : r.land \in Nat, NEW id \in DOMAIN Gazetteer(level, rows)
  PROVE  LET row == Gazetteer(level, rows)[id]
         IN row.land \in Nat /\ "pop" \in DOMAIN row /\ "land" \in DOMAIN row /\ row.pop = NoPop
<1>1. id \in {<<level>> \o rows[i].geoid : i \in DOMAIN rows}
  BY DEF Gazetteer
<1> DEFINE k == CHOOSE i \in DOMAIN rows : <<level>> \o rows[i].geoid = id
<1>2. k \in DOMAIN rows
  BY <1>1
<1>3. rows[k].land \in Nat
  BY <1>2 DEF ToSet
<1> DEFINE row == rows[k]
<1>4. Gazetteer(level, rows)[id] = [name |-> row.name, form |-> row.form, funcstat |-> row.funcstat,
                                    gnis |-> row.gnis, land |-> row.land, title |-> row.title, pop |-> NoPop]
  BY <1>1 DEF Gazetteer
<1> HIDE DEF k
<1> QED BY <1>3, <1>4

\* What stands after one more member.
LEMMA Prefixed ==
  ASSUME NEW S, NEW a \in S, NEW s \in Seq(S)
  PROVE  /\ <<a>> \o s \in Seq(S) /\ Len(<<a>> \o s) = Len(s) + 1
         /\ (<<a>> \o s)[1] = a
         /\ \A n \in 1 .. Len(s) : (<<a>> \o s)[n + 1] = s[n]
<1>1. <<a>> \in Seq(S) /\ Len(<<a>>) = 1
  OBVIOUS
<1> DEFINE o == <<a>>
<1>2. o[1] = a
  OBVIOUS
<1> HIDE DEF o
<1>3. o \o s \in Seq(S) /\ Len(o \o s) = Len(s) + 1 /\ (o \o s)[1] = a
  BY <1>1, <1>2 DEF o
<1>4. \A n \in 1 .. Len(s) : (o \o s)[n + 1] = s[n]
  BY <1>1, <1>2 DEF o
<1> QED BY <1>3, <1>4 DEF o

LEMMA Joined ==
  \A a, b, d :
    /\ <<a>> \o <<b>> = <<a, b>> /\ <<a>> \o <<b, d>> = <<a, b, d>>
    /\ Tail(<<a, b>>) = <<b>> /\ Tail(<<a, b, d>>) = <<b, d>>
<1>1. ASSUME NEW S, NEW a \in S, NEW s \in Seq(S), Len(s) = 1
      PROVE  <<a>> \o s = <<a, s[1]>>
  <2> DEFINE z == <<a>> \o s
  <2>0. z \in Seq(S) /\ Len(z) = Len(s) + 1 /\ z[1] = a /\ \A n \in 1 .. Len(s) : z[n + 1] = s[n]
    BY Prefixed
  <2> HIDE DEF z
  <2>1. Len(z) = 2
    BY <1>1, <2>0
  <2>2. z[1 + 1] = s[1]
    BY <1>1, <2>0
  <2>3. z \in Seq(S) /\ z[1] = a /\ z[2] = s[1]
    BY <2>0, <2>2
  <2>4. z = <<a, s[1]>>
    BY <2>1, <2>3
  <2> QED BY <2>4 DEF z
<1>2. ASSUME NEW S, NEW a \in S, NEW s \in Seq(S), Len(s) = 2
      PROVE  <<a>> \o s = <<a, s[1], s[2]>>
  <2> DEFINE z == <<a>> \o s
  <2>0. z \in Seq(S) /\ Len(z) = Len(s) + 1 /\ z[1] = a /\ \A n \in 1 .. Len(s) : z[n + 1] = s[n]
    BY Prefixed
  <2> HIDE DEF z
  <2>1. Len(z) = 3
    BY <1>2, <2>0
  <2>2. z[1 + 1] = s[1] /\ z[2 + 1] = s[2]
    BY <1>2, <2>0
  <2>3. z \in Seq(S) /\ z[1] = a /\ z[2] = s[1] /\ z[3] = s[2]
    BY <2>0, <2>2
  <2>4. z = <<a, s[1], s[2]>>
    BY <2>1, <2>3
  <2> QED BY <2>4 DEF z
<1> SUFFICES ASSUME NEW a, NEW b, NEW d
             PROVE  /\ <<a>> \o <<b>> = <<a, b>> /\ <<a>> \o <<b, d>> = <<a, b, d>>
                    /\ Tail(<<a, b>>) = <<b>> /\ Tail(<<a, b, d>>) = <<b, d>>
  OBVIOUS
<1> DEFINE S == {a, b, d}
           one == <<b>>
           two == <<b, d>>
<1>3. a \in S /\ one \in Seq(S) /\ Len(one) = 1 /\ one[1] = b
  OBVIOUS
<1>4. two \in Seq(S) /\ Len(two) = 2 /\ two[1] = b /\ two[2] = d
  OBVIOUS
<1> HIDE DEF one, two, S
<1>5. <<a>> \o one = <<a, b>>
  BY <1>1, <1>3
<1>6. <<a>> \o two = <<a, b, d>>
  BY <1>2, <1>3, <1>4
<1> QED BY <1>5, <1>6 DEF one, two

\* An id made of a level and the parts of a GEOID.
LEMMA IdMade ==
  ASSUME NEW text, IsPublished(text), NEW level \in GazLevels, NEW r \in ToSet(text[GazFile(level)]),
         NEW id, id = <<level>> \o r.geoid, Tail(id) = r.geoid
  PROVE  IdIsFormed(id)
<1> DEFINE g == r.geoid
           m == Parts(level)
<1>1. /\ r \in Rows(GazFile(level)) /\ g \in Seq(Nat) /\ m \in Nat /\ Len(g) = m
      /\ level \in {State, County, Metro} => \A n \in 1 .. m : g[n] # 0
  BY GeoidParts
<1>2. level \in Nat /\ level \in Levels /\ level # Nation
  BY DEF GazLevels, Levels, Nation, Region, Division, State, County, Town, Tract, Place, Metro, Zcta
<1> HIDE DEF g, m
<1>3. id \in Seq(Nat) /\ id[1] = level /\ Len(id) = m + 1 /\ \A n \in 1 .. m : id[n + 1] = g[n]
  BY <1>1, <1>2 DEF g
<1>4. ASSUME level \in {State, Metro} PROVE id = <<level, id[2]>> /\ Tail(id) = <<id[2]>> /\ id[2] \in Nat \ {0}
  <2>1. m = 1
    BY <1>4 DEF m, Parts, State, Metro, Zcta, County, Place, Town
  <2> DEFINE x == g[1]
  <2>2. x \in Nat \ {0} /\ id[2] = x
    BY <1>1, <1>3, <1>4, <2>1
  <2>3. g = <<x>>
    BY <1>1, <2>1
  <2> HIDE DEF x
  <2>4. id = <<level>> \o <<x>> /\ Tail(id) = <<x>>
    BY <2>3 DEF g
  <2>5. id = <<level, x>>
    BY <2>4, Joined
  <2> QED BY <2>2, <2>4, <2>5
<1>5. ASSUME level = County
      PROVE  /\ id = <<County, id[2], id[3]>> /\ Tail(id) = <<id[2], id[3]>>
             /\ id[2] \in Nat \ {0} /\ id[3] \in Nat \ {0}
             /\ Tail(id) \in {t.geoid : t \in Rows("gaz050")}
  <2>1. m = 2 /\ GazFile(level) = "gaz050"
    BY <1>5 DEF m, Parts, GazFile, State, Metro, Zcta, County, Place, Town
  <2>2. g \in {t.geoid : t \in Rows("gaz050")} /\ Tail(id) = g
    BY <1>1, <2>1 DEF g
  <2> DEFINE x == g[1]
             y == g[2]
  <2>3. x \in Nat \ {0} /\ y \in Nat \ {0} /\ id[2] = x /\ id[3] = y
    BY <1>1, <1>3, <1>5, <2>1
  <2>4. g = <<x, y>>
    BY <1>1, <2>1
  <2> HIDE DEF x, y
  <2>5. id = <<level>> \o <<x, y>> /\ Tail(id) = <<x, y>>
    BY <2>4 DEF g
  <2>6. <<level>> \o <<x, y>> = <<level, x, y>>
    BY Joined
  <2>7. id = <<level, x, y>>
    BY <2>5, <2>6
  <2> QED BY <1>5, <2>2, <2>3, <2>5, <2>7
<1>6. ASSUME level = Town
      PROVE  \E t \in Rows("gaz060") :
               id = <<Town>> \o t.geoid /\ Tail(id) = t.geoid /\ t.geoid \in Seq(Nat) /\ Len(t.geoid) = 3
  <2>1. m = 3 /\ GazFile(level) = "gaz060"
    BY <1>6 DEF m, Parts, GazFile, State, Metro, Zcta, County, Place, Town
  <2> QED BY <1>1, <1>6, <2>1 DEF g
<1> QED BY <1>2, <1>3, <1>4, <1>5, <1>6 DEF IdIsFormed

\* What is of no gazetteer is of the static tables.
LEMMA ListedRegional ==
  ASSUME NEW text, GeoidsAreSequences(text), NEW id \in DOMAIN ListedRows(text), id[1] \notin GazLevels
  PROVE  id \in DOMAIN Regional /\ ListedRows(text)[id] = Regional[id]
<1> DEFINE of(level) == Gazetteer(level, text[GazFile(level)])
           read == [level \in GazLevels |-> of(level)]
           ids == DOMAIN Regional \cup UNION {DOMAIN read[level] : level \in GazLevels}
<1>1. ListedRows(text) = [j \in ids |-> IF j[1] \in GazLevels THEN read[j[1]][j] ELSE Regional[j]]
  BY DEF ListedRows
<1>2. \A level \in GazLevels : \A j \in DOMAIN of(level) : j[1] = level
  <2>1. GazLevels \subseteq Levels
    BY DEF GazLevels, Levels
  <2> QED BY <2>1, GazetteerRow DEF GeoidsAreSequences
<1> HIDE DEF of
<1>3. id \in DOMAIN Regional
  BY <1>1, <1>2
<1> HIDE DEF read
<1> QED BY <1>1, <1>3

\* The rows of a catalog, from the files published.
LEMMA EntitiesFormed ==
  ASSUME NEW text, IsPublished(text), NEW id \in DOMAIN Entities(text)
  PROVE  IdIsFormed(id) /\ RowIsTyped(Entities(text)[id])
<1> DEFINE plain == ListedRows(text)
           of == Gazetteer(id[1], text[GazFile(id[1])])
           acs == ToSet(text["acs"]) \cup ToSet(text["acs060"])
<1>1. id \in DOMAIN plain /\ GeoidsAreSequences(text)
  BY EntityListed, GeoidsPublished
<1>2. /\ id[1] \in Levels
      /\ id[1] \in GazLevels => id \in DOMAIN of /\ plain[id] = of[id]
  BY <1>1, ListedLevels
<1> DEFINE Formed == /\ IdIsFormed(id)
                     /\ plain[id].land \in Nat /\ "land" \in DOMAIN plain[id]
                     /\ plain[id].pop = NoPop /\ "pop" \in DOMAIN plain[id]
<1>3. ASSUME id[1] \in GazLevels PROVE Formed
  <2> DEFINE level == id[1]
             rows == text[GazFile(level)]
  <2>1. \A r \in ToSet(rows) : r.geoid \in Seq(Nat) /\ r.land \in Nat
    BY <1>3, GeoidParts
  <2>2. PICK r \in ToSet(rows) : id = <<level>> \o r.geoid /\ Tail(id) = r.geoid
    <3>1. level \in Levels /\ id \in DOMAIN Gazetteer(level, rows)
      BY <1>2, <1>3
    <3> HIDE DEF level, rows
    <3> QED BY <2>1, <3>1, GazetteerRow
  <2>3. IdIsFormed(id)
    BY <1>3, <2>2, IdMade
  <2>4. plain[id].land \in Nat /\ "pop" \in DOMAIN plain[id] /\ "land" \in DOMAIN plain[id] /\ plain[id].pop = NoPop
    <3>1. of[id].land \in Nat /\ "pop" \in DOMAIN of[id] /\ "land" \in DOMAIN of[id] /\ of[id].pop = NoPop
      BY <1>2, <1>3, <2>1, GazetteerTyped
    <3> HIDE DEF plain, of
    <3> QED BY <1>2, <1>3, <3>1
  <2> QED BY <2>3, <2>4
<1>4. ASSUME id[1] \notin GazLevels PROVE Formed
  <2>1. id \in DOMAIN Regional /\ plain[id] = Regional[id]
    BY <1>1, <1>4, ListedRegional
  <2>2. "land" \in DOMAIN Regional[id]
    BY <2>1 DEF Regional
  <2> HIDE DEF plain
  <2> QED BY <2>1, <2>2, RegionalFormed
<1>5. Formed
  BY <1>3, <1>4
<1>6. \A a \in acs : a.pop \in Nat \cup {NoPop}
  BY BuildAssumption, FilesAssumption DEF IsPublished
<1> DEFINE rec == plain[id]
           Fits(a) == a.id = id
           pop == (CHOOSE a \in acs : Fits(a)).pop
<1>7. Entities(text)[id] = IF \E a \in acs : Fits(a) THEN [rec EXCEPT !.pop = pop] ELSE rec
  BY <1>1 DEF Entities
<1>8. (\E a \in acs : Fits(a)) => pop \in Nat \cup {NoPop}
  BY <1>6
<1> HIDE DEF rec, pop, acs
<1>9. RowIsTyped(Entities(text)[id])
  <2>1. rec.land \in Nat /\ "pop" \in DOMAIN rec /\ "land" \in DOMAIN rec /\ rec.pop = NoPop
    BY <1>5 DEF rec
  <2>2. [rec EXCEPT !.pop = pop].land = rec.land /\ [rec EXCEPT !.pop = pop].pop = pop
    BY <2>1
  <2> QED BY <1>7, <1>8, <2>1, <2>2 DEF RowIsTyped
<1> QED BY <1>5, <1>9

-----------------------------------------------------------------------------
(* The codes of a catalog.                                                 *)

LEMMA RowsRead ==
  ASSUME NEW text, IsPublished(text), NEW s \in Source
  PROVE  ToSet(text[s]) \subseteq Rows(s)
BY DEF IsPublished, Rows

\* A code of an entity is made of its own list.
LEMMA CodeMade ==
  ASSUME NEW text, NEW id, NEW program, NEW code \in CodeOf(Assemble(text), id, program)
  PROVE  \E h : /\ h.id = id /\ h.program = program /\ h.code = code
                /\ CodesFrom(h, Entities(text), text)
<1>1. PICK h \in Assemble(text).codes : h.id = id /\ h.program = program /\ h.code = code
  BY DEF CodeOf, CodesOf
<1>2. CodesFrom(h, Entities(text), text)
  BY CodesMade
<1> QED BY <1>1, <1>2

\* A town has the GEOID of its gazetteer, and, of 2020, one of its permanent code.
LEMMA TownCoded ==
  ASSUME NEW text, IsPublished(text), NEW id \in DOMAIN Entities(text), id[1] = Town
  PROVE  \E t \in Rows("gaz060") :
           /\ id = <<Town>> \o t.geoid /\ Tail(id) = t.geoid
           /\ \A code \in CodeOf(Assemble(text), id, "GEOID2020") :
                \E o \in Rows("cousubs2020") : o.gnis = t.gnis /\ code = o.geoid
<1>1. /\ "gaz060" \in Source /\ "cousubs2020" \in Source
  <2>1. Town \in GazLevels /\ GazFile(Town) = "gaz060"
    BY DEF GazLevels, GazFile, State, County, Town, Place, Metro, Zcta
  <2> QED BY <2>1, BuildAssumption
<1>2. PICK t \in ToSet(text["gaz060"]) :
        id = <<Town>> \o t.geoid /\ Tail(id) = t.geoid /\ Entities(text)[id].gnis = t.gnis
  BY GeoidsPublished, TownRow
<1>3. t \in Rows("gaz060")
  BY <1>1, <1>2, RowsRead
<1>4. ASSUME NEW code \in CodeOf(Assemble(text), id, "GEOID2020")
      PROVE  \E o \in Rows("cousubs2020") : o.gnis = t.gnis /\ code = o.geoid
  <2>1. PICK h : h.id = id /\ h.code = code /\ h \in Geoid2020(Entities(text), ToSet(text["cousubs2020"]))
    BY <1>4, CodeMade DEF CodesFrom
  <2>2. PICK o \in ToSet(text["cousubs2020"]), j \in DOMAIN Entities(text) :
          Entities(text)[j].gnis = o.gnis /\ h = Code(j, "GEOID2020", o.geoid)
    BY <2>1 DEF Geoid2020
  <2>3. h.id = j /\ h.code = o.geoid
    BY <2>2 DEF Code
  <2>4. o \in Rows("cousubs2020")
    BY <1>1, <2>2, RowsRead
  <2> QED BY <1>2, <2>1, <2>2, <2>3, <2>4
<1> QED BY <1>2, <1>3, <1>4

\* A combination is one of BEA's list.
LEMMA CombinedCoded ==
  ASSUME NEW text, IsPublished(text), NEW id, NEW code \in CodeOf(Assemble(text), id, "GEOFIPS")
  PROVE  code \in {b.code : b \in Rows("bea")}
<1>1. PICK h : h.code = code /\ h \in BeaCodes(Entities(text), ToSet(text["bea"]))
  BY CodeMade DEF CodesFrom
<1>2. PICK b \in ToSet(text["bea"]) : h.code = b.code
  BY <1>1 DEF BeaCodes
<1>3. b \in Rows("bea")
  BY <1>2, BuildAssumption, RowsRead
<1> QED BY <1>1, <1>2, <1>3

\* A LAUS code is the id of its place, but that of a town leaves its county out.
LEMMA LausCoded ==
  ASSUME NEW text, IsPublished(text), NEW id, NEW code \in CodeOf(Assemble(text), id, "LAUS")
  PROVE  \/ code = id /\ code[1] \in {State, County, Place, Metro}
         \/ id[1] = Town /\ id \in DOMAIN Entities(text) /\ code = <<Town, id[2], id[4]>>
<1> DEFINE laus == ToSet(text["laus"])
           rows == Entities(text)
           level == [ST |-> State, CN |-> County, CT |-> Place, MT |-> Metro]
           whole(r) == <<level[r.prefix]>> \o r.parts
<1>1. PICK h : h.id = id /\ h.code = code /\ h \in LausCodes(rows, laus)
  BY CodeMade DEF CodesFrom
<1>2. \A r \in laus : r.parts \in Seq(Nat)
  <2>1. laus \subseteq ToSet(world.files["laus"]) /\ world \in Worlds
    BY BuildAssumption DEF IsPublished
  <2> QED BY <2>1, FilesAssumption
<1> HIDE DEF laus, rows
<1>3. \/ h \in {Code(whole(r), "LAUS", whole(r)) : r \in {l \in laus : l.prefix \in DOMAIN level}}
      \/ h \in UNION {{Code(t, "LAUS", <<Town>> \o r.parts) :
                         t \in {u \in DOMAIN rows : u[1] = Town /\ <<u[2], u[4]>> = r.parts}} :
                       r \in {l \in laus : l.prefix = "CS"}}
  BY <1>1 DEF LausCodes
<1>4. CASE \E r \in laus : r.prefix \in DOMAIN level /\ h = Code(whole(r), "LAUS", whole(r))
  <2>1. PICK r \in laus : r.prefix \in DOMAIN level /\ h = Code(whole(r), "LAUS", whole(r))
    BY <1>4
  <2> DEFINE a == level[r.prefix]
             s == r.parts
  <2>2. a \in {State, County, Place, Metro}
    BY <2>1
  <2>3. s \in Seq(Nat)
    BY <1>2
  <2>4. h.id = <<a>> \o s /\ h.code = <<a>> \o s
    BY <2>1 DEF Code
  <2> HIDE DEF a, s
  <2>5. (<<a>> \o s)[1] = a
    <3>1. a \in Nat
      BY <2>2 DEF State, County, Place, Metro
    <3> QED BY <2>3, <3>1
  <2> QED BY <1>1, <2>2, <2>4, <2>5
<1>5. CASE \E r \in laus : \E t \in DOMAIN rows : /\ t[1] = Town /\ <<t[2], t[4]>> = r.parts
                                                  /\ h = Code(t, "LAUS", <<Town>> \o r.parts)
  <2>1. PICK t \in DOMAIN rows : t[1] = Town /\ h = Code(t, "LAUS", <<Town>> \o <<t[2], t[4]>>)
    BY <1>5
  <2>2. h.id = t /\ h.code = <<Town>> \o <<t[2], t[4]>>
    BY <2>1 DEF Code
  <2>3. <<Town>> \o <<t[2], t[4]>> = <<Town, t[2], t[4]>>
    BY Joined
  <2> QED BY <1>1, <2>1, <2>2, <2>3 DEF rows
<1>6. (\E r \in laus : r.prefix \in DOMAIN level /\ h = Code(whole(r), "LAUS", whole(r)))
      \/ (\E r \in laus : \E t \in DOMAIN rows : /\ t[1] = Town /\ <<t[2], t[4]>> = r.parts
                                                 /\ h = Code(t, "LAUS", <<Town>> \o r.parts))
  <2> HIDE DEF whole, level
  <2> QED BY <1>3
<1> QED BY <1>4, <1>5, <1>6

\* A metro's code for CES, OEWS or QCEW holds its number.
LEMMA MetroCoded ==
  ASSUME NEW text, NEW id, NEW code
  PROVE  /\ code \in CodeOf(Assemble(text), id, "SM") => \E s : code = <<s, id[2]>>
         /\ code \in CodeOf(Assemble(text), id, "OEWS") \cup CodeOf(Assemble(text), id, "QCEW") => code = <<id[2]>>
<1>1. ASSUME code \in CodeOf(Assemble(text), id, "SM") PROVE \E s : code = <<s, id[2]>>
  <2>1. PICK h : h.id = id /\ h.code = code /\ h \in CesCodes(ToSet(text["ces"]))
    BY <1>1, CodeMade DEF CodesFrom
  <2>2. PICK r : h.id = <<Metro, r.area>> /\ h.code = <<r.states[1], r.area>>
    BY <2>1 DEF CesCodes
  <2>3. id[2] = r.area
    BY <2>1, <2>2
  <2> QED BY <2>1, <2>2, <2>3
<1>2. ASSUME NEW program \in {"OEWS", "QCEW"}, code \in CodeOf(Assemble(text), id, program)
      PROVE  code = <<id[2]>>
  <2>1. PICK h, areas : h.id = id /\ h.code = code /\ h \in MetroCodes(program, areas)
    BY <1>2, CodeMade DEF CodesFrom
  <2>2. PICK r : h.id = <<Metro, r.area>> /\ h.code = <<r.area>>
    BY <2>1 DEF MetroCodes, Code
  <2> QED BY <2>1, <2>2
<1> QED BY <1>1, <1>2

LEMMA CpiCoded ==
  ASSUME NEW text, NEW id, NEW code \in CodeOf(Assemble(text), id, "CPI")
  PROVE  \E a \in DOMAIN CpiAreas : code = <<a>> /\ CpiAreas[a] = id
<1>1. PICK h : h.id = id /\ h.code = code /\ h \in CpiCodes(ToSet(text["cpi"]))
  BY CodeMade DEF CodesFrom
<1>2. PICK r : r.area \in DOMAIN CpiAreas /\ h = Code(CpiAreas[r.area], "CPI", <<r.area>>)
  BY <1>1 DEF CpiCodes
<1>3. h.id = CpiAreas[r.area] /\ h.code = <<r.area>>
  BY <1>2 DEF Code
<1> QED BY <1>1, <1>2, <1>3

-----------------------------------------------------------------------------
(* What the resolver answers.                                              *)

\* Ids are ordered as their strings are.
LEMMA BeforeOrder ==
  \A a, b, d \in Seq(Nat) :
    /\ ~Before(a, a)
    /\ Before(a, b) /\ Before(b, d) => Before(a, d)
<1> SUFFICES ASSUME NEW a \in Seq(Nat), NEW b \in Seq(Nat), NEW d \in Seq(Nat)
             PROVE  ~Before(a, a) /\ (Before(a, b) /\ Before(b, d) => Before(a, d))
  OBVIOUS
<1>1. \A s \in {a, b, d} : Len(s) \in Nat /\ \A n \in 1 .. Len(s) : s[n] \in Nat
  OBVIOUS
<1>2. ~Before(a, a)
  BY <1>1 DEF Before
<1>3. ASSUME Before(a, b), Before(b, d) PROVE Before(a, d)
  <2>1. PICK i \in 1 .. Len(b) : /\ \A j \in 1 .. i - 1 : j <= Len(a) /\ a[j] = b[j]
                                 /\ i > Len(a) \/ a[i] < b[i]
    BY <1>3 DEF Before
  <2>2. PICK k \in 1 .. Len(d) : /\ \A j \in 1 .. k - 1 : j <= Len(b) /\ b[j] = d[j]
                                 /\ k > Len(b) \/ b[k] < d[k]
    BY <1>3 DEF Before
  <2> DEFINE m == IF i < k THEN i ELSE k
  <2>0. /\ Len(a) \in Nat /\ Len(b) \in Nat /\ Len(d) \in Nat
        /\ i \in 1 .. Len(b) /\ k \in 1 .. Len(d) /\ i \in Int /\ k \in Int
    BY <1>1
  <2>3. m \in 1 .. Len(d) /\ m \in 1 .. Len(b) /\ m <= i /\ m <= k
    <3>1. i < k => i <= Len(d)
      BY ONLY <2>0
    <3>2. i >= k => k <= Len(b)
      BY ONLY <2>0
    <3> QED BY ONLY <2>0, <3>1, <3>2
  <2>4. \A j \in 1 .. m - 1 : j <= Len(a) /\ a[j] = d[j]
    <3> SUFFICES ASSUME NEW j \in 1 .. m - 1 PROVE j <= Len(a) /\ a[j] = d[j]
      OBVIOUS
    <3>1. j \in 1 .. i - 1 /\ j \in 1 .. k - 1
      <4> HIDE DEF m
      <4> QED BY <2>0, <2>3
    <3> QED BY ONLY <2>1, <2>2, <3>1
  <2>5. /\ i < k => m = i /\ (m > Len(a) \/ a[m] < b[m]) /\ b[m] = d[m]
        /\ i = k => m = i /\ (m > Len(a) \/ a[m] < b[m]) /\ b[m] < d[m]
        /\ i > k => m = k /\ m <= Len(a) /\ a[m] = b[m] /\ b[m] < d[m]
    <3>1. CASE i < k
      <4>1. i \in 1 .. k - 1 /\ m = i
        BY ONLY <2>0, <3>1
      <4> QED BY ONLY <2>0, <2>1, <2>2, <3>1, <4>1
    <3>2. CASE i = k
      <4>1. m = i /\ ~(k > Len(b))
        BY ONLY <2>0, <3>2
      <4> QED BY ONLY <2>0, <2>1, <2>2, <3>2, <4>1
    <3>3. CASE i > k
      <4>1. k \in 1 .. i - 1 /\ m = k /\ ~(k > Len(b))
        BY ONLY <2>0, <3>3
      <4> QED BY ONLY <2>0, <2>1, <2>2, <3>3, <4>1
    <3> QED BY ONLY <2>0, <3>1, <3>2, <3>3
  <2> HIDE DEF m
  <2>6. m > Len(a) \/ a[m] < d[m]
    <3> SUFFICES ASSUME m <= Len(a) PROVE a[m] < d[m]
      BY <1>1, <2>3
    <3>1. m \in 1 .. Len(a)
      BY <1>1, <2>3
    <3>2. a[m] \in Nat /\ b[m] \in Nat /\ d[m] \in Nat
      BY <1>1, <2>3, <3>1
    <3>3. ~(m > Len(a))
      BY <1>1, <3>1
    <3>4. i < k \/ i = k \/ i > k
      BY <1>1
    <3>5. CASE i < k
      BY ONLY <2>5, <3>2, <3>3, <3>5
    <3>6. CASE i = k
      <4>1. a[m] < b[m] /\ b[m] < d[m]
        BY <2>5, <3>3, <3>6
      <4>2. \A x, y, z \in Nat : x < y /\ y < z => x < z
        OBVIOUS
      <4> QED BY ONLY <3>2, <4>1, <4>2, Zenon
    <3>7. CASE i > k
      BY ONLY <2>5, <3>2, <3>3, <3>7
    <3> QED BY <3>4, <3>5, <3>6, <3>7
  <2> QED BY <2>3, <2>4, <2>6 DEF Before
<1> QED BY <1>2, <1>3

\* Of two ids, one comes before the other.
LEMMA BeforeTotal ==
  \A a, b \in Seq(Nat) : a # b => Before(a, b) \/ Before(b, a)
<1> SUFFICES ASSUME NEW a \in Seq(Nat), NEW b \in Seq(Nat), a # b PROVE Before(a, b) \/ Before(b, a)
  OBVIOUS
<1> DEFINE D == {i \in Nat \ {0} : /\ i <= Len(a) \/ i <= Len(b)
                                   /\ i > Len(a) \/ i > Len(b) \/ a[i] # b[i]}
<1>1. Len(a) \in Nat /\ Len(b) \in Nat
  OBVIOUS
<1>2. D # {}
  <2> SUFFICES ASSUME D = {} PROVE a = b
    OBVIOUS
  <2>1. Len(a) = Len(b)
    <3>1. CASE Len(a) < Len(b)
      <4>1. Len(b) \in D
        BY <1>1, <3>1
      <4> QED BY <4>1
    <3>2. CASE Len(b) < Len(a)
      <4>1. Len(a) \in D
        BY <1>1, <3>2
      <4> QED BY <4>1
    <3> QED BY <1>1, <3>1, <3>2
  <2>2. ASSUME NEW i \in 1 .. Len(a) PROVE a[i] = b[i]
    <3>1. i \in Nat \ {0} /\ i <= Len(a) /\ i <= Len(b)
      BY <1>1, <2>1
    <3>2. i \notin D
      OBVIOUS
    <3> QED BY <3>1, <3>2
  <2> QED BY <2>1, <2>2
<1>3. PICK m \in D : \A i \in D : m <= i
  <2>1. D \in SUBSET Nat
    OBVIOUS
  <2> HIDE DEF D
  <2> QED BY <1>2, <2>1, LeastMember
<1>4. \A j \in 1 .. m - 1 : j <= Len(a) /\ j <= Len(b) /\ a[j] = b[j]
  <2> SUFFICES ASSUME NEW j \in 1 .. m - 1 PROVE j <= Len(a) /\ j <= Len(b) /\ a[j] = b[j]
    OBVIOUS
  <2>1. j \notin D /\ j \in Nat \ {0} /\ j < m
    BY <1>3
  <2> QED BY <1>1, <1>3, <2>1
<1>5. CASE m > Len(b)
  <2>1. m \in 1 .. Len(a)
    BY <1>1, <1>3, <1>5
  <2> QED BY <1>4, <1>5, <2>1 DEF Before
<1>6. CASE m > Len(a)
  <2>1. m \in 1 .. Len(b)
    BY <1>1, <1>3, <1>6
  <2> QED BY <1>4, <1>6, <2>1 DEF Before
<1>7. CASE m <= Len(a) /\ m <= Len(b)
  <2>1. m \in 1 .. Len(a) /\ m \in 1 .. Len(b) /\ a[m] # b[m]
    BY <1>1, <1>3, <1>7
  <2>2. a[m] \in Nat /\ b[m] \in Nat
    BY <2>1
  <2>3. a[m] < b[m] \/ b[m] < a[m]
    BY <2>1, <2>2
  <2> QED BY <1>4, <2>1, <2>3 DEF Before
<1> QED BY <1>1, <1>5, <1>6, <1>7

\* The ranking is a strict order: by tier, by match, by weight, towns last, by id.
RanksAs(t, m, w, n, a, b) ==
  \/ t[a] < t[b]
  \/ /\ t[a] = t[b]
     /\ \/ m[a] > m[b]
        \/ /\ m[a] = m[b]
           /\ \/ w[a] > w[b]
              \/ w[a] = w[b] /\ (n[a] < n[b] \/ (n[a] = n[b] /\ Before(a, b)))

LEMMA RanksOrder ==
  ASSUME NEW c, NEW S, S \subseteq DOMAIN c.rows,
         \A id \in S : id \in Seq(Nat) /\ RowIsTyped(c.rows[id]),
         NEW tier, NEW match, \A id \in S : tier[id] \in Int /\ match[id] \in Int
  PROVE  /\ \A a \in S : ~Ranks(c, tier, match, a, a)
         /\ \A a, b, d \in S : Ranks(c, tier, match, a, b) /\ Ranks(c, tier, match, b, d)
                               => Ranks(c, tier, match, a, d)
<1> DEFINE w == [id \in S |-> Weight(c, id)]
           n == [id \in S |-> IF id[1] = Town THEN 1 ELSE 0]
<1>1. \A id \in S : w[id] \in Int /\ n[id] \in Int
  <2> SUFFICES ASSUME NEW id \in S PROVE Weight(c, id) \in Int
    OBVIOUS
  <2> DEFINE r == c.rows[id]
             size == IF id[1] = Town THEN Pop(r.pop) ELSE r.land
             f == IF r.form \in {"cdp", "balance"} THEN 1 ELSE 100000
  <2>1. size \in Int
    BY DEF RowIsTyped, Pop, NoPop
  <2>2. Weight(c, id) = (size + 10) * f /\ f \in Int
    BY DEF Weight
  <2> HIDE DEF size, f
  <2> QED BY <2>1, <2>2
<1>2. \A a, b \in S : Ranks(c, tier, match, a, b) <=> RanksAs(tier, match, w, n, a, b)
  BY DEF Ranks, RanksAs
<1> HIDE DEF w, n
<1>3. \A a \in S : ~RanksAs(tier, match, w, n, a, a)
  BY <1>1, BeforeOrder DEF RanksAs
<1>4. ASSUME NEW a \in S, NEW b \in S, NEW d \in S,
             RanksAs(tier, match, w, n, a, b), RanksAs(tier, match, w, n, b, d)
      PROVE  RanksAs(tier, match, w, n, a, d)
  <2>1. /\ tier[a] \in Int /\ tier[b] \in Int /\ tier[d] \in Int
        /\ match[a] \in Int /\ match[b] \in Int /\ match[d] \in Int
        /\ w[a] \in Int /\ w[b] \in Int /\ w[d] \in Int
        /\ n[a] \in Int /\ n[b] \in Int /\ n[d] \in Int
    BY <1>1
  <2>2. Before(a, b) /\ Before(b, d) => Before(a, d)
    BY BeforeOrder
  <2>3. tier[a] <= tier[b] /\ tier[b] <= tier[d]
    BY ONLY <1>4, <2>1 DEF RanksAs
  <2>4. CASE tier[a] # tier[d]
    BY ONLY <2>1, <2>3, <2>4 DEF RanksAs
  <2>5. CASE tier[a] = tier[d]
    <3>1. tier[a] = tier[b] /\ tier[b] = tier[d]
      BY ONLY <2>1, <2>3, <2>5
    <3>2. match[a] >= match[b] /\ match[b] >= match[d]
      BY ONLY <1>4, <2>1, <3>1 DEF RanksAs
    <3>3. CASE match[a] # match[d]
      <4>1. match[a] > match[d]
        BY ONLY <2>1, <3>2, <3>3
      <4> QED BY ONLY <2>5, <4>1 DEF RanksAs
    <3>4. CASE match[a] = match[d]
      <4>1. match[a] = match[b] /\ match[b] = match[d]
        BY ONLY <2>1, <3>2, <3>4
      <4>2. w[a] >= w[b] /\ w[b] >= w[d]
        BY ONLY <1>4, <2>1, <3>1, <4>1 DEF RanksAs
      <4>3. CASE w[a] # w[d]
        <5>1. w[a] > w[d]
          BY ONLY <2>1, <4>2, <4>3
        <5> QED BY ONLY <2>5, <3>4, <5>1 DEF RanksAs
      <4>4. CASE w[a] = w[d]
        <5>1. w[a] = w[b] /\ w[b] = w[d]
          BY ONLY <2>1, <4>2, <4>4
        <5>2. n[a] <= n[b] /\ n[b] <= n[d]
          BY ONLY <1>4, <2>1, <3>1, <4>1, <5>1 DEF RanksAs
        <5>3. CASE n[a] # n[d]
          <6>1. n[a] < n[d]
            BY ONLY <2>1, <5>2, <5>3
          <6> QED BY ONLY <2>5, <3>4, <4>4, <6>1 DEF RanksAs
        <5>4. CASE n[a] = n[d]
          <6>1. n[a] = n[b] /\ n[b] = n[d]
            BY ONLY <2>1, <5>2, <5>4
          <6>2. Before(a, b) /\ Before(b, d)
            BY ONLY <1>4, <2>1, <3>1, <4>1, <5>1, <6>1 DEF RanksAs
          <6> QED BY ONLY <2>2, <2>5, <3>4, <4>4, <5>4, <6>2 DEF RanksAs
        <5> QED BY ONLY <5>3, <5>4
      <4> QED BY ONLY <4>3, <4>4
    <3> QED BY ONLY <3>3, <3>4
  <2> QED BY ONLY <2>4, <2>5
<1> QED BY <1>2, <1>3, <1>4

\* Of two entities, one is ranked before the other.
LEMMA RanksTotal ==
  ASSUME NEW c, NEW S, S \subseteq DOMAIN c.rows,
         \A id \in S : id \in Seq(Nat) /\ RowIsTyped(c.rows[id]),
         NEW tier, NEW match, \A id \in S : tier[id] \in Int /\ match[id] \in Int
  PROVE  \A a, b \in S : a # b => Ranks(c, tier, match, a, b) \/ Ranks(c, tier, match, b, a)
<1> DEFINE w == [id \in S |-> Weight(c, id)]
           n == [id \in S |-> IF id[1] = Town THEN 1 ELSE 0]
<1>1. \A id \in S : w[id] \in Int /\ n[id] \in Int
  <2> SUFFICES ASSUME NEW id \in S PROVE Weight(c, id) \in Int
    OBVIOUS
  <2> DEFINE r == c.rows[id]
             size == IF id[1] = Town THEN Pop(r.pop) ELSE r.land
             f == IF r.form \in {"cdp", "balance"} THEN 1 ELSE 100000
  <2>1. size \in Int
    BY DEF RowIsTyped, Pop, NoPop
  <2>2. Weight(c, id) = (size + 10) * f /\ f \in Int
    BY DEF Weight
  <2> HIDE DEF size, f
  <2> QED BY <2>1, <2>2
<1>2. \A a, b \in S : Ranks(c, tier, match, a, b) <=> RanksAs(tier, match, w, n, a, b)
  BY DEF Ranks, RanksAs
<1> HIDE DEF w, n
<1>3. ASSUME NEW a \in S, NEW b \in S, a # b
      PROVE  RanksAs(tier, match, w, n, a, b) \/ RanksAs(tier, match, w, n, b, a)
  <2>1. /\ tier[a] \in Int /\ tier[b] \in Int /\ match[a] \in Int /\ match[b] \in Int
        /\ w[a] \in Int /\ w[b] \in Int /\ n[a] \in Int /\ n[b] \in Int
    BY <1>1
  <2>2. Before(a, b) \/ Before(b, a)
    BY <1>3, BeforeTotal
  <2> QED BY <2>1, <2>2 DEF RanksAs
<1> QED BY <1>2, <1>3

\* The ranking is of all the entities ranked, and a least tier leads it.
LEMMA AllRanked ==
  ASSUME NEW c, NEW S, S \subseteq DOMAIN c.rows, IsFiniteSet(S),
         \A id \in S : id \in Seq(Nat) /\ RowIsTyped(c.rows[id]),
         NEW tier, DOMAIN tier = S, NEW match, \A id \in S : tier[id] \in Int /\ match[id] \in Int
  PROVE  LET ranked == RankedBy(c, match, tier)
             n == Cardinality(S)
         IN /\ n \in Nat /\ DOMAIN ranked = 1 .. n /\ Len(ranked) = n
            /\ \A i \in 1 .. n : ranked[i] \in S
            /\ \A id \in S : \E i \in 1 .. n : ranked[i] = id
            /\ \A id \in S : n # 0 /\ tier[ranked[1]] <= tier[id]
<1> DEFINE B == [a \in S |-> {b \in S : Ranks(c, tier, match, b, a)}]
           n == Cardinality(S)
           ranked == RankedBy(c, match, tier)
           At(i, a) == Cardinality(B[a]) = i - 1
<1>10. \A x \in S : B[x] \subseteq S /\ \A y \in S : y \in B[x] <=> Ranks(c, tier, match, y, x)
  OBVIOUS
<1>1. \A x \in S : B[x] \subseteq S /\ x \notin B[x]
  BY RanksOrder
<1>2. \A x, y \in S : x # y => x \in B[y] \/ y \in B[x]
  BY RanksTotal
<1>3. \A x, y, z \in S : x \in B[y] /\ y \in B[z] => x \in B[z]
  <2>1. \A a, b, d \in S : Ranks(c, tier, match, a, b) /\ Ranks(c, tier, match, b, d)
                           => Ranks(c, tier, match, a, d)
    <3> SUFFICES ASSUME NEW a \in S, NEW b \in S, NEW d \in S,
                        Ranks(c, tier, match, a, b), Ranks(c, tier, match, b, d)
                 PROVE  Ranks(c, tier, match, a, d)
      OBVIOUS
    <3> QED BY RanksOrder
  <2> HIDE DEF B
  <2> QED BY <1>10, <2>1
<1>4. ranked = [i \in 1 .. n |-> CHOOSE a \in S : At(i, a)]
  <2> DEFINE at(i) == CHOOSE a \in DOMAIN tier :
                        Cardinality({b \in DOMAIN tier : Ranks(c, tier, match, b, a)}) = i - 1
  <2>1. ranked = [i \in 1 .. n |-> at(i)]
    <3>1. Cardinality(DOMAIN tier) = n
      OBVIOUS
    <3> HIDE DEF n
    <3>2. RankedBy(c, match, tier) = [i \in 1 .. n |-> at(i)]
      BY <3>1 DEF RankedBy
    <3> HIDE DEF at
    <3> QED BY <3>2
  <2>2. ASSUME NEW i PROVE at(i) = CHOOSE a \in S : At(i, a)
    <3>1. \A a \in S : B[a] = {b \in DOMAIN tier : Ranks(c, tier, match, b, a)}
      OBVIOUS
    <3> HIDE DEF B
    <3> QED BY <3>1
  <2> HIDE DEF at, ranked, n, At
  <2> QED BY <2>1, <2>2
<1> HIDE DEF B, ranked
<1>5. /\ n \in Nat
      /\ \A x \in S : Cardinality(B[x]) \in 0 .. n - 1
      /\ \A x, z \in S : Cardinality(B[x]) = Cardinality(B[z]) => x = z
      /\ \A k \in 0 .. n - 1 : \E x \in S : Cardinality(B[x]) = k
  <2>1. /\ \A x \in S : B[x] \subseteq S /\ x \notin B[x]
        /\ \A x, y \in S : x # y => x \in B[y] \/ y \in B[x]
        /\ \A x, y, z \in S : x \in B[y] /\ y \in B[z] => x \in B[z]
    BY <1>1, <1>2, <1>3
  <2>2. ASSUME NEW T, IsFiniteSet(T), T = S
        PROVE  /\ Cardinality(T) \in Nat
               /\ \A x \in T : Cardinality(B[x]) \in 0 .. Cardinality(T) - 1
               /\ \A x, z \in T : Cardinality(B[x]) = Cardinality(B[z]) => x = z
               /\ \A k \in 0 .. Cardinality(T) - 1 : \E x \in T : Cardinality(B[x]) = k
    BY ONLY <2>1, <2>2, Ranked
  <2> QED BY <2>2
<1>6. \A i \in 1 .. n : ranked[i] \in S /\ At(i, ranked[i])
  <2> SUFFICES ASSUME NEW i \in 1 .. n PROVE ranked[i] \in S /\ At(i, ranked[i])
    OBVIOUS
  <2>1. i - 1 \in 0 .. n - 1
    BY <1>5
  <2>2. \E x \in S : At(i, x)
    BY <1>5, <2>1
  <2>3. ranked[i] = CHOOSE a \in S : At(i, a)
    BY <1>4
  <2> HIDE DEF At, ranked
  <2> QED BY <2>2, <2>3
<1>7. \A id \in S : \E i \in 1 .. n : ranked[i] = id
  <2> SUFFICES ASSUME NEW id \in S PROVE \E i \in 1 .. n : ranked[i] = id
    OBVIOUS
  <2> DEFINE i == Cardinality(B[id]) + 1
  <2>1. i \in 1 .. n /\ Cardinality(B[id]) = i - 1
    BY <1>5
  <2>2. ranked[i] \in S /\ Cardinality(B[ranked[i]]) = Cardinality(B[id])
    BY <1>6, <2>1
  <2>3. ranked[i] = id
    BY <1>5, <2>2
  <2> QED BY <2>1, <2>3
<1>8. ASSUME NEW id \in S PROVE n # 0 /\ tier[ranked[1]] <= tier[id]
  <2>1. n # 0
    BY <1>5
  <2>2. ranked[1] \in S /\ Cardinality(B[ranked[1]]) = 0
    BY <1>5, <1>6, <2>1
  <2>3. B[ranked[1]] = {}
    <3>1. IsFiniteSet(B[ranked[1]])
      BY <1>1, <2>2, FS_Subset
    <3> QED BY <2>2, <3>1, FS_EmptySet
  <2>4. id = ranked[1] \/ ranked[1] \in B[id]
    BY <1>2, <2>2, <2>3
  <2>5. tier[id] \in Int /\ tier[ranked[1]] \in Int
    BY <2>2
  <2>6. id = ranked[1] \/ Ranks(c, tier, match, ranked[1], id)
    BY <1>10, <2>2, <2>4
  <2> HIDE DEF ranked, n
  <2> QED BY <2>1, <2>5, <2>6 DEF Ranks
<1>9. DOMAIN ranked = 1 .. n /\ Len(ranked) = n
  <2>1. DOMAIN ranked = 1 .. n
    BY <1>4
  <2>2. ranked \in [1 .. n -> S]
    <3>1. ranked = [i \in 1 .. n |-> ranked[i]]
      BY <1>4
    <3> HIDE DEF ranked, n
    <3> QED BY <1>6, <3>1
  <2> HIDE DEF ranked, n
  <2> QED BY <1>5, <2>1, <2>2
<1> HIDE DEF ranked, n
<1> QED BY <1>5, <1>6, <1>7, <1>8, <1>9 DEF ranked, n

\* A catalog has finitely many entities.
LEMMA CatalogFinite ==
  ASSUME NEW text, IsPublished(text)
  PROVE  IsFiniteSet(DOMAIN Entities(text))
<1>1. IsFiniteSet(DOMAIN Regional)
  <2> DEFINE region == [r \in Regions |-> <<Region, r.code>>]
             division == [d \in Divisions |-> <<Division, d.code>>]
  <2>1. DOMAIN Regional = {<<Nation>>} \cup {region[r] : r \in Regions} \cup {division[d] : d \in Divisions}
    BY DEF Regional
  <2>2. IsFiniteSet(Regions) /\ IsFiniteSet(Divisions)
    BY BuildAssumption
  <2>3. IsFiniteSet({region[r] : r \in Regions})
    <3>1. DOMAIN region = Regions /\ region = [r \in Regions |-> region[r]]
      OBVIOUS
    <3> HIDE DEF region
    <3> QED BY <2>2, <3>1, ImagesFinite
  <2>4. IsFiniteSet({division[d] : d \in Divisions})
    <3>1. DOMAIN division = Divisions /\ division = [d \in Divisions |-> division[d]]
      OBVIOUS
    <3> HIDE DEF division
    <3> QED BY <2>2, <3>1, ImagesFinite
  <2> HIDE DEF region, division
  <2>5. IsFiniteSet({<<Nation>>})
    BY FS_Singleton
  <2> DEFINE R == {region[r] : r \in Regions}
             V == {division[d] : d \in Divisions}
             N == {<<Nation>>}
  <2>6. DOMAIN Regional = N \cup R \cup V
    BY <2>1
  <2> HIDE DEF R, V, N
  <2>7. IsFiniteSet(N \cup R)
    BY <2>3, <2>5, FS_Union DEF N, R
  <2>8. IsFiniteSet((N \cup R) \cup V)
    BY <2>4, <2>7, FS_Union DEF V
  <2> QED BY <2>6, <2>8
<1>2. ASSUME NEW level \in GazLevels PROVE IsFiniteSet(DOMAIN Gazetteer(level, text[GazFile(level)]))
  <2> DEFINE rows == text[GazFile(level)]
             made == [i \in DOMAIN rows |-> <<level>> \o rows[i].geoid]
  <2>1. IsFiniteSet(DOMAIN rows)
    BY BuildAssumption DEF IsPublished
  <2>2. DOMAIN Gazetteer(level, rows) = {made[i] : i \in DOMAIN rows}
    BY DEF Gazetteer
  <2>3. DOMAIN made = DOMAIN rows /\ made = [i \in DOMAIN rows |-> made[i]]
    OBVIOUS
  <2> HIDE DEF rows, made
  <2>4. IsFiniteSet({made[i] : i \in DOMAIN rows})
    BY <2>1, <2>3, ImagesFinite
  <2> QED BY <2>2, <2>4 DEF rows
<1> DEFINE of(level) == DOMAIN Gazetteer(level, text[GazFile(level)])
<1>3. UNION {of(level) : level \in GazLevels}
        = of(State) \cup of(County) \cup of(Town) \cup of(Place) \cup of(Metro) \cup of(Zcta)
  <2> HIDE DEF of
  <2> QED BY DEF GazLevels
<1>4. /\ IsFiniteSet(of(State)) /\ IsFiniteSet(of(County)) /\ IsFiniteSet(of(Town))
      /\ IsFiniteSet(of(Place)) /\ IsFiniteSet(of(Metro)) /\ IsFiniteSet(of(Zcta))
  BY <1>2 DEF GazLevels
<1>5. DOMAIN ListedRows(text) = DOMAIN Regional \cup UNION {of(level) : level \in GazLevels}
  <2> DEFINE read == [level \in GazLevels |-> Gazetteer(level, text[GazFile(level)])]
  <2>1. UNION {DOMAIN read[level] : level \in GazLevels} = UNION {of(level) : level \in GazLevels}
    OBVIOUS
  <2> QED BY <2>1 DEF ListedRows
<1> HIDE DEF of
<1>6. \A S, T : IsFiniteSet(S) /\ IsFiniteSet(T) => IsFiniteSet(S \cup T)
  BY FS_Union
<1>7. IsFiniteSet(DOMAIN Regional \cup (of(State) \cup of(County) \cup of(Town) \cup of(Place) \cup of(Metro) \cup of(Zcta)))
  BY <1>1, <1>4, <1>6
<1> QED BY <1>3, <1>5, <1>7, EntityListed

\* What a search keeps is found, and what it finds is of the catalog.
LEMMA SearchListed ==
  ASSUME NEW c
  PROVE  /\ \A norm, s, levels : NationMatches(c, norm, s, levels) \subseteq DOMAIN c.rows
         /\ \A a : Search(c, a) \subseteq DOMAIN c.rows
<1>1. \A text, s, levels : SearchNames(c, text, s, levels, SearchPage) \subseteq DOMAIN c.rows
  BY DEF SearchNames, FirstN
<1>2. \A norm, s, levels : NationMatches(c, norm, s, levels) \subseteq DOMAIN c.rows
  BY DEF NationMatches
<1> QED BY <1>1, <1>2 DEF Search

LEMMA KeptFound ==
  ASSUME NEW c, NEW q, NEW a, NEW match
  PROVE  Kept(c, q, a, match, FoldTownTwins(c, DOMAIN match)) \subseteq DOMAIN match
BY DEF Kept, InCounty, MetrosAsFallback, FoldTownTwins

\* What leads the answer leads the ranking, and the candidates are of it.
LEMMA DecideLeads ==
  ASSUME NEW c, NEW q, NEW a, NEW exact, NEW weak, NEW byState, NEW ranked, NEW n \in Nat,
         DOMAIN ranked = 1 .. n, Len(ranked) = n
  PROVE  LET candidates == Decide(c, q, a, exact, weak, byState, ranked).candidates
         IN /\ candidates # <<>> <=> n # 0
            /\ n # 0 => candidates[1] = ranked[1]
            /\ \A x \in ToSet(candidates) : \E i \in 1 .. n : x = ranked[i]
<1> DEFINE m == IF n < ResultLimit THEN n ELSE ResultLimit
           candidates == Decide(c, q, a, exact, weak, byState, ranked).candidates
<1>1. m \in Nat /\ m <= n /\ (n # 0 => m # 0)
  BY GeographyAssumption
<1>2. candidates = SubSeq(ranked, 1, m)
  BY DEF Decide, Reply
<1> HIDE DEF m, candidates
<1>3. SubSeq(ranked, 1, m) = [i \in 1 .. m |-> ranked[i]]
  BY <1>1
<1>4. DOMAIN candidates = 1 .. m /\ \A i \in 1 .. m : candidates[i] = ranked[i]
  BY <1>2, <1>3
<1>5. n # 0 => candidates # <<>> /\ candidates[1] = ranked[1]
  <2> SUFFICES ASSUME n # 0 PROVE 1 \in DOMAIN candidates /\ candidates[1] = ranked[1]
    OBVIOUS
  <2> QED BY <1>1, <1>4
<1>6. n = 0 => candidates = <<>>
  <2> SUFFICES ASSUME n = 0 PROVE candidates = <<>>
    OBVIOUS
  <2>1. 1 .. m = {}
    BY <1>1
  <2>2. [i \in 1 .. m |-> ranked[i]] = <<>>
    BY <2>1
  <2> QED BY <1>2, <1>3, <2>2
<1>7. ASSUME NEW x \in ToSet(candidates) PROVE \E i \in 1 .. n : x = ranked[i]
  <2>1. PICK i \in 1 .. m : x = candidates[i]
    BY <1>4 DEF ToSet
  <2>2. i \in 1 .. n
    BY <1>1
  <2> QED BY <1>4, <2>1, <2>2
<1> QED BY <1>5, <1>6, <1>7 DEF candidates

\* The steps of a resolution: the entities kept of a search, those of the very
\* name, the towns and others that a far larger namesake stands before.
MatchOf(c, a) == Matches(c, a, Search(c, a))
ScoredOf(c, q, a) == Kept(c, q, a, MatchOf(c, a), FoldTownTwins(c, Search(c, a)))
ExactOf(c, q, a) == Exact(MatchOf(c, a), ScoredOf(c, q, a))
TownsOf(c, q, a) == DominatedTowns(c, ScoredOf(c, q, a), ExactOf(c, q, a))
ByStateOf(c, q, a) == DominatedByState(c, ExactOf(c, q, a))
TierOf(c, q, a) ==
  [id \in ScoredOf(c, q, a) |-> Tier(ExactOf(c, q, a), TownsOf(c, q, a), ByStateOf(c, q, a), id)]
RankedOf(c, q, a) == RankedBy(c, MatchOf(c, a), TierOf(c, q, a))

LEMMA Judged ==
  ASSUME NEW c, IsFiniteSet(DOMAIN c.rows), NEW q, NEW a,
         \A id \in DOMAIN c.rows : id \in Seq(Nat) /\ RowIsTyped(c.rows[id])
  PROVE  LET scored == ScoredOf(c, q, a)
             ranked == RankedOf(c, q, a)
             tier == TierOf(c, q, a)
             n == Cardinality(scored)
         IN /\ ResolveAsked(c, q, a) = Decide(c, q, a, ExactOf(c, q, a), TownsOf(c, q, a) \cup ByStateOf(c, q, a),
                                              ByStateOf(c, q, a), ranked)
            /\ scored \subseteq Search(c, a) /\ Search(c, a) \subseteq DOMAIN c.rows
            /\ n \in Nat /\ DOMAIN ranked = 1 .. n /\ Len(ranked) = n
            /\ \A i \in 1 .. n : ranked[i] \in scored
            /\ \A id \in scored : \E i \in 1 .. n : ranked[i] = id
            /\ \A id \in scored : n # 0 /\ tier[ranked[1]] <= tier[id]
<1> DEFINE match == MatchOf(c, a)
           scored == ScoredOf(c, q, a)
           tier == TierOf(c, q, a)
<1>1. DOMAIN match = Search(c, a) /\ \A id \in Search(c, a) : match[id] \in Int
  BY DEF MatchOf, Matches, Match
<1>2. ResolveAsked(c, q, a) = Decide(c, q, a, ExactOf(c, q, a), TownsOf(c, q, a) \cup ByStateOf(c, q, a),
                                     ByStateOf(c, q, a), RankedOf(c, q, a))
  <2>1. scored = Kept(c, q, a, match, FoldTownTwins(c, DOMAIN match))
    BY <1>1 DEF ScoredOf
  <2>2. ResolveAsked(c, q, a) = JudgeScored(c, q, a, match, scored)
    BY <2>1 DEF ResolveAsked, Judge, MatchOf
  <2> HIDE DEF match, scored
  <2>3. JudgeScored(c, q, a, match, scored) =
          Decide(c, q, a, Exact(match, scored),
                 DominatedTowns(c, scored, Exact(match, scored)) \cup DominatedByState(c, Exact(match, scored)),
                 DominatedByState(c, Exact(match, scored)),
                 RankedBy(c, match, [id \in scored |-> Tier(Exact(match, scored),
                                                           DominatedTowns(c, scored, Exact(match, scored)),
                                                           DominatedByState(c, Exact(match, scored)), id)]))
    BY DEF JudgeScored, JudgeExact, JudgeKept
  <2> QED BY <2>2, <2>3 DEF match, scored, ExactOf, TownsOf, ByStateOf, RankedOf, TierOf
<1>3. scored \subseteq Search(c, a) /\ Search(c, a) \subseteq DOMAIN c.rows
  <2>1. scored = Kept(c, q, a, match, FoldTownTwins(c, DOMAIN match))
    BY <1>1 DEF ScoredOf
  <2> HIDE DEF match, scored
  <2> QED BY <1>1, <2>1, KeptFound, SearchListed
<1>4. DOMAIN tier = scored /\ \A id \in scored : tier[id] \in Int
  BY DEF Tier, TierOf
<1>5. IsFiniteSet(scored)
  BY <1>3, FS_Subset
<1>6. \A id \in scored : id \in Seq(Nat) /\ RowIsTyped(c.rows[id]) /\ tier[id] \in Int /\ match[id] \in Int
  BY <1>1, <1>3, <1>4
<1>7. scored \subseteq DOMAIN c.rows
  BY <1>3
<1> HIDE DEF scored, tier, match
<1> DEFINE ranked == RankedBy(c, match, tier)
           n == Cardinality(scored)
<1>8. /\ n \in Nat /\ DOMAIN ranked = 1 .. n /\ Len(ranked) = n
      /\ \A i \in 1 .. n : ranked[i] \in scored
      /\ \A id \in scored : \E i \in 1 .. n : ranked[i] = id
      /\ \A id \in scored : n # 0 /\ tier[ranked[1]] <= tier[id]
  BY <1>4, <1>5, <1>6, <1>7, AllRanked
<1>9. ranked = RankedOf(c, q, a)
  BY DEF RankedOf, match, tier
<1> HIDE DEF ranked, n
<1> QED BY <1>2, <1>3, <1>8, <1>9 DEF scored, tier, n

\* The candidates of a question are those kept of its search.
LEMMA CandidatesAreKept ==
  ASSUME NEW c, IsFiniteSet(DOMAIN c.rows), NEW q, NEW a,
         \A id \in DOMAIN c.rows : id \in Seq(Nat) /\ RowIsTyped(c.rows[id])
  PROVE  /\ ToSet(ResolveAsked(c, q, a).candidates) \subseteq ScoredOf(c, q, a)
         /\ ScoredOf(c, q, a) \subseteq Search(c, a)
<1> DEFINE scored == ScoredOf(c, q, a)
           ranked == RankedOf(c, q, a)
           n == Cardinality(scored)
           decided == Decide(c, q, a, ExactOf(c, q, a), TownsOf(c, q, a) \cup ByStateOf(c, q, a),
                             ByStateOf(c, q, a), ranked)
<1>1. /\ ResolveAsked(c, q, a) = decided
      /\ scored \subseteq Search(c, a)
      /\ n \in Nat /\ DOMAIN ranked = 1 .. n /\ Len(ranked) = n
      /\ \A i \in 1 .. n : ranked[i] \in scored
  BY Judged
<1>2. \A x \in ToSet(decided.candidates) : \E i \in 1 .. n : x = ranked[i]
  <2>1. ASSUME NEW exact, NEW weak, NEW byState, NEW r, NEW k \in Nat, DOMAIN r = 1 .. k, Len(r) = k
        PROVE  \A x \in ToSet(Decide(c, q, a, exact, weak, byState, r).candidates) : \E i \in 1 .. k : x = r[i]
    BY ONLY <2>1, DecideLeads
  <2> HIDE DEF ranked, n, scored
  <2> QED BY ONLY <1>1, <2>1
<1> HIDE DEF decided, ranked, n, scored
<1>3. \A x \in ToSet(decided.candidates) : x \in scored
  BY <1>1, <1>2
<1> QED BY <1>1, <1>3 DEF scored

\* A name is matched by what was kept of a search.
LEMMA NamedIsListed ==
  ASSUME NEW c, IsFiniteSet(DOMAIN c.rows), NEW q, NEW a,
         \A id \in DOMAIN c.rows : id \in Seq(Nat) /\ RowIsTyped(c.rows[id])
  PROVE  ResolveAsked(c, q, a).candidates # <<>> => ResolveAsked(c, q, a).candidates[1] \in DOMAIN c.rows
<1> DEFINE scored == ScoredOf(c, q, a)
           ranked == RankedOf(c, q, a)
           n == Cardinality(scored)
           decided == Decide(c, q, a, ExactOf(c, q, a), TownsOf(c, q, a) \cup ByStateOf(c, q, a),
                             ByStateOf(c, q, a), ranked)
<1>1. /\ ResolveAsked(c, q, a) = decided
      /\ scored \subseteq DOMAIN c.rows
      /\ n \in Nat /\ DOMAIN ranked = 1 .. n /\ Len(ranked) = n
      /\ \A i \in 1 .. n : ranked[i] \in scored
  BY Judged
<1>2. decided.candidates # <<>> => n # 0 /\ decided.candidates[1] = ranked[1]
  <2> HIDE DEF ranked, n, scored
  <2> QED BY <1>1, DecideLeads
<1> HIDE DEF decided, ranked, n, scored
<1>3. n # 0 => ranked[1] \in scored
  BY <1>1
<1> QED BY <1>1, <1>2, <1>3

\* Whatever is asked, the place that leads the answer is of the catalog.
LEMMA ResolvedIsListed ==
  ASSUME NEW text, IsPublished(text), NEW q, ResolvePlace(Assemble(text), q).candidates # <<>>
  PROVE  ResolvePlace(Assemble(text), q).candidates[1] \in DOMAIN Assemble(text).rows
<1> DEFINE c == Assemble(text)
           nation == NationMatches(c, Normal(q.text), StateOption(q.state), LevelsOf(q.kind))
           short == q.text \in Short /\ q.county = <<>> /\ q.tail = <<>>
           bare == q.geoid \in DOMAIN c.rows /\ q.geoid[1] \in LevelsOf(q.kind)
<1>1. c.rows = Entities(text)
  BY DEF Assemble
<1>2. IsFiniteSet(DOMAIN c.rows) /\ \A id \in DOMAIN c.rows : id \in Seq(Nat) /\ RowIsTyped(c.rows[id])
  BY <1>1, CatalogFinite, EntitiesFormed DEF IdIsFormed
<1> HIDE DEF c
<1>3. CASE short
  <2>1. nation \subseteq DOMAIN c.rows
    BY SearchListed
  <2>2. ResolvePlace(c, q).candidates = IF nation = {} THEN <<>> ELSE << CHOOSE id \in nation : TRUE >>
    BY <1>3 DEF ResolvePlace, Reply
  <2> HIDE DEF nation
  <2>3. nation # {}
    BY <2>2 DEF c
  <2>4. PICK id \in nation : ResolvePlace(c, q).candidates = <<id>>
    BY <2>2, <2>3
  <2> QED BY <2>1, <2>4 DEF c
<1>4. CASE ~short /\ bare
  <2>1. ResolvePlace(c, q).candidates = <<q.geoid>>
    BY <1>4 DEF ResolvePlace, Reply
  <2> QED BY <1>4, <2>1 DEF c
<1>5. CASE ~short /\ ~bare
  <2>1. ResolvePlace(c, q) = ResolveByName(c, q)
    BY <1>5 DEF ResolvePlace
  <2> DEFINE a == AskedOf(q, SplitState(c, q.tail))
  <2>2. ResolvePlace(c, q) = ResolveAsked(c, q, a)
    BY <2>1 DEF ResolveByName
  <2> HIDE DEF a
  <2> QED BY <1>2, <2>2, NamedIsListed DEF c
<1> QED BY <1>3, <1>4, <1>5

-----------------------------------------------------------------------------
(* What a name answers.                                                    *)

\* An entity of a gazetteer has the name of the row it was made of.
LEMMA EntityNamed ==
  ASSUME NEW text, IsPublished(text), NEW id \in DOMAIN Entities(text)
  PROVE  /\ IsName(Entities(text)[id].name)
         /\ id[1] \in GazLevels => \E r \in ToSet(world.files[GazFile(id[1])]) :
              /\ id = <<id[1]>> \o r.geoid /\ Entities(text)[id].name = r.name
<1> DEFINE plain == ListedRows(text)
           acs == ToSet(text["acs"]) \cup ToSet(text["acs060"])
           of == Gazetteer(id[1], text[GazFile(id[1])])
<1>1. id \in DOMAIN plain /\ GeoidsAreSequences(text)
  BY EntityListed, GeoidsPublished
<1>2. id[1] \in GazLevels => id \in DOMAIN of /\ plain[id] = of[id]
  BY <1>1, ListedLevels
<1> DEFINE KeepsName(rec) == "name" \in DOMAIN rec /\ Entities(text)[id].name = rec.name
<1>3. "name" \in DOMAIN plain[id] => KeepsName(plain[id])
  <2> DEFINE rec == plain[id]
             pop == (CHOOSE a \in acs : a.id = id).pop
  <2>1. Entities(text)[id] = rec \/ Entities(text)[id] = [rec EXCEPT !.pop = pop]
    BY <1>1 DEF Entities
  <2> HIDE DEF rec, pop
  <2>2. [rec EXCEPT !.pop = pop].name = rec.name
    OBVIOUS
  <2> QED BY <2>1, <2>2 DEF rec
<1>4. CASE id[1] \in GazLevels
  <2> DEFINE rows == text[GazFile(id[1])]
             k == CHOOSE i \in DOMAIN rows : <<id[1]>> \o rows[i].geoid = id
  <2>1. id \in {<<id[1]>> \o rows[i].geoid : i \in DOMAIN rows}
    BY <1>2, <1>4 DEF Gazetteer
  <2>2. k \in DOMAIN rows /\ <<id[1]>> \o rows[k].geoid = id
    BY <2>1
  <2>3. "name" \in DOMAIN of[id] /\ of[id].name = rows[k].name
    <3> DEFINE row == rows[k]
    <3>1. of[id] = [name |-> row.name, form |-> row.form, funcstat |-> row.funcstat, gnis |-> row.gnis,
                    land |-> row.land, title |-> row.title, pop |-> NoPop]
      BY <2>1 DEF Gazetteer
    <3> HIDE DEF of, k
    <3> QED BY <3>1
  <2> HIDE DEF k
  <2>4. rows[k] \in ToSet(world.files[GazFile(id[1])]) /\ world \in Worlds
    BY <1>4, <2>2, BuildAssumption DEF IsPublished, ToSet
  <2>5. IsName(rows[k].name)
    BY <1>4, <2>4, NamesAssumption
  <2>6. Entities(text)[id].name = rows[k].name
    <3> HIDE DEF of, rows, plain
    <3> QED BY <1>2, <1>3, <1>4, <2>3
  <2> HIDE DEF rows, of
  <2> QED BY <2>2, <2>4, <2>5, <2>6
<1>5. CASE id[1] \notin GazLevels
  <2>1. id \in DOMAIN Regional /\ plain[id] = Regional[id]
    BY <1>1, <1>5, ListedRegional
  <2>2. "name" \in DOMAIN Regional[id] /\ IsName(Regional[id].name)
    <3>1. PICK name : /\ Regional[id] = [name |-> name, form |-> "plain", funcstat |-> "none", gnis |-> 0,
                                         land |-> 1, title |-> {}, pop |-> NoPop]
                      /\ name = CASE id[1] = Nation -> <<"united", "states">>
                                  [] id[1] = Region -> (CHOOSE r \in Regions : r.code = id[2]).name
                                  [] id[1] = Division -> (CHOOSE d \in Divisions : d.code = id[2]).name
      BY <2>1 DEF Regional
    <3>2. \/ id = <<Nation>>
          \/ \E r \in Regions : id = <<Region, r.code>>
          \/ \E d \in Divisions : id = <<Division, d.code>>
      BY <2>1 DEF Regional
    <3>3. IsName(name)
      <4>1. CASE id = <<Nation>>
        <5>1. name = <<"united", "states">>
          BY <3>1, <4>1 DEF Nation, Region, Division
        <5>2. IsName(<<"united", "states">>)
          <6> DEFINE n == <<"united", "states">>
          <6>1. ToSet(n) = {"united", "states"}
            BY DEF ToSet
          <6>2. n \in Seq({"united", "states"})
            OBVIOUS
          <6> QED BY <6>1, <6>2 DEF IsName
        <5> QED BY <5>1, <5>2
      <4>2. ASSUME NEW r \in Regions, id = <<Region, r.code>> PROVE IsName(name)
        BY <3>1, <4>2, NamesAssumption DEF Nation, Region, Division
      <4>3. ASSUME NEW d \in Divisions, id = <<Division, d.code>> PROVE IsName(name)
        BY <3>1, <4>3, NamesAssumption DEF Nation, Region, Division
      <4> QED BY <3>2, <4>1, <4>2, <4>3
    <3>4. Regional[id] = [name |-> name, form |-> "plain", funcstat |-> "none", gnis |-> 0,
                          land |-> 1, title |-> {}, pop |-> NoPop]
      BY <3>1
    <3> QED BY <3>3, <3>4
  <2> HIDE DEF plain
  <2> QED BY <1>3, <1>5, <2>1, <2>2
<1> QED BY <1>4, <1>5

\* Taking off a last word leaves a name.
LEMMA NamesCut ==
  ASSUME NEW n, IsName(n)
  PROVE  /\ Len(n) \in Nat /\ DOMAIN n = 1 .. Len(n)
         /\ IsName(BareName(n)) /\ IsName(Normal(n))
         /\ \A word : IsName(Append(n, word))
<1>1. Len(n) \in Nat /\ DOMAIN n = 1 .. Len(n)
  BY DEF IsName
<1>2. ASSUME NEW m \in 0 .. Len(n) PROVE IsName(SubSeq(n, 1, m))
  <2> DEFINE s == SubSeq(n, 1, m)
  <2>1. Len(s) = m /\ m \in Nat /\ s = [i \in 1 .. m |-> n[i]]
    BY <1>1, <1>2 DEF IsName
  <2> HIDE DEF s
  <2>2. \A i \in 1 .. m : s[i] \in ToSet(s)
    BY <2>1 DEF ToSet
  <2>3. s \in [1 .. m -> ToSet(s)]
    BY <2>1, <2>2
  <2>4. s \in Seq(ToSet(s))
    BY <2>1, <2>3
  <2> QED BY <2>4 DEF IsName, s
<1>3. Len(n) > 1 => Len(n) - 1 \in 0 .. Len(n)
  BY <1>1
<1>4. ASSUME NEW word PROVE IsName(Append(n, word))
  <2> DEFINE S == ToSet(n) \cup {word}
             a == Append(n, word)
  <2>1. n \in Seq(S) /\ word \in S
    <3>1. n \in [1 .. Len(n) -> S]
      BY <1>1 DEF ToSet, IsName
    <3> QED BY <1>1, <3>1
  <2> HIDE DEF S
  <2>2. a \in Seq(S) /\ Len(a) = Len(n) + 1
    BY <2>1
  <2> HIDE DEF a
  <2>3. DOMAIN a = 1 .. Len(a) /\ Len(a) \in Nat /\ a = [i \in 1 .. Len(a) |-> a[i]]
    BY <2>2
  <2>4. a \in [1 .. Len(a) -> ToSet(a)]
    BY <2>3 DEF ToSet
  <2> QED BY <2>3, <2>4 DEF IsName, a
<1> QED BY <1>1, <1>2, <1>3, <1>4 DEF BareName, Normal

\* The names of an entity: its own, the bare one, and those of the static tables.
LEMMA CatalogNames ==
  ASSUME NEW text, IsPublished(text), NEW id \in DOMAIN Entities(text)
  PROVE  LET name == Entities(text)[id].name
             names == NamesOf(Assemble(text), id)
         IN /\ {name, BareName(name)} \subseteq names
            /\ id[1] \in {Town, Place} => names = {name, BareName(name)}
            /\ \A n \in names : IsName(n)
<1> DEFINE c == Assemble(text)
           rows == Entities(text)
           name == rows[id].name
           bare == {[id |-> i, alias |-> BareName(rows[i].name)] :
                      i \in {j \in DOMAIN rows : BareName(rows[j].name) # rows[j].name}}
<1>1. /\ NamesOf(c, id) = {rows[id].name} \cup {a.alias : a \in {b \in c.aliases : b.id = id}}
      /\ c.aliases = bare \cup RegionalAliases
  BY DEF NamesOf, Assemble, BareAliases
<1>2. \A a \in bare : a.id = id => a.alias = BareName(name)
  OBVIOUS
<1>3. BareName(name) = name \/ \E a \in bare : a.id = id /\ a.alias = BareName(name)
  <2> SUFFICES ASSUME BareName(name) # name
               PROVE  \E a \in bare : a.id = id /\ a.alias = BareName(name)
    OBVIOUS
  <2> DEFINE of(i) == [id |-> i, alias |-> BareName(rows[i].name)]
  <2>1. of(id) \in bare
    OBVIOUS
  <2>2. of(id).id = id /\ of(id).alias = BareName(name)
    OBVIOUS
  <2> HIDE DEF bare, of
  <2> QED BY <2>1, <2>2
<1>4. \A a \in RegionalAliases : a.id[1] \in {Nation, Region, Division} /\ IsName(a.alias)
  <2>1. IsName(<<"us">>) /\ IsName(<<"nation">>)
    <3> SUFFICES ASSUME NEW w PROVE IsName(<<w>>)
      OBVIOUS
    <3>1. ToSet(<<w>>) = {w} /\ <<w>> \in Seq({w})
      BY DEF ToSet
    <3> QED BY <3>1 DEF IsName
  <2>2. \A r \in Regions \cup Divisions : \A word : IsName(Append(r.name, word))
    BY NamesAssumption, NamesCut
  <2> SUFFICES ASSUME NEW a \in RegionalAliases
               PROVE  a.id[1] \in {Nation, Region, Division} /\ IsName(a.alias)
    OBVIOUS
  <2>3. \/ \E s \in {<<"us">>, <<"nation">>} : a = [id |-> <<Nation>>, alias |-> s]
        \/ \E r \in Regions : a = [id |-> <<Region, r.code>>, alias |-> Append(r.name, "region")]
        \/ \E d \in Divisions : a = [id |-> <<Division, d.code>>, alias |-> Append(d.name, "division")]
    BY DEF RegionalAliases
  <2>4. CASE \E s \in {<<"us">>, <<"nation">>} : a = [id |-> <<Nation>>, alias |-> s]
    <3>1. PICK s \in {<<"us">>, <<"nation">>} : a = [id |-> <<Nation>>, alias |-> s]
      BY <2>4
    <3>2. a.id = <<Nation>> /\ a.alias = s
      BY <3>1
    <3>3. a.id[1] = Nation
      BY <3>2
    <3> QED BY <2>1, <3>1, <3>2, <3>3
  <2>5. ASSUME NEW r \in Regions, a = [id |-> <<Region, r.code>>, alias |-> Append(r.name, "region")]
        PROVE  a.id[1] = Region /\ IsName(a.alias)
    <3>1. a.id = <<Region, r.code>> /\ a.alias = Append(r.name, "region")
      BY <2>5
    <3> QED BY <2>2, <3>1
  <2>6. ASSUME NEW d \in Divisions, a = [id |-> <<Division, d.code>>, alias |-> Append(d.name, "division")]
        PROVE  a.id[1] = Division /\ IsName(a.alias)
    <3>1. a.id = <<Division, d.code>> /\ a.alias = Append(d.name, "division")
      BY <2>6
    <3> QED BY <2>2, <3>1
  <2> QED BY <2>3, <2>4, <2>5, <2>6
<1>5. IsName(name) /\ IsName(BareName(name))
  BY EntityNamed, NamesCut
<1> HIDE DEF bare, c, name, rows
<1>6. id[1] \in {Town, Place} => \A a \in RegionalAliases : a.id # id
  BY <1>4 DEF Town, Place, Nation, Region, Division
<1>7. {name, BareName(name)} \subseteq NamesOf(c, id)
  BY <1>1, <1>3 DEF name
<1>8. \A n \in NamesOf(c, id) : n \in {name, BareName(name)} \/ \E a \in RegionalAliases : a.id = id /\ n = a.alias
  BY <1>1, <1>2 DEF name
<1>9. id[1] \in {Town, Place} => NamesOf(c, id) = {name, BareName(name)}
  BY <1>6, <1>7, <1>8
<1>10. \A n \in NamesOf(c, id) : IsName(n)
  BY <1>4, <1>5, <1>8
<1> QED BY <1>7, <1>9, <1>10 DEF c, name, rows

\* The parts that follow the level of an id.
LEMMA PrefixedNumbers ==
  \A a \in Nat : \A s \in Seq(Nat) : \A n \in 1 .. Len(s) : (<<a>> \o s)[n + 1] = s[n]
<1> SUFFICES ASSUME NEW a \in Nat, NEW s \in Seq(Nat)
             PROVE  \A n \in 1 .. Len(s) : (<<a>> \o s)[n + 1] = s[n]
  OBVIOUS
<1> QED BY Prefixed

\* A place and the town it is nested in have one bare name.
LEMMA TownParent ==
  ASSUME NEW text, IsPublished(text), NEW p \in DOMAIN Entities(text), NEW t \in DOMAIN Entities(text),
         p[1] = Place, t[1] = Town, t \in ParentsOf(Assemble(text), p)
  PROVE  BareName(Entities(text)[p].name) = BareName(Entities(text)[t].name)
<1> DEFINE c == Assemble(text)
           rows == Entities(text)
           weighted == UNION {Overlaps(Relationship(text[s])) :
                                s \in {"zctaTract", "zctaCounty", "zctaPlace", "cdCounty", "cdPlace"} \cap Source}
           delineated == CountyCbsa(rows, ToSet(text["delineation"]))
           layers == <<StrictContainment(rows), TownTwins(rows), delineated, RegionalEdges(rows),
                       MergeWeighted(weighted, Vendored)>>
<1>1. c.edges = FirstOf(layers)
  BY DEF Assemble
<1>2. PICK e \in c.edges : e.child = p /\ e.parent = t /\ e.relation = "nests"
  BY DEF ParentsOf, EdgesUp
<1>3. \/ e \in StrictContainment(rows) \/ e \in TownTwins(rows) \/ e \in delineated
      \/ e \in RegionalEdges(rows) \/ e \in MergeWeighted(weighted, Vendored)
  <2>1. PICK n \in DOMAIN layers : e \in layers[n]
    BY <1>1, <1>2 DEF FirstOf
  <2>2. DOMAIN layers = 1 .. 5
    OBVIOUS
  <2>3. /\ layers[1] = StrictContainment(rows) /\ layers[2] = TownTwins(rows)
        /\ layers[3] = delineated /\ layers[4] = RegionalEdges(rows)
        /\ layers[5] = MergeWeighted(weighted, Vendored)
    OBVIOUS
  <2>4. n \in 1 .. 5
    BY <2>1, <2>2
  <2> HIDE DEF layers, weighted, delineated, rows
  <2> QED BY <2>1, <2>3, <2>4
<1>4. \A child, parent, share : Nest(child, parent, share).parent = parent
                               /\ Nest(child, parent, share).child = child
  BY DEF Nest
<1>5. e \notin StrictContainment(rows)
  <2> SUFFICES ASSUME e \in StrictContainment(rows) PROVE t[1] \in {State, County}
    BY DEF Town, State, County
  <2> DEFINE up(id) == (IF id[1] \in {County, Place, Town} THEN {<<State, id[2]>>} ELSE {})
                       \cup (IF id[1] \in {Tract, Town} THEN {<<County, id[2], id[3]>>} ELSE {})
  <2>1. PICK id \in DOMAIN rows : \E x \in up(id) \cap DOMAIN rows : e = Nest(id, x, 100)
    BY DEF StrictContainment
  <2>2. \A x \in up(id) : x[1] \in {State, County}
    OBVIOUS
  <2> HIDE DEF up
  <2> QED BY <1>2, <1>4, <2>1, <2>2
<1>6. e \notin delineated
  <2> SUFFICES ASSUME e \in delineated PROVE t[1] = Metro
    BY DEF Town, Metro
  <2>1. \E r : e = Nest(<<County>> \o r.county, <<Metro, r.cbsa>>, 100)
    BY DEF CountyCbsa
  <2> QED BY <1>2, <1>4, <2>1
<1>7. e \notin RegionalEdges(rows)
  <2> SUFFICES ASSUME e \in RegionalEdges(rows) PROVE t[1] \in {Region, Division, Nation}
    BY DEF Town, Region, Division, Nation
  <2>1. \/ \E d \in Divisions : e = Nest(<<Division, d.code>>, <<Region, d.region>>, 100)
        \/ \E d \in Divisions : \E s \in d.states : e = Nest(<<State, s>>, <<Division, d.code>>, 100)
        \/ \E id : e = Nest(id, <<Nation>>, 100)
    <3> DEFINE A == {Nest(<<Division, d.code>>, <<Region, d.region>>, 100) : d \in Divisions}
               B == UNION {{Nest(<<State, s>>, <<Division, d.code>>, 100) : s \in d.states} : d \in Divisions}
               C == {Nest(id, <<Nation>>, 100) :
                       id \in {j \in DOMAIN rows : \/ j[1] = Region
                                                   \/ j[1] = State /\ \E d \in Divisions : j[2] \in d.states}}
    <3>1. RegionalEdges(rows) = A \cup B \cup C
      BY DEF RegionalEdges
    <3>2. e \in A \/ e \in B \/ e \in C
      <4> HIDE DEF A, B, C
      <4> QED BY <3>1
    <3> HIDE DEF rows
    <3> QED BY <3>2
  <2>2. ASSUME NEW id, NEW x, e = Nest(id, x, 100) PROVE t = x
    BY <1>2, <1>4, <2>2
  <2>3. \A x : <<Region, x>>[1] = Region /\ <<Division, x>>[1] = Division
    OBVIOUS
  <2>4. <<Nation>>[1] = Nation
    OBVIOUS
  <2> HIDE DEF c, layers, rows
  <2>5. \/ \E d \in Divisions : t = <<Region, d.region>> \/ t = <<Division, d.code>>
        \/ t = <<Nation>>
    BY <2>1, <2>2
  <2> QED BY <2>3, <2>4, <2>5
<1>8. e \notin MergeWeighted(weighted, Vendored)
  <2> SUFFICES ASSUME e \in weighted PROVE e.relation = "overlaps"
    BY <1>2, NamesAssumption DEF MergeWeighted
  <2>1. PICK s : e \in Overlaps(Relationship(text[s]))
    OBVIOUS
  <2>2. PICK r \in Relationship(text[s]) :
          e = [child |-> r.child, parent |-> r.parent, share |-> r.share, relation |-> "overlaps"]
    BY <2>1 DEF Overlaps
  <2> QED BY <2>2
<1>9. e \in TownTwins(rows)
  BY <1>3, <1>5, <1>6, <1>7, <1>8
<1> HIDE DEF c, layers, weighted, delineated, rows
<1> DEFINE towns == {id \in DOMAIN rows : id[1] = Town}
           places == {id \in DOMAIN rows : id[1] = Place}
           twins(x) == {y \in towns : y[2] = x[2] /\ y[4] = x[3]}
           named(S, y) == {x \in S : x[2] = y[2] /\ BareName(rows[x].name) = BareName(rows[y].name)}
<1>10. \/ t \in twins(p)
       \/ \E S \in {named(places, t)} : S # {} /\ p = CHOOSE x \in S : TRUE
  <2>1. \/ \E x \in places : \E y \in twins(x) : \E share : e = Nest(x, y, share)
        \/ \E y \in towns : /\ Cardinality(named(places, y)) = 1
                            /\ e = Nest(CHOOSE x \in named(places, y) : TRUE, y, 100)
    <3> DEFINE land(T) == MapThenSumSet(LAMBDA y : rows[y].land, T)
               share(x, y) == IF land(twins(x)) > 0 THEN (100 * rows[y].land) \div land(twins(x))
                              ELSE 100 \div Cardinality(twins(x))
               linked == UNION {twins(x) : x \in places}
               merged == {y \in towns : rows[y].funcstat \in {"B", "C"}}
               left == {u \in merged \ linked : /\ Cardinality(named(merged, u)) = 1
                                                /\ Cardinality(named(places, u)) = 1}
               own == UNION {{Nest(x, y, share(x, y)) : y \in twins(x)} : x \in places}
    <3>1. TownTwins(rows) = own \cup {Nest(CHOOSE x \in named(places, y) : TRUE, y, 100) : y \in left}
      BY Zenon DEF TownTwins
    <3>2. left \subseteq towns /\ \A y \in left : Cardinality(named(places, y)) = 1
      OBVIOUS
    <3>3. e \in own \/ \E y \in left : e = Nest(CHOOSE x \in named(places, y) : TRUE, y, 100)
      <4> HIDE DEF own, left, named, towns, places
      <4> QED BY <1>9, <3>1
    <3>4. e \in own => \E x \in places : \E y \in twins(x) : \E s : e = Nest(x, y, s)
      <4> HIDE DEF share, twins, places
      <4> QED OBVIOUS
    <3> HIDE DEF own, left, named, towns, places, twins
    <3> QED BY <3>2, <3>3, <3>4
  <2>2. ASSUME NEW x \in places, NEW y \in twins(x), NEW share, e = Nest(x, y, share) PROVE t \in twins(p)
    BY <1>2, <1>4, <2>2
  <2>3. ASSUME NEW y \in towns, Cardinality(named(places, y)) = 1,
               e = Nest(CHOOSE x \in named(places, y) : TRUE, y, 100)
        PROVE  named(places, t) # {} /\ p = CHOOSE x \in named(places, t) : TRUE
    <3>1. y = t /\ p = CHOOSE x \in named(places, y) : TRUE
      BY <1>2, <1>4, <2>3
    <3> HIDE DEF named
    <3>2. named(places, y) # {}
      BY <2>3, FS_EmptySet
    <3> QED BY <3>1, <3>2
  <2> HIDE DEF towns, places, twins, named
  <2> QED BY <2>1, <2>2, <2>3
<1>11. CASE \E S \in {named(places, t)} : S # {} /\ p = CHOOSE x \in S : TRUE
  <2>1. p \in named(places, t)
    <3> HIDE DEF named
    <3> QED BY <1>11
  <2> QED BY <2>1 DEF rows
<1>12. CASE t \in twins(p)
  <2>1. /\ Place \in GazLevels /\ GazFile(Place) = "gaz160" /\ Town \in GazLevels /\ GazFile(Town) = "gaz060"
        /\ Parts(Place) = 2 /\ Parts(Town) = 3
    BY DEF GazLevels, GazFile, Parts, State, County, Town, Place, Metro, Zcta
  <2>2. PICK a \in ToSet(world.files["gaz160"]) : p = <<Place>> \o a.geoid /\ rows[p].name = a.name
    <3>1. \E a \in ToSet(world.files[GazFile(p[1])]) : p = <<p[1]>> \o a.geoid /\ rows[p].name = a.name
      BY <2>1, EntityNamed DEF rows
    <3> QED BY <2>1, <3>1
  <2>3. PICK b \in ToSet(world.files["gaz060"]) : t = <<Town>> \o b.geoid /\ rows[t].name = b.name
    <3>1. \E b \in ToSet(world.files[GazFile(t[1])]) : t = <<t[1]>> \o b.geoid /\ rows[t].name = b.name
      BY <2>1, EntityNamed DEF rows
    <3> QED BY <2>1, <3>1
  <2>4. world \in Worlds
    BY DEF IsPublished
  <2>5. a.geoid \in [1 .. 2 -> Nat] /\ b.geoid \in [1 .. 3 -> Nat]
    <3>1. /\ a.geoid \in [1 .. Parts(Place) -> IF Place \in {State, County, Metro} THEN Nat \ {0} ELSE Nat]
          /\ b.geoid \in [1 .. Parts(Town) -> IF Town \in {State, County, Metro} THEN Nat \ {0} ELSE Nat]
      <4>1. a \in ToSet(world.files[GazFile(Place)]) /\ b \in ToSet(world.files[GazFile(Town)])
        BY <2>1
      <4> QED BY <2>1, <2>4, <4>1, FilesAssumption
    <3>2. Place \notin {State, County, Metro} /\ Town \notin {State, County, Metro}
      BY DEF Place, Town, State, County, Metro
    <3> QED BY <2>1, <3>1, <3>2
  <2> DEFINE g == a.geoid
             h == b.geoid
  <2>6. g \in Seq(Nat) /\ Len(g) = 2 /\ h \in Seq(Nat) /\ Len(h) = 3
    <3>1. g \in [1 .. 2 -> Nat] /\ h \in [1 .. 3 -> Nat]
      BY <2>5
    <3> HIDE DEF g, h
    <3>2. ASSUME NEW s, NEW m \in Nat, s \in [1 .. m -> Nat] PROVE s \in Seq(Nat) /\ Len(s) = m
      BY <3>2
    <3> QED BY <3>1, <3>2
  <2>7. Place \in Nat /\ Town \in Nat
    BY DEF Place, Town
  <2> HIDE DEF g, h
  <2>8. p[2] = g[1] /\ p[3] = g[2]
    <3>1. p = <<Place>> \o g
      BY <2>2 DEF g
    <3>2. \A n \in 1 .. Len(g) : (<<Place>> \o g)[n + 1] = g[n]
      BY <2>6, <2>7, PrefixedNumbers
    <3>3. 1 \in 1 .. Len(g) /\ 2 \in 1 .. Len(g) /\ 1 + 1 = 2 /\ 2 + 1 = 3
      BY <2>6
    <3> HIDE DEF towns, twins
    <3> QED BY <3>1, <3>2, <3>3
  <2>9. t[2] = h[1] /\ t[4] = h[3]
    <3>1. t = <<Town>> \o h
      BY <2>3 DEF h
    <3>2. \A n \in 1 .. Len(h) : (<<Town>> \o h)[n + 1] = h[n]
      BY <2>6, <2>7, PrefixedNumbers
    <3>3. 1 \in 1 .. Len(h) /\ 3 \in 1 .. Len(h) /\ 1 + 1 = 2 /\ 3 + 1 = 4
      BY <2>6
    <3> QED BY <3>1, <3>2, <3>3
  <2>10. g[1] = h[1] /\ g[2] = h[3]
    BY <1>12, <2>8, <2>9
  <2>11. g = <<h[1], h[3]>>
    <3>1. g = [i \in 1 .. 2 |-> g[i]]
      BY <2>6
    <3> QED BY <2>6, <2>10, <3>1
  <2> QED BY <2>2, <2>3, <2>4, <2>11, NamesAssumption DEF rows, g, h
<1> QED BY <1>10, <1>11, <1>12

\* A label names one kind.
LEMMA LabelLevels ==
  \A level \in Levels : /\ Hinted(KindLabel[level]) /\ KindLabel[level] # NoKind
                        /\ LevelsOf(KindLabel[level]) = {level}
<1> SUFFICES ASSUME NEW level \in Levels
             PROVE  Hinted(KindLabel[level]) /\ LevelsOf(KindLabel[level]) = {level}
  BY KindsAssumption
<1> DEFINE Labels(l, kind) == KindLabel[l] = kind /\ kind \in DOMAIN KindHints /\ KindHints[kind] = {l}
<1>1. /\ Labels(Nation, "nation") /\ Labels(Region, "region") /\ Labels(Division, "division")
      /\ Labels(State, "state") /\ Labels(County, "county")
  BY DEF KindLabel, KindHints, Levels, Nation, Region, Division, State, County, Town, Tract, Place, Metro, Zcta
<1>2. /\ Labels(Town, "county subdivision") /\ Labels(Tract, "tract") /\ Labels(Place, "city")
      /\ Labels(Metro, "metro") /\ Labels(Zcta, "zip")
  BY DEF KindLabel, KindHints, Levels, Nation, Region, Division, State, County, Town, Tract, Place, Metro, Zcta
<1>3. \E kind : Labels(level, kind)
  <2> HIDE DEF Labels
  <2> QED BY <1>1, <1>2 DEF Levels
<1> QED BY <1>3 DEF Hinted, LevelsOf

\* The second part of the id of what is nested in a state is the state's number.
LEMMA StateNumber ==
  ASSUME NEW text, IsPublished(text), NEW id \in DOMAIN Entities(text)
  PROVE  id[1] \in Levels /\ (id[1] \in StateNested => id[2] \in Nat)
<1>1. id \in DOMAIN ListedRows(text) /\ GeoidsAreSequences(text)
  BY EntityListed, GeoidsPublished
<1>2. id[1] \in Levels
  BY <1>1, ListedLevels
<1>3. ASSUME id[1] \in StateNested PROVE id[1] \in GazLevels /\ Parts(id[1]) \in Nat /\ 1 <= Parts(id[1])
  <2>1. id[1] \notin GazLevels => id[1] \in {Nation, Region, Division}
    BY <1>1, ListedRegional, RegionalLevels
  <2> QED BY <1>3, <2>1 DEF StateNested, GazLevels, Parts, Nation, Region, Division, State, County, Town,
                            Tract, Place, Metro, Zcta
<1>4. ASSUME id[1] \in StateNested PROVE id[2] \in Nat
  <2> DEFINE level == id[1]
             m == Parts(level)
  <2>1. PICK r \in ToSet(world.files[GazFile(level)]) : id = <<level>> \o r.geoid
    BY <1>3, <1>4, EntityNamed
  <2> DEFINE g == r.geoid
  <2>2. g \in [1 .. m -> IF level \in {State, County, Metro} THEN Nat \ {0} ELSE Nat]
    BY <1>3, <1>4, FilesAssumption DEF IsPublished
  <2>3. level \in Nat
    BY <1>2 DEF Levels, Nation, Region, Division, State, County, Town, Tract, Place, Metro, Zcta
  <2>4. m \in Nat /\ 1 <= m
    BY <1>3, <1>4
  <2>5. id = <<level>> \o g
    BY <2>1
  <2> HIDE DEF level, m, g
  <2>6. g \in Seq(Nat) /\ Len(g) = m /\ g[1] \in Nat
    <3>1. g \in [1 .. m -> Nat]
      BY <2>2
    <3> QED BY <2>4, <3>1
  <2>7. id[2] = g[1]
    <3>1. \A n \in 1 .. Len(g) : (<<level>> \o g)[n + 1] = g[n]
      BY <2>3, <2>6, PrefixedNumbers
    <3>2. 1 \in 1 .. Len(g) /\ 1 + 1 = 2
      BY <2>4, <2>6
    <3> QED BY <2>5, <3>1, <3>2
  <2> QED BY <2>6, <2>7
<1> QED BY <1>2, <1>4

\* What a page of a search shows, the page of a narrower search shows.
LEMMA StillFound ==
  ASSUME NEW c, IsFiniteSet(DOMAIN c.rows), NEW text, NEW s, NEW t, NEW L, NEW M, M \subseteq L,
         NEW id \in SearchNames(c, text, s, L, SearchPage), id[1] \in M, InState(c, id, t),
         \A x \in DOMAIN c.rows : x[1] \in M /\ InState(c, x, t) => InState(c, x, s)
  PROVE  id \in SearchNames(c, text, t, M, SearchPage)
<1> DEFINE Hits(u, N) == {x \in DOMAIN c.rows : /\ x[1] \in N
                                                /\ \E n \in NamesOf(c, x) : Holds(text, n)
                                                /\ InState(c, x, u)}
           wide == {b \in Hits(s, L) : Before(b, id)}
           narrow == {b \in Hits(t, M) : Before(b, id)}
<1>1. id \in Hits(s, L) /\ Cardinality(wide) < SearchPage
  BY DEF SearchNames, FirstN
<1>2. Hits(t, M) \subseteq Hits(s, L) /\ id \in Hits(t, M)
  BY <1>1
<1>3. narrow \subseteq wide /\ wide \subseteq DOMAIN c.rows
  BY <1>2
<1>4. /\ Cardinality(narrow) <= Cardinality(wide)
      /\ Cardinality(narrow) \in Nat /\ Cardinality(wide) \in Nat
  <2> HIDE DEF wide, narrow
  <2> QED BY <1>3, FS_Subset, FS_CardinalityType
<1>5. Cardinality(narrow) < SearchPage
  <2> HIDE DEF wide, narrow
  <2> QED BY <1>1, <1>4, GeographyAssumption
<1> QED BY <1>2, <1>5 DEF SearchNames, FirstN

\* Nobody lives in no place.
LEMMA NoPeople == \A c : MaxPop(c, {}) = 0
<1> SUFFICES ASSUME NEW c PROVE MaxPop(c, {}) = 0
  OBVIOUS
<1>1. {0} \cup {Pop(c.rows[id].pop) : id \in {}} = {0}
  OBVIOUS
<1>2. Max({0}) = 0
  BY DEF Max
<1> QED BY <1>1, <1>2 DEF MaxPop

\* An ambiguous answer is of a search by name.
LEMMA AmbiguousIsAsked ==
  ASSUME NEW c, NEW q, ResolvePlace(c, q).status = "ambiguous"
  PROVE  /\ ~ (q.text \in Short /\ q.county = <<>> /\ q.tail = <<>>)
         /\ ~ (q.geoid \in DOMAIN c.rows /\ q.geoid[1] \in LevelsOf(q.kind))
         /\ ResolvePlace(c, q) = ResolveAsked(c, q, AskedOf(q, SplitState(c, q.tail)))
BY DEF ResolvePlace, ResolveByName, Reply

\* Naming the kind of an entity, and its state, leaves the rest of the query.
LEMMA NamingAsks ==
  ASSUME NEW c, NEW q, DOMAIN q = {"text", "county", "tail", "geoid", "kind", "state"}, NEW id,
         id[1] \in Levels, id[1] \in StateNested => id[2] \in Nat,
         NEW p, p = Naming(q, id), NEW a, a = AskedOf(q, SplitState(c, q.tail)),
         NEW b, b = AskedOf(p, SplitState(c, p.tail))
  PROVE  /\ p.text = q.text /\ p.county = q.county /\ p.tail = q.tail /\ p.geoid = q.geoid
         /\ p.kind # NoKind /\ Hinted(p.kind) /\ LevelsOf(p.kind) = {id[1]}
         /\ b.text = a.text /\ b.county = a.county /\ b.levels = {id[1]}
         /\ b.state = IF StateOf(id) = NoState THEN a.state ELSE StateOf(id)
<1> DEFINE state == IF StateOf(id) = NoState THEN q.state ELSE StateOf(id)
<1>1. p.text = q.text /\ p.county = q.county /\ p.tail = q.tail /\ p.geoid = q.geoid
  BY DEF Naming
<1>2. p.kind = KindLabel[id[1]] /\ p.state = state
  BY DEF Naming
<1>3. p.kind # NoKind /\ Hinted(p.kind) /\ LevelsOf(p.kind) = {id[1]}
  BY <1>2, LabelLevels
<1>4. StateOf(id) # NoState => StateOption(StateOf(id)) = StateOf(id)
  BY DEF StateOf, StateOption
<1>5. StateOf(id) = NoState => StateOption(p.state) = StateOption(q.state)
  BY <1>2
<1>6. StateOf(id) # NoState => StateOption(p.state) = StateOf(id)
  BY <1>2, <1>4
<1> QED BY <1>1, <1>3, <1>5, <1>6 DEF AskedOf

\* What a search for a kind and a state finds is of that kind and state.
LEMMA AllAlike ==
  ASSUME NEW c, NEW a, NEW id, id[1] \in StateNested => id[2] \in Nat,
         a.levels = {id[1]}, StateOf(id) # NoState => a.state = StateOf(id), NEW o \in Search(c, a)
  PROVE  o \in DOMAIN c.rows /\ Alike(o, id)
<1>1. CASE o \in NationMatches(c, Normal(a.text), a.state, a.levels)
  <2>1. o \in DOMAIN c.rows /\ o[1] = Nation /\ Nation \in a.levels
    BY <1>1 DEF NationMatches
  <2>2. id[1] = Nation
    BY <2>1
  <2>3. \A x : x[1] = Nation => StateOf(x) = NoState
    BY DEF StateOf, StateNested, Nation, State, County, Town, Tract, Place
  <2> QED BY <2>1, <2>2, <2>3 DEF Alike
<1>2. ASSUME NEW L, L \subseteq a.levels, o \in SearchNames(c, a.text, a.state, L, SearchPage)
      PROVE  o \in DOMAIN c.rows /\ Alike(o, id)
  <2>1. o \in DOMAIN c.rows /\ o[1] \in L /\ InState(c, o, a.state)
    BY <1>2 DEF SearchNames, FirstN
  <2>2. o[1] = id[1]
    BY <1>2, <2>1
  <2>3. CASE StateOf(id) = NoState
    <3>1. id[1] \notin StateNested
      BY <2>3, GeographyAssumption DEF StateOf
    <3>2. StateOf(o) = NoState
      BY <2>2, <3>1 DEF StateOf
    <3> QED BY <2>1, <2>2, <2>3, <3>2 DEF Alike
  <2>4. CASE StateOf(id) # NoState
    <3>1. id[1] \in StateNested
      BY <2>4 DEF StateOf
    <3>2. o[1] # Metro
      BY <2>2, <3>1 DEF StateNested, State, County, Town, Tract, Place, Metro
    <3> QED BY <2>1, <2>2, <2>4, <3>2 DEF InState, Alike
  <2> QED BY <2>3, <2>4
<1> QED BY <1>1, <1>2 DEF Search

\* What a search finds, the search for its kind and state finds.
LEMMA FoundAgain ==
  ASSUME NEW c, IsFiniteSet(DOMAIN c.rows), NEW a, NEW b, NEW id \in Search(c, a),
         id[1] \in StateNested => id[2] \in Nat, b.text = a.text, b.levels = {id[1]},
         b.state = IF StateOf(id) = NoState THEN a.state ELSE StateOf(id)
  PROVE  id \in Search(c, b)
<1>1. CASE id \in NationMatches(c, Normal(a.text), a.state, a.levels)
  <2>1. a.state = NoState /\ id[1] = Nation
    BY <1>1 DEF NationMatches
  <2>2. StateOf(id) = NoState
    BY <2>1 DEF StateOf, StateNested, Nation, State, County, Town, Tract, Place
  <2>3. id \in NationMatches(c, Normal(b.text), b.state, b.levels)
    BY <1>1, <2>1, <2>2 DEF NationMatches
  <2> QED BY <2>3 DEF Search
<1>2. ASSUME NEW L, NEW M, M \subseteq L, id[1] \in M, M \subseteq b.levels,
             id \in SearchNames(c, a.text, a.state, L, SearchPage)
      PROVE  id \in SearchNames(c, b.text, b.state, M, SearchPage)
  <2>1. InState(c, id, a.state)
    BY <1>2 DEF SearchNames, FirstN
  <2>2. InState(c, id, b.state)
    BY <2>1 DEF InState
  <2>3. ASSUME NEW x \in DOMAIN c.rows, x[1] \in M, InState(c, x, b.state) PROVE InState(c, x, a.state)
    <3>1. CASE StateOf(id) = NoState
      BY <2>3, <3>1
    <3>2. CASE StateOf(id) # NoState
      <4>1. id[1] # Metro /\ x[1] = id[1]
        BY <1>2, <2>3, <3>2 DEF StateOf, StateNested, State, County, Town, Tract, Place, Metro
      <4>2. StateOf(x) = StateOf(id)
        BY <2>3, <3>2, <4>1 DEF InState
      <4>3. a.state = NoState \/ StateOf(id) = a.state
        BY <2>1, <4>1 DEF InState
      <4> QED BY <4>2, <4>3 DEF InState
    <3> QED BY <3>1, <3>2
  <2>4. id \in SearchNames(c, a.text, b.state, M, SearchPage)
    BY <1>2, <2>2, <2>3, StillFound
  <2> QED BY <2>4
<1>3. CASE id \in SearchNames(c, a.text, a.state, a.levels \ {Town}, SearchPage)
  <2>1. id[1] \in a.levels \ {Town}
    BY <1>3 DEF SearchNames, FirstN
  <2>2. b.levels \ {Town} \subseteq a.levels \ {Town} /\ id[1] \in b.levels \ {Town}
    BY <2>1
  <2>3. id \in SearchNames(c, b.text, b.state, b.levels \ {Town}, SearchPage)
    BY <1>2, <1>3, <2>2
  <2> QED BY <2>3 DEF Search
<1>4. CASE id \in SearchNames(c, a.text, a.state, a.levels \cap {Town}, SearchPage)
  <2>1. id[1] \in a.levels \cap {Town}
    BY <1>4 DEF SearchNames, FirstN
  <2>2. b.levels \cap {Town} \subseteq a.levels \cap {Town} /\ id[1] \in b.levels \cap {Town}
    BY <2>1
  <2>3. id \in SearchNames(c, b.text, b.state, b.levels \cap {Town}, SearchPage)
    BY <1>2, <1>4, <2>2
  <2> QED BY <2>3 DEF Search
<1> QED BY <1>1, <1>3, <1>4 DEF Search

\* What is kept of entities of one kind: those of the county asked for.
LEMMA KeptOfOneKind ==
  ASSUME NEW c, NEW q, NEW a, Hinted(q.kind), NEW level, \A o \in Search(c, a) : o[1] = level
  PROVE  ScoredOf(c, q, a) = InCounty(c, Search(c, a), a.county)
<1>1. FoldTownTwins(c, Search(c, a)) = Search(c, a)
  BY DEF FoldTownTwins, Town, Place
<1>2. \A S, exact : MetrosAsFallback(S, exact, a.state # NoState /\ ~Hinted(q.kind)) = S
  BY DEF MetrosAsFallback
<1> QED BY <1>1, <1>2 DEF ScoredOf, Kept

\* What is kept is of the county asked for.
LEMMA KeptInCounty ==
  ASSUME NEW c, NEW q, NEW a, NEW id \in ScoredOf(c, q, a)
  PROVE  \A S : id \in S => id \in InCounty(c, S, a.county)
BY DEF ScoredOf, Kept, InCounty

\* Among entities of one kind, none stands before another.
LEMMA NoneIsWeak ==
  ASSUME NEW c, NEW q, NEW a, NEW level, \A o \in ScoredOf(c, q, a) : o[1] = level
  PROVE  TownsOf(c, q, a) = {} /\ ByStateOf(c, q, a) = {}
<1> DEFINE exact == ExactOf(c, q, a)
<1>1. \A o \in exact : o[1] = level
  BY DEF ExactOf, Exact
<1>2. TownsOf(c, q, a) = {}
  <2>1. CASE level = Town
    <3>1. {id \in exact : id[1] # Town} = {}
      BY <1>1, <2>1
    <3>2. MaxPop(c, {id \in exact : id[1] # Town}) = 0
      BY <3>1, NoPeople
    <3>3. \A x \in TownsOf(c, q, a) : MaxPop(c, {id \in exact : id[1] # Town}) > 0
      BY DEF TownsOf, DominatedTowns
    <3> QED BY <3>2, <3>3
  <2>2. CASE level # Town
    BY <2>2 DEF TownsOf, DominatedTowns
  <2> QED BY <2>1, <2>2
<1>3. ByStateOf(c, q, a) = {}
  <2>1. CASE level = State
    BY <1>1, <2>1 DEF ByStateOf, DominatedByState
  <2>2. CASE level # State
    <3>1. {id \in exact : id[1] = State} = {}
      BY <1>1, <2>2
    <3>2. MaxPop(c, {id \in exact : id[1] = State}) = 0
      BY <3>1, NoPeople
    <3>3. \A x \in ByStateOf(c, q, a) : MaxPop(c, {id \in exact : id[1] = State}) > 0
      BY DEF ByStateOf, DominatedByState
    <3> QED BY <3>2, <3>3
  <2> QED BY <2>1, <2>2
<1> QED BY <1>2, <1>3

\* Among entities of one kind and state, the first of the very name is answered,
\* unless it is a town with rivals.
LEMMA OneKindAnswers ==
  ASSUME NEW c, IsFiniteSet(DOMAIN c.rows), NEW q, NEW a,
         \A o \in DOMAIN c.rows : o \in Seq(Nat) /\ RowIsTyped(c.rows[o]),
         q.kind # NoKind, NEW id \in ExactOf(c, q, a), \A o \in ScoredOf(c, q, a) : Alike(o, id),
         a.state = NoState => StateOf(id) = NoState
  PROVE  \/ id[1] = Town
         \/ /\ ResolveAsked(c, q, a).status = "ok"
            /\ ResolveAsked(c, q, a).candidates[1] \in ExactOf(c, q, a)
<1> DEFINE scored == ScoredOf(c, q, a)
           exact == ExactOf(c, q, a)
           ranked == RankedOf(c, q, a)
           tier == TierOf(c, q, a)
           n == Cardinality(scored)
<1>1. /\ TownsOf(c, q, a) = {} /\ ByStateOf(c, q, a) = {}
      /\ exact \subseteq scored
  <2>1. \A o \in ScoredOf(c, q, a) : o[1] = id[1]
    BY DEF Alike
  <2>2. TownsOf(c, q, a) = {} /\ ByStateOf(c, q, a) = {}
    BY <2>1, NoneIsWeak
  <2> QED BY <2>2 DEF ExactOf, Exact
<1>2. /\ ResolveAsked(c, q, a) = Decide(c, q, a, exact, {} \cup {}, {}, ranked)
      /\ n \in Nat /\ DOMAIN ranked = 1 .. n /\ Len(ranked) = n
      /\ \A i \in 1 .. n : ranked[i] \in scored
      /\ n # 0 /\ tier[ranked[1]] <= tier[id]
  BY <1>1, Judged
<1>3. \A o \in scored : tier[o] = IF o \in exact THEN 0 ELSE 2
  BY <1>1 DEF TierOf, Tier
<1>4. ranked[1] \in exact
  <2>1. ranked[1] \in scored
    BY <1>2
  <2>2. tier[id] = 0
    BY <1>1, <1>3
  <2> HIDE DEF tier, scored, exact, ranked
  <2> QED BY <1>2, <1>3, <2>1, <2>2
<1>5. Alike(ranked[1], id)
  BY <1>1, <1>4
<1> DEFINE decided == Decide(c, q, a, exact, {} \cup {}, {}, ranked)
           rivals == {o \in exact : o[1] = ranked[1][1] /\ StateOf(o) # NoState}
<1>6. id[1] # Town => SameStateTownRivals(c, ranked, exact) = {}
  BY <1>5 DEF SameStateTownRivals, Alike
<1>7. a.state = NoState => ~ (Cardinality({StateOf(o) : o \in rivals}) > 1)
  <2> SUFFICES ASSUME a.state = NoState PROVE rivals = {}
    <3>1. rivals = {} => {StateOf(o) : o \in rivals} = {}
      OBVIOUS
    <3>2. Cardinality({}) = 0
      BY FS_EmptySet
    <3> HIDE DEF rivals
    <3>3. ASSUME a.state = NoState, rivals = {} PROVE ~ (Cardinality({StateOf(o) : o \in rivals}) > 1)
      <4>1. Cardinality({StateOf(o) : o \in rivals}) = 0
        BY <3>1, <3>2, <3>3
      <4> QED BY <4>1
    <3> QED BY <3>3
  <2>1. \A o \in exact : StateOf(o) = NoState
    BY <1>1 DEF Alike
  <2> QED BY <2>1
<1>8. id[1] # Town => decided.status = "ok"
  BY <1>6, <1>7 DEF Decide, Reply
<1>9. decided.candidates[1] = ranked[1]
  <2> HIDE DEF ranked, n
  <2> QED BY <1>2, DecideLeads
<1> HIDE DEF decided
<1> QED BY <1>2, <1>4, <1>8, <1>9 DEF decided

\* The answer to an ambiguous question's clarification.
LEMMA Clarifies ==
  ASSUME NEW text, IsPublished(text), open = Assemble(text),
         NEW q, DOMAIN q = {"text", "county", "tail", "geoid", "kind", "state"},
         ResolvePlace(open, q).status = "ambiguous",
         NEW id \in ToSet(ResolvePlace(open, q).candidates), id \in Namesakes(q)
  PROVE  \/ \E one \in Namesakes(q) : Alike(one, id) /\ Picks(Naming(q, id), one)
         \/ id[1] = Town /\ Picks([q EXCEPT !.geoid = id], id)
<1>0. PICK c : c = open
  OBVIOUS
<1> DEFINE a == AskedOf(q, SplitState(c, q.tail))
           p == Naming(q, id)
           b == AskedOf(p, SplitState(c, p.tail))
<1>1. /\ IsFiniteSet(DOMAIN c.rows)
      /\ \A o \in DOMAIN c.rows : /\ o \in Seq(Nat) /\ RowIsTyped(c.rows[o])
                                  /\ o[1] \in Levels /\ (o[1] \in StateNested => o[2] \in Nat)
  <2>1. c.rows = Entities(text)
    BY <1>0 DEF Assemble
  <2> QED BY <2>1, CatalogFinite, EntitiesFormed, StateNumber DEF IdIsFormed
<1>2. /\ ~ (q.text \in Short /\ q.county = <<>> /\ q.tail = <<>>)
      /\ ~ (q.geoid \in DOMAIN c.rows /\ q.geoid[1] \in LevelsOf(q.kind))
      /\ ResolvePlace(c, q) = ResolveAsked(c, q, a)
  BY <1>0, AmbiguousIsAsked
<1>3. /\ id \in DOMAIN c.rows /\ id[1] \in a.levels /\ a.levels = LevelsOf(q.kind)
      /\ Normal(a.text) \in {Normal(n) : n \in NamesOf(c, id)}
  BY <1>0 DEF Namesakes, AskedOf
<1>4. id \in ScoredOf(c, q, a) /\ id \in Search(c, a)
  <2>1. IsFiniteSet(DOMAIN c.rows) /\ \A o \in DOMAIN c.rows : o \in Seq(Nat) /\ RowIsTyped(c.rows[o])
    BY <1>1
  <2>2. id \in ToSet(ResolveAsked(c, q, a).candidates)
    BY <1>0, <1>2
  <2> HIDE DEF a
  <2> QED BY ONLY <2>1, <2>2, CandidatesAreKept
<1>5. /\ p.text = q.text /\ p.county = q.county /\ p.tail = q.tail /\ p.geoid = q.geoid
      /\ p.kind # NoKind /\ Hinted(p.kind) /\ LevelsOf(p.kind) = {id[1]}
      /\ b.text = a.text /\ b.county = a.county /\ b.levels = {id[1]}
      /\ b.state = IF StateOf(id) = NoState THEN a.state ELSE StateOf(id)
  <2>1. id[1] \in Levels /\ (id[1] \in StateNested => id[2] \in Nat)
    BY <1>1, <1>3
  <2>2. p = Naming(q, id) /\ a = AskedOf(q, SplitState(c, q.tail)) /\ b = AskedOf(p, SplitState(c, p.tail))
    OBVIOUS
  <2>3. DOMAIN q = {"text", "county", "tail", "geoid", "kind", "state"}
    OBVIOUS
  <2> HIDE DEF p, a, b
  <2>4. \A x, y, z : x = Naming(q, id) /\ y = AskedOf(q, SplitState(c, q.tail)) /\ z = AskedOf(x, SplitState(c, x.tail))
          => /\ x.text = q.text /\ x.county = q.county /\ x.tail = q.tail /\ x.geoid = q.geoid
             /\ x.kind # NoKind /\ Hinted(x.kind) /\ LevelsOf(x.kind) = {id[1]}
             /\ z.text = y.text /\ z.county = y.county /\ z.levels = {id[1]}
             /\ z.state = IF StateOf(id) = NoState THEN y.state ELSE StateOf(id)
    <3> SUFFICES ASSUME NEW x, NEW y, NEW z, x = Naming(q, id), y = AskedOf(q, SplitState(c, q.tail)),
                        z = AskedOf(x, SplitState(c, x.tail))
                 PROVE  /\ x.text = q.text /\ x.county = q.county /\ x.tail = q.tail /\ x.geoid = q.geoid
             /\ x.kind # NoKind /\ Hinted(x.kind) /\ LevelsOf(x.kind) = {id[1]}
             /\ z.text = y.text /\ z.county = y.county /\ z.levels = {id[1]}
             /\ z.state = IF StateOf(id) = NoState THEN y.state ELSE StateOf(id)
      OBVIOUS
    <3> QED BY <2>1, <2>3, NamingAsks
  <2> QED BY <2>2, <2>4
<1> HIDE DEF a, b, p
<1>6. ResolvePlace(c, p) = ResolveAsked(c, p, b)
  <2>1. ~ (p.text \in Short /\ p.county = <<>> /\ p.tail = <<>>)
    BY <1>2, <1>5
  <2>2. ~ (p.geoid \in DOMAIN c.rows /\ p.geoid[1] \in LevelsOf(p.kind))
    BY <1>2, <1>3, <1>5
  <2> QED BY <2>1, <2>2 DEF ResolvePlace, ResolveByName, b
<1>7. \A o \in Search(c, b) : o \in DOMAIN c.rows /\ Alike(o, id)
  <2>1. id[1] \in StateNested => id[2] \in Nat
    BY <1>1, <1>3
  <2> QED BY <1>5, <2>1, AllAlike
<1>8. id \in Search(c, b)
  BY <1>1, <1>3, <1>4, <1>5, FoundAgain
<1>9. id \in ScoredOf(c, p, b) /\ ScoredOf(c, p, b) \subseteq Search(c, b)
  <2>1. ScoredOf(c, p, b) = InCounty(c, Search(c, b), b.county)
    BY <1>5, <1>7, KeptOfOneKind DEF Alike
  <2>2. id \in InCounty(c, Search(c, b), a.county)
    BY <1>4, <1>8, KeptInCounty
  <2> QED BY <1>5, <2>1, <2>2 DEF InCounty
<1>10. ASSUME NEW o \in Search(c, b)
       PROVE  MatchOf(c, b)[o] = 2 <=> Normal(a.text) \in {Normal(n) : n \in NamesOf(c, o)}
  BY <1>5, <1>10 DEF MatchOf, Matches, Match
<1>11. id \in ExactOf(c, p, b)
  BY <1>3, <1>8, <1>9, <1>10 DEF ExactOf, Exact
<1>12. ExactOf(c, p, b) \subseteq Namesakes(q)
  <2> SUFFICES ASSUME NEW o \in ExactOf(c, p, b) PROVE o \in Namesakes(q)
    OBVIOUS
  <2>1. o \in Search(c, b) /\ MatchOf(c, b)[o] = 2
    BY <1>9 DEF ExactOf, Exact
  <2>2. o \in DOMAIN c.rows /\ o[1] \in a.levels /\ Normal(a.text) \in {Normal(n) : n \in NamesOf(c, o)}
    BY <1>3, <1>7, <1>10, <2>1 DEF Alike
  <2>3. o[1] = Nation \/ \E n \in NamesOf(c, o) : Holds(a.text, n)
    BY <1>5, <2>1 DEF Search, NationMatches, SearchNames, FirstN
  <2> QED BY <1>0, <2>2, <2>3 DEF Namesakes, a
<1>13. \A o \in ScoredOf(c, p, b) : Alike(o, id)
  BY <1>7, <1>9
<1>14. b.state = NoState => StateOf(id) = NoState
  BY <1>5
<1>15. CASE id[1] # Town
  <2>1. /\ ResolvePlace(c, p).status = "ok"
        /\ ResolvePlace(c, p).candidates[1] \in ExactOf(c, p, b)
    <3>1. IsFiniteSet(DOMAIN c.rows) /\ \A o \in DOMAIN c.rows : o \in Seq(Nat) /\ RowIsTyped(c.rows[o])
      BY <1>1
    <3>2. ResolvePlace(c, p) = ResolveAsked(c, p, b) /\ p.kind # NoKind
      BY <1>5, <1>6
    <3>3. PICK d : d = b
      OBVIOUS
    <3> HIDE DEF b, p
    <3>4. ResolveAsked(c, p, d).status = "ok" /\ ResolveAsked(c, p, d).candidates[1] \in ExactOf(c, p, d)
      BY ONLY <3>1, <3>2, <3>3, <1>11, <1>13, <1>14, <1>15, OneKindAnswers
    <3> QED BY ONLY <3>2, <3>3, <3>4
  <2>2. Alike(ResolvePlace(c, p).candidates[1], id)
    BY <1>13, <2>1 DEF ExactOf, Exact
  <2> QED BY <1>0, <1>12, <2>1, <2>2 DEF Picks, p
<1>16. CASE id[1] = Town
  <2> DEFINE g == [q EXCEPT !.geoid = id]
  <2>1. g.text = q.text /\ g.county = q.county /\ g.tail = q.tail /\ g.geoid = id /\ g.kind = q.kind
    OBVIOUS
  <2> HIDE DEF g
  <2>2. ResolvePlace(c, g) = Reply("ok", <<id>>, "none", {})
    <3>1. ~ (g.text \in Short /\ g.county = <<>> /\ g.tail = <<>>)
      BY <1>2, <2>1
    <3>2. g.geoid \in DOMAIN c.rows /\ g.geoid[1] \in LevelsOf(g.kind)
      BY <1>3, <2>1
    <3> QED BY <2>1, <3>1, <3>2 DEF ResolvePlace
  <2>3. Picks(g, id)
    BY <1>0, <2>2 DEF Picks, Reply
  <2> QED BY <1>16, <2>3 DEF g
<1> QED BY <1>15, <1>16

-----------------------------------------------------------------------------
(* Whom a name passes over.                                                *)

\* The most people of some entities: those of one of them.
LEMMA MostPeople ==
  ASSUME NEW c, NEW S, IsFiniteSet(S), \A x \in S : RowIsTyped(c.rows[x])
  PROVE  /\ MaxPop(c, S) \in Nat
         /\ \A x \in S : Pop(c.rows[x].pop) \in Nat /\ Pop(c.rows[x].pop) <= MaxPop(c, S)
         /\ S # {} => \E x \in S : Pop(c.rows[x].pop) = MaxPop(c, S)
<1> DEFINE pop(x) == Pop(c.rows[x].pop)
           N == {0} \cup {pop(x) : x \in S}
           B == [x \in S |-> {y \in S : pop(y) > pop(x)}]
<1>1. \A x \in S : pop(x) \in Nat
  BY DEF RowIsTyped, Pop, NoPop
<1>2. MaxPop(c, S) = CHOOSE m \in N : \A k \in N : m >= k
  BY DEF MaxPop, Max
<1>3. CASE S = {}
  BY <1>3, NoPeople
<1>4. CASE S # {}
  <2> HIDE DEF pop
  <2>1. /\ \A x \in S : B[x] \subseteq S /\ x \notin B[x]
        /\ \A x, y \in S : x \in B[y] => B[x] \subseteq B[y]
    BY <1>1
  <2>2. PICK top \in S : B[top] = {}
    <3> HIDE DEF B
    <3> QED BY <1>4, <2>1, Foremost
  <2>3. \A x \in S : pop(x) <= pop(top)
    BY <1>1, <2>2
  <2>4. pop(top) \in N /\ \A k \in N : pop(top) >= k
    BY <1>1, <2>3
  <2>5. MaxPop(c, S) \in N /\ \A k \in N : MaxPop(c, S) >= k
    <3> HIDE DEF N
    <3> QED BY <1>2, <2>4
  <2>6. N \subseteq Nat
    BY <1>1
  <2>7. MaxPop(c, S) = pop(top)
    <3>1. pop(top) >= MaxPop(c, S) /\ MaxPop(c, S) >= pop(top)
      <4> HIDE DEF N
      <4> QED BY <2>4, <2>5
    <3>2. pop(top) \in Nat /\ MaxPop(c, S) \in Nat
      <4> HIDE DEF N
      <4> QED BY <2>4, <2>5, <2>6
    <3> HIDE DEF N
    <3> QED BY <3>1, <3>2
  <2> QED BY <1>1, <2>3, <2>7 DEF pop
<1> QED BY <1>3, <1>4

\* The first of the most populous in a ranking.
BestAt(c, ranked, S) ==
  {i \in 1 .. Len(ranked) : ranked[i] \in S /\ Pop(c.rows[ranked[i]].pop) = MaxPop(c, S)}
AreRanked(c, ranked, S) ==
  /\ IsFiniteSet(S) /\ S # {}
  /\ \A x \in S : RowIsTyped(c.rows[x]) /\ \E i \in 1 .. Len(ranked) : ranked[i] = x

LEMMA BestRanked ==
  ASSUME NEW c, NEW ranked, Len(ranked) \in Nat, NEW S, AreRanked(c, ranked, S)
  PROVE  LET best == ranked[Min(BestAt(c, ranked, S))]
         IN best \in S /\ Pop(c.rows[best].pop) = MaxPop(c, S)
<1> DEFINE I == BestAt(c, ranked, S)
<1>1. I # {}
  <2>1. PICK x \in S : Pop(c.rows[x].pop) = MaxPop(c, S)
    BY MostPeople DEF AreRanked
  <2>2. PICK i \in 1 .. Len(ranked) : ranked[i] = x
    BY DEF AreRanked
  <2> QED BY <2>1, <2>2 DEF BestAt
<1>2. I \in SUBSET Nat /\ \A i \in I : ranked[i] \in S /\ Pop(c.rows[ranked[i]].pop) = MaxPop(c, S)
  BY DEF BestAt
<1> HIDE DEF I
<1>3. Min(I) \in I
  BY <1>1, <1>2, LeastMember DEF Min
<1> QED BY <1>2, <1>3 DEF I

\* A dominant state: one of its rivals has Ratio times the people of any other
\* state's.
LEMMA DominantLeads ==
  ASSUME NEW c, NEW ranked, Len(ranked) \in Nat, NEW rivals, AreRanked(c, ranked, rivals),
         HasDominantState(c, ranked, rivals)
  PROVE  \E lead \in rivals :
           /\ Pop(c.rows[lead].pop) = MaxPop(c, rivals)
           /\ \A x \in rivals : \/ StateOf(x) = StateOf(lead)
                                \/ Ratio * Pop(c.rows[x].pop) <= Pop(c.rows[lead].pop)
<1> DEFINE pop(x) == c.rows[x].pop
           best(S) == ranked[Min(BestAt(c, ranked, S))]
           lead == best(rivals)
           others == {b \in rivals : StateOf(b) # StateOf(lead)}
           next == best(others)
<1>1. pop(lead) # NoPop /\ pop(next) # NoPop /\ pop(lead) >= Ratio * pop(next)
  BY DEF HasDominantState, BestAt
<1>2. \A S \in SUBSET rivals : S # {} => AreRanked(c, ranked, S)
  BY FS_Subset DEF AreRanked
<1>3. \A S \in SUBSET rivals : S # {} => best(S) \in S /\ Pop(pop(best(S))) = MaxPop(c, S)
  BY <1>2, BestRanked
<1> HIDE DEF best
<1>4. lead \in rivals /\ Pop(pop(lead)) = MaxPop(c, rivals)
  BY <1>3 DEF AreRanked
<1>5. ASSUME NEW x \in rivals, StateOf(x) # StateOf(lead)
      PROVE  Ratio * Pop(pop(x)) <= Pop(pop(lead))
  <2>1. x \in others /\ others \subseteq rivals
    BY <1>5
  <2> HIDE DEF others
  <2>2. next \in others /\ Pop(pop(next)) = MaxPop(c, others) /\ AreRanked(c, ranked, others)
    BY <1>2, <1>3, <2>1
  <2> HIDE DEF lead, next
  <2>3. Pop(pop(x)) \in Nat /\ Pop(pop(x)) <= Pop(pop(next)) /\ Pop(pop(next)) \in Nat
    BY <2>1, <2>2, MostPeople DEF AreRanked
  <2>4. Pop(pop(lead)) = pop(lead) /\ Pop(pop(next)) = pop(next) /\ pop(lead) \in Nat
    BY <1>1, <1>4, <2>1, <2>2 DEF Pop, RowIsTyped, AreRanked
  <2> HIDE DEF pop
  <2> QED BY <1>1, <2>3, <2>4 DEF Ratio
<1> HIDE DEF lead
<1> QED BY <1>4, <1>5

\* The entities of a name, and a name whose matches fit a page of the search.
NamedAs(c, a) ==
  {id \in DOMAIN c.rows :
     /\ id[1] \in a.levels
     /\ Normal(a.text) \in {Normal(n) : n \in NamesOf(c, id)}
     /\ id[1] = Nation \/ \E n \in NamesOf(c, id) : Holds(a.text, n)}
MatchesFit(c, text) ==
  \A L \in {Levels \ {Town}, Levels \cap {Town}} :
    Cardinality({id \in DOMAIN c.rows : id[1] \in L /\ \E n \in NamesOf(c, id) : Holds(text, n)}) <= SearchPage

\* A page that is not full shows every entity.
LEMMA PageHolds ==
  ASSUME NEW S, IsFiniteSet(S), \A x \in S : x \in Seq(Nat), NEW page \in Nat, Cardinality(S) <= page
  PROVE  FirstN(S, page) = S
<1> SUFFICES ASSUME NEW x \in S PROVE Cardinality({b \in S : Before(b, x)}) < page
  BY DEF FirstN
<1> DEFINE B == {b \in S : Before(b, x)}
<1>1. ~Before(x, x)
  BY DEF Before
<1>2. B \subseteq S \ {x}
  BY <1>1
<1>3. IsFiniteSet(S \ {x}) /\ Cardinality(S \ {x}) = Cardinality(S) - 1
  BY FS_RemoveElement
<1> HIDE DEF B
<1>4. Cardinality(B) <= Cardinality(S \ {x}) /\ Cardinality(B) \in Nat /\ Cardinality(S) \in Nat
  BY <1>2, <1>3, FS_Subset, FS_CardinalityType
<1> QED BY <1>3, <1>4 DEF B

\* A search by name alone finds every entity of the name, if its page does.
LEMMA NameFinds ==
  ASSUME NEW c, IsFiniteSet(DOMAIN c.rows), \A id \in DOMAIN c.rows : id \in Seq(Nat),
         NEW a, a.state = NoState, a.levels = Levels, MatchesFit(c, a.text)
  PROVE  NamedAs(c, a) = {id \in Search(c, a) : MatchOf(c, a)[id] = 2}
<1> DEFINE hits(L) == {id \in DOMAIN c.rows : id[1] \in L /\ \E n \in NamesOf(c, id) : Holds(a.text, n)}
<1>1. ASSUME NEW L \in {Levels \ {Town}, Levels \cap {Town}}
      PROVE  SearchNames(c, a.text, a.state, L, SearchPage) = hits(L)
  <2>1. SearchNames(c, a.text, a.state, L, SearchPage) = FirstN(hits(L), SearchPage)
    BY DEF SearchNames, InState
  <2>2. hits(L) \subseteq DOMAIN c.rows /\ Cardinality(hits(L)) <= SearchPage
    BY DEF MatchesFit
  <2> HIDE DEF hits
  <2>3. IsFiniteSet(hits(L)) /\ \A x \in hits(L) : x \in Seq(Nat)
    BY <2>2, FS_Subset
  <2> QED BY <2>1, <2>2, <2>3, PageHolds, GeographyAssumption
<1>2. Search(c, a) = NationMatches(c, Normal(a.text), a.state, a.levels)
                       \cup (hits(Levels \ {Town}) \cup hits(Levels \cap {Town}))
  <2> HIDE DEF hits
  <2> QED BY <1>1 DEF Search
<1>3. NationMatches(c, Normal(a.text), a.state, a.levels)
        = {id \in DOMAIN c.rows : id[1] = Nation /\ \E n \in NamesOf(c, id) : Normal(n) = Normal(a.text)}
  BY DEF NationMatches, Levels
<1>4. ASSUME NEW id \in Search(c, a)
      PROVE  MatchOf(c, a)[id] = 2 <=> Normal(a.text) \in {Normal(n) : n \in NamesOf(c, id)}
  BY <1>4 DEF MatchOf, Matches, Match
<1>5. ASSUME NEW id \in Search(c, a)
      PROVE  id \in DOMAIN c.rows /\ id[1] \in Levels
             /\ (id[1] = Nation \/ \E n \in NamesOf(c, id) : Holds(a.text, n))
  BY <1>2, <1>3, <1>5 DEF Levels
<1>6. ASSUME NEW id \in NamedAs(c, a) PROVE id \in Search(c, a)
  <2>1. id \in DOMAIN c.rows /\ id[1] \in Levels /\ \E n \in NamesOf(c, id) : Normal(n) = Normal(a.text)
    BY <1>6 DEF NamedAs
  <2>2. CASE id[1] = Nation
    BY <1>2, <1>3, <2>1, <2>2
  <2>3. CASE \E n \in NamesOf(c, id) : Holds(a.text, n)
    <3>1. id \in hits(Levels \ {Town}) \/ id \in hits(Levels \cap {Town})
      BY <2>1, <2>3
    <3> HIDE DEF hits
    <3> QED BY <1>2, <3>1
  <2> QED BY <1>6, <2>2, <2>3 DEF NamedAs
<1> HIDE DEF hits
<1> QED BY <1>4, <1>5, <1>6 DEF NamedAs

\* A town's place is of its name, for a query of at most one suffix.
LEMMA TwinNamed ==
  ASSUME NEW text, IsPublished(text), NEW p \in DOMAIN Entities(text), NEW t \in DOMAIN Entities(text),
         p[1] = Place, t[1] = Town, t \in ParentsOf(Assemble(text), p),
         NEW norm, Normal(norm) = norm,
         norm \in {Normal(n) : n \in NamesOf(Assemble(text), t)}
  PROVE  norm \in {Normal(n) : n \in NamesOf(Assemble(text), p)}
<1> DEFINE a == Entities(text)[t].name
           b == Entities(text)[p].name
<1>1. BareName(b) = BareName(a)
  BY TownParent
<1>2. /\ NamesOf(Assemble(text), t) = {a, BareName(a)} /\ BareName(b) \in NamesOf(Assemble(text), p)
      /\ IsName(a)
  BY CatalogNames
<1>3. a # <<>> => a[Len(a)] # "cdp"
  <2>1. Town \in GazLevels /\ GazFile(Town) = "gaz060"
    BY DEF GazLevels, GazFile, State, County, Town, Place, Metro, Zcta
  <2>2. \E r \in ToSet(world.files[GazFile(t[1])]) : a = r.name
    BY <2>1, EntityNamed
  <2>3. world \in Worlds
    BY DEF IsPublished
  <2> HIDE DEF a
  <2> QED BY <2>1, <2>2, <2>3, NamesAssumption
<1>4. BareName(a) = Normal(a)
  <2>1. Len(a) \in Nat /\ DOMAIN a = 1 .. Len(a)
    BY <1>2, NamesCut
  <2>2. Len(a) > 1 => a # <<>>
    OBVIOUS
  <2> HIDE DEF a
  <2> QED BY <1>3, <2>1, <2>2 DEF BareName, Normal
<1> HIDE DEF a, b
<1>5. norm = Normal(a) \/ norm = Normal(BareName(a))
  BY <1>2
<1>6. norm = Normal(BareName(a))
  BY <1>4, <1>5
<1> QED BY <1>1, <1>2, <1>6

\* Of a finite set of at most one member, any two are the same.
LEMMA OnlyOne ==
  ASSUME NEW S, IsFiniteSet(S), ~ (Cardinality(S) > 1)
  PROVE  \A x, y \in S : x = y
<1> SUFFICES ASSUME NEW x \in S, NEW y \in S, x # y PROVE FALSE
  OBVIOUS
<1>1. IsFiniteSet(S \ {x}) /\ Cardinality(S \ {x}) = Cardinality(S) - 1
  BY FS_RemoveElement
<1>2. Cardinality(S) \in Nat /\ Cardinality(S \ {x}) \in Nat
  BY <1>1, FS_CardinalityType
<1>3. Cardinality(S \ {x}) = 0
  BY <1>1, <1>2
<1> QED BY <1>1, <1>3, FS_EmptySet

\* One namesake leads those the answer does not mention: of another kind, they
\* are far smaller; of its kind, they are of its state or far smaller.
LEMMA LedByOne ==
  ASSUME NEW c, IsFiniteSet(DOMAIN c.rows), NEW q, NEW a,
         \A o \in DOMAIN c.rows : /\ o \in Seq(Nat) /\ RowIsTyped(c.rows[o])
                                  /\ (o[1] \in StateNested => o[2] \in Nat),
         q.kind = NoKind, a.state = NoState, ResolveAsked(c, q, a).status = "ok", ExactOf(c, q, a) # {}
  PROVE  LET r == ResolveAsked(c, q, a)
             told == r.passed \ {r.candidates[1]}
             exact == ExactOf(c, q, a)
         IN \E lead \in exact \ told : \A x \in exact :
              \/ x \in told
              \/ Ratio * Pop(c.rows[x].pop) <= Pop(c.rows[lead].pop)
              \/ Alike(x, lead)
<1> DEFINE scored == ScoredOf(c, q, a)
           E == ExactOf(c, q, a)
           T == TownsOf(c, q, a)
           B == ByStateOf(c, q, a)
           K == E \ (T \cup B)
           ranked == RankedOf(c, q, a)
           tier == TierOf(c, q, a)
           n == Cardinality(scored)
           r == ranked[1]
           pop(x) == Pop(c.rows[x].pop)
           answer == Decide(c, q, a, E, T \cup B, B, ranked)
           told == answer.passed \ {answer.candidates[1]}
<1>1. /\ ResolveAsked(c, q, a) = answer
      /\ scored \subseteq DOMAIN c.rows /\ E \subseteq scored
      /\ n \in Nat /\ DOMAIN ranked = 1 .. n /\ Len(ranked) = n
      /\ \A i \in 1 .. n : ranked[i] \in scored
      /\ \A x \in scored : \E i \in 1 .. n : ranked[i] = x
      /\ \A x \in scored : n # 0 /\ tier[r] <= tier[x]
  <2>1. E \subseteq scored
    BY DEF ExactOf, Exact
  <2>2. \A o \in DOMAIN c.rows : o \in Seq(Nat) /\ RowIsTyped(c.rows[o])
    OBVIOUS
  <2>3. /\ ResolveAsked(c, q, a) = answer
        /\ scored \subseteq Search(c, a) /\ Search(c, a) \subseteq DOMAIN c.rows
        /\ n \in Nat /\ DOMAIN ranked = 1 .. n /\ Len(ranked) = n
        /\ \A i \in 1 .. n : ranked[i] \in scored
        /\ \A x \in scored : \E i \in 1 .. n : ranked[i] = x
        /\ \A x \in scored : n # 0 /\ tier[r] <= tier[x]
    BY <2>2, Judged
  <2> HIDE DEF scored, E, ranked, tier, n, answer
  <2> QED BY <2>1, <2>3
<1>2. \A x \in scored : tier[x] = IF x \in T THEN 3 ELSE IF x \notin E THEN 2 ELSE IF x \in B THEN 1 ELSE 0
  BY DEF TierOf, Tier
<1>3. /\ IsFiniteSet(E) /\ \A x \in E : RowIsTyped(c.rows[x]) /\ pop(x) \in Nat
      /\ \A S \in SUBSET E : /\ IsFiniteSet(S) /\ MaxPop(c, S) \in Nat
                             /\ \A x \in S : pop(x) <= MaxPop(c, S)
                             /\ S # {} => \E x \in S : pop(x) = MaxPop(c, S)
  <2>1. IsFiniteSet(E) /\ E \subseteq DOMAIN c.rows
    BY <1>1, FS_Subset
  <2>2. ASSUME NEW S \in SUBSET E
        PROVE  /\ IsFiniteSet(S) /\ MaxPop(c, S) \in Nat
               /\ \A x \in S : pop(x) \in Nat /\ pop(x) <= MaxPop(c, S)
               /\ S # {} => \E x \in S : pop(x) = MaxPop(c, S)
    <3>1. IsFiniteSet(S) /\ \A x \in S : RowIsTyped(c.rows[x])
      BY <2>1, FS_Subset
    <3> QED BY <3>1, MostPeople
  <2> HIDE DEF pop, E
  <2> QED BY <2>1, <2>2
<1> DEFINE nontowns == {x \in E : x[1] # Town}
           states == {x \in E : x[1] = State}
<1>4. /\ \A x \in T : x[1] = Town /\ MaxPop(c, nontowns) > 0 /\ MaxPop(c, nontowns) >= Ratio * pop(x)
      /\ \A x \in B : /\ x \in E /\ x[1] # State /\ MaxPop(c, states) > 0
                      /\ MaxPop(c, states) >= Ratio * pop(x)
  <2>1. \A x \in T : x[1] = Town /\ MaxPop(c, nontowns) > 0 /\ MaxPop(c, nontowns) >= Ratio * pop(x)
    BY DEF TownsOf, DominatedTowns
  <2>2. ASSUME NEW x \in B
        PROVE  x \in E /\ x[1] # State /\ MaxPop(c, states) > 0 /\ MaxPop(c, states) >= Ratio * pop(x)
    <3>1. /\ x \in E /\ x[1] # State /\ c.rows[x].pop # NoPop
          /\ MaxPop(c, states) > 0 /\ MaxPop(c, states) >= Ratio * c.rows[x].pop
      BY DEF ByStateOf, DominatedByState
    <3>2. pop(x) = c.rows[x].pop
      BY <3>1 DEF Pop
    <3> HIDE DEF B, E, states
    <3> QED BY <3>1, <3>2
  <2> HIDE DEF T, B, E, nontowns, states, pop
  <2> QED BY <2>1, <2>2
<1>0. State # Town /\ MaxPop(c, {}) = 0
  BY NoPeople DEF State, Town
<1> HIDE DEF scored, E, T, B, ranked, tier, n, pop, nontowns, states
<1>5. states = {} => B = {}
  BY <1>0, <1>4
<1>6. states \subseteq K
  BY <1>0, <1>4 DEF states
<1>7. nontowns = {} => T = {}
  BY <1>0, <1>4
<1>8. K # {}
  <2>1. CASE states # {}
    BY <1>6, <2>1
  <2>2. CASE states = {} /\ nontowns # {}
    BY <1>4, <1>5, <2>2 DEF nontowns
  <2>3. CASE states = {} /\ nontowns = {}
    BY <1>5, <1>7, <2>3 DEF E
  <2> QED BY <2>1, <2>2, <2>3
<1>9. r \in K /\ n # 0
  <2>1. PICK x \in K : TRUE
    BY <1>8
  <2>2. x \in scored /\ n # 0
    BY <1>1, <2>1
  <2>3. r \in scored /\ tier[x] = 0 /\ tier[r] <= 0
    BY <1>1, <1>2, <2>1, <2>2
  <2> QED BY <1>2, <2>2, <2>3
<1> DEFINE k == r[1]
           rivals == {x \in E : x[1] = k /\ StateOf(x) # NoState}
           kinds == {x[1] : x \in K}
           homes == {StateOf(x) : x \in rivals}
<1>10. /\ answer.candidates[1] = r /\ answer.status = "ok"
       /\ ~ (Cardinality(kinds) > 1)
       /\ ~ (Cardinality(homes) > 1) \/ HasDominantState(c, ranked, rivals)
       /\ answer.passed = {} \/ answer.passed = B
       /\ B # {} /\ k = State => answer.passed = B
  <2>1. answer.candidates[1] = r /\ answer.status = "ok"
    BY <1>1, <1>9, DecideLeads
  <2>2. ranked # <<>>
    BY <1>1, <1>9
  <2>3. \A candidates, why, passed : /\ Reply("ambiguous", candidates, why, passed).status # "ok"
                                     /\ Reply("ok", candidates, why, passed).passed = passed
    BY DEF Reply
  <2>4. r \in E
    BY <1>9
  <2> DEFINE candidates == SubSeq(ranked, 1, IF Len(ranked) < ResultLimit THEN Len(ranked) ELSE ResultLimit)
             kindAsked == Cardinality(kinds) > 1
             townAsked == SameStateTownRivals(c, ranked, E) # {}
             stateAsked == Cardinality(homes) > 1 /\ ~HasDominantState(c, ranked, rivals)
  <2>5. answer = IF kindAsked THEN Reply("ambiguous", candidates, "kind", {})
                 ELSE IF townAsked THEN Reply("ambiguous", candidates, "town", {})
                 ELSE IF stateAsked THEN Reply("ambiguous", candidates, "state", {})
                 ELSE IF B # {} /\ k = State THEN Reply("ok", candidates, "dominant_match", B)
                 ELSE Reply("ok", candidates, "none", {})
    BY <2>2, <2>4 DEF Decide
  <2> HIDE DEF answer, candidates, kindAsked, townAsked, stateAsked
  <2>6. ~kindAsked /\ ~stateAsked /\ (answer.passed = {} \/ answer.passed = B)
        /\ (B # {} /\ k = State => answer.passed = B)
    BY <2>1, <2>3, <2>5
  <2> QED BY <2>1, <2>6 DEF kindAsked, stateAsked
<1> HIDE DEF answer
<1>11. \A x \in K : x[1] = k
  <2>1. IsFiniteSet(K)
    BY <1>3, FS_Subset
  <2> DEFINE of == [x \in K |-> x[1]]
  <2>2. IsFiniteSet({of[x] : x \in K})
    <3>1. DOMAIN of = K /\ of = [x \in K |-> of[x]]
      OBVIOUS
    <3> HIDE DEF of, K
    <3> QED BY <2>1, <3>1, ImagesFinite
  <2>3. kinds = {of[x] : x \in K}
    OBVIOUS
  <2>4. \A u, v \in kinds : u = v
    <3> HIDE DEF kinds, of
    <3> QED BY <1>10, <2>2, <2>3, OnlyOne
  <2>5. \A x \in K : x[1] \in kinds
    OBVIOUS
  <2> HIDE DEF kinds, K
  <2> QED BY <1>9, <2>4, <2>5
<1>12. B # {} => k = State
  BY <1>5, <1>6, <1>11 DEF states
<1>13. ASSUME NEW x \in E, x[1] = k PROVE x \in K
  <2>1. x \notin B
    BY <1>4, <1>12, <1>13
  <2>2. x \notin T
    <3> SUFFICES ASSUME x \in T PROVE FALSE
      OBVIOUS
    <3>1. k = Town /\ nontowns # {}
      BY <1>4, <1>7, <1>13
    <3>2. PICK y \in nontowns : TRUE
      BY <3>1
    <3>3. y \in E /\ y[1] # Town
      BY <3>2 DEF nontowns
    <3>4. y \in B
      BY <1>4, <1>11, <3>1, <3>3
    <3> QED BY <1>0, <1>12, <3>1, <3>4
  <2> QED BY <1>13, <2>1, <2>2
<1>14. \E lead \in K : /\ pop(lead) = MaxPop(c, K)
                       /\ \A x \in K : \/ Ratio * pop(x) <= pop(lead)
                                       \/ Alike(x, lead)
  <2>1. CASE k \notin StateNested
    <3>1. \A x \in K : StateOf(x) = NoState
      BY <1>11, <2>1 DEF StateOf
    <3>2. PICK lead \in K : pop(lead) = MaxPop(c, K)
      BY <1>3, <1>8
    <3> QED BY <1>11, <3>1, <3>2 DEF Alike
  <2>2. CASE k \in StateNested
    <3>1. \A x \in K : StateOf(x) # NoState
      <4>1. \A x \in K : x[2] \in Nat /\ x[1] = k
        BY <1>1, <1>11, <2>2
      <4> QED BY <2>2, <4>1, GeographyAssumption DEF StateOf
    <3>2. rivals = K
      BY <1>11, <1>13, <3>1
    <3>3. CASE ~ (Cardinality(homes) > 1)
      <4>1. PICK lead \in K : pop(lead) = MaxPop(c, K)
        BY <1>3, <1>8
      <4> DEFINE of == [x \in K |-> StateOf(x)]
      <4>2. homes = {of[x] : x \in K}
        BY <3>2
      <4>3. IsFiniteSet({of[x] : x \in K})
        <5>1. DOMAIN of = K /\ of = [x \in K |-> of[x]] /\ IsFiniteSet(K)
          BY <1>3
        <5> HIDE DEF of, K
        <5> QED BY <5>1, ImagesFinite
      <4>4. \A u, v \in homes : u = v
        <5> HIDE DEF homes, of
        <5> QED BY <3>3, <4>2, <4>3, OnlyOne
      <4>5. \A x \in K : StateOf(x) \in homes
        BY <4>2
      <4> HIDE DEF homes, of, K
      <4>6. \A x \in K : Alike(x, lead)
        BY <1>11, <4>1, <4>4, <4>5 DEF Alike
      <4> QED BY <4>1, <4>6
    <3>4. CASE HasDominantState(c, ranked, rivals)
      <4>1. AreRanked(c, ranked, K) /\ Len(ranked) \in Nat
        <5>1. IsFiniteSet(K) /\ K \subseteq scored /\ \A x \in K : RowIsTyped(c.rows[x])
          BY <1>1, <1>3
        <5> HIDE DEF K
        <5> QED BY <1>1, <1>8, <5>1 DEF AreRanked
      <4>2. HasDominantState(c, ranked, K)
        BY <3>2, <3>4
      <4> HIDE DEF K, rivals, homes
      <4>3. PICK lead \in K :
              /\ Pop(c.rows[lead].pop) = MaxPop(c, K)
              /\ \A x \in K : \/ StateOf(x) = StateOf(lead)
                              \/ Ratio * Pop(c.rows[x].pop) <= Pop(c.rows[lead].pop)
        BY <4>1, <4>2, DominantLeads
      <4> QED BY <1>11, <4>3 DEF Alike, pop
    <3> QED BY <1>10, <3>3, <3>4
  <2> QED BY <2>1, <2>2
<1>15. PICK lead \in K : /\ pop(lead) = MaxPop(c, K)
                         /\ \A x \in K : Ratio * pop(x) <= pop(lead) \/ Alike(x, lead)
  BY <1>14
<1>16. ASSUME NEW x \in T \cap E PROVE Ratio * pop(x) <= pop(lead)
  <2>1. PICK y \in nontowns : pop(y) = MaxPop(c, nontowns)
    <3>1. nontowns \subseteq E /\ nontowns # {}
      BY <1>7, <1>16 DEF nontowns
    <3> QED BY <1>3, <3>1
  <2>2. y \in E /\ pop(y) \in Nat /\ y[1] # Town
    BY <1>3 DEF nontowns
  <2>3. y \in K => pop(y) <= MaxPop(c, K)
    BY <1>3
  <2>4. y \in B => pop(y) <= MaxPop(c, K)
    <3> SUFFICES ASSUME y \in B PROVE pop(y) <= MaxPop(c, K)
      OBVIOUS
    <3>1. states \subseteq E /\ states # {}
      BY <1>5 DEF states
    <3>2. PICK z \in states : pop(z) = MaxPop(c, states)
      BY <1>3, <3>1
    <3>3. pop(z) <= MaxPop(c, K) /\ pop(z) \in Nat /\ MaxPop(c, K) \in Nat
      BY <1>3, <1>6, <3>1
    <3>4. pop(z) >= Ratio * pop(y)
      BY <1>4, <3>2
    <3> HIDE DEF K
    <3> QED BY <2>2, <3>3, <3>4 DEF Ratio
  <2>5. y \in K \/ y \in B
    BY <1>4, <2>2
  <2>6. Ratio * pop(x) <= pop(y) /\ pop(x) \in Nat
    BY <1>3, <1>4, <2>1
  <2>7. pop(lead) = MaxPop(c, K) /\ MaxPop(c, K) \in Nat
    BY <1>3, <1>15
  <2> HIDE DEF K
  <2> QED BY <2>2, <2>3, <2>4, <2>5, <2>6, <2>7 DEF Ratio
<1>17. lead \in E /\ lead \notin told
  BY <1>10, <1>15
<1>18. ASSUME NEW x \in E
       PROVE  x \in told \/ Ratio * pop(x) <= pop(lead) \/ Alike(x, lead)
  <2>1. CASE x \in K
    BY <1>15, <2>1
  <2>2. CASE x \in T
    BY <1>16, <2>2
  <2>3. CASE x \in B
    BY <1>9, <1>10, <1>12, <2>3
  <2> QED BY <2>1, <2>2, <2>3
<1> HIDE DEF told
<1>19. \E ld \in E \ told : \A x \in E : x \in told \/ Ratio * pop(x) <= pop(ld) \/ Alike(x, ld)
  BY <1>17, <1>18
<1> QED BY <1>1, <1>19 DEF told, E, pop

\* What a search by name alone answers mentions every namesake that matters.
LEMMA NameTells ==
  ASSUME NEW text, IsPublished(text), open = Assemble(text),
         NEW q, q.county = <<>>, q.tail = <<>>, q.kind = NoKind, q.state = NoState,
         q.text \notin Short, q.geoid \notin DOMAIN open.rows,
         MatchesFit(open, q.text), Normal(Normal(q.text)) = Normal(q.text),
         ResolvePlace(open, q).status = "ok",
         NEW told, told = ResolvePlace(open, q).passed \ {ResolvePlace(open, q).candidates[1]},
         ~(Namesakes(q) \subseteq told)
  PROVE  \E lead \in Namesakes(q) \ told : \A id \in Namesakes(q) :
           \E one \in {id} \cup {t \in Namesakes(q) : Twin(id, t)} : one \in told \/ Outshone(one, lead)
<1>0. PICK c : c = open
  OBVIOUS
<1> DEFINE a == AskedOf(q, SplitState(c, q.tail))
           M == Namesakes(q)
<1>1. /\ IsFiniteSet(DOMAIN c.rows)
      /\ \A o \in DOMAIN c.rows : /\ o \in Seq(Nat) /\ RowIsTyped(c.rows[o])
                                  /\ (o[1] \in StateNested => o[2] \in Nat)
  <2>1. c.rows = Entities(text)
    BY <1>0 DEF Assemble
  <2> QED BY <2>1, CatalogFinite, EntitiesFormed, StateNumber DEF IdIsFormed
<1>2. a.text = q.text /\ a.county = <<>> /\ a.state = NoState /\ a.levels = Levels
  <2>1. StateOption(NoState) = NoState
    BY GeographyAssumption DEF StateOption
  <2>2. Normal(<<>>) = <<>>
    BY DEF Normal
  <2>3. LevelsOf(NoKind) = Levels
    BY KindsAssumption DEF LevelsOf
  <2>4. SplitState(c, <<>>) = NoState
    BY DEF SplitState
  <2> QED BY <2>1, <2>2, <2>3, <2>4 DEF AskedOf
<1>3. ResolvePlace(c, q) = ResolveAsked(c, q, a)
  BY <1>0 DEF ResolvePlace, ResolveByName
<1>4. M = NamedAs(c, a)
  BY <1>0 DEF Namesakes, NamedAs
<1> HIDE DEF a, M
<1>5. M = {id \in Search(c, a) : MatchOf(c, a)[id] = 2}
  BY <1>0, <1>1, <1>2, <1>4, NameFinds
<1> DEFINE E == ExactOf(c, q, a)
<1>6. ScoredOf(c, q, a) = FoldTownTwins(c, Search(c, a))
  BY <1>2 DEF ScoredOf, Kept, InCounty, MetrosAsFallback
<1>7. E \subseteq M
  BY <1>5, <1>6 DEF ExactOf, Exact, FoldTownTwins
<1>8. ASSUME NEW id \in M, id \notin E PROVE \E one \in E : Twin(id, one)
  <2>1. id \in Search(c, a) /\ MatchOf(c, a)[id] = 2
    BY <1>5, <1>8
  <2>2. PICK p \in Search(c, a) : id[1] = Town /\ p[1] = Place /\ id \in ParentsOf(c, p)
    BY <1>6, <1>8, <2>1 DEF ExactOf, Exact, FoldTownTwins
  <2>3. Search(c, a) \subseteq DOMAIN c.rows /\ c.rows = Entities(text)
    BY <1>0, SearchListed DEF Assemble
  <2>4. Normal(q.text) \in {Normal(n) : n \in NamesOf(c, id)}
    BY <1>2, <1>4, <1>8 DEF NamedAs
  <2>5. Normal(q.text) \in {Normal(n) : n \in NamesOf(c, p)}
    BY <1>0, <2>1, <2>2, <2>3, <2>4, TwinNamed
  <2>6. MatchOf(c, a)[p] = 2
    BY <1>2, <2>5 DEF MatchOf, Matches, Match
  <2>7. p \in E
    BY <1>6, <2>2, <2>6 DEF ExactOf, Exact, FoldTownTwins, Town, Place
  <2> QED BY <1>0, <2>2, <2>7 DEF Twin
<1>9. E # {}
  <2>1. PICK id \in M : TRUE
    BY DEF M
  <2> QED BY <1>8, <2>1
<1>10. ResolveAsked(c, q, a).status = "ok"
       /\ told = ResolveAsked(c, q, a).passed \ {ResolveAsked(c, q, a).candidates[1]}
  BY <1>0, <1>3
<1> HIDE DEF E
<1>11. PICK lead \in E \ told : \A x \in E :
          \/ x \in told
          \/ Ratio * Pop(c.rows[x].pop) <= Pop(c.rows[lead].pop)
          \/ Alike(x, lead)
  BY <1>1, <1>2, <1>9, <1>10, LedByOne DEF E
<1>12. \A x \in E : x \in told \/ Outshone(x, lead)
  BY <1>0, <1>11 DEF Outshone
<1>13. ASSUME NEW id \in M PROVE \E one \in {id} \cup {t \in M : Twin(id, t)} : one \in told \/ Outshone(one, lead)
  BY <1>7, <1>8, <1>12
<1>14. \E ld \in M \ told : \A id \in M :
         \E one \in {id} \cup {t \in M : Twin(id, t)} : one \in told \/ Outshone(one, ld)
  BY <1>7, <1>13
<1> QED BY <1>14 DEF M

\* Resolving a place answers or asks.
LEMMA OkOrAsked == \A c, q : ResolvePlace(c, q).status \in {"ok", "ambiguous"}
<1> SUFFICES ASSUME NEW c, NEW q PROVE ResolvePlace(c, q).status \in {"ok", "ambiguous"}
  OBVIOUS
<1>1. \A st, cs, why, passed : Reply(st, cs, why, passed).status = st
  BY DEF Reply
<1>2. \A a, exact, weak, byState, ranked : Decide(c, q, a, exact, weak, byState, ranked).status \in {"ok", "ambiguous"}
  BY <1>1 DEF Decide
<1>3. \A a : ResolveAsked(c, q, a).status \in {"ok", "ambiguous"}
  BY <1>2 DEF ResolveAsked, Judge, JudgeScored, JudgeExact, JudgeKept
<1> QED BY <1>1, <1>3 DEF ResolvePlace, ResolveByName
=============================================================================
