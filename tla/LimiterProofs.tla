---------------------------- MODULE LimiterProofs ----------------------------
(***************************************************************************)
(* Proofs about the limiter, and that it implements DailyBudget: for any   *)
(* number of containers, queries, sources, callers and days, and any       *)
(* configured limits.                                                      *)
(*                                                                         *)
(* The argument.  A counter of the table bounds from above the set of      *)
(* queries that hold one of its units, because a unit is added in the same *)
(* step as its holder (CountsHolders), and the conditional write keeps it  *)
(* at or below the key's ceiling (WithinCeiling).  A counter never         *)
(* decreases, so "the store refused this request" stays a fact about the   *)
(* counter (RefusedMeansFull), which is what makes the memory of spent     *)
(* keys sound.  A query reaches the service budget only past its share     *)
(* (ShareFirst).                                                           *)
(***************************************************************************)
EXTENDS Limiter, FiniteSetTheorems, TLAPS

-----------------------------------------------------------------------------
(* The inductive invariant.                                                *)

Started == {q \in Query : pc[q] # "idle"}

Holders(k) == PaidShare(k) \cup PaidService(k)

CountsHolders ==
  \A k \in Key : IsFiniteSet(Holders(k)) /\ Cardinality(Holders(k)) <= store[k]

WithinCeiling ==
  \A k \in Key : Limit(k) # NoLimit =>
    /\ store[k] <= Ceiling(k)
    /\ \A c \in Container : fallback[c][k] <= Limit(k)

\* A query awaits the store only for a key that has a limit.
Metered ==
  \A q \in Query :
    /\ pc[q] = "share" => Limit(ShareKeyOf(job[q])) # NoLimit
    /\ pc[q] = "service" => job[q].kind = "upstream" /\ ServiceDaily[job[q].source] # NoLimit

ShareFirst ==
  \A q \in Query :
    /\ pc[q] = "idle" => shareBy[q] = "no" /\ serviceBy[q] = "no"
    /\ pc[q] = "service" \/ serviceBy[q] # "no" =>
         Limit(ShareKeyOf(job[q])) = NoLimit \/ shareBy[q] # "no"

RefusedMeansFull ==
  \A q \in Query :
    pc[q] \in Stage /\ wire[q] = "refused" => store[AwaitedKey(q)] >= Limit(AwaitedKey(q))

IInv ==
  /\ TypeOK
  /\ IsFiniteSet(Started)
  /\ CountsHolders
  /\ WithinCeiling
  /\ Metered
  /\ ShareFirst
  /\ RefusedMeansFull
  /\ OverIsSound

-----------------------------------------------------------------------------
(* Keys and limits.                                                        *)

\* The keys a call counts are keys.
LEMMA KeysOfJobs ==
  ASSUME NEW j \in Job
  PROVE  ShareKeyOf(j) \in Key /\ ServiceKeyOf(j) \in Key
  BY DEF Job, Key, ShareKeyOf, ServiceKeyOf

\* A limit is a count or absent, and a service key's limit is its source's.
LEMMA LimitType ==
  ASSUME NEW k \in Key
  PROVE  Limit(k) \in Count
  BY ConfigAssumption DEF Key, Limit

\* A service key's limit is its source's budget.
LEMMA ServiceKeyLimit ==
  ASSUME NEW j \in Job
  PROVE  Limit(ServiceKeyOf(j)) = ServiceDaily[j.source]
  BY DEF Limit, ServiceKeyOf

\* The ceiling of a limited key is a number no smaller than its limit.
LEMMA CeilingType ==
  ASSUME NEW k \in Key, Limit(k) # NoLimit
  PROVE  Limit(k) \in Nat /\ Ceiling(k) \in Nat /\ Limit(k) <= Ceiling(k)
  BY LimitType DEF Count, Ceiling

\* What a query awaits is a key, with a limit.
LEMMA AwaitedIsMetered ==
  ASSUME TypeOK, Metered, NEW q \in Query, pc[q] \in Stage
  PROVE  AwaitedKey(q) \in Key /\ Limit(AwaitedKey(q)) \in Nat
<1>1. job[q] \in Job
  BY DEF TypeOK, Stage
<1>2. AwaitedKey(q) \in Key
  BY <1>1, KeysOfJobs DEF AwaitedKey
<1>3. Limit(AwaitedKey(q)) # NoLimit
  BY <1>1, ServiceKeyLimit DEF AwaitedKey, Metered, Stage
<1> QED
  BY <1>2, <1>3, LimitType DEF Count

-----------------------------------------------------------------------------
(* Type correctness.                                                       *)

\* Where a query can go once its share is settled.
LEMMA AfterShareType ==
  ASSUME NEW j
  PROVE  AfterShare(j) \in {"granted", "refused", "service"}
  BY DEF AfterShare

\* Where a query can go when it begins.
LEMMA AtBeginType ==
  ASSUME NEW j
  PROVE  AtBegin(j) \in {"granted", "refused", "share", "service"}
  BY AfterShareType DEF AtBegin

\* Types hold at the start, and every step keeps them.
LEMMA TypeInit == Init => TypeOK
  BY ConfigAssumption DEF Init, TypeOK, Day, Stage

\* Each step types what it assigns.
LEMMA TypeStep == TypeOK /\ [Next]_vars => TypeOK'
<1> SUFFICES ASSUME TypeOK, [Next]_vars PROVE TypeOK'
  OBVIOUS
<1> USE DEF TypeOK, GoTo, Stage
<1>1. ASSUME NEW q \in Query, NEW j \in Workload, Begin(q, j) PROVE TypeOK'
  <2>1. j \in Job
    BY WorkloadAssumption
  <2> QED
    BY <1>1, <2>1, AtBeginType DEF Begin
<1>2. ASSUME NEW q \in Query, ShareSettled(q) PROVE TypeOK'
  BY <1>2, AfterShareType DEF ShareSettled, Resumes
<1>3. ASSUME NEW q \in Query, StoreRefused(q) PROVE TypeOK'
  <2>1. job[q] \in Job
    BY <1>3 DEF StoreRefused, Resumes
  <2>2. AwaitedKey(q) \in Key
    BY <2>1, KeysOfJobs DEF AwaitedKey
  <2>3. over' \in [Container -> SUBSET Key]
    BY <1>3, <2>2 DEF StoreRefused
  <2> QED
    BY <1>3, <2>3 DEF StoreRefused, Resumes
<1>4. ASSUME NEW q \in Query, ServiceCharged(q) PROVE TypeOK'
  BY <1>4 DEF ServiceCharged, Resumes
<1>5. ASSUME NEW q \in Query, ServiceDegraded(q) PROVE TypeOK'
  <2>1. job[q] \in Job /\ job[q].container \in Container
    BY <1>5 DEF ServiceDegraded, Resumes, Job
  <2>2. ServiceKeyOf(job[q]) \in Key
    BY <2>1, KeysOfJobs
  <2> DEFINE c == job[q].container
             k == ServiceKeyOf(job[q])
  <2>3. CASE FallbackAdmits(c, k)
    <3>1. fallback' = [fallback EXCEPT ![c][k] = @ + 1] /\ UNCHANGED over
      BY <1>5, <2>3 DEF ServiceDegraded
    <3>2. fallback' \in [Container -> [Key -> Nat]]
      BY <3>1, <2>1, <2>2
    <3> QED
      BY <1>5, <2>3, <3>1, <3>2 DEF ServiceDegraded, Resumes
  <2>4. CASE ~ FallbackAdmits(c, k)
    <3>1. over' = [over EXCEPT ![c] = @ \cup {k}] /\ UNCHANGED fallback
      BY <1>5, <2>4 DEF ServiceDegraded
    <3>2. over' \in [Container -> SUBSET Key]
      BY <3>1, <2>1, <2>2
    <3> QED
      BY <1>5, <2>4, <3>1, <3>2 DEF ServiceDegraded, Resumes
  <2> QED
    BY <2>3, <2>4
<1>6. ASSUME NEW q \in Query, NEW r \in {"applied", "failed", "resent"}, StoreAdds(q, r)
      PROVE  TypeOK'
  <2>1. job[q] \in Job
    BY <1>6 DEF StoreAdds, Out
  <2>2. AwaitedKey(q) \in Key
    BY <2>1, KeysOfJobs DEF AwaitedKey
  <2>3. store' \in [Key -> Nat]
    BY <1>6, <2>2 DEF StoreAdds
  <2> QED
    BY <1>6, <2>3 DEF StoreAdds, Out
<1>7. ASSUME NEW q \in Query, NEW r \in {"refused", "failed"}, StoreAnswers(q, r)
      PROVE  TypeOK'
  BY <1>7 DEF StoreAnswers, Out
<1>8. CASE NextDay
  BY <1>8, ConfigAssumption DEF NextDay, Day
<1>9. ASSUME NEW c \in Container, Restart(c) PROVE TypeOK'
  BY <1>9 DEF Restart, RunningIn
<1>10. CASE UNCHANGED vars
  BY <1>10 DEF vars
<1> QED
  BY <1>1, <1>2, <1>3, <1>4, <1>5, <1>6, <1>7, <1>8, <1>9, <1>10
  DEF Next, Resume, StoreStep, StoreApplies, StoreAppliesUnheard, StoreAppliesResent,
      StoreRefuses, StoreFails

\* Every variable keeps its type, and a query has a request out exactly while
\* it waits for its share or the service budget.
THEOREM TypeCorrect == Spec => []TypeOK
<1>1. QED
  BY TypeInit, TypeStep, PTL DEF Spec

-----------------------------------------------------------------------------
(* Finite sets bounded by a counter.                                       *)

\* A subset of a bounded finite set has the same bound.
LEMMA SubsetBound ==
  ASSUME NEW S, NEW T, IsFiniteSet(S), T \subseteq S,
         NEW n \in Nat, NEW m \in Nat, Cardinality(S) <= n, n <= m
  PROVE  IsFiniteSet(T) /\ Cardinality(T) <= m
<1>1. IsFiniteSet(T) /\ Cardinality(T) <= Cardinality(S)
  BY FS_Subset
<1>2. Cardinality(T) \in Nat /\ Cardinality(S) \in Nat
  BY <1>1, FS_CardinalityType
<1> QED
  BY <1>1, <1>2

\* One more element costs one more.
LEMMA AddedBound ==
  ASSUME NEW S, NEW T, NEW x, IsFiniteSet(S), T \subseteq S \cup {x},
         NEW n \in Nat, NEW m \in Nat, Cardinality(S) <= n, n + 1 <= m
  PROVE  IsFiniteSet(T) /\ Cardinality(T) <= m
<1>1. IsFiniteSet(S \cup {x}) /\ Cardinality(S \cup {x}) <= Cardinality(S) + 1
  <2>1. Cardinality(S) \in Nat
    BY FS_CardinalityType
  <2> QED
    BY <2>1, FS_AddElement
<1>2. Cardinality(S) \in Nat
  BY FS_CardinalityType
<1>3. Cardinality(S \cup {x}) <= n + 1
  BY <1>1, <1>2, FS_CardinalityType
<1>4. n + 1 \in Nat
  OBVIOUS
<1> QED
  BY <1>1, <1>3, <1>4, SubsetBound

-----------------------------------------------------------------------------
(* The holders of a key's units, step by step.                             *)

\* A step that writes no counter gives nobody a unit.
LEMMA HoldersQuiet ==
  ASSUME TypeOK, ShareFirst, Metered, [Next]_vars, UNCHANGED store, NEW k \in Key,
         ~ \E q \in Query, r \in {"applied", "failed", "resent"} : StoreAdds(q, r)
  PROVE  Holders(k)' \subseteq Holders(k)
<1> USE DEF Holders, PaidShare, PaidService, TypeOK, GoTo, Stage
<1>1. ASSUME NEW q \in Query, NEW j \in Workload, Begin(q, j)
      PROVE  Holders(k)' \subseteq Holders(k)
  BY <1>1, AtBeginType DEF Begin, ShareFirst
<1>2. ASSUME NEW q \in Query, ShareSettled(q) PROVE Holders(k)' \subseteq Holders(k)
  BY <1>2, AfterShareType DEF ShareSettled, Resumes
<1>3. ASSUME NEW q \in Query, StoreRefused(q) PROVE Holders(k)' \subseteq Holders(k)
  BY <1>3 DEF StoreRefused, Resumes
<1>4. ASSUME NEW q \in Query, ServiceCharged(q) PROVE Holders(k)' \subseteq Holders(k)
  BY <1>4 DEF ServiceCharged, Resumes
<1>5. ASSUME NEW q \in Query, ServiceDegraded(q) PROVE Holders(k)' \subseteq Holders(k)
  BY <1>5 DEF ServiceDegraded, Resumes
<1>6. ASSUME NEW q \in Query, NEW r \in {"refused", "failed"}, StoreAnswers(q, r)
      PROVE  Holders(k)' \subseteq Holders(k)
  BY <1>6 DEF StoreAnswers, Out
<1>7. CASE NextDay
  BY <1>7 DEF NextDay
<1>8. ASSUME NEW c \in Container, Restart(c) PROVE Holders(k)' \subseteq Holders(k)
  BY <1>8 DEF Restart
<1>9. CASE UNCHANGED vars
  BY <1>9 DEF vars
<1> QED
  BY <1>1, <1>2, <1>3, <1>4, <1>5, <1>6, <1>7, <1>8, <1>9
  DEF Next, Resume, StoreStep, StoreApplies, StoreAppliesUnheard, StoreAppliesResent,
      StoreRefuses, StoreFails

\* The store adds a unit to one key, and to nobody but the query that asked.
LEMMA HoldersAdd ==
  ASSUME TypeOK, Metered, NEW q \in Query, NEW r \in {"applied", "failed", "resent"},
         StoreAdds(q, r), NEW k \in Key
  PROVE  /\ k = AwaitedKey(q) => Holders(k)' \subseteq Holders(k) \cup {q}
         /\ k # AwaitedKey(q) => Holders(k)' \subseteq Holders(k)
         /\ store'[k] = IF k = AwaitedKey(q) THEN store[k] + 1 ELSE store[k]
<1>1. pc[q] \in Stage
  BY DEF StoreAdds, Out, TypeOK
<1>2. store'[k] = IF k = AwaitedKey(q) THEN store[k] + 1 ELSE store[k]
  BY DEF StoreAdds, TypeOK
<1>3. \A p \in Query : p # q /\ p \in Holders(k)' => p \in Holders(k)
  BY DEF StoreAdds, TypeOK, Holders, PaidShare, PaidService
<1>4. q \in Holders(k)' /\ k # AwaitedKey(q) => q \in Holders(k)
  BY <1>1 DEF StoreAdds, TypeOK, Holders, PaidShare, PaidService, AwaitedKey, Stage
<1>5. Holders(k)' \subseteq Query
  BY DEF Holders, PaidShare, PaidService
<1> QED
  BY <1>2, <1>3, <1>4, <1>5

-----------------------------------------------------------------------------
(* The conjuncts of the invariant, one lemma each.                         *)

\* Every step that writes the table is the store adding a unit.
LEMMA TableWrites ==
  ASSUME TypeOK, [Next]_vars
  PROVE  \/ UNCHANGED store /\ ~ \E q \in Query, r \in {"applied", "failed", "resent"} :
                                    StoreAdds(q, r)
         \/ \E q \in Query, r \in {"applied", "failed", "resent"} : StoreAdds(q, r)
<1>1. \/ UNCHANGED store
      \/ \E q \in Query, r \in {"applied", "failed", "resent"} : StoreAdds(q, r)
  BY DEF Next, Begin, Resume, ShareSettled, StoreRefused, ServiceCharged, ServiceDegraded,
         StoreStep, StoreApplies, StoreAppliesUnheard, StoreAppliesResent, StoreRefuses,
         StoreFails, StoreAnswers, NextDay, Restart, vars
<1> QED
  BY <1>1

\* Counters never decrease.
LEMMA StoreGrows ==
  ASSUME TypeOK, Metered, [Next]_vars, NEW k \in Key
  PROVE  store'[k] >= store[k] /\ store[k] \in Nat /\ store'[k] \in Nat
<1>1. store[k] \in Nat /\ store'[k] \in Nat
  BY TypeStep DEF TypeOK
<1>2. CASE UNCHANGED store
  BY <1>1, <1>2
<1>3. ASSUME NEW q \in Query, NEW r \in {"applied", "failed", "resent"}, StoreAdds(q, r)
      PROVE  store'[k] >= store[k]
  BY <1>1, <1>3, HoldersAdd
<1> QED
  BY <1>1, <1>2, <1>3, TableWrites

\* A unit gets its holder in the step that adds it, and no holder a second one.
LEMMA CountsHoldersStep ==
  TypeOK /\ Metered /\ ShareFirst /\ CountsHolders /\ [Next]_vars => CountsHolders'
<1> SUFFICES ASSUME TypeOK, Metered, ShareFirst, CountsHolders, [Next]_vars, NEW k \in Key
             PROVE  IsFiniteSet(Holders(k)') /\ Cardinality(Holders(k)') <= store'[k]
  BY DEF CountsHolders
<1>1. /\ IsFiniteSet(Holders(k)) /\ Cardinality(Holders(k)) <= store[k]
      /\ store'[k] >= store[k] /\ store[k] \in Nat /\ store'[k] \in Nat
  BY StoreGrows DEF CountsHolders
<1>2. CASE Holders(k)' \subseteq Holders(k)
  BY <1>1, <1>2, SubsetBound
<1>3. ASSUME NEW q \in Query, NEW r \in {"applied", "failed", "resent"}, StoreAdds(q, r)
      PROVE  IsFiniteSet(Holders(k)') /\ Cardinality(Holders(k)') <= store'[k]
  <2>1. CASE k # AwaitedKey(q)
    BY <1>2, <1>3, <2>1, HoldersAdd
  <2>2. CASE k = AwaitedKey(q)
    <3>1. Holders(k)' \subseteq Holders(k) \cup {q} /\ store[k] + 1 <= store'[k]
      BY <1>1, <1>3, <2>2, HoldersAdd
    <3> QED
      BY <1>1, <3>1, AddedBound
  <2> QED
    BY <2>1, <2>2
<1>4. CASE ~ \E q \in Query, r \in {"applied", "failed", "resent"} : StoreAdds(q, r)
  <2>1. Holders(k)' \subseteq Holders(k)
    BY <1>4, TableWrites, HoldersQuiet
  <2> QED
    BY <1>2, <2>1
<1> QED
  BY <1>3, <1>4

\* A step starts at most one query.
LEMMA StartedStep == TypeOK /\ IsFiniteSet(Started) /\ [Next]_vars => IsFiniteSet(Started')
<1> SUFFICES ASSUME TypeOK, IsFiniteSet(Started), [Next]_vars PROVE IsFiniteSet(Started')
  OBVIOUS
<1> USE DEF Started, TypeOK, GoTo, Stage
<1>1. ASSUME NEW q \in Query, NEW j \in Workload, Begin(q, j) PROVE IsFiniteSet(Started')
  <2>1. Started' \subseteq Started \cup {q}
    BY <1>1 DEF Begin
  <2>2. IsFiniteSet(Started \cup {q})
    BY FS_AddElement
  <2> QED
    BY <2>1, <2>2, FS_Subset
<1>2. CASE ~ \E q \in Query, j \in Workload : Begin(q, j)
  <2>1. Started' \subseteq Started
    BY <1>2, AfterShareType
    DEF Next, Resume, Resumes, ShareSettled, StoreRefused, ServiceCharged, ServiceDegraded,
        StoreStep, StoreAdds, StoreApplies, StoreAppliesUnheard, StoreAppliesResent,
        StoreRefuses, StoreFails, StoreAnswers, NextDay, Restart, vars
  <2> QED
    BY <2>1, FS_Subset
<1> QED
  BY <1>1, <1>2

\* A query goes to a stage only through a key with a limit.
LEMMA MeteredStep == TypeOK /\ Metered /\ [Next]_vars => Metered'
<1> SUFFICES ASSUME TypeOK, Metered, [Next]_vars PROVE Metered'
  OBVIOUS
<1> USE DEF TypeOK, GoTo, Stage, Metered
<1>1. ASSUME NEW j \in Job
      PROVE  /\ AtBegin(j) = "share" => Limit(ShareKeyOf(j)) # NoLimit
             /\ AtBegin(j) = "service" \/ AfterShare(j) = "service" =>
                  j.kind = "upstream" /\ ServiceDaily[j.source] # NoLimit
  BY DEF AtBegin, AfterShare, shareCounted, serviceCounted, Job
<1>2. ASSUME NEW q \in Query, NEW j \in Workload, Begin(q, j) PROVE Metered'
  <2>1. j \in Job
    BY WorkloadAssumption
  <2>2. /\ job' = [job EXCEPT ![q] = j]
        /\ pc' = [pc EXCEPT ![q] = AtBegin(j)]
    BY <1>2 DEF Begin
  <2> QED
    BY <2>1, <2>2, <1>1
<1>3. ASSUME NEW q \in Query, ShareSettled(q) PROVE Metered'
  <2>1. job[q] \in Job /\ pc' = [pc EXCEPT ![q] = AfterShare(job[q])] /\ job' = job
    BY <1>3 DEF ShareSettled, Resumes
  <2>2. AfterShare(job[q]) # "share"
    BY AfterShareType
  <2> QED
    BY <2>1, <2>2, <1>1
<1>4. ASSUME job' = job, \A q \in Query : pc'[q] \in Stage => pc'[q] = pc[q]
      PROVE  Metered'
  BY <1>4
<1>5. ASSUME NEW q \in Query, StoreRefused(q) \/ ServiceCharged(q) \/ ServiceDegraded(q)
      PROVE  Metered'
  <2>1. job' = job /\ (pc' = [pc EXCEPT ![q] = "refused"] \/ pc' = [pc EXCEPT ![q] = "granted"])
    BY <1>5 DEF StoreRefused, ServiceCharged, ServiceDegraded
  <2> QED
    BY <2>1, <1>4
<1>6. ASSUME NEW q \in Query, StoreStep(q) PROVE Metered'
  <2>1. job' = job /\ pc' = pc
    BY <1>6 DEF StoreStep, StoreAdds, StoreApplies, StoreAppliesUnheard,
                StoreAppliesResent, StoreRefuses, StoreFails, StoreAnswers
  <2> QED
    BY <2>1, <1>4
<1>7. ASSUME NextDay \/ (\E c \in Container : Restart(c)) \/ UNCHANGED vars PROVE Metered'
  <2>1. job' = job /\ pc' = pc
    BY <1>7 DEF NextDay, Restart, vars
  <2> QED
    BY <2>1, <1>4
<1> QED
  BY <1>2, <1>3, <1>5, <1>6, <1>7 DEF Next, Resume

\* The fallback counts of a container change in two actions only.
LEMMA FallbackWrites ==
  ASSUME TypeOK, [Next]_vars, NEW c \in Container, NEW k \in Key,
         fallback'[c][k] # fallback[c][k]
  PROVE  \/ fallback'[c][k] = 0
         \/ FallbackAdmits(c, k) /\ fallback'[c][k] = fallback[c][k] + 1
<1> USE DEF TypeOK
<1>1. ASSUME NEW q \in Query, ServiceDegraded(q)
      PROVE  FallbackAdmits(c, k) /\ fallback'[c][k] = fallback[c][k] + 1
  <2> DEFINE d == job[q].container
             l == ServiceKeyOf(job[q])
  <2>1. job[q] \in Job /\ d \in Container
    BY <1>1 DEF ServiceDegraded, Resumes, Job
  <2>2. l \in Key
    BY <2>1, KeysOfJobs
  <2>3. FallbackAdmits(d, l) /\ fallback' = [fallback EXCEPT ![d][l] = @ + 1]
    BY <1>1 DEF ServiceDegraded
  <2> QED
    BY <2>1, <2>2, <2>3
<1>2. ASSUME NEW d \in Container, Restart(d) PROVE fallback'[c][k] = 0
  BY <1>2 DEF Restart
<1>3. \/ fallback' = fallback
      \/ \E q \in Query : ServiceDegraded(q)
      \/ \E d \in Container : Restart(d)
  BY DEF Next, Begin, Resume, ShareSettled, StoreRefused, ServiceCharged,
         StoreStep, StoreAdds, StoreApplies, StoreAppliesUnheard, StoreAppliesResent,
         StoreRefuses, StoreFails, StoreAnswers, NextDay, vars
<1> QED
  BY <1>1, <1>2, <1>3

\* The conditional write, and the fallback, stop at the limit.
LEMMA WithinCeilingStep == TypeOK /\ Metered /\ WithinCeiling /\ [Next]_vars => WithinCeiling'
<1> SUFFICES ASSUME TypeOK, Metered, WithinCeiling, [Next]_vars,
                    NEW k \in Key, Limit(k) # NoLimit
             PROVE  store'[k] <= Ceiling(k) /\ \A c \in Container : fallback'[c][k] <= Limit(k)
  BY DEF WithinCeiling, Limit, Ceiling
<1>1. Limit(k) \in Nat /\ Ceiling(k) \in Nat
  BY CeilingType
<1>2. store[k] \in Nat /\ store[k] <= Ceiling(k)
  BY DEF WithinCeiling, TypeOK
<1>3. store'[k] <= Ceiling(k)
  <2>1. CASE UNCHANGED store
    BY <1>2, <2>1
  <2>2. ASSUME NEW q \in Query, NEW r \in {"applied", "failed", "resent"}, StoreAdds(q, r)
        PROVE  store'[k] <= Ceiling(k)
    <3>1. CASE k # AwaitedKey(q)
      BY <1>2, <2>2, <3>1, HoldersAdd
    <3>2. CASE k = AwaitedKey(q)
      <4>1. store'[k] = store[k] + 1
        BY <2>2, <3>2, HoldersAdd
      <4>2. store[k] = 0 \/ store[k] <= Limit(k) - 1
        BY <2>2, <3>2 DEF StoreAdds, Admits
      <4> QED
        BY <1>1, <1>2, <4>1, <4>2 DEF Ceiling
    <3> QED
      BY <3>1, <3>2
  <2> QED
    BY <2>1, <2>2, TableWrites
<1>4. ASSUME NEW c \in Container PROVE fallback'[c][k] <= Limit(k)
  <2>1. fallback[c][k] \in Nat /\ fallback[c][k] <= Limit(k)
    BY DEF WithinCeiling, TypeOK
  <2> QED
    BY <1>1, <2>1, FallbackWrites DEF FallbackAdmits
<1> QED
  BY <1>3, <1>4

\* A query gets to the service budget past its share, or has none.
LEMMA ShareFirstStep == TypeOK /\ Metered /\ ShareFirst /\ [Next]_vars => ShareFirst'
<1> SUFFICES ASSUME TypeOK, Metered, ShareFirst, [Next]_vars PROVE ShareFirst'
  OBVIOUS
<1> USE DEF TypeOK, GoTo, Stage, ShareFirst
<1>1. ASSUME NEW q \in Query, NEW j \in Workload, Begin(q, j) PROVE ShareFirst'
  <2>1. AtBegin(j) = "service" => Limit(ShareKeyOf(j)) = NoLimit
    BY DEF AtBegin, shareCounted
  <2>2. /\ AtBegin(j) # "idle"
        /\ job' = [job EXCEPT ![q] = j]
        /\ pc' = [pc EXCEPT ![q] = AtBegin(j)]
        /\ shareBy' = shareBy /\ serviceBy' = serviceBy /\ pc[q] = "idle"
    BY <1>1, AtBeginType DEF Begin
  <2> QED
    BY <2>1, <2>2 DEF Limit, ShareKeyOf
<1>2. ASSUME NEW q \in Query, ShareSettled(q) PROVE ShareFirst'
  <2>1. /\ pc' = [pc EXCEPT ![q] = AfterShare(job[q])]
        /\ \/ shareBy' = [shareBy EXCEPT ![q] = "store"]
           \/ shareBy' = [shareBy EXCEPT ![q] = "open"]
        /\ serviceBy' = serviceBy /\ job' = job
    BY <1>2 DEF ShareSettled
  <2>2. AfterShare(job[q]) # "idle"
    BY AfterShareType
  <2> QED
    BY <2>1, <2>2 DEF Limit, ShareKeyOf
<1>3. ASSUME NEW q \in Query, StoreRefused(q) PROVE ShareFirst'
  BY <1>3 DEF StoreRefused, Resumes, Limit, ShareKeyOf
<1>4. ASSUME NEW q \in Query, ServiceCharged(q) \/ ServiceDegraded(q) PROVE ShareFirst'
  <2>1. pc[q] = "service" /\ job' = job /\ shareBy' = shareBy
    BY <1>4 DEF ServiceCharged, ServiceDegraded, Resumes
  <2>2. \/ pc' = [pc EXCEPT ![q] = "granted"]
        \/ pc' = [pc EXCEPT ![q] = "refused"]
    BY <1>4 DEF ServiceCharged, ServiceDegraded
  <2>3. \A p \in Query : p # q => serviceBy'[p] = serviceBy[p]
    BY <1>4 DEF ServiceCharged, ServiceDegraded
  <2> QED
    BY <2>1, <2>2, <2>3 DEF Limit, ShareKeyOf
<1>5. ASSUME UNCHANGED <<pc, job, shareBy, serviceBy>> PROVE ShareFirst'
  BY <1>5 DEF Limit, ShareKeyOf
<1>6. ASSUME NEW q \in Query, StoreStep(q) PROVE ShareFirst'
  BY <1>5, <1>6 DEF StoreStep, StoreAdds, StoreApplies, StoreAppliesUnheard,
                    StoreAppliesResent, StoreRefuses, StoreFails, StoreAnswers
<1>7. ASSUME NextDay \/ (\E c \in Container : Restart(c)) \/ UNCHANGED vars PROVE ShareFirst'
  BY <1>5, <1>7 DEF NextDay, Restart, vars
<1> QED
  BY <1>1, <1>2, <1>3, <1>4, <1>6, <1>7 DEF Next, Resume

\* A refusal on the wire was put there by a counter at its limit, and the
\* query it answers has not moved since.
LEMMA WireRefused ==
  ASSUME TypeOK, [Next]_vars, NEW q \in Query, wire'[q] = "refused"
  PROVE  /\ pc'[q] = pc[q] /\ job'[q] = job[q] /\ pc[q] \in Stage
         /\ wire[q] = "refused" \/ ~ Admits(AwaitedKey(q))
<1> USE DEF TypeOK, GoTo, Stage
<1> DEFINE Goal == /\ pc'[q] = pc[q] /\ job'[q] = job[q]
                   /\ wire[q] = "refused" \/ (~ Admits(AwaitedKey(q)) /\ Out(q))
<1>1. ASSUME NEW p \in Query, NEW j \in Workload, Begin(p, j) PROVE Goal
  BY <1>1 DEF Begin
<1>2. ASSUME NEW p \in Query, Resume(p) PROVE Goal
  <2>1. job' = job /\ \E s : GoTo(p, s)
    BY <1>2 DEF Resume, ShareSettled, StoreRefused, ServiceCharged, ServiceDegraded
  <2>2. PICK s : GoTo(p, s)
    BY <2>1
  <2> QED
    BY <2>1, <2>2
<1>3. ASSUME NEW p \in Query, StoreStep(p) PROVE Goal
  BY <1>3 DEF StoreStep, StoreAdds, StoreApplies, StoreAppliesUnheard, StoreAppliesResent,
              StoreRefuses, StoreFails, StoreAnswers
<1>4. ASSUME NextDay \/ (\E c \in Container : Restart(c)) \/ UNCHANGED vars PROVE Goal
  BY <1>4 DEF NextDay, Restart, vars
<1>5. Goal
  BY <1>1, <1>2, <1>3, <1>4 DEF Next
<1> QED
  BY <1>5 DEF Out

\* A full counter stays full.
LEMMA RefusedMeansFullStep ==
  TypeOK /\ Metered /\ RefusedMeansFull /\ [Next]_vars => RefusedMeansFull'
<1> SUFFICES ASSUME TypeOK, Metered, RefusedMeansFull, [Next]_vars,
                    NEW q \in Query, pc'[q] \in Stage, wire'[q] = "refused"
             PROVE  (store[AwaitedKey(q)] >= Limit(AwaitedKey(q)))'
  BY DEF RefusedMeansFull, Stage
<1> DEFINE k == AwaitedKey(q)
<1>1. pc'[q] = pc[q] /\ job'[q] = job[q] /\ pc[q] \in Stage
  BY WireRefused
<1>2. k \in Key /\ Limit(k) \in Nat
  BY <1>1, AwaitedIsMetered
<1>3. store'[k] >= store[k] /\ store[k] \in Nat /\ store'[k] \in Nat
  BY <1>2, StoreGrows
<1>4. store[k] >= Limit(k)
  BY <1>1, <1>2, <1>3, WireRefused DEF RefusedMeansFull, Admits
<1>5. k' = k
  BY <1>1 DEF AwaitedKey
<1>6. store'[k] >= Limit(k)
  BY <1>2, <1>3, <1>4
<1> QED
  BY <1>5, <1>6 DEF Limit

\* How a key enters a container's memory.
LEMMA Remembered ==
  ASSUME TypeOK, Metered, RefusedMeansFull, [Next]_vars,
         NEW c \in Container, NEW k \in over'[c], k \notin over[c]
  PROVE  k \in Key /\ Spent(c, k)
<1> USE DEF TypeOK
<1>1. ASSUME NEW q \in Query, StoreRefused(q) PROVE k \in Key /\ Spent(c, k)
  <2>1. k = AwaitedKey(q) /\ pc[q] \in Stage /\ wire[q] = "refused"
    BY <1>1 DEF StoreRefused, Resumes, Stage
  <2>2. k \in Key /\ Limit(k) \in Nat
    BY <2>1, AwaitedIsMetered
  <2> QED
    BY <2>1, <2>2, ConfigAssumption DEF RefusedMeansFull, Spent
<1>2. ASSUME NEW q \in Query, ServiceDegraded(q) PROVE k \in Key /\ Spent(c, k)
  <2>1. c = job[q].container /\ k = ServiceKeyOf(job[q]) /\ ~ FallbackAdmits(c, k)
    BY <1>2 DEF ServiceDegraded
  <2>2. pc[q] = "service" /\ k = AwaitedKey(q)
    BY <1>2, <2>1 DEF ServiceDegraded, Resumes, AwaitedKey
  <2>3. k \in Key /\ Limit(k) \in Nat
    BY <2>2, AwaitedIsMetered DEF Stage
  <2>4. fallback[c][k] \in Nat
    BY <2>3
  <2>5. fallback[c][k] >= Limit(k)
    BY <2>1, <2>3, <2>4 DEF FallbackAdmits
  <2> QED
    BY <2>3, <2>5, ConfigAssumption DEF Spent
<1>3. \/ over' = over
      \/ \E q \in Query : StoreRefused(q) \/ ServiceDegraded(q)
      \/ \E d \in Container : over' = [over EXCEPT ![d] = {}]
  BY DEF Next, Begin, Resume, ShareSettled, ServiceCharged,
         StoreStep, StoreAdds, StoreApplies, StoreAppliesUnheard, StoreAppliesResent,
         StoreRefuses, StoreFails, StoreAnswers, NextDay, Restart, vars
<1> QED
  BY <1>1, <1>2, <1>3

\* What a container has counted by itself is forgotten only with its memory.
LEMMA FallbackForgotten ==
  ASSUME TypeOK, [Next]_vars, NEW c \in Container, NEW k \in Key,
         ~ (fallback'[c][k] >= fallback[c][k])
  PROVE  over'[c] = {}
<1> USE DEF TypeOK
<1>1. fallback[c][k] \in Nat /\ fallback'[c][k] \in Nat
  BY TypeStep
<1>2. ASSUME NEW q \in Query, ServiceDegraded(q) PROVE fallback'[c][k] >= fallback[c][k]
  <2>1. \/ fallback' = fallback
        \/ fallback' = [fallback EXCEPT ![job[q].container][ServiceKeyOf(job[q])] = @ + 1]
    BY <1>2 DEF ServiceDegraded
  <2> QED
    BY <1>1, <2>1
<1>3. ASSUME NEW d \in Container, Restart(d) PROVE over'[c] = {}
  <2>1. /\ over' = [over EXCEPT ![d] = {}]
        /\ fallback' = [fallback EXCEPT ![d] = [l \in Key |-> 0]]
    BY <1>3 DEF Restart
  <2>2. c = d
    BY <1>1, <2>1
  <2> QED
    BY <2>1, <2>2
<1>4. \/ fallback' = fallback
      \/ \E q \in Query : ServiceDegraded(q)
      \/ \E d \in Container : Restart(d)
  BY DEF Next, Begin, Resume, ShareSettled, StoreRefused, ServiceCharged,
         StoreStep, StoreAdds, StoreApplies, StoreAppliesUnheard, StoreAppliesResent,
         StoreRefuses, StoreFails, StoreAnswers, NextDay, vars
<1> QED
  BY <1>1, <1>2, <1>3, <1>4

\* A key is remembered as over only on a refusal, and counters only grow.
LEMMA OverIsSoundStep ==
  TypeOK /\ Metered /\ RefusedMeansFull /\ OverIsSound /\ [Next]_vars => OverIsSound'
<1> SUFFICES ASSUME TypeOK, Metered, RefusedMeansFull, OverIsSound, [Next]_vars,
                    NEW c \in Container, NEW k \in over'[c]
             PROVE  Spent(c, k)'
  BY DEF OverIsSound
<1>1. k \in Key /\ Spent(c, k)
  BY Remembered DEF OverIsSound, TypeOK
<1>2. store'[k] >= store[k] /\ store[k] \in Nat /\ store'[k] \in Nat
  BY <1>1, StoreGrows
<1>3. fallback'[c][k] >= fallback[c][k]
  BY <1>1, FallbackForgotten
<1>4. fallback[c][k] \in Nat /\ fallback'[c][k] \in Nat
  BY <1>1, TypeStep DEF TypeOK
<1>5. Limit(k) \in Nat
  BY <1>1, LimitType DEF Spent, Count
<1>6. Limit(k)' = Limit(k)
  BY DEF Limit
<1> QED
  BY <1>1, <1>2, <1>3, <1>4, <1>5, <1>6 DEF Spent

-----------------------------------------------------------------------------
(* The theorems.                                                           *)

\* The table and the memories start empty.
LEMMA InvInit == Init => IInv
<1> SUFFICES ASSUME Init PROVE IInv
  OBVIOUS
<1>1. TypeOK
  BY TypeInit
<1>2. Started = {} /\ IsFiniteSet(Started)
  BY FS_EmptySet DEF Init, Started
<1>3. CountsHolders
  <2>1. ASSUME NEW k \in Key PROVE Holders(k) = {} /\ store[k] = 0
    BY DEF Init, Holders, PaidShare, PaidService
  <2> QED
    BY <2>1, FS_EmptySet DEF CountsHolders
<1>4. WithinCeiling
  BY CeilingType DEF Init, WithinCeiling
<1>5. Metered /\ ShareFirst /\ RefusedMeansFull /\ OverIsSound
  BY DEF Init, Metered, ShareFirst, RefusedMeansFull, OverIsSound, Stage
<1> QED
  BY <1>1, <1>2, <1>3, <1>4, <1>5 DEF IInv

\* Every step keeps the invariant.
LEMMA InvStep == IInv /\ [Next]_vars => IInv'
  BY TypeStep, StartedStep, CountsHoldersStep, WithinCeilingStep, MeteredStep,
     ShareFirstStep, RefusedMeansFullStep, OverIsSoundStep DEF IInv

\* The invariant holds in every state the fleet can reach.
THEOREM Invariance == Spec => []IInv
  BY InvInit, InvStep, PTL DEF Spec

\* However many containers, callers and queries there are, and whatever the
\* store loses or repeats, no more queries pass on its word than a key's limit.
THEOREM BudgetIsHeld == Spec => []BudgetHeld
<1>1. IInv => BudgetHeld
  <2> SUFFICES ASSUME IInv, NEW k \in Key, Limit(k) # NoLimit
               PROVE  /\ Cardinality(PaidShare(k)) <= Ceiling(k)
                      /\ Cardinality(PaidService(k)) <= Ceiling(k)
                      /\ \A c \in Container : fallback[c][k] <= Limit(k)
    BY DEF BudgetHeld
  <2>1. IsFiniteSet(Holders(k)) /\ Cardinality(Holders(k)) <= store[k]
    BY DEF IInv, CountsHolders
  <2>2. store[k] \in Nat /\ store[k] <= Ceiling(k) /\ Ceiling(k) \in Nat
    BY CeilingType DEF IInv, TypeOK, WithinCeiling
  <2>3. PaidShare(k) \subseteq Holders(k) /\ PaidService(k) \subseteq Holders(k)
    BY DEF Holders
  <2>4. Cardinality(PaidShare(k)) <= Ceiling(k)
    BY <2>1, <2>2, <2>3, SubsetBound
  <2>5. Cardinality(PaidService(k)) <= Ceiling(k)
    BY <2>1, <2>2, <2>3, SubsetBound
  <2> QED
    BY <2>4, <2>5 DEF IInv, WithinCeiling
<1> QED
  BY <1>1, Invariance, PTL

\* A container refuses from memory only keys that are spent.
THEOREM MemoryIsSound == Spec => []OverIsSound
<1>1. IInv => OverIsSound
  BY DEF IInv
<1> QED
  BY <1>1, Invariance, PTL

\* One caller draws at most its share of the service budget, plus what the
\* store failed to count for it.
THEOREM ServiceIsShielded == Spec => []ShareShieldsService
<1>1. IInv => ShareShieldsService
  <2> SUFFICES ASSUME IInv, NEW u \in Caller, NEW s \in Source, NEW d \in Day,
                      UpstreamDaily[u] # NoLimit
               PROVE  Cardinality(Drew(u, s, d))
                        <= (IF UpstreamDaily[u] = 0 THEN 1 ELSE UpstreamDaily[u])
                             + Cardinality(Waived(u, s, d))
    BY DEF ShareShieldsService
  <2> DEFINE k == [kind |-> "upstream", source |-> s, caller |-> u, day |-> d]
  <2>1. k \in Key /\ Limit(k) = UpstreamDaily[u]
    BY DEF Key, Limit
  <2>2. Drew(u, s, d) \subseteq PaidShare(k) \cup Waived(u, s, d)
    <3>1. ASSUME NEW q \in Drew(u, s, d) PROVE q \in PaidShare(k) \cup Waived(u, s, d)
      <4>1. /\ q \in Query /\ pc[q] # "idle"
            /\ job[q].kind = "upstream" /\ job[q].caller = u
            /\ job[q].source = s /\ job[q].day = d
        BY DEF Drew
      <4>2. ShareKeyOf(job[q]) = k
        BY <4>1 DEF ShareKeyOf
      <4>3. shareBy[q] # "no"
        BY <2>1, <4>1, <4>2 DEF IInv, ShareFirst, Drew
      <4>4. shareBy[q] \in {"store", "open"}
        BY <4>1, <4>3 DEF IInv, TypeOK
      <4> QED
        BY <4>1, <4>2, <4>4 DEF PaidShare, Waived
    <3> QED
      BY <3>1
  <2>3. /\ IsFiniteSet(PaidShare(k)) /\ Cardinality(PaidShare(k)) <= Ceiling(k)
        /\ Ceiling(k) \in Nat
    <3>1. IsFiniteSet(Holders(k)) /\ Cardinality(Holders(k)) <= store[k]
      BY <2>1 DEF IInv, CountsHolders
    <3>2. store[k] \in Nat /\ store[k] <= Ceiling(k) /\ Ceiling(k) \in Nat
      BY <2>1, CeilingType DEF IInv, TypeOK, WithinCeiling
    <3> QED
      BY <3>1, <3>2, SubsetBound DEF Holders
  <2>4. IsFiniteSet(Waived(u, s, d))
    <3>1. Waived(u, s, d) \subseteq Started
      BY DEF Waived, Started
    <3> QED
      BY <3>1, FS_Subset DEF IInv
  <2> DEFINE P == PaidShare(k)
             W == Waived(u, s, d)
  <2> HIDE DEF P, W, k
  <2>5. IsFiniteSet(P \cup W) /\ Cardinality(P \cup W) <= Cardinality(P) + Cardinality(W)
    <3>1. IsFiniteSet(P) /\ IsFiniteSet(W)
      BY <2>3, <2>4 DEF P, W
    <3>2. IsFiniteSet(P \cap W)
      BY <3>1, FS_Subset
    <3>3. /\ Cardinality(P) \in Nat /\ Cardinality(W) \in Nat
          /\ Cardinality(P \cap W) \in Nat
      BY <3>1, <3>2, FS_CardinalityType
    <3> QED
      BY <3>1, <3>3, FS_Union
  <2>6. Cardinality(Drew(u, s, d)) <= Cardinality(P \cup W)
    BY <2>2, <2>5, FS_Subset DEF P, W
  <2>7. /\ Cardinality(P) \in Nat /\ Cardinality(W) \in Nat
        /\ Cardinality(P \cup W) \in Nat /\ Cardinality(Drew(u, s, d)) \in Nat
    <3>1. IsFiniteSet(Drew(u, s, d))
      BY <2>2, <2>5, FS_Subset DEF P, W
    <3> QED
      BY <2>3, <2>4, <2>5, <3>1, FS_CardinalityType DEF P, W
  <2>8. Ceiling(k) = IF UpstreamDaily[u] = 0 THEN 1 ELSE UpstreamDaily[u]
    BY <2>1 DEF Ceiling
  <2>9. Cardinality(P) <= Ceiling(k) /\ Ceiling(k) \in Nat
    BY <2>3 DEF P
  <2>10. Cardinality(Drew(u, s, d)) <= Ceiling(k) + Cardinality(W)
    BY <2>5, <2>6, <2>7, <2>9
  <2> QED
    BY <2>8, <2>10 DEF W
<1> QED
  BY <1>1, Invariance, PTL

\* No query is refused but for a counter of its own, for its own day.
THEOREM RefusalsAreJustified == Spec => RefusalIsJustified
<1> DEFINE Justified(q) ==
             \E k \in Key : /\ k.day = job'[q].day
                            /\ k.caller \in {job'[q].caller, Everyone}
                            /\ k.source \in {job'[q].source, AllSources}
                            /\ Spent(job'[q].container, k)
<1>1. ASSUME NEW j \in Job
      PROVE  \A k \in shareCounted(j) \cup serviceCounted(j) :
               /\ k \in Key /\ k.day = j.day
               /\ k.caller \in {j.caller, Everyone}
               /\ k.source \in {j.source, AllSources}
  <2>1. ShareKeyOf(j) \in Key /\ ServiceKeyOf(j) \in Key
    BY KeysOfJobs
  <2> QED
    BY <2>1 DEF shareCounted, serviceCounted, ShareKeyOf, ServiceKeyOf
<1>2. ASSUME IInv, [Next]_vars, NEW q \in Query, pc[q] # "refused", pc'[q] = "refused"
      PROVE  Justified(q)
  <2> USE DEF IInv, TypeOK, GoTo, Stage
  <2>1. ASSUME NEW p \in Query, NEW j \in Workload, Begin(p, j) PROVE Justified(q)
    <3>1. p = q /\ job'[q] = j /\ AtBegin(j) = "refused" /\ j \in Job
      BY <1>2, <2>1, WorkloadAssumption DEF Begin
    <3>2. KnownOver(j.container, shareCounted(j) \cup serviceCounted(j))
      BY <3>1 DEF AtBegin, AfterShare, KnownOver
    <3>3. j.container \in Container
      BY <3>1 DEF Job
    <3>4. PICK k \in shareCounted(j) \cup serviceCounted(j) : k \in over[j.container]
      BY <3>2 DEF KnownOver
    <3> QED
      BY <1>1, <1>2, <3>1, <3>3, <3>4 DEF OverIsSound
  <2>2. ASSUME NEW p \in Query, ShareSettled(p) PROVE Justified(q)
    <3>1. p = q /\ job'[q] = job[q] /\ AfterShare(job[q]) = "refused" /\ job[q] \in Job
      BY <1>2, <2>2 DEF ShareSettled, Resumes
    <3>2. KnownOver(job[q].container, serviceCounted(job[q]))
      BY <3>1 DEF AfterShare
    <3>3. job[q].container \in Container
      BY <3>1 DEF Job
    <3>4. PICK k \in serviceCounted(job[q]) : k \in over[job[q].container]
      BY <3>2 DEF KnownOver
    <3> QED
      BY <1>1, <1>2, <3>1, <3>3, <3>4 DEF OverIsSound
  <2>3. ASSUME NEW p \in Query, StoreRefused(p) \/ ServiceDegraded(p) PROVE Justified(q)
    <3>1. job' = job /\ p = q /\ pc[q] \in Stage /\ job[q] \in Job
      BY <1>2, <2>3 DEF StoreRefused, ServiceDegraded, Resumes
    <3>2. AwaitedKey(q) \in over'[job[q].container] /\ job[q].container \in Container
      <4>1. job[q].container \in Container
        BY <3>1 DEF Job
      <4>2. CASE StoreRefused(q)
        BY <1>2, <4>1, <4>2 DEF StoreRefused
      <4>3. CASE ServiceDegraded(q)
        BY <1>2, <4>1, <4>3 DEF ServiceDegraded, Resumes, AwaitedKey
      <4> QED
        BY <2>3, <3>1, <4>1, <4>2, <4>3
    <3>3. AwaitedKey(q) \in Key /\ Spent(job[q].container, AwaitedKey(q))
      BY <1>2, <3>2, Remembered DEF OverIsSound
    <3>4. AwaitedKey(q) \in {ShareKeyOf(job[q]), ServiceKeyOf(job[q])}
      BY DEF AwaitedKey
    <3> QED
      BY <3>1, <3>3, <3>4 DEF ShareKeyOf, ServiceKeyOf
  <2>4. \/ \E p \in Query, j \in Workload : Begin(p, j)
        \/ \E p \in Query : ShareSettled(p) \/ StoreRefused(p) \/ ServiceDegraded(p)
    BY <1>2 DEF Next, Resume, ServiceCharged, StoreStep, StoreAdds, StoreApplies,
                StoreAppliesUnheard, StoreAppliesResent, StoreRefuses, StoreFails,
                StoreAnswers, NextDay, Restart, vars
  <2> QED
    BY <2>1, <2>2, <2>3, <2>4
<1>3. IInv /\ [Next]_vars =>
        [\A q \in Query : pc[q] # "refused" /\ pc'[q] = "refused" => Justified(q)]_vars
  BY <1>2
<1> QED
  BY <1>3, Invariance, PTL DEF Spec, RefusalIsJustified

-----------------------------------------------------------------------------
(* The refinement: the limiter implements DailyBudget.                     *)
(*                                                                         *)
(* Beside the inductive invariant, a query keeps the job it began with,    *)
(* and nothing is settled before it is (InOrder).  With these, a unit the  *)
(* store adds is a Count, a dead container a Forget, a query that stops    *)
(* waiting a Grant or a Refuse, and every other step of the store, the     *)
(* clock and the wire a stutter.                                           *)

\* The images of the refinement mapping that are not variables.
Paid == [q \in Query |-> PaidBy(q)]
LetThrough == {q \in Query : shareBy[q] = "open"}
Verdicts == [q \in Query |-> Verdict(q)]

InOrder ==
  \A q \in Query :
    /\ pc[q] = "idle" => job[q] = NoJob
    /\ pc[q] # "idle" => job[q] \in Workload
    /\ pc[q] \in {"idle", "share"} => shareBy[q] = "no"
    /\ pc[q] \in {"idle", "share", "service"} => serviceBy[q] = "no"

\* Queries move forward only.
LEMMA InOrderStep == TypeOK /\ InOrder /\ [Next]_vars => InOrder'
<1> SUFFICES ASSUME TypeOK, InOrder, [Next]_vars PROVE InOrder'
  OBVIOUS
<1> USE DEF TypeOK, InOrder, GoTo, Stage
<1>1. ASSUME NEW q \in Query, NEW j \in Workload, Begin(q, j) PROVE InOrder'
  BY <1>1, AtBeginType DEF Begin
<1>2. ASSUME NEW q \in Query, ShareSettled(q) PROVE InOrder'
  <2>1. AfterShare(job[q]) \in {"granted", "refused", "service"}
    BY AfterShareType
  <2> QED
    BY <1>2, <2>1 DEF ShareSettled, Resumes
<1>3. ASSUME NEW q \in Query, StoreRefused(q) PROVE InOrder'
  BY <1>3 DEF StoreRefused, Resumes
<1>4. ASSUME NEW q \in Query, ServiceCharged(q) PROVE InOrder'
  BY <1>4 DEF ServiceCharged, Resumes
<1>5. ASSUME NEW q \in Query, ServiceDegraded(q) PROVE InOrder'
  <2>1. /\ pc[q] = "service" /\ UNCHANGED <<job, shareBy>>
        /\ \A p \in Query : p # q => serviceBy'[p] = serviceBy[p]
        /\ pc' = [pc EXCEPT ![q] = "granted"] \/ pc' = [pc EXCEPT ![q] = "refused"]
    BY <1>5 DEF ServiceDegraded, Resumes
  <2> QED
    BY <2>1
<1>6. ASSUME UNCHANGED <<pc, job, shareBy, serviceBy>> PROVE InOrder'
  BY <1>6
<1>7. ASSUME NEW q \in Query, StoreStep(q) PROVE InOrder'
  BY <1>6, <1>7 DEF StoreStep, StoreAdds, StoreApplies, StoreAppliesUnheard,
                    StoreAppliesResent, StoreRefuses, StoreFails, StoreAnswers
<1>8. ASSUME NextDay \/ (\E c \in Container : Restart(c)) \/ UNCHANGED vars PROVE InOrder'
  BY <1>6, <1>8 DEF NextDay, Restart, vars
<1> QED
  BY <1>1, <1>2, <1>3, <1>4, <1>5, <1>7, <1>8 DEF Next, Resume

-----------------------------------------------------------------------------
(* What a query holds, and what it must hold.                              *)

\* The keys a job counts, and those it needs before its service budget.
LEMMA CountedKeys ==
  ASSUME NEW j \in Job
  PROVE  /\ shareCounted(j) \subseteq {ShareKeyOf(j)}
         /\ serviceCounted(j) \subseteq {ServiceKeyOf(j)}
         /\ shareCounted(j) \cup serviceCounted(j) \subseteq Key
         /\ j.container \in Container
<1>1. ShareKeyOf(j) \in Key /\ ServiceKeyOf(j) \in Key
  BY KeysOfJobs
<1>2. j.container \in Container
  BY DEF Job
<1> QED
  BY <1>1, <1>2 DEF shareCounted, serviceCounted

\* A query awaits one of the keys its job counts, and the service budget's
\* only past its share.
LEMMA AwaitedIsDue ==
  ASSUME IInv, InOrder, NEW q \in Query, pc[q] \in Stage
  PROVE  /\ job[q] \in Workload /\ job[q] # NoJob
         /\ pc[q] = "share" => AwaitedKey(q) \in shareCounted(job[q])
         /\ pc[q] = "service" => /\ AwaitedKey(q) \in serviceCounted(job[q])
                                 /\ serviceCounted(job[q]) = {AwaitedKey(q)}
                                 /\ \/ q \in LetThrough
                                    \/ shareCounted(job[q]) \subseteq PaidBy(q)
<1>1. job[q] \in Workload /\ job[q] \in Job /\ job[q] # NoJob
  BY WorkloadAssumption DEF InOrder, Stage
<1>2. CASE pc[q] = "share"
  BY <1>1, <1>2 DEF IInv, Metered, shareCounted, AwaitedKey
<1>3. CASE pc[q] = "service"
  <2>1. serviceCounted(job[q]) = {AwaitedKey(q)}
    BY <1>1, <1>3 DEF IInv, Metered, serviceCounted, AwaitedKey
  <2>2. Limit(ShareKeyOf(job[q])) = NoLimit \/ shareBy[q] \in {"store", "open"}
    BY <1>3 DEF IInv, ShareFirst, TypeOK
  <2>3. q \in LetThrough \/ shareCounted(job[q]) \subseteq PaidBy(q)
    BY <1>1, <2>2 DEF LetThrough, PaidBy, shareCounted
  <2> QED
    BY <1>1, <1>3, <2>1, <2>3
<1> QED
  BY <1>1, <1>2, <1>3 DEF Stage

\* A key in a container's memory is full.
LEMMA KnownIsFull ==
  ASSUME IInv, NEW j \in Job, NEW S \in SUBSET (shareCounted(j) \cup serviceCounted(j)),
         KnownOver(j.container, S)
  PROVE  \E k \in shareCounted(j) \cup serviceCounted(j) :
           store[k] >= Limit(k) \/ fallback[j.container][k] >= Limit(k)
<1>1. PICK k \in S : k \in over[j.container]
  BY DEF KnownOver
<1>2. Spent(j.container, k)
  BY <1>1, CountedKeys DEF IInv, OverIsSound
<1> QED
  BY <1>1, <1>2 DEF Spent

-----------------------------------------------------------------------------
(* The step each action maps to.                                           *)

\* A step that leaves every image alone is a stutter.
LEMMA Stutters ==
  ASSUME UNCHANGED <<store, fallback, job>>, Paid' = Paid, LetThrough' = LetThrough,
         Verdicts' = Verdicts
  PROVE  UNCHANGED Budget!vars
  BY DEF Budget!vars, Paid, LetThrough, Verdicts

\* A query that begins asks, unless the memory of spent keys, or the absence
\* of any limit, decides at once.
LEMMA BeginMaps ==
  ASSUME IInv, InOrder, NEW q \in Query, NEW j \in Workload, Begin(q, j)
  PROVE  Budget!Next
<1>1. /\ pc[q] = "idle" /\ job[q] = NoJob /\ shareBy[q] = "no" /\ serviceBy[q] = "no"
      /\ j \in Job
  BY WorkloadAssumption DEF Begin, InOrder
<1>2. /\ job' = [job EXCEPT ![q] = j]
      /\ pc' = [pc EXCEPT ![q] = AtBegin(j)]
      /\ wire' = [wire EXCEPT ![q] = IF AtBegin(j) \in Stage THEN "sent" ELSE "quiet"]
      /\ UNCHANGED <<store, fallback, shareBy, serviceBy>>
  BY DEF Begin, GoTo
<1>3. Paid' = Paid /\ PaidBy(q) = {}
  <2>1. PaidBy(q) = {} /\ PaidBy(q)' = {}
    BY <1>1, <1>2, AtBeginType DEF PaidBy, IInv, TypeOK, Stage
  <2>2. ASSUME NEW p \in Query, p # q PROVE PaidBy(p)' = PaidBy(p)
    BY <1>2, <2>2 DEF PaidBy, IInv, TypeOK, ShareKeyOf, ServiceKeyOf
  <2> QED
    BY <2>1, <2>2 DEF Paid
<1>4. LetThrough' = LetThrough /\ q \notin LetThrough
  BY <1>1, <1>2 DEF LetThrough
<1>5. Verdicts[q] = "open"
  BY <1>1 DEF Verdicts, Verdict
<1>6. \A v : pc'[q] = v /\ v \in {"granted", "refused"} =>
              Verdicts' = [Verdicts EXCEPT ![q] = v]
  BY <1>2 DEF Verdicts, Verdict, IInv, TypeOK
<1>7. CASE AtBegin(j) \in Stage
  <2>1. Verdicts' = Verdicts
    BY <1>1, <1>2, <1>7 DEF Verdicts, Verdict, IInv, TypeOK, Stage
  <2>2. Budget!Ask(q)
    BY <1>1, <1>2, <1>3, <1>4, <2>1 DEF Budget!Ask, Paid, LetThrough, Verdicts
  <2> QED
    BY <2>2 DEF Budget!Next
<1>8. CASE AtBegin(j) = "granted"
  <2>1. shareCounted(j) = {} /\ serviceCounted(j) = {}
    BY <1>8 DEF AtBegin, AfterShare
  <2>2. Verdicts' = [Verdicts EXCEPT ![q] = "granted"]
    BY <1>2, <1>6, <1>8 DEF IInv, TypeOK
  <2>3. Budget!Decide(q, "granted")
    BY <1>2, <1>3, <1>4, <1>5, <2>2 DEF Budget!Decide, Paid, LetThrough, Verdicts
  <2>4. Budget!Asks(q, j)
    BY <1>1, <1>2 DEF Budget!Asks
  <2>5. Budget!Grant(q)
    BY <1>2, <2>1, <2>3, <2>4 DEF Budget!Grant
  <2> QED
    BY <2>5 DEF Budget!Next
<1>9. CASE AtBegin(j) = "refused"
  <2>1. KnownOver(j.container, shareCounted(j) \cup serviceCounted(j))
    BY <1>9 DEF AtBegin, AfterShare, KnownOver
  <2>2. PICK k \in shareCounted(j) \cup serviceCounted(j) :
          store[k] >= Limit(k) \/ fallback[j.container][k] >= Limit(k)
    BY <1>1, <2>1, KnownIsFull
  <2>3. Verdicts' = [Verdicts EXCEPT ![q] = "refused"]
    BY <1>2, <1>6, <1>9 DEF IInv, TypeOK
  <2>4. Budget!Decide(q, "refused")
    BY <1>2, <1>3, <1>4, <1>5, <2>3 DEF Budget!Decide, Paid, LetThrough, Verdicts
  <2>5. Budget!Asks(q, j)
    BY <1>1, <1>2 DEF Budget!Asks
  <2>6. k \in Key
    BY <1>1, CountedKeys
  <2>7. Budget!Refuse(q)
    BY <1>2, <2>2, <2>4, <2>5, <2>6 DEF Budget!Refuse, Budget!Full
  <2> QED
    BY <2>7 DEF Budget!Next
<1> QED
  BY <1>7, <1>8, <1>9, AtBeginType DEF Stage

\* A settled share is paid for, or waived; its query is granted, refused from
\* memory, or goes on.
LEMMA ShareSettledMaps ==
  ASSUME IInv, InOrder, NEW q \in Query, ShareSettled(q)
  PROVE  Budget!Next \/ UNCHANGED Budget!vars
<1> DEFINE j == job[q]
<1>1. /\ pc[q] = "share" /\ j \in Workload /\ j \in Job /\ j # NoJob
      /\ shareBy[q] = "no" /\ serviceBy[q] = "no"
      /\ UNCHANGED <<store, fallback, job, serviceBy>>
      /\ pc' = [pc EXCEPT ![q] = AfterShare(j)]
      /\ wire' = [wire EXCEPT ![q] = IF AfterShare(j) \in Stage THEN "sent" ELSE "quiet"]
  BY WorkloadAssumption DEF ShareSettled, Resumes, GoTo, InOrder
<1>2. /\ Paid' = Paid
      /\ \/ LetThrough' = LetThrough /\ ShareKeyOf(j) \in PaidBy(q)
         \/ LetThrough' = LetThrough \cup {q}
  <2>1. ASSUME NEW p \in Query, p # q PROVE PaidBy(p)' = PaidBy(p)
    BY <1>1, <2>1 DEF ShareSettled, PaidBy, IInv, TypeOK, ShareKeyOf, ServiceKeyOf
  <2>2. CASE wire[q] = "applied" /\ shareBy' = [shareBy EXCEPT ![q] = "store"]
    <3>1. PaidBy(q) = {ShareKeyOf(j)}
      BY <1>1, <2>2 DEF PaidBy
    <3>2. PaidBy(q)' = {ShareKeyOf(j)}
      BY <1>1, <2>2, AfterShareType DEF PaidBy, IInv, TypeOK, ShareKeyOf, Stage
    <3>3. LetThrough' = LetThrough
      BY <1>1, <2>2 DEF LetThrough, IInv, TypeOK
    <3> QED
      BY <2>1, <3>1, <3>2, <3>3 DEF Paid
  <2>3. CASE wire[q] = "failed" /\ shareBy' = [shareBy EXCEPT ![q] = "open"]
    <3>1. PaidBy(q) = {} /\ PaidBy(q)' = {}
      BY <1>1, <2>3, AfterShareType DEF PaidBy, IInv, TypeOK, Stage
    <3>2. LetThrough' = LetThrough \cup {q}
      BY <1>1, <2>3 DEF LetThrough, IInv, TypeOK
    <3> QED
      BY <2>1, <3>1, <3>2 DEF Paid
  <2> QED
    BY <2>2, <2>3 DEF ShareSettled, Resumes
<1>3. shareCounted(j) \subseteq PaidBy(q) \/ q \in LetThrough'
  BY <1>1, <1>2, CountedKeys
<1>4. Verdicts[q] = "open"
  BY <1>1 DEF Verdicts, Verdict
<1>5. \A v : AfterShare(j) = v /\ v \in {"granted", "refused"} =>
              Verdicts' = [Verdicts EXCEPT ![q] = v]
  BY <1>1 DEF Verdicts, Verdict, IInv, TypeOK
<1>6. \A v : Verdicts' = [Verdicts EXCEPT ![q] = v] => Budget!Decide(q, v)
  BY <1>1, <1>2, <1>4 DEF Budget!Decide, Paid, LetThrough, Verdicts
<1>7. Budget!Asks(q, j)
  BY <1>1 DEF Budget!Asks, IInv, TypeOK
<1>8. CASE AfterShare(j) = "service"
  <2>1. Verdicts' = Verdicts
    BY <1>1, <1>8 DEF Verdicts, Verdict, IInv, TypeOK
  <2>2. CASE LetThrough' = LetThrough
    BY <1>1, <1>2, <2>1, <2>2, Stutters
  <2>3. CASE LetThrough' = LetThrough \cup {q}
    <3>1. Budget!Waive(q)
      BY <1>1, <1>2, <1>4, <2>1, <2>3 DEF Budget!Waive, Paid, LetThrough, Verdicts
    <3> QED
      BY <3>1 DEF Budget!Next
  <2> QED
    BY <1>2, <2>2, <2>3
<1>9. CASE AfterShare(j) = "granted"
  <2>1. serviceCounted(j) = {}
    BY <1>9 DEF AfterShare
  <2>2. Budget!Decide(q, "granted")
    BY <1>5, <1>6, <1>9
  <2>3. Budget!Grant(q)
    BY <1>1, <1>3, <1>7, <2>1, <2>2 DEF Budget!Grant, LetThrough
  <2> QED
    BY <2>3 DEF Budget!Next
<1>10. CASE AfterShare(j) = "refused"
  <2>1. KnownOver(j.container, serviceCounted(j))
    BY <1>10 DEF AfterShare
  <2>2. PICK k \in shareCounted(j) \cup serviceCounted(j) :
          store[k] >= Limit(k) \/ fallback[j.container][k] >= Limit(k)
    BY <1>1, <2>1, KnownIsFull
  <2>3. Budget!Decide(q, "refused")
    BY <1>5, <1>6, <1>10
  <2>4. k \in Key
    BY <1>1, CountedKeys
  <2>5. Budget!Refuse(q)
    BY <1>1, <1>7, <2>2, <2>3, <2>4 DEF Budget!Refuse, Budget!Full
  <2> QED
    BY <2>5 DEF Budget!Next
<1> QED
  BY <1>8, <1>9, <1>10, AfterShareType

\* The store refused: the awaited key is full.
LEMMA StoreRefusedMaps ==
  ASSUME IInv, InOrder, NEW q \in Query, StoreRefused(q)
  PROVE  Budget!Next
<1> DEFINE j == job[q]
           k == AwaitedKey(q)
<1>1. /\ pc[q] \in Stage /\ wire[q] = "refused" /\ serviceBy[q] = "no"
      /\ UNCHANGED <<store, fallback, job, shareBy, serviceBy>>
      /\ pc' = [pc EXCEPT ![q] = "refused"]
      /\ wire' = [wire EXCEPT ![q] = "quiet"]
  BY DEF StoreRefused, Resumes, GoTo, Stage, InOrder
<1>2. j \in Workload /\ j \in Job /\ k \in shareCounted(j) \cup serviceCounted(j)
  BY <1>1, AwaitedIsDue, WorkloadAssumption DEF Stage
<1>3. k \in Key /\ store[k] >= Limit(k)
  BY <1>1, <1>2, CountedKeys DEF IInv, RefusedMeansFull
<1>4. Paid' = Paid
  <2>1. ASSUME NEW p \in Query PROVE PaidBy(p)' = PaidBy(p)
    BY <1>1 DEF PaidBy, IInv, TypeOK, ShareKeyOf, ServiceKeyOf, Stage
  <2> QED
    BY <2>1 DEF Paid
<1>5. LetThrough' = LetThrough
  BY <1>1 DEF LetThrough
<1>6. Verdicts[q] = "open" /\ Verdicts' = [Verdicts EXCEPT ![q] = "refused"]
  BY <1>1 DEF Verdicts, Verdict, IInv, TypeOK, Stage
<1>7. Budget!Decide(q, "refused")
  BY <1>1, <1>4, <1>5, <1>6 DEF Budget!Decide, Paid, LetThrough, Verdicts
<1>8. Budget!Asks(q, j)
  BY <1>1 DEF Budget!Asks, IInv, TypeOK
<1>9. Budget!Refuse(q)
  BY <1>1, <1>2, <1>3, <1>7, <1>8 DEF Budget!Refuse, Budget!Full
<1> QED
  BY <1>9 DEF Budget!Next

\* The service budget answered, or the container's own count did.
LEMMA ServiceMaps ==
  ASSUME IInv, InOrder, NEW q \in Query, ServiceCharged(q) \/ ServiceDegraded(q)
  PROVE  Budget!Next
<1> DEFINE j == job[q]
           k == ServiceKeyOf(j)
           c == j.container
<1>1. /\ pc[q] = "service" /\ serviceBy[q] = "no"
      /\ UNCHANGED <<store, job, shareBy>>
  BY DEF ServiceCharged, ServiceDegraded, Resumes, InOrder
<1>2. /\ j \in Workload /\ j \in Job /\ serviceCounted(j) = {k}
      /\ q \in LetThrough \/ shareCounted(j) \subseteq PaidBy(q)
      /\ k \in Key /\ c \in Container
  <2>1. AwaitedKey(q) = k
    BY <1>1 DEF AwaitedKey
  <2>2. j \in Workload /\ j \in Job
    BY <1>1, AwaitedIsDue, WorkloadAssumption DEF Stage
  <2> QED
    BY <1>1, <2>1, <2>2, AwaitedIsDue, CountedKeys DEF Stage
<1>3. LetThrough' = LetThrough
  BY <1>1 DEF LetThrough
<1>4. ASSUME NEW v \in {"granted", "refused"}, GoTo(q, v),
             \/ wire[q] = "applied" /\ serviceBy' = [serviceBy EXCEPT ![q] = "store"]
             \/ wire[q] = "failed" /\ serviceBy' = [serviceBy EXCEPT ![q] = "fallback"]
             \/ wire[q] = "failed" /\ serviceBy' = serviceBy
      PROVE  Budget!Decide(q, v)
  <2>1. /\ pc' = [pc EXCEPT ![q] = v]
        /\ wire' = [wire EXCEPT ![q] = "quiet"]
    BY <1>4 DEF GoTo, Stage
  <2>2. ASSUME NEW p \in Query, p # q PROVE PaidBy(p)' = PaidBy(p)
    BY <1>1, <1>4, <2>1, <2>2 DEF PaidBy, IInv, TypeOK, ShareKeyOf, ServiceKeyOf
  <2>3. PaidBy(q)' = PaidBy(q)
    BY <1>1, <1>4, <2>1 DEF PaidBy, IInv, TypeOK, ShareKeyOf, ServiceKeyOf
  <2>4. Paid' = Paid
    BY <2>2, <2>3 DEF Paid
  <2>5. Verdicts[q] = "open" /\ Verdicts' = [Verdicts EXCEPT ![q] = v]
    BY <1>1, <2>1 DEF Verdicts, Verdict, IInv, TypeOK
  <2> QED
    BY <1>1, <1>3, <2>4, <2>5 DEF Budget!Decide, Paid, LetThrough, Verdicts
<1>5. Budget!Asks(q, j)
  BY <1>1 DEF Budget!Asks, IInv, TypeOK
<1>6. CASE ServiceCharged(q)
  <2>1. /\ wire[q] = "applied" /\ UNCHANGED fallback /\ GoTo(q, "granted")
        /\ serviceBy' = [serviceBy EXCEPT ![q] = "store"]
    BY <1>6 DEF ServiceCharged, Resumes
  <2>2. Budget!Decide(q, "granted")
    BY <1>4, <2>1
  <2>3. serviceCounted(j) \subseteq PaidBy(q)
    BY <1>1, <1>2, <2>1 DEF PaidBy
  <2>4. Budget!Grant(q)
    BY <1>2, <1>3, <1>5, <2>1, <2>2, <2>3 DEF Budget!Grant, LetThrough
  <2> QED
    BY <2>4 DEF Budget!Next
<1>7. CASE ServiceDegraded(q) /\ FallbackAdmits(c, k)
  <2>1. /\ wire[q] = "failed" /\ GoTo(q, "granted")
        /\ fallback' = [fallback EXCEPT ![c][k] = @ + 1]
        /\ serviceBy' = [serviceBy EXCEPT ![q] = "fallback"]
    BY <1>7 DEF ServiceDegraded, Resumes
  <2>2. Budget!Decide(q, "granted")
    BY <1>4, <2>1
  <2>3. fallback[c][k] < Limit(k)
    <3>1. Limit(k) \in Nat /\ fallback[c][k] \in Nat
      BY <1>1, <1>2, AwaitedIsMetered DEF AwaitedKey, Stage, IInv, TypeOK
    <3> QED
      BY <1>7, <3>1 DEF FallbackAdmits
  <2>4. Budget!Grant(q)
    BY <1>2, <1>3, <1>5, <2>1, <2>2, <2>3 DEF Budget!Grant, LetThrough
  <2> QED
    BY <2>4 DEF Budget!Next
<1>8. CASE ServiceDegraded(q) /\ ~ FallbackAdmits(c, k)
  <2>1. /\ wire[q] = "failed" /\ GoTo(q, "refused")
        /\ UNCHANGED <<fallback, serviceBy>>
    BY <1>8 DEF ServiceDegraded, Resumes
  <2>2. Budget!Decide(q, "refused")
    BY <1>4, <2>1
  <2>3. fallback[c][k] >= Limit(k)
    <3>1. Limit(k) \in Nat /\ fallback[c][k] \in Nat
      BY <1>1, <1>2, AwaitedIsMetered DEF AwaitedKey, Stage, IInv, TypeOK
    <3> QED
      BY <1>8, <3>1 DEF FallbackAdmits
  <2>4. Budget!Refuse(q)
    BY <1>2, <1>5, <2>1, <2>2, <2>3 DEF Budget!Refuse, Budget!Full
  <2> QED
    BY <2>4 DEF Budget!Next
<1> QED
  BY <1>6, <1>7, <1>8

\* A unit the store adds is counted for the query that asked, heard or not.
LEMMA StoreAddsMaps ==
  ASSUME IInv, InOrder, NEW q \in Query, NEW r \in {"applied", "failed", "resent"},
         StoreAdds(q, r)
  PROVE  Budget!Next
<1> DEFINE j == job[q]
           k == AwaitedKey(q)
<1>1. /\ pc[q] \in Stage /\ wire[q] \in {"sent", "resent"} /\ Admits(k)
      /\ store' = [store EXCEPT ![k] = @ + 1]
      /\ wire' = [wire EXCEPT ![q] = r]
      /\ UNCHANGED <<fallback, pc, job, shareBy, serviceBy>>
  BY DEF StoreAdds, Out, IInv, TypeOK
<1>2. j \in Workload /\ j \in Job /\ j # NoJob
  BY <1>1, AwaitedIsDue, WorkloadAssumption
<1>3. k \in Key /\ Limit(k) \in Nat /\ store[k] \in Nat
  BY <1>1, AwaitedIsMetered DEF IInv, TypeOK
<1>4. store[k] = 0 \/ store[k] < Limit(k)
  BY <1>1, <1>3 DEF Admits
<1>5. LetThrough' = LetThrough /\ Verdicts' = Verdicts /\ Verdicts[q] = "open"
  BY <1>1 DEF LetThrough, Verdicts, Verdict, Stage
<1>6. Paid' \in {Paid, [Paid EXCEPT ![q] = @ \cup {k}]}
  <2>1. ASSUME NEW p \in Query, p # q PROVE PaidBy(p)' = PaidBy(p)
    BY <1>1, <2>1 DEF PaidBy, IInv, TypeOK, ShareKeyOf, ServiceKeyOf
  <2>2. CASE r = "applied"
    <3>1. PaidBy(q)' = PaidBy(q) \cup {k}
      BY <1>1, <2>2 DEF PaidBy, AwaitedKey, IInv, TypeOK, ShareKeyOf, ServiceKeyOf, Stage
    <3> QED
      BY <2>1, <3>1 DEF Paid
  <2>3. CASE r # "applied"
    <3>1. PaidBy(q)' = PaidBy(q)
      BY <1>1, <2>3 DEF PaidBy, IInv, TypeOK, ShareKeyOf, ServiceKeyOf
    <3> QED
      BY <2>1, <3>1 DEF Paid
  <2> QED
    BY <2>2, <2>3
<1>7. k \in Budget!Due(q, j)
  <2>1. pc[q] = "share" => k \in shareCounted(j)
    BY AwaitedIsDue, <1>1
  <2>2. pc[q] = "service" => /\ k \in serviceCounted(j)
                             /\ q \in LetThrough \/ shareCounted(j) \subseteq PaidBy(q)
    BY AwaitedIsDue, <1>1
  <2> QED
    BY <1>1, <1>2, <2>1, <2>2 DEF Budget!Due, LetThrough, Stage
<1>8. Budget!HasRoom(k)
  BY <1>3, <1>4 DEF Budget!HasRoom
<1>9. Budget!Count(q)
  BY <1>1, <1>2, <1>5, <1>6, <1>7, <1>8 DEF Budget!Count, Paid, LetThrough, Verdicts
<1> QED
  BY <1>9 DEF Budget!Next

\* An answer that follows no write, and the clock, change no image.
LEMMA QuietMaps ==
  ASSUME IInv, InOrder,
         \/ \E q \in Query, r \in {"refused", "failed"} : StoreAnswers(q, r)
         \/ NextDay
         \/ UNCHANGED vars
  PROVE  UNCHANGED Budget!vars
<1>1. UNCHANGED <<store, fallback, pc, job, shareBy, serviceBy>>
  BY DEF StoreAnswers, NextDay, vars
<1>2. ASSUME NEW p \in Query PROVE (wire'[p] = "applied") <=> (wire[p] = "applied")
  BY DEF StoreAnswers, NextDay, vars, Out, IInv, TypeOK
<1>3. Paid' = Paid
  <2>1. ASSUME NEW p \in Query PROVE PaidBy(p)' = PaidBy(p)
    BY <1>1, <1>2 DEF PaidBy, ShareKeyOf, ServiceKeyOf
  <2> QED
    BY <2>1 DEF Paid
<1>4. LetThrough' = LetThrough /\ Verdicts' = Verdicts
  BY <1>1 DEF LetThrough, Verdicts, Verdict
<1> QED
  BY <1>1, <1>3, <1>4, Stutters

\* A container that dies forgets what it let through by itself.
LEMMA RestartMaps ==
  ASSUME NEW c \in Container, Restart(c)
  PROVE  Budget!Next
<1>1. UNCHANGED <<store, pc, job, wire, shareBy, serviceBy>>
  BY DEF Restart
<1>2. Paid' = Paid
  <2>1. ASSUME NEW p \in Query PROVE PaidBy(p)' = PaidBy(p)
    BY <1>1 DEF PaidBy, ShareKeyOf, ServiceKeyOf
  <2> QED
    BY <2>1 DEF Paid
<1>3. LetThrough' = LetThrough /\ Verdicts' = Verdicts
  BY <1>1 DEF LetThrough, Verdicts, Verdict
<1>4. Budget!Forget(c)
  BY <1>1, <1>2, <1>3 DEF Restart, Budget!Forget, Paid, LetThrough, Verdicts
<1> QED
  BY <1>4 DEF Budget!Next

\* Nothing has been asked, counted or decided at the start.
LEMMA InitMaps == Init => InOrder /\ Budget!Init
<1> SUFFICES ASSUME Init PROVE InOrder /\ Budget!Init
  OBVIOUS
<1>1. Paid = [q \in Query |-> {}]
  BY DEF Init, Paid, PaidBy
<1>2. LetThrough = {}
  BY DEF Init, LetThrough
<1>3. Verdicts = [q \in Query |-> "open"]
  BY DEF Init, Verdicts, Verdict
<1>4. InOrder
  BY DEF Init, InOrder
<1> QED
  BY <1>1, <1>2, <1>3, <1>4 DEF Init, Budget!Init, Paid, LetThrough, Verdicts

\* Every step of the limiter is a step, or a stutter, of the budget.
LEMMA StepMaps == IInv /\ InOrder /\ [Next]_vars => [Budget!Next]_(Budget!vars)
<1> SUFFICES ASSUME IInv, InOrder, [Next]_vars PROVE Budget!Next \/ UNCHANGED Budget!vars
  OBVIOUS
<1>1. ASSUME NEW q \in Query, NEW j \in Workload, Begin(q, j) PROVE Budget!Next
  BY <1>1, BeginMaps
<1>2. ASSUME NEW q \in Query, Resume(q) PROVE Budget!Next \/ UNCHANGED Budget!vars
  BY <1>2, ShareSettledMaps, StoreRefusedMaps, ServiceMaps DEF Resume
<1>3. ASSUME NEW q \in Query, StoreStep(q) PROVE Budget!Next \/ UNCHANGED Budget!vars
  <2>1. \/ \E r \in {"applied", "failed", "resent"} : StoreAdds(q, r)
        \/ \E r \in {"refused", "failed"} : StoreAnswers(q, r)
    BY <1>3 DEF StoreStep, StoreApplies, StoreAppliesUnheard, StoreAppliesResent,
                StoreRefuses, StoreFails
  <2> QED
    BY <2>1, StoreAddsMaps, QuietMaps
<1>4. ASSUME NEW c \in Container, Restart(c) PROVE Budget!Next
  BY <1>4, RestartMaps
<1>5. CASE NextDay \/ UNCHANGED vars
  BY <1>5, QuietMaps
<1> QED
  BY <1>1, <1>2, <1>3, <1>4, <1>5 DEF Next

\* Lost and repeated answers, dead containers, the fallback and the memory of
\* spent keys show through nowhere: the limiter implements the budget.
THEOREM LimiterImplementsBudget == Spec => BudgetIsKept
<1>1. Init => Budget!Init
  BY InitMaps
<1>2. Spec => []InOrder
  <2>1. IInv /\ InOrder /\ [Next]_vars => InOrder'
    BY InOrderStep DEF IInv
  <2> QED
    BY <2>1, InitMaps, Invariance, PTL DEF Spec
<1> QED
  BY <1>1, <1>2, StepMaps, Invariance, PTL DEF Spec, BudgetIsKept, Budget!Spec

=============================================================================
