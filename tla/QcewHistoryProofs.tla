------------------------- MODULE QcewHistoryProofs -------------------------
(***************************************************************************)
(* QcewHistory is type correct, an answered call has nothing in flight, no *)
(* slice the deadline stopped is a silent gap, and asking again for what a *)
(* call named as not retrieved finds it when the cache holds: for any      *)
(* calls and series, any window, any number of workers, and whatever the   *)
(* agency has.                                                             *)
(*                                                                         *)
(* The argument.  While a call runs, each slice of its pools is still to   *)
(* be started, in flight, or settled as what the agency holds or as timed  *)
(* out; and a pool without a slice in flight has none to start             *)
(* (Accounted).  Its answer is read then, once, so nothing flies after it  *)
(* (RepliedRests).  What the scan reads is a prefix of the window, which   *)
(* ends with the row that completes Want rows (ScanIsPrefix).              *)
(***************************************************************************)
EXTENDS QcewHistory, WellOrder, FiniteSetTheorems, TLAPS

Settled(p, i) == results[p][i] \in {world[p[2]][i], "timedout"}

\* The slices of a pool of a running call.
AccountedIn(p) ==
  /\ flying[p] = {} => cursor[p] = Width + 1
  /\ \A i \in flying[p] : i < cursor[p]
  /\ \A i \in Window : i < cursor[p] /\ i \notin flying[p] => Settled(p, i)

Accounted == \A p \in Pool : pc[p[1]] = "running" /\ p \in PoolsOf(p[1]) => AccountedIn(p)

RepliedRests ==
  \A p \in Pool :
    /\ Replied(p) => flying[p] = {}
    /\ pc[p[1]] = "idle" \/ p \notin PoolsOf(p[1]) => flying[p] = {} /\ ~ Replied(p)
    /\ pc[p[1]] = "answered" /\ p \in PoolsOf(p[1]) => Replied(p)

IInv == TypeOK /\ Accounted /\ RepliedRests /\ NoSilentGap

-----------------------------------------------------------------------------
(* The window, the workers and the scan.                                   *)

\* A window and its pool are never empty.
LEMMA Widths ==
  /\ Width \in Nat \ {0} /\ Width <= Last /\ Window \subseteq Period
  /\ Workers \in Nat \ {0} /\ Workers <= Width
BY HistoryAssumption DEF Width, Window, Workers, Period

LEMMA PoolParts == \A p \in Pool : p[1] \in Call /\ p[2] \in Series
BY DEF Pool

LEMMA ContentType ==
  ASSUME TypeOK, NEW p \in Pool, NEW i \in Window
  PROVE  world[p[2]][i] \in Content
BY HistoryAssumption, Widths, PoolParts DEF TypeOK

\* Rows among the first slices: finite, none before the first, and at most
\* one more with each slice.
LEMMA RowsGrow ==
  ASSUME NEW p, NEW i \in Nat
  PROVE  /\ IsFiniteSet(RowsUpTo(p, i)) /\ Cardinality(RowsUpTo(p, i)) \in Nat
         /\ RowsUpTo(p, i) \subseteq 1 .. i
         /\ i = 0 => Cardinality(RowsUpTo(p, i)) = 0
         /\ Cardinality(RowsUpTo(p, i + 1)) <= Cardinality(RowsUpTo(p, i)) + 1
         /\ Cardinality(RowsUpTo(p, i)) <= Cardinality(RowsUpTo(p, i + 1))
<1> DEFINE A == RowsUpTo(p, i)
           B == RowsUpTo(p, i + 1)
<1>1. A \subseteq 1 .. i /\ B \subseteq 1 .. i + 1
  BY DEF RowsUpTo
<1>2. IsFiniteSet(A) /\ Cardinality(A) \in Nat /\ IsFiniteSet(B) /\ Cardinality(B) \in Nat
  <2>1. IsFiniteSet(1 .. i) /\ IsFiniteSet(1 .. i + 1)
    BY FS_Interval
  <2> HIDE DEF A, B
  <2> QED BY <1>1, <2>1, FS_Subset, FS_CardinalityType
<1>3. i = 0 => Cardinality(A) = 0
  <2>1. i = 0 => A = {}
    BY <1>1
  <2> QED BY <2>1, FS_EmptySet
<1>4. B = A \/ B = A \cup {i + 1}
  BY DEF RowsUpTo
<1>5. Cardinality(B) \in {Cardinality(A), Cardinality(A) + 1}
  <2>1. i + 1 \notin A
    BY <1>1
  <2> QED BY <1>2, <1>4, <2>1, FS_AddElement
<1> QED BY <1>1, <1>2, <1>3, <1>5

LEMMA RowsMonotone ==
  ASSUME NEW p, NEW i \in Nat, NEW j \in Nat, i <= j
  PROVE  Cardinality(RowsUpTo(p, i)) <= Cardinality(RowsUpTo(p, j))
<1>1. RowsUpTo(p, i) \subseteq RowsUpTo(p, j)
  BY DEF RowsUpTo
<1> QED BY <1>1, RowsGrow, FS_Subset

\* Whatever the scan does not reach comes after Want rows, all of them read.
LEMMA ScanIsPrefix ==
  ASSUME NEW p, NEW i \in Window, i \notin Consumed(p)
  PROVE  LET rows == {j \in Consumed(p) : results[p][j] = "row"} IN
         Cardinality(rows) = Want /\ \A j \in rows : j < i
<1> DEFINE rest == {j \in Window : j \notin Consumed(p)}
           count(j) == Cardinality(RowsUpTo(p, j))
           rows == {j \in Consumed(p) : results[p][j] = "row"}
<1>1. PICK m \in rest : \A n \in rest : m <= n
  <2>1. rest \in SUBSET Nat /\ rest # {}
    BY Widths DEF Window
  <2> HIDE DEF rest
  <2> QED BY <2>1, LeastMember
<1>2. m \in 1 .. Width /\ count(m - 1) >= Want /\ Want \in Nat \ {0}
  BY <1>1, RowsGrow, HistoryAssumption, Widths DEF Consumed, Window
<1>3. m - 1 # 0
  BY <1>2, RowsGrow
<1>4. m - 1 \in Consumed(p)
  <2>1. m - 1 \in Window /\ ~ (m <= m - 1)
    BY <1>2, <1>3, Widths DEF Window
  <2> QED BY <1>1, <2>1
<1>5. count(m - 2) < Want /\ m - 2 \in Nat
  BY <1>2, <1>3, <1>4 DEF Consumed
<1>6. count(m - 1) = Want
  BY <1>2, <1>5, RowsGrow, (m - 2) + 1 = m - 1
<1>7. Consumed(p) = 1 .. m - 1
  <2>1. ASSUME NEW j \in 1 .. m - 1 PROVE j \in Consumed(p)
    BY <1>1, <1>2, <2>1, Widths DEF Window
  <2>2. ASSUME NEW j \in Consumed(p) PROVE j \in 1 .. m - 1
    <3>1. j \in Window /\ count(j - 1) < Want /\ j - 1 \in Nat
      BY <2>2, Widths DEF Consumed, Window
    <3>2. m <= j => count(m - 1) <= count(j - 1)
      BY <1>2, <3>1, RowsMonotone, Widths DEF Window
    <3>3. j \in Nat /\ j >= 1 /\ count(j - 1) \in Nat
      BY <3>1, RowsGrow, Widths DEF Window
    <3> HIDE DEF count
    <3> QED BY <1>2, <1>6, <3>1, <3>2, <3>3, Widths
  <2> QED BY <2>1, <2>2
<1>8. rows = RowsUpTo(p, m - 1)
  BY <1>7 DEF RowsUpTo
<1>9. m <= i
  BY <1>1
<1>10. \A j \in rows : j \in 1 .. m - 1
  BY <1>7
<1>11. \A j \in rows : j < i
  <2> HIDE DEF rows
  <2> QED BY <1>2, <1>9, <1>10, Widths DEF Window
<1> QED BY <1>6, <1>8, <1>11

-----------------------------------------------------------------------------
(* The steps of a worker.                                                  *)

\* A worker that goes on keeps its pool's books.
LEMMA GoesOnType ==
  ASSUME TypeOK, NEW p \in Pool, NEW i \in flying[p], NEW r \in Content \cup {"timedout"},
         GoesOn(p, i, r)
  PROVE  /\ results' \in [Pool -> [Window -> Result]]
         /\ cursor' \in [Pool -> 1 .. Width + 1]
         /\ flying' \in [Pool -> SUBSET Window]
         /\ waited' \in [Pool -> [Window -> 0 .. Timeout]]
<1>1. /\ results \in [Pool -> [Window -> Result]] /\ cursor \in [Pool -> 1 .. Width + 1]
      /\ flying \in [Pool -> SUBSET Window] /\ waited \in [Pool -> [Window -> 0 .. Timeout]]
  BY DEF TypeOK
<1>2. i \in Window /\ r \in Result /\ "timedout" \in Result /\ 0 \in 0 .. Timeout
  BY <1>1, HistoryAssumption DEF Result
<1>3. waited' \in [Pool -> [Window -> 0 .. Timeout]]
  <2>1. [waited[p] EXCEPT ![i] = 0] \in [Window -> 0 .. Timeout]
    BY <1>1, <1>2
  <2>2. waited' = [waited EXCEPT ![p] = [waited[p] EXCEPT ![i] = 0]]
    BY DEF GoesOn
  <2> QED BY <1>1, <2>1, <2>2
<1>4. results' \in [Pool -> [Window -> Result]]
  <2> DEFINE marked == [j \in Window |-> IF j = i THEN r
                                        ELSE IF j >= cursor[p] THEN "timedout" ELSE results[p][j]]
             told == [results[p] EXCEPT ![i] = r]
  <2>1. marked \in [Window -> Result] /\ told \in [Window -> Result]
    BY <1>1, <1>2
  <2>2. results' = [results EXCEPT ![p] = marked] \/ results' = [results EXCEPT ![p] = told]
    BY DEF GoesOn
  <2> HIDE DEF marked, told
  <2> QED BY <1>1, <2>1, <2>2
<1>5. cursor' \in [Pool -> 1 .. Width + 1] /\ flying' \in [Pool -> SUBSET Window]
  <2>1. CASE aborted[p[1]]
    <3>1. Width + 1 \in 1 .. Width + 1 /\ flying[p] \ {i} \in SUBSET Window
      BY <1>1, Widths
    <3>2. cursor' = [cursor EXCEPT ![p] = Width + 1] /\ flying' = [flying EXCEPT ![p] = flying[p] \ {i}]
      BY <2>1 DEF GoesOn
    <3> QED BY <1>1, <3>1, <3>2
  <2>2. CASE ~ aborted[p[1]] /\ cursor[p] <= Width
    <3>1. cursor[p] \in 1 .. Width + 1
      BY <1>1
    <3>2. cursor[p] \in Window /\ cursor[p] + 1 \in 1 .. Width + 1
      BY <2>2, <3>1, Widths DEF Window
    <3>3. /\ cursor' = [cursor EXCEPT ![p] = cursor[p] + 1]
          /\ flying' = [flying EXCEPT ![p] = (flying[p] \ {i}) \cup {cursor[p]}]
      BY <2>2 DEF GoesOn
    <3>4. (flying[p] \ {i}) \cup {cursor[p]} \in SUBSET Window
      BY <1>1, <3>2
    <3> QED BY <1>1, <3>2, <3>3, <3>4
  <2>3. CASE ~ aborted[p[1]] /\ ~ (cursor[p] <= Width)
    <3>1. cursor' = cursor /\ flying' = [flying EXCEPT ![p] = flying[p] \ {i}]
      BY <2>3 DEF GoesOn
    <3>2. flying[p] \ {i} \in SUBSET Window
      BY <1>1
    <3> QED BY <1>1, <3>1, <3>2
  <2> QED BY <2>1, <2>2, <2>3
<1> QED BY <1>3, <1>4, <1>5

LEMMA GoesOnAccounts ==
  ASSUME TypeOK, NEW p \in Pool, NEW i \in flying[p], AccountedIn(p),
         NEW r, r \in {world[p[2]][i], "timedout"}, GoesOn(p, i, r), UNCHANGED world
  PROVE  AccountedIn(p)'
<1> USE DEF TypeOK
<1>1. i \in Window /\ i < cursor[p] /\ Width \in Nat /\ cursor[p] \in 1 .. Width + 1
  BY Widths DEF AccountedIn
<1>2. \A j \in Window : j \in Nat /\ j <= Width
  BY Widths DEF Window
<1>3. CASE aborted[p[1]]
  <2>1. /\ cursor'[p] = Width + 1 /\ flying'[p] = flying[p] \ {i}
        /\ \A j \in Window : results'[p][j] = IF j = i THEN r
                              ELSE IF j >= cursor[p] THEN "timedout" ELSE results[p][j]
    BY <1>3 DEF GoesOn
  <2>2. \A j \in flying'[p] : j < cursor'[p]
    BY <1>1, <1>2, <2>1
  <2>3. ASSUME NEW j \in Window, j \notin flying'[p] PROVE Settled(p, j)'
    BY <1>1, <1>2, <2>1, <2>3 DEF Settled, AccountedIn
  <2> QED BY <2>1, <2>2, <2>3 DEF AccountedIn
<1>4. CASE ~ aborted[p[1]]
  <2>1. \A j \in Window : results'[p][j] = IF j = i THEN r ELSE results[p][j]
    BY <1>4 DEF GoesOn
  <2>2. CASE cursor[p] <= Width
    <3>1. cursor'[p] = cursor[p] + 1 /\ flying'[p] = (flying[p] \ {i}) \cup {cursor[p]}
      BY <1>4, <2>2 DEF GoesOn
    <3>2. \A j \in flying'[p] : j < cursor'[p]
      BY <1>1, <1>2, <3>1 DEF AccountedIn
    <3>3. ASSUME NEW j \in Window, j < cursor'[p], j \notin flying'[p] PROVE Settled(p, j)'
      <4>1. j = i \/ (j < cursor[p] /\ j \notin flying[p])
        <5>1. j \in Nat /\ cursor[p] \in Nat
          BY <1>1, <1>2
        <5>2. j # cursor[p]
          BY <3>1, <3>3
        <5>3. j = i \/ j \notin flying[p]
          BY <3>1, <3>3
        <5>4. j < cursor[p] + 1
          BY <3>1, <3>3
        <5>5. ASSUME NEW m \in Nat, NEW n \in Nat, m < n + 1, m # n PROVE m < n
          BY <5>5
        <5>6. j < cursor[p]
          BY <5>1, <5>2, <5>4, <5>5
        <5> QED BY <5>3, <5>6
      <4> QED BY <1>1, <2>1, <4>1 DEF Settled, AccountedIn
    <3> QED BY <3>1, <3>2, <3>3 DEF AccountedIn
  <2>3. CASE ~ (cursor[p] <= Width)
    <3>1. cursor'[p] = cursor[p] /\ flying'[p] = flying[p] \ {i} /\ cursor[p] = Width + 1
      BY <1>1, <1>4, <2>3 DEF GoesOn
    <3>2. ASSUME NEW j \in Window, j < cursor'[p], j \notin flying'[p] PROVE Settled(p, j)'
      <4>1. j = i \/ (j < cursor[p] /\ j \notin flying[p])
        BY <3>1, <3>2
      <4> QED BY <1>1, <2>1, <4>1 DEF Settled, AccountedIn
    <3> QED BY <3>1, <3>2 DEF AccountedIn
  <2> QED BY <2>2, <2>3
<1> QED BY <1>3, <1>4

\* Nor does it touch another pool.
LEMMA GoesOnOthers ==
  ASSUME TypeOK, NEW p \in Pool, NEW i, NEW r, GoesOn(p, i, r), NEW q \in Pool, q # p
  PROVE  results'[q] = results[q] /\ cursor'[q] = cursor[q] /\ flying'[q] = flying[q]
BY DEF TypeOK, GoesOn

\* A step of a worker, as far as the invariant goes.
LEMMA WorkerStep ==
  ASSUME IInv, TypeOK', NEW p \in Pool, flying[p] # {},
         UNCHANGED <<world, asks, said>>,
         pc' = pc \/ (pc[p[1]] = "running" /\ pc' = [pc EXCEPT ![p[1]] = "failed"]),
         \A q \in Pool : q # p => /\ results'[q] = results[q] /\ cursor'[q] = cursor[q]
                                   /\ flying'[q] = flying[q],
         pc'[p[1]] = "running" /\ AccountedIn(p) => AccountedIn(p)'
  PROVE  IInv'
<1> USE DEF IInv
<1>1. p[1] \in Call /\ ~ Replied(p) /\ p \in PoolsOf(p[1]) /\ pc[p[1]] # "idle"
      /\ pc[p[1]] # "answered"
  BY PoolParts DEF RepliedRests
<1>2. /\ \A q \in Pool : pc'[q[1]] = pc[q[1]] \/ pc'[q[1]] = "failed"
      /\ \A q \in Pool : q \in PoolsOf(q[1])' <=> q \in PoolsOf(q[1])
      /\ \A q \in Pool : Replied(q)' <=> Replied(q)
  <2>1. pc \in [Call -> {"idle", "running", "answered", "failed"}]
    BY DEF TypeOK
  <2>2. \A q \in Pool : pc'[q[1]] = pc[q[1]] \/ pc'[q[1]] = "failed"
    BY <2>1, PoolParts
  <2> QED BY <2>2 DEF PoolsOf, Replied
<1>3. Accounted'
  <2>1. ASSUME NEW q \in Pool, pc'[q[1]] = "running", q \in PoolsOf(q[1])' PROVE AccountedIn(q)'
    <3>1. AccountedIn(q)
      BY <1>2, <2>1 DEF Accounted
    <3>2. CASE q = p
      BY <2>1, <3>1, <3>2
    <3>3. CASE q # p
      BY <3>1, <3>3 DEF AccountedIn, Settled
    <3> QED BY <3>2, <3>3
  <2> QED BY <2>1 DEF Accounted
<1>4. RepliedRests'
  BY <1>1, <1>2 DEF RepliedRests
<1>5. NoSilentGap'
  BY DEF NoSilentGap, Replied
<1> QED BY <1>3, <1>4, <1>5

\* A step that moves no worker and reads no answer.
LEMMA QuietStep ==
  ASSUME IInv, TypeOK', UNCHANGED <<world, asks, results, cursor, flying, pc, said>>
  PROVE  IInv'
<1> USE DEF IInv
<1>1. Accounted'
  BY DEF Accounted, AccountedIn, Settled, PoolsOf
<1>2. RepliedRests'
  BY DEF RepliedRests, PoolsOf, Replied
<1>3. NoSilentGap'
  BY DEF NoSilentGap, Replied
<1> QED BY <1>1, <1>2, <1>3

-----------------------------------------------------------------------------
(* Every step keeps the invariant.                                         *)

LEMMA InvInit == Init => IInv
<1> SUFFICES ASSUME Init PROVE IInv
  OBVIOUS
<1> USE DEF Init
<1>1. TypeOK
  <2>1. 1 \in 1 .. Width + 1 /\ 0 \in 0 .. Timeout /\ 0 \in 0 .. Deadline
    BY Widths, HistoryAssumption
  <2> QED BY <2>1 DEF TypeOK, Result
<1>2. Accounted
  BY PoolParts DEF Accounted
<1>3. RepliedRests
  BY PoolParts DEF RepliedRests, Replied
<1>4. NoSilentGap
  BY DEF NoSilentGap, Replied
<1> QED BY <1>1, <1>2, <1>3, <1>4 DEF IInv

LEMMA BeginStep == ASSUME IInv, NEW c \in Call, Begin(c) PROVE IInv'
<1> USE DEF IInv
<1>1. TypeOK'
  <2>1. Workers + 1 \in 1 .. Width + 1 /\ 1 .. Workers \in SUBSET Window
    BY Widths DEF Window
  <2>2. /\ cursor' \in [Pool -> 1 .. Width + 1] /\ flying' \in [Pool -> SUBSET Window]
        /\ pc' \in [Call -> {"idle", "running", "answered", "failed"}]
    BY <2>1 DEF TypeOK, Begin
  <2> QED BY <2>2 DEF TypeOK, Begin, given
<1>2. /\ \A p \in Pool : p \in PoolsOf(p[1])' <=> p \in PoolsOf(p[1])
      /\ \A p \in Pool : Replied(p)' <=> Replied(p)
  BY DEF Begin, given, PoolsOf, Replied
<1>3. /\ pc[c] = "idle" /\ pc'[c] = "running"
      /\ \A p \in Pool : p[1] # c => pc'[p[1]] = pc[p[1]]
  BY PoolParts DEF Begin, TypeOK
<1>4. ASSUME NEW p \in Pool, p \in PoolsOf(c)
      PROVE  cursor'[p] = Workers + 1 /\ flying'[p] = 1 .. Workers
  BY <1>4 DEF Begin
<1>5. ASSUME NEW p \in Pool, p \notin PoolsOf(c)
      PROVE  cursor'[p] = cursor[p] /\ flying'[p] = flying[p] /\ results'[p] = results[p]
  BY <1>5 DEF Begin
<1>6. Accounted'
  <2>1. ASSUME NEW p \in Pool, pc'[p[1]] = "running", p \in PoolsOf(p[1])' PROVE AccountedIn(p)'
    <3>1. CASE p[1] = c
      <4>1. 1 \in 1 .. Workers
        BY Widths
      <4>2. cursor'[p] = Workers + 1 /\ flying'[p] = 1 .. Workers
        BY <1>2, <1>4, <2>1, <3>1
      <4> QED BY <4>1, <4>2, Widths DEF AccountedIn, Window
    <3>2. CASE p[1] # c
      <4>1. p \notin PoolsOf(c) /\ AccountedIn(p)
        BY <1>2, <1>3, <2>1, <3>2 DEF Accounted, PoolsOf
      <4>2. cursor'[p] = cursor[p] /\ flying'[p] = flying[p] /\ results'[p] = results[p] /\ world' = world
        BY <1>5, <4>1 DEF Begin, given
      <4> QED BY <4>1, <4>2 DEF AccountedIn, Settled
    <3> QED BY <3>1, <3>2
  <2> QED BY <2>1 DEF Accounted
<1>7. RepliedRests'
  <2>1. ASSUME NEW p \in Pool
        PROVE  /\ Replied(p)' => flying'[p] = {}
               /\ pc'[p[1]] = "idle" \/ p \notin PoolsOf(p[1])' => flying'[p] = {} /\ ~ Replied(p)'
               /\ pc'[p[1]] = "answered" /\ p \in PoolsOf(p[1])' => Replied(p)'
    <3>1. CASE p \in PoolsOf(c)
      <4>1. p[1] = c
        BY <3>1 DEF PoolsOf
      <4> QED BY <1>2, <1>3, <3>1, <4>1 DEF RepliedRests
    <3>2. CASE p \notin PoolsOf(c) /\ p[1] = c
      BY <1>2, <1>3, <1>5, <3>2 DEF RepliedRests
    <3>3. CASE p[1] # c
      <4>1. p \notin PoolsOf(c)
        BY <3>3 DEF PoolsOf
      <4> QED BY <1>2, <1>3, <1>5, <3>3, <4>1 DEF RepliedRests
    <3> QED BY <3>1, <3>2, <3>3
  <2> QED BY <2>1 DEF RepliedRests
<1>8. NoSilentGap'
  BY DEF NoSilentGap, Replied, Begin, given
<1> QED BY <1>1, <1>6, <1>7, <1>8

LEMMA AnsweredStep ==
  ASSUME IInv, NEW p \in Pool, NEW i \in Window, Answered(p, i) \/ Stopped(p, i)
  PROVE  IInv'
<1> USE DEF IInv
<1>1. /\ i \in flying[p] /\ UNCHANGED <<given, calls>>
      /\ cached' = cached \/ cached' = cached \cup Stored(p[2], i)
  BY DEF Answered, Stopped
<1>2. PICK r \in {world[p[2]][i], "timedout"} : GoesOn(p, i, r)
  BY DEF Answered, Stopped
<1>3. r \in Content \cup {"timedout"}
  BY <1>2, ContentType
<1>4. TypeOK'
  <2>1. Stored(p[2], i) \subseteq Series \X Period
    BY PoolParts, Widths DEF Stored
  <2>2. cached' \subseteq Series \X Period
    BY <1>1, <2>1 DEF TypeOK
  <2> QED BY <1>1, <1>2, <1>3, <2>2, GoesOnType DEF TypeOK, given, calls
<1>5. AccountedIn(p) => AccountedIn(p)'
  BY <1>1, <1>2, GoesOnAccounts DEF given
<1>6. \A q \in Pool : q # p => results'[q] = results[q] /\ cursor'[q] = cursor[q] /\ flying'[q] = flying[q]
  BY <1>2, GoesOnOthers
<1> QED BY <1>1, <1>4, <1>5, <1>6, WorkerStep DEF given, calls

LEMMA RetriedStep ==
  ASSUME IInv, NEW p \in Pool, NEW i \in Window, Retried(p, i)
  PROVE  IInv'
<1>1. TypeOK'
  <2>1. 0 \in 0 .. Timeout /\ waited \in [Pool -> [Window -> 0 .. Timeout]]
    BY HistoryAssumption DEF IInv, TypeOK
  <2>2. [waited[p] EXCEPT ![i] = 0] \in [Window -> 0 .. Timeout]
    BY <2>1
  <2>3. waited' \in [Pool -> [Window -> 0 .. Timeout]]
    BY <2>1, <2>2 DEF Retried
  <2> QED BY <2>3 DEF IInv, TypeOK, Retried, given, calls
<1> QED BY <1>1, QuietStep DEF Retried, given, calls

LEMMA ThrowsStep ==
  ASSUME IInv, NEW p \in Pool, NEW i \in Window, Errs(p, i) \/ TimesOut(p, i)
  PROVE  IInv'
<1>1. PICK why \in {"error", "timeout"} : Throws(p, i, why)
  BY DEF Errs, TimesOut
<1>2. /\ i \in flying[p] /\ flying' = [flying EXCEPT ![p] = flying[p] \ {i}]
      /\ waited' = [waited EXCEPT ![p] = [waited[p] EXCEPT ![i] = 0]]
      /\ UNCHANGED <<world, asks, cached, results, cursor, aborted, clock, said>>
      /\ \/ pc[p[1]] # "running" /\ UNCHANGED <<pc, cause>>
         \/ /\ pc[p[1]] = "running" /\ pc' = [pc EXCEPT ![p[1]] = "failed"]
            /\ cause' = [cause EXCEPT ![p[1]] = why]
  BY <1>1 DEF Throws, Fail, given
<1>3. TypeOK'
  <2>1. 0 \in 0 .. Timeout /\ waited \in [Pool -> [Window -> 0 .. Timeout]]
    BY HistoryAssumption DEF IInv, TypeOK
  <2>2. [waited[p] EXCEPT ![i] = 0] \in [Window -> 0 .. Timeout]
    BY <2>1
  <2>3. waited' \in [Pool -> [Window -> 0 .. Timeout]]
    BY <1>2, <2>1, <2>2
  <2>4. flying' \in [Pool -> SUBSET Window]
    <3>1. flying \in [Pool -> SUBSET Window]
      BY DEF IInv, TypeOK
    <3>2. flying[p] \ {i} \in SUBSET Window
      BY <3>1
    <3> QED BY <1>2, <3>1, <3>2
  <2>5. /\ pc' \in [Call -> {"idle", "running", "answered", "failed"}]
        /\ cause' \in [Call -> {"none", "error", "timeout", "nothing"}]
    <3>1. /\ pc \in [Call -> {"idle", "running", "answered", "failed"}]
          /\ cause \in [Call -> {"none", "error", "timeout", "nothing"}] /\ p[1] \in Call
      BY PoolParts DEF IInv, TypeOK
    <3> QED BY <1>1, <1>2, <3>1
  <2> QED BY <1>2, <2>3, <2>4, <2>5 DEF IInv, TypeOK
<1>4. /\ \A q \in Pool : q # p => results'[q] = results[q] /\ cursor'[q] = cursor[q] /\ flying'[q] = flying[q]
      /\ p[1] \in Call /\ flying[p] # {}
  BY <1>2, PoolParts DEF IInv, TypeOK
<1>5. pc'[p[1]] # "running"
  BY <1>2, <1>4 DEF IInv, TypeOK
<1> QED BY <1>2, <1>3, <1>4, <1>5, WorkerStep

\* What is read of a pool that is done leaves no gap.
LEMMA AnswerHasNoGap ==
  ASSUME TypeOK, NEW p \in Pool, AccountedIn(p), flying[p] = {}
  PROVE  /\ AnswerOf(p) \in Answer
         /\ \A i \in Window :
              world[p[2]][i] = "row" /\ i \notin AnswerOf(p).rows \cup AnswerOf(p).named =>
                Cardinality(AnswerOf(p).rows) = Want /\ \A j \in AnswerOf(p).rows : j < i
<1> DEFINE rows == {j \in Consumed(p) : results[p][j] = "row"}
<1>1. AnswerOf(p).rows = rows /\ AnswerOf(p).named = Missing(p) /\ AnswerOf(p) \in Answer
  BY DEF AnswerOf, Answer, Missing, Consumed
<1>2. ASSUME NEW i \in Window PROVE Settled(p, i)
  <2>1. i < cursor[p]
    BY Widths DEF AccountedIn, Window
  <2> QED BY <2>1 DEF AccountedIn
<1>3. ASSUME NEW i \in Window, world[p[2]][i] = "row", i \notin rows, i \notin Missing(p)
      PROVE  i \notin Consumed(p)
  BY <1>2, <1>3 DEF Settled, Missing
<1>4. ASSUME NEW i \in Window, i \notin Consumed(p)
      PROVE  Cardinality(rows) = Want /\ \A j \in rows : j < i
  BY <1>4, ScanIsPrefix
<1> HIDE DEF rows
<1> QED BY <1>1, <1>3, <1>4

LEMMA ReadStep == ASSUME IInv, NEW p \in Pool, Read(p) PROVE IInv'
<1> DEFINE c == p[1]
           a == AnswerOf(p)
           empty == a.rows = {} /\ ~ Published(p) /\ a.named # {}
<1>1. /\ pc[c] = "running" /\ p \in PoolsOf(c) /\ said[p] = Pending /\ flying[p] = {}
      /\ UNCHANGED <<world, asks, cached, results, cursor, flying, waited, aborted, clock>>
      /\ \/ /\ said' = said /\ pc' = [pc EXCEPT ![c] = "failed"]
            /\ cause' = [cause EXCEPT ![c] = "nothing"]
         \/ /\ said' = [said EXCEPT ![p] = a] /\ cause' = cause
            /\ \/ pc' = pc
               \/ /\ \A q \in PoolsOf(c) \ {p} : said[q] # Pending
                  /\ pc' = [pc EXCEPT ![c] = "answered"]
  BY DEF Read, PoolDone, Fail, given, pools
<1>2. AccountedIn(p) /\ TypeOK /\ c \in Call
  BY <1>1, PoolParts DEF IInv, Accounted
<1>3. a \in Answer /\ a # Pending
  BY <1>1, <1>2, AnswerHasNoGap, PendingAssumption
<1>4. TypeOK'
  <2>1. /\ pc' \in [Call -> {"idle", "running", "answered", "failed"}]
        /\ cause' \in [Call -> {"none", "error", "timeout", "nothing"}]
    BY <1>1, <1>2 DEF TypeOK
  <2>2. said' \in [Pool -> Answer \cup {Pending}]
    <3> HIDE DEF a
    <3>1. said \in [Pool -> Answer \cup {Pending}]
      BY <1>2 DEF TypeOK
    <3>2. said' = said \/ said' = [said EXCEPT ![p] = a]
      BY <1>1
    <3> QED BY ONLY <1>3, <3>1, <3>2
  <2> QED BY <1>1, <1>2, <2>1, <2>2 DEF TypeOK
<1> HIDE DEF a
<1>5. /\ \A q \in Pool : q \in PoolsOf(q[1])' <=> q \in PoolsOf(q[1])
      /\ \A q \in Pool : q # p => said'[q] = said[q]
      /\ said'[p] \in {said[p], a}
      /\ \A q \in Pool : q[1] # c => pc'[q[1]] = pc[q[1]]
      /\ pc'[c] \in {"running", "failed", "answered"}
  <2>1. /\ said \in [Pool -> Answer \cup {Pending}]
        /\ pc \in [Call -> {"idle", "running", "answered", "failed"}]
    BY <1>2 DEF TypeOK
  <2> QED BY <1>1, <1>2, <2>1, PoolParts DEF PoolsOf
<1>6. Accounted'
  <2>1. ASSUME NEW q \in Pool, pc'[q[1]] = "running", q \in PoolsOf(q[1])' PROVE AccountedIn(q)'
    <3>1. pc[q[1]] = "running" /\ q \in PoolsOf(q[1])
      BY <1>1, <1>5, <2>1
    <3> QED BY <1>1, <3>1 DEF IInv, Accounted, AccountedIn, Settled
  <2> QED BY <2>1 DEF Accounted
<1>7. RepliedRests'
  <2>1. ASSUME NEW q \in Pool
        PROVE  /\ Replied(q)' => flying'[q] = {}
               /\ pc'[q[1]] = "idle" \/ q \notin PoolsOf(q[1])' => flying'[q] = {} /\ ~ Replied(q)'
               /\ pc'[q[1]] = "answered" /\ q \in PoolsOf(q[1])' => Replied(q)'
    <3>1. CASE q = p
      <4>1. pc'[c] = "answered" => said'[p] = a
        BY <1>1, <1>2 DEF TypeOK
      <4> QED BY <1>1, <1>3, <1>5, <3>1, <4>1 DEF IInv, RepliedRests, Replied
    <3>2. CASE q # p /\ q[1] = c
      <4>1. pc'[c] = "answered" /\ q \in PoolsOf(c) => said[q] # Pending
        BY <1>1, <1>2, <3>2 DEF TypeOK
      <4> QED BY <1>1, <1>5, <3>2, <4>1 DEF IInv, RepliedRests, Replied
    <3>3. CASE q[1] # c
      BY <1>1, <1>5, <3>3 DEF IInv, RepliedRests, Replied
    <3> QED BY <3>1, <3>2, <3>3
  <2> QED BY <2>1 DEF RepliedRests
<1>8. NoSilentGap'
  <2>1. ASSUME NEW q \in Pool, Replied(q)', NEW i \in Window,
               world'[q[2]][i] = "row", i \notin said'[q].rows \cup said'[q].named
        PROVE  Cardinality(said'[q].rows) = Want /\ \A j \in said'[q].rows : j < i
    <3>1. CASE said'[q] = said[q]
      BY <1>1, <2>1, <3>1 DEF IInv, NoSilentGap, Replied
    <3>2. CASE said'[q] # said[q]
      <4>1. q = p /\ said'[p] = AnswerOf(p)
        BY <1>5, <3>2 DEF a
      <4> QED BY <1>1, <1>2, <2>1, <4>1, AnswerHasNoGap
    <3> QED BY <3>1, <3>2
  <2> QED BY <2>1 DEF NoSilentGap
<1> QED BY <1>4, <1>6, <1>7, <1>8 DEF IInv

LEMMA TimerStep ==
  ASSUME IInv, Tick \/ (\E c \in Call : DeadlineFires(c)) \/ UNCHANGED vars
  PROVE  IInv'
<1>1. UNCHANGED <<world, asks, cached, results, cursor, flying, pc, said, cause>>
  BY DEF Tick, DeadlineFires, vars, given, pools
<1>2. aborted' \in [Call -> BOOLEAN]
  BY DEF Tick, DeadlineFires, vars, IInv, TypeOK
<1>3. clock' \in [Call -> 0 .. Deadline]
  <2>1. clock \in [Call -> 0 .. Deadline] /\ Deadline \in Nat
    BY HistoryAssumption DEF IInv, TypeOK
  <2>2. CASE Tick
    <3>1. ASSUME NEW c \in Call, clock[c] < Deadline PROVE clock[c] + 1 \in 0 .. Deadline
      BY <2>1, <3>1
    <3> QED BY <2>1, <2>2, <3>1 DEF Tick
  <2> QED BY <2>1, <2>2 DEF DeadlineFires, vars
<1>4. waited' \in [Pool -> [Window -> 0 .. Timeout]]
  <2>1. waited \in [Pool -> [Window -> 0 .. Timeout]] /\ Timeout \in Nat
    BY HistoryAssumption DEF IInv, TypeOK
  <2>2. CASE Tick
    <3>1. ASSUME NEW p \in Pool, NEW i \in Window, waited[p][i] < Timeout
          PROVE  waited[p][i] + 1 \in 0 .. Timeout
      BY <2>1, <3>1
    <3> QED BY <2>1, <2>2, <3>1 DEF Tick
  <2> QED BY <2>1, <2>2 DEF DeadlineFires, vars, pools
<1>5. TypeOK'
  BY <1>1, <1>2, <1>3, <1>4 DEF IInv, TypeOK
<1> QED BY <1>1, <1>5, QuietStep

LEMMA InvStep == IInv /\ [Next]_vars => IInv'
<1> SUFFICES ASSUME IInv, [Next]_vars PROVE IInv'
  OBVIOUS
<1>1. ASSUME NEW c \in Call, Begin(c) PROVE IInv'
  BY <1>1, BeginStep
<1>2. ASSUME NEW p \in Pool, Read(p) PROVE IInv'
  BY <1>2, ReadStep
<1>3. ASSUME NEW p \in Pool, NEW i \in Window, Answered(p, i) \/ Stopped(p, i) PROVE IInv'
  BY <1>3, AnsweredStep
<1>4. ASSUME NEW p \in Pool, NEW i \in Window, Retried(p, i) PROVE IInv'
  BY <1>4, RetriedStep
<1>5. ASSUME NEW p \in Pool, NEW i \in Window, Errs(p, i) \/ TimesOut(p, i) PROVE IInv'
  BY <1>5, ThrowsStep
<1>6. ASSUME Tick \/ (\E c \in Call : DeadlineFires(c)) \/ UNCHANGED vars PROVE IInv'
  BY <1>6, TimerStep
<1> QED BY <1>1, <1>2, <1>3, <1>4, <1>5, <1>6 DEF Next

\* The invariant holds in every behaviour.
THEOREM Invariance == Spec => []IInv
BY InvInit, InvStep, PTL DEF Spec

-----------------------------------------------------------------------------
(* The theorems.                                                           *)

\* Every variable keeps its type: results, cursors and flying slices stay in
\* their window (fetchSlicesBounded), timers in their limits.
THEOREM TypeCorrect == Spec => []TypeOK
BY Invariance, PTL DEF IInv

\* An answered call has nothing in flight: Promise.all over the workers of a
\* pool and over the series of a call (fetchSlicesBounded, qcewFetch).
THEOREM AnsweredRests == Spec => []NothingOutlivesAnswer
<1>1. IInv => NothingOutlivesAnswer
  BY DEF IInv, RepliedRests, NothingOutlivesAnswer
<1> QED BY <1>1, Invariance, PTL

\* A slice the deadline stopped is named, and no newer row is passed over
\* (fetchRows), whatever the sizes of window, pool and timers.
THEOREM GapsAreTold == Spec => []NoSilentGap
BY Invariance, PTL DEF IInv

-----------------------------------------------------------------------------
(* Asking again.                                                           *)
(*                                                                         *)
(* While a slice is started, fewer than Workers slices before it are still *)
(* in flight or were stopped (FewSlow): each of those holds a worker.  So, *)
(* once a row is answered with, fewer than Workers slices before it are    *)
(* not in the cache (RowsAreWarm).  When the deadline of a later call      *)
(* fires, every slice in flight is such a slice, and every worker has one; *)
(* so the workers are past that row (RowsAreReached), and past the         *)
(* deadline nothing takes it back: it is in the cache.                     *)

Kept(s) == \A i \in Period : world[s][i] # "absent"

\* The slices before slice r that hold a worker of the pool, or did at the
\* deadline; and those that are not in the cache.
Slow(p, r) == {j \in Window : j < r /\ (j \in flying[p] \/ results[p][j] = "timedout")}
Cold(s, r) == {j \in Window : j < r /\ <<s, j>> \notin cached}

AnswersAreCached ==
  \A p \in Pool : \A i \in Window :
    results[p][i] \in Content /\ world[p[2]][i] # "absent" => <<p[2], i>> \in cached

\* The workers of a pool of a running call: each has a slice while there are
\* slices to start, and none was stopped before the deadline.
PoolIsBusy(p) ==
  /\ Cardinality(flying[p]) <= Workers
  /\ cursor[p] <= Width => Cardinality(flying[p]) = Workers
  /\ \A i \in Window : i >= cursor[p] => results[p][i] = "hole"
  /\ ~ aborted[p[1]] => \A i \in Window : results[p][i] # "timedout"

FewSlow(p) ==
  \A i \in Window : i \in flying[p] \/ results[p][i] \in Content => Cardinality(Slow(p, i)) < Workers

Staffed ==
  \A p \in Pool : pc[p[1]] = "running" /\ p \in PoolsOf(p[1]) => PoolIsBusy(p) /\ FewSlow(p)

RowsAreWarm ==
  \A p \in Pool : Replied(p) /\ Kept(p[2]) =>
    \A r \in said[p].rows : <<p[2], r>> \in cached /\ Cardinality(Cold(p[2], r)) < Workers

OneAfterTheOther ==
  /\ \A c, d \in Call : c < d /\ pc[d] # "idle" => pc[c] \in {"answered", "failed"}
  /\ \A p \in Pool : pc[p[1]] = "idle" =>
       ~ aborted[p[1]] /\ \A i \in Window : results[p][i] = "hole"

\* A row answered with before is not stopped by a later call's deadline.
RowsAreReached ==
  \A p, q \in Pool :
    p[1] < q[1] /\ p[2] = q[2] /\ q \in PoolsOf(q[1]) /\ Replied(p) /\ Kept(p[2]) =>
      \A r \in said[p].rows :
        results[q][r] # "timedout" /\ (aborted[q[1]] => r < cursor[q])

NamedWereStopped ==
  \A p \in Pool : Replied(p) =>
    \A i \in said[p].named : results[p][i] = "timedout"

AInv ==
  /\ AnswersAreCached /\ Staffed /\ RowsAreWarm
  /\ OneAfterTheOther /\ RowsAreReached /\ NamedWereStopped

\* A pool's slices in flight, its slow ones and a series' cold ones are finite.
LEMMA FiniteWindow ==
  ASSUME NEW S \in SUBSET Window
  PROVE  IsFiniteSet(S) /\ Cardinality(S) \in Nat
<1>1. IsFiniteSet(Window)
  BY Widths, FS_Interval DEF Window
<1> QED BY <1>1, FS_Subset, FS_CardinalityType

LEMMA SmallerSet ==
  ASSUME NEW S \in SUBSET Window, NEW T \in SUBSET S
  PROVE  Cardinality(T) <= Cardinality(S)
BY FiniteWindow, FS_Subset

LEMMA PoolTypes ==
  ASSUME TypeOK
  PROVE  /\ results \in [Pool -> [Window -> Result]] /\ cursor \in [Pool -> 1 .. Width + 1]
         /\ flying \in [Pool -> SUBSET Window] /\ said \in [Pool -> Answer \cup {Pending}]
         /\ aborted \in [Call -> BOOLEAN]
         /\ pc \in [Call -> {"idle", "running", "answered", "failed"}]
BY DEF TypeOK

LEMMA RepliedType ==
  ASSUME TypeOK, NEW p \in Pool, Replied(p)
  PROVE  said[p].rows \in SUBSET Window /\ said[p].named \in SUBSET Window
BY PoolTypes DEF Replied, Answer

\* Before the workers of a pool reach slice r, every one of them has a slice
\* before it.
LEMMA WorkersAreBefore ==
  ASSUME TypeOK, NEW p \in Pool, AccountedIn(p), PoolIsBusy(p), NEW r \in Window, ~ (r < cursor[p]),
         \A i \in flying[p] : <<p[2], i>> \notin cached
  PROVE  Workers <= Cardinality(Cold(p[2], r))
<1>1. cursor[p] \in 1 .. Width + 1 /\ r \in 1 .. Width /\ Width \in Nat /\ flying[p] \in SUBSET Window
  BY Widths, PoolTypes DEF Window
<1>2. cursor[p] <= Width /\ Cardinality(flying[p]) = Workers
  BY <1>1 DEF PoolIsBusy
<1>3. flying[p] \subseteq Cold(p[2], r)
  <2>1. ASSUME NEW i \in flying[p] PROVE i \in Cold(p[2], r)
    <3>1. i < cursor[p] /\ i \in Window /\ i \in Nat
      BY <1>1, Widths DEF AccountedIn, Window
    <3>2. i < r
      BY <1>1, <3>1
    <3> QED BY <3>1, <3>2 DEF Cold
  <2> QED BY <2>1
<1>4. Cold(p[2], r) \in SUBSET Window
  BY DEF Cold
<1> QED BY <1>2, <1>3, <1>4, SmallerSet

\* What a worker that goes on does to its pool: past the deadline it marks the
\* slices not started, before it takes the next one, or there is none.
LEMMA GoesOnCases ==
  ASSUME TypeOK, NEW p \in Pool, NEW i \in flying[p], NEW r, GoesOn(p, i, r)
  PROVE  /\ results'[p][i] = r
         /\ \/ /\ aborted[p[1]]
               /\ cursor'[p] = Width + 1 /\ flying'[p] = flying[p] \ {i}
               /\ \A j \in Window : j # i =>
                    results'[p][j] = IF j >= cursor[p] THEN "timedout" ELSE results[p][j]
            \/ /\ ~ aborted[p[1]] /\ \A j \in Window : j # i => results'[p][j] = results[p][j]
               /\ \/ /\ cursor[p] <= Width /\ cursor'[p] = cursor[p] + 1
                     /\ flying'[p] = (flying[p] \ {i}) \cup {cursor[p]}
                  \/ /\ ~ (cursor[p] <= Width) /\ cursor'[p] = cursor[p]
                     /\ flying'[p] = flying[p] \ {i}
<1>1. i \in Window
  BY PoolTypes
<1>2. CASE aborted[p[1]]
  BY <1>1, <1>2, PoolTypes DEF GoesOn
<1>3. CASE ~ aborted[p[1]]
  <2>1. results'[p] = [results[p] EXCEPT ![i] = r]
    BY <1>3, PoolTypes DEF GoesOn
  <2>2. results'[p][i] = r /\ \A j \in Window : j # i => results'[p][j] = results[p][j]
    BY <1>1, <2>1, PoolTypes
  <2>3. CASE cursor[p] <= Width
    <3>1. cursor'[p] = cursor[p] + 1 /\ flying'[p] = (flying[p] \ {i}) \cup {cursor[p]}
      BY <1>3, <2>3, PoolTypes DEF GoesOn
    <3> QED BY <1>3, <2>2, <2>3, <3>1
  <2>4. CASE ~ (cursor[p] <= Width)
    <3>1. cursor'[p] = cursor[p] /\ flying'[p] = flying[p] \ {i}
      BY <1>3, <2>4, PoolTypes DEF GoesOn
    <3> QED BY <1>3, <2>2, <2>4, <3>1
  <2> QED BY <2>3, <2>4
<1> QED BY <1>2, <1>3

\* One worker, one slice.
LEMMA GoesOnBusy ==
  ASSUME TypeOK, NEW p \in Pool, NEW i \in flying[p], AccountedIn(p), PoolIsBusy(p),
         NEW r, r = "timedout" => aborted[p[1]], GoesOn(p, i, r), UNCHANGED aborted
  PROVE  PoolIsBusy(p)'
<1>1. /\ flying[p] \in SUBSET Window /\ i \in Window /\ cursor[p] \in 1 .. Width + 1
      /\ Width \in Nat /\ Workers \in Nat /\ \A j \in Window : j \in 1 .. Width
  BY Widths, PoolTypes DEF Window
<1> DEFINE rest == flying[p] \ {i}
<1>2. /\ IsFiniteSet(flying[p]) /\ IsFiniteSet(rest) /\ Cardinality(rest) \in Nat
      /\ Cardinality(flying[p]) \in Nat /\ Cardinality(flying[p]) = Cardinality(rest) + 1
  <2>1. IsFiniteSet(flying[p]) /\ Cardinality(flying[p]) \in Nat
    BY <1>1, FiniteWindow
  <2>2. IsFiniteSet(rest) /\ Cardinality(rest) = Cardinality(flying[p]) - 1
    BY <2>1, FS_RemoveElement
  <2> QED BY <2>1, <2>2, FS_CardinalityType
<1>3. Cardinality(flying[p]) <= Workers /\ i < cursor[p]
  BY DEF PoolIsBusy, AccountedIn
<1>4. CASE flying'[p] = rest /\ ~ (cursor'[p] <= Width) /\ cursor'[p] = Width + 1
           /\ (~ aborted[p[1]] => \A j \in Window : j # i => results'[p][j] = results[p][j])
  <2>1. Cardinality(flying'[p]) <= Workers
    BY <1>1, <1>2, <1>3, <1>4
  <2>2. \A j \in Window : ~ (j >= cursor'[p])
    BY <1>1, <1>4
  <2>3. ~ aborted'[p[1]] => \A j \in Window : results'[p][j] # "timedout"
    BY <1>4, GoesOnCases DEF PoolIsBusy
  <2> QED BY <1>4, <2>1, <2>2, <2>3 DEF PoolIsBusy
<1>5. CASE /\ ~ aborted[p[1]] /\ \A j \in Window : j # i => results'[p][j] = results[p][j]
           /\ cursor[p] <= Width /\ cursor'[p] = cursor[p] + 1 /\ flying'[p] = rest \cup {cursor[p]}
  <2>1. cursor[p] \notin rest
    BY <1>1 DEF AccountedIn
  <2>2. Cardinality(flying'[p]) = Workers
    <3>1. Cardinality(rest \cup {cursor[p]}) = Cardinality(rest) + 1
      BY <1>2, <2>1, FS_AddElement
    <3> QED BY <1>2, <1>5, <3>1 DEF PoolIsBusy
  <2>3. ASSUME NEW j \in Window, j >= cursor'[p] PROVE results'[p][j] = "hole"
    <3>1. j >= cursor[p] /\ j # i
      BY <1>1, <1>3, <1>5, <2>3
    <3> QED BY <1>5, <3>1 DEF PoolIsBusy
  <2>4. \A j \in Window : results'[p][j] # "timedout"
    BY <1>5, GoesOnCases DEF PoolIsBusy
  <2> QED BY <1>1, <2>2, <2>3, <2>4 DEF PoolIsBusy
<1>6. cursor[p] <= Width \/ cursor[p] = Width + 1
  BY <1>1
<1>7. ~ (Width + 1 <= Width)
  BY <1>1
<1> HIDE DEF rest
<1>8. flying[p] \ {i} = rest
  BY DEF rest
<1> QED BY <1>4, <1>5, <1>6, <1>7, <1>8, GoesOnCases

\* A slice that is started waits for no more slow ones than before.
LEMMA GoesOnSlow ==
  ASSUME TypeOK, NEW p \in Pool, NEW i \in flying[p], AccountedIn(p), PoolIsBusy(p), FewSlow(p),
         NEW r, r \in {world[p[2]][i], "timedout"}, r = "timedout" => aborted[p[1]],
         GoesOn(p, i, r)
  PROVE  FewSlow(p)'
<1>1. /\ flying[p] \in SUBSET Window /\ i \in Window /\ cursor[p] \in Nat /\ i < cursor[p]
      /\ Width \in Nat /\ Workers \in Nat /\ \A j \in Window : j \in Nat
  BY Widths, PoolTypes DEF Window, AccountedIn
<1>2. r # "timedout" => r \in Content
  BY <1>1, ContentType
<1> DEFINE slow(j) == {k \in Window : k < j /\ (k \in flying'[p] \/ results'[p][k] = "timedout")}
<1>3. SUFFICES ASSUME NEW j \in Window, j \in flying'[p] \/ results'[p][j] \in Content
               PROVE  Cardinality(slow(j)) < Workers
  BY DEF FewSlow, Slow
<1>4. ASSUME j \in flying[p] \/ results[p][j] \in Content PROVE Cardinality(slow(j)) < Workers
  <2>1. j < cursor[p]
    <3>1. j >= cursor[p] => results[p][j] = "hole"
      BY DEF PoolIsBusy
    <3>2. j \in flying[p] => j < cursor[p]
      BY DEF AccountedIn
    <3> QED BY <1>1, <1>4, <3>1, <3>2 DEF Content
  <2>2. ASSUME NEW k \in Window, k < j, k \in flying'[p] \/ results'[p][k] = "timedout"
        PROVE  k \in flying[p] \/ results[p][k] = "timedout"
    <3>1. ~ (k >= cursor[p]) /\ k # cursor[p]
      BY <1>1, <2>1, <2>2
    <3> QED BY <2>2, <3>1, GoesOnCases
  <2>3. slow(j) \subseteq Slow(p, j) /\ Slow(p, j) \in SUBSET Window
    BY <2>2 DEF Slow
  <2>4. Cardinality(Slow(p, j)) < Workers
    BY <1>4 DEF FewSlow
  <2> HIDE DEF slow
  <2>5. Cardinality(slow(j)) <= Cardinality(Slow(p, j)) /\ slow(j) \in SUBSET Window
    BY <2>3, SmallerSet
  <2> QED BY <1>1, <2>3, <2>4, <2>5, FiniteWindow
<1>5. CASE j \notin flying[p] /\ results[p][j] \notin Content
  <2>1. j # i
    BY <1>5
  <2>2. /\ ~ aborted[p[1]] /\ j = cursor[p] /\ flying'[p] = (flying[p] \ {i}) \cup {j}
        /\ \A k \in Window : k # i => results'[p][k] = results[p][k]
    <3>1. "timedout" \notin Content
      BY DEF Content
    <3> QED BY <1>3, <1>5, <2>1, <3>1, GoesOnCases
  <2>3. ASSUME NEW k \in slow(j) PROVE k \in flying[p] \ {i}
    <3>1. r # "timedout" /\ results'[p][i] = r
      BY <2>2, GoesOnCases
    <3>2. k # j
      BY <1>1
    <3>3. k # i => results'[p][k] # "timedout"
      BY <2>2 DEF PoolIsBusy
    <3> QED BY <2>2, <3>1, <3>2, <3>3
  <2> DEFINE rest == flying[p] \ {i}
  <2>4. slow(j) \subseteq rest
    BY <2>3
  <2>5. rest \in SUBSET Window /\ Cardinality(rest) = Cardinality(flying[p]) - 1
    BY <1>1, FiniteWindow, FS_RemoveElement
  <2>6. Cardinality(flying[p]) <= Workers
    BY DEF PoolIsBusy
  <2> HIDE DEF slow, rest
  <2>7. Cardinality(slow(j)) <= Cardinality(rest) /\ slow(j) \in SUBSET Window
    BY <2>4, <2>5, SmallerSet
  <2> QED BY <1>1, <2>5, <2>6, <2>7, FiniteWindow
<1> QED BY <1>4, <1>5

\* A pool with a slice in flight is asked for, not answered, and begun.
LEMMA WhoFlies ==
  ASSUME IInv, NEW p \in Pool, flying[p] # {}
  PROVE  /\ p \in PoolsOf(p[1]) /\ ~ Replied(p) /\ pc[p[1]] \in {"running", "failed"}
         /\ p[1] \in Call
BY PoolParts, PoolTypes DEF IInv, RepliedRests

\* The cache only grows, and what was said stays.
LEMMA WarmStays ==
  ASSUME TypeOK, RowsAreWarm, UNCHANGED <<world, said>>, cached \subseteq cached'
  PROVE  RowsAreWarm'
<1> SUFFICES ASSUME NEW p \in Pool, Replied(p)', Kept(p[2])', NEW r \in said'[p].rows
             PROVE  <<p[2], r>> \in cached' /\ Cardinality(Cold(p[2], r)') < Workers
  BY DEF RowsAreWarm
<1>1. Replied(p) /\ Kept(p[2]) /\ r \in said[p].rows
  BY DEF Replied, Kept
<1>2. <<p[2], r>> \in cached /\ Cardinality(Cold(p[2], r)) < Workers
  BY <1>1 DEF RowsAreWarm
<1>3. Cold(p[2], r)' \subseteq Cold(p[2], r) /\ Cold(p[2], r) \in SUBSET Window
      /\ Cold(p[2], r)' \in SUBSET Window
  BY DEF Cold
<1> DEFINE before == Cold(p[2], r)
           after == Cold(p[2], r)'
<1>4. before \in SUBSET Window /\ after \in SUBSET before /\ Cardinality(before) < Workers
      /\ Workers \in Nat
  BY <1>2, <1>3, Widths
<1> HIDE DEF before, after
<1>5. Cardinality(after) < Workers
  BY <1>4, SmallerSet, FiniteWindow
<1> QED BY <1>2, <1>5 DEF after

\* A pool that no step touches stays as it is.
LEMMA StaffedStays ==
  ASSUME NEW p \in Pool, PoolIsBusy(p), FewSlow(p), aborted'[p[1]] = aborted[p[1]],
         results'[p] = results[p], cursor'[p] = cursor[p], flying'[p] = flying[p]
  PROVE  PoolIsBusy(p)' /\ FewSlow(p)'
BY DEF PoolIsBusy, FewSlow, Slow

LEMMA AnsweredAgain ==
  ASSUME IInv, AInv, NEW p \in Pool, NEW i \in Window, Answered(p, i) \/ Stopped(p, i)
  PROVE  AInv'
<1>1. /\ i \in flying[p] /\ UNCHANGED <<world, asks, aborted, clock, pc, said, cause>>
      /\ TypeOK /\ cached \subseteq cached'
  BY DEF Answered, Stopped, given, calls, IInv
<1>2. PICK r \in {world[p[2]][i], "timedout"} :
        /\ GoesOn(p, i, r)
        /\ r = "timedout" => aborted[p[1]] /\ <<p[2], i>> \notin cached
        /\ r # "timedout" => cached' = cached \cup Stored(p[2], i)
  <2>1. CASE Answered(p, i)
    <3>1. world[p[2]][i] # "timedout"
      BY <1>1, ContentType DEF Content
    <3> QED BY <2>1, <3>1 DEF Answered
  <2>2. CASE Stopped(p, i)
    BY <2>2 DEF Stopped, InCache
  <2> QED BY <2>1, <2>2
<1>3. /\ p \in PoolsOf(p[1]) /\ ~ Replied(p) /\ pc[p[1]] \in {"running", "failed"}
  BY <1>1, WhoFlies
<1>4. \A q \in Pool : q # p =>
        results'[q] = results[q] /\ cursor'[q] = cursor[q] /\ flying'[q] = flying[q]
  BY <1>1, <1>2, GoesOnOthers
<1>5. /\ \A q \in Pool : q \in PoolsOf(q[1])' <=> q \in PoolsOf(q[1])
      /\ \A q \in Pool : Replied(q)' <=> Replied(q)
      /\ \A q \in Pool : Kept(q[2])' <=> Kept(q[2])
  BY <1>1 DEF PoolsOf, Replied, Kept
<1>6. AnswersAreCached'
  <2>1. ASSUME NEW q \in Pool, NEW j \in Window, results'[q][j] \in Content, world[q[2]][j] # "absent"
        PROVE  <<q[2], j>> \in cached'
    <3>1. CASE q = p /\ j = i
      <4>1. r # "timedout"
        BY <1>1, <1>2, <2>1, <3>1, GoesOnCases DEF Content
      <4> QED BY <1>2, <2>1, <3>1, <4>1 DEF Stored
    <3>2. CASE q # p \/ j # i
      <4>1. "timedout" \notin Content
        BY DEF Content
      <4>2. results'[q][j] = results[q][j]
        BY <1>1, <1>2, <1>4, <2>1, <3>2, <4>1, GoesOnCases
      <4> QED BY <1>1, <2>1, <4>2 DEF AInv, AnswersAreCached
    <3> QED BY <3>1, <3>2
  <2> QED BY <1>1, <2>1 DEF AnswersAreCached
<1>7. Staffed'
  <2>1. ASSUME NEW q \in Pool, pc[q[1]] = "running", q \in PoolsOf(q[1])
        PROVE  PoolIsBusy(q)' /\ FewSlow(q)'
    <3>1. PoolIsBusy(q) /\ FewSlow(q) /\ AccountedIn(q)
      BY <2>1 DEF AInv, Staffed, IInv, Accounted
    <3>2. CASE q = p
      BY <1>1, <1>2, <3>1, <3>2, GoesOnBusy, GoesOnSlow
    <3>3. CASE q # p
      BY <1>1, <1>4, <3>1, <3>3, StaffedStays
    <3> QED BY <3>2, <3>3
  <2> QED BY <1>1, <1>5, <2>1 DEF Staffed
<1>8. RowsAreWarm'
  BY <1>1, WarmStays DEF AInv
<1>9. OneAfterTheOther'
  BY <1>1, <1>3, <1>4 DEF AInv, OneAfterTheOther
<1>10. RowsAreReached'
  <2>1. ASSUME NEW o \in Pool, o[1] < p[1], o[2] = p[2], Replied(o), Kept(o[2]),
               NEW j \in said[o].rows
        PROVE  results'[p][j] # "timedout" /\ (aborted[p[1]] => j < cursor'[p])
    <3>1. /\ results[p][j] # "timedout" /\ (aborted[p[1]] => j < cursor[p])
          /\ <<p[2], j>> \in cached
      BY <1>3, <2>1 DEF AInv, RowsAreReached, RowsAreWarm
    <3>2. j \in Window /\ j \in 1 .. Width /\ cursor[p] \in 1 .. Width + 1 /\ Width \in Nat
      BY <1>1, <2>1, RepliedType, PoolTypes, Widths DEF Window
    <3>3. j = i => r # "timedout"
      BY <1>2, <3>1
    <3>4. results'[p][j] # "timedout"
      BY <1>1, <1>2, <3>1, <3>2, <3>3, GoesOnCases
    <3>5. aborted[p[1]] => j < cursor'[p]
      BY <1>1, <1>2, <3>2, GoesOnCases
    <3> QED BY <3>4, <3>5
  <2>2. ASSUME NEW o \in Pool, NEW q \in Pool, o[1] < q[1], o[2] = q[2], q \in PoolsOf(q[1]),
               Replied(o), Kept(o[2]), NEW j \in said[o].rows
        PROVE  results'[q][j] # "timedout" /\ (aborted[q[1]] => j < cursor'[q])
    <3>1. CASE q = p
      BY <2>1, <2>2, <3>1
    <3>2. CASE q # p
      BY <1>4, <2>2, <3>2 DEF AInv, RowsAreReached
    <3> QED BY <3>1, <3>2
  <2> QED BY <1>1, <1>5, <2>2 DEF RowsAreReached
<1>11. NamedWereStopped'
  BY <1>1, <1>3, <1>4, <1>5 DEF AInv, NamedWereStopped
<1> QED BY <1>6, <1>7, <1>8, <1>9, <1>10, <1>11 DEF AInv

\* A step that starts no slice, learns nothing and says nothing: a worker that
\* throws, another attempt, time.
LEMMA NothingAgain ==
  ASSUME IInv, AInv, UNCHANGED <<world, asks, cached, results, cursor, aborted, said>>,
         \A c \in Call : pc'[c] = pc[c] \/ (pc[c] = "running" /\ pc'[c] = "failed"),
         \A q \in Pool : pc'[q[1]] = "running" => flying'[q] = flying[q]
  PROVE  AInv'
<1>1. /\ \A q \in Pool : q \in PoolsOf(q[1])' <=> q \in PoolsOf(q[1])
      /\ \A q \in Pool : Replied(q)' <=> Replied(q)
      /\ \A q \in Pool : Kept(q[2])' <=> Kept(q[2])
      /\ \A q \in Pool : q[1] \in Call
  BY PoolParts DEF PoolsOf, Replied, Kept
<1>2. AnswersAreCached'
  BY DEF AInv, AnswersAreCached
<1>3. Staffed'
  <2>1. ASSUME NEW q \in Pool, pc'[q[1]] = "running", q \in PoolsOf(q[1])
        PROVE  PoolIsBusy(q)' /\ FewSlow(q)'
    <3>1. PoolIsBusy(q) /\ FewSlow(q)
      BY <1>1, <2>1 DEF AInv, Staffed
    <3> QED BY <2>1, <3>1, StaffedStays
  <2> QED BY <1>1, <2>1 DEF Staffed
<1>4. RowsAreWarm'
  BY WarmStays DEF AInv, IInv
<1>5. OneAfterTheOther'
  <2>1. \A c \in Call : (pc'[c] # "idle" => pc[c] # "idle")
                        /\ (pc[c] \in {"answered", "failed"} => pc'[c] \in {"answered", "failed"})
                        /\ (pc'[c] = "idle" => pc[c] = "idle")
    BY PoolTypes DEF IInv
  <2> QED BY <1>1, <2>1 DEF AInv, OneAfterTheOther
<1>6. RowsAreReached'
  BY <1>1 DEF AInv, RowsAreReached
<1>7. NamedWereStopped'
  BY <1>1 DEF AInv, NamedWereStopped
<1> QED BY <1>2, <1>3, <1>4, <1>5, <1>6, <1>7 DEF AInv

LEMMA ThrownAgain ==
  ASSUME IInv, AInv, NEW p \in Pool, NEW i \in Window, Errs(p, i) \/ TimesOut(p, i)
  PROVE  AInv'
<1>1. PICK why \in {"error", "timeout"} : Throws(p, i, why)
  BY DEF Errs, TimesOut
<1>2. /\ i \in flying[p] /\ flying' = [flying EXCEPT ![p] = flying[p] \ {i}]
      /\ UNCHANGED <<world, asks, cached, results, cursor, aborted, said>>
      /\ \/ pc[p[1]] # "running" /\ UNCHANGED pc
         \/ pc[p[1]] = "running" /\ pc' = [pc EXCEPT ![p[1]] = "failed"]
  BY <1>1 DEF Throws, Fail, given
<1>3. /\ pc \in [Call -> {"idle", "running", "answered", "failed"}] /\ p[1] \in Call
      /\ flying \in [Pool -> SUBSET Window] /\ \A q \in Pool : q[1] \in Call
  BY PoolTypes, PoolParts DEF IInv
<1>4. \A c \in Call : pc'[c] = pc[c] \/ (pc[c] = "running" /\ pc'[c] = "failed")
  BY <1>2, <1>3
<1>5. pc'[p[1]] # "running"
  BY <1>2, <1>3
<1>6. \A q \in Pool : pc'[q[1]] = "running" => flying'[q] = flying[q]
  BY <1>2, <1>3, <1>5
<1> QED BY <1>2, <1>4, <1>6, NothingAgain

LEMMA QuietAgain ==
  ASSUME IInv, AInv, Tick \/ (\E p \in Pool, i \in Window : Retried(p, i)) \/ UNCHANGED vars
  PROVE  AInv'
<1>1. UNCHANGED <<world, asks, cached, results, cursor, flying, aborted, pc, said>>
  BY DEF Tick, Retried, vars, given, calls, pools
<1> QED BY <1>1, NothingAgain

\* The deadline of call c: its workers have passed every row said before.
LEMMA AbortedAgain == ASSUME IInv, AInv, NEW c \in Call, DeadlineFires(c) PROVE AInv'
<1>1. /\ pc[c] = "running" /\ aborted' = [aborted EXCEPT ![c] = TRUE]
      /\ UNCHANGED <<world, asks, cached, results, cursor, flying, pc, said>> /\ TypeOK
      /\ \A p \in Pool : \A i \in flying[p] : <<p[2], i>> \notin cached
  BY DEF DeadlineFires, CacheBusy, InCache, given, pools, IInv
<1>2. /\ \A q \in Pool : q \in PoolsOf(q[1])' <=> q \in PoolsOf(q[1])
      /\ \A q \in Pool : Replied(q)' <=> Replied(q)
      /\ \A q \in Pool : Kept(q[2])' <=> Kept(q[2])
      /\ \A q \in Pool : q[1] \in Call
  BY <1>1, PoolParts DEF PoolsOf, Replied, Kept
<1>3. \A d \in Call : aborted'[d] = IF d = c THEN TRUE ELSE aborted[d]
  BY <1>1, PoolTypes
<1>4. AnswersAreCached' /\ RowsAreWarm' /\ NamedWereStopped'
  BY <1>1, <1>2, WarmStays DEF AInv, AnswersAreCached, NamedWereStopped
<1>5. Staffed'
  <2>1. ASSUME NEW q \in Pool, pc[q[1]] = "running", q \in PoolsOf(q[1])
        PROVE  PoolIsBusy(q)' /\ FewSlow(q)'
    <3>1. PoolIsBusy(q) /\ FewSlow(q)
      BY <2>1 DEF AInv, Staffed
    <3>2. FewSlow(q)'
      BY <1>1, <3>1 DEF FewSlow, Slow
    <3>3. PoolIsBusy(q)'
      BY <1>1, <1>2, <1>3, <3>1 DEF PoolIsBusy
    <3> QED BY <3>2, <3>3
  <2> QED BY <1>1, <1>2, <2>1 DEF Staffed
<1>6. OneAfterTheOther'
  BY <1>1, <1>2, <1>3 DEF AInv, OneAfterTheOther
<1>7. RowsAreReached'
  <2>1. ASSUME NEW o \in Pool, NEW q \in Pool, o[1] < q[1], o[2] = q[2], q \in PoolsOf(q[1]),
               Replied(o), Kept(o[2]), NEW r \in said[o].rows
        PROVE  results[q][r] # "timedout" /\ (aborted'[q[1]] => r < cursor[q])
    <3>1. results[q][r] # "timedout" /\ (aborted[q[1]] => r < cursor[q])
      BY <2>1 DEF AInv, RowsAreReached
    <3>2. CASE q[1] = c
      <4>1. AccountedIn(q) /\ PoolIsBusy(q)
        BY <1>1, <2>1, <3>2 DEF AInv, Staffed, IInv, Accounted
      <4>2. Cardinality(Cold(q[2], r)) < Workers /\ r \in Window
        BY <1>1, <2>1, RepliedType DEF AInv, RowsAreWarm
      <4>3. Cardinality(Cold(q[2], r)) \in Nat /\ Workers \in Nat
        <5>1. Cold(q[2], r) \in SUBSET Window
          BY DEF Cold
        <5> QED BY <5>1, FiniteWindow, Widths
      <4>4. r < cursor[q]
        BY <1>1, <4>1, <4>2, <4>3, WorkersAreBefore
      <4> QED BY <3>1, <4>4
    <3>3. CASE q[1] # c
      BY <1>2, <1>3, <3>1, <3>3
    <3> QED BY <3>2, <3>3
  <2> QED BY <1>1, <1>2, <2>1 DEF RowsAreReached
<1> QED BY <1>4, <1>5, <1>6, <1>7 DEF AInv

\* A call begins: nothing of it is known, and every worker takes a slice.
LEMMA BegunAgain == ASSUME IInv, AInv, NEW c \in Call, Begin(c) PROVE AInv'
<1>1. /\ pc[c] = "idle" /\ pc' = [pc EXCEPT ![c] = "running"]
      /\ \A d \in Call : d < c => pc[d] \in {"answered", "failed"}
      /\ UNCHANGED <<world, asks, cached, results, aborted, said>> /\ TypeOK
      /\ \A p \in Pool : p \in PoolsOf(c) => cursor'[p] = Workers + 1 /\ flying'[p] = 1 .. Workers
      /\ \A p \in Pool : p \notin PoolsOf(c) => cursor'[p] = cursor[p] /\ flying'[p] = flying[p]
  BY DEF Begin, given, IInv
<1>2. /\ \A q \in Pool : q \in PoolsOf(q[1])' <=> q \in PoolsOf(q[1])
      /\ \A q \in Pool : Replied(q)' <=> Replied(q)
      /\ \A q \in Pool : Kept(q[2])' <=> Kept(q[2])
      /\ \A q \in Pool : q[1] \in Call /\ (q \in PoolsOf(c) => q[1] = c)
  BY <1>1, PoolParts DEF PoolsOf, Replied, Kept
<1>3. \A d \in Call : pc'[d] = IF d = c THEN "running" ELSE pc[d]
  BY <1>1, PoolTypes
<1>4. \A p \in Pool : p[1] = c => ~ aborted[c] /\ \A i \in Window : results[p][i] = "hole"
  BY <1>1 DEF AInv, OneAfterTheOther
<1>5. AnswersAreCached' /\ RowsAreWarm' /\ NamedWereStopped'
  BY <1>1, <1>2, WarmStays DEF AInv, AnswersAreCached, NamedWereStopped
<1>6. Staffed'
  <2>1. ASSUME NEW q \in Pool, pc'[q[1]] = "running", q \in PoolsOf(q[1])
        PROVE  PoolIsBusy(q)' /\ FewSlow(q)'
    <3>1. CASE q[1] = c
      <4>1. cursor'[q] = Workers + 1 /\ flying'[q] = 1 .. Workers /\ ~ aborted'[c]
            /\ \A i \in Window : results'[q][i] = "hole"
        BY <1>1, <1>4, <2>1, <3>1
      <4>2. Workers \in Nat /\ IsFiniteSet(1 .. Workers) /\ Cardinality(1 .. Workers) = Workers
        BY Widths, FS_Interval
      <4>3. PoolIsBusy(q)'
        BY <3>1, <4>1, <4>2 DEF PoolIsBusy
      <4>4. FewSlow(q)'
        <5> DEFINE slow(j) == {k \in Window : k < j /\ (k \in flying'[q] \/ results'[q][k] = "timedout")}
        <5>1. SUFFICES ASSUME NEW j \in Window, j \in flying'[q] \/ results'[q][j] \in Content
                       PROVE  Cardinality(slow(j)) < Workers
          BY DEF FewSlow, Slow
        <5>2. j \in 1 .. Workers
          BY <4>1, <5>1 DEF Content
        <5>3. slow(j) \subseteq 1 .. j - 1
          <6>1. \A k \in Window : k \in Nat /\ k >= 1
            BY Widths DEF Window
          <6>2. ASSUME NEW k \in slow(j) PROVE k \in 1 .. j - 1
            <7>1. k \in Nat /\ k >= 1 /\ k < j
              BY <6>1, <6>2
            <7>2. j \in Nat
              BY <4>2, <5>2
            <7> QED BY <7>1, <7>2
          <6> QED BY <6>2
        <5>4. IsFiniteSet(1 .. j - 1) /\ Cardinality(1 .. j - 1) = j - 1
          <6>1. j - 1 \in Nat
            BY <4>2, <5>2
          <6>2. Cardinality(1 .. j - 1) = IF 1 > j - 1 THEN 0 ELSE (j - 1) - 1 + 1
            BY <6>1, FS_Interval
          <6> QED BY <6>1, <6>2, FS_Interval
        <5> HIDE DEF slow
        <5>5. Cardinality(slow(j)) <= Cardinality(1 .. j - 1) /\ Cardinality(slow(j)) \in Nat
          BY <5>3, <5>4, FS_Subset, FS_CardinalityType
        <5> QED BY <4>2, <5>2, <5>4, <5>5
      <4> QED BY <4>3, <4>4
    <3>2. CASE q[1] # c
      <4>1. PoolIsBusy(q) /\ FewSlow(q) /\ cursor'[q] = cursor[q] /\ flying'[q] = flying[q]
        BY <1>1, <1>2, <1>3, <2>1, <3>2 DEF AInv, Staffed
      <4> QED BY <1>1, <4>1, StaffedStays
    <3> QED BY <3>1, <3>2
  <2> QED BY <1>1, <1>2, <2>1 DEF Staffed
<1>7. OneAfterTheOther'
  BY <1>1, <1>2, <1>3 DEF AInv, OneAfterTheOther
<1>8. RowsAreReached'
  <2>1. ASSUME NEW o \in Pool, NEW q \in Pool, o[1] < q[1], o[2] = q[2], q \in PoolsOf(q[1]),
               Replied(o), Kept(o[2]), NEW r \in said[o].rows
        PROVE  results[q][r] # "timedout" /\ (aborted[q[1]] => r < cursor'[q])
    <3>1. results[q][r] # "timedout" /\ (aborted[q[1]] => r < cursor[q])
      BY <2>1 DEF AInv, RowsAreReached
    <3> QED BY <1>1, <1>2, <1>4, <2>1, <3>1
  <2> QED BY <1>1, <1>2, <2>1 DEF RowsAreReached
<1> QED BY <1>5, <1>6, <1>7, <1>8 DEF AInv

\* What a pool that is done answers with is in the cache, and fewer slices
\* before a row than there are workers are not.
LEMMA ReadIsWarm ==
  ASSUME IInv, AInv, NEW p \in Pool, pc[p[1]] = "running", p \in PoolsOf(p[1]), flying[p] = {},
         Kept(p[2]), NEW r \in AnswerOf(p).rows
  PROVE  /\ r \in Window /\ <<p[2], r>> \in cached
         /\ Cardinality(Cold(p[2], r)) < Workers
<1>1. r \in Window /\ results[p][r] = "row" /\ AccountedIn(p) /\ FewSlow(p) /\ TypeOK
  BY DEF AnswerOf, Consumed, AInv, Staffed, IInv, Accounted
<1>2. ASSUME NEW j \in Window PROVE <<p[2], j>> \in cached \/ results[p][j] = "timedout"
  <2>1. j < cursor[p]
    BY <1>1, Widths DEF AccountedIn, Window
  <2>2. results[p][j] \in {world[p[2]][j], "timedout"}
    BY <1>1, <2>1 DEF AccountedIn, Settled
  <2>3. world[p[2]][j] \in Content /\ world[p[2]][j] # "absent"
    BY <1>1, ContentType, Widths DEF Kept
  <2> QED BY <2>2, <2>3 DEF AInv, AnswersAreCached
<1>3. Cold(p[2], r) \subseteq Slow(p, r) /\ Slow(p, r) \in SUBSET Window
  BY <1>2 DEF Cold, Slow
<1>4. Cardinality(Slow(p, r)) < Workers
  BY <1>1 DEF FewSlow, Content
<1>5. Cardinality(Cold(p[2], r)) < Workers
  <2> DEFINE slow == Slow(p, r)
             cold == Cold(p[2], r)
  <2>1. slow \in SUBSET Window /\ cold \in SUBSET slow /\ Cardinality(slow) < Workers /\ Workers \in Nat
    BY <1>3, <1>4, Widths
  <2> HIDE DEF slow, cold
  <2>2. Cardinality(cold) < Workers
    BY <2>1, SmallerSet, FiniteWindow
  <2> QED BY <2>2 DEF cold
<1> QED BY <1>1, <1>2, <1>5

LEMMA ReadAgain == ASSUME IInv, AInv, NEW p \in Pool, Read(p) PROVE AInv'
<1> DEFINE c == p[1]
           a == AnswerOf(p)
<1>1. /\ pc[c] = "running" /\ p \in PoolsOf(c) /\ said[p] = Pending /\ flying[p] = {}
      /\ UNCHANGED <<world, asks, cached, results, cursor, flying, aborted>> /\ TypeOK
      /\ \/ said' = said
         \/ said' = [said EXCEPT ![p] = a]
      /\ \/ pc' = pc \/ pc' = [pc EXCEPT ![c] = "failed"] \/ pc' = [pc EXCEPT ![c] = "answered"]
  BY DEF Read, PoolDone, Fail, given, pools, IInv
<1>2. /\ \A q \in Pool : q \in PoolsOf(q[1])' <=> q \in PoolsOf(q[1])
      /\ \A q \in Pool : Kept(q[2])' <=> Kept(q[2])
      /\ \A q \in Pool : q[1] \in Call
  BY <1>1, PoolParts DEF PoolsOf, Kept
<1> HIDE DEF a
<1>3. \A q \in Pool : said'[q] = said[q] \/ (q = p /\ said'[p] = a)
  BY <1>1, PoolTypes
<1>4. \A d \in Call : pc'[d] = pc[d] \/ (d = c /\ pc'[c] \in {"failed", "answered"})
  BY <1>1, <1>2, PoolTypes
<1>5. ASSUME NEW r \in a.rows, Kept(p[2])
      PROVE  r \in Window /\ <<p[2], r>> \in cached /\ Cardinality(Cold(p[2], r)) < Workers
  BY <1>1, <1>5, ReadIsWarm DEF a
<1>6. AnswersAreCached'
  BY <1>1 DEF AInv, AnswersAreCached
<1>7. Staffed'
  <2>1. ASSUME NEW q \in Pool, pc'[q[1]] = "running", q \in PoolsOf(q[1])
        PROVE  PoolIsBusy(q)' /\ FewSlow(q)'
    <3>1. PoolIsBusy(q) /\ FewSlow(q)
      BY <1>2, <1>4, <2>1 DEF AInv, Staffed
    <3> QED BY <1>1, <3>1, StaffedStays
  <2> QED BY <1>2, <2>1 DEF Staffed
<1>8. RowsAreWarm'
  <2>1. ASSUME NEW q \in Pool, said'[q] # Pending, Kept(q[2]), NEW r \in said'[q].rows
        PROVE  <<q[2], r>> \in cached /\ Cardinality(Cold(q[2], r)) < Workers
    BY <1>3, <1>5, <2>1 DEF AInv, RowsAreWarm, Replied
  <2>2. ASSUME NEW q \in Pool, NEW r PROVE Cold(q[2], r)' = Cold(q[2], r)
    BY <1>1 DEF Cold
  <2> QED BY <1>1, <1>2, <2>1, <2>2 DEF RowsAreWarm, Replied, Cold
<1>9. OneAfterTheOther'
  <2>1. \A d \in Call : /\ pc[d] \in {"answered", "failed"} => pc'[d] \in {"answered", "failed"}
                        /\ pc'[d] = "idle" <=> pc[d] = "idle"
    BY <1>1, <1>2, <1>4
  <2> QED BY <1>1, <1>2, <2>1 DEF AInv, OneAfterTheOther
<1>10. RowsAreReached'
  <2>1. ASSUME NEW o \in Pool, NEW q \in Pool, o[1] < q[1], o[2] = q[2], q \in PoolsOf(q[1]),
               said'[o] # Pending, Kept(o[2]), NEW r \in said'[o].rows
        PROVE  results[q][r] # "timedout" /\ (aborted[q[1]] => r < cursor[q])
    <3>1. CASE said'[o] = said[o]
      BY <2>1, <3>1 DEF AInv, RowsAreReached, Replied
    <3>2. CASE o = p /\ said'[p] = a
      <4>1. pc[q[1]] = "idle"
        <5>1. pc[q[1]] # "idle" => pc[o[1]] \in {"answered", "failed"}
          BY <1>2, <2>1 DEF AInv, OneAfterTheOther
        <5> QED BY <1>1, <3>2, <5>1
      <4>2. r \in Window
        BY <1>5, <2>1, <3>2
      <4> QED BY <4>1, <4>2 DEF AInv, OneAfterTheOther
    <3> QED BY <1>3, <3>1, <3>2
  <2> QED BY <1>1, <1>2, <2>1 DEF RowsAreReached, Replied
<1>11. NamedWereStopped'
  <2>1. \A i \in a.named : results[p][i] = "timedout"
    BY DEF a, AnswerOf, Missing
  <2>2. ASSUME NEW q \in Pool, said'[q] # Pending, NEW i \in said'[q].named
        PROVE  results[q][i] = "timedout"
    BY <1>3, <2>1, <2>2 DEF AInv, NamedWereStopped, Replied
  <2> QED BY <1>1, <2>2 DEF NamedWereStopped, Replied
<1> QED BY <1>6, <1>7, <1>8, <1>9, <1>10, <1>11 DEF AInv

LEMMA AgainInit == Init => AInv
<1> SUFFICES ASSUME Init PROVE AInv
  OBVIOUS
<1>1. \A p \in Pool : /\ p[1] \in Call /\ pc[p[1]] = "idle" /\ ~ aborted[p[1]] /\ ~ Replied(p)
                      /\ \A i \in Window : results[p][i] = "hole"
  BY PoolParts DEF Init, Replied
<1>2. \A c \in Call : pc[c] = "idle"
  BY DEF Init
<1>3. AnswersAreCached
  BY <1>1 DEF AnswersAreCached, Content
<1>4. Staffed /\ OneAfterTheOther
  BY <1>1, <1>2 DEF Staffed, OneAfterTheOther
<1>5. RowsAreWarm /\ RowsAreReached /\ NamedWereStopped
  BY <1>1 DEF RowsAreWarm, RowsAreReached, NamedWereStopped
<1> QED BY <1>3, <1>4, <1>5 DEF AInv

LEMMA AgainStep == IInv /\ AInv /\ [Next]_vars => AInv'
<1> SUFFICES ASSUME IInv, AInv, [Next]_vars PROVE AInv'
  OBVIOUS
<1>1. ASSUME NEW c \in Call, Begin(c) \/ DeadlineFires(c) PROVE AInv'
  BY <1>1, BegunAgain, AbortedAgain
<1>2. ASSUME NEW p \in Pool, Read(p) PROVE AInv'
  BY <1>2, ReadAgain
<1>3. ASSUME NEW p \in Pool, NEW i \in Window, Answered(p, i) \/ Stopped(p, i) PROVE AInv'
  BY <1>3, AnsweredAgain
<1>4. ASSUME NEW p \in Pool, NEW i \in Window, Errs(p, i) \/ TimesOut(p, i) PROVE AInv'
  BY <1>4, ThrownAgain
<1>5. ASSUME Tick \/ (\E p \in Pool, i \in Window : Retried(p, i)) \/ UNCHANGED vars PROVE AInv'
  BY <1>5, QuietAgain
<1> QED BY <1>1, <1>2, <1>3, <1>4, <1>5 DEF Next

\* "ask again, and the quarters already fetched will come from cache"
\* (fetchSlicesBounded, qcewFetch): a row one call answered with is never out
\* of time in a later one, whatever the agency has published of the series as
\* files, the window, the workers and the timers.
THEOREM AskedAgainIsFound == Spec => []AskAgain
<1>1. IInv /\ AInv => AskAgain
  <2> SUFFICES ASSUME IInv, AInv, NEW p \in Pool, NEW q \in Pool, p[1] < q[1], p[2] = q[2],
                      Replied(p), Replied(q), Kept(p[2])
               PROVE  said[p].rows \cap said[q].named = {}
    BY DEF AskAgain, Kept
  <2>1. q \in PoolsOf(q[1])
    BY DEF IInv, RepliedRests
  <2>2. \A r \in said[p].rows : results[q][r] # "timedout"
    BY <2>1 DEF AInv, RowsAreReached
  <2> QED BY <2>2 DEF AInv, NamedWereStopped
<1> QED BY <1>1, InvInit, InvStep, AgainInit, AgainStep, PTL DEF Spec
=============================================================================
