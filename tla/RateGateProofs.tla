--------------------------- MODULE RateGateProofs ---------------------------
(***************************************************************************)
(* RateGate is type correct, a container never grants twice its slice in a *)
(* minute, and a request that wakes finds its token: for every number of   *)
(* containers and requests, every limit and every wait.                    *)
(*                                                                         *)
(* The argument.  Since a watch began, what was granted and what is in the *)
(* bucket come to no more than a full bucket and what dripped in (Ledger). *)
(* A sleeper nobody overtook has slept and will sleep long enough for a    *)
(* token to drip in, and as long as its bucket is closed (NapCovers); a    *)
(* closed bucket opens a minute after its last refill, hence full          *)
(* (ClosedLong).                                                           *)
(***************************************************************************)
EXTENDS RateGate, TLAPS

-----------------------------------------------------------------------------
(* Arithmetic.                                                             *)

\* A container's slice is at least one token a minute, and its bucket holds
\* at least one.
LEMMA Slice == PerMinute \in Nat \ {0} /\ Capacity \in Nat /\ Capacity >= Minute
<1>1. AgencyLimit \div Reserved \in Int
  BY GateAssumption
<1>2. PerMinute \in Nat /\ PerMinute >= 1
  BY <1>1 DEF PerMinute
<1>3. ASSUME NEW p \in Nat, p >= 1, NEW m \in Nat PROVE p * m \in Nat /\ p * m >= m
  BY <1>3
<1> QED BY <1>2, <1>3, GateAssumption DEF Capacity

\* Math.ceil of a quotient covers the dividend and does not exceed it.
LEMMA Ceiling ==
  ASSUME NEW n \in Nat, NEW p \in Nat \ {0}
  PROVE  LET q == (n + p - 1) \div p IN q \in Nat /\ q * p >= n /\ q <= n
<1> DEFINE a == n + p - 1
           q == a \div p
<1>1. a \in Nat
  OBVIOUS
<1>2. q \in Int /\ q * p <= a /\ a < (q + 1) * p
  BY <1>1
<1> HIDE DEF q
<1>3. q * p >= n
  BY <1>2
<1>4. q >= 0
  BY <1>2, <1>1
<1>5. q <= n
  BY <1>2, <1>4
<1> QED BY <1>2, <1>3, <1>4, <1>5 DEF q

\* One tick more adds a slice's worth of drops.
LEMMA Drip == ASSUME NEW n \in Nat PROVE (n + 1) * PerMinute = n * PerMinute + PerMinute /\ n * PerMinute \in Nat
BY Slice

\* A refill is within the capacity, and loses no token that was there.
LEMMA Refill ==
  ASSUME TypeOK, NEW c \in Container
  PROVE  /\ Refilled(c) \in 0 .. Capacity
         /\ Refilled(c) <= tokens[c] + since[c] * PerMinute
         /\ tokens[c] + since[c] * PerMinute >= Minute => Refilled(c) >= Minute
<1>1. tokens[c] \in 0 .. Capacity /\ since[c] \in Nat
  BY GateAssumption DEF TypeOK
<1>2. since[c] * PerMinute \in Nat
  BY <1>1, Drip
<1> HIDE DEF Capacity, PerMinute
<1> QED BY <1>1, <1>2, Slice DEF Refilled

-----------------------------------------------------------------------------
(* The inductive invariant.                                                *)

Ledger ==
  \A c \in Container :
    /\ watchAge = Minute => granted[c] = 0
    /\ watchAge < Minute =>
         granted[c] * Minute + Refilled(c) <= Capacity + watchAge * PerMinute

ClosedLong == \A c \in Container : blocked[c] > 0 => since[c] + blocked[c] >= Minute

NapCovers ==
  \A r \in Request : pc[r] = "asleep" /\ r \notin overtaken =>
    /\ blocked[Home[r]] <= nap[r]
    /\ tokens[Home[r]] + (since[Home[r]] + nap[r]) * PerMinute >= Minute

\* A request that has sent its last attempt is in flight, or done.
MaySend == \A r \in Request : pc[r] # "inflight" => attempt[r] < MaxAttempts

IInv == TypeOK /\ MaySend /\ Ledger /\ ClosedLong /\ NapCovers

-----------------------------------------------------------------------------
(* Types.                                                                  *)

\* A wait fits in a minute.
LEMMA WaitType ==
  ASSUME TypeOK, NEW c \in Container, ~ HasToken(c)
  PROVE  /\ WaitFor(c) \in 0 .. Minute
         /\ blocked[c] = 0 => Refilled(c) + WaitFor(c) * PerMinute >= Minute
<1>1. CASE blocked[c] > 0
  BY <1>1, GateAssumption DEF TypeOK, WaitFor
<1>2. CASE blocked[c] = 0
  <2>1. Refilled(c) \in Nat /\ Refilled(c) < Minute
    BY <1>2, Refill, Slice, GateAssumption DEF HasToken
  <2>2. Minute - Refilled(c) \in Nat /\ Minute - Refilled(c) <= Minute
    BY <2>1, GateAssumption
  <2> DEFINE n == Minute - Refilled(c)
  <2>3. /\ RoundedUp(n) \in Nat
        /\ RoundedUp(n) * PerMinute >= n
        /\ RoundedUp(n) <= n
    BY <2>2, Slice, Ceiling DEF RoundedUp
  <2>4. WaitFor(c) = RoundedUp(n)
    BY <1>2 DEF WaitFor
  <2>5. RoundedUp(n) * PerMinute \in Int
    BY <2>3, Slice
  <2> QED BY <2>1, <2>2, <2>3, <2>4, <2>5, GateAssumption
<1> QED BY <1>1, <1>2 DEF TypeOK

\* A refill that pays for what it takes keeps the bucket within its capacity.
LEMMA DrawType ==
  ASSUME TypeOK, NEW c \in Container, NEW n \in {0, 1}, Draw(c, n),
         n = 1 => HasToken(c)
  PROVE  /\ tokens' \in [Container -> 0 .. Capacity]
         /\ since' \in [Container -> 0 .. Minute]
         /\ blocked' = blocked
<1>1. CASE blocked[c] > 0
  BY <1>1 DEF TypeOK, Draw
<1>2. CASE blocked[c] = 0
  <2>1. Refilled(c) \in 0 .. Capacity
    BY Refill
  <2>2. Refilled(c) - n * Minute \in 0 .. Capacity
    BY <2>1, Slice, GateAssumption DEF HasToken
  <2>3. 0 \in 0 .. Minute
    BY GateAssumption
  <2> QED BY <1>2, <2>2, <2>3 DEF TypeOK, Draw
<1> QED BY <1>1, <1>2 DEF TypeOK

\* The initial state is well typed, and every step keeps it so.
LEMMA TypeInit == Init => TypeOK /\ MaySend
  BY Slice, GateAssumption DEF Init, TypeOK, MaySend

\* Each step types what it assigns.
LEMMA TypeStep == TypeOK /\ MaySend /\ [Next]_vars => TypeOK'
<1> SUFFICES ASSUME TypeOK, MaySend, [Next]_vars PROVE TypeOK'
  OBVIOUS
<1>1. ASSUME NEW r \in Request, Take(r) PROVE TypeOK'
  <2>1. Home[r] \in Container /\ HasToken(Home[r])
    BY <1>1, GateAssumption DEF Take
  <2>2. Draw(Home[r], 1)
    BY <1>1 DEF Take
  <2>3. /\ tokens' \in [Container -> 0 .. Capacity]
        /\ since' \in [Container -> 0 .. Minute]
        /\ blocked' = blocked
    BY <2>1, <2>2, DrawType
  <2>4. overtaken' \subseteq Request
    BY <1>1 DEF TypeOK, Take, Asleep
  <2>5. granted' \in [Container -> Nat]
    <3>1. granted[Home[r]] \in Nat /\ granted[Home[r]] + 1 \in Nat
      BY <2>1 DEF TypeOK
    <3>2. granted' = [granted EXCEPT ![Home[r]] = IF watchAge < Minute THEN granted[Home[r]] + 1
                                                  ELSE granted[Home[r]]]
      BY <1>1 DEF Take
    <3> QED BY <3>1, <3>2 DEF TypeOK
  <2> QED BY <1>1, <2>3, <2>4, <2>5 DEF TypeOK, Take
<1>2. ASSUME NEW r \in Request, Sleep(r) \/ Refuse(r) PROVE TypeOK'
  <2>1. Home[r] \in Container /\ Draw(Home[r], 0) /\ ~ HasToken(Home[r])
    BY <1>2, GateAssumption DEF Sleep, Refuse
  <2>2. /\ tokens' \in [Container -> 0 .. Capacity]
        /\ since' \in [Container -> 0 .. Minute]
        /\ blocked' = blocked
    BY <2>1, DrawType
  <2>3. WaitFor(Home[r]) \in 0 .. Minute
    BY <2>1, WaitType
  <2>4. CASE Sleep(r)
    BY <2>1, <2>2, <2>3, <2>4 DEF TypeOK, Sleep, watch
  <2>5. CASE Refuse(r)
    BY <2>1, <2>2, <2>3, <2>5 DEF TypeOK, Refuse, watch
  <2> QED BY <1>2, <2>4, <2>5
<1>3. ASSUME NEW r \in Request, Send(r) PROVE TypeOK'
  <2>1. attempt[r] + 1 \in 0 .. MaxAttempts
    BY <1>3, GateAssumption DEF TypeOK, MaySend, Send
  <2> QED BY <1>3, <2>1 DEF TypeOK, Send, bucket
<1>4. ASSUME NEW r \in Request, Retry(r) PROVE TypeOK'
  BY <1>4 DEF TypeOK, Retry, bucket, watch
<1>5. ASSUME NEW r \in Request, Finish(r) PROVE TypeOK'
  BY <1>5, GateAssumption DEF TypeOK, Finish, bucket, watch
<1>6. ASSUME NEW r \in Request, FinishExhausted(r) PROVE TypeOK'
  <2>1. overtaken' \subseteq Request
    BY <1>6 DEF TypeOK, FinishExhausted, Asleep
  <2>2. blocked' \in [Container -> 0 .. Minute]
    <3>1. Minute \in 0 .. Minute
      BY GateAssumption
    <3> QED BY <1>6, <3>1 DEF TypeOK, FinishExhausted
  <2>3. attempt' \in [Request -> 0 .. MaxAttempts]
    <3>1. 0 \in 0 .. MaxAttempts
      BY GateAssumption
    <3> QED BY <1>6, <3>1 DEF TypeOK, FinishExhausted
  <2> QED BY <1>6, <2>1, <2>2, <2>3 DEF TypeOK, FinishExhausted, watch
<1>7. CASE Tick
  BY <1>7, GateAssumption DEF TypeOK, Tick, Sooner
<1>8. CASE StartWatch
  BY <1>8, GateAssumption DEF TypeOK, StartWatch, bucket
<1>9. CASE UNCHANGED vars
  BY <1>9 DEF TypeOK, vars
<1> QED BY <1>1, <1>2, <1>3, <1>4, <1>5, <1>6, <1>7, <1>8, <1>9 DEF Next

\* Attempts stop at MaxAttempts.
LEMMA MaySendStep == TypeOK /\ MaySend /\ [Next]_vars => MaySend'
<1> SUFFICES ASSUME TypeOK, MaySend, [Next]_vars, NEW q \in Request, pc'[q] # "inflight"
             PROVE  attempt'[q] < MaxAttempts
  BY DEF MaySend
<1> USE GateAssumption DEF TypeOK, MaySend
<1>1. ASSUME NEW r \in Request, Take(r) \/ Sleep(r) \/ Refuse(r) PROVE attempt'[q] < MaxAttempts
  BY <1>1 DEF Take, Sleep, Refuse, Asks
<1>2. ASSUME NEW r \in Request, Send(r) \/ Retry(r) PROVE attempt'[q] < MaxAttempts
  BY <1>2 DEF Send, Retry
<1>3. ASSUME NEW r \in Request, Finish(r) \/ FinishExhausted(r) PROVE attempt'[q] < MaxAttempts
  BY <1>3 DEF Finish, FinishExhausted
<1>4. CASE Tick \/ StartWatch \/ UNCHANGED vars
  BY <1>4 DEF Tick, StartWatch, vars
<1> QED BY <1>1, <1>2, <1>3, <1>4 DEF Next

-----------------------------------------------------------------------------
(* The bucket's level under each kind of step.                             *)

\* Drops now, uncapped.
Level(c) == tokens[c] + since[c] * PerMinute

\* The uncapped level is a number.
LEMMA LevelType == ASSUME TypeOK, NEW c \in Container PROVE Level(c) \in Nat
<1>1. tokens[c] \in Nat /\ since[c] \in Nat
  BY Slice, GateAssumption DEF TypeOK
<1> QED BY <1>1, Slice DEF Level

\* Drawing n tokens from an open bucket leaves what was there less n.
LEMMA DrawLevel ==
  ASSUME TypeOK, NEW c \in Container, NEW n \in {0, 1}, Draw(c, n), n = 1 => HasToken(c)
  PROVE  /\ \A d \in Container \ {c} : tokens'[d] = tokens[d] /\ since'[d] = since[d]
         /\ blocked[c] > 0 => tokens'[c] = tokens[c] /\ since'[c] = since[c]
         /\ blocked[c] = 0 => Level(c)' = Refilled(c) - n * Minute /\ since'[c] = 0
         /\ \A d \in Container \ {c} : Refilled(d)' = Refilled(d) /\ Level(d)' = Level(d)
         /\ Refilled(c)' = Refilled(c) - n * Minute
<1>1. Refilled(c) \in 0 .. Capacity
  BY Refill
<1>2. \A d \in Container \ {c} : tokens'[d] = tokens[d] /\ since'[d] = since[d]
  BY DEF TypeOK, Draw
<1>3. \A d \in Container \ {c} : Refilled(d)' = Refilled(d) /\ Level(d)' = Level(d)
  BY <1>2 DEF Refilled, Level
<1>4. CASE blocked[c] > 0
  <2>1. n = 0
    BY <1>4 DEF HasToken
  <2>2. tokens' = tokens /\ since' = since
    BY <1>4 DEF Draw
  <2>3. Refilled(c)' = Refilled(c)
    BY <2>2 DEF Refilled
  <2>4. Refilled(c) - n * Minute = Refilled(c)
    BY <2>1, <1>1, Slice, GateAssumption
  <2> QED BY <1>3, <1>2, <2>2, <2>3, <2>4, <1>4
<1>5. CASE blocked[c] = 0
  <2>1. tokens'[c] = Refilled(c) - n * Minute /\ since'[c] = 0
    BY <1>5 DEF Draw, TypeOK
  <2>2. tokens'[c] \in 0 .. Capacity
    BY <1>1, <2>1, Slice, GateAssumption DEF HasToken
  <2>3. 0 * PerMinute = 0
    BY Slice
  <2>4. Level(c)' = tokens'[c]
    BY <2>1, <2>2, <2>3, Slice DEF Level
  <2>5. Refilled(c)' = tokens'[c]
    BY <2>1, <2>2, <2>3, Slice DEF Refilled
  <2> QED BY <1>3, <1>2, <2>1, <2>4, <2>5, <1>5
<1> QED BY <1>4, <1>5 DEF TypeOK

\* A tick drips at most a slice's worth of drops into a bucket.
LEMMA TickLevel ==
  ASSUME TypeOK, NEW c \in Container, Tick
  PROVE  Refilled(c)' \in Nat /\ Refilled(c)' <= Refilled(c) + PerMinute
<1>1. tokens[c] \in Nat /\ since[c] \in Nat /\ tokens'[c] = tokens[c]
  BY Slice, GateAssumption DEF TypeOK, Tick
<1>2. since'[c] = since[c] + 1 \/ since'[c] = since[c]
  BY GateAssumption DEF TypeOK, Tick
<1>3. Level(c)' = Level(c) \/ Level(c)' = Level(c) + PerMinute
  <2>1. since[c] * PerMinute \in Nat /\ (since[c] + 1) * PerMinute = since[c] * PerMinute + PerMinute
    BY <1>1, Drip
  <2>2. CASE since'[c] = since[c]
    BY <1>1, <2>2 DEF Level
  <2>3. CASE since'[c] = since[c] + 1
    <3>1. Level(c)' = tokens[c] + (since[c] + 1) * PerMinute
      BY <1>1, <2>3 DEF Level
    <3>2. Level(c) = tokens[c] + since[c] * PerMinute
      BY DEF Level
    <3> QED BY <1>1, <2>1, <3>1, <3>2, Slice
  <2> QED BY <1>2, <2>2, <2>3
<1>4. Refilled(c) = IF Level(c) > Capacity THEN Capacity ELSE Level(c)
  BY DEF Refilled, Level
<1>5. Refilled(c)' = IF Level(c)' > Capacity THEN Capacity ELSE Level(c)'
  BY DEF Refilled, Level
<1> QED BY <1>3, <1>4, <1>5, LevelType, Slice

-----------------------------------------------------------------------------
(* The ledger.                                                             *)

\* One token more granted is one token less in the bucket.
LEMMA LedgerStep == IInv /\ [Next]_vars => Ledger'
<1> SUFFICES ASSUME IInv, [Next]_vars, NEW c \in Container
             PROVE  /\ watchAge' = Minute => granted'[c] = 0
                    /\ watchAge' < Minute =>
                         granted'[c] * Minute + Refilled(c)' <= Capacity + watchAge' * PerMinute
  BY DEF Ledger
<1> DEFINE Kept == /\ watchAge' = Minute => granted'[c] = 0
                   /\ watchAge' < Minute =>
                        granted'[c] * Minute + Refilled(c)' <= Capacity + watchAge' * PerMinute
<1>0. /\ TypeOK
      /\ granted[c] \in Nat /\ watchAge \in 0 .. Minute /\ Refilled(c) \in 0 .. Capacity
      /\ watchAge = Minute => granted[c] = 0
      /\ watchAge < Minute =>
           granted[c] * Minute + Refilled(c) <= Capacity + watchAge * PerMinute
  BY Refill DEF IInv, Ledger, TypeOK
<1>1. ASSUME granted'[c] = granted[c], watchAge' = watchAge, Refilled(c)' = Refilled(c)
      PROVE  Kept
  BY <1>0, <1>1
<1>2. ASSUME NEW r \in Request, Take(r) PROVE Kept
  <2>1. Home[r] \in Container /\ HasToken(Home[r]) /\ Draw(Home[r], 1) /\ watchAge' = watchAge
    BY <1>2, GateAssumption DEF Take
  <2>2. CASE c # Home[r]
    <3>1. Refilled(c)' = Refilled(c)
      BY <1>0, <2>1, <2>2, DrawLevel
    <3>2. granted'[c] = granted[c]
      BY <1>0, <1>2, <2>2 DEF Take, TypeOK
    <3> QED BY <1>1, <2>1, <3>1, <3>2
  <2>3. CASE c = Home[r] /\ watchAge < Minute
    <3>1. Refilled(c)' = Refilled(c) - Minute
      <4>1. Refilled(c)' = Refilled(c) - 1 * Minute
        BY <1>0, <2>1, <2>3, DrawLevel
      <4> QED BY <4>1, GateAssumption
    <3>2. granted'[c] = granted[c] + 1
      BY <1>0, <1>2, <2>3 DEF Take, TypeOK
    <3>3. (granted[c] + 1) * Minute = granted[c] * Minute + Minute /\ granted[c] * Minute \in Nat
      BY <1>0, GateAssumption
    <3>4. watchAge * PerMinute \in Nat
      BY <1>0, Slice, GateAssumption
    <3>5. granted'[c] * Minute + Refilled(c)' = granted[c] * Minute + Refilled(c)
      BY <1>0, <3>1, <3>2, <3>3, Slice, GateAssumption
    <3> QED BY <1>0, <2>1, <2>3, <3>4, <3>5
  <2>4. CASE c = Home[r] /\ watchAge = Minute
    <3>1. granted'[c] = granted[c]
      BY <1>0, <1>2, <2>4, GateAssumption DEF Take, TypeOK
    <3> QED BY <1>0, <2>1, <2>4, <3>1, GateAssumption
  <2> QED BY <1>0, <2>2, <2>3, <2>4, GateAssumption
<1>3. ASSUME NEW r \in Request, Sleep(r) \/ Refuse(r) PROVE Kept
  <2>1. Home[r] \in Container /\ Draw(Home[r], 0) /\ watchAge' = watchAge /\ granted' = granted
    BY <1>3, GateAssumption DEF Sleep, Refuse, watch
  <2>2. Refilled(c)' = Refilled(c)
    <3>1. Refilled(c) - 0 * Minute = Refilled(c)
      BY <1>0, Slice, GateAssumption
    <3>2. CASE c = Home[r]
      BY <1>0, <2>1, <3>1, <3>2, DrawLevel
    <3>3. CASE c # Home[r]
      BY <1>0, <2>1, <3>3, DrawLevel
    <3> QED BY <3>2, <3>3
  <2> QED BY <1>1, <2>1, <2>2
<1>4. ASSUME NEW r \in Request, Send(r) \/ Retry(r) \/ Finish(r) \/ FinishExhausted(r) PROVE Kept
  <2>1. tokens' = tokens /\ since' = since /\ watchAge' = watchAge /\ granted' = granted
    BY <1>4 DEF Send, Retry, Finish, FinishExhausted, bucket, watch
  <2>2. Refilled(c)' = Refilled(c)
    BY <2>1 DEF Refilled
  <2> QED BY <1>1, <2>1, <2>2
<1>5. CASE Tick
  <2>1. Refilled(c)' \in Nat /\ Refilled(c)' <= Refilled(c) + PerMinute
    BY <1>0, <1>5, TickLevel
  <2>2. CASE watchAge + 1 < Minute
    <3>1. watchAge' = watchAge + 1 /\ granted' = granted /\ watchAge < Minute
      BY <1>0, <1>5, <2>2, GateAssumption DEF Tick
    <3>2. (watchAge + 1) * PerMinute = watchAge * PerMinute + PerMinute /\ watchAge * PerMinute \in Nat
      BY <1>0, Drip, GateAssumption
    <3>3. granted[c] * Minute \in Nat
      BY <1>0, GateAssumption
    <3>4. watchAge' * PerMinute = watchAge * PerMinute + PerMinute
      BY <3>1, <3>2
    <3>5. granted'[c] * Minute = granted[c] * Minute
      BY <3>1
    <3>6. watchAge' # Minute
      BY <2>2, <3>1, <1>0, GateAssumption
    <3>7. granted[c] * Minute + Refilled(c)' <= Capacity + (watchAge * PerMinute + PerMinute)
      BY <1>0, <2>1, <3>1, <3>2, <3>3, Slice, GateAssumption
    <3> QED BY <3>4, <3>5, <3>6, <3>7
  <2>3. CASE ~ (watchAge + 1 < Minute)
    <3>1. watchAge' = Minute /\ granted'[c] = 0
      BY <1>0, <1>5, <2>3, GateAssumption DEF Tick
    <3> QED BY <3>1, GateAssumption
  <2> QED BY <2>2, <2>3
<1>6. CASE StartWatch
  <2>1. watchAge' = 0 /\ granted'[c] = 0 /\ tokens' = tokens /\ since' = since
    BY <1>0, <1>6 DEF StartWatch, bucket
  <2>2. Refilled(c)' = Refilled(c)
    BY <2>1 DEF Refilled
  <2>3. 0 * Minute = 0 /\ 0 * PerMinute = 0
    BY Slice, GateAssumption
  <2> QED BY <1>0, <2>1, <2>2, <2>3, Slice, GateAssumption
<1>7. CASE UNCHANGED vars
  <2>1. Refilled(c)' = Refilled(c) /\ watchAge' = watchAge /\ granted' = granted
    BY <1>7 DEF Refilled, vars
  <2> QED BY <1>1, <2>1
<1> QED BY <1>2, <1>3, <1>4, <1>5, <1>6, <1>7 DEF Next

-----------------------------------------------------------------------------
(* The sleepers.                                                           *)

\* A closed bucket is not refilled while it is closed.
LEMMA ClosedLongStep == IInv /\ [Next]_vars => ClosedLong'
<1> SUFFICES ASSUME IInv, [Next]_vars, NEW c \in Container, blocked'[c] > 0
             PROVE  since'[c] + blocked'[c] >= Minute
  BY DEF ClosedLong
<1>0. /\ TypeOK /\ blocked[c] \in 0 .. Minute /\ since[c] \in 0 .. Minute
      /\ blocked[c] > 0 => since[c] + blocked[c] >= Minute
  BY DEF IInv, ClosedLong, TypeOK
<1>1. ASSUME NEW r \in Request, Take(r) \/ Sleep(r) \/ Refuse(r)
      PROVE  since'[c] + blocked'[c] >= Minute
  <2>1. PICK n \in {0, 1} : Draw(Home[r], n) /\ (n = 1 => HasToken(Home[r]))
    BY <1>1 DEF Take, Sleep, Refuse
  <2>2. Home[r] \in Container
    BY GateAssumption
  <2>3. blocked'[c] = blocked[c] /\ blocked[c] > 0
    BY <2>1 DEF Draw
  <2>4. since'[c] = since[c]
    BY <1>0, <2>1, <2>2, <2>3, DrawLevel
  <2> QED BY <1>0, <2>3, <2>4
<1>2. ASSUME NEW r \in Request, Send(r) \/ Retry(r) \/ Finish(r)
      PROVE  since'[c] + blocked'[c] >= Minute
  BY <1>0, <1>2 DEF Send, Retry, Finish, bucket
<1>3. ASSUME NEW r \in Request, FinishExhausted(r) PROVE since'[c] + blocked'[c] >= Minute
  <2>1. since' = since /\ (blocked'[c] = Minute \/ blocked'[c] = blocked[c])
    BY <1>0, <1>3 DEF FinishExhausted, TypeOK
  <2> QED BY <1>0, <2>1, GateAssumption
<1>4. CASE Tick
  <2>1. blocked'[c] = Sooner(blocked[c])
    BY <1>4 DEF Tick
  <2>2. since'[c] = IF since[c] < Minute THEN since[c] + 1 ELSE Minute
    BY <1>4 DEF Tick
  <2> QED BY <1>0, <2>1, <2>2, GateAssumption DEF Sooner
<1>5. CASE StartWatch \/ UNCHANGED vars
  BY <1>0, <1>5 DEF StartWatch, bucket, vars
<1> QED BY <1>1, <1>2, <1>3, <1>4, <1>5 DEF Next

\* What request r will find when it wakes.
Covered(r) ==
  /\ blocked[Home[r]] <= nap[r]
  /\ tokens[Home[r]] + (since[Home[r]] + nap[r]) * PerMinute >= Minute

\* A minute, or more, drips a token.
LEMMA MinuteDrips ==
  ASSUME NEW n \in Nat, n >= Minute, NEW t \in Nat PROVE t + n * PerMinute >= Minute
<1>1. ASSUME NEW p \in Nat, p >= 1 PROVE n * p \in Nat /\ n * p >= n
  BY <1>1
<1> QED BY <1>1, Slice, GateAssumption

\* A refill without a token taken does not shorten anybody's cover.
LEMMA RefillCovers ==
  ASSUME TypeOK, NEW r \in Request, NEW c \in Container, Draw(c, 0), Covered(r), nap'[r] = nap[r]
  PROVE  Covered(r)'
<1> DEFINE h == Home[r]
<1>1. /\ h \in Container /\ tokens[h] \in Nat /\ since[h] \in Nat /\ nap[r] \in Nat
      /\ blocked' = blocked
  BY Slice, GateAssumption DEF TypeOK, Draw
<1>2. CASE c # h \/ blocked[c] > 0
  <2>1. tokens'[h] = tokens[h] /\ since'[h] = since[h]
    BY <1>1, <1>2, DrawLevel
  <2> QED BY <1>1, <2>1 DEF Covered
<1>3. CASE c = h /\ blocked[c] = 0
  <2>1. tokens'[h] = Refilled(h) /\ since'[h] = 0
    <3>1. Refilled(h) - 0 * Minute = Refilled(h)
      BY <1>1, Refill, Slice, GateAssumption
    <3>2. tokens'[h] = Refilled(h) - 0 * Minute /\ since'[h] = 0
      BY <1>1, <1>3 DEF Draw, TypeOK
    <3> QED BY <3>1, <3>2
  <2>2. Refilled(h) = IF tokens[h] + since[h] * PerMinute > Capacity THEN Capacity
                      ELSE tokens[h] + since[h] * PerMinute
    BY DEF Refilled
  <2>3. /\ (since[h] + nap[r]) * PerMinute = since[h] * PerMinute + nap[r] * PerMinute
        /\ since[h] * PerMinute \in Nat /\ nap[r] * PerMinute \in Nat
    BY <1>1, Slice
  <2>4. tokens[h] + (since[h] * PerMinute + nap[r] * PerMinute) >= Minute
    BY <2>3 DEF Covered
  <2>5. Refilled(h) + nap[r] * PerMinute >= Minute
    BY <1>1, <2>2, <2>3, <2>4, Slice, GateAssumption
  <2>6. 0 + nap'[r] = nap[r]
    BY <1>1
  <2>7. tokens'[h] + (since'[h] + nap'[r]) * PerMinute = Refilled(h) + nap[r] * PerMinute
    BY <2>1, <2>6
  <2> QED BY <1>1, <2>5, <2>7 DEF Covered
<1> QED BY <1>2, <1>3, <1>1 DEF TypeOK

\* A request that goes to sleep is told to sleep long enough.
LEMMA SleepCovers == ASSUME IInv, NEW r \in Request, Sleep(r) PROVE Covered(r)'
<1> DEFINE h == Home[r]
<1>1. /\ TypeOK /\ h \in Container /\ Draw(h, 0) /\ ~ HasToken(h) /\ blocked' = blocked
      /\ tokens[h] \in Nat /\ since[h] \in Nat /\ blocked[h] \in Nat
  <2>1. TypeOK /\ h \in Container
    BY GateAssumption DEF IInv
  <2>2. Draw(h, 0) /\ ~ HasToken(h)
    BY DEF Sleep
  <2>3. blocked' = blocked
    BY <2>2 DEF Draw
  <2>4. tokens[h] \in Nat /\ since[h] \in Nat /\ blocked[h] \in Nat
    BY <2>1, Slice, GateAssumption DEF TypeOK
  <2> QED BY <2>1, <2>2, <2>3, <2>4
<1>2. nap'[r] = WaitFor(h) /\ WaitFor(h) \in Nat
  BY <1>1, WaitType, GateAssumption DEF Sleep, TypeOK
<1>3. CASE blocked[h] > 0
  <2>1. WaitFor(h) = blocked[h] /\ since[h] + blocked[h] >= Minute
    BY <1>1, <1>3 DEF WaitFor, IInv, ClosedLong
  <2>2. tokens'[h] = tokens[h] /\ since'[h] = since[h]
    BY <1>1, <1>3, DrawLevel
  <2>3. tokens[h] + (since[h] + WaitFor(h)) * PerMinute >= Minute
    BY <1>1, <1>2, <2>1, MinuteDrips
  <2> QED BY <1>1, <1>2, <2>1, <2>2, <2>3 DEF Covered
<1>4. CASE blocked[h] = 0
  <2>1. tokens'[h] = Refilled(h) /\ since'[h] = 0
    <3>1. Refilled(h) - 0 * Minute = Refilled(h)
      BY <1>1, Refill, Slice, GateAssumption
    <3>2. tokens'[h] = Refilled(h) - 0 * Minute /\ since'[h] = 0
      BY <1>1, <1>4 DEF Draw, TypeOK
    <3> QED BY <3>1, <3>2
  <2>2. Refilled(h) + WaitFor(h) * PerMinute >= Minute
    BY <1>1, <1>4, WaitType
  <2>3. 0 + WaitFor(h) = WaitFor(h)
    BY <1>2
  <2>4. tokens'[h] + (since'[h] + nap'[r]) * PerMinute = Refilled(h) + WaitFor(h) * PerMinute
    BY <1>2, <2>1, <2>3
  <2> QED BY <1>1, <1>2, <1>4, <2>2, <2>4 DEF Covered
<1> QED BY <1>1, <1>3, <1>4

\* Sleeping is dripping.
LEMMA TickCovers == ASSUME TypeOK, NEW r \in Request, Tick, Covered(r) PROVE Covered(r)'
<1> DEFINE h == Home[r]
<1>1. /\ h \in Container /\ tokens[h] \in Nat /\ since[h] \in 0 .. Minute /\ nap[r] \in Nat
      /\ blocked[h] \in Nat
  BY Slice, GateAssumption DEF TypeOK
<1>2. /\ tokens'[h] = tokens[h]
      /\ since'[h] = IF since[h] < Minute THEN since[h] + 1 ELSE Minute
      /\ nap'[r] = Sooner(nap[r]) /\ blocked'[h] = Sooner(blocked[h])
  BY <1>1 DEF Tick
<1>3. blocked'[h] <= nap'[r] /\ nap'[r] \in Nat /\ since'[h] \in Nat
  BY <1>1, <1>2, GateAssumption DEF Covered, Sooner
<1>4. CASE since[h] = Minute
  BY <1>1, <1>2, <1>3, <1>4, MinuteDrips, GateAssumption DEF Covered
<1>5. CASE since[h] < Minute
  <2>1. since'[h] + nap'[r] = since[h] + nap[r] \/ since'[h] + nap'[r] = (since[h] + nap[r]) + 1
    BY <1>1, <1>2, <1>5, GateAssumption DEF Sooner
  <2>2. since[h] + nap[r] \in Nat
    BY <1>1
  <2>3. /\ (since[h] + nap[r]) * PerMinute \in Nat
        /\ ((since[h] + nap[r]) + 1) * PerMinute = (since[h] + nap[r]) * PerMinute + PerMinute
    BY <2>2, Drip
  <2>4. (since'[h] + nap'[r]) * PerMinute >= (since[h] + nap[r]) * PerMinute
        /\ (since'[h] + nap'[r]) * PerMinute \in Nat
    BY <2>1, <2>3, Slice
  <2>5. tokens[h] + (since'[h] + nap'[r]) * PerMinute >= Minute
    BY <1>1, <2>3, <2>4, GateAssumption DEF Covered
  <2> QED BY <1>2, <1>3, <2>5 DEF Covered
<1> QED BY <1>1, <1>4, <1>5, GateAssumption

\* Whatever happens to a bucket, its sleepers are covered or overtaken.
LEMMA NapCoversStep == IInv /\ [Next]_vars => NapCovers'
<1> SUFFICES ASSUME IInv, [Next]_vars, NEW r \in Request, pc'[r] = "asleep", r \notin overtaken'
             PROVE  Covered(r)'
  BY DEF NapCovers, Covered
<1>0. TypeOK /\ Home[r] \in Container
  BY GateAssumption DEF IInv
<1>1. pc[r] = "asleep" /\ r \notin overtaken => Covered(r)
  BY DEF IInv, NapCovers, Covered
<1>2. ASSUME NEW q \in Request, Take(q) PROVE Covered(r)'
  <2>1. q # r /\ pc[r] = "asleep" /\ r \notin Asleep(Home[q]) /\ r \notin overtaken
    BY <1>0, <1>2 DEF Take, TypeOK
  <2>2. Home[q] # Home[r] /\ Home[q] \in Container
    BY <2>1, GateAssumption DEF Asleep
  <2>3. Draw(Home[q], 1) /\ HasToken(Home[q]) /\ nap' = nap
    BY <1>2 DEF Take
  <2>4. /\ tokens'[Home[r]] = tokens[Home[r]] /\ since'[Home[r]] = since[Home[r]]
        /\ blocked' = blocked
    BY <1>0, <2>2, <2>3, DrawLevel, DrawType
  <2> QED BY <1>1, <2>1, <2>3, <2>4 DEF Covered
<1>3. ASSUME NEW q \in Request, q # r, Sleep(q) \/ Refuse(q) PROVE Covered(r)'
  <2>1. Draw(Home[q], 0) /\ Home[q] \in Container /\ pc[r] = "asleep" /\ r \notin overtaken
    BY <1>0, <1>3, GateAssumption DEF Sleep, Refuse, TypeOK
  <2>2. nap'[r] = nap[r]
    BY <1>0, <1>3 DEF Sleep, Refuse, TypeOK
  <2> QED BY <1>0, <1>1, <2>1, <2>2, RefillCovers
<1>4. CASE Sleep(r)
  BY <1>4, SleepCovers
<1>5. CASE Refuse(r)
  BY <1>0, <1>5 DEF Refuse, TypeOK
<1>6. ASSUME NEW q \in Request, Send(q) \/ Retry(q) \/ Finish(q) PROVE Covered(r)'
  <2>1. pc[r] = "asleep" /\ r \notin overtaken
    BY <1>0, <1>6 DEF Send, Retry, Finish, TypeOK
  <2>2. UNCHANGED <<tokens, since, blocked, nap>>
    BY <1>6 DEF Send, Retry, Finish, bucket
  <2> QED BY <1>1, <2>1, <2>2 DEF Covered
<1>7. ASSUME NEW q \in Request, FinishExhausted(q) PROVE Covered(r)'
  <2>1. pc[r] = "asleep" /\ r \notin overtaken /\ r \notin Asleep(Home[q])
    BY <1>0, <1>7 DEF FinishExhausted, TypeOK
  <2>2. Home[q] # Home[r] /\ UNCHANGED <<tokens, since, nap>>
    BY <1>7, <2>1 DEF Asleep, FinishExhausted
  <2>3. blocked'[Home[r]] = blocked[Home[r]]
    BY <1>0, <1>7, <2>2 DEF FinishExhausted, TypeOK
  <2> QED BY <1>1, <2>1, <2>2, <2>3 DEF Covered
<1>8. CASE Tick
  <2>1. pc[r] = "asleep" /\ r \notin overtaken
    BY <1>8 DEF Tick
  <2> QED BY <1>0, <1>1, <1>8, <2>1, TickCovers
<1>9. CASE StartWatch \/ UNCHANGED vars
  <2>1. UNCHANGED <<pc, overtaken, tokens, since, blocked, nap>>
    BY <1>9 DEF StartWatch, bucket, vars
  <2> QED BY <1>1, <2>1 DEF Covered
<1> QED BY <1>2, <1>3, <1>4, <1>5, <1>6, <1>7, <1>8, <1>9 DEF Next

-----------------------------------------------------------------------------
(* The theorems.                                                           *)

\* The buckets start full, and every step keeps the invariant.
LEMMA InitInv == Init => IInv
<1> SUFFICES ASSUME Init PROVE IInv
  OBVIOUS
<1>1. TypeOK /\ MaySend
  BY TypeInit
<1>2. Ledger
  BY GateAssumption DEF Init, Ledger
<1>3. ClosedLong
  BY DEF Init, ClosedLong
<1>4. NapCovers
  BY DEF Init, NapCovers
<1> QED BY <1>1, <1>2, <1>3, <1>4 DEF IInv

\* Every step keeps the invariant.
LEMMA StepInv == IInv /\ [Next]_vars => IInv'
  BY TypeStep, MaySendStep, LedgerStep, ClosedLongStep, NapCoversStep DEF IInv

\* The invariant holds in every state the containers can reach.
THEOREM Invariance == Spec => []IInv
  BY InitInv, StepInv, PTL DEF Spec

\* Every variable keeps its type: no bucket holds more than its capacity or
\* less than nothing, and no wait is longer than a minute.
THEOREM TypeCorrect == Spec => []TypeOK
<1>1. IInv => TypeOK
  BY DEF IInv
<1> QED BY <1>1, Invariance, PTL

\* Whatever minute is watched, a container grants fewer than twice its slice.
THEOREM BurstsAreBounded == Spec => []BurstBounded
<1>1. IInv => BurstBounded
  <2> SUFFICES ASSUME IInv, NEW c \in Container PROVE granted[c] < 2 * PerMinute
    BY DEF BurstBounded
  <2>1. /\ granted[c] \in Nat /\ watchAge \in 0 .. Minute /\ Refilled(c) \in Nat
        /\ watchAge = Minute => granted[c] = 0
        /\ watchAge < Minute =>
             granted[c] * Minute + Refilled(c) <= Capacity + watchAge * PerMinute
    BY Refill, Slice DEF IInv, Ledger, TypeOK
  <2>2. CASE watchAge = Minute
    BY <2>1, <2>2, Slice
  <2>3. CASE watchAge < Minute
    <3>1. ASSUME NEW g \in Nat, NEW m \in Nat, NEW p \in Nat, NEW w \in Nat,
                 w < m, p >= 1, g * m <= p * m + w * p
          PROVE  g < 2 * p
      <4>1. w * p < m * p
        BY <3>1
      <4>2. g * m < (2 * p) * m
        BY <3>1, <4>1
      <4> QED BY <3>1, <4>2
    <3>2. granted[c] * Minute \in Nat /\ watchAge * PerMinute \in Nat /\ Capacity \in Nat
      BY <2>1, Slice, GateAssumption
    <3>3. granted[c] * Minute <= PerMinute * Minute + watchAge * PerMinute
      BY <2>1, <2>3, <3>2 DEF Capacity
    <3> QED BY <2>1, <2>3, <3>1, <3>3, Slice, GateAssumption
  <2> QED BY <2>1, <2>2, <2>3, GateAssumption
<1> QED BY <1>1, Invariance, PTL

\* A request that wakes finds its token unless something happened meanwhile.
THEOREM WaitsAreHonest == Spec => []WaitIsHonest
<1>1. IInv => WaitIsHonest
  <2> SUFFICES ASSUME IInv, NEW r \in Request,
                      pc[r] = "asleep", nap[r] = 0, r \notin overtaken
               PROVE  HasToken(Home[r])
    BY DEF WaitIsHonest
  <2>1. TypeOK /\ Home[r] \in Container
    BY GateAssumption DEF IInv
  <2>2. blocked[Home[r]] <= 0 /\ tokens[Home[r]] + (since[Home[r]] + 0) * PerMinute >= Minute
    BY DEF IInv, NapCovers
  <2>3. blocked[Home[r]] = 0 /\ since[Home[r]] + 0 = since[Home[r]]
    BY <2>1, <2>2, GateAssumption DEF TypeOK
  <2>4. tokens[Home[r]] + since[Home[r]] * PerMinute >= Minute
    BY <2>2, <2>3
  <2> QED BY <2>1, <2>3, <2>4, Refill DEF HasToken
<1> QED BY <1>1, Invariance, PTL

=============================================================================
