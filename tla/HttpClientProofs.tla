-------------------------- MODULE HttpClientProofs --------------------------
(***************************************************************************)
(* Proofs about the HTTP client: for any number of calls and keys, any     *)
(* times to live, timeout, error budget and number of attempts.            *)
(*                                                                         *)
(* The argument.  An attempt starts only below the error budget and is     *)
(* worth at most one error, so errors counted plus attempts in flight stay *)
(* within the budget and one per call (Overshoot).  An answer is looked up *)
(* during the attempt that brings it, which its timer bounds, so an entry  *)
(* is never older by the agency's clock than by the cache's and a timeout  *)
(* (Recent).  Both need what a call's frame holds between its awaits       *)
(* (Framed).                                                               *)
(***************************************************************************)
EXTENDS HttpClient, FiniteSetTheorems, TLAPS

-----------------------------------------------------------------------------
(* The inductive invariant.                                                *)

\* Out of a fetch nothing of the last attempt is left, and one more may
\* start; in a fetch the caller still waits.
Framed ==
  \A c \in Call :
    /\ pc[c] # "fetch" => elapsed[c] = 0 /\ sight[c] = NoEntry /\ attempt[c] < MaxAttempts
    /\ pc[c] = "fetch" => ~ aborted[c]

InFlight == {c \in Call : pc[c] = "fetch"}

Overshoot == errors + Cardinality(InFlight) + 1 <= ErrorLimit + Cardinality(Call)

\* An answer is no older than its attempt, an entry than its storing and a timeout.
Recent ==
  /\ EntriesAreRecent
  /\ \A c \in Call : held[c] # NoData => held[c].lag <= held[c].age + Timeout
  /\ \A c \in Call : sight[c] # NoEntry => sight[c] <= elapsed[c]

IInv == TypeOK /\ Framed /\ Overshoot /\ Recent

-----------------------------------------------------------------------------
(* The pieces of a step.                                                   *)

\* An idle frame holds a key.
LEMMA AnyKeyIsKey == AnyKey \in Key
  BY CallAssumption DEF AnyKey

\* Ending a call leaves a well-formed, empty frame.
LEMMA SettleFrames ==
  ASSUME TypeOK, Framed, NEW c \in Call, NEW r \in Answered, Settle(c, r),
         cache' \in [Key -> Entry \cup {NoData}], errors' \in Nat, windowAge' \in 0 .. Minute
  PROVE  TypeOK' /\ Framed'
<1>1. 0 \in 0 .. MaxAttempts /\ 0 < MaxAttempts /\ 0 \in 0 .. Timeout
  BY ClientAssumption
<1>2. TypeOK'
  BY <1>1, AnyKeyIsKey DEF TypeOK, Settle
<1>3. Framed'
  BY <1>1 DEF Framed, TypeOK, Settle, Answered
<1> QED
  BY <1>2, <1>3

\* An error ends a call, with the stale entry or without.
LEMMA ThrowSettles ==
  ASSUME NEW c \in Call, NEW s, Throw(c, s)
  PROVE  \E r \in {"stale", "failed"} : Settle(c, r)
  BY DEF Throw

\* The window counts in natural numbers, within its minute.
LEMMA CountErrorsType ==
  ASSUME TypeOK, NEW n \in {0, 1}, CountErrors(n)
  PROVE  errors' \in Nat /\ windowAge' \in 0 .. Minute
  BY ClientAssumption DEF TypeOK, CountErrors, Rolled, WindowOver

-----------------------------------------------------------------------------
(* Type correctness, with the frames.                                      *)

\* Types and frames hold at the start, and every step keeps them.
LEMMA TypeInit == Init => TypeOK /\ Framed
<1> SUFFICES ASSUME Init PROVE TypeOK /\ Framed
  OBVIOUS
<1>1. 0 \in 0 .. MaxAttempts /\ 0 < MaxAttempts /\ 0 \in 0 .. Timeout /\ 0 \in 0 .. Minute
  BY ClientAssumption
<1> QED
  BY <1>1, AnyKeyIsKey DEF Init, TypeOK, Framed

\* Each step types what it assigns, and empties the frames it leaves.
LEMMA TypeStep == TypeOK /\ Framed /\ [Next]_vars => TypeOK' /\ Framed'
<1> SUFFICES ASSUME TypeOK, Framed, [Next]_vars PROVE TypeOK' /\ Framed'
  OBVIOUS
<1> USE DEF Running, Answered
<1>0. cache \in [Key -> Entry \cup {NoData}] /\ errors \in Nat /\ windowAge \in 0 .. Minute
  BY DEF TypeOK
<1>1. ASSUME NEW c \in Call, NEW k \in Key, NEW already \in BOOLEAN, Begin(c, k, already)
      PROVE  TypeOK' /\ Framed'
  BY <1>1 DEF Begin, TypeOK, Framed
<1>2. ASSUME NEW c \in Call, Decide(c) PROVE TypeOK' /\ Framed'
  <2>0. UNCHANGED cache
    BY <1>2 DEF Decide
  <2>1. CASE Settle(c, "fresh") /\ UNCHANGED <<errors, windowAge>>
    BY <1>0, <2>0, <2>1, SettleFrames
  <2>2. CASE Throw(c, CanServe(held[c])) /\ UNCHANGED <<errors, windowAge>>
    BY <1>0, <2>0, <2>2, ThrowSettles, SettleFrames
  <2>3. CASE Throw(c, CanServe(held[c])) /\ CountErrors(0)
    BY <1>0, <2>0, <2>3, ThrowSettles, SettleFrames, CountErrorsType
  <2>4. CASE /\ pc[c] = "lookup"
             /\ CountErrors(0)
             /\ servable' = [servable EXCEPT ![c] = CanServe(held[c])]
             /\ GoOn(c, "token")
    <3>1. errors' \in Nat /\ windowAge' \in 0 .. Minute
      BY <2>4, CountErrorsType
    <3>2. CanServe(held[c]) \in BOOLEAN
      BY DEF CanServe
    <3> QED
      BY <2>0, <2>4, <3>1, <3>2 DEF TypeOK, Framed, GoOn
  <2> QED
    BY <1>2, <2>1, <2>2, <2>3, <2>4 DEF Decide
<1>3. ASSUME NEW c \in Call, TokenTaken(c) \/ Charged(c) PROVE TypeOK' /\ Framed'
  BY <1>3 DEF TokenTaken, Charged, GoOn, TypeOK, Framed
<1>4. ASSUME NEW c \in Call, Refused(c) \/ TimesOut(c) PROVE TypeOK' /\ Framed'
  BY <1>0, <1>4, ThrowSettles, SettleFrames DEF Refused, TimesOut
<1>5. ASSUME NEW c \in Call, Attempt(c) PROVE TypeOK' /\ Framed'
  <2>0. UNCHANGED cache /\ pc[c] = "ready"
    BY <1>5 DEF Attempt
  <2>1. CASE Throw(c, servable[c]) /\ UNCHANGED <<errors, windowAge>>
    BY <1>0, <2>0, <2>1, ThrowSettles, SettleFrames
  <2>2. CASE Throw(c, servable[c]) /\ CountErrors(0)
    BY <1>0, <2>0, <2>2, ThrowSettles, SettleFrames, CountErrorsType
  <2>3. CASE /\ ~ aborted[c]
             /\ CountErrors(0)
             /\ pc' = [pc EXCEPT ![c] = "fetch"]
             /\ attempt' = [attempt EXCEPT ![c] = NextAttempt(c)]
             /\ UNCHANGED <<key, held, servable, aborted, elapsed, sight>>
    <3>1. errors' \in Nat /\ windowAge' \in 0 .. Minute
      BY <2>3, CountErrorsType
    <3>2. NextAttempt(c) \in 0 .. MaxAttempts
      BY <2>0, ClientAssumption DEF NextAttempt, TypeOK, Framed
    <3>3. ~ aborted[c]
      BY <2>3
    <3> QED
      BY <2>0, <2>3, <3>1, <3>2, <3>3 DEF TypeOK, Framed
  <2> QED
    BY <1>5, <2>1, <2>2, <2>3 DEF Attempt
<1>6. ASSUME NEW c \in Call, AgencyLooks(c) PROVE TypeOK' /\ Framed'
  <2>1. 0 \in Age
    BY ClientAssumption DEF Age
  <2> QED
    BY <1>6, <2>1 DEF AgencyLooks, TypeOK, Framed
<1>7. ASSUME NEW c \in Call, Fetched(c) PROVE TypeOK' /\ Framed'
  <2>1. [age |-> 0, lag |-> sight[c]] \in Entry
    BY <1>7, ClientAssumption DEF Fetched, TypeOK, Entry, Age
  <2>2. cache' \in [Key -> Entry \cup {NoData}]
    BY <1>0, <1>7, <2>1 DEF Fetched
  <2> QED
    BY <1>0, <1>7, <2>2, SettleFrames DEF Fetched
<1>8. ASSUME NEW c \in Call, NEW counted \in BOOLEAN, NEW retryable \in BOOLEAN,
             FailedAttempt(c, counted, retryable)
      PROVE  TypeOK' /\ Framed'
  <2>1. errors' \in Nat /\ windowAge' \in 0 .. Minute
    BY <1>0, <1>8, CountErrorsType DEF FailedAttempt
  <2>2. cache' \in [Key -> Entry \cup {NoData}]
    BY <1>0, <1>8 DEF FailedAttempt
  <2>3. CASE Throw(c, servable[c])
    BY <2>1, <2>2, <2>3, ThrowSettles, SettleFrames
  <2>4. CASE ~ Exhausted(c) /\ Retry(c)
    <3>1. attempt[c] < MaxAttempts
      BY <2>4, ClientAssumption DEF Exhausted, TypeOK
    <3>2. 0 \in 0 .. Timeout
      BY ClientAssumption
    <3> QED
      BY <2>1, <2>2, <2>4, <3>1, <3>2 DEF TypeOK, Framed, Retry
  <2> QED
    BY <1>8, <2>3, <2>4 DEF FailedAttempt
<1>9. ASSUME NEW c \in Call, Abort(c) PROVE TypeOK' /\ Framed'
  <2>0. cache' = cache /\ errors' = errors /\ windowAge' = windowAge
    BY <1>9 DEF Abort
  <2>1. CASE pc[c] = "fetch"
    <3>1. Throw(c, servable[c])
      BY <1>9, <2>1 DEF Abort
    <3> QED
      BY <1>0, <2>0, <3>1, ThrowSettles, SettleFrames
  <2>2. CASE pc[c] # "fetch"
    BY <1>9, <2>2 DEF Abort, TypeOK, Framed
  <2> QED
    BY <2>1, <2>2
<1>10. CASE Tick
  <2>1. \A e \in Entry \cup {NoData} : OlderEntry(e) \in Entry \cup {NoData}
    BY ClientAssumption DEF OlderEntry, Older, Entry, Age
  <2>2. \A c \in Call : elapsed'[c] \in 0 .. Timeout /\ sight'[c] \in Age \cup {NoEntry}
    BY <1>10, ClientAssumption DEF Tick, TypeOK, Older, Age
  <2>3. windowAge' \in 0 .. Minute
    BY <1>10, ClientAssumption DEF Tick, TypeOK, WindowOver
  <2>4. cache' \in [Key -> Entry \cup {NoData}] /\ held' \in [Call -> Entry \cup {NoData}]
    BY <1>10, <2>1 DEF Tick, TypeOK
  <2> QED
    BY <1>10, <2>2, <2>3, <2>4 DEF Tick, TypeOK, Framed
<1>11. CASE UNCHANGED vars
  BY <1>11 DEF vars, TypeOK, Framed
<1> QED
  BY <1>1, <1>2, <1>3, <1>4, <1>5, <1>6, <1>7, <1>8, <1>9, <1>10, <1>11
  DEF Next, Advance, AgencyAnswers

\* Every variable keeps its type, whatever the agency and the callers do.
THEOREM TypeCorrect == Spec => []TypeOK
<1>1. Init => TypeOK /\ Framed
  BY TypeInit
<1>2. TypeOK /\ Framed /\ [Next]_vars => (TypeOK /\ Framed)'
  BY TypeStep
<1> QED
  BY <1>1, <1>2, PTL DEF Spec

-----------------------------------------------------------------------------
(* The error budget.                                                       *)

\* Attempts in flight are counted, and there is at most one per call.
LEMMA FlightSize ==
  /\ IsFiniteSet(InFlight) /\ Cardinality(InFlight) \in Nat
  /\ Cardinality(Call) \in Nat /\ Cardinality(InFlight) <= Cardinality(Call)
<1>1. InFlight \in SUBSET Call
  BY DEF InFlight
<1>2. IsFiniteSet(Call)
  BY CallAssumption
<1> QED
  BY <1>1, <1>2, FS_Subset, FS_CardinalityType

\* The same of the next state, and a flight that only loses calls shrinks.
LEMMA FlightSizeNext ==
  /\ IsFiniteSet(InFlight') /\ Cardinality(InFlight') \in Nat
  /\ Cardinality(InFlight') <= Cardinality(Call)
  /\ InFlight' \subseteq InFlight => Cardinality(InFlight') <= Cardinality(InFlight)
<1>1. InFlight' \in SUBSET Call
  BY DEF InFlight
<1>2. IsFiniteSet(Call)
  BY CallAssumption
<1> QED
  BY <1>1, <1>2, FlightSize, FS_Subset, FS_CardinalityType

\* Steps that start no attempt and count no error.
LEMMA NothingStarts ==
  ASSUME TypeOK, Overshoot, InFlight' \subseteq InFlight, errors' \in {errors, 0}
  PROVE  Overshoot'
  BY ClientAssumption, FlightSize, FlightSizeNext DEF Overshoot, TypeOK

\* A check of the error budget counts nothing.
LEMMA RollOnly ==
  ASSUME CountErrors(0), TypeOK
  PROVE  errors' \in {errors, 0}
  BY DEF CountErrors, Rolled, TypeOK

\* A call that ends has no attempt in flight, and lands nobody else.
LEMMA SettleLands ==
  ASSUME TypeOK, NEW c \in Call, NEW r \in Answered, Settle(c, r)
  PROVE  InFlight' = InFlight \ {c}
  BY DEF Settle, InFlight, TypeOK, Answered

\* The same for a call that ends with an error.
LEMMA ThrowLands ==
  ASSUME TypeOK, NEW c \in Call, NEW s, Throw(c, s)
  PROVE  InFlight' = InFlight \ {c}
  BY ThrowSettles, SettleLands DEF Answered

\* Nothing is counted or in flight at the start.
LEMMA OvershootInit == Init => Overshoot
<1> SUFFICES ASSUME Init PROVE Overshoot
  OBVIOUS
<1>1. InFlight = {}
  BY DEF Init, InFlight
<1>2. Cardinality(Call) # 0
  BY CallAssumption, FS_EmptySet
<1> QED
  BY <1>1, <1>2, ClientAssumption, FlightSize, FS_EmptySet DEF Init, Overshoot

\* An attempt that fails turns from one in flight into one error at most,
\* and one starts only below the budget.
LEMMA OvershootStep == TypeOK /\ Overshoot /\ [Next]_vars => Overshoot'
<1> SUFFICES ASSUME TypeOK, Overshoot, [Next]_vars PROVE Overshoot'
  OBVIOUS
<1> USE DEF Running, Answered
<1>1. ASSUME NEW c \in Call, NEW k \in Key, NEW already \in BOOLEAN, Begin(c, k, already)
      PROVE  Overshoot'
  <2>1. InFlight' \subseteq InFlight /\ errors' = errors
    BY <1>1 DEF Begin, TypeOK, InFlight
  <2> QED
    BY <2>1, NothingStarts
<1>2. ASSUME NEW c \in Call, Decide(c) PROVE Overshoot'
  <2>1. InFlight' \subseteq InFlight
    BY <1>2, SettleLands, ThrowLands DEF Decide, GoOn, TypeOK, InFlight
  <2>2. errors' \in {errors, 0}
    BY <1>2, RollOnly DEF Decide
  <2> QED
    BY <2>1, <2>2, NothingStarts
<1>3. ASSUME NEW c \in Call, TokenTaken(c) \/ Charged(c) PROVE Overshoot'
  <2>1. InFlight' \subseteq InFlight /\ errors' = errors
    BY <1>3 DEF TokenTaken, Charged, GoOn, TypeOK, InFlight
  <2> QED
    BY <2>1, NothingStarts
<1>4. ASSUME NEW c \in Call, Refused(c) \/ TimesOut(c) PROVE Overshoot'
  <2>1. InFlight' \subseteq InFlight /\ errors' = errors
    BY <1>4, ThrowLands DEF Refused, TimesOut
  <2> QED
    BY <2>1, NothingStarts
<1>5. ASSUME NEW c \in Call, Attempt(c) PROVE Overshoot'
  <2>1. CASE Throw(c, servable[c]) /\ errors' \in {errors, 0}
    BY <2>1, ThrowLands, NothingStarts
  <2>2. CASE CountErrors(0) /\ ~ ErrorsSpent
    <3>1. errors' \in Nat /\ errors' < ErrorLimit
      BY <2>2, ClientAssumption DEF CountErrors, ErrorsSpent, Rolled, TypeOK
    <3> QED
      BY <3>1, ClientAssumption, FlightSize, FlightSizeNext DEF Overshoot
  <2> QED
    BY <1>5, <2>1, <2>2, RollOnly DEF Attempt
<1>6. ASSUME NEW c \in Call, AgencyLooks(c) PROVE Overshoot'
  <2>1. InFlight' \subseteq InFlight /\ errors' = errors
    BY <1>6 DEF AgencyLooks, InFlight
  <2> QED
    BY <2>1, NothingStarts
<1>7. ASSUME NEW c \in Call, Fetched(c) PROVE Overshoot'
  <2>1. InFlight' \subseteq InFlight /\ errors' = errors
    BY <1>7, SettleLands DEF Fetched
  <2> QED
    BY <2>1, NothingStarts
<1>8. ASSUME NEW c \in Call, NEW counted \in BOOLEAN, NEW retryable \in BOOLEAN,
             FailedAttempt(c, counted, retryable)
      PROVE  Overshoot'
  <2>1. InFlight' = InFlight \ {c} /\ c \in InFlight
    BY <1>8, ThrowLands DEF FailedAttempt, Retry, TypeOK, InFlight
  <2>2. CASE errors' = errors
    BY <2>1, <2>2, NothingStarts
  <2>3. CASE CountErrors(1)
    <3>1. Cardinality(InFlight') = Cardinality(InFlight) - 1
      BY <2>1, FlightSize, FS_RemoveElement
    <3>2. errors' \in {errors + 1, 1}
      BY <2>3 DEF CountErrors, Rolled, TypeOK
    <3> QED
      BY <3>1, <3>2, ClientAssumption, FlightSize DEF Overshoot, TypeOK
  <2> QED
    BY <1>8, <2>2, <2>3 DEF FailedAttempt
<1>9. ASSUME NEW c \in Call, Abort(c) PROVE Overshoot'
  <2>1. InFlight' \subseteq InFlight /\ errors' = errors
    BY <1>9, ThrowLands DEF Abort, InFlight
  <2> QED
    BY <2>1, NothingStarts
<1>10. CASE Tick \/ UNCHANGED vars
  <2>1. InFlight' \subseteq InFlight /\ errors' = errors
    BY <1>10 DEF Tick, vars, InFlight
  <2> QED
    BY <2>1, NothingStarts
<1> QED
  BY <1>1, <1>2, <1>3, <1>4, <1>5, <1>6, <1>7, <1>8, <1>9, <1>10
  DEF Next, Advance, AgencyAnswers

-----------------------------------------------------------------------------
(* The age of what is cached.                                              *)

\* A call that ends without an answer to cache leaves the entries as they are.
LEMMA SettleRecent ==
  ASSUME TypeOK, Recent, NEW c \in Call, NEW r \in Answered, Settle(c, r), UNCHANGED cache
  PROVE  Recent'
  BY DEF Settle, Recent, EntriesAreRecent, TypeOK

\* The same for a call that ends with an error.
LEMMA ThrowRecent ==
  ASSUME TypeOK, Recent, NEW c \in Call, NEW s, Throw(c, s), UNCHANGED cache
  PROVE  Recent'
  BY ThrowSettles, SettleRecent DEF Answered

\* Growing older together, up to the same horizon, keeps two ages apart by
\* no more than they were.
LEMMA AgeingKeepsLag ==
  ASSUME NEW e \in Entry, e.lag <= e.age + Timeout
  PROVE  OlderEntry(e).lag <= OlderEntry(e).age + Timeout
  BY ClientAssumption DEF Entry, Age, OlderEntry, Older, NoData

\* The cache starts empty.
LEMMA RecentInit == Init => Recent
  BY DEF Init, Recent, EntriesAreRecent

\* A stored answer is no older than the attempt that brought it.
LEMMA RecentStep == TypeOK /\ Framed /\ Recent /\ [Next]_vars => Recent'
<1> SUFFICES ASSUME TypeOK, Framed, Recent, [Next]_vars PROVE Recent'
  OBVIOUS
<1> USE DEF Answered
<1>1. ASSUME NEW c \in Call, NEW k \in Key, NEW already \in BOOLEAN, Begin(c, k, already)
      PROVE  Recent'
  BY <1>1 DEF Begin, Recent, EntriesAreRecent, TypeOK
<1>2. ASSUME NEW c \in Call, Decide(c) PROVE Recent'
  <2>1. CASE Settle(c, "fresh")
    BY <1>2, <2>1, SettleRecent DEF Decide
  <2>2. CASE Throw(c, CanServe(held[c]))
    BY <1>2, <2>2, ThrowRecent DEF Decide
  <2>3. CASE UNCHANGED <<held, sight, elapsed>>
    BY <1>2, <2>3 DEF Decide, Recent, EntriesAreRecent
  <2> QED
    BY <1>2, <2>1, <2>2, <2>3 DEF Decide, GoOn
<1>3. ASSUME NEW c \in Call, TokenTaken(c) \/ Charged(c) PROVE Recent'
  BY <1>3 DEF TokenTaken, Charged, GoOn, Recent, EntriesAreRecent
<1>4. ASSUME NEW c \in Call, Refused(c) \/ TimesOut(c) PROVE Recent'
  BY <1>4, ThrowRecent DEF Refused, TimesOut
<1>5. ASSUME NEW c \in Call, Attempt(c) PROVE Recent'
  <2>1. CASE Throw(c, servable[c])
    BY <1>5, <2>1, ThrowRecent DEF Attempt
  <2>2. CASE UNCHANGED <<held, sight, elapsed>>
    BY <1>5, <2>2 DEF Attempt, Recent, EntriesAreRecent
  <2> QED
    BY <1>5, <2>1, <2>2 DEF Attempt
<1>6. ASSUME NEW c \in Call, AgencyLooks(c) PROVE Recent'
  BY <1>6 DEF AgencyLooks, Recent, EntriesAreRecent, TypeOK
<1>7. ASSUME NEW c \in Call, Fetched(c) PROVE Recent'
  <2>1. sight[c] \in Age /\ sight[c] <= Timeout
    BY <1>7, ClientAssumption DEF Fetched, Recent, TypeOK, Age
  <2>2. EntriesAreRecent'
    BY <1>7, <2>1, ClientAssumption DEF Fetched, Recent, EntriesAreRecent, TypeOK, Age
  <2>3. /\ held' = [held EXCEPT ![c] = NoData]
        /\ sight' = [sight EXCEPT ![c] = NoEntry]
        /\ elapsed' = [elapsed EXCEPT ![c] = 0]
    BY <1>7 DEF Fetched, Settle
  <2> QED
    BY <2>2, <2>3 DEF Recent, TypeOK
<1>8. ASSUME NEW c \in Call, NEW counted \in BOOLEAN, NEW retryable \in BOOLEAN,
             FailedAttempt(c, counted, retryable)
      PROVE  Recent'
  <2>1. CASE Throw(c, servable[c])
    BY <1>8, <2>1, ThrowRecent DEF FailedAttempt
  <2>2. CASE Retry(c)
    BY <1>8, <2>2 DEF FailedAttempt, Retry, Recent, EntriesAreRecent, TypeOK
  <2> QED
    BY <1>8, <2>1, <2>2 DEF FailedAttempt
<1>9. ASSUME NEW c \in Call, Abort(c) PROVE Recent'
  BY <1>9, ThrowRecent DEF Abort, Recent, EntriesAreRecent
<1>10. CASE Tick
  <2>1. EntriesAreRecent'
    <3> SUFFICES ASSUME NEW k \in Key, cache'[k] # NoData
                 PROVE  cache'[k].lag <= cache'[k].age + Timeout
      BY DEF EntriesAreRecent
    <3>1. cache'[k] = OlderEntry(cache[k])
      BY <1>10 DEF Tick
    <3>2. cache[k] \in Entry /\ cache[k] # NoData
      BY <3>1 DEF OlderEntry, TypeOK
    <3> QED
      BY <3>1, <3>2, AgeingKeepsLag DEF Recent, EntriesAreRecent
  <2>2. ASSUME NEW c \in Call, held'[c] # NoData
        PROVE  held'[c].lag <= held'[c].age + Timeout
    <3>1. held'[c] = OlderEntry(held[c])
      BY <1>10 DEF Tick
    <3>2. held[c] \in Entry /\ held[c] # NoData
      BY <2>2, <3>1 DEF OlderEntry, TypeOK
    <3> QED
      BY <3>1, <3>2, AgeingKeepsLag DEF Recent
  <2>3. ASSUME NEW c \in Call, sight'[c] # NoEntry PROVE sight'[c] <= elapsed'[c]
    <3>1. sight[c] # NoEntry /\ sight[c] \in Age /\ sight[c] <= elapsed[c] /\ pc[c] = "fetch"
      BY <1>10, <2>3 DEF Tick, Recent, Framed, TypeOK
    <3>2. sight'[c] = Older(sight[c]) /\ elapsed'[c] = elapsed[c] + 1
      BY <1>10, <3>1 DEF Tick
    <3> QED
      BY <3>1, <3>2, ClientAssumption DEF Older, Age, TypeOK
  <2> QED
    BY <2>1, <2>2, <2>3 DEF Recent
<1>11. CASE UNCHANGED vars
  BY <1>11 DEF vars, Recent, EntriesAreRecent
<1> QED
  BY <1>1, <1>2, <1>3, <1>4, <1>5, <1>6, <1>7, <1>8, <1>9, <1>10, <1>11
  DEF Next, Advance, AgencyAnswers

-----------------------------------------------------------------------------
(* Where a call can get to in one step.                                    *)

\* A step of one call leaves the others where they are.
LEMMA ThrowGoesTo ==
  ASSUME TypeOK, NEW c \in Call, NEW s, Throw(c, s), NEW d \in Call
  PROVE  pc'[d] = IF d = c THEN IF s THEN "stale" ELSE "failed" ELSE pc[d]
  BY DEF Throw, Settle, TypeOK

\* Only a fresh entry answers as fresh.
LEMMA FreshByDecide ==
  ASSUME TypeOK, Next, NEW d \in Call, pc[d] # "fresh", pc'[d] = "fresh"
  PROVE  IsFresh(held[d])
<1>1. ASSUME NEW c \in Call, NEW k \in Key, NEW already \in BOOLEAN, Begin(c, k, already)
      PROVE  FALSE
  BY <1>1 DEF Begin, TypeOK
<1>2. ASSUME NEW c \in Call, Decide(c) PROVE IsFresh(held[d])
  <2>1. CASE IsFresh(held[c]) /\ Settle(c, "fresh")
    BY <2>1 DEF Settle, TypeOK
  <2>2. CASE Throw(c, CanServe(held[c]))
    BY <2>2, ThrowGoesTo
  <2>3. CASE GoOn(c, "token")
    BY <2>3 DEF GoOn, TypeOK
  <2> QED
    BY <1>2, <2>1, <2>2, <2>3 DEF Decide
<1>3. ASSUME NEW c \in Call, TokenTaken(c) \/ Charged(c) PROVE FALSE
  BY <1>3 DEF TokenTaken, Charged, GoOn, TypeOK
<1>4. ASSUME NEW c \in Call, Refused(c) \/ TimesOut(c) PROVE FALSE
  BY <1>4, ThrowGoesTo DEF Refused, TimesOut
<1>5. ASSUME NEW c \in Call, Attempt(c) PROVE FALSE
  BY <1>5, ThrowGoesTo DEF Attempt, TypeOK
<1>6. ASSUME NEW c \in Call, AgencyLooks(c) PROVE FALSE
  BY <1>6 DEF AgencyLooks
<1>7. ASSUME NEW c \in Call, Fetched(c) PROVE FALSE
  BY <1>7 DEF Fetched, Settle, TypeOK
<1>8. ASSUME NEW c \in Call, NEW counted \in BOOLEAN, NEW retryable \in BOOLEAN,
             FailedAttempt(c, counted, retryable)
      PROVE  FALSE
  BY <1>8, ThrowGoesTo DEF FailedAttempt, Retry, TypeOK
<1>9. ASSUME NEW c \in Call, Abort(c) PROVE FALSE
  BY <1>9, ThrowGoesTo DEF Abort
<1>10. CASE Tick
  BY <1>10 DEF Tick
<1> QED
  BY <1>1, <1>2, <1>3, <1>4, <1>5, <1>6, <1>7, <1>8, <1>9, <1>10
  DEF Next, Advance, AgencyAnswers

\* A call whose caller gave up neither starts an attempt nor takes an answer.
LEMMA AbortedStaysOut ==
  ASSUME TypeOK, Framed, Next, NEW d \in Call, aborted[d], pc[d] \in Running
  PROVE  pc'[d] \notin {"fetch", "fetched"}
<1>0. pc[d] \in {"lookup", "token", "charge", "ready"}
  BY DEF Framed, Running
<1>1. ASSUME NEW c \in Call, NEW k \in Key, NEW already \in BOOLEAN, Begin(c, k, already)
      PROVE  pc'[d] \notin {"fetch", "fetched"}
  BY <1>0, <1>1 DEF Begin, TypeOK
<1>2. ASSUME NEW c \in Call, Decide(c) PROVE pc'[d] \notin {"fetch", "fetched"}
  BY <1>0, <1>2, ThrowGoesTo DEF Decide, Settle, GoOn, TypeOK
<1>3. ASSUME NEW c \in Call, TokenTaken(c) \/ Charged(c)
      PROVE  pc'[d] \notin {"fetch", "fetched"}
  BY <1>0, <1>3 DEF TokenTaken, Charged, GoOn, TypeOK
<1>4. ASSUME NEW c \in Call, Refused(c) \/ TimesOut(c)
      PROVE  pc'[d] \notin {"fetch", "fetched"}
  BY <1>0, <1>4, ThrowGoesTo DEF Refused, TimesOut
<1>5. ASSUME NEW c \in Call, Attempt(c) PROVE pc'[d] \notin {"fetch", "fetched"}
  <2>1. CASE Throw(c, servable[c])
    BY <1>0, <2>1, ThrowGoesTo
  <2>2. CASE ~ aborted[c] /\ pc' = [pc EXCEPT ![c] = "fetch"]
    BY <1>0, <2>2 DEF TypeOK
  <2> QED
    BY <1>5, <2>1, <2>2 DEF Attempt
<1>6. ASSUME NEW c \in Call, AgencyLooks(c) PROVE pc'[d] \notin {"fetch", "fetched"}
  BY <1>0, <1>6 DEF AgencyLooks
<1>7. ASSUME NEW c \in Call, Fetched(c) PROVE pc'[d] \notin {"fetch", "fetched"}
  BY <1>0, <1>7 DEF Fetched, Settle, TypeOK
<1>8. ASSUME NEW c \in Call, NEW counted \in BOOLEAN, NEW retryable \in BOOLEAN,
             FailedAttempt(c, counted, retryable)
      PROVE  pc'[d] \notin {"fetch", "fetched"}
  BY <1>0, <1>8, ThrowGoesTo DEF FailedAttempt, Retry, TypeOK
<1>9. ASSUME NEW c \in Call, Abort(c) PROVE pc'[d] \notin {"fetch", "fetched"}
  BY <1>0, <1>9, ThrowGoesTo DEF Abort
<1>10. CASE Tick
  BY <1>0, <1>10 DEF Tick
<1> QED
  BY <1>1, <1>2, <1>3, <1>4, <1>5, <1>6, <1>7, <1>8, <1>9, <1>10
  DEF Next, Advance, AgencyAnswers

-----------------------------------------------------------------------------
(* The theorems.                                                           *)

\* The inductive invariant holds in every reachable state.
THEOREM Invariance == Spec => []IInv
<1>1. Init => IInv
  BY TypeInit, OvershootInit, RecentInit DEF IInv
<1>2. IInv /\ [Next]_vars => IInv'
  BY TypeStep, OvershootStep, RecentStep DEF IInv
<1> QED
  BY <1>1, <1>2, PTL DEF Spec

\* However many calls are in flight, together they overshoot the agency's
\* error budget by at most one error per call but one.
THEOREM ErrorsAreBounded == Spec => []ErrorsBounded
<1>1. IInv => ErrorsBounded
  BY ClientAssumption, FlightSize DEF IInv, Overshoot, ErrorsBounded, TypeOK
<1> QED
  BY <1>1, Invariance, PTL

\* A fresh answer is at most the fresh time to live and one timeout behind
\* the agency, whatever was fetched, retried and overwritten meanwhile.
THEOREM FreshAnswersAreRecent == Spec => FreshIsRecent
<1> DEFINE FreshStep == \A c \in Call :
       pc[c] # "fresh" /\ pc'[c] = "fresh" => held[c].lag <= FreshTtl + Timeout
<1>1. IInv /\ [Next]_vars => [FreshStep]_vars
  <2> SUFFICES ASSUME IInv, Next, NEW c \in Call, pc[c] # "fresh", pc'[c] = "fresh"
               PROVE  held[c].lag <= FreshTtl + Timeout
    OBVIOUS
  <2>1. IsFresh(held[c])
    BY FreshByDecide DEF IInv
  <2>2. held[c] \in Entry /\ held[c].lag <= held[c].age + Timeout
    BY <2>1 DEF IsFresh, IInv, Recent, TypeOK
  <2> QED
    BY <2>1, <2>2, ClientAssumption DEF IsFresh, Entry, Age
<1> QED
  BY <1>1, Invariance, PTL DEF Spec, FreshIsRecent

\* After its caller gave up, no call starts an attempt or stores an answer.
THEOREM AbortsAreFinal == Spec => AbortIsFinal
<1> DEFINE FinalStep == \A c \in Call :
       aborted[c] /\ pc[c] \in Running => pc'[c] \notin {"fetch", "fetched"}
<1>1. IInv /\ [Next]_vars => [FinalStep]_vars
  BY AbortedStaysOut DEF IInv
<1> QED
  BY <1>1, Invariance, PTL DEF Spec, AbortIsFinal

=============================================================================
