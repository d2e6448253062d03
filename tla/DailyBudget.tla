----------------------------- MODULE DailyBudget -----------------------------
(***************************************************************************)
(* What packages/core/src/limits promises its callers, without the table,  *)
(* the requests, the memory of spent keys or the crashes by which          *)
(* persistent-limiter.ts keeps the promise (Limiter shows that it does).   *)
(*                                                                         *)
(* Every key has a count all containers share, which never passes its      *)
(* ceiling.  A query is granted once its own share is paid, or waived, and *)
(* the service budget is paid, by the shared count or, failing that, out   *)
(* of an allowance of its container's own; the service budget is touched   *)
(* only past the share.  A query is refused only when one of its own keys  *)
(* is full, as its container sees it.  A verdict is final.                 *)
(***************************************************************************)
EXTENDS Integers

CONSTANTS
  Container,  \* the containers, each with an allowance it may forget
  Query,      \* the calls to be decided
  Job,        \* what a call may ask
  NoJob,      \* a call that has not asked yet
  Key,        \* the counters
  Allowed,    \* the daily limit of each counter
  Shares,     \* the counters of the caller's own share, per job
  Services,   \* the counters of the budget everyone shares, per job
  Home        \* the container a job runs in

VARIABLES
  spent,    \* units counted for everyone, per key
  own,      \* units each container let through by itself
  asked,    \* what each query asks
  paid,     \* the keys a query has a shared unit of
  waived,   \* queries whose share was not counted, and let through
  verdict

vars == <<spent, own, asked, paid, waived, verdict>>

Init ==
  /\ spent = [k \in Key |-> 0]
  /\ own = [c \in Container |-> [k \in Key |-> 0]]
  /\ asked = [q \in Query |-> NoJob]
  /\ paid = [q \in Query |-> {}]
  /\ waived = {}
  /\ verdict = [q \in Query |-> "open"]

\* A first unit passes even a limit of zero (the conditional write creates
\* a missing item without a comparison).
HasRoom(k) == spent[k] = 0 \/ spent[k] < Allowed[k]

Full(c, k) == spent[k] >= Allowed[k] \/ own[c][k] >= Allowed[k]

Ask(q) ==
  /\ asked[q] = NoJob
  /\ \E j \in Job : asked' = [asked EXCEPT ![q] = j]
  /\ UNCHANGED <<verdict, waived, paid, spent, own>>

\* The keys a query with job j may have a unit counted of: the service
\* budget's only past its share.
Due(q, j) ==
  Shares[j]
    \cup IF q \in waived \/ Shares[j] \subseteq paid[q] THEN Services[j] ELSE {}

\* A unit of a key is counted on behalf of q, which may never hear of it.
Count(q) ==
  /\ verdict[q] = "open" /\ asked[q] # NoJob
  /\ \E k \in Due(q, asked[q]) :
       /\ HasRoom(k)
       /\ spent' = [spent EXCEPT ![k] = @ + 1]
       /\ paid' \in {paid, [paid EXCEPT ![q] = @ \cup {k}]}
  /\ UNCHANGED <<verdict, waived, asked, own>>

Waive(q) ==
  /\ verdict[q] = "open" /\ asked[q] # NoJob
  /\ waived' = waived \cup {q}
  /\ UNCHANGED <<verdict, paid, spent, own, asked>>

\* Verdict v on job j, in the step that asks or later; the share may be
\* waived in that step.
Decide(q, v) ==
  /\ verdict[q] = "open"
  /\ verdict' = [verdict EXCEPT ![q] = v]
  /\ waived' \in {waived, waived \cup {q}}
  /\ UNCHANGED <<spent, paid>>

Asks(q, j) ==
  /\ asked[q] \in {NoJob, j}
  /\ asked' = [asked EXCEPT ![q] = j]

Grant(q) ==
  /\ Decide(q, "granted")
  /\ \E j \in Job :
       /\ Asks(q, j)
       /\ q \in waived' \/ Shares[j] \subseteq paid[q]
       /\ \/ Services[j] \subseteq paid[q] /\ UNCHANGED own
          \/ \E k \in Services[j] :
               /\ own[Home[j]][k] < Allowed[k]
               /\ own' = [own EXCEPT ![Home[j]][k] = @ + 1]

Refuse(q) ==
  /\ Decide(q, "refused")
  /\ \E j \in Job :
       /\ Asks(q, j)
       /\ \E k \in Shares[j] \cup Services[j] : Full(Home[j], k)
  /\ UNCHANGED own

Forget(c) ==
  /\ own' = [own EXCEPT ![c] = [k \in Key |-> 0]]
  /\ UNCHANGED <<verdict, waived, paid, spent, asked>>

Next ==
  \/ \E q \in Query : Ask(q) \/ Count(q) \/ Waive(q) \/ Grant(q) \/ Refuse(q)
  \/ \E c \in Container : Forget(c)

Spec == Init /\ [][Next]_vars

=============================================================================
