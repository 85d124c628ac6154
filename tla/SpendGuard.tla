----------------------------- MODULE SpendGuard -----------------------------
(***************************************************************************)
(* The spend guard of core/ops.py: a budget for each merchant and a        *)
(* semaphore for all, in front of the model.  The budget is checked, with  *)
(* what the caller estimates, before the semaphore is waited for; what the *)
(* call did cost is recorded after it, and need not be what was estimated. *)
(***************************************************************************)
EXTENDS Integers, SequencesExt, FiniteSetsExt

CONSTANTS
  Spender,      \* the callers
  Payer,        \* Payer[c] is the merchant of caller c
  max_in_flight,
  Budget,       \* per_merchant_budget_micros
  Estimate,     \* what callers estimate; 0 if they do not
  MaxCost       \* the most a call costs

ASSUME SpendAssumption ==
  /\ IsFiniteSet(Spender)
  /\ max_in_flight \in Nat \ {0} /\ Budget \in Nat /\ MaxCost \in Nat
  /\ Estimate \subseteq Nat /\ Estimate # {}

VARIABLES
  permits,      \* _semaphore
  waiting,      \* who waits for it, in order
  calling,      \* who makes the call
  spent         \* _spent

spendVars == <<permits, waiting, calling, spent>>

SpendMerchant == {Payer[c] : c \in Spender}

SpendInit ==
  /\ permits = max_in_flight
  /\ waiting = <<>>
  /\ calling = {}
  /\ spent = [m \in SpendMerchant |-> 0]

\* An estimate of nothing is taken for none, and not compared.
SpendAcquire_WithoutZero(c, estimated_cost) ==
  /\ c \notin calling /\ c \notin ToSet(waiting)
  /\ estimated_cost # 0 => spent[Payer[c]] + estimated_cost <= Budget
  /\ waiting' = Append(waiting, c)
  /\ UNCHANGED <<permits, calling, spent>>

\* acquire, up to its await.  A caller over budget is refused, and changes
\* nothing.
SpendAcquire(c, estimated_cost) ==
  /\ c \notin calling /\ c \notin ToSet(waiting)
  /\ spent[Payer[c]] + estimated_cost <= Budget
  /\ waiting' = Append(waiting, c)
  /\ UNCHANGED <<permits, calling, spent>>

\* The first in line gets the semaphore.
SpendGranted ==
  /\ waiting # <<>> /\ permits > 0
  /\ permits' = permits - 1
  /\ calling' = calling \cup {Head(waiting)}
  /\ waiting' = Tail(waiting)
  /\ UNCHANGED spent

\* The semaphore is released by the call and once more when the cost is booked.
SpendDone_WithTwoReleases(c, cost) ==
  /\ c \in calling
  /\ spent' = [spent EXCEPT ![Payer[c]] = @ + cost]
  /\ calling' = calling \ {c}
  /\ permits' = permits + 2
  /\ UNCHANGED waiting

\* record_cost, if the call did cost something, and release.
SpendDone(c, cost) ==
  /\ c \in calling
  /\ spent' = [spent EXCEPT ![Payer[c]] = @ + cost]
  /\ calling' = calling \ {c}
  /\ permits' = permits + 1
  /\ UNCHANGED waiting

SpendNext ==
  \/ SpendGranted
  \/ \E c \in Spender, estimated_cost \in Estimate : SpendAcquire(c, estimated_cost)
  \/ \E c \in Spender, cost \in 0..MaxCost : SpendDone(c, cost)

SpendType ==
  /\ permits \in 0..max_in_flight
  /\ waiting \in Seq(Spender) /\ IsInjective(waiting) /\ calling \subseteq Spender
  /\ spent \in [SpendMerchant -> Nat]

\* The callers of a merchant.
PaidBy(m) == {c \in Spender : Payer[c] = m}

\* What a merchant can have spent if its callers estimate so much at least: all
\* of them may have passed the check on one balance.
Most(m, estimate) == Max({Budget - estimate + Cardinality(PaidBy(m)) * MaxCost, 0})

\* The budget of a merchant is overrun by no more than what its callers can cost
\* together, less what they estimate: what is spent and what the calls in flight
\* may add stay below that.  A caller who estimates what it pays overruns
\* nothing alone; one who estimates nothing overruns by a call.
OverrunBounded ==
  \A m \in SpendMerchant :
    LET coming == {c \in PaidBy(m) : c \in calling \/ c \in ToSet(waiting)} IN
    \E estimate \in Estimate : spent[m] + Cardinality(coming) * MaxCost <= Most(m, estimate)

=============================================================================
