---------------------------- MODULE MCQuotaStore ----------------------------
(* Instances of QuotaStore for TLC. *)
EXTENDS QuotaStore

CONSTANTS r1, r2, \* requests
          dup,    \* an x-request-id that clients may reuse
          k1      \* an API key

Policy(rpm, tpm, concurrent, daily, monthly) ==
  [rpm |-> rpm, tpm |-> tpm, concurrent |-> concurrent, daily |-> daily, monthly |-> monthly]

Ask(id, tokens, cost) == [key |-> k1, id |-> id, tokens |-> tokens, cost |-> cost]

Answer(tokens, cost, failed) == [tokens |-> tokens, cost |-> cost, failed |-> failed]

MCKeys == {k1}

\* Two requests, which may carry the same id, one of them in flight at a time.
TwoRequests == {r1, r2}
TwoIDs == TwoRequests \cup {dup}
RatePolicies == {Policy(2, 3, 1, 0, 0), Policy(1, 4, 2, 0, 0)}
RateCalls == {Ask(FreshId, 2, 1), Ask(dup, 1, 1)}

\* Budgets: two units a day, three a month.
BudgetPolicies == {Policy(0, 0, 0, 2, 3)}
BudgetCalls == {Ask(FreshId, 2, 1), Ask(FreshId, 2, 2)}

BothPolicies == RatePolicies \cup BudgetPolicies
BothCalls == RateCalls \cup BudgetCalls

\* An answer may use fewer tokens than estimated, or more; none costs more.
MCOutcomes == {Answer(0, 0, TRUE), Answer(3, 1, FALSE)}

VARIABLE gaveUp \* a handler has left a step out, or a statement of its own has failed

all == <<vars, gaveUp>>

MCInit == Init /\ gaveUp = FALSE

\* A key has rate limits, and then no settlement fails and no ledger entry is
\* lost, or it has budgets, and then no reservation is rolled back.  Each kind
\* has its own calls.
Rated ==
  /\ policy[k1] \in RatePolicies
  /\ \A r \in Requests :
       /\ call[r].cost <= 1
       /\ pc[r] = "insertUsage" => reservations[call[r].id].status # "reserved"
       /\ pc[r] = "lost" => ledger[call[r].id].key # Absent

Budgeted ==
  /\ policy[k1] \in BudgetPolicies
  /\ \A r \in Requests :
       /\ call[r].id # dup
       /\ pc[r] = "failed" => reservations[call[r].id].status # Absent

MCNext ==
  /\ Next
  /\ \/ Rated /\ Rated'
     \/ Budgeted /\ Budgeted'
  /\ gaveUp' = (gaveUp \/ \E r \in Requests : Abandon(r) \/ SettleError(r) \/ InsertError(r))

MCSpec == MCInit /\ [][MCNext]_all /\ Fairness

\* Every request that was admitted and served is settled and billed, if the
\* process does not end first and no handler gives up: an early return, or an
\* error of SettleQuota or InsertUsage, which is only logged.
BilledInTheEnd ==
  \A r \in Requests :
    pc[r] = "serving" ~> gaveUp \/ pc[r] = "dead" \/ IsBilled(r)
=============================================================================
