------------------------------ MODULE Admission ------------------------------
(***************************************************************************)
(* What the quota tables promise the gateway, one indivisible step per     *)
(* store call: a request is admitted within the limits it was              *)
(* authenticated with or leaves no trace; an admitted request is settled   *)
(* at most once, and settling corrects the token count of the minute the   *)
(* request was admitted in.  Budgets are not part of the promise: the      *)
(* store's budget check is not atomic with the ledger (see QuotaStore).    *)
(***************************************************************************)
EXTENDS QuotaTables

avars == <<now, reservations, windows>>

Init == TablesInit

\* ReserveQuota that succeeds: every limit of policy p has room at time t.
Admit(i, k, t, p, tokens, cost) ==
  /\ t <= now
  /\ ~OverConcurrent(k, t, p)
  /\ ~OverWindow(k, t, p, tokens)
  /\ WriteAdmission(i, k, t, p, tokens, cost)
  /\ UNCHANGED now

\* SettleQuota on a reservation that is still open.
Settle(i, actual, failed) ==
  /\ WriteSettlement(i, actual, failed)
  /\ UNCHANGED now

Tick ==
  /\ now < MaxTime
  /\ now' = now + 1
  /\ UNCHANGED <<reservations, windows>>

Next ==
  \/ \E i \in IDs, k \in Keys, t \in Time, p \in Policies, tokens, cost \in Amounts :
       Admit(i, k, t, p, tokens, cost)
  \/ \E i \in IDs, actual \in Amounts, failed \in BOOLEAN : Settle(i, actual, failed)
  \/ Tick

Spec == Init /\ [][Next]_avars
=============================================================================
