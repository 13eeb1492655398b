------------------------------ MODULE Accounting ------------------------------
(***************************************************************************)
(* The books of the gateway: which requests hold quota and what the ledger *)
(* says they cost.  A request that was admitted gives its quota back       *)
(* before its usage is recorded, and is recorded once; one that was never  *)
(* admitted may only be recorded as free.                                  *)
(***************************************************************************)
EXTENDS Naturals

CONSTANT Requests

VARIABLES
  quota,    \* "none", "open" or "closed", per request
  bills     \* the costs recorded in the ledger, per request

Init ==
  /\ quota = [r \in Requests |-> "none"]
  /\ bills = [r \in Requests |-> {}]

Admit(r) ==
  /\ quota[r] = "none" /\ bills[r] = {}
  /\ quota' = [quota EXCEPT ![r] = "open"]
  /\ UNCHANGED bills

Close(r) ==
  /\ quota[r] = "open"
  /\ quota' = [quota EXCEPT ![r] = "closed"]
  /\ UNCHANGED bills

Record(r) ==
  /\ bills[r] = {}
  /\ \E cost \in bills'[r] :
       /\ quota[r] = "closed" \/ (quota[r] = "none" /\ cost = 0)
       /\ bills' = [bills EXCEPT ![r] = {cost}]
  /\ UNCHANGED quota

Next == \E r \in Requests : Admit(r) \/ Close(r) \/ Record(r)

Spec == Init /\ [][Next]_<<quota, bills>>
=============================================================================
