----------------------------- MODULE QuotaTables -----------------------------
(***************************************************************************)
(* The three quota tables of the gateway's PostgreSQL store and what its   *)
(* statements read from and write to them.  The transactions these         *)
(* statements are part of are in QuotaStore; Admission says what the       *)
(* transactions promise.                                                   *)
(***************************************************************************)
EXTENDS Integers, FiniteSets, FiniteSetsExt

CONSTANTS
  Keys,      \* API keys
  IDs,       \* request ids, the primary key of a reservation and of a ledger entry
  Policies,  \* limits of an API key: [rpm, tpm, concurrent, daily, monthly], 0 = none
  Amounts,   \* token counts and costs
  MaxTime,   \* bound on the clock
  MinuteLen, \* length of a rate limit window
  StaleAge,  \* age (6 hours) at which a reservation stops counting as in flight
  DayLen,    \* length of a day
  MonthLen   \* length of a month

ASSUME QuotaAssumption ==
  /\ IsFiniteSet(IDs)
  /\ Policies \subseteq [rpm : Nat, tpm : Nat, concurrent : Nat, daily : Nat, monthly : Nat]
  /\ Amounts \subseteq Nat /\ 0 \in Amounts
  /\ MaxTime \in Nat /\ StaleAge \in Nat
  /\ MinuteLen \in Nat \ {0} /\ DayLen \in Nat \ {0} /\ MonthLen \in Nat \ {0}

VARIABLES
  now,          \* the clock
  reservations, \* quota_reservations, by id
  windows,      \* rate_limit_windows, by key and first instant of the minute
  ledger        \* usage_ledger, by id

Time == 0 .. MaxTime

Absent == "none" \* the status or key of an id that has no row

Reservation ==
  [status : {Absent, "reserved", "settled", "failed"}, key : Keys \cup {Absent},
   at : Time, tokens : Amounts, cost : Amounts, actual : Amounts]

Window == [requests : Nat, tokens : Nat]

Entry == [key : Keys \cup {Absent}, at : Time, cost : Amounts]

NoReservation ==
  [status |-> Absent, key |-> Absent, at |-> 0, tokens |-> 0, cost |-> 0, actual |-> 0]

NoEntry == [key |-> Absent, at |-> 0, cost |-> 0]

TablesInit ==
  /\ now = 0
  /\ reservations = [i \in IDs |-> NoReservation]
  /\ windows = [k \in Keys |-> [t \in Time |-> [requests |-> 0, tokens |-> 0]]]
  /\ ledger = [i \in IDs |-> NoEntry]

TablesTypeOK ==
  /\ now \in Time
  /\ reservations \in [IDs -> Reservation]
  /\ windows \in [Keys -> [Time -> Window]]
  /\ ledger \in [IDs -> Entry]

-----------------------------------------------------------------------------
\* The instant t truncated to its window, its day, its month.
WindowStart(t)  == t - (t % MinuteLen)
StartOfDay(t)   == t - (t % DayLen)
StartOfMonth(t) == t - (t % MonthLen)

\* The reservations of key k that count as in flight at time t.
Active(k, t) ==
  {i \in IDs : /\ reservations[i].status = "reserved"
               /\ reservations[i].key = k
               /\ reservations[i].at >= t - StaleAge}

\* Mutant: the limit itself still admits one more.
OverConcurrentOffByOne(k, t, p) ==
  p.concurrent > 0 /\ Cardinality(Active(k, t)) > p.concurrent

OverConcurrent(k, t, p) ==
  p.concurrent > 0 /\ Cardinality(Active(k, t)) >= p.concurrent

\* Only keys with a request or a token limit are counted per minute.
Counted(p) == p.rpm > 0 \/ p.tpm > 0

OverWindow(k, t, p, tokens) ==
  LET w == windows[k][WindowStart(t)]
  IN  /\ Counted(p)
      /\ \/ p.rpm > 0 /\ w.requests + 1 > p.rpm
         \/ p.tpm > 0 /\ w.tokens + tokens > p.tpm

\* What key k has spent since an instant, as the budget query sees it: its
\* ledger entries and the estimates of its open reservations.
LedgerSince(k, since) ==
  SumFunctionOnSet([i \in IDs |-> ledger[i].cost],
                   {i \in IDs : ledger[i].key = k /\ ledger[i].at >= since})

ReservedSince(k, since) ==
  SumFunctionOnSet([i \in IDs |-> reservations[i].cost],
                   {i \in IDs : /\ reservations[i].status = "reserved"
                                /\ reservations[i].key = k
                                /\ reservations[i].at >= since})

\* Mutant: open reservations are left out of the budget query.
SpentInLedgerOnly(k, since) == LedgerSince(k, since)

SpentSince(k, since) == LedgerSince(k, since) + ReservedSince(k, since)

\* A budget is only looked at for a request that is expected to cost something.
OverBudget(k, since, budget, cost) ==
  cost > 0 /\ budget > 0 /\ SpentSince(k, since) + cost > budget

-----------------------------------------------------------------------------
\* Mutant: the row is upserted, as the in-memory store does.
UpsertAdmission(i, k, t, p, tokens, cost) ==
  /\ reservations' = [reservations EXCEPT ![i] =
       [status |-> "reserved", key |-> k, at |-> t,
        tokens |-> tokens, cost |-> cost, actual |-> 0]]
  /\ windows' = IF Counted(p)
                THEN [windows EXCEPT ![k][WindowStart(t)] =
                        [requests |-> @.requests + 1, tokens |-> @.tokens + tokens]]
                ELSE windows

\* The writes of an admission: one more request in the minute, and the row,
\* whose primary key must be free.
WriteAdmission(i, k, t, p, tokens, cost) ==
  /\ reservations[i].status = Absent
  /\ reservations' = [reservations EXCEPT ![i] =
       [status |-> "reserved", key |-> k, at |-> t,
        tokens |-> tokens, cost |-> cost, actual |-> 0]]
  /\ windows' = IF Counted(p)
                THEN [windows EXCEPT ![k][WindowStart(t)] =
                        [requests |-> @.requests + 1, tokens |-> @.tokens + tokens]]
                ELSE windows

\* Mutant: a failed request keeps its estimate in the minute's counter.
SettleKeepsFailed(i, actual, failed) ==
  LET row == reservations[i]
      t   == WindowStart(row.at)
  IN  /\ row.status = "reserved"
      /\ reservations' = [reservations EXCEPT ![i] =
            [@ EXCEPT !.status = IF failed THEN "failed" ELSE "settled",
                      !.actual = actual]]
      /\ windows' = IF failed THEN windows
                    ELSE [windows EXCEPT ![row.key][t].tokens = @ + (actual - row.tokens)]

\* The writes of a settlement: the minute's tokens are corrected, never below
\* zero (the UPDATE creates no window row), and the reservation is closed.
WriteSettlement(i, actual, failed) ==
  LET row == reservations[i]
      t   == WindowStart(row.at)
      n   == windows[row.key][t].tokens + (actual - row.tokens)
  IN  /\ row.status = "reserved"
      /\ reservations' = [reservations EXCEPT ![i] =
            [@ EXCEPT !.status = IF failed THEN "failed" ELSE "settled",
                      !.actual = actual]]
      /\ windows' = IF windows[row.key][t].requests = 0
                    THEN windows
                    ELSE [windows EXCEPT ![row.key][t].tokens = IF n < 0 THEN 0 ELSE n]
=============================================================================
