------------------------------ MODULE MCConsole ------------------------------
(***************************************************************************)
(* Instances of the console's modules for TLC, explored one at a time:     *)
(* they share no state but the faults that have occurred.  Of a part that  *)
(* is not explored the variables stay as they are at first.                *)
(***************************************************************************)
EXTENDS KeyAdmin, Catalogue, WorkerInit, ChatTurn, AgentAccount, CloudAgentRun

CONSTANTS c1, c2

VARIABLE part

\* The variables of the parts, but for the faults.
workerVars == <<tables, machines, reached, proc>>
accountVars == <<records, worker, build, release, work, mixed>>
runVars == <<record, registry, run, client, job>>
mcvars == <<part, kvars, cvars, workerVars, tvars, accountVars, runVars, spent>>

MCInit ==
  /\ part \in {"keys", "models", "worker", "turn", "account", "run"}
  /\ KInit /\ CInit /\ WInit /\ TInit /\ AInit /\ RInit
  /\ part # "worker" => disks = 1
  /\ part # "turn" => ~chat.stream /\ ~chat.image
  /\ part # "account" => container = None

MCNext ==
  \/ part = "keys" /\ KNext /\ UNCHANGED <<part, cvars, workerVars, tvars, accountVars, runVars, spent>>
  \/ part = "models" /\ CNext /\ UNCHANGED <<part, kvars, workerVars, tvars, accountVars, runVars, spent>>
  \/ part = "worker" /\ WNext /\ UNCHANGED <<part, kvars, cvars, tvars, accountVars, runVars>>
  \/ part = "turn" /\ TNext /\ UNCHANGED <<part, kvars, cvars, workerVars, accountVars, runVars, spent>>
  \/ part = "account" /\ ANext /\ UNCHANGED <<part, kvars, cvars, workerVars, tvars, runVars>>
  \/ part = "run" /\ RNext /\ UNCHANGED <<part, kvars, cvars, workerVars, tvars, accountVars>>

\* The fairness of the runs, where there are any.
MCFairness ==
  /\ WF_rvars(part = "run" /\ JobEnds)
  /\ \A c \in Clients : WF_rvars(part = "run" /\ RunNext(c)) /\ WF_rvars(part = "run" /\ WatchNext(c))

MCSpec == MCInit /\ [][MCNext]_mcvars /\ MCFairness
==============================================================================
