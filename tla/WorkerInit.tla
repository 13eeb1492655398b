------------------------------ MODULE WorkerInit ------------------------------
(***************************************************************************)
(* A worker as administrators edit, probe and initialise it                *)
(* (internal/console/workers.go, internal/workers/workers.go and           *)
(* bootstrap_ansible.go).  A probe takes seconds and an initialisation     *)
(* minutes on the machine the row named when they began; each writes back  *)
(* the whole row it has read.  A job is named after the request that       *)
(* started it, a log line after what it reports.                           *)
(***************************************************************************)
EXTENDS Sequences, FiniteSets, Naturals, ConsoleBase

CONSTANTS
  Hosts      \* machines a worker may be on

VARIABLES
  row,       \* the worker's row
  disks,     \* the data disks stored for it, named after the host they were entered for
  jobs,      \* [Requests -> status of its initialisation job]
  logs,      \* [Requests -> lines of the job's log]
  machines,  \* [Hosts -> whether its bootstrap has been completed]
  reached,   \* hosts that a probe found as required, or whose bootstrap was verified (history)
  proc       \* [Requests -> request]

tables == <<row, disks, jobs, logs>>
wvars == <<tables, machines, reached, proc, spent>>

Idle == [pc |-> "idle", kind |-> "none", row |-> None, disks |-> None, ok |-> TRUE]

\* What an edit makes of a worker: everything that was found out about it is gone.
NormalizeWorkerServer(host) == [host |-> host, status |-> "pending", probe |-> "unknown", job |-> None]

WInit ==
  /\ \E h \in Hosts : row = NormalizeWorkerServer(h) /\ disks = h
  /\ jobs = [r \in Requests |-> "none"]
  /\ logs = [r \in Requests |-> <<>>]
  /\ machines = [h \in Hosts |-> FALSE]
  /\ reached = {}
  /\ proc = [r \in Requests |-> Idle]
  /\ spent = {}

\* Every writer stores a whole row.
PutWorker(worker) == row' = worker

PutJob(r, status) == jobs' = [jobs EXCEPT ![r] = status]

Goes(r, pc) == proc' = [proc EXCEPT ![r].pc = pc]

-----------------------------------------------------------------------------
\* Edits: the row and its disks are stored one after the other.

SaveWorker(r) ==
  /\ proc[r].pc = "idle"
  /\ \E h \in Hosts :
       /\ PutWorker(NormalizeWorkerServer(h))
       /\ proc' = [proc EXCEPT ![r] = [Idle EXCEPT !.pc = "savedisks", !.kind = "save", !.disks = h]]
  /\ UNCHANGED <<disks, jobs, logs, machines, reached, spent>>

ReplaceDisks(r) ==
  /\ proc[r].pc = "savedisks"
  /\ disks' = proc[r].disks
  /\ Goes(r, "end")
  /\ UNCHANGED <<row, jobs, logs, machines, reached, spent>>

\* workerExecutionInputs: the worker, its key and its proxy as they are now.
Come(r) ==
  /\ proc[r].pc = "idle"
  /\ \E kind \in {"probe", "init"} :
       proc' = [proc EXCEPT ![r] = [Idle EXCEPT !.kind = kind, !.row = row,
                                               !.pc = IF kind = "probe" THEN "probe"
                                                      ELSE IF row.probe = "ready" THEN "disks" ELSE "end"]]
  /\ UNCHANGED <<tables, machines, reached, spent>>

-----------------------------------------------------------------------------
\* A probe.

\* The machine cannot be reached, or it is not what the row expects (system, data root, proxy).
Probe(r) ==
  /\ proc[r].pc = "probe"
  /\ \E ok \in BOOLEAN :
       /\ proc' = [proc EXCEPT ![r] = [@ EXCEPT !.pc = "probed", !.ok = ok]]
       /\ reached' = IF ok THEN reached \cup {proc[r].row.host} ELSE reached
  /\ UNCHANGED <<tables, machines, spent>>

\* Mutant: only what the probe has found out is written.
ProbedColumns(r, status) == [row EXCEPT !.status = status, !.probe = status]

Probed(r, status) == [proc[r].row EXCEPT !.status = status, !.probe = status]

ProbePut(r) ==
  /\ proc[r].pc = "probed"
  /\ PutWorker(Probed(r, IF proc[r].ok THEN "ready" ELSE "failed"))
  /\ Goes(r, "end")
  /\ UNCHANGED <<disks, jobs, logs, machines, reached, spent>>

-----------------------------------------------------------------------------
\* An initialisation.

Log(r, lines) == logs' = [logs EXCEPT ![r] = @ \o lines]

ListDisks(r) ==
  /\ proc[r].pc = "disks"
  /\ proc' = [proc EXCEPT ![r] = [@ EXCEPT !.pc = "queue", !.disks = disks]]
  /\ UNCHANGED <<tables, machines, reached, spent>>

QueueJob(r) ==
  /\ proc[r].pc = "queue"
  /\ PutJob(r, "queued")
  /\ Goes(r, "plan")
  /\ UNCHANGED <<row, disks, logs, machines, reached, spent>>

LogPlan(r) ==
  /\ proc[r].pc = "plan"
  /\ Log(r, <<"plan">>)
  /\ Goes(r, "start")
  /\ UNCHANGED <<row, disks, jobs, machines, reached, spent>>

StartJob(r) ==
  /\ proc[r].pc = "start"
  /\ PutJob(r, "running")
  /\ Goes(r, "logstart")
  /\ UNCHANGED <<row, disks, logs, machines, reached, spent>>

LogStart(r) ==
  /\ proc[r].pc = "logstart"
  /\ Log(r, <<"start">>)
  /\ Goes(r, "mark")
  /\ UNCHANGED <<row, disks, jobs, machines, reached, spent>>

MarkInitializing(r) ==
  /\ proc[r].pc = "mark"
  /\ PutWorker([proc[r].row EXCEPT !.status = "initializing", !.job = r])
  /\ Goes(r, "execute")
  /\ UNCHANGED <<disks, jobs, logs, machines, reached, spent>>

\* The playbook is run on the machine: it may fail anywhere, which leaves what it found or all it wanted.
ExecuteBootstrap(r) ==
  /\ proc[r].pc = "execute"
  /\ \E ok, done \in BOOLEAN :
       /\ ok => done
       /\ machines' = [machines EXCEPT ![proc[r].row.host] = @ \/ done]
       /\ proc' = [proc EXCEPT ![r] = [@ EXCEPT !.pc = "output", !.ok = ok]]
  /\ UNCHANGED <<tables, reached, spent>>

\* Its output, if any, goes into the log line by line.
LogOutput(r) ==
  /\ proc[r].pc = "output"
  /\ \E output \in {<<>>, <<"output">>} : Log(r, IF proc[r].ok THEN output \o <<"verify">> ELSE output)
  /\ Goes(r, IF proc[r].ok THEN "verify" ELSE "logend")
  /\ UNCHANGED <<row, disks, jobs, machines, reached, spent>>

\* The worker's daemon is asked how it is.
VerifyBootstrap(r) ==
  /\ proc[r].pc = "verify"
  /\ \E ok \in {machines[proc[r].row.host], FALSE} :
       /\ proc' = [proc EXCEPT ![r] = [@ EXCEPT !.pc = IF ok THEN "loghealth" ELSE "logend", !.ok = ok]]
       /\ reached' = IF ok THEN reached \cup {proc[r].row.host} ELSE reached
  /\ UNCHANGED <<tables, machines, spent>>

LogHealth(r) ==
  /\ proc[r].pc = "loghealth"
  /\ Log(r, <<"health">>)
  /\ Goes(r, "logend")
  /\ UNCHANGED <<row, disks, jobs, machines, reached, spent>>

LogEnd(r) ==
  /\ proc[r].pc = "logend"
  /\ Log(r, IF proc[r].ok THEN <<"completed">> ELSE <<"error">>)
  /\ Goes(r, "endjob")
  /\ UNCHANGED <<row, disks, jobs, machines, reached, spent>>

EndJob(r) ==
  /\ proc[r].pc = "endjob"
  /\ PutJob(r, IF proc[r].ok THEN "succeeded" ELSE "failed")
  /\ Goes(r, "endworker")
  /\ UNCHANGED <<row, disks, logs, machines, reached, spent>>

EndWorker(r) ==
  /\ proc[r].pc = "endworker"
  /\ PutWorker([proc[r].row EXCEPT !.status = IF proc[r].ok THEN "ready" ELSE "failed", !.job = r])
  /\ Goes(r, "end")
  /\ UNCHANGED <<disks, jobs, logs, machines, reached, spent>>

-----------------------------------------------------------------------------
\* A store call that fails ends the request where it is.
StoreFails(r) ==
  /\ proc[r].pc \notin {"idle", "probe", "execute", "verify", "end"} /\ Fault("store")
  /\ Goes(r, "end")
  /\ UNCHANGED <<tables, machines, reached>>

Restart ==
  /\ Fault("restart")
  /\ proc' = [r \in Requests |-> [proc[r] EXCEPT !.pc = IF @ = "idle" THEN @ ELSE "end"]]
  /\ UNCHANGED <<tables, machines, reached>>

WNext ==
  \/ \E r \in Requests :
       \/ SaveWorker(r) \/ ReplaceDisks(r) \/ Come(r) \/ Probe(r) \/ ProbePut(r) \/ ListDisks(r) \/ QueueJob(r)
       \/ LogPlan(r) \/ StartJob(r) \/ LogStart(r) \/ MarkInitializing(r) \/ ExecuteBootstrap(r) \/ LogOutput(r)
       \/ VerifyBootstrap(r) \/ LogHealth(r) \/ LogEnd(r) \/ EndJob(r) \/ EndWorker(r) \/ StoreFails(r)
  \/ Restart

WSpec == WInit /\ [][WNext]_wvars

-----------------------------------------------------------------------------
\* However edits, probes and initialisations overlap, a row that says its worker is ready names a
\* host that was found so, and nothing is installed on a host that no probe has accepted.
ReadyIsEarned ==
  /\ row.status = "ready" => row.host \in reached
  /\ \A r \in Requests : proc[r].pc = "execute" => proc[r].row.host \in reached
===============================================================================
