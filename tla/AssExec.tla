-------------------------------- MODULE AssExec --------------------------------
(***************************************************************************)
(* The agent's one-off commands (runShellExec in ass/server.go).  A command *)
(* runs in a process group of its own; when its time is over, or its client *)
(* has gone, the group is killed.  The answer comes when the command has    *)
(* been waited for, and that takes the end of its output: whoever holds the *)
(* pipe, a descendant that has left the group too, holds up the answer.     *)
(***************************************************************************)
EXTENDS Integers, FiniteSets

CONSTANTS
  Execs,       \* requests
  MaxPrints,   \* bound on what a command prints
  OutputLimit  \* how much of it is kept (max_output_bytes)

VARIABLES
  exec,  \* each request: [pc, ctx, timedOut, kept, truncated, said]
  procs, \* its processes: [main, child], each none, group, left or exited
  printed \* history: how much its processes have printed

evars == <<exec, procs, printed>>

ExecInit ==
  /\ exec = [x \in Execs |-> [pc |-> "new", ctx |-> "open", timedOut |-> FALSE, kept |-> 0, truncated |-> FALSE, said |-> <<>>]]
  /\ procs = [x \in Execs |-> [main |-> "none", child |-> "none"]]
  /\ printed = [x \in Execs |-> 0]

Alive(state) == state \in {"group", "left"}
HoldsPipe(x) == Alive(procs[x].main) \/ Alive(procs[x].child)

\* The request is refused, the command does not start, or it runs.
RunShellExec(x) ==
  /\ exec[x].pc = "new"
  /\ \/ exec' = [exec EXCEPT ![x].pc = "refused"] /\ UNCHANGED procs
     \/ /\ exec' = [exec EXCEPT ![x].pc = "running"]
        /\ procs' = [procs EXCEPT ![x].main = "group"]
  /\ UNCHANGED printed

\* The command starts another, which may leave its process group.
Fork(x, state) ==
  /\ procs[x].main = "group" /\ procs[x].child = "none"
  /\ procs' = [procs EXCEPT ![x].child = state]
  /\ UNCHANGED <<exec, printed>>

Exits(x, who) ==
  /\ Alive(procs[x][who])
  /\ procs' = [procs EXCEPT ![x][who] = "exited"]
  /\ UNCHANGED <<exec, printed>>

\* limitedStreamWriter.Write: what is beyond the limit is dropped and noted.
Write(x) ==
  /\ HoldsPipe(x) /\ printed[x] < MaxPrints
  /\ printed' = [printed EXCEPT ![x] = @ + 1]
  /\ exec' = [exec EXCEPT ![x] =
       IF @.kept < OutputLimit THEN [@ EXCEPT !.kept = exec[x].kept + 1] ELSE [@ EXCEPT !.truncated = TRUE]]
  /\ UNCHANGED procs

\* The deadline passes, or the client goes away.
ContextDone(x, why) ==
  /\ exec[x].pc = "running" /\ exec[x].ctx = "open"
  /\ exec' = [exec EXCEPT ![x].ctx = why]
  /\ UNCHANGED <<procs, printed>>

\* Mutant: only the command's own process is killed.
KillProcess(x) ==
  /\ exec[x].pc = "running" /\ exec[x].ctx # "open"
  /\ exec' = [exec EXCEPT ![x] = [@ EXCEPT !.pc = "killed", !.timedOut = exec[x].ctx = "deadline"]]
  /\ procs' = [procs EXCEPT ![x].main = "exited"]
  /\ UNCHANGED printed

\* killProcessGroup: all that is still in the group.
Kill(x) ==
  /\ exec[x].pc = "running" /\ exec[x].ctx # "open"
  /\ exec' = [exec EXCEPT ![x] = [@ EXCEPT !.pc = "killed", !.timedOut = exec[x].ctx = "deadline"]]
  /\ procs' = [procs EXCEPT ![x] = [p \in {"main", "child"} |-> IF @[p] = "group" THEN "exited" ELSE @[p]]]
  /\ UNCHANGED printed

\* limitedOutput.result.
Result(x) == [kept |-> exec[x].kept, truncated |-> exec[x].truncated]

\* cmd.Wait has returned, before or after the kill.
ExecAnswer(x) ==
  /\ exec[x].pc \in {"running", "killed"} /\ procs[x].main = "exited" /\ ~HoldsPipe(x)
  /\ exec' = [exec EXCEPT ![x] = [@ EXCEPT !.pc = "answered", !.said = Result(x)]]
  /\ UNCHANGED <<procs, printed>>

ExecNext(x) ==
  \/ RunShellExec(x) \/ Write(x) \/ Kill(x) \/ ExecAnswer(x)
  \/ \E s \in {"group", "left"} : Fork(x, s)
  \/ \E who \in {"main", "child"} : Exits(x, who)
  \/ \E why \in {"deadline", "canceled"} : ContextDone(x, why)

\* The handler runs on; when the processes exit is up to them.
ExecFairness(x) == WF_evars(Kill(x)) /\ WF_evars(ExecAnswer(x))

-----------------------------------------------------------------------------
(* Properties *)

\* A command whose time is over, or whose client has gone, is answered, unless
\* a descendant outside its process group keeps the output open.
ExecAnswered ==
  \A x \in Execs : exec[x].ctx # "open" ~> (exec[x].pc = "answered" \/ procs[x].child = "left")
=============================================================================
