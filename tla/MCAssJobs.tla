------------------------------ MODULE MCAssJobs ------------------------------
(***************************************************************************)
(* Instances for TLC of AssJobs and of AgentStream over it, with one job    *)
(* id, and of AssExec, which shares nothing with them.                     *)
(***************************************************************************)
EXTENDS AgentStream

CONSTANTS s1, s2, \* starting requests, and jobs; s1 may be the console's
          Execs, MaxPrints, OutputLimit

VARIABLES part, exec, procs, printed

Command == INSTANCE AssExec

all == <<part, vars, cvars, exec, procs, printed>>

TwoStarters == {s1, s2}
ConsoleStreams == {s1} \X {1, 2}
OneJobId == [k \in Clients |-> "j1"]

MCInit ==
  /\ Command!ExecInit
  /\ Init /\ ClientInit
  /\ part \in {"jobs", "console", "exec"}
  /\ part # "console" => failing = {}

\* Two starting requests and two streams that come and go.
JobsNext == part = "jobs" /\ Next /\ UNCHANGED cvars

\* The console's prompt, and a job that may be there already.
ConsoleNext == part = "console" /\ PromptNext

MCNext ==
  /\ UNCHANGED part
  /\ \/ (JobsNext \/ ConsoleNext) /\ UNCHANGED <<exec, procs, printed>>
     \/ part = "exec" /\ (\E x \in Execs : Command!ExecNext(x)) /\ UNCHANGED <<vars, cvars>>

Elsewhere == UNCHANGED <<part, cvars, exec, procs, printed>>

\* The fairness of FairSpec and of ExecFairness, in the part that is explored.
MCSpec ==
  /\ MCInit /\ [][MCNext]_all
  /\ \A s \in Starters :
       /\ WF_all(CopyNext(s) /\ Elsewhere)
       /\ WF_all(WaitNext(s) /\ Elsewhere)
  /\ \A c \in Streams : WF_all(StreamNext(c) /\ Elsewhere)
  /\ \A x \in Execs :
       /\ WF_all(Command!Kill(x) /\ UNCHANGED <<part, vars, cvars>>)
       /\ WF_all(Command!ExecAnswer(x) /\ UNCHANGED <<part, vars, cvars>>)

ExecAnswered == Command!ExecAnswered

=============================================================================
