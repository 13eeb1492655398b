------------------------------- MODULE Workspace -------------------------------
(***************************************************************************)
(* The console's workspace requests (console/chat_workspace.go) over the   *)
(* agent's file operations, by way of workers/cloud_agent_ass.go.  A        *)
(* request makes one call to the agent.  When the agent cannot be reached   *)
(* the console restores the environment and calls once more; any other      *)
(* failure is answered as it is, whatever the agent has done.              *)
(*                                                                         *)
(* The agent's requests are the calls: <<request, attempt>>.               *)
(***************************************************************************)
EXTENDS AssFiles

CONSTANTS
  Users,  \* requests to the console
  Paths,  \* the paths that they name: no name is that of a temporary file
  Local   \* the worker is the console's own machine

ASSUME WorkspaceAssumption ==
  /\ Requests = Users \X {1, 2}
  /\ Paths \subseteq Seq(STRING)
  /\ \A p \in Paths : Range(p) \cap Range(TempName) = {}

VARIABLES
  console, \* each request: [pc, attempt, op, code]
  current  \* the agent has the endpoint for directories

wvars == <<fvars, console, current>>

WInit ==
  /\ FInit
  /\ console = [u \in Users |-> [pc |-> "new", attempt |-> 1, op |-> [kind |-> "none"], code |-> "none"]]
  /\ current \in BOOLEAN

CallOf(u) == <<u, console[u].attempt>>

\* The target is resolved and the input checked: either may be refused.
Begin(u, o) ==
  /\ console[u].pc = "new"
  /\ \/ console' = [console EXCEPT ![u] = [pc |-> "call", attempt |-> 1, op |-> o, code |-> "none"]]
     \/ console' = [console EXCEPT ![u] = [@ EXCEPT !.pc = "done", !.code = "refused"]]
  /\ UNCHANGED <<fvars, current>>

-----------------------------------------------------------------------------
(* What the client asks of the agent *)

ListTree(p) == [kind |-> "tree", path |-> p]
ReadRequest(p) == [kind |-> "read", path |-> p]
WriteRequest(p, create, mkdirP) ==
  [kind |-> "write", path |-> p, rev |-> NoData, create |-> create, mkdirP |-> mkdirP]
UploadRequest(p, mkdirP, overwrite) ==
  [kind |-> "upload", path |-> p, mkdirP |-> mkdirP, overwrite |-> overwrite]
DirectoryRequest(p, mkdirP) == [kind |-> "mkdir", path |-> p, mkdirP |-> mkdirP]
CopyRequest(p, q) == [kind |-> "copy", path |-> p, to |-> q]
RenameRequest(p, q) == [kind |-> "rename", path |-> p, to |-> q]
DeleteRequest(p) == [kind |-> "delete", path |-> p]

\* Without the endpoint a script makes the directory.
ViaShell(o) == IF ~current /\ o.kind = "mkdir" THEN [o EXCEPT !.kind = "shellMkdir"] ELSE o

-----------------------------------------------------------------------------
(* The handlers, up to their call *)

ChatWorkspaceTree(u, p) == Begin(u, ListTree(p))
ChatWorkspaceFile(u, p) == Begin(u, ReadRequest(p))
DownloadChatWorkspaceFile(u, p) == Begin(u, ReadRequest(p))

\* What is saved names no revision; an empty parent is made only for a file
\* that is created.
SaveChatWorkspaceFile(u, p, create, mkdirP) == Begin(u, WriteRequest(p, create, create /\ mkdirP))

UploadChatWorkspaceFile(u, p, overwrite) == Begin(u, UploadRequest(p, TRUE, overwrite))
CreateChatWorkspaceDirectory(u, p, mkdirP) == Begin(u, DirectoryRequest(p, mkdirP))
CopyChatWorkspacePath(u, p, q) == Begin(u, CopyRequest(p, q))
RenameChatWorkspacePath(u, p, q) == Begin(u, RenameRequest(p, q))
DeleteChatWorkspacePath(u, p) == Begin(u, DeleteRequest(p))

\* Other clients of the agent name the revision that they have read.
WriteRevision(u, p) == Begin(u, [WriteRequest(p, FALSE, FALSE) EXCEPT !.rev = Old])

Arrive(u) ==
  \E p, q \in Paths, b, c \in BOOLEAN :
    \/ ChatWorkspaceTree(u, p) \/ ChatWorkspaceFile(u, p) \/ DownloadChatWorkspaceFile(u, p)
    \/ SaveChatWorkspaceFile(u, p, b, c) \/ WriteRevision(u, p) \/ UploadChatWorkspaceFile(u, p, b)
    \/ CreateChatWorkspaceDirectory(u, p, b) \/ DeleteChatWorkspacePath(u, p)
    \/ CopyChatWorkspacePath(u, p, q) \/ RenameChatWorkspacePath(u, p, q)

-----------------------------------------------------------------------------
(* The call *)

Finish(u, code) == console' = [console EXCEPT ![u] = [@ EXCEPT !.pc = "done", !.code = code]]

\* The environment is restored only after the first call.
Unavailable(u) ==
  IF console[u].attempt = 1
  THEN console' = [console EXCEPT ![u].pc = "restore"]
  ELSE Finish(u, "error")

\* runCloudAgentASSJSON: the call reaches the agent.
Call(u) ==
  /\ console[u].pc = "call"
  /\ console' = [console EXCEPT ![u].pc = "wait"]
  /\ Ask(CallOf(u), ViaShell(console[u].op))
  /\ UNCHANGED current

\* dialCloudAgentASS: there is no connection.  Only a connection that was tried
\* through SSH fails in the way that has the environment restored.
DialFails(u) ==
  /\ console[u].pc = "call"
  /\ IF Local THEN Finish(u, "error") ELSE Unavailable(u)
  /\ UNCHANGED <<fvars, current>>

\* Mutant: a call whose answer is lost is made again.
AnswerLostRetried(u) ==
  /\ console[u].pc = "wait" /\ pc[CallOf(u)] # "answered"
  /\ Unavailable(u)
  /\ UNCHANGED <<fvars, current>>

\* The connection breaks while the agent works, and the agent goes on.  What is
\* said of a call made by shell names the endpoint that is not there, so that
\* the environment is restored.
AnswerLost(u) ==
  /\ console[u].pc = "wait" /\ pc[CallOf(u)] # "answered"
  /\ IF op[CallOf(u)].kind = "shellMkdir" THEN Unavailable(u) ELSE Finish(u, "error")
  /\ UNCHANGED <<fvars, current>>

\* decodeCloudAgentASSResponse: the agent's answer is the request's.
Answered(u) ==
  /\ console[u].pc = "wait" /\ pc[CallOf(u)] = "answered"
  /\ IF op[CallOf(u)].kind = "shellMkdir" /\ ~Succeeded(CallOf(u))
     THEN Unavailable(u)
     ELSE Finish(u, answer[CallOf(u)].code)
  /\ UNCHANGED <<fvars, current>>

\* restoreConsoleChatWorkspaceRuntime: it may bring a current agent.
Restore(u) ==
  /\ console[u].pc = "restore"
  /\ \/ /\ console' = [console EXCEPT ![u] = [@ EXCEPT !.pc = "call", !.attempt = 2]]
        /\ current' \in {current, TRUE}
     \/ Finish(u, "error") /\ UNCHANGED current
  /\ UNCHANGED fvars

WorkspaceNext(u) == Call(u) \/ DialFails(u) \/ AnswerLost(u) \/ Answered(u) \/ Restore(u)

WNext ==
  \/ \E u \in Users : Arrive(u) \/ WorkspaceNext(u)
  \/ \E r \in Requests : Serve(r) /\ UNCHANGED <<console, current>>

WSpec == WInit /\ [][WNext]_wvars

-----------------------------------------------------------------------------
(* Properties *)

\* A request is sent a second time only when the first call never reached the
\* agent: nothing is written, copied, renamed or deleted twice, however answers
\* are lost.  A directory made by a script is the exception: what is said of it
\* when it fails reads as if the agent were not there.
CalledAtMostOnce ==
  \A u \in Users : pc[<<u, 2>>] # "none" =>
    pc[<<u, 1>>] = "none" \/ op[<<u, 1>>].kind = "shellMkdir"
=============================================================================
