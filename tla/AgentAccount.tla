----------------------------- MODULE AgentAccount -----------------------------
(***************************************************************************)
(* A user's cloud agent on a worker, as the console prepares it for a chat *)
(* session (internal/console/chat_environment.go, chat_shell.go,           *)
(* chat_browser_mcp_*.go) and the worker's script makes it so              *)
(* (internal/workers/cloud_agent.go).  Every request reads the account and *)
(* the session's record, works for seconds or minutes, and writes them     *)
(* back whole; nothing but the script's file lock keeps two apart.         *)
(*                                                                         *)
(* A release of the agent's server is a number, its checksum; what a       *)
(* container is built from is the console's build files with a release.    *)
(* A secret is named after the request that made it.                       *)
(***************************************************************************)
EXTENDS ConsoleBase, Naturals, FiniteSets

CONSTANTS
  First,      \* the key, and its secret, of an account that is there from the start
  Wishes      \* what requests do: subset of {"ensure", "force", "shell", "local", "save", "on", "off"}

ASSUME AgentAccountAssumption == None \notin Requests /\ None \notin Nat \X Nat

VARIABLES
  account,    \* the stored account
  session,    \* the stored record of the chat session's environment
  apiKeys,    \* [key id -> its row]
  container,  \* what the user's container is built from, or None
  tools,      \* whether the agent is configured to use the browser
  build,      \* the console's build files
  release,    \* the release that is published
  work,       \* [Requests -> request]
  mixed       \* two preparations have overlapped

records == <<account, session, apiKeys>>
worker == <<container, tools>>
avars == <<records, worker, build, release, work, mixed, spent>>

Preparing == {"ensure", "force", "shell"}

Keys == Requests \cup {First}

NoAccount == [status |-> "none", cred |-> None, named |-> FALSE, sha |-> 0, built |-> None]
NoRecord == [status |-> "none", shell |-> "empty", browser |-> "default"]
NoKey == [secret |-> None, active |-> FALSE, models |-> "other"]

\* rev: the revision that is expected, then the one that is built; quiet: nothing else has
\* happened since the request came; pass: how often it has looked the account up.
NoWork == [pc |-> "idle", kind |-> None, acct |-> NoAccount, sess |-> NoRecord, key |-> None, row |-> NoKey,
         browser |-> FALSE, rev |-> None, quiet |-> TRUE, pass |-> 1]

\* Nothing is there, or an agent that an older console or release has built.
AInit ==
  /\ build = 1 /\ release = 1
  /\ \E there \in BOOLEAN, b \in {0, 1}, s \in {0, 1} :
       /\ account = IF there THEN [status |-> "running", cred |-> First, named |-> TRUE, sha |-> s, built |-> <<b, s>>] ELSE NoAccount
       /\ session = IF there THEN [NoRecord EXCEPT !.status = "active"] ELSE NoRecord
       /\ container = IF there THEN <<b, s>> ELSE None
       /\ apiKeys = [k \in Keys |-> IF there /\ k = First THEN [secret |-> First, active |-> TRUE, models |-> "unexpanded"] ELSE NoKey]
       /\ tools = there
  /\ work = [r \in Requests |-> NoWork]
  /\ mixed = FALSE
  /\ spent = {}

Active(r) == work[r].pc \notin {"idle", "ready", "local", "done", "error"}
Prepares(r) == Active(r) /\ work[r].kind \in Preparing

\* The request r gets to p; whatever a fault or another request does, nobody is alone.
Gets(r, p) == work' = [work EXCEPT ![r] = p]
Disturbed == work' = [r \in Requests |-> [work[r] EXCEPT !.quiet = FALSE]]

Ask(r) ==
  /\ work[r].pc = "idle"
  /\ \E kind \in Wishes :
       /\ work' = [q \in Requests |->
                     IF q # r THEN [work[q] EXCEPT !.quiet = FALSE]
                     ELSE [NoWork EXCEPT !.kind = kind, !.quiet = \A o \in Requests : ~Active(o),
                                       !.pc = CASE kind \in {"ensure", "force"} -> "account"
                                                [] kind \in {"shell", "save"} -> "resolve"
                                                [] OTHER -> "record"]]
       /\ mixed' = (mixed \/ (kind \in Preparing /\ \E o \in Requests : Prepares(o)))
  /\ UNCHANGED <<records, worker, build, release, spent>>

-----------------------------------------------------------------------------
\* The account and its API key.

GetAccount(r) ==
  /\ work[r].pc = "account"
  /\ Gets(r, [work[r] EXCEPT !.pc = "key", !.acct = account])
  /\ UNCHANGED <<records, worker, build, release, mixed, spent>>

\* The rows a credential is accepted by.
FindAPIKeyByHash(secret) == {k \in Keys : secret # None /\ apiKeys[k].secret = secret}

\* An active key for the same models is kept, its models completed; any other is renewed under its id.
FindKey(r) ==
  LET found == FindAPIKeyByHash(work[r].acct.cred)
      k == CHOOSE k \in found : TRUE
      next == IF work[r].kind = "shell" THEN "starting" ELSE "options"
  IN /\ work[r].pc = "key"
     /\ Gets(r, IF found = {} THEN [work[r] EXCEPT !.pc = "renew", !.key = r]
                ELSE [work[r] EXCEPT !.key = k, !.row = apiKeys[k],
                                     !.pc = IF ~apiKeys[k].active \/ apiKeys[k].models = "other" THEN "renew"
                                            ELSE IF apiKeys[k].models = "unexpanded" THEN "complete" ELSE next])
     /\ UNCHANGED <<records, worker, build, release, mixed, spent>>

\* The row goes back as it was read.
CompleteKey(r) ==
  /\ work[r].pc = "complete"
  /\ apiKeys' = [apiKeys EXCEPT ![work[r].key] = [work[r].row EXCEPT !.models = "wanted"]]
  /\ Gets(r, [work[r] EXCEPT !.pc = IF work[r].kind = "shell" THEN "starting" ELSE "options"])
  /\ UNCHANGED <<account, session, worker, build, release, mixed, spent>>

RenewKey(r) ==
  /\ work[r].pc = "renew"
  /\ apiKeys' = [apiKeys EXCEPT ![work[r].key] = [secret |-> r, active |-> TRUE, models |-> "unexpanded"]]
  /\ Gets(r, [work[r] EXCEPT !.pc = IF work[r].kind = "shell" THEN "starting" ELSE "options", !.acct.cred = r])
  /\ UNCHANGED <<account, session, worker, build, release, mixed, spent>>

\* The browser is the agent's to use unless the session's record says otherwise.
BrowserEnabled == session.browser # "off"

StartOptions(r) ==
  /\ work[r].pc = "options"
  /\ Gets(r, [work[r] EXCEPT !.pc = "expect", !.browser = BrowserEnabled])
  /\ UNCHANGED <<records, worker, build, release, mixed, spent>>

AfterExpect(r) == CASE work[r].kind = "ensure" -> "reuse" [] work[r].kind = "force" -> "starting" [] OTHER -> "checksum"

CloudAgentBuildRevision == <<build, release>>

\* A checksum that cannot be fetched leaves no expectation.
ExpectedBuildRevision(r) ==
  /\ work[r].pc = "expect"
  /\ \/ Gets(r, [work[r] EXCEPT !.pc = AfterExpect(r), !.rev = CloudAgentBuildRevision]) /\ UNCHANGED spent
     \/ Fault("fetch") /\ Gets(r, [work[r] EXCEPT !.pc = AfterExpect(r), !.rev = None, !.quiet = FALSE])
  /\ UNCHANGED <<records, worker, build, release, mixed>>

-----------------------------------------------------------------------------
\* A ready agent is used as it is.

\* Mutant: the revision does not matter.
ReusableAtAnyRevision(acct, expected) == acct.status = "running" /\ acct.named

Reusable(acct, expected) ==
  /\ acct.status = "running" /\ acct.named
  /\ IF expected # None THEN acct.built = expected ELSE acct.sha # 0 => acct.built # None

\* The release's checksum is fetched again; if it cannot be, the agent is upgraded.
CheckReuse(r) ==
  LET p == work[r] IN
  /\ p.pc = "reuse"
  /\ \/ Gets(r, [p EXCEPT !.pc = IF Reusable(p.acct, p.rev) /\ p.acct.sha = release THEN "session" ELSE "starting"]) /\ UNCHANGED spent
     \/ Fault("fetch") /\ Gets(r, [p EXCEPT !.pc = "starting", !.quiet = FALSE])
  /\ UNCHANGED <<records, worker, build, release, mixed>>

\* A session that is closed or whose start has failed is started again.
CheckSession(r) ==
  /\ work[r].pc = "session"
  /\ Gets(r, CASE session = NoRecord -> [work[r] EXCEPT !.pc = "touch", !.sess = [NoRecord EXCEPT !.status = "active"]]
               [] session.status = "active" -> [work[r] EXCEPT !.pc = "touch", !.sess = session]
               [] OTHER -> [work[r] EXCEPT !.pc = "starting"])
  /\ UNCHANGED <<records, worker, build, release, mixed, spent>>

TouchAccount(r) ==
  /\ work[r].pc = "touch"
  /\ account' = work[r].acct
  /\ Gets(r, [work[r] EXCEPT !.pc = "touchsession"])
  /\ UNCHANGED <<session, apiKeys, worker, build, release, mixed, spent>>

TouchSession(r) ==
  /\ work[r].pc = "touchsession"
  /\ session' = work[r].sess
  /\ Gets(r, [work[r] EXCEPT !.pc = "sync"])
  /\ UNCHANGED <<account, apiKeys, worker, build, release, mixed, spent>>

-----------------------------------------------------------------------------
\* An agent is started.

\* Mutant: the record of a running agent is left as it is while its container is replaced.
NoStartingRecord(acct) == account

StartingRecord(acct) == [acct EXCEPT !.status = "starting"]

Starting(r) ==
  /\ work[r].pc = "starting"
  /\ account' = StartingRecord(work[r].acct)
  /\ Gets(r, [work[r] EXCEPT !.pc = IF work[r].kind = "shell" THEN "options" ELSE "checksum"])
  /\ UNCHANGED <<session, apiKeys, worker, build, release, mixed, spent>>

\* EnsureCloudAgent: the checksum is fetched once more, and sent with the script.
ResolveChecksum(r) ==
  /\ work[r].pc = "checksum"
  /\ \/ Gets(r, [work[r] EXCEPT !.pc = "script", !.rev = CloudAgentBuildRevision]) /\ UNCHANGED spent
     \/ Fault("fetch") /\ Gets(r, [work[r] EXCEPT !.pc = "fail"])
  /\ UNCHANGED <<records, worker, build, release, mixed>>

\* The script keeps a container of the same revision.  One of another revision is removed; if
\* only the build files differ the script goes on to use what it has removed, and fails.
Fits(rev) == container = rev
Trips(rev) == container # None /\ container # rev /\ container[2] = rev[2]

ContainerKept(r) ==
  /\ work[r].pc = "script" /\ Fits(work[r].rev)
  /\ Gets(r, [work[r] EXCEPT !.pc = "apply"])
  /\ UNCHANGED <<records, worker, build, release, mixed, spent>>

\* A new container is configured to use the browser by what it is started with.
Created(r) ==
  /\ work[r].pc = "script" /\ ~Fits(work[r].rev) /\ ~Trips(work[r].rev)
  /\ container' = work[r].rev
  /\ tools' = (tools \/ work[r].browser)
  /\ Gets(r, [work[r] EXCEPT !.pc = "apply"])
  /\ UNCHANGED <<records, build, release, mixed, spent>>

Removed(r) ==
  /\ work[r].pc = "script" /\ ~Fits(work[r].rev)
  /\ IF Trips(work[r].rev) THEN UNCHANGED spent ELSE Fault("script")
  /\ container' = None
  /\ Gets(r, [work[r] EXCEPT !.pc = "fail"])
  /\ UNCHANGED <<records, tools, build, release, mixed>>

\* The worker cannot be reached, or the script fails before it has changed anything.
ScriptFails(r) ==
  /\ work[r].pc = "script" /\ Fault("script")
  /\ Gets(r, [work[r] EXCEPT !.pc = "fail"])
  /\ UNCHANGED <<records, worker, build, release, mixed>>

\* The release is looked up again: it may be a newer one than what was built.
ApplyRelease(r) ==
  LET ran == [work[r].acct EXCEPT !.status = "running", !.named = TRUE, !.built = work[r].rev] IN
  /\ work[r].pc = "apply"
  /\ \/ account' = [ran EXCEPT !.sha = release] /\ UNCHANGED spent
     \/ account' = ran /\ Fault("fetch")
  /\ Gets(r, [work[r] EXCEPT !.pc = "activate", !.acct = account'])
  /\ UNCHANGED <<session, apiKeys, worker, build, release, mixed>>

\* A shell keeps the record it has read; a preparation makes a new one.
Rewritten(r, status) == IF work[r].kind = "shell" THEN [work[r].sess EXCEPT !.status = status] ELSE [NoRecord EXCEPT !.status = status]

Activate(r) ==
  /\ work[r].pc = "activate"
  /\ session' = Rewritten(r, "active")
  /\ Gets(r, [work[r] EXCEPT !.pc = "sync"])
  /\ UNCHANGED <<account, apiKeys, worker, build, release, mixed, spent>>

FailAccount(r) ==
  /\ work[r].pc = "fail"
  /\ \/ account' = [work[r].acct EXCEPT !.status = "error"] /\ UNCHANGED spent
     \/ Fault("store") /\ UNCHANGED account
  /\ Gets(r, [work[r] EXCEPT !.pc = "failsession"])
  /\ UNCHANGED <<session, apiKeys, worker, build, release, mixed>>

FailSession(r) ==
  /\ work[r].pc = "failsession"
  /\ session' = Rewritten(r, "pending")
  /\ Gets(r, [work[r] EXCEPT !.pc = "error"])
  /\ UNCHANGED <<account, apiKeys, worker, build, release, mixed, spent>>

\* The browser's configuration is written if the choice that is stored now allows it.
Sync(r) ==
  /\ work[r].pc = "sync"
  /\ Gets(r, [work[r] EXCEPT !.pc = IF BrowserEnabled THEN "write" ELSE "ready"])
  /\ UNCHANGED <<records, worker, build, release, mixed, spent>>

WriteTools(r) ==
  /\ work[r].pc \in {"write", "clear"}
  /\ tools' = (work[r].pc = "write")
  /\ Gets(r, [work[r] EXCEPT !.pc = "ready"])
  /\ UNCHANGED <<records, container, build, release, mixed, spent>>

-----------------------------------------------------------------------------
\* Shells, their saved state, the browser's choice, and the way back to plain chat.

\* Only an active session leads to its account.
ResolveSession(r) ==
  /\ work[r].pc = "resolve"
  /\ Gets(r, IF session.status = "active" THEN [work[r] EXCEPT !.pc = "resolveaccount", !.sess = session]
             ELSE [work[r] EXCEPT !.pc = IF work[r].kind \in {"on", "off"} THEN "done" ELSE "error"])
  /\ UNCHANGED <<records, worker, build, release, mixed, spent>>

\* A shell needs no checksum to use an agent that seems ready; otherwise everything is read
\* again and the agent is started.
ResolveAccount(r) ==
  LET p == work[r] IN
  /\ p.pc = "resolveaccount"
  /\ Gets(r, [p EXCEPT !.acct = account, !.pass = 2,
                       !.pc = CASE ~account.named -> IF p.kind \in {"on", "off"} THEN "done" ELSE "error"
                                [] p.kind = "save" -> "save"
                                [] p.kind = "on" -> "sync"
                                [] p.kind = "off" -> "clear"
                                [] account.built # None /\ Reusable(account, None) /\ p.pass = 1 -> "ready"
                                [] OTHER -> IF p.pass = 1 THEN "resolve" ELSE "key"])
  /\ UNCHANGED <<records, worker, build, release, mixed, spent>>

\* The open terminals are stored with the choice that was read.
ShellState(record) == [record EXCEPT !.shell = "saved"]

SaveShellState(r) ==
  /\ work[r].pc = "save"
  /\ session' = ShellState(work[r].sess)
  /\ Gets(r, [work[r] EXCEPT !.pc = "done"])
  /\ UNCHANGED <<account, apiKeys, worker, build, release, mixed, spent>>

GetRecord(r) ==
  /\ work[r].pc = "record"
  /\ Gets(r, CASE session # NoRecord -> [work[r] EXCEPT !.pc = "put", !.sess = session]
               [] work[r].kind = "local" -> [work[r] EXCEPT !.pc = "local"]
               [] OTHER -> [work[r] EXCEPT !.pc = "error"])
  /\ UNCHANGED <<records, worker, build, release, mixed, spent>>

CloseSession(r) ==
  /\ work[r].pc = "put" /\ work[r].kind = "local"
  /\ session' = [work[r].sess EXCEPT !.status = "closed"]
  /\ Gets(r, [work[r] EXCEPT !.pc = "local"])
  /\ UNCHANGED <<account, apiKeys, worker, build, release, mixed, spent>>

SetBrowserEnabled(r) ==
  /\ work[r].pc = "put" /\ work[r].kind \in {"on", "off"}
  /\ session' = [work[r].sess EXCEPT !.browser = work[r].kind]
  /\ Gets(r, [work[r] EXCEPT !.pc = "resolve"])
  /\ UNCHANGED <<account, apiKeys, worker, build, release, mixed, spent>>

-----------------------------------------------------------------------------
\* The store, the administrator, releases and restarts.

StoreError(r) ==
  /\ work[r].pc \in {"account", "key", "complete", "renew", "session", "touch", "touchsession", "starting", "apply",
                     "activate", "resolve", "resolveaccount", "save", "record", "put"}
  /\ Fault("store")
  /\ Gets(r, [work[r] EXCEPT !.pc = "error"])
  /\ UNCHANGED <<records, worker, build, release, mixed>>

Administer ==
  /\ \/ Fault("disable") /\ \E k \in Keys : apiKeys[k] # NoKey /\ apiKeys' = [apiKeys EXCEPT ![k].active = FALSE]
     \/ Fault("allow") /\ apiKeys' = [k \in Keys |-> [apiKeys[k] EXCEPT !.models = "other"]]
  /\ Disturbed
  /\ UNCHANGED <<account, session, worker, build, release, mixed>>

Publish ==
  /\ Fault("publish") /\ release' = release + 1
  /\ Disturbed
  /\ UNCHANGED <<records, worker, build, mixed>>

\* The console is replaced by one with other build files; a script it has sent may go on.
Upgrade ==
  /\ Fault("upgrade") /\ build' = build + 1
  /\ work' = [r \in Requests |-> [work[r] EXCEPT !.quiet = FALSE,
                                                 !.pc = IF ~Active(r) THEN @ ELSE IF @ = "script" THEN "orphan" ELSE "error"]]
  /\ UNCHANGED <<records, worker, release, mixed>>

Orphan(r) ==
  /\ work[r].pc = "orphan"
  /\ \/ UNCHANGED container
     \/ container' = None /\ Trips(work[r].rev)
     \/ container' = work[r].rev /\ ~Trips(work[r].rev)
  /\ Gets(r, [work[r] EXCEPT !.pc = "error"])
  /\ UNCHANGED <<records, tools, build, release, mixed, spent>>

ANext ==
  \/ \E r \in Requests :
       \/ Ask(r) \/ GetAccount(r) \/ FindKey(r) \/ CompleteKey(r) \/ RenewKey(r) \/ StartOptions(r)
       \/ ExpectedBuildRevision(r) \/ CheckReuse(r) \/ CheckSession(r) \/ TouchAccount(r) \/ TouchSession(r)
       \/ Starting(r) \/ ResolveChecksum(r) \/ ContainerKept(r) \/ Created(r) \/ Removed(r) \/ ScriptFails(r)
       \/ ApplyRelease(r) \/ Activate(r) \/ FailAccount(r) \/ FailSession(r) \/ Sync(r) \/ WriteTools(r)
       \/ ResolveSession(r) \/ ResolveAccount(r) \/ SaveShellState(r) \/ GetRecord(r) \/ CloseSession(r)
       \/ SetBrowserEnabled(r) \/ StoreError(r) \/ Orphan(r)
  \/ Administer \/ Publish \/ Upgrade

ASpec == AInit /\ [][ANext]_avars

-----------------------------------------------------------------------------
\* What a page that comes back is offered (restoreConsoleChatEnvironment).
RestoreEnvironment(record, acct) ==
  CASE record.status = "closed" -> "local"
    [] record # NoRecord -> "agent"
    [] acct.status = "running" /\ acct.named -> "agent"
    [] OTHER -> "local"

\* As long as no two preparations have overlapped, an account that says it is running has a
\* container, of the revision the account names, whatever failed on the way.
RunningIsTrue == ~mixed /\ account.status = "running" => container # None /\ container = account.built

\* Nothing else having happened, a preparation that answers ready leaves an agent of the current
\* revision whose credential is accepted, and a page that comes back is offered it.
ReadyStep ==
  \A r \in Requests :
    LET p == work[r] IN
    work'[r].pc = "ready" /\ p.pc # "ready" /\ p.kind \in {"ensure", "force"} /\ p.quiet /\ ~mixed =>
      /\ container' = CloudAgentBuildRevision
      /\ account'.status = "running" /\ account'.built = container'
      /\ \E k \in FindAPIKeyByHash(account'.cred) : apiKeys[k].active /\ apiKeys[k].models # "other"
      /\ session'.status = "active" /\ RestoreEnvironment(session', account') = "agent"

ReadyIsCurrent == [][ReadyStep]_avars

\* What the user has chosen for the browser is changed by the user alone.
ChoiceIsKept ==
  [][session'.browser # session.browser =>
       \E r \in Requests : work[r].pc = "put" /\ work'[r].pc = "resolve" /\ work[r].kind = session'.browser]_avars
===============================================================================
