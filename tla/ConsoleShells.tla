----------------------------- MODULE ConsoleShells -----------------------------
(***************************************************************************)
(* The console's terminals (chat_shell.go, chat_shell_registry.go): a web  *)
(* socket joins the session of its key or opens a shell in the user's      *)
(* container over SSH (workers/cloud_agent_shell.go).  A session outlives  *)
(* its sockets.  It is closed by the goroutine that reads it, when the     *)
(* remote shell ends, or by a socket whose client asks for it; whoever is  *)
(* first does it and the others wait for it.                               *)
(*                                                                         *)
(* A session is named after the socket that opened it.  What is in its     *)
(* output, and the replay of it, are as in AssShells and left out here.    *)
(***************************************************************************)
EXTENDS Integers, Sequences, FiniteSets, SequencesExt, Fanout

CONSTANTS
  Keys,        \* user, chat session and terminal
  Sockets,     \* web sockets, and the sessions they open
  MaxOutput,   \* bound on what a shell prints
  ChanCap,     \* capacity of a subscriber's channel (128)
  None

ASSUME ConsoleShellsAssumption == None \notin Sockets \cup {"reader"}

VARIABLES
  sessions, \* the registry: the session of each key
  shell,    \* each opened shell: [open, remote, out]
  session,  \* each session: [done, size, subs]
  reader,   \* each session's read loop: [pc, to]
  closer,   \* whoever closes a session: [by, pc, to]
  socket,   \* each web socket: [pc, key, shell]
  chan,     \* each socket's channel
  panicked  \* the session whose reader sent to a closed channel

vars == <<sessions, shell, session, reader, closer, socket, chan, panicked>>

Gone == 0   \* the closed event
Failed == -1 \* the error event

Init ==
  /\ sessions = [k \in Keys |-> None]
  /\ shell = [s \in Sockets |-> [open |-> FALSE, remote |-> "none", out |-> 0]]
  /\ session = [s \in Sockets |-> [done |-> FALSE, size |-> 0, subs |-> {}]]
  /\ reader = [s \in Sockets |-> [pc |-> "none", to |-> {}, event |-> Gone]]
  /\ closer = [s \in Sockets |-> [by |-> None, pc |-> "none", to |-> {}]]
  /\ socket = [c \in Sockets |->
       [pc |-> "new", key |-> None, shell |-> None]]
  /\ chan = [c \in Sockets |-> NoEvents]
  /\ panicked = None

-----------------------------------------------------------------------------
(* getOrCreate *)

Live(k) == sessions[k] # None /\ ~session[sessions[k]].done

Look(c, k) ==
  /\ socket[c].pc = "new"
  /\ socket' = [socket EXCEPT ![c] =
       [@ EXCEPT !.pc = IF Live(k) THEN "attach" ELSE "open", !.key = k,
                 !.shell = IF Live(k) THEN sessions[k] ELSE None]]
  /\ UNCHANGED <<sessions, shell, session, reader, closer, chan, panicked>>

\* A shell is opened without the registry's lock.  When a step fails (dialling,
\* the terminal, its pipes, the command), what was open is closed again.
Open(c) ==
  /\ socket[c].pc = "open"
  /\ \/ /\ socket' = [socket EXCEPT ![c].pc = "register"]
        /\ shell' = [shell EXCEPT ![c] = [@ EXCEPT !.open = TRUE, !.remote = "running"]]
     \/ socket' = [socket EXCEPT ![c].pc = "failed"] /\ UNCHANGED shell
  /\ UNCHANGED <<sessions, session, reader, closer, chan, panicked>>

\* Mutant: there is no second look.
RegisterBlindly(c) ==
  /\ socket[c].pc = "register"
  /\ socket' = [socket EXCEPT ![c] = [@ EXCEPT !.pc = "attach", !.shell = c]]
  /\ sessions' = [sessions EXCEPT ![socket[c].key] = c]
  /\ reader' = [reader EXCEPT ![c].pc = "read"]
  /\ UNCHANGED <<shell, session, closer, chan, panicked>>

\* The second look: the loser closes its shell and joins the winner's session.
Register(c) ==
  LET k == socket[c].key
  IN  /\ socket[c].pc = "register"
      /\ IF Live(k)
         THEN /\ socket' = [socket EXCEPT ![c] = [@ EXCEPT !.pc = "attach", !.shell = sessions[k]]]
              /\ shell' = [shell EXCEPT ![c].open = FALSE]
              /\ UNCHANGED <<sessions, reader>>
         ELSE /\ socket' = [socket EXCEPT ![c] = [@ EXCEPT !.pc = "attach", !.shell = c]]
              /\ sessions' = [sessions EXCEPT ![k] = c]
              /\ reader' = [reader EXCEPT ![c].pc = "read"]
              /\ UNCHANGED shell
      /\ UNCHANGED <<session, closer, chan, panicked>>

-----------------------------------------------------------------------------
(* The remote shell, and the loop that reads it *)

Prints(s) ==
  /\ shell[s].remote = "running" /\ shell[s].open /\ shell[s].out < MaxOutput
  /\ shell' = [shell EXCEPT ![s].out = @ + 1]
  /\ UNCHANGED <<sessions, session, reader, closer, socket, chan, panicked>>

\* The remote shell ends, well or with an error, or its connection is lost.
RemoteEnds(s) ==
  /\ shell[s].remote = "running" /\ shell[s].open
  /\ \E how \in {"ended", "error"} : shell' = [shell EXCEPT ![s].remote = how]
  /\ UNCHANGED <<sessions, session, reader, closer, socket, chan, panicked>>

\* broadcast: the output's subscribers are fixed; a
\* session that is done is told nothing.
Broadcast(s) ==
  /\ reader[s].pc = "read" /\ session[s].size < shell[s].out /\ shell[s].open /\ ~session[s].done
  /\ session' = [session EXCEPT ![s].size = @ + 1]
  /\ reader' = [reader EXCEPT ![s] =
       [@ EXCEPT !.pc = IF session[s].subs = {} THEN "read" ELSE "send",
                 !.to = session[s].subs, !.event = session[s].size + 1]]
  /\ UNCHANGED <<sessions, shell, closer, socket, chan, panicked>>

\* An error that is not just the end is broadcast before the session is closed.
BroadcastError(s) ==
  /\ reader[s].pc = "read" /\ session[s].size = shell[s].out
  /\ shell[s].remote = "error"
  /\ reader' = [reader EXCEPT ![s] =
       [pc |-> IF session[s].subs = {} THEN "close" ELSE "sendError",
        to |-> session[s].subs, event |-> Failed]]
  /\ UNCHANGED <<sessions, shell, session, closer, socket, chan, panicked>>

\* The event is offered to each of them, without the lock.
Send(s, c) ==
  /\ c \in reader[s].to
  /\ IF chan[c].closed
     THEN panicked' = s /\ UNCHANGED chan
     ELSE chan' = [chan EXCEPT ![c] = Offered(@, reader[s].event, ChanCap)] /\ UNCHANGED panicked
  /\ reader' = [reader EXCEPT ![s] =
       [@ EXCEPT !.to = reader[s].to \ {c},
                 !.pc = IF reader[s].to # {c} THEN reader[s].pc
                        ELSE IF reader[s].event = Failed THEN "close" ELSE "read"]]
  /\ UNCHANGED <<sessions, shell, session, closer, socket>>

\* The shell is at its end, or has been closed here.
ReadEnds(s) ==
  /\ reader[s].pc = "read"
  /\ ~shell[s].open \/ (shell[s].remote = "ended" /\ session[s].size = shell[s].out)
  /\ reader' = [reader EXCEPT ![s].pc = "close"]
  /\ UNCHANGED <<sessions, shell, session, closer, socket, chan, panicked>>

-----------------------------------------------------------------------------
(* close *)

\* The shell's input, output, SSH session and connection are closed.
CloseShell(s) == shell' = [shell EXCEPT ![s].open = FALSE]

\* The first to close closes the shell; the others wait for it to be done.
Close(s, who) ==
  IF closer[s].by # None
  THEN UNCHANGED <<shell, closer>>
  ELSE /\ CloseShell(s)
       /\ closer' = [closer EXCEPT ![s] = [@ EXCEPT !.by = who, !.pc = "forget"]]

ReaderCloses(s) ==
  /\ reader[s].pc = "close"
  /\ reader' = [reader EXCEPT ![s].pc = "ended"]
  /\ Close(s, "reader")
  /\ UNCHANGED <<sessions, session, socket, chan, panicked>>

\* The key is removed if it still stands for this session.
Forget(s) ==
  /\ closer[s].pc = "forget"
  /\ sessions' = [k \in Keys |-> IF sessions[k] = s THEN None ELSE sessions[k]]
  /\ closer' = [closer EXCEPT ![s].pc = "mark"]
  /\ UNCHANGED <<shell, session, reader, socket, chan, panicked>>

\* Only then is the session done; its subscribers are taken.
Mark(s) ==
  /\ closer[s].pc = "mark"
  /\ session' = [session EXCEPT ![s] = [@ EXCEPT !.done = TRUE, !.subs = {}]]
  /\ closer' = [closer EXCEPT ![s] =
       [@ EXCEPT !.pc = IF session[s].subs = {} THEN "ended" ELSE "send", !.to = session[s].subs]]
  /\ UNCHANGED <<sessions, shell, reader, socket, chan, panicked>>

\* Mutant: the channels are left open.
SendClosedOnly(s, c) ==
  /\ c \in closer[s].to
  /\ chan' = [chan EXCEPT ![c] = Offered(@, Gone, ChanCap)]
  /\ closer' = [closer EXCEPT ![s] =
       [@ EXCEPT !.pc = IF closer[s].to = {c} THEN "ended" ELSE "send", !.to = closer[s].to \ {c}]]
  /\ UNCHANGED <<sessions, shell, session, reader, socket, panicked>>

SendClosed(s, c) ==
  /\ c \in closer[s].to
  /\ chan' = [chan EXCEPT ![c] = ClosedWith(@, Gone, ChanCap)]
  /\ closer' = [closer EXCEPT ![s] =
       [@ EXCEPT !.pc = IF closer[s].to = {c} THEN "ended" ELSE "send", !.to = closer[s].to \ {c}]]
  /\ UNCHANGED <<sessions, shell, session, reader, socket, panicked>>

-----------------------------------------------------------------------------
(* serveChatShellSocket *)

\* The place among the subscribers, under the lock; a session that is done is
\* only replayed.
Subscribe(c) ==
  LET s == socket[c].shell
  IN  /\ socket[c].pc = "attach"
      /\ socket' = [socket EXCEPT ![c].pc = IF session[s].done THEN "ended" ELSE "loop"]
      /\ session' = IF session[s].done THEN session ELSE [session EXCEPT ![s].subs = @ \cup {c}]
      /\ UNCHANGED <<sessions, shell, reader, closer, chan, panicked>>

\* The handler returns, whichever of its goroutines ended first.
Unsubscribe(c) == session' = [session EXCEPT ![socket[c].shell].subs = @ \ {c}]

\* The event goroutine writes an event to the client; the closed event is the
\* last, and ends the handler.
Forward(c) ==
  LET event == Head(chan[c].queue)
  IN  /\ socket[c].pc \in {"loop", "closing"} /\ chan[c].queue # <<>>
      /\ chan' = [chan EXCEPT ![c].queue = Tail(@)]
      /\ IF event = Gone
         THEN socket' = [socket EXCEPT ![c].pc = "ended"] /\ Unsubscribe(c)
         ELSE UNCHANGED <<socket, session>>
      /\ UNCHANGED <<sessions, shell, reader, closer, panicked>>

\* A closed channel that is empty ends the handler without a word.
EventsEnd(c) ==
  /\ socket[c].pc \in {"loop", "closing"} /\ chan[c].queue = <<>> /\ chan[c].closed
  /\ socket' = [socket EXCEPT ![c].pc = "ended"]
  /\ Unsubscribe(c)
  /\ UNCHANGED <<sessions, shell, reader, closer, chan, panicked>>

\* receiveConsoleChatShellInput: the client asks for the session to be closed.
ClientCloses(c) ==
  /\ socket[c].pc = "loop"
  /\ socket' = [socket EXCEPT ![c].pc = "closing"]
  /\ Close(socket[c].shell, c)
  /\ UNCHANGED <<sessions, session, reader, chan, panicked>>

\* The input ends: close has returned, the client has gone, or it typed into a
\* session that is done.
InputEnds(c) ==
  /\ \/ socket[c].pc = "loop"
     \/ socket[c].pc = "closing" /\ closer[socket[c].shell].pc = "ended"
  /\ socket' = [socket EXCEPT ![c].pc = "left"]
  /\ Unsubscribe(c)
  /\ UNCHANGED <<sessions, shell, reader, closer, chan, panicked>>

OpenNext(c) == Open(c) \/ Register(c)
ReadNext(s) ==
  \/ Broadcast(s) \/ BroadcastError(s) \/ ReadEnds(s) \/ ReaderCloses(s)
  \/ \E c \in Sockets : Send(s, c)
CloseNext(s) == Forget(s) \/ Mark(s) \/ \E c \in Sockets : SendClosed(s, c)
EventNext(c) == Subscribe(c) \/ Forward(c) \/ EventsEnd(c)

\* A send to a closed channel is the end of the process.
Alive == panicked = None

Next ==
  /\ Alive
  /\ \/ \E c \in Sockets :
          \/ \E k \in Keys : Look(c, k)
          \/ OpenNext(c) \/ EventNext(c) \/ ClientCloses(c) \/ InputEnds(c)
     \/ \E s \in Sockets : Prints(s) \/ RemoteEnds(s) \/ ReadNext(s) \/ CloseNext(s)

Spec == Init /\ [][Next]_vars

\* The goroutines of sessions and sockets run; shells and clients do as they like.
FairSpec ==
  /\ Spec
  /\ \A s \in Sockets : WF_vars(Alive /\ ReadNext(s)) /\ WF_vars(Alive /\ CloseNext(s))
  /\ \A c \in Sockets : WF_vars(Alive /\ EventNext(c))

-----------------------------------------------------------------------------
(* Properties *)

\* A shell that is open is about to be registered by the socket that opened it,
\* or is found under its key: no shell is left running that nobody can reach,
\* whatever opens and closes race.
OpenShellIsFound ==
  \A s \in Sockets : shell[s].open =>
    socket[s].pc = "register" \/ sessions[socket[s].key] = s

\* The sockets of a session that is being closed end, by themselves or with their
\* clients, also those whose channel had no room for the closed event, unless
\* the console is brought down by a send to a closed channel.
ShellSocketsEnd ==
  \A c \in Sockets, s \in Sockets :
    socket[c].pc \in {"loop", "closing"} /\ socket[c].shell = s /\ closer[s].by # None
      ~> socket[c].pc \in {"ended", "left"} \/ panicked # None
=============================================================================
