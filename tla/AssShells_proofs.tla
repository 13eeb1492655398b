---------------------------- MODULE AssShells_proofs ----------------------------
(***************************************************************************)
(* What a web socket gets of a shell's output, for every number of shells, *)
(* sockets and outputs: what was kept when it attached and all that        *)
(* follows, in order and once, but for what its channel had no room for;   *)
(* and the closed event last.                                              *)
(*                                                                         *)
(* The argument is the one of a job's streams, with a difference: whoever  *)
(* closes a session does not wait for its reader.  So the reader may send  *)
(* to a closed channel, which ends the agent, and until then an output is  *)
(* on its way, in a channel, written or lost (Flowing).  The closed event  *)
(* is last because a channel is closed in the step that offers it, once    *)
(* (Closing, Ending).                                                      *)
(***************************************************************************)
EXTENDS AssShells, Fanout_proofs

Outputs == Nat \ {0}

SessionRecord == [done : BOOLEAN, size : Nat, replay : Seq(Outputs), subs : SUBSET Sockets]
SocketRecord ==
  [pc : {"new", "notFound", "subscribe", "loop", "closing", "ended", "left"},
   shell : Shells \cup {None}, from : Outputs, got : Seq(Outputs), told : BOOLEAN]

SessionTypes == sessions \in [Ids -> Shells \cup {None}] /\ session \in [Shells -> SessionRecord]
ReaderTypes == reader \in [Shells -> [pc : {"none", "read", "send", "ended"}, to : SUBSET Sockets]]
CloserTypes ==
  closer \in [Shells -> [by : {"reader", "waiter", None} \cup Sockets,
                         pc : {"none", "send", "forget", "ended"}, to : SUBSET Sockets]]
CreateTypes ==
  create \in [Shells -> [pc : {"new", "existing", "start", "register", "failed", "created"},
                         id : Ids \cup {None}]]
SocketTypes == socket \in [Sockets -> SocketRecord]
ChanTypes ==
  /\ chan \in [Sockets -> [queue : Seq(Outputs \cup {Gone}), closed : BOOLEAN]]
  /\ lost \in [Sockets -> SUBSET Outputs]

TypeOK == CreateTypes /\ SessionTypes /\ ReaderTypes /\ CloserTypes /\ SocketTypes /\ ChanTypes

\* A session that is not created has no reader.  A reader has subscribers only while
\* it sends them an output, which is not output 0, and keeps the last outputs.
Reading ==
  \A s \in Shells :
    /\ create[s].pc # "created" => reader[s].pc = "none"
    /\ reader[s].pc # "send" => reader[s].to = {}
    /\ reader[s].pc = "send" => session[s].size # 0
    /\ Len(session[s].replay) <= session[s].size
    /\ \A n \in 1 .. Len(session[s].replay) :
         session[s].replay[n] = session[s].size - Len(session[s].replay) + n

\* Only sockets that are, or were, attached are known, and only to their session.
Owned ==
  \A s \in Shells, c \in Sockets :
    c \in session[s].subs \/ c \in reader[s].to \/ c \in closer[s].to
      => socket[c].shell = s /\ socket[c].pc \in {"loop", "closing", "left"}

\* A socket is a subscriber until its session is done; what is known of a session
\* that was done at first does not change.
Attached ==
  \A c \in Sockets :
    /\ socket[c].pc \notin {"new", "notFound"} => socket[c].shell \in Shells
    /\ socket[c].pc \in {"loop", "closing"} =>
         c \in session[socket[c].shell].subs \/ session[socket[c].shell].done
    /\ socket[c].pc = "ended" => session[socket[c].shell].done
    /\ socket[c].pc \in {"new", "notFound", "subscribe", "ended"} =>
         chan[c].queue = <<>> /\ ~chan[c].closed /\ lost[c] = {}

\* A session is closed once: its subscribers are offered the end, and their channels
\* closed, when it is done, and then they are not any more.
Closing ==
  /\ \A s \in Shells :
       /\ session[s].done => session[s].subs = {}
       /\ ~session[s].done => closer[s].to = {}
  /\ \A c \in Sockets : chan[c].closed =>
       /\ socket[c].shell \in Shells
       /\ session[socket[c].shell].done /\ c \notin closer[socket[c].shell].to

\* The closed event is in the queue of a closed channel, and last; who has been told
\* so gets no more.
Ending ==
  \A c \in Sockets :
    /\ HasEnd(chan[c].queue) => chan[c].closed
    /\ \A n \in 1 .. Len(chan[c].queue) : chan[c].queue[n] = EndMark => n = Len(chan[c].queue)
    /\ socket[c].told => chan[c].queue = <<>> /\ (chan[c].closed \/ socket[c].pc = "ended")

\* The last output that has left the reader for socket c, or that it will not get.
Top(c) ==
  LET s == socket[c].shell
  IN  IF c \in reader[s].to THEN session[s].size - 1 ELSE session[s].size

\* Every socket has its outputs.
Flowing ==
  panicked = None => \A c \in Sockets : socket[c].pc \in {"loop", "closing", "ended"} =>
    Complete(Outputs, socket[c].got, chan[c].queue, lost[c], socket[c].from, Top(c))

IInv == TypeOK /\ Reading /\ Owned /\ Attached /\ Closing /\ Ending /\ Flowing

-----------------------------------------------------------------------------
LEMMA OutputsAreNumbered == Outputs \in SUBSET (Nat \ {0}) /\ Gone = EndMark
BY DEF Outputs, Gone, EndMark

\* What the rows of sessions and sockets may be changed to.
LEMMA SessionRows ==
  ASSUME NEW row \in SessionRecord
  PROVE  /\ [row EXCEPT !.done = TRUE, !.subs = {}] \in SessionRecord
         /\ \A n \in Nat, kept \in Seq(Outputs) :
              [row EXCEPT !.size = n, !.replay = kept] \in SessionRecord
BY DEF SessionRecord

LEMMA SocketRows ==
  ASSUME NEW row \in SocketRecord
  PROVE  /\ \A pc \in {"notFound", "subscribe"}, sh \in Shells \cup {None} :
              [row EXCEPT !.pc = pc, !.shell = sh] \in SocketRecord
         /\ \A pc \in {"loop", "ended"}, from \in Outputs, got \in Seq(Outputs), told \in BOOLEAN :
              [row EXCEPT !.pc = pc, !.from = from, !.got = got, !.told = told] \in SocketRecord
         /\ [row EXCEPT !.told = TRUE] \in SocketRecord
         /\ \A got \in Seq(Outputs) : [row EXCEPT !.got = got] \in SocketRecord
<1>1. \A pc \in {"notFound", "subscribe"}, sh \in Shells \cup {None} :
        [row EXCEPT !.pc = pc, !.shell = sh] \in SocketRecord
  BY DEF SocketRecord
<1>2. \A pc \in {"loop", "ended"}, from \in Outputs, got \in Seq(Outputs), told \in BOOLEAN :
        [row EXCEPT !.pc = pc, !.from = from, !.got = got, !.told = told] \in SocketRecord
  BY DEF SocketRecord
<1>3. [row EXCEPT !.told = TRUE] \in SocketRecord
  BY DEF SocketRecord
<1>4. \A got \in Seq(Outputs) : [row EXCEPT !.got = got] \in SocketRecord
  BY DEF SocketRecord
<1>. QED BY <1>1, <1>2, <1>3, <1>4

\* A subscriber that is still to get an output has a session with one.
LEMMA TopIsNumber ==
  ASSUME SessionTypes, ReaderTypes, Reading, NEW c \in Sockets, socket[c].shell \in Shells
  PROVE  Top(c) \in Nat
<1>. PICK s \in Shells : s = socket[c].shell
  OBVIOUS
<1>1. session[s].size \in Nat
  BY DEF SessionTypes, SessionRecord
<1>2. c \in reader[s].to => session[s].size # 0
  BY DEF Reading
<1>. QED BY <1>1, <1>2 DEF Top

\* No shell, no socket and no output.
LEMMA InitIInv == Init => IInv
<1>. SUFFICES ASSUME Init PROVE IInv
  OBVIOUS
<1>1. <<>> \in Seq(Outputs) /\ <<>> \in Seq(Outputs \cup {Gone}) /\ Len(<<>>) = 0 /\ \A n \in 1 .. 0 : FALSE
  BY EmptySeq
<1>2. 1 \in Outputs
  BY DEF Outputs
<1>3. SessionTypes
  BY <1>1 DEF Init, SessionTypes, SessionRecord
<1>4. CreateTypes /\ ReaderTypes /\ CloserTypes
  BY DEF Init, CreateTypes, ReaderTypes, CloserTypes
<1>5. SocketTypes
  BY <1>1, <1>2 DEF Init, SocketTypes, SocketRecord
<1>6. ChanTypes
  BY <1>1 DEF Init, ChanTypes, NoEvents
<1>7. Reading
  BY <1>1 DEF Init, Reading
<1>8. Owned /\ Attached /\ Closing
  BY DEF Init, Owned, Attached, Closing, NoEvents
<1>9. Ending
  BY <1>1 DEF Init, Ending, NoEvents, HasEnd
<1>10. Flowing
  BY DEF Init, Flowing
<1>. QED BY <1>3, <1>4, <1>5, <1>6, <1>7, <1>8, <1>9, <1>10 DEF IInv, TypeOK

\* Creating a session, and what its process does, touches no socket.
LEMMA StepCreate ==
  ASSUME IInv, NEW s \in Shells,
         (\E i \in Ids : Look(s, i)) \/ CreateNext(s) \/ Prints(s) \/ Exit(s) \/ Forget(s)
  PROVE  IInv'
<1>. USE DEF IInv, TypeOK
<1>1. UNCHANGED <<session, socket, chan, lost, panicked>>
  BY DEF Look, CreateNext, StartCommand, Register, Prints, Exit, Forget
<1>2. SessionTypes'
  BY <1>1 DEF CreateTypes, SessionTypes, Look, CreateNext, StartCommand, Register, Prints, Exit, Forget
<1>3. ReaderTypes' /\ \A q \in Shells :
        /\ reader'[q].to = reader[q].to
        /\ \/ reader'[q].pc = reader[q].pc
           \/ create[q].pc = "register" /\ create'[q].pc = "created" /\ reader'[q].pc = "read"
  <2>1. CASE UNCHANGED reader
    BY <2>1 DEF ReaderTypes
  <2>2. CASE /\ create[s].pc = "register" /\ create' = [create EXCEPT ![s].pc = "created"]
             /\ reader' = [reader EXCEPT ![s].pc = "read"]
    BY <2>2 DEF CreateTypes, ReaderTypes
  <2>. QED BY <2>1, <2>2 DEF Look, CreateNext, StartCommand, Register, Prints, Exit, Forget
<1>4. CloserTypes' /\ \A q \in Shells : closer'[q].to = closer[q].to
  BY DEF CloserTypes, Look, CreateNext, StartCommand, Register, Prints, Exit, Forget
<1>5. CreateTypes' /\ \A q \in Shells : create[q].pc = "created" => create'[q].pc = "created"
  BY DEF CreateTypes, Look, CreateNext, StartCommand, Register, Prints, Exit, Forget
<1>6. Reading'
  BY <1>1, <1>3, <1>5 DEF Reading
<1>7. Owned' /\ Attached' /\ Closing' /\ Ending'
  BY <1>1, <1>3, <1>4 DEF Owned, Attached, Closing, Ending
<1>8. \A c \in Sockets : socket[c].pc \in {"loop", "closing", "ended"} => Top(c)' = Top(c)
  BY <1>1, <1>3 DEF Top, Attached
<1>9. Flowing'
  BY <1>1, <1>8 DEF Flowing
<1>. QED BY <1>1, <1>2, <1>3, <1>4, <1>5, <1>6, <1>7, <1>9 DEF SocketTypes, ChanTypes

\* An output is kept; a socket that is to have it has not got it yet.
LEMMA StepBroadcast ==
  ASSUME IInv, NEW s \in Shells, Broadcast(s)
  PROVE  IInv'
<1>. DEFINE size == session[s].size
            replay == session[s].replay
<1>. USE DEF IInv, TypeOK
<1>1. /\ UNCHANGED <<sessions, create, closer, socket, chan, lost, panicked>>
      /\ reader[s].pc = "read" /\ ~session[s].done
  BY DEF Broadcast
<1>2. size \in Nat /\ size + 1 \in Nat /\ size + 1 \in Outputs /\ size + 1 # 0 /\ replay \in Seq(Outputs)
  BY DEF SessionTypes, SessionRecord, Outputs
<1>3. PICK kept \in Seq(Outputs) :
        /\ kept = KeepLast(Append(replay, size + 1), ReplayLimit)
        /\ Len(kept) <= Len(replay) + 1 /\ Len(replay) <= size
        /\ \A n \in 1 .. Len(kept) : kept[n] = size + 1 - Len(kept) + n
  <2>1. Len(replay) <= size /\ \A n \in 1 .. Len(replay) : replay[n] = size - Len(replay) + n
    BY DEF Reading
  <2>2. ReplayLimit \in Nat \ {0}
    BY AssShellsAssumption
  <2>. HIDE DEF IInv, TypeOK, size, replay
  <2>. DEFINE kept == KeepLast(Append(replay, size + 1), ReplayLimit)
  <2>3. /\ kept \in Seq(Outputs) /\ Len(kept) <= Len(replay) + 1
        /\ \A n \in 1 .. Len(kept) : kept[n] = size + 1 - Len(kept) + n
    BY <1>2, <2>1, <2>2, OutputsAreNumbered, KeepsTail
  <2>. HIDE DEF kept
  <2>4. \E k \in Seq(Outputs) :
          /\ k = kept
          /\ Len(k) <= Len(replay) + 1 /\ Len(replay) <= size
          /\ \A n \in 1 .. Len(k) : k[n] = size + 1 - Len(k) + n
    BY <2>1, <2>3
  <2>. QED BY <2>4 DEF kept
<1>4. session' = [session EXCEPT ![s] = [@ EXCEPT !.size = size + 1, !.replay = kept]]
  BY <1>3 DEF Broadcast
<1>5. /\ session'[s].size = size + 1 /\ session'[s].replay = kept
      /\ session'[s].done = session[s].done /\ session'[s].subs = session[s].subs
      /\ \A q \in Shells \ {s} : session'[q] = session[q]
  BY <1>4 DEF SessionTypes, SessionRecord
<1>6. SessionTypes'
  <2>1. SessionTypes /\ UNCHANGED sessions
    BY <1>1
  <2>. HIDE DEF IInv, TypeOK, size, replay
  <2>2. session[s] \in SessionRecord
    BY <2>1 DEF SessionTypes
  <2>3. PICK row \in SessionRecord : row = [session[s] EXCEPT !.size = size + 1, !.replay = kept]
    BY <1>2, <2>2, SessionRows
  <2>4. session' = [session EXCEPT ![s] = row]
    BY <1>4, <2>3
  <2>. QED BY <2>1, <2>4 DEF SessionTypes
<1>7. /\ reader'[s].to = session[s].subs
      /\ reader'[s].pc = IF session[s].subs = {} THEN "read" ELSE "send"
      /\ \A q \in Shells \ {s} : reader'[q] = reader[q]
  BY DEF Broadcast, ReaderTypes
<1>8. ReaderTypes'
  BY DEF Broadcast, ReaderTypes, SessionTypes, SessionRecord
<1>9. Len(kept) <= size + 1
  <2>1. Len(kept) \in Nat /\ Len(replay) \in Nat
    BY <1>2, <1>3, LenProperties
  <2>. QED BY <1>2, <1>3, <2>1
<1>10. Reading'
  <2>1. /\ Len(session'[s].replay) <= session'[s].size
        /\ \A n \in 1 .. Len(session'[s].replay) :
             session'[s].replay[n] = session'[s].size - Len(session'[s].replay) + n
    <3>1. session'[s].size = size + 1 /\ session'[s].replay = kept
      BY <1>5
    <3>2. Len(kept) <= size + 1 /\ \A n \in 1 .. Len(kept) : kept[n] = size + 1 - Len(kept) + n
      BY <1>3, <1>9
    <3>3. Len(kept) \in Nat
      BY LenProperties
    <3>4. ASSUME NEW n \in 1 .. Len(kept)
          PROVE  kept[n] = session'[s].size - Len(kept) + n
      <4>1. kept[n] = size + 1 - Len(kept) + n /\ n \in Int
        BY <3>2, <3>3
      <4>. HIDE DEF IInv, TypeOK, size, replay
      <4>. QED BY <1>2, <3>1, <3>3, <4>1
    <3>5. Len(kept) <= session'[s].size
      BY <3>1, <3>2
    <3>. HIDE DEF IInv, TypeOK, size, replay
    <3>. QED BY <3>1, <3>4, <3>5
  <2>2. /\ create[s].pc = "created"
        /\ reader'[s].pc # "send" => reader'[s].to = {}
        /\ reader'[s].pc = "send" => session'[s].size # 0
    BY <1>1, <1>2, <1>5, <1>7 DEF Reading
  <2>. HIDE DEF size, replay
  <2>. QED BY <1>1, <1>5, <1>7, <2>1, <2>2 DEF Reading
<1>11. Owned' /\ Attached' /\ Closing' /\ Ending'
  BY <1>1, <1>5, <1>7 DEF Owned, Attached, Closing, Ending
<1>12. \A c \in Sockets : socket[c].pc \in {"loop", "closing", "ended"} => Top(c)' = Top(c)
  <2>1. ASSUME NEW c \in Sockets, socket[c].pc \in {"loop", "closing", "ended"}
        PROVE  Top(c)' = Top(c)
    <3>1. CASE socket[c].shell = s
      <4>1. c \in session[s].subs /\ c \notin reader[s].to
        BY <1>1, <2>1, <3>1 DEF Attached, Reading
      <4>2. Top(c) = size
        BY <3>1, <4>1 DEF Top
      <4>3. Top(c)' = session'[s].size - 1
        BY <1>1, <1>7, <3>1, <4>1 DEF Top
      <4>. HIDE DEF IInv, TypeOK, size
      <4>. QED BY <1>2, <1>5, <4>2, <4>3
    <3>2. CASE socket[c].shell # s
      BY <2>1, <3>2, <1>1, <1>5, <1>7 DEF Top, Attached
    <3>. QED BY <3>1, <3>2
  <2>. QED BY <2>1
<1>13. Flowing'
  BY <1>1, <1>12 DEF Flowing
<1>. QED BY <1>1, <1>6, <1>8, <1>10, <1>11, <1>13 DEF CreateTypes, CloserTypes, SocketTypes, ChanTypes

\* An event is appended to a channel's queue, or there is no room for it.
LEMMA OfferedEvent ==
  ASSUME NEW ch \in [queue : Seq(Outputs \cup {Gone}), closed : BOOLEAN], NEW event \in Outputs \cup {Gone}
  PROVE  LET offered == Offered(ch, event, ChanCap)
             closing == ClosedWith(ch, event, ChanCap)
         IN  /\ offered \in [queue : Seq(Outputs \cup {Gone}), closed : BOOLEAN]
             /\ offered.closed = ch.closed
             /\ offered.queue = IF Room(ch, ChanCap) THEN Append(ch.queue, event) ELSE ch.queue
             /\ closing \in [queue : Seq(Outputs \cup {Gone}), closed : BOOLEAN]
             /\ closing.closed = TRUE
             /\ closing.queue = offered.queue
<1>1. Append(ch.queue, event) \in Seq(Outputs \cup {Gone})
  BY AppendProperties
<1>. QED BY <1>1 DEF Offered, ClosedWith

\* The reader's output is in the socket's channel, or there was no room, or the channel
\* was closed and the agent is down.
LEMMA StepSend ==
  ASSUME IInv, NEW s \in Shells, NEW c \in Sockets, Send(s, c)
  PROVE  IInv'
<1>. DEFINE size == session[s].size
<1>. USE DEF IInv, TypeOK
<1>1. UNCHANGED <<sessions, create, session, closer, socket>>
  BY DEF Send
<1>2. /\ c \in reader[s].to /\ reader[s].pc = "send" /\ size \in Outputs /\ size - 1 \in Nat
      /\ socket[c].shell = s /\ socket[c].pc \in {"loop", "closing", "left"}
  BY DEF Send, Reading, Owned, SessionTypes, SessionRecord, Outputs
<1>3. /\ reader'[s].to = reader[s].to \ {c}
      /\ reader'[s].pc \in {"read", "send"}
      /\ reader'[s].pc = "read" => reader'[s].to = {}
      /\ \A q \in Shells \ {s} : reader'[q] = reader[q]
      /\ ReaderTypes'
  BY DEF Send, ReaderTypes
<1>4. Reading' /\ Owned' /\ Attached'
  <2>1. Reading' /\ Owned'
    BY <1>1, <1>2, <1>3 DEF Reading, Owned
  <2>2. \A d \in Sockets : socket[d].pc \in {"new", "notFound", "subscribe", "ended"} =>
          chan'[d] = chan[d] /\ lost'[d] = lost[d]
    BY <1>2 DEF Send, ChanTypes
  <2>. QED BY <1>1, <2>1, <2>2 DEF Attached
<1>5. CASE chan[c].closed
  <2>1. UNCHANGED <<chan, lost>> /\ panicked' = s /\ s # None
    BY <1>5, AssShellsAssumption DEF Send
  <2>2. Closing' /\ Ending' /\ Flowing'
    BY <1>1, <2>1 DEF Closing, Ending, Flowing
  <2>. QED BY <1>1, <1>3, <1>4, <2>1, <2>2 DEF CreateTypes, SessionTypes, CloserTypes, SocketTypes, ChanTypes
<1>6. CASE ~chan[c].closed
  <2>1. /\ chan' = [chan EXCEPT ![c] = Offered(chan[c], size, ChanCap)]
        /\ lost' = IF Room(chan[c], ChanCap) THEN lost ELSE [lost EXCEPT ![c] = @ \cup {size}]
        /\ panicked' = panicked
    BY <1>6 DEF Send
  <2>2. chan[c] \in [queue : Seq(Outputs \cup {Gone}), closed : BOOLEAN]
    BY DEF ChanTypes
  <2>3. /\ chan'[c] \in [queue : Seq(Outputs \cup {Gone}), closed : BOOLEAN]
        /\ ~chan'[c].closed
        /\ chan'[c].queue = IF Room(chan[c], ChanCap) THEN Append(chan[c].queue, size) ELSE chan[c].queue
    <3>1. chan'[c] = Offered(chan[c], size, ChanCap)
      BY <2>1 DEF ChanTypes
    <3>. HIDE DEF IInv, TypeOK, size
    <3>2. size \in Outputs \cup {Gone}
      BY <1>2
    <3>. DEFINE offered == Offered(chan[c], size, ChanCap)
    <3>3. /\ offered \in [queue : Seq(Outputs \cup {Gone}), closed : BOOLEAN]
          /\ offered.closed = chan[c].closed
          /\ offered.queue = IF Room(chan[c], ChanCap) THEN Append(chan[c].queue, size) ELSE chan[c].queue
      BY <2>2, <3>2, OfferedEvent
    <3>. HIDE DEF offered
    <3>4. chan'[c] = offered
      BY <3>1 DEF offered
    <3>. QED BY <1>6, <3>3, <3>4
  <2>4. /\ \/ chan'[c].queue = Append(chan[c].queue, size) /\ lost'[c] = lost[c]
           \/ chan'[c].queue = chan[c].queue /\ lost'[c] = lost[c] \cup {size}
        /\ \A d \in Sockets \ {c} : chan'[d] = chan[d] /\ lost'[d] = lost[d]
    BY <2>1, <2>3 DEF ChanTypes
  <2>5. ChanTypes'
    BY <1>2, <2>1, <2>3 DEF ChanTypes
  <2>6. Closing'
    BY <1>1, <1>6, <2>3, <2>4 DEF Closing
  <2>7. ~HasEnd(chan'[c].queue)
    <3>1. ~HasEnd(chan[c].queue) /\ size # Gone
      BY <1>2, <1>6 DEF Ending, Outputs, Gone
    <3>. HIDE DEF IInv, TypeOK, size
    <3>2. chan[c].queue \in Seq(Outputs \cup {Gone})
      BY <2>2
    <3>. QED BY <1>2, <2>4, <3>1, <3>2, OutputsAreNumbered, EndAppended
  <2>8. Ending'
    <3>1. ~socket[c].told /\ \A n \in 1 .. Len(chan'[c].queue) : chan'[c].queue[n] # EndMark
      BY <1>2, <1>6, <2>7 DEF Ending, HasEnd
    <3>. QED BY <1>1, <2>4, <2>7, <3>1 DEF Ending
  <2>9. \A d \in Sockets \ {c} : socket[d].pc \in {"loop", "closing", "ended"} => Top(d)' = Top(d)
    BY <1>1, <1>3 DEF Top, Attached
  <2>10. panicked = None /\ socket[c].pc \in {"loop", "closing"} =>
           Complete(Outputs, socket[c].got, chan'[c].queue, lost'[c], socket[c].from, Top(c)')
    <3>1. SUFFICES ASSUME panicked = None, socket[c].pc \in {"loop", "closing"}
                   PROVE  Complete(Outputs, socket[c].got, chan'[c].queue, lost'[c], socket[c].from, Top(c)')
      OBVIOUS
    <3>2. Top(c)' = size /\ Top(c) = size - 1
      BY <1>1, <1>2, <1>3 DEF Top
    <3>3. Complete(Outputs, socket[c].got, chan[c].queue, lost[c], socket[c].from, size - 1)
      BY <3>1, <3>2 DEF Flowing
    <3>4. /\ socket[c].got \in Seq(Outputs) /\ chan[c].queue \in Seq(Outputs \cup {EndMark})
          /\ socket[c].from \in Int
      BY <2>2, OutputsAreNumbered DEF SocketTypes, SocketRecord, Outputs
    <3>5. size - 1 + 1 = size
      BY <1>2 DEF Outputs
    <3>. DEFINE top == size - 1
    <3>. HIDE DEF IInv, TypeOK
    <3>6. top \in Nat /\ Complete(Outputs, socket[c].got, chan[c].queue, lost[c], socket[c].from, top)
      BY <1>2, <3>3
    <3>. HIDE DEF top
    <3>7. /\ Complete(Outputs, socket[c].got, Append(chan[c].queue, top + 1), lost[c], socket[c].from, top + 1)
          /\ Complete(Outputs, socket[c].got, chan[c].queue, lost[c] \cup {top + 1}, socket[c].from, top + 1)
      BY <3>4, <3>6, OutputsAreNumbered, Sending
    <3>8. top + 1 = size
      BY <3>5 DEF top
    <3>. QED BY <2>4, <3>2, <3>7, <3>8
  <2>11. Flowing'
    BY <1>1, <1>2, <2>1, <2>4, <2>9, <2>10 DEF Flowing
  <2>. QED BY <1>1, <1>3, <1>4, <2>5, <2>6, <2>8, <2>11 DEF CreateTypes, SessionTypes, CloserTypes, SocketTypes
<1>. QED BY <1>5, <1>6

\* The first to close takes the subscribers; what is on its way to them stays.
LEMMA StepClose ==
  ASSUME IInv, NEW s \in Shells, NEW who \in {"reader", "waiter"} \cup Sockets, Close(s, who),
         UNCHANGED <<sessions, create, chan, lost, panicked>>, ReaderTypes', SocketTypes',
         \A q \in Shells :
           /\ reader'[q].to = reader[q].to
           /\ reader'[q].pc = reader[q].pc \/ (reader[q].pc = "read" /\ reader'[q].pc = "ended"),
         \A d \in Sockets :
           /\ socket'[d].shell = socket[d].shell /\ socket'[d].from = socket[d].from
           /\ socket'[d].got = socket[d].got /\ socket'[d].told = socket[d].told
           /\ socket'[d].pc = socket[d].pc \/ (socket[d].pc = "loop" /\ socket'[d].pc = "closing")
  PROVE  IInv'
<1>. USE DEF IInv, TypeOK
<1>1. SessionTypes' /\ CloserTypes' /\ \A q \in Shells :
        /\ session'[q].size = session[q].size /\ session'[q].replay = session[q].replay
        /\ \/ session'[q] = session[q] /\ closer'[q].to = closer[q].to
           \/ /\ q = s /\ ~session[q].done /\ session'[q].done = TRUE /\ session'[q].subs = {}
              /\ closer'[q].to = session[q].subs
  <2>1. CASE UNCHANGED <<session, closer>>
    BY <2>1 DEF SessionTypes, CloserTypes
  <2>2. CASE /\ ~session[s].done
             /\ session' = [session EXCEPT ![s] = [@ EXCEPT !.done = TRUE, !.subs = {}]]
             /\ closer' = [closer EXCEPT ![s] =
                  [by |-> who, pc |-> IF session[s].subs = {} THEN "forget" ELSE "send", to |-> session[s].subs]]
    <3>. DEFINE pc == IF session[s].subs = {} THEN "forget" ELSE "send"
    <3>1. pc \in {"forget", "send"} /\ session[s].subs \in SUBSET Sockets
      BY DEF SessionTypes, SessionRecord
    <3>. HIDE DEF pc
    <3>2. CloserTypes'
      <4>1. closer' = [closer EXCEPT ![s] = [by |-> who, pc |-> pc, to |-> session[s].subs]]
        BY <2>2 DEF pc
      <4>. QED BY <3>1, <4>1 DEF CloserTypes
    <3>3. SessionTypes'
      <4>1. SessionTypes /\ UNCHANGED sessions
        OBVIOUS
      <4>. HIDE DEF IInv, TypeOK
      <4>2. session[s] \in SessionRecord
        BY <4>1 DEF SessionTypes
      <4>3. PICK row \in SessionRecord : row = [session[s] EXCEPT !.done = TRUE, !.subs = {}]
        BY <4>2, SessionRows
      <4>4. session' = [session EXCEPT ![s] = row]
        BY <2>2, <4>3
      <4>. QED BY <4>1, <4>4 DEF SessionTypes
    <3>4. /\ session'[s].done = TRUE /\ session'[s].subs = {} /\ closer'[s].to = session[s].subs
          /\ session'[s].size = session[s].size /\ session'[s].replay = session[s].replay
          /\ \A q \in Shells \ {s} : session'[q] = session[q] /\ closer'[q] = closer[q]
      BY <2>2 DEF SessionTypes, SessionRecord, CloserTypes
    <3>. QED BY <2>2, <3>2, <3>3, <3>4
  <2>. QED BY <2>1, <2>2 DEF Close
<1>2. Reading'
  BY <1>1 DEF Reading
<1>3. Owned'
  BY <1>1 DEF Owned
<1>4. Attached'
  BY <1>1 DEF Attached
<1>5. Closing'
  BY <1>1 DEF Closing
<1>6. Ending'
  BY DEF Ending
<1>7. \A d \in Sockets : socket[d].pc \in {"loop", "closing", "ended"} => Top(d)' = Top(d)
  BY <1>1 DEF Top, Attached
<1>8. Flowing'
  BY <1>7 DEF Flowing
<1>. QED BY <1>1, <1>2, <1>3, <1>4, <1>5, <1>6, <1>8 DEF CreateTypes, ChanTypes

LEMMA StepReadEnds ==
  ASSUME IInv, NEW s \in Shells, ReadEnds(s) \/ WaitReturns(s)
  PROVE  IInv'
<1>1. UNCHANGED <<sessions, create, socket, chan, lost, panicked>>
  BY DEF ReadEnds, WaitReturns
<1>2. ReaderTypes' /\ \A q \in Shells :
        /\ reader'[q].to = reader[q].to
        /\ reader'[q].pc = reader[q].pc \/ (reader[q].pc = "read" /\ reader'[q].pc = "ended")
  BY DEF ReadEnds, WaitReturns, IInv, TypeOK, ReaderTypes
<1>3. SocketTypes'
  BY <1>1 DEF IInv, TypeOK, SocketTypes
<1>4. Close(s, "reader") \/ Close(s, "waiter")
  BY DEF ReadEnds, WaitReturns
<1>. QED BY <1>1, <1>2, <1>3, <1>4, StepClose

LEMMA StepClientCloses ==
  ASSUME IInv, NEW c \in Sockets, ClientCloses(c)
  PROVE  IInv'
<1>1. UNCHANGED <<sessions, create, reader, chan, lost, panicked>>
  BY DEF ClientCloses
<1>2. SocketTypes' /\ \A d \in Sockets :
        /\ socket'[d].shell = socket[d].shell /\ socket'[d].from = socket[d].from
        /\ socket'[d].got = socket[d].got /\ socket'[d].told = socket[d].told
        /\ socket'[d].pc = socket[d].pc \/ (socket[d].pc = "loop" /\ socket'[d].pc = "closing")
  BY DEF ClientCloses, IInv, TypeOK, SocketTypes, SocketRecord
<1>3. ReaderTypes'
  BY <1>1 DEF IInv, TypeOK, ReaderTypes
<1>4. socket[c].shell \in Shells /\ Close(socket[c].shell, c)
  BY DEF ClientCloses, IInv, Attached
<1>. QED BY <1>1, <1>2, <1>3, <1>4, StepClose

\* A subscriber's channel gets its last event, for which there may be no room.
LEMMA StepSendClosed ==
  ASSUME IInv, NEW s \in Shells, NEW c \in Sockets, SendClosed(s, c)
  PROVE  IInv'
<1>. USE DEF IInv, TypeOK
<1>1. UNCHANGED <<sessions, create, session, reader, socket, lost, panicked>>
  BY DEF SendClosed
<1>2. /\ c \in closer[s].to /\ socket[c].shell = s /\ socket[c].pc \in {"loop", "closing", "left"}
      /\ session[s].done /\ ~chan[c].closed /\ ~HasEnd(chan[c].queue) /\ ~socket[c].told
  BY DEF SendClosed, Owned, Closing, Ending
<1>3. /\ closer'[s].to = closer[s].to \ {c}
      /\ \A q \in Shells \ {s} : closer'[q] = closer[q]
      /\ CloserTypes'
  BY DEF SendClosed, CloserTypes
<1>4. chan[c] \in [queue : Seq(Outputs \cup {Gone}), closed : BOOLEAN]
  BY DEF ChanTypes
<1>5. /\ chan'[c] \in [queue : Seq(Outputs \cup {Gone}), closed : BOOLEAN]
      /\ chan'[c].closed = TRUE
      /\ chan'[c].queue = Append(chan[c].queue, Gone) \/ chan'[c].queue = chan[c].queue
      /\ \A d \in Sockets \ {c} : chan'[d] = chan[d]
  <2>. DEFINE closing == ClosedWith(chan[c], Gone, ChanCap)
              offered == Offered(chan[c], Gone, ChanCap)
  <2>1. chan' = [chan EXCEPT ![c] = closing]
    BY DEF SendClosed
  <2>2. /\ closing \in [queue : Seq(Outputs \cup {Gone}), closed : BOOLEAN]
        /\ closing.closed = TRUE
        /\ closing.queue = offered.queue
        /\ offered.queue = Append(chan[c].queue, Gone) \/ offered.queue = chan[c].queue
    <3>. HIDE DEF IInv, TypeOK
    <3>. QED BY <1>4, OfferedEvent
  <2>. HIDE DEF closing, offered
  <2>3. chan'[c] = closing /\ \A d \in Sockets \ {c} : chan'[d] = chan[d]
    BY <2>1 DEF ChanTypes
  <2>. QED BY <2>2, <2>3
<1>6. ChanTypes'
  <2>1. chan' = [chan EXCEPT ![c] = chan'[c]]
    BY DEF SendClosed, ChanTypes
  <2>. QED BY <1>1, <1>5, <2>1 DEF ChanTypes
<1>7. Reading' /\ Owned' /\ Closing'
  BY <1>1, <1>2, <1>3, <1>5 DEF Reading, Owned, Closing
<1>8. Attached'
  BY <1>1, <1>2, <1>5 DEF Attached
<1>9. Ending'
  <2>1. /\ Len(chan[c].queue) \in Nat /\ Len(Append(chan[c].queue, Gone)) = Len(chan[c].queue) + 1
        /\ \A n \in 1 .. Len(chan[c].queue) : Append(chan[c].queue, Gone)[n] = chan[c].queue[n]
    BY <1>4, LenProperties, AppendProperties
  <2>2. \A n \in 1 .. Len(chan'[c].queue) : chan'[c].queue[n] = EndMark => n = Len(chan'[c].queue)
    <3>1. \A n \in 1 .. Len(chan[c].queue) : chan[c].queue[n] # EndMark
      BY <1>2 DEF HasEnd
    <3>. HIDE DEF IInv, TypeOK
    <3>. QED BY <1>5, <2>1, <3>1
  <2>. QED BY <1>1, <1>2, <1>5, <2>2 DEF Ending
<1>10. \A d \in Sockets : Top(d)' = Top(d)
  BY <1>1 DEF Top
<1>11. panicked = None /\ socket[c].pc \in {"loop", "closing"} =>
         Complete(Outputs, socket[c].got, chan'[c].queue, lost[c], socket[c].from, Top(c))
  <2>1. SUFFICES ASSUME panicked = None, socket[c].pc \in {"loop", "closing"}
                 PROVE  Complete(Outputs, socket[c].got, chan'[c].queue, lost[c], socket[c].from, Top(c))
    OBVIOUS
  <2>2. Complete(Outputs, socket[c].got, chan[c].queue, lost[c], socket[c].from, Top(c))
    BY <2>1 DEF Flowing
  <2>3. /\ socket[c].got \in Seq(Outputs) /\ chan[c].queue \in Seq(Outputs \cup {EndMark})
        /\ socket[c].from \in Int
    BY <1>4, OutputsAreNumbered DEF SocketTypes, SocketRecord, Outputs
  <2>4. Top(c) \in Nat
    BY <1>2, TopIsNumber
  <2>. HIDE DEF IInv, TypeOK
  <2>5. Complete(Outputs, socket[c].got, Append(chan[c].queue, EndMark), lost[c], socket[c].from, Top(c))
    BY <2>2, <2>3, <2>4, OutputsAreNumbered, SendingEnd
  <2>. QED BY <1>5, <2>2, <2>5, OutputsAreNumbered
<1>12. Flowing'
  BY <1>1, <1>2, <1>5, <1>10, <1>11 DEF Flowing
<1>. QED BY <1>1, <1>3, <1>6, <1>7, <1>8, <1>9, <1>12 DEF CreateTypes, SessionTypes, ReaderTypes, SocketTypes

\* A socket connects, and knows no channel yet.
LEMMA StepConnect ==
  ASSUME IInv, NEW c \in Sockets, NEW i \in Ids, Connect(c, i)
  PROVE  IInv'
<1>. USE DEF IInv, TypeOK
<1>1. UNCHANGED <<sessions, create, session, reader, closer, chan, lost, panicked>>
  BY DEF Connect
<1>2. /\ socket[c].pc = "new" /\ socket'[c].pc \in {"notFound", "subscribe"}
      /\ socket'[c].pc = "subscribe" => socket'[c].shell \in Shells
      /\ socket'[c].told = socket[c].told
      /\ \A d \in Sockets \ {c} : socket'[d] = socket[d]
  BY DEF Connect, SocketTypes, SocketRecord, SessionTypes
<1>3. SocketTypes'
  <2>1. SocketTypes /\ SessionTypes
    OBVIOUS
  <2>. HIDE DEF IInv, TypeOK
  <2>2. socket[c] \in SocketRecord /\ sessions[i] \in Shells \cup {None}
    BY <2>1 DEF SocketTypes, SessionTypes
  <2>3. PICK row \in SocketRecord :
          row = [socket[c] EXCEPT !.pc = IF sessions[i] = None THEN "notFound" ELSE "subscribe",
                                  !.shell = sessions[i]]
    BY <2>2, SocketRows
  <2>4. socket' = [socket EXCEPT ![c] = row]
    BY <2>3 DEF Connect
  <2>. QED BY <2>1, <2>4 DEF SocketTypes
<1>4. Reading' /\ Owned' /\ Attached'
  BY <1>1, <1>2 DEF Reading, Owned, Attached
<1>5. Closing' /\ Ending'
  BY <1>1, <1>2 DEF Attached, Closing, Ending
<1>6. \A d \in Sockets \ {c} : Top(d)' = Top(d)
  BY <1>1, <1>2 DEF Top
<1>7. Flowing'
  BY <1>1, <1>2, <1>6 DEF Flowing
<1>. QED BY <1>1, <1>3, <1>4, <1>5, <1>7 DEF CreateTypes, SessionTypes, ReaderTypes, CloserTypes, ChanTypes

\* The replay, and the place among the subscribers, in one step.
LEMMA StepSubscribe ==
  ASSUME IInv, NEW c \in Sockets, Subscribe(c)
  PROVE  IInv'
<1>. DEFINE s == socket[c].shell
            from == session[s].size - Len(session[s].replay) + 1
<1>. USE DEF IInv, TypeOK
<1>1. /\ socket[c].pc = "subscribe" /\ s \in Shells
      /\ UNCHANGED <<sessions, create, reader, closer, chan, lost, panicked>>
  BY DEF Subscribe, Attached
<1>2. /\ session[s].replay \in Seq(Outputs) /\ session[s].size \in Nat
      /\ Len(session[s].replay) \in Nat /\ Len(session[s].replay) <= session[s].size
      /\ from \in Outputs
  <2>1. /\ session[s].replay \in Seq(Outputs) /\ session[s].size \in Nat
        /\ Len(session[s].replay) <= session[s].size
    BY <1>1 DEF SessionTypes, SessionRecord, Reading
  <2>2. Len(session[s].replay) \in Nat
    BY <2>1, LenProperties
  <2>3. from \in Outputs
    <3>. HIDE DEF IInv, TypeOK, s
    <3>. QED BY <2>1, <2>2 DEF Outputs
  <2>. QED BY <2>1, <2>2, <2>3
<1>3. socket' = [socket EXCEPT ![c] =
                   [@ EXCEPT !.pc = IF session[s].done THEN "ended" ELSE "loop",
                             !.from = from, !.got = session[s].replay, !.told = session[s].done]]
  BY DEF Subscribe
<1>. HIDE DEF from
<1>4. /\ socket'[c].pc = IF session[s].done THEN "ended" ELSE "loop"
      /\ socket'[c].shell = s /\ socket'[c].from = from /\ socket'[c].got = session[s].replay
      /\ socket'[c].told = session[s].done
      /\ \A d \in Sockets \ {c} : socket'[d] = socket[d]
  BY <1>3 DEF SocketTypes, SocketRecord
<1>5. SocketTypes'
  <2>1. session[s].done \in BOOLEAN
    BY <1>1 DEF SessionTypes, SessionRecord
  <2>2. SocketTypes /\ socket[c] \in SocketRecord
    BY DEF SocketTypes
  <2>. HIDE DEF IInv, TypeOK, s
  <2>3. PICK row \in SocketRecord :
          row = [socket[c] EXCEPT !.pc = IF session[s].done THEN "ended" ELSE "loop",
                                  !.from = from, !.got = session[s].replay, !.told = session[s].done]
    BY <1>2, <2>1, <2>2, SocketRows
  <2>4. socket' = [socket EXCEPT ![c] = row]
    BY <1>3, <2>3
  <2>. QED BY <2>2, <2>4 DEF SocketTypes
<1>6. SessionTypes' /\ \A q \in Shells :
        /\ session'[q].size = session[q].size /\ session'[q].replay = session[q].replay
        /\ session'[q].done = session[q].done
        /\ session[q].subs \subseteq session'[q].subs /\ session'[q].subs \subseteq session[q].subs \cup {c}
        /\ c \in session'[q].subs => q = s
        /\ session[q].done => session'[q].subs = session[q].subs
  <2>1. CASE session[s].done
    BY <1>1, <2>1 DEF Subscribe, SessionTypes, SessionRecord, Owned
  <2>2. CASE ~session[s].done
    <3>1. session' = [session EXCEPT ![s].subs = @ \cup {c}]
      BY <2>2 DEF Subscribe
    <3>. QED BY <1>1, <2>2, <3>1 DEF SessionTypes, SessionRecord, Owned
  <2>. QED BY <2>1, <2>2
<1>7. ~session[s].done => c \in session'[s].subs
  BY <1>1 DEF Subscribe, SessionTypes, SessionRecord
<1>8. /\ chan[c].queue = <<>> /\ lost[c] = {} /\ ~chan[c].closed
      /\ \A q \in Shells : c \notin reader[q].to /\ c \notin closer[q].to
  BY <1>1 DEF Attached, Owned
<1>9. Complete(Outputs, session[s].replay, <<>>, {}, from, session[s].size)
  <2>1. \A n \in 1 .. Len(session[s].replay) :
          session[s].replay[n] = session[s].size - Len(session[s].replay) + n
    BY <1>1 DEF Reading
  <2>. HIDE DEF IInv, TypeOK, s
  <2>. QED BY <1>2, <2>1, OutputsAreNumbered, Joining DEF from
<1>. HIDE DEF s
<1>10. Reading' /\ Closing'
  BY <1>1, <1>4, <1>6, <1>8 DEF Reading, Closing
<1>11. Owned'
  BY <1>1, <1>4, <1>6, <1>8 DEF Owned
<1>12. Attached'
  BY <1>1, <1>4, <1>6, <1>7, <1>8 DEF Attached
<1>13. Ending'
  BY <1>1, <1>4, <1>8 DEF Ending
<1>14. \A d \in Sockets \ {c} : socket[d].pc \in {"loop", "closing", "ended"} => Top(d)' = Top(d)
  BY <1>1, <1>4, <1>6 DEF Top, Attached
<1>15. Top(c)' = session[s].size
  BY <1>1, <1>4, <1>6, <1>8 DEF Top
<1>16. Flowing'
  BY <1>1, <1>4, <1>8, <1>9, <1>14, <1>15 DEF Flowing
<1>. QED BY <1>1, <1>5, <1>6, <1>10, <1>11, <1>12, <1>13, <1>16 DEF CreateTypes, ReaderTypes, CloserTypes, ChanTypes

\* The head of the queue is written; after the closed event there is nothing.
LEMMA StepForward ==
  ASSUME IInv, NEW c \in Sockets, Forward(c)
  PROVE  IInv'
<1>. DEFINE queue == chan[c].queue
            event == Head(queue)
            rest == Tail(queue)
            got == socket[c].got
<1>. USE DEF IInv, TypeOK
<1>1. /\ socket[c].pc \in {"loop", "closing"} /\ ~socket[c].told
      /\ queue # <<>> /\ queue \in Seq(Outputs \cup {Gone}) /\ got \in Seq(Outputs)
      /\ UNCHANGED <<sessions, create, session, reader, closer, lost, panicked>>
  BY DEF Forward, ChanTypes, SocketTypes, SocketRecord
<1>2. /\ Len(queue) \in Nat \ {0} /\ event = queue[1] /\ event \in Outputs \cup {Gone}
      /\ rest \in Seq(Outputs \cup {Gone}) /\ Len(rest) = Len(queue) - 1
      /\ \A n \in 1 .. Len(rest) : rest[n] = queue[n + 1]
  <2>1. Len(queue) \in Nat /\ Len(queue) # 0
    BY <1>1, LenProperties, EmptySeq
  <2>. QED BY <1>1, <2>1, HeadTailProperties
<1>3. chan' = [chan EXCEPT ![c].queue = rest]
  BY DEF Forward
<1>4. /\ event = Gone => socket' = [socket EXCEPT ![c].told = TRUE]
      /\ event # Gone => socket' = [socket EXCEPT ![c].got = Append(got, event)]
  BY DEF Forward
<1>5. Append(got, event) \in Seq(Outputs) \/ event = Gone
  BY <1>1, <1>2, AppendProperties
<1>. HIDE DEF rest, event
<1>6. ChanTypes' /\ chan'[c].queue = rest /\ chan'[c].closed = chan[c].closed
      /\ \A d \in Sockets \ {c} : chan'[d] = chan[d]
  BY <1>1, <1>2, <1>3 DEF ChanTypes
<1>7. SocketTypes'
  <2>1. SocketTypes /\ socket[c] \in SocketRecord
    BY DEF SocketTypes
  <2>. HIDE DEF IInv, TypeOK, got
  <2>2. [socket[c] EXCEPT !.told = TRUE] \in SocketRecord
    BY <2>1, SocketRows
  <2>3. event # Gone => [socket[c] EXCEPT !.got = Append(got, event)] \in SocketRecord
    BY <1>5, <2>1, SocketRows
  <2>. QED BY <1>4, <2>1, <2>2, <2>3 DEF SocketTypes
<1>8. /\ socket'[c].pc = socket[c].pc /\ socket'[c].shell = socket[c].shell
      /\ socket'[c].from = socket[c].from
      /\ \/ event = Gone /\ socket'[c].told = TRUE /\ socket'[c].got = got
         \/ event # Gone /\ socket'[c].told = socket[c].told /\ socket'[c].got = Append(got, event)
      /\ \A d \in Sockets \ {c} : socket'[d] = socket[d]
  BY <1>4 DEF SocketTypes, SocketRecord
<1>9. /\ HasEnd(rest) => HasEnd(queue)
      /\ \A n \in 1 .. Len(rest) : rest[n] = EndMark => n = Len(rest)
      /\ event = Gone => rest = <<>> /\ chan[c].closed
  <2>1. \A n \in 1 .. Len(queue) : queue[n] = EndMark => n = Len(queue)
    BY DEF Ending
  <2>2. HasEnd(queue) => chan[c].closed
    BY DEF Ending
  <2>3. \A n \in 1 .. Len(rest) : n + 1 \in 1 .. Len(queue)
    BY <1>2
  <2>4. 1 \in 1 .. Len(queue)
    BY <1>2
  <2>. HIDE DEF IInv, TypeOK, queue
  <2>5. HasEnd(rest) => HasEnd(queue)
    BY <1>2, <2>3 DEF HasEnd
  <2>6. \A n \in 1 .. Len(rest) : rest[n] = EndMark => n = Len(rest)
    BY <1>2, <2>1, <2>3
  <2>7. event = Gone => HasEnd(queue) /\ Len(rest) = 0
    <3>1. event = Gone => queue[1] = EndMark
      BY <1>2, OutputsAreNumbered
    <3>2. event = Gone => 1 = Len(queue)
      BY <2>1, <2>4, <3>1
    <3>3. event = Gone => HasEnd(queue)
      BY <2>4, <3>1 DEF HasEnd
    <3>4. event = Gone => Len(rest) = 0
      <4>1. Len(rest) = Len(queue) - 1
        BY <1>2
      <4>. QED BY <3>2, <4>1
    <3>. QED BY <3>3, <3>4
  <2>8. Len(rest) = 0 => rest = <<>>
    BY <1>2, EmptySeq
  <2>. QED BY <2>2, <2>5, <2>6, <2>7, <2>8
<1>10. panicked = None =>
         /\ event # Gone => Complete(Outputs, Append(got, event), rest, lost[c], socket[c].from, Top(c))
         /\ event = Gone => Complete(Outputs, got, rest, lost[c], socket[c].from, Top(c))
  <2>1. panicked = None => Complete(Outputs, got, queue, lost[c], socket[c].from, Top(c))
    BY <1>1 DEF Flowing
  <2>. HIDE DEF IInv, TypeOK
  <2>. QED BY <1>1, <2>1, OutputsAreNumbered, Receiving DEF event, rest
<1>. HIDE DEF queue, got
<1>11. Reading' /\ Owned'
  BY <1>1, <1>8 DEF Reading, Owned
<1>12. Attached'
  BY <1>1, <1>6, <1>8 DEF Attached
<1>13. Closing'
  BY <1>1, <1>6, <1>8 DEF Closing
<1>14. Ending'
  BY <1>1, <1>6, <1>8, <1>9 DEF Ending, queue
<1>15. \A d \in Sockets : Top(d)' = Top(d)
  BY <1>1, <1>8 DEF Top
<1>16. Flowing'
  BY <1>1, <1>6, <1>8, <1>10, <1>15 DEF Flowing
<1>. QED BY <1>1, <1>6, <1>7, <1>11, <1>12, <1>13, <1>14, <1>16 DEF CreateTypes, SessionTypes, ReaderTypes, CloserTypes

\* A socket's handler returns; what is sent to its channel is not read any more.
LEMMA StepLeave ==
  ASSUME IInv, NEW c \in Sockets, Leave(c)
  PROVE  IInv'
<1>. DEFINE s == socket[c].shell
<1>. USE DEF IInv, TypeOK
<1>1. /\ socket[c].pc \in {"loop", "closing"} /\ s \in Shells
      /\ UNCHANGED <<sessions, create, reader, closer, chan, lost, panicked>>
  BY DEF Leave, Attached
<1>2. SocketTypes'
  BY DEF Leave, SocketTypes, SocketRecord
<1>3. SessionTypes'
  <2>1. session' = [session EXCEPT ![s].subs = @ \ {c}]
    BY DEF Leave
  <2>. HIDE DEF s
  <2>. QED BY <1>1, <2>1 DEF SessionTypes, SessionRecord
<1>4. /\ socket'[c].pc = "left" /\ socket'[c].shell = s /\ socket'[c].told = socket[c].told
      /\ \A d \in Sockets \ {c} : socket'[d] = socket[d]
  BY DEF Leave, SocketTypes, SocketRecord
<1>5. \A q \in Shells :
        /\ session'[q].size = session[q].size /\ session'[q].replay = session[q].replay
        /\ session'[q].done = session[q].done
        /\ session'[q].subs \subseteq session[q].subs
        /\ \A d \in Sockets \ {c} : d \in session[q].subs => d \in session'[q].subs
  BY DEF Leave, SessionTypes, SessionRecord
<1>6. Reading' /\ Owned'
  BY <1>1, <1>4, <1>5 DEF Reading, Owned
<1>7. Attached'
  BY <1>1, <1>4, <1>5 DEF Attached
<1>8. Closing'
  BY <1>1, <1>4, <1>5 DEF Closing
<1>9. Ending'
  BY <1>1, <1>4 DEF Ending
<1>10. \A d \in Sockets \ {c} : socket[d].pc \in {"loop", "closing", "ended"} => Top(d)' = Top(d)
  BY <1>1, <1>4, <1>5 DEF Top, Attached
<1>11. Flowing'
  BY <1>1, <1>4, <1>10 DEF Flowing
<1>. QED BY <1>1, <1>2, <1>3, <1>6, <1>7, <1>8, <1>9, <1>11 DEF CreateTypes, ReaderTypes, CloserTypes, ChanTypes

LEMMA NextIInv == IInv /\ [Next]_vars => IInv'
<1>. SUFFICES ASSUME IInv, [Next]_vars PROVE IInv'
  OBVIOUS
<1>1. CASE UNCHANGED vars
  <2>. USE <1>1 DEF vars, IInv, TypeOK
  <2>1. TypeOK'
    BY DEF CreateTypes, SessionTypes, ReaderTypes, CloserTypes, SocketTypes, ChanTypes
  <2>2. Reading' /\ Owned' /\ Attached' /\ Closing' /\ Ending'
    BY DEF Reading, Owned, Attached, Closing, Ending
  <2>3. \A c \in Sockets : Top(c)' = Top(c)
    BY DEF Top
  <2>4. Flowing'
    BY <2>3 DEF Flowing
  <2>. QED BY <2>1, <2>2, <2>4
<1>2. ASSUME NEW s \in Shells,
             (\E i \in Ids : Look(s, i)) \/ CreateNext(s) \/ Prints(s) \/ Exit(s) \/ ReadNext(s) \/ CloseNext(s)
      PROVE  IInv'
  BY <1>2, StepCreate, StepBroadcast, StepReadEnds, StepSend, StepSendClosed DEF ReadNext, CloseNext
<1>3. ASSUME NEW c \in Sockets, (\E i \in Ids : Connect(c, i)) \/ SocketNext(c)
      PROVE  IInv'
  BY <1>3, StepConnect, StepSubscribe, StepForward, StepClientCloses, StepLeave DEF SocketNext
<1>. QED BY <1>1, <1>2, <1>3 DEF Next

\* The inductive invariant of the agent's shells.
THEOREM Invariance == Spec => []IInv
BY InitIInv, NextIInv, PTL DEF Spec

\* A web socket gets the output that was kept when it attached and all that follows,
\* once and in order, but for what its channel had no room for; and nothing after the
\* closed event.
THEOREM OutputInOrder == Spec => []ShellOutputInOrder
<1>1. IInv => ShellOutputInOrder
  <2>. SUFFICES ASSUME IInv, NEW c \in Sockets, socket[c].pc \in {"loop", "closing", "ended"}, panicked = None
                PROVE  /\ ToSet(socket[c].got) \cup InTransit(c) \cup lost[c]
                            = socket[c].from .. session[socket[c].shell].size
                       /\ \A m, n \in DOMAIN socket[c].got : m < n => socket[c].got[m] < socket[c].got[n]
                       /\ socket[c].told => chan[c].queue = <<>>
    BY DEF ShellOutputInOrder
  <2>. DEFINE s == socket[c].shell
              got == socket[c].got
              queue == chan[c].queue
              from == socket[c].from
              size == session[s].size
  <2>. USE DEF IInv, TypeOK
  <2>1. /\ s \in Shells /\ got \in Seq(Outputs) /\ queue \in Seq(Outputs \cup {Gone})
        /\ lost[c] \subseteq Outputs /\ from \in Outputs /\ size \in Nat
        /\ Complete(Outputs, got, queue, lost[c], from, Top(c))
        /\ socket[c].told => queue = <<>>
    BY DEF Attached, SocketTypes, SocketRecord, ChanTypes, SessionTypes, SessionRecord, Ending, Flowing
  <2>2. DOMAIN got = 1 .. Len(got) /\ DOMAIN queue = 1 .. Len(queue)
    BY <2>1, LenProperties
  <2>3. ToSet(got) = {got[n] : n \in 1 .. Len(got)} /\ ToSet(queue) = {queue[n] : n \in 1 .. Len(queue)}
    BY <2>2 DEF ToSet
  <2>4. /\ \A n \in 1 .. Len(got) : got[n] \in Outputs
        /\ \A n \in 1 .. Len(queue) : queue[n] \in Outputs \cup {Gone}
    BY <2>1, ElementOfSeq
  <2>5. c \in reader[s].to => Top(c) = size - 1 /\ size \in Outputs
    BY <2>1 DEF Top, Reading, Outputs
  <2>6. c \notin reader[s].to => Top(c) = size
    BY DEF Top
  <2>7. InTransit(c) = (IF c \in reader[s].to THEN {size} ELSE {}) \cup (ToSet(queue) \ {Gone})
    BY DEF InTransit
  <2>. HIDE DEF IInv, TypeOK, s, got, queue, from, size
  <2>8. from <= Top(c) + 1
    BY <2>1 DEF Complete
  <2>9. \A x \in Outputs : x \in from .. Top(c) <=> x \in ToSet(got) \/ x \in ToSet(queue) \/ x \in lost[c]
    <3>1. \A x \in Outputs : x \in from .. Top(c) <=> from <= x /\ x <= Top(c)
      BY <2>1, <2>5, <2>6 DEF Outputs
    <3>. QED BY <2>1, <2>3, <3>1 DEF Complete
  <2>10. \A x \in Outputs :
           x \in ToSet(got) \cup InTransit(c) \cup lost[c] <=> x \in from .. size
    <3>1. \A x \in Outputs : x # Gone
      BY DEF Outputs, Gone
    <3>2. CASE c \in reader[s].to
      <4>1. \A x \in Outputs : x \in from .. size <=> x = size \/ x \in from .. Top(c)
        BY <2>1, <2>5, <2>8, <3>2 DEF Outputs
      <4>. QED BY <2>7, <2>9, <3>1, <3>2, <4>1
    <3>3. CASE c \notin reader[s].to
      BY <2>6, <2>7, <2>9, <3>1, <3>3
    <3>. QED BY <3>2, <3>3
  <2>11. /\ \A x \in ToSet(got) \cup InTransit(c) \cup lost[c] : x \in Outputs
         /\ \A x \in from .. size : x \in Outputs
    <3>1. \A x \in from .. size : x \in Outputs
      BY <2>1 DEF Outputs
    <3>. QED BY <2>1, <2>3, <2>4, <2>5, <2>7, <3>1
  <2>12. ToSet(got) \cup InTransit(c) \cup lost[c] = from .. size
    BY <2>10, <2>11
  <2>13. \A m, n \in DOMAIN got : m < n => got[m] < got[n]
    BY <2>1, <2>2 DEF Complete
  <2>. QED BY <2>1, <2>12, <2>13 DEF s, got, queue, from, size
<1>. QED BY <1>1, Invariance, PTL
=============================================================================
