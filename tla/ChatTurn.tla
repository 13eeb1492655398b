-------------------------------- MODULE ChatTurn --------------------------------
(***************************************************************************)
(* A question of the console's chat page answered by a provider            *)
(* (internal/console/chat_stream.go, chat_support.go).  The handler calls  *)
(* the provider, again while an answer was cut off by its length, adds the *)
(* turns up, shows the pieces to a page that may have left, and at the end *)
(* records the usage and merges the session with what is stored.  The page *)
(* saves the same session on its own, at any time, with what it has been   *)
(* shown of the reply, and so may another page that has it open.  A page   *)
(* that streams cannot stop the execution by leaving; one that waits for   *)
(* the whole page can.  Reasoning takes the path of the output and is left *)
(* out; an image model is asked once and never streams.                    *)
(***************************************************************************)
EXTENDS Integers, Sequences, ConsoleBase

CONSTANTS
  ContinuationLimit, \* 2 in the code
  LongerIds,         \* how much longer the page's ids of a question and a reply are: 4 in the code
  MaxChunks,         \* bound: pieces of output of one turn
  MaxSaves           \* bound: times pages save the session

ASSUME TurnAssumption == LongerIds \in Nat

VARIABLES
  chat,   \* the handler: what was asked, where it is, the execution's status and error
  text,   \* the output: of the stream being parsed, of the turn, of all turns
  usage,  \* the counters of the turn and of the aggregate
  page,   \* the client, its connection and its heartbeat
  store,  \* the stored session, and who is about to write it
  books   \* the usage record, and what the provider has really sent and counted

tvars == <<chat, text, usage, page, store, books>>

Zero == [in |-> 0, out |-> 0, total |-> 0]

\* The reply of an answer without output.
Placeholder == <<"No text returned.">>

Displayed(out) == IF out = <<>> THEN Placeholder ELSE out

\* A list of messages that goes on from the one the question was asked in: how many
\* messages more, the length of what they say, and the reply among them.
Asked == [count |-> 1, size |-> 0, reply |-> <<>>]
Replied(reply, more) == [count |-> 2, size |-> Len(reply) + more, reply |-> reply]

TInit ==
  /\ \E stream, image \in BOOLEAN :
       chat = [pc |-> "resolve", stream |-> stream, image |-> image, attempt |-> 0, status |-> 0, finish |-> None,
               completed |-> FALSE, turnFinish |-> None, err |-> FALSE]
  /\ text = [parsed |-> <<>>, turn |-> <<>>, all |-> <<>>]
  /\ usage = [turn |-> Zero, sum |-> Zero]
  /\ page = [left |-> FALSE, gone |-> FALSE, shown |-> <<>>, told |-> "nothing", beat |-> "off"]
  /\ store = [rec |-> [Asked EXCEPT !.count = 0], \* what is stored
              read |-> [Asked EXCEPT !.count = 0], \* what the handler has read of it
              put |-> FALSE,                       \* the handler has put the reply
              saves |-> {}, posted |-> 0,          \* the page's saves that have read but not written yet; all saves so far
              late |-> FALSE,                      \* one of them had read before the reply was put
              other |-> FALSE]                     \* another page has written the session
  /\ books = [record |-> None, sent |-> <<>>, counted |-> Zero]

\* ---------------------------- the counters -----------------------------
\* mergeConsoleChatUsage: counters that are reported replace those of the turn, and the
\* total follows them.
MergeUsage(old, next) ==
  LET in == IF next.in > 0 THEN next.in ELSE old.in
      out == IF next.out > 0 THEN next.out ELSE old.out
  IN [in |-> in, out |-> out, total |-> IF in + out > 0 THEN in + out ELSE IF next.total > 0 THEN next.total ELSE old.total]

\* Mutant: the last turn's counters replace those before it.
LastUsage(sum, next) == MergeUsage(sum, next)

\* addConsoleChatUsageTotals.
AddUsage(sum, next) == [in |-> sum.in + next.in, out |-> sum.out + next.out, total |-> sum.total + next.total]

\* ------------------------------ the page ------------------------------
Executing == chat.pc \in {"call", "stream", "turn"}

Leave ==
  /\ ~page.left /\ chat.pc # "over"
  /\ page' = [page EXCEPT !.left = TRUE]
  /\ UNCHANGED <<chat, text, usage, store, books>>

\* The heartbeat's timer fires while nothing else is written, and the write fails.
HeartbeatFails ==
  /\ Executing /\ page.beat = "on" /\ page.left /\ ~page.gone
  /\ page' = [page EXCEPT !.gone = TRUE, !.beat = "failed"]
  /\ UNCHANGED <<chat, text, usage, store, books>>

\* onDelta: pieces for a page that is gone are dropped; the first write that fails
\* makes it gone and ends the heartbeat.
Show(piece) ==
  \/ page.gone /\ page' = page
  \/ ~page.gone /\ page' = [page EXCEPT !.shown = Append(@, piece)]
  \/ ~page.gone /\ page.left /\ page' = [page EXCEPT !.gone = TRUE, !.beat = "off"]

\* ---------------------------- the execution ----------------------------
\* No model, no message, no such route, an environment that is not ready; or no route,
\* provider, protocol, key or price: the page is replaced and nothing is stored.
ResolveFails ==
  /\ chat.pc = "resolve"
  /\ chat' = [chat EXCEPT !.pc = "over"]
  /\ page' = [page EXCEPT !.told = "replace"]
  /\ UNCHANGED <<text, usage, store, books>>

\* A page that streams has a heartbeat while it waits.
StreamChat ==
  /\ chat.pc = "resolve" /\ chat.stream
  /\ chat' = [chat EXCEPT !.pc = "call"]
  /\ page' = [page EXCEPT !.beat = "on"]
  /\ UNCHANGED <<text, usage, store, books>>

SendChat ==
  /\ chat.pc = "resolve" /\ ~chat.stream
  /\ chat' = [chat EXCEPT !.pc = "call"]
  /\ UNCHANGED <<text, usage, page, store, books>>

\* A turn that ends with status s.
Turn(s, err) == [chat EXCEPT !.pc = "turn", !.status = s, !.err = err]

\* The request's body cannot be built.
BuildFails ==
  /\ chat.pc = "call"
  /\ chat' = Turn(400, TRUE)
  /\ UNCHANGED <<text, usage, page, store, books>>

\* No answer from the provider; or the page that waits has left, and the context of its
\* execution ended with it.
CallFails ==
  /\ chat.pc = "call"
  /\ chat' = Turn(502, TRUE)
  /\ UNCHANGED <<text, usage, page, store, books>>

\* The provider's own error.
CallRefused ==
  /\ chat.pc = "call" /\ (chat.stream \/ ~page.left)
  /\ chat' = Turn(429, TRUE)
  /\ UNCHANGED <<text, usage, page, store, books>>

\* A body that cannot be read or is not JSON.
BodyFails ==
  /\ chat.pc = "call"
  /\ chat' = Turn(200, TRUE)
  /\ UNCHANGED <<text, usage, page, store, books>>

CallStreams ==
  /\ chat.pc = "call" /\ chat.stream /\ ~chat.image
  /\ chat' = [chat EXCEPT !.pc = "stream"]
  /\ UNCHANGED <<text, usage, page, store, books>>

Pieces == {<<>>, <<<<chat.attempt, 1>>>>}

\* A whole answer, with what it counts.
Received(out, finish, used) ==
  LET now == [in |-> used, out |-> used, total |-> 2 * used] IN
  /\ chat.pc = "call" /\ (chat.stream \/ ~page.left)
  /\ chat' = [Turn(200, FALSE) EXCEPT !.turnFinish = finish]
  /\ usage' = [usage EXCEPT !.turn = now]
  /\ books' = [books EXCEPT !.sent = @ \o out, !.counted = AddUsage(@, now)]

\* It is not shown, also to a page that streams.
CallAnswers ==
  /\ ~chat.image
  /\ \E out \in Pieces, finish \in {"stop", "length"}, used \in {0, 1} :
       /\ Received(out, finish, used)
       /\ text' = [text EXCEPT !.parsed = out]
  /\ UNCHANGED <<page, store>>

\* An image is shown to a page that streams, as one piece.
ImageAnswers ==
  /\ chat.image
  /\ \E out \in Pieces, used \in {0, 1} :
       /\ Received(out, "stop", used)
       /\ IF chat.stream /\ out # <<>>
          THEN text' = [text EXCEPT !.parsed = out, !.turn = out] /\ Show(out[1])
          ELSE text' = [text EXCEPT !.parsed = out] /\ UNCHANGED page
  /\ UNCHANGED store

\* A piece of a stream: parsed, kept for the turn, shown.
StreamDelta ==
  /\ chat.pc = "stream" /\ Len(text.parsed) < MaxChunks
  /\ LET piece == <<chat.attempt, Len(text.parsed) + 1>> IN
       /\ text' = [text EXCEPT !.parsed = Append(@, piece), !.turn = Append(@, piece)]
       /\ books' = [books EXCEPT !.sent = Append(@, piece)]
       /\ Show(piece)
  /\ UNCHANGED <<chat, usage, store>>

\* A report of the input, or a later one of the output.
StreamUsage ==
  /\ chat.pc = "stream"
  /\ \E next \in {[in |-> 1, out |-> 0, total |-> 1], [in |-> 0, out |-> 1, total |-> 1]} :
       /\ IF next.in > 0 THEN usage.turn.in = 0 ELSE usage.turn.in > 0 /\ usage.turn.out = 0
       /\ usage' = [usage EXCEPT !.turn = MergeUsage(@, next)]
       /\ books' = [books EXCEPT !.counted = [in |-> @.in + next.in, out |-> @.out + next.out, total |-> @.total + 1]]
  /\ UNCHANGED <<chat, text, page, store>>

\* The reason a stream finishes, or only the mark of its end.
StreamFinish ==
  /\ chat.pc = "stream" /\ ~chat.completed
  /\ \E finish \in {"stop", "length", None} :
       chat' = [chat EXCEPT !.completed = TRUE, !.turnFinish = finish]
  /\ UNCHANGED <<text, usage, page, store, books>>

\* The end of the stream, an error if its mark has not come.
StreamEnds ==
  /\ chat.pc = "stream"
  /\ chat' = Turn(200, ~chat.completed)
  /\ UNCHANGED <<text, usage, page, store, books>>

\* A read fails, or an event is an error or not JSON: what there is, is kept.
StreamBreaks ==
  /\ chat.pc = "stream"
  /\ chat' = Turn(200, TRUE)
  /\ UNCHANGED <<text, usage, page, store, books>>

\* Mutant: the answer is added although its pieces already were.
TurnOutputTwice == text.turn \o text.parsed

\* What the turn gave: the pieces of the callback, else the answer as it was parsed.
TurnOutput == IF text.turn = <<>> THEN text.parsed ELSE text.turn

Continues(finish) == finish \in {"length", "max_tokens"} /\ chat.attempt < ContinuationLimit

\* runConsoleChatTurnWithContinuation: the turn is added to the aggregate, a failed one
\* too, and the next one asked when the answer was cut off.
TurnOver ==
  /\ chat.pc = "turn"
  /\ text' = [parsed |-> <<>>, turn |-> <<>>, all |-> text.all \o TurnOutput]
  /\ usage' = [turn |-> Zero, sum |-> AddUsage(usage.sum, usage.turn)]
  /\ chat' = [chat EXCEPT !.finish = IF chat.turnFinish # None THEN chat.turnFinish ELSE @,
                          !.turnFinish = None, !.completed = FALSE,
                          !.pc = IF ~chat.err /\ ~chat.image /\ Continues(chat.turnFinish) THEN "call" ELSE "record",
                          !.attempt = IF ~chat.err /\ ~chat.image /\ Continues(chat.turnFinish) THEN @ + 1 ELSE @]
  /\ UNCHANGED <<page, store, books>>

\* ------------------------------- its end -------------------------------
\* The heartbeat is joined, and a page whose context has ended is gone.  The usage is
\* recorded once, and a failure only logged; a price needs a last turn that was accepted.
Record ==
  /\ chat.pc = "record"
  /\ chat' = [chat EXCEPT !.pc = "store"]
  /\ page' = [page EXCEPT !.gone = @ \/ page.left, !.beat = "off"]
  /\ \/ books' = [books EXCEPT !.record = [used |-> usage.sum, status |-> chat.status, priced |-> chat.status < 400]]
     \/ UNCHANGED books
  /\ UNCHANGED <<text, usage, store>>

\* Mutant: of two lists as long the one that comes is kept.
LastOfEquals(existing, incoming) == IF incoming.count >= existing.count THEN incoming ELSE existing

\* consoleChatPreferRicherSessionMessages: the longer list, then the larger one, then
\* the stored one.
Richest(existing, incoming) ==
  IF \/ incoming.count > existing.count
     \/ incoming.count = existing.count /\ incoming.size > existing.size
  THEN incoming ELSE existing

\* persistConsoleChatSession reads what is stored; a failure is logged, and the page
\* is answered all the same.
StoreGet ==
  /\ chat.pc = "store"
  /\ \/ chat' = [chat EXCEPT !.pc = "put"] /\ store' = [store EXCEPT !.read = store.rec]
     \/ chat' = [chat EXCEPT !.pc = "answer"] /\ UNCHANGED store
  /\ UNCHANGED <<text, usage, page, books>>

\* It puts the richer of that and the question with its reply, or fails.
StorePut ==
  /\ chat.pc = "put"
  /\ chat' = [chat EXCEPT !.pc = "answer"]
  /\ \/ store' = [store EXCEPT !.rec = Richest(store.read, Replied(Displayed(text.all), 0)),
                               !.put = TRUE, !.late = store.saves # {}]
     \/ UNCHANGED store
  /\ UNCHANGED <<text, usage, page, books>>

\* saveChatSession: the page posts the question with what it has been shown of the
\* reply, also when its connection has broken; the handler reads what is stored.
AutosaveGet ==
  /\ store.posted < MaxSaves
  /\ \E more \in 0 .. LongerIds :
       LET new == IF page.shown = <<>> THEN Asked ELSE Replied(page.shown, more) IN
       store' = [store EXCEPT !.posted = @ + 1,
                              !.saves = @ \cup {[id |-> store.posted, old |-> store.rec, new |-> new]}]
  /\ UNCHANGED <<chat, text, usage, page, books>>

\* A title may be asked of a model before it puts the richer of the two, or fails.
AutosavePut(s) ==
  /\ \/ store' = [store EXCEPT !.rec = Richest(s.old, s.new), !.saves = @ \ {s}]
     \/ store' = [store EXCEPT !.saves = @ \ {s}]
  /\ UNCHANGED <<chat, text, usage, page, books>>

\* Another page has gone on from a longer list, or edited the one it had.
OtherSaves ==
  /\ store.posted < MaxSaves
  /\ store' = [store EXCEPT !.posted = @ + 1, !.rec = [Asked EXCEPT !.count = 3], !.other = TRUE]
  /\ UNCHANGED <<chat, text, usage, page, books>>

\* The reply of the last event replaces the pieces the page has.
Told == [page EXCEPT !.told = IF chat.err THEN "error" ELSE "done", !.shown = Displayed(text.all)]

StreamAnswer ==
  /\ chat.pc = "answer" /\ chat.stream
  /\ chat' = [chat EXCEPT !.pc = "over"]
  /\ page' = IF page.gone THEN page ELSE Told
  /\ UNCHANGED <<text, usage, store, books>>

PageAnswer ==
  /\ chat.pc = "answer" /\ ~chat.stream
  /\ chat' = [chat EXCEPT !.pc = "over"]
  /\ page' = IF page.left THEN page ELSE Told
  /\ UNCHANGED <<text, usage, store, books>>

TNext ==
  \/ Leave \/ HeartbeatFails
  \/ ResolveFails \/ StreamChat \/ SendChat
  \/ BuildFails \/ CallFails \/ CallRefused \/ BodyFails \/ CallStreams \/ CallAnswers \/ ImageAnswers
  \/ StreamDelta \/ StreamUsage \/ StreamFinish \/ StreamEnds \/ StreamBreaks
  \/ TurnOver \/ Record \/ StoreGet \/ StorePut \/ StreamAnswer \/ PageAnswer
  \/ AutosaveGet \/ OtherSaves \/ \E s \in store.saves : AutosavePut(s)

TSpec == TInit /\ [][TNext]_tvars

\* ------------------------------- properties -------------------------------
\* A reply that is shown or stored in part: pieces of what was sent, in order.
Follows(shown, sent) ==
  \A j \in DOMAIN shown : \E b \in DOMAIN sent :
    shown[j] = sent[b] /\ \A i \in 1 .. j - 1 : \E a \in 1 .. b - 1 : shown[i] = sent[a]

\* Nothing is lost of a reply, or the little that the page's longer ids make up for.
Kept(reply, whole) ==
  reply = whole \/ (Follows(reply, whole) /\ Len(whole) <= Len(reply) + LongerIds)

\* Once the reply is put, whatever parts of it the page has saved before, saves since or
\* saves at the same time, every piece the provider has sent, in whatever turn and whether
\* or not the page was still there, is in the stored reply, once and in order; except when
\* another page wrote the session, or a save had read it before the reply was put.  What a
\* page has been shown on the way is a part of it, in order, and what it was told is all.
ReplyIsKept ==
  /\ store.put /\ ~store.other /\ ~store.late => Kept(store.rec.reply, Displayed(books.sent))
  /\ page.told \in {"done", "error"} => page.shown = Displayed(books.sent)
  /\ page.told = "nothing" => Follows(page.shown, books.sent)

\* The record has the counters of all turns, the failed last one and those a page did
\* not wait for included, and their total is the sum of them.
TurnsAreBilled ==
  books.record # None =>
    /\ books.record.used = books.counted
    /\ books.record.used.total = books.record.used.in + books.record.used.out
================================================================================
