---------------------------- MODULE ResponsesStream ----------------------------
(***************************************************************************)
(* A chat completion that is streamed to a client of the Responses API     *)
(* (internal/gateway/responses_compat.go): each chunk of the provider      *)
(* becomes events at once, except calls, whose pieces are kept to the end. *)
(***************************************************************************)
EXTENDS ResponsesItems

CONSTANT MaxChunks  \* bound: chunks of a stream

VARIABLES
  whole,    \* the message that the chunks add up to (history)
  state,    \* responseStreamState
  events,   \* what the client has got
  chunks,   \* how many have come
  phase     \* "open" until the stream is over

Slots == {0, 1}

NoCall == [id |-> None, arguments |-> <<>>]

SInit ==
  /\ whole = [Message("assistant", <<>>) EXCEPT !.calls = [i \in Slots |-> None]]
  /\ state = [message |-> None, content |-> <<>>, reasoned |-> None, reasoning |-> <<>>, next |-> 0,
              calls |-> [i \in Slots |-> None]]
  /\ events = <<[kind |-> "created"]>>
  /\ chunks = 0
  /\ phase = "open"

Added(index) == [kind |-> "added", index |-> index]
Delta(index, piece) == [kind |-> "delta", index |-> index, text |-> <<piece>>]
Done(index, item) == [kind |-> "done", index |-> index, item |-> item]

UseIndex(s) == [s EXCEPT !.next = @ + 1]

Chunk == phase = "open" /\ chunks < MaxChunks /\ chunks' = chunks + 1 /\ UNCHANGED phase

\* Blank reasoning is dropped.
ReasoningChunk(piece) ==
  /\ Chunk
  /\ whole' = [whole EXCEPT !.reasoning = Append(@, piece)]
  /\ IF piece = " " THEN UNCHANGED <<state, events>>
     ELSE LET index == IF state.reasoned = None THEN state.next ELSE state.reasoned
              started == IF state.reasoned = None THEN UseIndex(state) ELSE state
          IN /\ state' = [started EXCEPT !.reasoned = index, !.reasoning = Append(@, piece)]
             /\ events' = events \o (IF state.reasoned = None THEN <<Added(index)>> ELSE <<>>) \o <<Delta(index, piece)>>

ContentChunk(piece) ==
  /\ Chunk
  /\ whole' = [whole EXCEPT !.text = Append(@, piece)]
  /\ LET index == IF state.message = None THEN state.next ELSE state.message
         started == IF state.message = None THEN UseIndex(state) ELSE state
     IN /\ state' = [started EXCEPT !.message = index, !.content = Append(@, piece)]
        /\ events' = events \o (IF state.message = None THEN <<Added(index)>> ELSE <<>>) \o <<Delta(index, piece)>>

\* Mutant: the identifier of a call is taken from its last piece.
LastPiece(call, id, piece) == [id |-> id, arguments |-> IF piece = " " THEN call.arguments ELSE Append(call.arguments, piece)]

\* consumeChatToolCallDelta: blank arguments are dropped.
WithPiece(call, id, piece) ==
  [id |-> IF id = None THEN call.id ELSE id,
   arguments |-> IF piece = " " THEN call.arguments ELSE Append(call.arguments, piece)]

\* The first piece of a call names it, if any does.
CallChunk(slot, id, piece) ==
  /\ Chunk
  /\ whole.calls[slot] # None => id = None
  /\ LET call == IF state.calls[slot] = None THEN NoCall ELSE state.calls[slot]
         sent == IF whole.calls[slot] = None THEN [id |-> id, arguments |-> <<>>] ELSE whole.calls[slot]
     IN /\ state' = [state EXCEPT !.calls[slot] = WithPiece(call, id, piece)]
        /\ whole' = [whole EXCEPT !.calls[slot] = [sent EXCEPT !.arguments = Append(@, piece)]]
  /\ UNCHANGED events

\* sortedChatToolCallStates
Sorted(calls) == SelectSeq(<<calls[0], calls[1]>>, LAMBDA c : c # None)

\* finishResponsesStream: at the end of the provider's stream, marked or not.
Finish ==
  /\ phase = "open"
  /\ LET reasoning == IF state.reasoned = None THEN <<>>
                      ELSE <<Done(state.reasoned, [type |-> "reasoning", id |-> None, text |-> state.reasoning])>>
         message == IF state.message = None THEN <<>>
                    ELSE <<Done(state.message, [type |-> "message", id |-> None, text |-> state.content])>>
         calls == Sorted(state.calls)
         done == reasoning \o message
                 \o [i \in DOMAIN calls |-> Done(state.next + i - 1, FunctionCallItem(calls[i]))]
     IN events' = events \o done
                  \o <<[kind |-> "completed", output |-> [i \in DOMAIN done |-> done[i].item]]>>
  /\ phase' = "done"
  /\ UNCHANGED <<whole, state, chunks>>

\* The provider breaks off or sends what cannot be read, or the client has gone.
Break ==
  /\ phase = "open"
  /\ phase' = "broken"
  /\ UNCHANGED <<whole, state, events, chunks>>

SNext ==
  \/ \E piece \in {"x", " "} :
       \/ ReasoningChunk(piece) \/ ContentChunk(piece)
       \/ \E slot \in Slots, id \in {"a", None} : CallChunk(slot, id, piece)
  \/ Finish \/ Break

-----------------------------------------------------------------------------
Solid(text) == SelectSeq(text, LAMBDA piece : piece # " ")

\* The events of an item name it alone: it is added before its pieces, and done with all of them.
EventsFitItems ==
  LET Of(kind) == {e \in DOMAIN events : events[e].kind = kind}
      Text(index) == LET pieces == SelectSeq(events, LAMBDA e : e.kind = "delta" /\ e.index = index)
                     IN FlattenSeq([i \in DOMAIN pieces |-> pieces[i].text])
  IN /\ \A kind \in {"added", "done"} : \A d, e \in Of(kind) : events[d].index = events[e].index => d = e
     /\ \A e \in Of("delta") : \E d \in Of("added") : d < e /\ events[d].index = events[e].index
     /\ \A d \in Of("done") :
          events[d].item.type # "function_call" =>
            /\ \E e \in Of("added") : e < d /\ events[e].index = events[d].index
            /\ events[d].item.text = Text(events[d].index)
     /\ phase = "done" => {events[e].index : e \in Of("done")} = 0..(Len(events[Len(events)].output) - 1)

\* White space aside, a streamed message is the one that would have come at once, and its
\* events tell the same message item by item.
StreamedAsWhole ==
  /\ EventsFitItems
  /\ phase = "done" =>
    LET Essence(items) ==
          LET seen == SelectSeq(items, LAMBDA i : i.type = "function_call" \/ Solid(i.text) # <<>>)
          IN [k \in DOMAIN seen |-> [seen[k] EXCEPT !.text = Solid(@)]]
    IN Essence(events[Len(events)].output) = Essence(ReplyItems([whole EXCEPT !.calls = Sorted(@)]))
===============================================================================
