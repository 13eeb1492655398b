----------------------------- MODULE Conversation -----------------------------
(***************************************************************************)
(* A client of the Responses API that keeps its conversation and sends all *)
(* of it with every request, and a provider of chat completions behind the *)
(* gateway (internal/gateway/responses_compat.go).  The client may speak   *)
(* before its tools have answered, and tools answer in any order, or late. *)
(***************************************************************************)
EXTENDS ResponsesItems

CONSTANTS
  Ids,       \* identifiers of calls, which a provider may use again
  MaxItems   \* bound: items of a conversation

VARIABLES
  items,         \* the conversation
  wantsReasoning \* whether the provider is one that gets its reasoning back

cvars == <<items, wantsReasoning>>

Request == RequestMessages(items, wantsReasoning)

CInit == items = <<>> /\ wantsReasoning \in BOOLEAN

\* Every text names its place in the conversation.
Place == Len(items) + 1

Ask ==
  /\ Place <= MaxItems
  /\ \E type \in {"message", "untyped"} :
       items' = Append(items, [type |-> type, role |-> "user", id |-> None, text |-> <<Place>>])
  /\ UNCHANGED wantsReasoning

\* The provider answers a request, which the client makes after words of its own or an answer.
Reply ==
  /\ items # <<>> /\ items[Len(items)].role # "assistant"
  /\ \E reasoning, text \in {<<>>, <<Place>>}, calls \in {<<>>} \cup {<<a>> : a \in Ids} \cup {<<a, b>> : a, b \in Ids} :
       LET message == [Message("assistant", text) EXCEPT
                         !.reasoning = reasoning, !.calls = [i \in DOMAIN calls |-> [id |-> calls[i], arguments |-> <<>>]]]
           new == ReplyItems(message)
       IN /\ \A i, j \in DOMAIN calls : calls[i] = calls[j] => i = j
          /\ Len(items) + Len(new) <= MaxItems
          /\ items' = items \o [i \in DOMAIN new |-> [role |-> "assistant"] @@ new[i]]
  /\ UNCHANGED wantsReasoning

\* A tool answers a call that has been made, perhaps once more.
Answer ==
  /\ Place <= MaxItems
  /\ \E i \in DOMAIN items :
       /\ items[i].type = "function_call"
       /\ items' = Append(items, [type |-> "function_call_output", role |-> None, id |-> items[i].id, text |-> <<Place>>])
  /\ UNCHANGED wantsReasoning

CNext == Ask \/ Reply \/ Answer

-----------------------------------------------------------------------------
\* What chat providers insist on: the messages of tools follow the message that made the calls, one
\* for each of them.
ToolsPaired ==
  LET Wants(k) == {j \in 1..k : Request[j].role # "tool" /\ \A i \in (j + 1)..k : Request[i].role = "tool"} IN
  \A k \in DOMAIN Request :
    /\ Request[k].role = "tool" =>
         \E j \in Wants(k) : Request[k].id \in ToSet(Request[j].calls)
    /\ Request[k].calls # <<>> =>
         LET n == Len(Request[k].calls) IN
         /\ k + n <= Len(Request)
         /\ {Request[i].id : i \in (k + 1)..(k + n)} = ToSet(Request[k].calls)
         /\ k + n < Len(Request) => Request[k + n + 1].role # "tool"

Words(messages) == SelectSeq(messages, LAMBDA m : m.role # "tool" /\ m.text # <<>>)

\* The repair of calls and answers loses and reorders nothing that was said, and no answer that came
\* in time: an output that follows its call with nothing but other calls, then other outputs between.
NothingSaidIsLost ==
  /\ [k \in DOMAIN Words(Request) |-> Words(Request)[k].text]
       = LET said == SelectSeq(items, LAMBDA i : i.type \in {"message", "untyped"} /\ i.text # <<>>)
         IN IF items # <<>> THEN [k \in DOMAIN said |-> said[k].text] ELSE <<>>
  /\ \A p, q \in DOMAIN items :
       /\ p < q /\ items[p].type = "function_call" /\ items[q].type = "function_call_output"
       /\ items[p].id = items[q].id
       /\ \E c \in p..(q - 1) :
            /\ \A i \in p..c : items[i].type = "function_call"
            /\ \A i \in (c + 1)..(q - 1) : items[i].type = "function_call_output" /\ items[i].id # items[q].id
       => \E k \in DOMAIN Request : Request[k].role = "tool" /\ Request[k].text = items[q].text

=============================================================================
