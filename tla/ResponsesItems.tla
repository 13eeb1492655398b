--------------------------- MODULE ResponsesItems ---------------------------
(***************************************************************************)
(* Conversions between the Responses API and chat completions              *)
(* (internal/gateway/responses_compat.go), for providers that only have    *)
(* the latter.  A text is a sequence of pieces; a blank piece is white     *)
(* space.  Chat messages and items have the fields that the conversions    *)
(* look at; None stands for a missing one.                                 *)
(***************************************************************************)
EXTENDS SequencesExt, Naturals

CONSTANT None

Blank(text) == \A i \in DOMAIN text : text[i] = " "

Message(role, text) == [role |-> role, text |-> text, reasoning |-> <<>>, calls |-> <<>>, id |-> None]

-----------------------------------------------------------------------------
(* What an upstream message becomes *)

\* A call without an identifier gets a new one, and one without arguments no argument.
FunctionCallItem(call) ==
  [type |-> "function_call", id |-> IF call.id = None THEN "new" ELSE call.id,
   text |-> IF Blank(call.arguments) THEN <<"{}">> ELSE call.arguments]

\* chatCompletionResponseToResponses: the items of a message; one that has neither words nor calls
\* gets an empty message.
ReplyItems(message) ==
  (IF message.reasoning = <<>> THEN <<>> ELSE <<[type |-> "reasoning", id |-> None, text |-> message.reasoning]>>)
  \o (IF message.text = <<>> /\ message.calls # <<>> THEN <<>>
      ELSE <<[type |-> "message", id |-> None, text |-> message.text]>>)
  \o [i \in DOMAIN message.calls |-> FunctionCallItem(message.calls[i])]

-----------------------------------------------------------------------------
(* What the items of a request become *)

\* responseItemToChatMessage: an item of any other kind, also one without a type, is shown to the
\* model as what the user said.
ChatMessage(item) ==
  CASE item.type = "message" -> Message(item.role, item.text)
    [] item.type = "function_call" -> [Message("assistant", <<>>) EXCEPT !.calls = <<item.id>>]
    [] item.type = "function_call_output" -> [Message("tool", item.text) EXCEPT !.id = item.id]
    [] OTHER -> Message("user", item.text)

\* responseInputValueToChatMessages: reasoning is for providers that want it back, and goes to the
\* assistant's next message.
InputToChatMessages(items, wantsReasoning) ==
  LET Take(state, item) ==
        LET message == ChatMessage(item) IN
        IF item.type = "reasoning"
        THEN IF wantsReasoning THEN [state EXCEPT !.pending = item.text] ELSE state
        ELSE IF message.role = "assistant"
        THEN [out |-> Append(state.out, [message EXCEPT !.reasoning = state.pending]), pending |-> <<>>]
        ELSE [state EXCEPT !.out = Append(@, message)]
  IN FoldLeft(Take, [out |-> <<>>, pending |-> <<>>], items).out

HasCalls(message) == message.role = "assistant" /\ message.calls # <<>>

\* Mutant: answers to calls of earlier messages are kept as well.
AnswersOfAny(messages, first, last, known) ==
  SelectSeq(SubSeq(messages, first, last), LAMBDA m : m.id # None)

\* The first answer to each of the calls, among the messages from first to last.
Answers(messages, first, last, known) ==
  LET at == {k \in first..last :
               messages[k].id \in known /\ \A j \in first..(k - 1) : messages[j].id # messages[k].id}
  IN [i \in 1..Cardinality(at) |-> messages[SetToSortSeq(at, <)[i]]]

\* Mutant: only a message's own calls have answers.
JoinsNever(message) == FALSE

\* Whether a message's calls become calls of the message before it.
Joins(message) == HasCalls(message) /\ Blank(message.text)

RECURSIVE NormalizeFrom(_, _)

\* Calls of consecutive messages without words become calls of one message; they and their answers,
\* which follow at once, are kept in pairs, and the rest of either is dropped.
NormalizeFrom(messages, i) ==
  IF i > Len(messages) THEN <<>>
  ELSE IF messages[i].role = "tool" THEN NormalizeFrom(messages, i + 1)
  ELSE IF ~HasCalls(messages[i]) THEN <<messages[i]>> \o NormalizeFrom(messages, i + 1)
  ELSE
    LET group == Max({j \in i..Len(messages) :
                        \A k \in (i + 1)..j : Joins(messages[k])})
        last == Max({j \in group..Len(messages) : \A k \in (group + 1)..j : messages[k].role = "tool"})
        calls == FlattenSeq([k \in 1..(group - i + 1) |-> messages[i + k - 1].calls])
        answers == Answers(messages, group + 1, last, ToSet(calls))
        answered == SelectSeq(calls, LAMBDA id : \E k \in DOMAIN answers : answers[k].id = id)
        head == [messages[i] EXCEPT !.calls = answered]
    IN (IF answered # <<>> THEN <<head>> \o answers
        ELSE IF Blank(head.text) /\ head.reasoning = <<>> THEN <<>>
        ELSE <<head>>)
       \o NormalizeFrom(messages, last + 1)

NormalizeToolCalls(messages) == NormalizeFrom(messages, 1)

\* responsesRequestToChatCompletions: a request is never sent without a message.
RequestMessages(items, wantsReasoning) ==
  LET messages == NormalizeToolCalls(InputToChatMessages(items, wantsReasoning)) IN
  IF messages = <<>> THEN <<Message("user", <<>>)>> ELSE messages
=============================================================================
