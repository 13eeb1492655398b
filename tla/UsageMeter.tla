------------------------------ MODULE UsageMeter ------------------------------
(***************************************************************************)
(* How the gateway learns what an answer used: from the body of the answer *)
(* or from the events of a stream, each of which may report some of the    *)
(* counters (internal/gateway/handlers.go).  Counters are small numbers.   *)
(***************************************************************************)
EXTENDS Naturals, FiniteSets

CONSTANTS
  Protocols,  \* subset of {"openai", "anthropic"}
  MaxOutput   \* bound: tokens of an answer

VARIABLES
  answer,    \* what the provider has counted so far: [protocol, input, output, creation, read]
  usage,     \* what the gateway has merged
  estimated, \* domain.UsageRecord.Estimated of what it records
  pc         \* "start", "stream" or "read", then "recorded"

vars == <<answer, usage, estimated, pc>>

Nothing == [input |-> 0, output |-> 0, creation |-> 0, read |-> 0, total |-> 0]

Sum(u) == u.input + u.output + u.creation + u.read

\* parseUsageFromJSON: a counter that is not reported is zero.  OpenAI's may come without their total,
\* or under the names of the Responses API.
ParseUsage(report, protocol) ==
  IF protocol = "anthropic" THEN [report EXCEPT !.total = Sum(report)]
  ELSE [report EXCEPT !.creation = 0, !.read = 0, !.total = IF @ = 0 THEN report.input + report.output ELSE @]

\* mergeUsage: counter by counter, what is reported last.
MergeUsage(old, new) == [c \in DOMAIN old |-> IF new[c] > 0 THEN new[c] ELSE old[c]]

Init ==
  /\ answer \in [protocol : Protocols, input : {1}, output : {0}, creation : {0, 1}, read : {0, 1}]
  /\ usage = Nothing
  /\ estimated = FALSE
  /\ pc = "start"

Report(counters, total) ==
  [c \in DOMAIN Nothing |-> IF c = "total" THEN total ELSE IF c \in counters THEN answer[c] ELSE 0]

Inputs == {"input", "creation", "read"}

\* The whole answer at once, with its usage or without.
Whole ==
  /\ pc = "start"
  /\ \E n \in 1..MaxOutput : answer' = [answer EXCEPT !.output = n]
  /\ \E reports, named \in BOOLEAN :
       usage' = IF reports
                THEN ParseUsage([Report(Inputs, 0) EXCEPT !.output = answer'.output,
                                   !.total = IF named /\ answer.protocol = "openai" THEN answer.input + answer'.output ELSE 0],
                                answer.protocol)
                ELSE Nothing
  /\ pc' = "read"
  /\ UNCHANGED estimated

\* An Anthropic stream begins with the counters of its input, and has a first token of output.
MessageStart ==
  /\ pc = "start" /\ answer.protocol = "anthropic"
  /\ answer' = [answer EXCEPT !.output = 1]
  /\ usage' = MergeUsage(usage, ParseUsage([Report(Inputs, 0) EXCEPT !.output = 1], "anthropic"))
  /\ pc' = "stream"
  /\ UNCHANGED estimated

\* Its later events report the output so far.
MessageDelta ==
  /\ pc = "stream" /\ answer.protocol = "anthropic" /\ answer.output < MaxOutput
  /\ answer' = [answer EXCEPT !.output = @ + 1]
  /\ usage' = MergeUsage(usage, ParseUsage([Nothing EXCEPT !.output = answer'.output], "anthropic"))
  /\ UNCHANGED <<estimated, pc>>

\* An OpenAI stream reports its counters in any of its events, usually the last.
ChatChunk ==
  /\ pc \in {"start", "stream"} /\ answer.protocol = "openai" /\ answer.output < MaxOutput
  /\ answer' = [answer EXCEPT !.output = @ + 1]
  /\ \E reports, named \in BOOLEAN :
       usage' = IF reports
                THEN MergeUsage(usage, ParseUsage([Report({"input"}, IF named THEN answer.input + answer'.output ELSE 0)
                                                     EXCEPT !.output = answer'.output], "openai"))
                ELSE usage
  /\ pc' = "stream"
  /\ UNCHANGED estimated

\* What is recorded, and settled against the quota, for an answer that is a success.
Record ==
  /\ pc \in {"read", "stream"}
  /\ usage' = [usage EXCEPT !.total = IF @ = 0 THEN Sum(usage) ELSE @]
  /\ estimated' = (usage'.total = 0)
  /\ pc' = "recorded"
  /\ UNCHANGED answer

Next == Whole \/ MessageStart \/ MessageDelta \/ ChatChunk \/ Record

Spec == Init /\ [][Next]_vars

-----------------------------------------------------------------------------
\* An answer that came without usage is recorded, and settled, with an estimate of the tokens
\* that were passed on.  The code does not have this property: it marks the record as estimated
\* and leaves its counters at zero, and so its cost.
MissingUsageIsEstimated ==
  pc = "recorded" /\ estimated /\ answer.output > 0 => usage.total > 0
===============================================================================
