----------------------------- MODULE ChatSessions -----------------------------
(***************************************************************************)
(* What the console stores of a chat session, and how a write merges with  *)
(* what is stored (internal/console/chat_sessions.go).  A session is one   *)
(* record of the store, written by requests, page saves and background     *)
(* runs that each read it, compute the next record and put it back: the    *)
(* operators below are that computation, the steps are in CloudAgentRun.   *)
(***************************************************************************)
EXTENDS Naturals, Sequences, SequencesExt

\* A question of a request and an answer to it, of n pieces.
Question(c) == [role |-> "user", of |-> c, n |-> 1]
Reply(c, n) == [role |-> "assistant", of |-> c, n |-> n]

\* The record of a session that is not stored.
NoSession == [status |-> "none", msgs |-> <<>>, title |-> "none", custom |-> FALSE, error |-> FALSE]

\* The length of the messages as JSON.
PayloadSize(msgs) == FoldLeft(LAMBDA total, m : total + m.n, 0, msgs)

\* The longer list of messages is kept, then the larger one, then the stored one.
PreferRicher(existing, incoming) ==
  IF \/ Len(incoming) > Len(existing)
     \/ Len(incoming) = Len(existing) /\ PayloadSize(incoming) > PayloadSize(existing)
  THEN incoming ELSE existing

\* Titles: "seed" is cut from the first question, "generated" comes from a model
\* and "named" from the user.
SeedTitle(msgs) == IF \E i \in DOMAIN msgs : msgs[i].role = "user" THEN "seed" ELSE "default"

SessionTitle(title, custom, msgs) == IF custom /\ title # "none" THEN title ELSE SeedTitle(msgs)

CanGenerateTitle(msgs) == \A role \in {"user", "assistant"} : \E i \in DOMAIN msgs : msgs[i].role = role /\ msgs[i].n > 0

NeedsGeneratedTitle(title, custom, msgs) ==
  ~custom /\ CanGenerateTitle(msgs) /\ title \in {"none", "default", SeedTitle(msgs)}

\* generated: the model's answer was usable.
ResolvedTitle(title, custom, msgs, generated) ==
  IF custom \/ ~CanGenerateTitle(msgs) THEN SessionTitle(title, custom, msgs)
  ELSE IF generated THEN "generated"
  ELSE IF title # "none" /\ ~NeedsGeneratedTitle(title, custom, msgs) THEN title
  ELSE SeedTitle(msgs)

\* An answer that fails with something to show was interrupted.
StatusForError(shown) == IF shown THEN "interrupted" ELSE "failed"

\* The messages with the progress of an answer, left out while there is none.
AppendProgress(msgs, c, n, operations) == IF n = 0 /\ ~operations THEN msgs ELSE Append(msgs, Reply(c, n))

\* What persistConsoleChatSessionForUser puts, having read existing.
Persisted(existing, msgs, status, error) ==
  LET kept == PreferRicher(existing.msgs, msgs) IN
  [status |-> status, msgs |-> kept, title |-> SessionTitle(existing.title, existing.custom, kept),
   custom |-> existing.custom, error |-> error]

\* What saveChatSession puts: a title it has stored stays the current one, whatever the
\* page sends; while a run is active the page's view that it ended does not count, and
\* while one is still active, when it is asked a second time, its error does not.
Saved(existing, page, generated, active, still) ==
  LET kept == PreferRicher(existing.msgs, page.msgs)
      current == IF existing.title # "none" THEN existing.title ELSE page.title
      wanted == IF page.status # "none" THEN page.status
                ELSE IF existing.status # "none" THEN existing.status ELSE "ready"
      status == IF active /\ wanted \in {"interrupted", "failed", "ready"} THEN "streaming" ELSE wanted
  IN [status |-> status, msgs |-> kept, custom |-> page.custom,
      title |-> ResolvedTitle(current, page.custom, kept, generated /\ NeedsGeneratedTitle(current, page.custom, kept)),
      error |-> ~(still /\ status = "streaming") /\ (page.error \/ existing.error)]

\* What a page that comes back is told of a session without a run.
StoredResumeEvents(record) ==
  CASE record.status = "completed" -> "done"
    [] record.status \in {"interrupted", "failed"} -> "error"
    [] record.status = "streaming" -> "reconnect"
    [] OTHER -> "nothing"
===============================================================================
