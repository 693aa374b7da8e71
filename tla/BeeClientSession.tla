--------------------------- MODULE BeeClientSession ---------------------------
(***************************************************************************)
(* BeeClient implements BeeSession.                                        *)
(***************************************************************************)
EXTENDS BeeClient

\* The requests of which the inbox holds the whole answer, and those whose
\* answer may still be read from this stream.
Answers(b) == {b[i].to : i \in {j \in DOMAIN b : b[j].part = "answer"}}
Out == Range(todo) \cup Answers(inbox)

Outcome ==
    IF pc # "idle" THEN "none"
    ELSE IF result \in {"true", "closed"} THEN "success" ELSE "failure"

Session == INSTANCE BeeSession WITH
    calling <- pc # "idle",
    outcome <- Outcome,
    own     <- IF pc = "recv" THEN frame.own.sync ELSE -1,
    next    <- sync,
    sent    <- written,
    open    <- {q.sync : q \in Out}

\* Whatever the stream does, the script sees a session: a call succeeds with
\* the answer to its own request, which no write before this one had in it,
\* no later call receives and no later write sends again.
Promise == Session!SessionSpec
=============================================================================
