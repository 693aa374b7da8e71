------------------------------ MODULE BeeSession ------------------------------
(***************************************************************************)
(* What a Bee object promises to the script, with nothing said of buffers, *)
(* streams, caches or retries.  One call runs at a time and sends requests *)
(* with numbers of their own.  A request that could not be sent may reach  *)
(* the server all the same, and again with a later call; one that was sent *)
(* reaches it no more.  A call that waits for the answer to a request      *)
(* succeeds only with that answer, and no later call meets it again.       *)
(***************************************************************************)
EXTENDS Integers

VARIABLES
    calling,    \* a method is running
    outcome,    \* how the last one ended
    own,        \* the number of the request it waits for, or Nothing
    next,       \* the numbers below are given out
    sent,       \* the numbers of the requests known to be sent
    open        \* those of the requests whose answer may still be read

svars == <<calling, outcome, own, next, sent, open>>

Nothing == -1
Outcomes == {"success", "failure"}

SessionInit ==
    /\ calling = FALSE /\ outcome \in Outcomes
    /\ own = Nothing /\ next = 0 /\ sent = {} /\ open = {}

\* A call begins, or is over at once.
Begin ==
    /\ ~calling
    /\ calling' \in BOOLEAN
    /\ IF calling' THEN outcome' = "none" ELSE outcome' \in Outcomes
    /\ open' \subseteq open
    /\ UNCHANGED <<own, next, sent>>

\* Numbers are given out.  What reaches the server was not sent before: it has
\* one of these numbers, or one of an earlier call that could not send it.
Issue ==
    /\ calling /\ own = Nothing
    /\ next' \in Nat /\ next' > next
    /\ sent \subseteq sent' /\ sent' \subseteq 0..next' - 1
    /\ open' \subseteq open \cup (0..next' - 1 \ sent)

\* ... to no avail, or as a step on the way,
Prepare ==
    /\ Issue
    /\ IF calling' THEN outcome' = "none" ELSE outcome' = "failure"
    /\ UNCHANGED own
\* ... or to wait for the answer to the newest.
Ask ==
    /\ Issue
    /\ own' = next' - 1 /\ own' >= next /\ own' \in sent'
    /\ UNCHANGED <<calling, outcome>>

\* Nothing new can be read, but less: answers are read, cut off, or lost with
\* their stream.
Proceed ==
    /\ open' \subseteq open
    /\ UNCHANGED <<calling, outcome, own, next, sent>>

\* A call that waits for no answer of its own comes to its end.
Finish ==
    /\ calling /\ own = Nothing
    /\ ~calling' /\ outcome' \in Outcomes
    /\ open' \subseteq open
    /\ UNCHANGED <<own, next, sent>>

Succeed ==
    /\ calling /\ own \in open
    /\ ~calling' /\ outcome' = "success" /\ own' = Nothing
    /\ open' \subseteq open \ {own}
    /\ UNCHANGED <<next, sent>>

Fail ==
    /\ calling /\ own # Nothing
    /\ ~calling' /\ outcome' = "failure" /\ own' = Nothing
    /\ open' \subseteq open
    /\ UNCHANGED <<next, sent>>

SessionNext ==
    Begin \/ Prepare \/ Ask \/ Proceed \/ Finish \/ Succeed \/ Fail

SessionSpec == SessionInit /\ [][SessionNext]_svars
=============================================================================
