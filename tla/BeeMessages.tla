----------------------------- MODULE BeeMessages -----------------------------
(***************************************************************************)
(* What the methods promise, without a byte: what the server is asked for  *)
(* is what was asked for, in the order it was asked for.  Requests that    *)
(* could not be sent wait.  They go out, all of them, before the next one, *)
(* or they are lost, all of them: a call that authenticates or looks a     *)
(* name up loses them, and what it could not send of this waits in their   *)
(* place.  A call that asks for nothing the server knows is refused.       *)
(***************************************************************************)
EXTENDS Naturals, Sequences

CONSTANTS
    Calls,      \* the calls of methods, with their arguments
    Batches,    \* the requests that each of them, or a call that only connects
                \* (None), may send before its own: sequences
    Meaning,    \* what a call or such a request asks for, or None
    None,
    MaxWaiting  \* bound: as many requests wait

VARIABLES
    call,       \* the running call, or the last one
    unsent,     \* the calls whose requests, and the requests that, were not sent
    received,   \* what has reached the server for the running call
    unreached   \* the last call has not reached the server, and said so

messageVars == <<call, unsent, received, unreached>>

Init == call = None /\ unsent = <<>> /\ received = <<>> /\ unreached = FALSE

Asks(c) ==
    /\ call' = c
    /\ received = <<>>

Before == {unsent, <<>>}

Refused(c) ==
    /\ Asks(c) /\ Meaning[c] = None
    /\ unsent' \in Before /\ unreached' = FALSE
    /\ UNCHANGED received

Sent(c) ==
    /\ Asks(c) /\ Meaning[c] # None
    /\ \E waits \in Before :
        received' = [i \in 1..Len(waits) + 1 |-> Meaning[Append(waits, c)[i]]]
    /\ unsent' = <<>>
    /\ UNCHANGED unreached

NotSent(c) ==
    /\ Asks(c) /\ Meaning[c] # None
    /\ \E waits \in Before :
        /\ Len(waits) < MaxWaiting
        /\ unsent' = Append(waits, c)
    /\ unreached' = FALSE
    /\ UNCHANGED received

\* The call has not come to its own request.
GivenUp(c) ==
    /\ Asks(c)
    /\ \/ unsent' \in Before /\ unreached' = TRUE
       \/ unsent' \in Batches[c] /\ unreached' = FALSE
    /\ UNCHANGED received

\* A call that only connects.
Connected ==
    /\ Asks(None)
    /\ unsent' \in Before \cup Batches[None]
    /\ unreached' \in BOOLEAN
    /\ UNCHANGED received

Answered ==
    /\ received # <<>>
    /\ received' = <<>> /\ unreached' = FALSE
    /\ UNCHANGED <<call, unsent>>

Next ==
    \/ Answered \/ Connected
    \/ \E c \in Calls : Refused(c) \/ Sent(c) \/ NotSent(c) \/ GivenUp(c)

Spec == Init /\ [][Next]_messageVars
==============================================================================
