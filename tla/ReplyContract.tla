--------------------------- MODULE ReplyContract ---------------------------
(***************************************************************************)
(* What the callers of ProviderRouter.generate and generate_stream count   *)
(* on, whatever providers, retries and circuit breakers do: the content of *)
(* a reply comes from one attempt at one provider, a reply is complete or  *)
(* has failed, and nothing follows either.                                 *)
(***************************************************************************)
CONSTANTS Request, Attempt

VARIABLES
    phase,  \* how far the reply to each request is
    source  \* the attempts that have supplied content to it

Phase == {"waiting", "sending", "complete", "failed"}

TypeOK ==
    /\ phase \in [Request -> Phase]
    /\ source \in [Request -> SUBSET Attempt]

Init ==
    /\ phase = [r \in Request |-> "waiting"]
    /\ source = [r \in Request |-> {}]

\* The first content of a streamed reply.  What follows comes from the same
\* attempt, so it changes nothing here.
Send(r, a) ==
    /\ phase[r] = "waiting"
    /\ phase' = [phase EXCEPT ![r] = "sending"]
    /\ source' = [source EXCEPT ![r] = {a}]

\* The reply is delivered: at once, or at the end of the attempt that sent it.
Complete(r, a) ==
    /\ \/ phase[r] = "waiting"
       \/ phase[r] = "sending" /\ source[r] = {a}
    /\ phase' = [phase EXCEPT ![r] = "complete"]
    /\ source' = [source EXCEPT ![r] = {a}]

Fail(r) ==
    /\ phase[r] \in {"waiting", "sending"}
    /\ phase' = [phase EXCEPT ![r] = "failed"]
    /\ UNCHANGED source

Next == \E r \in Request :
    \/ \E a \in Attempt : Send(r, a) \/ Complete(r, a)
    \/ Fail(r)

Spec == Init /\ [][Next]_<<phase, source>>

============================================================================
