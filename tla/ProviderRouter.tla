-------------------------- MODULE ProviderRouter ---------------------------
(***************************************************************************)
(* ProviderRouter of JULIBOT: concurrent AI requests, each tried at the    *)
(* primary provider, once more after a transient error, and then at the    *)
(* fallback provider, with one circuit breaker per provider shared by all  *)
(* requests of the process.  A step runs from one await (or one chunk      *)
(* handed to the consumer) to the next.  Each request is served once;      *)
(* chat_stream's requests are streams, chat's and the title jobs' are not. *)
(***************************************************************************)
EXTENDS Naturals, FiniteSets

CONSTANTS
    Request,     \* AI requests
    Modes,       \* router methods in use: "generate", "stream"
    Configs,     \* sets of providers that may have an API key
    Threshold,   \* failure_threshold
    Recovery     \* recovery_seconds, in ticks of the clock

ASSUME RequestAssumption == Modes \subseteq {"generate", "stream"}
ASSUME ConfigAssumption == Configs \subseteq SUBSET {"gemini", "groq"}
ASSUME BreakerAssumption == Threshold \in Nat \ {0} /\ Recovery \in Nat \ {0}

VARIABLES
    configured,  \* the providers that have an API key
    breaker,     \* the circuit breakers of the primary and the fallback
    call         \* the generate or generate_stream call of each request

vars == <<configured, breaker, call>>

\* Gemini is the primary and Groq the fallback; Groq alone is promoted.
HasPrimary      == configured # {}
GeminiIsPrimary == "gemini" \in configured
HasFallback     == (configured = {"gemini", "groq"})

Provider == {"primary", "fallback"}
Attempt  == {"primary", "retry", "fallback"}

\* AI_TIMEOUT and AI_CONNECTION_ERROR are transient, NON_FALLBACK_CODES final.
Error   == {"transient", "persistent", "final"}
Outcome == {"none", "answer", "primary_error", "fallback_error", "offline", "dried",
            "gone"}

Breaker == [
    state: {"closed", "open", "half_open"},
    fails: Nat,                      \* _failure_count
    age:   0..Recovery]              \* ticks since _last_failure_time, capped

Call == [
    mode:    {"generate", "stream"},
    stage:   {"idle", "ended"} \cup Attempt,
    exc:     Error \cup {"none"},    \* error of the first attempt
    sent:    SUBSET Attempt,         \* attempts that have supplied content
    final:   BOOLEAN,                \* the chunk with is_final was sent
    outcome: Outcome]                \* how the call ended

TypeOK ==
    /\ configured \in Configs
    /\ breaker \in [Provider -> Breaker]
    /\ call \in [Request -> Call]

Init ==
    /\ configured \in Configs
    /\ breaker = [p \in Provider |-> [state |-> "closed", fails |-> 0, age |-> Recovery]]
    /\ call = [r \in Request |->
        [mode |-> "generate", stage |-> "idle", exc |-> "none", sent |-> {},
         final |-> FALSE, outcome |-> "none"]]

----------------------------------------------------------------------------
(* CircuitBreaker.                                                         *)

\* Variant of Observed: an open breaker never recovers.
ObservedStuck(b) == b

\* The state property: reading it turns an open breaker half-open in time.
Observed(b) ==
    IF b.state = "open" /\ b.age >= Recovery THEN [b EXCEPT !.state = "half_open"] ELSE b

Allows(b) == Observed(b).state \in {"closed", "half_open"}

\* Variants of Succeeded: the failure count survives; it only goes down by one.
SucceededKeepingCount(b) == [b EXCEPT !.state = "closed"]
SucceededDecaying(b) == [b EXCEPT !.state = "closed", !.fails = @ - 1]

\* record_success
Succeeded(b) == [b EXCEPT !.state = "closed", !.fails = 0]

\* record_failure
Failed(b) ==
    [b EXCEPT !.fails = @ + 1, !.age = 0,
              !.state = IF b.fails + 1 >= Threshold THEN "open" ELSE @]

----------------------------------------------------------------------------

\* The provider an attempt is made at.
Of(a) == IF a = "fallback" THEN "fallback" ELSE "primary"

\* GeminiProvider.generate calls the SDK's synchronous client: until it
\* returns, the event loop runs nothing else.
Blocks(r) ==
    /\ GeminiIsPrimary
    /\ call[r].mode = "generate" /\ call[r].stage \in {"primary", "retry"}
LoopIsFree(r) == \A u \in Request \ {r} : ~Blocks(u)

FallbackAllowed == HasFallback /\ Allows(breaker["fallback"])

\* The call goes on with attempt a, or ends.
Go(r, c, a)  == call' = [call EXCEPT ![r] = [c EXCEPT !.stage = a]]
End(r, c, o) == call' = [call EXCEPT ![r] = [c EXCEPT !.stage = "ended", !.outcome = o]]

\* Variant of BehindPrimary: content already sent does not matter.
BehindPrimaryMixing(r, c) ==
    \/ FallbackAllowed /\ Go(r, c, "fallback")
    \/ ~FallbackAllowed /\ End(r, c, "offline")

\* What is behind the primary: nothing for a stream that has sent content,
\* which just ends; else the fallback if its breaker allows it, and an
\* "unavailable" error if not.
BehindPrimary(r, c) ==
    \/ c.sent # {} /\ End(r, c, "dried")
    \/ c.sent = {} /\ FallbackAllowed /\ Go(r, c, "fallback")
    \/ c.sent = {} /\ ~FallbackAllowed /\ End(r, c, "offline")

\* Leave the primary, b being its breaker after what happened there.
LeavePrimary(r, c, b) ==
    /\ BehindPrimary(r, c)
    /\ breaker' = [breaker EXCEPT !["primary"] = b,
           !["fallback"] = IF HasFallback /\ c.sent = {} THEN Observed(@) ELSE @]

\* Variant of GivesUp: persistent errors are not worth a fallback either.
GivesUpSoon(c, e) == ~HasFallback \/ e # "transient" \/ c.sent # {}

\* The error of the primary is raised: there is no fallback, _should_fallback
\* says no, or a stream has sent content.
GivesUp(c, e) == ~HasFallback \/ e = "final" \/ c.sent # {}

----------------------------------------------------------------------------

\* A call of generate or generate_stream: the primary is tried if its
\* breaker allows it.
Begin(r, m) ==
    LET c == [call[r] EXCEPT !.mode = m]
        b == Observed(breaker["primary"])
    IN  /\ call[r].stage = "idle" /\ HasPrimary /\ LoopIsFree(r)
        /\ UNCHANGED configured
        /\ \/ /\ Allows(breaker["primary"])
              /\ breaker' = [breaker EXCEPT !["primary"] = b]
              /\ Go(r, c, "primary")
           \/ /\ ~Allows(breaker["primary"])
              /\ LeavePrimary(r, c, b)

\* "No AI provider configured."
BeginWithout(r, m) ==
    /\ call[r].stage = "idle" /\ ~HasPrimary
    /\ End(r, [call[r] EXCEPT !.mode = m], "offline")
    /\ UNCHANGED <<configured, breaker>>

\* The provider answers a request that is not streamed.
Answer(r) ==
    /\ call[r].mode = "generate" /\ call[r].stage \in Attempt /\ LoopIsFree(r)
    /\ breaker' = [breaker EXCEPT ![Of(call[r].stage)] = Succeeded(@)]
    /\ End(r, [call[r] EXCEPT !.sent = {call[r].stage}], "answer")
    /\ UNCHANGED configured

\* The provider sends content, or the last chunk, which may be all it sends.
\* Further chunks with content change nothing.
SendChunk(r, last) ==
    /\ call[r].mode = "stream" /\ call[r].stage \in Attempt /\ LoopIsFree(r)
    /\ ~call[r].final
    /\ last \/ call[r].stage \notin call[r].sent
    /\ call' = [call EXCEPT ![r].sent = @ \cup {call[r].stage}, ![r].final = last]
    /\ UNCHANGED <<configured, breaker>>

\* The consumer comes back after the last chunk: the generator ends.
EndStream(r) ==
    /\ call[r].final /\ call[r].stage \in Attempt /\ LoopIsFree(r)
    /\ breaker' = [breaker EXCEPT ![Of(call[r].stage)] = Succeeded(@)]
    /\ End(r, call[r], "answer")
    /\ UNCHANGED configured

\* The first attempt fails.  generate retries a transient error at once;
\* generate_stream only when it could also fall back.
PrimaryFails(r, e) ==
    LET c == [call[r] EXCEPT !.exc = e]
        b == Failed(breaker["primary"])
        retried == e = "transient" /\ (c.mode = "generate" \/ ~GivesUp(c, e))
    IN  /\ call[r].stage = "primary" /\ ~call[r].final /\ LoopIsFree(r)
        /\ UNCHANGED configured
        /\ \/ /\ retried
              /\ breaker' = [breaker EXCEPT !["primary"] = b]
              /\ Go(r, c, "retry")
           \/ /\ ~retried /\ GivesUp(c, e)
              /\ breaker' = [breaker EXCEPT !["primary"] = b]
              /\ End(r, c, "primary_error")
           \/ /\ ~retried /\ ~GivesUp(c, e)
              /\ LeavePrimary(r, c, b)

\* The retry fails.  generate decides by the error of the first attempt and
\* raises that one; generate_stream swallows the error of the retry.
RetryFails(r) ==
    LET c == call[r]
        b == Failed(breaker["primary"])
        raised == c.mode = "generate" /\ GivesUp(c, c.exc)
    IN  /\ c.stage = "retry" /\ ~c.final /\ LoopIsFree(r)
        /\ UNCHANGED configured
        /\ \/ /\ raised
              /\ breaker' = [breaker EXCEPT !["primary"] = b]
              /\ End(r, c, "primary_error")
           \/ /\ ~raised
              /\ LeavePrimary(r, c, b)

FallbackFails(r) ==
    /\ call[r].stage = "fallback" /\ ~call[r].final /\ LoopIsFree(r)
    /\ breaker' = [breaker EXCEPT !["fallback"] = Failed(@)]
    /\ End(r, call[r], "fallback_error")
    /\ UNCHANGED configured

\* The consumer of a stream goes away: the generator is closed or cancelled
\* and neither breaker hears of it.
Abandon(r) ==
    /\ call[r].mode = "stream" /\ call[r].stage \in Attempt /\ LoopIsFree(r)
    /\ End(r, call[r], "gone")
    /\ UNCHANGED <<configured, breaker>>

\* GET /api/status reads the state of the registered providers' breakers.
Status ==
    /\ \A r \in Request : ~Blocks(r)
    /\ breaker' = [p \in Provider |->
            IF HasFallback \/ (HasPrimary /\ p = "primary")
            THEN Observed(breaker[p]) ELSE breaker[p]]
    /\ UNCHANGED <<configured, call>>

Tick ==
    /\ \E p \in Provider : breaker[p].age < Recovery
    /\ breaker' = [p \in Provider |-> [breaker[p] EXCEPT !.age =
            IF @ < Recovery THEN @ + 1 ELSE @]]
    /\ UNCHANGED <<configured, call>>

\* A provider answers or fails, and the consumer of a stream comes back.
Served(r) ==
    \/ Answer(r) \/ EndStream(r)
    \/ \E last \in BOOLEAN : SendChunk(r, last)
    \/ \E e \in Error : PrimaryFails(r, e)
    \/ RetryFails(r) \/ FallbackFails(r)

RequestNext(r) ==
    \/ \E m \in Modes : Begin(r, m) \/ BeginWithout(r, m)
    \/ Served(r) \/ Abandon(r)

Next == (\E r \in Request : RequestNext(r)) \/ Status \/ Tick

Spec == Init /\ [][Next]_vars

----------------------------------------------------------------------------
(* Properties.                                                             *)

\* A breaker counts at least Threshold failures exactly when it is not
\* closed, whichever requests report late: one that started before the
\* breaker opened may close it, or fail again while it is half-open.
BreakerMatchesCount ==
    \A p \in Provider : breaker[p].fails >= Threshold <=> breaker[p].state # "closed"

\* "All AI providers are currently unavailable": a configured router refuses
\* a request without an attempt at its last provider only within
\* recovery_seconds of a failure of that provider.
OfflineOnlyWhileFailing ==
    [][\A r \in Request :
        HasPrimary /\ call[r].outcome # "offline" /\ call'[r].outcome = "offline" =>
            LET last == breaker[IF HasFallback THEN "fallback" ELSE "primary"] IN
            last.fails >= Threshold /\ last.age < Recovery]_vars

\* "Fall back to the secondary provider on persistent failures": with a
\* fallback, a request that has sent nothing fails with the primary's error
\* only if its first attempt met one that "would fail on both providers".
PrimaryFailureHidden ==
    \A r \in Request :
        HasFallback /\ call[r].outcome = "primary_error" /\ call[r].sent = {} =>
            call[r].exc = "final"

----------------------------------------------------------------------------
(* The contract of the callers: a reply that dried up has failed.          *)

PhaseOf(c) ==
    CASE c.outcome = "answer" -> "complete"
      [] c.outcome \notin {"answer", "none"} -> "failed"
      [] c.outcome = "none" -> IF c.sent = {} THEN "waiting" ELSE "sending"

Contract == INSTANCE ReplyContract WITH
    phase  <- [r \in Request |-> PhaseOf(call[r])],
    source <- [r \in Request |-> call[r].sent]

\* No retry, no fallback and no interleaving of requests mixes the output of
\* two attempts in one reply or adds to a reply that has ended.
MeetsContract == Contract!Spec

============================================================================
