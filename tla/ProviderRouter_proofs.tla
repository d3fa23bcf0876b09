------------------------ MODULE ProviderRouter_proofs ------------------------
(***************************************************************************)
(* Theorems about ProviderRouter, for any number of requests, any          *)
(* configuration of providers and any threshold and recovery time.         *)
(***************************************************************************)
EXTENDS ProviderRouter, TLAPS

----------------------------------------------------------------------------
(* The inductive invariant.  A call under way has sent content from the    *)
(* attempt it is at and from no other, which is what a step that leaves    *)
(* the primary relies on.                                                  *)

GoodBreaker == {b \in Breaker : b.fails >= Threshold <=> b.state # "closed"}

GoodCall == {c \in Call :
    /\ c.outcome = "none" <=> c.stage # "ended"
    /\ c.stage = "idle" => c.sent = {}
    /\ c.stage \in Attempt => c.sent \subseteq {c.stage}
    /\ c.stage \in Attempt /\ c.mode = "generate" => c.sent = {}
    /\ c.final => c.sent # {}}

Inv ==
    /\ configured \in Configs
    /\ breaker \in [Provider -> GoodBreaker]
    /\ call \in [Request -> GoodCall]

\* What a step of a call may do to its reply.
Stutters(c, d)    == PhaseOf(d) = PhaseOf(c) /\ d.sent = c.sent
Sends(c, d, a)    == PhaseOf(c) = "waiting" /\ PhaseOf(d) = "sending" /\ d.sent = {a}
Completes(c, d, a) ==
    /\ PhaseOf(c) = "waiting" \/ (PhaseOf(c) = "sending" /\ c.sent = {a})
    /\ PhaseOf(d) = "complete" /\ d.sent = {a}
Fails(c, d) ==
    PhaseOf(c) \in {"waiting", "sending"} /\ PhaseOf(d) = "failed" /\ d.sent = c.sent

ReplyStep(c, d) ==
    \/ Stutters(c, d) \/ Fails(c, d)
    \/ \E a \in Attempt : Sends(c, d, a) \/ Completes(c, d, a)

\* A step of r's call, as far as the invariant and the contract go.
CallStep(r) == \E d \in GoodCall :
    call' = [call EXCEPT ![r] = d] /\ ReplyStep(call[r], d)

----------------------------------------------------------------------------

\* The operations of a breaker keep it consistent.
LEMMA BreakerOperations ==
    ASSUME NEW b \in GoodBreaker
    PROVE  /\ Observed(b) \in GoodBreaker
           /\ Succeeded(b) \in GoodBreaker
           /\ Failed(b) \in GoodBreaker
  <1>1. /\ b \in Breaker /\ b.fails \in Nat /\ b.age \in 0..Recovery
        /\ b.state \in {"closed", "open", "half_open"}
        /\ b.fails >= Threshold <=> b.state # "closed"
    BY DEF GoodBreaker, Breaker
  <1>2. 0 \in 0..Recovery
    BY BreakerAssumption
  <1>3. Observed(b) \in GoodBreaker
    <2>1. CASE b.state = "open" /\ b.age >= Recovery
      <3>1. Observed(b) = [b EXCEPT !.state = "half_open"]
        BY <2>1 DEF Observed
      <3>2. QED
        BY <1>1, <2>1, <3>1 DEF GoodBreaker, Breaker
    <2>2. CASE ~(b.state = "open" /\ b.age >= Recovery)
      BY <2>2 DEF Observed
    <2>3. QED
      BY <2>1, <2>2
  <1>4. Succeeded(b) \in GoodBreaker
    <2>1. Succeeded(b) \in Breaker /\ Succeeded(b).fails = 0
          /\ Succeeded(b).state = "closed"
      BY <1>1 DEF Succeeded, Breaker
    <2>2. QED
      BY <2>1, BreakerAssumption DEF GoodBreaker
  <1>5. Failed(b) \in GoodBreaker
    <2> DEFINE st == IF b.fails + 1 >= Threshold THEN "open" ELSE b.state
    <2>1. st \in {"closed", "open", "half_open"} /\ b.fails + 1 \in Nat
      BY <1>1
    <2>2. Failed(b) = [b EXCEPT !.fails = b.fails + 1, !.age = 0, !.state = st]
      BY DEF Failed
    <2>3. b.fails + 1 >= Threshold <=> st # "closed"
      BY <1>1, BreakerAssumption
    <2> HIDE DEF st
    <2>4. Failed(b) \in Breaker /\ Failed(b).fails = b.fails + 1 /\ Failed(b).state = st
      BY <1>1, <1>2, <2>1, <2>2 DEF Breaker
    <2>5. QED
      BY <2>3, <2>4 DEF GoodBreaker
  <1>6. QED
    BY <1>3, <1>4, <1>5

Ended == Outcome \ {"none", "answer"}

\* The contract's phase of a call, from its stage and outcome.
LEMMA Phases ==
    ASSUME NEW c \in GoodCall
    PROVE  /\ c.stage # "ended" => PhaseOf(c) = IF c.sent = {} THEN "waiting" ELSE "sending"
           /\ c.outcome = "answer" => PhaseOf(c) = "complete"
           /\ c.outcome \in Ended => PhaseOf(c) = "failed"
  BY DEF GoodCall, PhaseOf, Ended

\* A call that ends without an answer fails; c is the call with what the
\* step has noted in it.
LEMMA EndStep ==
    ASSUME Inv, NEW r \in Request, NEW c \in Call, call[r].stage # "ended",
           c.sent = call[r].sent, c.final = call[r].final,
           NEW o \in Ended, End(r, c, o)
    PROVE  CallStep(r)
  <1> DEFINE d == [c EXCEPT !.stage = "ended", !.outcome = o]
  <1>1. call[r] \in GoodCall
    BY DEF Inv
  <1>2. o \in Outcome /\ "ended" \in {"idle", "ended"} \cup Attempt
    BY DEF Outcome, Ended
  <1>3. d \in Call /\ d.stage = "ended" /\ d.outcome = o
        /\ d.sent = c.sent /\ d.final = c.final
    BY <1>2 DEF Call
  <1>4. "ended" \notin Attempt /\ o # "none"
    BY DEF Attempt, Ended
  <1>5. d \in GoodCall
    BY <1>1, <1>3, <1>4 DEF GoodCall
  <1>6. PhaseOf(d) = "failed" /\ PhaseOf(call[r]) \in {"waiting", "sending"}
    BY <1>1, <1>3, <1>5, Phases
  <1>7. Fails(call[r], d)
    BY <1>3, <1>6 DEF Fails
  <1>8. call' = [call EXCEPT ![r] = d]
    BY DEF End
  <1>9. QED
    BY <1>5, <1>7, <1>8 DEF CallStep, ReplyStep

\* A call that goes on with another attempt has sent nothing yet.
LEMMA GoStep ==
    ASSUME Inv, NEW r \in Request, NEW c \in Call, call[r].stage # "ended",
           call[r].sent = {}, c.sent = {}, c.final = call[r].final, c.outcome = "none",
           NEW a \in Attempt, Go(r, c, a)
    PROVE  CallStep(r)
  <1> DEFINE d == [c EXCEPT !.stage = a]
  <1>1. call[r] \in GoodCall
    BY DEF Inv
  <1>2. d \in Call /\ d.stage = a /\ d.outcome = "none" /\ d.sent = {} /\ d.final = c.final
    BY DEF Call
  <1>3. a # "ended" /\ a # "idle"
    BY DEF Attempt
  <1>4. d \in GoodCall
    BY <1>1, <1>2, <1>3 DEF GoodCall
  <1>5. PhaseOf(d) = "waiting" /\ PhaseOf(call[r]) = "waiting"
    BY <1>1, <1>2, <1>3, <1>4, Phases
  <1>6. call' = [call EXCEPT ![r] = d]
    BY DEF Go
  <1>7. QED
    BY <1>2, <1>4, <1>5, <1>6 DEF CallStep, ReplyStep, Stutters

\* Leaving the primary, with nothing known of c but what the callers noted.
LEMMA LeaveStep ==
    ASSUME Inv, NEW r \in Request, NEW c \in Call, call[r].stage # "ended",
           c.sent = call[r].sent, c.final = call[r].final, c.outcome = "none",
           NEW b \in GoodBreaker, LeavePrimary(r, c, b)
    PROVE  CallStep(r) /\ breaker' \in [Provider -> GoodBreaker]
  <1>1. ASSUME c.sent = {}, Go(r, c, "fallback")
        PROVE  CallStep(r)
    BY <1>1, GoStep DEF Attempt
  <1>2. ASSUME End(r, c, "dried") \/ End(r, c, "offline")
        PROVE  CallStep(r)
    BY <1>2, EndStep DEF Ended, Outcome
  <1>3. CallStep(r)
    BY <1>1, <1>2 DEF LeavePrimary, BehindPrimary
  <1>4. breaker \in [Provider -> GoodBreaker] /\ breaker["fallback"] \in GoodBreaker
    BY DEF Inv, Provider
  <1>5. breaker' \in [Provider -> GoodBreaker]
    BY <1>4, BreakerOperations DEF LeavePrimary
  <1>6. QED
    BY <1>3, <1>5

\* The providers are chosen once, at start.
LEMMA ConfigUnchanged == [Next]_vars => UNCHANGED configured
  BY DEF Next, RequestNext, vars, Begin, BeginWithout, Served, Answer, EndStream, SendChunk,
         PrimaryFails, RetryFails, FallbackFails, Abandon, Status, Tick

\* Every step of a call.
LEMMA RequestStep ==
    ASSUME Inv, NEW r \in Request,
           RequestNext(r)
    PROVE  CallStep(r) /\ breaker' \in [Provider -> GoodBreaker]
  <1> DEFINE old == call[r]
  <1>old. /\ old \in GoodCall /\ old \in Call
          /\ old.outcome = "none" <=> old.stage # "ended"
          /\ old.stage = "idle" => old.sent = {}
          /\ old.stage \in Attempt => old.sent \subseteq {old.stage}
          /\ old.stage \in Attempt /\ old.mode = "generate" => old.sent = {}
          /\ old.final => old.sent # {}
    BY DEF Inv, GoodCall
  <1>att. "ended" \notin Attempt /\ "idle" \notin Attempt
          /\ {"primary", "retry", "fallback"} = Attempt
    BY DEF Attempt
  <1>brk. /\ breaker \in [Provider -> GoodBreaker]
          /\ "primary" \in Provider /\ "fallback" \in Provider
          /\ breaker["primary"] \in GoodBreaker /\ breaker["fallback"] \in GoodBreaker
          /\ \A a \in Attempt : Of(a) \in Provider
    BY DEF Inv, Provider, Of
  <1>ends. {"primary_error", "fallback_error", "offline", "gone"} \subseteq Ended
    BY DEF Ended, Outcome
  <1>1. ASSUME NEW m \in Modes, Begin(r, m)
        PROVE  CallStep(r) /\ breaker' \in [Provider -> GoodBreaker]
    <2> DEFINE c == [old EXCEPT !.mode = m]
               b == Observed(breaker["primary"])
    <2>1. m \in {"generate", "stream"} /\ old.stage = "idle"
      BY <1>1, RequestAssumption DEF Begin
    <2>2. c \in Call /\ c.sent = old.sent /\ c.final = old.final /\ c.outcome = "none"
          /\ c.sent = {} /\ old.stage # "ended"
      BY <1>old, <2>1 DEF Call
    <2>3. b \in GoodBreaker
      BY <1>brk, BreakerOperations
    <2> HIDE DEF c, b
    <2>4. CASE Go(r, c, "primary") /\ breaker' = [breaker EXCEPT !["primary"] = b]
      BY <2>2, <2>3, <2>4, <1>brk, <1>att, GoStep
    <2>5. CASE LeavePrimary(r, c, b)
      BY <2>2, <2>3, <2>5, LeaveStep
    <2>6. QED
      BY <1>1, <2>4, <2>5 DEF Begin, c, b
  <1>2. CASE Answer(r) \/ EndStream(r)
    <2> DEFINE a == old.stage
               d == [old EXCEPT !.sent = {a}, !.stage = "ended", !.outcome = "answer"]
    <2>1. a \in Attempt /\ (old.sent = {} \/ old.sent = {a})
      BY <1>2, <1>old DEF Answer, EndStream
    <2>2. d \in Call /\ d.sent = {a} /\ d.stage = "ended" /\ d.outcome = "answer"
      BY <1>old, <2>1 DEF Call, Outcome
    <2>3. d \in GoodCall
      BY <1>att, <2>2 DEF GoodCall
    <2>4. PhaseOf(d) = "complete"
          /\ PhaseOf(old) = IF old.sent = {} THEN "waiting" ELSE "sending"
      BY <1>old, <1>att, <2>1, <2>2, <2>3, Phases
    <2>5. Completes(old, d, a)
      BY <2>1, <2>2, <2>4 DEF Completes
    <2>6. call' = [call EXCEPT ![r] = d]
      <3>1. CASE Answer(r)
        BY <3>1, <1>old DEF Answer, End, Call
      <3>2. CASE EndStream(r)
        <4>1. old.sent = {a}
          BY <3>2, <1>old, <2>1 DEF EndStream
        <4>2. d = [old EXCEPT !.stage = "ended", !.outcome = "answer"]
          BY <4>1, <1>old DEF Call
        <4>3. QED
          BY <3>2, <4>2 DEF EndStream, End
      <3>3. QED
        BY <1>2, <3>1, <3>2
    <2>7. CallStep(r)
      BY <2>1, <2>3, <2>5, <2>6 DEF CallStep, ReplyStep
    <2>8. breaker' = [breaker EXCEPT ![Of(a)] = Succeeded(@)]
      BY <1>2 DEF Answer, EndStream
    <2>9. Of(a) \in Provider /\ Succeeded(breaker[Of(a)]) \in GoodBreaker
      BY <1>brk, <2>1, BreakerOperations
    <2>10. breaker' \in [Provider -> GoodBreaker]
      BY <1>brk, <2>8, <2>9
    <2>11. QED
      BY <2>7, <2>10
  <1>3. ASSUME NEW last \in BOOLEAN, SendChunk(r, last)
        PROVE  CallStep(r) /\ breaker' \in [Provider -> GoodBreaker]
    <2> DEFINE a == old.stage
               d == [old EXCEPT !.sent = @ \cup {a}, !.final = last]
    <2>1. a \in Attempt /\ old.mode = "stream"
      BY <1>3 DEF SendChunk
    <2>2. d \in Call /\ d.sent = {a} /\ d.stage = a /\ d.mode = "stream"
          /\ d.outcome = "none"
      BY <1>old, <1>att, <2>1 DEF Call
    <2>3. d \in GoodCall
      BY <1>att, <2>1, <2>2 DEF GoodCall
    <2>4. PhaseOf(d) = "sending"
          /\ PhaseOf(old) = IF old.sent = {} THEN "waiting" ELSE "sending"
      BY <1>old, <1>att, <2>1, <2>2, <2>3, Phases
    <2>5. Sends(old, d, a) \/ Stutters(old, d)
      BY <1>old, <2>1, <2>2, <2>4 DEF Sends, Stutters
    <2>6. call' = [call EXCEPT ![r] = d]
      BY <1>3, <1>old DEF SendChunk, Inv
    <2>7. QED
      BY <1>3, <1>brk, <2>1, <2>3, <2>5, <2>6 DEF SendChunk, CallStep, ReplyStep
  <1>4. ASSUME NEW e \in Error, PrimaryFails(r, e)
        PROVE  CallStep(r) /\ breaker' \in [Provider -> GoodBreaker]
    <2> DEFINE c == [old EXCEPT !.exc = e]
               b == Failed(breaker["primary"])
    <2>1. old.stage = "primary" /\ old.stage # "ended" /\ old.outcome = "none"
      BY <1>4, <1>old DEF PrimaryFails
    <2>2. c \in Call /\ c.sent = old.sent /\ c.final = old.final /\ c.outcome = "none"
          /\ c.mode = old.mode
      BY <1>old, <2>1 DEF Call
    <2>3. b \in GoodBreaker
      BY <1>brk, BreakerOperations
    <2>4. c.mode = "generate" \/ ~GivesUp(c, e) => old.sent = {}
      BY <1>old, <1>att, <2>1, <2>2 DEF GivesUp
    <2> HIDE DEF c, b
    <2>5. CASE /\ c.mode = "generate" \/ ~GivesUp(c, e)
               /\ Go(r, c, "retry") /\ breaker' = [breaker EXCEPT !["primary"] = b]
      BY <2>1, <2>2, <2>3, <2>4, <2>5, <1>brk, <1>att, GoStep
    <2>6. CASE End(r, c, "primary_error") /\ breaker' = [breaker EXCEPT !["primary"] = b]
      BY <2>1, <2>2, <2>3, <2>6, <1>brk, <1>ends, EndStep
    <2>7. CASE LeavePrimary(r, c, b)
      BY <2>1, <2>2, <2>3, <2>7, LeaveStep
    <2>8. QED
      BY <1>4, <2>5, <2>6, <2>7 DEF PrimaryFails, c, b
  <1>5. ASSUME RetryFails(r)
        PROVE  CallStep(r) /\ breaker' \in [Provider -> GoodBreaker]
    <2> DEFINE c == old
               b == Failed(breaker["primary"])
    <2>1. old.stage = "retry" /\ old.stage # "ended" /\ old.outcome = "none"
      BY <1>5, <1>old DEF RetryFails
    <2>2. c \in Call /\ c.sent = old.sent /\ c.final = old.final /\ c.outcome = "none"
      BY <1>old, <2>1
    <2>3. b \in GoodBreaker
      BY <1>brk, BreakerOperations
    <2> HIDE DEF c, b
    <2>4. CASE End(r, c, "primary_error") /\ breaker' = [breaker EXCEPT !["primary"] = b]
      BY <2>1, <2>2, <2>3, <2>4, <1>brk, <1>ends, EndStep
    <2>5. CASE LeavePrimary(r, c, b)
      BY <2>1, <2>2, <2>3, <2>5, LeaveStep
    <2>6. QED
      BY <1>5, <2>4, <2>5 DEF RetryFails, c, b
  <1>6. CASE FallbackFails(r)
    <2>1. old.stage # "ended" /\ End(r, old, "fallback_error")
      BY <1>6 DEF FallbackFails
    <2>2. Failed(breaker["fallback"]) \in GoodBreaker
      BY <1>brk, BreakerOperations
    <2>3. CallStep(r)
      BY <1>old, <1>ends, <2>1, EndStep
    <2>4. QED
      BY <1>6, <1>brk, <2>2, <2>3 DEF FallbackFails
  <1>7. CASE Abandon(r)
    BY <1>7, <1>old, <1>att, <1>ends, <1>brk, EndStep DEF Abandon
  <1>8. ASSUME NEW m \in Modes, BeginWithout(r, m)
        PROVE  CallStep(r) /\ breaker' \in [Provider -> GoodBreaker]
    <2> DEFINE c == [old EXCEPT !.mode = m]
    <2>1. m \in {"generate", "stream"} /\ old.stage = "idle"
      BY <1>8, RequestAssumption DEF BeginWithout
    <2>2. c \in Call /\ c.sent = old.sent /\ c.final = old.final /\ old.stage # "ended"
      BY <1>old, <2>1 DEF Call
    <2> HIDE DEF c
    <2>3. End(r, c, "offline")
      BY <1>8 DEF BeginWithout, c
    <2>4. QED
      BY <1>8, <1>ends, <1>brk, <2>2, <2>3, EndStep DEF BeginWithout
  <1>9. QED
    BY <1>1, <1>2, <1>3, <1>4, <1>5, <1>6, <1>7, <1>8 DEF RequestNext, Served

\* The clock and the status endpoint touch breakers only.
LEMMA BreakerStep ==
    ASSUME Inv, Status \/ Tick
    PROVE  Inv' /\ UNCHANGED <<configured, call>>
  <1>1. CASE Status
    BY <1>1, BreakerOperations DEF Status, Inv
  <1>2. CASE Tick
    <2>1. ASSUME NEW p \in Provider
          PROVE  [breaker[p] EXCEPT !.age = IF @ < Recovery THEN @ + 1 ELSE @] \in GoodBreaker
      <3>1. breaker[p] \in GoodBreaker
        BY DEF Inv
      <3>2. (IF breaker[p].age < Recovery THEN breaker[p].age + 1 ELSE breaker[p].age)
              \in 0..Recovery
        BY <3>1, BreakerAssumption DEF GoodBreaker, Breaker
      <3>3. QED
        BY <3>1, <3>2 DEF GoodBreaker, Breaker
    <2>2. QED
      BY <1>2, <2>1 DEF Tick, Inv
  <1>3. QED
    BY <1>1, <1>2

\* The invariant holds at start, is kept by every step, and so always holds.
LEMMA InvInit == Init => Inv
  <1> SUFFICES ASSUME Init PROVE Inv
    OBVIOUS
  <1>1. [state |-> "closed", fails |-> 0, age |-> Recovery] \in GoodBreaker
    BY BreakerAssumption DEF GoodBreaker, Breaker
  <1>2. [mode |-> "generate", stage |-> "idle", exc |-> "none", sent |-> {},
         final |-> FALSE, outcome |-> "none"] \in GoodCall
    BY DEF GoodCall, Call, Attempt, Outcome
  <1>3. QED
    BY <1>1, <1>2 DEF Init, Inv

\* Every step keeps it.
LEMMA InvStep == Inv /\ [Next]_vars => Inv'
  <1> SUFFICES ASSUME Inv, [Next]_vars PROVE Inv'
    OBVIOUS
  <1>1. ASSUME NEW r \in Request, RequestNext(r)
        PROVE  Inv'
    BY <1>1, RequestStep, ConfigUnchanged DEF CallStep, Inv
  <1>2. CASE Status \/ Tick
    BY <1>2, BreakerStep
  <1>3. CASE UNCHANGED vars
    BY <1>3 DEF vars, Inv
  <1>4. QED
    BY <1>1, <1>2, <1>3 DEF Next

\* It always holds.
LEMMA Invariance == Spec => []Inv
  BY InvInit, InvStep, PTL DEF Spec

----------------------------------------------------------------------------

\* The breakers and calls keep their types (router.py, both methods).
THEOREM RouterTypes == Spec => []TypeOK
  <1>1. Inv => TypeOK
    BY DEF Inv, TypeOK, GoodBreaker, GoodCall
  <1>2. QED
    BY <1>1, Invariance, PTL

\* A breaker is closed exactly while it counts fewer than failure_threshold
\* failures, in whatever order the requests that share it report.
THEOREM BreakersConsistent == Spec => []BreakerMatchesCount
  <1>1. Inv => BreakerMatchesCount
    BY DEF Inv, BreakerMatchesCount, GoodBreaker
  <1>2. QED
    BY <1>1, Invariance, PTL

\* generate and generate_stream keep the contract of their callers: no reply
\* mixes the output of two attempts, and a reply that has ended stays as it is.
THEOREM RouterMeetsContract == Spec => MeetsContract
  <1> DEFINE ph == [r \in Request |-> PhaseOf(call[r])]
             so == [r \in Request |-> call[r].sent]
  <1>1. Init => Contract!Init
    BY DEF Init, Contract!Init, PhaseOf
  <1>2. Inv /\ [Next]_vars => [Contract!Next]_<<ph, so>>
    <2> SUFFICES ASSUME Inv, [Next]_vars
                 PROVE  [Contract!Next]_<<ph, so>>
      OBVIOUS
    <2>1. ASSUME UNCHANGED call
          PROVE  UNCHANGED <<ph, so>>
      BY <2>1
    <2>2. ASSUME NEW r \in Request, CallStep(r)
          PROVE  [Contract!Next]_<<ph, so>>
      <3>1. PICK d \in GoodCall : call' = [call EXCEPT ![r] = d] /\ ReplyStep(call[r], d)
        BY <2>2 DEF CallStep
      <3>2. /\ ph' = [ph EXCEPT ![r] = PhaseOf(d)]
            /\ so' = [so EXCEPT ![r] = d.sent]
            /\ ph[r] = PhaseOf(call[r]) /\ so[r] = call[r].sent
        BY <3>1 DEF Inv
      <3>3. CASE Stutters(call[r], d)
        BY <3>2, <3>3 DEF Stutters
      <3>4. CASE Fails(call[r], d)
        BY <3>2, <3>4 DEF Fails, Contract!Next, Contract!Fail
      <3>5. ASSUME NEW a \in Attempt, Sends(call[r], d, a)
            PROVE  Contract!Send(r, a)
        BY <3>2, <3>5 DEF Sends, Contract!Send
      <3>6. ASSUME NEW a \in Attempt, Completes(call[r], d, a)
            PROVE  Contract!Complete(r, a)
        BY <3>2, <3>6 DEF Completes, Contract!Complete
      <3>7. QED
        BY <3>1, <3>3, <3>4, <3>5, <3>6 DEF ReplyStep, Contract!Next
    <2>3. CASE UNCHANGED vars
      BY <2>1, <2>3 DEF vars
    <2>4. CASE Status \/ Tick
      BY <2>1, <2>4, BreakerStep
    <2>5. QED
      BY <2>2, <2>3, <2>4, RequestStep DEF Next
  <1>3. QED
    BY <1>1, <1>2, Invariance, PTL DEF Spec, MeetsContract, Contract!Spec

----------------------------------------------------------------------------
(* Errors.  A retry of a stream presupposes a fallback: without this a     *)
(* stream could end up offline with no breaker open.                       *)

Hides(c) ==
    /\ c.stage = "retry" /\ c.mode = "stream" => HasFallback
    /\ HasFallback /\ c.outcome = "primary_error" /\ c.sent = {} => c.exc = "final"

ErrorInv == \A r \in Request : Hides(call[r])

\* The last provider a request could be given to has just failed.
LastFailing ==
    LET last == breaker[IF HasFallback THEN "fallback" ELSE "primary"] IN
    last.fails >= Threshold /\ last.age < Recovery

RefusedInTime(r) == HasPrimary /\ call'[r].outcome = "offline" => LastFailing

\* A breaker refuses a request only in the recovery time of a last failure.
LEMMA Refusal ==
    ASSUME NEW b \in GoodBreaker, ~Allows(b)
    PROVE  b.fails >= Threshold /\ b.age < Recovery
  <1>1. b.state \in {"closed", "open", "half_open"} /\ b.age \in 0..Recovery
        /\ (b.fails >= Threshold <=> b.state # "closed")
    BY DEF GoodBreaker, Breaker
  <1>2. ~(b.state = "open" /\ b.age >= Recovery)
    <2>1. ASSUME b.state = "open" /\ b.age >= Recovery PROVE FALSE
      <3>1. Observed(b).state = "half_open"
        BY <2>1 DEF Observed, GoodBreaker, Breaker
      <3>2. QED
        BY <3>1 DEF Allows
    <2>2. QED
      BY <2>1
  <1>3. b.state = "open"
    BY <1>1, <1>2 DEF Allows, Observed
  <1>4. QED
    BY <1>1, <1>2, <1>3, BreakerAssumption

\* What a step that ends a call, or takes it on, leaves of it.
LEMMA Ending ==
    ASSUME Inv, NEW r \in Request, NEW c \in Call, NEW o \in Outcome, End(r, c, o)
    PROVE  /\ call'[r].stage = "ended" /\ call'[r].outcome = o
           /\ call'[r].sent = c.sent /\ call'[r].exc = c.exc
  BY DEF End, Inv, Call

\* A call that goes on takes the attempt as its stage, with the outcome it had.
LEMMA GoingOn ==
    ASSUME Inv, NEW r \in Request, NEW c \in Call, NEW a \in Attempt, Go(r, c, a)
    PROVE  /\ call'[r].stage = a /\ call'[r].outcome = c.outcome
           /\ call'[r].mode = c.mode
  BY DEF Go, Inv, Call

\* What leaving the primary does, when c still knows no outcome.
LEMMA LeavingErrors ==
    ASSUME Inv, NEW r \in Request, NEW c \in Call, c.outcome = "none",
           BehindPrimary(r, c), HasFallback \/ ~Allows(breaker["primary"])
    PROVE  Hides(call'[r]) /\ RefusedInTime(r)
  <1>1. CASE c.sent # {} /\ End(r, c, "dried")
    BY <1>1, Ending DEF Hides, RefusedInTime, Outcome
  <1>2. CASE c.sent = {} /\ FallbackAllowed /\ Go(r, c, "fallback")
    BY <1>2, GoingOn DEF Hides, RefusedInTime, Attempt
  <1>3. CASE c.sent = {} /\ ~FallbackAllowed /\ End(r, c, "offline")
    <2>1. LastFailing
      <3>1. breaker["primary"] \in GoodBreaker /\ breaker["fallback"] \in GoodBreaker
        BY DEF Inv, Provider
      <3>2. CASE HasFallback
        BY <1>3, <3>1, <3>2, Refusal DEF FallbackAllowed, LastFailing
      <3>3. CASE ~HasFallback
        BY <3>1, <3>3, Refusal DEF LastFailing
      <3>4. QED
        BY <3>2, <3>3
    <2>2. QED
      BY <1>3, <2>1, Ending DEF Hides, RefusedInTime, Outcome
  <1>4. QED
    BY <1>1, <1>2, <1>3 DEF BehindPrimary

\* Every step of a call, as far as its error is concerned.
LEMMA RequestErrors ==
    ASSUME Inv, ErrorInv, NEW r \in Request,
           RequestNext(r)
    PROVE  Hides(call'[r]) /\ RefusedInTime(r)
  <1> DEFINE old == call[r]
  <1>old. /\ old \in Call /\ Hides(old)
          /\ old.outcome = "none" <=> old.stage # "ended"
    BY DEF Inv, GoodCall, ErrorInv
  <1>att. "ended" \notin Attempt /\ "idle" \notin Attempt
          /\ {"primary", "retry", "fallback"} = Attempt
    BY DEF Attempt
  <1>1. ASSUME NEW m \in Modes, Begin(r, m)
        PROVE  Hides(call'[r]) /\ RefusedInTime(r)
    <2> DEFINE c == [old EXCEPT !.mode = m]
    <2>1. c \in Call /\ c.outcome = "none"
      BY <1>1, <1>old, RequestAssumption DEF Begin, Call
    <2> HIDE DEF c
    <2>2. CASE Go(r, c, "primary")
      BY <1>att, <2>1, <2>2, GoingOn DEF Hides, RefusedInTime
    <2>3. CASE ~Allows(breaker["primary"]) /\ BehindPrimary(r, c)
      BY <2>1, <2>3, LeavingErrors
    <2>4. QED
      BY <1>1, <2>2, <2>3 DEF Begin, LeavePrimary, c
  <1>2. ASSUME NEW m \in Modes, BeginWithout(r, m)
        PROVE  Hides(call'[r]) /\ RefusedInTime(r)
    <2> DEFINE c == [old EXCEPT !.mode = m]
    <2>1. c \in Call
      BY <1>2, <1>old, RequestAssumption DEF Call
    <2> HIDE DEF c
    <2>2. End(r, c, "offline") /\ ~HasPrimary
      BY <1>2 DEF BeginWithout, c
    <2>3. QED
      BY <2>1, <2>2, Ending DEF Hides, RefusedInTime, Outcome
  <1>3. CASE Answer(r)
    <2> DEFINE c == [old EXCEPT !.sent = {old.stage}]
    <2>1. c \in Call
      BY <1>3, <1>old DEF Answer, Call
    <2> HIDE DEF c
    <2>2. End(r, c, "answer")
      BY <1>3 DEF Answer, c
    <2>3. QED
      BY <2>1, <2>2, Ending DEF Hides, RefusedInTime, Outcome
  <1>4. CASE EndStream(r)
    BY <1>4, <1>old, Ending DEF EndStream, Hides, RefusedInTime, Outcome
  <1>5. ASSUME NEW last \in BOOLEAN, SendChunk(r, last)
        PROVE  Hides(call'[r]) /\ RefusedInTime(r)
    <2>1. /\ call'[r].stage = old.stage /\ call'[r].mode = old.mode
          /\ call'[r].outcome = old.outcome
      BY <1>5 DEF SendChunk, Inv, GoodCall, Call
    <2>2. old.outcome = "none"
      BY <1>5, <1>old, <1>att DEF SendChunk
    <2>3. QED
      BY <1>old, <2>1, <2>2 DEF Hides, RefusedInTime
  <1>6. ASSUME NEW e \in Error, PrimaryFails(r, e)
        PROVE  Hides(call'[r]) /\ RefusedInTime(r)
    <2> DEFINE c == [old EXCEPT !.exc = e]
    <2>1. c \in Call /\ c.outcome = "none" /\ c.exc = e
      BY <1>6, <1>old DEF PrimaryFails, Call
    <2> HIDE DEF c
    <2>2. CASE (c.mode = "generate" \/ ~GivesUp(c, e)) /\ Go(r, c, "retry")
      BY <1>att, <2>1, <2>2, GoingOn DEF Hides, RefusedInTime, GivesUp
    <2>3. CASE GivesUp(c, e) /\ End(r, c, "primary_error")
      BY <2>1, <2>3, Ending DEF Hides, RefusedInTime, GivesUp, Outcome
    <2>4. CASE ~GivesUp(c, e) /\ BehindPrimary(r, c)
      BY <2>1, <2>4, LeavingErrors DEF GivesUp
    <2>5. QED
      BY <1>6, <2>2, <2>3, <2>4 DEF PrimaryFails, LeavePrimary, c
  <1>7. CASE RetryFails(r)
    <2>1. old.stage = "retry" /\ old.outcome = "none"
      BY <1>7, <1>old DEF RetryFails
    <2>2. CASE GivesUp(old, old.exc) /\ End(r, old, "primary_error")
      BY <1>old, <2>2, Ending DEF Hides, RefusedInTime, GivesUp, Outcome
    <2>3. CASE ~(old.mode = "generate" /\ GivesUp(old, old.exc)) /\ BehindPrimary(r, old)
      <3>1. HasFallback
        BY <1>old, <2>1, <2>3 DEF Hides, GivesUp, Call
      <3>2. QED
        BY <1>old, <2>1, <2>3, <3>1, LeavingErrors
    <2>4. QED
      BY <1>7, <2>2, <2>3 DEF RetryFails, LeavePrimary
  <1>8. CASE FallbackFails(r)
    BY <1>8, <1>old, Ending DEF FallbackFails, Hides, RefusedInTime, Outcome
  <1>9. CASE Abandon(r)
    BY <1>9, <1>old, Ending DEF Abandon, Hides, RefusedInTime, Outcome
  <1>10. QED
    BY <1>1, <1>2, <1>3, <1>4, <1>5, <1>6, <1>7, <1>8, <1>9 DEF RequestNext, Served

\* Only one call changes in a step.
LEMMA OneCall ==
    ASSUME Inv, [Next]_vars
    PROVE  \/ UNCHANGED call
           \/ \E r \in Request :
                /\ RequestNext(r)
                /\ \A u \in Request \ {r} : call'[u] = call[u]
  <1>1. ASSUME NEW r \in Request, CallStep(r)
        PROVE  \A u \in Request \ {r} : call'[u] = call[u]
    BY <1>1 DEF CallStep, Inv
  <1>2. QED
    BY <1>1, RequestStep, BreakerStep DEF Next, vars

\* ErrorInv is kept by every step, and so always holds.
LEMMA ErrorStep == Inv /\ ErrorInv /\ [Next]_vars => ErrorInv'
  <1> SUFFICES ASSUME Inv, ErrorInv, [Next]_vars, NEW u \in Request
               PROVE  Hides(call[u])'
    BY DEF ErrorInv
  <1>1. UNCHANGED configured
    BY ConfigUnchanged
  <1>2. Hides(call[u])
    BY DEF ErrorInv
  <1>3. Hides(call'[u])
    BY <1>2, OneCall, RequestErrors
  <1>4. QED
    BY <1>1, <1>3 DEF Hides, HasFallback

\* It always holds.
LEMMA ErrorInvariance == Spec => []ErrorInv
  <1>1. Init => ErrorInv
    BY DEF Init, ErrorInv, Hides
  <1>2. QED
    BY <1>1, ErrorStep, Invariance, PTL DEF Spec

\* With a fallback configured a request that has sent nothing fails with the
\* primary's error only if that error is one of NON_FALLBACK_CODES.
THEOREM PrimaryFailuresHidden == Spec => []PrimaryFailureHidden
  <1>1. ErrorInv => PrimaryFailureHidden
    BY DEF ErrorInv, Hides, PrimaryFailureHidden
  <1>2. QED
    BY <1>1, ErrorInvariance, PTL

\* A configured router reports "All AI providers are currently unavailable"
\* only within recovery_seconds of a failure of its last provider, for
\* whatever interleaving of requests, retries and the status endpoint.
THEOREM OfflineWhileFailing == Spec => OfflineOnlyWhileFailing
  <1> DEFINE A == \A r \in Request :
        HasPrimary /\ call[r].outcome # "offline" /\ call'[r].outcome = "offline" =>
            LET last == breaker[IF HasFallback THEN "fallback" ELSE "primary"] IN
            last.fails >= Threshold /\ last.age < Recovery
  <1>1. Inv /\ ErrorInv /\ [Next]_vars => [A]_vars
    <2> SUFFICES ASSUME Inv, ErrorInv, [Next]_vars, NEW u \in Request, HasPrimary,
                        call[u].outcome # "offline", call'[u].outcome = "offline"
                 PROVE  LastFailing
      BY DEF LastFailing
    <2>1. PICK r \in Request :
            /\ RequestNext(r)
            /\ \A w \in Request \ {r} : call'[w] = call[w]
      BY OneCall
    <2>2. u = r
      BY <2>1
    <2>3. QED
      BY <2>1, <2>2, RequestErrors DEF RefusedInTime
  <1>2. QED
    BY <1>1, Invariance, ErrorInvariance, PTL DEF Spec, OfflineOnlyWhileFailing

============================================================================
