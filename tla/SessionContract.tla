-------------------------- MODULE SessionContract --------------------------
(* What a token promises.  It is good from its issue on, stale once it     *)
(* has expired, over once it is revoked or its session is deleted, and     *)
(* never goes back.  A request is let in only with the token it presented, *)
(* which had not expired then and is not over now.  The promise is about   *)
(* letting in: it binds nothing that the request does afterwards.          *)
EXTENDS FiniteSets

CONSTANTS
    Token,   \* tokens that may be issued
    Request  \* requests that may carry one

VARIABLES
    life,    \* what has become of each token
    shown,   \* the token each request has presented
    pass     \* the token each request was let in with

vars == <<life, shown, pass>>

Life    == {"none", "good", "stale", "over"}
NoToken == "no token"

Init ==
    /\ life \in [Token -> {"none", "good"}]
    /\ shown = [r \in Request |-> NoToken]
    /\ pass = [r \in Request |-> NoToken]

Issue(t) ==
    /\ life[t] = "none"
    /\ life' = [life EXCEPT ![t] = "good"]
    /\ UNCHANGED <<shown, pass>>

\* Any number of tokens may end at once: log out everywhere, delete account.
Onward == {<<"good", "stale">>, <<"good", "over">>, <<"stale", "over">>}

Fade ==
    /\ life' \in [Token -> Life]
    /\ \A t \in Token : life'[t] = life[t] \/ <<life[t], life'[t]>> \in Onward
    /\ UNCHANGED <<shown, pass>>

Present(r, t) ==
    /\ shown[r] = NoToken /\ life[t] \in {"good", "over"}
    /\ shown' = [shown EXCEPT ![r] = t]
    /\ UNCHANGED <<life, pass>>

LetIn(r, t) ==
    /\ pass[r] = NoToken /\ shown[r] = t /\ life[t] \in {"good", "stale"}
    /\ pass' = [pass EXCEPT ![r] = t]
    /\ UNCHANGED <<life, shown>>

Next ==
    \/ \E t \in Token : Issue(t)
    \/ Fade
    \/ \E r \in Request, t \in Token : Present(r, t) \/ LetIn(r, t)

Spec == Init /\ [][Next]_vars

============================================================================
