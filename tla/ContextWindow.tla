--------------------------- MODULE ContextWindow ---------------------------
(***************************************************************************)
(* What an AI provider is given of a conversation: AIOrchestrator's        *)
(* _build_request has ContextManager prune the history by count and by     *)
(* estimated tokens, puts the system prompt before it and the user's new   *)
(* message after it, and the provider converts the result for its SDK.     *)
(* A message is its role and its length; it is referred to by its place in *)
(* the history, so pruning is a matter of the first place that is kept.    *)
(***************************************************************************)
EXTENDS Integers, Sequences

CONSTANTS
    Histories,    \* conversation histories: sequences of messages
    MaxMessages,  \* max_history_messages
    MaxTokens,    \* max_context_tokens
    PromptSize,   \* length of the system prompt of the mode
    Provider      \* providers that convert the request: "gemini", "groq"

Message == [role: {"user", "assistant"}, size: Nat]

ASSUME HistoryAssumption == Histories \subseteq Seq(Message)
ASSUME LimitAssumption ==
    MaxMessages \in Nat \ {0} /\ MaxTokens \in Nat \ {0} /\ PromptSize \in Nat \ {0}
ASSUME ProviderAssumption == Provider \subseteq {"gemini", "groq"}

VARIABLES
    stage,     \* where _build_request stands
    history,   \* context.conversation_history
    first,     \* place of the first message kept
    messages,  \* GenerateRequest.messages
    given      \* what the SDK of a provider is given

vars == <<stage, history, first, messages, given>>

\* An item of a request: the prompt, a message of the history by its place, or
\* the user's new message.
Prompt    == [kind |-> "prompt", role |-> "system", place |-> 0]
Kept(i)   == [kind |-> "history", role |-> history[i].role, place |-> i]
New       == [kind |-> "new", role |-> "user", place |-> 0]
Item      == [kind: {"prompt", "history", "new"}, role: {"system", "user", "assistant"},
              place: Nat]
Nothing   == [system |-> <<>>, contents |-> <<>>]

TypeOK ==
    /\ stage \in {"idle", "prune", "build", "convert", "sent"}
    /\ history \in Histories \cup {<<>>}
    /\ first \in 1..(Len(history) + 1)
    /\ messages \in Seq(Item)
    /\ given \in [system: Seq(Item), contents: Seq(Item)]

Init ==
    /\ stage = "idle" /\ history = <<>> /\ first = 1
    /\ messages = <<>> /\ given = Nothing

----------------------------------------------------------------------------
(* Estimates.                                                              *)

\* estimate_tokens: four characters to a token, and one more.
Tokens(size) == IF size = 0 THEN 0 ELSE size \div 4 + 1

\* estimate_messages_tokens of the history from a place on.
TokensFrom(i) ==
    LET sum[n \in 0..Len(history)] ==
            IF n < i THEN 0 ELSE sum[n - 1] + Tokens(history[n].size) + 10
    IN  sum[Len(history)]

\* Variant of Budget: the overhead is not taken off.
BudgetWhole == MaxTokens

\* What the prompt and a buffer of ten leave of the limit.
Budget ==
    LET left == MaxTokens - (Tokens(PromptSize) + 10) IN IF left < 0 THEN 0 ELSE left

----------------------------------------------------------------------------
(* build_context.                                                          *)

\* Variant of LastOnes: no check that the history is longer than that.
LastOnesUnguarded(h) == Len(h) - MaxMessages + 1

\* Phase 1 of prune_messages keeps messages[-keep_last_n:].
LastOnes(h) == IF Len(h) > MaxMessages THEN Len(h) - MaxMessages + 1 ELSE 1

Start(h) ==
    /\ stage = "idle"
    /\ stage' = "prune" /\ history' = h /\ first' = LastOnes(h)
    /\ UNCHANGED <<messages, given>>

\* Variant of TooLong: the last message may go too.
TooLongEmptying == TokensFrom(first) > Budget /\ first <= Len(history)

\* Phase 2 goes on while what is left is over the budget and more than one.
TooLong == TokensFrom(first) > Budget /\ first < Len(history)

PopOldest ==
    /\ stage = "prune" /\ TooLong
    /\ first' = first + 1
    /\ UNCHANGED <<stage, history, messages, given>>

KeptItems == [n \in 1..(Len(history) + 1 - first) |-> Kept(first + n - 1)]

\* The new message is appended after pruning, and not counted.
Build ==
    /\ stage = "prune" /\ ~TooLong
    /\ stage' = "convert"
    /\ messages' = <<Prompt>> \o KeptItems \o <<New>>
    /\ UNCHANGED <<history, first, given>>

\* generate_title asks about the first message only.
BuildTitle ==
    /\ stage = "idle"
    /\ stage' = "convert"
    /\ messages' = <<New>>
    /\ UNCHANGED <<history, first, given>>

----------------------------------------------------------------------------
(* _convert_messages; the request's system_prompt is always set.           *)

\* The messages of the given roles, which a loop over all takes one by one.
OfRoles(roles, s) ==
    LET taken[n \in 0..Len(s)] ==
            IF n = 0 THEN <<>>
            ELSE IF s[n].role \in roles THEN Append(taken[n - 1], s[n]) ELSE taken[n - 1]
    IN  taken[Len(s)]

Spoken == {"user", "assistant"}

\* Variant of GeminiContents: every user's message is held back for the end.
GeminiContentsLastUser ==
    Append(OfRoles({"assistant"}, messages), messages[Len(messages)])

\* Gemini's history, and the last message as a string of its own after it.
GeminiContents ==
    Append(OfRoles(Spoken, SubSeq(messages, 1, Len(messages) - 1)), messages[Len(messages)])

\* Gemini adds every system message to the instruction, so that the prompt of
\* a chat is in it twice; Groq leaves them out.
Convert(p) ==
    /\ stage = "convert" /\ p \in Provider
    /\ stage' = "sent"
    /\ given' = IF p = "gemini"
                THEN [system |-> <<Prompt>> \o OfRoles({"system"}, messages),
                      contents |-> GeminiContents]
                ELSE [system |-> <<Prompt>>, contents |-> OfRoles(Spoken, messages)]
    /\ UNCHANGED <<history, first, messages>>

Sent == stage = "sent" /\ UNCHANGED vars

Next ==
    \/ \E h \in Histories : Start(h)
    \/ PopOldest \/ Build \/ BuildTitle
    \/ \E p \in Provider : Convert(p)
    \/ Sent

Spec == Init /\ [][Next]_vars

----------------------------------------------------------------------------
(* Properties.                                                             *)

\* Places from which the rest of the history is within both limits.
Fitting == {i \in 1..Len(history) :
                Len(history) - i < MaxMessages /\ TokensFrom(i) <= Budget}

\* prune_messages keeps the longest end of the history that fits the limit of
\* messages and the token budget; when even the last message is too long it
\* keeps that one, so a history is never emptied.
LongestEnd ==
    stage \in {"convert", "sent"} /\ history # <<>> =>
        IF Fitting = {} THEN first = Len(history)
        ELSE first \in Fitting /\ \A i \in Fitting : first <= i

\* "keep conversations within model context limits": the token_count of a
\* window of several messages, prompt included, is within max_context_tokens.
\* (The new message comes on top, and one long message may exceed it alone.)
CountWithinLimit ==
    stage \in {"convert", "sent"} /\ first < Len(history) =>
        TokensFrom(first) + Tokens(PromptSize) <= MaxTokens

\* Either provider is given the prompt as instruction and, as contents, each
\* kept message of the history once and in order, then the new message.
ProviderSeesConversation ==
    stage = "sent" =>
        /\ Len(given.system) > 0 /\ \A n \in DOMAIN given.system : given.system[n] = Prompt
        /\ given.contents = KeptItems \o <<New>>

============================================================================
