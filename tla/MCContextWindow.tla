-------------------------- MODULE MCContextWindow --------------------------
(* Instances of ContextWindow for TLC. *)
EXTENDS ContextWindow

CONSTANTS
    Sizes,   \* lengths of messages
    Longest  \* number of messages of the longest history

SomeMessage == [role: {"user", "assistant"}, size: Sizes]

AllHistories == UNION {[1..n -> SomeMessage] : n \in 0..Longest}

============================================================================
