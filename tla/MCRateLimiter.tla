--------------------------- MODULE MCRateLimiter ---------------------------
(* Instances of RateLimiter for TLC. *)
EXTENDS RateLimiter

\* rate_limit_chat and rate_limit_global, scaled down.
Limits == [p \in {"chat", "global"} |-> IF p = "chat" THEN 1 ELSE 2]

============================================================================
