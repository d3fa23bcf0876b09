------------------------- MODULE MCProviderRouter --------------------------
(* Instances of ProviderRouter for TLC. *)
EXTENDS ProviderRouter, TLC

\* Requests are interchangeable: no action or property tells one from another.
RequestSymmetry == Permutations(Request)

\* Both API keys, either, or none.
EveryConfig == SUBSET {"gemini", "groq"}

============================================================================
