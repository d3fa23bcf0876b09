---------------------------- MODULE MCChatTurns ----------------------------
(* Instances of ChatTurns for TLC. *)
EXTENDS ChatTurns, TLC

\* Turns are interchangeable: no action or property tells one from another.
TurnSymmetry == Permutations(Turn)

============================================================================
