--------------------------- MODULE MCAgentRegistry ---------------------------
(* An instance of AgentDirectory, and with it of AgentRegistry, for TLC. *)
EXTENDS AgentDirectory, TLC

CONSTANTS bob, eve, n1, this

MCNeighbourActor == n1 :> eve
MCPlace == bob :> 1 @@ eve :> 2 @@ this :> 3 @@ n1 :> 4

Interchangeable == Permutations(Calls) \cup Permutations(Spellings)

=============================================================================
