---------------------- MODULE MCAgentInstructionsStore ----------------------
(* Instances of AgentInstructionsStore for TLC. *)
EXTENDS AgentInstructionsStore, TLC

\* Calls and texts are interchangeable in the safety properties.
Interchangeable == Permutations(Calls) \cup Permutations(Texts)

=============================================================================
