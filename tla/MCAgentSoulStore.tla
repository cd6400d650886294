-------------------------- MODULE MCAgentSoulStore --------------------------
(***************************************************************************)
(* Instances of AgentSoulStore and SoulDocument for TLC.  The two share no *)
(* variable: each is explored while the other rests.                       *)
(***************************************************************************)
EXTENDS AgentSoulStore, SoulDocument, TLC

StoreRests    == soulRow = NoRow /\ \A c \in Calls : pc[c] = "idle"
DocumentRests == soul = NoSoul

ContentInit == Init /\ DocumentInit

ContentNext ==
  \/ DocumentRests /\ Next /\ UNCHANGED documentVars
  \/ StoreRests /\ DocumentNext /\ UNCHANGED vars

ContentSpec == ContentInit /\ [][ContentNext]_<<vars, documentVars>>

\* Calls and documents are interchangeable in the safety properties.
Interchangeable == Permutations(Calls) \cup Permutations(Documents)

=============================================================================
