---------------------------- MODULE MCInstallPlan ----------------------------
(* Instances of InstallPlan for TLC. *)
EXTENDS InstallPlan, TLC

\* Calls of one kind are interchangeable, and so are documents.
Interchangeable ==
  Permutations(Plans) \cup Permutations(Redeemers) \cup Permutations(Documents)

=============================================================================
