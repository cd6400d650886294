--------------------------- MODULE MCDownloadGrant ---------------------------
(* Instances of DownloadGrant for TLC. *)
EXTENDS DownloadGrant, TLC

\* Grants, redeemers and bindings are interchangeable.
Interchangeable ==
  Permutations(Grants) \cup Permutations(Redeemers) \cup Permutations(Bindings)

=============================================================================
