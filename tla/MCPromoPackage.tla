---------------------------- MODULE MCPromoPackage ----------------------------
(* A small instance of PromoPackage with EditorialDraft: an author and a    *)
(* guest in its name, the principal and one more reviewer, two images.      *)
(*                                                                          *)
(* A package reads of the draft that it is published and what is bound to   *)
(* it, and neither changes any more; nothing of the draft reads a package.  *)
(* So a behaviour in which the tools of drafts and images rest once there   *)
(* is a package shows all that either can do.                               *)
EXTENDS PromoPackage

MCPromoted == {<<[id |-> "m1", role |-> "HERO", pos |-> Nowhere]>>}

PromotionNext ==
  \/ pkg.state = "none" /\ DraftNext /\ UNCHANGED promoVars
  \/ PromoNext

PromotionSpec == PromoInit /\ [][PromotionNext]_editorialVars
=============================================================================
