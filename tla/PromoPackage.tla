---------------------------- MODULE PromoPackage ----------------------------
(***************************************************************************)
(* The promo tools of internal/mcpserver/promo_tools.go with               *)
(* internal/cmsapi/promo.go: one package that promotes the article the     *)
(* draft of EditorialDraft becomes.                                        *)
(*                                                                         *)
(* Lesser (external) keeps the package, its review and the release.  A     *)
(* release reserves the package, makes the outbound post and stamps the    *)
(* package with it; it can fail or crash after each.  A package left       *)
(* reserved is reconciled by an operator, who looks whether the post       *)
(* exists.  Body makes one request per call, and tells the caller from     *)
(* Lesser's message whether to call again.                                 *)
(***************************************************************************)
EXTENDS EditorialDraft

CONSTANTS
    Promoted,    \* bound: the associations of articles that get promoted
    MaxHash      \* bound: how often the package is composed

ASSUME HashesAreBounded == MaxHash \in Nat

VARIABLES
    pkg,         \* [state, hash, needed, active, approved]
    release,     \* how far Lesser's release under way got
    post,        \* the content each outbound post was made with
    inspected    \* the content each reviewer read with promo_state or promo_read

promoVars == <<pkg, release, post, inspected>>
editorialVars == <<draftVars, promoVars>>

Hashes == 1..MaxHash

-----------------------------------------------------------------------------
(* What Lesser's messages say *)

\* The causes for which a stamp fails, as far as its message repeats them.
StampCauses == {{}, {"changed concurrently"}, {"not found"}, {"unavailable"}}

\* classifyPromoMessage with the stamp's case after the conflict's.
PromoClassesConflictFirst ==
    <<Entry("conflict", {"changed concurrently"}),
      Entry("stamp_failed", {"created status but could not stamp"}),
      Entry("releasing", {"release is already in progress"}),
      Entry("released", {"is already released"}),
      Entry("approval", {"requires approval from every required reviewer"}),
      Entry("principal", {"requires an active approval"}),
      Entry("not_found", {"not found"}),
      Entry("unavailable", {"unavailable"})>>

\* A failed stamp comes first: whatever made it fail, the post exists.
PromoClasses ==
    <<Entry("stamp_failed", {"created status but could not stamp"}),
      Entry("releasing", {"release is already in progress"}),
      Entry("released", {"is already released"}),
      Entry("content_changed", {"content changed since the reviewer"}),
      Entry("conflict", {"changed concurrently"}),
      Entry("approval", {"requires approval from every required reviewer"}),
      Entry("principal", {"requires an active approval"}),
      Entry("not_found", {"not found"}),
      Entry("validation", {"grant is not active"}),
      Entry("unavailable", {"unavailable"})>>

\* The classes after which the caller is told it may call again.
Retryable ==
    {"content_changed", "conflict", "approval", "principal", "validation"}

\* What the answer to a refused release tells the caller to do, and with what
\* certainty about the outbound post.
ReleaseAdvice(class) ==
    CASE class \in Retryable -> "retry"
      [] class = "stamp_failed" -> "the post exists"
      [] class = "released" -> "the post exists"
      [] class = "releasing" -> "reconcile"
      [] OTHER -> "failed"

PostFact(posts) == IF posts = << >> THEN "no post" ELSE "post"

\* The answer to a release Lesser refused with a message.
RefusedWith(message) ==
    answer' = Says("promo_release",
                     ReleaseAdvice(ClassOf(PromoClasses, message)),
                     PostFact(post'))

-----------------------------------------------------------------------------
(* promo_compose, promo_review_share, promo_review_submit *)

PromoInit ==
    /\ DraftInit
    /\ pkg = [state |-> "none", hash |-> 0,
              needed |-> {}, active |-> {}, approved |-> {}]
    /\ release = "idle"
    /\ post = << >>
    /\ inspected = [r \in Reviewers |-> {}]

\* Content staged for a published article; whatever was approved is stale.
Compose(c) ==
    /\ MayCall(c) /\ ActsAs(c) = Agent /\ draft.state = "PUBLISHED"
    /\ draft.media \in Promoted
    /\ pkg.state \in {"none", "DRAFT"} /\ pkg.hash < MaxHash
    /\ pkg' = [pkg EXCEPT !.state = "DRAFT", !.hash = @ + 1, !.approved = {}]
    /\ answer' = NoAnswer
    /\ UNCHANGED <<draft, review, upload, call, release, post, inspected>>

\* A reviewer once asked stays needed.
SharePackage(c, r) ==
    /\ MayCall(c) /\ ActsAs(c) = Agent /\ pkg.state = "DRAFT"
    /\ pkg' = [pkg EXCEPT !.needed = @ \cup {r}, !.active = @ \cup {r}]
    /\ answer' = NoAnswer
    /\ UNCHANGED <<draft, review, upload, call, release, post, inspected>>

\* The grant is revoked in Lesser, or its seven days are over.
RevokePackage(r) ==
    /\ r \in pkg.active /\ pkg.state = "DRAFT"
    /\ pkg' = [pkg EXCEPT !.active = @ \ {r}, !.approved = @ \ {r}]
    /\ answer' = NoAnswer
    /\ UNCHANGED <<draft, review, upload, call, release, post, inspected>>

\* The hash filled in for the caller, as a tool that asked for none would.
SentHashCurrent(h) == pkg.hash

\* promo_review_submit sends the hash it is given: of what the caller inspected.
SentHash(h) == h

\* Lesser records a verdict given for the content the package has.
SubmitVerdict(r) ==
    /\ MayCall(r) /\ r \in pkg.active /\ pkg.state = "DRAFT"
    /\ \E h \in Hashes, approves \in BOOLEAN :
         /\ h \in inspected[r]
         /\ SentHash(h) = pkg.hash
         /\ pkg' = [pkg EXCEPT !.approved =
                        IF approves THEN @ \cup {r} ELSE @ \ {r}]
    /\ answer' = NoAnswer
    /\ UNCHANGED <<draft, review, upload, call, release, post, inspected>>

-----------------------------------------------------------------------------
(* promo_state and promo_read *)

\* promoEnvelopeStateForPackage, with the review's word on a staged package.
PackageState ==
    CASE pkg.state = "RELEASING" -> "releasing"
      [] pkg.state = "RELEASED" -> "released"
      [] OTHER -> "staged"

\* What a read says of the outbound post.
ReadGuidance ==
    CASE PackageState = "released" -> "the post exists"
      [] PackageState = "releasing" -> "reconcile"
      [] OTHER -> "no post exists"

\* The agent and active reviewers read the package; a reviewer has then
\* inspected it.
ReadPackage(c) ==
    /\ MayCall(c) /\ pkg.state # "none"
    /\ ActsAs(c) \in {Agent} \cup pkg.active
    /\ answer' = Says("promo_read", ReadGuidance, PostFact(post))
    /\ inspected' = IF c \in Reviewers
                    THEN [inspected EXCEPT ![c] = @ \cup {pkg.hash}]
                    ELSE inspected
    /\ UNCHANGED <<draft, review, upload, call, pkg, release, post>>

-----------------------------------------------------------------------------
(* promo_release *)

\* What Lesser refuses a release for, and the phrase it says so with.
Refusal ==
    CASE pkg.state = "RELEASING" -> {"release is already in progress"}
      [] pkg.state = "RELEASED" -> {"is already released"}
      [] OTHER ->
           IF ~(pkg.needed \subseteq pkg.approved)
           THEN {"requires approval from every required reviewer"}
           ELSE {p \in {"requires an active approval"} : Principal \notin pkg.approved}

\* The request arrives: Lesser reserves the package, or refuses.
Release(c) ==
    /\ MayCall(c) /\ ActsAs(c) = Agent /\ pkg.state # "none"
    /\ IF Refusal = {}
       THEN /\ release = "idle"
            /\ pkg' = [pkg EXCEPT !.state = "RELEASING"]
            /\ release' = "reserved"
            /\ answer' = NoAnswer
            /\ UNCHANGED post
       ELSE /\ UNCHANGED <<pkg, release, post>>
            /\ RefusedWith(Refusal)
    /\ UNCHANGED <<draft, review, upload, call, inspected>>

MakePost ==
    /\ release = "reserved"
    /\ post' = Append(post, pkg.hash)
    /\ release' = "posted"
    /\ answer' = NoAnswer
    /\ UNCHANGED <<draft, review, upload, call, pkg, inspected>>

\* The stamp succeeds, and the answer names the post; or it fails, and the
\* message names it.
Stamp ==
    /\ release = "posted"
    /\ release' = "idle"
    /\ \/ /\ pkg' = [pkg EXCEPT !.state = "RELEASED"]
          /\ answer' = Says("promo_release", "the post exists", PostFact(post))
          /\ UNCHANGED post
       \/ \E cause \in StampCauses :
            /\ UNCHANGED <<pkg, post>>
            /\ RefusedWith({"created status but could not stamp"} \cup cause)
    /\ UNCHANGED <<draft, review, upload, call, inspected>>

\* The release stops where it is; the caller is answered a transport error,
\* which says nothing about calling again.
Crash ==
    /\ release # "idle"
    /\ release' = "idle"
    /\ answer' = Says("promo_release", "failed", PostFact(post))
    /\ UNCHANGED <<draft, review, upload, call, pkg, post, inspected>>

\* The operator stamps a package whose post exists, and frees one without.
Reconcile ==
    /\ pkg.state = "RELEASING" /\ release = "idle"
    /\ pkg' = [pkg EXCEPT !.state = IF post = << >> THEN "DRAFT" ELSE "RELEASED"]
    /\ answer' = NoAnswer
    /\ UNCHANGED <<draft, review, upload, call, release, post, inspected>>

-----------------------------------------------------------------------------

PromoNext ==
    \/ \E c \in Callers :
         \/ Compose(c) \/ ReadPackage(c) \/ Release(c)
         \/ \E r \in Reviewers : SharePackage(c, r)
    \/ \E r \in Reviewers : RevokePackage(r) \/ SubmitVerdict(r)
    \/ MakePost \/ Stamp \/ Crash \/ Reconcile

EditorialNext == (DraftNext /\ UNCHANGED promoVars) \/ PromoNext

EditorialSpec == PromoInit /\ [][EditorialNext]_editorialVars

-----------------------------------------------------------------------------
(* Properties *)

EditorialTypeOK ==
    /\ DraftTypeOK
    /\ pkg.state \in {"none", "DRAFT", "RELEASING", "RELEASED"}
    /\ pkg.hash \in 0..MaxHash
    /\ pkg.approved \subseteq pkg.active /\ pkg.active \subseteq pkg.needed
    /\ release \in {"idle", "reserved", "posted"}
    /\ pkg.state # "none" => draft.state = "PUBLISHED"
    /\ inspected \in [Reviewers -> SUBSET Hashes]
    /\ Len(post) <= 1

\* What an outbound post was made with was read, as it is, by the principal and
\* by every reviewer ever asked: a verdict is for the content whose hash the
\* reviewer inspected (promo_tools.go:314-357), however the package was composed
\* anew, shared and revoked in between.
ReleasedWasInspected ==
    \A i \in DOMAIN post :
        \A r \in pkg.needed \cup {Principal} : post[i] \in inspected[r]

\* Nobody is told to call promo_release again, or that there is no outbound
\* post, when there is one, and nobody is told that there is one when there is
\* not (promo_tools.go:541-580, 672-800): after a stamp that failed for any cause,
\* a crash between post and stamp, a reconciled reservation.
OutboundPostIsToldTruly ==
    answer.tool \in {"promo_release", "promo_read"} =>
        /\ answer.said \in {"retry", "no post exists"} => answer.fact = "no post"
        /\ answer.said = "the post exists" => answer.fact = "post"

\* Advice follows from what is so: to mint or put again, to release again, or
\* that a draft cannot be read.
AdviceIsTrue == AdviceMatchesGrant /\ OutboundPostIsToldTruly /\ AuthorizedReadsAnswer

=============================================================================
