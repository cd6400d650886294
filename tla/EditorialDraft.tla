--------------------------- MODULE EditorialDraft ---------------------------
(***************************************************************************)
(* The article and media tools of internal/mcpserver (article_tools.go,    *)
(* article_review_tools.go, article_published_tools.go, media_tools.go)    *)
(* with the CMS client they call (internal/cmsapi), around one draft of    *)
(* one agent.                                                              *)
(*                                                                         *)
(* Lesser (external) keeps the draft, its ordered media associations, the  *)
(* review grants and verdicts and the upload grants, and decides who may   *)
(* read and write them.  Body makes one or two requests per tool call: it  *)
(* reads, checks or computes, and writes.  Between two requests of a call  *)
(* other calls go on: the agent's own, those of guests with a share grant, *)
(* who act as the agent, and those of reviewers.                           *)
(*                                                                         *)
(* A change of the content or of the media re-hashes the draft, so that    *)
(* approvals recorded before are stale: `approved` holds the current ones. *)
(***************************************************************************)
EXTENDS Integers, Sequences, FiniteSets, FiniteSetsExt, SequencesExt

CONSTANTS
    Agent,        \* the author
    Guests,       \* callers with a share grant on the agent
    Reviewers,    \* accounts drafts are shared with for review
    Principal,    \* the reviewer whose approval is always needed
    Media,        \* the images the agent uploads
    AtFirst,      \* the images admitted before the behaviour begins
    MaxPosition,  \* bound: inline positions callers name
    MaxCalls,     \* bound: calls under way at the same time
    MaxLists      \* bound: those among them that replace the associations

ASSUME PrincipalReviews == Principal \in Reviewers
ASSUME PositionsAreBounded == MaxPosition \in Nat

VARIABLES
    draft,    \* [state, media]: the draft and its associations, in order
    review,   \* [active, approved]: reviewers granted, and current approvals
    upload,    \* the state of each image's upload grant
    call,     \* the call of each caller between its two requests
    answer    \* the answer the last step gave, or NoAnswer

draftVars == <<draft, review, upload, call, answer>>

Callers == {Agent} \cup Guests \cup Reviewers

Roles == {"HERO", "INLINE"}
Nowhere == -1          \* an association that is not inline has no position
Positions == Nowhere..(MaxPosition + Cardinality(Media))
Usage == {u \in [id : Media, role : Roles, pos : Positions] :
              u.role = "INLINE" <=> u.pos # Nowhere}

ListTools == {"attach", "detach", "reorder"}

Idle == [tool |-> "idle"]
NoAnswer == [tool |-> "none", said |-> "none", fact |-> "none"]
Says(tool, said, fact) == [tool |-> tool, said |-> said, fact |-> fact]

-----------------------------------------------------------------------------
(* Who a caller is *)

\* A guest's requests carry the agent they act as, everyone else's their own
\* account.  This is whom Lesser authorizes.
ActsAs(c) == IF c \in Guests THEN Agent ELSE c

\* Whom body takes for the author of what the caller owns.
AuthorScope(c) == IF c \in Guests THEN Agent ELSE c

OwnedByCaller(c) == AuthorScope(c) = Agent

\* Lesser lets the author and active reviewers read a draft.
MayRead(c) == draft.state # "none" /\ ActsAs(c) \in {Agent} \cup review.active

Entitled(c) == MayRead(c) /\ draft.state = "DRAFT"

-----------------------------------------------------------------------------
(* What Lesser's messages say *)

\* A message is the set of phrases it contains; it has the class of the first
\* entry one of whose phrases it contains.
ClassOf(table, message) ==
    LET hits == {i \in DOMAIN table : table[i].phrases \cap message # {}}
    IN IF hits = {} THEN "unknown" ELSE table[Min(hits)].class

Entry(class, phrases) == [class |-> class, phrases |-> phrases]

\* The sentinels of an upload grant that cannot be finalized (external).
GrantMessage == [none |-> {"not found"},
                 EXPIRED |-> {"expired"},
                 USED |-> {"not minted"},
                 FAILED_DIGEST |-> {"not minted"},
                 MINTED |-> {"not found; put", "object not found", "not found"},
                 OVERSIZE |-> {"not found; put", "object not found", "not found"},
                 EMPTY |-> {"is empty"},
                 WRONG |-> {"do not match"}]

\* classifyUploadGrantMessage with its not-found case first.
UploadClassesNotFoundFirst ==
    <<Entry("expired", {"expired"}),
      Entry("not_minted", {"not minted", "already consumed"}),
      Entry("digest", {"do not match", "digest"}),
      Entry("not_found", {"not found"}),
      Entry("missing", {"not found; put", "object not found"}),
      Entry("empty", {"is empty"})>>

\* A missing object's message also says "not found", so its case comes before.
UploadClasses ==
    <<Entry("expired", {"expired"}),
      Entry("not_minted", {"not minted", "already consumed"}),
      Entry("digest", {"do not match", "digest"}),
      Entry("missing", {"not found; put", "object not found"}),
      Entry("empty", {"is empty"}),
      Entry("not_found", {"not found"})>>

\* Whether something has been put under a grant.
PutCompleted(state) == state \in {"EMPTY", "WRONG", "OVERSIZE", "STORED"}

\* A missing object taken for one that was never put.
AdviceNeverPut(class, completed) ==
    CASE class \in {"expired", "not_minted", "digest"} -> "mint again"
      [] class \in {"missing", "empty"} -> "put the bytes"
      [] OTHER -> "no such grant"

\* What a refused finalize tells a caller to do whose PUT has completed, or has
\* not.  Lesser says of an upload beyond the size cap that the object is
\* missing, so the guidance for that class gives both cases their own advice.
Advice(class, completed) ==
    CASE class \in {"expired", "not_minted", "digest"} -> "mint again"
      [] class = "missing" /\ completed -> "mint again"
      [] class = "missing" /\ ~completed -> "put the bytes"
      [] class = "empty" -> "put the bytes"
      [] OTHER -> "no such grant"

-----------------------------------------------------------------------------
(* Associations *)

Bound == {draft.media[i].id : i \in DOMAIN draft.media}

\* The positions inline associations of a list occupy.
Occupied(list) ==
    {list[i].pos : i \in {j \in DOMAIN list : list[j].role = "INLINE"}}

\* How many there are, which collides after a detach.
CountInlinePosition(list) == Cardinality(Occupied(list))

\* The smallest position none of them occupies.
FirstFreeInlinePosition(list) ==
    Min({n \in 0..Len(list) : n \notin Occupied(list)})

\* The list with one association added, or put in place of the one its image
\* already has, whatever its role.
Attached(list, usage) ==
    IF \E i \in DOMAIN list : list[i].id = usage.id
    THEN [i \in DOMAIN list |->
              IF list[i].id = usage.id THEN usage ELSE list[i]]
    ELSE Append(list, usage)

\* What an attach associates: an inline image without a position gets one that
\* is free in the list read, its own former position counting as taken.
Placed(list, m, role, pos) ==
    [id |-> m, role |-> role,
     pos |-> IF role = "INLINE" /\ pos = Nowhere
             THEN FirstFreeInlinePosition(list) ELSE pos]

\* The list without an image, which it names at most once.
Detached(list, m) ==
    IF \E i \in DOMAIN list : list[i].id = m
    THEN RemoveAt(list, CHOOSE i \in DOMAIN list : list[i].id = m)
    ELSE list

\* The list in the order asked for, inline images at their index in it.
Reordered(list, order) ==
    [i \in DOMAIN order |->
        LET u == CHOOSE v \in Range(list) : v.id = order[i]
        IN [u EXCEPT !.pos = IF u.role = "INLINE" THEN i - 1 ELSE Nowhere]]

\* Lesser stores a list that names an image once, an inline position once, and
\* admitted images only (external).
Collides(list) ==
    \E i, j \in DOMAIN list :
        /\ i # j
        /\ \/ list[i].id = list[j].id
           \/ list[i].role = "INLINE" /\ list[j].role = "INLINE"
              /\ list[i].pos = list[j].pos

Admitted(list) == \A i \in DOMAIN list : upload[list[i].id] = "USED"

-----------------------------------------------------------------------------
(* Calls *)

DraftInit ==
    /\ draft = [state |-> "none", media |-> << >>]
    /\ review = [active |-> {}, approved |-> {}]
    /\ upload = [m \in Media |-> IF m \in AtFirst THEN "USED" ELSE "none"]
    /\ call = [c \in Callers |-> Idle]
    /\ answer = NoAnswer

UnderWay == {c \in Callers : call[c] # Idle}

MayCall(c) == call[c] = Idle /\ Cardinality(UnderWay) < MaxCalls

\* The call's first request is answered and its second one is still to come.
Then(c, record) == call' = [call EXCEPT ![c] = record]

Done(c) == call' = [call EXCEPT ![c] = Idle]

\* The draft has other content than the approvals were given for.
Rehash == review' = [review EXCEPT !.approved = {}]

\* article_draft_create, by the agent or a guest in its name.
Create(c) ==
    /\ MayCall(c) /\ ActsAs(c) = Agent /\ draft.state = "none"
    /\ draft' = [draft EXCEPT !.state = "DRAFT"]
    /\ answer' = NoAnswer
    /\ UNCHANGED <<review, upload, call>>

\* article_draft_update and article_draft_publish read the draft by its owner
\* and go on when it is the caller's; an update wants an unpublished one.
Look(c, tool) ==
    /\ MayCall(c) /\ ActsAs(c) = Agent /\ draft.state # "none"
    /\ OwnedByCaller(c)
    /\ tool = "update" => draft.state = "DRAFT"
    /\ Then(c, [tool |-> tool])
    /\ answer' = NoAnswer
    /\ UNCHANGED <<draft, review, upload>>

\* The second request of an update; Lesser refuses it once published.
Update(c) ==
    /\ call[c].tool = "update"
    /\ Done(c)
    /\ IF draft.state = "DRAFT" THEN Rehash ELSE UNCHANGED review
    /\ answer' = NoAnswer
    /\ UNCHANGED <<draft, upload>>

\* Lesser publishes a draft all active reviewers and the principal approve of
\* as it is (external); the request names no revision.
Publishable ==
    /\ draft.state = "DRAFT" /\ Admitted(draft.media)
    /\ review.active \cup {Principal} \subseteq review.approved

Publish(c) ==
    /\ call[c].tool = "publish"
    /\ Done(c)
    /\ draft' = IF Publishable THEN [draft EXCEPT !.state = "PUBLISHED"]
                               ELSE draft
    /\ answer' = NoAnswer
    /\ UNCHANGED <<review, upload>>

\* article_draft_review_submit: body leaves it to Lesser who may share. A
\* renewed grant needs a fresh verdict.
ShareDraft(c, r) ==
    /\ MayCall(c) /\ ActsAs(c) = Agent /\ draft.state = "DRAFT"
    /\ review' = [active |-> review.active \cup {r},
                  approved |-> review.approved \ {r}]
    /\ answer' = NoAnswer
    /\ UNCHANGED <<draft, upload, call>>

\* article_draft_review_verdict names no hash: Lesser records it for the draft
\* as it then is.
Verdict(r) ==
    /\ MayCall(r) /\ r \in review.active /\ draft.state = "DRAFT"
    /\ \E approves \in BOOLEAN :
         review' = [review EXCEPT !.approved =
                        IF approves THEN @ \cup {r} ELSE @ \ {r}]
    /\ answer' = NoAnswer
    /\ UNCHANGED <<draft, upload, call>>

\* The agent revokes a grant in Lesser.
Revoke(r) ==
    /\ r \in review.active /\ draft.state = "DRAFT"
    /\ review' = [active |-> review.active \ {r},
                  approved |-> review.approved \ {r}]
    /\ answer' = NoAnswer
    /\ UNCHANGED <<draft, upload, call>>

-----------------------------------------------------------------------------
(* article_draft_get and article_draft_preview *)

\* How Lesser says that there is no such draft for its owner (external).
NotFoundShapes == {"null", "graphql", "http"}

\* Body taking only an empty answer for it.
LookupNotFoundNull(shape) == shape = "null"

LookupNotFound(shape) == shape \in {"null", "graphql", "http"}

Told(c, tool, shown) ==
    answer' = Says(tool, IF shown THEN "draft" ELSE "not found",
                     IF Entitled(c) THEN "entitled" ELSE "barred")

\* The owner's lane: a draft of the caller's own that is unpublished is shown;
\* no draft for an owner sends the call on to the reviewer's lane.
GetAsOwner(c) ==
    /\ MayCall(c) /\ draft.state # "none"
    /\ IF ActsAs(c) = Agent
       THEN /\ Told(c, "get", draft.state = "DRAFT" /\ OwnedByCaller(c))
            /\ UNCHANGED call
       ELSE \E shape \in NotFoundShapes :
              IF LookupNotFound(shape)
              THEN Then(c, [tool |-> "get"]) /\ answer' = NoAnswer
              ELSE Told(c, "get", FALSE) /\ UNCHANGED call
    /\ UNCHANGED <<draft, review, upload>>

\* The reviewer's lane takes Lesser's word on the caller and wants a draft.
GetAsReviewer(c) ==
    /\ call[c].tool = "get"
    /\ Told(c, "get", MayRead(c) /\ draft.state = "DRAFT")
    /\ Done(c)
    /\ UNCHANGED <<draft, review, upload>>

\* A preview checks the state in the review and then has Lesser render what it
\* again authorizes.
PreviewCheck(c) ==
    /\ MayCall(c) /\ draft.state # "none"
    /\ IF MayRead(c) /\ draft.state = "DRAFT"
       THEN Then(c, [tool |-> "preview"]) /\ answer' = NoAnswer
       ELSE Told(c, "preview", FALSE) /\ UNCHANGED call
    /\ UNCHANGED <<draft, review, upload>>

Preview(c) ==
    /\ call[c].tool = "preview"
    /\ Told(c, "preview", MayRead(c))
    /\ Done(c)
    /\ UNCHANGED <<draft, review, upload>>

-----------------------------------------------------------------------------
(* draft_media_attach, draft_media_detach, draft_media_reorder *)

\* The first request reads the associations as the draft's owner; the list the
\* second one will store is made from that and nothing else.
Associate(c, tool, list, given) ==
    /\ MayCall(c) /\ ActsAs(c) = Agent /\ draft.state = "DRAFT"
    /\ Cardinality({d \in UnderWay : call[d].tool \in ListTools}) < MaxLists
    /\ Then(c, [tool |-> tool, list |-> list, given |-> given])
    /\ answer' = NoAnswer
    /\ UNCHANGED <<draft, review, upload>>

Attach(c) ==
    \E m \in Media, role \in Roles, pos \in Nowhere..MaxPosition :
        /\ pos # Nowhere => role = "INLINE"
        /\ Associate(c, "attach",
                     Attached(draft.media, Placed(draft.media, m, role, pos)),
                     pos # Nowhere)

Detach(c) ==
    \E m \in Media : Associate(c, "detach", Detached(draft.media, m), FALSE)

\* An order names each bound image once, and no other.
Reorder(c) ==
    \E order \in SetToSeqs(Bound) :
        /\ order # << >>
        /\ Associate(c, "reorder", Reordered(draft.media, order), FALSE)

\* The second request replaces the whole list, whatever it has become.
SetMedia(c) ==
    /\ call[c].tool \in ListTools
    /\ Done(c)
    /\ IF draft.state = "DRAFT" /\ ~Collides(call[c].list)
          /\ Admitted(call[c].list)
       THEN draft' = [draft EXCEPT !.media = call[c].list] /\ Rehash
       ELSE UNCHANGED <<draft, review>>
    /\ answer' = NoAnswer
    /\ UNCHANGED upload

-----------------------------------------------------------------------------
(* upload_grant_mint, the upload, and upload_finalize *)

\* The grants Lesser has consumed, and those it calls MINTED, whatever object was
\* put.  The bytes of an OVERSIZE upload are more than its grant allows.
UsedUp == {"USED", "FAILED_DIGEST", "EXPIRED"}
StillOpen == {"MINTED", "EMPTY", "WRONG", "OVERSIZE", "STORED"}

\* Whether the declared bytes, put under the grant, can still be finalized.
GrantFact(state) ==
    CASE state = "none" -> "unknown"
      [] state \in UsedUp -> "spent"
      [] state = "OVERSIZE" -> "oversize"
      [] OTHER -> "live"

\* A grant for an image that has none that could be, or was, finalized.
Mint(m) ==
    /\ upload[m] \in {"none", "FAILED_DIGEST", "EXPIRED", "OVERSIZE"}
    /\ upload' = [upload EXCEPT ![m] = "MINTED"]
    /\ answer' = NoAnswer
    /\ UNCHANGED <<draft, review, call>>

\* The client puts the bytes, or none, or others; or they exceed the size cap of
\* the grant, which another PUT of the same bytes would not change.
Put(m) ==
    /\ upload[m] \in {"MINTED", "EMPTY"}
    /\ \E object \in {"EMPTY", "WRONG", "OVERSIZE", "STORED"} :
         upload' = [upload EXCEPT ![m] = object]
    /\ answer' = NoAnswer
    /\ UNCHANGED <<draft, review, call>>

Expire(m) ==
    /\ upload[m] \in StillOpen
    /\ upload' = [upload EXCEPT ![m] = "EXPIRED"]
    /\ answer' = NoAnswer
    /\ UNCHANGED <<draft, review, call>>

\* What state a finalize leaves a grant in.
Finalized(state) ==
    CASE state = "STORED" -> "USED"
      [] state = "WRONG" -> "FAILED_DIGEST"
      [] OTHER -> state

\* Lesser verifies the object and admits the image, or says why not; body puts
\* that in a class and advises.  Who finalizes knows whether the PUT completed.
\* The answer may be lost on the way.
Finalize(m) ==
    /\ upload' = [upload EXCEPT ![m] = Finalized(@)]
    /\ \/ answer' = NoAnswer
       \/ /\ upload[m] # "STORED"
          /\ answer' = Says("finalize",
                              Advice(ClassOf(UploadClasses,
                                             GrantMessage[upload[m]]),
                                     PutCompleted(upload[m])),
                              GrantFact(upload'[m]))
    /\ UNCHANGED <<draft, review, call>>

\* What media_state calls a grant, from the status Lesser gives it.
EnvelopeState(state) ==
    CASE state = "USED" -> "ready_internal"
      [] state = "FAILED_DIGEST" -> "rejected_unsupported"
      [] state = "EXPIRED" -> "expired"
      [] OTHER -> "received"

GrantState(m) ==
    /\ answer' = Says("media_state",
                        IF upload[m] = "none" THEN "no such grant"
                        ELSE IF EnvelopeState(upload[m]) = "received"
                        THEN "put the bytes"
                        ELSE IF EnvelopeState(upload[m]) = "ready_internal"
                        THEN "admitted" ELSE "mint again",
                        GrantFact(upload[m]))
    /\ UNCHANGED <<draft, review, upload, call>>

-----------------------------------------------------------------------------

DraftNext ==
    \/ \E c \in Callers :
         \/ Create(c) \/ Look(c, "update") \/ Look(c, "publish")
         \/ Update(c) \/ Publish(c)
         \/ \E r \in Reviewers : ShareDraft(c, r)
         \/ GetAsOwner(c) \/ GetAsReviewer(c)
         \/ PreviewCheck(c) \/ Preview(c)
         \/ Attach(c) \/ Detach(c) \/ Reorder(c) \/ SetMedia(c)
    \/ \E r \in Reviewers : Verdict(r) \/ Revoke(r)
    \/ \E m \in Media :
         Mint(m) \/ Put(m) \/ Expire(m) \/ Finalize(m) \/ GrantState(m)

-----------------------------------------------------------------------------
(* Properties *)

CallRecords ==
    {Idle} \cup [tool : {"update", "publish", "get", "preview"}]
           \cup [tool : ListTools,
                 list : Seq(Usage), given : BOOLEAN]

\* Associations only ever name images once and at positions of their own;
\* approvals are of active reviewers.
DraftTypeOK ==
    /\ draft \in [state : {"none", "DRAFT", "PUBLISHED"}, media : Seq(Usage)]
    /\ ~Collides(draft.media)
    /\ review \in [active : SUBSET Reviewers, approved : SUBSET Reviewers]
    /\ review.approved \subseteq review.active
    /\ upload \in [Media -> {"none"} \cup StillOpen \cup UsedUp]
    /\ \A c \in Callers : call[c] \in CallRecords

\* An attach that leaves the position to the code, a detach and a reorder
\* (media_tools.go:432-463, 516-522, 601-611) never send a list that Lesser
\* must refuse because two images share a position or one is named twice,
\* whatever gaps earlier detaches and given positions left.
ListsSentAreAcceptable ==
    \A c \in Callers :
        call[c].tool \in ListTools /\ ~call[c].given
            => ~Collides(call[c].list)

\* The agent, a guest in its name and an active reviewer are never told that a
\* draft they may read at that moment is not found (article_tools.go:287-321,
\* 391-397), in whatever way Lesser says that the owner's lane is not theirs.
AuthorizedReadsAnswer ==
    answer.tool \in {"get", "preview"} /\ answer.said = "not found"
        => answer.fact = "barred"

\* Who is told to mint a fresh grant has one that is spent or too small for the
\* bytes, and who is told there is no such grant has none
\* (media_tools.go:992-1047, media.go:205-239).  Whom a finalize tells to put the
\* bytes has a grant under which they can be finalized, so that nobody puts and
\* finalizes for ever (media_tools.go:1017-1020).  media_state knows the grant
\* and not the object (media_tools.go:803-804), and tells to put the bytes while
\* the grant is not consumed.
AdviceMatchesGrant ==
    /\ answer.tool \in {"finalize", "media_state"} =>
        /\ answer.said = "mint again" => answer.fact \in {"spent", "oversize"}
        /\ answer.said = "no such grant" => answer.fact = "unknown"
        /\ answer.said = "put the bytes" => answer.fact \in {"live", "oversize"}
    /\ answer.tool = "finalize" /\ answer.said = "put the bytes"
         => answer.fact = "live"

=============================================================================
