----------------------------- MODULE GenesisLane -----------------------------
(***************************************************************************)
(* One Host-backed genesis lane as Body shows it to an owner's client: the *)
(* Host's HostedGenesisSession (external), the projection that Body        *)
(* accepts of it (sanitizeGenesisConversation) and the guidance that Body  *)
(* derives from that projection (genesisNextToolGuidance and the list      *)
(* recommendation).  Operators only; HostedGenesis moves the lane.         *)
(*                                                                         *)
(* A candidate, its canonical JSON and its review text are named by the    *)
(* revision they belong to; a hash is named by what it is the hash of.     *)
(***************************************************************************)
EXTENDS Integers

CONSTANTS NumSections,   \* identity, philosophy, discipline, boundaries, soul
          MaxRevision    \* reviews the Host renders in one lane

ASSUME SectionsAssumption == NumSections \in Nat \ {0}
ASSUME RevisionAssumption == MaxRevision \in Nat \ {0}

Revisions == 1..MaxRevision
Sections  == 1..NumSections

Statuses == {"absent", "registered", "created", "in_progress",
             "assistant_turn_ready", "declaration_ready", "published", "failed"}

ConversationStatuses == Statuses \ {"absent", "registered"}

Phases == {"none", "section", "review", "affirmed", "finalized"}

\* "other" stands for an action added to the Host after this Body was built.
Recoveries == {"none", "retry_same_step", "restart_soul_bootstrap",
               "refresh_state", "operator_action", "other"}

\* The review that a projection carries: what its fields say, and the text.
Reviews == [revision : Revisions, hash : Revisions,
            reviewHash : Revisions, text : Revisions]

NoReview == [revision |-> 0, hash |-> 0, reviewHash |-> 0, text |-> 0]

ReviewOf(r) == [revision |-> r, hash |-> r, reviewHash |-> r, text |-> r]

Session == [status : Statuses, phase : Phases, section : 0..NumSections,
            completed : 0..NumSections, revision : 0..MaxRevision,
            recovery : Recoveries]

NoSession == [status |-> "absent", phase |-> "none", section |-> 0,
              completed |-> 0, revision |-> 0, recovery |-> "none"]

-----------------------------------------------------------------------------
(* The projection *)

Reviewed(phase) == phase \in {"review", "affirmed", "finalized"}

Projection(s, review) ==
  [status |-> s.status, phase |-> s.phase, section |-> s.section,
   completed |-> s.completed, revision |-> s.revision, hash |-> s.revision,
   review |-> review, recovery |-> s.recovery]

\* What the Host serves: its session, or one whose review is missing or was not
\* read together with it.
Faithful(s) == Projection(s, IF Reviewed(s.phase) THEN ReviewOf(s.revision)
                             ELSE NoReview)

Torn(s) == {Projection(s, r) : r \in IF Reviewed(s.phase) THEN Reviews \cup {NoReview}
                                   ELSE {}}

\* The fields agree; the text is not looked at.
ReviewNamed(p) == /\ p.review.revision = p.revision
                  /\ p.review.hash = p.hash

\* sanitizeDeclarationCandidateReview: the text hashes to review_hash, and
\* the review belongs to the candidate beside it.
ReviewHolds(p) == /\ p.review # NoReview
                  /\ p.review.revision = p.revision
                  /\ p.review.hash = p.hash
                  /\ p.review.reviewHash = p.review.text

CandidateHolds(p) ==
  \/ /\ p.phase = "section"
     /\ p.section # 0
     /\ p.review = NoReview
     /\ p.completed < NumSections => p.section = p.completed + 1
  \/ /\ Reviewed(p.phase)
     /\ p.section = 0
     /\ p.completed = NumSections
     /\ ReviewHolds(p)

PhaseFits(p) ==
  /\ p.status = "assistant_turn_ready" => p.phase \in {"section", "review"}
  /\ p.status \in {"declaration_ready", "published"} => p.phase = "finalized"

\* The one strict projection without a candidate: a lane that must restart.
RestartWithoutCandidate(p) == /\ p.phase = "none"
                              /\ p.status = "failed"
                              /\ p.recovery = "restart_soul_bootstrap"

\* Body answers host_genesis_projection_invalid to everything else.
Accepted(p) ==
  /\ p.status \in ConversationStatuses
  /\ \/ p.phase # "none" /\ CandidateHolds(p) /\ PhaseFits(p)
     \/ RestartWithoutCandidate(p)

-----------------------------------------------------------------------------
(* Guidance *)

\* "none": an answer without guidance, as every refusal is.
Tools == {"none", "begin", "list", "read", "advance", "recover", "preflight",
          "finalize", "agent_get", "contact_operator"}

\* The bindings of a candidate_action, or the action a caller sends.
Binding == [revision : 0..MaxRevision, hash : 0..MaxRevision,
            reviewHash : 0..MaxRevision]

NoBinding == [revision |-> 0, hash |-> 0, reviewHash |-> 0]

Advice == [next : Tools, forbidden : Tools \cup {"none"}, binding : Binding]

Advise(next, forbidden, binding) ==
  [next |-> next, forbidden |-> forbidden, binding |-> binding]

Do(next) == Advise(next, "none", NoBinding)

Silence == Do("none")

\* genesisRecoveryActionGuidance: the Host's action, never one of Body's own.
RecoveryAdvice(action) ==
  CASE action = "retry_same_step"        -> Do("recover")
    [] action = "restart_soul_bootstrap" -> Advise("begin", "recover", NoBinding)
    [] action = "refresh_state"          -> Do("read")
    [] OTHER                             -> Do("contact_operator")

\* genesisCandidateReviewGuidance: every advertised action carries these.
ReviewAdvice(p) ==
  Advise("advance", "none", [revision |-> p.revision, hash |-> p.hash,
                             reviewHash |-> p.review.reviewHash])

StatusOnlyAdvice(operation, p) ==
  IF operation = "begin" THEN Do("advance")
  ELSE CASE p.status = "in_progress"          -> Advise("read", "advance", NoBinding)
         [] p.status = "declaration_ready"    -> Do("preflight")
         [] p.status = "published"            -> Do("agent_get")
         [] p.status = "assistant_turn_ready" -> Do("advance")
         [] OTHER                             -> Do("read")

\* genesisNextToolGuidance after the tool "operation" was answered with p.
Guidance(operation, p) ==
  IF p.recovery # "none" THEN RecoveryAdvice(p.recovery)
  ELSE IF operation = "begin" THEN Do("advance")
  ELSE IF p.status = "in_progress" THEN Advise("read", "advance", NoBinding)
  ELSE IF operation = "preflight" THEN Do("finalize")
  ELSE IF operation = "finalize" THEN Do("agent_get")
  ELSE CASE p.status = "published"         -> Do("agent_get")
         [] p.status = "declaration_ready" -> Do("preflight")
         [] p.status = "assistant_turn_ready" ->
              IF p.phase = "review" THEN ReviewAdvice(p) ELSE Do("advance")
         [] OTHER                          -> Do("read")

\* genesisApplyListRecommendation and genesisListStartHere: a summary has a
\* status only.  No lane to act on starts a new one, except that "for finalized
\* agents use agent_get".
ListAdvice(s) ==
  CASE s.status \in {"absent", "registered"} -> Do("begin")
    [] s.status = "published"         -> Do("agent_get")
    [] s.status = "in_progress"       -> Advise("read", "advance", NoBinding)
    [] s.status = "created"           -> Advise("read", "advance", NoBinding)
    [] s.status = "declaration_ready" -> Do("preflight")
    [] OTHER                          -> Do("read")

-----------------------------------------------------------------------------
(* The owner's structural action *)

\* DeclarationCandidateAction.Validate.
WellFormed(a) ==
  CASE a.kind = "message" -> a.section = 0 /\ a.binding = NoBinding
    [] a.kind = "affirm"  -> a.section = 0 /\ a.binding # NoBinding
    [] a.kind = "edit"    -> a.section \in Sections /\ a.binding # NoBinding

-----------------------------------------------------------------------------
(* The Host's lane (external): what each request does to it *)

Registered == [NoSession EXCEPT !.status = "registered"]

Started == [Registered EXCEPT !.status = "created", !.phase = "section",
                              !.section = 1]

\* What the Host binds an affirmation or an edit to.
HostBinding(s) == [revision |-> s.revision, hash |-> s.revision,
                   reviewHash |-> s.revision]

HostAdvances(s, a) ==
  \/ s.status = "registered" /\ a.kind = "message"
  \/ s.status = "assistant_turn_ready" /\ s.phase = "section" /\ a.kind = "message"
  \/ /\ s.status = "assistant_turn_ready"
     /\ s.phase = "review"
     /\ a.kind # "message"
     /\ a.binding = HostBinding(s)

Finalizable(s) == s.status \in {"declaration_ready", "published"}

\* The requests about a lane that the Host grants.
HostGrants(s, tool, a) ==
  \/ tool = "advance" /\ HostAdvances(s, a)
  \/ tool = "recover" /\ s.status = "failed" /\ s.recovery = "retry_same_step"
  \/ tool \in {"preflight", "finalize"} /\ Finalizable(s)
  \/ tool = "read" /\ s.status \in ConversationStatuses

HostAdvanced(s, a) ==
  IF s.status = "registered" THEN Started
  ELSE CASE a.kind = "message" -> [s EXCEPT !.status = "in_progress"]
         [] a.kind = "affirm"  -> [s EXCEPT !.status = "in_progress", !.phase = "affirmed"]
         [] a.kind = "edit"    -> [s EXCEPT !.status = "in_progress", !.phase = "section",
                                            !.section = a.section]

HostApplies(s, tool, a) ==
  CASE tool = "advance"  -> HostAdvanced(s, a)
    [] tool = "recover"  -> [s EXCEPT !.status = "in_progress", !.recovery = "none"]
    [] tool = "finalize" -> [s EXCEPT !.status = "published"]
    [] OTHER -> s

\* What the Host's turn makes of a lane it is working on; a review that it
\* renders is named r.  A reopened section leaves the other sections complete.
Turn(s, r) ==
  LET ready == [s EXCEPT !.status = "assistant_turn_ready"]
  IN  CASE s.phase = "affirmed" ->
             [s EXCEPT !.status = "declaration_ready", !.phase = "finalized"]
        [] s.phase = "section" /\ s.completed + 1 < NumSections ->
             [ready EXCEPT !.completed = @ + 1, !.section = s.completed + 2]
        [] OTHER ->
             [ready EXCEPT !.completed = NumSections, !.phase = "review",
                           !.section = 0, !.revision = r]

\* A failed lane keeps its candidate, or has lost it and must restart.
Failures(s) ==
  {[s EXCEPT !.status = "failed", !.recovery = r] : r \in Recoveries \ {"none"}}
  \cup {[NoSession EXCEPT !.status = "failed", !.recovery = "restart_soul_bootstrap"]}

=============================================================================
