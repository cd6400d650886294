-------------------------- MODULE HostedGenesisProofs --------------------------
(***************************************************************************)
(* HostedGenesis for any number of owners, lanes, revisions, sections,     *)
(* faults and edits.                                                       *)
(*                                                                         *)
(* The argument: a lane that can be finalized can only be published        *)
(* (Final), so the declaration affirmed in it is carried unchanged from    *)
(* the affirmation to the soul that agent_genesis_finalize seeds.  An      *)
(* action on a review is advised only in the answer that shows its text    *)
(* (ShownInv).  A finalization or a recovery at one of its stages has      *)
(* written what comes before it, and nothing that others do takes it away  *)
(* (FinalizeInv, ContentInv).                                              *)
(*                                                                         *)
(* Below: BodyProcess, MemoryTimeline and GrantMintLimiter, each under a   *)
(* heading with its argument.                                              *)
(***************************************************************************)
EXTENDS HostedGenesis, BodyProcess, MemoryTimeline, GrantMintLimiter,
        FiniteSetTheorems, WellFoundedInduction, TLAPS

-----------------------------------------------------------------------------
(* What the Host does to a lane *)

\* One lane, of which the declaration a was affirmed.
LaneHolds(s, a) ==
  /\ s \in Session
  /\ s.recovery # "none" => s.status = "failed"
  /\ s.status \in {"created", "in_progress"} => s.phase \in {"section", "affirmed"}
  /\ s.status = "failed" =>
       s.phase \in {"section", "affirmed"} \/ s.recovery = "restart_soul_bootstrap"
  /\ Finalizable(s) <=> s.phase = "finalized"
  /\ s.phase \in {"affirmed", "finalized"} => s.revision = a

\* A lane that can be finalized stays as it is, or is published.
Final(s, t) ==
  /\ Finalizable(s) => Finalizable(t)
  /\ s.status = "published" => t.status = "published"

Action == [kind : {"message", "affirm", "edit"}, section : 0..NumSections,
           binding : Binding]

LEMMA SessionFields ==
  ASSUME NEW s \in Session
  PROVE  /\ s.status \in Statuses /\ s.phase \in Phases /\ s.section \in 0..NumSections
         /\ s.completed \in 0..NumSections /\ s.revision \in 0..MaxRevision
         /\ s.recovery \in Recoveries
  BY DEF Session

LEMMA NewLane ==
  ASSUME NEW a
  PROVE  /\ LaneHolds(NoSession, a) /\ ~Finalizable(NoSession)
         /\ LaneHolds(Registered, a) /\ ~Finalizable(Registered)
         /\ LaneHolds(Started, a)
         /\ Registered.status = "registered" /\ Registered.recovery = "none"
  <1>1. 0 \in 0..NumSections /\ 1 \in 0..NumSections /\ 0 \in 0..MaxRevision
    BY SectionsAssumption, RevisionAssumption
  <1>2. NoSession \in Session
    BY <1>1 DEF NoSession, Session, Statuses, Phases, Recoveries
  <1>3. /\ Registered = [NoSession EXCEPT !.status = "registered"]
        /\ Registered \in Session /\ Registered.status = "registered"
        /\ Registered.recovery = "none" /\ Registered.phase = "none"
    BY <1>1 DEF NoSession, Registered, Session, Statuses, Phases, Recoveries
  <1>4. /\ Started \in Session /\ Started.status = "created" /\ Started.recovery = "none"
        /\ Started.phase = "section"
    BY <1>1 DEF NoSession, Registered, Started, Session, Statuses, Phases, Recoveries
  <1>5. NoSession.status = "absent" /\ NoSession.recovery = "none" /\ NoSession.phase = "none"
    BY DEF NoSession
  <1> QED BY <1>2, <1>3, <1>4, <1>5 DEF LaneHolds, Finalizable

\* A request that the Host grants; an affirmation is of the revision under review.
LEMMA AppliedHolds ==
  ASSUME NEW s, NEW aff, LaneHolds(s, aff), NEW a \in Action, WellFormed(a),
         NEW tool \in Tools, tool # "advance" => a.kind = "message",
         HostGrants(s, tool, a)
  PROVE  /\ LaneHolds(HostApplies(s, tool, a), IF a.kind = "affirm" THEN s.revision ELSE aff)
         /\ Final(s, HostApplies(s, tool, a))
         /\ a.kind = "affirm" => ~Finalizable(s)
  <1> DEFINE t == HostApplies(s, tool, a)
  <1>1. s \in Session BY DEF LaneHolds
  <1>2. CASE tool = "advance"
    <2>1. HostAdvances(s, a) /\ t = HostAdvanced(s, a) /\ ~Finalizable(s)
      BY <1>2 DEF HostGrants, HostApplies, HostAdvances, Finalizable
    <2>2. CASE s.status = "registered"
      <3>1. t = Started /\ a.kind = "message"
        BY <2>1, <2>2 DEF HostAdvanced, HostAdvances
      <3> QED BY <3>1, <2>1, <2>2, NewLane DEF Final
    <2>3. CASE s.status # "registered"
      <3>1. CASE a.kind = "message"
        <4>1. t = [s EXCEPT !.status = "in_progress"] /\ s.status = "assistant_turn_ready"
              /\ s.phase = "section"
          BY <2>1, <2>3, <3>1 DEF HostAdvanced, HostAdvances
        <4> QED BY <4>1, <3>1, <2>1, <1>1 DEF LaneHolds, Final, Finalizable, Session, Statuses
      <3>2. CASE a.kind = "affirm"
        <4>1. t = [s EXCEPT !.status = "in_progress", !.phase = "affirmed"]
              /\ s.status = "assistant_turn_ready" /\ s.phase = "review"
          BY <2>1, <2>3, <3>2 DEF HostAdvanced, HostAdvances
        <4> QED BY <4>1, <3>2, <2>1, <1>1
              DEF LaneHolds, Final, Finalizable, Session, Statuses, Phases
      <3>3. CASE a.kind = "edit"
        <4>1. t = [s EXCEPT !.status = "in_progress", !.phase = "section",
                            !.section = a.section]
              /\ s.status = "assistant_turn_ready" /\ s.phase = "review"
          BY <2>1, <2>3, <3>3 DEF HostAdvanced, HostAdvances
        <4>2. a.section \in 0..NumSections BY DEF Action
        <4> QED BY <4>1, <4>2, <3>3, <2>1, <1>1
              DEF LaneHolds, Final, Finalizable, Session, Statuses, Phases
      <3> QED BY <3>1, <3>2, <3>3 DEF Action
    <2> QED BY <2>2, <2>3
  <1>3. CASE tool = "recover"
    <2>1. t = [s EXCEPT !.status = "in_progress", !.recovery = "none"]
          /\ s.status = "failed" /\ s.phase \in {"section", "affirmed"} /\ a.kind = "message"
      BY <1>3 DEF HostApplies, HostGrants, LaneHolds
    <2> QED BY <2>1, <1>1, <1>3 DEF LaneHolds, Final, Finalizable, Session, Statuses, Recoveries
  <1>4. CASE tool = "finalize"
    <2>1. t = [s EXCEPT !.status = "published"] /\ Finalizable(s) /\ a.kind = "message"
      BY <1>4 DEF HostApplies, HostGrants
    <2> QED BY <2>1, <1>1 DEF LaneHolds, Final, Finalizable, Session, Statuses
  <1>5. CASE tool \notin {"advance", "recover", "finalize"}
    BY <1>5 DEF HostApplies, Final
  <1> QED BY <1>2, <1>3, <1>4, <1>5

LEMMA TurnHolds ==
  ASSUME NEW s, NEW aff, LaneHolds(s, aff), s.status \in {"created", "in_progress"},
         NEW r, Reviewed(Turn(s, r).phase) /\ ~Reviewed(s.phase) => r \in 0..MaxRevision
  PROVE  LaneHolds(Turn(s, r), aff) /\ ~Finalizable(s)
  <1> DEFINE t == Turn(s, r)
             ready == [s EXCEPT !.status = "assistant_turn_ready"]
  <1>1. /\ s \in Session /\ s.phase \in {"section", "affirmed"} /\ s.recovery = "none"
        /\ ~Finalizable(s)
    BY DEF LaneHolds, Finalizable
  <1>2. CASE s.phase = "affirmed"
    <2>1. t = [s EXCEPT !.status = "declaration_ready", !.phase = "finalized"]
      BY <1>2 DEF Turn
    <2> QED BY <2>1, <1>1, <1>2 DEF LaneHolds, Finalizable, Session, Statuses, Phases
  <1>3. CASE s.phase = "section" /\ s.completed + 1 < NumSections
    <2>1. t = [ready EXCEPT !.completed = @ + 1, !.section = s.completed + 2]
      BY <1>3 DEF Turn
    <2>2. s.completed + 1 \in 0..NumSections /\ s.completed + 2 \in 0..NumSections
      BY <1>1, <1>3, SectionsAssumption, SessionFields
    <2> QED BY <2>1, <2>2, <1>1, <1>3 DEF LaneHolds, Finalizable, Session, Statuses, Phases
  <1>4. CASE s.phase = "section" /\ ~(s.completed + 1 < NumSections)
    <2>1. t = [ready EXCEPT !.completed = NumSections, !.phase = "review",
                            !.section = 0, !.revision = r]
      BY <1>4 DEF Turn
    <2>2. t.phase = "review" /\ ~Reviewed(s.phase)
      BY <2>1, <1>1, <1>4 DEF Reviewed, Session
    <2>3. r \in 0..MaxRevision BY <2>2 DEF Reviewed
    <2>4. NumSections \in 0..NumSections /\ 0 \in 0..NumSections BY SectionsAssumption
    <2> QED BY <2>1, <2>3, <2>4, <1>1, <1>4 DEF LaneHolds, Finalizable, Session, Statuses, Phases
  <1> QED BY <1>1, <1>2, <1>3, <1>4

LEMMA FailuresHold ==
  ASSUME NEW s, NEW aff, LaneHolds(s, aff), s.status \in {"created", "in_progress"},
         NEW t \in Failures(s)
  PROVE  LaneHolds(t, aff) /\ ~Finalizable(s)
  <1>1. s \in Session /\ s.phase \in {"section", "affirmed"} /\ ~Finalizable(s)
    BY DEF LaneHolds, Finalizable
  <1>2. CASE t = [NoSession EXCEPT !.status = "failed", !.recovery = "restart_soul_bootstrap"]
    <2>1. NoSession \in Session /\ NoSession.phase = "none"
      BY NewLane DEF LaneHolds, NoSession
    <2>2. /\ t \in Session /\ t.phase = "none" /\ t.status = "failed"
          /\ t.recovery = "restart_soul_bootstrap"
      BY <1>2, <2>1 DEF Session, Statuses, Recoveries
    <2> QED BY <1>1, <2>2 DEF LaneHolds, Finalizable
  <1>3. ASSUME NEW r \in Recoveries \ {"none"},
               t = [s EXCEPT !.status = "failed", !.recovery = r]
        PROVE  LaneHolds(t, aff)
    BY <1>1, <1>3 DEF LaneHolds, Finalizable, Session, Statuses
  <1> QED BY <1>1, <1>2, <1>3 DEF Failures

-----------------------------------------------------------------------------
(* What Body advises on a lane *)

\* What the Host's reads serve as a review.
ReviewRead == Reviews \cup {NoReview}

LEMMA ReadsAreReviews ==
  ASSUME NEW s \in Session, NEW p \in {Faithful(s)} \cup Torn(s)
  PROVE  \E r \in ReviewRead : p = Projection(s, r)
  <1>1. ReviewOf(s.revision) \in ReviewRead
    <2>1. s.revision = 0 \/ s.revision \in Revisions
      BY SessionFields, RevisionAssumption DEF Revisions
    <2> QED BY <2>1 DEF NoReview, ReviewOf, ReviewRead, Reviews
  <1> QED BY <1>1 DEF Faithful, Torn, ReviewRead

\* Guidance is advice; it names an action on a review only of an accepted
\* projection's review.
LEMMA GuidanceAdvises ==
  ASSUME NEW s \in Session, NEW r \in ReviewRead, NEW tool
  PROVE  LET p == Projection(s, r)
             g == Guidance(tool, p)
         IN  /\ g \in Advice
             /\ g.binding # NoBinding =>
                  /\ p.phase = "review" /\ p.recovery = "none"
                  /\ p.status = "assistant_turn_ready"
                  /\ tool \notin {"begin", "preflight", "finalize"}
                  /\ g = ReviewAdvice(p)
  <1> DEFINE p == Projection(s, r)
             g == Guidance(tool, p)
  <1>1. /\ p.revision \in 0..MaxRevision /\ p.hash \in 0..MaxRevision
        /\ p.review.reviewHash \in 0..MaxRevision
    BY SessionFields, RevisionAssumption
       DEF Projection, ReviewRead, Reviews, NoReview, Revisions
  <1>2. /\ ReviewAdvice(p) \in Advice
        /\ \A next \in Tools : \A f \in Tools \cup {"none"} :
             /\ Advise(next, f, NoBinding) \in Advice
             /\ Advise(next, f, NoBinding).binding = NoBinding
    BY <1>1, RevisionAssumption
       DEF ReviewAdvice, Advise, Advice, Tools, NoBinding, Binding
  <1> HIDE DEF p
  <1>3. /\ RecoveryAdvice(p.recovery) \in Advice
        /\ RecoveryAdvice(p.recovery).binding = NoBinding
    BY <1>2 DEF RecoveryAdvice, Do, Tools
  <1>4. \A next \in Tools : Do(next) \in Advice /\ Do(next).binding = NoBinding
    BY <1>2 DEF Do
  <1>5. g \in Advice
    BY <1>2, <1>3, <1>4 DEF Guidance, Tools
  <1>6. ASSUME g.binding # NoBinding
        PROVE  /\ p.phase = "review" /\ p.recovery = "none"
               /\ p.status = "assistant_turn_ready"
               /\ tool \notin {"begin", "preflight", "finalize"}
               /\ g = ReviewAdvice(p)
    BY <1>2, <1>3, <1>4, <1>6 DEF Guidance, Tools
  <1> QED BY <1>5, <1>6 DEF p

LEMMA PlainGuidance ==
  ASSUME NEW s \in Session, NEW tool \in {"begin", "preflight", "finalize"}
  PROVE  /\ Guidance(tool, Faithful(s)) \in Advice
         /\ Guidance(tool, Faithful(s)).binding = NoBinding
  <1>1. \E r \in ReviewRead : Faithful(s) = Projection(s, r)
    <2>1. Faithful(s) \in {Faithful(s)} \cup Torn(s) OBVIOUS
    <2> QED BY <2>1, ReadsAreReviews
  <1> QED BY <1>1, GuidanceAdvises

LEMMA ListAdvises ==
  ASSUME NEW s PROVE ListAdvice(s) \in Advice /\ ListAdvice(s).binding = NoBinding
  <1>1. \A next \in Tools : \A f \in Tools \cup {"none"} :
             /\ Advise(next, f, NoBinding) \in Advice
             /\ Advise(next, f, NoBinding).binding = NoBinding
    BY RevisionAssumption DEF Advise, Advice, Tools, NoBinding, Binding
  <1> QED BY <1>1 DEF ListAdvice, Do, Tools

LEMMA DoAdvises ==
  ASSUME NEW next \in Tools
  PROVE  Do(next) \in Advice /\ Do(next).binding = NoBinding /\ Do(next).next = next
  BY RevisionAssumption DEF Do, Advise, Advice, Tools, NoBinding, Binding
-----------------------------------------------------------------------------
(***************************************************************************)
(* The inductive invariant                                                 *)
(***************************************************************************)
HostInv ==
  /\ LaneHolds(session, affirmed)
  /\ lanes \in 0..MaxLanes /\ rendered \in 0..MaxRevision /\ affirmed \in 0..MaxRevision

\* An action on a review is advised to an owner that was shown its text.
ShownInv ==
  \A o \in Owners :
    advice[o].binding # NoBinding => advice[o].binding.reviewHash \in shown[o]

ClientInv ==
  /\ lane \in [Owners -> 0..MaxLanes]
  /\ advice \in [Owners -> Advice]
  /\ shown \in [Owners -> SUBSET Revisions]
  /\ ShownInv

\* A finalization renders the affirmed declaration of a lane that is final, and
\* has written what comes before its stage.
FinalizeInv ==
  \A o \in Owners :
    /\ call[o].at # "idle" => Finalizable(session) /\ call[o].doc = affirmed
    /\ call[o].at \in {"register", "seedSoul", "seedInstructions"} => session.status = "published"
    /\ call[o].at \in {"seedSoul", "seedInstructions"} => row # "none"
    /\ call[o].at = "seedInstructions" => soul # NoSoul

CallInv ==
  /\ call \in [Owners -> [at : Stages, doc : 0..MaxRevision]]
  /\ recovery \in [at : Stages, class : Classes]
  /\ FinalizeInv

\* A recovery has written what comes before its stage too; and a soul out of a
\* finalization is the affirmed declaration of a final lane.
ContentInv ==
  /\ row \in {"none", "genesis", "recovery"}
  /\ soul \in [doc : 0..MaxRevision + 2, state : {"none", "draft", "published", "archived"}]
  /\ instructions \in {"none", "seed", "owner"}
  /\ soul.doc \in Revisions => soul.doc = affirmed /\ Finalizable(session)
  /\ recovery.at = "seedInstructions" => soul # NoSoul
  /\ recovery.at = "register" => soul # NoSoul /\ instructions # "none"
  /\ RecoveryRowIsBacked

BoundInv == faults \in 0..MaxFaults /\ edits \in 0..MaxEdits

GenesisInv == HostInv /\ ClientInv /\ CallInv /\ ContentInv /\ BoundInv

\* What every step does to the lane.
HostStep ==
  /\ HostInv'
  /\ Final(session, session')
  /\ affirmed' # affirmed => ~Finalizable(session)

LEMMA GenesisStarts == Init => GenesisInv
  <1> SUFFICES ASSUME Init PROVE GenesisInv
    OBVIOUS
  <1>1. HostInv
    BY NewLane, RevisionAssumption, GenesisBoundsAssumption DEF Init, HostInv
  <1>2. ClientInv
    BY DoAdvises, GenesisBoundsAssumption DEF Init, ClientInv, ShownInv, Tools
  <1>3. CallInv
    BY RevisionAssumption DEF Init, CallInv, FinalizeInv, Idle, Rest, Stages, Classes
  <1>4. ContentInv
    BY RevisionAssumption DEF Init, ContentInv, NoSoul, Rest, RecoveryRowIsBacked, Revisions
  <1>5. BoundInv BY GenesisBoundsAssumption DEF Init, BoundInv
  <1> QED BY <1>1, <1>2, <1>3, <1>4, <1>5 DEF GenesisInv

\* A step that leaves the lane alone.
LEMMA HostRests ==
  ASSUME GenesisInv, UNCHANGED hostVars PROVE HostStep
  BY DEF GenesisInv, HostInv, hostVars, HostStep, Final, LaneHolds, Finalizable

LEMMA ClientsRest ==
  ASSUME GenesisInv, UNCHANGED clientVars PROVE ClientInv'
  BY DEF GenesisInv, ClientInv, ShownInv, clientVars

\* Calls and content are none the worse for a step of the lane.
LEMMA MaterialRests ==
  ASSUME GenesisInv, HostStep, UNCHANGED callVars, UNCHANGED contentVars
  PROVE  CallInv' /\ ContentInv'
  <1>1. /\ call' = call /\ recovery' = recovery /\ row' = row /\ soul' = soul
        /\ instructions' = instructions
    BY DEF callVars, contentVars
  <1>2. Finalizable(session) => Finalizable(session') /\ affirmed' = affirmed
    BY DEF HostStep, Final
  <1>3. session.status = "published" => session'.status = "published"
    BY DEF HostStep, Final
  <1>4. CallInv' BY <1>1, <1>2, <1>3 DEF GenesisInv, CallInv, FinalizeInv
  <1>5. ContentInv' BY <1>1, <1>2 DEF GenesisInv, ContentInv, RecoveryRowIsBacked
  <1> QED BY <1>4, <1>5

LEMMA BoundsRest ==
  ASSUME GenesisInv, UNCHANGED boundVars \/ Fault PROVE BoundInv'
  BY GenesisBoundsAssumption DEF GenesisInv, BoundInv, boundVars, Fault

-----------------------------------------------------------------------------
(* Answers *)

\* An answer without an action on a review.
LEMMA PlainAnswer ==
  ASSUME GenesisInv, NEW o \in Owners, NEW a \in Advice, a.binding = NoBinding,
         advice' = [advice EXCEPT ![o] = a], shown' = shown,
         NEW n \in 0..MaxLanes, lane' = lane \/ lane' = [lane EXCEPT ![o] = n]
  PROVE  ClientInv'
  BY DEF GenesisInv, ClientInv, ShownInv

LEMMA SilenceKeeps ==
  ASSUME GenesisInv, NEW o \in Owners, Silent(o) PROVE ClientInv'
  <1>1. Silence \in Advice /\ Silence.binding = NoBinding
    BY DoAdvises DEF Silence, Tools
  <1> QED BY <1>1, PlainAnswer, GenesisBoundsAssumption DEF Silent, Answer, GenesisInv, HostInv

LEMMA GivenKeeps ==
  ASSUME GenesisInv, NEW o \in Owners, NEW a \in Advice, a.binding = NoBinding, Give(o, a)
  PROVE  ClientInv'
  BY PlainAnswer DEF Give, Answer, GenesisInv, HostInv

\* An action on a review comes with the text that it is about.
LEMMA AnsweredKeeps ==
  ASSUME GenesisInv, NEW o \in Owners, NEW tool, NEW s \in Session,
         NEW p \in {Faithful(s)} \cup Torn(s), AnswerFor(o, tool, p)
  PROVE  ClientInv'
  <1> PICK r \in ReviewRead : p = Projection(s, r)
    BY ReadsAreReviews
  <1> DEFINE g == Guidance(tool, p)
             texts == IF Reviewed(p.phase) THEN {p.review.text} ELSE {}
  <1>1. CASE ~Accepted(p)
    BY <1>1, SilenceKeeps DEF AnswerFor
  <1>2. CASE Accepted(p)
    <2>1. /\ g \in Advice
          /\ g.binding # NoBinding => p.phase = "review" /\ g = ReviewAdvice(p)
      BY GuidanceAdvises
    <2>2. /\ advice' = [advice EXCEPT ![o] = g]
          /\ shown' = [shown EXCEPT ![o] = @ \cup texts]
          /\ lane' = lane
      BY <1>2 DEF AnswerFor, Answer, Show
    <2>3. Reviewed(p.phase) => ReviewHolds(p)
      BY <1>2 DEF Accepted, CandidateHolds, Reviewed, RestartWithoutCandidate
    <2>4. Reviewed(p.phase) => p.review.text \in Revisions
      <3>1. p.review = r BY DEF Projection
      <3> QED BY <2>3, <3>1 DEF ReviewHolds, ReviewRead, Reviews
    <2>5. g.binding # NoBinding => g.binding.reviewHash \in texts
      <3>1. ASSUME g.binding # NoBinding PROVE g.binding.reviewHash = p.review.reviewHash
        BY <2>1, <3>1 DEF ReviewAdvice, Advise
      <3>2. p.phase = "review" => Reviewed(p.phase) BY DEF Reviewed
      <3> QED BY <2>1, <2>3, <3>1, <3>2 DEF ReviewHolds
    <2>6. texts \subseteq Revisions BY <2>4
    <2> HIDE DEF g, texts
    <2> QED BY <2>1, <2>2, <2>5, <2>6 DEF GenesisInv, ClientInv, ShownInv
  <1> QED BY <1>1, <1>2
-----------------------------------------------------------------------------
(* The tools that are one request *)

LEMMA BeginKeeps ==
  ASSUME GenesisInv, NEW o \in Owners, Begin(o) PROVE GenesisInv'
  <1>1. /\ UNCHANGED <<rendered, affirmed>> /\ UNCHANGED callVars /\ UNCHANGED contentVars
        /\ \/ session' = session /\ lanes' = lanes
           \/ /\ ~Finalizable(session) /\ session' = Registered
              /\ lanes < MaxLanes /\ lanes' = lanes + 1
    BY DEF Begin, Finalizable
  <1>2. HostStep
    <2>1. CASE session' = session /\ lanes' = lanes
      BY <1>1, <2>1, HostRests DEF hostVars
    <2>2. CASE ~Finalizable(session) /\ session' = Registered
                 /\ lanes < MaxLanes /\ lanes' = lanes + 1
      <3>1. lanes' \in 0..MaxLanes
        BY <2>2, GenesisBoundsAssumption DEF GenesisInv, HostInv
      <3> QED BY <1>1, <2>2, <3>1, NewLane
            DEF HostStep, HostInv, GenesisInv, Final, Finalizable
    <2> QED BY <1>1, <2>1, <2>2
  <1>3. CallInv' /\ ContentInv' BY <1>1, <1>2, MaterialRests
  <1>4. /\ lanes \in 0..MaxLanes /\ lanes' \in 0..MaxLanes
        /\ session \in Session /\ Registered \in Session
    BY <1>2, NewLane DEF GenesisInv, HostInv, HostStep, LaneHolds
  <1>5. ASSUME NEW s \in Session
        PROVE  /\ Guidance("begin", Faithful(s)) \in Advice
               /\ Guidance("begin", Faithful(s)).binding = NoBinding
    BY <1>5, PlainGuidance
  <1>6. ClientInv' /\ BoundInv'
    <2>1. CASE session.status = "registered"
      <3>1. /\ advice' = [advice EXCEPT ![o] = Guidance("begin", Faithful(session))]
            /\ lane' = [lane EXCEPT ![o] = lanes] /\ shown' = shown /\ UNCHANGED boundVars
        BY <2>1 DEF Begin, Answer
      <3> QED BY <3>1, <1>4, <1>5, PlainAnswer, BoundsRest
    <2>2. CASE session.status \in {"absent", "failed"}
      <3>1. \/ Fault /\ Silent(o)
            \/ /\ advice' = [advice EXCEPT ![o] = Guidance("begin", Faithful(Registered))]
               /\ lane' = [lane EXCEPT ![o] = lanes'] /\ shown' = shown /\ UNCHANGED boundVars
        BY <2>2 DEF Begin, Answer
      <3>2. CASE Fault /\ Silent(o)
        BY <3>2, SilenceKeeps, BoundsRest
      <3>3. CASE ~(Fault /\ Silent(o))
        BY <3>1, <3>3, <1>4, <1>5, PlainAnswer, BoundsRest
      <3> QED BY <3>2, <3>3
    <2>3. CASE session.status \notin {"absent", "registered", "failed"}
      <3>1. Silent(o) /\ UNCHANGED boundVars BY <2>3 DEF Begin
      <3> QED BY <3>1, SilenceKeeps, BoundsRest
    <2> QED BY <2>1, <2>2, <2>3
  <1> QED BY <1>2, <1>3, <1>6 DEF GenesisInv, HostStep

LEMMA ListKeeps ==
  ASSUME GenesisInv, NEW o \in Owners, List(o) PROVE GenesisInv'
  <1>1. /\ UNCHANGED hostVars /\ UNCHANGED callVars /\ UNCHANGED contentVars
        /\ UNCHANGED boundVars /\ shown' = shown
        /\ advice' = [advice EXCEPT ![o] = ListAdvice(session)]
        /\ lane' = [lane EXCEPT ![o] = Listed(o)]
    BY DEF List, Answer
  <1>2. Listed(o) \in 0..MaxLanes
    BY DEF Listed, GenesisInv, HostInv, ClientInv
  <1>3. ClientInv' BY <1>1, <1>2, ListAdvises, PlainAnswer
  <1> QED BY <1>1, <1>3, HostRests, MaterialRests, BoundsRest DEF GenesisInv, HostStep

LEMMA ActionsAreActions ==
  ASSUME GenesisInv, NEW o \in Owners, NEW a \in ActionsOf(o)
  PROVE  /\ a \in Action /\ Message \in Action /\ Message.kind = "message"
         /\ a.kind # "message" => a.binding = advice[o].binding /\ a.binding # NoBinding
  <1>1. advice[o].binding \in Binding /\ NoBinding \in Binding /\ 0 \in 0..NumSections
    BY RevisionAssumption, SectionsAssumption
       DEF GenesisInv, ClientInv, Advice, NoBinding, Binding
  <1>2. Message \in Action /\ Message.kind = "message"
    BY <1>1 DEF Message, Action
  <1>3. CASE a = Message BY <1>2, <1>3
  <1>4. CASE a # Message
    <2>1. /\ a.kind \in {"affirm", "edit"} /\ a.section \in 0..NumSections
          /\ a.binding = advice[o].binding /\ a.binding # NoBinding
          /\ a = [kind |-> a.kind, section |-> a.section, binding |-> a.binding]
      BY <1>1, <1>4 DEF ActionsOf
    <2> QED BY <1>1, <1>2, <2>1 DEF Action
  <1> QED BY <1>3, <1>4

LEMMA AskKeeps ==
  ASSUME GenesisInv, NEW o \in Owners, NEW tool \in {"advance", "read", "recover", "preflight"},
         NEW a \in Action, tool # "advance" => a.kind = "message", Ask(o, tool, a)
  PROVE  GenesisInv'
  <1> DEFINE granted == Known(o) /\ WellFormed(a) /\ HostGrants(session, tool, a)
  <1>1. /\ UNCHANGED <<lanes, rendered>> /\ UNCHANGED callVars /\ UNCHANGED contentVars
    BY DEF Ask
  <1>2. CASE granted
    <2>1. /\ session' = HostApplies(session, tool, a)
          /\ affirmed' = IF a.kind = "affirm" THEN session.revision ELSE affirmed
      BY <1>2 DEF Ask
    <2>2. /\ LaneHolds(session', affirmed')
          /\ Final(session, session') /\ (a.kind = "affirm" => ~Finalizable(session))
      BY <1>2, <2>1, AppliedHolds DEF GenesisInv, HostInv, Tools
    <2>3. affirmed' \in 0..MaxRevision
      BY <2>1, SessionFields DEF GenesisInv, HostInv, LaneHolds
    <2>4. HostStep
      BY <1>1, <2>1, <2>2, <2>3 DEF HostStep, HostInv, GenesisInv
    <2>5. session' \in Session BY <2>2 DEF LaneHolds
    <2>6. ClientInv' /\ BoundInv'
      <3>1. \/ AnswerFor(o, tool, Faithful(session')) /\ UNCHANGED boundVars
            \/ Fault /\ Silent(o)
            \/ Fault /\ \E p \in Torn(session') : AnswerFor(o, tool, p)
        BY <1>2 DEF Ask
      <3> QED BY <3>1, <2>5, AnsweredKeeps, SilenceKeeps, BoundsRest
    <2> QED BY <1>1, <2>4, <2>6, MaterialRests DEF GenesisInv, HostStep
  <1>3. CASE ~granted
    <2>1. Silent(o) /\ UNCHANGED <<session, affirmed, boundVars>>
      BY <1>3 DEF Ask
    <2>2. UNCHANGED hostVars /\ UNCHANGED boundVars BY <1>1, <2>1 DEF hostVars
    <2> QED BY <1>1, <2>1, <2>2, HostRests, MaterialRests, SilenceKeeps, BoundsRest
          DEF GenesisInv, HostStep
  <1> QED BY <1>2, <1>3

-----------------------------------------------------------------------------
(* agent_genesis_finalize *)

LEMMA FinalizeReadKeeps ==
  ASSUME GenesisInv, NEW o \in Owners, FinalizeRead(o) PROVE GenesisInv'
  <1>1. /\ UNCHANGED hostVars /\ recovery' = recovery /\ UNCHANGED contentVars
    BY DEF FinalizeRead
  <1>2. PICK p \in {Faithful(session)} \cup Torn(session) :
          /\ IF p = Faithful(session) THEN UNCHANGED boundVars ELSE Fault
          /\ \/ /\ Known(o) /\ DeclarationHolds(p)
                /\ call' = [call EXCEPT ![o] = [at |-> "publish", doc |-> GenesisDoc(p.review.text)]]
                /\ UNCHANGED clientVars
             \/ /\ ~(Known(o) /\ DeclarationHolds(p))
                /\ Silent(o)
                /\ UNCHANGED call
    BY DEF FinalizeRead
  <1>3. HostStep /\ BoundInv' BY <1>1, <1>2, HostRests, BoundsRest
  <1>4. CASE call' = call /\ Silent(o)
    BY <1>1, <1>3, <1>4, SilenceKeeps, MaterialRests DEF GenesisInv, HostStep, callVars
  <1>5. CASE /\ DeclarationHolds(p)
             /\ call' = [call EXCEPT ![o] = [at |-> "publish", doc |-> GenesisDoc(p.review.text)]]
             /\ UNCHANGED clientVars
    <2>1. session \in Session BY DEF GenesisInv, HostInv, LaneHolds
    <2>2. PICK r \in ReviewRead : p = Projection(session, r)
      BY <2>1, ReadsAreReviews
    <2>3. /\ p.status = session.status /\ p.phase = session.phase /\ p.hash = session.revision
      BY <2>2 DEF Projection
    <2>4. /\ Finalizable(session) /\ p.review.text = session.revision
          /\ session.phase = "finalized"
      BY <1>5, <2>3 DEF DeclarationHolds, DeclarationNamed, Finalizable
    <2>5. p.review.text = affirmed /\ affirmed \in 0..MaxRevision
      BY <2>4 DEF GenesisInv, HostInv, LaneHolds
    <2>6. CallInv'
      <3>1. [at |-> "publish", doc |-> affirmed] \in [at : Stages, doc : 0..MaxRevision]
        BY <2>5 DEF Stages
      <3>2. /\ session' = session /\ affirmed' = affirmed /\ row' = row /\ soul' = soul
        BY <1>1 DEF hostVars, contentVars
      <3> QED BY <1>1, <1>5, <2>4, <2>5, <3>1, <3>2
            DEF GenesisInv, CallInv, FinalizeInv, GenesisDoc
    <2>7. ContentInv'
      BY <1>1 DEF GenesisInv, ContentInv, contentVars, hostVars, RecoveryRowIsBacked
    <2> QED BY <1>3, <1>5, <2>6, <2>7, ClientsRest DEF GenesisInv, HostStep
  <1> QED BY <1>2, <1>4, <1>5

\* A call that ends leaves the others where they are.
LEMMA EndedCall ==
  ASSUME GenesisInv, HostStep, NEW o \in Owners, call' = [call EXCEPT ![o] = Idle],
         recovery' = recovery, row' = row \/ row' # "none", soul' = soul \/ soul' # NoSoul
  PROVE  CallInv'
  <1>1. Idle \in [at : Stages, doc : 0..MaxRevision] /\ Idle.at = "idle"
    BY RevisionAssumption DEF Idle, Stages
  <1>2. Finalizable(session) => Finalizable(session') /\ affirmed' = affirmed
    BY DEF HostStep, Final
  <1>3. session.status = "published" => session'.status = "published"
    BY DEF HostStep, Final
  <1> QED BY <1>1, <1>2, <1>3 DEF GenesisInv, CallInv, FinalizeInv

\* A call that goes on has done what its new stage says.
LEMMA MovedCall ==
  ASSUME GenesisInv, HostStep, NEW o \in Owners, NEW stage \in Stages, Goto(o, stage),
         call[o].at # "idle", recovery' = recovery,
         row' = row \/ row' # "none", soul' = soul \/ soul' # NoSoul,
         session'.status = "published",
         stage \in {"seedSoul", "seedInstructions"} => row' # "none",
         stage = "seedInstructions" => soul' # NoSoul
  PROVE  CallInv'
  <1>1. Finalizable(session) => Finalizable(session') /\ affirmed' = affirmed
    BY DEF HostStep, Final
  <1>2. session.status = "published" => session'.status = "published"
    BY DEF HostStep, Final
  <1>3. call' = [call EXCEPT ![o].at = stage] BY DEF Goto
  <1> QED BY <1>1, <1>2, <1>3 DEF GenesisInv, CallInv, FinalizeInv

LEMMA PublishedHolds ==
  ASSUME GenesisInv, HostGrants(session, "finalize", Message),
         session' = HostApplies(session, "finalize", Message),
         UNCHANGED <<lanes, rendered, affirmed>>
  PROVE  HostStep /\ session'.status = "published"
  <1>1. session' = [session EXCEPT !.status = "published"] /\ Finalizable(session)
    BY DEF HostGrants, HostApplies
  <1>2. session \in Session BY DEF GenesisInv, HostInv, LaneHolds
  <1>3. LaneHolds(session', affirmed) /\ session'.status = "published"
    BY <1>1, <1>2 DEF GenesisInv, HostInv, LaneHolds, Finalizable, Session, Statuses
  <1> QED BY <1>3 DEF HostStep, HostInv, GenesisInv, Final, Finalizable

LEMMA ContentRests ==
  ASSUME GenesisInv, HostStep, recovery' = recovery, UNCHANGED contentVars
  PROVE  ContentInv'
  <1>1. row' = row /\ soul' = soul /\ instructions' = instructions
    BY DEF contentVars
  <1>2. Finalizable(session) => Finalizable(session') /\ affirmed' = affirmed
    BY DEF HostStep, Final
  <1> QED BY <1>1, <1>2 DEF GenesisInv, ContentInv, RecoveryRowIsBacked

LEMMA FinalizePublishKeeps ==
  ASSUME GenesisInv, NEW o \in Owners, FinalizePublish(o) PROVE GenesisInv'
  <1> DEFINE granted == Known(o) /\ HostGrants(session, "finalize", Message)
  <1>1. /\ At(o, "publish") /\ UNCHANGED <<lanes, rendered, affirmed>> /\ recovery' = recovery
        /\ UNCHANGED contentVars /\ UNCHANGED boundVars
    BY DEF FinalizePublish
  <1>2. /\ row' = row /\ soul' = soul BY <1>1 DEF contentVars
  <1>3. CASE granted
    <2>1. /\ session' = HostApplies(session, "finalize", Message) /\ Goto(o, "register")
          /\ UNCHANGED clientVars
      BY <1>3 DEF FinalizePublish
    <2>2. HostStep /\ session'.status = "published"
      BY <1>1, <1>3, <2>1, PublishedHolds
    <2>3. CallInv'
      <3>1. call[o].at # "idle" BY <1>1 DEF At
      <3> QED BY <1>1, <1>2, <2>1, <2>2, <3>1, MovedCall DEF Stages
    <2> QED BY <1>1, <2>1, <2>2, <2>3, ContentRests, ClientsRest, BoundsRest DEF GenesisInv, HostStep
  <1>4. CASE ~granted
    <2>1. Give(o, Silence) /\ session' = session
      BY <1>4 DEF FinalizePublish
    <2>2. HostStep BY <1>1, <2>1, HostRests DEF hostVars
    <2>3. ClientInv' BY <2>1, GivenKeeps, DoAdvises DEF Silence, Tools
    <2>4. CallInv' BY <1>1, <1>2, <2>1, <2>2, EndedCall DEF Give
    <2> QED BY <1>1, <2>2, <2>3, <2>4, ContentRests, BoundsRest DEF GenesisInv, HostStep
  <1> QED BY <1>3, <1>4

LEMMA FinalizeRegisterKeeps ==
  ASSUME GenesisInv, NEW o \in Owners, FinalizeRegister(o) PROVE GenesisInv'
  <1>1. /\ At(o, "register") /\ row' = "genesis" /\ Goto(o, "seedSoul") /\ UNCHANGED hostVars
        /\ UNCHANGED clientVars /\ recovery' = recovery /\ soul' = soul
        /\ instructions' = instructions /\ UNCHANGED boundVars
    BY DEF FinalizeRegister
  <1>2. HostStep BY <1>1, HostRests
  <1>3. session'.status = "published"
    BY <1>1 DEF GenesisInv, CallInv, FinalizeInv, At, hostVars
  <1>4. CallInv'
    <2>1. call[o].at # "idle" BY <1>1 DEF At
    <2> QED BY <1>1, <1>2, <1>3, <2>1, MovedCall DEF Stages
  <1>5. ContentInv'
    BY <1>1 DEF GenesisInv, ContentInv, RecoveryRowIsBacked, hostVars
  <1> QED BY <1>1, <1>2, <1>4, <1>5, ClientsRest, BoundsRest DEF GenesisInv, HostStep

LEMMA FinalizeSeedSoulKeeps ==
  ASSUME GenesisInv, NEW o \in Owners, FinalizeSeedSoul(o) PROVE GenesisInv'
  <1>1. /\ At(o, "seedSoul") /\ UNCHANGED hostVars /\ recovery' = recovery /\ row' = row
        /\ instructions' = instructions /\ UNCHANGED boundVars
    BY DEF FinalizeSeedSoul
  <1>2. HostStep BY <1>1, HostRests
  <1>3. /\ session'.status = "published" /\ row # "none" /\ Finalizable(session)
        /\ call[o].doc = affirmed /\ session' = session /\ affirmed' = affirmed
        /\ affirmed \in 0..MaxRevision
    BY <1>1 DEF GenesisInv, CallInv, FinalizeInv, At, hostVars, HostInv
  <1>4. CASE Seedable(call[o].doc)
    <2>1. /\ soul' = [doc |-> affirmed, state |-> "published"]
          /\ Goto(o, "seedInstructions") /\ UNCHANGED clientVars
      BY <1>3, <1>4 DEF FinalizeSeedSoul
    <2>2. soul'.doc = affirmed /\ soul' # NoSoul
      BY <2>1 DEF NoSoul
    <2>3. CallInv'
      <3>1. call[o].at # "idle" BY <1>1 DEF At
      <3> QED BY <1>1, <1>2, <1>3, <2>1, <2>2, <3>1, MovedCall DEF Stages
    <2>4. soul' \in [doc : 0..MaxRevision + 2, state : {"none", "draft", "published", "archived"}]
      BY <1>3, <2>1, RevisionAssumption
    <2>5. ContentInv'
      BY <1>1, <1>3, <2>2, <2>4 DEF GenesisInv, ContentInv, RecoveryRowIsBacked
    <2> QED BY <1>1, <1>2, <2>1, <2>3, <2>5, ClientsRest, BoundsRest DEF GenesisInv, HostStep
  <1>5. CASE ~Seedable(call[o].doc)
    <2>1. Give(o, Do("finalize")) /\ soul' = soul
      BY <1>5 DEF FinalizeSeedSoul
    <2>2. ClientInv' BY <2>1, GivenKeeps, DoAdvises DEF Tools
    <2>3. CallInv' BY <1>1, <1>2, <2>1, EndedCall DEF Give
    <2> QED BY <1>1, <1>2, <2>1, <2>2, <2>3, ContentRests, BoundsRest
          DEF GenesisInv, HostStep, contentVars
  <1> QED BY <1>4, <1>5

LEMMA SeedInstructionsKeeps ==
  ASSUME GenesisInv, SeedInstructions
  PROVE  instructions' \in {"none", "seed", "owner"} /\ instructions' # "none"
  BY DEF SeedInstructions, GenesisInv, ContentInv

LEMMA FinalizeSeedInstructionsKeeps ==
  ASSUME GenesisInv, NEW o \in Owners, FinalizeSeedInstructions(o) PROVE GenesisInv'
  <1>1. /\ UNCHANGED hostVars /\ recovery' = recovery /\ row' = row /\ soul' = soul
        /\ SeedInstructions /\ UNCHANGED boundVars
        /\ Give(o, Guidance("finalize", Faithful(session)))
    BY DEF FinalizeSeedInstructions
  <1>2. HostStep BY <1>1, HostRests
  <1>3. session \in Session BY DEF GenesisInv, HostInv, LaneHolds
  <1>4. ClientInv' BY <1>1, <1>3, PlainGuidance, GivenKeeps
  <1>5. CallInv' BY <1>1, <1>2, EndedCall DEF Give
  <1>6. ContentInv'
    BY <1>1, SeedInstructionsKeeps DEF GenesisInv, ContentInv, RecoveryRowIsBacked, hostVars
  <1> QED BY <1>1, <1>2, <1>4, <1>5, <1>6, BoundsRest DEF GenesisInv, HostStep

LEMMA FinalizeEnds ==
  ASSUME GenesisInv, NEW o \in Owners, FinalizeFails(o) \/ FinalizeCrashes(o)
  PROVE  GenesisInv'
  <1>1. /\ Fault /\ recovery' = recovery /\ UNCHANGED contentVars
        /\ Give(o, Do("finalize")) \/ Give(o, Silence)
        /\ UNCHANGED <<lanes, rendered, affirmed>>
        /\ \/ session' = session
           \/ /\ HostGrants(session, "finalize", Message)
              /\ session' = HostApplies(session, "finalize", Message)
    BY DEF FinalizeFails, FinalizeCrashes, hostVars
  <1>2. HostStep
    BY <1>1, HostRests, PublishedHolds DEF hostVars
  <1>3. ClientInv' BY <1>1, GivenKeeps, DoAdvises DEF Silence, Tools
  <1>4. CallInv' BY <1>1, <1>2, EndedCall DEF Give, contentVars
  <1> QED BY <1>1, <1>2, <1>3, <1>4, ContentRests, BoundsRest DEF GenesisInv, HostStep

-----------------------------------------------------------------------------
(* soul_self_recover, the Host, and the owner *)

\* What every step of a recovery leaves alone.
LEMMA RecoveryStep ==
  ASSUME GenesisInv, UNCHANGED hostVars, UNCHANGED clientVars, call' = call,
         UNCHANGED boundVars \/ Fault,
         recovery' \in [at : Stages, class : Classes],
         row' = row \/ row' # "none", soul' = soul \/ soul' # NoSoul,
         ContentInv'
  PROVE  GenesisInv'
  <1>1. CallInv'
    BY DEF GenesisInv, CallInv, FinalizeInv, hostVars
  <1> QED BY <1>1, HostRests, ClientsRest, BoundsRest DEF GenesisInv, HostStep

LEMMA RecoverySeeds ==
  ASSUME GenesisInv, recovery \in [at : Stages, class : Classes]
  PROVE  /\ Recovered # NoSoul
         /\ Recovered \in [doc : 0..MaxRevision + 2,
                           state : {"none", "draft", "published", "archived"}]
         /\ Recovered = soul \/ Recovered.doc \notin Revisions
  <1>1. soul \in [doc : 0..MaxRevision + 2, state : {"none", "draft", "published", "archived"}]
    BY DEF GenesisInv, ContentInv
  <1>2. /\ RecoveredDoc \in 0..MaxRevision + 2 /\ RecoveredDoc \notin Revisions
    BY RevisionAssumption DEF RecoveredDoc, Revisions
  <1> QED BY <1>1, <1>2 DEF Recovered, NoSoul

LEMMA RecoverKeeps ==
  ASSUME GenesisInv,
         RecoverBegin \/ RecoverSeedSoul \/ RecoverSeedInstructions \/ RecoverRegister
           \/ RecoverCrashes
  PROVE  GenesisInv'
  <1>1. /\ recovery \in [at : Stages, class : Classes] /\ Rest \in [at : Stages, class : Classes]
        /\ Rest.at = "idle"
    BY DEF GenesisInv, CallInv, Rest, Stages, Classes
  <1>2. CASE RecoverBegin
    <2>1. /\ recovery'.at = "seedSoul" /\ recovery' \in [at : Stages, class : Classes]
      BY <1>2 DEF RecoverBegin, Evidence, Stages
    <2> QED BY <1>2, <2>1, RecoveryStep
          DEF RecoverBegin, GenesisInv, ContentInv, RecoveryRowIsBacked, contentVars, hostVars
  <1>3. CASE RecoverSeedSoul
    <2>1. /\ UNCHANGED hostVars /\ UNCHANGED clientVars /\ call' = call /\ row' = row
          /\ instructions' = instructions /\ UNCHANGED boundVars
          /\ \/ soul' = Recovered /\ recovery' = [recovery EXCEPT !.at = "seedInstructions"]
             \/ soul' = soul /\ recovery' = Rest
      BY <1>3 DEF RecoverSeedSoul
    <2>2. /\ soul' = soul \/ soul' # NoSoul
          /\ recovery' \in [at : Stages, class : Classes]
      BY <1>1, <2>1, RecoverySeeds DEF Stages
    <2>3. ContentInv'
      <3>1. CASE soul' = soul /\ recovery' = Rest
        BY <1>1, <2>1, <3>1 DEF GenesisInv, ContentInv, RecoveryRowIsBacked, hostVars
      <3>2. CASE soul' = Recovered /\ recovery' = [recovery EXCEPT !.at = "seedInstructions"]
        <4>1. /\ soul' # NoSoul /\ recovery'.at = "seedInstructions"
              /\ soul' \in [doc : 0..MaxRevision + 2,
                            state : {"none", "draft", "published", "archived"}]
              /\ soul' = soul \/ soul'.doc \notin Revisions
          BY <1>1, <3>2, RecoverySeeds
        <4> QED BY <2>1, <4>1 DEF GenesisInv, ContentInv, RecoveryRowIsBacked, hostVars
      <3> QED BY <2>1, <3>1, <3>2
    <2> QED BY <2>1, <2>2, <2>3, RecoveryStep
  <1>4. CASE RecoverSeedInstructions
    <2>1. /\ UNCHANGED hostVars /\ UNCHANGED clientVars /\ call' = call /\ row' = row
          /\ soul' = soul /\ SeedInstructions /\ UNCHANGED boundVars
          /\ recovery.at = "seedInstructions" /\ recovery' = [recovery EXCEPT !.at = "register"]
      BY <1>4 DEF RecoverSeedInstructions
    <2>2. recovery'.at = "register" /\ recovery' \in [at : Stages, class : Classes]
      BY <1>1, <2>1 DEF Stages
    <2>3. ContentInv'
      BY <2>1, <2>2, SeedInstructionsKeeps
         DEF GenesisInv, ContentInv, RecoveryRowIsBacked, hostVars
    <2> QED BY <2>1, <2>2, <2>3, RecoveryStep
  <1>5. CASE RecoverRegister
    <2>1. /\ UNCHANGED hostVars /\ UNCHANGED clientVars /\ call' = call /\ row' = "recovery"
          /\ soul' = soul /\ instructions' = instructions /\ UNCHANGED boundVars
          /\ recovery.at = "register" /\ recovery' = Rest
      BY <1>5 DEF RecoverRegister
    <2>2. ContentInv'
      BY <1>1, <2>1 DEF GenesisInv, ContentInv, RecoveryRowIsBacked, hostVars
    <2> QED BY <1>1, <2>1, <2>2, RecoveryStep
  <1>6. CASE RecoverCrashes
    <2>1. /\ UNCHANGED hostVars /\ UNCHANGED clientVars /\ call' = call
          /\ UNCHANGED contentVars /\ Fault /\ recovery' = Rest
      BY <1>6 DEF RecoverCrashes
    <2>2. row' = row /\ soul' = soul /\ instructions' = instructions
      BY <2>1 DEF contentVars
    <2>3. ContentInv'
      BY <1>1, <2>1, <2>2 DEF GenesisInv, ContentInv, RecoveryRowIsBacked, hostVars
    <2> QED BY <1>1, <2>1, <2>2, <2>3, RecoveryStep
  <1> QED BY <1>2, <1>3, <1>4, <1>5, <1>6

LEMMA HostKeeps ==
  ASSUME GenesisInv, HostTurn \/ HostFails \/ HostDecides PROVE GenesisInv'
  <1>1. /\ UNCHANGED clientVars /\ UNCHANGED callVars /\ UNCHANGED contentVars
        /\ lanes' = lanes /\ affirmed' = affirmed
        /\ UNCHANGED boundVars \/ Fault
    BY DEF HostTurn, HostFails, HostDecides
  <1>2. LaneHolds(session, affirmed) /\ rendered \in 0..MaxRevision
    BY DEF GenesisInv, HostInv
  <1>3. CASE HostTurn
    <2>1. /\ session.status \in {"created", "in_progress"}
          /\ session' = Turn(session, rendered + 1)
          /\ rendered' = IF Reviewed(session'.phase) /\ ~Reviewed(session.phase)
                         THEN rendered + 1 ELSE rendered
          /\ rendered' <= MaxRevision
      BY <1>3 DEF HostTurn
    <2>2. rendered' \in 0..MaxRevision
      BY <2>1, <1>2, RevisionAssumption
    <2>3. Reviewed(session'.phase) /\ ~Reviewed(session.phase) => rendered + 1 \in 0..MaxRevision
      BY <2>1, <2>2
    <2>4. LaneHolds(session', affirmed) /\ ~Finalizable(session)
      BY <1>2, <2>1, <2>3, TurnHolds
    <2>5. HostStep
      BY <1>1, <2>2, <2>4 DEF HostStep, HostInv, GenesisInv, Final, Finalizable
    <2> QED BY <1>1, <2>5, MaterialRests, ClientsRest, BoundsRest DEF GenesisInv, HostStep
  <1>4. CASE HostFails
    <2>1. /\ session.status \in {"created", "in_progress"} /\ session' \in Failures(session)
          /\ rendered' = rendered
      BY <1>4 DEF HostFails
    <2>2. LaneHolds(session', affirmed) /\ ~Finalizable(session)
      BY <1>2, <2>1, FailuresHold
    <2>3. HostStep
      BY <1>1, <2>1, <2>2 DEF HostStep, HostInv, GenesisInv, Final, Finalizable
    <2> QED BY <1>1, <2>3, MaterialRests, ClientsRest, BoundsRest DEF GenesisInv, HostStep
  <1>5. CASE HostDecides
    <2>1. /\ session.status = "failed" /\ session.recovery = "refresh_state"
          /\ session' \in {[session EXCEPT !.status = "in_progress", !.recovery = "none"],
                           [session EXCEPT !.recovery = "retry_same_step"],
                           [session EXCEPT !.recovery = "operator_action"]}
          /\ rendered' = rendered
      BY <1>5 DEF HostDecides
    <2>2. session \in Session BY <1>2 DEF LaneHolds
    <2>3. LaneHolds(session', affirmed) /\ ~Finalizable(session)
      BY <1>2, <2>1, <2>2 DEF LaneHolds, Finalizable, Session, Statuses, Recoveries
    <2>4. HostStep
      BY <1>1, <2>1, <2>3 DEF HostStep, HostInv, GenesisInv, Final, Finalizable
    <2> QED BY <1>1, <2>4, MaterialRests, ClientsRest, BoundsRest DEF GenesisInv, HostStep
  <1> QED BY <1>3, <1>4, <1>5

LEMMA OwnerEditsKeeps ==
  ASSUME GenesisInv, OwnerEdits PROVE GenesisInv'
  <1>1. /\ UNCHANGED hostVars /\ UNCHANGED clientVars /\ call' = call /\ recovery' = recovery
        /\ row' = row /\ faults' = faults /\ edits < MaxEdits /\ edits' = edits + 1
    BY DEF OwnerEdits, callVars
  <1>2. soul \in [doc : 0..MaxRevision + 2, state : {"none", "draft", "published", "archived"}]
    BY DEF GenesisInv, ContentInv
  <1>3. OwnerDoc \in 0..MaxRevision + 2 /\ OwnerDoc \notin Revisions
    BY RevisionAssumption DEF OwnerDoc, Revisions
  <1>4. /\ soul' \in [doc : 0..MaxRevision + 2, state : {"none", "draft", "published", "archived"}]
        /\ soul' = soul \/ soul' # NoSoul
        /\ soul'.doc = soul.doc \/ soul'.doc \notin Revisions
        /\ instructions' = instructions \/ instructions' = "owner"
    BY <1>2, <1>3 DEF OwnerEdits, NoSoul
  <1>5. ContentInv'
    BY <1>1, <1>4 DEF GenesisInv, ContentInv, RecoveryRowIsBacked, hostVars
  <1>6. CallInv' BY <1>1, <1>4 DEF GenesisInv, CallInv, FinalizeInv, hostVars
  <1>7. BoundInv' BY <1>1, GenesisBoundsAssumption DEF GenesisInv, BoundInv
  <1> QED BY <1>1, <1>5, <1>6, <1>7, HostRests, ClientsRest DEF GenesisInv, HostStep

LEMMA GenesisStepKeeps == GenesisInv /\ [Next]_vars => GenesisInv'
  <1> SUFFICES ASSUME GenesisInv, [Next]_vars PROVE GenesisInv'
    OBVIOUS
  <1>1. CASE UNCHANGED vars
    <2>1. UNCHANGED hostVars /\ UNCHANGED clientVars /\ UNCHANGED callVars
          /\ UNCHANGED contentVars /\ UNCHANGED boundVars
      BY <1>1 DEF vars
    <2> QED BY <2>1, HostRests, ClientsRest, MaterialRests, BoundsRest DEF GenesisInv, HostStep
  <1>2. ASSUME NEW o \in Owners, NEW tool \in Tools, Use(o, tool) PROVE GenesisInv'
    <2>1. ASSUME ReadLane(o) \/ Recover(o) \/ Preflight(o) PROVE GenesisInv'
      <3>1. Message \in Action /\ Message.kind = "message"
        BY RevisionAssumption, SectionsAssumption DEF Message, Action, NoBinding, Binding
      <3> QED BY <2>1, <3>1, AskKeeps DEF ReadLane, Recover, Preflight
    <2>2. ASSUME Advance(o) PROVE GenesisInv'
      BY <2>2, ActionsAreActions, AskKeeps DEF Advance
    <2> QED BY <1>2, <2>1, <2>2, BeginKeeps, ListKeeps, FinalizeReadKeeps DEF Use
  <1>3. ASSUME Progress PROVE GenesisInv'
    BY <1>3, FinalizePublishKeeps, FinalizeRegisterKeeps, FinalizeSeedSoulKeeps,
       FinalizeSeedInstructionsKeeps, FinalizeEnds, RecoverKeeps, HostKeeps, OwnerEditsKeeps
       DEF Progress, Finalize
  <1> QED BY <1>1, <1>2, <1>3 DEF Next

\* The types of the Host's lane, of its clients, of the calls and of the agent.
THEOREM GenesisTypes == Spec => []TypeOK
  <1>1. GenesisInv => TypeOK
    BY DEF GenesisInv, HostInv, LaneHolds, ClientInv, CallInv, ContentInv, BoundInv, TypeOK
  <1> QED BY <1>1, GenesisStarts, GenesisStepKeeps, PTL DEF Spec

\* However many owners, lanes, reviews and torn reads there are: a soul out of
\* agent_genesis_finalize is the declaration that was affirmed, and a registry
\* row of soul_self_recover has content behind it.
THEOREM GenesisContentIsBacked == Spec => []ContentIsBacked
  <1>1. GenesisInv => ContentIsBacked
    BY DEF GenesisInv, ContentInv, ContentIsBacked, SeededAsAffirmed
  <1> QED BY <1>1, GenesisStarts, GenesisStepKeeps, PTL DEF Spec

-----------------------------------------------------------------------------
(* What a step may not do *)

ShowsWhatIsAffirmed == affirmed' # affirmed => \E o \in Owners : affirmed' \in shown[o]

LEMMA AffirmingShows == GenesisInv /\ [Next]_vars => ShowsWhatIsAffirmed
  <1> SUFFICES ASSUME GenesisInv, [Next]_vars, affirmed' # affirmed
               PROVE  \E o \in Owners : affirmed' \in shown[o]
    BY DEF ShowsWhatIsAffirmed
  <1>1. ASSUME NEW o \in Owners, NEW tool, NEW a \in Action, Ask(o, tool, a),
               a.kind # "message" => tool = "advance" /\ a.binding = advice[o].binding
                                     /\ a.binding # NoBinding
        PROVE  affirmed' \in shown[o]
    <2>1. /\ HostGrants(session, tool, a) /\ a.kind = "affirm"
          /\ affirmed' = session.revision
      BY <1>1 DEF Ask
    <2>2. tool = "advance" BY <1>1, <2>1
    <2>3. a.binding = HostBinding(session)
      BY <2>1, <2>2 DEF HostGrants, HostAdvances, HostBinding
    <2>4. a.binding.reviewHash = session.revision
      BY <2>3 DEF HostBinding
    <2> QED BY <1>1, <2>1, <2>4 DEF GenesisInv, ClientInv, ShownInv
  <1>2. ASSUME NEW o \in Owners, NEW tool \in Tools, Use(o, tool)
        PROVE  affirmed' \in shown[o]
    <2>1. Message \in Action /\ Message.kind = "message"
      BY RevisionAssumption, SectionsAssumption DEF Message, Action, NoBinding, Binding
    <2>2. ASSUME ReadLane(o) \/ Recover(o) \/ Preflight(o) PROVE affirmed' \in shown[o]
      BY <2>1, <2>2, <1>1 DEF ReadLane, Recover, Preflight
    <2>3. ASSUME Advance(o) PROVE affirmed' \in shown[o]
      BY <2>3, <1>1, ActionsAreActions DEF Advance
    <2> QED BY <1>2, <2>2, <2>3 DEF Use, Begin, List, FinalizeRead, hostVars
  <1>3. ~Progress
    BY DEF Progress, Finalize, FinalizePublish, FinalizeRegister, FinalizeSeedSoul,
           FinalizeSeedInstructions, FinalizeFails, FinalizeCrashes, RecoverBegin,
           RecoverSeedSoul, RecoverSeedInstructions, RecoverRegister, RecoverCrashes,
           HostTurn, HostFails, HostDecides, OwnerEdits, hostVars
  <1>4. ~UNCHANGED vars BY DEF vars, hostVars
  <1> QED BY <1>2, <1>3, <1>4 DEF Next

\* No owner affirms a declaration that no owner was shown, whatever the Host's
\* reads served and whoever else drives the lane (genesisCandidateReviewGuidance).
THEOREM AffirmedIsShown == Spec => AffirmedWasShown
  <1>1. GenesisInv /\ [Next]_vars => [ShowsWhatIsAffirmed]_vars
    BY AffirmingShows
  <1>2. Spec => [][ShowsWhatIsAffirmed]_vars
    BY <1>1, GenesisStarts, GenesisStepKeeps, PTL DEF Spec
  <1> QED BY <1>2 DEF ShowsWhatIsAffirmed, AffirmedWasShown

Succeeds(o) ==
  call[o] # Idle /\ call'[o] = Idle /\ advice'[o].next = "agent_get"
    => row' # "none" /\ soul' # NoSoul /\ instructions' # "none"

LEMMA SuccessIsBacked ==
  ASSUME GenesisInv, [Next]_vars, NEW o \in Owners PROVE Succeeds(o)
  <1> SUFFICES ASSUME call[o] # Idle, call'[o] = Idle, advice'[o].next = "agent_get"
               PROVE  row' # "none" /\ soul' # NoSoul /\ instructions' # "none"
    BY DEF Succeeds
  <1>1. /\ call \in [Owners -> [at : Stages, doc : 0..MaxRevision]]
        /\ advice \in [Owners -> Advice]
    BY DEF GenesisInv, CallInv, ClientInv
  <1>2. ASSUME NEW u \in Owners, FinalizeSeedInstructions(u), u = o
        PROVE  row' # "none" /\ soul' # NoSoul /\ instructions' # "none"
    <2>1. call[o].at = "seedInstructions" /\ row' = row /\ soul' = soul /\ SeedInstructions
      BY <1>2 DEF FinalizeSeedInstructions, At
    <2>2. row # "none" /\ soul # NoSoul
      BY <2>1 DEF GenesisInv, CallInv, FinalizeInv
    <2> QED BY <2>1, <2>2, SeedInstructionsKeeps
  <1>3. ASSUME NEW u \in Owners, NEW a \in {Silence, Do("finalize")}, Give(u, a)
        PROVE  FALSE
    <2>1. call' = [call EXCEPT ![u] = Idle] /\ advice' = [advice EXCEPT ![u] = a]
      BY <1>3 DEF Give, Answer
    <2>2. u = o BY <1>1, <2>1
    <2>3. advice'[o].next \in {"none", "finalize"}
      BY <1>1, <2>1, <2>2, DoAdvises DEF Silence, Tools
    <2> QED BY <2>3
  <1>4. ASSUME NEW u \in Owners, NEW stage \in Stages \ {"idle"}, Goto(u, stage)
        PROVE  FALSE
    <2>1. call' = [call EXCEPT ![u].at = stage] BY <1>4 DEF Goto
    <2>2. u = o BY <1>1, <2>1
    <2>3. call'[o].at = stage /\ Idle.at = "idle" BY <1>1, <2>1, <2>2 DEF Idle
    <2> QED BY <2>3
  <1>5. ASSUME NEW u \in Owners, FinalizeSeedInstructions(u), u # o PROVE FALSE
    BY <1>1, <1>5 DEF FinalizeSeedInstructions, Give
  <1>6. ASSUME NEW u \in Owners, NEW tool \in Tools, Use(u, tool) PROVE FALSE
    <2>1. call' = call \/ (call[u] = Idle /\ \E c : call' = [call EXCEPT ![u] = c])
      BY <1>6 DEF Use, Begin, List, ReadLane, Advance, Recover, Preflight, Ask, FinalizeRead,
                  callVars
    <2> QED BY <1>1, <2>1
  <1>7. ASSUME NEW u \in Owners,
               FinalizePublish(u) \/ FinalizeRegister(u) \/ FinalizeSeedSoul(u)
                 \/ FinalizeFails(u) \/ FinalizeCrashes(u)
        PROVE  FALSE
    <2>1. \/ \E a \in {Silence, Do("finalize")} : Give(u, a)
          \/ \E stage \in Stages \ {"idle"} : Goto(u, stage)
      BY <1>7 DEF FinalizePublish, FinalizeRegister, FinalizeSeedSoul, FinalizeFails,
                  FinalizeCrashes, Stages
    <2> QED BY <2>1, <1>3, <1>4
  <1>8. ASSUME call' = call PROVE FALSE BY <1>8
  <1>9. ~UNCHANGED vars BY <1>8 DEF vars, callVars
  <1>10. \/ \E u \in Owners : Finalize(u) \/ FinalizeFails(u) \/ FinalizeCrashes(u)
         \/ \E u \in Owners, tool \in Tools : Use(u, tool)
    BY <1>8, <1>9
       DEF Next, Progress, RecoverBegin, RecoverSeedSoul, RecoverSeedInstructions,
           RecoverRegister, RecoverCrashes, HostTurn, HostFails, HostDecides, OwnerEdits,
           callVars
  <1> QED BY <1>2, <1>5, <1>6, <1>7, <1>10 DEF Finalize

\* agent_genesis_finalize does not answer that the lane is published and
\* terminal before the registry row, a soul and instructions exist, whatever
\* owners, recoveries and edits run meanwhile (handleGenesisFinalize).
THEOREM FinalizedIsComplete == Spec => SuccessIsComplete
  <1>1. GenesisInv /\ [Next]_vars => [\A o \in Owners : Succeeds(o)]_vars
    BY SuccessIsBacked
  <1>2. Spec => [][\A o \in Owners : Succeeds(o)]_vars
    BY <1>1, GenesisStarts, GenesisStepKeeps, PTL DEF Spec
  <1> QED BY <1>2 DEF Succeeds, SuccessIsComplete

\* The advice a is taken up by a lane s, or needs nothing of it.
Granted(s, a) ==
  \/ a.next \in {"none", "begin", "list", "agent_get", "contact_operator"}
  \/ \E kind \in {"message", "affirm"} :
       HostGrants(s, a.next, [kind |-> kind, section |-> 0, binding |-> a.binding])

LEMMA DoIsGranted ==
  ASSUME NEW s, NEW next \in Tools, NEW forbidden,
         \/ next \in {"none", "begin", "list", "agent_get", "contact_operator"}
         \/ next = "read" /\ s.status \in ConversationStatuses
         \/ next = "recover" /\ s.status = "failed" /\ s.recovery = "retry_same_step"
         \/ next \in {"preflight", "finalize"} /\ Finalizable(s)
         \/ next = "advance" /\ s.status = "registered"
         \/ next = "advance" /\ s.status = "assistant_turn_ready" /\ s.phase = "section"
  PROVE  Granted(s, Advise(next, forbidden, NoBinding)) /\ Granted(s, Do(next))
  <1> DEFINE message == [kind |-> "message", section |-> 0, binding |-> NoBinding]
  <1>1. \/ next \in {"none", "begin", "list", "agent_get", "contact_operator"}
        \/ HostGrants(s, next, message)
    BY DEF HostGrants, HostAdvances
  <1>2. ASSUME NEW f PROVE Granted(s, Advise(next, f, NoBinding))
    BY <1>1 DEF Granted, Advise
  <1> QED BY <1>2 DEF Do

LEMMA FaithfulFields ==
  ASSUME NEW s
  PROVE  /\ Faithful(s).status = s.status /\ Faithful(s).phase = s.phase
         /\ Faithful(s).recovery = s.recovery /\ Faithful(s).revision = s.revision
         /\ Faithful(s).hash = s.revision
         /\ Reviewed(s.phase) => Faithful(s).review = ReviewOf(s.revision)
  BY DEF Faithful, Projection

\* genesisNextToolGuidance of an accepted projection.
LEMMA GuidanceIsGranted ==
  ASSUME NEW s, NEW aff, LaneHolds(s, aff), Accepted(Faithful(s)),
         NEW tool \in {"advance", "read", "recover", "preflight"},
         tool = "preflight" => Finalizable(s)
  PROVE  Granted(s, Guidance(tool, Faithful(s)))
  <1> DEFINE p == Faithful(s)
             g == Guidance(tool, p)
  <1>1. /\ p.status = s.status /\ p.phase = s.phase /\ p.recovery = s.recovery
        /\ p.revision = s.revision /\ p.hash = s.revision
        /\ Reviewed(s.phase) => p.review = ReviewOf(s.revision)
    BY FaithfulFields
  <1>2. s.recovery # "none" => s.status = "failed"
    BY DEF LaneHolds
  <1>3. s.status \in ConversationStatuses BY <1>1 DEF Accepted
  <1>a. s.status = "assistant_turn_ready" => s.phase \in {"section", "review"}
    BY <1>1 DEF Accepted, PhaseFits, RestartWithoutCandidate
  <1> SUFFICES Granted(s, g) OBVIOUS
  <1> HIDE DEF p
  <1>4. CASE p.recovery # "none"
    <2>1. g = RecoveryAdvice(s.recovery) /\ s.status = "failed"
      BY <1>1, <1>2, <1>4 DEF Guidance
    <2> QED BY <2>1, <1>3, DoIsGranted DEF RecoveryAdvice, Tools
  <1>5. CASE p.recovery = "none" /\ p.status = "in_progress"
    <2>1. g = Advise("read", "advance", NoBinding)
      BY <1>5 DEF Guidance
    <2> QED BY <2>1, <1>3, DoIsGranted DEF Tools
  <1>6. CASE p.recovery = "none" /\ tool = "preflight"
    <2>1. g = Do("finalize") /\ s.status # "in_progress"
      BY <1>1, <1>6 DEF Guidance, Finalizable
    <2> QED BY <2>1, <1>6, DoIsGranted DEF Tools
  <1>7. CASE /\ p.recovery = "none" /\ p.status # "in_progress" /\ tool # "preflight"
             /\ p.status = "assistant_turn_ready" /\ p.phase = "review"
    <2>1. g = ReviewAdvice(p) BY <1>7 DEF Guidance
    <2>2. g.next = "advance" /\ g.binding = HostBinding(s)
      BY <1>1, <1>7, <2>1 DEF ReviewAdvice, Advise, HostBinding, ReviewOf, Reviewed
    <2> DEFINE affirm == [kind |-> "affirm", section |-> 0, binding |-> g.binding]
    <2>3. HostGrants(s, g.next, affirm)
      BY <1>1, <1>7, <2>2 DEF HostGrants, HostAdvances
    <2> QED BY <2>3 DEF Granted
  <1>8. CASE /\ p.recovery = "none" /\ p.status # "in_progress" /\ tool # "preflight"
             /\ p.status = "assistant_turn_ready" /\ p.phase # "review"
    <2>1. g = Do("advance") BY <1>8 DEF Guidance
    <2>2. s.phase = "section"
      BY <1>1, <1>8, <1>a
    <2> QED BY <2>1, <2>2, <1>1, <1>8, DoIsGranted DEF Tools
  <1>9. CASE /\ p.recovery = "none" /\ p.status # "in_progress" /\ tool # "preflight"
             /\ p.status # "assistant_turn_ready"
    <2>1. \/ g = Do("agent_get")
          \/ g = Do("preflight") /\ p.status = "declaration_ready"
          \/ g = Do("read")
      BY <1>9 DEF Guidance
    <2> QED BY <2>1, <1>1, <1>3, DoIsGranted DEF Tools, Finalizable
  <1> QED BY <1>4, <1>5, <1>6, <1>7, <1>8, <1>9

LEMMA ListIsGranted == ASSUME NEW s \in Session PROVE Granted(s, ListAdvice(s))
  <1>1. s.status \in Statuses BY DEF Session
  <1> QED BY <1>1, DoIsGranted
        DEF ListAdvice, Statuses, ConversationStatuses, Tools, Finalizable

AdvisesGranted(o) ==
  advice'[o] # advice[o] /\ faults' = faults /\ lane'[o] = lanes' =>
    \/ advice'[o].next \in {"none", "begin", "list", "agent_get", "contact_operator"}
    \/ \E kind \in {"message", "affirm"} :
         HostGrants(session', advice'[o].next,
                    [kind |-> kind, section |-> 0, binding |-> advice'[o].binding])

LEMMA StepAdvisesGranted ==
  ASSUME GenesisInv, [Next]_vars, NEW o \in Owners PROVE AdvisesGranted(o)
  <1> SUFFICES ASSUME advice'[o] # advice[o], faults' = faults
               PROVE  Granted(session', advice'[o])
    BY DEF AdvisesGranted, Granted
  <1>1. /\ advice \in [Owners -> Advice] /\ LaneHolds(session, affirmed) /\ session \in Session
        /\ faults \in 0..MaxFaults
    BY DEF GenesisInv, ClientInv, HostInv, LaneHolds, BoundInv
  <1>2. GenesisInv' /\ LaneHolds(session', affirmed') BY GenesisStepKeeps DEF GenesisInv, HostInv
  <1>3. ~Fault BY <1>1, GenesisBoundsAssumption DEF Fault
  <1>4. ASSUME NEW u \in Owners, NEW a, Answer(u, a), Granted(session', a)
        PROVE  Granted(session', advice'[o])
    <2>1. advice' = [advice EXCEPT ![u] = a] BY <1>4 DEF Answer
    <2>2. u = o BY <1>1, <2>1
    <2> QED BY <1>1, <1>4, <2>1, <2>2
  <1>5. ASSUME NEW u \in Owners, Answer(u, Silence) PROVE Granted(session', advice'[o])
    <2>1. Granted(session', Silence) BY DoIsGranted DEF Silence, Tools
    <2> QED BY <1>4, <1>5, <2>1
  <1>6. ASSUME NEW u \in Owners, Begin(u) PROVE Granted(session', advice'[o])
    <2>1. ASSUME NEW s, s.status = "registered", s.recovery = "none"
          PROVE  Granted(s, Guidance("begin", Faithful(s)))
      <3>1. Guidance("begin", Faithful(s)) = Do("advance")
        BY <2>1, FaithfulFields DEF Guidance
      <3> QED BY <2>1, <3>1, DoIsGranted DEF Tools
    <2>2. session.status = "registered" => session.recovery = "none"
      BY <1>1 DEF LaneHolds
    <2> QED BY <1>3, <1>4, <1>5, <1>6, <2>1, <2>2, NewLane DEF Begin, Silent
  <1>7. ASSUME NEW u \in Owners, List(u) PROVE Granted(session', advice'[o])
    <2>1. Answer(u, ListAdvice(session)) /\ session' = session
      BY <1>7 DEF List, hostVars
    <2> QED BY <1>1, <1>4, <2>1, ListIsGranted
  <1>8. ASSUME NEW u \in Owners, NEW tool \in {"advance", "read", "recover", "preflight"},
               NEW a, Ask(u, tool, a)
        PROVE  Granted(session', advice'[o])
    <2>1. \/ Silent(u)
          \/ /\ HostGrants(session, tool, a) /\ session' = HostApplies(session, tool, a)
             /\ AnswerFor(u, tool, Faithful(session'))
      BY <1>3, <1>8 DEF Ask
    <2>2. CASE Silent(u) BY <2>2, <1>5 DEF Silent
    <2>3. CASE /\ HostGrants(session, tool, a) /\ session' = HostApplies(session, tool, a)
               /\ AnswerFor(u, tool, Faithful(session')) /\ ~Silent(u)
      <3>1. Accepted(Faithful(session')) /\ Answer(u, Guidance(tool, Faithful(session')))
        BY <2>3 DEF AnswerFor
      <3>2. tool = "preflight" => Finalizable(session')
        BY <2>3 DEF HostGrants, HostApplies
      <3> QED BY <1>2, <1>4, <3>1, <3>2, GuidanceIsGranted
    <2> QED BY <2>1, <2>2, <2>3
  <1>9. ASSUME NEW u \in Owners, NEW tool \in Tools, Use(u, tool)
        PROVE  Granted(session', advice'[o])
    <2>1. ASSUME FinalizeRead(u) PROVE Granted(session', advice'[o])
      <3>1. Silent(u) BY <2>1 DEF FinalizeRead, clientVars
      <3> QED BY <3>1, <1>5 DEF Silent
    <2> QED BY <1>6, <1>7, <1>8, <1>9, <2>1
          DEF Use, ReadLane, Advance, Recover, Preflight
  <1>10. ASSUME NEW u \in Owners, Finalize(u) PROVE Granted(session', advice'[o])
    <2>1. \/ Give(u, Silence)
          \/ /\ At(u, "seedSoul") /\ Give(u, Do("finalize")) /\ session' = session
          \/ /\ At(u, "seedInstructions") /\ Give(u, Guidance("finalize", Faithful(session)))
             /\ session' = session
      BY <1>10 DEF Finalize, FinalizePublish, FinalizeRegister, FinalizeSeedSoul,
                   FinalizeSeedInstructions, clientVars, hostVars
    <2>2. call[u].at \in {"seedSoul", "seedInstructions"} =>
            session.status = "published" /\ session.recovery = "none"
      BY <1>1 DEF GenesisInv, CallInv, FinalizeInv, LaneHolds
    <2>3. session.status = "published" /\ session.recovery = "none" =>
            /\ Granted(session, Do("finalize"))
            /\ Granted(session, Guidance("finalize", Faithful(session)))
      <3>1. session.status = "published" /\ session.recovery = "none" =>
              Guidance("finalize", Faithful(session)) = Do("agent_get")
        BY FaithfulFields DEF Guidance
      <3> QED BY <3>1, DoIsGranted DEF Tools, Finalizable
    <2> QED BY <1>4, <1>5, <2>1, <2>2, <2>3 DEF Give, At
  <1>11. UNCHANGED clientVars \/ Fault => FALSE BY <1>3 DEF clientVars
  <1>12. ~UNCHANGED vars BY <1>11 DEF vars
  <1>13. \/ \E u \in Owners : Finalize(u)
         \/ \E u \in Owners, tool \in Tools : Use(u, tool)
    BY <1>11, <1>12
       DEF Next, Progress, FinalizeFails, FinalizeCrashes, RecoverBegin, RecoverSeedSoul,
           RecoverSeedInstructions, RecoverRegister, RecoverCrashes, HostTurn, HostFails,
           HostDecides, OwnerEdits
  <1> QED BY <1>9, <1>10, <1>13

\* What an answer advises is granted by the Host in the state that the answer
\* tells of: guidance never sends an owner into a refusal (genesisNextToolGuidance).
THEOREM AdvisedIsGranted == Spec => AdviceIsGranted
  <1>1. GenesisInv /\ [Next]_vars => [\A o \in Owners : AdvisesGranted(o)]_vars
    BY StepAdvisesGranted
  <1>2. Spec => [][\A o \in Owners : AdvisesGranted(o)]_vars
    BY <1>1, GenesisStarts, GenesisStepKeeps, PTL DEF Spec
  <1> QED BY <1>2 DEF AdvisesGranted, AdviceIsGranted

-----------------------------------------------------------------------------
(***************************************************************************)
(* BodyProcess, for any number of requests, issuers, restarts and changes  *)
(* of the issuer: a request that probes holds the lock and found no issuer *)
(* cached, so that the one it caches is the only one told.                 *)
(***************************************************************************)
Labels  == {"idle", "jwt", "trust", "key", "metadata", "waiting", "probe", "done"}
Replies == Issuers \cup {Nothing, "failed", "value", "unconfigured", "trustUnread", "invalid",
                         "derived", "unavailable", "lost"}

ProcessTypes ==
  /\ server \in {"ka", "instance"} /\ life \in {"down", "serving"}
  /\ published \in Issuers /\ cached \in Issuers \cup {Nothing}
  /\ DOMAIN once = Cells /\ DOMAIN runner = Cells
  /\ \A cell \in Cells : once[cell] \in {Unset} \cup Outcomes(cell)
  /\ request \in [Requests -> [pc : Labels, answer : Replies]]

IssuerShared ==
  /\ told = {} \/ (told = {cached} /\ cached # Nothing)
  /\ \A r \in Requests : request[r].pc = "probe" => prober = r /\ cached = Nothing
  /\ life = "down" =>
       cached = Nothing /\ \A r \in Requests : request[r].pc \in {"idle", "done"}

\* An actor server serves with what it read of its configuration.
TrustKept ==
  server = "ka" =>
    /\ life = "serving" => once["trust"] \notin {Unset, "failed"}
    /\ runner["trust"] = Nothing
    /\ \A r \in Requests : request[r].answer # "trustUnread"

ProcessInv == ProcessTypes /\ IssuerShared /\ TrustKept

LEMMA ProcessStarts == ProcessInit => ProcessInv
  BY ProcessAssumption
  DEF ProcessInit, ProcessInv, ProcessTypes, IssuerShared, TrustKept, Unread, Nowhere, Fresh,
      Labels, Replies, Cells, Unset

\* A request moves on, or is answered.
LEMMA ProceedMoves ==
  ASSUME ProcessTypes, NEW r \in Requests, NEW label \in Labels, Proceed(r, label)
  PROVE  /\ request' \in [Requests -> [pc : Labels, answer : Replies]]
         /\ request'[r].pc = label /\ request'[r].answer = request[r].answer
         /\ \A q \in Requests \ {r} : request'[q] = request[q]
         /\ \A q \in Requests : request'[q].answer = request[q].answer
  BY DEF Proceed, ProcessTypes

LEMMA RespondEnds ==
  ASSUME ProcessTypes, NEW r \in Requests, NEW a \in Replies, Respond(r, a)
  PROVE  /\ request' \in [Requests -> [pc : Labels, answer : Replies]]
         /\ request'[r].pc = "done" /\ request'[r].answer = a
         /\ \A q \in Requests \ {r} : request'[q] = request[q]
  BY DEF Respond, ProcessTypes, Labels

\* A cold start, or the end of a process.
LEMMA LifeKeeps ==
  ASSUME ProcessInv, BootKa \/ BootInstance \/ Recycle \/ Rotate
  PROVE  ProcessInv'
  <1> USE DEF ProcessInv, ProcessTypes, IssuerShared, TrustKept
  <1>1. CASE BootKa
    <2>1. PICK read \in Outcomes("trust") \ {"failed", "noURL"} :
             once' = [once EXCEPT !["trust"] = read]
      BY <1>1 DEF BootKa
    <2>2. "trust" \in Cells /\ read # Unset BY <2>1 DEF Cells, Outcomes, Unset
    <2>3. once'["trust"] = read /\ DOMAIN once' = Cells
          /\ \A cell \in Cells : once'[cell] \in {Unset} \cup Outcomes(cell)
      BY <2>1, <2>2
    <2> QED BY <1>1, <2>1, <2>2, <2>3 DEF BootKa, world
  <1>2. CASE BootInstance
    BY <1>2 DEF BootInstance, world
  <1>3. CASE Recycle
    <2>1. \A r \in Requests : request'[r] =
            IF request[r].pc \in {"idle", "done"} THEN request[r]
            ELSE [pc |-> "done", answer |-> "lost"]
      BY <1>3 DEF Recycle
    <2>2. request' \in [Requests -> [pc : Labels, answer : Replies]]
      BY <1>3 DEF Recycle, Labels, Replies
    <2>3. \A r \in Requests : request'[r].pc \in {"idle", "done"}
      BY <2>1
    <2>4. \A r \in Requests : request[r].answer # "trustUnread" => request'[r].answer # "trustUnread"
      BY <2>1
    <2>5. DOMAIN once' = Cells /\ DOMAIN runner' = Cells /\ runner'["trust"] = Nothing
          /\ \A cell \in Cells : once'[cell] \in {Unset} \cup Outcomes(cell)
      BY <1>3 DEF Recycle, Unread, Nowhere, Cells
    <2> QED BY <1>3, <2>2, <2>3, <2>4, <2>5 DEF Recycle, world
  <1>4. CASE Rotate
    BY <1>4 DEF Rotate, caches
  <1> QED BY <1>1, <1>2, <1>3, <1>4

\* The reads of the cells: the actor server's configuration is none of them.
LEMMA CellsKeep ==
  ASSUME ProcessInv, NEW r \in Requests, NEW cell \in Cells,
         Enter(r, cell) \/ ReadEnds(r, cell) \/ UseSecret(r, cell)
  PROVE  ProcessInv'
  <1> USE DEF ProcessInv
  <1> USE ProcessAssumption
  <1>1. CASE Enter(r, cell)
    <2>1. server = "ka" => runner'["trust"] = Nothing
      <3>1. server = "ka" /\ cell = "trust" => life = "down"
        BY <1>1 DEF Enter, TrustKept, ProcessTypes
      <3>2. life = "down" => request[r].pc # "trust"
        BY DEF IssuerShared
      <3> QED BY <1>1, <3>1, <3>2 DEF Enter, TrustKept, ProcessTypes
    <2> QED BY <1>1, <2>1 DEF Enter, world, ProcessTypes, IssuerShared, TrustKept
  <1>2. CASE ReadEnds(r, cell)
    <2>1. server = "ka" => cell # "trust"
      BY <1>2 DEF ReadEnds, TrustKept
    <2>2. PICK read \in Outcomes(cell) : once' = [once EXCEPT ![cell] = read]
      BY <1>2 DEF ReadEnds
    <2>3. DOMAIN once' = Cells /\ \A c \in Cells : once'[c] \in {Unset} \cup Outcomes(c)
      BY <2>2 DEF ProcessTypes
    <2>4. server = "ka" => once'["trust"] = once["trust"] /\ runner'["trust"] = runner["trust"]
      BY <2>1, <2>2, <1>2 DEF ReadEnds, ProcessTypes, Cells
    <2> QED BY <1>2, <2>3, <2>4 DEF ReadEnds, world, ProcessTypes, IssuerShared, TrustKept
  <1>3. CASE UseSecret(r, cell)
    <2>1. once[cell] \in {"failed", "value"}
      BY <1>3 DEF UseSecret, ProcessTypes, Outcomes
    <2>2. once[cell] \in Replies /\ once[cell] # "trustUnread" BY <2>1 DEF Replies
    <2>3. Respond(r, once[cell]) BY <1>3 DEF UseSecret
    <2>4. /\ request' \in [Requests -> [pc : Labels, answer : Replies]]
          /\ request'[r].pc = "done" /\ request'[r].answer = once[cell]
          /\ \A q \in Requests \ {r} : request'[q] = request[q]
      BY <2>2, <2>3, RespondEnds
    <2> QED BY <1>3, <2>2, <2>4 DEF UseSecret, caches, world, ProcessTypes, IssuerShared, TrustKept
  <1> QED BY <1>1, <1>2, <1>3

LEMMA TrustKeeps ==
  ASSUME ProcessInv, NEW r \in Requests, UseTrust(r)
  PROVE  ProcessInv'
  <1> USE DEF ProcessInv
  <1>1. CASE once["trust"] = "full"
    <2>1. Proceed(r, "key") BY <1>1 DEF UseTrust
    <2>2. "key" \in Labels BY DEF Labels
    <2>3. /\ request' \in [Requests -> [pc : Labels, answer : Replies]]
          /\ request'[r].pc = "key" /\ request'[r].answer = request[r].answer
          /\ \A q \in Requests \ {r} : request'[q] = request[q]
      BY <2>1, <2>2, ProceedMoves
    <2>4. life # "down" BY DEF UseTrust, IssuerShared
    <2> QED BY <2>3, <2>4 DEF UseTrust, caches, world, ProcessTypes, IssuerShared, TrustKept
  <1>2. CASE once["trust"] # "full"
    <2>1. PICK a \in {"trustUnread", "unconfigured"} :
             Respond(r, a) /\ (a = "trustUnread" => once["trust"] = "failed")
      BY <1>2 DEF UseTrust
    <2>2. a \in Replies BY DEF Replies
    <2>3. /\ request' \in [Requests -> [pc : Labels, answer : Replies]]
          /\ request'[r].pc = "done" /\ request'[r].answer = a
          /\ \A q \in Requests \ {r} : request'[q] = request[q]
      BY <2>1, <2>2, RespondEnds
    <2>4. life = "serving" BY DEF UseTrust, IssuerShared, ProcessTypes
    <2>5. server = "ka" => a # "trustUnread" BY <2>1, <2>4 DEF TrustKept
    <2> QED BY <2>3, <2>5 DEF UseTrust, caches, world, ProcessTypes, IssuerShared, TrustKept
  <1> QED BY <1>1, <1>2

\* A request that is answered without a probe, or waits for one.
LEMMA MetadataKeeps ==
  ASSUME ProcessInv, NEW r \in Requests, Mismatch(r) \/ Metadata(r) \/ Arrive(r)
  PROVE  ProcessInv'
  <1> USE DEF ProcessInv
  <1> USE ProcessAssumption
  <1>1. life = "serving"
    BY DEF Mismatch, Metadata, Arrive, IssuerShared, ProcessTypes
  <1>2. CASE \E a \in Replies \ {"trustUnread"} :
               /\ Respond(r, a)
               /\ told' = told \/ (told' = told \cup {cached} /\ cached # Nothing)
    <2>1. PICK a \in Replies \ {"trustUnread"} :
               /\ Respond(r, a)
               /\ told' = told \/ (told' = told \cup {cached} /\ cached # Nothing)
      BY <1>2
    <2>2. /\ request' \in [Requests -> [pc : Labels, answer : Replies]]
          /\ request'[r].pc = "done" /\ request'[r].answer = a
          /\ \A q \in Requests \ {r} : request'[q] = request[q]
      BY <2>1, RespondEnds
    <2>3. told' = {} \/ (told' = {cached} /\ cached # Nothing)
      BY <2>1 DEF IssuerShared
    <2>4. UNCHANGED <<server, life, probes, caches, world, restarts>>
      BY <2>1 DEF Mismatch, Metadata, Arrive
    <2> QED BY <1>1, <2>1, <2>2, <2>3, <2>4
          DEF caches, world, ProcessTypes, IssuerShared, TrustKept
  <1>3. CASE \E label \in Labels \ {"probe"} : Proceed(r, label) /\ told' = told
    <2>1. PICK label \in Labels \ {"probe"} : Proceed(r, label) /\ told' = told
      BY <1>3
    <2>2. /\ request' \in [Requests -> [pc : Labels, answer : Replies]]
          /\ request'[r].pc = label /\ request'[r].answer = request[r].answer
          /\ \A q \in Requests \ {r} : request'[q] = request[q]
      BY <2>1, ProceedMoves
    <2>3. UNCHANGED <<server, life, probes, caches, world, restarts>>
      BY <2>1 DEF Mismatch, Metadata, Arrive
    <2> QED BY <1>1, <2>1, <2>2, <2>3 DEF caches, world, ProcessTypes, IssuerShared, TrustKept
  <1>4. CASE Mismatch(r)
    <2>1. Respond(r, "invalid") /\ told' = told /\ "invalid" \in Replies \ {"trustUnread"}
      BY <1>4 DEF Mismatch, Replies
    <2> QED BY <2>1, <1>2
  <1>5. CASE Arrive(r)
    <2>1. \E label \in {"jwt", "trust", "metadata"} : Proceed(r, label)
      BY <1>5 DEF Arrive
    <2>2. told' = told BY <1>5 DEF Arrive
    <2> QED BY <2>1, <2>2, <1>3 DEF Labels
  <1>6. CASE Metadata(r)
    <2>1. cached \in Issuers \cup {Nothing} BY DEF ProcessTypes
    <2>2. CASE cached # Nothing
      <3>1. Respond(r, cached) /\ told' = told \cup {cached}
        BY <1>6, <2>2 DEF Metadata, AnswerIssuer
      <3>2. cached \in Replies \ {"trustUnread"} BY <2>1, <2>2 DEF Replies
      <3> QED BY <3>1, <3>2, <2>2, <1>2
    <2>3. CASE cached = Nothing /\ ~probes
      <3>1. Respond(r, "derived") /\ told' = told /\ "derived" \in Replies \ {"trustUnread"}
        BY <1>6, <2>3 DEF Metadata, Replies
      <3> QED BY <3>1, <1>2
    <2>4. CASE cached = Nothing /\ probes
      <3>1. Proceed(r, "waiting") /\ told' = told
        BY <1>6, <2>4 DEF Metadata
      <3>2. "waiting" \in Labels \ {"probe"} BY DEF Labels
      <3> QED BY <3>1, <3>2, <1>3
    <2> QED BY <2>2, <2>3, <2>4
  <1> QED BY <1>4, <1>5, <1>6

\* The lock and the probe.
LEMMA ProbeKeeps ==
  ASSUME ProcessInv, NEW r \in Requests, Acquire(r) \/ Probe(r)
  PROVE  ProcessInv'
  <1> USE DEF ProcessInv
  <1> USE ProcessAssumption
  <1>1. life = "serving"
    BY DEF Acquire, Probe, IssuerShared, ProcessTypes
  <1>2. CASE Acquire(r) /\ cached = Nothing
    <2>1. Proceed(r, "probe") /\ told' = told /\ prober = Nothing /\ prober' = r
      BY <1>2 DEF Acquire, Acquired
    <2>2. "probe" \in Labels BY DEF Labels
    <2>3. /\ request' \in [Requests -> [pc : Labels, answer : Replies]]
          /\ request'[r].pc = "probe" /\ request'[r].answer = request[r].answer
          /\ \A q \in Requests \ {r} : request'[q] = request[q]
      BY <2>1, <2>2, ProceedMoves
    <2>4. \A q \in Requests : request[q].pc # "probe"
      BY <2>1 DEF IssuerShared
    <2> QED BY <1>1, <1>2, <2>1, <2>3, <2>4
          DEF Acquire, world, ProcessTypes, IssuerShared, TrustKept
  <1>3. CASE Acquire(r) /\ cached # Nothing
    <2>1. Respond(r, cached) /\ told' = told \cup {cached} /\ prober' = prober
      BY <1>3 DEF Acquire, AnswerIssuer
    <2>2. cached \in Replies /\ cached # "trustUnread" BY <1>3 DEF ProcessTypes, Replies
    <2>3. /\ request' \in [Requests -> [pc : Labels, answer : Replies]]
          /\ request'[r].pc = "done" /\ request'[r].answer = cached
          /\ \A q \in Requests \ {r} : request'[q] = request[q]
      BY <2>1, <2>2, RespondEnds
    <2> QED BY <1>1, <1>3, <2>1, <2>2, <2>3
          DEF Acquire, world, ProcessTypes, IssuerShared, TrustKept
  <1>4. CASE Probe(r)
    <2>1. /\ request[r].pc = "probe" /\ prober = r /\ cached = Nothing /\ told = {}
          /\ \A q \in Requests \ {r} : request[q].pc # "probe"
      BY <1>4 DEF Probe, IssuerShared
    <2>2. \E a \in Replies \ {"trustUnread"} :
            /\ Respond(r, a)
            /\ \/ told' = told /\ cached' = cached
               \/ told' = told \cup {published} /\ cached' = published
      <3>1. PICK found \in Found :
               IF found = Nothing THEN Respond(r, "unavailable") /\ UNCHANGED <<cached, told>>
               ELSE cached' = found /\ AnswerIssuer(r, found)
        BY <1>4 DEF Probe
      <3>2. published \in Replies \ {"trustUnread"} /\ "unavailable" \in Replies \ {"trustUnread"}
        BY DEF ProcessTypes, Replies
      <3>3. CASE found = Nothing BY <3>1, <3>2, <3>3
      <3>4. CASE found # Nothing BY <3>1, <3>2, <3>4 DEF Found, AnswerIssuer
      <3> QED BY <3>3, <3>4
    <2>3. PICK a \in Replies \ {"trustUnread"} :
            /\ Respond(r, a)
            /\ \/ told' = told /\ cached' = cached
               \/ told' = told \cup {published} /\ cached' = published
      BY <2>2
    <2>4. /\ request' \in [Requests -> [pc : Labels, answer : Replies]]
          /\ request'[r].pc = "done" /\ request'[r].answer = a
          /\ \A q \in Requests \ {r} : request'[q] = request[q]
      BY <2>3, RespondEnds
    <2>5. \A q \in Requests : request'[q].pc # "probe" BY <2>1, <2>4
    <2>6. published # Nothing BY DEF ProcessTypes
    <2>7. UNCHANGED <<server, life, probes, once, runner, world, restarts>>
      BY <1>4 DEF Probe
    <2> QED BY <1>1, <2>1, <2>3, <2>4, <2>5, <2>6, <2>7
          DEF world, ProcessTypes, IssuerShared, TrustKept
  <1> QED BY <1>2, <1>3, <1>4

\* Two clients of one process are told the same issuer, and an actor server
\* never answers that it could not read its trust configuration
\* (discovery_validation.go:50-117, trustconfig.go:73-78), by however many
\* requests and in whatever order the cells are read, the lock is taken, the
\* issuer changes and processes end.
THEOREM CachesKeepTheirWord == ProcessSpec => []CachesHold
  <1>1. ProcessInv /\ [ProcessNext]_processVars => ProcessInv'
    <2> SUFFICES ASSUME ProcessInv, [ProcessNext]_processVars PROVE ProcessInv'
      OBVIOUS
    <2>1. CASE UNCHANGED processVars
      BY <2>1 DEF processVars, caches, world, ProcessInv, ProcessTypes, IssuerShared, TrustKept
    <2>2. CASE ProcessNext
      BY <2>2, LifeKeeps, CellsKeep, TrustKeeps, MetadataKeeps, ProbeKeeps
      DEF ProcessNext, Serve
    <2> QED BY <2>1, <2>2
  <1>2. ProcessInv => CachesHold
    <2> SUFFICES ASSUME ProcessInv PROVE CachesHold
      OBVIOUS
    <2>1. Cardinality(told) <= 1
      BY FS_EmptySet, FS_Singleton DEF ProcessInv, IssuerShared
    <2>2. ServingKaKnowsTrust BY DEF ProcessInv, TrustKept, ServingKaKnowsTrust
    <2> QED BY <2>1, <2>2 DEF CachesHold, OneIssuerPerProcess
  <1> QED BY ProcessStarts, <1>1, <1>2, PTL DEF ProcessSpec

-----------------------------------------------------------------------------
(***************************************************************************)
(* MemoryTimeline, for any number of appends and events, any expiries and  *)
(* page sizes.  What a lagging read can still have of an event is gone for *)
(* good reason (LagInv), so an answer that names an event that is not the  *)
(* timeline's names an expired one.  A walk has shown, when it has passed  *)
(* an event that stays, that event, and none that it still has before it   *)
(* (WalkInv); a page that is not full is all there was.                    *)
(***************************************************************************)
AppendLabels == {"idle", "create", "fetch", "ok", "refused", "error"}
Times == {TimeOf(id) : id \in EventIDs}
Walk  == [pc : {"idle", "page", "done"}, desc : BOOLEAN,
          from : Times \cup {0}, to : Times \cup {0}, cursor : EventIDs \cup {Absent},
          shown : SUBSET EventIDs, twice : SUBSET EventIDs, steady : SUBSET EventIDs]

MemoryTypes ==
  /\ timeline \in [EventIDs -> Event \cup {Absent}]
  /\ lagging \in [EventIDs -> Event \cup {Absent}]
  /\ clock \in Nat
  /\ append \in [Appends -> [pc : AppendLabels, id : EventIDs \cup {0},
                             expires : Expiries \cup {Never}, event : Event \cup {Absent}]]
  /\ query \in Walk

AppendShape ==
  \A c \in Appends :
    /\ append[c].pc \in {"create", "fetch", "ok"} => append[c].id \in EventIDs
    /\ append[c].pc = "ok" => append[c].event \in Event

LagInv ==
  \A id \in EventIDs :
    \/ lagging[id] = Absent \/ lagging[id] = timeline[id] \/ Expired(lagging[id])

SteadyStays ==
  \A id \in query.steady :
    timeline[id] # Absent /\ lagging[id] = timeline[id] /\ InRange(id, query)

Seen(id) == Expired(timeline[id]) \/ id \in query.shown

WalkInv ==
  /\ SteadyStays
  /\ query.twice = {}
  /\ query.pc = "page" =>
       /\ query.cursor = Absent => query.shown = {}
       /\ \A id \in query.shown : ~Beyond(id, query)
       /\ \A id \in query.steady : Beyond(id, query) \/ Seen(id)
  /\ query.pc = "done" => \A id \in query.steady : Seen(id)

MemoryInv == MemoryTypes /\ AppendShape /\ LagInv /\ AnsweredIsKept /\ WalkInv

\* A finite set of ids has a smallest and a largest one.
LEMMA EventEnds ==
  ASSUME NEW S \in SUBSET Nat, IsFiniteSet(S), S # {}
  PROVE  /\ Min(S) \in S /\ \A n \in S : Min(S) <= n
         /\ Max(S) \in S /\ \A n \in S : n <= Max(S)
  <1>1. ASSUME NEW F \in SUBSET SUBSET S, F # {}
        PROVE  \E T \in F : \A U \in F : ~(U \subseteq T /\ U # T)
    <2>1. F \subseteq FiniteSubsetsOf(S)
      BY <1>1, FS_Subset DEF FiniteSubsetsOf
    <2>2. PICK T \in F : \A U \in F : <<U, T>> \notin StrictSubsetOrdering(S)
      BY <1>1, <2>1, FS_StrictSubsetOrderingWellFounded, WFMin
    <2>3. \A U \in F : U \in SUBSET S /\ T \in SUBSET S
      BY <1>1
    <2> QED BY <2>2, <2>3 DEF StrictSubsetOrdering
  <1>2. \E x \in S : \A y \in S : x <= y
    <2> DEFINE Down(n) == {m \in S : m <= n}
               G == {Down(n) : n \in S}
    <2>1. G \in SUBSET SUBSET S /\ G # {} OBVIOUS
    <2> HIDE DEF G
    <2>2. PICK T \in G : \A U \in G : ~(U \subseteq T /\ U # T)
      BY <1>1, <2>1
    <2>3. PICK x \in S : T = Down(x) BY <2>2 DEF G
    <2>4. ASSUME NEW y \in S, ~(x <= y) PROVE FALSE
      <3>1. x \in Nat /\ y \in Nat OBVIOUS
      <3>2. Down(y) \subseteq Down(x)
        <4> SUFFICES ASSUME NEW m \in S, m <= y PROVE m <= x
          OBVIOUS
        <4>1. m \in Nat OBVIOUS
        <4> QED BY <3>1, <2>4, <4>1
      <3>3. x \in Down(x) /\ x \notin Down(y) BY <3>1, <2>4
      <3>4. Down(y) \in G BY DEF G
      <3> QED BY <2>2, <2>3, <3>2, <3>3, <3>4
    <2> QED BY <2>4
  <1>3. \E x \in S : \A y \in S : x >= y
    <2> DEFINE Up(n) == {m \in S : m >= n}
               G == {Up(n) : n \in S}
    <2>1. G \in SUBSET SUBSET S /\ G # {} OBVIOUS
    <2> HIDE DEF G
    <2>2. PICK T \in G : \A U \in G : ~(U \subseteq T /\ U # T)
      BY <1>1, <2>1
    <2>3. PICK x \in S : T = Up(x) BY <2>2 DEF G
    <2>4. ASSUME NEW y \in S, ~(x >= y) PROVE FALSE
      <3>1. x \in Nat /\ y \in Nat OBVIOUS
      <3>2. Up(y) \subseteq Up(x)
        <4> SUFFICES ASSUME NEW m \in S, m >= y PROVE m >= x
          OBVIOUS
        <4>1. m \in Nat OBVIOUS
        <4> QED BY <3>1, <2>4, <4>1
      <3>3. x \in Up(x) /\ x \notin Up(y) BY <3>1, <2>4
      <3>4. Up(y) \in G BY DEF G
      <3> QED BY <2>2, <2>3, <3>2, <3>3, <3>4
    <2> QED BY <2>4
  <1>4. Min(S) \in S /\ \A n \in S : Min(S) <= n
    BY <1>2 DEF Min
  <1>5. Max(S) \in S /\ \A n \in S : Max(S) >= n
    BY <1>3 DEF Max
  <1>6. \A n \in S : Max(S) \in Nat /\ n \in Nat /\ Max(S) >= n
    BY <1>5
  <1> QED BY <1>4, <1>5, <1>6

Upto(a, b, desc) == IF desc THEN b >= a ELSE b <= a

\* The last of a set in the order of a walk, and the first.
LEMMA WalkEnds ==
  ASSUME NEW S \in SUBSET Nat, IsFiniteSet(S), S # {}, NEW desc \in BOOLEAN
  PROVE  /\ \E x \in S : \A y \in S : Upto(x, y, desc)
         /\ \E x \in S : \A y \in S : Upto(y, x, desc)
  BY EventEnds DEF Upto

\* A page has at most `limit` events, the first ones there are, and all of
\* them when it has fewer.
LEMMA PageIsFirst ==
  ASSUME NEW rest \in SUBSET Nat, IsFiniteSet(rest), NEW limit \in Nat \ {0},
         query.desc \in BOOLEAN
  PROVE  /\ FirstOf(rest, limit) \subseteq rest
         /\ \A x \in FirstOf(rest, limit), y \in rest :
              Upto(x, y, query.desc) => y \in FirstOf(rest, limit)
         /\ Cardinality(FirstOf(rest, limit)) # limit => FirstOf(rest, limit) = rest
  <1> DEFINE d == query.desc
             Ahead(x) == {o \in rest : Upto(x, o, d)}
             page == FirstOf(rest, limit)
  <1>1. /\ page \subseteq rest
        /\ \A x \in rest : x \in page <=> Cardinality(Ahead(x)) <= limit
    BY DEF FirstOf, Upto
  <1>2. /\ IsFiniteSet(page) /\ Cardinality(page) \in Nat
        /\ \A x \in rest : IsFiniteSet(Ahead(x)) /\ Cardinality(Ahead(x)) \in Nat
                           /\ Ahead(x) \subseteq rest
    BY <1>1, FS_Subset, FS_CardinalityType
  <1>3. \A x, y \in rest : Upto(x, y, d) => Cardinality(Ahead(y)) <= Cardinality(Ahead(x))
    <2> SUFFICES ASSUME NEW x \in rest, NEW y \in rest, Upto(x, y, d)
                 PROVE  Cardinality(Ahead(y)) <= Cardinality(Ahead(x))
      OBVIOUS
    <2>1. \A o \in Ahead(y) : o \in Ahead(x)
      <3> SUFFICES ASSUME NEW o \in rest, Upto(y, o, d) PROVE Upto(x, o, d)
        OBVIOUS
      <3>1. o \in Nat /\ x \in Nat /\ y \in Nat OBVIOUS
      <3> QED BY <3>1 DEF Upto
    <2>2. Ahead(y) \subseteq Ahead(x) BY <2>1
    <2> QED BY <2>2, <1>2, FS_Subset
  <1>4. \A x \in page, y \in rest : Upto(x, y, d) => y \in page
    <2> SUFFICES ASSUME NEW x \in page, NEW y \in rest, Upto(x, y, d) PROVE y \in page
      OBVIOUS
    <2>1. x \in rest /\ Cardinality(Ahead(x)) <= limit BY <1>1
    <2>2. Cardinality(Ahead(y)) <= Cardinality(Ahead(x)) BY <2>1, <1>3
    <2>3. Cardinality(Ahead(y)) \in Nat /\ Cardinality(Ahead(x)) \in Nat BY <2>1, <1>2
    <2>4. Cardinality(Ahead(y)) <= limit BY <2>1, <2>2, <2>3
    <2> QED BY <2>4, <1>1
  <1>5. Cardinality(page) <= limit
    <2>1. CASE page = {} BY <2>1, FS_EmptySet
    <2>2. CASE page # {}
      <3>1. page \in SUBSET Nat BY <1>1
      <3>2. PICK x \in page : \A y \in page : Upto(x, y, d)
        BY <2>2, <3>1, <1>2, WalkEnds
      <3>3. x \in rest /\ Cardinality(Ahead(x)) <= limit BY <1>1
      <3>4. page \subseteq Ahead(x) BY <3>2, <1>1
      <3>5. Cardinality(page) <= Cardinality(Ahead(x)) /\ Cardinality(Ahead(x)) \in Nat
        BY <3>3, <3>4, <1>2, FS_Subset
      <3> HIDE DEF page, Ahead
      <3> QED BY <3>3, <3>5, <1>2
    <2> QED BY <2>1, <2>2
  <1>6. ASSUME page # rest PROVE Cardinality(page) = limit
    <2> DEFINE left == rest \ page
    <2>1. left # {} /\ left \in SUBSET Nat /\ IsFiniteSet(left)
      BY <1>6, <1>1, FS_Subset
    <2>2. PICK x \in left : \A y \in left : Upto(y, x, d)
      BY <2>1, WalkEnds
    <2>3. x \in rest /\ ~(Cardinality(Ahead(x)) <= limit) BY <1>1
    <2>4. Ahead(x) \ {x} \subseteq page
      <3> SUFFICES ASSUME NEW o \in rest, Upto(x, o, d), o # x, o \in left PROVE FALSE
        OBVIOUS
      <3>1. Upto(o, x, d) BY <2>2
      <3>2. o \in Nat /\ x \in Nat BY <2>3
      <3> QED BY <3>1, <3>2 DEF Upto
    <2>5. x \in Ahead(x)
      <3>1. x \in Nat BY <2>3
      <3> QED BY <2>3, <3>1 DEF Upto
    <2>6. Cardinality(Ahead(x) \ {x}) = Cardinality(Ahead(x)) - 1
      BY <2>3, <2>5, <1>2, FS_RemoveElement
    <2>7. Cardinality(Ahead(x) \ {x}) <= Cardinality(page)
      BY <2>4, <1>2, FS_Subset
    <2>8. Cardinality(Ahead(x)) \in Nat BY <2>3, <1>2
    <2> HIDE DEF page, Ahead
    <2> QED BY <2>3, <2>6, <2>7, <2>8, <1>2, <1>5
  <1> QED BY <1>1, <1>4, <1>6

LEMMA MemoryStarts == MemoryInit => MemoryInv
  <1> SUFFICES ASSUME MemoryInit PROVE MemoryInv
    OBVIOUS
  <1>1. query = NoQuery /\ NoQuery.pc = "idle" /\ NoQuery.steady = {} /\ NoQuery.twice = {}
    BY DEF MemoryInit, NoQuery
  <1>2. NoQuery \in Walk
    BY DEF NoQuery, Walk
  <1>3. MemoryTypes
    BY <1>1, <1>2 DEF MemoryInit, MemoryTypes, NotYet, AppendLabels
  <1>4. \A c \in Appends : append[c].pc = "idle"
    BY DEF MemoryInit, NotYet
  <1> QED BY <1>1, <1>3, <1>4
        DEF MemoryInit, MemoryInv, AppendShape, LagInv, AnsweredIsKept, WalkInv, SteadyStays

\* An event that is expired stays so.
LEMMA ExpiryStays ==
  ASSUME MemoryTypes, clock' \in Nat, clock' >= clock, NEW e \in Event, Expired(e)
  PROVE  Expired(e)'
  <1>1. e.ttl # Never /\ e.ttl <= clock /\ e.ttl \in Nat
    BY MemoryAssumption DEF Event, Expired
  <1>2. e.ttl <= clock'
    BY <1>1 DEF MemoryTypes
  <1> QED BY <1>1, <1>2 DEF Expired

\* What an append that has not been stored leaves alone.
LEMMA WalkUntouched ==
  ASSUME WalkInv, UNCHANGED <<lagging, clock, query>>,
         \A id \in query.steady : timeline'[id] = timeline[id]
  PROVE  WalkInv'
  BY DEF WalkInv, SteadyStays, Seen, Beyond, InRange, Expired

\* The event of an append is stored in place of none.
LEMMA StoreKeeps ==
  ASSUME MemoryInv, NEW c \in Appends, append[c].pc = "create",
         timeline[append[c].id] = Absent, Store(c), UNCHANGED <<lagging, clock, query>>
  PROVE  /\ timeline' \in [EventIDs -> Event \cup {Absent}]
         /\ EventOf(c) \in Event /\ timeline'[append[c].id] = EventOf(c)
         /\ \A id \in EventIDs : timeline[id] # Absent => timeline'[id] = timeline[id]
         /\ LagInv' /\ WalkInv'
  <1> DEFINE i == append[c].id
             e == EventOf(c)
  <1>1. i \in EventIDs /\ append[c].expires \in Expiries \cup {Never}
    BY DEF MemoryInv, AppendShape, MemoryTypes
  <1>2. e \in Event
    BY <1>1 DEF EventOf, Event, TTL
  <1>3. timeline' = [timeline EXCEPT ![i] = e] /\ timeline \in [EventIDs -> Event \cup {Absent}]
    BY DEF Store, MemoryInv, MemoryTypes
  <1> HIDE DEF e
  <1>4. /\ timeline' \in [EventIDs -> Event \cup {Absent}] /\ timeline'[i] = e
        /\ \A id \in EventIDs : id # i => timeline'[id] = timeline[id]
        /\ \A id \in EventIDs : timeline[id] # Absent => timeline'[id] = timeline[id]
    BY <1>1, <1>2, <1>3
  <1>5. LagInv'
    <2> SUFFICES ASSUME NEW id \in EventIDs
                 PROVE  \/ lagging'[id] = Absent \/ lagging'[id] = timeline'[id]
                        \/ Expired(lagging[id])'
      BY DEF LagInv
    <2>1. lagging[id] = Absent \/ lagging[id] = timeline[id] \/ Expired(lagging[id])
      BY DEF MemoryInv, LagInv
    <2>2. CASE id = i BY <2>1, <2>2 DEF Expired
    <2>3. CASE id # i BY <2>1, <2>3, <1>4 DEF Expired
    <2> QED BY <2>2, <2>3
  <1>6. \A id \in query.steady : timeline'[id] = timeline[id]
    <2>1. \A id \in query.steady : id \in EventIDs /\ timeline[id] # Absent
      BY DEF MemoryInv, MemoryTypes, WalkInv, SteadyStays, Walk
    <2> QED BY <2>1, <1>4
  <1>7. WalkInv'
    BY <1>6, WalkUntouched DEF MemoryInv
  <1> QED BY <1>2, <1>4, <1>5, <1>7 DEF e

\* One append moves to r, which names an event only when it is the timeline's
\* or expired; others lose nothing.
LEMMA AppendMoves ==
  ASSUME MemoryInv, NEW c \in Appends,
         NEW r \in [pc : AppendLabels, id : EventIDs \cup {0},
                    expires : Expiries \cup {Never}, event : Event \cup {Absent}],
         append' = [append EXCEPT ![c] = r],
         r.pc \in {"create", "fetch", "ok"} => r.id \in EventIDs,
         r.pc = "ok" => r.event \in Event,
         r.pc = "ok" => Expired(r.event) \/ timeline'[r.id] = r.event,
         \A id \in EventIDs : timeline[id] # Absent => timeline'[id] = timeline[id],
         timeline' \in [EventIDs -> Event \cup {Absent}],
         UNCHANGED <<lagging, clock, query>>, LagInv', WalkInv'
  PROVE  MemoryInv'
  <1>1. append'[c] = r /\ \A d \in Appends \ {c} : append'[d] = append[d]
    BY DEF MemoryInv, MemoryTypes
  <1>2. MemoryTypes'
    BY DEF MemoryInv, MemoryTypes
  <1>3. AppendShape'
    BY <1>1 DEF MemoryInv, AppendShape
  <1>4. AnsweredIsKept'
    <2> SUFFICES ASSUME NEW d \in Appends, append'[d].pc = "ok", ~Expired(append[d].event)'
                 PROVE  timeline'[append'[d].id] = append'[d].event
      BY DEF AnsweredIsKept
    <2>1. CASE d = c BY <2>1, <1>1 DEF Expired
    <2>2. CASE d # c
      <3>1. /\ timeline[append[d].id] = append[d].event /\ append[d].id \in EventIDs
            /\ append[d].event \in Event
        BY <2>2, <1>1 DEF MemoryInv, AnsweredIsKept, AppendShape, Expired
      <3>2. append[d].event # Absent BY <3>1, NoEventAssumption
      <3> QED BY <2>2, <1>1, <3>1, <3>2
    <2> QED BY <2>1, <2>2
  <1> QED BY <1>2, <1>3, <1>4 DEF MemoryInv

\* An append that changes nothing but itself.
LEMMA AppendAlone ==
  ASSUME MemoryInv, UNCHANGED <<timeline, lagging, clock, query>>
  PROVE  /\ LagInv' /\ WalkInv'
         /\ timeline' \in [EventIDs -> Event \cup {Absent}]
         /\ \A id \in EventIDs : timeline[id] # Absent => timeline'[id] = timeline[id]
  <1>1. LagInv' BY DEF MemoryInv, LagInv, Expired
  <1>2. WalkInv' BY WalkUntouched DEF MemoryInv
  <1> QED BY <1>1, <1>2 DEF MemoryInv, MemoryTypes

\* The fields of an append, one of which changes.
LEMMA AppendLabelled ==
  ASSUME MemoryInv, NEW c \in Appends, NEW label \in AppendLabels, label # "ok",
         append' = [append EXCEPT ![c].pc = label],
         label \in {"create", "fetch"} => append[c].id \in EventIDs
  PROVE  \E r \in [pc : AppendLabels, id : EventIDs \cup {0},
                   expires : Expiries \cup {Never}, event : Event \cup {Absent}] :
            /\ append' = [append EXCEPT ![c] = r]
            /\ r.pc = label /\ r.id = append[c].id
  <1> DEFINE r == [append[c] EXCEPT !.pc = label]
  <1>1. append[c] \in [pc : AppendLabels, id : EventIDs \cup {0},
                       expires : Expiries \cup {Never}, event : Event \cup {Absent}]
    BY DEF MemoryInv, MemoryTypes
  <1>2. r \in [pc : AppendLabels, id : EventIDs \cup {0},
               expires : Expiries \cup {Never}, event : Event \cup {Absent}]
        /\ r.pc = label /\ r.id = append[c].id
    BY <1>1
  <1>3. append' = [append EXCEPT ![c] = r]
    OBVIOUS
  <1> QED BY <1>2, <1>3

LEMMA AppendTold ==
  ASSUME MemoryInv, NEW c \in Appends, NEW e \in Event, Told(c, e)
  PROVE  \E r \in [pc : AppendLabels, id : EventIDs \cup {0},
                   expires : Expiries \cup {Never}, event : Event \cup {Absent}] :
            /\ append' = [append EXCEPT ![c] = r]
            /\ r.pc = "ok" /\ r.id = append[c].id /\ r.event = e
  <1> DEFINE r == [append[c] EXCEPT !.pc = "ok", !.event = e]
  <1>1. append[c] \in [pc : AppendLabels, id : EventIDs \cup {0},
                       expires : Expiries \cup {Never}, event : Event \cup {Absent}]
    BY DEF MemoryInv, MemoryTypes
  <1>2. r \in [pc : AppendLabels, id : EventIDs \cup {0},
               expires : Expiries \cup {Never}, event : Event \cup {Absent}]
        /\ r.pc = "ok" /\ r.id = append[c].id /\ r.event = e
    BY <1>1 DEF AppendLabels
  <1>3. append' = [append EXCEPT ![c] = r]
    BY <1>1 DEF Told, MemoryInv, MemoryTypes
  <1> QED BY <1>2, <1>3

LEMMA AppendKeeps ==
  ASSUME MemoryInv, NEW c \in Appends,
         AskAppend(c) \/ CreateEvent(c) \/ FetchExisting(c) \/ AppendFails(c)
  PROVE  MemoryInv'
  <1> DEFINE i == append[c].id
  <1>1. /\ append[c].pc \in {"create", "fetch"} => i \in EventIDs
        /\ timeline \in [EventIDs -> Event \cup {Absent}]
        /\ lagging \in [EventIDs -> Event \cup {Absent}]
    BY DEF MemoryInv, MemoryTypes, AppendShape
  <1>2. CASE \E label \in {"fetch", "refused", "error"} :
               /\ append' = [append EXCEPT ![c].pc = label]
               /\ label = "fetch" => i \in EventIDs
               /\ UNCHANGED <<lagging, clock, query>>
               /\ LagInv' /\ WalkInv'
               /\ timeline' \in [EventIDs -> Event \cup {Absent}]
               /\ \A id \in EventIDs : timeline[id] # Absent => timeline'[id] = timeline[id]
    <2>1. PICK label \in {"fetch", "refused", "error"} :
               /\ append' = [append EXCEPT ![c].pc = label]
               /\ label = "fetch" => i \in EventIDs
               /\ UNCHANGED <<lagging, clock, query>>
               /\ LagInv' /\ WalkInv'
               /\ timeline' \in [EventIDs -> Event \cup {Absent}]
               /\ \A id \in EventIDs : timeline[id] # Absent => timeline'[id] = timeline[id]
      BY <1>2
    <2>2. label \in AppendLabels /\ label # "ok" BY DEF AppendLabels
    <2>3. PICK r \in [pc : AppendLabels, id : EventIDs \cup {0},
                      expires : Expiries \cup {Never}, event : Event \cup {Absent}] :
             /\ append' = [append EXCEPT ![c] = r]
             /\ r.pc = label /\ r.id = append[c].id
      BY <2>1, <2>2, AppendLabelled
    <2> QED BY <2>1, <2>2, <2>3, AppendMoves
  <1>3. CASE AskAppend(c)
    <2>1. CASE append' = [append EXCEPT ![c].pc = "refused"]
      <3>1. UNCHANGED <<timeline, lagging, clock, query>> BY <1>3 DEF AskAppend
      <3> QED BY <2>1, <3>1, AppendAlone, <1>2
    <2>2. CASE append' # [append EXCEPT ![c].pc = "refused"]
      <3>1. PICK given \in EventIDs \cup {Absent},
                 occurred \in {TimeOf(id) : id \in EventIDs} \cup {Absent},
                 expires \in Expiries \cup {Never} :
                   \E id \in Resolved(occurred, given) :
                     append' = [append EXCEPT ![c] = [pc |-> "create", id |-> id,
                                                      expires |-> expires, event |-> Absent]]
        BY <1>3, <2>2 DEF AskAppend
      <3>2. PICK id \in Resolved(occurred, given) :
                     append' = [append EXCEPT ![c] = [pc |-> "create", id |-> id,
                                                      expires |-> expires, event |-> Absent]]
        BY <3>1
      <3>3. id \in EventIDs BY <3>1, <3>2 DEF Resolved
      <3> DEFINE r == [pc |-> "create", id |-> id, expires |-> expires, event |-> Absent]
      <3>4. r \in [pc : AppendLabels, id : EventIDs \cup {0},
                   expires : Expiries \cup {Never}, event : Event \cup {Absent}]
            /\ r.pc = "create" /\ r.id = id
        BY <3>3 DEF AppendLabels
      <3>5. append' = [append EXCEPT ![c] = r] BY <3>2
      <3>6. UNCHANGED <<timeline, lagging, clock, query>> BY <1>3 DEF AskAppend
      <3> HIDE DEF r
      <3> QED BY <3>3, <3>4, <3>5, <3>6, AppendAlone, AppendMoves
    <2> QED BY <2>1, <2>2
  <1>4. CASE CreateEvent(c)
    <2>1. CASE timeline[i] = Absent
      <3>1. Store(c) /\ Told(c, EventOf(c)) /\ append[c].pc = "create"
            /\ UNCHANGED <<lagging, clock, query>>
        BY <1>4, <2>1 DEF CreateEvent
      <3>2. /\ timeline' \in [EventIDs -> Event \cup {Absent}]
            /\ EventOf(c) \in Event /\ timeline'[i] = EventOf(c)
            /\ \A id \in EventIDs : timeline[id] # Absent => timeline'[id] = timeline[id]
            /\ LagInv' /\ WalkInv'
        BY <2>1, <3>1, StoreKeeps
      <3>3. PICK r \in [pc : AppendLabels, id : EventIDs \cup {0},
                        expires : Expiries \cup {Never}, event : Event \cup {Absent}] :
               /\ append' = [append EXCEPT ![c] = r]
               /\ r.pc = "ok" /\ r.id = append[c].id /\ r.event = EventOf(c)
        BY <3>1, <3>2, AppendTold
      <3> QED BY <1>1, <3>1, <3>2, <3>3, AppendMoves
    <2>2. CASE timeline[i] # Absent
      <3>1. append' = [append EXCEPT ![c].pc = "fetch"] /\ i \in EventIDs
            /\ UNCHANGED <<timeline, lagging, clock, query>>
        BY <1>4, <2>2, <1>1 DEF CreateEvent
      <3> QED BY <3>1, AppendAlone, <1>2
    <2> QED BY <2>1, <2>2
  <1>5. CASE FetchExisting(c)
    <2>1. i \in EventIDs /\ UNCHANGED <<timeline, lagging, clock, query>>
      BY <1>5, <1>1 DEF FetchExisting
    <2>2. PICK table \in {timeline, lagging} :
             IF table[i] = Absent THEN append' = [append EXCEPT ![c].pc = "error"]
             ELSE Told(c, table[i])
      BY <1>5 DEF FetchExisting
    <2>3. CASE table[i] = Absent
      <3>1. append' = [append EXCEPT ![c].pc = "error"] BY <2>2, <2>3
      <3> QED BY <3>1, <2>1, AppendAlone, <1>2
    <2>4. CASE table[i] # Absent
      <3>1. table[i] \in Event /\ Told(c, table[i]) BY <2>1, <2>2, <2>4, <1>1
      <3>2. PICK r \in [pc : AppendLabels, id : EventIDs \cup {0},
                        expires : Expiries \cup {Never}, event : Event \cup {Absent}] :
               /\ append' = [append EXCEPT ![c] = r]
               /\ r.pc = "ok" /\ r.id = append[c].id /\ r.event = table[i]
        BY <3>1, AppendTold
      <3>3. Expired(table[i]) \/ timeline[i] = table[i]
        BY <2>1, <2>2, <2>4 DEF MemoryInv, LagInv
      <3> QED BY <2>1, <3>1, <3>2, <3>3, AppendAlone, AppendMoves
    <2> QED BY <2>3, <2>4
  <1>6. CASE AppendFails(c)
    <2>1. /\ append' = [append EXCEPT ![c].pc = "error"]
          /\ UNCHANGED <<lagging, clock, query>>
      BY <1>6 DEF AppendFails
    <2>2. CASE UNCHANGED timeline
      BY <2>1, <2>2, AppendAlone, <1>2
    <2>3. CASE append[c].pc = "create" /\ timeline[i] = Absent /\ Store(c)
      <3>1. /\ timeline' \in [EventIDs -> Event \cup {Absent}]
            /\ \A id \in EventIDs : timeline[id] # Absent => timeline'[id] = timeline[id]
            /\ LagInv' /\ WalkInv'
        BY <2>1, <2>3, StoreKeeps
      <3> QED BY <2>1, <3>1, <1>2
    <2> QED BY <1>6, <2>2, <2>3 DEF AppendFails
  <1> QED BY <1>3, <1>4, <1>5, <1>6

\* The fields of a walk.
LEMMA WalkFields ==
  ASSUME NEW q \in Walk
  PROVE  /\ q.pc \in {"idle", "page", "done"} /\ q.desc \in BOOLEAN
         /\ q.cursor \in EventIDs \cup {Absent} /\ q.shown \in SUBSET EventIDs
         /\ q.twice \in SUBSET EventIDs /\ q.steady \in SUBSET EventIDs
  BY DEF Walk

\* A page of a walk, cut from the table or from what a lagging read has of it.
LEMMA PageKeeps ==
  ASSUME MemoryInv, NEW limit \in PageLimits, NextPage(limit)
  PROVE  MemoryInv'
  <1>1. /\ query \in Walk /\ query.pc = "page" /\ UNCHANGED <<timeline, lagging, clock, append>>
        /\ limit \in Nat \ {0} /\ query.desc \in BOOLEAN
        /\ query.cursor \in EventIDs \cup {Absent}
        /\ query.shown \in SUBSET EventIDs /\ query.steady \in SUBSET EventIDs
    BY MemoryAssumption, WalkFields DEF MemoryInv, MemoryTypes, NextPage
  <1>2. PICK table \in {timeline, lagging} :
          LET evaluated == FirstOf(Remaining(table), limit)
              visible == {id \in evaluated : ~Expired(table[id])}
              next  == CursorAfter(evaluated, visible, limit)
          IN query' = [query EXCEPT
               !.pc     = IF next = Absent THEN "done" ELSE "page",
               !.cursor = next,
               !.shown  = @ \cup visible,
               !.twice  = @ \cup (query.shown \cap visible)]
    BY DEF NextPage
  <1> DEFINE rest == Remaining(table)
             page == FirstOf(rest, limit)
             visible == {id \in page : ~Expired(table[id])}
             next == CursorAfter(page, visible, limit)
  <1>3. rest \in SUBSET EventIDs /\ rest \in SUBSET Nat /\ IsFiniteSet(rest)
    <2>1. rest \in SUBSET EventIDs BY DEF Remaining
    <2> QED BY <2>1, MemoryAssumption, FS_Subset
  <1>4. /\ page \subseteq rest
        /\ \A x \in page, y \in rest : Upto(x, y, query.desc) => y \in page
        /\ Cardinality(page) # limit => page = rest
    <2> HIDE DEF rest
    <2> QED BY <1>1, <1>3, PageIsFirst
  <1>5. /\ next \in EventIDs \cup {Absent}
        /\ next = Absent => page = rest
        /\ next # Absent => next \in page /\ \A x \in page : Upto(next, x, query.desc)
    <2>1. CASE Cardinality(page) # limit
      BY <2>1, <1>4 DEF CursorAfter
    <2>2. CASE Cardinality(page) = limit
      <3>1. page \in SUBSET Nat /\ IsFiniteSet(page) /\ page # {}
        <4>1. page # {} BY <2>2, <1>1, FS_EmptySet
        <4> QED BY <4>1, <1>3, <1>4, FS_Subset
      <3>2. /\ Min(page) \in page /\ \A n \in page : Min(page) <= n
            /\ Max(page) \in page /\ \A n \in page : n <= Max(page)
        <4> HIDE DEF page
        <4> QED BY <3>1, EventEnds
      <3>3. next = IF query.desc THEN Min(page) ELSE Max(page)
        BY <2>2 DEF CursorAfter
      <3>4. next \in page /\ \A x \in page : Upto(next, x, query.desc)
        <4> HIDE DEF page, next
        <4>1. CASE query.desc
          <5>1. next = Min(page) BY <3>3, <4>1
          <5>2. \A x \in page : x \in Nat /\ Min(page) \in Nat BY <3>1, <3>2
          <5> QED BY <5>1, <5>2, <3>2, <4>1 DEF Upto
        <4>2. CASE ~query.desc
          <5>1. next = Max(page) BY <3>3, <4>2
          <5> QED BY <5>1, <3>2, <4>2 DEF Upto
        <4> QED BY <4>1, <4>2
      <3>5. page \subseteq EventIDs BY <1>3, <1>4
      <3>6. next \in EventIDs /\ next # Absent BY <3>4, <3>5, MemoryAssumption
      <3> QED BY <3>4, <3>6
    <2> QED BY <2>1, <2>2
  <1>6. visible \subseteq page /\ page \subseteq EventIDs
    BY <1>3, <1>4
  <1>7. query' = [query EXCEPT !.pc = IF next = Absent THEN "done" ELSE "page",
                               !.cursor = next, !.shown = @ \cup visible,
                               !.twice = @ \cup (query.shown \cap visible)]
    BY <1>2
  <1>8. \A id \in EventIDs : id \in rest <=>
          table[id] # Absent /\ InRange(id, query) /\ Beyond(id, query)
    BY DEF Remaining
  <1>9. \A id \in EventIDs : id \in visible <=> id \in page /\ ~Expired(table[id])
    BY <1>6
  <1> HIDE DEF rest, page, visible, next
  <1>10. /\ query' \in Walk
         /\ query'.pc = (IF next = Absent THEN "done" ELSE "page")
         /\ query'.cursor = next /\ query'.shown = query.shown \cup visible
         /\ query'.twice = query.twice \cup (query.shown \cap visible)
         /\ query'.steady = query.steady /\ query'.desc = query.desc
         /\ query'.from = query.from /\ query'.to = query.to
    <2>1. visible \in SUBSET EventIDs /\ (IF next = Absent THEN "done" ELSE "page") \in {"done", "page"}
      BY <1>6
    <2> QED BY <1>1, <1>5, <1>7, <2>1 DEF Walk
  \* What is on the page has not been shown before, and was before the walk.
  <1>11. \A id \in page : Beyond(id, query) /\ id \notin query.shown
    BY <1>1, <1>4, <1>6, <1>8 DEF MemoryInv, WalkInv
  <1>12. query'.twice = {}
    BY <1>6, <1>10, <1>11 DEF MemoryInv, WalkInv
  <1>13. \A id \in query.steady : /\ id \in EventIDs /\ table[id] = timeline[id]
                                  /\ table[id] # Absent /\ InRange(id, query)
    BY <1>1, <1>2 DEF MemoryInv, WalkInv, SteadyStays
  \* An event that stays and that the page has gone past is on it, or was seen.
  <1>14. \A id \in query.steady : id \in page => Expired(timeline[id]) \/ id \in visible
    BY <1>9, <1>13
  <1>15. \A id \in query.steady :
            Beyond(id, query) \/ Expired(timeline[id]) \/ id \in query.shown
    BY <1>1 DEF MemoryInv, WalkInv, Seen
  <1>16. \A id \in query.steady : Expired(timeline[id])' <=> Expired(timeline[id])
    BY <1>1 DEF Expired
  <1>17. SteadyStays'
    BY <1>1, <1>10, <1>13 DEF MemoryInv, WalkInv, SteadyStays, InRange
  <1>18. CASE next = Absent
    <2>1. query'.pc = "done" BY <1>10, <1>18
    <2>2. \A id \in query.steady : Expired(timeline[id]) \/ id \in query.shown \cup visible
      BY <1>5, <1>8, <1>13, <1>14, <1>15, <1>18
    <2>3. \A id \in query'.steady : Seen(id)'
      BY <1>10, <1>16, <2>2 DEF Seen
    <2>4. WalkInv' BY <1>12, <1>17, <2>1, <2>3 DEF WalkInv
    <2> QED BY <1>1, <1>10, <2>4
          DEF MemoryInv, MemoryTypes, AppendShape, LagInv, AnsweredIsKept, Expired
  <1>19. CASE next # Absent
    <2>1. query'.pc = "page" BY <1>10, <1>19
    <2>2. \A id \in EventIDs : Beyond(id, query)' <=> IF query.desc THEN id < next ELSE id > next
      BY <1>10, <1>19 DEF Beyond
    <2>3. next \in page /\ next \in EventIDs /\ next \in Nat /\ EventIDs \in SUBSET Nat
      BY <1>5, <1>6, <1>19, MemoryAssumption
    <2>4. \A id \in EventIDs : Beyond(id, query)' <=> ~Upto(next, id, query.desc)
      <3> SUFFICES ASSUME NEW id \in EventIDs
                   PROVE  Beyond(id, query)' <=> ~Upto(next, id, query.desc)
        OBVIOUS
      <3>1. id \in Nat BY <2>3
      <3> QED BY <2>2, <2>3, <3>1 DEF Upto
    <2>5. \A id \in query.shown : Upto(next, id, query.desc)
      <3> SUFFICES ASSUME NEW id \in query.shown PROVE Upto(next, id, query.desc)
        OBVIOUS
      <3>1. query.cursor # Absent /\ ~Beyond(id, query) /\ Beyond(next, query)
        BY <1>1, <1>11, <2>3 DEF MemoryInv, WalkInv
      <3>2. id \in Nat /\ query.cursor \in Nat /\ query.cursor \in EventIDs
        BY <1>1, <2>3, <3>1
      <3> QED BY <2>3, <3>1, <3>2 DEF Beyond, Upto
    <2>6. \A id \in query'.shown : ~Beyond(id, query)'
      <3>1. \A id \in visible : Upto(next, id, query.desc) BY <1>5, <1>6, <1>19
      <3> QED BY <1>1, <1>6, <1>10, <2>4, <2>5, <3>1
    <2>7. \A id \in query'.steady : Beyond(id, query)' \/ Seen(id)'
      <3> SUFFICES ASSUME NEW id \in query.steady, Upto(next, id, query.desc),
                          ~Expired(timeline[id]), id \notin query.shown
                   PROVE  id \in visible
        BY <1>1, <1>10, <1>16, <2>4 DEF Seen
      <3>1. id \in rest BY <1>8, <1>13, <1>15
      <3>2. id \in page BY <3>1, <1>4, <2>3
      <3> QED BY <3>2, <1>14
    <2>8. query'.cursor # Absent BY <1>10, <1>19
    <2>9. WalkInv' BY <1>12, <1>17, <2>1, <2>6, <2>7, <2>8 DEF WalkInv
    <2> QED BY <1>1, <1>10, <2>9
          DEF MemoryInv, MemoryTypes, AppendShape, LagInv, AnsweredIsKept, Expired
  <1> QED BY <1>18, <1>19

LEMMA AskQueryKeeps ==
  ASSUME MemoryInv, AskQuery
  PROVE  MemoryInv'
  <1>1. PICK desc \in BOOLEAN, from \in Times, to \in Times :
          LET q == [NoQuery EXCEPT !.pc = "page", !.desc = desc, !.from = from, !.to = to]
          IN query' = [q EXCEPT !.steady = Settled(q)]
    BY DEF AskQuery, Times
  <1> DEFINE q == [NoQuery EXCEPT !.pc = "page", !.desc = desc, !.from = from, !.to = to]
  <1>2. /\ q \in Walk /\ q.pc = "page" /\ q.cursor = Absent /\ q.shown = {} /\ q.twice = {}
        /\ q.from = from /\ q.to = to
    BY DEF NoQuery, Walk
  <1>3. query' = [q EXCEPT !.steady = Settled(q)] BY <1>1
  <1> HIDE DEF q
  <1>4. Settled(q) \in SUBSET EventIDs
        /\ \A id \in Settled(q) : timeline[id] # Absent /\ lagging[id] = timeline[id]
                                  /\ InRange(id, q)
    BY DEF Settled, InRange
  <1>5. /\ query' \in Walk /\ query'.pc = "page" /\ query'.cursor = Absent
        /\ query'.shown = {} /\ query'.twice = {} /\ query'.steady = Settled(q)
        /\ query'.from = q.from /\ query'.to = q.to
    BY <1>2, <1>3, <1>4 DEF Walk
  <1>6. UNCHANGED <<timeline, lagging, clock, append>>
    BY DEF AskQuery
  <1>7. SteadyStays'
    BY <1>4, <1>5, <1>6 DEF SteadyStays, InRange
  <1>8. WalkInv'
    BY <1>5, <1>7 DEF WalkInv, Beyond
  <1> QED BY <1>5, <1>6, <1>8
        DEF MemoryInv, MemoryTypes, AppendShape, LagInv, AnsweredIsKept, Expired

\* Time passes, the table expires events, lagging reads catch up.
LEMMA TimeKeeps ==
  ASSUME MemoryInv, Tick \/ CatchUp \/ \E id \in EventIDs : Reap(id)
  PROVE  MemoryInv'
  <1>0. /\ clock' \in Nat /\ clock' >= clock
        /\ \A id \in EventIDs : timeline[id] \in Event \cup {Absent}
                                /\ lagging[id] \in Event \cup {Absent}
        /\ query \in Walk /\ query.steady \in SUBSET EventIDs /\ query.shown \in SUBSET EventIDs
    BY WalkFields DEF MemoryInv, MemoryTypes, Tick, CatchUp, Reap
  <1>1. \A e \in Event : Expired(e) => e.ttl # Never /\ e.ttl <= clock'
    BY <1>0, ExpiryStays DEF MemoryInv, Expired
  <1>2. \A id \in query.steady : Expired(timeline[id]) => timeline[id] \in Event
    BY <1>0 DEF MemoryInv, WalkInv, SteadyStays
  <1>3. CASE Tick
    <2>1. UNCHANGED <<timeline, lagging, append, query>> /\ clock' \in Nat
      BY <1>3, <1>0 DEF Tick
    <2>2. LagInv'
      <3> SUFFICES ASSUME NEW id \in EventIDs, lagging[id] # Absent, lagging[id] # timeline[id]
                   PROVE  Expired(lagging[id])'
        BY <2>1 DEF LagInv
      <3>1. Expired(lagging[id]) /\ lagging[id] \in Event
        BY <1>0 DEF MemoryInv, LagInv
      <3>2. Expired(lagging[id]) => Expired(lagging[id])'
        BY <1>0, <3>1, <2>1, <1>1 DEF Expired
      <3> QED BY <3>1, <3>2
    <2>3. AnsweredIsKept'
      <3> SUFFICES ASSUME NEW c \in Appends, append[c].pc = "ok", ~Expired(append[c].event)'
                   PROVE  timeline[append[c].id] = append[c].event
        BY <2>1 DEF AnsweredIsKept
      <3>1. append[c].event \in Event BY DEF MemoryInv, AppendShape
      <3>2. Expired(append[c].event) => Expired(append[c].event)'
        BY <1>0, <3>1, <2>1, <1>1 DEF Expired
      <3> QED BY <3>2 DEF MemoryInv, AnsweredIsKept
    <2>4. \A id \in query.steady : Seen(id) => Seen(id)'
      <3> SUFFICES ASSUME NEW id \in query.steady, Expired(timeline[id])
                   PROVE  Expired(timeline[id])'
        BY <2>1 DEF Seen
      <3>1. timeline[id] \in Event BY <1>2
      <3> QED BY <1>0, <3>1, <2>1, <1>1 DEF Expired
    <2>5. WalkInv'
      <3>1. SteadyStays' BY <2>1 DEF MemoryInv, WalkInv, SteadyStays, InRange
      <3>2. \A id \in EventIDs : Beyond(id, query)' <=> Beyond(id, query)
        BY <2>1 DEF Beyond
      <3> QED BY <1>0, <2>1, <2>4, <3>1, <3>2 DEF MemoryInv, WalkInv
    <2> QED BY <2>1, <2>2, <2>3, <2>5 DEF MemoryInv, MemoryTypes, AppendShape
  <1>4. CASE CatchUp
    <2>1. UNCHANGED <<timeline, clock, append, query>> /\ lagging' = timeline
      BY <1>4 DEF CatchUp
    <2>2. LagInv' BY <2>1 DEF LagInv
    <2>3. WalkInv'
      BY <2>1 DEF MemoryInv, WalkInv, SteadyStays, Seen, Beyond, InRange, Expired
    <2> QED BY <2>1, <2>2, <2>3
          DEF MemoryInv, MemoryTypes, AppendShape, AnsweredIsKept, Expired
  <1>5. ASSUME NEW i \in EventIDs, Reap(i) PROVE MemoryInv'
    <2>1. /\ UNCHANGED <<lagging, clock, append>>
          /\ timeline' = [timeline EXCEPT ![i] = Absent]
          /\ query' = [query EXCEPT !.steady = @ \ {i}]
          /\ timeline[i] # Absent /\ Expired(timeline[i])
          /\ timeline \in [EventIDs -> Event \cup {Absent}]
      BY <1>5 DEF Reap, MemoryInv, MemoryTypes
    <2>2. /\ query' \in Walk /\ query'.steady = query.steady \ {i}
          /\ query'.pc = query.pc /\ query'.cursor = query.cursor /\ query'.shown = query.shown
          /\ query'.twice = query.twice /\ query'.desc = query.desc
          /\ query'.from = query.from /\ query'.to = query.to
      BY <1>0, <2>1 DEF Walk
    <2>3. /\ \A id \in EventIDs : id # i => timeline'[id] = timeline[id]
          /\ timeline'[i] = Absent /\ timeline' \in [EventIDs -> Event \cup {Absent}]
      BY <2>1
    <2>4. LagInv'
      <3> SUFFICES ASSUME NEW id \in EventIDs, lagging[id] # Absent, lagging[id] # timeline'[id]
                   PROVE  Expired(lagging[id])'
        BY <2>1 DEF LagInv
      <3>1. lagging[id] = timeline[id] \/ Expired(lagging[id])
        BY DEF MemoryInv, LagInv
      <3>2. lagging[id] = timeline[id] => id = i BY <2>3
      <3> QED BY <2>1, <3>1, <3>2 DEF Expired
    <2>5. AnsweredIsKept'
      <3> SUFFICES ASSUME NEW c \in Appends, append[c].pc = "ok", ~Expired(append[c].event)
                   PROVE  timeline'[append[c].id] = append[c].event
        BY <2>1 DEF AnsweredIsKept, Expired
      <3>1. timeline[append[c].id] = append[c].event /\ append[c].id \in EventIDs
        BY DEF MemoryInv, AnsweredIsKept, AppendShape
      <3> QED BY <2>1, <2>3, <3>1
    <2>6. WalkInv'
      <3>1. \A id \in query'.steady : /\ id \in query.steady /\ id \in EventIDs
                                      /\ timeline'[id] = timeline[id]
        BY <1>0, <2>2, <2>3
      <3>2. SteadyStays'
        BY <2>1, <2>2, <3>1 DEF MemoryInv, WalkInv, SteadyStays, InRange
      <3>3. \A id \in EventIDs : Beyond(id, query)' <=> Beyond(id, query)
        BY <2>2 DEF Beyond
      <3>4. \A id \in query'.steady : Seen(id) => Seen(id)'
        BY <2>1, <2>2, <3>1 DEF Seen, Expired
      <3> QED BY <1>0, <2>2, <3>1, <3>2, <3>3, <3>4 DEF MemoryInv, WalkInv
    <2> QED BY <2>1, <2>2, <2>3, <2>4, <2>5, <2>6 DEF MemoryInv, MemoryTypes, AppendShape
  <1> QED BY <1>3, <1>4, <1>5

\* Appends that were answered with one event id agree on its event until it
\* expires, and a walk shows each event that stays exactly once
\* (dynamo_store.go:68-83, 100-166), whatever was lost, removed, appended or
\* read late in between.
THEOREM TimelineKeepsItsWord == MemorySpec => []TimelineHolds
  <1>1. MemoryInv /\ [MemoryNext]_memoryVars => MemoryInv'
    <2> SUFFICES ASSUME MemoryInv, [MemoryNext]_memoryVars PROVE MemoryInv'
      OBVIOUS
    <2>1. CASE UNCHANGED memoryVars
      BY <2>1 DEF memoryVars, MemoryInv, MemoryTypes, AppendShape, LagInv, AnsweredIsKept,
                  WalkInv, SteadyStays, Seen, Beyond, InRange, Expired
    <2>2. CASE MemoryNext
      BY <2>2, AppendKeeps, PageKeeps, AskQueryKeeps, TimeKeeps DEF MemoryNext
    <2> QED BY <2>1, <2>2
  <1>2. MemoryInv => TimelineHolds
    BY DEF MemoryInv, WalkInv, TimelineHolds, WalkShowsEach, Seen
  <1> QED BY MemoryStarts, <1>1, <1>2, PTL DEF MemorySpec

-----------------------------------------------------------------------------
(***************************************************************************)
(* GrantMintLimiter, for any accounts, cap and window.  What is kept of an *)
(* account's hits is an end of everything it was let through with, since   *)
(* both are in the order of time (LimiterInv): there are never more than   *)
(* the cap allows, and after a refusal exactly that many, the oldest of    *)
(* which names the reset.                                                  *)
(***************************************************************************)

\* What holds of zero and of the number after each holds up to a bound.
LEMMA Upwards ==
  ASSUME NEW N \in Nat, NEW G, 0 \in G, \A n \in 0..(N - 1) : n \in G => n + 1 \in G
  PROVE  0..N \subseteq G
  <1> DEFINE Untold == (0..N) \ G
  <1>1. SUFFICES ASSUME Untold # {} PROVE FALSE
    OBVIOUS
  <1>2. Untold \in SUBSET Nat /\ IsFiniteSet(Untold)
    <2>1. 0 \in Int /\ N \in Int OBVIOUS
    <2>2. IsFiniteSet(0..N) BY <2>1, FS_Interval
    <2>3. Untold \subseteq 0..N OBVIOUS
    <2> QED BY <2>2, <2>3, FS_Subset
  <1> DEFINE least == Min(Untold)
  <1>3. least \in Untold /\ \A n \in Untold : least <= n
    <2> HIDE DEF Untold
    <2> QED BY <1>1, <1>2, EventEnds
  <1> HIDE DEF least
  <1>4. least \in 0..N /\ least # 0 /\ least \notin G BY <1>3
  <1>5. least - 1 \in 0..(N - 1) /\ least - 1 + 1 = least /\ ~(least <= least - 1)
    BY <1>4
  <1>6. least - 1 \in G BY <1>3, <1>4, <1>5
  <1> QED BY <1>4, <1>5, <1>6

\* The loop over the first m hits of a list.
KeepsUpTo(f, s, m) ==
  f = [n \in 0..m |-> IF n = 0 THEN << >>
                      ELSE IF After(s[n]) THEN Append(f[n - 1], s[n])
                      ELSE f[n - 1]]

LEMMA LoopExists ==
  ASSUME NEW s \in Seq(Int)
  PROVE  \E f : KeepsUpTo(f, s, Len(s))
  <1> DEFINE N == Len(s)
             G == {m \in 0..N : \E f : KeepsUpTo(f, s, m)}
  <1>1. N \in Nat OBVIOUS
  <1>2. 0 \in G
    <2> DEFINE f == [n \in 0..0 |-> << >>]
    <2>1. \A n \in 0..0 : n = 0 OBVIOUS
    <2>2. KeepsUpTo(f, s, 0) BY <2>1 DEF KeepsUpTo
    <2> HIDE DEF f, N
    <2> QED BY <1>1, <2>2
  <1>3. ASSUME NEW m \in 0..(N - 1), m \in G PROVE m + 1 \in G
    <2>1. m \in Nat /\ m + 1 \in 0..N BY <1>1
    <2>2. PICK f : KeepsUpTo(f, s, m) BY <1>3
    <2> DEFINE Step(h, n) == IF n = 0 THEN << >>
                             ELSE IF After(s[n]) THEN Append(h[n - 1], s[n])
                             ELSE h[n - 1]
               g == [n \in 0..(m + 1) |-> Step(f, n)]
    <2>3. f = [n \in 0..m |-> Step(f, n)] BY <2>2 DEF KeepsUpTo
    <2>4. \A n \in 0..m : g[n] = f[n]
      <3> SUFFICES ASSUME NEW n \in 0..m PROVE g[n] = f[n]
        OBVIOUS
      <3>1. n \in 0..(m + 1) BY <2>1
      <3> HIDE DEF Step
      <3> QED BY <2>3, <3>1
    <2>5. \A n \in 0..(m + 1) : Step(f, n) = Step(g, n)
      <3> SUFFICES ASSUME NEW n \in 0..(m + 1) PROVE Step(f, n) = Step(g, n)
        OBVIOUS
      <3> HIDE DEF g
      <3>1. n = 0 \/ n - 1 \in 0..m BY <2>1
      <3> QED BY <2>4, <3>1
    <2>6. g = [n \in 0..(m + 1) |-> Step(g, n)]
      <3>1. g = [n \in 0..(m + 1) |-> Step(f, n)] OBVIOUS
      <3> HIDE DEF g, Step
      <3> QED BY <2>5, <3>1
    <2>7. KeepsUpTo(g, s, m + 1)
      <3> HIDE DEF g
      <3> QED BY <2>6 DEF KeepsUpTo
    <2> HIDE DEF g, N
    <2> QED BY <2>1, <2>7
  <1> HIDE DEF G, N
  <1>4. 0..N \subseteq G BY <1>1, <1>2, <1>3, Upwards
  <1>5. N \in G BY <1>1, <1>4
  <1> QED BY <1>5 DEF G, N

\* What is kept of a list in the order of time is an end of it.
LEMMA KeptIsTheEnd ==
  ASSUME NEW a, NEW s \in Seq(Int), hits[a] = s,
         \A i, j \in 1..Len(s) : i <= j => s[i] <= s[j],
         seconds \in Int, Window \in Int
  PROVE  \E k \in 0..Len(s) :
           /\ \A i \in 1..k : ~After(s[i])
           /\ \A i \in (k + 1)..Len(s) : After(s[i])
           /\ Kept(a) = SubSeq(s, k + 1, Len(s))
  <1> DEFINE N == Len(s)
             Ends(f, n) == \E k \in 0..n :
                             /\ \A i \in 1..k : ~After(s[i])
                             /\ \A i \in (k + 1)..n : After(s[i])
                             /\ f[n] = SubSeq(s, k + 1, n)
  <1>1. N \in Nat /\ \A i \in 1..N : s[i] \in Int OBVIOUS
  <1>2. PICK f : KeepsUpTo(f, s, N) /\ Kept(a) = f[N]
    <2>1. Kept(a) = (CHOOSE f : KeepsUpTo(f, s, N))[N]
      BY DEF Kept, KeepsUpTo
    <2> QED BY <2>1, LoopExists
  <1> DEFINE G == {n \in 0..N : Ends(f, n)}
  <1>3. 0 \in G
    <2>1. f[0] = << >> BY <1>1, <1>2 DEF KeepsUpTo
    <2>2. SubSeq(s, 1, 0) = << >> OBVIOUS
    <2>3. 0 \in 0..0 /\ 0 + 1 = 1 /\ 1..0 = {} OBVIOUS
    <2>4. Ends(f, 0) BY <2>1, <2>2, <2>3
    <2> HIDE DEF Ends, N
    <2> QED BY <1>1, <2>4
  <1>4. ASSUME NEW m \in 0..(N - 1), m \in G PROVE m + 1 \in G
    <2>1. m \in Nat /\ m + 1 \in 1..N /\ m + 1 \in 0..N /\ m + 1 # 0 /\ m + 1 - 1 = m BY <1>1
    <2>2. PICK k \in 0..m : /\ \A i \in 1..k : ~After(s[i])
                            /\ \A i \in (k + 1)..m : After(s[i])
                            /\ f[m] = SubSeq(s, k + 1, m)
      BY <1>4
    <2>3. f[m + 1] = IF After(s[m + 1]) THEN Append(f[m], s[m + 1]) ELSE f[m]
      <3> DEFINE j == m + 1
      <3>1. j \in 0..N /\ j # 0 /\ j - 1 = m BY <2>1
      <3> HIDE DEF N, j
      <3>2. f[j] = IF After(s[j]) THEN Append(f[j - 1], s[j]) ELSE f[j - 1]
        BY <1>2, <3>1 DEF KeepsUpTo
      <3> QED BY <3>1, <3>2 DEF j
    <2>4. CASE After(s[m + 1])
      <3>1. Append(SubSeq(s, k + 1, m), s[m + 1]) = SubSeq(s, k + 1, m + 1)
        <4> DEFINE front == SubSeq(s, k + 1, m)
                   longer == SubSeq(s, k + 1, m + 1)
        <4>1. /\ front \in Seq(Int) /\ Len(front) = m - k
              /\ \A i \in 1..(m - k) : front[i] = s[k + i]
          <5>1. \A i \in (k + 1)..m : i \in 1..N BY <2>1
          <5> QED BY <2>1, <5>1
        <4>2. /\ longer \in Seq(Int) /\ Len(longer) = m + 1 - k
              /\ \A i \in 1..(m + 1 - k) : longer[i] = s[k + i]
          <5>1. \A i \in (k + 1)..(m + 1) : i \in 1..N BY <2>1
          <5> QED BY <2>1, <5>1
        <4> HIDE DEF front, longer
        <4>3. s[m + 1] \in Int /\ m - k \in Nat BY <1>1, <2>1
        <4>4. /\ Append(front, s[m + 1]) \in Seq(Int)
              /\ Len(Append(front, s[m + 1])) = m - k + 1
              /\ \A i \in 1..(m - k) : Append(front, s[m + 1])[i] = front[i]
              /\ Append(front, s[m + 1])[m - k + 1] = s[m + 1]
          BY <4>1, <4>3
        <4> DEFINE one == Append(front, s[m + 1])
        <4> HIDE DEF one
        <4>5. \A i \in 1..(m + 1 - k) : one[i] = longer[i]
          <5> SUFFICES ASSUME NEW i \in 1..(m + 1 - k) PROVE one[i] = longer[i]
            OBVIOUS
          <5>1. i \in 1..(m - k) \/ (i = m - k + 1 /\ k + i = m + 1) BY <2>1
          <5> QED BY <4>1, <4>2, <4>4, <5>1 DEF one
        <4>6. one \in Seq(Int) /\ Len(one) = m + 1 - k BY <2>1, <4>4 DEF one
        <4> QED BY <4>2, <4>5, <4>6 DEF one, longer, front
      <3>2. \A i \in (k + 1)..(m + 1) : After(s[i])
        <4> SUFFICES ASSUME NEW i \in (k + 1)..(m + 1) PROVE After(s[i])
          OBVIOUS
        <4>1. i = m + 1 \/ i \in (k + 1)..m BY <2>1
        <4> QED BY <2>2, <2>4, <4>1
      <3>3. k \in 0..(m + 1) BY <2>1
      <3>4. f[m + 1] = SubSeq(s, k + 1, m + 1) BY <2>2, <2>3, <2>4, <3>1
      <3>5. Ends(f, m + 1) BY <2>2, <3>2, <3>3, <3>4
      <3> HIDE DEF Ends, N
      <3> QED BY <2>1, <3>5
    <2>5. CASE ~After(s[m + 1])
      <3>1. ASSUME NEW i \in 1..(m + 1) PROVE ~After(s[i])
        <4>1. i \in 1..N /\ i <= m + 1 BY <2>1
        <4>2. s[i] <= s[m + 1] /\ s[i] \in Int /\ s[m + 1] \in Int BY <1>1, <2>1, <4>1
        <4> QED BY <2>5, <4>2 DEF After
      <3>2. k = m
        <4>1. SUFFICES ASSUME k # m PROVE FALSE OBVIOUS
        <4>2. m \in (k + 1)..m /\ m \in 1..(m + 1) BY <2>1, <4>1
        <4> QED BY <2>2, <3>1, <4>2
      <3>3. f[m + 1] = SubSeq(s, m + 1, m) BY <2>2, <2>3, <2>5, <3>2
      <3>4. SubSeq(s, m + 1, m) = << >> /\ SubSeq(s, m + 2, m + 1) = << >> BY <2>1
      <3>5. m + 1 \in 0..(m + 1) /\ m + 1 + 1 = m + 2 /\ (m + 2)..(m + 1) = {} BY <2>1
      <3>6. Ends(f, m + 1) BY <3>1, <3>3, <3>4, <3>5
      <3> HIDE DEF Ends, N
      <3> QED BY <2>1, <3>6
    <2> QED BY <2>4, <2>5
  <1> HIDE DEF G, N
  <1>5. 0..N \subseteq G BY <1>1, <1>3, <1>4, Upwards
  <1>6. N \in G BY <1>1, <1>5
  <1> QED BY <1>2, <1>6 DEF G, N

\* One list of times is an end of another.
IsEnd(h, acc) ==
  /\ Len(h) <= Len(acc)
  /\ \A i \in 1..Len(h) : h[i] = acc[Len(acc) - Len(h) + i]

\* An account was let through in the order of time, not too often; what was
\* dropped of its hits had left the window; a refusal found the cap reached.
AccountHolds(h, acc, reset, now) ==
  /\ h \in Seq(Int) /\ acc \in Seq(Int)
  /\ IsEnd(h, acc) /\ Len(h) <= MaxHits
  /\ \A i \in 1..(Len(acc) - Len(h)) : acc[i] <= now - Window
  /\ \A i \in 1..Len(acc) : acc[i] <= now
  /\ \A i, j \in 1..Len(acc) : i <= j => acc[i] <= acc[j]
  /\ \A i \in 1..Len(acc) : i > MaxHits => acc[i] - acc[i - MaxHits] >= Window
  /\ reset # None => Len(h) = MaxHits /\ reset = h[1] + Window

LimiterInv ==
  /\ seconds \in Int
  /\ hits \in [Accounts -> Seq(Int)] /\ accepted \in [Accounts -> Seq(Int)]
  /\ DOMAIN resetAt = Accounts
  /\ \A a \in Accounts : AccountHolds(hits[a], accepted[a], resetAt[a], seconds)

\* What is kept at some second.
LEMMA KeptHolds ==
  ASSUME LimiterInv, NEW a \in Accounts
  PROVE  /\ Kept(a) \in Seq(Int) /\ Len(Kept(a)) <= MaxHits
         /\ IsEnd(Kept(a), accepted[a])
         /\ \A i \in 1..(Len(accepted[a]) - Len(Kept(a))) :
              accepted[a][i] <= seconds - Window
         /\ resetAt[a] # None => (Refuses(a) <=> seconds < resetAt[a])
  <1> DEFINE h == hits[a]
             acc == accepted[a]
             K == Kept(a)
  <1>1. AccountHolds(h, acc, resetAt[a], seconds) /\ seconds \in Int BY DEF LimiterInv
  <1>2. MaxHits \in Nat /\ MaxHits >= 1 /\ Window \in Int BY LimiterAssumption
  <1>3. h \in Seq(Int) /\ acc \in Seq(Int) BY <1>1 DEF AccountHolds
  <1>4. PICK n \in Nat : n = Len(h) BY <1>3
  <1>5. PICK m \in Nat : m = Len(acc) BY <1>3
  <1>6. n <= m /\ n <= MaxHits /\ \A i \in 1..n : h[i] = acc[m - n + i]
    BY <1>1, <1>4, <1>5 DEF AccountHolds, IsEnd
  <1>7. \A i \in 1..n : h[i] \in Int
    BY <1>3, <1>4
  <1>8. \A i \in 1..m : acc[i] \in Int BY <1>3, <1>5
  <1>9. \A i, j \in 1..n : i <= j => h[i] <= h[j]
    <2> SUFFICES ASSUME NEW i \in 1..n, NEW j \in 1..n, i <= j PROVE h[i] <= h[j]
      OBVIOUS
    <2>1. m - n + i \in 1..m /\ m - n + j \in 1..m /\ m - n + i <= m - n + j BY <1>6
    <2>2. acc[m - n + i] <= acc[m - n + j] BY <1>1, <1>5, <2>1 DEF AccountHolds
    <2> QED BY <1>6, <2>2
  <1>10. PICK k \in 0..n : /\ \A i \in 1..k : ~After(h[i])
                           /\ \A i \in (k + 1)..n : After(h[i])
                           /\ K = SubSeq(h, k + 1, n)
    <2> HIDE DEF K, h
    <2>1. hits[a] = h BY DEF h
    <2> QED BY <1>1, <1>2, <1>3, <1>4, <1>9, <2>1, KeptIsTheEnd DEF K
  <1>11. /\ K \in Seq(Int) /\ Len(K) = n - k
         /\ \A i \in 1..(n - k) : K[i] = h[k + i]
    <2> HIDE DEF K, h
    <2>1. \A i \in (k + 1)..n : i \in 1..n OBVIOUS
    <2> QED BY <1>3, <1>4, <1>10, <2>1
  <1> HIDE DEF h, acc, K
  <1>12. IsEnd(K, acc)
    <2>1. ASSUME NEW i \in 1..(n - k) PROVE K[i] = acc[m - (n - k) + i]
      <3>1. k + i \in 1..n /\ m - n + (k + i) = m - (n - k) + i BY <1>6
      <3> QED BY <1>6, <1>11, <3>1
    <2> QED BY <1>5, <1>6, <1>11, <2>1 DEF IsEnd
  <1>13. ASSUME NEW i \in 1..(m - (n - k)) PROVE acc[i] <= seconds - Window
    <2>1. CASE i <= m - n
      <3>1. i \in 1..(m - n) BY <1>6, <2>1
      <3> QED BY <1>1, <1>4, <1>5, <3>1 DEF AccountHolds
    <2>2. CASE ~(i <= m - n)
      <3>1. i - (m - n) \in 1..k /\ i - (m - n) \in 1..n /\ m - n + (i - (m - n)) = i
        BY <1>6, <2>2
      <3>2. ~After(h[i - (m - n)]) /\ h[i - (m - n)] = acc[i] /\ acc[i] \in Int
        BY <1>6, <1>7, <1>10, <3>1
      <3> QED BY <1>1, <1>2, <3>2 DEF After
    <2> QED BY <2>1, <2>2
  <1>14. ASSUME resetAt[a] # None PROVE Refuses(a) <=> seconds < resetAt[a]
    <2>1. n = MaxHits /\ resetAt[a] = h[1] + Window
      BY <1>1, <1>4, <1>14 DEF AccountHolds
    <2>2. Refuses(a) <=> n - k >= MaxHits BY <1>11 DEF Refuses, K
    <2>3. 1 \in 1..n /\ h[1] \in Int BY <1>2, <1>7, <2>1
    <2>4. CASE k = 0
      <3>1. 1 \in (k + 1)..n BY <2>3, <2>4
      <3>2. After(h[1]) BY <1>10, <3>1
      <3>3. h[1] > seconds - Window BY <3>2 DEF After
      <3> QED BY <1>1, <1>2, <2>1, <2>2, <2>3, <2>4, <3>3
    <2>5. CASE k # 0
      <3>1. 1 \in 1..k BY <2>5
      <3>2. ~After(h[1]) BY <1>10, <3>1
      <3>3. ~(h[1] > seconds - Window) BY <3>2 DEF After
      <3>4. ~(n - k >= MaxHits) BY <1>2, <2>1, <2>5
      <3> QED BY <1>1, <1>2, <2>1, <2>2, <2>3, <3>3, <3>4
    <2> QED BY <2>4, <2>5
  <1>15. n - k <= MaxHits BY <1>2, <1>6
  <1> QED BY <1>5, <1>11, <1>12, <1>13, <1>14, <1>15 DEF acc, K

LEMMA NoneHolds ==
  ASSUME NEW now \in Int
  PROVE  AccountHolds(<< >>, << >>, None, now)
  BY LimiterAssumption DEF AccountHolds, IsEnd

LEMMA LimiterKeeps ==
  ASSUME LimiterInv, [LimiterNext]_limiterVars
  PROVE  LimiterInv'
  <1>1. MaxHits \in Nat /\ MaxHits >= 1 /\ Window \in Nat /\ seconds \in Int
    BY LimiterAssumption DEF LimiterInv
  <1>2. ASSUME NEW a \in Accounts, seconds' = seconds,
               NEW h, NEW acc, NEW reset,
               hits' = [hits EXCEPT ![a] = h], accepted' = [accepted EXCEPT ![a] = acc],
               resetAt' = [resetAt EXCEPT ![a] = reset],
               AccountHolds(h, acc, reset, seconds)
        PROVE  LimiterInv'
    <2>1. /\ hits'[a] = h /\ accepted'[a] = acc /\ resetAt'[a] = reset
          /\ \A b \in Accounts \ {a} : /\ hits'[b] = hits[b] /\ accepted'[b] = accepted[b]
                                       /\ resetAt'[b] = resetAt[b]
          /\ hits' \in [Accounts -> Seq(Int)] /\ accepted' \in [Accounts -> Seq(Int)]
          /\ DOMAIN resetAt' = Accounts
      <3>1. h \in Seq(Int) /\ acc \in Seq(Int) BY <1>2 DEF AccountHolds
      <3> QED BY <1>2, <3>1 DEF LimiterInv
    <2>2. ASSUME NEW b \in Accounts
          PROVE  AccountHolds(hits'[b], accepted'[b], resetAt'[b], seconds)
      BY <1>2, <2>1 DEF LimiterInv
    <2> QED BY <1>1, <1>2, <2>1, <2>2 DEF LimiterInv
  <1>3. ASSUME NEW a \in Accounts, Refuse(a) PROVE LimiterInv'
    <2> DEFINE K == Kept(a)
               acc == accepted[a]
               reset == ResetAt(K)
    <2>1. /\ seconds' = seconds /\ hits' = [hits EXCEPT ![a] = K]
          /\ accepted' = [accepted EXCEPT ![a] = acc]
          /\ resetAt' = [resetAt EXCEPT ![a] = reset]
      BY <1>3 DEF Refuse, LimiterInv
    <2>2. Len(K) >= MaxHits BY <1>3 DEF Refuse, Refuses
    <2>3. /\ K \in Seq(Int) /\ Len(K) <= MaxHits /\ IsEnd(K, acc)
          /\ \A i \in 1..(Len(acc) - Len(K)) : acc[i] <= seconds - Window
      BY KeptHolds
    <2>4. AccountHolds(hits[a], acc, resetAt[a], seconds) BY DEF LimiterInv
    <2>5. reset = K[1] + Window BY DEF ResetAt
    <2> HIDE DEF K, acc, reset
    <2>6. Len(K) = MaxHits BY <1>1, <2>2, <2>3
    <2>7. AccountHolds(K, acc, reset, seconds)
      BY <2>3, <2>4, <2>5, <2>6 DEF AccountHolds
    <2> QED BY <1>2, <2>1, <2>7
  <1>4. ASSUME NEW a \in Accounts, Accept(a) PROVE LimiterInv'
    <2> DEFINE K == Kept(a)
               acc == accepted[a]
               h1 == Append(K, seconds)
               acc1 == Append(acc, seconds)
    <2>1. /\ seconds' = seconds /\ hits' = [hits EXCEPT ![a] = h1]
          /\ accepted' = [accepted EXCEPT ![a] = acc1]
          /\ resetAt' = [resetAt EXCEPT ![a] = None]
      BY <1>4 DEF Accept
    <2>2. ~(Len(K) >= MaxHits) BY <1>4 DEF Accept, Refuses
    <2>3. /\ K \in Seq(Int) /\ IsEnd(K, acc)
          /\ \A i \in 1..(Len(acc) - Len(K)) : acc[i] <= seconds - Window
      BY KeptHolds
    <2>4. AccountHolds(hits[a], acc, resetAt[a], seconds) BY DEF LimiterInv
    <2> HIDE DEF K, acc
    <2>5. acc \in Seq(Int) BY <2>4 DEF AccountHolds
    <2>6. PICK n \in Nat : n = Len(K) BY <2>3
    <2>7. PICK m \in Nat : m = Len(acc) BY <2>5
    <2>8. n <= m /\ n < MaxHits /\ \A i \in 1..n : K[i] = acc[m - n + i]
      BY <1>1, <2>2, <2>3, <2>6, <2>7 DEF IsEnd
    <2>9. /\ h1 \in Seq(Int) /\ Len(h1) = n + 1 /\ h1[n + 1] = seconds
          /\ \A i \in 1..n : h1[i] = K[i]
      BY <1>1, <2>3, <2>6
    <2>10. /\ acc1 \in Seq(Int) /\ Len(acc1) = m + 1 /\ acc1[m + 1] = seconds
           /\ \A i \in 1..m : acc1[i] = acc[i] /\ acc[i] \in Int
      BY <1>1, <2>5, <2>7
    <2> HIDE DEF h1, acc1
    <2>11. ASSUME NEW i \in 1..(n + 1) PROVE h1[i] = acc1[(m + 1) - (n + 1) + i]
      <3>1. CASE i = n + 1
        <4>1. (m + 1) - (n + 1) + i = m + 1 BY <3>1
        <4> QED BY <2>9, <2>10, <3>1, <4>1
      <3>2. CASE i # n + 1
        <4>1. i \in 1..n /\ (m + 1) - (n + 1) + i = m - n + i /\ m - n + i \in 1..m
          BY <2>8, <3>2
        <4> QED BY <2>8, <2>9, <2>10, <4>1
      <3> QED BY <3>1, <3>2
    <2>12. IsEnd(h1, acc1) BY <2>8, <2>9, <2>10, <2>11 DEF IsEnd
    <2>13. \A i \in 1..m : acc[i] <= seconds BY <2>4, <2>7 DEF AccountHolds
    <2>14. ASSUME NEW i \in 1..(m + 1) PROVE acc1[i] <= seconds
      <3>1. i = m + 1 \/ i \in 1..m OBVIOUS
      <3> QED BY <1>1, <2>10, <2>13, <3>1
    <2>15. ASSUME NEW i \in 1..(m + 1), NEW j \in 1..(m + 1), i <= j PROVE acc1[i] <= acc1[j]
      <3>1. CASE j = m + 1 BY <2>10, <2>14, <3>1
      <3>2. CASE j # m + 1
        <4>1. i \in 1..m /\ j \in 1..m BY <2>15, <3>2
        <4>2. acc[i] <= acc[j] BY <2>4, <2>7, <2>15, <4>1 DEF AccountHolds
        <4> QED BY <2>10, <4>1, <4>2
      <3> QED BY <3>1, <3>2
    <2>16. ASSUME NEW i \in 1..(m + 1), i > MaxHits
           PROVE  acc1[i] - acc1[i - MaxHits] >= Window
      <3>1. CASE i = m + 1
        <4>1. i - MaxHits \in 1..(m - n) /\ i - MaxHits \in 1..m BY <1>1, <2>8, <2>16, <3>1
        <4>2. acc[i - MaxHits] <= seconds - Window BY <2>3, <2>6, <2>7, <4>1
        <4>3. acc1[i - MaxHits] = acc[i - MaxHits] /\ acc[i - MaxHits] \in Int BY <2>10, <4>1
        <4>4. acc1[i] = seconds BY <2>10, <3>1
        <4> QED BY <1>1, <4>2, <4>3, <4>4
      <3>2. CASE i # m + 1
        <4>1. i \in 1..m /\ i - MaxHits \in 1..m BY <1>1, <2>16, <3>2
        <4>2. acc[i] - acc[i - MaxHits] >= Window BY <2>4, <2>7, <2>16, <4>1 DEF AccountHolds
        <4> QED BY <2>10, <4>1, <4>2
      <3> QED BY <3>1, <3>2
    <2>17. ASSUME NEW i \in 1..((m + 1) - (n + 1)) PROVE acc1[i] <= seconds - Window
      <3>1. i \in 1..(m - n) /\ i \in 1..m BY <2>8
      <3> QED BY <2>3, <2>6, <2>7, <2>10, <3>1
    <2>18. n + 1 <= MaxHits BY <1>1, <2>8
    <2>19. AccountHolds(h1, acc1, None, seconds)
      BY <2>9, <2>10, <2>12, <2>14, <2>15, <2>16, <2>17, <2>18 DEF AccountHolds
    <2> QED BY <1>2, <2>1, <2>19
  <1>5. CASE SecondPasses
    <2>1. seconds' = seconds + 1 /\ UNCHANGED <<hits, accepted, resetAt>> BY <1>5 DEF SecondPasses
    <2>2. ASSUME NEW h, NEW acc, NEW reset, AccountHolds(h, acc, reset, seconds)
          PROVE  AccountHolds(h, acc, reset, seconds + 1)
      <3>1. acc \in Seq(Int) /\ h \in Seq(Int) BY <2>2 DEF AccountHolds
      <3>2. \A i \in 1..Len(acc) : acc[i] \in Int BY <3>1
      <3> DEFINE now == seconds + 1
      <3>3. now \in Int /\ seconds <= now /\ seconds - Window <= now - Window BY <1>1
      <3> HIDE DEF now
      <3>4. \A i \in 1..(Len(acc) - Len(h)) : acc[i] <= now - Window
        <4> SUFFICES ASSUME NEW i \in 1..(Len(acc) - Len(h)) PROVE acc[i] <= now - Window
          OBVIOUS
        <4>1. acc[i] <= seconds - Window BY <2>2 DEF AccountHolds
        <4>2. i \in 1..Len(acc) BY <3>1
        <4> QED BY <1>1, <3>2, <3>3, <4>1, <4>2
      <3>5. \A i \in 1..Len(acc) : acc[i] <= now
        <4> SUFFICES ASSUME NEW i \in 1..Len(acc) PROVE acc[i] <= now
          OBVIOUS
        <4>1. acc[i] <= seconds BY <2>2 DEF AccountHolds
        <4> QED BY <1>1, <3>2, <3>3, <4>1
      <3>6. /\ IsEnd(h, acc) /\ Len(h) <= MaxHits
            /\ \A i, j \in 1..Len(acc) : i <= j => acc[i] <= acc[j]
            /\ \A i \in 1..Len(acc) : i > MaxHits => acc[i] - acc[i - MaxHits] >= Window
            /\ reset # None => Len(h) = MaxHits /\ reset = h[1] + Window
        BY <2>2 DEF AccountHolds
      <3>7. AccountHolds(h, acc, reset, now) BY <3>1, <3>4, <3>5, <3>6 DEF AccountHolds
      <3> QED BY <3>7 DEF now
    <2>3. seconds + 1 \in Int BY <1>1
    <2> QED BY <2>1, <2>2, <2>3 DEF LimiterInv
  <1>6. CASE NewEnvironment
    <2>1. /\ seconds' = seconds /\ hits' \in [Accounts -> Seq(Int)]
          /\ accepted' \in [Accounts -> Seq(Int)] /\ DOMAIN resetAt' = Accounts
          /\ \A a \in Accounts : hits'[a] = << >> /\ accepted'[a] = << >> /\ resetAt'[a] = None
      BY <1>6 DEF NewEnvironment
    <2> QED BY <1>1, <2>1, NoneHolds DEF LimiterInv
  <1>7. CASE UNCHANGED limiterVars BY <1>7 DEF limiterVars, LimiterInv
  <1> QED BY <1>3, <1>4, <1>5, <1>6, <1>7 DEF LimiterNext

\* Whatever window of time one looks at, one environment lets an account
\* through at most MaxHits times in it, and a call is refused exactly until the
\* reset_at of the account's last refusal (baserver.go:1297-1311): a refusal
\* finds the cap's number of hits kept, and the oldest of them names the reset.
THEOREM AccountsAreMetered == LimiterSpec => []MeteredExactly
  <1>1. LimiterInit => LimiterInv
    <2> SUFFICES ASSUME LimiterInit PROVE LimiterInv
      OBVIOUS
    <2>1. seconds = 0 /\ \A a \in Accounts : hits[a] = << >> /\ accepted[a] = << >> /\ resetAt[a] = None
      BY DEF LimiterInit
    <2>2. /\ hits \in [Accounts -> Seq(Int)] /\ accepted \in [Accounts -> Seq(Int)]
          /\ DOMAIN resetAt = Accounts
      BY DEF LimiterInit
    <2> QED BY <2>1, <2>2, NoneHolds DEF LimiterInv
  <1>2. LimiterInv /\ [LimiterNext]_limiterVars => LimiterInv' BY LimiterKeeps
  <1>3. LimiterInv => MeteredExactly
    <2> SUFFICES ASSUME LimiterInv, NEW a \in Accounts
                 PROVE  /\ \A i \in DOMAIN accepted[a] :
                             i > MaxHits => accepted[a][i] - accepted[a][i - MaxHits] >= Window
                        /\ resetAt[a] # None => (Refuses(a) <=> seconds < resetAt[a])
      BY DEF MeteredExactly
    <2>1. AccountHolds(hits[a], accepted[a], resetAt[a], seconds) BY DEF LimiterInv
    <2>2. accepted[a] \in Seq(Int) BY <2>1 DEF AccountHolds
    <2>3. DOMAIN accepted[a] = 1..Len(accepted[a]) BY <2>2
    <2> QED BY <2>1, <2>3, KeptHolds DEF AccountHolds
  <1> QED BY <1>1, <1>2, <1>3, PTL DEF LimiterSpec
=============================================================================
