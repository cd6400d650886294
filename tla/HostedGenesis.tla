---------------------------- MODULE HostedGenesis ----------------------------
(***************************************************************************)
(* The hosted genesis of one agent, from agent_genesis_begin to a          *)
(* materialized agent: operators drive one Host lane after another through *)
(* Body's agent_genesis_* tools, agent_genesis_finalize turns the affirmed *)
(* declaration into the registry row, the published soul and the draft     *)
(* instructions, soul_self_recover does the same from the Host's recovery  *)
(* evidence, and the owner edits the content meanwhile.                    *)
(*                                                                         *)
(* Every tool but the two that materialize is one request to the Host and  *)
(* one answer.  Those two are calls of several steps; AgentSoulStore,      *)
(* AgentInstructionsStore and AgentRegistry refine the writes that are     *)
(* atomic here.                                                            *)
(***************************************************************************)
EXTENDS GenesisLane

CONSTANTS Owners,      \* clients of instance operators with write scope
          MaxLanes,    \* bound: registrations begun
          MaxFaults,   \* bound: failed turns, lost answers, torn reads, crashes
          MaxEdits     \* bound: writes by the content tools

ASSUME GenesisBoundsAssumption ==
  MaxLanes \in Nat /\ MaxFaults \in Nat /\ MaxEdits \in Nat

VARIABLES session,       \* the Host's newest lane
          lanes,         \* registrations begun
          rendered,      \* reviews the Host has rendered
          lane,          \* per owner: the registration id that its client holds
          advice,        \* per owner: the guidance of its last answer
          shown,         \* per owner: the review texts it was shown
          call,          \* per owner: the agent_genesis_finalize under way
          recovery,      \* the soul_self_recover under way
          affirmed,      \* the revision an owner affirmed
          row,           \* source of the registry row
          soul,          \* the agent's soul
          instructions,  \* author of the agent's instructions
          faults, edits  \* spent of their bounds

hostVars    == <<session, lanes, rendered, affirmed>>
clientVars  == <<lane, advice, shown>>
callVars    == <<call, recovery>>
contentVars == <<row, soul, instructions>>
boundVars   == <<faults, edits>>
vars == <<hostVars, clientVars, callVars, contentVars, boundVars>>

\* Documents are named by their origin.
GenesisDoc(r) == r
RecoveredDoc  == MaxRevision + 1
OwnerDoc      == MaxRevision + 2

NoSoul == [doc |-> 0, state |-> "none"]

Stages == {"idle", "publish", "register", "seedSoul", "seedInstructions"}

Idle == [at |-> "idle", doc |-> 0]

\* Recovery classifications of the Host's evidence.
Classes == {"legacy", "published"}

Rest == [at |-> "idle", class |-> "published"]

Init ==
  /\ session = NoSession /\ lanes = 0 /\ rendered = 0 /\ affirmed = 0
  /\ lane = [o \in Owners |-> 0]
  /\ advice = [o \in Owners |-> Do("begin")]
  /\ shown = [o \in Owners |-> {}]
  /\ call = [o \in Owners |-> Idle]
  /\ recovery = Rest
  /\ row = "none" /\ soul = NoSoul /\ instructions = "none"
  /\ faults = 0 /\ edits = 0

Fault == faults < MaxFaults /\ faults' = faults + 1 /\ UNCHANGED edits

Answer(o, a) == advice' = [advice EXCEPT ![o] = a]

Show(o, texts) == shown' = [shown EXCEPT ![o] = @ \cup texts]

\* A refusal, and an answer that never came, say nothing about what to do next.
Silent(o) == Answer(o, Silence) /\ UNCHANGED <<lane, shown>>

Known(o) == lane[o] = lanes /\ lanes # 0

-----------------------------------------------------------------------------
(* The tools that are one request *)

\* agent_genesis_begin.  The Host answers a pending registration again, and
\* starts a lane when there is none alive.
Begin(o) ==
  /\ call[o] = Idle
  /\ \/ /\ session.status = "registered"
        /\ Answer(o, Guidance("begin", Faithful(session)))
        /\ lane' = [lane EXCEPT ![o] = lanes]
        /\ UNCHANGED <<session, lanes, shown, boundVars>>
     \/ /\ session.status \in {"absent", "failed"}
        /\ lanes < MaxLanes
        /\ lanes' = lanes + 1
        /\ session' = Registered
        /\ \/ /\ Answer(o, Guidance("begin", Faithful(Registered)))
              /\ lane' = [lane EXCEPT ![o] = lanes']
              /\ UNCHANGED <<shown, boundVars>>
           \/ Fault /\ Silent(o)
     \/ /\ session.status \notin {"absent", "registered", "failed"}
        /\ Silent(o)
        /\ UNCHANGED <<session, lanes, boundVars>>
  /\ UNCHANGED <<rendered, affirmed, callVars, contentVars>>

\* The summary of a lane without ids to go on is left out.
Listed(o) == IF session.status \in ConversationStatuses THEN lanes ELSE lane[o]

\* agent_genesis_list: the ids and the status of the newest lane.
List(o) ==
  /\ call[o] = Idle
  /\ Answer(o, ListAdvice(session))
  /\ lane' = [lane EXCEPT ![o] = Listed(o)]
  /\ UNCHANGED <<hostVars, shown, callVars, contentVars, boundVars>>

\* What the caller of a tool is answered for a projection of the Host's.
AnswerFor(o, tool, p) ==
  IF Accepted(p)
  THEN /\ Answer(o, Guidance(tool, p))
       /\ Show(o, IF Reviewed(p.phase) THEN {p.review.text} ELSE {})
       /\ UNCHANGED lane
  ELSE Silent(o)

\* agent_genesis_read, _advance, _recover and _finalize_preflight.  The lost
\* answer of a request that changes nothing is a request that was not made.
Ask(o, tool, a) ==
  /\ call[o] = Idle
  /\ \/ /\ Known(o) /\ WellFormed(a) /\ HostGrants(session, tool, a)
        /\ a.kind = "edit" => rendered + MaxLanes - lanes < MaxRevision
        /\ session' = HostApplies(session, tool, a)
        /\ affirmed' = IF a.kind = "affirm" THEN session.revision ELSE affirmed
        /\ \/ AnswerFor(o, tool, Faithful(session')) /\ UNCHANGED boundVars
           \/ Fault /\ session' # session /\ Silent(o)
           \/ Fault /\ \E p \in Torn(session') : AnswerFor(o, tool, p)
     \/ /\ ~(Known(o) /\ WellFormed(a) /\ HostGrants(session, tool, a))
        /\ Silent(o)
        /\ UNCHANGED <<session, affirmed, boundVars>>
  /\ UNCHANGED <<lanes, rendered, callVars, contentVars>>

Message == [kind |-> "message", section |-> 0, binding |-> NoBinding]

\* An owner sends a message, or one of the candidate actions it was advised.
ActionsOf(o) ==
  IF advice[o].binding = NoBinding THEN {Message}
  ELSE {[kind |-> "affirm", section |-> 0, binding |-> advice[o].binding]}
       \cup {[kind |-> "edit", section |-> s, binding |-> advice[o].binding] :
               s \in 0..NumSections}

Advance(o) == \E a \in ActionsOf(o) : Ask(o, "advance", a)
ReadLane(o)  == Ask(o, "read", Message)
Recover(o)   == Ask(o, "recover", Message)
Preflight(o) == Ask(o, "preflight", Message)

-----------------------------------------------------------------------------
(* agent_genesis_finalize *)

At(o, stage) == call[o].at = stage
Goto(o, stage) == call' = [call EXCEPT ![o].at = stage]

Give(o, a) == /\ call' = [call EXCEPT ![o] = Idle]
              /\ Answer(o, a)
              /\ UNCHANGED <<lane, shown>>

\* The reviewed text need not be the candidate's.
DeclarationNamed(p) ==
  /\ Finalizable(p)
  /\ p.phase = "finalized"
  /\ ReviewHolds(p)

\* parseFinalizedHostedGenesisDeclaration: the canonical declaration inside the
\* review text hashes to the candidate's hash, and it is what Body renders.
DeclarationHolds(p) == DeclarationNamed(p) /\ p.review.text = p.hash

\* The Host is read, and the declaration verified, before it publishes.
FinalizeRead(o) ==
  /\ call[o] = Idle
  /\ \E p \in {Faithful(session)} \cup Torn(session) :
       /\ IF p = Faithful(session) THEN UNCHANGED boundVars ELSE Fault
       /\ \/ /\ Known(o) /\ DeclarationHolds(p)
             /\ call' = [call EXCEPT ![o] = [at |-> "publish",
                                             doc |-> GenesisDoc(p.review.text)]]
             /\ UNCHANGED clientVars
          \/ /\ ~(Known(o) /\ DeclarationHolds(p))
             /\ Silent(o)
             /\ UNCHANGED call
  /\ UNCHANGED <<hostVars, recovery, contentVars>>

FinalizePublish(o) ==
  /\ At(o, "publish")
  /\ \/ /\ Known(o) /\ HostGrants(session, "finalize", Message)
        /\ session' = HostApplies(session, "finalize", Message)
        /\ Goto(o, "register")
        /\ UNCHANGED clientVars
     \/ /\ ~(Known(o) /\ HostGrants(session, "finalize", Message))
        /\ Give(o, Silence)
        /\ UNCHANGED session
  /\ UNCHANGED <<lanes, rendered, affirmed, recovery, contentVars, boundVars>>

\* registerFinalizedGenesisAgent.
FinalizeRegister(o) ==
  /\ At(o, "register")
  /\ row' = "genesis"
  /\ Goto(o, "seedSoul")
  /\ UNCHANGED <<hostVars, clientVars, recovery, soul, instructions, boundVars>>

\* SeedPublished and SeedDraft as SoulLifecycle allows them.
Seedable(doc) == \/ soul = NoSoul
                 \/ soul.doc = doc /\ soul.state \in {"draft", "published"}

FinalizeSeedSoul(o) ==
  /\ At(o, "seedSoul")
  /\ \/ /\ Seedable(call[o].doc)
        /\ soul' = [doc |-> call[o].doc, state |-> "published"]
        /\ Goto(o, "seedInstructions")
        /\ UNCHANGED clientVars
     \/ /\ ~Seedable(call[o].doc)
        /\ Give(o, Do("finalize"))
        /\ UNCHANGED soul
  /\ UNCHANGED <<hostVars, recovery, row, instructions, boundVars>>

\* SeedInstructions creates, or answers with what is there.
SeedInstructions == instructions' = IF instructions = "none" THEN "seed" ELSE instructions

FinalizeEarly(o) ==
  /\ At(o, "seedSoul")
  /\ Give(o, Guidance("finalize", Faithful(session)))
  /\ UNCHANGED <<hostVars, recovery, contentVars, boundVars>>

FinalizeSeedInstructions(o) ==
  /\ At(o, "seedInstructions")
  /\ SeedInstructions
  /\ Give(o, Guidance("finalize", Faithful(session)))
  /\ UNCHANGED <<hostVars, recovery, row, soul, boundVars>>

\* A write fails: after the publication the answer says to finalize again.
FinalizeFails(o) ==
  /\ call[o].at \in {"register", "seedSoul", "seedInstructions"}
  /\ Fault
  /\ Give(o, Do("finalize"))
  /\ UNCHANGED <<hostVars, recovery, contentVars>>

\* The process dies, or the request runs out of time.  The publication may
\* have been applied.
FinalizeCrashes(o) ==
  /\ call[o] # Idle
  /\ Fault
  /\ Give(o, Silence)
  /\ \/ UNCHANGED session
     \/ /\ At(o, "publish") /\ Known(o) /\ HostGrants(session, "finalize", Message)
        /\ session' = HostApplies(session, "finalize", Message)
  /\ UNCHANGED <<lanes, rendered, affirmed, recovery, contentVars>>

Finalize(o) == \/ FinalizePublish(o) \/ FinalizeRegister(o)
               \/ FinalizeSeedSoul(o) \/ FinalizeSeedInstructions(o)

-----------------------------------------------------------------------------
(* soul_self_recover: content first, the registry row last *)

\* What the Host retains of the agent: the declaration hashes to its digest or
\* not, the chain of published versions, the one its registration shows.
Evidence == [class : Classes, intact : BOOLEAN, versions : 0..2, current : 0..2]

\* decodeRecoveryAgent.
EvidenceHolds(e) ==
  /\ e.intact
  /\ \/ e.class = "legacy" /\ e.versions = 0 /\ e.current = 0
     \/ e.class = "published" /\ e.versions # 0 /\ e.current = e.versions

\* Only an agent that the Host has published can be bound, and recovered.
RecoverBegin ==
  /\ recovery = Rest
  /\ session.status = "published"
  /\ \E e \in Evidence :
       /\ EvidenceHolds(e)
       /\ recovery' = [at |-> "seedSoul", class |-> e.class]
  /\ UNCHANGED <<hostVars, clientVars, call, contentVars, boundVars>>

\* A verified publication seeds a published soul, legacy evidence a draft: it
\* never fabricates a publication, and leaves one that is there.
Recovered ==
  IF recovery.class = "published" THEN [doc |-> RecoveredDoc, state |-> "published"]
  ELSE IF soul = NoSoul THEN [doc |-> RecoveredDoc, state |-> "draft"]
  ELSE soul

RecoverRegisterFirst ==
  /\ recovery.at = "seedSoul"
  /\ row' = "recovery"
  /\ recovery' = [recovery EXCEPT !.at = "seedInstructions"]
  /\ UNCHANGED <<hostVars, clientVars, call, soul, instructions, boundVars>>

\* SeedDraft answers with the identical declaration in any state.
RecoverSeedSoul ==
  /\ recovery.at = "seedSoul"
  /\ LET fits == \/ Seedable(RecoveredDoc)
                 \/ recovery.class = "legacy" /\ soul.doc = RecoveredDoc
     IN  \/ /\ fits
            /\ soul' = Recovered
            /\ recovery' = [recovery EXCEPT !.at = "seedInstructions"]
         \/ ~fits /\ recovery' = Rest /\ UNCHANGED soul
  /\ UNCHANGED <<hostVars, clientVars, call, row, instructions, boundVars>>

RecoverSeedInstructions ==
  /\ recovery.at = "seedInstructions"
  /\ SeedInstructions
  /\ recovery' = [recovery EXCEPT !.at = "register"]
  /\ UNCHANGED <<hostVars, clientVars, call, row, soul, boundVars>>

RecoverRegister ==
  /\ recovery.at = "register"
  /\ row' = "recovery"
  /\ recovery' = Rest
  /\ UNCHANGED <<hostVars, clientVars, call, soul, instructions, boundVars>>

RecoverCrashes ==
  /\ recovery # Rest
  /\ Fault
  /\ recovery' = Rest
  /\ UNCHANGED <<hostVars, clientVars, call, contentVars>>

-----------------------------------------------------------------------------
(* The Host's own steps, and the content tools *)

HostTurn ==
  /\ session.status \in {"created", "in_progress"}
  /\ session' = Turn(session, rendered + 1)
  /\ rendered' = IF Reviewed(session'.phase) /\ ~Reviewed(session.phase)
                 THEN rendered + 1 ELSE rendered
  /\ rendered' <= MaxRevision
  /\ UNCHANGED <<lanes, affirmed, clientVars, callVars, contentVars, boundVars>>

HostFails ==
  /\ session.status \in {"created", "in_progress"}
  /\ lanes < MaxLanes
  /\ Fault
  /\ session' \in Failures(session)
  /\ UNCHANGED <<lanes, rendered, affirmed, clientVars, callVars, contentVars>>

\* What a caller is asked to refresh the Host comes to a decision about.
HostDecides ==
  /\ session.status = "failed" /\ session.recovery = "refresh_state"
  /\ session' \in {[session EXCEPT !.status = "in_progress", !.recovery = "none"],
                   [session EXCEPT !.recovery = "retry_same_step"],
                   [session EXCEPT !.recovery = "operator_action"]}
  /\ UNCHANGED <<lanes, rendered, affirmed, clientVars, callVars, contentVars, boundVars>>

\* agent_soul_upsert, _publish and _archive, agent_instructions_upsert.
OwnerEdits ==
  /\ edits < MaxEdits
  /\ edits' = edits + 1
  /\ \/ /\ \/ soul' = [doc |-> OwnerDoc, state |-> "draft"]
           \/ soul.state = "draft" /\ soul' = [soul EXCEPT !.state = "published"]
           \/ soul.state = "published" /\ soul' = [soul EXCEPT !.state = "archived"]
        /\ UNCHANGED instructions
     \/ instructions' = "owner" /\ UNCHANGED soul
  /\ UNCHANGED <<hostVars, clientVars, callVars, row, faults>>

-----------------------------------------------------------------------------
Use(o, tool) ==
  \/ tool = "begin"     /\ Begin(o)
  \/ tool = "list"      /\ List(o)
  \/ tool = "read"      /\ ReadLane(o)
  \/ tool = "advance"   /\ Advance(o)
  \/ tool = "recover"   /\ Recover(o)
  \/ tool = "preflight" /\ Preflight(o)
  \/ tool = "finalize"  /\ FinalizeRead(o)

\* What happens to a call, and around the clients.
Progress ==
  \/ \E o \in Owners : Finalize(o) \/ FinalizeFails(o) \/ FinalizeCrashes(o)
  \/ RecoverBegin \/ RecoverSeedSoul \/ RecoverSeedInstructions \/ RecoverRegister
  \/ RecoverCrashes
  \/ HostTurn \/ HostFails \/ HostDecides
  \/ OwnerEdits

Next == Progress \/ \E o \in Owners, tool \in Tools : Use(o, tool)

Spec == Init /\ [][Next]_vars

-----------------------------------------------------------------------------
(***************************************************************************)
(* Properties                                                              *)
(***************************************************************************)

\* The types of the Host's lane, of the clients, of the calls and of the
\* materialized agent (genesis.go:947-1040, soul_seed.go:30-45).
TypeOK ==
  /\ session \in Session
  /\ lanes \in 0..MaxLanes /\ rendered \in 0..MaxRevision
  /\ affirmed \in 0..MaxRevision
  /\ lane \in [Owners -> 0..MaxLanes]
  /\ advice \in [Owners -> Advice]
  /\ shown \in [Owners -> SUBSET Revisions]
  /\ call \in [Owners -> [at : Stages, doc : 0..MaxRevision]]
  /\ recovery \in [at : Stages, class : Classes]
  /\ row \in {"none", "genesis", "recovery"}
  /\ soul \in [doc : 0..MaxRevision + 2,
               state : {"none", "draft", "published", "archived"}]
  /\ instructions \in {"none", "seed", "owner"}
  /\ faults \in 0..MaxFaults /\ edits \in 0..MaxEdits

\* An owner can affirm a declaration only when some owner was shown the text of
\* that very declaration, whatever the Host's reads served: the advertised
\* action is bound to the text by review_hash (genesis.go:1898-1923).
AffirmedWasShown ==
  [][affirmed' # affirmed => \E o \in Owners : affirmed' \in shown[o]]_vars

\* A soul that came out of agent_genesis_finalize is the declaration that was
\* affirmed, also when the read that it was rendered from was torn.
SeededAsAffirmed == soul.doc \in Revisions => soul.doc = affirmed

\* When agent_genesis_finalize answers that the lane is published and terminal,
\* the registry row, a soul and instructions exist, whatever else ran meanwhile.
SuccessIsComplete ==
  [][\A o \in Owners :
       call[o] # Idle /\ call'[o] = Idle /\ advice'[o].next = "agent_get"
         => row' # "none" /\ soul' # NoSoul /\ instructions' # "none"]_vars

\* A registry row that says host_recovery has recovered or authored content
\* behind it: soul_self_recover writes its evidence row last.
RecoveryRowIsBacked == row = "recovery" => soul # NoSoul /\ instructions # "none"

\* The action that guidance advises on a lane is one the Host grants in the
\* state that the guidance was derived from, unless the read was torn.  Advice
\* that asks for no grant, to begin, list, read or call an operator, is exempt.
AdviceIsGranted ==
  [][\A o \in Owners :
       advice'[o] # advice[o] /\ faults' = faults /\ lane'[o] = lanes' =>
         \/ advice'[o].next \in {"none", "begin", "list", "agent_get", "contact_operator"}
         \/ \E kind \in {"message", "affirm"} :
              HostGrants(session', advice'[o].next,
                         [kind |-> kind, section |-> 0,
                          binding |-> advice'[o].binding])]_vars

\* The content Genesis and recovery leave is backed by what the owner decided:
\* a seed by its affirmation, a recovery's registry row by recovered content.
ContentIsBacked == SeededAsAffirmed /\ RecoveryRowIsBacked

=============================================================================
