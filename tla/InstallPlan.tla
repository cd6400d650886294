----------------------------- MODULE InstallPlan -----------------------------
(***************************************************************************)
(* From agent_local_install_plan to the download of its pack.              *)
(* internal/baserver answers a plan: the x402 gate, the registry, the      *)
(* content, the actor, the mint limit, and then a download grant bound to  *)
(* a digest of the content.  internal/instanceapp redeems the grant and    *)
(* only then reads the content again and renders what it finds.            *)
(*                                                                         *)
(* The grants are DownloadGrant's, one per plan call, and the soul is      *)
(* SoulLifecycle's: AgentSoulStore implements its steps.  A record version *)
(* names the row it was written with (both modules prove it), so a digest  *)
(* of rows is their versions, with the state of the instructions, which    *)
(* an archive changes without a new version.                               *)
(***************************************************************************)
EXTENDS Integers

CONSTANTS Plans, Redeemers, TTL, MaxTime, StaleReads, NoGrant,
          Documents, Subjects, NoRow,
          Payments,          \* x402 grants the Host has sold, one use each
          Operator,          \* the caller is exempt from payment
          Nothing,           \* nothing read yet
          MaxVersion,        \* owners stop writing the soul here
          MaxInstructions    \* and the instructions here

ASSUME MaxVersionAssumption == MaxVersion \in Nat /\ MaxInstructions \in Nat
ASSUME OperatorAssumption == Operator \notin Payments

VARIABLES clock, issue, grant, usedBy, pc, input, sentAt, late, outcome,
          soul, soulHistory,
          instructions,      \* the agent_instructions row, or NoRow
          instructionsPast,  \* the values it has had
          spent,             \* the payments the Host has consumed
          payer,             \* per plan: Operator or the payment presented
          at,                \* per plan: the next request
          read,              \* per plan: what BuildPackInput has read
          answer,            \* per plan: what the caller was told
          render,            \* per redeemer: the next request after the consume
          pack               \* per redeemer: what is being rendered

grantVars   == <<clock, issue, grant, usedBy, pc, input, sentAt, late, outcome>>
contentVars == <<soul, soulHistory, instructions, instructionsPast>>
planVars    == <<spent, payer, at, read, answer>>
renderVars  == <<render, pack>>
vars        == <<grantVars, contentVars, planVars, renderVars>>

-----------------------------------------------------------------------------
Instructions == [version : 1..MaxInstructions, state : {"draft", "archived"}]

\* packInputDigest, and equally the content of a pack.
Digests == [soul : 1..MaxVersion, instructions : Instructions]

Soul == INSTANCE SoulLifecycle
          WITH current <- soul, history <- soulHistory, LegacyVersions <- {}

Grant == INSTANCE DownloadGrant WITH Grants <- Plans, Bindings <- Digests

\* What DownloadGrant asks of the constants.
ASSUME GrantAssumption ==
  /\ TTL \in Nat \ {0} /\ MaxTime \in Nat /\ StaleReads \in BOOLEAN
  /\ NoGrant \notin Grant!Row \cup Grant!Issuing

Init ==
  /\ Grant!Init
  /\ Soul!Init
  /\ instructions = NoRow
  /\ instructionsPast = {NoRow}
  /\ spent = {}
  /\ payer = [p \in Plans |-> Operator]
  /\ at = [p \in Plans |-> "idle"]
  /\ read = [p \in Plans |-> Nothing]
  /\ answer = [p \in Plans |-> "none"]
  /\ render = [r \in Redeemers |-> "idle"]
  /\ pack = [r \in Redeemers |-> Nothing]

-----------------------------------------------------------------------------
(* The owner's other tools. *)

OwnerMovesSoul ==
  /\ Soul!Next
  /\ soul'.version <= MaxVersion
  /\ UNCHANGED <<grantVars, instructions, instructionsPast, planVars, renderVars>>

SetInstructions(row) ==
  /\ instructions' = row
  /\ instructionsPast' = instructionsPast \cup {row}
  /\ UNCHANGED <<grantVars, soul, soulHistory, planVars, renderVars>>

OwnerWritesInstructions ==
  LET next == IF instructions = NoRow THEN 1 ELSE instructions.version + 1 IN
  /\ next <= MaxInstructions
  /\ SetInstructions([version |-> next, state |-> "draft"])

OwnerArchivesInstructions ==
  /\ instructions # NoRow
  /\ SetInstructions([version |-> instructions.version, state |-> "archived"])

Owner == OwnerMovesSoul \/ OwnerWritesInstructions \/ OwnerArchivesInstructions

-----------------------------------------------------------------------------
(* BuildPackInput's two reads, of the plan and of the redemption. *)

ReadableSouls ==
  {soul} \cup IF StaleReads THEN {NoRow} \cup soulHistory ELSE {}

ReadableInstructions ==
  IF StaleReads THEN instructionsPast ELSE {instructions}

Exists(row) == row # NoRow

Published(row) == row # NoRow /\ row.state = "published"

-----------------------------------------------------------------------------
(* The plan. *)

Goto(p, step) == at' = [at EXCEPT ![p] = step]

Refuse(p, code) ==
  /\ Goto(p, "done")
  /\ answer' = [answer EXCEPT ![p] = code]
  /\ UNCHANGED read

Call(p, m) ==
  /\ at[p] = "idle"
  /\ Goto(p, "gate")
  /\ payer' = [payer EXCEPT ![p] = m]
  /\ UNCHANGED <<grantVars, contentVars, renderVars, spent, read, answer>>

NeverReplayed(m) == FALSE
Replayed(m) == m \in spent

\* RequireGrant.  The Host spends the payment on the first consume and answers
\* the ones after it as replays of the first; its answer may be lost.
Gate(p) ==
  /\ at[p] = "gate"
  /\ \/ /\ payer[p] = Operator
        /\ Goto(p, "registry")
        /\ UNCHANGED <<spent, read, answer>>
     \/ /\ payer[p] # Operator
        /\ ~Replayed(payer[p])
        /\ spent' = spent \cup {payer[p]}
        /\ \/ Goto(p, "registry") /\ UNCHANGED <<read, answer>>
           \/ Refuse(p, "x402_consume_unavailable")
     \/ /\ payer[p] # Operator
        /\ Refuse(p, IF Replayed(payer[p]) THEN "x402_grant_replay" ELSE "x402_denied")
        /\ UNCHANGED spent
  /\ UNCHANGED <<grantVars, contentVars, renderVars, payer>>

\* A step that either finds what it needs or is the last one.
PassOrRefuse(p, from, to, code) ==
  /\ at[p] = from
  /\ \/ Goto(p, to) /\ UNCHANGED <<read, answer>>
     \/ Refuse(p, code)
  /\ UNCHANGED <<grantVars, contentVars, renderVars, spent, payer>>

Registry(p) == PassOrRefuse(p, "registry", "soul", "not_found")

ReadSoul(p) ==
  /\ at[p] = "soul"
  /\ \E row \in ReadableSouls :
       \/ /\ Published(row)
          /\ Goto(p, "instructions")
          /\ read' = [read EXCEPT ![p] = [soul |-> row.version]]
          /\ UNCHANGED answer
       \/ /\ ~Published(row)
          /\ Refuse(p, IF Exists(row) THEN "agent_soul_publish_required" ELSE "not_found")
  /\ UNCHANGED <<grantVars, contentVars, renderVars, spent, payer>>

ReadInstructions(p) ==
  /\ at[p] = "instructions"
  /\ \E row \in ReadableInstructions :
       \/ /\ Exists(row)
          /\ Goto(p, "actor")
          /\ read' = [read EXCEPT ![p] = [soul |-> @.soul, instructions |-> row]]
          /\ UNCHANGED answer
       \/ /\ ~Exists(row)
          /\ Refuse(p, "not_found")
  /\ UNCHANGED <<grantVars, contentVars, renderVars, spent, payer>>

IssueThenLimit(p) ==
  /\ at[p] = "limit"
  /\ \/ Goto(p, "issue") /\ UNCHANGED <<read, answer>>
     \/ Refuse(p, "rate_limited")
  /\ IF issue[p] = NoGrant THEN Grant!IssueFor(p, read[p]) ELSE UNCHANGED grantVars
  /\ UNCHANGED <<contentVars, renderVars, spent, payer>>

\* validateAuthoritativeActor and rateLimit: their answers are other modules'.
CheckActor(p) == PassOrRefuse(p, "actor", "limit", "actor_endpoint")

Limit(p) == PassOrRefuse(p, "limit", "issue", "rate_limited")

Issue(p) ==
  /\ at[p] = "issue"
  /\ Grant!IssueFor(p, read[p])
  /\ Goto(p, "create")
  /\ UNCHANGED <<contentVars, renderVars, spent, payer, read, answer>>

\* The row is created; the caller has the link unless the answer is lost.
Create(p) ==
  /\ at[p] = "create"
  /\ Grant!CreateGrant(p)
  /\ Goto(p, "done")
  /\ \E a \in {"minted", "download_grant_issue_failed"} :
       answer' = [answer EXCEPT ![p] = a]
  /\ UNCHANGED <<contentVars, renderVars, spent, payer, read>>

\* A request of the plan fails, or the Lambda dies.
InterruptPlan(p) ==
  /\ at[p] \notin {"idle", "done"}
  /\ Refuse(p, "internal")
  /\ UNCHANGED <<grantVars, contentVars, renderVars, spent, payer>>

Plan(p) ==
  \/ \E m \in Payments \cup {Operator} : Call(p, m)
  \/ Gate(p) \/ Registry(p) \/ ReadSoul(p) \/ ReadInstructions(p)
  \/ CheckActor(p) \/ Limit(p) \/ Issue(p) \/ Create(p) \/ InterruptPlan(p)

-----------------------------------------------------------------------------
(* The redemption of a link. *)

Link(p) == [id |-> p, token |-> p, binding |-> read[p]]

Follow(r, p) ==
  /\ answer[p] = "minted"
  /\ Grant!Present(r, Link(p))
  /\ UNCHANGED <<contentVars, planVars, renderVars>>

RedeemAgain(r) ==
  /\ Grant!Handle(r)
  /\ render' = [render EXCEPT ![r] =
                  IF outcome'[r] \in {"consumed", "replay"} THEN "soul" ELSE @]
  /\ UNCHANGED <<contentVars, planVars, pack>>

\* Whoever consumed the grant goes on to render.
Redeem(r) ==
  /\ Grant!Handle(r)
  /\ render' = [render EXCEPT ![r] = IF outcome'[r] = "consumed" THEN "soul" ELSE @]
  /\ UNCHANGED <<contentVars, planVars, pack>>

RenderSoul(r) ==
  /\ render[r] = "soul"
  /\ \E row \in ReadableSouls :
       \/ /\ Published(row)
          /\ render' = [render EXCEPT ![r] = "instructions"]
          /\ pack' = [pack EXCEPT ![r] = [soul |-> row.version]]
       \/ /\ ~Published(row)
          /\ render' = [render EXCEPT ![r] = "failed"]
          /\ UNCHANGED pack
  /\ UNCHANGED <<grantVars, contentVars, planVars>>

RenderInstructions(r) ==
  /\ render[r] = "instructions"
  /\ \E row \in ReadableInstructions :
       \/ /\ Exists(row)
          /\ render' = [render EXCEPT ![r] = "delivered"]
          /\ pack' = [pack EXCEPT ![r] = [soul |-> @.soul, instructions |-> row]]
       \/ /\ ~Exists(row)
          /\ render' = [render EXCEPT ![r] = "failed"]
          /\ UNCHANGED pack
  /\ UNCHANGED <<grantVars, contentVars, planVars>>

\* A failed rendering hands the grant back.
InterruptAndRefund(r) ==
  /\ render[r] \in {"soul", "instructions"}
  /\ render' = [render EXCEPT ![r] = "failed"]
  /\ grant' = [grant EXCEPT ![input[r].id].status = "active"]
  /\ UNCHANGED <<clock, issue, usedBy, pc, input, sentAt, late, outcome,
                 contentVars, planVars, pack>>

\* A read or the rendering fails: the grant stays spent.
InterruptRender(r) ==
  /\ render[r] \in {"soul", "instructions"}
  /\ render' = [render EXCEPT ![r] = "failed"]
  /\ UNCHANGED <<grantVars, contentVars, planVars, pack>>

Download(r) ==
  \/ \E p \in Plans : Follow(r, p)
  \/ Redeem(r) \/ RenderSoul(r) \/ RenderInstructions(r) \/ InterruptRender(r)

Tick == Grant!Tick /\ UNCHANGED <<contentVars, planVars, renderVars>>

Next == \/ Tick
        \/ Owner
        \/ \E p \in Plans : Plan(p)
        \/ \E r \in Redeemers : Download(r)

Spec == Init /\ [][Next]_vars

-----------------------------------------------------------------------------
(***************************************************************************)
(* Properties                                                              *)
(***************************************************************************)

\* The types of the plan's and the redemption's own state.
TypeOK ==
  /\ instructions \in Instructions \cup {NoRow}
  /\ instructionsPast \subseteq Instructions \cup {NoRow}
  /\ spent \subseteq Payments
  /\ payer \in [Plans -> Payments \cup {Operator}]
  /\ \A p \in Plans : issue[p] # NoGrant => issue[p].binding \in Digests
  /\ \A r \in Redeemers : render[r] = "delivered" => pack[r] \in Digests

\* The route and the tool together use grants exactly as downloadgrant offers
\* them: a pack that fails to render does not give its grant back.
UsesGrantsAsOffered == Grant!Spec

\* A payment buys one grant at most, and a caller who is not an operator never
\* gets one without a payment the Host has consumed (gate.go:130-206).
PaidOnce ==
  \A p \in Plans : grant[p] # NoGrant /\ payer[p] # Operator =>
    /\ payer[p] \in spent
    /\ \A q \in Plans : grant[q] # NoGrant /\ payer[q] = payer[p] => q = p

WasPublished(v) == \E e \in soulHistory : e.version = v /\ e.state = "published"

\* No grant is minted for, and no pack delivers, a soul that its owner never
\* published, wherever the owner's writes fall between the reads.
OnlyPublishedShips ==
  /\ \A p \in Plans : issue[p] # NoGrant => WasPublished(issue[p].binding.soul)
  /\ \A r \in Redeemers : render[r] = "delivered" => WasPublished(pack[r].soul)

\* A plan that was refused has minted nothing, now or later (docs/mcp.md:1410).
RefusedPlanMintsNothing ==
  \A p \in Plans :
    answer[p] \notin {"none", "minted", "download_grant_issue_failed", "internal"} =>
      issue[p] = NoGrant /\ grant[p] = NoGrant

\* A link delivers one pack, however often it is followed.
OnePackPerPlan ==
  \A r, s \in Redeemers :
    /\ render[r] \notin {"idle", "failed"}
    /\ render[s] \notin {"idle", "failed"}
    /\ input[r].id = input[s].id
    => r = s

\* What a payment comes to: one grant at most, none without it, and none after
\* a refusal.
PaymentBuysOneGrant == PaidOnce /\ RefusedPlanMintsNothing

\* What ships: one pack a link, and only of a soul its owner has published.
ShipsPublishedOnce == OnlyPublishedShips /\ OnePackPerPlan

=============================================================================
