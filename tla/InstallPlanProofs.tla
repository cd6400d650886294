-------------------------- MODULE InstallPlanProofs --------------------------
(***************************************************************************)
(* InstallPlan for every number of plans, redeemers and payments, every    *)
(* lifetime and every bound on what owners write.  A plan passes its gate  *)
(* alone with its payment; what it has read was published; and whoever     *)
(* renders holds the one use of the grant.                                 *)
(***************************************************************************)
EXTENDS InstallPlan, TLAPS

\* What rendering needs of the grants: one use each, by a call that has ended.
GrantHolds ==
  /\ clock \in Nat
  /\ issue \in [Plans -> Grant!Issuing \cup {NoGrant}]
  /\ grant \in [Plans -> Grant!Row \cup {NoGrant}]
  /\ usedBy \in [Plans -> SUBSET Redeemers]
  /\ DOMAIN pc = Redeemers /\ DOMAIN input = Redeemers /\ DOMAIN outcome = Redeemers
  /\ \A r \in Redeemers : pc[r] # "idle" => input[r] \in Grant!Inputs
  /\ \A g \in Plans : usedBy[g] # {} =>
       grant[g] # NoGrant /\ grant[g].status = "consumed" /\ \E r \in Redeemers : usedBy[g] = {r}
  /\ \A r \in Redeemers : outcome[r] = "consumed" =>
       pc[r] = "done" /\ input[r] \in Grant!Inputs /\ r \in usedBy[input[r].id]

\* A published soul has been recorded as published.
ContentHolds ==
  /\ soul # NoRow => soul.version \in 1 .. MaxVersion
  /\ soul # NoRow /\ soul.state = "published" => WasPublished(soul.version)
  /\ \A e \in soulHistory : e.version \in 1 .. MaxVersion
  /\ instructions \in Instructions \cup {NoRow}
  /\ instructionsPast \subseteq Instructions \cup {NoRow}

Reading == {"actor", "limit", "issue", "create"}

\* Past its gate a plan is at one of these, or has its grant.
Admitted(p) == at[p] \in {"registry", "soul", "instructions"} \cup Reading \/ grant[p] # NoGrant

PlanHolds ==
  /\ DOMAIN at = Plans /\ DOMAIN read = Plans /\ DOMAIN answer = Plans /\ DOMAIN payer = Plans
  /\ \A p \in Plans :
       /\ at[p] = "instructions" =>
            read[p].soul \in 1 .. MaxVersion /\ WasPublished(read[p].soul)
       /\ at[p] \in Reading \/ answer[p] = "minted" =>
            read[p] \in Digests /\ WasPublished(read[p].soul)
       /\ issue[p] # NoGrant => WasPublished(issue[p].binding.soul)

\* Until its issue a plan has no grant; its refusal comes before.
MintHolds ==
  \A p \in Plans :
    /\ at[p] \notin {"create", "done"} => issue[p] = NoGrant /\ grant[p] = NoGrant
    /\ at[p] # "done" => answer[p] = "none"
    /\ grant[p] # NoGrant => at[p] = "done"
    /\ answer[p] \notin {"none", "minted", "download_grant_issue_failed", "internal"} =>
         issue[p] = NoGrant /\ grant[p] = NoGrant

PaymentHolds ==
  \A p \in Plans : Admitted(p) /\ payer[p] # Operator =>
    /\ payer[p] \in spent
    /\ \A q \in Plans : Admitted(q) /\ payer[q] = payer[p] => q = p

RenderHolds ==
  /\ DOMAIN render = Redeemers /\ DOMAIN pack = Redeemers
  /\ \A r \in Redeemers :
       /\ render[r] # "idle" => outcome[r] = "consumed"
       /\ render[r] \in {"instructions", "delivered"} => WasPublished(pack[r].soul)

PlanInv == GrantHolds /\ ContentHolds /\ PlanHolds /\ MintHolds /\ PaymentHolds /\ RenderHolds

LEMMA InitInv == Init => PlanInv
  <1> SUFFICES ASSUME Init PROVE PlanInv
    OBVIOUS
  <1>1. GrantHolds
    BY DEF Init, Grant!Init, GrantHolds
  <1>2. ContentHolds
    BY DEF Init, Soul!Init, Soul!LegacyRows, ContentHolds
  <1>3. PlanHolds /\ MintHolds /\ PaymentHolds /\ RenderHolds
    BY DEF Init, Grant!Init, PlanHolds, MintHolds, PaymentHolds, RenderHolds, Admitted, Reading
  <1> QED BY <1>1, <1>2, <1>3 DEF PlanInv

-----------------------------------------------------------------------------
(* The grants *)

\* A use of a grant, heard of or not.
LEMMA SpendKeepsGrants ==
  ASSUME GrantHolds, NEW r \in Redeemers, NEW o \in {"consumed", "error"},
         pc[r] = "consume", Grant!Consumable(r), Grant!MarkConsumed(r), Grant!Answer(r, o),
         UNCHANGED <<clock, issue, input>>
  PROVE  GrantHolds'
  <1> DEFINE g == input[r].id
  <1> USE GrantAssumption
  <1>1. /\ input[r] \in Grant!Inputs /\ g \in Plans
        /\ grant[g] \in Grant!Row /\ grant[g].status = "active"
    BY DEF GrantHolds, Grant!Inputs, Grant!Consumable, Grant!Unused
  <1>2. usedBy[g] = {}
    BY <1>1 DEF GrantHolds
  <1>3. /\ grant' = [grant EXCEPT ![g] = Grant!Spent(grant[g])]
        /\ usedBy' = [usedBy EXCEPT ![g] = {r}]
    BY <1>2 DEF Grant!MarkConsumed, GrantHolds
  <1>4. /\ Grant!Spent(grant[g]) \in Grant!Row
        /\ Grant!Spent(grant[g]).status = "consumed"
    BY <1>1 DEF Grant!Spent, Grant!Row
  <1>5. pc' = [pc EXCEPT ![r] = "done"] /\ outcome' = [outcome EXCEPT ![r] = o]
    BY DEF Grant!Answer
  <1> HIDE DEF g
  <1>6. \A s \in Redeemers : outcome'[s] = "consumed" =>
          pc'[s] = "done" /\ input[s] \in Grant!Inputs /\ s \in usedBy'[input[s].id]
    <2> SUFFICES ASSUME NEW s \in Redeemers, outcome'[s] = "consumed"
                 PROVE  pc'[s] = "done" /\ input[s] \in Grant!Inputs
                        /\ s \in usedBy'[input[s].id]
      OBVIOUS
    <2>1. CASE s = r
      BY <2>1, <1>1, <1>3, <1>5 DEF GrantHolds, g
    <2>2. CASE s # r
      BY <2>2, <1>2, <1>3, <1>5 DEF GrantHolds, Grant!Inputs
    <2> QED BY <2>1, <2>2
  <1>7. \A h \in Plans : usedBy'[h] # {} =>
          grant'[h] # NoGrant /\ grant'[h].status = "consumed"
          /\ \E s \in Redeemers : usedBy'[h] = {s}
    BY <1>1, <1>3, <1>4 DEF GrantHolds
  <1> QED BY <1>1, <1>3, <1>4, <1>5, <1>6, <1>7 DEF GrantHolds

LEMMA HandleKeepsGrants ==
  ASSUME GrantHolds, NEW r \in Redeemers, Grant!Handle(r)
  PROVE  GrantHolds'
  <1>1. CASE Grant!Consume(r) /\ Grant!Consumable(r)
    BY <1>1, SpendKeepsGrants DEF Grant!Consume
  <1>2. CASE Grant!Consume(r) /\ ~Grant!Consumable(r)
    BY <1>2 DEF Grant!Consume, GrantHolds
  <1>3. ASSUME NEW o, o # "consumed", pc[r] \in {"consume", "classify"}, Grant!Answer(r, o),
               UNCHANGED <<clock, issue, grant, usedBy, input>>
        PROVE  GrantHolds'
    BY <1>3 DEF Grant!Answer, GrantHolds
  <1>4. CASE Grant!Classify(r)
    <2>1. PICK row \in Grant!Readable(input[r].id) : Grant!Answer(r, Grant!Classified(r, row))
      BY <1>4 DEF Grant!Classify
    <2>2. Grant!Classified(r, row) # "consumed"
      BY DEF Grant!Classified
    <2> QED BY <1>3, <1>4, <2>1, <2>2 DEF Grant!Classify
  <1>5. CASE Grant!Interrupt(r)
    BY <1>3, <1>5 DEF Grant!Interrupt
  <1>6. CASE Grant!LoseAnswer(r)
    BY <1>6, SpendKeepsGrants DEF Grant!LoseAnswer
  <1> QED BY <1>1, <1>2, <1>4, <1>5, <1>6 DEF Grant!Handle

LEMMA OthersKeepGrants ==
  ASSUME GrantHolds,
         \/ Grant!Tick
         \/ \E g \in Plans, b \in Digests : Grant!IssueFor(g, b)
         \/ \E g \in Plans : Grant!CreateGrant(g)
         \/ \E r \in Redeemers, i \in Grant!Inputs : Grant!Present(r, i)
         \/ UNCHANGED grantVars
  PROVE  GrantHolds'
  <1> USE GrantAssumption
  <1>1. CASE Grant!Tick
    BY <1>1 DEF Grant!Tick, Grant!redeemVars, GrantHolds
  <1>2. ASSUME NEW g \in Plans, NEW b \in Digests, Grant!IssueFor(g, b) PROVE GrantHolds'
    BY <1>2 DEF Grant!IssueFor, Grant!redeemVars, Grant!Issuing, GrantHolds
  <1>3. ASSUME NEW g \in Plans, Grant!CreateGrant(g) PROVE GrantHolds'
    <2> DEFINE row == [status |-> "active", binding |-> issue[g].binding,
                       expiresAt |-> Grant!ExpiresAt(g)]
    <2>1. /\ issue[g] \in Grant!Issuing /\ usedBy[g] = {}
          /\ grant' = [grant EXCEPT ![g] = row]
          /\ UNCHANGED <<clock, issue, usedBy, pc, input, outcome>>
      BY <1>3 DEF Grant!CreateGrant, Grant!redeemVars, GrantHolds
    <2>2. row \in Grant!Row
      BY <2>1 DEF Grant!Row, Grant!Issuing, Grant!ExpiresAt
    <2> HIDE DEF row
    <2> QED BY <2>1, <2>2 DEF GrantHolds
  <1>4. ASSUME NEW r \in Redeemers, NEW i \in Grant!Inputs, Grant!Present(r, i) PROVE GrantHolds'
    <2>1. outcome[r] # "consumed"
      BY <1>4 DEF Grant!Present, GrantHolds
    <2> QED BY <1>4, <2>1 DEF Grant!Present, GrantHolds
  <1>5. CASE UNCHANGED grantVars
    BY <1>5 DEF grantVars, GrantHolds
  <1> QED BY <1>1, <1>2, <1>3, <1>4, <1>5

\* A handled redemption neither issues nor creates, and its answer is its own.
LEMMA HandleMintsNothing ==
  ASSUME GrantHolds, NEW r \in Redeemers, Grant!Handle(r)
  PROVE  /\ issue' = issue
         /\ \A p \in Plans : grant'[p] # NoGrant => grant[p] # NoGrant
         /\ outcome[r] # "consumed"
         /\ \A s \in Redeemers \ {r} : outcome'[s] = outcome[s]
  <1>1. CASE Grant!Consume(r)
    BY <1>1 DEF Grant!Consume, Grant!MarkConsumed, Grant!Consumable, Grant!Answer, GrantHolds
  <1>2. CASE Grant!Classify(r)
    BY <1>2 DEF Grant!Classify, Grant!Answer, GrantHolds
  <1>3. CASE Grant!Interrupt(r)
    BY <1>3 DEF Grant!Interrupt, Grant!Answer, GrantHolds
  <1>4. CASE Grant!LoseAnswer(r)
    BY <1>4 DEF Grant!LoseAnswer, Grant!MarkConsumed, Grant!Consumable, Grant!Answer, GrantHolds
  <1> QED BY <1>1, <1>2, <1>3, <1>4 DEF Grant!Handle

-----------------------------------------------------------------------------
(* The owner's writes *)

LEMMA OwnerKeepsInv == PlanInv /\ Owner => PlanInv'
  <1> SUFFICES ASSUME PlanInv, Owner PROVE PlanInv'
    OBVIOUS
  <1>1. UNCHANGED <<grantVars, planVars, renderVars>> /\ soulHistory \subseteq soulHistory'
    BY DEF Owner, OwnerMovesSoul, OwnerWritesInstructions, OwnerArchivesInstructions,
           SetInstructions, Soul!Next, Soul!Draft, Soul!Revise, Soul!Publish, Soul!Archive,
           Soul!Move, Soul!Record
  <1>2. GrantHolds'
    BY <1>1, OthersKeepGrants DEF PlanInv
  <1>3. \A v : WasPublished(v) => WasPublished(v)'
    BY <1>1 DEF WasPublished
  <1>4. PlanHolds' /\ MintHolds' /\ PaymentHolds' /\ RenderHolds'
    BY <1>1, <1>3 DEF PlanInv, grantVars, planVars, renderVars, PlanHolds, MintHolds,
                      PaymentHolds, RenderHolds, Admitted
  <1>5. ContentHolds'
    <2>1. CASE OwnerMovesSoul
      <3>1. PICK s \in Subjects : \/ \E d \in Documents : Soul!Draft(d, s) \/ Soul!Revise(d, s)
                                  \/ Soul!Publish(s) \/ Soul!Archive(s)
        BY <2>1 DEF OwnerMovesSoul, Soul!Next
      <3>2. soulHistory' = soulHistory \cup {Soul!EventFor(soul', s)}
        BY <3>1 DEF Soul!Draft, Soul!Revise, Soul!Publish, Soul!Archive, Soul!Move, Soul!Record
      <3>3. soul'.version = 1 \/ (soul # NoRow /\ soul'.version = soul.version + 1)
        <4>1. ASSUME NEW d, Soul!Draft(d, s) PROVE soul'.version = 1
          BY <4>1 DEF Soul!Draft, Soul!Record
        <4>2. ASSUME NEW d, Soul!Revise(d, s)
              PROVE  soul # NoRow /\ soul'.version = soul.version + 1
          BY <4>2 DEF Soul!Revise, Soul!Record
        <4>3. ASSUME NEW from, NEW to, Soul!Move(from, to, s)
              PROVE  soul # NoRow /\ soul'.version = soul.version + 1
          BY <4>3 DEF Soul!Move, Soul!Moved, Soul!Record
        <4> QED BY <3>1, <4>1, <4>2, <4>3 DEF Soul!Publish, Soul!Archive
      <3>4. soul'.version \in 1 .. MaxVersion
        BY <2>1, <3>3, MaxVersionAssumption DEF OwnerMovesSoul, PlanInv, ContentHolds
      <3>5. /\ Soul!EventFor(soul', s).version = soul'.version
            /\ Soul!EventFor(soul', s).state = soul'.state
        BY DEF Soul!EventFor
      <3> QED BY <2>1, <3>2, <3>4, <3>5 DEF OwnerMovesSoul, PlanInv, ContentHolds, WasPublished
    <2>2. ASSUME NEW row \in Instructions, SetInstructions(row) PROVE ContentHolds'
      BY <2>2, <1>3 DEF SetInstructions, PlanInv, ContentHolds
    <2>3. CASE OwnerWritesInstructions
      <3> DEFINE next == IF instructions = NoRow THEN 1 ELSE instructions.version + 1
      <3>1. [version |-> next, state |-> "draft"] \in Instructions
        BY <2>3, MaxVersionAssumption DEF OwnerWritesInstructions, PlanInv, ContentHolds, Instructions
      <3> QED BY <2>2, <2>3, <3>1 DEF OwnerWritesInstructions
    <2>4. CASE OwnerArchivesInstructions
      <3>1. [version |-> instructions.version, state |-> "archived"] \in Instructions
        BY <2>4 DEF OwnerArchivesInstructions, PlanInv, ContentHolds, Instructions
      <3> QED BY <2>2, <2>4, <3>1 DEF OwnerArchivesInstructions
    <2> QED BY <2>1, <2>3, <2>4 DEF Owner
  <1> QED BY <1>2, <1>4, <1>5 DEF PlanInv

-----------------------------------------------------------------------------
(* What is read *)

LEMMA PublishedIsRecorded ==
  ASSUME ContentHolds, NEW row \in ReadableSouls, Published(row)
  PROVE  row.version \in 1 .. MaxVersion /\ WasPublished(row.version)
  BY DEF ContentHolds, ReadableSouls, Published, WasPublished

LEMMA InstructionsAreRead ==
  ASSUME ContentHolds, NEW row \in ReadableInstructions, Exists(row)
  PROVE  row \in Instructions
  BY DEF ContentHolds, ReadableInstructions, Exists

\* Content that stays, and grants and renderings that stay, keep their parts.
LEMMA Unmoved ==
  ASSUME PlanInv, UNCHANGED contentVars
  PROVE  /\ ContentHolds'
         /\ \A v : WasPublished(v)' <=> WasPublished(v)
         /\ UNCHANGED grantVars => GrantHolds'
         /\ UNCHANGED <<grantVars, renderVars>> => RenderHolds'
  <1>1. ContentHolds' /\ \A v : WasPublished(v)' <=> WasPublished(v)
    BY DEF contentVars, PlanInv, ContentHolds, WasPublished
  <1>2. UNCHANGED grantVars => GrantHolds'
    BY OthersKeepGrants DEF PlanInv
  <1>3. UNCHANGED <<grantVars, renderVars>> => RenderHolds'
    BY <1>1 DEF PlanInv, RenderHolds, grantVars, renderVars
  <1> QED BY <1>1, <1>2, <1>3

-----------------------------------------------------------------------------
(* The plan *)

\* A refusal before the plan's issue, or an interruption at any time.
LEMMA RefuseKeepsInv ==
  ASSUME PlanInv, NEW p \in Plans, NEW code, Refuse(p, code),
         at[p] \notin {"idle", "done"}, code # "minted",
         at[p] = "create" => code = "internal",
         UNCHANGED <<grantVars, contentVars, renderVars, payer>>,
         spent \subseteq spent'
  PROVE  PlanInv'
  <1>1. /\ at' = [at EXCEPT ![p] = "done"] /\ answer' = [answer EXCEPT ![p] = code]
        /\ read' = read /\ grant[p] = NoGrant /\ UNCHANGED <<issue, grant>>
    BY DEF Refuse, Goto, grantVars, PlanInv, MintHolds
  <1>2. PlanHolds'
    BY <1>1, Unmoved DEF PlanInv, PlanHolds, Reading
  <1>3. MintHolds'
    BY <1>1 DEF PlanInv, PlanHolds, MintHolds
  <1>4. PaymentHolds'
    BY <1>1 DEF PlanInv, PlanHolds, PaymentHolds, Admitted, Reading
  <1> QED BY <1>2, <1>3, <1>4, Unmoved DEF PlanInv

\* A step from one request to the next, before the plan has its grant.
LEMMA PassKeepsInv ==
  ASSUME PlanInv, NEW p \in Plans, NEW rd, NEW from, NEW to,
         at[p] = from, from \notin {"idle", "gate", "create", "done"},
         to \in {"soul", "instructions", "actor", "limit", "issue"},
         at' = [at EXCEPT ![p] = to],
         DOMAIN read' = Plans, read'[p] = rd, \A q \in Plans \ {p} : read'[q] = read[q],
         to = "instructions" => rd.soul \in 1 .. MaxVersion /\ WasPublished(rd.soul),
         to \in Reading => rd \in Digests /\ WasPublished(rd.soul),
         from \in {"registry", "soul", "instructions", "actor", "limit"},
         UNCHANGED <<grantVars, contentVars, renderVars, spent, payer, answer>>
  PROVE  PlanInv'
  <1>1. answer[p] = "none" /\ UNCHANGED <<issue, grant>> /\ at[p] \in {"registry", "soul", "instructions"} \cup Reading
    BY DEF grantVars, PlanInv, MintHolds, Reading
  <1>2. PlanHolds'
    BY <1>1, Unmoved DEF PlanInv, PlanHolds, Reading
  <1>3. MintHolds'
    BY <1>1 DEF PlanInv, PlanHolds, MintHolds
  <1>4. PaymentHolds'
    BY <1>1 DEF PlanInv, PlanHolds, PaymentHolds, Admitted, Reading
  <1> QED BY <1>2, <1>3, <1>4, Unmoved DEF PlanInv

LEMMA CallKeepsInv ==
  ASSUME PlanInv, NEW p \in Plans, NEW m, Call(p, m)
  PROVE  PlanInv'
  <1>1. /\ at[p] = "idle" /\ at' = [at EXCEPT ![p] = "gate"]
        /\ payer' = [payer EXCEPT ![p] = m] /\ answer[p] = "none" /\ grant[p] = NoGrant
        /\ UNCHANGED <<grantVars, contentVars, renderVars, spent, read, answer, issue, grant>>
    BY DEF Call, Goto, grantVars, PlanInv, MintHolds
  <1>2. PlanHolds'
    BY <1>1, Unmoved DEF PlanInv, PlanHolds, Reading
  <1>3. MintHolds'
    BY <1>1 DEF PlanInv, PlanHolds, MintHolds
  <1>4. PaymentHolds'
    BY <1>1 DEF PlanInv, PlanHolds, PaymentHolds, Admitted, Reading
  <1> QED BY <1>1, <1>2, <1>3, <1>4, Unmoved DEF PlanInv

\* The Host spends a payment once: no other plan has passed with it.
LEMMA GateKeepsInv ==
  ASSUME PlanInv, NEW p \in Plans, Gate(p)
  PROVE  PlanInv'
  <1>0. at[p] = "gate" /\ UNCHANGED <<grantVars, contentVars, renderVars, payer, issue, grant>>
    BY DEF Gate, grantVars
  <1>1. CASE \E code : Refuse(p, code) /\ code # "minted" /\ spent \subseteq spent'
    BY <1>0, <1>1, RefuseKeepsInv
  <1>2. CASE /\ payer[p] = Operator \/ payer[p] \notin spent
             /\ at' = [at EXCEPT ![p] = "registry"] /\ UNCHANGED <<read, answer>>
             /\ spent' = spent \/ spent' = spent \cup {payer[p]}
             /\ payer[p] # Operator => payer[p] \in spent'
    <2>1. answer[p] = "none" /\ issue[p] = NoGrant /\ grant[p] = NoGrant
      BY <1>0 DEF PlanInv, MintHolds
    <2>2. PlanHolds'
      BY <1>0, <1>2, <2>1, Unmoved DEF PlanInv, PlanHolds, Reading
    <2>3. MintHolds'
      BY <1>0, <1>2, <2>1 DEF PlanInv, PlanHolds, MintHolds
    <2>4. PaymentHolds'
      BY <1>0, <1>2, <2>1 DEF PlanInv, PlanHolds, PaymentHolds, Admitted, Reading
    <2> QED BY <1>0, <2>2, <2>3, <2>4, Unmoved DEF PlanInv
  <1> QED BY <1>1, <1>2 DEF Gate, Goto, Replayed

LEMMA PassesKeepInv ==
  ASSUME PlanInv, NEW p \in Plans,
         Registry(p) \/ CheckActor(p) \/ Limit(p) \/ ReadSoul(p) \/ ReadInstructions(p)
  PROVE  PlanInv'
  <1>1. ASSUME NEW from \in {"registry", "actor", "limit"}, NEW to \in {"soul", "limit", "issue"},
               NEW code, code # "minted", to \in Reading => from \in Reading,
               PassOrRefuse(p, from, to, code)
        PROVE  PlanInv'
    <2>1. CASE Refuse(p, code)
      BY <1>1, <2>1, RefuseKeepsInv DEF PassOrRefuse
    <2>2. CASE Goto(p, to) /\ UNCHANGED <<read, answer>>
      <3>1. DOMAIN read' = Plans
        BY <2>2 DEF PlanInv, PlanHolds
      <3>2. to \in Reading => read[p] \in Digests /\ WasPublished(read[p].soul)
        BY <1>1 DEF PassOrRefuse, PlanInv, PlanHolds
      <3> QED BY <1>1, <2>2, <3>1, <3>2, PassKeepsInv DEF PassOrRefuse, Goto
    <2> QED BY <1>1, <2>1, <2>2 DEF PassOrRefuse
  <1>2. CASE ReadSoul(p)
    <2>1. PICK row \in ReadableSouls :
            \/ /\ Published(row)
               /\ Goto(p, "instructions")
               /\ read' = [read EXCEPT ![p] = [soul |-> row.version]]
               /\ UNCHANGED answer
            \/ /\ ~Published(row)
               /\ Refuse(p, IF Exists(row) THEN "agent_soul_publish_required" ELSE "not_found")
      BY <1>2 DEF ReadSoul
    <2>2. CASE Published(row)
      <3> DEFINE rd == [soul |-> row.version]
      <3>1. rd.soul \in 1 .. MaxVersion /\ WasPublished(rd.soul)
        BY <2>2, PublishedIsRecorded DEF PlanInv
      <3>2. DOMAIN read' = Plans /\ read'[p] = rd /\ \A q \in Plans \ {p} : read'[q] = read[q]
        BY <2>1, <2>2 DEF PlanInv, PlanHolds
      <3> HIDE DEF rd
      <3> QED BY <1>2, <2>1, <2>2, <3>1, <3>2, PassKeepsInv DEF ReadSoul, Goto, Reading
    <2>3. CASE ~Published(row)
      BY <1>2, <2>1, <2>3, RefuseKeepsInv DEF ReadSoul
    <2> QED BY <2>2, <2>3
  <1>3. CASE ReadInstructions(p)
    <2>1. PICK row \in ReadableInstructions :
            \/ /\ Exists(row)
               /\ Goto(p, "actor")
               /\ read' = [read EXCEPT ![p] = [soul |-> @.soul, instructions |-> row]]
               /\ UNCHANGED answer
            \/ /\ ~Exists(row)
               /\ Refuse(p, "not_found")
      BY <1>3 DEF ReadInstructions
    <2>2. CASE Exists(row)
      <3> DEFINE rd == [soul |-> read[p].soul, instructions |-> row]
      <3>1. rd \in Digests /\ WasPublished(rd.soul)
        BY <1>3, <2>2, InstructionsAreRead DEF ReadInstructions, PlanInv, PlanHolds, Digests
      <3>2. DOMAIN read' = Plans /\ read'[p] = rd /\ \A q \in Plans \ {p} : read'[q] = read[q]
        BY <2>1, <2>2 DEF PlanInv, PlanHolds
      <3> HIDE DEF rd
      <3> QED BY <1>3, <2>1, <2>2, <3>1, <3>2, PassKeepsInv DEF ReadInstructions, Goto
    <2>3. CASE ~Exists(row)
      BY <1>3, <2>1, <2>3, RefuseKeepsInv DEF ReadInstructions
    <2> QED BY <2>2, <2>3
  <1>4. CASE Registry(p)
    BY <1>1, <1>4 DEF Registry, Reading
  <1>5. CASE CheckActor(p)
    BY <1>1, <1>5 DEF CheckActor, Reading
  <1>6. CASE Limit(p)
    BY <1>1, <1>6 DEF Limit, Reading
  <1> QED BY <1>2, <1>3, <1>4, <1>5, <1>6

LEMMA IssueKeepsInv ==
  ASSUME PlanInv, NEW p \in Plans, Issue(p)
  PROVE  PlanInv'
  <1>1. read[p] \in Digests /\ WasPublished(read[p].soul)
    BY DEF Issue, PlanInv, PlanHolds, Reading
  <1>2. /\ at[p] = "issue" /\ at' = [at EXCEPT ![p] = "create"]
        /\ issue' = [issue EXCEPT ![p] = [at |-> clock, binding |-> read[p]]]
        /\ UNCHANGED <<contentVars, renderVars, spent, payer, read, answer, grant, outcome>>
    BY DEF Issue, Goto, Grant!IssueFor, Grant!redeemVars
  <1>3. /\ answer[p] = "none" /\ grant[p] = NoGrant
        /\ issue'[p].binding = read[p]
        /\ \A q \in Plans \ {p} : issue'[q] = issue[q]
    BY <1>2 DEF PlanInv, MintHolds, GrantHolds
  <1>4. GrantHolds'
    BY <1>1, OthersKeepGrants DEF Issue, PlanInv
  <1>5. PlanHolds'
    BY <1>1, <1>2, <1>3, Unmoved DEF PlanInv, PlanHolds, Reading
  <1>6. MintHolds'
    BY <1>2, <1>3 DEF PlanInv, PlanHolds, MintHolds
  <1>7. PaymentHolds'
    BY <1>2, <1>3 DEF PlanInv, PlanHolds, PaymentHolds, Admitted, Reading
  <1>8. RenderHolds'
    BY <1>2, Unmoved DEF PlanInv, RenderHolds, renderVars
  <1> QED BY <1>2, <1>4, <1>5, <1>6, <1>7, <1>8, Unmoved DEF PlanInv

LEMMA CreateKeepsInv ==
  ASSUME PlanInv, NEW p \in Plans, Create(p)
  PROVE  PlanInv'
  <1>1. PICK a \in {"minted", "download_grant_issue_failed"} :
          answer' = [answer EXCEPT ![p] = a]
    BY DEF Create
  <1>2. /\ at[p] = "create" /\ at' = [at EXCEPT ![p] = "done"]
        /\ UNCHANGED <<contentVars, renderVars, spent, payer, read, issue, outcome>>
        /\ \A q \in Plans \ {p} : grant'[q] = grant[q]
    BY DEF Create, Goto, Grant!CreateGrant, Grant!redeemVars, PlanInv, GrantHolds
  <1>3. GrantHolds'
    BY OthersKeepGrants DEF Create, PlanInv
  <1>4. PlanHolds'
    BY <1>1, <1>2, Unmoved DEF PlanInv, PlanHolds, Reading
  <1>5. MintHolds'
    BY <1>1, <1>2 DEF PlanInv, PlanHolds, MintHolds
  <1>6. PaymentHolds'
    BY <1>2 DEF PlanInv, PlanHolds, PaymentHolds, Admitted, Reading
  <1>7. RenderHolds'
    BY <1>2, Unmoved DEF PlanInv, RenderHolds, renderVars
  <1> QED BY <1>2, <1>3, <1>4, <1>5, <1>6, <1>7, Unmoved DEF PlanInv

LEMMA PlanKeepsInv ==
  ASSUME PlanInv, NEW p \in Plans, Plan(p)
  PROVE  PlanInv'
  <1>1. CASE InterruptPlan(p)
    BY <1>1, RefuseKeepsInv DEF InterruptPlan
  <1> QED BY <1>1, CallKeepsInv, GateKeepsInv, PassesKeepInv, IssueKeepsInv, CreateKeepsInv
          DEF Plan

-----------------------------------------------------------------------------
(* The redemption *)

LEMMA DownloadKeepsInv ==
  ASSUME PlanInv, NEW r \in Redeemers, Download(r)
  PROVE  PlanInv'
  <1>1. CASE \E p \in Plans : Follow(r, p)
    <2> PICK p \in Plans : Follow(r, p)
      BY <1>1
    <2>1. Link(p) \in Grant!Inputs
      BY DEF Follow, Link, PlanInv, PlanHolds, Grant!Inputs
    <2>2. Grant!Present(r, Link(p)) /\ UNCHANGED <<contentVars, planVars, renderVars, issue, grant, outcome>>
      BY DEF Follow, Grant!Present
    <2>3. GrantHolds'
      BY <2>1, <2>2, OthersKeepGrants DEF PlanInv
    <2>4. PlanHolds' /\ MintHolds' /\ PaymentHolds' /\ RenderHolds'
      BY <2>2, Unmoved DEF PlanInv, PlanHolds, MintHolds, PaymentHolds, RenderHolds, Admitted,
                           planVars, renderVars
    <2> QED BY <2>2, <2>3, <2>4, Unmoved DEF PlanInv
  <1>2. CASE Redeem(r)
    <2>1. /\ Grant!Handle(r) /\ UNCHANGED <<contentVars, planVars, pack>>
          /\ render' = [render EXCEPT ![r] = IF outcome'[r] = "consumed" THEN "soul" ELSE @]
      BY <1>2 DEF Redeem
    <2>2. /\ issue' = issue
          /\ \A p \in Plans : grant'[p] # NoGrant => grant[p] # NoGrant
          /\ outcome[r] # "consumed"
          /\ \A s \in Redeemers \ {r} : outcome'[s] = outcome[s]
      BY <2>1, HandleMintsNothing DEF PlanInv
    <2>3. GrantHolds'
      BY <2>1, HandleKeepsGrants DEF PlanInv
    <2>4. PlanHolds'
      BY <2>1, <2>2, Unmoved DEF PlanInv, PlanHolds, planVars
    <2>5. MintHolds'
      BY <2>1, <2>2 DEF PlanInv, MintHolds, planVars
    <2>6. PaymentHolds'
      BY <2>1, <2>2 DEF PlanInv, PaymentHolds, Admitted, planVars
    <2>7. RenderHolds'
      BY <2>1, <2>2, Unmoved DEF PlanInv, RenderHolds
    <2> QED BY <2>1, <2>3, <2>4, <2>5, <2>6, <2>7, Unmoved DEF PlanInv
  <1>3. ASSUME UNCHANGED <<grantVars, contentVars, planVars>>, RenderHolds' PROVE PlanInv'
    <2>1. PlanHolds' /\ MintHolds' /\ PaymentHolds'
      BY <1>3, Unmoved DEF PlanInv, PlanHolds, MintHolds, PaymentHolds, Admitted, planVars, grantVars
    <2> QED BY <1>3, <2>1, Unmoved DEF PlanInv
  <1>4. CASE RenderSoul(r)
    <2>1. PICK row \in ReadableSouls :
            \/ /\ Published(row)
               /\ render' = [render EXCEPT ![r] = "instructions"]
               /\ pack' = [pack EXCEPT ![r] = [soul |-> row.version]]
            \/ /\ render' = [render EXCEPT ![r] = "failed"]
               /\ UNCHANGED pack
      BY <1>4 DEF RenderSoul
    <2>2. Published(row) => WasPublished(row.version)
      BY PublishedIsRecorded DEF PlanInv
    <2>3. RenderHolds'
      BY <1>4, <2>1, <2>2, Unmoved DEF RenderSoul, PlanInv, RenderHolds, grantVars
    <2> QED BY <1>3, <1>4, <2>3 DEF RenderSoul
  <1>5. CASE RenderInstructions(r)
    <2>1. RenderHolds'
      BY <1>5, Unmoved DEF RenderInstructions, PlanInv, RenderHolds, grantVars
    <2> QED BY <1>3, <1>5, <2>1 DEF RenderInstructions
  <1>6. CASE InterruptRender(r)
    <2>1. RenderHolds'
      BY <1>6, Unmoved DEF InterruptRender, PlanInv, RenderHolds, grantVars
    <2> QED BY <1>3, <1>6, <2>1 DEF InterruptRender
  <1> QED BY <1>1, <1>2, <1>4, <1>5, <1>6 DEF Download

LEMMA NextInv == PlanInv /\ [Next]_vars => PlanInv'
  <1> SUFFICES ASSUME PlanInv, [Next]_vars PROVE PlanInv'
    OBVIOUS
  <1>1. ASSUME UNCHANGED <<issue, grant, outcome, contentVars, planVars, renderVars>>, GrantHolds'
        PROVE  PlanInv'
    <2>1. PlanHolds' /\ MintHolds' /\ PaymentHolds' /\ RenderHolds'
      BY <1>1, Unmoved DEF PlanInv, PlanHolds, MintHolds, PaymentHolds, RenderHolds, Admitted,
                           planVars, renderVars
    <2> QED BY <1>1, <2>1, Unmoved DEF PlanInv
  <1>2. CASE Tick
    BY <1>1, <1>2, OthersKeepGrants DEF Tick, Grant!Tick, Grant!redeemVars, PlanInv
  <1>3. CASE UNCHANGED vars
    BY <1>1, <1>3, OthersKeepGrants DEF vars, grantVars, PlanInv
  <1> QED BY <1>2, <1>3, OwnerKeepsInv, PlanKeepsInv, DownloadKeepsInv DEF Next

\* The whole invariant holds of every interleaving of plans, owners and
\* redemptions.
THEOREM PlanSafe == Spec => []PlanInv
  BY InitInv, NextInv, PTL DEF Spec

\* A payment buys one grant at most, a grant is never had without its payment,
\* and a plan that was refused has none (gate.go:130-206, baserver.go:332-443).
THEOREM PaymentsBuyOneGrant == Spec => []PaymentBuysOneGrant
  <1>1. PlanInv => PaidOnce
    BY DEF PlanInv, PaymentHolds, Admitted, PaidOnce
  <1>2. PlanInv => RefusedPlanMintsNothing
    BY DEF PlanInv, MintHolds, RefusedPlanMintsNothing
  <1>3. PlanInv => PaymentBuysOneGrant
    BY <1>1, <1>2 DEF PaymentBuysOneGrant
  <1> QED BY <1>3, PlanSafe, PTL

\* Only what an owner has published is granted or delivered, and a link
\* delivers one pack (installer_grants.go, baserver.go:821-866).
THEOREM PublishedShipsOnce == Spec => []ShipsPublishedOnce
  <1>1. PlanInv => OnlyPublishedShips
    BY DEF PlanInv, PlanHolds, RenderHolds, OnlyPublishedShips
  <1>2. PlanInv => OnePackPerPlan
    <2> SUFFICES ASSUME PlanInv, NEW r \in Redeemers, NEW s \in Redeemers,
                        render[r] \notin {"idle", "failed"}, render[s] \notin {"idle", "failed"},
                        input[r].id = input[s].id
                 PROVE  r = s
      BY DEF OnePackPerPlan
    <2>1. /\ r \in usedBy[input[r].id] /\ s \in usedBy[input[r].id]
          /\ input[r].id \in Plans
      BY DEF PlanInv, RenderHolds, GrantHolds, Grant!Inputs
    <2>2. PICK t \in Redeemers : usedBy[input[r].id] = {t}
      BY <2>1 DEF PlanInv, GrantHolds
    <2> QED BY <2>1, <2>2
  <1>3. PlanInv => ShipsPublishedOnce
    BY <1>1, <1>2 DEF ShipsPublishedOnce
  <1> QED BY <1>3, PlanSafe, PTL

\* The tool and the route use grants as the grant store offers them: every step
\* of theirs is a step of its specification or leaves the grants alone.
THEOREM GrantsAreUsedAsOffered == Spec => UsesGrantsAsOffered
  <1>1. Init => Grant!Init
    BY DEF Init
  <1>2. PlanInv /\ [Next]_vars => [Grant!Next]_(Grant!vars)
    <2> SUFFICES ASSUME PlanInv, [Next]_vars
                 PROVE  Grant!Next \/ UNCHANGED grantVars
      BY DEF Grant!vars, Grant!redeemVars, grantVars
    <2>1. CASE Tick
      BY <2>1 DEF Tick, Grant!Next
    <2>2. ASSUME Owner PROVE UNCHANGED grantVars
      BY <2>2 DEF Owner, OwnerMovesSoul, OwnerWritesInstructions, OwnerArchivesInstructions,
                  SetInstructions
    <2>3. ASSUME NEW p \in Plans, Plan(p) PROVE Grant!Next \/ UNCHANGED grantVars
      <3>1. CASE Issue(p)
        <4>1. read[p] \in Digests
          BY <3>1 DEF Issue, PlanInv, PlanHolds, Reading
        <4> QED BY <3>1, <4>1 DEF Issue, Grant!Next, Grant!IssueNext
      <3>2. CASE Create(p)
        BY <3>2 DEF Create, Grant!Next, Grant!IssueNext
      <3>3. ASSUME ~Issue(p), ~Create(p) PROVE UNCHANGED grantVars
        BY <2>3, <3>3 DEF Plan, Call, Gate, Registry, ReadSoul, ReadInstructions, CheckActor,
                          Limit, InterruptPlan, PassOrRefuse
      <3> QED BY <3>1, <3>2, <3>3
    <2>4. ASSUME NEW r \in Redeemers, Download(r) PROVE Grant!Next \/ UNCHANGED grantVars
      <3>1. ASSUME NEW p \in Plans, Follow(r, p) PROVE Grant!Next
        <4>1. Link(p) \in Grant!Inputs
          BY <3>1 DEF Follow, Link, PlanInv, PlanHolds, Grant!Inputs
        <4> QED BY <3>1, <4>1 DEF Follow, Grant!Next, Grant!RedeemNext
      <3>2. CASE Redeem(r)
        BY <3>2 DEF Redeem, Grant!Next, Grant!RedeemNext
      <3>3. CASE RenderSoul(r) \/ RenderInstructions(r) \/ InterruptRender(r)
        BY <3>3 DEF RenderSoul, RenderInstructions, InterruptRender
      <3> QED BY <2>4, <3>1, <3>2, <3>3 DEF Download
    <2> QED BY <2>1, <2>2, <2>3, <2>4 DEF Next, vars
  <1> QED BY <1>1, <1>2, PlanSafe, PTL DEF Spec, UsesGrantsAsOffered, Grant!Spec
=============================================================================
