---------------------------- MODULE DownloadGrant ----------------------------
(***************************************************************************)
(* internal/downloadgrant/store.go: one-time download grants.  Issue       *)
(* creates a row; Consume is a conditional update, and when its condition  *)
(* fails a second request reads the row, with eventual consistency, to say *)
(* why.  Both take the time before their request is sent.                  *)
(*                                                                         *)
(* A grant stands for its id, its raw token and its binding: each issue    *)
(* draws the first two at random, so no two grants share them.             *)
(***************************************************************************)
EXTENDS Integers

CONSTANTS Grants,      \* grants that may be issued, each once
          Redeemers,   \* Consume calls
          Bindings,    \* account, actor, route, client, pack and digest together
          TTL,         \* DefaultTTL in seconds
          MaxTime,     \* the clock stops here
          StaleReads,  \* may First return an earlier value of a row?
          NoGrant      \* the row does not exist

ASSUME TTLAssumption == TTL \in Nat \ {0}
ASSUME MaxTimeAssumption == MaxTime \in Nat
ASSUME StaleReadsAssumption == StaleReads \in BOOLEAN

VARIABLES clock,    \* seconds
          issue,    \* per grant: the pending Issue, [at, binding], or NoGrant
          grant,    \* per grant: the stored row, or NoGrant
          usedBy,   \* per grant: the calls whose update was applied
          pc,       \* per redeemer: the next request
          input,    \* per redeemer: the grant id, token and binding presented
          sentAt,   \* per redeemer: Consume's now
          late,     \* per redeemer: was the grant spent before the call was made?
          outcome   \* per redeemer: the classified outcome

redeemVars == <<pc, input, sentAt, late, outcome>>
vars       == <<clock, issue, grant, usedBy, redeemVars>>

-----------------------------------------------------------------------------
Row == [status : {"active", "consumed"}, binding : Bindings, expiresAt : Nat]

Issuing == [at : Nat, binding : Bindings]

ASSUME NoGrantAssumption == NoGrant \notin Row \cup Issuing

\* What a caller presents; the token is named by the grant it was drawn for.
Inputs == [id : Grants, token : Grants, binding : Bindings]

Outcomes == {"none", "consumed", "replay", "notFound", "expired",
             "tokenMismatch", "bindingMismatch", "error"}

\* The values the row of g has had: absent, then active, then consumed.
Past(g) ==
  IF grant[g] = NoGrant
  THEN {NoGrant}
  ELSE {NoGrant, [grant[g] EXCEPT !.status = "active"], grant[g]}

Readable(g) == IF StaleReads THEN Past(g) ELSE {grant[g]}

Init ==
  /\ clock = 0
  /\ issue = [g \in Grants |-> NoGrant]
  /\ grant = [g \in Grants |-> NoGrant]
  /\ usedBy = [g \in Grants |-> {}]
  /\ pc = [r \in Redeemers |-> "idle"]
  /\ input = [r \in Redeemers |-> NoGrant]
  /\ sentAt = [r \in Redeemers |-> 0]
  /\ late = [r \in Redeemers |-> FALSE]
  /\ outcome = [r \in Redeemers |-> "none"]

Tick ==
  /\ clock < MaxTime
  /\ clock' = clock + 1
  /\ UNCHANGED <<issue, grant, usedBy, redeemVars>>

\* Issue up to its create: the expiry is fixed before the row exists.
IssueFor(g, b) ==
  /\ issue[g] = NoGrant
  /\ issue' = [issue EXCEPT ![g] = [at |-> clock, binding |-> b]]
  /\ UNCHANGED <<clock, grant, usedBy, redeemVars>>

ExpiresAt(g) == issue[g].at + TTL

\* IfNotExists Create.
CreateGrant(g) ==
  /\ issue[g] # NoGrant
  /\ grant[g] = NoGrant
  /\ grant' = [grant EXCEPT ![g] = [status    |-> "active",
                                    binding   |-> issue[g].binding,
                                    expiresAt |-> ExpiresAt(g)]]
  /\ UNCHANGED <<clock, issue, usedBy, redeemVars>>

Answer(r, o) ==
  /\ pc' = [pc EXCEPT ![r] = "done"]
  /\ outcome' = [outcome EXCEPT ![r] = o]

\* Consume up to its update.
Present(r, i) ==
  /\ pc[r] = "idle"
  /\ pc' = [pc EXCEPT ![r] = "consume"]
  /\ input' = [input EXCEPT ![r] = i]
  /\ sentAt' = [sentAt EXCEPT ![r] = clock]
  /\ late' = [late EXCEPT ![r] = usedBy[i.id] # {}]
  /\ UNCHANGED <<clock, issue, grant, usedBy, outcome>>

Always(r) == TRUE

TokenHolds(r)   == input[r].token = input[r].id
BindingHolds(r) == input[r].binding = grant[input[r].id].binding
LiveThrough(r)  == grant[input[r].id].expiresAt >= sentAt[r]
Live(r)         == grant[input[r].id].expiresAt > sentAt[r]
Unused(r)       == grant[input[r].id].status = "active"

\* The conditions of the update, on the stored row.
Consumable(r) ==
  /\ grant[input[r].id] # NoGrant
  /\ TokenHolds(r)
  /\ BindingHolds(r)
  /\ Unused(r)
  /\ Live(r)

Spent(row) == [status |-> "consumed", binding |-> row.binding, expiresAt |-> row.expiresAt]

MarkConsumed(r) ==
  /\ grant' = [grant EXCEPT ![input[r].id] = Spent(@)]
  /\ usedBy' = [usedBy EXCEPT ![input[r].id] = @ \cup {r}]

ConsumeThenCheck(r) ==
  /\ pc[r] = "consume"
  /\ grant[input[r].id] # NoGrant
  /\ Unused(r)
  /\ MarkConsumed(r)
  /\ pc' = [pc EXCEPT ![r] = "classify"]
  /\ UNCHANGED <<clock, issue, input, sentAt, late, outcome>>

Consume(r) ==
  /\ pc[r] = "consume"
  /\ \/ /\ Consumable(r)
        /\ MarkConsumed(r)
        /\ Answer(r, "consumed")
     \/ /\ ~Consumable(r)
        /\ pc' = [pc EXCEPT ![r] = "classify"]
        /\ UNCHANGED <<grant, usedBy, outcome>>
  /\ UNCHANGED <<clock, issue, input, sentAt, late>>

StatusFirst(r, row) ==
  CASE row = NoGrant                              -> "notFound"
    [] row # NoGrant /\ row.status = "consumed" -> "replay"
    [] OTHER                                    -> "bindingMismatch"

\* classifyFailedConsume: the order of the questions is the code's.
Classified(r, row) ==
  CASE row = NoGrant                         -> "notFound"
    [] row # NoGrant /\ ~TokenHolds(r)       -> "tokenMismatch"
    [] row # NoGrant /\ TokenHolds(r) /\ row.binding # input[r].binding
                                             -> "bindingMismatch"
    [] row # NoGrant /\ TokenHolds(r) /\ row.binding = input[r].binding
         /\ row.status = "consumed"          -> "replay"
    [] row # NoGrant /\ TokenHolds(r) /\ row.binding = input[r].binding
         /\ row.status = "active" /\ sentAt[r] >= row.expiresAt
                                             -> "expired"
    [] OTHER                                 -> "bindingMismatch"

Classify(r) ==
  /\ pc[r] = "classify"
  /\ \E row \in Readable(input[r].id) : Answer(r, Classified(r, row))
  /\ UNCHANGED <<clock, issue, grant, usedBy, input, sentAt, late>>

\* The Lambda dies, or a request fails for another reason than its condition.
Interrupt(r) ==
  /\ pc[r] \in {"consume", "classify"}
  /\ Answer(r, "error")
  /\ UNCHANGED <<clock, issue, grant, usedBy, input, sentAt, late>>

\* The update is applied but its answer is lost: the grant is spent.
LoseAnswer(r) ==
  /\ pc[r] = "consume"
  /\ Consumable(r)
  /\ MarkConsumed(r)
  /\ Answer(r, "error")
  /\ UNCHANGED <<clock, issue, input, sentAt, late>>

IssueNext  == \E g \in Grants : (\E b \in Bindings : IssueFor(g, b)) \/ CreateGrant(g)
Handle(r) == Consume(r) \/ Classify(r) \/ Interrupt(r) \/ LoseAnswer(r)
RedeemNext == \E r \in Redeemers : (\E i \in Inputs : Present(r, i)) \/ Handle(r)

Next == Tick \/ IssueNext \/ RedeemNext

Spec == Init /\ [][Next]_vars

-----------------------------------------------------------------------------
(***************************************************************************)
(* Properties                                                              *)
(***************************************************************************)

\* The types of the rows and of the calls (store.go:354-374, 99-112).
TypeOK ==
  /\ clock \in 0..MaxTime
  /\ issue \in [Grants -> Issuing \cup {NoGrant}]
  /\ grant \in [Grants -> Row \cup {NoGrant}]
  /\ usedBy \in [Grants -> SUBSET Redeemers]
  /\ pc \in [Redeemers -> {"idle", "consume", "classify", "done"}]
  /\ input \in [Redeemers -> Inputs \cup {NoGrant}]
  /\ \A r \in Redeemers : pc[r] # "idle" => input[r] \in Inputs
  /\ sentAt \in [Redeemers -> 0..MaxTime]
  /\ late \in [Redeemers -> BOOLEAN]
  /\ outcome \in [Redeemers -> Outcomes]

\* A grant is spent by one call only, however many present it at once and
\* whether or not that call hears of it: no two downloads of one grant.
UsedOnce ==
  \A g \in Grants : \A r, s \in usedBy[g] : r = s

\* Whoever is told "consumed" held the grant's own token, presented the binding
\* it was issued for, asked before it expired, and nobody else was told so.
ConsumedIsEntitled ==
  \A r \in Redeemers : outcome[r] = "consumed" =>
    /\ usedBy[input[r].id] = {r}
    /\ input[r].token = input[r].id
    /\ input[r].binding = issue[input[r].id].binding
    /\ sentAt[r] < issue[input[r].id].at + TTL

\* "Replay" is never a guess: some call did spend the grant, and only a caller
\* with the token and the binding hears it (store.go:292-305).
ReplayIsTrue ==
  \A r \in Redeemers : outcome[r] = "replay" =>
    /\ usedBy[input[r].id] # {}
    /\ input[r].token = input[r].id
    /\ input[r].binding = issue[input[r].id].binding

\* A call that is refused spends nothing: it may be repeated with the right
\* token or binding while the grant lives.
RefusalSpendsNothing ==
  \A r \in Redeemers :
    outcome[r] \in {"replay", "notFound", "expired", "tokenMismatch", "bindingMismatch"} =>
      \A g \in Grants : r \notin usedBy[g]

\* A grant that was never presented with its token and binding is never spent,
\* whatever else is presented, and a spent one is never revived.
SpentOnlyByItsHolder ==
  [][\A g \in Grants : grant[g] # NoGrant /\ grant'[g] # grant[g] =>
       /\ grant[g].status = "active"
       /\ grant'[g] = Spent(grant[g])
       /\ \E r \in Redeemers : /\ usedBy'[g] = {r}
                               /\ input[r] = [id |-> g, token |-> g,
                                              binding |-> grant[g].binding]]_vars

\* One call at most uses a grant, and only with the token, the binding and the
\* time; every other answer is true and has spent nothing (store.go:224-317).
GrantUseIsSound ==
  UsedOnce /\ ConsumedIsEntitled /\ ReplayIsTrue /\ RefusalSpendsNothing

=============================================================================
