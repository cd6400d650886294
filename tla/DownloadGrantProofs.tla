------------------------- MODULE DownloadGrantProofs -------------------------
(***************************************************************************)
(* DownloadGrant for every set of grants, redeemers and bindings, every    *)
(* lifetime, and with or without stale reads.  The inductive invariant     *)
(* ties a row to its issue and a spent row to the one call that spent it;  *)
(* what a stale read can still tell a caller follows from it.              *)
(* Below it, EditorialDraft and PromoPackage: the lists body sends, the    *)
(* advice it gives and the content an outbound post is made with.          *)
(***************************************************************************)
EXTENDS DownloadGrant, PromoPackage, FiniteSetTheorems, WellFoundedInduction,
        TLAPS

\* A row is what its issue made it, except for its status.
RowAsIssued ==
  \A g \in Grants : grant[g] # NoGrant =>
    /\ issue[g] # NoGrant
    /\ grant[g].binding = issue[g].binding
    /\ grant[g].expiresAt = issue[g].at + TTL

\* A row is spent exactly when a call spent it.
SpentIsUsed ==
  \A g \in Grants :
    usedBy[g] # {} <=> (grant[g] # NoGrant /\ grant[g].status = "consumed")

\* A call that spent a grant has returned, and was entitled to it.
UsersEntitled ==
  \A g \in Grants : \A r \in usedBy[g] :
    /\ pc[r] = "done"
    /\ outcome[r] \in {"consumed", "error"}
    /\ input[r] = [id |-> g, token |-> g, binding |-> issue[g].binding]
    /\ sentAt[r] < issue[g].at + TTL

\* A call without an answer has no outcome.
AnswersLast == \A r \in Redeemers : pc[r] # "done" => outcome[r] = "none"

GrantInv == /\ TypeOK
            /\ RowAsIssued
            /\ SpentIsUsed
            /\ UsersEntitled
            /\ AnswersLast
            /\ UsedOnce
            /\ ConsumedIsEntitled
            /\ ReplayIsTrue

LEMMA InitInv == Init => GrantInv
  BY MaxTimeAssumption
  DEF Init, GrantInv, TypeOK, RowAsIssued, SpentIsUsed, UsersEntitled, AnswersLast,
      UsedOnce, ConsumedIsEntitled, ReplayIsTrue, Outcomes

\* The call's update when its conditions hold, heard of or not.
LEMMA SpendKeepsInv ==
  ASSUME GrantInv, NEW r \in Redeemers, NEW o \in {"consumed", "error"},
         pc[r] = "consume", Consumable(r), MarkConsumed(r), Answer(r, o),
         UNCHANGED <<clock, issue, input, sentAt, late>>
  PROVE  GrantInv'
  <1> DEFINE g0 == input[r].id
  <1> USE NoGrantAssumption
  <1>1. g0 \in Grants /\ grant[g0] \in Row /\ issue[g0] \in Issuing
        /\ input[r] = [id |-> g0, token |-> g0, binding |-> grant[g0].binding]
        /\ grant[g0].status = "active" /\ grant[g0].expiresAt > sentAt[r]
    BY DEF GrantInv, TypeOK, RowAsIssued, Consumable, TokenHolds, BindingHolds, Unused, Live,
           Inputs, Issuing
  <1>2. usedBy[g0] = {}
    BY <1>1 DEF GrantInv, SpentIsUsed
  <1>3. /\ grant' = [grant EXCEPT ![g0] = Spent(grant[g0])]
        /\ usedBy' = [usedBy EXCEPT ![g0] = {r}]
    BY <1>2 DEF MarkConsumed, GrantInv, TypeOK
  <1> HIDE DEF g0
  <1>4. /\ Spent(grant[g0]) \in Row /\ Spent(grant[g0]).status = "consumed"
        /\ Spent(grant[g0]).binding = grant[g0].binding
        /\ Spent(grant[g0]).expiresAt = grant[g0].expiresAt
    BY <1>1 DEF Spent, Row
  <1>5. TypeOK'
    BY <1>1, <1>3, <1>4 DEF GrantInv, TypeOK, Answer, Outcomes
  <1>6. RowAsIssued'
    BY <1>1, <1>3, <1>4 DEF GrantInv, TypeOK, RowAsIssued
  <1>7. SpentIsUsed'
    BY <1>1, <1>3, <1>4 DEF GrantInv, TypeOK, SpentIsUsed
  <1>8. /\ pc' = [pc EXCEPT ![r] = "done"] /\ outcome' = [outcome EXCEPT ![r] = o]
        /\ r \notin UNION {usedBy[g] : g \in Grants}
    BY DEF Answer, GrantInv, UsersEntitled
  <1>9. input[r].binding = issue[g0].binding /\ sentAt[r] < issue[g0].at + TTL
    BY <1>1 DEF GrantInv, RowAsIssued
  <1>10. UsersEntitled'
    <2> SUFFICES ASSUME NEW g \in Grants, NEW s \in usedBy'[g]
                 PROVE  /\ pc'[s] = "done"
                        /\ outcome'[s] \in {"consumed", "error"}
                        /\ input[s] = [id |-> g, token |-> g, binding |-> issue[g].binding]
                        /\ sentAt[s] < issue[g].at + TTL
      BY DEF UsersEntitled
    <2>1. CASE g = g0
      BY <2>1, <1>1, <1>3, <1>8, <1>9 DEF GrantInv, TypeOK
    <2>2. CASE g # g0
      BY <2>2, <1>3, <1>8 DEF GrantInv, TypeOK, UsersEntitled
    <2> QED BY <2>1, <2>2
  <1>11. AnswersLast' /\ UsedOnce'
    BY <1>1, <1>3, <1>8 DEF GrantInv, TypeOK, AnswersLast, UsedOnce
  <1>12. ConsumedIsEntitled'
    <2> SUFFICES ASSUME NEW s \in Redeemers, outcome'[s] = "consumed"
                 PROVE  /\ usedBy'[input[s].id] = {s}
                        /\ input[s].token = input[s].id
                        /\ input[s].binding = issue[input[s].id].binding
                        /\ sentAt[s] < issue[input[s].id].at + TTL
      BY DEF ConsumedIsEntitled
    <2>1. CASE s = r
      BY <2>1, <1>1, <1>3, <1>9 DEF GrantInv, TypeOK
    <2>2. CASE s # r
      <3>1. outcome[s] = "consumed"
        BY <2>2, <1>8 DEF GrantInv, TypeOK
      <3>2. usedBy[input[s].id] = {s} /\ input[s].id # g0
        BY <3>1, <1>2 DEF GrantInv, ConsumedIsEntitled
      <3> QED BY <3>1, <3>2, <1>3 DEF GrantInv, TypeOK, ConsumedIsEntitled
    <2> QED BY <2>1, <2>2
  <1>13. ReplayIsTrue'
    BY <1>1, <1>3, <1>8 DEF GrantInv, TypeOK, ReplayIsTrue, Inputs
  <1> QED BY <1>5, <1>6, <1>7, <1>10, <1>11, <1>12, <1>13 DEF GrantInv

\* A refusal or an interruption: the call is answered and no row changes.
LEMMA RefusalKeepsInv ==
  ASSUME GrantInv, NEW r \in Redeemers, NEW o \in Outcomes \ {"none", "consumed"},
         pc[r] \in {"consume", "classify"}, Answer(r, o),
         o = "replay" => /\ usedBy[input[r].id] # {}
                         /\ input[r].token = input[r].id
                         /\ input[r].binding = issue[input[r].id].binding,
         UNCHANGED <<clock, issue, grant, usedBy, input, sentAt, late>>
  PROVE  GrantInv'
  <1>1. /\ pc' = [pc EXCEPT ![r] = "done"] /\ outcome' = [outcome EXCEPT ![r] = o]
        /\ \A g \in Grants : r \notin usedBy[g]
    BY DEF Answer, GrantInv, UsersEntitled
  <1>2. TypeOK' /\ RowAsIssued' /\ SpentIsUsed' /\ UsedOnce'
    BY <1>1 DEF GrantInv, TypeOK, RowAsIssued, SpentIsUsed, UsedOnce
  <1>3. UsersEntitled' /\ AnswersLast'
    BY <1>1 DEF GrantInv, TypeOK, UsersEntitled, AnswersLast
  <1>4. ConsumedIsEntitled' /\ ReplayIsTrue'
    BY <1>1 DEF GrantInv, TypeOK, ConsumedIsEntitled, ReplayIsTrue
  <1> QED BY <1>2, <1>3, <1>4 DEF GrantInv

\* Every step keeps the invariant.
LEMMA NextInv == GrantInv /\ [Next]_vars => GrantInv'
  <1> SUFFICES ASSUME GrantInv, [Next]_vars PROVE GrantInv'
    OBVIOUS
  <1> USE NoGrantAssumption
  <1>1. CASE UNCHANGED vars
    BY <1>1 DEF vars, redeemVars, GrantInv, TypeOK, RowAsIssued, SpentIsUsed, UsersEntitled,
                AnswersLast, UsedOnce, ConsumedIsEntitled, ReplayIsTrue
  <1>2. CASE Tick
    <2>1. clock' \in 0..MaxTime
      BY <1>2, MaxTimeAssumption DEF Tick, GrantInv, TypeOK
    <2>2. UNCHANGED <<issue, grant, usedBy, pc, input, sentAt, late, outcome>>
      BY <1>2 DEF Tick, redeemVars
    <2>3. TypeOK'
      BY <2>1, <2>2 DEF GrantInv, TypeOK
    <2>4. RowAsIssued' /\ SpentIsUsed' /\ UsersEntitled' /\ AnswersLast'
      BY <2>2 DEF GrantInv, RowAsIssued, SpentIsUsed, UsersEntitled, AnswersLast
    <2>5. UsedOnce' /\ ConsumedIsEntitled' /\ ReplayIsTrue'
      BY <2>2 DEF GrantInv, UsedOnce, ConsumedIsEntitled, ReplayIsTrue
    <2> QED BY <2>3, <2>4, <2>5 DEF GrantInv
  <1>3. ASSUME NEW g \in Grants, NEW b \in Bindings, IssueFor(g, b) PROVE GrantInv'
    <2>1. /\ issue' = [issue EXCEPT ![g] = [at |-> clock, binding |-> b]]
          /\ grant[g] = NoGrant /\ usedBy[g] = {} /\ clock \in Nat
      BY <1>3 DEF IssueFor, GrantInv, RowAsIssued, SpentIsUsed, TypeOK
    <2>2. TypeOK'
      BY <1>3, <2>1 DEF IssueFor, redeemVars, GrantInv, TypeOK, Issuing
    <2>3. RowAsIssued' /\ SpentIsUsed' /\ UsersEntitled' /\ AnswersLast' /\ UsedOnce'
      BY <1>3, <2>1 DEF IssueFor, redeemVars, GrantInv, TypeOK, RowAsIssued, SpentIsUsed,
                        UsersEntitled, AnswersLast, UsedOnce
    <2>4. \A r \in Redeemers : input[r].id = g => outcome[r] \notin {"consumed", "replay"}
      BY <2>1 DEF GrantInv, ConsumedIsEntitled, ReplayIsTrue
    <2>5. \A r \in Redeemers : outcome[r] \in {"consumed", "replay"} =>
            input[r].id \in Grants /\ issue'[input[r].id] = issue[input[r].id]
      <3>1. \A r \in Redeemers : outcome[r] # "none" => input[r] \in Inputs
        BY DEF GrantInv, TypeOK, AnswersLast
      <3> QED BY <3>1, <2>1, <2>4 DEF GrantInv, TypeOK, Inputs
    <2>6. UNCHANGED <<usedBy, input, sentAt, outcome>>
      BY <1>3 DEF IssueFor, redeemVars
    <2>7. ConsumedIsEntitled'
      BY <2>5, <2>6 DEF GrantInv, ConsumedIsEntitled
    <2>8. ReplayIsTrue'
      BY <2>5, <2>6 DEF GrantInv, ReplayIsTrue
    <2> QED BY <2>2, <2>3, <2>7, <2>8 DEF GrantInv
  <1>4. ASSUME NEW g \in Grants, CreateGrant(g) PROVE GrantInv'
    <2> DEFINE row == [status |-> "active", binding |-> issue[g].binding,
                       expiresAt |-> ExpiresAt(g)]
    <2>1. issue[g] \in Issuing /\ usedBy[g] = {} /\ grant' = [grant EXCEPT ![g] = row]
      BY <1>4 DEF CreateGrant, GrantInv, TypeOK, SpentIsUsed
    <2>2. /\ row \in Row /\ row.binding = issue[g].binding
          /\ row.expiresAt = issue[g].at + TTL /\ row.status = "active"
      BY <2>1, TTLAssumption DEF Row, Issuing, ExpiresAt
    <2> HIDE DEF row
    <2>3. TypeOK' /\ RowAsIssued' /\ SpentIsUsed'
      BY <1>4, <2>1, <2>2 DEF CreateGrant, redeemVars, GrantInv, TypeOK, RowAsIssued, SpentIsUsed
    <2>4. UsersEntitled' /\ AnswersLast' /\ UsedOnce' /\ ConsumedIsEntitled' /\ ReplayIsTrue'
      BY <1>4 DEF CreateGrant, redeemVars, GrantInv, UsersEntitled, AnswersLast, UsedOnce,
                  ConsumedIsEntitled, ReplayIsTrue
    <2> QED BY <2>3, <2>4 DEF GrantInv
  <1>5. ASSUME NEW r \in Redeemers, NEW i \in Inputs, Present(r, i) PROVE GrantInv'
    <2>1. \A g \in Grants : r \notin usedBy[g]
      BY <1>5 DEF Present, GrantInv, UsersEntitled
    <2>2. outcome[r] = "none"
      BY <1>5 DEF Present, GrantInv, AnswersLast
    <2>3. TypeOK' /\ RowAsIssued' /\ SpentIsUsed' /\ UsedOnce'
      BY <1>5 DEF Present, GrantInv, TypeOK, RowAsIssued, SpentIsUsed, UsedOnce
    <2>4. UsersEntitled' /\ AnswersLast'
      BY <1>5, <2>1, <2>2 DEF Present, GrantInv, TypeOK, UsersEntitled, AnswersLast
    <2>5. ConsumedIsEntitled' /\ ReplayIsTrue'
      BY <1>5, <2>2 DEF Present, GrantInv, TypeOK, ConsumedIsEntitled, ReplayIsTrue
    <2> QED BY <2>3, <2>4, <2>5 DEF GrantInv
  <1>6. ASSUME NEW r \in Redeemers, Consume(r) PROVE GrantInv'
    <2>1. CASE Consumable(r)
      BY <1>6, <2>1, SpendKeepsInv DEF Consume
    <2>2. CASE ~Consumable(r)
      <3>1. /\ pc[r] = "consume" /\ pc' = [pc EXCEPT ![r] = "classify"]
            /\ UNCHANGED <<clock, issue, grant, usedBy, input, sentAt, late, outcome>>
            /\ \A g \in Grants : r \notin usedBy[g]
        BY <1>6, <2>2 DEF Consume, GrantInv, UsersEntitled
      <3> QED BY <3>1 DEF GrantInv, TypeOK, RowAsIssued, SpentIsUsed, UsersEntitled,
                          AnswersLast, UsedOnce, ConsumedIsEntitled, ReplayIsTrue
    <2> QED BY <2>1, <2>2
  <1>7. ASSUME NEW r \in Redeemers, Classify(r) PROVE GrantInv'
    <2> PICK row \in Readable(input[r].id) : Answer(r, Classified(r, row))
      BY <1>7 DEF Classify
    <2>0. input[r].id \in Grants
      BY <1>7 DEF Classify, GrantInv, TypeOK, Inputs
    <2>1. \/ row = NoGrant
          \/ /\ grant[input[r].id] # NoGrant
             /\ row.binding = grant[input[r].id].binding
             /\ row.status = "consumed" => grant[input[r].id].status = "consumed"
      BY <2>0 DEF Readable, Past, GrantInv, TypeOK, Row
    <2>2. Classified(r, row) \in Outcomes \ {"none", "consumed"}
      BY DEF Classified, Outcomes
    <2>3. Classified(r, row) = "replay" =>
            /\ row # NoGrant /\ row.status = "consumed"
            /\ TokenHolds(r) /\ row.binding = input[r].binding
      BY DEF Classified
    <2>4. Classified(r, row) = "replay" =>
            /\ usedBy[input[r].id] # {}
            /\ input[r].token = input[r].id
            /\ input[r].binding = issue[input[r].id].binding
      BY <2>0, <2>1, <2>3 DEF TokenHolds, GrantInv, SpentIsUsed, RowAsIssued
    <2> QED BY <1>7, <2>2, <2>4, RefusalKeepsInv DEF Classify
  <1>8. ASSUME NEW r \in Redeemers, Interrupt(r) PROVE GrantInv'
    BY <1>8, RefusalKeepsInv DEF Interrupt, Outcomes
  <1>9. ASSUME NEW r \in Redeemers, LoseAnswer(r) PROVE GrantInv'
    BY <1>9, SpendKeepsInv DEF LoseAnswer
  <1> QED BY <1>1, <1>2, <1>3, <1>4, <1>5, <1>6, <1>7, <1>8, <1>9 DEF Next, IssueNext, RedeemNext, Handle

THEOREM GrantSafe == Spec => []GrantInv
  BY InitInv, NextInv, PTL DEF Spec

\* No grant is spent by two calls, whatever they present and however stale what
\* they read (store.go:247-266).
THEOREM GrantsUsedOnce == Spec => []UsedOnce
  <1>1. GrantInv => UsedOnce
    BY DEF GrantInv
  <1> QED BY <1>1, GrantSafe, PTL

\* A successful consume had the token, the binding and the time, and was alone.
THEOREM ConsumersEntitled == Spec => []ConsumedIsEntitled
  <1>1. GrantInv => ConsumedIsEntitled
    BY DEF GrantInv
  <1> QED BY <1>1, GrantSafe, PTL

\* Although it is read in a second request, "replay" is always true and is only
\* told to a holder of the token and the binding (store.go:281-305).
THEOREM ReplaysTrue == Spec => []ReplayIsTrue
  <1>1. GrantInv => ReplayIsTrue
    BY DEF GrantInv
  <1> QED BY <1>1, GrantSafe, PTL

\* A refused call has spent nothing.
THEOREM RefusalsSpendNothing == Spec => []RefusalSpendsNothing
  <1>1. GrantInv => RefusalSpendsNothing
    BY DEF GrantInv, UsersEntitled, RefusalSpendsNothing
  <1> QED BY <1>1, GrantSafe, PTL

\* All four together, for any grants, callers, bindings and lifetimes.
THEOREM GrantUseSound == Spec => []GrantUseIsSound
  <1>1. UsedOnce /\ ConsumedIsEntitled /\ ReplayIsTrue /\ RefusalSpendsNothing
          => GrantUseIsSound
    BY DEF GrantUseIsSound
  <1> QED BY <1>1, GrantsUsedOnce, ConsumersEntitled, ReplaysTrue, RefusalsSpendNothing, PTL

\* A stored grant changes once, when a call that presents its own token and
\* binding spends it, and never again (store.go:247-266).
THEOREM SpentByItsHolder == Spec => SpentOnlyByItsHolder
  <1> DEFINE HolderSpends ==
        \A g \in Grants : grant[g] # NoGrant /\ grant'[g] # grant[g] =>
          /\ grant[g].status = "active"
          /\ grant'[g] = Spent(grant[g])
          /\ \E r \in Redeemers :
               /\ usedBy'[g] = {r}
               /\ input[r] = [id |-> g, token |-> g, binding |-> grant[g].binding]
  <1>1. GrantInv /\ [Next]_vars => [HolderSpends]_vars
    <2> SUFFICES ASSUME GrantInv, Next, NEW g \in Grants,
                        grant[g] # NoGrant, grant'[g] # grant[g]
                 PROVE  /\ grant[g].status = "active"
                        /\ grant'[g] = Spent(grant[g])
                        /\ \E r \in Redeemers :
                             /\ usedBy'[g] = {r}
                             /\ input[r] = [id |-> g, token |-> g,
                                            binding |-> grant[g].binding]
      OBVIOUS
    <2>1. PICK r \in Redeemers : pc[r] = "consume" /\ Consumable(r) /\ MarkConsumed(r)
      <3>1. ASSUME NEW h \in Grants, CreateGrant(h) PROVE FALSE
        BY <3>1 DEF CreateGrant, GrantInv, TypeOK
      <3>2. ~Tick /\ \A h \in Grants : \A b \in Bindings : ~IssueFor(h, b)
        BY DEF Tick, IssueFor
      <3>3. \A r \in Redeemers : ~Classify(r) /\ ~Interrupt(r)
                                 /\ \A i \in Inputs : ~Present(r, i)
        BY DEF Classify, Interrupt, Present
      <3>4. PICK r \in Redeemers : Consume(r) \/ LoseAnswer(r)
        BY <3>1, <3>2, <3>3 DEF Next, IssueNext, RedeemNext, Handle
      <3> QED BY <3>4 DEF Consume, LoseAnswer
    <2>2. /\ input[r] \in Inputs /\ input[r].id \in Grants
          /\ input[r].token = input[r].id /\ input[r].binding = grant[input[r].id].binding
          /\ grant[input[r].id] # NoGrant /\ grant[input[r].id].status = "active"
      BY <2>1 DEF GrantInv, TypeOK, Consumable, TokenHolds, BindingHolds, Unused, Inputs
    <2>3. input[r].id = g
      BY <2>1, <2>2 DEF MarkConsumed, GrantInv, TypeOK
    <2>4. usedBy[g] = {}
      BY <2>2, <2>3 DEF GrantInv, SpentIsUsed
    <2>5. grant'[g] = Spent(grant[g]) /\ usedBy'[g] = {r}
      BY <2>1, <2>2, <2>3, <2>4 DEF MarkConsumed, GrantInv, TypeOK
    <2>6. input[r] = [id |-> g, token |-> g, binding |-> grant[g].binding]
      BY <2>2, <2>3 DEF Inputs
    <2> QED BY <2>2, <2>3, <2>5, <2>6
  <1> QED BY <1>1, GrantSafe, PTL DEF Spec, SpentOnlyByItsHolder

-----------------------------------------------------------------------------
(***************************************************************************)
(* EditorialDraft and PromoPackage, for any guests, reviewers and images,  *)
(* any number of calls under way and of compositions of the package.       *)
(*                                                                         *)
(* The list a call will store is made from one that does not collide, with *)
(* an association whose position was free in it, one association less, or  *)
(* the same images at positions of their own (ListInv).  Whoever approves  *)
(* a package has read the content it has; a post is made while nothing of  *)
(* that can change any more, and there is one as soon as there can be a    *)
(* released package (PackageInv).  Every answer is given with what is so   *)
(* at that moment, by the rows of the tables that its message selects.     *)
(***************************************************************************)
Association == [id : Media, role : Roles, pos : Int]

ListInv ==
  /\ DOMAIN call = Callers
  /\ draft.media \in Seq(Association) /\ ~Collides(draft.media)
  /\ DOMAIN draft = {"state", "media"}
  /\ \A c \in Callers : call[c].tool \in ListTools =>
       /\ call[c].list \in Seq(Association)
       /\ ~call[c].given => ~Collides(call[c].list)

UploadInv == upload \in [Media -> {"none"} \cup StillOpen \cup UsedUp]

\* No two inline associations share a position, no two the image.
LEMMA Collisions ==
  ASSUME NEW s \in Seq(Association)
  PROVE  ~Collides(s) <=>
           \A i, j \in 1..Len(s) : i # j =>
             /\ s[i].id # s[j].id
             /\ s[i].role = "INLINE" /\ s[j].role = "INLINE" => s[i].pos # s[j].pos
  BY DEF Collides

\* A finite set of numbers has a least one: of its sets of numbers up to one
\* of them, the smallest is that of the least.
LEMMA LeastOf ==
  ASSUME NEW S \in SUBSET Nat, IsFiniteSet(S), S # {}
  PROVE  Min(S) \in S /\ \A n \in S : Min(S) <= n
  <1>1. \E x \in S : \A y \in S : x <= y
    <2> DEFINE Down(n) == {m \in S : m <= n}
               G == {Down(n) : n \in S}
    <2>0. G \subseteq SUBSET S /\ G # {} OBVIOUS
    <2> HIDE DEF G
    <2>1. G \subseteq FiniteSubsetsOf(S)
      BY <2>0, FS_Subset DEF FiniteSubsetsOf
    <2>2. PICK T \in G : \A U \in G : <<U, T>> \notin StrictSubsetOrdering(S)
      BY <2>0, <2>1, FS_StrictSubsetOrderingWellFounded, WFMin
    <2>3. \A U \in G : ~(U \subseteq T /\ U # T)
      BY <2>0, <2>2 DEF StrictSubsetOrdering
    <2>4. PICK x \in S : T = Down(x) BY <2>2 DEF G
    <2>5. ASSUME NEW y \in S, ~(x <= y) PROVE FALSE
      <3>1. x \in Nat /\ y \in Nat OBVIOUS
      <3>2. Down(y) \subseteq Down(x)
        <4> SUFFICES ASSUME NEW m \in S, m <= y PROVE m <= x
          OBVIOUS
        <4>1. m \in Nat OBVIOUS
        <4> QED BY <3>1, <2>5, <4>1
      <3>3. x \in Down(x) /\ x \notin Down(y) BY <3>1, <2>5
      <3>4. Down(y) \in G BY DEF G
      <3> QED BY <2>3, <2>4, <3>2, <3>3, <3>4
    <2> QED BY <2>5
  <1> QED BY <1>1 DEF Min

\* There is a position that is free, since a list has no more than its length.
LEMMA FreeInlinePosition ==
  ASSUME NEW s \in Seq(Association)
  PROVE  /\ FirstFreeInlinePosition(s) \in Nat
         /\ FirstFreeInlinePosition(s) \notin Occupied(s)
  <1> DEFINE n == Len(s)
             free == {p \in 0..n : p \notin Occupied(s)}
             taken == {p \in 0..n : p \in Occupied(s)}
  <1>1. n \in Nat OBVIOUS
  <1>2. IsFiniteSet(0..n) /\ Cardinality(0..n) = n + 1 /\ IsFiniteSet(1..n)
        /\ Cardinality(1..n) = n
    <2> HIDE DEF n
    <2>1. \A a, b \in Int : /\ IsFiniteSet(a..b)
                            /\ Cardinality(a..b) = IF a > b THEN 0 ELSE b - a + 1
      BY FS_Interval
    <2>2. 0 \in Int /\ 1 \in Int /\ n \in Int BY <1>1
    <2>3. IsFiniteSet(0..n) /\ Cardinality(0..n) = IF 0 > n THEN 0 ELSE n - 0 + 1
      BY <2>1, <2>2
    <2>4. IsFiniteSet(1..n) /\ Cardinality(1..n) = IF 1 > n THEN 0 ELSE n - 1 + 1
      BY <2>1, <2>2
    <2> QED BY <2>3, <2>4, <1>1
  <1>3. /\ IsFiniteSet(Occupied(s)) /\ Cardinality(Occupied(s)) <= n
        /\ Cardinality(Occupied(s)) \in Nat
    <2> DEFINE f == [i \in 1..n |-> s[i].pos]
    <2>1. Occupied(s) \subseteq {f[i] : i \in 1..n}
      BY DEF Occupied
    <2>2. f \in [1..n -> {f[i] : i \in 1..n}] OBVIOUS
    <2>3. f \in Surjection(1..n, {f[i] : i \in 1..n})
      BY <2>2 DEF Surjection
    <2> HIDE DEF f, n
    <2>4. /\ IsFiniteSet({f[i] : i \in 1..n})
          /\ Cardinality({f[i] : i \in 1..n}) <= Cardinality(1..n)
      BY <2>3, <1>2, FS_Surjection
    <2>5. /\ IsFiniteSet(Occupied(s))
          /\ Cardinality(Occupied(s)) <= Cardinality({f[i] : i \in 1..n})
      BY <2>1, <2>4, FS_Subset
    <2>6. Cardinality(Occupied(s)) \in Nat /\ Cardinality({f[i] : i \in 1..n}) \in Nat
      BY <2>4, <2>5, FS_CardinalityType
    <2> QED BY <2>4, <2>5, <2>6, <1>1, <1>2
  <1>4. free # {}
    <2> SUFFICES ASSUME free = {} PROVE FALSE
      OBVIOUS
    <2>1. 0..n \subseteq Occupied(s) BY DEF Occupied
    <2> HIDE DEF n, free, taken
    <2>2. Cardinality(0..n) <= Cardinality(Occupied(s)) BY <2>1, <1>3, FS_Subset
    <2> QED BY <2>2, <1>1, <1>2, <1>3
  <1>5. free \in SUBSET Nat /\ IsFiniteSet(free)
    BY <1>1, <1>2, FS_Subset
  <1>6. FirstFreeInlinePosition(s) = Min(free)
    BY DEF FirstFreeInlinePosition
  <1> HIDE DEF free
  <1>7. Min(free) \in free BY <1>4, <1>5, LeastOf
  <1> QED BY <1>5, <1>6, <1>7 DEF free

\* An attach that names no position, onto a list that does not collide.
LEMMA AttachedHolds ==
  ASSUME NEW s \in Seq(Association), ~Collides(s), NEW m \in Media, NEW role \in Roles,
         NEW pos \in Int
  PROVE  /\ Attached(s, Placed(s, m, role, pos)) \in Seq(Association)
         /\ pos = Nowhere => ~Collides(Attached(s, Placed(s, m, role, pos)))
  <1> DEFINE u == Placed(s, m, role, pos)
             t == Attached(s, u)
  <1>1. FirstFreeInlinePosition(s) \in Int /\ FirstFreeInlinePosition(s) \notin Occupied(s)
    BY FreeInlinePosition
  <1>2. /\ u \in Association /\ u.id = m /\ u.role = role
        /\ pos = Nowhere /\ u.role = "INLINE" => u.pos \notin Occupied(s)
    BY <1>1 DEF Placed, Association
  <1> HIDE DEF u
  <1>3. \A i \in 1..Len(s) : s[i].role = "INLINE" => s[i].pos \in Occupied(s)
    BY DEF Occupied
  <1>4. CASE \E i \in DOMAIN s : s[i].id = u.id
    <2>1. t = [i \in DOMAIN s |-> IF s[i].id = u.id THEN u ELSE s[i]]
      BY <1>4 DEF Attached
    <2>2. t \in Seq(Association) /\ Len(t) = Len(s)
          /\ \A i \in 1..Len(s) : t[i] = IF s[i].id = u.id THEN u ELSE s[i]
      BY <2>1, <1>2
    <2>3. pos = Nowhere => ~Collides(t)
      <3> HIDE DEF t
      <3> SUFFICES ASSUME pos = Nowhere, NEW i \in 1..Len(s), NEW j \in 1..Len(s), i # j
                   PROVE  /\ t[i].id # t[j].id
                          /\ t[i].role = "INLINE" /\ t[j].role = "INLINE" => t[i].pos # t[j].pos
        BY <2>2, Collisions
      <3>1. /\ s[i].id # s[j].id
            /\ s[i].role = "INLINE" /\ s[j].role = "INLINE" => s[i].pos # s[j].pos
        BY Collisions
      <3> QED BY <3>1, <2>2, <1>2, <1>3
    <2> QED BY <2>2, <2>3 DEF u
  <1>5. CASE ~\E i \in DOMAIN s : s[i].id = u.id
    <2>1. t = Append(s, u) BY <1>5 DEF Attached
    <2>2. t \in Seq(Association) /\ Len(t) = Len(s) + 1
          /\ \A i \in 1..(Len(s) + 1) : t[i] = IF i <= Len(s) THEN s[i] ELSE u
      BY <2>1, <1>2
    <2>3. pos = Nowhere => ~Collides(t)
      <3> HIDE DEF t
      <3> SUFFICES ASSUME pos = Nowhere, NEW i \in 1..(Len(s) + 1), NEW j \in 1..(Len(s) + 1),
                          i # j
                   PROVE  /\ t[i].id # t[j].id
                          /\ t[i].role = "INLINE" /\ t[j].role = "INLINE" => t[i].pos # t[j].pos
        BY <2>2, Collisions
      <3>1. CASE i <= Len(s) /\ j <= Len(s)
        <4>1. i \in 1..Len(s) /\ j \in 1..Len(s) BY <3>1
        <4> QED BY <4>1, <2>2, Collisions
      <3>2. CASE i <= Len(s) /\ ~(j <= Len(s))
        <4>1. i \in 1..Len(s) /\ t[i] = s[i] /\ t[j] = u BY <3>2, <2>2
        <4> QED BY <4>1, <1>2, <1>3, <1>5
      <3>3. CASE ~(i <= Len(s)) /\ j <= Len(s)
        <4>1. j \in 1..Len(s) /\ t[j] = s[j] /\ t[i] = u BY <3>3, <2>2
        <4> QED BY <4>1, <1>2, <1>3, <1>5
      <3>4. i <= Len(s) \/ j <= Len(s) OBVIOUS
      <3> QED BY <3>1, <3>2, <3>3, <3>4
    <2> QED BY <2>2, <2>3 DEF u
  <1> QED BY <1>4, <1>5 DEF u

\* A detach leaves out at most one association and moves none.
LEMMA DetachedHolds ==
  ASSUME NEW s \in Seq(Association), ~Collides(s), NEW m \in Media
  PROVE  Detached(s, m) \in Seq(Association) /\ ~Collides(Detached(s, m))
  <1>1. CASE \E i \in DOMAIN s : s[i].id = m
    <2> DEFINE k == CHOOSE i \in DOMAIN s : s[i].id = m
               t == SubSeq(s, 1, k - 1) \o SubSeq(s, k + 1, Len(s))
    <2>0. k \in 1..Len(s) /\ Len(s) \in Nat BY <1>1
    <2>1. Detached(s, m) = t
      <3>1. Detached(s, m) = RemoveAt(s, k) BY <1>1 DEF Detached
      <3> HIDE DEF k
      <3> QED BY <3>1 DEF RemoveAt
    <2> HIDE DEF k
    <2>2. /\ SubSeq(s, 1, k - 1) \in Seq(Association) /\ Len(SubSeq(s, 1, k - 1)) = k - 1
          /\ \A i \in 1..(k - 1) : SubSeq(s, 1, k - 1)[i] = s[i]
      <3>1. \A j \in 1..(k - 1) : j \in 1..Len(s) BY <2>0
      <3> QED BY <2>0, <3>1
    <2>3. /\ SubSeq(s, k + 1, Len(s)) \in Seq(Association)
          /\ Len(SubSeq(s, k + 1, Len(s))) = Len(s) - k
          /\ \A i \in 1..(Len(s) - k) : SubSeq(s, k + 1, Len(s))[i] = s[k + i]
      <3>1. \A j \in (k + 1)..Len(s) : j \in 1..Len(s) BY <2>0
      <3> QED BY <2>0, <3>1
    <2>4. /\ t \in Seq(Association) /\ Len(t) = Len(s) - 1
          /\ \A i \in 1..(Len(s) - 1) : t[i] = IF i < k THEN s[i] ELSE s[i + 1]
      <3> DEFINE front == SubSeq(s, 1, k - 1)
                 back == SubSeq(s, k + 1, Len(s))
      <3>1. t = front \o back /\ front \in Seq(Association) /\ back \in Seq(Association)
            /\ Len(front) = k - 1 /\ Len(back) = Len(s) - k
            /\ (\A i \in 1..(k - 1) : front[i] = s[i])
            /\ \A i \in 1..(Len(s) - k) : back[i] = s[k + i]
        BY <2>2, <2>3
      <3> HIDE DEF front, back, t
      <3>2. t \in Seq(Association) /\ Len(t) = Len(front) + Len(back)
            /\ \A i \in 1..(Len(front) + Len(back)) :
                 t[i] = IF i <= Len(front) THEN front[i] ELSE back[i - Len(front)]
        <4>1. ASSUME NEW a \in Seq(Association), NEW b \in Seq(Association)
              PROVE  /\ a \o b \in Seq(Association) /\ Len(a \o b) = Len(a) + Len(b)
                     /\ \A i \in 1..(Len(a) + Len(b)) :
                          (a \o b)[i] = IF i <= Len(a) THEN a[i] ELSE b[i - Len(a)]
          OBVIOUS
        <4> QED BY <3>1, <4>1
      <3>3. Len(t) = Len(s) - 1 BY <2>0, <3>1, <3>2
      <3>4. ASSUME NEW i \in 1..(Len(s) - 1) PROVE t[i] = IF i < k THEN s[i] ELSE s[i + 1]
        <4>1. t[i] = IF i <= k - 1 THEN front[i] ELSE back[i - (k - 1)]
          BY <2>0, <3>1, <3>2
        <4>2. CASE i < k
          <5>1. i \in 1..(k - 1) BY <2>0, <4>2
          <5> QED BY <4>1, <4>2, <5>1, <3>1, <2>0
        <4>3. CASE ~(i < k)
          <5>1. i - (k - 1) \in 1..(Len(s) - k) /\ k + (i - (k - 1)) = i + 1 /\ ~(i <= k - 1)
            BY <2>0, <4>3
          <5> QED BY <4>1, <4>3, <5>1, <3>1
        <4> QED BY <4>2, <4>3
      <3> QED BY <3>2, <3>3, <3>4
    <2> HIDE DEF t
    <2>5. ~Collides(t)
      <3> SUFFICES ASSUME NEW i \in 1..(Len(s) - 1), NEW j \in 1..(Len(s) - 1), i # j
                   PROVE  /\ t[i].id # t[j].id
                          /\ t[i].role = "INLINE" /\ t[j].role = "INLINE" => t[i].pos # t[j].pos
        BY <2>4, Collisions
      <3> DEFINE a == IF i < k THEN i ELSE i + 1
                 b == IF j < k THEN j ELSE j + 1
      <3>1. a \in 1..Len(s) /\ b \in 1..Len(s) /\ a # b /\ t[i] = s[a] /\ t[j] = s[b]
        BY <2>0, <2>4
      <3> HIDE DEF a, b
      <3> QED BY <3>1, Collisions
    <2> QED BY <2>1, <2>4, <2>5
  <1>2. CASE ~\E i \in DOMAIN s : s[i].id = m
    BY <1>2 DEF Detached
  <1> QED BY <1>1, <1>2

\* A reorder gives inline images the positions of the order.
LEMMA ReorderedHolds ==
  ASSUME draft.media \in Seq(Association), NEW order \in SetToSeqs(Bound)
  PROVE  /\ Reordered(draft.media, order) \in Seq(Association)
         /\ ~Collides(Reordered(draft.media, order))
  <1> DEFINE s == draft.media
             n == Cardinality(Bound)
             At(i) == CHOOSE v \in Range(s) : v.id = order[i]
             t == Reordered(s, order)
  <1>1. n \in Nat
    <2> DEFINE f == [i \in 1..Len(s) |-> s[i].id]
    <2>1. Bound = {f[i] : i \in 1..Len(s)}
      <3>1. DOMAIN s = 1..Len(s) OBVIOUS
      <3> QED BY <3>1 DEF Bound
    <2>2. f \in Surjection(1..Len(s), {f[i] : i \in 1..Len(s)}) BY DEF Surjection
    <2>3. IsFiniteSet(1..Len(s))
      <3>1. 1 \in Int /\ Len(s) \in Int OBVIOUS
      <3> QED BY <3>1, FS_Interval
    <2> HIDE DEF f
    <2> QED BY <2>1, <2>2, <2>3, FS_Surjection, FS_CardinalityType
  <1>2. /\ order \in [1..n -> Bound] /\ DOMAIN order = 1..n
        /\ \A i, j \in 1..n : i # j => order[i] # order[j]
    BY DEF SetToSeqs
  <1>3. \A i \in 1..n : At(i) \in Association /\ At(i).id = order[i]
    <2> SUFFICES ASSUME NEW i \in 1..n PROVE At(i) \in Association /\ At(i).id = order[i]
      OBVIOUS
    <2>1. \E v \in Range(s) : v.id = order[i] BY <1>2 DEF Bound, Range
    <2>2. Range(s) \subseteq Association BY DEF Range
    <2> QED BY <2>1, <2>2
  <1>4. /\ DOMAIN t = 1..n
        /\ \A i \in 1..n :
             t[i] = [At(i) EXCEPT !.pos = IF At(i).role = "INLINE" THEN i - 1 ELSE Nowhere]
    BY <1>2 DEF Reordered
  <1> HIDE DEF At
  <1>5. \A i \in 1..n : /\ t[i] \in Association /\ t[i].id = order[i]
                        /\ t[i].role = "INLINE" => t[i].pos = i - 1
    <2> SUFFICES ASSUME NEW i \in 1..n
                 PROVE  /\ t[i] \in Association /\ t[i].id = order[i]
                        /\ t[i].role = "INLINE" => t[i].pos = i - 1
      OBVIOUS
    <2>1. At(i) \in Association /\ At(i).id = order[i] BY <1>3
    <2>2. t[i] = [At(i) EXCEPT !.pos = IF At(i).role = "INLINE" THEN i - 1 ELSE Nowhere]
      BY <1>4
    <2>3. i - 1 \in Int /\ Nowhere \in Int BY <1>1 DEF Nowhere
    <2> HIDE DEF t, n
    <2> QED BY <2>1, <2>2, <2>3 DEF Association
  <1>6. t = [i \in 1..n |-> t[i]]
    BY <1>2 DEF Reordered
  <1> HIDE DEF t, n
  <1>7. t \in Seq(Association) /\ Len(t) = n
    BY <1>1, <1>5, <1>6
  <1>8. ~Collides(t)
    BY <1>1, <1>2, <1>5, <1>7, Collisions
  <1> QED BY <1>7, <1>8 DEF t

\* A call that is under way comes to no list, or to none any more.
LEMMA OtherCalls ==
  ASSUME ListInv, draft'.media = draft.media, DOMAIN draft' = DOMAIN draft,
         \/ call' = call
         \/ \E c \in Callers : \E r : /\ r.tool \notin ListTools
                                      /\ call' = [call EXCEPT ![c] = r]
  PROVE  ListInv'
  <1>1. CASE call' = call BY <1>1 DEF ListInv, Collides
  <1>2. CASE \E c \in Callers : \E r : r.tool \notin ListTools /\ call' = [call EXCEPT ![c] = r]
    <2>0. PICK c \in Callers : \E r : r.tool \notin ListTools /\ call' = [call EXCEPT ![c] = r]
      BY <1>2
    <2>1. PICK r : r.tool \notin ListTools /\ call' = [call EXCEPT ![c] = r]
      BY <2>0
    <2>2. DOMAIN call' = Callers /\ call'[c] = r /\ \A d \in Callers \ {c} : call'[d] = call[d]
      BY <2>1 DEF ListInv
    <2> QED BY <2>1, <2>2 DEF ListInv, Collides
  <1> QED BY <1>1, <1>2

\* The first request of a call that replaces the list.
LEMMA AssociateKeeps ==
  ASSUME ListInv, NEW c \in Callers, NEW tool \in ListTools, NEW list \in Seq(Association),
         NEW given, Associate(c, tool, list, given), ~given => ~Collides(list)
  PROVE  ListInv'
  <1> DEFINE r == [tool |-> tool, list |-> list, given |-> given]
  <1>1. r.tool = tool /\ r.list = list /\ r.given = given OBVIOUS
  <1>2. call' = [call EXCEPT ![c] = r] /\ draft' = draft
    BY DEF Associate, Then
  <1> HIDE DEF r
  <1>3. DOMAIN call' = Callers /\ call'[c] = r /\ \A d \in Callers \ {c} : call'[d] = call[d]
    BY <1>2 DEF ListInv
  <1> QED BY <1>1, <1>2, <1>3 DEF ListInv, Collides

LEMMA ListKeeps ==
  ASSUME ListInv, DraftNext
  PROVE  ListInv'
  <1>1. Idle.tool \notin ListTools BY DEF Idle, ListTools
  <1>2. ASSUME NEW c \in Callers, Create(c) PROVE ListInv'
    <2>1. draft'.media = draft.media /\ DOMAIN draft' = DOMAIN draft /\ call' = call
      BY <1>2 DEF Create, ListInv
    <2> QED BY <2>1, OtherCalls
  <1>3. ASSUME NEW c \in Callers, NEW tool \in {"update", "publish"}, Look(c, tool) PROVE ListInv'
    <2> DEFINE r == [tool |-> tool]
    <2>1. r.tool \notin ListTools BY DEF ListTools
    <2>2. call' = [call EXCEPT ![c] = r] /\ draft' = draft BY <1>3 DEF Look, Then
    <2> HIDE DEF r
    <2> QED BY <2>1, <2>2, OtherCalls
  <1>4. ASSUME NEW c \in Callers, Update(c) \/ GetAsReviewer(c) \/ Preview(c) PROVE ListInv'
    <2>1. call' = [call EXCEPT ![c] = Idle] /\ draft' = draft
      BY <1>4 DEF Update, GetAsReviewer, Preview, Done
    <2> QED BY <2>1, <1>1, OtherCalls
  <1>5. ASSUME NEW c \in Callers, Publish(c) PROVE ListInv'
    <2>1. call' = [call EXCEPT ![c] = Idle] /\ draft'.media = draft.media
          /\ DOMAIN draft' = DOMAIN draft
      BY <1>5 DEF Publish, Done, ListInv
    <2> QED BY <2>1, <1>1, OtherCalls
  <1>6. ASSUME NEW c \in Callers, NEW r \in Reviewers,
               ShareDraft(c, r) \/ Verdict(r) \/ Revoke(r) PROVE ListInv'
    <2>1. UNCHANGED <<draft, call>> BY <1>6 DEF ShareDraft, Verdict, Revoke
    <2> QED BY <2>1, OtherCalls
  <1>7. ASSUME NEW c \in Callers, GetAsOwner(c) \/ PreviewCheck(c) PROVE ListInv'
    <2>1. draft' = draft /\ (\/ call' = call
                             \/ call' = [call EXCEPT ![c] = [tool |-> "get"]]
                             \/ call' = [call EXCEPT ![c] = [tool |-> "preview"]])
      BY <1>7 DEF GetAsOwner, PreviewCheck, Then
    <2>2. [tool |-> "get"].tool \notin ListTools /\ [tool |-> "preview"].tool \notin ListTools
      BY DEF ListTools
    <2> QED BY <2>1, <2>2, OtherCalls
  <1>8. draft.media \in Seq(Association) /\ ~Collides(draft.media)
    BY DEF ListInv
  <1>9. ASSUME NEW c \in Callers, Attach(c) PROVE ListInv'
    <2>1. PICK m \in Media, role \in Roles, pos \in Nowhere..MaxPosition :
             Associate(c, "attach", Attached(draft.media, Placed(draft.media, m, role, pos)),
                       pos # Nowhere)
      BY <1>9 DEF Attach
    <2> DEFINE list == Attached(draft.media, Placed(draft.media, m, role, pos))
    <2>2. pos \in Int OBVIOUS
    <2>3. list \in Seq(Association) /\ (pos = Nowhere => ~Collides(list))
      BY <1>8, <2>2, AttachedHolds
    <2>4. "attach" \in ListTools BY DEF ListTools
    <2> HIDE DEF list
    <2> QED BY <2>1, <2>3, <2>4, AssociateKeeps DEF list
  <1>10. ASSUME NEW c \in Callers, Detach(c) PROVE ListInv'
    <2>1. PICK m \in Media : Associate(c, "detach", Detached(draft.media, m), FALSE)
      BY <1>10 DEF Detach
    <2>2. Detached(draft.media, m) \in Seq(Association) /\ ~Collides(Detached(draft.media, m))
      BY <1>8, DetachedHolds
    <2>3. "detach" \in ListTools BY DEF ListTools
    <2> QED BY <2>1, <2>2, <2>3, AssociateKeeps
  <1>11. ASSUME NEW c \in Callers, Reorder(c) PROVE ListInv'
    <2>1. PICK order \in SetToSeqs(Bound) :
             Associate(c, "reorder", Reordered(draft.media, order), FALSE)
      BY <1>11 DEF Reorder
    <2>2. Reordered(draft.media, order) \in Seq(Association)
          /\ ~Collides(Reordered(draft.media, order))
      BY <1>8, ReorderedHolds
    <2>3. "reorder" \in ListTools BY DEF ListTools
    <2> QED BY <2>1, <2>2, <2>3, AssociateKeeps
  <1>12. ASSUME NEW c \in Callers, SetMedia(c) PROVE ListInv'
    <2>1. call' = [call EXCEPT ![c] = Idle] BY <1>12 DEF SetMedia, Done
    <2>2. DOMAIN call' = Callers /\ call'[c] = Idle /\ \A d \in Callers \ {c} : call'[d] = call[d]
      BY <2>1 DEF ListInv
    <2>3. call[c].list \in Seq(Association)
      BY <1>12 DEF SetMedia, ListInv
    <2>4. /\ draft'.media = draft.media \/ (draft'.media = call[c].list /\ ~Collides(call[c].list))
          /\ DOMAIN draft' = DOMAIN draft
      <3>1. draft' = draft
            \/ (draft' = [draft EXCEPT !.media = call[c].list] /\ ~Collides(call[c].list))
        BY <1>12 DEF SetMedia
      <3>2. "media" \in DOMAIN draft BY DEF ListInv
      <3> QED BY <3>1, <3>2
    <2>5. draft'.media \in Seq(Association) /\ ~Collides(draft'.media)
      BY <1>8, <2>3, <2>4
    <2>6. Collides(draft.media)' <=> Collides(draft'.media)
      BY DEF Collides
    <2>7. \A d \in Callers : call'[d].tool \in ListTools => call'[d] = call[d]
      BY <2>2, <1>1
    <2>8. \A d \in Callers : Collides(call[d].list)' <=> Collides(call'[d].list)
      BY DEF Collides
    <2> QED BY <2>2, <2>4, <2>5, <2>6, <2>7, <2>8 DEF ListInv
  <1>13. ASSUME NEW m \in Media, Mint(m) \/ Put(m) \/ Expire(m) \/ Finalize(m) \/ GrantState(m)
         PROVE  ListInv'
    <2>1. UNCHANGED <<draft, call>> BY <1>13 DEF Mint, Put, Expire, Finalize, GrantState
    <2> QED BY <2>1, OtherCalls
  <1>14. Agent \in Callers BY DEF Callers
  <1> QED BY <1>2, <1>3, <1>4, <1>5, <1>6, <1>7, <1>9, <1>10, <1>11, <1>12, <1>13, <1>14
        DEF DraftNext

-----------------------------------------------------------------------------
(* What is told *)

\* What the properties say of an answer.
Truthful(a) ==
  /\ a.tool \in {"finalize", "media_state"} =>
       /\ a.said = "mint again" => a.fact \in {"spent", "oversize"}
       /\ a.said = "no such grant" => a.fact = "unknown"
       /\ a.said = "put the bytes" => a.fact \in {"live", "oversize"}
  /\ a.tool = "finalize" /\ a.said = "put the bytes" => a.fact = "live"
  /\ a.tool \in {"promo_release", "promo_read"} =>
       /\ a.said \in {"retry", "no post exists"} => a.fact = "no post"
       /\ a.said = "the post exists" => a.fact = "post"
  /\ a.tool \in {"get", "preview"} /\ a.said = "not found" => a.fact = "barred"

LEMMA TruthfulIsTrue ==
  /\ Truthful(answer) => AdviceIsTrue
  /\ Truthful(answer') => AdviceIsTrue'
  /\ Truthful(NoAnswer)
  BY DEF Truthful, AdviceIsTrue, AdviceMatchesGrant, OutboundPostIsToldTruly,
         AuthorizedReadsAnswer, NoAnswer

\* A message has the class of the first row that names one of its phrases.
LEMMA ClassIs ==
  ASSUME NEW n \in Nat, NEW table, DOMAIN table = 1..n, NEW message, NEW k \in 1..n,
         table[k].phrases \cap message # {},
         \A i \in 1..n : i < k => table[i].phrases \cap message = {}
  PROVE  ClassOf(table, message) = table[k].class
  <1> DEFINE hits == {i \in DOMAIN table : table[i].phrases \cap message # {}}
  <1>1. k \in hits /\ \A i \in hits : k <= i /\ i \in Int
    <2>1. k \in hits OBVIOUS
    <2>2. ASSUME NEW i \in hits PROVE k <= i /\ i \in Int
      <3>1. i \in 1..n /\ ~(i < k) OBVIOUS
      <3> QED BY <3>1
    <2> QED BY <2>1, <2>2
  <1> HIDE DEF hits
  <1>2. Min(hits) = k
    <2>1. Min(hits) = CHOOSE x \in hits : \A y \in hits : x <= y BY DEF Min
    <2>2. \A x \in hits : (\A y \in hits : x <= y) => x = k BY <1>1
    <2> QED BY <2>1, <2>2, <1>1
  <1>3. hits # {} BY <1>1
  <1> QED BY <1>2, <1>3 DEF ClassOf, hits


LEMMA IsEntry ==
  ASSUME NEW e, NEW class, NEW phrases, e = Entry(class, phrases)
  PROVE  e.class = class /\ e.phrases = phrases
  BY DEF Entry

\* The rows of the two tables, and the class of a message they name a phrase of.
LEMMA UploadRows ==
  /\ DOMAIN UploadClasses = 1..6
  /\ UploadClasses[1].class = "expired" /\ UploadClasses[1].phrases = {"expired"}
  /\ UploadClasses[2].class = "not_minted" /\ UploadClasses[2].phrases = {"not minted", "already consumed"}
  /\ UploadClasses[3].class = "digest" /\ UploadClasses[3].phrases = {"do not match", "digest"}
  /\ UploadClasses[4].class = "missing" /\ UploadClasses[4].phrases = {"not found; put", "object not found"}
  /\ UploadClasses[5].class = "empty" /\ UploadClasses[5].phrases = {"is empty"}
  /\ UploadClasses[6].class = "not_found" /\ UploadClasses[6].phrases = {"not found"}
  <1>1. DOMAIN UploadClasses = 1..6 BY DEF UploadClasses
  <1>2. UploadClasses[1].class = "expired" /\ UploadClasses[1].phrases = {"expired"}
    <2>1. UploadClasses[1] = Entry("expired", {"expired"})
      BY DEF UploadClasses
    <2> QED BY <2>1, IsEntry, Zenon
  <1>3. UploadClasses[2].class = "not_minted" /\ UploadClasses[2].phrases = {"not minted", "already consumed"}
    <2> DEFINE both == {"not minted", "already consumed"}
    <2>1. UploadClasses[2] = Entry("not_minted", both)
      BY DEF UploadClasses
    <2> HIDE DEF both
    <2>2. UploadClasses[2].class = "not_minted" /\ UploadClasses[2].phrases = both
      BY <2>1, IsEntry
    <2> QED BY <2>2 DEF both
  <1>4. UploadClasses[3].class = "digest" /\ UploadClasses[3].phrases = {"do not match", "digest"}
    <2> DEFINE both == {"do not match", "digest"}
    <2>1. UploadClasses[3] = Entry("digest", both)
      BY DEF UploadClasses
    <2> HIDE DEF both
    <2>2. UploadClasses[3].class = "digest" /\ UploadClasses[3].phrases = both
      BY <2>1, IsEntry
    <2> QED BY <2>2 DEF both
  <1>5. UploadClasses[4].class = "missing" /\ UploadClasses[4].phrases = {"not found; put", "object not found"}
    <2> DEFINE both == {"not found; put", "object not found"}
    <2>1. UploadClasses[4] = Entry("missing", both)
      BY DEF UploadClasses
    <2> HIDE DEF both
    <2>2. UploadClasses[4].class = "missing" /\ UploadClasses[4].phrases = both
      BY <2>1, IsEntry
    <2> QED BY <2>2 DEF both
  <1>6. UploadClasses[5].class = "empty" /\ UploadClasses[5].phrases = {"is empty"}
    <2>1. UploadClasses[5] = Entry("empty", {"is empty"})
      BY DEF UploadClasses
    <2> QED BY <2>1, IsEntry, Zenon
  <1>7. UploadClasses[6].class = "not_found" /\ UploadClasses[6].phrases = {"not found"}
    <2>1. UploadClasses[6] = Entry("not_found", {"not found"})
      BY DEF UploadClasses
    <2> QED BY <2>1, IsEntry, Zenon
  <1> QED BY <1>1, <1>2, <1>3, <1>4, <1>5, <1>6, <1>7

LEMMA UploadClass ==
  ASSUME NEW message, NEW k \in 1..6,
         UploadClasses[k].phrases \cap message # {},
         \A i \in 1..(k - 1) : UploadClasses[i].phrases \cap message = {}
  PROVE  ClassOf(UploadClasses, message) = UploadClasses[k].class
  <1> DEFINE n == 6
  <1>1. n \in Nat /\ DOMAIN UploadClasses = 1..n BY UploadRows
  <1>2. k \in 1..n OBVIOUS
  <1>3. ASSUME NEW i \in 1..n, i < k PROVE UploadClasses[i].phrases \cap message = {}
    <2>1. i \in 1..(k - 1) BY <1>3
    <2> QED BY <2>1
  <1> HIDE DEF n
  <1> QED BY <1>1, <1>2, <1>3, ClassIs

LEMMA PromoRows ==
  /\ DOMAIN PromoClasses = 1..10
  /\ PromoClasses[1].class = "stamp_failed" /\ PromoClasses[1].phrases = {"created status but could not stamp"}
  /\ PromoClasses[2].class = "releasing" /\ PromoClasses[2].phrases = {"release is already in progress"}
  /\ PromoClasses[3].class = "released" /\ PromoClasses[3].phrases = {"is already released"}
  /\ PromoClasses[4].class = "content_changed" /\ PromoClasses[4].phrases = {"content changed since the reviewer"}
  /\ PromoClasses[5].class = "conflict" /\ PromoClasses[5].phrases = {"changed concurrently"}
  /\ PromoClasses[6].class = "approval" /\ PromoClasses[6].phrases = {"requires approval from every required reviewer"}
  /\ PromoClasses[7].class = "principal" /\ PromoClasses[7].phrases = {"requires an active approval"}
  /\ PromoClasses[8].class = "not_found" /\ PromoClasses[8].phrases = {"not found"}
  /\ PromoClasses[9].class = "validation" /\ PromoClasses[9].phrases = {"grant is not active"}
  /\ PromoClasses[10].class = "unavailable" /\ PromoClasses[10].phrases = {"unavailable"}
  <1>1. DOMAIN PromoClasses = 1..10 BY DEF PromoClasses
  <1>2. PromoClasses[1].class = "stamp_failed" /\ PromoClasses[1].phrases = {"created status but could not stamp"}
    <2>1. PromoClasses[1] = Entry("stamp_failed", {"created status but could not stamp"})
      BY DEF PromoClasses
    <2> QED BY <2>1, IsEntry, Zenon
  <1>3. PromoClasses[2].class = "releasing" /\ PromoClasses[2].phrases = {"release is already in progress"}
    <2>1. PromoClasses[2] = Entry("releasing", {"release is already in progress"})
      BY DEF PromoClasses
    <2> QED BY <2>1, IsEntry, Zenon
  <1>4. PromoClasses[3].class = "released" /\ PromoClasses[3].phrases = {"is already released"}
    <2>1. PromoClasses[3] = Entry("released", {"is already released"})
      BY DEF PromoClasses
    <2> QED BY <2>1, IsEntry, Zenon
  <1>5. PromoClasses[4].class = "content_changed" /\ PromoClasses[4].phrases = {"content changed since the reviewer"}
    <2>1. PromoClasses[4] = Entry("content_changed", {"content changed since the reviewer"})
      BY DEF PromoClasses
    <2> QED BY <2>1, IsEntry, Zenon
  <1>6. PromoClasses[5].class = "conflict" /\ PromoClasses[5].phrases = {"changed concurrently"}
    <2>1. PromoClasses[5] = Entry("conflict", {"changed concurrently"})
      BY DEF PromoClasses
    <2> QED BY <2>1, IsEntry, Zenon
  <1>7. PromoClasses[6].class = "approval" /\ PromoClasses[6].phrases = {"requires approval from every required reviewer"}
    <2>1. PromoClasses[6] = Entry("approval", {"requires approval from every required reviewer"})
      BY DEF PromoClasses
    <2> QED BY <2>1, IsEntry, Zenon
  <1>8. PromoClasses[7].class = "principal" /\ PromoClasses[7].phrases = {"requires an active approval"}
    <2>1. PromoClasses[7] = Entry("principal", {"requires an active approval"})
      BY DEF PromoClasses
    <2> QED BY <2>1, IsEntry, Zenon
  <1>9. PromoClasses[8].class = "not_found" /\ PromoClasses[8].phrases = {"not found"}
    <2>1. PromoClasses[8] = Entry("not_found", {"not found"})
      BY DEF PromoClasses
    <2> QED BY <2>1, IsEntry, Zenon
  <1>10. PromoClasses[9].class = "validation" /\ PromoClasses[9].phrases = {"grant is not active"}
    <2>1. PromoClasses[9] = Entry("validation", {"grant is not active"})
      BY DEF PromoClasses
    <2> QED BY <2>1, IsEntry, Zenon
  <1>11. PromoClasses[10].class = "unavailable" /\ PromoClasses[10].phrases = {"unavailable"}
    <2>1. PromoClasses[10] = Entry("unavailable", {"unavailable"})
      BY DEF PromoClasses
    <2> QED BY <2>1, IsEntry, Zenon
  <1> QED BY <1>1, <1>2, <1>3, <1>4, <1>5, <1>6, <1>7, <1>8, <1>9, <1>10, <1>11

LEMMA PromoClass ==
  ASSUME NEW message, NEW k \in 1..10,
         PromoClasses[k].phrases \cap message # {},
         \A i \in 1..(k - 1) : PromoClasses[i].phrases \cap message = {}
  PROVE  ClassOf(PromoClasses, message) = PromoClasses[k].class
  <1> DEFINE n == 10
  <1>1. n \in Nat /\ DOMAIN PromoClasses = 1..n BY PromoRows
  <1>2. k \in 1..n OBVIOUS
  <1>3. ASSUME NEW i \in 1..n, i < k PROVE PromoClasses[i].phrases \cap message = {}
    <2>1. i \in 1..(k - 1) BY <1>3
    <2> QED BY <2>1
  <1> HIDE DEF n
  <1> QED BY <1>1, <1>2, <1>3, ClassIs

\* What an upload grant's state is advised, a completed PUT beyond the cap and
\* one that never happened having one message.
LEMMA UploadAdvice ==
  ASSUME NEW state \in ({"none"} \cup StillOpen \cup UsedUp) \ {"STORED"}
  PROVE  Advice(ClassOf(UploadClasses, GrantMessage[state]), PutCompleted(state)) =
           IF state = "none" THEN "no such grant"
           ELSE IF state \in {"MINTED", "EMPTY"} THEN "put the bytes" ELSE "mint again"
  <1>1. CASE state = "none"
    <2> DEFINE msg == {"not found"}
    <2>1. GrantMessage[state] = msg BY <1>1 DEF GrantMessage
    <2>2. ASSUME NEW i \in 1..5 PROVE UploadClasses[i].phrases \cap msg = {}
      <3>1. i = 1 \/ i = 2 \/ i = 3 \/ i = 4 \/ i = 5 OBVIOUS
      <3> QED BY <3>1, UploadRows
    <2>3. UploadClasses[6].phrases \cap msg # {} /\ UploadClasses[6].class = "not_found" BY UploadRows
    <2> HIDE DEF msg
    <2>4. ClassOf(UploadClasses, msg) = "not_found"
      <3> DEFINE k == 6
      <3>1. k \in 1..6 /\ k - 1 = 5 OBVIOUS
      <3>2. UploadClasses[k].phrases \cap msg # {} /\ UploadClasses[k].class = "not_found" BY <2>3
      <3>3. \A i \in 1..(k - 1) : UploadClasses[i].phrases \cap msg = {} BY <2>2, <3>1
      <3> HIDE DEF k
      <3> QED BY <3>1, <3>2, <3>3, UploadClass
    <2> QED BY <1>1, <2>1, <2>4 DEF Advice
  <1>2. CASE state = "EXPIRED"
    <2> DEFINE msg == {"expired"}
    <2>1. GrantMessage[state] = msg BY <1>2 DEF GrantMessage
    <2>2. \A i \in 1..0 : UploadClasses[i].phrases \cap msg = {} OBVIOUS
    <2>3. UploadClasses[1].phrases \cap msg # {} /\ UploadClasses[1].class = "expired" BY UploadRows
    <2> HIDE DEF msg
    <2>4. ClassOf(UploadClasses, msg) = "expired"
      <3> DEFINE k == 1
      <3>1. k \in 1..6 /\ k - 1 = 0 OBVIOUS
      <3>2. UploadClasses[k].phrases \cap msg # {} /\ UploadClasses[k].class = "expired" BY <2>3
      <3>3. \A i \in 1..(k - 1) : UploadClasses[i].phrases \cap msg = {} BY <2>2, <3>1
      <3> HIDE DEF k
      <3> QED BY <3>1, <3>2, <3>3, UploadClass
    <2> QED BY <1>2, <2>1, <2>4 DEF Advice
  <1>3. CASE state = "USED"
    <2> DEFINE msg == {"not minted"}
    <2>1. GrantMessage[state] = msg BY <1>3 DEF GrantMessage
    <2>2. ASSUME NEW i \in 1..1 PROVE UploadClasses[i].phrases \cap msg = {}
      <3>1. i = 1 OBVIOUS
      <3> QED BY <3>1, UploadRows
    <2>3. UploadClasses[2].phrases \cap msg # {} /\ UploadClasses[2].class = "not_minted" BY UploadRows
    <2> HIDE DEF msg
    <2>4. ClassOf(UploadClasses, msg) = "not_minted"
      <3> DEFINE k == 2
      <3>1. k \in 1..6 /\ k - 1 = 1 OBVIOUS
      <3>2. UploadClasses[k].phrases \cap msg # {} /\ UploadClasses[k].class = "not_minted" BY <2>3
      <3>3. \A i \in 1..(k - 1) : UploadClasses[i].phrases \cap msg = {} BY <2>2, <3>1
      <3> HIDE DEF k
      <3> QED BY <3>1, <3>2, <3>3, UploadClass
    <2> QED BY <1>3, <2>1, <2>4 DEF Advice
  <1>4. CASE state = "FAILED_DIGEST"
    <2> DEFINE msg == {"not minted"}
    <2>1. GrantMessage[state] = msg BY <1>4 DEF GrantMessage
    <2>2. ASSUME NEW i \in 1..1 PROVE UploadClasses[i].phrases \cap msg = {}
      <3>1. i = 1 OBVIOUS
      <3> QED BY <3>1, UploadRows
    <2>3. UploadClasses[2].phrases \cap msg # {} /\ UploadClasses[2].class = "not_minted" BY UploadRows
    <2> HIDE DEF msg
    <2>4. ClassOf(UploadClasses, msg) = "not_minted"
      <3> DEFINE k == 2
      <3>1. k \in 1..6 /\ k - 1 = 1 OBVIOUS
      <3>2. UploadClasses[k].phrases \cap msg # {} /\ UploadClasses[k].class = "not_minted" BY <2>3
      <3>3. \A i \in 1..(k - 1) : UploadClasses[i].phrases \cap msg = {} BY <2>2, <3>1
      <3> HIDE DEF k
      <3> QED BY <3>1, <3>2, <3>3, UploadClass
    <2> QED BY <1>4, <2>1, <2>4 DEF Advice
  <1>5. CASE state \in {"MINTED", "OVERSIZE"}
    <2> DEFINE msg == {"not found; put", "object not found", "not found"}
    <2>1. GrantMessage[state] = msg
      <3>1. CASE state = "MINTED" BY <3>1 DEF GrantMessage
      <3>2. CASE state = "OVERSIZE" BY <3>2 DEF GrantMessage
      <3> QED BY <1>5, <3>1, <3>2
    <2>2. ASSUME NEW i \in 1..3 PROVE UploadClasses[i].phrases \cap msg = {}
      <3>1. i = 1 \/ i = 2 \/ i = 3 OBVIOUS
      <3> QED BY <3>1, UploadRows
    <2>3. UploadClasses[4].phrases \cap msg # {} /\ UploadClasses[4].class = "missing" BY UploadRows
    <2> HIDE DEF msg
    <2>4. ClassOf(UploadClasses, msg) = "missing"
      <3> DEFINE k == 4
      <3>1. k \in 1..6 /\ k - 1 = 3 OBVIOUS
      <3>2. UploadClasses[k].phrases \cap msg # {} /\ UploadClasses[k].class = "missing" BY <2>3
      <3>3. \A i \in 1..(k - 1) : UploadClasses[i].phrases \cap msg = {} BY <2>2, <3>1
      <3> HIDE DEF k
      <3> QED BY <3>1, <3>2, <3>3, UploadClass
    <2> QED BY <1>5, <2>1, <2>4 DEF Advice, PutCompleted
  <1>6. CASE state = "EMPTY"
    <2> DEFINE msg == {"is empty"}
    <2>1. GrantMessage[state] = msg BY <1>6 DEF GrantMessage
    <2>2. ASSUME NEW i \in 1..4 PROVE UploadClasses[i].phrases \cap msg = {}
      <3>1. i = 1 \/ i = 2 \/ i = 3 \/ i = 4 OBVIOUS
      <3> QED BY <3>1, UploadRows
    <2>3. UploadClasses[5].phrases \cap msg # {} /\ UploadClasses[5].class = "empty" BY UploadRows
    <2> HIDE DEF msg
    <2>4. ClassOf(UploadClasses, msg) = "empty"
      <3> DEFINE k == 5
      <3>1. k \in 1..6 /\ k - 1 = 4 OBVIOUS
      <3>2. UploadClasses[k].phrases \cap msg # {} /\ UploadClasses[k].class = "empty" BY <2>3
      <3>3. \A i \in 1..(k - 1) : UploadClasses[i].phrases \cap msg = {} BY <2>2, <3>1
      <3> HIDE DEF k
      <3> QED BY <3>1, <3>2, <3>3, UploadClass
    <2> QED BY <1>6, <2>1, <2>4 DEF Advice
  <1>7. CASE state = "WRONG"
    <2> DEFINE msg == {"do not match"}
    <2>1. GrantMessage[state] = msg BY <1>7 DEF GrantMessage
    <2>2. ASSUME NEW i \in 1..2 PROVE UploadClasses[i].phrases \cap msg = {}
      <3>1. i = 1 \/ i = 2 OBVIOUS
      <3> QED BY <3>1, UploadRows
    <2>3. UploadClasses[3].phrases \cap msg # {} /\ UploadClasses[3].class = "digest" BY UploadRows
    <2> HIDE DEF msg
    <2>4. ClassOf(UploadClasses, msg) = "digest"
      <3> DEFINE k == 3
      <3>1. k \in 1..6 /\ k - 1 = 2 OBVIOUS
      <3>2. UploadClasses[k].phrases \cap msg # {} /\ UploadClasses[k].class = "digest" BY <2>3
      <3>3. \A i \in 1..(k - 1) : UploadClasses[i].phrases \cap msg = {} BY <2>2, <3>1
      <3> HIDE DEF k
      <3> QED BY <3>1, <3>2, <3>3, UploadClass
    <2> QED BY <1>7, <2>1, <2>4 DEF Advice
  <1> QED BY <1>1, <1>2, <1>3, <1>4, <1>5, <1>6, <1>7 DEF StillOpen, UsedUp

-----------------------------------------------------------------------------
(* The answers of the draft tools *)

LEMMA UploadKeeps ==
  ASSUME UploadInv, DraftNext
  PROVE  UploadInv'
  <1> DEFINE States == {"none"} \cup StillOpen \cup UsedUp
  <1>1. \A m \in Media : upload[m] \in States BY DEF UploadInv
  <1>2. ASSUME NEW m \in Media, NEW s \in States, upload' = [upload EXCEPT ![m] = s]
        PROVE  UploadInv'
    BY <1>2 DEF UploadInv
  <1>3. ASSUME NEW m \in Media, Mint(m) \/ Put(m) \/ Expire(m) \/ Finalize(m)
        PROVE  \E s \in States : upload' = [upload EXCEPT ![m] = s]
    <2>1. CASE Mint(m) BY <2>1 DEF Mint, StillOpen
    <2>2. CASE Put(m) BY <2>2 DEF Put, StillOpen
    <2>3. CASE Expire(m) BY <2>3 DEF Expire, UsedUp
    <2>4. CASE Finalize(m)
      <3>1. upload' = [upload EXCEPT ![m] = Finalized(upload[m])]
        BY <2>4 DEF Finalize, UploadInv
      <3>2. Finalized(upload[m]) \in States
        BY <1>1 DEF Finalized, StillOpen, UsedUp
      <3> QED BY <3>1, <3>2
    <2> QED BY <1>3, <2>1, <2>2, <2>3, <2>4
  <1>4. CASE \E m \in Media : Mint(m) \/ Put(m) \/ Expire(m) \/ Finalize(m)
    BY <1>2, <1>3, <1>4
  <1>5. CASE UNCHANGED upload BY <1>5 DEF UploadInv
  <1>6. ASSUME NEW c \in Callers,
               \/ Create(c) \/ (\E tool \in {"update", "publish"} : Look(c, tool))
               \/ Update(c) \/ Publish(c)
               \/ (\E r \in Reviewers : ShareDraft(c, r))
               \/ GetAsOwner(c) \/ GetAsReviewer(c)
               \/ PreviewCheck(c) \/ Preview(c)
               \/ Attach(c) \/ Detach(c) \/ Reorder(c) \/ SetMedia(c)
        PROVE  UNCHANGED upload
    BY <1>6 DEF Create, Look, Update, Publish, ShareDraft, GetAsOwner, GetAsReviewer,
                PreviewCheck, Preview, Attach, Detach, Reorder, Associate, SetMedia
  <1>7. ASSUME NEW r \in Reviewers, Verdict(r) \/ Revoke(r) PROVE UNCHANGED upload
    BY <1>7 DEF Verdict, Revoke
  <1>8. ASSUME NEW m \in Media, GrantState(m) PROVE UNCHANGED upload
    BY <1>8 DEF GrantState
  <1> QED BY <1>4, <1>5, <1>6, <1>7, <1>8 DEF DraftNext

\* Whoever may read the draft is not told that it is not found.
LEMMA ReadsAnswerTruly ==
  ASSUME NEW c \in Callers, GetAsOwner(c) \/ GetAsReviewer(c) \/ PreviewCheck(c) \/ Preview(c)
  PROVE  Truthful(answer')
  <1>1. ASSUME NEW tool \in {"get", "preview"}, NEW shown \in BOOLEAN, Told(c, tool, shown),
               ~shown => ~Entitled(c)
        PROVE  Truthful(answer')
    <2>1. answer'.tool = tool /\ (answer'.said = "not found" => answer'.fact = "barred")
      BY <1>1 DEF Told, Says
    <2> QED BY <2>1 DEF Truthful
  <1>2. CASE answer' = NoAnswer BY <1>2, TruthfulIsTrue
  <1>3. CASE GetAsOwner(c)
    <2>1. CASE ActsAs(c) = Agent
      <3>1. Told(c, "get", draft.state = "DRAFT" /\ OwnedByCaller(c))
        BY <1>3, <2>1 DEF GetAsOwner
      <3>2. OwnedByCaller(c) BY <2>1 DEF OwnedByCaller, AuthorScope, ActsAs
      <3> QED BY <1>1, <3>1, <3>2 DEF Entitled
    <2>2. CASE ActsAs(c) # Agent
      BY <1>2, <1>3, <2>2 DEF GetAsOwner, NotFoundShapes, LookupNotFound
    <2> QED BY <2>1, <2>2
  <1>4. CASE GetAsReviewer(c)
    <2>1. Told(c, "get", MayRead(c) /\ draft.state = "DRAFT") BY <1>4 DEF GetAsReviewer
    <2> QED BY <1>1, <2>1 DEF Entitled, MayRead
  <1>5. CASE PreviewCheck(c)
    <2>1. CASE MayRead(c) /\ draft.state = "DRAFT" BY <1>2, <1>5, <2>1 DEF PreviewCheck
    <2>2. CASE ~(MayRead(c) /\ draft.state = "DRAFT")
      <3>1. Told(c, "preview", FALSE) BY <1>5, <2>2 DEF PreviewCheck
      <3> QED BY <1>1, <2>2, <3>1 DEF Entitled
    <2> QED BY <2>1, <2>2
  <1>6. CASE Preview(c)
    <2>1. Told(c, "preview", MayRead(c)) BY <1>6 DEF Preview
    <2> QED BY <1>1, <2>1 DEF Entitled, MayRead
  <1> QED BY <1>3, <1>4, <1>5, <1>6

\* What a finalize and a look at a grant advise fits the grant.
LEMMA GrantsAnswerTruly ==
  ASSUME UploadInv, NEW m \in Media, Finalize(m) \/ GrantState(m)
  PROVE  Truthful(answer')
  <1>1. upload[m] \in {"none"} \cup StillOpen \cup UsedUp BY DEF UploadInv
  <1>2. CASE answer' = NoAnswer BY <1>2, TruthfulIsTrue
  <1>3. CASE Finalize(m) /\ answer' # NoAnswer
    <2> DEFINE class == ClassOf(UploadClasses, GrantMessage[upload[m]])
               completed == PutCompleted(upload[m])
               fact == GrantFact(upload'[m])
    <2>1. upload[m] # "STORED" /\ answer' = Says("finalize", Advice(class, completed), fact)
      BY <1>3 DEF Finalize
    <2>2. upload'[m] = Finalized(upload[m]) BY <1>3 DEF Finalize, UploadInv
    <2>3. Advice(class, completed) =
                          IF upload[m] = "none" THEN "no such grant"
                          ELSE IF upload[m] \in {"MINTED", "EMPTY"} THEN "put the bytes"
                          ELSE "mint again"
      BY <1>1, <2>1, UploadAdvice
    <2>4. fact = IF upload[m] = "none" THEN "unknown"
                 ELSE IF upload[m] \in {"MINTED", "EMPTY"} THEN "live"
                 ELSE IF upload[m] = "OVERSIZE" THEN "oversize" ELSE "spent"
      BY <1>1, <2>1, <2>2 DEF GrantFact, Finalized, StillOpen, UsedUp
    <2>5. /\ Advice(class, completed) = "mint again" => fact \in {"spent", "oversize"}
          /\ Advice(class, completed) = "put the bytes" => fact = "live"
          /\ Advice(class, completed) = "no such grant" => fact = "unknown"
      BY <2>3, <2>4
    <2> HIDE DEF class, completed, fact
    <2>6. /\ answer'.tool = "finalize" /\ answer'.said = Advice(class, completed)
          /\ answer'.fact = fact
      BY <2>1 DEF Says
    <2> QED BY <2>5, <2>6 DEF Truthful
  <1>4. CASE GrantState(m)
    <2>1. /\ answer'.tool = "media_state"
          /\ answer'.said = IF upload[m] = "none" THEN "no such grant"
                            ELSE IF EnvelopeState(upload[m]) = "received"
                            THEN "put the bytes"
                            ELSE IF EnvelopeState(upload[m]) = "ready_internal"
                            THEN "admitted" ELSE "mint again"
          /\ answer'.fact = GrantFact(upload[m])
      BY <1>4 DEF GrantState, Says
    <2>2. /\ answer'.said = "mint again" => answer'.fact = "spent"
          /\ answer'.said = "put the bytes" => answer'.fact \in {"live", "oversize"}
          /\ answer'.said = "no such grant" => answer'.fact = "unknown"
      BY <1>1, <2>1 DEF GrantFact, EnvelopeState, StillOpen, UsedUp
    <2> QED BY <2>1, <2>2 DEF Truthful
  <1> QED BY <1>2, <1>3, <1>4

LEMMA DraftAnswersTruly ==
  ASSUME UploadInv, DraftNext
  PROVE  Truthful(answer')
  <1>1. ASSUME NEW c \in Callers,
               \/ Create(c) \/ (\E tool \in {"update", "publish"} : Look(c, tool))
               \/ Update(c) \/ Publish(c)
               \/ (\E r \in Reviewers : ShareDraft(c, r))
               \/ Attach(c) \/ Detach(c) \/ Reorder(c) \/ SetMedia(c)
        PROVE  answer' = NoAnswer
    BY <1>1 DEF Create, Look, Update, Publish, ShareDraft, Attach, Detach, Reorder,
                Associate, SetMedia
  <1>2. ASSUME NEW r \in Reviewers, Verdict(r) \/ Revoke(r) PROVE answer' = NoAnswer
    BY <1>2 DEF Verdict, Revoke
  <1>3. ASSUME NEW m \in Media, Mint(m) \/ Put(m) \/ Expire(m) PROVE answer' = NoAnswer
    BY <1>3 DEF Mint, Put, Expire
  <1>4. CASE answer' = NoAnswer BY <1>4, TruthfulIsTrue
  <1> QED BY <1>1, <1>2, <1>3, <1>4, ReadsAnswerTruly, GrantsAnswerTruly DEF DraftNext

-----------------------------------------------------------------------------
(* The package *)

Packages == [state : {"none", "DRAFT", "RELEASING", "RELEASED"}, hash : Nat,
             needed : SUBSET Reviewers, active : SUBSET Reviewers,
             approved : SUBSET Reviewers]

\* Who approved has inspected what is to be posted; who is asked stays asked.
ApprovedIsInspected(p, seen) ==
  /\ p.approved \subseteq p.active /\ p.active \subseteq p.needed
  /\ \A r \in p.approved : p.hash \in seen[r]

\* A package is reserved with every approval, and posted at most once.
ReservedIsApproved(p, step, posts) ==
  /\ p.state \in {"RELEASING", "RELEASED"} =>
       p.needed \subseteq p.approved /\ Principal \in p.approved
  /\ \/ posts = << >>
     \/ posts = <<p.hash>> /\ p.state \in {"RELEASING", "RELEASED"}
  /\ p.state = "RELEASED" => posts # << >>
  /\ step \in {"idle", "reserved", "posted"}
  /\ step # "idle" => p.state = "RELEASING"
  /\ step = "reserved" => posts = << >>
  /\ step = "posted" => posts # << >>

PackageInv ==
  /\ pkg \in Packages
  /\ inspected \in [Reviewers -> SUBSET Nat]
  /\ ApprovedIsInspected(pkg, inspected)
  /\ ReservedIsApproved(pkg, release, post)

LEMMA PackageIsInspected ==
  ASSUME PackageInv
  PROVE  ReleasedWasInspected
  <1>1. CASE post = << >> BY <1>1 DEF ReleasedWasInspected
  <1>2. CASE post = <<pkg.hash>> /\ pkg.state \in {"RELEASING", "RELEASED"}
    <2>1. pkg.needed \subseteq pkg.approved /\ Principal \in pkg.approved
      BY <1>2 DEF PackageInv, ReservedIsApproved
    <2>2. \A r \in pkg.needed \cup {Principal} : pkg.hash \in inspected[r]
      BY <2>1 DEF PackageInv, ApprovedIsInspected
    <2>3. \A i \in DOMAIN post : post[i] = pkg.hash BY <1>2
    <2> QED BY <2>2, <2>3 DEF ReleasedWasInspected
  <1> QED BY <1>1, <1>2 DEF PackageInv, ReservedIsApproved

\* A package still open to change has no post, and no release is under way.
LEMMA OpenPackage ==
  ASSUME PackageInv, pkg.state \in {"none", "DRAFT"}
  PROVE  post = << >> /\ release = "idle"
  BY DEF PackageInv, ReservedIsApproved

\* A package changed while it is open stays open.
LEMMA OpenChange ==
  ASSUME PackageInv, pkg.state \in {"none", "DRAFT"}, UNCHANGED <<release, post, inspected>>,
         pkg' \in Packages, pkg'.state = "DRAFT", ApprovedIsInspected(pkg', inspected)
  PROVE  PackageInv'
  <1>1. post' = << >> /\ release' = "idle" BY OpenPackage
  <1>2. ReservedIsApproved(pkg', release', post') BY <1>1 DEF ReservedIsApproved
  <1> QED BY <1>2 DEF PackageInv

LEMMA PromoKeeps ==
  ASSUME PackageInv, PromoNext
  PROVE  PackageInv'
  <1>1. ASSUME NEW c \in Callers, Compose(c) PROVE PackageInv'
    <2> DEFINE h == pkg.hash + 1
    <2>0. h \in Nat BY DEF PackageInv, Packages
    <2>1. pkg' = [pkg EXCEPT !.state = "DRAFT", !.hash = h, !.approved = {}]
      BY <1>1 DEF Compose
    <2> HIDE DEF h
    <2>2. /\ pkg' \in Packages /\ pkg'.state = "DRAFT" /\ pkg'.approved = {}
          /\ pkg'.active = pkg.active /\ pkg'.needed = pkg.needed
      BY <2>0, <2>1 DEF PackageInv, Packages
    <2>3. ApprovedIsInspected(pkg', inspected)
      BY <2>2 DEF PackageInv, ApprovedIsInspected
    <2> QED BY <1>1, <2>2, <2>3, OpenChange DEF Compose
  <1>2. ASSUME NEW c \in Callers, NEW r \in Reviewers, SharePackage(c, r) PROVE PackageInv'
    <2>1. pkg' = [pkg EXCEPT !.needed = pkg.needed \cup {r}, !.active = pkg.active \cup {r}]
      BY <1>2 DEF SharePackage, PackageInv, Packages
    <2>2. /\ pkg' \in Packages /\ pkg'.state = pkg.state /\ pkg'.approved = pkg.approved
          /\ pkg'.active = pkg.active \cup {r} /\ pkg'.needed = pkg.needed \cup {r}
          /\ pkg'.hash = pkg.hash
      BY <2>1 DEF PackageInv, Packages
    <2>3. ApprovedIsInspected(pkg', inspected)
      BY <2>2 DEF PackageInv, ApprovedIsInspected
    <2> QED BY <1>2, <2>2, <2>3, OpenChange DEF SharePackage
  <1>3. ASSUME NEW r \in Reviewers, RevokePackage(r) PROVE PackageInv'
    <2>1. pkg' = [pkg EXCEPT !.active = pkg.active \ {r}, !.approved = pkg.approved \ {r}]
      BY <1>3 DEF RevokePackage, PackageInv, Packages
    <2>2. /\ pkg' \in Packages /\ pkg'.state = pkg.state /\ pkg'.approved = pkg.approved \ {r}
          /\ pkg'.active = pkg.active \ {r} /\ pkg'.needed = pkg.needed
          /\ pkg'.hash = pkg.hash
      BY <2>1 DEF PackageInv, Packages
    <2>3. ApprovedIsInspected(pkg', inspected)
      BY <2>2 DEF PackageInv, ApprovedIsInspected
    <2> QED BY <1>3, <2>2, <2>3, OpenChange DEF RevokePackage
  <1>4. ASSUME NEW r \in Reviewers, SubmitVerdict(r) PROVE PackageInv'
    <2>1. PICK h \in Hashes, approves \in BOOLEAN :
             /\ h \in inspected[r] /\ h = pkg.hash
             /\ pkg' = [pkg EXCEPT !.approved =
                           IF approves THEN @ \cup {r} ELSE @ \ {r}]
      BY <1>4 DEF SubmitVerdict, SentHash
    <2>2. /\ pkg' \in Packages /\ pkg'.state = pkg.state /\ pkg'.hash = pkg.hash
          /\ pkg'.active = pkg.active /\ pkg'.needed = pkg.needed
          /\ pkg'.approved \subseteq pkg.approved \cup {r}
      BY <2>1 DEF PackageInv, Packages
    <2>3. r \in pkg.active BY <1>4 DEF SubmitVerdict
    <2>4. ApprovedIsInspected(pkg', inspected)
      BY <2>1, <2>2, <2>3 DEF PackageInv, ApprovedIsInspected
    <2> QED BY <1>4, <2>2, <2>4, OpenChange DEF SubmitVerdict
  <1>5. ASSUME NEW c \in Callers, ReadPackage(c) PROVE PackageInv'
    <2>1. UNCHANGED <<pkg, release, post>> BY <1>5 DEF ReadPackage
    <2>2. /\ inspected' \in [Reviewers -> SUBSET Nat]
          /\ \A r \in Reviewers : inspected[r] \subseteq inspected'[r]
      <3>1. pkg.hash \in Nat BY DEF PackageInv, Packages
      <3>2. CASE c \in Reviewers
        <4>1. inspected' = [inspected EXCEPT ![c] = inspected[c] \cup {pkg.hash}]
          BY <1>5, <3>2 DEF ReadPackage
        <4> QED BY <3>1, <3>2, <4>1 DEF PackageInv
      <3>3. CASE c \notin Reviewers BY <1>5, <3>3 DEF ReadPackage, PackageInv
      <3> QED BY <3>2, <3>3
    <2>3. pkg.approved \subseteq Reviewers BY DEF PackageInv, Packages
    <2>4. ApprovedIsInspected(pkg, inspected')
      BY <2>2, <2>3 DEF PackageInv, ApprovedIsInspected
    <2> QED BY <2>1, <2>2, <2>4 DEF PackageInv
  <1>6. ASSUME NEW s \in {"DRAFT", "RELEASING", "RELEASED"}, pkg' = [pkg EXCEPT !.state = s],
               UNCHANGED inspected, ReservedIsApproved(pkg', release', post')
        PROVE  PackageInv'
    <2>1. /\ pkg' \in Packages /\ pkg'.approved = pkg.approved /\ pkg'.hash = pkg.hash
          /\ pkg'.active = pkg.active /\ pkg'.needed = pkg.needed
      BY <1>6 DEF PackageInv, Packages
    <2>2. ApprovedIsInspected(pkg', inspected') BY <1>6, <2>1 DEF PackageInv, ApprovedIsInspected
    <2> QED BY <1>6, <2>1, <2>2 DEF PackageInv
  <1>7. ASSUME NEW s \in {"DRAFT", "RELEASING", "RELEASED"}, pkg' = [pkg EXCEPT !.state = s]
        PROVE  /\ pkg'.state = s /\ pkg'.approved = pkg.approved /\ pkg'.needed = pkg.needed
               /\ pkg'.hash = pkg.hash
    BY <1>7 DEF PackageInv, Packages
  <1>8. ASSUME UNCHANGED <<pkg, inspected>>, ReservedIsApproved(pkg, release', post')
        PROVE  PackageInv'
    BY <1>8 DEF PackageInv
  <1>9. ASSUME NEW c \in Callers, Release(c) PROVE PackageInv'
    <2>1. CASE Refusal = {}
      <3>1. pkg' = [pkg EXCEPT !.state = "RELEASING"] /\ release' = "reserved" /\ post' = post
            /\ UNCHANGED inspected /\ pkg.state # "none"
        BY <1>9, <2>1 DEF Release
      <3>2. /\ pkg.state \notin {"RELEASING", "RELEASED"}
            /\ pkg.needed \subseteq pkg.approved /\ Principal \in pkg.approved
        BY <2>1 DEF Refusal
      <3>3. pkg.state = "DRAFT" BY <3>1, <3>2 DEF PackageInv, Packages
      <3>4. post' = << >> BY <3>1, <3>3, OpenPackage
      <3>5. ReservedIsApproved(pkg', release', post')
        BY <1>7, <3>1, <3>2, <3>4 DEF ReservedIsApproved
      <3> QED BY <1>6, <3>1, <3>5
    <2>2. CASE Refusal # {} BY <1>8, <1>9, <2>2 DEF Release, PackageInv
    <2> QED BY <2>1, <2>2
  <1>10. CASE MakePost
    <2>1. release = "reserved" /\ release' = "posted" /\ post' = Append(post, pkg.hash)
          /\ UNCHANGED <<pkg, inspected>>
      BY <1>10 DEF MakePost
    <2>2. post = << >> /\ pkg.state = "RELEASING" BY <2>1 DEF PackageInv, ReservedIsApproved
    <2>3. post' = <<pkg.hash>> BY <2>1, <2>2
    <2>4. post' # << >> BY <2>3
    <2>5. ReservedIsApproved(pkg, release', post')
      BY <2>1, <2>2, <2>3, <2>4 DEF PackageInv, ReservedIsApproved
    <2> QED BY <1>8, <2>1, <2>5
  <1>11. CASE Stamp
    <2>1. release = "posted" /\ release' = "idle" /\ UNCHANGED <<post, inspected>>
      BY <1>11 DEF Stamp
    <2>2. post # << >> /\ pkg.state = "RELEASING" BY <2>1 DEF PackageInv, ReservedIsApproved
    <2>3. CASE pkg' = [pkg EXCEPT !.state = "RELEASED"]
      <3>1. ReservedIsApproved(pkg', release', post')
        BY <1>7, <2>1, <2>2, <2>3 DEF PackageInv, ReservedIsApproved
      <3> QED BY <1>6, <2>1, <2>3, <3>1
    <2>4. CASE UNCHANGED pkg BY <1>8, <2>1, <2>2, <2>4 DEF PackageInv, ReservedIsApproved
    <2> QED BY <1>11, <2>3, <2>4 DEF Stamp
  <1>12. CASE Crash
    BY <1>8, <1>12 DEF Crash, PackageInv, ReservedIsApproved
  <1>13. CASE Reconcile
    <2> DEFINE s == IF post = << >> THEN "DRAFT" ELSE "RELEASED"
    <2>1. pkg.state = "RELEASING" /\ release = "idle" /\ pkg' = [pkg EXCEPT !.state = s]
          /\ UNCHANGED <<release, post, inspected>>
      BY <1>13 DEF Reconcile
    <2>2. s \in {"DRAFT", "RELEASING", "RELEASED"} OBVIOUS
    <2>3. pkg'.state = s /\ pkg'.approved = pkg.approved /\ pkg'.needed = pkg.needed
          /\ pkg'.hash = pkg.hash
      <3> HIDE DEF s
      <3> QED BY <1>7, <2>1, <2>2
    <2>4. ReservedIsApproved(pkg', release', post')
      BY <2>1, <2>3 DEF PackageInv, ReservedIsApproved
    <2> HIDE DEF s
    <2> QED BY <1>6, <2>1, <2>2, <2>4
  <1> QED BY <1>1, <1>2, <1>3, <1>4, <1>5, <1>9, <1>10, <1>11, <1>12, <1>13 DEF PromoNext

\* A message that repeats a sentinel has its class, and one that begins with
\* the failed stamp has that class whatever cause it goes on to repeat.
LEMMA MessagesHaveClasses ==
  /\ ClassOf(PromoClasses, {"is already released"}) = "released"
  /\ ClassOf(PromoClasses, {"release is already in progress"}) = "releasing"
  /\ ClassOf(PromoClasses, {"requires approval from every required reviewer"}) = "approval"
  /\ ClassOf(PromoClasses, {"requires an active approval"}) = "principal"
  /\ \A cause : ClassOf(PromoClasses, {"created status but could not stamp"} \cup cause) = "stamp_failed"
  <1>1. ClassOf(PromoClasses, {"is already released"}) = "released"
    <2> DEFINE msg == {"is already released"}
    <2>2. ASSUME NEW i \in 1..2 PROVE PromoClasses[i].phrases \cap msg = {}
      <3>1. i = 1 \/ i = 2 OBVIOUS
      <3> QED BY <3>1, PromoRows
    <2>3. PromoClasses[3].phrases \cap msg # {} /\ PromoClasses[3].class = "released" BY PromoRows
    <2> HIDE DEF msg
    <2>4. ClassOf(PromoClasses, msg) = "released"
      <3> DEFINE k == 3
      <3>1. k \in 1..10 /\ k - 1 = 2 OBVIOUS
      <3>2. PromoClasses[k].phrases \cap msg # {} /\ PromoClasses[k].class = "released" BY <2>3
      <3>3. \A i \in 1..(k - 1) : PromoClasses[i].phrases \cap msg = {} BY <2>2, <3>1
      <3> HIDE DEF k
      <3> QED BY <3>1, <3>2, <3>3, PromoClass
    <2> QED BY <2>4 DEF msg
  <1>2. ClassOf(PromoClasses, {"release is already in progress"}) = "releasing"
    <2> DEFINE msg == {"release is already in progress"}
    <2>2. ASSUME NEW i \in 1..1 PROVE PromoClasses[i].phrases \cap msg = {}
      <3>1. i = 1 OBVIOUS
      <3> QED BY <3>1, PromoRows
    <2>3. PromoClasses[2].phrases \cap msg # {} /\ PromoClasses[2].class = "releasing" BY PromoRows
    <2> HIDE DEF msg
    <2>4. ClassOf(PromoClasses, msg) = "releasing"
      <3> DEFINE k == 2
      <3>1. k \in 1..10 /\ k - 1 = 1 OBVIOUS
      <3>2. PromoClasses[k].phrases \cap msg # {} /\ PromoClasses[k].class = "releasing" BY <2>3
      <3>3. \A i \in 1..(k - 1) : PromoClasses[i].phrases \cap msg = {} BY <2>2, <3>1
      <3> HIDE DEF k
      <3> QED BY <3>1, <3>2, <3>3, PromoClass
    <2> QED BY <2>4 DEF msg
  <1>3. ClassOf(PromoClasses, {"requires approval from every required reviewer"}) = "approval"
    <2> DEFINE msg == {"requires approval from every required reviewer"}
    <2>2. ASSUME NEW i \in 1..5 PROVE PromoClasses[i].phrases \cap msg = {}
      <3>1. i = 1 \/ i = 2 \/ i = 3 \/ i = 4 \/ i = 5 OBVIOUS
      <3> QED BY <3>1, PromoRows
    <2>3. PromoClasses[6].phrases \cap msg # {} /\ PromoClasses[6].class = "approval" BY PromoRows
    <2> HIDE DEF msg
    <2>4. ClassOf(PromoClasses, msg) = "approval"
      <3> DEFINE k == 6
      <3>1. k \in 1..10 /\ k - 1 = 5 OBVIOUS
      <3>2. PromoClasses[k].phrases \cap msg # {} /\ PromoClasses[k].class = "approval" BY <2>3
      <3>3. \A i \in 1..(k - 1) : PromoClasses[i].phrases \cap msg = {} BY <2>2, <3>1
      <3> HIDE DEF k
      <3> QED BY <3>1, <3>2, <3>3, PromoClass
    <2> QED BY <2>4 DEF msg
  <1>4. ClassOf(PromoClasses, {"requires an active approval"}) = "principal"
    <2> DEFINE msg == {"requires an active approval"}
    <2>2. ASSUME NEW i \in 1..6 PROVE PromoClasses[i].phrases \cap msg = {}
      <3>1. i = 1 \/ i = 2 \/ i = 3 \/ i = 4 \/ i = 5 \/ i = 6 OBVIOUS
      <3> QED BY <3>1, PromoRows
    <2>3. PromoClasses[7].phrases \cap msg # {} /\ PromoClasses[7].class = "principal" BY PromoRows
    <2> HIDE DEF msg
    <2>4. ClassOf(PromoClasses, msg) = "principal"
      <3> DEFINE k == 7
      <3>1. k \in 1..10 /\ k - 1 = 6 OBVIOUS
      <3>2. PromoClasses[k].phrases \cap msg # {} /\ PromoClasses[k].class = "principal" BY <2>3
      <3>3. \A i \in 1..(k - 1) : PromoClasses[i].phrases \cap msg = {} BY <2>2, <3>1
      <3> HIDE DEF k
      <3> QED BY <3>1, <3>2, <3>3, PromoClass
    <2> QED BY <2>4 DEF msg
  <1>5. ASSUME NEW cause PROVE ClassOf(PromoClasses, {"created status but could not stamp"} \cup cause) = "stamp_failed"
    <2> DEFINE msg == {"created status but could not stamp"} \cup cause
    <2>1. 1..0 = {} OBVIOUS
    <2>2. \A i \in 1..0 : PromoClasses[i].phrases \cap msg = {} BY <2>1, Zenon
    <2>3. PromoClasses[1].phrases \cap msg # {} /\ PromoClasses[1].class = "stamp_failed" BY PromoRows
    <2> HIDE DEF msg
    <2>4. ClassOf(PromoClasses, msg) = "stamp_failed"
      <3> DEFINE k == 1
      <3>1. k \in 1..10 /\ k - 1 = 0 OBVIOUS
      <3>2. PromoClasses[k].phrases \cap msg # {} /\ PromoClasses[k].class = "stamp_failed" BY <2>3
      <3>3. \A i \in 1..(k - 1) : PromoClasses[i].phrases \cap msg = {} BY <2>2, <3>1
      <3> HIDE DEF k
      <3> QED BY <3>1, <3>2, <3>3, PromoClass
    <2> QED BY <2>4 DEF msg
  <1> QED BY <1>1, <1>2, <1>3, <1>4, <1>5

\* What an answer about the package says of its outbound post is so.
LEMMA PromoAnswersTruly ==
  ASSUME PackageInv, PromoNext
  PROVE  Truthful(answer')
  <1>1. CASE answer' = NoAnswer BY <1>1, TruthfulIsTrue
  <1>2. ASSUME NEW tool \in {"promo_release", "promo_read"}, NEW said, NEW posts,
               answer' = Says(tool, said, PostFact(posts)),
               said \in {"retry", "no post exists"} => posts = << >>,
               said = "the post exists" => posts # << >>
        PROVE  Truthful(answer')
    <2>1. answer'.tool = tool /\ answer'.said = said /\ answer'.fact = PostFact(posts)
      BY <1>2 DEF Says
    <2>2. /\ posts = << >> => PostFact(posts) = "no post"
          /\ posts # << >> => PostFact(posts) = "post"
      BY DEF PostFact
    <2> QED BY <1>2, <2>1, <2>2 DEF Truthful
  <1>3. ASSUME NEW c \in Callers, ReadPackage(c) PROVE Truthful(answer')
    <2>1. answer' = Says("promo_read", ReadGuidance, PostFact(post)) /\ pkg.state # "none"
      BY <1>3 DEF ReadPackage
    <2>2. /\ ReadGuidance \in {"retry", "no post exists"} => post = << >>
          /\ ReadGuidance = "the post exists" => post # << >>
      BY <2>1 DEF ReadGuidance, PackageState, PackageInv, ReservedIsApproved, Packages
    <2> HIDE DEF PackageInv
    <2> QED BY <1>2, <2>1, <2>2
  <1>4. ASSUME NEW message, NEW advice, RefusedWith(message),
               ReleaseAdvice(ClassOf(PromoClasses, message)) = advice,
               advice \in {"retry", "no post exists"} => post' = << >>,
               advice = "the post exists" => post' # << >>
        PROVE  Truthful(answer')
    <2>1. answer' = Says("promo_release", advice, PostFact(post')) BY <1>4 DEF RefusedWith
    <2> QED BY <1>2, <1>4, <2>1
  <1>5. ASSUME NEW c \in Callers, Release(c) PROVE Truthful(answer')
    <2>1. CASE Refusal = {} BY <1>1, <1>5, <2>1 DEF Release
    <2>2. CASE Refusal # {}
      <3>1. UNCHANGED post /\ RefusedWith(Refusal) /\ pkg.state # "none"
        BY <1>5, <2>2 DEF Release
      <3>2. CASE pkg.state = "RELEASING"
        <4>1. Refusal = {"release is already in progress"} BY <3>2 DEF Refusal
        <4>2. ReleaseAdvice(ClassOf(PromoClasses, Refusal)) = "reconcile"
          BY <4>1, MessagesHaveClasses DEF ReleaseAdvice, Retryable
        <4> QED BY <1>4, <3>1, <4>2
      <3>3. CASE pkg.state = "RELEASED"
        <4>1. Refusal = {"is already released"} BY <3>3 DEF Refusal
        <4>2. ReleaseAdvice(ClassOf(PromoClasses, Refusal)) = "the post exists"
          BY <4>1, MessagesHaveClasses DEF ReleaseAdvice, Retryable
        <4>3. post' # << >> BY <3>1, <3>3 DEF PackageInv, ReservedIsApproved
        <4> QED BY <1>4, <3>1, <4>2, <4>3
      <3>4. CASE pkg.state = "DRAFT"
        <4>1. \/ Refusal = {"requires approval from every required reviewer"}
              \/ Refusal = {"requires an active approval"}
          BY <2>2, <3>4 DEF Refusal
        <4>2. ReleaseAdvice(ClassOf(PromoClasses, Refusal)) = "retry"
          BY <4>1, MessagesHaveClasses DEF ReleaseAdvice, Retryable
        <4>3. post' = << >> BY <3>1, <3>4, OpenPackage
        <4> QED BY <1>4, <3>1, <4>2, <4>3
      <3> QED BY <3>1, <3>2, <3>3, <3>4 DEF PackageInv, Packages
    <2> QED BY <2>1, <2>2
  <1>6. CASE Stamp
    <2>1. UNCHANGED post /\ post # << >> BY <1>6 DEF Stamp, PackageInv, ReservedIsApproved
    <2>2. CASE answer' = Says("promo_release", "the post exists", PostFact(post))
      BY <1>2, <2>1, <2>2
    <2>3. ASSUME NEW cause, RefusedWith({"created status but could not stamp"} \cup cause)
          PROVE  Truthful(answer')
      <3>1. ReleaseAdvice(ClassOf(PromoClasses,
                                  {"created status but could not stamp"} \cup cause))
              = "the post exists"
        BY MessagesHaveClasses DEF ReleaseAdvice, Retryable
      <3> QED BY <1>4, <2>1, <2>3, <3>1
    <2> QED BY <1>6, <2>2, <2>3 DEF Stamp
  <1>7. CASE Crash
    <2>1. answer' = Says("promo_release", "failed", PostFact(post)) BY <1>7 DEF Crash
    <2> QED BY <1>2, <2>1
  <1>8. ASSUME NEW c \in Callers,
               Compose(c) \/ (\E r \in Reviewers : SharePackage(c, r))
        PROVE  answer' = NoAnswer
    BY <1>8 DEF Compose, SharePackage
  <1>9. ASSUME NEW r \in Reviewers, RevokePackage(r) \/ SubmitVerdict(r)
        PROVE  answer' = NoAnswer
    BY <1>9 DEF RevokePackage, SubmitVerdict
  <1>10. CASE MakePost \/ Reconcile BY <1>1, <1>10 DEF MakePost, Reconcile
  <1> QED BY <1>1, <1>3, <1>5, <1>6, <1>7, <1>8, <1>9, <1>10 DEF PromoNext

-----------------------------------------------------------------------------
(* The behaviours *)

EditorialInv == ListInv /\ UploadInv /\ PackageInv /\ Truthful(answer)

LEMMA EditorialStarts ==
  ASSUME PromoInit
  PROVE  EditorialInv
  <1>1. ListInv
    <2>1. Idle.tool \notin ListTools BY DEF Idle, ListTools
    <2>2. /\ DOMAIN call = Callers /\ DOMAIN draft = {"state", "media"}
          /\ draft.media = << >> /\ \A c \in Callers : call[c] = Idle
      BY DEF PromoInit, DraftInit
    <2>3. ~Collides(draft.media) BY <2>2 DEF Collides
    <2> QED BY <2>1, <2>2, <2>3 DEF ListInv
  <1>2. UploadInv BY DEF PromoInit, DraftInit, UploadInv, UsedUp
  <1>3. PackageInv
    <2>1. /\ pkg \in Packages /\ pkg.state = "none" /\ pkg.approved = {} /\ pkg.active = {}
          /\ pkg.needed = {}
      BY DEF PromoInit, Packages
    <2>2. release = "idle" /\ post = << >> /\ inspected \in [Reviewers -> SUBSET Nat]
      BY DEF PromoInit
    <2> QED BY <2>1, <2>2 DEF PackageInv, ApprovedIsInspected, ReservedIsApproved
  <1>4. Truthful(answer) BY TruthfulIsTrue DEF PromoInit, DraftInit
  <1> QED BY <1>1, <1>2, <1>3, <1>4 DEF EditorialInv

LEMMA EditorialKeeps ==
  ASSUME EditorialInv, [EditorialNext]_editorialVars
  PROVE  EditorialInv'
  <1>1. ListInv /\ UploadInv /\ PackageInv /\ Truthful(answer) BY DEF EditorialInv
  <1>2. CASE DraftNext /\ UNCHANGED promoVars
    <2>1. PackageInv' BY <1>1, <1>2 DEF promoVars, PackageInv
    <2>2. Truthful(answer)' BY <1>1, <1>2, DraftAnswersTruly DEF Truthful
    <2>3. ListInv' /\ UploadInv' BY <1>1, <1>2, ListKeeps, UploadKeeps
    <2> QED BY <2>1, <2>2, <2>3 DEF EditorialInv
  <1>3. CASE PromoNext
    <2>1. UNCHANGED <<draft, upload, call>>
      BY <1>3 DEF PromoNext, Compose, ReadPackage, Release, SharePackage, RevokePackage,
                  SubmitVerdict, MakePost, Stamp, Crash, Reconcile
    <2>2. ListInv' /\ UploadInv' BY <1>1, <2>1 DEF ListInv, UploadInv, Collides
    <2>3. Truthful(answer)' BY <1>1, <1>3, PromoAnswersTruly DEF Truthful
    <2>4. PackageInv' BY <1>1, <1>3, PromoKeeps
    <2> QED BY <2>2, <2>3, <2>4 DEF EditorialInv
  <1>4. CASE UNCHANGED editorialVars
    <2>1. UNCHANGED <<draft, upload, call, answer, pkg, release, post, inspected>>
      BY <1>4 DEF editorialVars, draftVars, promoVars
    <2>2. ListInv' /\ UploadInv' BY <1>1, <2>1 DEF ListInv, UploadInv, Collides
    <2>3. Truthful(answer)' BY <1>1, <2>1 DEF Truthful
    <2>4. PackageInv' BY <1>1, <2>1 DEF PackageInv
    <2> QED BY <2>2, <2>3, <2>4 DEF EditorialInv
  <1> QED BY <1>2, <1>3, <1>4 DEF EditorialNext

\* An attach that leaves the position to the code, a detach and a reorder never
\* send a list that names an image twice or has two images at one position,
\* whatever gaps detaches and positions given by callers left in the list read
\* (media_tools.go:432-463, 516-522, 601-611).
THEOREM ListsSentAreFree == EditorialSpec => []ListsSentAreAcceptable
  <1>1. EditorialInv => ListsSentAreAcceptable
    BY DEF EditorialInv, ListInv, ListsSentAreAcceptable
  <1> QED BY <1>1, EditorialStarts, EditorialKeeps, PTL DEF EditorialSpec

\* What a caller is told to do about an upload grant fits the grant and, after a
\* finalize, what was put under it, a PUT beyond the cap included; what it is
\* told of the outbound post of a release is so, and whoever may read a draft is
\* not told that it is not found (media_tools.go:998-1047, promo_tools.go:541-580,
\* 672-800, article_tools.go:287-321), by the order of the rows in which body
\* looks for a phrase of Lesser's message.
THEOREM AdviceIsAlwaysTrue == EditorialSpec => []AdviceIsTrue
  <1>1. EditorialInv => AdviceIsTrue BY TruthfulIsTrue DEF EditorialInv
  <1> QED BY <1>1, EditorialStarts, EditorialKeeps, PTL DEF EditorialSpec

\* What an outbound post was made with was read by the principal and by every
\* reviewer ever asked (promo_tools.go:314-357): a verdict carries the hash of
\* the content inspected, and a composition anew, which changes the hash, makes
\* every approval stale.
THEOREM PostedWasInspected == EditorialSpec => []ReleasedWasInspected
  <1>1. EditorialInv => ReleasedWasInspected BY PackageIsInspected DEF EditorialInv
  <1> QED BY <1>1, EditorialStarts, EditorialKeeps, PTL DEF EditorialSpec
=============================================================================
