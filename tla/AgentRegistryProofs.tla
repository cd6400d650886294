------------------------- MODULE AgentRegistryProofs -------------------------
(***************************************************************************)
(* AgentRegistry for every set of calls, actors and spellings and any      *)
(* number of corrections.  What makes a conditional write harmless is that *)
(* a call holds an expectation only after it compared it with the Host's   *)
(* local id, or when there was nothing to compare (ExpectedAgrees).        *)
(*                                                                         *)
(* AgentDirectory over it for every set of agents and of page sizes, and   *)
(* any number of arrivals and departures: what a walk has shown of the     *)
(* agents that stay as they are is exactly what its cursor has passed      *)
(* (ShownUpToCursor).                                                      *)
(***************************************************************************)
EXTENDS AgentDirectory, FiniteSetTheorems, WellFoundedInduction, TLAPS

\* A call that has seen a row, or was answered from one, is not without one.
RowStays ==
  /\ \A c \in Calls : pc[c] \in {"reread", "update"} => row # NoRow
  /\ \A c \in Calls : reply[c].status = "ok" => row # NoRow

\* The local id a write is conditional on names the Host's actor, if both name one.
ExpectedAgrees ==
  \A c \in Calls : pc[c] = "update" /\ expected[c] # Empty /\ projected[c] # Empty
                     => Same(projected[c], expected[c])

\* Writers have returned, and only they and readers of a row have an answer.
WritersDone ==
  /\ \A c \in wrote : pc[c] = "done"
  /\ \A c \in Calls : pc[c] # "done" => reply[c] = NoReply
  /\ \A c \in Calls : reply[c].created => reply[c].status = "ok"
  /\ \A c \in Calls : heardAt[c] <= corrections

\* One call creates the row: two of them are never both told created
\* (store.go:255-262, 363-369).
CreatedOnce ==
  \A c, d \in Calls : reply[c].created /\ reply[d].created => c = d

RegistryInv == /\ TypeOK
               /\ RowStays
               /\ ExpectedAgrees
               /\ WritersDone
               /\ AnsweredActorHolds
               /\ DivergenceWritesNothing
               /\ CreatedOnce

LEMMA InitInv == Init => RegistryInv
  BY MaxCorrectionsAssumption
  DEF Init, RegistryInv, TypeOK, RowStays, ExpectedAgrees, WritersDone, AnsweredActorHolds,
      DivergenceWritesNothing, CreatedOnce, NoReply, Ops, Statuses

\* The reply of a step, typed.
LEMMA ReplyType ==
  ASSUME TypeOK, NEW c \in Calls, NEW s \in Statuses, NEW l \in LocalIDs \cup {Empty},
         NEW b \in BOOLEAN, Reply(c, s, l, b)
  PROVE  /\ pc' = [pc EXCEPT ![c] = "done"]
         /\ reply' = [reply EXCEPT ![c] = [status |-> s, localId |-> l, created |-> b]]
         /\ reply' \in [Calls -> [status : Statuses, localId : LocalIDs \cup {Empty},
                                  created : BOOLEAN]]
         /\ heardAt' = [heardAt EXCEPT ![c] = corrections]
         /\ heardAt' \in [Calls -> 0..MaxCorrections]
  BY DEF Reply, Goto, TypeOK

\* A step of a call that writes nothing and answers, without naming an actor,
\* or naming the stored one.
LEMMA AnswerKeepsInv ==
  ASSUME RegistryInv, NEW c \in Calls, NEW s \in Statuses \ {"none"},
         NEW l \in LocalIDs \cup {Empty},
         pc[c] \notin {"idle", "done"}, Reply(c, s, l, FALSE),
         s = "ok" => row # NoRow /\ l = row.localId,
         expected' = expected,
         UNCHANGED <<row, corrections, op, projected, wrote>>
  PROVE  RegistryInv'
  <1> DEFINE new == [status |-> s, localId |-> l, created |-> FALSE]
  <1>1. /\ pc' = [pc EXCEPT ![c] = "done"]
        /\ reply' = [reply EXCEPT ![c] = new]
        /\ reply' \in [Calls -> [status : Statuses, localId : LocalIDs \cup {Empty},
                                 created : BOOLEAN]]
        /\ heardAt' = [heardAt EXCEPT ![c] = corrections]
        /\ heardAt' \in [Calls -> 0..MaxCorrections]
    BY ReplyType DEF RegistryInv
  <1>2. new.status = s /\ new.localId = l /\ new.created = FALSE
    OBVIOUS
  <1> HIDE DEF new
  <1>3. c \notin wrote
    BY DEF RegistryInv, WritersDone
  <1>4. TypeOK'
    BY <1>1 DEF RegistryInv, TypeOK
  <1>5. RowStays' /\ ExpectedAgrees'
    BY <1>1, <1>2 DEF RegistryInv, TypeOK, RowStays, ExpectedAgrees
  <1>6. WritersDone'
    BY <1>1, <1>2, <1>3 DEF RegistryInv, TypeOK, WritersDone
  <1>7. AnsweredActorHolds'
    <2> SUFFICES ASSUME NEW d \in Calls, reply'[d].status = "ok",
                        reply'[d].localId # Empty, heardAt'[d] = corrections
                 PROVE  row # NoRow /\ Same(row.localId, reply'[d].localId)
      BY DEF AnsweredActorHolds, Same
    <2>1. CASE d = c
      BY <2>1, <1>1, <1>2 DEF Same, RegistryInv, TypeOK
    <2>2. CASE d # c
      BY <2>2, <1>1 DEF RegistryInv, TypeOK, AnsweredActorHolds
    <2> QED BY <2>1, <2>2
  <1>8. DivergenceWritesNothing'
    BY <1>1, <1>2, <1>3 DEF RegistryInv, TypeOK, DivergenceWritesNothing
  <1>9. CreatedOnce'
    BY <1>1, <1>2 DEF RegistryInv, TypeOK, CreatedOnce
  <1> QED BY <1>4, <1>5, <1>6, <1>7, <1>8, <1>9 DEF RegistryInv

\* A step of a call to its next request.
LEMMA MoveKeepsInv ==
  ASSUME RegistryInv, NEW c \in Calls, NEW to \in {"create", "reread", "update"},
         NEW e \in LocalIDs \cup {Empty},
         pc[c] \notin {"idle", "done"}, pc' = [pc EXCEPT ![c] = to],
         expected' = [expected EXCEPT ![c] = e],
         to \in {"reread", "update"} => row # NoRow,
         to = "update" /\ e # Empty /\ projected[c] # Empty => Same(projected[c], e),
         UNCHANGED <<row, corrections, op, projected, wrote, reply, heardAt>>
  PROVE  RegistryInv'
  <1>1. TypeOK'
    BY DEF RegistryInv, TypeOK
  <1>2. RowStays' /\ ExpectedAgrees'
    BY DEF RegistryInv, TypeOK, RowStays, ExpectedAgrees, Same
  <1>3. WritersDone'
    BY DEF RegistryInv, TypeOK, WritersDone
  <1>4. AnsweredActorHolds' /\ DivergenceWritesNothing' /\ CreatedOnce'
    BY DEF RegistryInv, AnsweredActorHolds, DivergenceWritesNothing, CreatedOnce, Same
  <1> QED BY <1>1, <1>2, <1>3, <1>4 DEF RegistryInv

\* A write of a call, answered or not, onto a row it agrees with.
LEMMA WriteKeepsInv ==
  ASSUME RegistryInv, NEW c \in Calls, NEW s \in {"ok", "error"},
         NEW l \in LocalIDs \cup {Empty}, NEW b \in BOOLEAN, NEW new \in Row,
         pc[c] \notin {"idle", "done"}, Reply(c, s, l, b), WriteRow(c, new),
         s = "ok" => l = new.localId,
         b => row = NoRow /\ s = "ok",
         s = "ok" /\ projected[c] # Empty => l = projected[c],
         row # NoRow /\ row.localId # Empty => Same(row.localId, new.localId),
         UNCHANGED <<corrections, op, projected, expected>>
  PROVE  RegistryInv'
  <1> USE NoRowAssumption
  <1> DEFINE ans == [status |-> s, localId |-> l, created |-> b]
  <1>1. /\ pc' = [pc EXCEPT ![c] = "done"]
        /\ reply' = [reply EXCEPT ![c] = ans]
        /\ reply' \in [Calls -> [status : Statuses, localId : LocalIDs \cup {Empty},
                                 created : BOOLEAN]]
        /\ heardAt' = [heardAt EXCEPT ![c] = corrections]
        /\ heardAt' \in [Calls -> 0..MaxCorrections]
    BY ReplyType DEF RegistryInv, Statuses
  <1>2. ans.status = s /\ ans.localId = l /\ ans.created = b
    OBVIOUS
  <1> HIDE DEF ans
  <1>3. row' = new /\ row' # NoRow /\ wrote' = wrote \cup {c}
    BY DEF WriteRow
  <1>4. TypeOK'
    BY <1>1, <1>3 DEF RegistryInv, TypeOK
  <1>5. RowStays' /\ ExpectedAgrees'
    BY <1>1, <1>3 DEF RegistryInv, TypeOK, RowStays, ExpectedAgrees, Same
  <1>6. WritersDone'
    BY <1>1, <1>2, <1>3 DEF RegistryInv, TypeOK, WritersDone
  <1>7. AnsweredActorHolds'
    <2> SUFFICES ASSUME NEW d \in Calls, reply'[d].status = "ok",
                        reply'[d].localId # Empty, heardAt'[d] = corrections
                 PROVE  row' # NoRow /\ Same(row'.localId, reply'[d].localId)
      BY DEF AnsweredActorHolds, Same
    <2>1. CASE d = c
      BY <2>1, <1>1, <1>2, <1>3 DEF Same, RegistryInv, TypeOK
    <2>2. CASE d # c
      <3>1. row # NoRow /\ Same(row.localId, reply[d].localId) /\ reply'[d] = reply[d]
        BY <2>2, <1>1 DEF RegistryInv, TypeOK, AnsweredActorHolds
      <3> QED BY <3>1, <1>3 DEF Same
    <2> QED BY <2>1, <2>2
  <1>8. DivergenceWritesNothing'
    BY <1>1, <1>2, <1>3 DEF RegistryInv, TypeOK, DivergenceWritesNothing
  <1>9. CreatedOnce'
    <2>1. b => \A d \in Calls : ~reply[d].created
      BY DEF RegistryInv, RowStays, WritersDone
    <2> QED BY <2>1, <1>1, <1>2 DEF RegistryInv, TypeOK, CreatedOnce
  <1> QED BY <1>4, <1>5, <1>6, <1>7, <1>8, <1>9 DEF RegistryInv

\* Every row a call may write is a row, and agrees with the one it replaces.
LEMMA WritesAgree ==
  ASSUME RegistryInv, NEW c \in Calls
  PROVE  /\ pc[c] = "create" => NewRow(c) \in Row /\ NewRow(c).localId = projected[c]
         /\ pc[c] = "update" /\ ExpectedHolds(c) =>
              /\ row # NoRow
              /\ Updated(c) \in Row
              /\ projected[c] # Empty => Updated(c).localId = projected[c]
              /\ row.localId # Empty => Same(row.localId, Updated(c).localId)
  <1> USE DEF RegistryInv
  <1>1. SourceOf(c) \in {"genesis", "recovery"}
    BY DEF SourceOf
  <1>2. pc[c] = "create" => NewRow(c) \in Row /\ NewRow(c).localId = projected[c]
    BY <1>1 DEF NewRow, Row, TypeOK
  <1>3. ASSUME pc[c] = "update", ExpectedHolds(c)
        PROVE  /\ row # NoRow
               /\ Updated(c) \in Row
               /\ projected[c] # Empty => Updated(c).localId = projected[c]
               /\ row.localId # Empty => Same(row.localId, Updated(c).localId)
    <2>1. row \in Row /\ row.localId = expected[c] /\ row # NoRow
      BY <1>3 DEF RowStays, TypeOK, ExpectedHolds
    <2>2. Updated(c).localId = IF projected[c] = Empty THEN row.localId ELSE projected[c]
      BY DEF Updated
    <2>3. Updated(c) \in Row
      BY <2>1, <1>1 DEF Updated, Row, TypeOK
    <2> QED BY <1>3, <2>1, <2>2, <2>3 DEF ExpectedAgrees, Same
  <1> QED BY <1>2, <1>3

\* Reading the row again before a write.
LEMMA ExpectKeepsInv ==
  ASSUME RegistryInv, NEW c \in Calls, pc[c] \in {"read", "reread"}, row # NoRow,
         CheckAndExpect(c) \/ (row.localId = Empty /\ Expect(c)),
         UNCHANGED <<row, corrections, op, projected, wrote>>
  PROVE  RegistryInv'
  <1>1. CASE Diverges(c) /\ Fail(c, "divergence") /\ UNCHANGED expected
    BY <1>1, AnswerKeepsInv DEF Fail, Statuses
  <1>2. ASSUME Expect(c), Diverges(c) => row.localId = Empty PROVE RegistryInv'
    <2>1. row.localId \in LocalIDs \cup {Empty}
      BY DEF RegistryInv, TypeOK, Row
    <2>2. row.localId # Empty /\ projected[c] # Empty => Same(projected[c], row.localId)
      BY <1>2 DEF Diverges
    <2> QED BY <1>2, <2>1, <2>2, MoveKeepsInv DEF Expect, Goto
  <1> QED BY <1>1, <1>2 DEF CheckAndExpect

LEMMA NextInv == RegistryInv /\ [Next]_vars => RegistryInv'
  <1> SUFFICES ASSUME RegistryInv, [Next]_vars PROVE RegistryInv'
    OBVIOUS
  <1>1. CASE UNCHANGED vars
    BY <1>1 DEF vars, callVars, RegistryInv, TypeOK, RowStays, ExpectedAgrees, WritersDone,
                AnsweredActorHolds, DivergenceWritesNothing, CreatedOnce, Same
  <1>2. CASE Correct
    <2>1. /\ corrections' = corrections + 1 /\ corrections' \in 0..MaxCorrections
          /\ \A c \in Calls : heardAt[c] <= corrections' /\ heardAt[c] # corrections'
      BY <1>2, MaxCorrectionsAssumption DEF Correct, RegistryInv, TypeOK, WritersDone
    <2>2. row' \in Row /\ row' # NoRow
      BY <1>2, NoRowAssumption DEF Correct, RegistryInv, TypeOK, Row
    <2>3. UNCHANGED <<pc, op, projected, expected, wrote, reply, heardAt>>
      BY <1>2 DEF Correct, callVars
    <2> QED BY <2>1, <2>2, <2>3 DEF RegistryInv, TypeOK, RowStays, ExpectedAgrees, WritersDone,
                AnsweredActorHolds, DivergenceWritesNothing, CreatedOnce, Same
  <1>3. ASSUME NEW c \in Calls, Begin(c) PROVE RegistryInv'
    <2>1. TypeOK'
      BY <1>3 DEF Begin, Goto, RegistryInv, TypeOK
    <2>2. RowStays' /\ ExpectedAgrees' /\ WritersDone'
      BY <1>3 DEF Begin, Goto, RegistryInv, TypeOK, RowStays, ExpectedAgrees, WritersDone, Same
    <2>3. AnsweredActorHolds' /\ CreatedOnce'
      BY <1>3 DEF Begin, RegistryInv, AnsweredActorHolds, CreatedOnce, Same
    <2>4. DivergenceWritesNothing'
      BY <1>3 DEF Begin, RegistryInv, TypeOK, WritersDone, DivergenceWritesNothing
    <2> QED BY <2>1, <2>2, <2>3, <2>4 DEF RegistryInv
  <1>4. ASSUME NEW c \in Calls, Read(c) PROVE RegistryInv'
    <2>0. pc[c] = "read" /\ UNCHANGED <<row, corrections, op, projected, wrote>>
      BY <1>4 DEF Read
    <2>1. CASE row = NoRow /\ op[c] = "refetch"
      BY <1>4, <2>0, <2>1, AnswerKeepsInv DEF Read, Fail, Statuses
    <2>2. CASE row = NoRow /\ op[c] # "refetch"
      <3>1. /\ Goto(c, "create") /\ UNCHANGED <<reply, heardAt, expected>>
            /\ expected[c] \in LocalIDs \cup {Empty}
            /\ expected' = [expected EXCEPT ![c] = expected[c]]
        BY <1>4, <2>2 DEF Read, RegistryInv, TypeOK
      <3> QED BY <2>0, <3>1, MoveKeepsInv DEF Goto
    <2>3. CASE row # NoRow /\ op[c] # "refetch"
      BY <1>4, <2>0, <2>3, ExpectKeepsInv DEF Read
    <2>4. CASE row # NoRow /\ op[c] = "refetch"
      <3>1. CASE Fail(c, "unavailable") /\ UNCHANGED expected
        BY <3>1, <2>0, AnswerKeepsInv DEF Fail, Statuses
      <3>2. CASE Reply(c, "ok", row.localId, FALSE) /\ UNCHANGED expected
        <4>1. row.localId \in LocalIDs \cup {Empty}
          BY <2>4 DEF RegistryInv, TypeOK, Row
        <4> QED BY <4>1, <3>2, <2>0, <2>4, AnswerKeepsInv DEF Statuses
      <3>3. CASE row.localId = Empty /\ Expect(c)
        BY <3>3, <2>0, <2>4, ExpectKeepsInv
      <3> QED BY <3>1, <3>2, <3>3, <2>4, <1>4 DEF Read
    <2> QED BY <2>1, <2>2, <2>3, <2>4
  <1>5. ASSUME NEW c \in Calls, Create(c) PROVE RegistryInv'
    <2>0. projected[c] \in LocalIDs \cup {Empty}
      BY DEF RegistryInv, TypeOK
    <2>1. CASE row = NoRow
      BY <1>5, <2>0, <2>1, WritesAgree, WriteKeepsInv DEF Create
    <2>2. CASE row # NoRow
      <3>1. /\ expected[c] \in LocalIDs \cup {Empty}
            /\ expected' = [expected EXCEPT ![c] = expected[c]]
        BY <1>5 DEF Create, RegistryInv, TypeOK
      <3> QED BY <1>5, <2>2, <3>1, MoveKeepsInv DEF Create, Goto
    <2> QED BY <2>1, <2>2
  <1>6. ASSUME NEW c \in Calls, Reread(c) PROVE RegistryInv'
    <2>1. row # NoRow
      BY <1>6 DEF Reread, RegistryInv, RowStays
    <2> QED BY <1>6, <2>1, ExpectKeepsInv DEF Reread
  <1>7. ASSUME NEW c \in Calls, Update(c) PROVE RegistryInv'
    <2>1. CASE ExpectedHolds(c)
      <3>1. /\ Updated(c) \in Row /\ Updated(c).localId \in LocalIDs \cup {Empty}
            /\ projected[c] # Empty => Updated(c).localId = projected[c]
            /\ row.localId # Empty => Same(row.localId, Updated(c).localId)
        BY <1>7, <2>1, WritesAgree DEF Update, Row
      <3> QED BY <1>7, <2>1, <3>1, WriteKeepsInv DEF Update
    <2>2. CASE ~ExpectedHolds(c)
      BY <1>7, <2>2, AnswerKeepsInv DEF Update, Fail, Statuses
    <2> QED BY <2>1, <2>2
  <1>8. ASSUME NEW c \in Calls, Interrupt(c) PROVE RegistryInv'
    BY <1>8, AnswerKeepsInv DEF Interrupt, Fail, Statuses
  <1>9. ASSUME NEW c \in Calls, LoseAnswer(c) PROVE RegistryInv'
    <2>1. CASE pc[c] = "create" /\ row = NoRow /\ WriteRow(c, NewRow(c))
      BY <1>9, <2>1, WritesAgree, WriteKeepsInv DEF LoseAnswer, Fail
    <2>2. CASE pc[c] = "update" /\ ExpectedHolds(c) /\ WriteRow(c, Updated(c))
      BY <1>9, <2>2, WritesAgree, WriteKeepsInv DEF LoseAnswer, Fail
    <2> QED BY <1>9, <2>1, <2>2 DEF LoseAnswer
  <1> QED BY <1>1, <1>2, <1>3, <1>4, <1>5, <1>6, <1>7, <1>8, <1>9 DEF Next, Step

\* The whole inductive invariant holds (store.go:237-413).
THEOREM RegistrySafe == Spec => []RegistryInv
  BY InitInv, NextInv, PTL DEF Spec

\* The actor of an answer stays the row's until an operator corrects it.
THEOREM AnsweredActorsHold == Spec => []AnsweredActorHolds
  <1>1. RegistryInv => AnsweredActorHolds
    BY DEF RegistryInv
  <1> QED BY <1>1, RegistrySafe, PTL

\* A divergence answer has written nothing.
THEOREM DivergencesWriteNothing == Spec => []DivergenceWritesNothing
  <1>1. RegistryInv => DivergenceWritesNothing
    BY DEF RegistryInv
  <1> QED BY <1>1, RegistrySafe, PTL

\* No call renames the row's actor (store.go:237-413, genesis.go:963-984,
\* ptahserver.go:1606-1630, soul_recovery_tools.go:109-155).
THEOREM OperatorsRename == Spec => OnlyOperatorsRename
  <1> DEFINE Kept == row # NoRow /\ row.localId # Empty /\ ~Same(row.localId, row'.localId)
                       => corrections' = corrections + 1
  <1>1. RegistryInv /\ [Next]_vars => [Kept]_vars
    <2> SUFFICES ASSUME RegistryInv, Next, row # NoRow, row.localId # Empty,
                        ~Same(row.localId, row'.localId)
                 PROVE  corrections' = corrections + 1
      OBVIOUS
    <2>1. Same(row.localId, row.localId)
      BY DEF Same
    <2>2. row' # row
      BY <2>1
    <2>3. ASSUME NEW c \in Calls, Begin(c) \/ Step(c) \/ Interrupt(c) \/ LoseAnswer(c)
          PROVE  FALSE
      <3>1. pc[c] = "update" /\ ExpectedHolds(c) /\ WriteRow(c, Updated(c))
        BY <2>2, <2>3 DEF Begin, Step, Read, Create, Reread, Update, Interrupt, LoseAnswer,
                          WriteRow
      <3> QED BY <3>1, WritesAgree DEF WriteRow
    <2> QED BY <2>3 DEF Next, Correct
  <1> QED BY <1>1, RegistrySafe, PTL DEF Spec, OnlyOperatorsRename

-----------------------------------------------------------------------------
\* agent_list over the registry.

\* Every set of naturals has a least member.
LEMMA Least ==
  ASSUME NEW S \in SUBSET Nat, S # {}
  PROVE  \E m \in S : \A k \in S : m <= k
  <1> DEFINE R == {p \in Nat \X Nat : p[1] < p[2]}
  <1>1. IsWellFoundedOn(R, Nat)
    BY NatLessThanWellFounded DEF OpToRel
  <1>2. \A i, j \in Nat : i < j => <<i, j>> \in R
    OBVIOUS
  <1> HIDE DEF R
  <1>3. PICK m \in S : \A y \in S : ~ (<<y, m>> \in R)
    BY <1>1, WFMin
  <1>4. ASSUME NEW k \in S PROVE m <= k
    <2>1. ~(k < m)
      BY <1>2, <1>3
    <2> QED BY <2>1
  <1> QED BY <1>3, <1>4

\* The largest of a bounded set of naturals.
LEMMA Largest ==
  ASSUME NEW S \in SUBSET Nat, S # {}, NEW b \in Nat, \A s \in S : s <= b
  PROVE  Max(S) \in S /\ \A s \in S : s <= Max(S)
  <1> DEFINE D == {u \in 0..b : \A s \in S : s <= u}
  <1>1. D \in SUBSET Nat /\ b \in D
    OBVIOUS
  <1>2. PICK m \in D : \A u \in D : m <= u
    BY <1>1, Least
  <1>3. m \in S
    <2> SUFFICES ASSUME m \notin S PROVE FALSE
      OBVIOUS
    <2>0. PICK s \in S : TRUE
      OBVIOUS
    <2>1. s \in Nat /\ s <= m /\ s # m /\ m \in 0..b
      OBVIOUS
    <2>2. \A t \in S : t <= m - 1
      OBVIOUS
    <2>3. m - 1 \in D
      BY <2>1, <2>2
    <2> QED BY <2>1, <2>3, <1>2
  <1>4. \E x \in S : \A s \in S : x >= s
    BY <1>3
  <1> QED BY <1>4 DEF Max

\* How many names there are: the keys of live agents come before those of rows.
Places == Cardinality(Actors \cup AgentIDs)

LEMMA PlaceFacts ==
  /\ Places \in Nat
  /\ \A m \in Actors \cup AgentIDs : Place[m] \in 1..Places /\ LiveKey(m) \in 1..Places
  /\ \A g \in AgentIDs : RowKey(g) = Places + Place[g] /\ RowKey(g) \in Nat
                         /\ RowKey(g) > Places /\ RowKey(g) <= Places + Places
  <1>1. IsFiniteSet(Neighbours \cup {This})
    BY DirectoryAssumption, FS_Union, FS_Singleton
  <1>2. IsFiniteSet(Actors \cup AgentIDs)
    BY <1>1, DirectoryAssumption, FS_Union DEF AgentIDs
  <1>3. Places \in Nat
    BY <1>2, FS_CardinalityType DEF Places
  <1>4. DOMAIN Place = Actors \cup AgentIDs /\ \A m \in Actors \cup AgentIDs : Place[m] \in 1..Places
    BY DirectoryAssumption DEF Places
  <1>5. Cardinality(DOMAIN Place) = Places
    BY <1>4 DEF Places
  <1>6. \A m \in Actors \cup AgentIDs : LiveKey(m) \in 1..Places
    BY <1>4 DEF LiveKey
  <1>7. \A g \in AgentIDs : RowKey(g) = Places + Place[g]
    BY <1>5 DEF RowKey
  <1>8. \A g \in AgentIDs : Place[g] \in 1..Places
    BY <1>4
  <1> QED BY <1>3, <1>4, <1>6, <1>7, <1>8

LEMMA RowsFacts ==
  ASSUME NEW r \in Row \cup {NoRow}
  PROVE  /\ \A e \in Rows(r) : e.agent \in AgentIDs /\ e.actor \in Actors \cup {Nobody}
         /\ \A e, f \in Rows(r) : e.agent = f.agent => e = f
         /\ \A n \in Neighbours : \E e \in Rows(r) : e.agent = n /\ e.actor = NeighbourActor[n]
         /\ \A e \in Rows(r) : e.agent \in Neighbours => e.actor = NeighbourActor[e.agent]
         /\ \A e \in Rows(r) : e.agent = This => r # NoRow /\ e.actor = ActorOf(r)
         /\ r # NoRow => \E e \in Rows(r) : e.agent = This /\ e.actor = ActorOf(r)
         /\ ActorOf(r) \in Actors \cup {Nobody}
  <1>1. ActorOf(r) \in Actors \cup {Nobody}
    BY DEF ActorOf, Row, LocalIDs
  <1>2. \A e \in Rows(r) :
           \/ e.agent \in Neighbours /\ e = [agent |-> e.agent, actor |-> NeighbourActor[e.agent]]
              /\ e.actor = NeighbourActor[e.agent]
           \/ e = [agent |-> This, actor |-> ActorOf(r)] /\ r # NoRow
              /\ e.agent = This /\ e.actor = ActorOf(r)
    BY DEF Rows
  <1>3. ASSUME NEW n \in Neighbours
        PROVE  \E e \in Rows(r) : e.agent = n /\ e.actor = NeighbourActor[n]
    <2>1. [agent |-> n, actor |-> NeighbourActor[n]] \in Rows(r)
      BY DEF Rows
    <2> QED BY <2>1
  <1>4. ASSUME r # NoRow PROVE \E e \in Rows(r) : e.agent = This /\ e.actor = ActorOf(r)
    <2>1. [agent |-> This, actor |-> ActorOf(r)] \in Rows(r)
      BY <1>4 DEF Rows
    <2> QED BY <2>1
  <1> QED BY <1>1, <1>2, <1>3, <1>4, DirectoryAssumption DEF AgentIDs

\* No two entries of a page have one key.
LEMMA EntryKeys ==
  ASSUME NEW r \in Row \cup {NoRow}, NEW alive \in SUBSET Actors
  PROVE  LET E == EntriesOf(Rows(r), alive)
         IN  /\ \A e \in E : e.key \in Nat /\ e.key <= Places + Places
             /\ \A e, f \in E : e.key = f.key => e = f
             /\ \A e \in E : /\ e.agent \in AgentIDs \cup {Nobody}
                             /\ e.actor \in Actors \cup {Nobody}
             /\ \A e \in E, a \in Actors : e.actor = a => e.key = LiveKey(a)
             /\ \A e \in E : e.agent # Nobody =>
                  \E f \in Rows(r) : /\ f.agent = e.agent
                                     /\ e.key = IF f.actor \in alive THEN LiveKey(f.actor)
                                                ELSE RowKey(f.agent)
  <1> DEFINE E == EntriesOf(Rows(r), alive)
             Of(f) == [agent |-> f.agent, actor |-> IF f.actor \in alive THEN f.actor ELSE Nobody,
                       key |-> IF f.actor \in alive THEN LiveKey(f.actor) ELSE RowKey(f.agent)]
             Only(a) == [agent |-> Nobody, actor |-> a, key |-> LiveKey(a)]
  <1>1. \A e \in E :
           \/ \E f \in Rows(r) : HasEntry(f, Rows(r), alive) /\ e = Of(f)
           \/ \E a \in alive : e = Only(a) /\ \A f \in Rows(r) : f.actor # a
    BY DEF EntriesOf
  <1>2. \A f : /\ Of(f).agent = f.agent
               /\ f.actor \in alive => Of(f).actor = f.actor /\ Of(f).key = LiveKey(f.actor)
               /\ f.actor \notin alive => Of(f).actor = Nobody /\ Of(f).key = RowKey(f.agent)
    OBVIOUS
  <1>3. \A a : Only(a).agent = Nobody /\ Only(a).actor = a /\ Only(a).key = LiveKey(a)
    OBVIOUS
  <1> HIDE DEF E, Of, Only
  <1>4. \A e \in E : /\ e.key \in Nat /\ e.key <= Places + Places
                     /\ e.agent \in AgentIDs \cup {Nobody} /\ e.actor \in Actors \cup {Nobody}
    <2> SUFFICES ASSUME NEW e \in E
                 PROVE  /\ e.key \in Nat /\ e.key <= Places + Places
                        /\ e.agent \in AgentIDs \cup {Nobody} /\ e.actor \in Actors \cup {Nobody}
      OBVIOUS
    <2>1. ASSUME NEW f \in Rows(r), e = Of(f)
          PROVE  /\ e.key \in Nat /\ e.key <= Places + Places
                 /\ e.agent \in AgentIDs \cup {Nobody} /\ e.actor \in Actors \cup {Nobody}
      <3>1. f.agent \in AgentIDs /\ (f.actor \in alive => f.actor \in Actors)
        BY RowsFacts
      <3> QED BY <2>1, <3>1, <1>2, PlaceFacts
    <2>2. ASSUME NEW a \in alive, e = Only(a)
          PROVE  /\ e.key \in Nat /\ e.key <= Places + Places
                 /\ e.agent \in AgentIDs \cup {Nobody} /\ e.actor \in Actors \cup {Nobody}
      BY <2>2, <1>3, PlaceFacts
    <2> QED BY <2>1, <2>2, <1>1
  <1>5. \A m, n \in Actors \cup AgentIDs : Place[m] = Place[n] => m = n
    BY DirectoryAssumption
  <1>6. ASSUME NEW e \in E, NEW f \in E, e.key = f.key PROVE e = f
    <2>1. ASSUME NEW g \in Rows(r), HasEntry(g, Rows(r), alive), e = Of(g),
                 NEW h \in Rows(r), HasEntry(h, Rows(r), alive), f = Of(h)
          PROVE  e = f
      <3>1. g.agent \in AgentIDs /\ h.agent \in AgentIDs
            /\ Place[g.agent] \in Int /\ Place[h.agent] \in Int
        BY RowsFacts, PlaceFacts
      <3>2. CASE g.actor \in alive /\ h.actor \in alive
        <4>1. g.actor = h.actor
          BY <1>2, <1>5, <1>6, <2>1, <3>2 DEF LiveKey
        <4>2. ~(Place[g.agent] < Place[h.agent]) /\ ~(Place[h.agent] < Place[g.agent])
          BY <2>1, <3>2, <4>1 DEF HasEntry
        <4>3. g.agent = h.agent
          BY <3>1, <4>2, <1>5
        <4> QED BY <4>3, RowsFacts, <2>1
      <3>3. CASE g.actor \notin alive /\ h.actor \notin alive
        <4>1. Place[g.agent] = Place[h.agent]
          BY <1>2, <1>6, <2>1, <3>1, <3>3, PlaceFacts
        <4> QED BY <4>1, <3>1, <1>5, RowsFacts, <2>1
      <3>4. CASE g.actor \in alive <=> h.actor \notin alive
        BY <1>2, <1>6, <2>1, <3>1, <3>4, PlaceFacts
      <3> QED BY <3>2, <3>3, <3>4
    <2>2. \A g \in Rows(r), a \in alive :
             Of(g).key = Only(a).key => g.actor = a
      <3> SUFFICES ASSUME NEW g \in Rows(r), NEW a \in alive, Of(g).key = Only(a).key
                   PROVE  g.actor = a
        OBVIOUS
      <3>1. g.agent \in AgentIDs /\ a \in Actors
        BY RowsFacts
      <3>2. g.actor \in alive
        BY <3>1, <1>2, <1>3, PlaceFacts
      <3> QED BY <3>2, <1>2, <1>3, <1>5 DEF LiveKey
    <2>3. ASSUME NEW a \in alive, NEW b \in alive, e = Only(a), f = Only(b) PROVE e = f
      BY <2>3, <1>3, <1>5, <1>6 DEF LiveKey
    <2> QED BY <2>1, <2>2, <2>3, <1>1, <1>6
  <1>7. \A e \in E, a \in Actors : e.actor = a => e.key = LiveKey(a)
    BY <1>1, <1>2, <1>3, DirectoryAssumption
  <1>8. \A e \in E : e.agent # Nobody =>
                  \E f \in Rows(r) : /\ f.agent = e.agent
                                     /\ e.key = IF f.actor \in alive THEN LiveKey(f.actor)
                                                ELSE RowKey(f.agent)
    BY <1>1, <1>2, <1>3
  <1> QED BY <1>4, <1>6, <1>7, <1>8 DEF E

\* A live agent has one entry, whatever the rows are.
LEMMA LiveIsListed ==
  ASSUME NEW r \in Row \cup {NoRow}, NEW alive \in SUBSET Actors, NEW a \in alive
  PROVE  \E e \in EntriesOf(Rows(r), alive) : e.actor = a
  <1> DEFINE Naming == {f \in Rows(r) : f.actor = a}
  <1>1. CASE Naming = {}
    <2>1. [agent |-> Nobody, actor |-> a, key |-> LiveKey(a)] \in EntriesOf(Rows(r), alive)
      BY <1>1 DEF EntriesOf
    <2> QED BY <2>1
  <1>2. CASE Naming # {}
    <2> DEFINE P == {Place[f.agent] : f \in Naming}
    <2>1. P \in SUBSET Nat /\ P # {}
      BY <1>2, RowsFacts, PlaceFacts
    <2>2. PICK m \in P : \A k \in P : m <= k
      BY <2>1, Least
    <2>3. PICK f \in Naming : m = Place[f.agent]
      BY <2>2
    <2>4. f \in Rows(r) /\ f.actor = a
      BY <2>3
    <2>5. ASSUME NEW g \in Rows(r), g.actor = f.actor PROVE ~(Place[g.agent] < Place[f.agent])
      <3>1. Place[g.agent] \in P
        BY <2>4, <2>5
      <3>2. m <= Place[g.agent] /\ m \in Nat /\ Place[g.agent] \in Nat
        BY <3>1, <2>2, <2>1
      <3> QED BY <3>2, <2>3
    <2>6. HasEntry(f, Rows(r), alive)
      BY <2>5 DEF HasEntry
    <2>7. [agent |-> f.agent, actor |-> f.actor, key |-> LiveKey(f.actor)]
             \in EntriesOf(Rows(r), alive)
      BY <2>4, <2>6 DEF EntriesOf
    <2> QED BY <2>4, <2>7
  <1> QED BY <1>1, <1>2

\* A row whose actor no other row names has an entry.
LEMMA RowIsListed ==
  ASSUME NEW r \in Row \cup {NoRow}, NEW alive \in SUBSET Actors, NEW f \in Rows(r),
         f.actor \in alive => \A g \in Rows(r) : g.actor = f.actor => g = f
  PROVE  \E e \in EntriesOf(Rows(r), alive) : e.agent = f.agent
  <1>1. Place[f.agent] \in Nat
    BY RowsFacts, PlaceFacts
  <1>2. HasEntry(f, Rows(r), alive)
    BY <1>1 DEF HasEntry
  <1> DEFINE e == [agent |-> f.agent, actor |-> IF f.actor \in alive THEN f.actor ELSE Nobody,
                   key |-> IF f.actor \in alive THEN LiveKey(f.actor) ELSE RowKey(f.agent)]
  <1>3. e \in EntriesOf(Rows(r), alive) /\ e.agent = f.agent
    BY <1>2 DEF EntriesOf
  <1> QED BY <1>3

\* A page ends at its last key: it holds the entries up to that key and no others,
\* and a page that is not the last one is not empty.
LEMMA PageIsAPrefix ==
  ASSUME NEW rest, NEW limit \in Nat \ {0}, NEW b \in Nat,
         \A e \in rest : e.key \in Nat /\ e.key <= b,
         \A e, f \in rest : e.key = f.key => e = f,
         NEW page, page = {e \in rest : Cardinality({f \in rest : f.key <= e.key}) <= limit},
         page # rest
  PROVE  LET last == Max({e.key : e \in page})
         IN  /\ last \in {e.key : e \in page}
             /\ \A e \in rest : e \in page <=> e.key <= last
  <1> DEFINE UpTo(k) == {f \in rest : f.key <= k}
             keyOf == [e \in rest |-> e.key]
             keys == {e.key : e \in rest}
             shown == {e.key : e \in page}
             last == Max(shown)
  <1>1. IsFiniteSet(rest)
    <2>1. keyOf \in [rest -> 0..b] /\ \A e, f \in rest : keyOf[e] = keyOf[f] => e = f
      OBVIOUS
    <2>2. keyOf \in Injection(rest, 0..b)
      BY <2>1 DEF Injection, IsInjective
    <2> QED BY <2>2, FS_Injection, FS_Interval
  <1>2. \A k : \A e \in rest : e \in UpTo(k) <=> e.key <= k
    OBVIOUS
  <1>3. ASSUME NEW j \in Nat, NEW k \in Nat, j <= k
        PROVE  /\ Cardinality(UpTo(j)) \in Nat /\ Cardinality(UpTo(k)) \in Nat
               /\ Cardinality(UpTo(j)) <= Cardinality(UpTo(k))
    <2>1. UpTo(k) \in SUBSET rest /\ UpTo(j) \in SUBSET UpTo(k)
      BY <1>3
    <2>2. IsFiniteSet(UpTo(k)) /\ IsFiniteSet(UpTo(j))
      BY <1>1, <2>1, FS_Subset
    <2> QED BY <2>1, <2>2, FS_Subset, FS_CardinalityType
  <1>4. \A e \in rest : e \in page <=> Cardinality(UpTo(e.key)) <= limit
    OBVIOUS
  <1>5. page # {}
    <2>1. keys \in SUBSET Nat /\ keys # {}
      OBVIOUS
    <2>2. PICK m \in keys : \A k \in keys : m <= k
      BY <2>1, Least
    <2>3. PICK e \in rest : e.key = m
      BY <2>2
    <2>4. UpTo(e.key) = {e}
      BY <2>2, <2>3
    <2>5. Cardinality(UpTo(e.key)) = 1
      BY <2>4, FS_Singleton
    <2>6. 1 <= limit
      OBVIOUS
    <2> QED BY <2>5, <2>6, <1>4
  <1>6. shown \in SUBSET Nat /\ shown # {} /\ \A k \in shown : k <= b
    <2>1. page \in SUBSET rest
      OBVIOUS
    <2>2. PICK e \in page : TRUE
      BY <1>5
    <2>3. e.key \in shown
      OBVIOUS
    <2>4. ASSUME NEW k \in shown PROVE k \in Nat /\ k <= b
      <3>1. PICK f \in page : k = f.key
        OBVIOUS
      <3> QED BY <3>1, <2>1
    <2> QED BY <2>3, <2>4
  <1>7. last \in shown /\ \A k \in shown : k <= last
    BY <1>6, Largest
  <1>8. PICK p \in page : p.key = last
    BY <1>7
  <1>9. ASSUME NEW e \in rest PROVE e \in page <=> e.key <= last
    <2>1. e \in page => e.key <= last
      BY <1>7
    <2>2. ASSUME e.key <= last PROVE e \in page
      <3>1. p \in rest /\ Cardinality(UpTo(p.key)) <= limit
        BY <1>4, <1>8
      <3>2. Cardinality(UpTo(e.key)) \in Nat /\ Cardinality(UpTo(p.key)) \in Nat
            /\ Cardinality(UpTo(e.key)) <= Cardinality(UpTo(p.key))
        <4>1. e.key \in Nat /\ p.key \in Nat /\ e.key <= p.key
          BY <2>2, <3>1, <1>8
        <4> HIDE DEF UpTo
        <4> QED BY <4>1, <1>3
      <3>3. Cardinality(UpTo(e.key)) <= limit
        BY <3>1, <3>2
      <3> QED BY <3>3, <1>4
    <2> QED BY <2>1, <2>2
  <1> QED BY <1>7, <1>9

\* The types of the walk and of what it reads.
WalkType ==
  /\ live \in SUBSET Actors
  /\ replica \in Row \cup {NoRow}
  /\ walk \in [pc : {"idle", "registry", "live", "done"}, rows : Row \cup {NoRow},
               cursor : Nat, shown : SUBSET (Actors \cup AgentIDs),
               twice : SUBSET (Actors \cup AgentIDs), steady : SUBSET (Actors \cup AgentIDs)]
  /\ walk.pc = "idle" => walk.steady = {}

\* The key that agent x has, as long as it stays as it is.
ActorNow(g) == IF g = This THEN ActorOf(row) ELSE NeighbourActor[g]
KeyOf(x) == IF x \in Actors THEN LiveKey(x)
            ELSE IF ActorNow(x) \in live THEN LiveKey(ActorNow(x)) ELSE RowKey(x)

\* The versions of the row that a page of this walk may still be made from.
Versions == {row, replica} \cup {r \in {walk.rows} : walk.pc = "live"}

\* An agent stays steady only while it is live, and a row while every version
\* of the rows has one actor for it that no other row names.
SteadyIsKept ==
  /\ \A a \in walk.steady \cap Actors : a \in live
  /\ \A n \in walk.steady \cap Neighbours :
       /\ \A r \in Versions : ActorOf(r) # NeighbourActor[n]
       /\ \A m \in Neighbours \ {n} : NeighbourActor[m] # NeighbourActor[n]
  /\ This \in walk.steady =>
       /\ \A r \in Versions : r # NoRow /\ ActorOf(r) = ActorOf(row)
       /\ \A m \in Neighbours : NeighbourActor[m] # ActorOf(row)

\* Between two pages, the steady agents shown are those whose key the cursor passed.
ShownUpToCursor ==
  /\ walk.pc \in {"registry", "live"} =>
       \A x \in walk.steady : x \in walk.shown <=> KeyOf(x) <= walk.cursor
  /\ ListedOnce

WalkInv == RegistryInv /\ WalkType /\ SteadyIsKept /\ ShownUpToCursor

LEMMA WalkInitInv == DirectoryInit => WalkInv
  <1> SUFFICES ASSUME DirectoryInit PROVE WalkInv
    OBVIOUS
  <1>1. /\ walk.pc = "idle" /\ walk.steady = {} /\ walk.twice = {} /\ walk.rows = NoRow
        /\ walk \in [pc : {"idle", "registry", "live", "done"}, rows : Row \cup {NoRow},
                     cursor : Nat, shown : SUBSET (Actors \cup AgentIDs),
                     twice : SUBSET (Actors \cup AgentIDs), steady : SUBSET (Actors \cup AgentIDs)]
    BY DEF DirectoryInit, NoWalk
  <1>2. RegistryInv
    BY InitInv DEF DirectoryInit
  <1>3. WalkType /\ SteadyIsKept
    BY <1>1 DEF DirectoryInit, WalkType, SteadyIsKept
  <1>4. ShownUpToCursor
    BY <1>1 DEF ShownUpToCursor, ListedOnce
  <1> QED BY <1>2, <1>3, <1>4 DEF WalkInv

\* What a page shows of a steady agent: one entry, under its present key.
LEMMA SteadyIsListed ==
  ASSUME WalkInv, walk.pc = "live", NEW x \in walk.steady
  PROVE  LET E == EntriesOf(Rows(walk.rows), live)
         IN  /\ \E e \in E : x \in {e.agent, e.actor}
             /\ \A e \in E : x \in {e.agent, e.actor} => e.key = KeyOf(x)
  <1> DEFINE r == walk.rows
             E == EntriesOf(Rows(r), live)
  <1>1. /\ r \in Row \cup {NoRow} /\ live \in SUBSET Actors /\ r \in Versions
        /\ x \in Actors \cup AgentIDs
    BY DEF WalkInv, WalkType, Versions
  <1>2. \A e \in E : e.agent \in AgentIDs \cup {Nobody} /\ e.actor \in Actors \cup {Nobody}
    BY <1>1, EntryKeys
  <1>3. AgentIDs \cap Actors = {} /\ Nobody \notin Actors \cup AgentIDs /\ This \notin Neighbours
    BY DirectoryAssumption
  <1>4. CASE x \in Actors
    <2>1. x \in live
      BY <1>4 DEF WalkInv, SteadyIsKept
    <2>2. \E e \in E : e.actor = x
      BY <1>1, <2>1, LiveIsListed
    <2>3. \A e \in E : e.actor = x => e.key = LiveKey(x)
      BY <1>1, <1>4, EntryKeys
    <2>4. \A e \in E : e.agent # x
      BY <1>2, <1>3, <1>4
    <2> QED BY <2>2, <2>3, <2>4, <1>4 DEF KeyOf
  <1>5. CASE x \in AgentIDs
    <2>1. PICK f \in Rows(r) : f.agent = x /\ f.actor = ActorNow(x)
      <3>1. CASE x \in Neighbours
        BY <3>1, <1>1, <1>3, RowsFacts DEF ActorNow
      <3>2. CASE x = This
        <4>1. r # NoRow /\ ActorOf(r) = ActorOf(row)
          BY <3>2, <1>1 DEF WalkInv, SteadyIsKept
        <4> QED BY <4>1, <3>2, <1>1, RowsFacts DEF ActorNow
      <3> QED BY <3>1, <3>2, <1>5 DEF AgentIDs
    <2>2. \A g \in Rows(r) : g.actor = f.actor => g = f
      <3> SUFFICES ASSUME NEW g \in Rows(r), g.actor = f.actor PROVE g.agent = f.agent
        BY <1>1, RowsFacts
      <3>0. \A h \in Rows(r) : /\ h.agent \in Neighbours \/ h.agent = This
                               /\ h.agent \in Neighbours => h.actor = NeighbourActor[h.agent]
                               /\ h.agent = This => h.actor = ActorOf(r)
        BY <1>1, RowsFacts DEF AgentIDs
      <3>1. CASE x \in Neighbours
        <4>1. /\ ActorOf(r) # NeighbourActor[x]
              /\ \A m \in Neighbours \ {x} : NeighbourActor[m] # NeighbourActor[x]
          BY <3>1, <1>1 DEF WalkInv, SteadyIsKept
        <4> QED BY <3>0, <4>1, <3>1, <2>1
      <3>2. CASE x = This
        <4>1. \A m \in Neighbours : NeighbourActor[m] # ActorOf(r)
          BY <3>2, <1>1 DEF WalkInv, SteadyIsKept
        <4> QED BY <3>0, <4>1, <3>2, <2>1
      <3> QED BY <3>1, <3>2, <1>5 DEF AgentIDs
    <2>3. \E e \in E : e.agent = x
      BY <1>1, <2>1, <2>2, RowIsListed
    <2>4. ASSUME NEW e \in E, e.agent = x PROVE e.key = KeyOf(x)
      <3>1. PICK g \in Rows(r) : /\ g.agent = e.agent
                                 /\ e.key = IF g.actor \in live THEN LiveKey(g.actor)
                                            ELSE RowKey(g.agent)
        BY <1>1, <1>3, <1>5, <2>4, EntryKeys
      <3>2. g = f
        BY <3>1, <2>1, <2>4, <1>1, RowsFacts
      <3> QED BY <3>1, <3>2, <2>1, <1>3, <1>5 DEF KeyOf
    <2>5. \A e \in E : e.actor # x
      BY <1>2, <1>3, <1>5
    <2> QED BY <2>3, <2>4, <2>5
  <1> QED BY <1>1, <1>4, <1>5

\* A step that shows nothing and leaves the keys of what stays steady.
LEMMA OffPageKeepsShown ==
  ASSUME WalkInv,
         walk'.pc \in {"registry", "live"} => walk.pc \in {"registry", "live"},
         walk'.pc = "done" => walk.pc = "done",
         walk'.shown = walk.shown, walk'.twice = walk.twice, walk'.cursor = walk.cursor,
         walk'.steady \subseteq walk.steady,
         \A x \in walk'.steady : KeyOf(x)' = KeyOf(x)
  PROVE  ShownUpToCursor'
  BY DEF WalkInv, ShownUpToCursor, ListedOnce

\* The registry never loses a row.
LEMMA RowNeverGoes == RegistryInv /\ Next /\ row # NoRow => row' # NoRow
  <1> SUFFICES ASSUME RegistryInv, Next, row # NoRow, row' = NoRow PROVE FALSE
    OBVIOUS
  <1> USE NoRowAssumption
  <1>1. CASE Correct
    <2>1. row' \in Row
      BY <1>1 DEF Correct, Row, RegistryInv, TypeOK
    <2> QED BY <2>1
  <1>2. ASSUME NEW c \in Calls, Step(c) \/ LoseAnswer(c), pc[c] \in {"create", "update"},
               row' # row
        PROVE  FALSE
    <2>1. row' \in Row
      BY <1>2, WritesAgree
      DEF Step, Read, Create, Reread, Update, LoseAnswer, WriteRow
    <2> QED BY <2>1
  <1>3. ASSUME NEW c \in Calls, Begin(c) \/ Step(c) \/ Interrupt(c) \/ LoseAnswer(c)
        PROVE  \/ row' = row
               \/ (Step(c) \/ LoseAnswer(c)) /\ pc[c] \in {"create", "update"}
    BY <1>3 DEF Begin, Step, Read, Create, Reread, Update, Interrupt, LoseAnswer
  <1> QED BY <1>1, <1>2, <1>3 DEF Next

LEMMA RegistryStepKeepsWalk ==
  ASSUME WalkInv, RegistryStep PROVE WalkInv'
  <1> DEFINE gone == IF ActorOf(row') = ActorOf(row) THEN {}
                     ELSE {e.agent : e \in {e \in Rows(row') : e.agent = This \/ e.actor = ActorOf(row')}}
  <1>0. Next /\ RegistryInv /\ RegistryInv'
    BY NextInv DEF RegistryStep, WalkInv
  <1>1. /\ row \in Row \cup {NoRow} /\ row' \in Row \cup {NoRow}
        /\ row # NoRow => row' # NoRow
    BY <1>0, RowNeverGoes DEF RegistryInv, TypeOK
  <1>2. /\ walk' = [walk EXCEPT !.steady = @ \ gone]
        /\ UNCHANGED <<live, replica>>
    BY DEF RegistryStep
  <1>3. ASSUME ActorOf(row') # ActorOf(row)
        PROVE  /\ row' # NoRow => This \in gone
               /\ \A n \in Neighbours : NeighbourActor[n] = ActorOf(row') => n \in gone
    <2>1. row' # NoRow => \E e \in Rows(row') : e.agent = This
      BY <1>1, RowsFacts
    <2>2. \A n \in Neighbours : \E e \in Rows(row') : e.agent = n /\ e.actor = NeighbourActor[n]
      BY <1>1, RowsFacts
    <2> QED BY <2>1, <2>2, <1>3
  <1> HIDE DEF gone
  <1>4. /\ walk'.pc = walk.pc /\ walk'.rows = walk.rows /\ walk'.cursor = walk.cursor
        /\ walk'.shown = walk.shown /\ walk'.twice = walk.twice
        /\ walk'.steady = walk.steady \ gone
    BY <1>2 DEF WalkInv, WalkType
  <1>5. WalkType'
    <2>1. walk' \in [pc : {"idle", "registry", "live", "done"}, rows : Row \cup {NoRow},
                     cursor : Nat, shown : SUBSET (Actors \cup AgentIDs),
                     twice : SUBSET (Actors \cup AgentIDs), steady : SUBSET (Actors \cup AgentIDs)]
      BY <1>2 DEF WalkInv, WalkType
    <2> QED BY <2>1, <1>2, <1>4 DEF WalkInv, WalkType
  <1>6. This \in walk'.steady => ActorOf(row') = ActorOf(row) /\ row # NoRow /\ row' # NoRow
    BY <1>1, <1>3, <1>4 DEF WalkInv, SteadyIsKept, Versions
  <1>7. \A n \in walk'.steady \cap Neighbours : ActorOf(row') # NeighbourActor[n]
    <2> SUFFICES ASSUME NEW n \in walk'.steady \cap Neighbours PROVE ActorOf(row') # NeighbourActor[n]
      OBVIOUS
    <2>1. ActorOf(row) # NeighbourActor[n]
      BY <1>4 DEF WalkInv, SteadyIsKept, Versions
    <2> QED BY <2>1, <1>3, <1>4
  <1>8. Versions' \subseteq Versions \cup {row'}
    BY <1>2, <1>4 DEF Versions
  <1>9. SteadyIsKept'
    BY <1>2, <1>4, <1>6, <1>7, <1>8 DEF WalkInv, SteadyIsKept
  <1>10. \A x \in walk'.steady : KeyOf(x)' = KeyOf(x)
    BY <1>2, <1>6 DEF KeyOf, ActorNow
  <1>11. ShownUpToCursor'
    BY <1>4, <1>10, OffPageKeepsShown
  <1> QED BY <1>0, <1>5, <1>9, <1>11 DEF WalkInv

LEMMA ComeOrGoKeepsWalk ==
  ASSUME WalkInv, NEW a \in Actors, ComeOrGo(a) PROVE WalkInv'
  <1> DEFINE gone == {a} \cup {e.agent : e \in {e \in Rows(row) : e.actor = a}}
  <1>0. RegistryInv /\ RegistryInv' /\ UNCHANGED vars
    <2>1. UNCHANGED vars /\ RegistryInv
      BY DEF ComeOrGo, WalkInv
    <2> QED BY <2>1, NextInv
  <1>1. row \in Row \cup {NoRow} /\ row' = row
    BY <1>0 DEF RegistryInv, TypeOK, vars
  <1>2. /\ walk' = [walk EXCEPT !.steady = @ \ gone] /\ UNCHANGED replica
        /\ live' = IF a \in live THEN live \ {a} ELSE live \cup {a}
    BY DEF ComeOrGo
  <1>3. /\ a \in gone
        /\ row # NoRow /\ ActorOf(row) = a => This \in gone
        /\ \A n \in Neighbours : NeighbourActor[n] = a => n \in gone
    <2>1. row # NoRow => \E e \in Rows(row) : e.agent = This /\ e.actor = ActorOf(row)
      BY <1>1, RowsFacts
    <2>2. \A n \in Neighbours : \E e \in Rows(row) : e.agent = n /\ e.actor = NeighbourActor[n]
      BY <1>1, RowsFacts
    <2> QED BY <2>1, <2>2
  <1> HIDE DEF gone
  <1>4. /\ walk'.pc = walk.pc /\ walk'.rows = walk.rows /\ walk'.cursor = walk.cursor
        /\ walk'.shown = walk.shown /\ walk'.twice = walk.twice
        /\ walk'.steady = walk.steady \ gone
    BY <1>2 DEF WalkInv, WalkType
  <1>5. WalkType'
    <2>1. walk' \in [pc : {"idle", "registry", "live", "done"}, rows : Row \cup {NoRow},
                     cursor : Nat, shown : SUBSET (Actors \cup AgentIDs),
                     twice : SUBSET (Actors \cup AgentIDs), steady : SUBSET (Actors \cup AgentIDs)]
      BY <1>2 DEF WalkInv, WalkType
    <2>2. live' \in SUBSET Actors
      BY <1>2 DEF WalkInv, WalkType
    <2> QED BY <2>1, <2>2, <1>2, <1>4 DEF WalkInv, WalkType
  <1>6. Versions' = Versions
    BY <1>1, <1>2, <1>4 DEF Versions
  <1>7. SteadyIsKept'
    BY <1>1, <1>2, <1>3, <1>4, <1>6 DEF WalkInv, SteadyIsKept
  <1>8. ASSUME NEW x \in walk'.steady PROVE KeyOf(x)' = KeyOf(x)
    <2>1. x \in walk.steady /\ x \notin gone /\ x \in Actors \cup AgentIDs
      BY <1>4 DEF WalkInv, WalkType
    <2>2. ActorNow(x)' = ActorNow(x)
      BY <1>1 DEF ActorNow
    <2>3. x \notin Actors => ActorNow(x) # a
      BY <1>3, <2>1 DEF ActorNow, AgentIDs, WalkInv, SteadyIsKept, Versions
    <2>4. \A b : b # a => (b \in live' <=> b \in live)
      BY <1>2
    <2> QED BY <2>2, <2>3, <2>4 DEF KeyOf
  <1>9. ShownUpToCursor'
    BY <1>4, <1>8, OffPageKeepsShown
  <1> QED BY <1>0, <1>5, <1>7, <1>9 DEF WalkInv

LEMMA StartKeepsWalk ==
  ASSUME WalkInv, StartWalk PROVE WalkInv'
  <1>0. UNCHANGED <<vars, live, replica>> /\ RegistryInv /\ RegistryInv'
    BY NextInv DEF StartWalk, WalkInv
  <1>1. /\ row \in Row \cup {NoRow} /\ row' = row /\ live' = live /\ replica' = replica
        /\ live \in SUBSET Actors
    BY <1>0 DEF RegistryInv, TypeOK, vars, WalkInv, WalkType
  <1>2. live \cup Unshared \subseteq Actors \cup AgentIDs
    BY <1>1 DEF Unshared, AgentIDs
  <1>3. /\ walk'.pc = "registry" /\ walk'.cursor = 0 /\ walk'.shown = {} /\ walk'.twice = {}
        /\ walk'.steady = live \cup Unshared
        /\ walk' \in [pc : {"idle", "registry", "live", "done"}, rows : Row \cup {NoRow},
                      cursor : Nat, shown : SUBSET (Actors \cup AgentIDs),
                      twice : SUBSET (Actors \cup AgentIDs), steady : SUBSET (Actors \cup AgentIDs)]
    <2> DEFINE s == live \cup Unshared
    <2>1. walk' = [pc |-> "registry", rows |-> NoRow, cursor |-> 0,
                   shown |-> {}, twice |-> {}, steady |-> s]
      BY DEF StartWalk, NoWalk
    <2>2. s \in SUBSET (Actors \cup AgentIDs)
      BY <1>2
    <2> HIDE DEF s
    <2>3. /\ walk'.pc = "registry" /\ walk'.cursor = 0 /\ walk'.shown = {} /\ walk'.twice = {}
          /\ walk'.steady = s
          /\ walk' \in [pc : {"idle", "registry", "live", "done"}, rows : Row \cup {NoRow},
                        cursor : Nat, shown : SUBSET (Actors \cup AgentIDs),
                        twice : SUBSET (Actors \cup AgentIDs), steady : SUBSET (Actors \cup AgentIDs)]
      BY <2>1, <2>2
    <2> QED BY <2>3 DEF s
  <1>4. WalkType'
    BY <1>1, <1>3 DEF WalkInv, WalkType
  <1>5. Versions' = {row, replica}
    BY <1>1, <1>3 DEF Versions
  <1>6. Neighbours \cap Actors = {} /\ This \notin Actors /\ This \notin Neighbours
    BY DirectoryAssumption DEF AgentIDs
  <1>7. SteadyIsKept'
    <2>1. \A b \in walk'.steady \cap Actors : b \in live'
      BY <1>1, <1>3, <1>6 DEF Unshared
    <2>2. \A n \in walk'.steady \cap Neighbours : n \in Unshared
      BY <1>1, <1>3, <1>6
    <2>3. This \in walk'.steady => This \in Unshared
      BY <1>1, <1>3, <1>6
    <2> QED BY <2>1, <2>2, <2>3, <1>1, <1>5, <1>6 DEF SteadyIsKept, Unshared
  <1>8. ASSUME NEW x \in walk'.steady PROVE KeyOf(x)' \in Nat /\ KeyOf(x)' > 0
    <2>1. x \in Actors \cup AgentIDs
      BY <1>2, <1>3
    <2>2. \A b \in live' : LiveKey(b) \in Nat /\ LiveKey(b) > 0
      BY <1>1, PlaceFacts
    <2> QED BY <2>1, <2>2, PlaceFacts DEF KeyOf
  <1>9. ShownUpToCursor'
    BY <1>3, <1>8 DEF ShownUpToCursor, ListedOnce
  <1> QED BY <1>0, <1>4, <1>7, <1>9 DEF WalkInv

\* Reading the registry, failing to read the live agents, and replication.
LEMMA ReadsKeepWalk ==
  ASSUME WalkInv, ReadRegistry \/ LiveSourceFails \/ Replicate
  PROVE  WalkInv'
  <1>0. UNCHANGED <<vars, live>> /\ RegistryInv /\ RegistryInv'
    BY NextInv DEF ReadRegistry, LiveSourceFails, Replicate, WalkInv
  <1>1. /\ row \in Row \cup {NoRow} /\ row' = row /\ live' = live
        /\ replica' \in {row, replica}
    BY <1>0 DEF RegistryInv, TypeOK, vars, ReadRegistry, LiveSourceFails, Replicate
  <1>2. /\ walk'.cursor = walk.cursor /\ walk'.shown = walk.shown /\ walk'.twice = walk.twice
        /\ walk'.steady = walk.steady
        /\ walk' = walk \/ (/\ walk.pc \in {"registry", "live"} /\ walk'.pc \in {"registry", "live"}
                            /\ walk'.pc = "live" => walk'.rows \in {row, replica})
    BY DEF WalkInv, WalkType, ReadRegistry, LiveSourceFails, Replicate
  <1>3. WalkType'
    <2> DEFINE Type == [pc : {"idle", "registry", "live", "done"}, rows : Row \cup {NoRow},
                        cursor : Nat, shown : SUBSET (Actors \cup AgentIDs),
                        twice : SUBSET (Actors \cup AgentIDs),
                        steady : SUBSET (Actors \cup AgentIDs)]
    <2>1. walk \in Type /\ replica \in Row \cup {NoRow} /\ live \in SUBSET Actors
      BY DEF WalkInv, WalkType
    <2>2. \A r \in Row \cup {NoRow} : [walk EXCEPT !.pc = "live", !.rows = r] \in Type
      BY <2>1
    <2>3. [walk EXCEPT !.pc = "registry", !.rows = NoRow] \in Type
      BY <2>1
    <2> HIDE DEF Type
    <2>4. walk' \in Type
      BY <1>1, <2>1, <2>2, <2>3 DEF ReadRegistry, LiveSourceFails, Replicate
    <2>5. walk'.pc = "idle" => walk'.steady = {}
      BY <1>2 DEF WalkInv, WalkType
    <2> QED BY <1>1, <2>1, <2>4, <2>5 DEF WalkType, Type
  <1>4. ASSUME NEW r \in Versions' PROVE r \in Versions
    <2>1. r \in {row', replica'} \/ (r = walk'.rows /\ walk'.pc = "live")
      BY DEF Versions
    <2>2. {row, replica} \subseteq Versions /\ (walk.pc = "live" => walk.rows \in Versions)
      BY DEF Versions
    <2>3. CASE walk' = walk
      BY <2>1, <2>2, <2>3, <1>1
    <2>4. CASE walk' # walk
      BY <2>1, <2>2, <2>4, <1>1, <1>2
    <2> QED BY <2>3, <2>4
  <1>5. Versions' \subseteq Versions
    BY <1>4
  <1>6. SteadyIsKept'
    BY <1>1, <1>2, <1>5 DEF WalkInv, SteadyIsKept
  <1>7. \A x \in walk'.steady : KeyOf(x)' = KeyOf(x)
    BY <1>1 DEF KeyOf, ActorNow
  <1>8. /\ walk'.pc \in {"registry", "live"} => walk.pc \in {"registry", "live"}
        /\ walk'.pc = "done" => walk.pc = "done"
    BY <1>2
  <1>9. ShownUpToCursor'
    BY <1>2, <1>7, <1>8, OffPageKeepsShown
  <1> QED BY <1>0, <1>3, <1>6, <1>9 DEF WalkInv

LEMMA PageKeepsWalk ==
  ASSUME WalkInv, NEW limit \in Limits, ShowPage(limit) PROVE WalkInv'
  <1> DEFINE E == EntriesOf(Rows(walk.rows), live)
             rest == After(E, walk.cursor)
             page == {e \in rest : Cardinality({f \in rest : f.key <= e.key}) <= limit}
             last == Max({e.key : e \in page})
             next == IF page = rest THEN 0 ELSE last
  <1>0. UNCHANGED <<vars, live, replica>> /\ RegistryInv /\ RegistryInv' /\ walk.pc = "live"
    BY NextInv DEF ShowPage, WalkInv
  <1>1. /\ row' = row /\ live' = live /\ replica' = replica /\ live \in SUBSET Actors
        /\ walk.rows \in Row \cup {NoRow} /\ walk.cursor \in Nat
        /\ walk.steady \subseteq Actors \cup AgentIDs
    BY <1>0 DEF vars, WalkInv, WalkType
  <1>2. walk' = [walk EXCEPT
          !.pc     = IF page = rest THEN "done" ELSE "registry",
          !.rows   = NoRow,
          !.cursor = next,
          !.shown  = @ \cup Names(page),
          !.twice  = @ \cup (walk.shown \cap Names(page))]
    BY DEF ShowPage
  <1>3. /\ \A e \in E : e.key \in Nat /\ e.key <= Places + Places
        /\ \A e, f \in E : e.key = f.key => e = f
        /\ \A e \in E : e.agent \in AgentIDs \cup {Nobody} /\ e.actor \in Actors \cup {Nobody}
    BY <1>1, EntryKeys
  <1> HIDE DEF E
  <1>4. rest \subseteq E /\ \A e \in E : e \in rest <=> e.key > walk.cursor
    BY DEF After
  <1> HIDE DEF rest
  <1>5. page \subseteq rest
    OBVIOUS
  <1>6. ASSUME page # rest
        PROVE  /\ last \in Nat /\ \E e \in page : e.key = last
               /\ \A e \in rest : e \in page <=> e.key <= last
    <2>1. Places + Places \in Nat /\ limit \in Nat \ {0}
      BY PlaceFacts, DirectoryAssumption
    <2>2. \A e \in rest : e.key \in Nat /\ e.key <= Places + Places
      BY <1>3, <1>4
    <2>3. \A e, f \in rest : e.key = f.key => e = f
      BY <1>3, <1>4
    <2>4. last \in {e.key : e \in page} /\ \A e \in rest : e \in page <=> e.key <= last
      BY <2>1, <2>2, <2>3, <1>6, PageIsAPrefix
    <2>5. \A e \in page : e.key \in Nat
      BY <2>2, <1>5
    <2> HIDE DEF last
    <2>6. \E e \in page : e.key = last
      BY <2>4
    <2> HIDE DEF page
    <2> QED BY <2>4, <2>5, <2>6
  <1> HIDE DEF page, last
  <1>7. next \in Nat /\ Names(page) \subseteq Actors \cup AgentIDs
    BY <1>3, <1>4, <1>5, <1>6 DEF Names
  <1> HIDE DEF next
  <1>8. /\ walk'.pc = (IF page = rest THEN "done" ELSE "registry") /\ walk'.cursor = next
        /\ walk'.shown = walk.shown \cup Names(page)
        /\ walk'.twice = walk.twice \cup (walk.shown \cap Names(page))
        /\ walk'.steady = walk.steady
    BY <1>2 DEF WalkInv, WalkType
  <1>9. WalkType'
    <2>1. walk' \in [pc : {"idle", "registry", "live", "done"}, rows : Row \cup {NoRow},
                     cursor : Nat, shown : SUBSET (Actors \cup AgentIDs),
                     twice : SUBSET (Actors \cup AgentIDs), steady : SUBSET (Actors \cup AgentIDs)]
      BY <1>2, <1>7 DEF WalkInv, WalkType
    <2> QED BY <2>1, <1>1, <1>8 DEF WalkInv, WalkType
  <1>10. Versions' \subseteq Versions
    BY <1>1, <1>8 DEF Versions
  <1>11. SteadyIsKept'
    BY <1>1, <1>8, <1>10 DEF WalkInv, SteadyIsKept
  <1>12. ASSUME NEW x \in walk.steady
         PROVE  /\ KeyOf(x)' = KeyOf(x) /\ KeyOf(x) \in Nat
                /\ x \in walk.shown <=> KeyOf(x) <= walk.cursor
                /\ x \in Names(page) => KeyOf(x) > walk.cursor
                /\ page = rest /\ KeyOf(x) > walk.cursor => x \in Names(page)
                /\ page # rest /\ KeyOf(x) > walk.cursor =>
                     (x \in Names(page) <=> KeyOf(x) <= last)
                /\ page # rest => last > walk.cursor
    <2>1. x # Nobody /\ x \in walk.steady
      BY <1>1, DirectoryAssumption
    <2>2. /\ \E e \in E : x \in {e.agent, e.actor}
          /\ \A e \in E : x \in {e.agent, e.actor} => e.key = KeyOf(x)
      BY <1>0, SteadyIsListed DEF E
    <2>3. KeyOf(x) \in Nat
      BY <2>2, <1>3
    <2>4. KeyOf(x)' = KeyOf(x)
      BY <1>1 DEF KeyOf, ActorNow
    <2>5. x \in walk.shown <=> KeyOf(x) <= walk.cursor
      BY <1>0, <2>1 DEF WalkInv, ShownUpToCursor
    <2>6. x \in Names(page) <=> \E e \in page : x \in {e.agent, e.actor}
      BY <2>1 DEF Names
    <2>7. x \in Names(page) => KeyOf(x) > walk.cursor
      BY <2>2, <2>6, <1>4, <1>5
    <2>8. page = rest /\ KeyOf(x) > walk.cursor => x \in Names(page)
      BY <2>2, <2>6, <1>4
    <2>9. page # rest /\ KeyOf(x) > walk.cursor => (x \in Names(page) <=> KeyOf(x) <= last)
      BY <2>2, <2>6, <1>4, <1>5, <1>6
    <2>10. page # rest => last > walk.cursor
      BY <1>4, <1>5, <1>6
    <2> QED BY <2>3, <2>4, <2>5, <2>7, <2>8, <2>9, <2>10
  <1>13. ShownUpToCursor'
    <2>1. \A x \in walk'.steady : x \notin walk'.twice
      BY <1>1, <1>8, <1>12 DEF WalkInv, ShownUpToCursor, ListedOnce
    <2>2. walk'.pc = "done" => walk'.steady \subseteq walk'.shown
      BY <1>1, <1>8, <1>12
    <2>3. walk'.pc \in {"registry", "live"} =>
             \A x \in walk'.steady : x \in walk'.shown <=> KeyOf(x)' <= walk'.cursor
      <3> SUFFICES ASSUME walk'.pc \in {"registry", "live"}, NEW x \in walk'.steady
                   PROVE  x \in walk'.shown <=> KeyOf(x)' <= walk'.cursor
        OBVIOUS
      <3>1. page # rest /\ next = last /\ last \in Nat
        BY <1>8, <1>6 DEF next
      <3> QED BY <3>1, <1>1, <1>8, <1>12
    <2> QED BY <2>1, <2>2, <2>3 DEF ShownUpToCursor, ListedOnce
  <1> QED BY <1>0, <1>9, <1>11, <1>13 DEF WalkInv

\* The directory only reads the registry: what is proved of the registry alone
\* holds while pages are read.
THEOREM DirectoryKeepsRegistry == DirectorySpec => Spec
  <1>1. DirectoryInit => Init
    BY DEF DirectoryInit
  <1>2. [DirectoryNext]_<<vars, directoryVars>> => [Next]_vars
    BY DEF DirectoryNext, RegistryStep, StartWalk, ReadRegistry, LiveSourceFails, ShowPage,
           ComeOrGo, Replicate
  <1> QED BY <1>1, <1>2, PTL DEF DirectorySpec, Spec

\* Whatever comes, goes or is written between the pages of a walk, it lists each
\* agent that stays as it is exactly once (ptahserver.go:940-960).
THEOREM WalksListOnce == DirectorySpec => []ListedOnce
  <1>1. WalkInv /\ [DirectoryNext]_<<vars, directoryVars>> => WalkInv'
    <2> SUFFICES ASSUME WalkInv, [DirectoryNext]_<<vars, directoryVars>> PROVE WalkInv'
      OBVIOUS
    <2>1. CASE UNCHANGED <<vars, directoryVars>>
      <3>1. RegistryInv' /\ row' = row /\ live' = live /\ replica' = replica /\ walk' = walk
        BY <2>1, NextInv DEF WalkInv, vars, directoryVars
      <3> QED BY <3>1 DEF WalkInv, WalkType, SteadyIsKept, ShownUpToCursor, ListedOnce,
                          Versions, KeyOf, ActorNow
    <2>2. CASE DirectoryNext
      BY <2>2, RegistryStepKeepsWalk, StartKeepsWalk, ReadsKeepWalk, PageKeepsWalk,
         ComeOrGoKeepsWalk
      DEF DirectoryNext
    <2> QED BY <2>1, <2>2
  <1>2. WalkInv => ListedOnce
    BY DEF WalkInv, ShownUpToCursor
  <1> QED BY <1>1, <1>2, WalkInitInv, PTL DEF DirectorySpec

=============================================================================
